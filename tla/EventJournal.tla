----------------------------- MODULE EventJournal -----------------------------
(***************************************************************************)
(* What the engine promises about persistence, seen from the database: an  *)
(* at-most-once journal of the events the tasks hand over.                 *)
(*                                                                         *)
(* An event is handed over once.  It is either taken into the bounded      *)
(* pipeline towards the database or discarded on the spot; a pending event *)
(* is, in the order of taking, written to the journal or rejected by the   *)
(* database.  Events of one kind are handed over in ascending order, and a *)
(* trade only after its order.  The journal is closed only with nothing    *)
(* pending; it may be cut off at any time.                                 *)
(***************************************************************************)
EXTENDS Naturals, Sequences, Functions

CONSTANT MaxTicks           \* how many ticks the source has at most

Kinds == {"tick", "signal", "order", "trade"}

\* An event is identified by its kind and the tick it stems from: a tick has
\* at most one signal, a signal one order and an order one trade.
Events == [kind : Kinds, n : 1..MaxTicks]

VARIABLES
    pending,                \* handed over, not yet written: in this order
    journal,                \* the rows of the database, in commit order
    discarded,              \* handed over and never to be written
    status                  \* "open", "closed" (drained) or "cut"

journalVars == <<pending, journal, discarded, status>>

Known == Range(pending) \cup Range(journal) \cup discarded

\* What a producer may hand over next.
Fresh(e) ==
    /\ \A d \in Known : d.kind = e.kind => d.n < e.n
    /\ e.kind = "trade" => [kind |-> "order", n |-> e.n] \in Known

Init ==
    /\ pending = <<>> /\ journal = <<>> /\ discarded = {}
    /\ status = "open"

Take(e) ==
    /\ status = "open" /\ Fresh(e)
    /\ pending' = Append(pending, e)
    /\ UNCHANGED <<journal, discarded, status>>

Discard(e) ==
    /\ status = "open" /\ Fresh(e)
    /\ discarded' = discarded \cup {e}
    /\ UNCHANGED <<pending, journal, status>>

Write ==
    /\ status = "open" /\ pending # <<>>
    /\ journal' = Append(journal, Head(pending))
    /\ pending' = Tail(pending)
    /\ UNCHANGED <<discarded, status>>

Reject ==
    /\ status = "open" /\ pending # <<>>
    /\ discarded' = discarded \cup {Head(pending)}
    /\ pending' = Tail(pending)
    /\ UNCHANGED <<journal, status>>

Close ==
    /\ status = "open" /\ pending = <<>>
    /\ status' = "closed"
    /\ UNCHANGED <<pending, journal, discarded>>

Cut ==
    /\ status = "open"
    /\ status' = "cut"
    /\ UNCHANGED <<pending, journal, discarded>>

Next ==
    \/ \E e \in Events : Take(e) \/ Discard(e)
    \/ Write \/ Reject \/ Close \/ Cut

Spec == Init /\ [][Next]_journalVars
===============================================================================
