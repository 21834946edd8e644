----------------------------- MODULE ClobReadiness -----------------------------
(***************************************************************************)
(* Which Polymarket market to shadow: select_best_clob_candidate of        *)
(* polymarket/clob_readiness.py, its probe of the CLOB with retries, and   *)
(* the cache of probe results.                                             *)
(*                                                                         *)
(* The listing, every reply and the time each takes are the venue's.  A    *)
(* market says whether it is open (order book enabled, accepting orders,   *)
(* neither closed nor restricted), when it ends, how it ranks by liquidity *)
(* and volume, and its YES token, Absent when the token does not parse.    *)
(* `answered` is history: the venue's last word on each token.             *)
(***************************************************************************)
EXTENDS Integers, Sequences, Ranking, TLC

CONSTANTS
    Tokens,         \* YES tokens
    Listings,       \* what the Gamma API may list: sequences of markets
    Absent,         \* no value
    Malformed,      \* a value of another type than expected
    DateOnly,       \* an end date without a time of day
    MaxProbes,      \* max_probes
    MaxRetries,     \* MAX_RETRIES
    MinExpiry,      \* MIN_HOURS_TO_EXPIRY
    ReadyTtl, RetryableTtl, NotReadyTtl,   \* cache_ttl_for
    Delays,         \* what a request may take
    LastMoment      \* bound on the clock

\* A market of the listing; `ends` is a time when the date has a zone.
Markets == [open : BOOLEAN, ends : Nat \cup {Absent, Malformed, DateOnly},
            rank : Int, token : Tokens \cup {Absent}]

ASSUME ReadinessAssumption ==
    /\ {MaxProbes, MaxRetries, MinExpiry, RetryableTtl, NotReadyTtl, LastMoment} \subseteq Nat
    /\ {ReadyTtl} \cup Delays \subseteq Nat \ {0}
    /\ \A value \in {Absent, Malformed, DateOnly} : value \notin Nat
    /\ Listings \subseteq Seq(Markets)

Promised(m) == m.open /\ m.ends \in Nat

\* No two markets that may be selected share a token.
ASSUME TokensAreDistinct ==
    \A markets \in Listings : \A i, j \in DOMAIN markets :
        /\ Promised(markets[i]) /\ Promised(markets[j])
        /\ markets[i].token = markets[j].token /\ markets[i].token # Absent
        => i = j

VARIABLES
    now,
    listing,        \* the answer of discover_gamma_candidates
    queue,          \* filtered_candidates not yet judged
    probes,         \* probes_attempted
    probe,          \* the token being asked for and the attempt, or Absent
    cache,          \* _probe_cache
    verdict,        \* what the latest probe returned, until it is used
    chosen,         \* the market selected, or Absent
    stage,          \* "listing", "probing", "done" or "crashed"
    answered

clobVars == <<now, listing, queue, probes, probe, cache, verdict, chosen, stage, answered>>

------------------------------------------------------------------------------
\* The clock after a wait of d.
Later(d) == IF now + d < LastMoment THEN now + d ELSE LastMoment

\* _is_market_eligible; a date without a zone cannot be compared with now.
IsMarketEligible(m) == m.open /\ m.ends \notin {Absent, Malformed} /\ m.ends >= now + MinExpiry
FilterCrashes(markets) == \E i \in DOMAIN markets : markets[i].open /\ markets[i].ends = DateOnly

\* reverse=True keeps equal markets in their order.
Above(markets) ==
    {p \in (DOMAIN markets) \X (DOMAIN markets) :
        \/ markets[p[1]].rank > markets[p[2]].rank
        \/ markets[p[1]].rank = markets[p[2]].rank /\ p[1] < p[2]}

Eligible(markets) == {i \in DOMAIN markets : IsMarketEligible(markets[i])}

\* The eligible markets, the most liquid first.
MutRanked(markets) ==               \* sorted the wrong way round
    LET places == Ranking(Eligible(markets), {<<p[2], p[1]>> : p \in Above(markets)})
    IN  [p \in DOMAIN places |-> markets[places[p]]]
Ranked(markets) ==
    LET places == Ranking(Eligible(markets), Above(markets))
    IN  [p \in DOMAIN places |-> markets[places[p]]]

\* A probe's status for a final reply.  "lost" stands for a timeout, a broken
\* connection or a body that is not JSON, "busy" for 429 and 5xx.
Status(reply) ==
    CASE reply = "mid" -> "READY"
      [] reply \in {"busy", "lost", "other"} -> "RETRYABLE_ERROR"
      [] reply \in {"no mid", "not found", "invalid"} -> "NOT_READY"

VenueReplies == {"mid", "busy", "lost", "other", "no mid", "not found", "invalid"}
Statuses == {"READY", "RETRYABLE_ERROR", "NOT_READY"}

ASSUME AbsentIsNoRecord ==
    Absent \notin [token : Tokens, attempt : Nat] \cup [token : Tokens, status : Statuses]
                    \cup [status : Statuses, expires : Nat] \cup [reply : VenueReplies, at : Nat]
                    \cup Markets

Ttl(status) ==
    CASE status = "READY" -> ReadyTtl
      [] status = "RETRYABLE_ERROR" -> RetryableTtl
      [] OTHER -> NotReadyTtl

MutCached(token) == cache[token] # Absent      \* what is cached stays
Cached(token) == cache[token] # Absent /\ now < cache[token].expires

\* probe_clob_readiness up to its first request: a cached result is returned,
\* an expired one deleted.
BeginProbe(token) ==
    IF Cached(token)
    THEN /\ verdict' = [token |-> token, status |-> cache[token].status]
         /\ UNCHANGED <<probe, cache>>
    ELSE /\ probe' = [token |-> token, attempt |-> 0]
         /\ cache' = [cache EXCEPT ![token] = Absent]
         /\ UNCHANGED verdict

Retried(reply, attempt) == reply \in {"busy", "lost"} /\ attempt < MaxRetries

\* The rest of it: a reply, after which it backs off and asks again, or returns.
Reply(reply, d) ==
    /\ probe # Absent
    /\ now' = Later(d)
    /\ IF Retried(reply, probe.attempt)
       THEN /\ probe' = [probe EXCEPT !.attempt = @ + 1]
            /\ UNCHANGED <<cache, verdict, answered>>
       ELSE LET t == probe.token
                status == Status(reply)
            IN  /\ probe' = Absent
                /\ verdict' = [token |-> t, status |-> status]
                /\ cache' = [cache EXCEPT ![t] = [status |-> status, expires |-> now' + Ttl(status)]]
                /\ answered' = [answered EXCEPT ![t] = [reply |-> reply, at |-> now']]
    /\ UNCHANGED <<listing, queue, probes, chosen, stage>>

\* A body that is JSON but neither object, list nor string: `"mid" in data`
\* raises, and nothing on the way up catches it.
ReplyCrashes ==
    /\ probe # Absent
    /\ stage' = "crashed"
    /\ probe' = Absent
    /\ UNCHANGED <<now, listing, queue, probes, cache, verdict, chosen, answered>>

------------------------------------------------------------------------------
ClobInit ==
    /\ now = 0
    /\ listing = <<>> /\ queue = <<>> /\ probes = 0
    /\ probe = Absent /\ verdict = Absent
    /\ cache = [t \in Tokens |-> Absent]
    /\ chosen = Absent
    /\ stage = "listing"
    /\ answered = [t \in Tokens |-> Absent]

\* discover_gamma_candidates, an empty listing for every failure, and the filter.
Discover(markets, d) ==
    /\ stage = "listing"
    /\ now' = Later(d)
    /\ listing' = markets
    /\ IF FilterCrashes(markets)
       THEN stage' = "crashed" /\ UNCHANGED queue
       ELSE stage' = "probing" /\ queue' = Ranked(markets)'
    /\ UNCHANGED <<probes, probe, cache, verdict, chosen, answered>>

Idle == stage = "probing" /\ probe = Absent /\ verdict = Absent

\* The next candidate; one whose token does not parse has used a probe.
Consider ==
    /\ Idle /\ queue # <<>> /\ probes < MaxProbes
    /\ probes' = probes + 1
    /\ IF Head(queue).token = Absent
       THEN queue' = Tail(queue) /\ UNCHANGED <<probe, cache, verdict>>
       ELSE BeginProbe(Head(queue).token) /\ UNCHANGED queue
    /\ UNCHANGED <<now, listing, chosen, stage, answered>>

Judge ==
    /\ stage = "probing" /\ verdict # Absent
    /\ verdict' = Absent
    /\ queue' = Tail(queue)
    /\ IF verdict.status = "READY"
       THEN chosen' = Head(queue) /\ stage' = "done"
       ELSE UNCHANGED <<chosen, stage>>
    /\ UNCHANGED <<now, listing, probes, probe, cache, answered>>

Exhausted ==
    /\ Idle /\ (queue = <<>> \/ probes = MaxProbes)
    /\ stage' = "done"
    /\ UNCHANGED <<now, listing, queue, probes, probe, cache, verdict, chosen, answered>>

SelectionStep ==
    \/ \E markets \in Listings, d \in Delays : Discover(markets, d)
    \/ Consider \/ Judge \/ Exhausted
    \/ stage = "probing" /\ (\E reply \in VenueReplies, d \in Delays : Reply(reply, d))
    \/ stage = "probing" /\ ReplyCrashes

------------------------------------------------------------------------------
\* Whoever asks for a verdict gets the venue's last word on the token, and one
\* that has not outlived what its kind is good for, from the cache or not.
VerdictIsRecent ==
    verdict # Absent =>
        LET last == answered[verdict.token]
        IN  /\ last # Absent
            /\ verdict.status = Status(last.reply)
            /\ last.at = now \/ now < last.at + Ttl(verdict.status)

Promising == {i \in DOMAIN listing : Promised(listing[i])}
Better(i) == {j \in Promising : <<j, i>> \in Above(listing)}
Refused(i) ==
    LET t == listing[i].token IN t # Absent => answered[t] # Absent /\ answered[t].reply # "mid"

\* A selection ends with a market the venue called ready and that lives long
\* enough, and with none only for want of probes: whatever ranks higher and
\* could have been probed was refused by the venue or names no token.
SelectionIsBest ==
    [][stage = "probing" /\ stage' = "done" =>
        IF chosen' # Absent
        THEN /\ answered[chosen'.token].reply = "mid"
             /\ chosen'.open /\ chosen'.ends >= MinExpiry
             /\ \A i \in Promising :
                    listing[i].rank > chosen'.rank /\ listing[i].ends >= now + MinExpiry => Refused(i)
        ELSE \A i \in Promising :
                listing[i].ends >= now + MinExpiry /\ Cardinality(Better(i)) < MaxProbes => Refused(i)
    ]_clobVars
==============================================================================
