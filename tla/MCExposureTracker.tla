-------------------------- MODULE MCExposureTracker --------------------------
\* A small instance of ExposureTracker for TLC.
EXTENDS ExposureTracker

\* Eight orders over three symbols and three sizes: each of the caps of the cfg
\* is the one that refuses some order in some state.
MCOrders ==
    {[id |-> 1, symbol |-> "A", amount |-> 1],
     [id |-> 2, symbol |-> "A", amount |-> 2],
     [id |-> 3, symbol |-> "A", amount |-> 3],
     [id |-> 4, symbol |-> "B", amount |-> 1],
     [id |-> 5, symbol |-> "B", amount |-> 2],
     [id |-> 6, symbol |-> "B", amount |-> 3],
     [id |-> 7, symbol |-> "C", amount |-> 1],
     [id |-> 8, symbol |-> "C", amount |-> 2]}
==============================================================================
