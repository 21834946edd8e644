--------------------------- MODULE MCShadowRunner ---------------------------
(* Small instance of ShadowRunner.  Two prices, replies on time, late, too    *)
(* late and none; books cheap, dear, wide and one-sided.                      *)
EXTENDS ShadowRunner

MCFeeds == {[price |-> 1, lag |-> 0], [price |-> 2, lag |-> 0],
            [price |-> 1, lag |-> 2], [price |-> 1, lag |-> 3]}
MCBooks == {[bid |-> 44, ask |-> 46], [bid |-> 20, ask |-> 60], [bid |-> 44, ask |-> Absent]}
==============================================================================
