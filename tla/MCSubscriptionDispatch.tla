----------------------- MODULE MCSubscriptionDispatch -----------------------
(* Small instances of SubscriptionDispatch for TLC. *)
EXTENDS SubscriptionDispatch

CONSTANTS s1, s2, n1, n2, n3, w1, w2
\* Enough nodes to overshoot the threshold, enough workers to race each other,
\* and two subscriptions for one node.
SmallPools ==
  { [subs |-> {s1}, nodes |-> {n1, n2, n3}, workers |-> {w1}, lagged_threshold |-> 1],
    [subs |-> {s1}, nodes |-> {n1, n2}, workers |-> {w1, w2}, lagged_threshold |-> 2],
    [subs |-> {s1, s2}, nodes |-> {n1}, workers |-> {w1}, lagged_threshold |-> 1] }
=============================================================================
