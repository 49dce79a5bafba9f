---------------------------- MODULE MCRateLimiter ----------------------------
(* RateLimiter on small instances, for TLC.                                *)
EXTENDS RateLimiter, TLC

CONSTANTS wallet, health, brisk, r1, r2, r3, r4, r5

FiveRequests == {r1, r2, r3, r4, r5}
ThreeRequests == {r1, r2, r3}

(* wallet-creation in miniature: an even share of its window is longer     *)
(* than the timer.                                                         *)
WalletKeys == {wallet}
WalletConfig ==
  [k \in WalletKeys |->
    [points |-> 2, duration |-> 6, blockDuration |-> 6, execEvenly |-> TRUE]]

(* health-check in miniature, and a counter paced faster than the timer.   *)
OtherKeys == {health, brisk}
OtherConfig ==
  [k \in OtherKeys |->
    IF k = health
    THEN [points |-> 1, duration |-> 4, blockDuration |-> 0, execEvenly |-> FALSE]
    ELSE [points |-> 2, duration |-> 3, blockDuration |-> 5, execEvenly |-> TRUE]]

RequestSymmetry == Permutations(FiveRequests)

=============================================================================
