----------------------------- MODULE MCWalletApi -----------------------------
(* WalletApi on small sets, for TLC.                                       *)
EXTENDS WalletApi, TLC

CONSTANTS r1, r2, k1, k2

MCRequests == {r1, r2}
OneKey == {k1}
TwoKeys == {k1, k2}

(* A key that may do everything, and one that may only read.               *)
MCScopeChoices == {Scopes, {"WALLET_READ"}}

(* Requests with the same history are interchangeable, in safety runs.     *)
RequestSymmetry == Permutations(MCRequests)

=============================================================================
