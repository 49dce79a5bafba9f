---------------------------- MODULE MCWalletCrypto ----------------------------
(* WalletCrypto on a small instance, for TLC.                              *)
EXTENDS WalletCrypto, TLC

CONSTANTS c1, c2, c3

Plain(chars, start, rest) ==
  [string |-> TRUE, plain |-> TRUE, chars |-> chars, bytes |-> chars,
   start |-> start, rest |-> rest]

Wide(chars, start, rest) ==
  [Plain(chars, start, rest) EXCEPT !.plain = FALSE, !.bytes = 3 * chars]

(* Passwords of 7, 8, 64 and 80 characters, a list of strings, and pairs   *)
(* that agree in their first 72 bytes.                                     *)
MCPasswords ==
  {Plain(7, "shortest", ""), Plain(8, "short", ""), Plain(64, "longest", ""),
   [Plain(8, "list", "") EXCEPT !.string = FALSE],
   Plain(80, "long", "a"), Plain(80, "long", "b"),
   Wide(64, "wide", "a"), Wide(64, "wide", "b")}

CreateSymmetry == Permutations(Creates)

=============================================================================
