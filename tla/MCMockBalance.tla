----------------------------- MODULE MCMockBalance -----------------------------
(* MockBalance at 16 bits, for TLC: the hash of "5aeza" is -2^15.          *)
EXTENDS MockBalance

Alphabet == {53, 97, 101, 122}  \* 5, a, e, z

MCAddresses == UNION {[1..n -> Alphabet] : n \in 0..5}

=============================================================================
