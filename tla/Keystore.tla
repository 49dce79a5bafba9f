------------------------------- MODULE Keystore -------------------------------
(***************************************************************************)
(* What the encryption of wallets promises, without keys, tags, texts or   *)
(* buffers: a seed is locked away once, under a password that was accepted;*)
(* its password always opens what comes back whole, and no password but    *)
(* its own ever opens anything.                                            *)
(***************************************************************************)
CONSTANTS Owners, Passwords, Accepted, Refused, NoAnswer

VARIABLES
  safes,   \* whose seed is locked, and under which password
  answer   \* the one attempt to open a safe

Init == safes = {} /\ answer = NoAnswer

Lock(c, p) ==
  /\ \A s \in safes : s.of # c
  /\ safes' = safes \cup {[of |-> c, password |-> p]}
  /\ UNCHANGED answer

(* What a safe gives to a password, if it comes back whole or damaged.     *)
Gives(s, p, whole) ==
  IF p # s.password THEN {Refused}
  ELSE IF whole THEN {s.of} ELSE {s.of, Refused}

Open(s, p) ==
  /\ answer = NoAnswer
  /\ \E whole \in BOOLEAN : \E data \in Gives(s, p, whole) :
       answer' = [encrypted |-> s.of, password |-> p, whole |-> whole, data |-> data]
  /\ UNCHANGED safes

Next == \/ \E c \in Owners, p \in Accepted : Lock(c, p)
        \/ \E s \in safes, p \in Passwords : Open(s, p)

Spec == Init /\ [][Next]_<<safes, answer>>

=============================================================================
