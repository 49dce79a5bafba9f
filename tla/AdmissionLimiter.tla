--------------------------- MODULE AdmissionLimiter ---------------------------
(***************************************************************************)
(* What a rate limiter promises, without clocks: a counter may be renewed  *)
(* at any time; between two renewals it grants at most its points; and it  *)
(* refuses a request only when all of them have been granted.              *)
(***************************************************************************)
EXTENDS Naturals

CONSTANTS Keys, Requests, Points

VARIABLES granted, verdict

Init == /\ granted = [k \in Keys |-> 0]
        /\ verdict = [r \in Requests |-> "none"]

Admit(r, k) ==
  /\ verdict[r] = "none" /\ granted[k] < Points[k]
  /\ verdict' = [verdict EXCEPT ![r] = "admitted"]
  /\ granted' = [granted EXCEPT ![k] = @ + 1]

Refuse(r, k) ==
  /\ verdict[r] = "none" /\ granted[k] = Points[k]
  /\ verdict' = [verdict EXCEPT ![r] = "refused"]
  /\ UNCHANGED granted

Renew(S) ==
  /\ granted' = [k \in Keys |-> IF k \in S THEN 0 ELSE granted[k]]
  /\ UNCHANGED verdict

Next == \/ \E r \in Requests, k \in Keys : Admit(r, k) \/ Refuse(r, k)
        \/ \E S \in SUBSET Keys : Renew(S)

Spec == Init /\ [][Next]_<<granted, verdict>>

=============================================================================
