----------------------------- MODULE WalletLedger -----------------------------
(***************************************************************************)
(* What the wallet API promises its clients, without middlewares, awaits   *)
(* or an audit log: each request ends once; a client told that its wallet  *)
(* was created has one; a client told otherwise has none, unless the       *)
(* database itself gave a false report; and whoever asks for a wallet that *)
(* some client was told of is never told that there is no such wallet.     *)
(***************************************************************************)
CONSTANTS Requests, NoWallet

VARIABLES
  stored,   \* the requests that have a wallet
  doubted,  \* those of them whose insertion was reported as failed
  asked,    \* the wallet a request asks for
  outcome   \* what each request's client has been told

Init ==
  /\ stored = {}
  /\ doubted = {}
  /\ asked = [r \in Requests |-> NoWallet]
  /\ outcome = [r \in Requests |-> "pending"]

Tell(r, o) == /\ outcome[r] = "pending"
              /\ outcome' = [outcome EXCEPT ![r] = o]
              /\ UNCHANGED <<stored, doubted, asked>>

Ask(r, t) ==
  /\ outcome[r] = "pending" /\ asked[r] = NoWallet
  /\ outcome[t] = "created"
  /\ asked' = [asked EXCEPT ![r] = t]
  /\ UNCHANGED <<stored, doubted, outcome>>

Store(r) ==
  /\ outcome[r] = "pending" /\ r \notin stored
  /\ stored' = stored \cup {r}
  /\ doubted' \in {doubted, doubted \cup {r}}
  /\ UNCHANGED <<asked, outcome>>

Created(r)  == r \in stored \ doubted /\ Tell(r, "created")
Refused(r)  == (r \in stored => r \in doubted) /\ Tell(r, "refused")
Found(r)    == r \notin stored /\ asked[r] \in stored /\ Tell(r, "found")
Missing(r)  == r \notin stored /\ asked[r] = NoWallet /\ Tell(r, "missing")

Lose(S) ==
  /\ \A r \in S : outcome[r] = "pending"
  /\ outcome' = [r \in Requests |-> IF r \in S THEN "lost" ELSE outcome[r]]
  /\ UNCHANGED <<stored, doubted, asked>>

Next ==
  \/ \E r \in Requests : \/ \E t \in Requests : Ask(r, t)
                         \/ Store(r) \/ Created(r) \/ Refused(r)
                         \/ Found(r) \/ Missing(r)
  \/ \E S \in SUBSET Requests : Lose(S)

Spec == Init /\ [][Next]_<<stored, doubted, asked, outcome>>

=============================================================================
