-------------------------- MODULE WalletLedger_proofs --------------------------
(***************************************************************************)
(* WalletApi implements the ledger of WalletLedger, for any requests,      *)
(* keys, scopes and crashes; a wallet a client was told of can be used;    *)
(* and every answer has a cause the documents name, or one of a known few. *)
(*                                                                         *)
(* StorageInv of WalletApi_proofs says what a request has stored.  For the *)
(* ledger one has to know more of the queries: the wallet a query asks for *)
(* exists, and what the query is told follows from that (QueryInv).        *)
(***************************************************************************)
EXTENDS WalletApi_proofs

LateLabels == {"respond", "answered", "lost"}
ToldLabels == {"respond", "answered"}

(* Where a request stands it has no answer yet, or the answer has a cause. *)
AnswerInv(r) ==
  /\ pc[r] = "idle" => input[r] = NoInput
  /\ pc[r] \notin LateLabels \cup {"auditFailure"} => err[r] = "none"
  /\ err[r] # "EntityConstraintError"
  /\ err[r] = "NotFoundError" =>
       input[r].route = "getWalletBalance" /\ input[r].target = NoWallet
  /\ pc[r] \in ToldLabels /\ status[r] = 404 =>
       input[r].route = "getWalletBalance" /\ input[r].target = NoWallet
  /\ pc[r] \in ToldLabels /\ status[r] = 200 =>
       input[r].route = "getWalletBalance" /\ Stored(input[r].target)

(* The wallets a request asks for, or has stored.                          *)
LinkInv(r) ==
  /\ input[r].target # NoWallet => Stored(input[r].target)
  /\ pc[r] \in {"health", "fetch"} => Stored(input[r].target)
  /\ pc[r] = "auditSuccess" /\ input[r].route = "getWalletBalance" =>
       Stored(input[r].target)
  /\ Stored(r) => input[r].route = "createWallet"
  /\ r \in unsure =>
       /\ Stored(r) /\ pc[r] # "auditSuccess"
       /\ pc[r] \in ToldLabels => status[r] # 201

QueryInv ==
  /\ \A r \in Requests : AnswerInv(r) /\ LinkInv(r)
  /\ \A w \in wallets : ValidateAddress(w)

-----------------------------------------------------------------------------
(* A step of one request keeps QueryInv, if it leaves what others see and  *)
(* takes no wallet away.                                                   *)

LEMMA QueryOfOne ==
  ASSUME QueryInv, NEW r \in Requests,
         \A q \in Requests \ {r} :
           /\ pc'[q] = pc[q] /\ status'[q] = status[q] /\ err'[q] = err[q]
           /\ input'[q] = input[q]
           /\ Stored(q)' <=> Stored(q)
           /\ q \in unsure' <=> q \in unsure,
         wallets \subseteq wallets',
         \A w \in wallets' : ValidateAddress(w),
         AnswerInv(r)', LinkInv(r)'
  PROVE  QueryInv'
<1>1. ASSUME NEW x, Stored(x) PROVE Stored(x)'
  BY <1>1 DEF Stored
<1>2. ASSUME NEW q \in Requests, q # r PROVE AnswerInv(q)'
  <2>1. AnswerInv(q) /\ input'[q] = input[q]
    BY <1>2 DEF QueryInv
  <2>2. Stored(input[q].target) => Stored(input[q].target)'
    BY <2>1 DEF Stored
  <2>3. QED
    BY <1>2, <2>1, <2>2 DEF AnswerInv
<1>3. ASSUME NEW q \in Requests, q # r PROVE LinkInv(q)'
  <2>1. LinkInv(q) /\ input'[q] = input[q]
    BY <1>3 DEF QueryInv
  <2>2. Stored(input[q].target) => Stored(input[q].target)'
    BY <2>1 DEF Stored
  <2>3. QED
    BY <1>3, <2>1, <2>2 DEF LinkInv
<1>4. \A w \in wallets' : ValidateAddress(w)'
  BY DEF ValidateAddress
<1>5. QED
  BY <1>2, <1>3, <1>4 DEF QueryInv

LEMMA InitQueryInv == Init => QueryInv
BY DEF Init, QueryInv, AnswerInv, LinkInv, LateLabels, ToldLabels, NoInput, Stored

LEMMA QueryStep ==
  ASSUME IInv, QueryInv, Next
  PROVE  QueryInv'
<1> USE DEF IInv
<1>a. pc \in [Requests -> PcLabels]
  BY DEF TypeOK
<1>b. status \in [Requests -> Nat]
  BY DEF TypeOK
<1>c. err \in [Requests -> Errors \cup {"none"}]
  BY DEF TypeOK
<1>d. ASSUME UNCHANGED wallets, NEW x PROVE Stored(x)' <=> Stored(x)
  BY <1>d DEF Stored
<1>e. \A w \in wallets : ValidateAddress(w)
  BY DEF QueryInv
(* A step that leaves the table of wallets alone.                          *)
<1>f. ASSUME NEW r \in Requests,
             \A q \in Requests \ {r} :
               /\ pc'[q] = pc[q] /\ status'[q] = status[q] /\ err'[q] = err[q]
               /\ input'[q] = input[q],
             UNCHANGED <<wallets, unsure>>,
             AnswerInv(r)', LinkInv(r)'
      PROVE  QueryInv'
  BY <1>d, <1>e, <1>f, QueryOfOne
<1>1. ASSUME NEW r \in Requests, Arrive(r) PROVE QueryInv'
  <2>1. PICK i \in Inputs :
          /\ i.target # NoWallet =>
               i.route = "getWalletBalance" /\ Answered(i.target) /\ status[i.target] = 201
          /\ input' = [input EXCEPT ![r] = i]
    BY <1>1 DEF Arrive
  <2>2. /\ pc[r] = "idle" /\ pc' = [pc EXCEPT ![r] = "parse"]
        /\ UNCHANGED <<wallets, unsure, status, err>>
    BY <1>1 DEF Arrive, Goto, tables
  <2>3. i.target # NoWallet => Stored(i.target)
    BY <2>1 DEF Inputs, WalletInv, StorageInv, Answered
  <2>4. ~Stored(r) /\ r \notin unsure /\ err[r] = "none"
    BY <2>2 DEF WalletInv, StorageInv, QueryInv, AnswerInv, LinkInv, LateLabels
  <2>5. /\ pc'[r] = "parse" /\ input'[r] = i
        /\ \A q \in Requests \ {r} : pc'[q] = pc[q] /\ input'[q] = input[q]
    BY <1>a, <2>1, <2>2 DEF TypeOK
  <2>6. Stored(i.target)' <=> Stored(i.target)
    BY <2>2 DEF Stored
  <2>7. AnswerInv(r)'
    BY <2>2, <2>4, <2>5 DEF AnswerInv, ToldLabels
  <2>8. LinkInv(r)'
    BY <1>d, <2>2, <2>3, <2>4, <2>5, <2>6 DEF LinkInv
  <2>9. QED
    BY <1>f, <2>2, <2>5, <2>7, <2>8
(* The middlewares: nothing is stored yet, and what they answer is neither *)
(* a success nor a 404.                                                    *)
<1>2. ASSUME NEW r \in Requests,
             \/ ParseBody(r) \/ RateLimit(r) \/ ValidateHeader(r)
             \/ LookupApiKey(r) \/ CompareSecret(r)
             \/ LogAuthenticationFailure(r) \/ LogScopeFailure(r) \/ LogApiKeyUsage(r)
             \/ ValidateRequest(r)
      PROVE  QueryInv'
  <2>1. /\ UNCHANGED <<wallets, unsure, input, err>>
        /\ pc[r] \notin LateLabels \cup {"idle", "auditSuccess", "auditFailure"}
    <3>1. CASE \/ ParseBody(r) \/ RateLimit(r) \/ ValidateHeader(r)
               \/ LookupApiKey(r) \/ CompareSecret(r) \/ ValidateRequest(r)
      BY <3>1 DEF ParseBody, RateLimit, ValidateHeader, LookupApiKey, CompareSecret,
        ValidateRequest, tables, observers, LateLabels
    <3>2. CASE LogAuthenticationFailure(r) \/ LogScopeFailure(r) \/ LogApiKeyUsage(r)
      BY <3>2 DEF LogAuthenticationFailure, LogScopeFailure, LogApiKeyUsage, LateLabels
    <3>3. QED
      BY <1>2, <3>1, <3>2
  <2>2. /\ \A q \in Requests \ {r} : pc'[q] = pc[q] /\ status'[q] = status[q]
        /\ pc'[r] \notin {"idle", "health", "fetch", "auditSuccess"}
        /\ pc'[r] \in ToldLabels => status'[r] \notin {200, 404}
    <3>1. CASE ParseBody(r) \/ RateLimit(r) \/ ValidateHeader(r)
      BY <1>a, <1>b, <3>1 DEF ParseBody, RateLimit, ValidateHeader, Goto, Answer, ToldLabels
    <3>2. CASE LookupApiKey(r) \/ CompareSecret(r) \/ ValidateRequest(r)
      BY <1>a, <1>b, <3>2 DEF LookupApiKey, CompareSecret, ValidateRequest, Goto, Answer,
        ToldLabels
    <3>3. CASE LogAuthenticationFailure(r) \/ LogScopeFailure(r)
      <4>1. /\ pc' = [pc EXCEPT ![r] = "respond"]
            /\ \/ status' = [status EXCEPT ![r] = 401]
               \/ status' = [status EXCEPT ![r] = 403]
        BY <3>3 DEF LogAuthenticationFailure, LogScopeFailure, AnswerNext
      <4>2. QED
        BY <1>a, <1>b, <4>1
    <3>4. CASE LogApiKeyUsage(r)
      <4>1. pc' = [pc EXCEPT ![r] = "validate"] /\ UNCHANGED status
        BY <3>4 DEF LogApiKeyUsage, Goto
      <4>2. QED
        BY <1>a, <4>1 DEF ToldLabels
    <3>5. QED
      BY <1>2, <3>1, <3>2, <3>3, <3>4
  <2>3. ~Stored(r) /\ r \notin unsure /\ err[r] = "none"
    BY <2>1 DEF WalletInv, StorageInv, QueryInv, AnswerInv, LinkInv, LateLabels
  <2>4. AnswerInv(r)'
    BY <2>1, <2>2, <2>3 DEF AnswerInv
  <2>5. LinkInv(r)'
    <3>1. ~Stored(r)' /\ (Stored(input[r].target)' <=> Stored(input[r].target))
      BY <2>1, <2>3 DEF Stored
    <3>2. QED
      BY <2>1, <2>2, <2>3, <3>1 DEF QueryInv, LinkInv
  <2>6. QED
    BY <1>f, <2>1, <2>2, <2>4, <2>5
<1>3. ASSUME NEW r \in Requests,
             EncryptKey(r) \/ FindWallet(r) \/ CheckNetwork(r) \/ FetchBalance(r)
      PROVE  QueryInv'
  <2>1. /\ UNCHANGED <<wallets, unsure, input, status>>
        /\ pc[r] \in BalanceLabels \cup {"encrypt"}
    BY <1>3 DEF EncryptKey, FindWallet, CheckNetwork, FetchBalance, tables, observers,
      BalanceLabels
  <2>2. ~Stored(r) /\ r \notin unsure /\ err[r] = "none"
    BY <2>1 DEF WalletInv, StorageInv, QueryInv, AnswerInv, LinkInv, LateLabels,
      BalanceLabels
  <2>3. ~Stored(r)' /\ (Stored(input[r].target)' <=> Stored(input[r].target))
    BY <2>1, <2>2 DEF Stored
  <2>4. input[r].route = IF pc[r] = "encrypt" THEN "createWallet" ELSE "getWalletBalance"
    BY <2>1 DEF WalletInv, StorageInv, BalanceLabels, CreateLabels
  <2>5. CASE UNCHANGED err
    <3>1. /\ \A q \in Requests \ {r} : pc'[q] = pc[q]
          /\ pc'[r] \in {"insert", "health", "fetch", "auditSuccess"}
          /\ pc'[r] = "insert" => pc[r] = "encrypt"
          /\ pc'[r] # "insert" => Stored(input[r].target)
      <4>1. CASE EncryptKey(r)
        BY <1>a, <1>c, <2>2, <2>5, <4>1 DEF EncryptKey, Goto, Throw
      <4>2. CASE CheckNetwork(r) \/ FetchBalance(r)
        BY <1>a, <1>c, <2>2, <2>5, <4>2 DEF CheckNetwork, FetchBalance, Goto, Throw,
          QueryInv, LinkInv
      <4>3. CASE FindWallet(r)
        BY <1>a, <1>c, <1>e, <2>2, <2>5, <4>3 DEF FindWallet, Goto, Throw, Stored
      <4>4. QED
        BY <1>3, <4>1, <4>2, <4>3
    <3>2. AnswerInv(r)'
      BY <2>1, <2>2, <2>5, <3>1 DEF AnswerInv, ToldLabels
    <3>3. LinkInv(r)'
      BY <2>1, <2>2, <2>3, <2>4, <3>1 DEF QueryInv, LinkInv
    <3>4. QED
      BY <1>f, <2>1, <2>5, <3>1, <3>2, <3>3
  <2>6. CASE \E e \in Errors : Throw(r, e)
    <3>1. /\ \A q \in Requests \ {r} : pc'[q] = pc[q] /\ err'[q] = err[q]
          /\ pc'[r] = "auditFailure"
      BY <1>a, <1>c, <2>6 DEF Throw
    <3>2. /\ err'[r] # "EntityConstraintError"
          /\ err'[r] = "NotFoundError" =>
               input[r].route = "getWalletBalance" /\ input[r].target = NoWallet
      <4>1. CASE EncryptKey(r) \/ CheckNetwork(r) \/ FetchBalance(r)
        BY <1>c, <2>2, <4>1 DEF EncryptKey, CheckNetwork, FetchBalance, Throw
      <4>2. CASE FindWallet(r)
        <5>1. input[r].route = "getWalletBalance"
          BY <2>4, <4>2 DEF FindWallet
        <5>2. ~Stored(input[r].target) => input[r].target = NoWallet
          BY DEF QueryInv, LinkInv
        <5>3. QED
          BY <1>c, <1>e, <2>2, <4>2, <5>1, <5>2 DEF FindWallet, Throw
      <4>3. QED
        BY <1>3, <4>1, <4>2
    <3>3. AnswerInv(r)'
      BY <2>1, <3>1, <3>2 DEF AnswerInv, ToldLabels
    <3>4. LinkInv(r)'
      BY <2>1, <2>2, <2>3, <3>1 DEF QueryInv, LinkInv
    <3>5. QED
      BY <1>f, <2>1, <3>1, <3>3, <3>4
  <2>7. QED
    BY <1>3, <2>5, <2>6 DEF EncryptKey, FindWallet, CheckNetwork, FetchBalance, Errors
<1>4. ASSUME NEW r \in Requests, InsertWallet(r) PROVE QueryInv'
  <2>0. PICK row : row = [id |-> r, ss58Format |-> Ss58Format]
    OBVIOUS
  <2>1. /\ pc[r] = "insert" /\ input[r].route = "createWallet" /\ ~Stored(r)
        /\ UNCHANGED <<input, status>>
    BY <1>4 DEF InsertWallet, WalletInv, StorageInv, CreateLabels
  <2>2. r \notin unsure /\ err[r] = "none"
    BY <2>1 DEF QueryInv, AnswerInv, LinkInv, LateLabels
  <2>3. /\ wallets' = wallets \/ wallets' = wallets \cup {row}
        /\ unsure' = unsure \/ (unsure' = unsure \cup {r} /\ wallets' = wallets \cup {row})
        /\ \/ /\ pc' = [pc EXCEPT ![r] = "auditSuccess"]
              /\ UNCHANGED <<err, unsure>>
           \/ /\ pc' = [pc EXCEPT ![r] = "auditFailure"]
              /\ \E e \in {"PrismaKnownError", "Error"} : err' = [err EXCEPT ![r] = e]
    BY <1>4, <2>0 DEF InsertWallet, Goto, Throw
  <2>4. /\ row.id = r /\ ValidateAddress(row)
    BY <2>0 DEF ValidateAddress, Ss58Format, AddressesStartWith5
  <2>5. /\ wallets \subseteq wallets'
        /\ \A w \in wallets' : ValidateAddress(w)
        /\ \A q \in Requests \ {r} : Stored(q)' <=> Stored(q)
        /\ r \in unsure' => Stored(r)'
    BY <1>e, <2>2, <2>3, <2>4 DEF Stored
  <2>6. /\ \A q \in Requests \ {r} : /\ pc'[q] = pc[q] /\ err'[q] = err[q]
                                     /\ q \in unsure' <=> q \in unsure
        /\ pc'[r] \in {"auditSuccess", "auditFailure"}
        /\ pc'[r] = "auditSuccess" => err'[r] = "none" /\ r \notin unsure'
        /\ err'[r] \in {"none", "PrismaKnownError", "Error"}
    BY <1>a, <1>c, <2>2, <2>3
  <2>7. AnswerInv(r)'
    BY <2>1, <2>6 DEF AnswerInv, ToldLabels
  <2>8. Stored(input[r].target) => Stored(input[r].target)'
    BY <2>1, <2>5 DEF Stored
  <2>9. LinkInv(r)'
    BY <2>1, <2>5, <2>6, <2>8 DEF QueryInv, LinkInv, ToldLabels
  <2>10. QED
    BY <2>1, <2>5, <2>6, <2>7, <2>9, QueryOfOne
<1>5. ASSUME NEW r \in Requests, LogOperation(r) \/ LogFailure(r) PROVE QueryInv'
  <2>1. /\ UNCHANGED <<wallets, unsure, input, err>>
        /\ pc[r] \in {"auditSuccess", "auditFailure"}
        /\ pc' = [pc EXCEPT ![r] = "respond"]
    BY <1>5 DEF LogOperation, LogFailure, AnswerNext
  <2>2. pc'[r] = "respond" /\ \A q \in Requests \ {r} : pc'[q] = pc[q]
    BY <1>a, <2>1
  <2>3. input[r].route \in Routes
    BY <2>1 DEF AuthInv, RequestInv, Authorised, AuthenticatedLabels
  <2>4. /\ \A q \in Requests \ {r} : status'[q] = status[q]
        /\ status'[r] = 404 => input[r].route = "getWalletBalance" /\ input[r].target = NoWallet
        /\ status'[r] = 200 =>
             input[r].route = "getWalletBalance" /\ Stored(input[r].target)
        /\ status'[r] = 201 => r \notin unsure
    <3>1. CASE LogOperation(r)
      <4>1. pc[r] = "auditSuccess" /\ status' = [status EXCEPT ![r] = SuccessStatus[input[r].route]]
        BY <3>1 DEF LogOperation, AnswerNext
      <4>2. SuccessStatus[input[r].route] = IF input[r].route = "createWallet" THEN 201 ELSE 200
        BY <2>3, RouteFacts
      <4>3. r \notin unsure
        BY <4>1 DEF QueryInv, LinkInv
      <4>4. input[r].route = "getWalletBalance" => Stored(input[r].target)
        BY <4>1 DEF QueryInv, LinkInv
      <4>5. QED
        BY <1>b, <2>3, <4>1, <4>2, <4>3, <4>4 DEF Routes
    <3>2. CASE LogFailure(r)
      <4>1. status' = [status EXCEPT ![r] = StatusOf[err[r]]] /\ err[r] \in Errors
        BY <3>2 DEF LogFailure, AnswerNext, WalletInv, StorageInv
      <4>2. /\ StatusOf[err[r]] \in {400, 404, 500}
            /\ StatusOf[err[r]] = 404 => err[r] = "NotFoundError"
        BY <4>1 DEF Errors, StatusOf
      <4>3. err[r] = "NotFoundError" =>
              input[r].route = "getWalletBalance" /\ input[r].target = NoWallet
        BY DEF QueryInv, AnswerInv
      <4>4. /\ status'[r] = StatusOf[err[r]]
            /\ \A q \in Requests \ {r} : status'[q] = status[q]
        BY <1>b, <4>1
      <4>5. QED
        BY <4>2, <4>3, <4>4
    <3>3. QED
      BY <1>5, <3>1, <3>2
  <2>5. Stored(input[r].target)' <=> Stored(input[r].target)
    BY <2>1 DEF Stored
  <2>6. AnswerInv(r)'
    BY <2>1, <2>2, <2>4, <2>5 DEF QueryInv, AnswerInv, LateLabels
  <2>7. LinkInv(r)'
    BY <1>d, <2>1, <2>2, <2>4, <2>5 DEF QueryInv, LinkInv
  <2>8. QED
    BY <1>f, <2>1, <2>2, <2>4, <2>6, <2>7
<1>6. ASSUME NEW r \in Requests, Respond(r) PROVE QueryInv'
  <2>1. /\ pc[r] = "respond" /\ pc' = [pc EXCEPT ![r] = "answered"]
        /\ UNCHANGED <<wallets, unsure, input, err, status>>
    BY <1>6 DEF Respond, Goto, tables, observers
  <2>2. Stored(input[r].target)' <=> Stored(input[r].target)
    BY <2>1 DEF Stored
  <2>3. AnswerInv(r)' /\ LinkInv(r)'
    BY <1>a, <1>d, <2>1, <2>2 DEF QueryInv, AnswerInv, LinkInv, LateLabels, ToldLabels
  <2>4. QED
    BY <1>a, <1>f, <2>1, <2>3
<1>7. CASE Crash
  <2>1. /\ UNCHANGED <<wallets, unsure, input, err, status>>
        /\ \A q \in Requests : \/ pc'[q] = "lost"
                               \/ pc'[q] = pc[q]
    BY <1>7 DEF Crash, tables, observers
  <2>2. ASSUME NEW q \in Requests PROVE AnswerInv(q)' /\ LinkInv(q)'
    <3>1. Stored(input[q].target)' <=> Stored(input[q].target)
      BY <2>1 DEF Stored
    <3>2. QED
      BY <1>d, <2>1, <3>1 DEF QueryInv, AnswerInv, LinkInv, LateLabels, ToldLabels
  <2>3. \A w \in wallets' : ValidateAddress(w)'
    BY <1>e, <2>1 DEF ValidateAddress
  <2>4. QED
    BY <2>2, <2>3 DEF QueryInv
<1>8. CASE \/ \E r \in Requests : LogRateLimitExceeded(r)
           \/ \E k \in ApiKeys : CreateApiKey(k) \/ DeactivateApiKey(k)
           \/ Idle
  <2>1. UNCHANGED <<wallets, pc, input, status, err, unsure>>
    BY <1>8 DEF LogRateLimitExceeded, CreateApiKey, DeactivateApiKey, Idle, vars, tables,
      observers
  <2>2. QED
    BY <2>1 DEF QueryInv, AnswerInv, LinkInv, Stored, ValidateAddress
<1>9. QED
  BY <1>1, <1>2, <1>3, <1>4, <1>5, <1>6, <1>7, <1>8 DEF Next, Serve

(* QueryInv holds in every reachable state of the API.                     *)
THEOREM QueryInvariance == Spec => [](IInv /\ QueryInv)
<1>1. QueryInv /\ UNCHANGED vars => QueryInv'
  BY DEF QueryInv, AnswerInv, LinkInv, Stored, ValidateAddress, vars, tables, observers
<1>2. IInv /\ QueryInv /\ [Next]_vars => QueryInv'
  BY <1>1, QueryStep
<1>3. QED
  BY <1>2, InitQueryInv, Invariance, PTL DEF Spec

(* A wallet that a client was told of is found, and its address accepted.  *)
THEOREM UsableWallets == Spec => []CreatedWalletIsUsable
<1>1. QueryInv => CreatedWalletIsUsable
  BY DEF QueryInv, AnswerInv, ToldLabels, CreatedWalletIsUsable, Answered
<1>2. QED
  BY <1>1, QueryInvariance, PTL

-----------------------------------------------------------------------------
(* The refinement.  What the ledger sees of the state:                     *)

StoredIds == {w.id : w \in wallets}
Asked == [r \in Requests |-> input[r].target]
Outcomes == [r \in Requests |-> OutcomeOf(r)]
ledgerVars == <<StoredIds, unsure, Asked, Outcomes>>

EndLabels == {"answered", "lost"}

LEMMA StoredFact == ASSUME NEW x PROVE x \in StoredIds <=> Stored(x)
BY DEF StoredIds, Stored

LEMMA SameOutcome ==
  ASSUME NEW q \in Requests,
         \/ pc'[q] = pc[q] /\ status'[q] = status[q]
         \/ pc[q] \notin EndLabels /\ pc'[q] \notin EndLabels
  PROVE  OutcomeOf(q)' = OutcomeOf(q)
BY DEF OutcomeOf, Answered, EndLabels

LEMMA PendingOutcome ==
  ASSUME NEW q \in Requests
  PROVE  /\ pc[q] \notin EndLabels => OutcomeOf(q) = "pending"
         /\ pc[q] \in EndLabels => OutcomeOf(q) # "pending"
BY DEF OutcomeOf, Answered, EndLabels

(* A step that no client notices and that changes no wallet.               *)
LEMMA Unnoticed ==
  ASSUME UNCHANGED <<wallets, unsure>>,
         \A q \in Requests : /\ input'[q].target = input[q].target
                             /\ OutcomeOf(q)' = OutcomeOf(q)
  PROVE  UNCHANGED ledgerVars
BY DEF ledgerVars, StoredIds, Asked, Outcomes

(* A step that answers r and does nothing else.                            *)
LEMMA Told ==
  ASSUME NEW r \in Requests, UNCHANGED <<wallets, unsure, input>>,
         pc[r] \notin EndLabels,
         \A q \in Requests \ {r} : OutcomeOf(q)' = OutcomeOf(q),
         NEW o, OutcomeOf(r)' = o
  PROVE  Ledger!Tell(r, o)
<1>1. Outcomes[r] = "pending"
  BY PendingOutcome DEF Outcomes
<1>2. Outcomes' = [Outcomes EXCEPT ![r] = o]
  BY DEF Outcomes
<1>3. UNCHANGED <<StoredIds, unsure, Asked>>
  BY DEF StoredIds, Asked
<1>4. QED
  BY <1>1, <1>2, <1>3 DEF Ledger!Tell, StoredIds, Asked, Outcomes

(* Where a step of r leads: on, or to a refusal by a middleware.           *)
Onward(r) ==
  /\ pc[r] \notin EndLabels /\ pc'[r] \notin EndLabels
  /\ \A q \in Requests \ {r} : pc'[q] = pc[q] /\ status'[q] = status[q]

Refusal(r) ==
  /\ pc' = [pc EXCEPT ![r] = "answered"]
  /\ \E s \in {400, 429, 500} : status' = [status EXCEPT ![r] = s]

MiddlewareLabels == {"parse", "limit", "header", "lookup", "validate"}

LEMMA OnwardStep ==
  ASSUME NEW r \in Requests, Onward(r), UNCHANGED <<wallets, unsure, input>>
  PROVE  UNCHANGED ledgerVars
<1>1. \A q \in Requests : OutcomeOf(q)' = OutcomeOf(q)
  BY SameOutcome DEF Onward
<1>2. QED
  BY <1>1, Unnoticed

LEMMA RefusalStep ==
  ASSUME IInv, QueryInv, NEW r \in Requests, Refusal(r),
         pc[r] \in MiddlewareLabels, UNCHANGED <<wallets, unsure, input>>
  PROVE  Ledger!Refused(r)
<1>1. pc \in [Requests -> PcLabels] /\ status \in [Requests -> Nat]
  BY DEF IInv, TypeOK
<1>2. PICK s \in {400, 429, 500} : status' = [status EXCEPT ![r] = s]
  BY DEF Refusal
<1>3. /\ pc'[r] = "answered" /\ status'[r] = s
      /\ \A q \in Requests \ {r} : pc'[q] = pc[q] /\ status'[q] = status[q]
  BY <1>1, <1>2 DEF Refusal
<1>4. OutcomeOf(r)' = "refused"
  BY <1>3 DEF OutcomeOf, Answered
<1>5. \A q \in Requests \ {r} : OutcomeOf(q)' = OutcomeOf(q)
  BY <1>3, SameOutcome
<1>6. pc[r] \notin EndLabels
  BY DEF MiddlewareLabels, EndLabels
<1>7. r \notin StoredIds
  BY StoredFact DEF IInv, WalletInv, StorageInv, MiddlewareLabels
<1>8. Ledger!Tell(r, "refused")
  BY <1>4, <1>5, <1>6, Told
<1>9. QED
  BY <1>7, <1>8 DEF Ledger!Refused, StoredIds

LEMMA RespondStep ==
  ASSUME IInv, QueryInv, NEW r \in Requests, Respond(r)
  PROVE  Ledger!Created(r) \/ Ledger!Found(r) \/ Ledger!Missing(r) \/ Ledger!Refused(r)
<1>1. /\ pc[r] = "respond" /\ pc' = [pc EXCEPT ![r] = "answered"]
      /\ UNCHANGED <<wallets, unsure, input, status>>
  BY DEF Respond, Goto, tables, observers
<1>2. pc'[r] = "answered" /\ \A q \in Requests \ {r} : pc'[q] = pc[q]
  BY <1>1 DEF IInv, TypeOK
<1>3. \A q \in Requests \ {r} : OutcomeOf(q)' = OutcomeOf(q)
  BY <1>1, <1>2, SameOutcome
<1>4. ASSUME NEW o, OutcomeOf(r)' = o PROVE Ledger!Tell(r, o)
  <2>1. pc[r] \notin EndLabels
    BY <1>1 DEF EndLabels
  <2>2. QED
    BY <1>1, <1>3, <1>4, <2>1, Told
<1>5. Asked[r] = input[r].target
  BY DEF Asked
<1>6. CASE status[r] = 201
  <2>1. OutcomeOf(r)' = "created"
    BY <1>1, <1>2, <1>6 DEF OutcomeOf, Answered
  <2>2. r \in StoredIds \ unsure
    BY <1>1, <1>6, StoredFact DEF IInv, WalletInv, StorageInv, QueryInv, LinkInv, ToldLabels
  <2>3. QED
    BY <1>4, <2>1, <2>2 DEF Ledger!Created, StoredIds
<1>7. CASE status[r] = 200
  <2>1. OutcomeOf(r)' = "found"
    BY <1>1, <1>2, <1>7 DEF OutcomeOf, Answered
  <2>2. input[r].route = "getWalletBalance" /\ Stored(input[r].target)
    BY <1>1, <1>7 DEF QueryInv, AnswerInv, ToldLabels
  <2>3. r \notin StoredIds /\ Asked[r] \in StoredIds
    BY <1>5, <2>2, StoredFact DEF QueryInv, LinkInv
  <2>4. QED
    BY <1>4, <2>1, <2>3 DEF Ledger!Found, StoredIds, Asked
<1>8. CASE status[r] = 404
  <2>1. OutcomeOf(r)' = "missing"
    BY <1>1, <1>2, <1>8 DEF OutcomeOf, Answered
  <2>2. input[r].route = "getWalletBalance" /\ input[r].target = NoWallet
    BY <1>1, <1>8 DEF QueryInv, AnswerInv, ToldLabels
  <2>3. r \notin StoredIds /\ Asked[r] = NoWallet
    BY <1>5, <2>2, StoredFact DEF QueryInv, LinkInv
  <2>4. QED
    BY <1>4, <2>1, <2>3 DEF Ledger!Missing, StoredIds, Asked
<1>9. CASE status[r] \notin {200, 201, 404}
  <2>1. OutcomeOf(r)' = "refused"
    BY <1>1, <1>2, <1>9 DEF OutcomeOf, Answered
  <2>2. r \in StoredIds => r \in unsure
    BY <1>1, <1>9, StoredFact DEF IInv, WalletInv, StorageInv
  <2>3. QED
    BY <1>4, <2>1, <2>2 DEF Ledger!Refused, StoredIds
<1>10. QED
  BY <1>6, <1>7, <1>8, <1>9

LEMMA ArriveStep ==
  ASSUME IInv, QueryInv, NEW r \in Requests, Arrive(r)
  PROVE  Ledger!Next \/ UNCHANGED ledgerVars
<1>1. PICK i \in Inputs :
        /\ i.target # NoWallet => Answered(i.target) /\ status[i.target] = 201
        /\ input' = [input EXCEPT ![r] = i]
  BY DEF Arrive
<1>2. /\ pc[r] = "idle" /\ pc' = [pc EXCEPT ![r] = "parse"]
      /\ UNCHANGED <<wallets, unsure, status>>
  BY DEF Arrive, Goto, tables
<1>3. /\ pc'[r] = "parse" /\ \A q \in Requests \ {r} : pc'[q] = pc[q]
  BY <1>2 DEF IInv, TypeOK
<1>4. pc[r] \notin EndLabels /\ pc'[r] \notin EndLabels
  BY <1>2, <1>3 DEF EndLabels
<1>5. \A q \in Requests : OutcomeOf(q)' = OutcomeOf(q)
  BY <1>2, <1>3, <1>4, SameOutcome
<1>6. /\ input'[r].target = i.target
      /\ \A q \in Requests \ {r} : input'[q].target = input[q].target
  BY <1>1 DEF IInv, TypeOK
<1>7. input[r].target = NoWallet
  BY <1>2 DEF QueryInv, AnswerInv, NoInput
<1>8. CASE i.target = NoWallet
  BY <1>2, <1>5, <1>6, <1>7, <1>8, Unnoticed
<1>9. CASE i.target # NoWallet
  <2>1. i.target \in Requests
    BY <1>9 DEF Inputs
  <2>2. OutcomeOf(i.target) = "created"
    BY <1>1, <1>9 DEF OutcomeOf, Answered
  <2>3. Outcomes[r] = "pending" /\ Asked[r] = NoWallet /\ Outcomes[i.target] = "created"
    BY <1>4, <1>7, <2>1, <2>2, PendingOutcome DEF Outcomes, Asked
  <2>4. Asked' = [Asked EXCEPT ![r] = i.target]
    BY <1>6 DEF Asked
  <2>5. UNCHANGED <<StoredIds, unsure, Outcomes>>
    BY <1>2, <1>5 DEF StoredIds, Outcomes
  <2>6. Ledger!Ask(r, i.target)
    BY <2>3, <2>4, <2>5 DEF Ledger!Ask, StoredIds, Asked, Outcomes
  <2>7. QED
    BY <2>1, <2>6 DEF Ledger!Next
<1>10. QED
  BY <1>8, <1>9

LEMMA InsertStep ==
  ASSUME IInv, NEW r \in Requests, InsertWallet(r)
  PROVE  Ledger!Store(r) \/ UNCHANGED ledgerVars
<1>1. /\ pc[r] = "insert" /\ UNCHANGED <<input, status>>
      /\ \/ pc' = [pc EXCEPT ![r] = "auditSuccess"]
         \/ pc' = [pc EXCEPT ![r] = "auditFailure"]
  BY DEF InsertWallet, Goto, Throw
<1>2. /\ pc'[r] \in {"auditSuccess", "auditFailure"}
      /\ \A q \in Requests \ {r} : pc'[q] = pc[q]
  BY <1>1 DEF IInv, TypeOK
<1>3. pc[r] \notin EndLabels /\ Onward(r)
  BY <1>1, <1>2 DEF Onward, EndLabels
<1>4. CASE UNCHANGED <<wallets, unsure>>
  BY <1>1, <1>3, <1>4, OnwardStep
<1>5. CASE /\ wallets' = wallets \cup {[id |-> r, ss58Format |-> Ss58Format]}
           /\ unsure' \in {unsure, unsure \cup {r}}
  <2>1. \A q \in Requests : OutcomeOf(q)' = OutcomeOf(q)
    BY <1>3, SameOutcome DEF Onward
  <2>2. Outcomes[r] = "pending" /\ r \notin StoredIds
    BY <1>1, <1>3, PendingOutcome, StoredFact DEF Outcomes, IInv, WalletInv, StorageInv
  <2>3. StoredIds' = StoredIds \cup {r}
    <3>1. PICK row : row = [id |-> r, ss58Format |-> Ss58Format]
      OBVIOUS
    <3>2. row.id = r /\ wallets' = wallets \cup {row}
      BY <1>5, <3>1
    <3>3. QED
      BY <3>2 DEF StoredIds
  <2>4. UNCHANGED <<Asked, Outcomes>>
    BY <1>1, <2>1 DEF Asked, Outcomes
  <2>5. Ledger!Store(r)
    BY <1>5, <2>2, <2>3, <2>4 DEF Ledger!Store, StoredIds, Asked, Outcomes
  <2>6. QED
    BY <2>5
<1>6. QED
  BY <1>4, <1>5 DEF InsertWallet

LEMMA CrashStep ==
  ASSUME IInv, Crash
  PROVE  Ledger!Next
<1> DEFINE S == {r \in Requests : InFlight(r)}
<1>1. /\ pc' = [r \in Requests |-> IF InFlight(r) THEN "lost" ELSE pc[r]]
      /\ UNCHANGED <<wallets, unsure, input, status>>
  BY DEF Crash, tables, observers
<1>2. ASSUME NEW q \in Requests, q \in S
      PROVE  OutcomeOf(q) = "pending" /\ OutcomeOf(q)' = "lost"
  <2>1. pc[q] \notin EndLabels /\ pc'[q] = "lost"
    BY <1>1, <1>2 DEF InFlight, EndLabels
  <2>2. OutcomeOf(q)' = "lost"
    BY <2>1 DEF OutcomeOf, Answered
  <2>3. QED
    BY <2>1, <2>2, PendingOutcome
<1>3. ASSUME NEW q \in Requests, q \notin S PROVE OutcomeOf(q)' = OutcomeOf(q)
  BY <1>1, <1>3, SameOutcome
<1>4. \A r \in S : Outcomes[r] = "pending"
  BY <1>2 DEF Outcomes
<1>5. Outcomes' = [r \in Requests |-> IF r \in S THEN "lost" ELSE Outcomes[r]]
  BY <1>2, <1>3 DEF Outcomes
<1>6. UNCHANGED <<StoredIds, unsure, Asked>>
  BY <1>1 DEF StoredIds, Asked
<1>7. Ledger!Lose(S)
  BY <1>4, <1>5, <1>6 DEF Ledger!Lose, StoredIds, Asked, Outcomes
<1>8. S \in SUBSET Requests
  OBVIOUS
<1>9. QED
  BY <1>7, <1>8 DEF Ledger!Next

(* Each middleware passes the request on or refuses it; between the        *)
(* authentication and the answer a request only moves on.                  *)
LEMMA ServeStep ==
  ASSUME IInv, QueryInv, NEW r \in Requests, Serve(r)
  PROVE  Ledger!Next \/ UNCHANGED ledgerVars
<1>a. pc \in [Requests -> PcLabels] /\ status \in [Requests -> Nat]
  BY DEF IInv, TypeOK
<1>b. ASSUME NEW l, l \notin EndLabels, pc[r] \notin EndLabels,
             pc' = [pc EXCEPT ![r] = l],
             UNCHANGED status \/ \E s : status' = [status EXCEPT ![r] = s]
      PROVE  Onward(r)
  BY <1>a, <1>b DEF Onward
<1>1. CASE ParseBody(r) \/ RateLimit(r) \/ ValidateHeader(r) \/ LookupApiKey(r)
           \/ ValidateRequest(r)
  <2>1. pc[r] \in MiddlewareLabels /\ UNCHANGED <<wallets, unsure, input>>
    BY <1>1 DEF ParseBody, RateLimit, ValidateHeader, LookupApiKey, ValidateRequest,
      MiddlewareLabels, tables, observers
  <2>2. \/ Refusal(r)
        \/ /\ \E l \in PcLabels \ EndLabels : pc' = [pc EXCEPT ![r] = l]
           /\ UNCHANGED status
    <3>1. CASE ParseBody(r) \/ RateLimit(r)
      BY <3>1 DEF ParseBody, RateLimit, Goto, Answer, Refusal, PcLabels, EndLabels
    <3>2. CASE ValidateHeader(r) \/ LookupApiKey(r)
      BY <3>2 DEF ValidateHeader, LookupApiKey, Goto, Answer, Refusal, PcLabels, EndLabels
    <3>3. CASE ValidateRequest(r)
      BY <3>3 DEF ValidateRequest, Goto, Answer, Refusal, PcLabels, EndLabels
    <3>4. QED
      BY <1>1, <3>1, <3>2, <3>3
  <2>3. CASE Refusal(r)
    BY <2>1, <2>3, RefusalStep DEF Ledger!Next
  <2>4. CASE /\ \E l \in PcLabels \ EndLabels : pc' = [pc EXCEPT ![r] = l]
             /\ UNCHANGED status
    <3>1. pc[r] \notin EndLabels
      BY <2>1 DEF MiddlewareLabels, EndLabels
    <3>2. QED
      BY <1>b, <2>1, <2>4, <3>1, OnwardStep
  <2>5. QED
    BY <2>2, <2>3, <2>4
<1>2. CASE CompareSecret(r) \/ LogAuthenticationFailure(r) \/ LogScopeFailure(r)
           \/ LogApiKeyUsage(r) \/ EncryptKey(r) \/ FindWallet(r) \/ CheckNetwork(r)
           \/ FetchBalance(r) \/ LogOperation(r) \/ LogFailure(r)
  <2>1. pc[r] \notin EndLabels /\ UNCHANGED <<wallets, unsure, input>>
    BY <1>2 DEF CompareSecret, LogAuthenticationFailure, LogScopeFailure, LogApiKeyUsage,
      EncryptKey, FindWallet, CheckNetwork, FetchBalance, LogOperation, LogFailure,
      EndLabels, tables, observers
  <2>2. /\ \E l \in PcLabels \ EndLabels : pc' = [pc EXCEPT ![r] = l]
        /\ UNCHANGED status \/ \E s : status' = [status EXCEPT ![r] = s]
    <3>1. CASE CompareSecret(r) \/ LogApiKeyUsage(r)
      BY <3>1 DEF CompareSecret, LogApiKeyUsage, Goto, PcLabels, EndLabels
    <3>2. CASE EncryptKey(r) \/ FindWallet(r) \/ CheckNetwork(r) \/ FetchBalance(r)
      BY <3>2 DEF EncryptKey, FindWallet, CheckNetwork, FetchBalance, Goto, Throw,
        PcLabels, EndLabels
    <3>3. CASE LogAuthenticationFailure(r) \/ LogScopeFailure(r) \/ LogOperation(r)
               \/ LogFailure(r)
      <4>1. /\ pc' = [pc EXCEPT ![r] = "respond"]
            /\ \E s : status' = [status EXCEPT ![r] = s]
        BY <3>3 DEF LogAuthenticationFailure, LogScopeFailure, LogOperation, LogFailure,
          AnswerNext
      <4>2. QED
        BY <4>1 DEF PcLabels, EndLabels
    <3>4. QED
      BY <1>2, <3>1, <3>2, <3>3
  <2>3. QED
    BY <1>b, <2>1, <2>2, OnwardStep
<1>3. CASE InsertWallet(r)
  BY <1>3, InsertStep DEF Ledger!Next
<1>4. CASE Respond(r)
  BY <1>4, RespondStep DEF Ledger!Next
<1>5. QED
  BY <1>1, <1>2, <1>3, <1>4 DEF Serve

LEMMA LedgerStep ==
  ASSUME IInv, QueryInv, [Next]_vars
  PROVE  [Ledger!Next]_ledgerVars
<1>1. CASE \/ \E r \in Requests : LogRateLimitExceeded(r)
           \/ \E k \in ApiKeys : CreateApiKey(k) \/ DeactivateApiKey(k)
           \/ Idle \/ UNCHANGED vars
  <2>1. UNCHANGED <<wallets, unsure, input, pc, status>>
    BY <1>1 DEF LogRateLimitExceeded, CreateApiKey, DeactivateApiKey, Idle, vars, tables,
      observers
  <2>2. QED
    BY <2>1, SameOutcome, Unnoticed
<1>2. ASSUME NEW r \in Requests, Arrive(r) \/ Serve(r) PROVE [Ledger!Next]_ledgerVars
  BY <1>2, ArriveStep, ServeStep
<1>3. CASE Crash
  BY <1>3, CrashStep
<1>4. QED
  BY <1>1, <1>2, <1>3 DEF Next

(* To its clients the API is the ledger, for any requests, keys, scopes    *)
(* and crashes.                                                            *)
THEOREM LedgerImplementation == Spec => ImplementsLedger
<1>1. Init => Ledger!Init
  BY DEF Init, Ledger!Init, OutcomeOf, Answered, NoInput
<1>2. IInv /\ QueryInv /\ [Next]_vars =>
        [Ledger!Next]_<<{w.id : w \in wallets}, unsure,
                        [r \in Requests |-> input[r].target],
                        [r \in Requests |-> OutcomeOf(r)]>>
  BY LedgerStep DEF ledgerVars, StoredIds, Asked, Outcomes
<1>3. QED
  BY <1>1, <1>2, QueryInvariance, PTL DEF Spec, ImplementsLedger, Ledger!Spec

-----------------------------------------------------------------------------
(* The causes of answers (UndocumentedAnswers).                            *)

Forbidden(r) ==
  /\ input[r].header.secret
  /\ input[r].header.key \in ApiKeys
  /\ apiKeys[input[r].header.key].status # "none"
  /\ ~HasScope(r)

(* Why r may be given status s.                                            *)
Cause(r, s) ==
  \/ s \in {401, 429, 500}
  \/ s = 403 /\ Forbidden(r)
  \/ s \in {201, 400} /\ input[r].route = "createWallet"
  \/ s \in {200, 404} /\ input[r].route = "getWalletBalance"
  \/ /\ s = 400
     /\ \/ input[r].header.form = "absent"
        \/ input[r].target = NoWallet
        \/ err[r] = "PrismaKnownError"

CauseInv(r) ==
  /\ pc[r] = "auditForbidden" => Forbidden(r)
  /\ pc[r] \in ToldLabels => Cause(r, status[r])

LEMMA CauseOfOne ==
  ASSUME NEW r \in Requests, \A q \in Requests : CauseInv(q),
         \A q \in Requests \ {r} :
           pc'[q] = pc[q] /\ status'[q] = status[q] /\ err'[q] = err[q],
         UNCHANGED <<input, apiKeys>>,
         CauseInv(r)'
  PROVE  \A q \in Requests : CauseInv(q)'
<1>1. ASSUME NEW q \in Requests, q # r PROVE CauseInv(q)'
  BY <1>1 DEF CauseInv, Cause, Forbidden, HasScope
<1>2. QED
  BY <1>1

LEMMA CauseStep ==
  ASSUME IInv, QueryInv, \A q \in Requests : CauseInv(q), Next
  PROVE  \A q \in Requests : CauseInv(q)'
<1>a. pc \in [Requests -> PcLabels]
  BY DEF IInv, TypeOK
<1>b. status \in [Requests -> Nat]
  BY DEF IInv, TypeOK
<1>c. err \in [Requests -> Errors \cup {"none"}]
  BY DEF IInv, TypeOK
(* A step that answers r with status s, or says so before it answers.      *)
<1>d. ASSUME NEW r \in Requests, NEW s, NEW l \in ToldLabels,
             pc' = [pc EXCEPT ![r] = l], status' = [status EXCEPT ![r] = s],
             UNCHANGED <<input, apiKeys, err>>,
             Cause(r, s)
      PROVE  \A q \in Requests : CauseInv(q)'
  <2>1. /\ pc'[r] = l /\ status'[r] = s
        /\ \A q \in Requests \ {r} : pc'[q] = pc[q] /\ status'[q] = status[q]
    BY <1>a, <1>b, <1>d
  <2>2. Forbidden(r)' <=> Forbidden(r)
    BY <1>d DEF Forbidden, HasScope
  <2>3. CauseInv(r)'
    BY <1>d, <2>1, <2>2 DEF CauseInv, Cause, ToldLabels
  <2>4. QED
    BY <1>d, <2>1, <2>3, CauseOfOne
(* A step after which r has no answer yet.                                 *)
<1>e. ASSUME NEW r \in Requests, NEW l, l \notin ToldLabels, pc' = [pc EXCEPT ![r] = l],
             UNCHANGED <<input, apiKeys, status>>,
             \A q \in Requests \ {r} : err'[q] = err[q],
             l = "auditForbidden" => Forbidden(r)
      PROVE  \A q \in Requests : CauseInv(q)'
  <2>1. pc'[r] = l /\ \A q \in Requests \ {r} : pc'[q] = pc[q]
    BY <1>a, <1>e
  <2>2. Forbidden(r)' <=> Forbidden(r)
    BY <1>e DEF Forbidden, HasScope
  <2>3. CauseInv(r)'
    BY <1>e, <2>1, <2>2 DEF CauseInv
  <2>4. QED
    BY <1>e, <2>1, <2>3, CauseOfOne
<1>1. ASSUME NEW r \in Requests, Arrive(r) PROVE \A q \in Requests : CauseInv(q)'
  <2>1. /\ pc' = [pc EXCEPT ![r] = "parse"] /\ UNCHANGED <<apiKeys, err, status>>
        /\ \E i : input' = [input EXCEPT ![r] = i]
    BY <1>1 DEF Arrive, Goto, tables
  <2>2. /\ pc'[r] = "parse"
        /\ \A q \in Requests \ {r} : pc'[q] = pc[q] /\ input'[q] = input[q]
    BY <1>a, <2>1 DEF IInv, TypeOK
  <2>3. QED
    BY <2>1, <2>2 DEF CauseInv, Cause, Forbidden, HasScope, ToldLabels
<1>2. ASSUME NEW r \in Requests,
             ParseBody(r) \/ RateLimit(r) \/ ValidateHeader(r) \/ LookupApiKey(r)
             \/ ValidateRequest(r)
      PROVE  \A q \in Requests : CauseInv(q)'
  <2>1. UNCHANGED <<input, apiKeys, err>>
    BY <1>2 DEF ParseBody, RateLimit, ValidateHeader, LookupApiKey, ValidateRequest, tables
  <2>2. \/ \E s \in {400, 429, 500} :
             /\ pc' = [pc EXCEPT ![r] = "answered"] /\ status' = [status EXCEPT ![r] = s]
             /\ s = 400 =>
                  input[r].header.form = "absent" \/ input[r].target = NoWallet
        \/ \E l \in PcLabels \ (ToldLabels \cup {"auditForbidden"}) :
             pc' = [pc EXCEPT ![r] = l] /\ UNCHANGED status
    <3>1. CASE ParseBody(r) \/ RateLimit(r)
      BY <3>1 DEF ParseBody, RateLimit, Goto, Answer, PcLabels, ToldLabels
    <3>2. CASE ValidateHeader(r) \/ LookupApiKey(r)
      BY <3>2 DEF ValidateHeader, LookupApiKey, Goto, Answer, PcLabels, ToldLabels
    <3>3. CASE ValidateRequest(r)
      BY <3>3 DEF ValidateRequest, Goto, Answer, PcLabels, ToldLabels
    <3>4. QED
      BY <1>2, <3>1, <3>2, <3>3
  <2>3. QED
    BY <1>d, <1>e, <2>1, <2>2 DEF ToldLabels, Cause
<1>3. ASSUME NEW r \in Requests, CompareSecret(r) PROVE \A q \in Requests : CauseInv(q)'
  <2>1. /\ UNCHANGED <<input, apiKeys, err, status>>
        /\ \E l \in {"auditUse", "auditForbidden", "auditDenied"} :
             /\ pc' = [pc EXCEPT ![r] = l]
             /\ l = "auditForbidden" => input[r].header.secret /\ ~HasScope(r)
    BY <1>3 DEF CompareSecret, Goto, tables
  <2>2. Known(r)
    BY <1>3 DEF CompareSecret, IInv, AuthInv, RequestInv
  <2>3. QED
    BY <1>e, <2>1, <2>2 DEF Known, Forbidden, ToldLabels
<1>4. ASSUME NEW r \in Requests,
             LogApiKeyUsage(r) \/ EncryptKey(r) \/ InsertWallet(r) \/ FindWallet(r)
             \/ CheckNetwork(r) \/ FetchBalance(r)
      PROVE  \A q \in Requests : CauseInv(q)'
  <2>1. /\ UNCHANGED <<input, apiKeys, status>>
        /\ \E l \in PcLabels \ (ToldLabels \cup {"auditForbidden"}) :
             pc' = [pc EXCEPT ![r] = l]
        /\ UNCHANGED err \/ \E x : err' = [err EXCEPT ![r] = x]
    BY <1>4 DEF LogApiKeyUsage, EncryptKey, InsertWallet, FindWallet, CheckNetwork,
      FetchBalance, Goto, Throw, tables, PcLabels, ToldLabels
  <2>2. \A q \in Requests \ {r} : err'[q] = err[q]
    BY <1>c, <2>1
  <2>3. QED
    BY <1>e, <2>1, <2>2
<1>5. ASSUME NEW r \in Requests, LogAuthenticationFailure(r) \/ LogScopeFailure(r)
      PROVE  \A q \in Requests : CauseInv(q)'
  <2>1. /\ UNCHANGED <<input, apiKeys, err>> /\ pc' = [pc EXCEPT ![r] = "respond"]
        /\ \/ status' = [status EXCEPT ![r] = 401]
           \/ pc[r] = "auditForbidden" /\ status' = [status EXCEPT ![r] = 403]
    BY <1>5 DEF LogAuthenticationFailure, LogScopeFailure, AnswerNext
  <2>2. PICK s : /\ status' = [status EXCEPT ![r] = s]
                 /\ Cause(r, s)
    BY <2>1 DEF CauseInv, Cause
  <2>3. "respond" \in ToldLabels
    BY DEF ToldLabels
  <2>4. QED
    BY <1>d, <2>1, <2>2, <2>3
<1>6. ASSUME NEW r \in Requests, LogOperation(r) PROVE \A q \in Requests : CauseInv(q)'
  <2>1. /\ UNCHANGED <<input, apiKeys, err>> /\ pc' = [pc EXCEPT ![r] = "respond"]
        /\ pc[r] = "auditSuccess"
        /\ status' = [status EXCEPT ![r] = SuccessStatus[input[r].route]]
    BY <1>6 DEF LogOperation, AnswerNext
  <2>2. input[r].route \in Routes
    BY <2>1 DEF IInv, AuthInv, RequestInv, Authorised, AuthenticatedLabels
  <2>3. SuccessStatus[input[r].route] = IF input[r].route = "createWallet" THEN 201 ELSE 200
    BY <2>2, RouteFacts
  <2>4. PICK s : s = SuccessStatus[input[r].route]
    OBVIOUS
  <2>5. "respond" \in ToldLabels
    BY DEF ToldLabels
  <2>6. Cause(r, s)
    BY <2>2, <2>3, <2>4 DEF Routes, Cause
  <2>7. QED
    BY <1>d, <2>1, <2>4, <2>5, <2>6
<1>7. ASSUME NEW r \in Requests, LogFailure(r) PROVE \A q \in Requests : CauseInv(q)'
  <2>1. /\ UNCHANGED <<input, apiKeys, err>> /\ pc' = [pc EXCEPT ![r] = "respond"]
        /\ pc[r] = "auditFailure" /\ err[r] \in Errors
        /\ status' = [status EXCEPT ![r] = StatusOf[err[r]]]
    BY <1>7 DEF LogFailure, AnswerNext, IInv, WalletInv, StorageInv
  <2>2. /\ err[r] # "EntityConstraintError"
        /\ err[r] = "NotFoundError" => input[r].route = "getWalletBalance"
    BY DEF QueryInv, AnswerInv
  <2>3. \/ StatusOf[err[r]] = 500
        \/ StatusOf[err[r]] = 404 /\ input[r].route = "getWalletBalance"
        \/ StatusOf[err[r]] = 400 /\ err[r] = "PrismaKnownError"
    BY <2>1, <2>2 DEF Errors, StatusOf
  <2>4. PICK s : s = StatusOf[err[r]]
    OBVIOUS
  <2>5. "respond" \in ToldLabels
    BY DEF ToldLabels
  <2>6. Cause(r, s)
    BY <2>3, <2>4 DEF Cause
  <2>7. QED
    BY <1>d, <2>1, <2>4, <2>5, <2>6
<1>8. ASSUME NEW r \in Requests, Respond(r) PROVE \A q \in Requests : CauseInv(q)'
  <2>1. /\ pc[r] = "respond" /\ pc' = [pc EXCEPT ![r] = "answered"]
        /\ UNCHANGED <<apiKeys, input, err, status>>
    BY <1>8 DEF Respond, Goto, tables
  <2>2. \A q \in Requests : pc'[q] \in ToldLabels => pc[q] \in ToldLabels
    BY <1>a, <2>1 DEF ToldLabels
  <2>3. \A q \in Requests : pc'[q] = "auditForbidden" => pc[q] = "auditForbidden"
    BY <1>a, <2>1
  <2>4. QED
    BY <2>1, <2>2, <2>3 DEF CauseInv, Cause, Forbidden, HasScope
<1>9. CASE Crash \/ Idle \/ \E r \in Requests : LogRateLimitExceeded(r)
  <2>1. /\ UNCHANGED <<apiKeys, input, err, status>>
        /\ \A q \in Requests : pc'[q] \in {pc[q], "lost"}
    BY <1>9 DEF Crash, Idle, LogRateLimitExceeded, vars, tables
  <2>2. QED
    BY <2>1 DEF CauseInv, Cause, Forbidden, HasScope, ToldLabels
(* Keys keep their scopes from their creation on.                          *)
<1>10. ASSUME NEW k \in ApiKeys, CreateApiKey(k) \/ DeactivateApiKey(k)
       PROVE  \A q \in Requests : CauseInv(q)'
  <2>1. UNCHANGED <<pc, input, err, status>>
    BY <1>10 DEF CreateApiKey, DeactivateApiKey
  <2>2. \A l \in ApiKeys : apiKeys[l].status # "none" =>
          apiKeys'[l].status # "none" /\ apiKeys'[l].scopes = apiKeys[l].scopes
    BY <1>10 DEF CreateApiKey, DeactivateApiKey, IInv, TypeOK
  <2>3. \A q \in Requests : Forbidden(q) => Forbidden(q)'
    BY <2>1, <2>2 DEF Forbidden, HasScope
  <2>4. QED
    BY <2>1, <2>3 DEF CauseInv, Cause
<1>11. QED
  BY <1>1, <1>2, <1>3, <1>4, <1>5, <1>6, <1>7, <1>8, <1>9, <1>10 DEF Next, Serve

(* A client meets no status that the documents do not list, but for a 403  *)
(* for want of the scope and the 400s of balance queries.                  *)
THEOREM AnswersAreDocumented == Spec => []UndocumentedAnswers
<1> DEFINE Inv == \A r \in Requests : CauseInv(r)
<1>1. Init => Inv
  BY DEF Init, CauseInv, ToldLabels
<1>2. IInv /\ QueryInv /\ Inv /\ [Next]_vars => Inv'
  <2>1. Inv /\ UNCHANGED vars => Inv'
    BY DEF CauseInv, Cause, Forbidden, HasScope, vars, tables
  <2>2. QED
    BY <2>1, CauseStep
<1>3. IInv /\ Inv => UndocumentedAnswers
  <2> SUFFICES ASSUME IInv, Inv, NEW r \in Requests, Answered(r),
                      status[r] \notin IF input[r].route = "createWallet"
                                       THEN DocumentedForCreate ELSE DocumentedForBalance
               PROVE  \/ status[r] = 403 /\ input[r].header.secret /\ ~HasScope(r)
                      \/ /\ status[r] = 400 /\ input[r].route = "getWalletBalance"
                         /\ \/ input[r].header.form = "absent"
                            \/ input[r].target = NoWallet
                            \/ err[r] = "PrismaKnownError"
    BY DEF UndocumentedAnswers
  <2>1. Cause(r, status[r])
    BY DEF CauseInv, Answered, ToldLabels
  <2>2. input[r].route \in Routes
    BY DEF IInv, AuthInv, RequestInv, Answered, Inputs
  <2>3. QED
    BY <2>1, <2>2 DEF Cause, Forbidden, Routes, DocumentedForCreate, DocumentedForBalance
<1>4. QED
  <2> HIDE DEF Inv
  <2>1. QED
    BY <1>1, <1>2, <1>3, QueryInvariance, PTL DEF Spec

=============================================================================
