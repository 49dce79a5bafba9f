--------------------------- MODULE WalletApi_proofs ---------------------------
(***************************************************************************)
(* Safety of WalletApi for any sets of requests and keys, any choice of    *)
(* scopes and any number of crashes.                                       *)
(*                                                                         *)
(* The inductive invariant IInv has three parts: the types, what is known  *)
(* of a request by the place it has reached (AuthInv: who it is;           *)
(* WalletInv: what it has stored).                                         *)
(***************************************************************************)
EXTENDS WalletApi, TLAPS

(* The awaits between the authentication and the answer.                   *)
BalanceLabels == {"find", "health", "fetch"}
CreateLabels == {"encrypt", "insert"}
AuthenticatedLabels ==
  {"auditUse", "validate", "auditSuccess", "auditFailure"}
    \cup BalanceLabels \cup CreateLabels

(* The key r presented is one the database knows, and was not yet          *)
(* deactivated when r arrived.                                             *)
Known(r) ==
  /\ input[r].header.key \in ApiKeys
  /\ apiKeys[input[r].header.key].status # "none"
  /\ r \notin revoked

Authorised(r) ==
  /\ Known(r)
  /\ input[r].route \in Routes
  /\ input[r].header.secret
  /\ HasScope(r)
  /\ authKey[r] = input[r].header.key

RevokedInv ==
  \A r \in revoked : /\ input[r].header.key \in ApiKeys
                     /\ apiKeys[input[r].header.key].status = "inactive"

RequestInv ==
  \A r \in Requests :
    /\ pc[r] = "idle" => authKey[r] = NoKey /\ r \notin revoked
    /\ pc[r] # "idle" => input[r] \in Inputs
    /\ pc[r] = "compare" => Known(r)
    /\ authKey[r] # NoKey => Authorised(r) 
    /\ pc[r] \in AuthenticatedLabels => authKey[r] # NoKey

TableInv ==
  /\ \A w \in wallets : authKey[w.id] # NoKey
  /\ \A row \in auditLog :
       row.event \in OperationEvents => authKey[row.req] # NoKey

AuthInv == RevokedInv /\ RequestInv /\ TableInv

(* What r has stored, and what it is about to say of it.                   *)
StorageInv(r) ==
  /\ pc[r] \in BalanceLabels => input[r].route = "getWalletBalance"
  /\ pc[r] \in CreateLabels => input[r].route = "createWallet"
  /\ pc[r] = "auditSuccess" /\ input[r].route = "createWallet" => Stored(r)
  /\ pc[r] = "auditFailure" => err[r] \in Errors
  /\ pc[r] \in {"respond", "answered"} /\ status[r] = 201 => Stored(r)
  /\ Stored(r) =>
       /\ pc[r] \in {"auditSuccess", "auditFailure", "respond", "answered", "lost"}
       /\ pc[r] = "auditSuccess" => input[r].route = "createWallet"
       /\ pc[r] = "auditFailure" => r \in unsure
       /\ pc[r] \in {"respond", "answered"} /\ status[r] # 201 => r \in unsure

SuccessRowInv ==
  \A row \in auditLog :
    row.event = "WALLET_CREATION" /\ row.ok => Stored(row.req)

WalletInv == (\A r \in Requests : StorageInv(r)) /\ SuccessRowInv

IInv == TypeOK /\ AuthInv /\ WalletInv

-----------------------------------------------------------------------------
(* The tables of constants have the values their names promise.            *)
LEMMA RouteFacts ==
  ASSUME NEW route \in Routes
  PROVE  /\ OperationEvent[route] \in Events
         /\ OperationEvent[route] \in OperationEvents
         /\ SuccessStatus[route] \in {200, 201}
         /\ SuccessStatus[route] = 201 <=> route = "createWallet"
         /\ OperationEvent[route] = "WALLET_CREATION" <=> route = "createWallet"
BY DEF Routes, OperationEvent, SuccessStatus, Events, OperationEvents

LEMMA StatusFacts ==
  ASSUME NEW e \in Errors
  PROVE  StatusOf[e] \in Nat /\ StatusOf[e] # 201
BY DEF Errors, StatusOf

(* An entry a request writes about itself has the type of a row.           *)
LEMMA AuditRowType ==
  ASSUME TypeOK, NEW r \in Requests, NEW event \in Events, NEW ok \in BOOLEAN
  PROVE  AuditRow(r, event, ok) \in AuditRows
BY DEF TypeOK, AuditRow, AuditRows

LEMMA InitIInv == Init => IInv
<1>1. Init => TypeOK
  BY CrashAssumption
     DEF Init, TypeOK, PcLabels, NoInput
<1>2. Init => AuthInv
  BY DEF Init, AuthInv, RevokedInv, RequestInv, TableInv, AuthenticatedLabels,
         BalanceLabels, CreateLabels
<1>3. Init => WalletInv
  BY DEF Init, WalletInv, StorageInv, SuccessRowInv, BalanceLabels, CreateLabels,
         Stored
<1>4. QED
  BY <1>1, <1>2, <1>3 DEF IInv

(* What logSecurityEvent does to the log: at most the entry is added.      *)
LEMMA LogType ==
  ASSUME TypeOK, NEW row \in AuditRows, LogSecurityEvent(row)
  PROVE  /\ auditLog' \subseteq AuditRows
         /\ lostRows' \subseteq AuditRows
         /\ auditLog' \subseteq auditLog \cup {row}
BY DEF TypeOK, LogSecurityEvent

-----------------------------------------------------------------------------
(* Types.                                                                  *)

LEMMA TypeStep ==
  ASSUME IInv, Next
  PROVE  TypeOK'
<1> USE DEF IInv
<1>1. ASSUME NEW r \in Requests, Arrive(r) PROVE TypeOK'
  BY <1>1 DEF TypeOK, Arrive, Goto, PcLabels, tables
<1>2. ASSUME NEW r \in Requests, ParseBody(r) PROVE TypeOK'
  BY <1>2 DEF TypeOK, ParseBody, Goto, Answer, PcLabels, tables, observers
<1>3. ASSUME NEW r \in Requests, RateLimit(r) PROVE TypeOK'
  BY <1>3 DEF TypeOK, RateLimit, Goto, Answer, PcLabels, tables, observers
<1>4. ASSUME NEW r \in Requests, LogRateLimitExceeded(r) PROVE TypeOK'
  <2>1. AuditRow(r, "RATE_LIMIT_EXCEEDED", FALSE) \in AuditRows
    BY AuditRowType DEF Events
  <2>2. /\ auditLog' \subseteq AuditRows
        /\ lostRows' \subseteq AuditRows
    BY <1>4, <2>1, LogType DEF LogRateLimitExceeded
  <2>3. QED
    BY <1>4, <2>2 DEF TypeOK, LogRateLimitExceeded
<1>5. ASSUME NEW r \in Requests, ValidateHeader(r) PROVE TypeOK'
  BY <1>5 DEF TypeOK, ValidateHeader, Goto, Answer, PcLabels, tables, observers
<1>6. ASSUME NEW r \in Requests, LookupApiKey(r) PROVE TypeOK'
  BY <1>6 DEF TypeOK, LookupApiKey, Goto, Answer, PcLabels, tables, observers
<1>7. ASSUME NEW r \in Requests, CompareSecret(r) PROVE TypeOK'
  <2>1. input[r].header.key \in ApiKeys
    BY <1>7 DEF CompareSecret, AuthInv, RequestInv, Known
  <2>2. QED
    BY <1>7, <2>1 DEF TypeOK, CompareSecret, Goto, PcLabels, tables, observers
<1>8. ASSUME NEW r \in Requests,
             LogAuthenticationFailure(r) \/ LogScopeFailure(r) \/ LogApiKeyUsage(r)
      PROVE  TypeOK'
  <2>1. \A ok \in BOOLEAN : AuditRow(r, "API_KEY_USAGE", ok) \in AuditRows
    BY AuditRowType DEF Events
  <2>2. /\ auditLog' \subseteq AuditRows
        /\ lostRows' \subseteq AuditRows
    BY <1>8, <2>1, LogType
       DEF LogAuthenticationFailure, LogScopeFailure, LogApiKeyUsage
  <2>3. CASE LogAuthenticationFailure(r)
    BY <2>2, <2>3 DEF TypeOK, LogAuthenticationFailure, AnswerNext, PcLabels
  <2>4. CASE LogScopeFailure(r)
    BY <2>2, <2>4 DEF TypeOK, LogScopeFailure, AnswerNext, PcLabels
  <2>5. CASE LogApiKeyUsage(r)
    BY <2>2, <2>5 DEF TypeOK, LogApiKeyUsage, Goto, PcLabels
  <2>6. QED
    BY <1>8, <2>3, <2>4, <2>5
<1>9. ASSUME NEW r \in Requests, ValidateRequest(r) PROVE TypeOK'
  BY <1>9 DEF TypeOK, ValidateRequest, Goto, Answer, PcLabels, tables, observers
<1>10. ASSUME NEW r \in Requests, EncryptKey(r) PROVE TypeOK'
  BY <1>10 DEF TypeOK, EncryptKey, Goto, Throw, PcLabels, Errors, tables, observers
<1>11. ASSUME NEW r \in Requests, InsertWallet(r) PROVE TypeOK'
  <2>1. [id |-> r, ss58Format |-> Ss58Format] \in WalletRows
    BY DEF WalletRows, Ss58Format
  <2>2. wallets' \subseteq WalletRows
    BY <1>11, <2>1 DEF TypeOK, InsertWallet
  <2>3. QED
    BY <1>11, <2>2 DEF TypeOK, InsertWallet, Goto, Throw, PcLabels, Errors
<1>12. ASSUME NEW r \in Requests, FindWallet(r) PROVE TypeOK'
  BY <1>12 DEF TypeOK, FindWallet, Goto, Throw, PcLabels, Errors, tables, observers
<1>13. ASSUME NEW r \in Requests, CheckNetwork(r) \/ FetchBalance(r) PROVE TypeOK'
  BY <1>13 DEF TypeOK, CheckNetwork, FetchBalance, Goto, Throw, PcLabels, Errors,
    tables, observers
<1>14. ASSUME NEW r \in Requests, LogOperation(r) \/ LogFailure(r) PROVE TypeOK'
  <2>1. input[r].route \in Routes
    BY <1>14 DEF LogOperation, LogFailure, AuthInv, RequestInv, Authorised,
      AuthenticatedLabels
  <2>2. \A ok \in BOOLEAN :
          AuditRow(r, OperationEvent[input[r].route], ok) \in AuditRows
    BY <2>1, RouteFacts, AuditRowType
  <2>3. /\ auditLog' \subseteq AuditRows
        /\ lostRows' \subseteq AuditRows
    BY <1>14, <2>2, LogType DEF LogOperation, LogFailure
  <2>4. SuccessStatus[input[r].route] \in Nat
    BY <2>1, RouteFacts
  <2>5. CASE LogOperation(r)
    BY <2>3, <2>4, <2>5 DEF TypeOK, LogOperation, AnswerNext, PcLabels
  <2>6. CASE LogFailure(r)
    <3>1. StatusOf[err[r]] \in Nat
      BY <2>6, StatusFacts DEF LogFailure, WalletInv, StorageInv
    <3>2. QED
      BY <2>3, <2>6, <3>1 DEF TypeOK, LogFailure, AnswerNext, PcLabels
  <2>7. QED
    BY <1>14, <2>5, <2>6
<1>15. ASSUME NEW r \in Requests, Respond(r) PROVE TypeOK'
  BY <1>15 DEF TypeOK, Respond, Goto, PcLabels, tables, observers
<1>16. CASE Crash
  BY <1>16, CrashAssumption DEF TypeOK, Crash, PcLabels, tables, observers
<1>17. ASSUME NEW k \in ApiKeys, CreateApiKey(k) PROVE TypeOK'
  BY <1>17, ScopeAssumption DEF TypeOK, CreateApiKey, observers
<1>18. ASSUME NEW k \in ApiKeys, DeactivateApiKey(k) PROVE TypeOK'
  BY <1>18 DEF TypeOK, DeactivateApiKey, observers
<1>19. CASE Idle
  BY <1>19 DEF TypeOK, Idle, vars, tables, observers
<1>20. QED
  BY <1>1, <1>2, <1>3, <1>4, <1>5, <1>6, <1>7, <1>8, <1>9, <1>10, <1>11, <1>12,
     <1>13, <1>14, <1>15, <1>16, <1>17, <1>18, <1>19
     DEF Next, Serve

-----------------------------------------------------------------------------
(* Who a request is.  Only three kinds of steps matter: the middlewares    *)
(* that learn it, the steps of the operator on the keys, and the writes    *)
(* of tables, which rest on what is already known.                         *)

LEMMA AuthStep ==
  ASSUME IInv, Next
  PROVE  AuthInv'
<1> USE DEF IInv
<1>a. \A r \in Requests : pc[r] \in PcLabels
  BY DEF TypeOK
(* A step that leaves the keys, the inputs and the identities alone, and   *)
(* moves one request to a place it may be at.                              *)
<1>0. ASSUME NEW r \in Requests, NEW label \in PcLabels,
             pc[r] # "idle", pc' = [pc EXCEPT ![r] = label],
             label \notin {"idle", "compare"},
             label \in AuthenticatedLabels => authKey[r] # NoKey,
             UNCHANGED <<apiKeys, input, authKey, revoked>>
      PROVE  RevokedInv' /\ RequestInv'
  BY <1>0, <1>a DEF TypeOK, AuthInv, RevokedInv, RequestInv, Authorised, Known, HasScope
<1>1. ASSUME NEW r \in Requests, Arrive(r) PROVE AuthInv'
  <2>1. PICK i \in Inputs :
          /\ input' = [input EXCEPT ![r] = i]
          /\ revoked' = IF /\ i.header.key \in ApiKeys
                           /\ apiKeys[i.header.key].status = "inactive"
                        THEN revoked \cup {r} ELSE revoked
    BY <1>1 DEF Arrive
  <2>2. /\ pc[r] = "idle" /\ authKey[r] = NoKey /\ r \notin revoked
        /\ pc' = [pc EXCEPT ![r] = "parse"]
        /\ UNCHANGED <<apiKeys, wallets, auditLog, authKey>>
    BY <1>1 DEF Arrive, Goto, tables, AuthInv, RequestInv
  <2>3. RevokedInv'
    BY <2>1, <2>2 DEF TypeOK, AuthInv, RevokedInv
  <2>4. RequestInv'
    BY <2>1, <2>2 DEF TypeOK, AuthInv, RequestInv, AuthenticatedLabels,
      BalanceLabels, CreateLabels, Authorised, Known, HasScope
  <2>5. TableInv'
    BY <2>2 DEF AuthInv, TableInv
  <2>6. QED
    BY <2>3, <2>4, <2>5 DEF AuthInv
<1>2. ASSUME NEW r \in Requests,
             ParseBody(r) \/ RateLimit(r) \/ ValidateHeader(r)
      PROVE  AuthInv'
  <2>1. PICK label \in {"limit", "header", "lookup", "answered"} :
          pc' = [pc EXCEPT ![r] = label]
    BY <1>2 DEF ParseBody, RateLimit, ValidateHeader, Goto, Answer
  <2>2. pc[r] # "idle" /\ UNCHANGED <<tables, input, authKey, revoked>>
    BY <1>2 DEF ParseBody, RateLimit, ValidateHeader, observers
  <2>3. RevokedInv' /\ RequestInv'
    BY <1>0, <2>1, <2>2 DEF PcLabels, AuthenticatedLabels, BalanceLabels,
      CreateLabels, tables
  <2>4. QED
    BY <2>2, <2>3 DEF AuthInv, TableInv, tables
<1>3. ASSUME NEW r \in Requests, LookupApiKey(r) PROVE AuthInv'
  <2>1. pc[r] = "lookup" /\ UNCHANGED <<tables, input, authKey, revoked>>
    BY <1>3 DEF LookupApiKey, observers
  <2>2. CASE ActiveKey(input[r].header.key) /\ pc' = [pc EXCEPT ![r] = "compare"]
    <3>1. Known(r)
      BY <2>1, <2>2 DEF ActiveKey, Known, AuthInv, RevokedInv
    <3>2. QED
      BY <2>1, <2>2, <3>1 DEF TypeOK, AuthInv, RevokedInv, RequestInv, TableInv,
        tables, AuthenticatedLabels, BalanceLabels, CreateLabels, Authorised,
        Known, HasScope
  <2>3. CASE \E label \in {"auditDenied", "answered"} : pc' = [pc EXCEPT ![r] = label]
    <3>1. RevokedInv' /\ RequestInv'
      BY <1>0, <2>1, <2>3 DEF PcLabels, AuthenticatedLabels, BalanceLabels,
        CreateLabels, tables
    <3>2. QED
      BY <2>1, <3>1 DEF AuthInv, TableInv, tables
  <2>4. QED
    BY <1>3, <2>2, <2>3 DEF LookupApiKey, Goto, Answer
<1>4. ASSUME NEW r \in Requests, CompareSecret(r) PROVE AuthInv'
  <2>1. /\ pc[r] = "compare"
        /\ UNCHANGED <<tables, input, revoked>>
        /\ Known(r)
        /\ input[r] \in Inputs
    BY <1>4 DEF CompareSecret, observers, AuthInv, RequestInv
  <2>2. CASE /\ input[r].header.secret /\ HasScope(r)
             /\ authKey' = [authKey EXCEPT ![r] = input[r].header.key]
             /\ pc' = [pc EXCEPT ![r] = "auditUse"]
    <3>1. input[r].header.key # NoKey /\ input[r].route \in Routes
      BY <2>1, NoKeyAssumption DEF Known, Inputs
    <3>2. authKey[r] = NoKey \/ authKey[r] = input[r].header.key
      BY DEF AuthInv, RequestInv, Authorised
    <3>3. RevokedInv' /\ RequestInv'
      BY <2>1, <2>2, <3>1 DEF TypeOK, AuthInv, RevokedInv, RequestInv, tables,
        AuthenticatedLabels, BalanceLabels, CreateLabels, Authorised, Known, HasScope
    <3>4. TableInv'
      BY <2>1, <2>2, <3>1 DEF TypeOK, AuthInv, TableInv, tables, WalletRows, AuditRows
    <3>5. QED
      BY <3>3, <3>4 DEF AuthInv
  <2>3. CASE /\ \E label \in {"auditForbidden", "auditDenied"} :
                  pc' = [pc EXCEPT ![r] = label]
             /\ UNCHANGED authKey
    <3>1. RevokedInv' /\ RequestInv'
      BY <1>0, <2>1, <2>3 DEF PcLabels, AuthenticatedLabels, BalanceLabels,
        CreateLabels, tables
    <3>2. QED
      BY <2>1, <2>3, <3>1 DEF AuthInv, TableInv, tables
  <2>4. QED
    BY <1>4, <2>2, <2>3 DEF CompareSecret, Goto
(* A step of an authenticated request up to its answer: it may write about *)
(* itself.                                                                 *)
<1>5. ASSUME NEW r \in Requests,
             authKey[r] # NoKey,
             pc[r] # "idle",
             \E label \in PcLabels \ {"idle", "compare"} : pc' = [pc EXCEPT ![r] = label],
             UNCHANGED <<apiKeys, input, authKey, revoked>>,
             \A w \in wallets' : w \in wallets \/ w.id = r,
             \A row \in auditLog' : row \in auditLog \/ row.req = r
      PROVE  AuthInv'
  BY <1>0, <1>5 DEF AuthInv, TableInv
(* A step that logs something other than an operation.                     *)
<1>6. ASSUME NEW r \in Requests,
             NEW event \in {"API_KEY_USAGE", "RATE_LIMIT_EXCEEDED"},
             NEW ok \in BOOLEAN,
             LogSecurityEvent(AuditRow(r, event, ok)),
             UNCHANGED <<wallets, authKey>>
      PROVE  TableInv'
  BY <1>6 DEF AuthInv, TableInv, LogSecurityEvent, AuditRow, OperationEvents
<1>7. ASSUME NEW r \in Requests, LogRateLimitExceeded(r) PROVE AuthInv'
  <2>1. TableInv'
    BY <1>6, <1>7 DEF LogRateLimitExceeded
  <2>2. RevokedInv' /\ RequestInv'
    BY <1>7 DEF LogRateLimitExceeded, AuthInv, RevokedInv, RequestInv, Authorised,
      Known, HasScope
  <2>3. QED
    BY <2>1, <2>2 DEF AuthInv
<1>8. ASSUME NEW r \in Requests,
             LogAuthenticationFailure(r) \/ LogScopeFailure(r) \/ LogApiKeyUsage(r)
      PROVE  AuthInv'
  <2>1. TableInv'
    BY <1>6, <1>8 DEF LogAuthenticationFailure, LogScopeFailure, LogApiKeyUsage
  <2>2. CASE LogAuthenticationFailure(r) \/ LogScopeFailure(r)
    BY <1>0, <2>1, <2>2 DEF LogAuthenticationFailure, LogScopeFailure, AnswerNext,
      PcLabels, AuthenticatedLabels, BalanceLabels, CreateLabels, AuthInv
  <2>3. CASE LogApiKeyUsage(r)
    <3>1. authKey[r] # NoKey
      BY <2>3 DEF LogApiKeyUsage, AuthInv, RequestInv, AuthenticatedLabels
    <3>2. QED
      BY <1>0, <2>1, <2>3, <3>1 DEF LogApiKeyUsage, Goto, PcLabels, AuthInv
  <2>4. QED
    BY <1>8, <2>2, <2>3
<1>9. ASSUME NEW r \in Requests,
             \/ ValidateRequest(r) \/ EncryptKey(r) \/ InsertWallet(r)
             \/ FindWallet(r) \/ CheckNetwork(r) \/ FetchBalance(r)
             \/ LogOperation(r) \/ LogFailure(r)
      PROVE  AuthInv'
  <2>1. pc[r] \in AuthenticatedLabels
    BY <1>9 DEF ValidateRequest, EncryptKey, InsertWallet, FindWallet, CheckNetwork,
      FetchBalance, LogOperation, LogFailure, AuthenticatedLabels, BalanceLabels,
      CreateLabels
  <2>2. authKey[r] # NoKey /\ pc[r] # "idle"
    BY <2>1 DEF AuthInv, RequestInv, AuthenticatedLabels, BalanceLabels, CreateLabels
  <2>3. \E label \in PcLabels \ {"idle", "compare"} : pc' = [pc EXCEPT ![r] = label]
    BY <1>9 DEF ValidateRequest, EncryptKey, InsertWallet, FindWallet, CheckNetwork,
      FetchBalance, LogOperation, LogFailure, Goto, Answer, AnswerNext, Throw, PcLabels
  <2>4. UNCHANGED <<apiKeys, input, authKey, revoked>>
    BY <1>9 DEF ValidateRequest, EncryptKey, InsertWallet, FindWallet, CheckNetwork,
      FetchBalance, LogOperation, LogFailure, tables, observers
  <2>5. \A w \in wallets' : w \in wallets \/ w.id = r
    <3>1. CASE InsertWallet(r)
      BY <3>1 DEF InsertWallet
    <3>2. CASE ~InsertWallet(r)
      <4>1. UNCHANGED wallets
        BY <1>9, <3>2 DEF ValidateRequest, EncryptKey, FindWallet, CheckNetwork,
          FetchBalance, LogOperation, LogFailure, tables
      <4>2. QED
        BY <4>1
    <3>3. QED
      BY <3>1, <3>2
  <2>6. \A row \in auditLog' : row \in auditLog \/ row.req = r
    BY <1>9 DEF ValidateRequest, EncryptKey, InsertWallet, FindWallet, CheckNetwork,
      FetchBalance, LogOperation, LogFailure, tables, LogSecurityEvent, AuditRow
  <2>7. QED
    BY <1>5, <2>2, <2>3, <2>4, <2>5, <2>6
<1>10. ASSUME NEW r \in Requests, Respond(r) PROVE AuthInv'
  <2>1. RevokedInv' /\ RequestInv'
    BY <1>0, <1>10 DEF Respond, Goto, PcLabels, tables, observers,
      AuthenticatedLabels, BalanceLabels, CreateLabels
  <2>2. QED
    BY <1>10, <2>1 DEF Respond, tables, AuthInv, TableInv
<1>11. CASE Crash
  BY <1>11, <1>a DEF Crash, InFlight, tables, observers, TypeOK, AuthInv, RevokedInv,
    RequestInv, TableInv, AuthenticatedLabels, BalanceLabels, CreateLabels,
    Authorised, Known, HasScope
<1>12. ASSUME NEW k \in ApiKeys, CreateApiKey(k) PROVE AuthInv'
  BY <1>12 DEF CreateApiKey, observers, TypeOK, AuthInv, RevokedInv, RequestInv,
    TableInv, Authorised, Known, HasScope
<1>13. ASSUME NEW k \in ApiKeys, DeactivateApiKey(k) PROVE AuthInv'
  BY <1>13 DEF DeactivateApiKey, observers, TypeOK, AuthInv, RevokedInv, RequestInv,
    TableInv, Authorised, Known, HasScope
<1>14. CASE Idle
  BY <1>14 DEF Idle, vars, tables, observers, AuthInv, RevokedInv, RequestInv,
    TableInv, Authorised, Known, HasScope
<1>15. QED
  BY <1>1, <1>2, <1>3, <1>4, <1>7, <1>8, <1>9, <1>10, <1>11, <1>12, <1>13, <1>14
     DEF Next, Serve

-----------------------------------------------------------------------------
(* What a request has stored.                                              *)

LEMMA WalletStep ==
  ASSUME IInv, Next
  PROVE  WalletInv'
<1> USE DEF IInv
<1> DEFINE Others(r) ==
      \A q \in Requests \ {r} :
        /\ pc'[q] = pc[q] /\ status'[q] = status[q] /\ err'[q] = err[q]
        /\ input'[q] = input[q]
        /\ Stored(q)' <=> Stored(q)
        /\ q \in unsure' <=> q \in unsure
<1>a. ASSUME NEW r \in Requests, Others(r), StorageInv(r)', SuccessRowInv'
      PROVE  WalletInv'
  <2>1. ASSUME NEW q \in Requests, q # r PROVE StorageInv(q)'
    BY <1>a, <2>1 DEF StorageInv, WalletInv
  <2>2. QED
    BY <1>a, <2>1 DEF WalletInv
<1>b. ASSUME UNCHANGED wallets PROVE \A q \in Requests : Stored(q)' <=> Stored(q)
  BY <1>b DEF Stored
<1>c. ASSUME UNCHANGED <<wallets, auditLog>> PROVE SuccessRowInv'
  BY <1>c, <1>b DEF SuccessRowInv, WalletInv, TypeOK, AuditRows
<1>1. ASSUME NEW r \in Requests, Arrive(r) PROVE WalletInv'
  <2>1. /\ pc' = [pc EXCEPT ![r] = "parse"] /\ pc[r] = "idle"
        /\ \E i : input' = [input EXCEPT ![r] = i]
        /\ UNCHANGED <<wallets, auditLog, status, err, unsure>>
    BY <1>1 DEF Arrive, Goto, tables
  <2>2. Others(r)
    BY <1>b, <2>1 DEF TypeOK
  <2>3. ~Stored(r)
    BY <2>1 DEF WalletInv, StorageInv
  <2>4. StorageInv(r)'
    BY <1>b, <2>1, <2>3 DEF StorageInv, BalanceLabels, CreateLabels, TypeOK
  <2>5. QED
    BY <1>a, <1>c, <2>1, <2>2, <2>4
<1>2. ASSUME NEW r \in Requests,
             \/ ParseBody(r) \/ RateLimit(r) \/ ValidateHeader(r)
             \/ LookupApiKey(r) \/ CompareSecret(r) \/ ValidateRequest(r)
      PROVE  WalletInv'
  <2>1. PICK label \in PcLabels, s \in Nat :
          /\ pc' = [pc EXCEPT ![r] = label]
          /\ label \in {"limit", "header", "lookup", "compare", "auditDenied",
                        "auditForbidden", "auditUse", "encrypt", "find", "answered"}
          /\ label = "encrypt" => input[r].route = "createWallet"
          /\ label = "find" => input[r].route = "getWalletBalance"
          /\ status' = [status EXCEPT ![r] = s]
          /\ label = "answered" => s # 201
    <3>1. UNCHANGED status => status' = [status EXCEPT ![r] = status[r]]
      BY DEF TypeOK
    <3>2. status[r] \in Nat
      BY DEF TypeOK
    <3>3. CASE ValidateRequest(r)
      <4>1. input[r].route \in Routes
        BY <3>3 DEF ValidateRequest, AuthInv, RequestInv, Authorised,
          AuthenticatedLabels
      <4>2. QED
        BY <3>1, <3>2, <3>3, <4>1 DEF ValidateRequest, Goto, Answer, PcLabels, Routes
    <3>4. CASE ParseBody(r) \/ RateLimit(r) \/ ValidateHeader(r)
      BY <3>1, <3>2, <3>4 DEF ParseBody, RateLimit, ValidateHeader, Goto, Answer, PcLabels
    <3>5. CASE LookupApiKey(r) \/ CompareSecret(r)
      BY <3>1, <3>2, <3>5 DEF LookupApiKey, CompareSecret, Goto, Answer, PcLabels
    <3>6. QED
      BY <1>2, <3>3, <3>4, <3>5
  <2>2. UNCHANGED <<wallets, auditLog, input, err, unsure>>
    BY <1>2 DEF ParseBody, RateLimit, ValidateHeader, LookupApiKey, CompareSecret,
      ValidateRequest, tables, observers
  <2>3. ~Stored(r)
    BY <1>2 DEF ParseBody, RateLimit, ValidateHeader, LookupApiKey, CompareSecret,
      ValidateRequest, WalletInv, StorageInv
  <2>4. Others(r)
    BY <1>b, <2>1, <2>2 DEF TypeOK
  <2>5. StorageInv(r)'
    BY <1>b, <2>1, <2>2, <2>3 DEF StorageInv, BalanceLabels, CreateLabels, TypeOK
  <2>6. QED
    BY <1>a, <1>c, <2>2, <2>4, <2>5
(* A step that logs something other than the creation of a wallet.         *)
<1>3. ASSUME NEW row \in AuditRows, LogSecurityEvent(row), UNCHANGED wallets,
             row.event # "WALLET_CREATION" \/ ~row.ok
      PROVE  SuccessRowInv'
  BY <1>b, <1>3 DEF LogSecurityEvent, SuccessRowInv, WalletInv, TypeOK, AuditRows
<1>4. ASSUME NEW r \in Requests, LogRateLimitExceeded(r) PROVE WalletInv'
  <2>1. SuccessRowInv'
    BY <1>3, <1>4, AuditRowType DEF LogRateLimitExceeded, AuditRow, Events
  <2>2. UNCHANGED <<wallets, pc, input, status, err, unsure>>
    BY <1>4 DEF LogRateLimitExceeded
  <2>3. Others(r) /\ StorageInv(r)'
    BY <1>b, <2>2 DEF WalletInv, StorageInv
  <2>4. QED
    BY <1>a, <2>1, <2>3
<1>5. ASSUME NEW r \in Requests,
             LogAuthenticationFailure(r) \/ LogScopeFailure(r) \/ LogApiKeyUsage(r)
      PROVE  WalletInv'
  <2>1. SuccessRowInv'
    BY <1>3, <1>5, AuditRowType
       DEF LogAuthenticationFailure, LogScopeFailure, LogApiKeyUsage, AuditRow, Events
  <2>2. /\ UNCHANGED <<wallets, input, err, unsure>>
        /\ ~Stored(r)
    BY <1>5 DEF LogAuthenticationFailure, LogScopeFailure, LogApiKeyUsage,
      WalletInv, StorageInv
  <2>3. CASE LogApiKeyUsage(r)
    <3>1. Others(r) /\ StorageInv(r)'
      BY <1>b, <2>2, <2>3 DEF LogApiKeyUsage, Goto, TypeOK, StorageInv, BalanceLabels,
        CreateLabels
    <3>2. QED
      BY <1>a, <2>1, <3>1
  <2>4. CASE LogAuthenticationFailure(r) \/ LogScopeFailure(r)
    <3>1. PICK s \in {401, 403} : AnswerNext(r, s)
      BY <2>4 DEF LogAuthenticationFailure, LogScopeFailure
    <3>2. Others(r) /\ StorageInv(r)'
      BY <1>b, <2>2, <3>1 DEF AnswerNext, TypeOK, StorageInv, BalanceLabels, CreateLabels
    <3>3. QED
      BY <1>a, <2>1, <3>2
  <2>5. QED
    BY <1>5, <2>3, <2>4
(* A step of the handler before anything is stored.                        *)
<1>6. ASSUME NEW r \in Requests,
             EncryptKey(r) \/ FindWallet(r) \/ CheckNetwork(r) \/ FetchBalance(r)
      PROVE  WalletInv'
  <2>1. /\ UNCHANGED <<wallets, auditLog, input, status, unsure>>
        /\ ~Stored(r)
    BY <1>6 DEF EncryptKey, FindWallet, CheckNetwork, FetchBalance, tables, observers,
      WalletInv, StorageInv
  <2>2. CASE \E e \in Errors : Throw(r, e)
    <3>1. Others(r) /\ StorageInv(r)'
      BY <1>b, <2>1, <2>2 DEF Throw, TypeOK, StorageInv, BalanceLabels, CreateLabels
    <3>2. QED
      BY <1>a, <1>c, <2>1, <3>1
  <2>3. CASE /\ UNCHANGED err
             /\ \/ pc[r] = "encrypt" /\ Goto(r, "insert")
                \/ pc[r] = "find" /\ Goto(r, "health")
                \/ pc[r] = "health" /\ Goto(r, "fetch")
                \/ pc[r] = "fetch" /\ Goto(r, "auditSuccess")
    <3>1. Others(r)
      BY <1>b, <2>1, <2>3 DEF Goto, TypeOK
    <3>2. StorageInv(r)'
      BY <1>b, <2>1, <2>3 DEF Goto, TypeOK, WalletInv, StorageInv, BalanceLabels,
        CreateLabels
    <3>3. QED
      BY <1>a, <1>c, <2>1, <3>1, <3>2
  <2>4. QED
    BY <1>6, <2>2, <2>3 DEF EncryptKey, FindWallet, CheckNetwork, FetchBalance, Errors
<1>7. ASSUME NEW r \in Requests, InsertWallet(r) PROVE WalletInv'
  <2> DEFINE row == [id |-> r, ss58Format |-> Ss58Format]
  <2>1. /\ pc[r] = "insert" /\ input[r].route = "createWallet" /\ ~Stored(r)
        /\ UNCHANGED <<auditLog, input, status>>
    BY <1>7 DEF InsertWallet, WalletInv, StorageInv, CreateLabels
  <2>2. CASE UNCHANGED <<wallets, unsure>> /\ \E e \in Errors : Throw(r, e)
    <3>1. Others(r) /\ StorageInv(r)'
      BY <1>b, <2>1, <2>2 DEF Throw, TypeOK, StorageInv, BalanceLabels, CreateLabels
    <3>2. QED
      BY <1>a, <1>c, <2>1, <2>2, <3>1
  <2>3. CASE wallets' = wallets \cup {row}
    <3>1. Stored(r)' /\ \A q \in Requests \ {r} : Stored(q)' <=> Stored(q)
      <4>1. row.id = r
        OBVIOUS
      <4> HIDE DEF row
      <4>2. Stored(r)'
        BY <2>3, <4>1 DEF Stored
      <4>3. ASSUME NEW q \in Requests \ {r} PROVE Stored(q)' <=> Stored(q)
        BY <2>3, <4>1 DEF Stored
      <4>4. QED
        BY <4>2, <4>3
    <3>2. SuccessRowInv'
      <4>1. ASSUME NEW q \in Requests, Stored(q) PROVE Stored(q)'
        BY <2>3, <4>1 DEF Stored
      <4>2. QED
        BY <2>1, <4>1 DEF SuccessRowInv, WalletInv, TypeOK, AuditRows
    <3>3. CASE Goto(r, "auditSuccess") /\ UNCHANGED <<err, unsure>>
      <4>1. Others(r) /\ StorageInv(r)'
        BY <2>1, <3>1, <3>3 DEF Goto, TypeOK, StorageInv, BalanceLabels, CreateLabels
      <4>2. QED
        BY <1>a, <3>2, <4>1
    <3>4. CASE unsure' = unsure \cup {r} /\ \E e \in Errors : Throw(r, e)
      <4>1. Others(r) /\ StorageInv(r)'
        BY <2>1, <3>1, <3>4 DEF Throw, TypeOK, StorageInv, BalanceLabels, CreateLabels
      <4>2. QED
        BY <1>a, <3>2, <4>1
    <3>5. QED
      BY <1>7, <2>3, <3>3, <3>4, <2>2 DEF InsertWallet, Errors
  <2>4. QED
    BY <1>7, <2>2, <2>3 DEF InsertWallet, Errors
<1>8. ASSUME NEW r \in Requests, LogOperation(r) \/ LogFailure(r) PROVE WalletInv'
  <2>1. /\ UNCHANGED <<wallets, input, err, unsure>>
        /\ input[r].route \in Routes
    BY <1>8 DEF LogOperation, LogFailure, AuthInv, RequestInv, Authorised,
      AuthenticatedLabels
  <2>2. OperationEvent[input[r].route] \in Events
    BY <2>1, RouteFacts
  <2>3. CASE LogOperation(r)
    <3>1. /\ pc[r] = "auditSuccess"
          /\ AnswerNext(r, SuccessStatus[input[r].route])
          /\ LogSecurityEvent(AuditRow(r, OperationEvent[input[r].route], TRUE))
      BY <2>3 DEF LogOperation
    <3>2. Stored(r) <=> input[r].route = "createWallet"
      BY <3>1 DEF WalletInv, StorageInv
    <3>3. SuccessStatus[input[r].route] = 201 <=> input[r].route = "createWallet"
      BY <2>1, RouteFacts
    <3>4. Others(r) /\ StorageInv(r)'
      BY <1>b, <2>1, <3>1, <3>2, <3>3 DEF AnswerNext, TypeOK, StorageInv,
        BalanceLabels, CreateLabels
    <3>5. SuccessRowInv'
      <4>1. CASE input[r].route = "createWallet"
        BY <1>b, <2>1, <3>1, <3>2, <4>1 DEF LogSecurityEvent, AuditRow, SuccessRowInv,
          WalletInv, TypeOK, AuditRows
      <4>2. CASE input[r].route # "createWallet"
        <5>1. OperationEvent[input[r].route] # "WALLET_CREATION"
          BY <2>1, <4>2, RouteFacts
        <5>2. QED
          BY <1>3, <2>1, <2>2, <3>1, <5>1, AuditRowType DEF AuditRow
      <4>3. QED
        BY <4>1, <4>2
    <3>6. QED
      BY <1>a, <3>4, <3>5
  <2>4. CASE LogFailure(r)
    <3>1. /\ pc[r] = "auditFailure"
          /\ AnswerNext(r, StatusOf[err[r]])
          /\ StatusOf[err[r]] # 201
      BY <2>4, StatusFacts DEF LogFailure, WalletInv, StorageInv
    <3>2. Others(r) /\ StorageInv(r)'
      BY <1>b, <2>1, <3>1 DEF AnswerNext, TypeOK, WalletInv, StorageInv,
        BalanceLabels, CreateLabels
    <3>3. SuccessRowInv'
      BY <1>3, <2>1, <2>2, <2>4, AuditRowType DEF LogFailure, AuditRow
    <3>4. QED
      BY <1>a, <3>2, <3>3
  <2>5. QED
    BY <1>8, <2>3, <2>4
<1>9. ASSUME NEW r \in Requests, Respond(r) PROVE WalletInv'
  <2>1. /\ pc[r] = "respond" /\ pc' = [pc EXCEPT ![r] = "answered"]
        /\ UNCHANGED <<wallets, auditLog, input, status, err, unsure>>
    BY <1>9 DEF Respond, Goto, tables, observers
  <2>2. Others(r) /\ StorageInv(r)'
    BY <1>b, <2>1 DEF TypeOK, WalletInv, StorageInv, BalanceLabels, CreateLabels
  <2>3. QED
    BY <1>a, <1>c, <2>1, <2>2
<1>10. CASE Crash
  <2>1. /\ UNCHANGED <<wallets, auditLog, input, status, err, unsure>>
        /\ \A q \in Requests : pc'[q] = pc[q] \/ pc'[q] = "lost"
    BY <1>10 DEF Crash, tables, observers
  <2>2. ASSUME NEW q \in Requests PROVE StorageInv(q)'
    BY <1>b, <2>1 DEF WalletInv, StorageInv, BalanceLabels, CreateLabels
  <2>3. QED
    BY <1>c, <2>1, <2>2 DEF WalletInv
<1>11. CASE \/ \E k \in ApiKeys : CreateApiKey(k) \/ DeactivateApiKey(k)
            \/ Idle
  <2>1. UNCHANGED <<wallets, auditLog, pc, input, status, err, unsure>>
    BY <1>11 DEF CreateApiKey, DeactivateApiKey, Idle, vars, tables, observers
  <2>2. ASSUME NEW q \in Requests PROVE StorageInv(q)'
    BY <1>b, <2>1 DEF WalletInv, StorageInv
  <2>3. QED
    BY <1>c, <2>1, <2>2 DEF WalletInv
<1>12. QED
  BY <1>1, <1>2, <1>4, <1>5, <1>6, <1>7, <1>8, <1>9, <1>10, <1>11 DEF Next, Serve

-----------------------------------------------------------------------------
(* The invariant, and what follows from it.                                *)

LEMMA StutterIInv == ASSUME IInv, UNCHANGED vars PROVE IInv'
<1>1. TypeOK'
  BY DEF IInv, TypeOK, vars, tables, observers
<1>2. AuthInv'
  BY DEF IInv, AuthInv, RevokedInv, RequestInv, TableInv, Authorised, Known,
    HasScope, vars, tables, observers
<1>3. WalletInv'
  BY DEF IInv, WalletInv, StorageInv, SuccessRowInv, Stored, vars, tables, observers
<1>4. QED
  BY <1>1, <1>2, <1>3 DEF IInv

(* IInv holds in every reachable state of the API.                         *)
THEOREM Invariance == Spec => []IInv
<1>1. IInv /\ [Next]_vars => IInv'
  BY TypeStep, AuthStep, WalletStep, StutterIInv DEF IInv
<1>2. QED
  BY <1>1, InitIInv, PTL DEF Spec

(* Every variable keeps its type, whatever requests, keys and crashes.     *)
THEOREM TypeCorrect == Spec => []TypeOK
<1>1. IInv => TypeOK
  BY DEF IInv
<1>2. QED
  BY <1>1, Invariance, PTL

(* A 201 and an entry of success both stand for a stored wallet, for any   *)
(* number of requests and any number of crashes.                           *)
THEOREM DurableSuccess == Spec => []SuccessIsDurable
<1>1. IInv => SuccessIsDurable
  BY DEF IInv, WalletInv, StorageInv, SuccessRowInv, SuccessIsDurable, Answered
<1>2. QED
  BY <1>1, Invariance, PTL

(* An error answer leaves a wallet behind only if the database committed   *)
(* an insertion it reported as failed.                                     *)
THEOREM NoOrphans == Spec => []NoOrphanWithoutFault
<1>1. IInv => NoOrphanWithoutFault
  BY DEF IInv, WalletInv, StorageInv, NoOrphanWithoutFault, Answered
<1>2. QED
  BY <1>1, Invariance, PTL

(* Wallets and entries of operations come only from requests that carried  *)
(* a key with its secret and the scope of the route, not deactivated when  *)
(* they arrived.                                                           *)
THEOREM AuthorisedWork == Spec => []OnlyAuthorisedWork
<1>1. IInv => OnlyAuthorisedWork
  <2> SUFFICES ASSUME IInv, NEW r \in Requests,
                      Stored(r) \/ \E row \in auditLog :
                                     row.req = r /\ row.event \in OperationEvents
               PROVE  Authorised(r)
    BY DEF OnlyAuthorisedWork, Authorised, Known
  <2>1. CASE Stored(r)
    BY <2>1 DEF Stored, IInv, AuthInv, TableInv, RequestInv
  <2>2. CASE \E row \in auditLog : row.req = r /\ row.event \in OperationEvents
    BY <2>2 DEF IInv, AuthInv, TableInv, RequestInv
  <2>3. QED
    BY <2>1, <2>2
<1>2. QED
  BY <1>1, Invariance, PTL
=============================================================================
