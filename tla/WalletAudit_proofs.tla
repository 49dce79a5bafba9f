-------------------------- MODULE WalletAudit_proofs --------------------------
(***************************************************************************)
(* The audit log of WalletApi, for any requests, keys, scopes and crashes: *)
(* its entries are written before the answers they explain, agree with     *)
(* them, and name the key.                                                 *)
(*                                                                         *)
(* AuditInv says what a request owes the log at each place it may stand    *)
(* at, and what an entry says of the request it is about.  It is inductive *)
(* together with the invariant of WalletApi_proofs.                        *)
(***************************************************************************)
EXTENDS WalletApi_proofs

(* The places of a request before its key is accepted, and those at which  *)
(* the entry of its outcome was asked for.                                 *)
EarlyLabels ==
  {"idle", "parse", "limit", "header", "lookup", "compare", "auditDenied",
   "auditForbidden"}
LateLabels == {"respond", "answered", "lost"}

UsageWritten(r, ok) ==
  \E row \in Written : row.req = r /\ row.event = "API_KEY_USAGE" /\ row.ok = ok

(* What r owes the log.                                                    *)
DebtInv(r) ==
  /\ pc[r] \in EarlyLabels => authKey[r] = NoKey
  /\ pc[r] \notin LateLabels \cup {"auditFailure"} => err[r] = "none"
  /\ authKey[r] # NoKey /\ pc[r] \notin {"auditUse", "lost"} => UsageWritten(r, TRUE)
  /\ pc[r] \in {"respond", "answered"} =>
       /\ status[r] \in {401, 403} => UsageWritten(r, FALSE)
       /\ status[r] \in {200, 201} => OperationRow(r, TRUE) \in Written
       /\ err[r] # "none" => OperationRow(r, FALSE) \in Written

(* Only a request whose key was not accepted is refused for it, or by the  *)
(* limiter.                                                                *)
RefusalInv(r) ==
  /\ pc[r] \notin LateLabels => status[r] = 0
  /\ authKey[r] # NoKey => status[r] \notin {401, 403, 429}
  /\ r \in logging => pc[r] \in LateLabels /\ status[r] = 429

(* What an entry says of its request.                                      *)
Truthful(row) ==
  /\ row.event \in OperationEvents \/ row.ok =>
       authKey[row.req] # NoKey /\ row.key = authKey[row.req]
  /\ row.event \in OperationEvents =>
       /\ pc[row.req] \in LateLabels
       /\ row.ok <=> status[row.req] \in {200, 201}
  /\ row.event = "API_KEY_USAGE" /\ ~row.ok =>
       pc[row.req] \in LateLabels /\ status[row.req] \in {401, 403}
  /\ row.event = "RATE_LIMIT_EXCEEDED" =>
       pc[row.req] \in LateLabels /\ status[row.req] = 429 /\ ~row.ok

AuditInv ==
  /\ \A r \in Requests : DebtInv(r) /\ RefusalInv(r)
  /\ \A row \in auditLog : Truthful(row)

-----------------------------------------------------------------------------
(* A step of one request keeps AuditInv, if it leaves what others see,     *)
(* loses nothing written, and tells the truth about itself.                *)

LEMMA StepOfOne ==
  ASSUME TypeOK, AuditInv, NEW r \in Requests,
         \A q \in Requests \ {r} :
           /\ pc'[q] = pc[q] /\ status'[q] = status[q] /\ err'[q] = err[q]
           /\ authKey'[q] = authKey[q] /\ input'[q] = input[q],
         Written \subseteq Written',
         logging' \subseteq logging \cup {r},
         DebtInv(r)', RefusalInv(r)',
         \A row \in auditLog' : row \in auditLog \/ (row.req = r /\ Truthful(row)'),
         authKey[r] # NoKey => authKey'[r] = authKey[r],
         pc[r] \in LateLabels => pc'[r] \in LateLabels /\ status'[r] = status[r]
  PROVE  AuditInv'
<1>0. ASSUME NEW q \in Requests, q # r PROVE RefusalInv(q)'
  BY <1>0 DEF AuditInv, RefusalInv
<1>1. ASSUME NEW q \in Requests, q # r PROVE DebtInv(q)'
  BY <1>1 DEF AuditInv, DebtInv, UsageWritten, OperationRow, AuditRow
<1>2. ASSUME NEW row \in auditLog' PROVE Truthful(row)'
  <2>1. CASE row \in auditLog
    <3>1. row.req \in Requests /\ Truthful(row)
      BY <2>1 DEF TypeOK, AuditRows, AuditInv
    <3>2. QED
      BY <3>1 DEF Truthful
  <2>2. CASE row.req = r /\ Truthful(row)'
    BY <2>2
  <2>3. QED
    BY <1>2, <2>1, <2>2
<1>3. QED
  BY <1>0, <1>1, <1>2 DEF AuditInv

(* The entry that is asked for is written, or known to be lost.            *)
LEMMA LogWrites ==
  ASSUME NEW row, LogSecurityEvent(row)
  PROVE  /\ Written' = Written \cup {row}
         /\ \A w \in auditLog' : w \in auditLog \/ w = row
BY DEF LogSecurityEvent, Written

LEMMA InitAuditInv == Init => AuditInv
BY DEF Init, AuditInv, DebtInv, RefusalInv, EarlyLabels, LateLabels

LEMMA AuditStep ==
  ASSUME IInv, AuditInv, Next
  PROVE  AuditInv'
<1> USE DEF IInv
<1>a. pc \in [Requests -> PcLabels]
  BY DEF TypeOK
<1>b. status \in [Requests -> Nat]
  BY DEF TypeOK
<1>c. err \in [Requests -> Errors \cup {"none"}]
  BY DEF TypeOK
<1>d. ASSUME UNCHANGED <<auditLog, lostRows>> PROVE UNCHANGED Written
  BY <1>d DEF Written
<1>e. \A r \in Requests : pc[r] \in AuthenticatedLabels => authKey[r] # NoKey
  BY DEF AuthInv, RequestInv
<1>f. \A r \in Requests :
        /\ pc[r] \notin LateLabels => status[r] = 0 /\ r \notin logging
        /\ r \in logging => pc[r] \in LateLabels /\ status[r] = 429
  <2> SUFFICES ASSUME NEW r \in Requests
               PROVE  /\ pc[r] \notin LateLabels => status[r] = 0 /\ r \notin logging
                      /\ r \in logging => pc[r] \in LateLabels /\ status[r] = 429
    OBVIOUS
  <2>1. RefusalInv(r)
    BY DEF AuditInv
  <2>2. QED
    BY <2>1 DEF RefusalInv
<1>1. ASSUME NEW r \in Requests, Arrive(r) PROVE AuditInv'
  <2>1. PICK i : input' = [input EXCEPT ![r] = i]
    BY <1>1 DEF Arrive
  <2>2. /\ pc[r] = "idle" /\ pc' = [pc EXCEPT ![r] = "parse"]
        /\ UNCHANGED <<authKey, status, err, logging, auditLog, lostRows>>
    BY <1>1 DEF Arrive, Goto, tables
  <2>3. DebtInv(r)'
    BY <1>a, <2>2 DEF AuditInv, DebtInv, EarlyLabels, LateLabels
  <2>6. RefusalInv(r)'
    BY <1>a, <1>f, <2>2 DEF RefusalInv, LateLabels
  <2>4. \A q \in Requests \ {r} : input'[q] = input[q]
    BY <2>1 DEF TypeOK
  <2>5. QED
    BY <1>a, <1>d, <2>2, <2>3, <2>4, <2>6, StepOfOne DEF LateLabels
<1>2. ASSUME NEW r \in Requests,
             \/ ParseBody(r) \/ RateLimit(r) \/ ValidateHeader(r) \/ LookupApiKey(r)
             \/ ValidateRequest(r)
      PROVE  AuditInv'
  <2>1. /\ UNCHANGED <<input, authKey, err, auditLog, lostRows>>
        /\ pc[r] \in EarlyLabels \/ pc[r] = "validate"
    BY <1>2 DEF ParseBody, RateLimit, ValidateHeader, LookupApiKey, ValidateRequest,
      EarlyLabels, tables, observers
  <2>2. \/ /\ \E label \in EarlyLabels : pc' = [pc EXCEPT ![r] = label]
           /\ pc[r] # "validate" /\ UNCHANGED <<status, logging>>
        \/ /\ \E label \in {"encrypt", "find"} : pc' = [pc EXCEPT ![r] = label]
           /\ pc[r] = "validate" /\ UNCHANGED <<status, logging>>
        \/ /\ pc' = [pc EXCEPT ![r] = "answered"]
           /\ \E s \in {400, 500} : status' = [status EXCEPT ![r] = s]
           /\ UNCHANGED logging
        \/ /\ pc' = [pc EXCEPT ![r] = "answered"]
           /\ status' = [status EXCEPT ![r] = 429]
           /\ pc[r] # "validate" /\ logging' = logging \cup {r}
    <3>1. CASE ParseBody(r) \/ RateLimit(r) \/ ValidateHeader(r)
      BY <3>1 DEF ParseBody, RateLimit, ValidateHeader, Goto, Answer, EarlyLabels
    <3>2. CASE LookupApiKey(r) \/ ValidateRequest(r)
      BY <3>2 DEF LookupApiKey, ValidateRequest, Goto, Answer, EarlyLabels
    <3>3. QED
      BY <1>2, <3>1, <3>2
  <2>a. status[r] = 0 /\ r \notin logging
    BY <1>f, <2>1 DEF EarlyLabels, LateLabels
  <2>3. err[r] = "none" /\ pc[r] \notin LateLabels
    BY <2>1 DEF AuditInv, DebtInv, EarlyLabels, LateLabels
  <2>4. authKey[r] # NoKey => pc[r] = "validate" /\ UsageWritten(r, TRUE)
    BY <2>1 DEF AuditInv, DebtInv
  <2>5. UsageWritten(r, TRUE)' <=> UsageWritten(r, TRUE)
    BY <1>d, <2>1 DEF UsageWritten
  <2>6. /\ pc'[r] \in EarlyLabels => pc[r] # "validate"
        /\ pc'[r] \in {"respond", "answered"} => status'[r] \notin {200, 201, 401, 403}
    BY <1>a, <1>b, <2>2 DEF EarlyLabels
  <2>b. /\ status'[r] \notin {401, 403}
        /\ pc'[r] \notin LateLabels => status'[r] = 0
        /\ pc[r] = "validate" => status'[r] # 429
        /\ r \in logging' => pc'[r] \in LateLabels /\ status'[r] = 429
    BY <1>a, <1>b, <2>2, <2>a DEF EarlyLabels, LateLabels
  <2>7. /\ \A q \in Requests \ {r} : pc'[q] = pc[q] /\ status'[q] = status[q]
        /\ logging' \subseteq logging \cup {r}
    BY <1>a, <1>b, <2>2
  <2>8. DebtInv(r)'
    BY <2>1, <2>3, <2>4, <2>5, <2>6 DEF DebtInv
  <2>c. RefusalInv(r)'
    BY <2>1, <2>4, <2>b DEF RefusalInv
  <2>9. QED
    BY <1>d, <2>1, <2>3, <2>7, <2>8, <2>c, StepOfOne
<1>3. ASSUME NEW r \in Requests, CompareSecret(r) PROVE AuditInv'
  <2>1. /\ pc[r] = "compare" /\ authKey[r] = NoKey /\ err[r] = "none"
        /\ UNCHANGED <<input, status, err, logging, auditLog, lostRows>>
    BY <1>3 DEF CompareSecret, tables, observers, AuditInv, DebtInv, EarlyLabels, LateLabels
  <2>2. /\ \E label \in {"auditUse", "auditForbidden", "auditDenied"} :
             /\ pc' = [pc EXCEPT ![r] = label]
             /\ label # "auditUse" => UNCHANGED authKey
        /\ \A q \in Requests \ {r} : authKey'[q] = authKey[q]
    BY <1>3 DEF CompareSecret, Goto, TypeOK
  <2>3. DebtInv(r)'
    BY <1>a, <2>1, <2>2 DEF DebtInv, EarlyLabels, LateLabels
  <2>5. RefusalInv(r)'
    BY <1>f, <2>1 DEF RefusalInv, LateLabels
  <2>4. QED
    BY <1>a, <1>d, <2>1, <2>2, <2>3, <2>5, StepOfOne DEF LateLabels
<1>4. ASSUME NEW r \in Requests, LogRateLimitExceeded(r) PROVE AuditInv'
  <2>0. PICK row : row = AuditRow(r, "RATE_LIMIT_EXCEEDED", FALSE)
    OBVIOUS
  <2>1. /\ UNCHANGED <<pc, input, authKey, err, status>>
        /\ r \in logging /\ logging' = logging \ {r}
        /\ LogSecurityEvent(row)
    BY <1>4, <2>0 DEF LogRateLimitExceeded
  <2>2. row.req = r /\ ~row.ok /\ row.event = "RATE_LIMIT_EXCEEDED" /\ row.event \notin OperationEvents
    BY <2>0 DEF AuditRow, OperationEvents
  <2>3. /\ Written \subseteq Written'
        /\ \A w \in auditLog' : w \in auditLog \/ w = row
    BY <2>1, LogWrites
  <2>4. Truthful(row)'
    BY <1>f, <2>1, <2>2 DEF Truthful, OperationEvents
  <2>5. DebtInv(r)'
    BY <2>1, <2>3 DEF AuditInv, DebtInv, UsageWritten, OperationRow, AuditRow
  <2>7. RefusalInv(r)'
    BY <1>f, <2>1 DEF AuditInv, RefusalInv
  <2>6. QED
    BY <2>1, <2>2, <2>3, <2>4, <2>5, <2>7, StepOfOne
<1>5. ASSUME NEW r \in Requests, LogAuthenticationFailure(r) \/ LogScopeFailure(r)
      PROVE  AuditInv'
  <2>0. PICK row : row = AuditRow(r, "API_KEY_USAGE", FALSE)
    OBVIOUS
  <2>1. /\ pc[r] \in {"auditDenied", "auditForbidden"}
        /\ UNCHANGED <<input, authKey, err, logging>>
        /\ LogSecurityEvent(row)
        /\ pc' = [pc EXCEPT ![r] = "respond"]
        /\ \E s \in {401, 403} : status' = [status EXCEPT ![r] = s]
    BY <1>5, <2>0 DEF LogAuthenticationFailure, LogScopeFailure, AnswerNext
  <2>2. /\ row.req = r /\ row.event = "API_KEY_USAGE" /\ row.ok = FALSE
        /\ row.event \notin OperationEvents
    BY <2>0 DEF AuditRow, OperationEvents
  <2>3. /\ Written' = Written \cup {row}
        /\ \A w \in auditLog' : w \in auditLog \/ w = row
    BY <2>1, LogWrites
  <2>4. /\ pc'[r] = "respond" /\ status'[r] \in {401, 403}
        /\ \A q \in Requests \ {r} : pc'[q] = pc[q] /\ status'[q] = status[q]
    BY <1>a, <1>b, <2>1
  <2>5. authKey[r] = NoKey /\ err[r] = "none" /\ pc[r] \notin LateLabels
    BY <2>1 DEF AuditInv, DebtInv, EarlyLabels, LateLabels
  <2>6. Truthful(row)' /\ UsageWritten(r, FALSE)'
    <3>1. Truthful(row)'
      BY <2>2, <2>4 DEF Truthful, LateLabels
    <3>2. UsageWritten(r, FALSE)'
      BY <2>2, <2>3 DEF UsageWritten
    <3>3. QED
      BY <3>1, <3>2
  <2>7. DebtInv(r)'
    <3>1. status'[r] \notin {200, 201}
      BY <2>4
    <3>2. QED
      BY <2>1, <2>4, <2>5, <2>6, <3>1 DEF DebtInv, EarlyLabels, LateLabels
  <2>9. RefusalInv(r)'
    BY <1>f, <2>1, <2>4, <2>5 DEF RefusalInv, LateLabels
  <2>8. QED
    BY <2>1, <2>2, <2>3, <2>4, <2>5, <2>6, <2>7, <2>9, StepOfOne
<1>6. ASSUME NEW r \in Requests, LogApiKeyUsage(r) PROVE AuditInv'
  <2>0. PICK row : row = AuditRow(r, "API_KEY_USAGE", TRUE)
    OBVIOUS
  <2>1. /\ pc[r] = "auditUse"
        /\ UNCHANGED <<input, authKey, err, status, logging>>
        /\ LogSecurityEvent(row)
        /\ pc' = [pc EXCEPT ![r] = "validate"]
    BY <1>6, <2>0 DEF LogApiKeyUsage, Goto
  <2>2. /\ row.req = r /\ row.event = "API_KEY_USAGE" /\ row.ok = TRUE
        /\ row.event \notin OperationEvents /\ row.key = authKey[r]
    BY <2>0 DEF AuditRow, OperationEvents
  <2>3. /\ Written' = Written \cup {row}
        /\ \A w \in auditLog' : w \in auditLog \/ w = row
    BY <2>1, LogWrites
  <2>4. authKey[r] # NoKey /\ err[r] = "none" /\ pc[r] \notin LateLabels
    BY <1>e, <2>1 DEF AuthenticatedLabels, AuditInv, DebtInv, LateLabels
  <2>5. Truthful(row)' /\ UsageWritten(r, TRUE)'
    BY <2>1, <2>2, <2>3, <2>4 DEF Truthful, UsageWritten
  <2>6. DebtInv(r)' /\ \A q \in Requests \ {r} : pc'[q] = pc[q]
    BY <1>a, <2>1, <2>4, <2>5 DEF DebtInv, EarlyLabels, LateLabels
  <2>8. RefusalInv(r)'
    BY <1>f, <2>1, <2>4 DEF RefusalInv
  <2>7. QED
    BY <2>1, <2>2, <2>3, <2>4, <2>5, <2>6, <2>8, StepOfOne
<1>7. ASSUME NEW r \in Requests,
             \/ EncryptKey(r) \/ InsertWallet(r)
             \/ FindWallet(r) \/ CheckNetwork(r) \/ FetchBalance(r)
      PROVE  AuditInv'
  <2>1. /\ UNCHANGED <<input, authKey, status, logging, auditLog, lostRows>>
        /\ pc[r] \in BalanceLabels \cup CreateLabels
    BY <1>7 DEF EncryptKey, InsertWallet, FindWallet, CheckNetwork, FetchBalance,
      tables, observers, BalanceLabels, CreateLabels
  <2>2. \/ /\ \E label \in {"insert", "health", "fetch", "auditSuccess"} :
                pc' = [pc EXCEPT ![r] = label]
           /\ UNCHANGED err
        \/ \E e \in Errors : Throw(r, e)
    <3>1. CASE EncryptKey(r) \/ CheckNetwork(r) \/ FetchBalance(r)
      BY <3>1 DEF EncryptKey, CheckNetwork, FetchBalance, Goto, Errors
    <3>2. CASE InsertWallet(r)
      BY <3>2 DEF InsertWallet, Goto, Errors
    <3>3. CASE FindWallet(r)
      BY <3>3 DEF FindWallet, Goto, Errors
    <3>4. QED
      BY <1>7, <3>1, <3>2, <3>3
  <2>3. /\ authKey[r] # NoKey /\ err[r] = "none" /\ pc[r] \notin LateLabels
        /\ UsageWritten(r, TRUE)
    BY <1>e, <2>1 DEF AuthenticatedLabels, BalanceLabels, CreateLabels, AuditInv,
      DebtInv, LateLabels
  <2>4. UsageWritten(r, TRUE)'
    BY <1>d, <2>1, <2>3 DEF UsageWritten
  <2>a. RefusalInv(r)'
    BY <1>f, <2>1, <2>3 DEF RefusalInv
  <2>5. CASE \E label \in {"insert", "health", "fetch", "auditSuccess"} :
               pc' = [pc EXCEPT ![r] = label] /\ UNCHANGED err
    <3>1. DebtInv(r)' /\ \A q \in Requests \ {r} : pc'[q] = pc[q]
      BY <1>a, <2>1, <2>3, <2>4, <2>5 DEF DebtInv, EarlyLabels, LateLabels
    <3>2. QED
      BY <1>d, <2>1, <2>3, <2>5, <2>a, <3>1, StepOfOne
  <2>6. CASE \E e \in Errors : Throw(r, e)
    <3>1. /\ DebtInv(r)'
          /\ \A q \in Requests \ {r} : pc'[q] = pc[q] /\ err'[q] = err[q]
      BY <1>a, <1>c, <2>1, <2>3, <2>4, <2>6 DEF Throw, DebtInv, EarlyLabels, LateLabels
    <3>2. QED
      BY <1>d, <2>1, <2>3, <2>a, <3>1, StepOfOne
  <2>7. QED
    BY <2>2, <2>5, <2>6
<1>8. ASSUME NEW r \in Requests, LogOperation(r) \/ LogFailure(r) PROVE AuditInv'
  <2>1. /\ UNCHANGED <<input, authKey, err, logging>>
        /\ pc[r] \in {"auditSuccess", "auditFailure"}
        /\ pc' = [pc EXCEPT ![r] = "respond"]
    BY <1>8 DEF LogOperation, LogFailure, AnswerNext
  <2>a. PICK ok \in BOOLEAN : ok <=> LogOperation(r)
    OBVIOUS
  <2>b. input[r].route \in Routes
    BY <2>1 DEF AuthInv, RequestInv, Authorised, AuthenticatedLabels
  <2>c. /\ ok => status'[r] \in {200, 201}
        /\ ~ok => status'[r] \in {400, 404, 500}
    <3>1. CASE LogOperation(r)
      <4>1. SuccessStatus[input[r].route] \in {200, 201}
        BY <2>b, RouteFacts
      <4>2. status'[r] \in {200, 201}
        BY <1>b, <3>1, <4>1 DEF LogOperation, AnswerNext
      <4>3. QED
        BY <2>a, <3>1, <4>2
    <3>2. CASE ~LogOperation(r)
      <4>1. err[r] \in Errors
        BY <1>8, <3>2 DEF LogFailure, WalletInv, StorageInv
      <4>2. StatusOf[err[r]] \in {400, 404, 500}
        BY <4>1 DEF Errors, StatusOf
      <4>3. status' = [status EXCEPT ![r] = StatusOf[err[r]]]
        BY <1>8, <3>2 DEF LogFailure, AnswerNext
      <4>4. status'[r] = StatusOf[err[r]]
        BY <1>b, <4>3
      <4>5. QED
        BY <2>a, <3>2, <4>2, <4>4
    <3>3. QED
      BY <3>1, <3>2
  <2>2. /\ LogSecurityEvent(OperationRow(r, ok))
        /\ ok => pc[r] = "auditSuccess"
    BY <1>8, <2>a DEF LogOperation, LogFailure, OperationRow
  <2>0. PICK row : row = OperationRow(r, ok)
    OBVIOUS
  <2>3. row.req = r /\ row.ok = ok /\ row.key = authKey[r]
    BY <2>0 DEF OperationRow, AuditRow
  <2>4. row = OperationRow(r, ok)'
    BY <2>0, <2>1 DEF OperationRow, AuditRow
  <2>5. /\ Written' = Written \cup {row}
        /\ \A w \in auditLog' : w \in auditLog \/ w = row
    BY <2>0, <2>2, LogWrites
  <2>6. /\ authKey[r] # NoKey /\ pc[r] \notin LateLabels /\ UsageWritten(r, TRUE)
        /\ pc[r] = "auditSuccess" => err[r] = "none"
    BY <1>e, <2>1 DEF AuthenticatedLabels, AuditInv, DebtInv, LateLabels
  <2>7. UsageWritten(r, TRUE)'
    BY <2>5, <2>6 DEF UsageWritten
  <2>8. /\ pc'[r] = "respond"
        /\ \A q \in Requests \ {r} : pc'[q] = pc[q] /\ status'[q] = status[q]
    BY <1>8, <1>a, <1>b DEF LogOperation, LogFailure, AnswerNext
  <2>9. Truthful(row)'
    <3>1. row.ok <=> status'[r] \in {200, 201}
      BY <2>c, <2>3
    <3>2. QED
      BY <2>0, <2>1, <2>3, <2>6, <2>8, <2>b, <3>1, RouteFacts
        DEF OperationRow, AuditRow, OperationEvents, Truthful, LateLabels
  <2>10. DebtInv(r)'
    <3>1. /\ status'[r] \notin {401, 403}
          /\ ok <=> status'[r] \in {200, 201}
      BY <2>c
    <3>2. ok => OperationRow(r, TRUE)' \in Written'
      BY <2>4, <2>5
    <3>3. ~ok => OperationRow(r, FALSE)' \in Written'
      BY <2>4, <2>5
    <3>4. err'[r] # "none" => ~ok
      BY <2>1, <2>2, <2>6
    <3>5. QED
      BY <2>7, <2>8, <3>1, <3>2, <3>3, <3>4 DEF DebtInv, EarlyLabels, LateLabels
  <2>12. RefusalInv(r)'
    BY <1>f, <2>1, <2>6, <2>8, <2>c DEF RefusalInv, LateLabels
  <2>11. QED
    BY <2>1, <2>3, <2>5, <2>6, <2>8, <2>9, <2>10, <2>12, StepOfOne
<1>9. ASSUME NEW r \in Requests, Respond(r) PROVE AuditInv'
  <2>1. /\ pc[r] = "respond" /\ pc' = [pc EXCEPT ![r] = "answered"]
        /\ UNCHANGED <<input, authKey, err, status, logging, auditLog, lostRows>>
    BY <1>9 DEF Respond, Goto, tables, observers
  <2>2. DebtInv(r)'
    BY <1>a, <1>d, <2>1 DEF AuditInv, DebtInv, EarlyLabels, LateLabels, UsageWritten,
      OperationRow, AuditRow
  <2>4. RefusalInv(r)'
    BY <1>a, <2>1 DEF AuditInv, RefusalInv, LateLabels
  <2>3. QED
    BY <1>a, <1>d, <2>1, <2>2, <2>4, StepOfOne DEF LateLabels
<1>10. CASE Crash
  <2>1. /\ \A q \in Requests : \/ pc'[q] = "lost"
                               \/ pc'[q] = pc[q] /\ pc[q] \in {"idle", "answered", "lost"}
        /\ logging' = {}
        /\ UNCHANGED <<input, authKey, err, status, auditLog, lostRows>>
    BY <1>10 DEF Crash, InFlight, tables, observers
  <2>2. ASSUME NEW q \in Requests PROVE DebtInv(q)'
    BY <1>d, <2>1 DEF AuditInv, DebtInv, EarlyLabels, LateLabels, UsageWritten,
      OperationRow, AuditRow
  <2>5. ASSUME NEW q \in Requests PROVE RefusalInv(q)'
    BY <2>1 DEF AuditInv, RefusalInv, LateLabels
  <2>3. ASSUME NEW row \in auditLog' PROVE Truthful(row)'
    BY <2>1 DEF AuditInv, Truthful, LateLabels, TypeOK, AuditRows
  <2>4. QED
    BY <2>2, <2>3, <2>5 DEF AuditInv
<1>11. CASE Idle \/ \E k \in ApiKeys : CreateApiKey(k) \/ DeactivateApiKey(k)
  <2>1. UNCHANGED <<pc, input, authKey, err, status, logging, auditLog, lostRows>>
    BY <1>11 DEF CreateApiKey, DeactivateApiKey, Idle, vars, tables, observers
  <2>2. QED
    BY <1>d, <2>1 DEF AuditInv, DebtInv, RefusalInv, UsageWritten, OperationRow, AuditRow,
      Truthful
<1>12. QED
  BY <1>1, <1>2, <1>3, <1>4, <1>5, <1>6, <1>7, <1>8, <1>9, <1>10, <1>11 DEF Next, Serve

-----------------------------------------------------------------------------

(* AuditInv holds in every reachable state of the API.                     *)
THEOREM AuditInvariance == Spec => [](IInv /\ AuditInv)
<1>1. AuditInv /\ UNCHANGED vars => AuditInv'
  BY DEF AuditInv, DebtInv, RefusalInv, UsageWritten, OperationRow, AuditRow, Truthful,
    Written, vars, tables, observers
<1>2. IInv /\ AuditInv /\ [Next]_vars => AuditInv'
  BY <1>1, AuditStep
<1>3. QED
  BY <1>2, InitAuditInv, Invariance, PTL DEF Spec

(* No request is answered before the entries it owes the log are written,  *)
(* or known to be lost.                                                    *)
THEOREM AuditFirst == Spec => []AuditBeforeAnswer
<1>1. AuditInv => AuditBeforeAnswer
  BY DEF AuditInv, DebtInv, EarlyLabels, LateLabels, UsageWritten, AuditBeforeAnswer, Answered
<1>2. QED
  BY <1>1, AuditInvariance, PTL

(* No entry contradicts another one of its request, nor the answer.        *)
THEOREM AuditAgrees == Spec => []AuditAgreesWithAnswer
<1>1. TypeOK /\ AuditInv => AuditAgreesWithAnswer
  <2> SUFFICES ASSUME TypeOK, AuditInv
               PROVE  AuditAgreesWithAnswer
    OBVIOUS
  <2>1. ASSUME NEW row \in auditLog, Answered(row.req)
        PROVE  /\ row.event \in OperationEvents =>
                    (row.ok <=> status[row.req] \in {200, 201})
               /\ row.event = "API_KEY_USAGE" =>
                    (row.ok <=> status[row.req] \notin {401, 403, 429})
               /\ row.event = "RATE_LIMIT_EXCEEDED" => status[row.req] = 429
    <3>1. row.req \in Requests /\ row.ok \in BOOLEAN
      BY <2>1 DEF TypeOK, AuditRows
    <3>2. Truthful(row) /\ RefusalInv(row.req)
      BY <2>1, <3>1 DEF AuditInv
    <3>3. QED
      BY <3>1, <3>2 DEF Truthful, RefusalInv
  <2>2. ASSUME NEW row \in auditLog, NEW other \in auditLog,
               other.req = row.req, other.event = row.event
        PROVE  other.ok = row.ok
    <3>1. /\ row.req \in Requests /\ row.event \in Events
          /\ row.ok \in BOOLEAN /\ other.ok \in BOOLEAN
      BY <2>2 DEF TypeOK, AuditRows
    <3>2. Truthful(row) /\ Truthful(other) /\ RefusalInv(row.req)
      BY <2>2, <3>1 DEF AuditInv
    <3>3. CASE row.event \in OperationEvents
      BY <2>2, <3>1, <3>2, <3>3 DEF Truthful
    <3>4. CASE row.event = "API_KEY_USAGE"
      BY <2>2, <3>1, <3>2, <3>4 DEF Truthful, RefusalInv
    <3>5. CASE row.event = "RATE_LIMIT_EXCEEDED"
      BY <2>2, <3>1, <3>2, <3>5 DEF Truthful
    <3>6. QED
      BY <3>1, <3>3, <3>4, <3>5 DEF Events, OperationEvents
  <2>3. QED
    BY <2>1, <2>2 DEF AuditAgreesWithAnswer
<1>2. IInv => TypeOK
  BY DEF IInv
<1>3. QED
  BY <1>1, <1>2, AuditInvariance, PTL

(* An entry of an accepted key carries the id of the key presented.        *)
THEOREM Attribution == Spec => []AttributedToKey
<1>1. IInv /\ AuditInv => AttributedToKey
  BY DEF IInv, TypeOK, AuditRows, AuthInv, RequestInv, Authorised, Known, AuditInv,
    Truthful, AttributedToKey
<1>2. QED
  BY <1>1, AuditInvariance, PTL
=============================================================================
