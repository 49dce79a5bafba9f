-------------------------- MODULE LimitedApi_proofs --------------------------
(***************************************************************************)
(* LimitedApi for any requests, keys, headers and points: its types; that  *)
(* where the headers are true a refusal is due to its own origin, and an   *)
(* origin has one budget; that a key has one; and what the entries of the  *)
(* audit log say of address and key.                                       *)
(***************************************************************************)
EXTENDS LimitedApi, FiniteSetTheorems, TLAPS

(* A counter has granted its points to the requests it served.             *)
CountInv ==
  \A c \in Counters :
    /\ IsFiniteSet(served[c])
    /\ Cardinality(served[c]) = granted[c]
    /\ granted[c] <= Points[c.limiter]
    /\ \A q \in served[c] : verdict[q] = "admitted" /\ counter[q] = c

(* Where a request stands, and what is known of it there.                  *)
Cleaned(i) == IF i.header = Empty THEN Empty ELSE Sanitized[i.header]

RequestInv ==
  \A r \in Requests :
    /\ pc[r] \in {"idle", "limit"} => verdict[r] = "none"
    /\ verdict[r] # "none" => counter[r] = Counter(input[r], NoKey)
    /\ pc[r] \in {"auth", "authorised"} => /\ input[r].header # NoHeader
                                           /\ header[r] = Cleaned(input[r])
    /\ pc[r] \in {"limit", "header"} => header[r] = input[r].header
    /\ authKey[r] # NoKey => pc[r] = "authorised" /\ header[r] = KeyText[authKey[r]]

BlameInv ==
  \A r \in Requests : verdict[r] = "refused" =>
    /\ Cardinality(blamed[r]) = Points[counter[r].limiter]
    /\ \A q \in blamed[r] : verdict[q] = "admitted" /\ counter[q] = counter[r]

LogInv ==
  \A row \in auditLog :
    /\ pc[row.req] \in {"answered", "authorised"}
    /\ row.event = "RATE_LIMIT_EXCEEDED" =>
         /\ row.ipAddress = AuditAddress(input[row.req])
         /\ verdict[row.req] = "refused"

IInv == TypeOK /\ CountInv /\ RequestInv /\ BlameInv /\ LogInv /\ EntriesOfAKey

-----------------------------------------------------------------------------
(* The operators.                                                          *)

LEMMA LimiterType ==
  ASSUME NEW i \in AllInputs
  PROVE  LimiterOf[i.route] \in Limiters
BY DEF AllInputs, Routes, LimiterOf, Limiters

LEMMA AddressType ==
  ASSUME NEW i \in AllInputs
  PROVE  /\ CounterAddress(i) \in AddressTexts
         /\ AuditAddress(i) \in MaybeAddress \cup {Empty}
<1>1. /\ i.cfConnectingIp \in MaybeAddress /\ i.realIp \in MaybeAddress
      /\ i.socket \in MaybeAddress
      /\ i.forwarded \in Forwarded \cup {NoAddress}
  BY DEF AllInputs
<1>2. i.forwarded # NoAddress =>
        i.forwarded.first \in Addresses \cup {Empty} /\ i.forwarded.blank \in BOOLEAN
  BY <1>1 DEF Forwarded
<1>3. AuditAddress(i) \in MaybeAddress \cup {Empty}
  BY <1>1, <1>2 DEF AuditAddress, Or, MaybeAddress
<1>4. i.forwarded # NoAddress /\ i.forwarded.blank => i.forwarded.first \in Addresses
  BY <1>1 DEF Forwarded
<1>5. FirstElement(i.forwarded) \in AddressTexts \cup {Empty}
  <2>1. CASE i.forwarded = NoAddress
    BY <2>1 DEF FirstElement, AddressTexts, MaybeAddress
  <2>2. CASE i.forwarded # NoAddress /\ i.forwarded.blank
    BY <2>2, <1>4 DEF FirstElement, AddressTexts
  <2>3. CASE i.forwarded # NoAddress /\ ~i.forwarded.blank
    BY <2>3, <1>2 DEF FirstElement, AddressTexts, MaybeAddress
  <2>4. QED
    BY <2>1, <2>2, <2>3, <1>2
<1>6. MaybeAddress \subseteq AddressTexts
  BY DEF AddressTexts
<1>7. Or(FirstElement(i.forwarded), i.socket) \in AddressTexts
  BY <1>1, <1>5, <1>6 DEF Or
<1>8. CounterAddress(i) \in AddressTexts
  BY <1>1, <1>6, <1>7 DEF CounterAddress, Or
<1>9. QED
  BY <1>3, <1>8

LEMMA CounterType ==
  ASSUME NEW i \in AllInputs, NEW k \in ApiKeys \cup {NoKey}
  PROVE  Counter(i, k) \in Counters /\ Counter(i, k).limiter = LimiterOf[i.route]
<1>1. ByIp(i) \in {"ip"} \X AddressTexts
  BY AddressType DEF ByIp
<1>2. Or(i.header, Empty) # Empty => i.header \in Texts
  BY DEF AllInputs, Or
<1>3. QED
  BY <1>1, <1>2, LimiterType DEF Counter, Counters, ByUser

(* True headers lead getClientKey to the origin, with the blank it may     *)
(* have been written with.                                                 *)
LEMMA CounterOfOrigin ==
  ASSUME NEW i \in AllInputs, TrueHeaders(i)
  PROVE  /\ i.origin \in Addresses
         /\ CounterAddress(i) \in {i.origin, <<i.origin>>}
         /\ (i.forwarded # NoAddress => ~i.forwarded.blank)
              => CounterAddress(i) = i.origin
<1>1. /\ i.origin \in MaybeAddress /\ i.cfConnectingIp \in MaybeAddress
      /\ i.realIp \in MaybeAddress
      /\ i.forwarded \in Forwarded \cup {NoAddress}
  BY DEF AllInputs
<1>2. i.origin \in Addresses
  BY <1>1 DEF TrueHeaders, MaybeAddress
<1>3. i.origin \notin {NoAddress, NoHeader, Empty}
  BY <1>2, NoValueAssumption
<1>4. HeaderAddresses(i) \subseteq {i.origin}
  BY DEF TrueHeaders
<1>5. /\ i.cfConnectingIp \in {i.origin, NoAddress}
      /\ i.realIp \in {i.origin, NoAddress}
  BY <1>1, <1>4, NoValueAssumption DEF HeaderAddresses, MaybeAddress
<1>6. i.forwarded # NoAddress => /\ i.forwarded.first \in {i.origin, Empty}
                                 /\ i.forwarded.blank \in BOOLEAN
                                 /\ i.forwarded.blank => i.forwarded.first # Empty
  <2>1. SUFFICES ASSUME i.forwarded # NoAddress
                 PROVE  /\ i.forwarded.first \in {i.origin, Empty}
                        /\ i.forwarded.blank \in BOOLEAN
                        /\ i.forwarded.blank => i.forwarded.first # Empty
    OBVIOUS
  <2>2. /\ i.forwarded.first \in Addresses \cup {Empty}
        /\ i.forwarded.blank \in BOOLEAN
        /\ i.forwarded.blank => i.forwarded.first \in Addresses
    BY <1>1, <2>1 DEF Forwarded
  <2>3. i.forwarded.first \in {i.origin, Empty}
    BY <1>4, <2>1, <2>2, NoValueAssumption DEF HeaderAddresses
  <2>4. QED
    BY <2>2, <2>3, NoValueAssumption
<1>7. CASE i.cfConnectingIp = i.origin \/ i.realIp = i.origin
  BY <1>2, <1>3, <1>5, <1>7 DEF CounterAddress, Or
<1>8. CASE i.cfConnectingIp = NoAddress /\ i.realIp = NoAddress
  <2>1. CounterAddress(i) = Or(FirstElement(i.forwarded), i.socket)
    BY <1>8 DEF CounterAddress, Or
  <2>2. CASE i.forwarded # NoAddress /\ i.forwarded.first = i.origin
    <3>1. CASE i.forwarded.blank
      <4>1. FirstElement(i.forwarded) = <<i.origin>>
        BY <2>2, <3>1 DEF FirstElement
      <4>2. CounterAddress(i) = <<i.origin>>
        BY <1>2, <2>1, <4>1, NoValueAssumption DEF Or
      <4>3. QED
        BY <1>2, <2>2, <3>1, <4>2
    <3>2. CASE ~i.forwarded.blank
      BY <1>2, <1>3, <2>1, <2>2, <3>2 DEF FirstElement, Or
    <3>3. QED
      BY <3>1, <3>2
  <2>3. CASE i.forwarded = NoAddress \/ i.forwarded.first # i.origin
    <3>1. FirstElement(i.forwarded) \in {NoAddress, Empty}
      BY <1>6, <2>3 DEF FirstElement
    <3>2. HeaderAddresses(i) = {}
      BY <1>6, <1>8, <2>3 DEF HeaderAddresses
    <3>3. i.socket = i.origin
      BY <3>2 DEF TrueHeaders
    <3>4. QED
      BY <1>2, <2>1, <3>1, <3>3 DEF Or
  <2>4. QED
    BY <2>2, <2>3
<1>9. QED
  BY <1>5, <1>7, <1>8

(* What two requests of one counter have in common: the route, and the key *)
(* header or, if their headers are true, the origin.                       *)
SameSource(i, j) ==
  /\ i.route = j.route
  /\ IF CountsByKey(i) \/ CountsByKey(j)
     THEN i.header = j.header
     ELSE TrueHeaders(i) /\ TrueHeaders(j) => i.origin = j.origin

LEMMA CounterClient ==
  ASSUME NEW i \in AllInputs
  PROVE  Counter(i, NoKey).client = IF CountsByKey(i) THEN ByUser(i.header) ELSE ByIp(i)
BY NoValueAssumption DEF Counter, CountsByKey, Or, AllInputs

LEMMA SameCounterSameSource ==
  ASSUME NEW i \in AllInputs, NEW j \in AllInputs,
         Counter(i, NoKey) = Counter(j, NoKey)
  PROVE  SameSource(i, j)
<1>1. LimiterOf[i.route] = LimiterOf[j.route]
  BY CounterType
<1>2. i.route = j.route
  BY <1>1 DEF AllInputs, Routes, LimiterOf
<1>3. (IF CountsByKey(i) THEN ByUser(i.header) ELSE ByIp(i))
        = (IF CountsByKey(j) THEN ByUser(j.header) ELSE ByIp(j))
  <2>1. Counter(i, NoKey).client = Counter(j, NoKey).client
    OBVIOUS
  <2>2. QED
    BY <2>1, CounterClient
<1>4. /\ ByIp(i) # ByUser(j.header) /\ ByUser(i.header) # ByIp(j)
      /\ ByUser(i.header) = ByUser(j.header) => i.header = j.header
      /\ ByIp(i) = ByIp(j) => CounterAddress(i) = CounterAddress(j)
  BY DEF ByIp, ByUser
<1>5. CASE CountsByKey(i) \/ CountsByKey(j)
  BY <1>2, <1>3, <1>4, <1>5 DEF SameSource
<1>6. CASE ~CountsByKey(i) /\ ~CountsByKey(j)
  <2>1. CounterAddress(i) = CounterAddress(j)
    BY <1>3, <1>4, <1>6
  <2>2. ASSUME TrueHeaders(i), TrueHeaders(j) PROVE i.origin = j.origin
    <3>1. /\ i.origin \in Addresses /\ CounterAddress(i) \in {i.origin, <<i.origin>>}
          /\ j.origin \in Addresses /\ CounterAddress(j) \in {j.origin, <<j.origin>>}
      BY <2>2, CounterOfOrigin
    <3>2. i.origin # <<j.origin>> /\ j.origin # <<i.origin>>
      BY <3>1, NoValueAssumption
    <3>3. <<i.origin>> = <<j.origin>> => i.origin = j.origin
      OBVIOUS
    <3>4. QED
      BY <2>1, <3>1, <3>2, <3>3
  <2>3. QED
    BY <1>2, <1>6, <2>2 DEF SameSource
<1>7. QED
  BY <1>5, <1>6

(* The two readings of the address agree on plainly forwarded requests.    *)
LEMMA PlainAddress ==
  ASSUME NEW i \in AllInputs, PlainForwarding(i)
  PROVE  CounterAddress(i) = AuditAddress(i)
<1>1. i.realIp \in Addresses \cup {NoAddress}
  BY DEF AllInputs, MaybeAddress
<1>2. CASE i.forwarded = NoAddress
  BY <1>2, <1>1, NoValueAssumption
  DEF PlainForwarding, CounterAddress, AuditAddress, FirstElement, Or
<1>3. CASE i.forwarded # NoAddress
  <2>1. /\ i.forwarded.first \in Addresses /\ ~i.forwarded.blank
        /\ i.realIp = NoAddress /\ i.cfConnectingIp = NoAddress
    BY <1>3 DEF PlainForwarding, AllInputs, Forwarded
  <2>2. i.forwarded.first \notin {NoAddress, NoHeader, Empty}
    BY <2>1, NoValueAssumption
  <2>3. QED
    BY <1>3, <2>1, <2>2 DEF CounterAddress, AuditAddress, FirstElement, Or
<1>4. QED
  BY <1>2, <1>3

-----------------------------------------------------------------------------
(* What a step of the limiter does.                                        *)

LEMMA AdmitFacts ==
  ASSUME NEW r \in Requests, NEW c \in Counters, Limiter!Admit(r, c)
  PROVE  /\ verdict[r] = "none" /\ granted[c] < Points[c.limiter]
         /\ verdict' = [verdict EXCEPT ![r] = "admitted"]
         /\ granted' = [granted EXCEPT ![c] = @ + 1]
BY DEF Limiter!Admit

LEMMA RefuseFacts ==
  ASSUME NEW r \in Requests, NEW c \in Counters, Limiter!Refuse(r, c)
  PROVE  /\ verdict[r] = "none" /\ granted[c] = Points[c.limiter]
         /\ verdict' = [verdict EXCEPT ![r] = "refused"]
         /\ UNCHANGED granted
BY DEF Limiter!Refuse

LEMMA PointsType == \A c \in Counters : Points[c.limiter] \in Nat \ {0}
BY PointsAssumption DEF Counters

(* The two outcomes of RateLimit, and those of Authenticate.               *)
LetThrough(r, c) ==
  /\ granted[c] < Points[c.limiter]
  /\ verdict' = [verdict EXCEPT ![r] = "admitted"]
  /\ granted' = [granted EXCEPT ![c] = @ + 1]
  /\ Goto(r, AfterLimiter(r))
  /\ served' = [served EXCEPT ![c] = @ \cup {r}]
  /\ UNCHANGED <<status, auditLog, blamed>>

TurnedAway(r, c) ==
  /\ granted[c] = Points[c.limiter]
  /\ verdict' = [verdict EXCEPT ![r] = "refused"]
  /\ Answer(r, 429)
  /\ Log(AuditRow(r, "RATE_LIMIT_EXCEEDED", FALSE))
  /\ blamed' = [blamed EXCEPT ![r] = served[c]]
  /\ UNCHANGED <<granted, served>>

LEMMA RateLimitCases ==
  ASSUME TypeOK, NEW r \in Requests, RateLimit(r)
  PROVE  \E c \in Counters :
           /\ c = Counter(input[r], authKey[r])
           /\ pc[r] = "limit" /\ verdict[r] = "none"
           /\ counter' = [counter EXCEPT ![r] = c]
           /\ UNCHANGED <<input, header, authKey>>
           /\ LetThrough(r, c) \/ TurnedAway(r, c)
<1>1. PICK c \in Counters : c = Counter(input[r], authKey[r])
  BY CounterType DEF TypeOK
<1>2. /\ pc[r] = "limit"
      /\ counter' = [counter EXCEPT ![r] = c]
      /\ UNCHANGED <<input, header, authKey>>
      /\ \/ /\ Limiter!Admit(r, c)
            /\ Goto(r, AfterLimiter(r))
            /\ served' = [served EXCEPT ![c] = @ \cup {r}]
            /\ UNCHANGED <<status, auditLog, blamed>>
         \/ /\ Limiter!Refuse(r, c)
            /\ Answer(r, 429)
            /\ Log(AuditRow(r, "RATE_LIMIT_EXCEEDED", FALSE))
            /\ blamed' = [blamed EXCEPT ![r] = served[c]]
            /\ UNCHANGED served
  BY <1>1 DEF RateLimit
<1>3. ASSUME Limiter!Admit(r, c), Goto(r, AfterLimiter(r)),
             served' = [served EXCEPT ![c] = @ \cup {r}],
             UNCHANGED <<status, auditLog, blamed>>
      PROVE  verdict[r] = "none" /\ LetThrough(r, c)
  BY <1>3, AdmitFacts DEF LetThrough
<1>4. ASSUME Limiter!Refuse(r, c), Answer(r, 429),
             Log(AuditRow(r, "RATE_LIMIT_EXCEEDED", FALSE)),
             blamed' = [blamed EXCEPT ![r] = served[c]],
             UNCHANGED served
      PROVE  verdict[r] = "none" /\ TurnedAway(r, c)
  BY <1>4, RefuseFacts DEF TurnedAway
<1>5. verdict[r] = "none" /\ (LetThrough(r, c) \/ TurnedAway(r, c))
  BY <1>2, <1>3, <1>4
<1>6. QED
  BY <1>1, <1>2, <1>5

Denied(r) ==
  /\ pc' = [pc EXCEPT ![r] = "answered"]
  /\ \E s \in {401, 403, 500} : status' = [status EXCEPT ![r] = s]
  /\ UNCHANGED auditLog \/ Log(AuditRow(r, "API_KEY_USAGE", FALSE))
  /\ UNCHANGED authKey

Accepted(r, k) ==
  /\ header[r] = KeyText[k]
  /\ authKey' = [authKey EXCEPT ![r] = k]
  /\ Log([AuditRow(r, "API_KEY_USAGE", TRUE) EXCEPT !.apiKeyId = k])
  /\ pc' = [pc EXCEPT ![r] = "authorised"]
  /\ UNCHANGED status

LEMMA AuthenticateCases ==
  ASSUME NEW r \in Requests, Authenticate(r)
  PROVE  /\ pc[r] = "auth"
         /\ UNCHANGED <<granted, verdict, input, header, counter, served, blamed>>
         /\ Denied(r) \/ \E k \in ApiKeys : Accepted(r, k)
<1>1. pc[r] = "auth" /\ UNCHANGED <<limiterVars, input, header, observers>>
  BY DEF Authenticate
<1>2. ASSUME Answer(r, 401) \/ Answer(r, 403),
             Log(AuditRow(r, "API_KEY_USAGE", FALSE)),
             UNCHANGED authKey
      PROVE  Denied(r)
  BY <1>2 DEF Answer, Denied
<1>3. ASSUME Answer(r, 500), UNCHANGED <<authKey, auditLog>> PROVE Denied(r)
  BY <1>3 DEF Answer, Denied
<1>4. ASSUME NEW k \in ApiKeys, header[r] = KeyText[k],
             authKey' = [authKey EXCEPT ![r] = k],
             Log([AuditRow(r, "API_KEY_USAGE", TRUE) EXCEPT !.apiKeyId = k]),
             Goto(r, "authorised"), UNCHANGED status
      PROVE  Accepted(r, k)
  BY <1>4 DEF Goto, Accepted
<1>5. \/ Answer(r, 401) /\ Log(AuditRow(r, "API_KEY_USAGE", FALSE)) /\ UNCHANGED authKey
      \/ Answer(r, 500) /\ UNCHANGED <<authKey, auditLog>>
      \/ Answer(r, 403) /\ Log(AuditRow(r, "API_KEY_USAGE", FALSE)) /\ UNCHANGED authKey
      \/ \E k \in ApiKeys :
           /\ header[r] = KeyText[k]
           /\ authKey' = [authKey EXCEPT ![r] = k]
           /\ Log([AuditRow(r, "API_KEY_USAGE", TRUE) EXCEPT !.apiKeyId = k])
           /\ Goto(r, "authorised") /\ UNCHANGED status
  BY DEF Authenticate
<1>6. Denied(r) \/ \E k \in ApiKeys : Accepted(r, k)
  BY <1>2, <1>3, <1>4, <1>5
<1>7. QED
  BY <1>1, <1>6 DEF limiterVars, observers

-----------------------------------------------------------------------------

LEMMA InitInv == Init => IInv
<1> SUFFICES ASSUME Init PROVE IInv
  OBVIOUS
<1> USE DEF Init, Limiter!Init
<1>1. NoInput \in AllInputs
  BY DEF NoInput, AllInputs, Routes, MaybeAddress
<1>2. TypeOK
  BY <1>1, CounterType DEF TypeOK, NoInput
<1>3. CountInv
  BY FS_EmptySet, PointsType DEF CountInv
<1>4. RequestInv
  BY DEF RequestInv
<1>5. QED
  BY <1>2, <1>3, <1>4 DEF IInv, BlameInv, LogInv, EntriesOfAKey

LEMMA TypeStep == IInv /\ [Next]_vars => TypeOK'
<1> SUFFICES ASSUME IInv, [Next]_vars PROVE TypeOK'
  OBVIOUS
<1> USE DEF TypeOK
<1>0. TypeOK
  BY DEF IInv
<1>1. ASSUME NEW r \in Requests, Arrive(r) PROVE TypeOK'
  <2>1. PICK i \in Inputs : /\ input' = [input EXCEPT ![r] = i]
                            /\ header' = [header EXCEPT ![r] = i.header]
    BY <1>1 DEF Arrive
  <2>2. i \in AllInputs /\ i.header \in Texts \cup {Empty, NoHeader}
    BY InputAssumption DEF AllInputs
  <2>3. QED
    BY <1>0, <1>1, <2>1, <2>2 DEF Arrive, Goto, limiterVars, observers
<1>2. ASSUME NEW r \in Requests, RateLimit(r) PROVE TypeOK'
  <2>1. PICK c \in Counters :
          /\ counter' = [counter EXCEPT ![r] = c]
          /\ UNCHANGED <<input, header, authKey>>
          /\ LetThrough(r, c) \/ TurnedAway(r, c)
    BY <1>0, <1>2, RateLimitCases
  <2>2. AuditRow(r, "RATE_LIMIT_EXCEEDED", FALSE) \in AuditRows
    BY <1>0, AddressType DEF AuditRow, KeyIds, AuditRows
  <2>3. CASE LetThrough(r, c)
    BY <1>0, <2>1, <2>3 DEF LetThrough, Goto, AfterLimiter
  <2>4. CASE TurnedAway(r, c)
    <3>1. auditLog' \subseteq AuditRows
      BY <1>0, <2>2, <2>4 DEF TurnedAway, Log
    <3>2. status' \in [Requests -> Nat]
      BY <1>0, <2>4 DEF TurnedAway, Answer
    <3>3. blamed' \in [Requests -> SUBSET Requests]
      BY <1>0, <2>4 DEF TurnedAway
    <3>4. pc' \in [Requests -> {"idle", "limit", "health", "header", "auth",
                               "answered", "authorised", "lost"}]
      BY <1>0, <2>4 DEF TurnedAway, Answer
    <3>5. QED
      BY <1>0, <2>1, <2>4, <3>1, <3>2, <3>3, <3>4 DEF TurnedAway
  <2>5. QED
    BY <2>1, <2>3, <2>4
<1>3. ASSUME NEW r \in Requests, GetHealth(r) PROVE TypeOK'
  BY <1>0, <1>3 DEF GetHealth, Answer, limiterVars, observers
<1>4. ASSUME NEW r \in Requests, ValidateHeader(r) PROVE TypeOK'
  <2>1. header[r] \notin {NoHeader, Empty} =>
          Sanitized[header[r]] \in Texts \cup {Empty}
    BY <1>0, SanitizerAssumption
  <2>2. QED
    BY <1>0, <1>4, <2>1 DEF ValidateHeader, Answer, Goto, limiterVars, observers
<1>5. ASSUME NEW r \in Requests, Authenticate(r) PROVE TypeOK'
  <2>1. \A ok \in BOOLEAN : AuditRow(r, "API_KEY_USAGE", ok) \in AuditRows
    BY <1>0, AddressType DEF AuditRow, KeyIds, AuditRows
  <2>2. \A k \in ApiKeys :
          [AuditRow(r, "API_KEY_USAGE", TRUE) EXCEPT !.apiKeyId = k] \in AuditRows
    BY <2>1 DEF KeyIds, AuditRows
  <2>3. UNCHANGED <<granted, verdict, input, header, counter, served, blamed>>
    BY <1>5, AuthenticateCases
  <2>4. CASE Denied(r)
    <3>1. auditLog' \subseteq AuditRows
      <4>1. AuditRow(r, "API_KEY_USAGE", FALSE) \in AuditRows
        BY <2>1
      <4>2. \/ auditLog' = auditLog
            \/ auditLog' = auditLog \cup {AuditRow(r, "API_KEY_USAGE", FALSE)}
        BY <2>4 DEF Denied, Log
      <4>3. QED
        BY <1>0, <4>1, <4>2
    <3>2. PICK s \in {401, 403, 500} : status' = [status EXCEPT ![r] = s]
      BY <2>4 DEF Denied
    <3>3. status' \in [Requests -> Nat]
      BY <1>0, <3>2
    <3>4. QED
      BY <1>0, <2>3, <2>4, <3>1, <3>3 DEF Denied
  <2>5. ASSUME NEW k \in ApiKeys, Accepted(r, k) PROVE TypeOK'
    BY <1>0, <2>2, <2>3, <2>5 DEF Accepted, Log
  <2>6. QED
    BY <1>5, <2>4, <2>5, AuthenticateCases
<1>6. ASSUME NEW c \in Counters, Expire(c) PROVE TypeOK'
  BY <1>0, <1>6 DEF Expire, Limiter!Renew
<1>7. ASSUME Restart PROVE TypeOK'
  BY <1>0, <1>7 DEF Restart, Limiter!Renew
<1>8. ASSUME UNCHANGED vars PROVE TypeOK'
  BY <1>0, <1>8 DEF vars, limiterVars, observers
<1>9. QED
  BY <1>1, <1>2, <1>3, <1>4, <1>5, <1>6, <1>7, <1>8 DEF Next, Serve, Idle

-----------------------------------------------------------------------------
(* What no step changes any more, and the entries a step adds.             *)

LEMMA Stable ==
  IInv /\ [Next]_vars =>
    \A q \in Requests :
      /\ pc[q] \in {"answered", "authorised"} =>
           /\ pc'[q] = pc[q] /\ input'[q] = input[q]
           /\ header'[q] = header[q] /\ authKey'[q] = authKey[q]
      /\ verdict[q] # "none" =>
           /\ verdict'[q] = verdict[q] /\ counter'[q] = counter[q]
           /\ blamed'[q] = blamed[q] /\ input'[q] = input[q]
<1> SUFFICES ASSUME IInv, [Next]_vars, NEW q \in Requests
             PROVE  /\ pc[q] \in {"answered", "authorised"} =>
                         /\ pc'[q] = pc[q] /\ input'[q] = input[q]
                         /\ header'[q] = header[q] /\ authKey'[q] = authKey[q]
                    /\ verdict[q] # "none" =>
                         /\ verdict'[q] = verdict[q] /\ counter'[q] = counter[q]
                         /\ blamed'[q] = blamed[q] /\ input'[q] = input[q]
  OBVIOUS
<1>0. TypeOK /\ (pc[q] \in {"idle", "limit"} => verdict[q] = "none")
  BY DEF IInv, RequestInv
<1> USE DEF TypeOK
<1>1. CASE \E r \in Requests : Arrive(r)
  BY <1>0, <1>1 DEF Arrive, Goto, limiterVars, observers
<1>2. CASE \E r \in Requests : RateLimit(r)
  <2>1. PICK r \in Requests : RateLimit(r)
    BY <1>2
  <2>2. PICK c \in Counters :
          /\ pc[r] = "limit" /\ verdict[r] = "none"
          /\ counter' = [counter EXCEPT ![r] = c]
          /\ UNCHANGED <<input, header, authKey>>
          /\ LetThrough(r, c) \/ TurnedAway(r, c)
    BY <1>0, <2>1, RateLimitCases
  <2>3. CASE LetThrough(r, c)
    BY <1>0, <2>2, <2>3 DEF LetThrough, Goto
  <2>4. CASE TurnedAway(r, c)
    BY <1>0, <2>2, <2>4 DEF TurnedAway, Answer
  <2>5. QED
    BY <2>2, <2>3, <2>4
<1>3. CASE \E r \in Requests : GetHealth(r)
  BY <1>0, <1>3 DEF GetHealth, Answer, limiterVars, observers
<1>4. CASE \E r \in Requests : ValidateHeader(r)
  BY <1>0, <1>4 DEF ValidateHeader, Answer, Goto, limiterVars, observers
<1>5. CASE \E r \in Requests : Authenticate(r)
  <2>1. PICK r \in Requests : Authenticate(r)
    BY <1>5
  <2>2. /\ pc[r] = "auth"
        /\ UNCHANGED <<granted, verdict, input, header, counter, served, blamed>>
        /\ Denied(r) \/ \E k \in ApiKeys : Accepted(r, k)
    BY <2>1, AuthenticateCases
  <2>3. CASE Denied(r)
    BY <1>0, <2>2, <2>3 DEF Denied
  <2>4. CASE \E k \in ApiKeys : Accepted(r, k)
    BY <1>0, <2>2, <2>4 DEF Accepted
  <2>5. QED
    BY <2>2, <2>3, <2>4
<1>6. CASE \E c \in Counters : Expire(c)
  BY <1>6 DEF Expire, Limiter!Renew
<1>7. CASE Restart
  BY <1>0, <1>7 DEF Restart, Done, Limiter!Renew
<1>8. CASE UNCHANGED vars
  BY <1>8 DEF vars, limiterVars, observers
<1>9. QED
  BY <1>1, <1>2, <1>3, <1>4, <1>5, <1>6, <1>7, <1>8 DEF Next, Serve, Idle

RowFacts(row, r) ==
  /\ row.req = r
  /\ row.ipAddress = AuditAddress(input[r])
  /\ IF row.ok
     THEN /\ row.event = "API_KEY_USAGE"
          /\ row.apiKeyId \in ApiKeys /\ header[r] = KeyText[row.apiKeyId]
     ELSE row.apiKeyId = header[r]

LEMMA NewRows ==
  IInv /\ [Next]_vars =>
    \A row \in auditLog' : row \notin auditLog =>
      \E r \in Requests :
        /\ RowFacts(row, r)'
        /\ pc'[r] \in {"answered", "authorised"}
        /\ row.event = "RATE_LIMIT_EXCEEDED" => verdict'[r] = "refused"
<1> SUFFICES ASSUME IInv, [Next]_vars, NEW row \in auditLog', row \notin auditLog
             PROVE  \E r \in Requests :
                      /\ RowFacts(row, r)'
                      /\ pc'[r] \in {"answered", "authorised"}
                      /\ row.event = "RATE_LIMIT_EXCEEDED" => verdict'[r] = "refused"
  OBVIOUS
<1>0. TypeOK /\ RequestInv
  BY DEF IInv
<1>1. CASE \E r \in Requests : RateLimit(r)
  <2>1. PICK r \in Requests : RateLimit(r)
    BY <1>1
  <2>2. PICK c \in Counters :
          /\ pc[r] = "limit"
          /\ UNCHANGED <<input, header, authKey>>
          /\ LetThrough(r, c) \/ TurnedAway(r, c)
    BY <1>0, <2>1, RateLimitCases
  <2>3. authKey[r] = NoKey
    BY <1>0, <2>2 DEF RequestInv
  <2>4. /\ row = AuditRow(r, "RATE_LIMIT_EXCEEDED", FALSE)
        /\ TurnedAway(r, c)
    BY <2>2 DEF LetThrough, TurnedAway, Log
  <2>5. RowFacts(row, r)'
    BY <2>2, <2>3, <2>4 DEF RowFacts, AuditRow
  <2>6. pc'[r] = "answered" /\ verdict'[r] = "refused"
    BY <1>0, <2>4 DEF TurnedAway, Answer, TypeOK
  <2>7. QED
    BY <2>5, <2>6
<1>2. CASE \E r \in Requests : Authenticate(r)
  <2>1. PICK r \in Requests : Authenticate(r)
    BY <1>2
  <2>2. /\ pc[r] = "auth" /\ UNCHANGED <<input, header>>
        /\ Denied(r) \/ \E k \in ApiKeys : Accepted(r, k)
    BY <2>1, AuthenticateCases
  <2>3. authKey[r] = NoKey
    BY <1>0, <2>2 DEF RequestInv
  <2>4. CASE Denied(r)
    <3>1. row = AuditRow(r, "API_KEY_USAGE", FALSE)
      BY <2>4 DEF Denied, Log
    <3>2. pc'[r] = "answered"
      BY <1>0, <2>4 DEF Denied, TypeOK
    <3>3. RowFacts(row, r)' /\ row.event = "API_KEY_USAGE"
      BY <2>2, <2>3, <3>1 DEF RowFacts, AuditRow
    <3>4. QED
      BY <3>2, <3>3
  <2>5. CASE \E k \in ApiKeys : Accepted(r, k)
    <3>1. PICK k \in ApiKeys : Accepted(r, k)
      BY <2>5
    <3>2. /\ row = [AuditRow(r, "API_KEY_USAGE", TRUE) EXCEPT !.apiKeyId = k]
          /\ header[r] = KeyText[k]
      BY <3>1 DEF Accepted, Log
    <3>3. pc'[r] = "authorised"
      BY <1>0, <3>1 DEF Accepted, TypeOK
    <3>4. RowFacts(row, r)' /\ row.event = "API_KEY_USAGE"
      BY <2>2, <3>2 DEF RowFacts, AuditRow
    <3>5. QED
      BY <3>3, <3>4
  <2>6. QED
    BY <2>2, <2>4, <2>5
<1>3. CASE UNCHANGED auditLog
  BY <1>3
<1>4. QED
  BY <1>1, <1>2, <1>3
  DEF Next, Serve, Arrive, GetHealth, ValidateHeader, Expire, Restart, Idle, vars

-----------------------------------------------------------------------------
(* Each part of the invariant is kept by every step.                       *)

LEMMA CountStep == IInv /\ [Next]_vars => CountInv'
<1> SUFFICES ASSUME IInv, [Next]_vars PROVE CountInv'
  OBVIOUS
<1>0. TypeOK /\ CountInv
  BY DEF IInv
<1>1. CASE \E r \in Requests : RateLimit(r)
  <2>1. PICK r \in Requests : RateLimit(r)
    BY <1>1
  <2>2. PICK c \in Counters :
          /\ verdict[r] = "none" /\ counter' = [counter EXCEPT ![r] = c]
          /\ LetThrough(r, c) \/ TurnedAway(r, c)
    BY <1>0, <2>1, RateLimitCases
  <2>3. \A d \in Counters : r \notin served[d]
    BY <1>0, <2>2 DEF CountInv
  <2>4. CASE LetThrough(r, c)
    <3>1. SUFFICES ASSUME NEW d \in Counters
                   PROVE  /\ IsFiniteSet(served'[d])
                          /\ Cardinality(served'[d]) = granted'[d]
                          /\ granted'[d] <= Points[d.limiter]
                          /\ \A q \in served'[d] : verdict'[q] = "admitted" /\ counter'[q] = d
      BY DEF CountInv
    <3>2. CASE d = c
      <4>1. /\ served'[d] = served[d] \cup {r} /\ granted'[d] = granted[d] + 1
            /\ granted[d] < Points[d.limiter]
        BY <1>0, <2>4, <3>2 DEF LetThrough, TypeOK
      <4>2. IsFiniteSet(served'[d]) /\ Cardinality(served'[d]) = granted'[d]
        <5>1. IsFiniteSet(served[d]) /\ Cardinality(served[d]) = granted[d]
          BY <1>0 DEF CountInv
        <5>2. r \notin served[d]
          BY <2>3
        <5>3. /\ IsFiniteSet(served[d] \cup {r})
              /\ Cardinality(served[d] \cup {r}) = Cardinality(served[d]) + 1
          BY <5>1, <5>2, FS_AddElement
        <5>4. QED
          BY <4>1, <5>1, <5>3
      <4>3. granted'[d] <= Points[d.limiter]
        BY <1>0, <4>1, PointsType DEF TypeOK
      <4>4. \A q \in served'[d] : verdict'[q] = "admitted" /\ counter'[q] = d
        BY <1>0, <2>2, <2>4, <3>2, <4>1 DEF CountInv, TypeOK, LetThrough
      <4>5. QED
        BY <4>2, <4>3, <4>4
    <3>3. CASE d # c
      <4>1. served'[d] = served[d] /\ granted'[d] = granted[d]
        BY <1>0, <2>4, <3>3 DEF LetThrough, TypeOK
      <4>2. \A q \in served[d] : verdict'[q] = verdict[q] /\ counter'[q] = counter[q]
        BY <1>0, <2>2, <2>3, <2>4 DEF LetThrough, TypeOK
      <4>3. QED
        BY <1>0, <4>1, <4>2 DEF CountInv
    <3>4. QED
      BY <3>2, <3>3
  <2>5. CASE TurnedAway(r, c)
    <3>1. UNCHANGED <<granted, served>>
      BY <2>5 DEF TurnedAway
    <3>2. \A d \in Counters : \A q \in served[d] :
            verdict'[q] = verdict[q] /\ counter'[q] = counter[q]
      BY <1>0, <2>2, <2>3, <2>5 DEF TurnedAway, TypeOK
    <3>3. QED
      BY <1>0, <3>1, <3>2 DEF CountInv
  <2>6. QED
    BY <2>2, <2>4, <2>5
<1>2. ASSUME NEW S \in SUBSET Counters,
             granted' = [c \in Counters |-> IF c \in S THEN 0 ELSE granted[c]],
             \A c \in Counters : served'[c] = IF c \in S THEN {} ELSE served[c],
             UNCHANGED <<verdict, counter>>
      PROVE  CountInv'
  BY <1>0, <1>2, FS_EmptySet, PointsType DEF CountInv
<1>3. CASE \E c \in Counters : Expire(c)
  <2>1. PICK c \in Counters : Expire(c)
    BY <1>3
  <2>2. /\ granted' = [d \in Counters |-> IF d \in {c} THEN 0 ELSE granted[d]]
        /\ \A d \in Counters : served'[d] = IF d \in {c} THEN {} ELSE served[d]
        /\ UNCHANGED <<verdict, counter>>
    BY <1>0, <2>1 DEF Expire, Limiter!Renew, TypeOK
  <2>3. QED
    BY <1>2, <2>2
<1>4. CASE Restart
  BY <1>2, <1>4 DEF Restart, Limiter!Renew
<1>5. CASE UNCHANGED <<granted, served, verdict, counter>>
  BY <1>0, <1>5 DEF CountInv
<1>6. ASSUME NEW r \in Requests,
             Arrive(r) \/ GetHealth(r) \/ ValidateHeader(r) \/ Authenticate(r)
      PROVE  UNCHANGED <<granted, served, verdict, counter>>
  BY <1>6 DEF Arrive, GetHealth, ValidateHeader, Authenticate, limiterVars, observers
<1>7. QED
  BY <1>1, <1>3, <1>4, <1>5, <1>6
  DEF Next, Serve, Idle, vars, limiterVars, observers

LEMMA BlameStep == IInv /\ [Next]_vars => BlameInv'
<1> SUFFICES ASSUME IInv, [Next]_vars, NEW p \in Requests, verdict'[p] = "refused"
             PROVE  /\ Cardinality(blamed'[p]) = Points[counter'[p].limiter]
                    /\ \A q \in blamed'[p] :
                         verdict'[q] = "admitted" /\ counter'[q] = counter'[p]
  BY DEF BlameInv
<1>0. TypeOK /\ CountInv /\ BlameInv
  BY DEF IInv
<1>1. CASE verdict[p] # "none"
  <2>1. verdict[p] = "refused" /\ blamed'[p] = blamed[p] /\ counter'[p] = counter[p]
    BY <1>1, Stable
  <2>2. \A q \in blamed[p] : q \in Requests /\ verdict[q] = "admitted"
    BY <1>0, <2>1 DEF BlameInv, TypeOK
  <2>3. QED
    BY <1>0, <2>1, <2>2, Stable DEF BlameInv
<1>2. CASE verdict[p] = "none"
  <2>1. PICK r \in Requests : RateLimit(r)
    BY <1>0, <1>2
    DEF Next, Serve, Arrive, GetHealth, ValidateHeader, Authenticate, Expire,
        Restart, Idle, Limiter!Renew, vars, limiterVars
  <2>2. PICK c \in Counters :
          /\ verdict[r] = "none" /\ counter' = [counter EXCEPT ![r] = c]
          /\ LetThrough(r, c) \/ TurnedAway(r, c)
    BY <1>0, <2>1, RateLimitCases
  <2>3. p = r /\ TurnedAway(r, c)
    BY <1>0, <1>2, <2>2 DEF LetThrough, TurnedAway, TypeOK
  <2>4. /\ counter'[p] = c /\ blamed'[p] = served[c]
        /\ granted[c] = Points[c.limiter]
    BY <1>0, <2>2, <2>3 DEF TurnedAway, TypeOK
  <2>5. \A q \in served[c] :
          q \in Requests /\ verdict[q] = "admitted" /\ counter[q] = c
    BY <1>0 DEF CountInv, TypeOK
  <2>6. QED
    BY <1>0, <2>4, <2>5, Stable DEF CountInv
<1>3. QED
  BY <1>1, <1>2

LEMMA LogStep == IInv /\ [Next]_vars => LogInv' /\ EntriesOfAKey'
<1> SUFFICES ASSUME IInv, [Next]_vars, NEW row \in auditLog'
             PROVE  /\ pc'[row.req] \in {"answered", "authorised"}
                    /\ row.event = "RATE_LIMIT_EXCEEDED" =>
                         /\ row.ipAddress = AuditAddress(input'[row.req])
                         /\ verdict'[row.req] = "refused"
                    /\ IF row.ok
                       THEN row.apiKeyId \in ApiKeys /\ header'[row.req] = KeyText[row.apiKeyId]
                       ELSE row.apiKeyId \in ApiKeys => header'[row.req] = row.apiKeyId
  BY DEF LogInv, EntriesOfAKey
<1>1. CASE row \in auditLog
  <2>1. row.req \in Requests
    BY <1>1 DEF IInv, TypeOK, AuditRows
  <2>2. QED
    BY <1>1, <2>1, Stable DEF IInv, LogInv, EntriesOfAKey
<1>2. CASE row \notin auditLog
  BY <1>2, NewRows DEF RowFacts
<1>3. QED
  BY <1>1, <1>2

LEMMA RequestStep == IInv /\ [Next]_vars => RequestInv'
<1> SUFFICES ASSUME IInv, [Next]_vars, NEW p \in Requests
             PROVE  /\ pc'[p] \in {"idle", "limit"} => verdict'[p] = "none"
                    /\ verdict'[p] # "none" => counter'[p] = Counter(input'[p], NoKey)
                    /\ pc'[p] \in {"auth", "authorised"} =>
                         input'[p].header # NoHeader /\ header'[p] = Cleaned(input'[p])
                    /\ pc'[p] \in {"limit", "header"} => header'[p] = input'[p].header
                    /\ authKey'[p] # NoKey =>
                         pc'[p] = "authorised" /\ header'[p] = KeyText[authKey'[p]]
  BY DEF RequestInv
<1>0. TypeOK /\ RequestInv
  BY DEF IInv
<1> USE DEF TypeOK
<1>1. CASE \E r \in Requests : Arrive(r)
  <2>1. PICK r \in Requests : Arrive(r)
    BY <1>1
  <2>2. PICK i \in Inputs : /\ input' = [input EXCEPT ![r] = i]
                            /\ header' = [header EXCEPT ![r] = i.header]
    BY <2>1 DEF Arrive
  <2>3. QED
    BY <1>0, <2>1, <2>2 DEF Arrive, Goto, RequestInv, limiterVars, observers
<1>2. CASE \E r \in Requests : RateLimit(r)
  <2>1. PICK r \in Requests : RateLimit(r)
    BY <1>2
  <2>2. PICK c \in Counters :
          /\ c = Counter(input[r], authKey[r])
          /\ pc[r] = "limit" /\ verdict[r] = "none"
          /\ counter' = [counter EXCEPT ![r] = c]
          /\ UNCHANGED <<input, header, authKey>>
          /\ LetThrough(r, c) \/ TurnedAway(r, c)
    BY <1>0, <2>1, RateLimitCases
  <2>3. authKey[r] = NoKey
    BY <1>0, <2>2 DEF RequestInv
  <2>4. /\ pc' \in {[pc EXCEPT ![r] = l] : l \in {"health", "header", "answered"}}
        /\ \A q \in Requests : q # r => verdict'[q] = verdict[q]
    BY <1>0, <2>2 DEF LetThrough, TurnedAway, Goto, Answer, AfterLimiter
  <2>5. QED
    BY <1>0, <2>2, <2>3, <2>4 DEF RequestInv
<1>3. CASE \E r \in Requests : GetHealth(r)
  BY <1>0, <1>3 DEF GetHealth, Answer, RequestInv, limiterVars, observers
<1>4. CASE \E r \in Requests : ValidateHeader(r)
  <2>1. PICK r \in Requests : ValidateHeader(r)
    BY <1>4
  <2>2. UNCHANGED <<limiterVars, input, authKey, observers>> /\ pc[r] = "header"
    BY <2>1 DEF ValidateHeader
  <2>3. CASE header[r] = NoHeader
    BY <1>0, <2>1, <2>2, <2>3
    DEF ValidateHeader, Answer, RequestInv, limiterVars, observers
  <2>4. CASE header[r] # NoHeader
    <3>1. /\ header' = [header EXCEPT ![r] = Cleaned(input[r])]
          /\ pc' = [pc EXCEPT ![r] = "auth"] /\ input[r].header # NoHeader
      BY <1>0, <2>1, <2>2, <2>4 DEF ValidateHeader, Goto, Cleaned, RequestInv
    <3>2. QED
      BY <1>0, <2>2, <3>1 DEF RequestInv, limiterVars, observers
  <2>5. QED
    BY <2>3, <2>4
<1>5. CASE \E r \in Requests : Authenticate(r)
  <2>1. PICK r \in Requests : Authenticate(r)
    BY <1>5
  <2>2. /\ pc[r] = "auth"
        /\ UNCHANGED <<verdict, input, header, counter>>
        /\ Denied(r) \/ \E k \in ApiKeys : Accepted(r, k)
    BY <2>1, AuthenticateCases
  <2>3. CASE Denied(r)
    BY <1>0, <2>2, <2>3 DEF Denied, RequestInv
  <2>4. CASE \E k \in ApiKeys : Accepted(r, k)
    BY <1>0, <2>2, <2>4 DEF Accepted, RequestInv
  <2>5. QED
    BY <2>2, <2>3, <2>4
<1>6. CASE \E c \in Counters : Expire(c)
  BY <1>0, <1>6 DEF Expire, Limiter!Renew, RequestInv
<1>7. CASE Restart
  BY <1>0, <1>7 DEF Restart, Done, Limiter!Renew, RequestInv
<1>8. CASE UNCHANGED vars
  BY <1>0, <1>8 DEF vars, limiterVars, observers, RequestInv
<1>9. QED
  BY <1>1, <1>2, <1>3, <1>4, <1>5, <1>6, <1>7, <1>8 DEF Next, Serve, Idle

-----------------------------------------------------------------------------

THEOREM Invariance == Spec => []IInv
<1>1. IInv /\ [Next]_vars => IInv'
  BY TypeStep, CountStep, RequestStep, BlameStep, LogStep DEF IInv
<1>2. QED
  BY InitInv, <1>1, PTL DEF Spec

(* The variables keep their types; an audit entry's address is one.        *)
THEOREM TypeCorrect == Spec => []TypeOK
<1>1. IInv => TypeOK
  BY DEF IInv
<1>2. QED
  BY <1>1, Invariance, PTL

(* A refusal is due to requests of the same key header or, where the       *)
(* headers are true, of the same origin.  The proof says what true headers *)
(* are needed for: CounterOfOrigin is all that links a counter to anyone.  *)
THEOREM RefusalsAreEarned == Spec => []RefusalIsEarned
<1>1. IInv => RefusalIsEarned
  <2> SUFFICES ASSUME IInv, NEW r \in Requests, verdict[r] = "refused"
               PROVE  /\ Cardinality(blamed[r]) = Points[LimiterOf[input[r].route]]
                      /\ \A q \in blamed[r] : SameSource(input[q], input[r])
    BY DEF RefusalIsEarned, SameSource
  <2>1. TypeOK /\ RequestInv /\ BlameInv
    BY DEF IInv
  <2>2. \A q \in Requests : verdict[q] # "none" =>
          input[q] \in AllInputs /\ counter[q] = Counter(input[q], NoKey)
    BY <2>1 DEF TypeOK, RequestInv
  <2>3. counter[r].limiter = LimiterOf[input[r].route]
    BY <2>2, CounterType
  <2>4. \A q \in blamed[r] : SameSource(input[q], input[r])
    <3>1. \A q \in blamed[r] :
            /\ q \in Requests /\ verdict[q] = "admitted"
            /\ Counter(input[q], NoKey) = Counter(input[r], NoKey)
      BY <2>1, <2>2 DEF BlameInv, TypeOK
    <3>2. QED
      BY <2>2, <3>1, SameCounterSameSource
  <2>5. QED
    BY <2>1, <2>3, <2>4 DEF BlameInv
<1>2. QED
  BY <1>1, Invariance, PTL

(* Requests that all count with one counter are no more than its points.   *)
LEMMA ServedByOne ==
  ASSUME IInv, NEW c \in Counters, NEW S, S \subseteq served[c]
  PROVE  Cardinality(S) <= Points[c.limiter]
<1>1. /\ IsFiniteSet(served[c]) /\ Cardinality(served[c]) \in Nat
      /\ Cardinality(served[c]) <= Points[c.limiter]
  BY DEF IInv, TypeOK, CountInv
<1>2. Cardinality(S) \in Nat /\ Cardinality(S) <= Cardinality(served[c])
  BY <1>1, FS_Subset, FS_CardinalityType
<1>3. QED
  BY <1>1, <1>2, PointsType

(* An origin has one budget on each route where the headers are true and   *)
(* bring no blank.                                                         *)
THEOREM OneBudgetOfOrigin == Spec => []OneBudgetPerOrigin
<1>1. IInv => OneBudgetPerOrigin
  <2> SUFFICES ASSUME IInv, NEW a \in Addresses, NEW route \in Routes
               PROVE  Cardinality(RequestsFrom(a, route)) <= Points[LimiterOf[route]]
    BY DEF OneBudgetPerOrigin
  <2>1. PICK c : c = [limiter |-> LimiterOf[route], client |-> <<"ip", a>>]
    OBVIOUS
  <2>2. c \in Counters /\ c.limiter = LimiterOf[route]
    BY <2>1 DEF Counters, Limiters, LimiterOf, Routes, AddressTexts, MaybeAddress
  <2>3. \A r \in RequestsFrom(a, route) : r \in served[c]
    <3>1. SUFFICES ASSUME NEW r \in Requests,
                          input[r].route = route, input[r].origin = a,
                          TrueHeaders(input[r]), ~CountsByKey(input[r]),
                          input[r].forwarded # NoAddress => ~input[r].forwarded.blank,
                          r \in served[counter[r]]
                   PROVE  r \in served[c]
      BY DEF RequestsFrom
    <3>2. input[r] \in AllInputs /\ counter[r] \in Counters
      BY DEF IInv, TypeOK
    <3>3. counter[r] = Counter(input[r], NoKey)
      BY <3>1, <3>2 DEF IInv, CountInv, RequestInv
    <3>4. Counter(input[r], NoKey).client = ByIp(input[r])
      BY <3>1, <3>2, CounterClient
    <3>5. CounterAddress(input[r]) = a
      BY <3>1, <3>2, CounterOfOrigin
    <3>6. counter[r] = c
      BY <2>1, <3>1, <3>3, <3>4, <3>5 DEF Counter, ByIp
    <3>7. QED
      BY <3>1, <3>6
  <2>4. RequestsFrom(a, route) \subseteq served[c]
    BY <2>3
  <2>5. QED
    BY <2>2, <2>4, ServedByOne
<1>2. QED
  BY <1>1, Invariance, PTL

(* The entry of a 429 names the counter's address where the two readings   *)
(* of the headers can agree.                                               *)
THEOREM EntriesNameCounters == Spec => []EntryNamesTheCounter
<1>1. IInv => EntryNamesTheCounter
  <2> SUFFICES ASSUME IInv, NEW row \in auditLog,
                      row.event = "RATE_LIMIT_EXCEEDED",
                      counter[row.req].client[1] = "ip",
                      PlainForwarding(input[row.req])
               PROVE  row.ipAddress = counter[row.req].client[2]
    BY DEF EntryNamesTheCounter
  <2>1. row.req \in Requests /\ input[row.req] \in AllInputs
    BY DEF IInv, TypeOK, AuditRows
  <2>2. /\ row.ipAddress = AuditAddress(input[row.req])
        /\ counter[row.req] = Counter(input[row.req], NoKey)
    BY <2>1 DEF IInv, LogInv, RequestInv
  <2>3. Counter(input[row.req], NoKey).client = ByIp(input[row.req])
    BY <2>2 DEF Counter, ByUser
  <2>4. QED
    BY <2>1, <2>2, <2>3, PlainAddress DEF ByIp
<1>2. QED
  BY <1>1, Invariance, PTL

(* The log gives the accepted uses of a key under its id.                  *)
THEOREM KeyEntries == Spec => []EntriesOfAKey
<1>1. IInv => EntriesOfAKey
  BY DEF IInv
<1>2. QED
  BY <1>1, Invariance, PTL

(* Under each text of it a key has one budget of balance queries, whatever *)
(* the addresses it is used from.                                          *)
THEOREM OneBudget == Spec => []OneBudgetPerKey
<1>1. IInv => OneBudgetPerKey
  <2> SUFFICES ASSUME IInv, NEW k \in ApiKeys, NEW text \in Texts
               PROVE  /\ Cardinality(QueriesOf(k, text)) <= Points["balance-check-user"]
                      /\ QueriesOf(k, text) # {} => Sanitized[text] = KeyText[k]
    BY DEF OneBudgetPerKey
  <2>1. PICK c : c = [limiter |-> "balance-check-user", client |-> ByUser(text)]
    OBVIOUS
  <2>2. c \in Counters /\ c.limiter = "balance-check-user"
    BY <2>1 DEF Counters, Limiters, ByUser
  <2>3. \A r \in QueriesOf(k, text) : counter[r] = c /\ Sanitized[text] = KeyText[k]
    <3>1. SUFFICES ASSUME NEW r \in Requests, authKey[r] = k,
                          input[r].header = text,
                          input[r].route = "getWalletBalance",
                          r \in served[counter[r]]
                   PROVE  counter[r] = c /\ Sanitized[text] = KeyText[k]
      BY DEF QueriesOf, QueriesOfUser
    <3>2. input[r] \in AllInputs /\ counter[r] \in Counters
      BY DEF IInv, TypeOK
    <3>3. verdict[r] = "admitted"
      BY <3>1, <3>2 DEF IInv, CountInv
    <3>4. counter[r] = Counter(input[r], NoKey)
      BY <3>3 DEF IInv, RequestInv
    <3>5. KeyText[k] = Cleaned(input[r])
      BY <3>1, KeyAssumption DEF IInv, RequestInv
    <3>6. text # Empty /\ text # NoHeader /\ text # NoAddress
      BY NoValueAssumption
    <3>7. Sanitized[text] = KeyText[k]
      BY <3>1, <3>5, <3>6 DEF Cleaned
    <3>8. Or(input[r].header, Empty) = text
      BY <3>1, <3>6 DEF Or
    <3>9. counter[r] = c
      BY <2>1, <3>1, <3>4, <3>6, <3>8 DEF Counter, LimiterOf
    <3>10. QED
      BY <3>7, <3>9
  <2>4. QueriesOf(k, text) \subseteq served[c]
    BY <2>3 DEF QueriesOf, QueriesOfUser
  <2>5. QED
    BY <2>2, <2>3, <2>4, ServedByOne
<1>2. QED
  BY <1>1, Invariance, PTL

=============================================================================
