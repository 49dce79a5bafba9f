------------------------------ MODULE LimitedApi ------------------------------
(***************************************************************************)
(* Who a request counts as.  Three parts of the server name the client of  *)
(* a request from its headers, each in its own way: the rate limiter, for  *)
(* its counters; the authentication, for req.apiKey; the audit log, for    *)
(* the address and the key id of an entry.  This module puts them together *)
(* for the three routes, up to the point where an authorised request goes  *)
(* on as in WalletApi.                                                     *)
(*                                                                         *)
(* The limiter is the one AdmissionLimiter promises, which RateLimiter     *)
(* implements; its counters are those of the three named limiters.  When   *)
(* an audit entry is written, and whether the write fails, is the concern  *)
(* of WalletApi: here an entry is stored with the step that asks for it.   *)
(***************************************************************************)
EXTENDS Naturals, FiniteSets

CONSTANTS
  Requests,
  ApiKeys,    \* the ids of the active keys
  NoKey,      \* req.apiKey unset
  Texts,      \* the values an x-api-key header may have
  NoHeader,   \* no such header
  KeyText,    \* id -> ak.<id>.<random part>, the text the key is used with
  Sanitized,  \* text -> what the input sanitizer makes of it
  Addresses,
  NoAddress,  \* undefined, or a header that is absent
  Empty,      \* the empty string
  Inputs,     \* the requests clients may send
  Points      \* named limiter -> points

Routes == {"createWallet", "getWalletBalance", "health"}

LimiterOf == [createWallet     |-> "wallet-creation",
              getWalletBalance |-> "balance-check-user",
              health           |-> "health-check"]

Limiters == {"wallet-creation", "balance-check-user", "health-check"}

(* x-forwarded-for by its first element: an address, perhaps with a blank  *)
(* before the comma, or nothing before it.  An empty header reads as none. *)
Forwarded == [first : Addresses, blank : BOOLEAN]
               \cup [first : {Empty}, blank : {FALSE}]

MaybeAddress == Addresses \cup {NoAddress}

(* What the server reads of a request, and the address it set out from,    *)
(* which the server cannot see: no step reads the origin.                  *)
AllInputs == [route : Routes, header : Texts \cup {Empty, NoHeader},
              cfConnectingIp : MaybeAddress, realIp : MaybeAddress,
              forwarded : Forwarded \cup {NoAddress}, socket : MaybeAddress,
              origin : MaybeAddress]

ASSUME InputAssumption == Inputs \subseteq AllInputs
ASSUME PointsAssumption == Points \in [Limiters -> Nat \ {0}]
ASSUME KeyAssumption ==
  /\ NoKey \notin ApiKeys
  /\ KeyText \in [ApiKeys -> Texts \ ApiKeys]
  /\ \A k, l \in ApiKeys : KeyText[k] = KeyText[l] => k = l
ASSUME SanitizerAssumption == Sanitized \in [Texts -> Texts \cup {Empty}]
ASSUME NoValueAssumption ==
  /\ Empty # NoHeader
  /\ {Empty, NoHeader, NoAddress} \cap (Texts \cup Addresses) = {}
  /\ \A a \in Addresses : <<a>> \notin Addresses \cup {Empty, NoHeader, NoAddress}

-----------------------------------------------------------------------------
(* The client of a request, as each part names it.                         *)

(* a || b of JavaScript, for values that may be undefined or empty.        *)
Or(a, b) == IF a \in {NoAddress, NoHeader, Empty} THEN b ELSE a

(* forwarded.split(',')[0], not trimmed: <<a>> is a with a blank.          *)
FirstElement(f) == IF f = NoAddress THEN NoAddress
                   ELSE IF f.blank THEN <<f.first>> ELSE f.first

(* getClientKey                                                            *)
CounterAddressOfSocket(i) ==  \* faulty variant: the headers of the proxy ignored
  i.socket

CounterAddress(i) ==
  Or(i.cfConnectingIp, Or(i.realIp, Or(FirstElement(i.forwarded), i.socket)))

(* extractIpAddress                                                        *)
AuditAddressWhole(i) ==  \* faulty variant: the header is split, no element taken
  IF i.forwarded # NoAddress THEN i.forwarded ELSE Or(i.realIp, i.socket)

AuditAddressOfSocket(i) ==  \* faulty variant: the headers of the proxy ignored
  i.socket

AuditAddress(i) ==
  IF i.forwarded # NoAddress THEN i.forwarded.first ELSE Or(i.realIp, i.socket)

(* The key of a counter: the key generator of createUserLimiter for        *)
(* balance queries, getClientKey for the rest.  A prefix tells the two     *)
(* kinds apart, and each named limiter has a storage of its own.           *)
ByIp(i)   == <<"ip", CounterAddress(i)>>
ByUser(v) == <<"user", v>>

CounterByKey(i, apiKeyId) ==  \* faulty variant: every route limited by its key
  [limiter |-> LimiterOf[i.route],
   client  |-> IF Or(i.header, Empty) # Empty THEN ByUser(i.header) ELSE ByIp(i)]

CounterByIp(i, apiKeyId) ==  \* faulty variant: balance queries limited by address
  [limiter |-> LimiterOf[i.route], client |-> ByIp(i)]

Counter(i, apiKeyId) ==
  [limiter |-> LimiterOf[i.route],
   client  |-> IF i.route # "getWalletBalance" THEN ByIp(i)
               ELSE IF apiKeyId # NoKey THEN ByUser(apiKeyId)
               ELSE IF Or(i.header, Empty) # Empty THEN ByUser(i.header)
               ELSE ByIp(i)]

AddressTexts == MaybeAddress \cup {<<a>> : a \in Addresses}

Counters ==
  [limiter : Limiters,
   client  : ({"ip"} \X AddressTexts) \cup ({"user"} \X (Texts \cup ApiKeys))]

-----------------------------------------------------------------------------

VARIABLES
  granted,   \* counter -> points used since it was last renewed
  verdict,   \* of the limiter on each request
  pc,
  input,     \* what the client sent
  header,    \* x-api-key as the next middleware reads it
  authKey,   \* req.apiKey.id
  status,
  auditLog,
  \* Observers: no step reads them.
  counter,   \* the counter a request used
  served,    \* counter -> the requests it admitted since it was last renewed
  blamed     \* the requests that had used up the points when this was refused

limiterVars == <<granted, verdict>>
observers == <<counter, served, blamed>>
vars == <<limiterVars, pc, input, header, authKey, status, auditLog, observers>>

Limiter == INSTANCE AdmissionLimiter WITH
  Keys   <- Counters,
  Points <- [c \in Counters |-> Points[c.limiter]]

NoInput == [route |-> "health", header |-> NoHeader,
            cfConnectingIp |-> NoAddress, realIp |-> NoAddress,
            forwarded |-> NoAddress, socket |-> NoAddress,
            origin |-> NoAddress]

Init ==
  /\ Limiter!Init
  /\ pc = [r \in Requests |-> "idle"]
  /\ input = [r \in Requests |-> NoInput]
  /\ header = [r \in Requests |-> NoHeader]
  /\ authKey = [r \in Requests |-> NoKey]
  /\ status = [r \in Requests |-> 0]
  /\ auditLog = {}
  /\ counter = [r \in Requests |-> Counter(NoInput, NoKey)]
  /\ served = [c \in Counters |-> {}]
  /\ blamed = [r \in Requests |-> {}]

Goto(r, label) == pc' = [pc EXCEPT ![r] = label]

Answer(r, s) == /\ pc' = [pc EXCEPT ![r] = "answered"]
                /\ status' = [status EXCEPT ![r] = s]

(* createAuditLog with extractApiKeyId.                                    *)
AuditRow(r, event, ok) ==
  [req |-> r, event |-> event, ok |-> ok,
   apiKeyId  |-> IF authKey[r] # NoKey THEN authKey[r] ELSE header[r],
   ipAddress |-> AuditAddress(input[r])]

Log(row) == auditLog' = auditLog \cup {row}

Arrive(r) ==
  /\ pc[r] = "idle"
  /\ \E i \in Inputs : /\ input' = [input EXCEPT ![r] = i]
                       /\ header' = [header EXCEPT ![r] = i.header]
  /\ Goto(r, "limit")
  /\ UNCHANGED <<limiterVars, authKey, status, auditLog, observers>>

AfterLimiter(r) == IF input[r].route = "health" THEN "health" ELSE "header"

(* The first handler of every route: a point is taken and the request goes *)
(* on, at once or when its timer fires, or it is refused.                  *)
RateLimit(r) ==
  LET c == Counter(input[r], authKey[r]) IN
  /\ pc[r] = "limit"
  /\ counter' = [counter EXCEPT ![r] = c]
  /\ \/ /\ Limiter!Admit(r, c)
        /\ Goto(r, AfterLimiter(r))
        /\ served' = [served EXCEPT ![c] = @ \cup {r}]
        /\ UNCHANGED <<status, auditLog, blamed>>
     \/ /\ Limiter!Refuse(r, c)
        /\ Answer(r, 429)
        /\ Log(AuditRow(r, "RATE_LIMIT_EXCEEDED", FALSE))
        /\ blamed' = [blamed EXCEPT ![r] = served[c]]
        /\ UNCHANGED served
  /\ UNCHANGED <<input, header, authKey>>

GetHealth(r) ==
  /\ pc[r] = "health"
  /\ Answer(r, 200)
  /\ UNCHANGED <<limiterVars, input, header, authKey, auditLog, observers>>

(* The sanitizer rewrites the headers; the validator wants one there.      *)
ValidateHeader(r) ==
  /\ pc[r] = "header"
  /\ IF header[r] = NoHeader
     THEN Answer(r, 400) /\ UNCHANGED header
     ELSE /\ header' = [header EXCEPT ![r] = IF @ = Empty THEN @ ELSE Sanitized[@]]
          /\ Goto(r, "auth") /\ UNCHANGED status
  /\ UNCHANGED <<limiterVars, input, authKey, auditLog, observers>>

(* The ends of auth: no such key, an error of the lookup, not the scope,   *)
(* or authorised: the entry of an accepted key is written with req.apiKey  *)
(* set.                                                                    *)
AuthenticateEarly(r) ==  \* faulty variant: req.apiKey set before the scope is tested
  /\ pc[r] = "auth"
  /\ \/ /\ Answer(r, 401)
        /\ Log(AuditRow(r, "API_KEY_USAGE", FALSE))
        /\ UNCHANGED authKey
     \/ \E k \in ApiKeys :
          /\ header[r] = KeyText[k]
          /\ authKey' = [authKey EXCEPT ![r] = k]
          /\ \E ok \in BOOLEAN :
               /\ Log([AuditRow(r, "API_KEY_USAGE", ok) EXCEPT !.apiKeyId = k])
               /\ IF ok THEN Goto(r, "authorised") /\ UNCHANGED status
                        ELSE Answer(r, 403)
  /\ UNCHANGED <<limiterVars, input, header, observers>>

Authenticate(r) ==
  /\ pc[r] = "auth"
  /\ \/ /\ Answer(r, 401)
        /\ Log(AuditRow(r, "API_KEY_USAGE", FALSE))
        /\ UNCHANGED authKey
     \/ header[r] # Empty /\ Answer(r, 500) /\ UNCHANGED <<authKey, auditLog>>
     \/ /\ \E k \in ApiKeys : header[r] = KeyText[k]
        /\ Answer(r, 403)
        /\ Log(AuditRow(r, "API_KEY_USAGE", FALSE))
        /\ UNCHANGED authKey
     \/ \E k \in ApiKeys :
          /\ header[r] = KeyText[k]
          /\ authKey' = [authKey EXCEPT ![r] = k]
          /\ Log([AuditRow(r, "API_KEY_USAGE", TRUE) EXCEPT !.apiKeyId = k])
          /\ Goto(r, "authorised") /\ UNCHANGED status
  /\ UNCHANGED <<limiterVars, input, header, observers>>

(* A window, or a block, of a counter ends.                                *)
Expire(c) ==
  /\ granted[c] > 0
  /\ Limiter!Renew({c})
  /\ served' = [served EXCEPT ![c] = {}]
  /\ UNCHANGED <<pc, input, header, authKey, status, auditLog, counter, blamed>>

Done(r) == pc[r] \in {"answered", "authorised", "lost"}

(* The process is restarted: counters and requests in flight are gone.     *)
Restart ==
  /\ \E r \in Requests : ~Done(r) /\ pc[r] # "idle"
  /\ Limiter!Renew(Counters)
  /\ served' = [c \in Counters |-> {}]
  /\ pc' = [r \in Requests |-> IF Done(r) \/ pc[r] = "idle" THEN pc[r] ELSE "lost"]
  /\ UNCHANGED <<input, header, authKey, status, auditLog, counter, blamed>>

Idle == (\A r \in Requests : Done(r)) /\ UNCHANGED vars

Serve(r) == \/ RateLimit(r) \/ GetHealth(r) \/ ValidateHeader(r) \/ Authenticate(r)

Next == \/ \E r \in Requests : Arrive(r) \/ Serve(r)
        \/ \E c \in Counters : Expire(c)
        \/ Restart
        \/ Idle

Spec == Init /\ [][Next]_vars

-----------------------------------------------------------------------------
(* Properties.                                                             *)

KeyIds == Texts \cup ApiKeys \cup {Empty, NoHeader}

AuditRows ==
  [req : Requests, event : {"RATE_LIMIT_EXCEEDED", "API_KEY_USAGE"}, ok : BOOLEAN,
   apiKeyId : KeyIds, ipAddress : MaybeAddress \cup {Empty}]

(* Every variable has its type; an entry's address is one address.         *)
TypeOK ==
  /\ granted \in [Counters -> Nat]
  /\ verdict \in [Requests -> {"none", "admitted", "refused"}]
  /\ pc \in [Requests -> {"idle", "limit", "health", "header", "auth",
                          "answered", "authorised", "lost"}]
  /\ input \in [Requests -> AllInputs]
  /\ header \in [Requests -> Texts \cup {Empty, NoHeader}]
  /\ authKey \in [Requests -> ApiKeys \cup {NoKey}]
  /\ status \in [Requests -> Nat]
  /\ auditLog \subseteq AuditRows
  /\ counter \in [Requests -> Counters]
  /\ served \in [Counters -> SUBSET Requests]
  /\ blamed \in [Requests -> SUBSET Requests]

(* Where a proxy stands in front of the server, its headers carry the      *)
(* address a request set out from; where none does, the socket has it.     *)
(* The code takes every header at its word: that those it gets are true is *)
(* an assumption on what stands in front of it.                            *)
HeaderAddresses(i) ==
  ({i.cfConnectingIp, i.realIp}
     \cup IF i.forwarded = NoAddress THEN {} ELSE {i.forwarded.first})
  \ {NoAddress, Empty}

TrueHeaders(i) ==
  /\ i.origin # NoAddress
  /\ IF HeaderAddresses(i) = {} THEN i.socket = i.origin
                               ELSE HeaderAddresses(i) = {i.origin}

(* Balance queries with a key header count by it, the rest by address.     *)
CountsByKey(i) == i.route = "getWalletBalance" /\ i.header \notin {NoHeader, Empty}

(* Whoever is refused: as many requests as its limiter has points had been *)
(* let through since the counter was last renewed, all to its own route.   *)
(* If it counts by its key header they had the same header.  If not, those *)
(* with true headers came from where it comes from, if its own are true:   *)
(* behind one proxy no client pays for another.  Of headers that name some *)
(* other address nothing can be said; getClientKey charges that address.   *)
RefusalIsEarned ==
  \A r \in Requests : verdict[r] = "refused" =>
    /\ Cardinality(blamed[r]) = Points[LimiterOf[input[r].route]]
    /\ \A q \in blamed[r] :
         /\ input[q].route = input[r].route
         /\ IF CountsByKey(input[q]) \/ CountsByKey(input[r])
            THEN input[q].header = input[r].header
            ELSE TrueHeaders(input[q]) /\ TrueHeaders(input[r])
                   => input[q].origin = input[r].origin

(* The requests from an address to a route that count by address, true     *)
(* headers and no blank in them assumed.                                   *)
RequestsFrom(a, route) ==
  {r \in Requests : LET i == input[r] IN
     /\ i.route = route /\ i.origin = a
     /\ TrueHeaders(i) /\ ~CountsByKey(i)
     /\ i.forwarded # NoAddress => ~i.forwarded.blank
     /\ r \in served[counter[r]]}

(* An address has one budget on each route, by whichever proxies and with  *)
(* whichever headers it comes, keys included.  The blank that getClientKey *)
(* does not trim would give it a second one.                               *)
OneBudgetPerOrigin ==
  \A a \in Addresses, route \in Routes :
    Cardinality(RequestsFrom(a, route)) <= Points[LimiterOf[route]]

(* The balance queries a key was let through with, and those of them under *)
(* one text of it.                                                         *)
QueriesOfUser(k) ==
  {r \in Requests : /\ authKey[r] = k
                    /\ input[r].route = "getWalletBalance"
                    /\ r \in served[counter[r]]}

QueriesOf(k, text) == {r \in QueriesOfUser(k) : input[r].header = text}

(* A key has one budget of balance queries, from whatever addresses it is  *)
(* used, though its counter is named before the key is known: one for each *)
(* text that the sanitizer turns into the key.                             *)
OneBudgetPerKey ==
  \A k \in ApiKeys, text \in Texts :
    /\ Cardinality(QueriesOf(k, text)) <= Points["balance-check-user"]
    /\ QueriesOf(k, text) # {} => Sanitized[text] = KeyText[k]

(* What WalletRouter.ts:39 says of balance queries, "100 requests per      *)
(* minute per user": one budget for a key, under whatever texts.  The code *)
(* does not keep to it, since the limiter reads the header as it was sent. *)
OneBudgetPerUser ==
  \A k \in ApiKeys : Cardinality(QueriesOfUser(k)) <= Points["balance-check-user"]

(* The two ways to read the address agree where a proxy sets one of the    *)
(* headers, other than cf-connecting-ip, and puts no blank or empty        *)
(* element first.                                                          *)
PlainForwarding(i) ==
  /\ i.cfConnectingIp = NoAddress
  /\ i.forwarded # NoAddress =>
       i.realIp = NoAddress /\ ~i.forwarded.blank /\ i.forwarded.first # Empty

(* There, the entry of a 429 names the address whose counter was used up.  *)
EntryNamesTheCounter ==
  \A row \in auditLog :
    /\ row.event = "RATE_LIMIT_EXCEEDED"
    /\ counter[row.req].client[1] = "ip"
    /\ PlainForwarding(input[row.req])
    => row.ipAddress = counter[row.req].client[2]

(* Searched by a key's id, the log gives the accepted uses of the key, and *)
(* an entry of a refusal only where the id itself was sent as the key.     *)
EntriesOfAKey ==
  \A row \in auditLog :
    IF row.ok
    THEN row.apiKeyId \in ApiKeys /\ header[row.req] = KeyText[row.apiKeyId]
    ELSE row.apiKeyId \in ApiKeys => header[row.req] = row.apiKeyId

=============================================================================
