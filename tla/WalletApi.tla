------------------------------ MODULE WalletApi ------------------------------
(***************************************************************************)
(* The two wallet routes of the API, from the bytes of a request to the    *)
(* answer, over the three tables they share.                               *)
(*                                                                         *)
(* One Node.js process serves every request: the code between two awaits   *)
(* runs alone, and the requests interleave at the awaits.  An action is    *)
(* therefore what one request does from one await to the next, and pc[r]   *)
(* names the await at which request r stands.  A table write and the code  *)
(* that runs after its await are two actions, so the process may die       *)
(* between a commit and the answer that reports it.                        *)
(*                                                                         *)
(* Abstracted: the wording of answers, names, key material, the balance    *)
(* itself; the verdict of the rate limiter (RateLimiter.tla) and of the    *)
(* validators is a choice.                                                 *)
(***************************************************************************)
EXTENDS Naturals

CONSTANTS
  Requests,      \* the HTTP requests the process may receive
  ApiKeys,       \* the ids rows of table ApiKey may have
  NoKey,         \* no such row: req.apiKey unset, or a header naming no key
  NoWallet,      \* a wallet id that no row has
  ScopeChoices,  \* the scope lists a row of table ApiKey may be created with
  MaxCrashes     \* bound on the crashes of the process

Scopes == {"WALLET_READ", "WALLET_CREATE"}

ASSUME NoKeyAssumption == NoKey \notin ApiKeys
ASSUME NoWalletAssumption == NoWallet \notin Requests
ASSUME ScopeAssumption == ScopeChoices \subseteq SUBSET Scopes
ASSUME CrashAssumption == MaxCrashes \in Nat

VARIABLES
  apiKeys,   \* table ApiKey: id -> status and scopes
  wallets,   \* table Wallet: a row is named by the request that created it
  auditLog,  \* table AuditLog
  pc,        \* the await at which each request stands
  input,     \* what the client sent
  authKey,   \* req.apiKey, set by the authentication middleware
  err,       \* the error the controller is rethrowing
  status,    \* the HTTP status given to the response
  logging,   \* requests whose 429 audit entry is still being written
  crashes,
  \* Observers: no step reads them.
  lostRows,  \* audit entries whose write failed
  unsure,    \* requests whose wallet was committed though the call failed
  revoked    \* requests that arrived with a key already deactivated

tables == <<apiKeys, wallets, auditLog>>
observers == <<lostRows, unsure, revoked>>
vars == <<tables, pc, input, authKey, err, status, logging, crashes, observers>>

-----------------------------------------------------------------------------
(* What differs between the two routes.                                    *)

Routes == {"createWallet", "getWalletBalance"}

RequiredScope == [createWallet     |-> "WALLET_CREATE",
                  getWalletBalance |-> "WALLET_READ"]

OperationEvent == [createWallet     |-> "WALLET_CREATION",
                   getWalletBalance |-> "WALLET_READ"]

SuccessStatus == [createWallet |-> 201, getWalletBalance |-> 200]

(* An x-api-key header: absent, present but not of the form ak.<id>.<part> *)
(* (the empty string included), or naming a key with a right or wrong part *)
Headers ==
  [form : {"absent", "unusable"}, key : {NoKey}, secret : {FALSE}]
    \cup [form : {"wellFormed"}, key : ApiKeys, secret : BOOLEAN]

Inputs == [route : Routes, header : Headers, target : Requests \cup {NoWallet}]

NoInput == [route |-> "none",
            header |-> [form |-> "absent", key |-> NoKey, secret |-> FALSE],
            target |-> NoWallet]

Events == {"WALLET_CREATION", "WALLET_READ", "API_KEY_USAGE",
           "RATE_LIMIT_EXCEEDED"}

OperationEvents == {"WALLET_CREATION", "WALLET_READ"}

AuditRows == [req : Requests, event : Events, ok : BOOLEAN,
              key : ApiKeys \cup {NoKey}]

(* The network prefix of new addresses, and the prefixes under which every *)
(* address is 48 characters that start with "5".                           *)
Ss58FormatPolkadot == 0  \* faulty variant: the prefix of another network
Ss58Format == 42
AddressesStartWith5 == 41..49

WalletRows == [id : Requests, ss58Format : Nat]

(* The errors a route handler may throw: the project's own, an error that  *)
(* carries a Prisma code, and any other.                                   *)
Errors == {"NotFoundError", "EntityConstraintError",
           "ServiceUnavailableError", "PrismaKnownError", "Error"}

StatusOfConflict ==  \* faulty variant: an error of Prisma is a conflict
  [NotFoundError           |-> 404,
   EntityConstraintError   |-> 400,
   ServiceUnavailableError |-> 500,
   PrismaKnownError        |-> 409,
   Error                   |-> 500]

StatusOf == [NotFoundError           |-> 404,
             EntityConstraintError   |-> 400,
             ServiceUnavailableError |-> 500,
             PrismaKnownError        |-> 400,
             Error                   |-> 500]

-----------------------------------------------------------------------------

InFlight(r) == pc[r] \notin {"idle", "answered", "lost"}
Answered(r) == pc[r] = "answered"
Stored(r) == \E w \in wallets : w.id = r

Init ==
  /\ apiKeys = [k \in ApiKeys |-> [status |-> "none", scopes |-> {}]]
  /\ wallets = {}
  /\ auditLog = {}
  /\ pc = [r \in Requests |-> "idle"]
  /\ input = [r \in Requests |-> NoInput]
  /\ authKey = [r \in Requests |-> NoKey]
  /\ err = [r \in Requests |-> "none"]
  /\ status = [r \in Requests |-> 0]
  /\ logging = {}
  /\ crashes = 0
  /\ lostRows = {}
  /\ unsure = {}
  /\ revoked = {}

Goto(r, label) == pc' = [pc EXCEPT ![r] = label]

(* res.status(s).json(...), now or once the pending write has settled.     *)
Answer(r, s) == /\ pc' = [pc EXCEPT ![r] = "answered"]
                /\ status' = [status EXCEPT ![r] = s]

AnswerNext(r, s) == /\ pc' = [pc EXCEPT ![r] = "respond"]
                    /\ status' = [status EXCEPT ![r] = s]

(* The catch block of the controller: log the failure, then rethrow.       *)
Throw(r, e) == /\ pc' = [pc EXCEPT ![r] = "auditFailure"]
               /\ err' = [err EXCEPT ![r] = e]

(* The id an audit entry carries: req.apiKey.id if it is set, otherwise    *)
(* the header as the client sent it, which names no accepted use of a key. *)
AuditRowOfHeader(r, event, ok) ==  \* faulty variant: the header itself
  [req |-> r, event |-> event, ok |-> ok, key |-> input[r].header]

AuditRow(r, event, ok) ==
  [req |-> r, event |-> event, ok |-> ok, key |-> authKey[r]]

(* logSecurityEvent: an error of the write is swallowed, so the caller     *)
(* goes on whether the entry was stored or not.                            *)
LogSecurityEvent(row) ==
  \/ auditLog' = auditLog \cup {row} /\ UNCHANGED lostRows
  \/ lostRows' = lostRows \cup {row} /\ UNCHANGED auditLog

-----------------------------------------------------------------------------
(* The client.  A wallet id it can name is one it was given by a 201.      *)

Arrive(r) ==
  /\ pc[r] = "idle"
  /\ \E i \in Inputs :
       /\ i.target # NoWallet =>
            /\ i.route = "getWalletBalance"
            /\ Answered(i.target)
            /\ status[i.target] = 201
       /\ input' = [input EXCEPT ![r] = i]
       /\ revoked' = IF /\ i.header.key \in ApiKeys
                        /\ apiKeys[i.header.key].status = "inactive"
                     THEN revoked \cup {r} ELSE revoked
  /\ Goto(r, "parse")
  /\ UNCHANGED <<tables, authKey, err, status, logging, crashes, lostRows, unsure>>

-----------------------------------------------------------------------------
(* The middlewares, in the order in which they are mounted.                *)

(* express.json() runs before every route; its error has no status of its  *)
(* own in ClientErrorHandler.                                              *)
ParseBody(r) ==
  /\ pc[r] = "parse"
  /\ \/ Goto(r, "limit") /\ UNCHANGED status
     \/ Answer(r, 500)
  /\ UNCHANGED <<tables, input, authKey, err, logging, crashes, observers>>

(* A refusal is answered at once; its audit entry is written on the side.  *)
RateLimitUnlogged(r) ==  \* faulty variant: a refusal leaves no entry
  /\ pc[r] = "limit"
  /\ \/ Goto(r, "header") /\ UNCHANGED <<status, logging>>
     \/ Answer(r, 429) /\ UNCHANGED logging
  /\ UNCHANGED <<tables, input, authKey, err, crashes, observers>>

RateLimit(r) ==
  /\ pc[r] = "limit"
  /\ \/ Goto(r, "header") /\ UNCHANGED <<status, logging>>
     \/ Answer(r, 429) /\ logging' = logging \cup {r}
  /\ UNCHANGED <<tables, input, authKey, err, crashes, observers>>

LogRateLimitExceeded(r) ==
  /\ r \in logging
  /\ logging' = logging \ {r}
  /\ LogSecurityEvent(AuditRow(r, "RATE_LIMIT_EXCEEDED", FALSE))
  /\ UNCHANGED <<apiKeys, wallets, pc, input, authKey, err, status, crashes,
                 unsure, revoked>>

ValidateHeader(r) ==
  /\ pc[r] = "header"
  /\ IF input[r].header.form = "absent"
     THEN Answer(r, 400)
     ELSE Goto(r, "lookup") /\ UNCHANGED status
  /\ UNCHANGED <<tables, input, authKey, err, logging, crashes, observers>>

(* findActiveById; an error of the query is answered by the catch of auth. *)
KnownKey(k) == k \in ApiKeys /\ apiKeys[k].status # "none"  \* faulty variant: isActive ignored
ActiveKey(k) == k \in ApiKeys /\ apiKeys[k].status = "active"

LookupApiKey(r) ==
  /\ pc[r] = "lookup"
  /\ \/ /\ Goto(r, IF ActiveKey(input[r].header.key) THEN "compare"
                                                     ELSE "auditDenied")
        /\ UNCHANGED status
     \/ /\ input[r].header.form = "wellFormed"
        /\ Answer(r, 500)
  /\ UNCHANGED <<tables, input, authKey, err, logging, crashes, observers>>

HasScope(r) == RequiredScope[input[r].route] \in apiKeys[input[r].header.key].scopes

(* The row read by LookupApiKey is the one used: a deactivation during     *)
(* bcrypt.compare is not seen.  An error of bcrypt counts as a mismatch.   *)
CompareSecretKeyUnset(r) ==  \* faulty variant: req.apiKey set too late
  /\ pc[r] = "compare"
  /\ \/ input[r].header.secret /\ HasScope(r) /\ Goto(r, "auditUse")
     \/ input[r].header.secret /\ ~HasScope(r) /\ Goto(r, "auditForbidden")
     \/ Goto(r, "auditDenied")
  /\ UNCHANGED <<tables, input, authKey, err, status, logging, crashes, observers>>

CompareSecret(r) ==
  /\ pc[r] = "compare"
  /\ \/ /\ input[r].header.secret /\ HasScope(r)
        /\ authKey' = [authKey EXCEPT ![r] = input[r].header.key]
        /\ Goto(r, "auditUse")
     \/ /\ input[r].header.secret /\ ~HasScope(r)
        /\ Goto(r, "auditForbidden") /\ UNCHANGED authKey
     \/ Goto(r, "auditDenied") /\ UNCHANGED authKey
  /\ UNCHANGED <<tables, input, err, status, logging, crashes, observers>>

LogAuthenticationFailureUnawaited(r) ==  \* faulty variant: answered before it is written
  /\ pc[r] = "auditDenied"
  /\ Answer(r, 401)
  /\ UNCHANGED <<tables, input, authKey, err, logging, crashes, observers>>

LogAuthenticationFailure(r) ==
  /\ pc[r] = "auditDenied"
  /\ LogSecurityEvent(AuditRow(r, "API_KEY_USAGE", FALSE))
  /\ AnswerNext(r, 401)
  /\ UNCHANGED <<apiKeys, wallets, input, authKey, err, logging, crashes,
                 unsure, revoked>>

LogScopeFailureUnanswered(r) ==  \* faulty variant: logged, then neither answered nor passed on
  /\ pc[r] = "auditForbidden"
  /\ LogSecurityEvent(AuditRow(r, "API_KEY_USAGE", FALSE))
  /\ Goto(r, "forgotten")
  /\ UNCHANGED <<apiKeys, wallets, input, authKey, err, status, logging,
                 crashes, unsure, revoked>>

LogScopeFailure(r) ==
  /\ pc[r] = "auditForbidden"
  /\ LogSecurityEvent(AuditRow(r, "API_KEY_USAGE", FALSE))
  /\ AnswerNext(r, 403)
  /\ UNCHANGED <<apiKeys, wallets, input, authKey, err, logging, crashes,
                 unsure, revoked>>

LogApiKeyUsage(r) ==
  /\ pc[r] = "auditUse"
  /\ LogSecurityEvent(AuditRow(r, "API_KEY_USAGE", TRUE))
  /\ Goto(r, "validate")
  /\ UNCHANGED <<apiKeys, wallets, input, authKey, err, status, logging,
                 crashes, unsure, revoked>>

(* The body of a creation, or the id of a balance query.                   *)
ValidateRequest(r) ==
  /\ pc[r] = "validate"
  /\ \/ /\ Goto(r, IF input[r].route = "createWallet" THEN "encrypt" ELSE "find")
        /\ UNCHANGED status
     \/ /\ input[r].target = NoWallet
        /\ Answer(r, 400)
  /\ UNCHANGED <<tables, input, authKey, err, logging, crashes, observers>>

-----------------------------------------------------------------------------
(* createWallet: generate and encrypt a key, insert the row.               *)

(* A password that is no string passes the validators and makes bcrypt     *)
(* throw.                                                                  *)
EncryptKey(r) ==
  /\ pc[r] = "encrypt"
  /\ \/ Goto(r, "insert") /\ UNCHANGED err
     \/ Throw(r, "Error")
  /\ UNCHANGED <<tables, input, authKey, status, logging, crashes, observers>>

(* The insertion succeeds, fails, or is committed while the call fails,    *)
(* the connection being lost before the result arrives.                    *)
InsertWalletUnawaited(r) ==  \* faulty variant: goes on without the result
  /\ pc[r] = "insert"
  /\ \/ wallets' = wallets \cup {[id |-> r, ss58Format |-> Ss58Format]}
     \/ UNCHANGED wallets
  /\ Goto(r, "auditSuccess")
  /\ UNCHANGED <<apiKeys, auditLog, input, authKey, err, status, logging,
                 crashes, observers>>

InsertWallet(r) ==
  LET row == [id |-> r, ss58Format |-> Ss58Format] IN
  /\ pc[r] = "insert"
  /\ \/ /\ wallets' = wallets \cup {row}
        /\ Goto(r, "auditSuccess")
        /\ UNCHANGED <<err, unsure>>
     \/ /\ \E e \in {"PrismaKnownError", "Error"} : Throw(r, e)
        /\ UNCHANGED <<wallets, unsure>>
     \/ /\ wallets' = wallets \cup {row}
        /\ unsure' = unsure \cup {r}
        /\ \E e \in {"PrismaKnownError", "Error"} : Throw(r, e)
  /\ UNCHANGED <<apiKeys, auditLog, input, authKey, status, logging, crashes,
                 lostRows, revoked>>

-----------------------------------------------------------------------------
(* getWalletBalance: find the row, check its address and the network, ask  *)
(* for the balance.                                                        *)

ValidateAddress(w) == w.ss58Format \in AddressesStartWith5

FindWallet(r) ==
  /\ pc[r] = "find"
  /\ \/ \E e \in {"PrismaKnownError", "Error"} : Throw(r, e)
     \/ ~Stored(input[r].target) /\ Throw(r, "NotFoundError")
     \/ \E w \in wallets :
          /\ w.id = input[r].target
          /\ IF ValidateAddress(w)
             THEN Goto(r, "health") /\ UNCHANGED err
             ELSE Throw(r, "EntityConstraintError")
  /\ UNCHANGED <<tables, input, authKey, status, logging, crashes, observers>>

CheckNetwork(r) ==
  /\ pc[r] = "health"
  /\ \/ Goto(r, "fetch") /\ UNCHANGED err
     \/ Throw(r, "ServiceUnavailableError")
  /\ UNCHANGED <<tables, input, authKey, status, logging, crashes, observers>>

(* The simulated network call: a delay, then a balance; it cannot fail.    *)
FetchBalance(r) ==
  /\ pc[r] = "fetch"
  /\ Goto(r, "auditSuccess")
  /\ UNCHANGED <<tables, input, authKey, err, status, logging, crashes, observers>>

-----------------------------------------------------------------------------
(* The controllers: the outcome is logged, then answered.                  *)

LogOperationThrows(r) ==  \* faulty variant: a failed write is rethrown
  LET row == AuditRow(r, OperationEvent[input[r].route], TRUE) IN
  /\ pc[r] = "auditSuccess"
  /\ \/ /\ auditLog' = auditLog \cup {row}
        /\ AnswerNext(r, SuccessStatus[input[r].route])
        /\ UNCHANGED <<err, lostRows>>
     \/ /\ auditLog' = auditLog \cup {row}  \* committed, and reported as failed
        /\ Throw(r, "Error")
        /\ UNCHANGED <<status, lostRows>>
     \/ /\ lostRows' = lostRows \cup {row}
        /\ Throw(r, "Error")
        /\ UNCHANGED <<status, auditLog>>
  /\ UNCHANGED <<apiKeys, wallets, input, authKey, logging, crashes, unsure, revoked>>

LogOperation(r) ==
  /\ pc[r] = "auditSuccess"
  /\ LogSecurityEvent(AuditRow(r, OperationEvent[input[r].route], TRUE))
  /\ AnswerNext(r, SuccessStatus[input[r].route])
  /\ UNCHANGED <<apiKeys, wallets, input, authKey, err, logging, crashes,
                 unsure, revoked>>

LogFailure(r) ==
  /\ pc[r] = "auditFailure"
  /\ LogSecurityEvent(AuditRow(r, OperationEvent[input[r].route], FALSE))
  /\ AnswerNext(r, StatusOf[err[r]])
  /\ UNCHANGED <<apiKeys, wallets, input, authKey, err, logging, crashes,
                 unsure, revoked>>

Respond(r) ==
  /\ pc[r] = "respond"
  /\ Goto(r, "answered")
  /\ UNCHANGED <<tables, input, authKey, err, status, logging, crashes, observers>>

-----------------------------------------------------------------------------
(* Around the requests.                                                    *)

(* The process dies and the container restarts it.  A write that was sent  *)
(* and is committed after the crash is the write, then the crash.          *)
Crash ==
  /\ crashes < MaxCrashes
  /\ crashes' = crashes + 1
  /\ pc' = [r \in Requests |-> IF InFlight(r) THEN "lost" ELSE pc[r]]
  /\ logging' = {}
  /\ UNCHANGED <<tables, input, authKey, err, status, observers>>

CreateApiKey(k) ==
  /\ apiKeys[k].status = "none"
  /\ \E s \in ScopeChoices :
       apiKeys' = [apiKeys EXCEPT ![k] = [status |-> "active", scopes |-> s]]
  /\ UNCHANGED <<wallets, auditLog, pc, input, authKey, err, status, logging,
                 crashes, observers>>

DeactivateApiKey(k) ==
  /\ apiKeys[k].status = "active"
  /\ apiKeys' = [apiKeys EXCEPT ![k].status = "inactive"]
  /\ UNCHANGED <<wallets, auditLog, pc, input, authKey, err, status, logging,
                 crashes, observers>>

(* Every request was dealt with and no entry is being written.             *)
AllDone == logging = {} /\ \A r \in Requests : pc[r] \in {"answered", "lost"}

Idle == AllDone /\ UNCHANGED vars

Serve(r) ==
  \/ ParseBody(r) \/ RateLimit(r) \/ ValidateHeader(r)
  \/ LookupApiKey(r) \/ CompareSecret(r)
  \/ LogAuthenticationFailure(r) \/ LogScopeFailure(r) \/ LogApiKeyUsage(r)
  \/ ValidateRequest(r)
  \/ EncryptKey(r) \/ InsertWallet(r)
  \/ FindWallet(r) \/ CheckNetwork(r) \/ FetchBalance(r)
  \/ LogOperation(r) \/ LogFailure(r) \/ Respond(r)

Next ==
  \/ \E r \in Requests : Arrive(r) \/ Serve(r) \/ LogRateLimitExceeded(r)
  \/ \E k \in ApiKeys : CreateApiKey(k) \/ DeactivateApiKey(k)
  \/ Crash
  \/ Idle

Spec == Init /\ [][Next]_vars

(* Node's event loop runs every callback that is due, and each awaited     *)
(* call (database, bcrypt, timers) settles.  Clients, operators and        *)
(* crashes owe nothing.                                                    *)
Fairness ==
  \A r \in Requests : WF_vars(Serve(r)) /\ WF_vars(LogRateLimitExceeded(r))

FairSpec == Spec /\ Fairness

-----------------------------------------------------------------------------
(* Properties.                                                             *)

PcLabels ==
  {"idle", "parse", "limit", "header", "lookup", "compare", "auditDenied",
   "auditForbidden", "auditUse", "validate", "encrypt", "insert", "find",
   "health", "fetch", "auditSuccess", "auditFailure", "respond", "answered",
   "lost"}

(* Every variable has its type: the shape of the tables and of a request.  *)
TypeOK ==
  /\ apiKeys \in [ApiKeys -> [status : {"none", "active", "inactive"},
                              scopes : SUBSET Scopes]]
  /\ wallets \subseteq WalletRows
  /\ auditLog \subseteq AuditRows
  /\ pc \in [Requests -> PcLabels]
  /\ input \in [Requests -> Inputs \cup {NoInput}]
  /\ authKey \in [Requests -> ApiKeys \cup {NoKey}]
  /\ err \in [Requests -> Errors \cup {"none"}]
  /\ status \in [Requests -> Nat]
  /\ logging \subseteq Requests
  /\ crashes \in 0..MaxCrashes
  /\ lostRows \subseteq AuditRows
  /\ unsure \subseteq Requests
  /\ revoked \subseteq Requests

OperationRow(r, ok) == AuditRow(r, OperationEvent[input[r].route], ok)
UsageRow(r, ok, k) == [req |-> r, event |-> "API_KEY_USAGE", ok |-> ok, key |-> k]
Written == auditLog \cup lostRows

(* A 201, or an audit entry that says a wallet was created, stands for a   *)
(* row of table Wallet, whatever failed or crashed since: createWallet     *)
(* logs and answers only after walletRepository.create returned.           *)
SuccessIsDurable ==
  \A r \in Requests :
    (\/ Answered(r) /\ status[r] = 201
     \/ \E row \in auditLog : /\ row.req = r
                              /\ row.event = "WALLET_CREATION"
                              /\ row.ok) => Stored(r)

(* A client that is refused a wallet has none: a wallet is left behind an  *)
(* error answer only when the database committed an insertion it reported  *)
(* as failed.  Losing the audit entry, in particular, does not turn a      *)
(* stored wallet into a failure.                                           *)
NoOrphanWithoutFault ==
  \A r \in Requests :
    Answered(r) /\ Stored(r) /\ status[r] # 201 => r \in unsure

(* No wallet, and no entry for an operation, comes from a request whose    *)
(* key was already deactivated when the request arrived, was presented     *)
(* with a wrong secret, or lacks the scope of the route.                   *)
OnlyAuthorisedWork ==
  \A r \in Requests :
    (Stored(r) \/ \E row \in auditLog : row.req = r /\ row.event \in OperationEvents)
      => /\ input[r].header.secret
         /\ input[r].header.key \in ApiKeys
         /\ HasScope(r)
         /\ r \notin revoked

(* By the time a request is answered, every entry it owes has been written *)
(* or its write has failed: the usage of the key, its refusal, and the     *)
(* outcome of the operation.  Only the entry of a 429 may come later.      *)
AuditBeforeAnswer ==
  \A r \in Requests : Answered(r) =>
    /\ status[r] \in {401, 403} =>
         \E row \in Written : row.req = r /\ row.event = "API_KEY_USAGE" /\ ~row.ok
    /\ authKey[r] # NoKey =>
         \E row \in Written : row.req = r /\ row.event = "API_KEY_USAGE" /\ row.ok
    /\ status[r] \in {200, 201} => OperationRow(r, TRUE) \in Written
    /\ err[r] # "none" => OperationRow(r, FALSE) \in Written

(* The audit log never disagrees with itself nor with what the client was  *)
(* told: of an operation, or of the use of a key, success and failure      *)
(* exclude each other, and an entry of either goes with the answers of its *)
(* kind, as the entry of a 429 does.  Rests on logSecurityEvent never      *)
(* throwing inside the try blocks of the controllers and of auth.          *)
AuditAgreesWithAnswer ==
  \A row \in auditLog :
    /\ \A other \in auditLog :
         other.req = row.req /\ other.event = row.event => other.ok = row.ok
    /\ Answered(row.req) =>
         /\ row.event \in OperationEvents =>
              (row.ok <=> status[row.req] \in {200, 201})
         /\ row.event = "API_KEY_USAGE" =>
              (row.ok <=> status[row.req] \notin {401, 403, 429})
         /\ row.event = "RATE_LIMIT_EXCEEDED" => status[row.req] = 429

(* Entries of an accepted key carry the id of the key that was presented,  *)
(* so the log can be searched by key: req.apiKey is set before the first   *)
(* of them is written.                                                     *)
AttributedToKey ==
  \A row \in auditLog :
    (row.event \in OperationEvents \/ row.ok) =>
      row.key \in ApiKeys /\ row.key = input[row.req].header.key

(* A wallet a client was told of is found: a balance query for an id       *)
(* learnt from a 201 is never answered 404, nor refused for its address.   *)
(* The prefix createWallet gives addresses is one validateAddress accepts. *)
CreatedWalletIsUsable ==
  \A r \in Requests :
    /\ Answered(r) /\ status[r] = 404 => input[r].target = NoWallet
    /\ err[r] # "EntityConstraintError"

(* Every request that arrives is answered, unless the process dies first.  *)
EveryRequestSettles ==
  \A r \in Requests : InFlight(r) ~> pc[r] \in {"answered", "lost"}

(* Every 429 leaves an entry, unless its write fails or the process dies   *)
(* while the write that nobody awaits is pending.                          *)
RejectionIsLogged ==
  \A r \in Requests :
    Answered(r) /\ status[r] = 429 ~>
      \/ \E row \in Written : row.req = r /\ row.event = "RATE_LIMIT_EXCEEDED"
      \/ crashes > 0

(* The API as its clients see it is the ledger of WalletLedger.            *)
OutcomeOf(r) ==
  CASE pc[r] = "lost" -> "lost"
    [] Answered(r) -> CASE status[r] = 201 -> "created"
                        [] status[r] = 200 -> "found"
                        [] status[r] = 404 -> "missing"
                        [] OTHER -> "refused"
    [] OTHER -> "pending"

Ledger == INSTANCE WalletLedger WITH
  stored  <- {w.id : w \in wallets},
  doubted <- unsure,
  asked   <- [r \in Requests |-> input[r].target],
  outcome <- [r \in Requests |-> OutcomeOf(r)]

(* Whatever the interleaving of requests, the losses of the database and   *)
(* the crashes, each step of the API is a step of the ledger or none.      *)
ImplementsLedger == Ledger!Spec

(* The statuses the OpenAPI paths list for the two routes.                 *)
DocumentedForCreate == {201, 400, 401, 429, 500}
DocumentedForBalance == {200, 401, 404, 429, 503, 500}

(* A client written from the OpenAPI paths meets no other status, except a *)
(* 403 for want of the scope, and on a balance query a 400, of which three *)
(* things can be the cause: no header, an id that no wallet has, or an     *)
(* error of the database.                                                  *)
UndocumentedAnswers ==
  \A r \in Requests :
    /\ Answered(r)
    /\ status[r] \notin IF input[r].route = "createWallet"
                        THEN DocumentedForCreate ELSE DocumentedForBalance
    => \/ status[r] = 403 /\ input[r].header.secret /\ ~HasScope(r)
       \/ /\ status[r] = 400 /\ input[r].route = "getWalletBalance"
          /\ \/ input[r].header.form = "absent"
             \/ input[r].target = NoWallet
             \/ err[r] = "PrismaKnownError"

-----------------------------------------------------------------------------
(* What the documentation says and the code does not do.                   *)

(* docs/paths/wallets.ts:111: a balance query is answered 503 when the     *)
(* network is unavailable.  ClientErrorHandler has no case for             *)
(* ServiceUnavailableError, so the answer is 500.                          *)
NetworkUnavailableIs503 ==
  \A r \in Requests :
    Answered(r) /\ err[r] = "ServiceUnavailableError" => status[r] = 503

(* docs/paths/wallets.ts:13: all operations are logged for audit purposes. *)
(* An entry whose write fails is dropped and the operation is answered     *)
(* as a success all the same.                                              *)
AllOperationsLogged ==
  \A r \in Requests :
    Answered(r) /\ status[r] = 201 => OperationRow(r, TRUE) \in auditLog

=============================================================================
