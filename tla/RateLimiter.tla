----------------------------- MODULE RateLimiter -----------------------------
(***************************************************************************)
(* RateLimitMiddleware over the in-memory limiter of rate-limiter-flexible.*)
(*                                                                         *)
(* A counter belongs to one client of one named limiter, so it has that    *)
(* limiter's configuration; counters share nothing but the clock.  A       *)
(* request consumes a point when it reaches the middleware.  The promise   *)
(* that consume returns, which may be delayed, is raced against a timer,   *)
(* and the request goes on when the first of the two settles.              *)
(*                                                                         *)
(* Time is a count of ticks, TicksPerSecond of them to a second.  A timer  *)
(* does not fire early; it fires up to Hold late, when another request     *)
(* holds the event loop, as CryptoService does with pbkdf2Sync.            *)
(***************************************************************************)
EXTENDS Integers, FiniteSets

CONSTANTS
  Keys,            \* the counters
  Config,          \* counter -> points, duration, blockDuration, execEvenly
  Requests,
  Timeout,         \* the timer of the race
  Hold,            \* the longest that the event loop is held
  TicksPerSecond,
  MaxTime          \* bound on the clock

Configs == [points : Nat \ {0}, duration : Nat \ {0}, blockDuration : Nat,
            execEvenly : BOOLEAN]

ASSUME ConfigAssumption == Config \in [Keys -> Configs]
ASSUME TimeoutAssumption == Timeout \in Nat
ASSUME HoldAssumption == Hold \in Nat
ASSUME TicksAssumption == TicksPerSecond \in Nat \ {0}
ASSUME MaxTimeAssumption == MaxTime \in Nat

VARIABLES
  now,
  bootAt,      \* when the process started
  record,      \* counter -> points consumed, and the time they expire
  stage,       \* where each request is
  key,         \* the counter it used
  askedAt,     \* when it reached the middleware
  resolveAt,   \* when the promise of consume is due, if it was delayed
  retryAfter   \* the Retry-After header, in seconds, of a refusal

requestVars == <<stage, key, askedAt, resolveAt, retryAfter>>
vars == <<now, bootAt, record, requestVars>>

-----------------------------------------------------------------------------
(* The arithmetic of the limiter and of the middleware.                    *)

CeilDiv(a, b) == (a + b - 1) \div b

BlockDurationAsGiven(c) ==  \* faulty variant: zero is no block
  c.blockDuration

BlockDurationInSeconds(c) ==  \* faulty variant: a duration in the wrong unit
  c.blockDuration \div TicksPerSecond

BlockDurationOnTop(c) ==  \* faulty variant: the block comes on top of the window
  c.duration + c.blockDuration

(* createLimiter: an unset or zero blockDuration is the duration.          *)
BlockDuration(c) == IF c.blockDuration = 0 THEN c.duration ELSE c.blockDuration

(* execEvenly spreads the points that are left over the time that is left, *)
(* but never closer than an even share of the whole window.                *)
MinDelay(c) == CeilDiv(c.duration, c.points)

Delay(c, rec) ==
  LET share == CeilDiv(rec.expires - now, c.points - rec.consumed + 2) IN
  IF share < MinDelay(c) THEN rec.consumed * MinDelay(c) ELSE share

(* Math.round(ms / 1000) || 1                                              *)
RetryAfterSeconds(ticks) ==
  LET rounded == (2 * ticks + TicksPerSecond) \div (2 * TicksPerSecond) IN
  IF rounded = 0 THEN 1 ELSE rounded

-----------------------------------------------------------------------------

NoRecord == [consumed |-> 0, expires |-> 0]

LiveOnceUsed(k) ==  \* faulty variant: what expired is never removed
  record[k].consumed > 0

Live(k) == record[k].expires > now

(* The storage adds a point to a live record and replaces any other.       *)
Incremented(k) ==
  IF Live(k)
  THEN [record[k] EXCEPT !.consumed = @ + 1]
  ELSE [consumed |-> 1, expires |-> now + Config[k].duration]

(* The first refusal of a window blocks the counter; later ones do not.    *)
BlockedAgain(c, rec) ==  \* faulty variant: every refusal does
  [rec EXCEPT !.expires = now + BlockDuration(c)]

Blocked(c, rec) ==
  IF rec.consumed = c.points + 1
  THEN [rec EXCEPT !.expires = now + BlockDuration(c)]
  ELSE rec

Init ==
  /\ now = 0
  /\ bootAt = 0
  /\ record = [k \in Keys |-> NoRecord]
  /\ stage = [r \in Requests |-> "new"]
  /\ key \in [Requests -> Keys]
  /\ askedAt = [r \in Requests |-> 0]
  /\ resolveAt = [r \in Requests |-> 0]
  /\ retryAfter = [r \in Requests |-> 0]

(* A request reaches the middleware: it is refused, sent on at once with   *)
(* its headers, or made to wait.                                           *)
Consume(r) ==
  LET k   == key[r]
      c   == Config[k]
      rec == Incremented(k) IN
  /\ stage[r] = "new"
  /\ now + Timeout <= MaxTime
  /\ askedAt' = [askedAt EXCEPT ![r] = now]
  /\ \/ /\ rec.consumed > c.points
        /\ record' = [record EXCEPT ![k] = Blocked(c, rec)]
        /\ stage' = [stage EXCEPT ![r] = "rejected"]
        /\ retryAfter' =
             [retryAfter EXCEPT ![r] = RetryAfterSeconds(Blocked(c, rec).expires - now)]
        /\ UNCHANGED resolveAt
     \/ /\ rec.consumed <= c.points
        /\ ~c.execEvenly \/ ~Live(k)
        /\ record' = [record EXCEPT ![k] = rec]
        /\ stage' = [stage EXCEPT ![r] = "passed"]
        /\ UNCHANGED <<resolveAt, retryAfter>>
     \/ /\ rec.consumed <= c.points
        /\ c.execEvenly /\ Live(k)
        /\ record' = [record EXCEPT ![k] = rec]
        /\ stage' = [stage EXCEPT ![r] = "waiting"]
        /\ resolveAt' = [resolveAt EXCEPT ![r] = now + Delay(c, rec)]
        /\ UNCHANGED retryAfter
  /\ UNCHANGED <<now, bootAt, key>>

Deadline(r) == askedAt[r] + Timeout

(* consume settles first: the request goes on with its headers.  When both *)
(* timers are due, either may run: Node.js runs all that are due of one    *)
(* duration before those of another.                                       *)
Resolve(r) ==
  /\ stage[r] = "waiting"
  /\ now >= resolveAt[r]
  /\ stage' = [stage EXCEPT ![r] = "passed"]
  /\ UNCHANGED <<now, bootAt, record, key, askedAt, resolveAt, retryAfter>>

TimeoutRefuses(r) ==  \* faulty variant: the error is taken for a refusal
  /\ stage[r] = "waiting"
  /\ now >= Deadline(r)
  /\ resolveAt[r] # Deadline(r)
  /\ stage' = [stage EXCEPT ![r] = "rejected"]
  /\ UNCHANGED <<now, bootAt, record, key, askedAt, resolveAt, retryAfter>>

TimeoutForgotten(r) ==  \* faulty variant: the error is logged, next() is not called
  /\ stage[r] = "waiting"
  /\ now >= Deadline(r)
  /\ resolveAt[r] # Deadline(r)
  /\ stage' = [stage EXCEPT ![r] = "forgotten"]
  /\ UNCHANGED <<now, bootAt, record, key, askedAt, resolveAt, retryAfter>>

(* The timer fires first: the error is logged and the request goes on all  *)
(* the same, without headers.  Of two equal timers the one of consume,     *)
(* which was set before, runs first.                                       *)
TimeoutFires(r) ==
  /\ stage[r] = "waiting"
  /\ now >= Deadline(r)
  /\ resolveAt[r] # Deadline(r)
  /\ stage' = [stage EXCEPT ![r] = "passedLate"]
  /\ UNCHANGED <<now, bootAt, record, key, askedAt, resolveAt, retryAfter>>

Overdue(r) ==
  stage[r] = "waiting" /\ (now >= resolveAt[r] + Hold \/ now >= Deadline(r) + Hold)

Tick ==
  /\ now < MaxTime
  /\ \A r \in Requests : ~Overdue(r)
  /\ now' = now + 1
  /\ UNCHANGED <<bootAt, record, requestVars>>

(* The process is restarted: the counters and the waiting requests are     *)
(* gone.  It takes some time, a tick.                                      *)
Restart ==
  /\ now < MaxTime
  /\ now' = now + 1
  /\ bootAt' = now + 1
  /\ record' = [k \in Keys |-> NoRecord]
  /\ stage' = [r \in Requests |-> IF stage[r] = "waiting" THEN "lost" ELSE stage[r]]
  /\ UNCHANGED <<key, askedAt, resolveAt, retryAfter>>

(* The end of the time TLC explores.                                       *)
TheEnd ==
  /\ now = MaxTime /\ \A r \in Requests : stage[r] # "waiting"
  /\ UNCHANGED vars

Next ==
  \/ \E r \in Requests : Consume(r) \/ Resolve(r) \/ TimeoutFires(r)
  \/ Tick
  \/ Restart
  \/ TheEnd

Spec == Init /\ [][Next]_vars

(* Time passes and timers fire; no request has to come.                    *)
Fairness ==
  /\ WF_vars(Tick)
  /\ \A r \in Requests : WF_vars(Resolve(r)) /\ WF_vars(TimeoutFires(r))

FairSpec == Spec /\ Fairness

-----------------------------------------------------------------------------
(* Properties.                                                             *)

Stages == {"new", "waiting", "passed", "passedLate", "rejected", "lost"}

(* Every variable has its type; a record that is live counts something.    *)
TypeOK ==
  /\ now \in 0..MaxTime
  /\ bootAt \in 0..now
  /\ record \in [Keys -> [consumed : Nat, expires : Nat]]
  /\ stage \in [Requests -> Stages]
  /\ key \in [Requests -> Keys]
  /\ askedAt \in [Requests -> 0..now]
  /\ resolveAt \in [Requests -> Nat]
  /\ retryAfter \in [Requests -> Nat]
  /\ \A k \in Keys : Live(k) => record[k].consumed > 0

Accepted(r) == stage[r] \in {"waiting", "passed", "passedLate", "lost"}

AcceptedWithin(k, from, to) ==
  {r \in Requests : Accepted(r) /\ key[r] = k /\ askedAt[r] \in from..to}

(* In any stretch of time as long as the window, a process accepts at most *)
(* twice the points less one: the tail of one window and the whole of the  *)
(* next.  Pacing and the timer do not loosen it, nor does blocking where   *)
(* the block is no shorter than the window, as in all of rateLimits.ts: a  *)
(* shorter block would end the window early.                               *)
TwoWindowBound ==
  \A k \in {l \in Keys : \/ Config[l].blockDuration = 0
                          \/ Config[l].blockDuration >= Config[l].duration} :
   \A from \in bootAt..now :
    Cardinality(AcceptedWithin(k, from, from + Config[k].duration - 1))
      <= 2 * Config[k].points - 1

(* Requests that come while a client is blocked do not prolong the block:  *)
(* from its start it ends at a fixed time.                                 *)
BlockKept ==
  \A k \in Keys :
    Live(k) /\ record[k].consumed > Config[k].points /\ bootAt' = bootAt
      => record'[k].expires = record[k].expires

BlockIsNotExtended == [][BlockKept]_vars

(* No client is kept out longer than the longer of window and block,       *)
(* whatever it sends.                                                      *)
LockoutIsBounded ==
  \A k \in Keys : \/ record[k].expires <= now + Config[k].duration
                  \/ record[k].expires <= now + Config[k].blockDuration

(* Where an even share of the window is longer than the timer, which is so *)
(* for every limiter of this server that asks for execEvenly, pacing never *)
(* takes effect: each request but the first of a window waits for the      *)
(* timer, and goes on without headers.  This is the request that "hangs"   *)
(* in the comment of the middleware.  Only an event loop that is held for  *)
(* as long as the difference could change that.                            *)
TimerWins ==
  \A r \in Requests :
    /\ stage[r] = "waiting"
    /\ MinDelay(Config[key[r]]) > Timeout + Hold
    /\ stage'[r] # "waiting"
    => \/ stage'[r] = "passedLate" /\ now \in Deadline(r)..(Deadline(r) + Hold)
       \/ stage'[r] = "lost"

PacingLosesTheRace == [][TimerWins]_vars

(* A client that was refused, and is refused again after it waited half as *)
(* many ticks as given more than Retry-After told it to, finds that        *)
(* someone used the counter in the meantime.                               *)
RetryHonoured(halfTicks) ==
  \A r, q \in Requests :
    /\ stage[r] = "rejected" /\ stage[q] = "rejected"
    /\ key[r] = key[q]
    /\ askedAt[r] >= bootAt
    /\ 2 * askedAt[q] >= 2 * (askedAt[r] + retryAfter[r] * TicksPerSecond) + halfTicks
    => AcceptedWithin(key[r], askedAt[r] + 1, askedAt[q]) # {}

(* The rounding of Retry-After never costs a client more than half a       *)
(* second: nobody who waits that much longer is still kept out by the      *)
(* block of the first refusal, whatever was sent in the meantime.          *)
RetryAfterIsNearlyEnough == RetryHonoured(TicksPerSecond)

(* Nobody is refused for what was used up long ago: all points were taken  *)
(* within the stretch that a window and the block after it can span, up to *)
(* the refusal, whatever was sent during the block.                        *)
RefusalIsRecent ==
  \A r \in Requests : stage[r] = "rejected" =>
    LET c == Config[key[r]] IN
    Cardinality(AcceptedWithin(key[r],
                               askedAt[r] - c.duration - BlockDuration(c) + 2, askedAt[r]))
      >= c.points

(* Every request that reaches the middleware is decided, unless the        *)
(* process dies first: nothing waits for ever on a delayed promise.        *)
EveryRequestIsDecided ==
  \A r \in Requests :
    stage[r] = "waiting" ~> stage[r] \in {"passed", "passedLate", "lost"}

(* How the state reads as one of AdmissionLimiter.                         *)
Granted(k) ==
  IF ~Live(k) THEN 0
  ELSE IF record[k].consumed < Config[k].points THEN record[k].consumed
  ELSE Config[k].points

Verdict(r) == CASE stage[r] = "new"      -> "none"
                [] stage[r] = "rejected" -> "refused"
                [] OTHER                 -> "admitted"

Promise == INSTANCE AdmissionLimiter WITH
  Points  <- [k \in Keys |-> Config[k].points],
  granted <- [k \in Keys |-> Granted(k)],
  verdict <- [r \in Requests |-> Verdict(r)]

(* Between two renewals a counter grants at most its points, and refuses   *)
(* only when they are used up.                                             *)
ImplementsPromise == Promise!Spec

-----------------------------------------------------------------------------
(* What the documentation says and the code does not do.                   *)

(* docs/paths/wallets.ts:21: 5 requests per hour per IP address.  Counted  *)
(* from the first request of a window, not over the last hour.             *)
PointsPerDuration ==
  \A k \in Keys : \A from \in bootAt..now :
    Cardinality(AcceptedWithin(k, from, from + Config[k].duration - 1))
      <= Config[k].points

(* docs/swagger.config.ts:136: Retry-After is the time to wait before      *)
(* retrying.  The code rounds to the nearest second, so the time may end   *)
(* while the block lasts.                                                  *)
RetryAfterIsEnough == RetryHonoured(0)

=============================================================================
