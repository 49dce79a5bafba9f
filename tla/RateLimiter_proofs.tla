-------------------------- MODULE RateLimiter_proofs --------------------------
(***************************************************************************)
(* RateLimiter for any counters, configurations and requests: its types,   *)
(* how long a client is kept out, why pacing loses the race, and that it   *)
(* implements AdmissionLimiter.                                            *)
(***************************************************************************)
EXTENDS RateLimiter, TLAPS

(* A waiting request has not waited longer than the timer and a delay of   *)
(* the event loop, and its promise is due no sooner than an even share of  *)
(* the window.                                                             *)
WaitingInv ==
  \A r \in Requests : stage[r] = "waiting" =>
    /\ now <= Deadline(r) + Hold
    /\ resolveAt[r] >= askedAt[r] + MinDelay(Config[key[r]])

IInv == TypeOK /\ LockoutIsBounded /\ WaitingInv

-----------------------------------------------------------------------------
(* The arithmetic.                                                         *)

LEMMA ConfigType ==
  ASSUME NEW k \in Keys
  PROVE  /\ Config[k].points \in Nat \ {0}
         /\ Config[k].duration \in Nat \ {0}
         /\ Config[k].blockDuration \in Nat
         /\ BlockDuration(Config[k]) \in Nat \ {0}
         /\ BlockDuration(Config[k]) \in {Config[k].duration, Config[k].blockDuration}
BY ConfigAssumption DEF Configs, BlockDuration

LEMMA CeilDivNat ==
  ASSUME NEW a \in Nat, NEW b \in Nat \ {0}
  PROVE  CeilDiv(a, b) \in Nat
BY DEF CeilDiv

LEMMA MinDelayNat ==
  ASSUME NEW k \in Keys
  PROVE  MinDelay(Config[k]) \in Nat
BY ConfigType, CeilDivNat DEF MinDelay

(* The pause of execEvenly is never shorter than the even share.           *)
LEMMA DelayIsSpaced ==
  ASSUME NEW k \in Keys, TypeOK,
         NEW rec \in [consumed : Nat \ {0}, expires : Nat],
         rec.expires >= now, rec.consumed <= Config[k].points
  PROVE  /\ Delay(Config[k], rec) \in Nat
         /\ Delay(Config[k], rec) >= MinDelay(Config[k])
<1> DEFINE share == CeilDiv(rec.expires - now, Config[k].points - rec.consumed + 2)
           least == MinDelay(Config[k])
<1>1. share \in Nat
  BY ConfigType, CeilDivNat DEF TypeOK
<1>2. least \in Nat
  BY MinDelayNat
<1>3. rec.consumed * least \in Nat /\ rec.consumed * least >= least
  <2> HIDE DEF least
  <2>1. PICK n \in Nat : rec.consumed = n + 1
    <3>1. rec.consumed - 1 \in Nat
      OBVIOUS
    <3>2. QED
      BY <3>1
  <2>2. n * least \in Nat
    BY <1>2
  <2>3. rec.consumed * least = n * least + least
    BY <1>2, <2>1
  <2>4. QED
    BY <1>2, <2>2, <2>3
<1>4. Delay(Config[k], rec) = IF share < least THEN rec.consumed * least ELSE share
  BY DEF Delay
<1> HIDE DEF share, least
<1>5. QED
  BY <1>1, <1>2, <1>3, <1>4 DEF least

LEMMA RetryAfterNat ==
  ASSUME NEW ticks \in Nat
  PROVE  RetryAfterSeconds(ticks) \in Nat
BY TicksAssumption DEF RetryAfterSeconds

-----------------------------------------------------------------------------
(* What consuming a point does to a record.                                *)

LEMMA IncrementedFacts ==
  ASSUME TypeOK, LockoutIsBounded, NEW k \in Keys
  PROVE  LET rec == Incremented(k) IN
         /\ rec \in [consumed : Nat \ {0}, expires : Nat]
         /\ rec.expires > now
         /\ \/ rec.expires <= now + Config[k].duration
            \/ rec.expires <= now + Config[k].blockDuration
BY ConfigType DEF TypeOK, LockoutIsBounded, Incremented, Live

LEMMA BlockedFacts ==
  ASSUME TypeOK, LockoutIsBounded, NEW k \in Keys
  PROVE  LET rec == Blocked(Config[k], Incremented(k)) IN
         /\ rec \in [consumed : Nat \ {0}, expires : Nat]
         /\ rec.consumed = Incremented(k).consumed
         /\ rec.expires > now
         /\ \/ rec.expires <= now + Config[k].duration
            \/ rec.expires <= now + Config[k].blockDuration
<1> DEFINE rec == Incremented(k)
<1>1. /\ rec \in [consumed : Nat \ {0}, expires : Nat]
      /\ rec.expires > now
      /\ \/ rec.expires <= now + Config[k].duration
         \/ rec.expires <= now + Config[k].blockDuration
  BY IncrementedFacts
<1>2. now \in Nat
  BY DEF TypeOK
<1> HIDE DEF rec
<1>3. QED
  BY <1>1, <1>2, ConfigType DEF Blocked, rec

(* The three ways a request can leave the middleware's first step, with    *)
(* what each makes of the request and of its counter.                      *)
LEMMA ConsumeFacts ==
  ASSUME TypeOK, LockoutIsBounded, NEW r \in Requests, Consume(r)
  PROVE  /\ key[r] \in Keys
         /\ stage[r] = "new"
         /\ UNCHANGED <<now, bootAt, key>>
         /\ askedAt' = [askedAt EXCEPT ![r] = now]
         /\ \E rec \in [consumed : Nat \ {0}, expires : Nat] :
              /\ record' = [record EXCEPT ![key[r]] = rec]
              /\ rec.consumed = Incremented(key[r]).consumed
              /\ rec.expires > now
              /\ \/ rec.expires <= now + Config[key[r]].duration
                 \/ rec.expires <= now + Config[key[r]].blockDuration
         /\ \/ /\ Incremented(key[r]).consumed > Config[key[r]].points
               /\ stage' = [stage EXCEPT ![r] = "rejected"]
               /\ \E s \in Nat : retryAfter' = [retryAfter EXCEPT ![r] = s]
               /\ UNCHANGED resolveAt
            \/ /\ Incremented(key[r]).consumed <= Config[key[r]].points
               /\ stage' = [stage EXCEPT ![r] = "passed"]
               /\ UNCHANGED <<resolveAt, retryAfter>>
            \/ /\ Incremented(key[r]).consumed <= Config[key[r]].points
               /\ stage' = [stage EXCEPT ![r] = "waiting"]
               /\ \E t \in Nat :
                    /\ resolveAt' = [resolveAt EXCEPT ![r] = t]
                    /\ t >= now + MinDelay(Config[key[r]])
               /\ UNCHANGED retryAfter
<1> DEFINE k == key[r]
           rec == Incremented(k)
           blocked == Blocked(Config[k], rec)
<1>1. /\ k \in Keys /\ now \in Nat /\ stage[r] = "new"
      /\ UNCHANGED <<now, bootAt, key>>
      /\ askedAt' = [askedAt EXCEPT ![r] = now]
  BY DEF TypeOK, Consume
<1>2. /\ rec \in [consumed : Nat \ {0}, expires : Nat]
      /\ rec.expires > now
      /\ \/ rec.expires <= now + Config[k].duration
         \/ rec.expires <= now + Config[k].blockDuration
  BY <1>1, IncrementedFacts
<1>3. /\ blocked \in [consumed : Nat \ {0}, expires : Nat]
      /\ blocked.consumed = rec.consumed
      /\ blocked.expires > now
      /\ \/ blocked.expires <= now + Config[k].duration
         \/ blocked.expires <= now + Config[k].blockDuration
  BY <1>1, BlockedFacts
<1>4. RetryAfterSeconds(blocked.expires - now) \in Nat
  <2>1. blocked.expires - now \in Nat
    <3> HIDE DEF blocked
    <3>1. QED
      BY <1>1, <1>3
  <2>2. QED
    BY <2>1, RetryAfterNat
<1>5. \/ /\ rec.consumed > Config[k].points
         /\ record' = [record EXCEPT ![k] = blocked]
         /\ stage' = [stage EXCEPT ![r] = "rejected"]
         /\ retryAfter' = [retryAfter EXCEPT ![r] = RetryAfterSeconds(blocked.expires - now)]
         /\ UNCHANGED resolveAt
      \/ /\ rec.consumed <= Config[k].points
         /\ record' = [record EXCEPT ![k] = rec]
         /\ stage' = [stage EXCEPT ![r] = "passed"]
         /\ UNCHANGED <<resolveAt, retryAfter>>
      \/ /\ rec.consumed <= Config[k].points
         /\ record' = [record EXCEPT ![k] = rec]
         /\ stage' = [stage EXCEPT ![r] = "waiting"]
         /\ resolveAt' = [resolveAt EXCEPT ![r] = now + Delay(Config[k], rec)]
         /\ UNCHANGED retryAfter
  BY DEF Consume
<1>6. rec.consumed <= Config[k].points =>
        Delay(Config[k], rec) \in Nat /\ Delay(Config[k], rec) >= MinDelay(Config[k])
  <2> HIDE DEF rec
  <2>1. QED
    BY <1>1, <1>2, DelayIsSpaced
<1>7. MinDelay(Config[k]) \in Nat
  BY <1>1, MinDelayNat
<1> HIDE DEF k, rec, blocked
<1>8. rec.consumed <= Config[k].points =>
        /\ now + Delay(Config[k], rec) \in Nat
        /\ now + Delay(Config[k], rec) >= now + MinDelay(Config[k])
  BY <1>1, <1>6, <1>7
<1>9. \E x \in [consumed : Nat \ {0}, expires : Nat] :
        /\ record' = [record EXCEPT ![k] = x]
        /\ x.consumed = rec.consumed
        /\ x.expires > now
        /\ \/ x.expires <= now + Config[k].duration
           \/ x.expires <= now + Config[k].blockDuration
  BY <1>2, <1>3, <1>5
<1>10. QED
  BY <1>1, <1>4, <1>5, <1>8, <1>9 DEF k, rec

-----------------------------------------------------------------------------
(* The inductive invariant.                                                *)

LEMMA InitIInv == Init => IInv
<1> SUFFICES ASSUME Init PROVE IInv
  OBVIOUS
<1>1. TypeOK
  BY MaxTimeAssumption DEF Init, TypeOK, NoRecord, Stages, Live
<1>2. LockoutIsBounded
  BY ConfigType DEF Init, LockoutIsBounded, NoRecord
<1>3. WaitingInv
  BY DEF Init, WaitingInv
<1>4. QED
  BY <1>1, <1>2, <1>3 DEF IInv

LEMMA StepIInv ==
  ASSUME IInv, [Next]_vars
  PROVE  IInv'
<1> USE DEF IInv
<1>1. ASSUME NEW r \in Requests, Consume(r) PROVE IInv'
  <2>1. /\ key[r] \in Keys /\ stage[r] = "new"
        /\ UNCHANGED <<now, bootAt, key>>
        /\ askedAt' = [askedAt EXCEPT ![r] = now]
    BY <1>1, ConsumeFacts
  <2>2. PICK rec \in [consumed : Nat \ {0}, expires : Nat] :
              /\ record' = [record EXCEPT ![key[r]] = rec]
              /\ rec.expires > now
              /\ \/ rec.expires <= now + Config[key[r]].duration
                 \/ rec.expires <= now + Config[key[r]].blockDuration
    BY <1>1, ConsumeFacts
  <2>3. PICK s \in Stages, a \in Nat, t \in Nat :
          /\ stage' = [stage EXCEPT ![r] = s]
          /\ retryAfter' = [retryAfter EXCEPT ![r] = a]
          /\ resolveAt' = [resolveAt EXCEPT ![r] = t]
          /\ s = "waiting" => t >= now + MinDelay(Config[key[r]])
    <3>1. /\ retryAfter[r] \in Nat /\ resolveAt[r] \in Nat
          /\ retryAfter = [retryAfter EXCEPT ![r] = retryAfter[r]]
          /\ resolveAt = [resolveAt EXCEPT ![r] = resolveAt[r]]
      BY DEF TypeOK
    <3>2. {"passed", "rejected", "waiting"} \subseteq Stages
      BY DEF Stages
    <3>3. QED
      BY <1>1, <3>1, <3>2, ConsumeFacts
  <2>4. TypeOK'
    <3>1. record' \in [Keys -> [consumed : Nat, expires : Nat]]
      BY <2>2 DEF TypeOK
    <3>2. \A k \in Keys : Live(k)' => record'[k].consumed > 0
      BY <2>1, <2>2 DEF TypeOK, Live
    <3>3. askedAt' \in [Requests -> 0..now]
      BY <2>1 DEF TypeOK
    <3>4. QED
      BY <2>1, <2>3, <3>1, <3>2, <3>3 DEF TypeOK
  <2>5. LockoutIsBounded'
    BY <2>1, <2>2 DEF LockoutIsBounded, TypeOK
  <2>6. WaitingInv'
    <3> SUFFICES ASSUME NEW q \in Requests, stage'[q] = "waiting"
                 PROVE  /\ now <= Deadline(q)' + Hold
                        /\ resolveAt'[q] >= askedAt'[q] + MinDelay(Config[key[q]])
      BY <2>1 DEF WaitingInv
    <3>1. CASE q = r
      BY <2>1, <2>3, <3>1, TimeoutAssumption, HoldAssumption DEF Deadline, TypeOK
    <3>2. CASE q # r
      BY <2>1, <2>3, <3>2 DEF WaitingInv, Deadline, TypeOK
    <3>3. QED
      BY <3>1, <3>2
  <2>7. QED
    BY <2>4, <2>5, <2>6
<1>2. ASSUME NEW r \in Requests, Resolve(r) \/ TimeoutFires(r) PROVE IInv'
  <2>1. PICK s \in {"passed", "passedLate"} : stage' = [stage EXCEPT ![r] = s]
    BY <1>2 DEF Resolve, TimeoutFires
  <2>2. UNCHANGED <<now, bootAt, record, key, askedAt, resolveAt, retryAfter>>
    BY <1>2 DEF Resolve, TimeoutFires
  <2>3. QED
    BY <2>1, <2>2 DEF TypeOK, LockoutIsBounded, WaitingInv, Stages, Deadline, Live
<1>3. CASE Tick
  <2>1. /\ now' = now + 1 /\ now < MaxTime
        /\ \A r \in Requests : stage[r] = "waiting" => now < Deadline(r) + Hold
        /\ UNCHANGED <<bootAt, record, stage, key, askedAt, resolveAt, retryAfter>>
    BY <1>3, TimeoutAssumption, HoldAssumption
       DEF Tick, Overdue, Deadline, TypeOK, requestVars
  <2>2. TypeOK'
    BY <2>1, MaxTimeAssumption DEF TypeOK, Live
  <2>3. LockoutIsBounded'
    BY <2>1, ConfigType DEF LockoutIsBounded, TypeOK
  <2>4. WaitingInv'
    BY <2>1, TimeoutAssumption, HoldAssumption DEF WaitingInv, Deadline, TypeOK
  <2>5. QED
    BY <2>2, <2>3, <2>4
<1>4. CASE Restart
  <2>1. /\ now' = now + 1 /\ bootAt' = now + 1 /\ now < MaxTime
        /\ record' = [k \in Keys |-> NoRecord]
        /\ stage' = [r \in Requests |-> IF stage[r] = "waiting" THEN "lost" ELSE stage[r]]
        /\ UNCHANGED <<key, askedAt, resolveAt, retryAfter>>
    BY <1>4 DEF Restart
  <2>2. TypeOK'
    BY <2>1, MaxTimeAssumption DEF TypeOK, Live, NoRecord, Stages
  <2>3. LockoutIsBounded'
    BY <2>1, ConfigType DEF LockoutIsBounded, NoRecord, TypeOK
  <2>4. WaitingInv'
    BY <2>1 DEF WaitingInv
  <2>5. QED
    BY <2>2, <2>3, <2>4
<1>5. CASE TheEnd \/ UNCHANGED vars
  BY <1>5 DEF TheEnd, vars, requestVars, TypeOK, LockoutIsBounded, WaitingInv,
    Deadline, Live
<1>6. QED
  BY <1>1, <1>2, <1>3, <1>4, <1>5 DEF Next

(* IInv holds in every reachable state.                                    *)
THEOREM Invariance == Spec => []IInv
BY InitIInv, StepIInv, PTL DEF Spec

(* Every variable keeps its type, for any configuration.                   *)
THEOREM TypeCorrect == Spec => []TypeOK
<1>1. IInv => TypeOK
  BY DEF IInv
<1>2. QED
  BY <1>1, Invariance, PTL

(* No client is kept out longer than the longer of window and block.       *)
THEOREM BoundedLockout == Spec => []LockoutIsBounded
<1>1. IInv => LockoutIsBounded
  BY DEF IInv
<1>2. QED
  BY <1>1, Invariance, PTL

-----------------------------------------------------------------------------
(* What a step may not do.                                                 *)

(* A block ends at the time set when it began, whatever is sent meanwhile. *)
THEOREM FixedBlock == Spec => BlockIsNotExtended
<1>1. IInv /\ [Next]_vars => [BlockKept]_vars
  <2> SUFFICES ASSUME IInv, Next, NEW k \in Keys,
                      Live(k), record[k].consumed > Config[k].points,
                      bootAt' = bootAt
               PROVE  record'[k].expires = record[k].expires
    BY DEF BlockKept
  <2> USE DEF IInv
  <2>1. ASSUME NEW r \in Requests, Consume(r)
        PROVE  record'[k].expires = record[k].expires
    <3>1. CASE key[r] = k
      <4> DEFINE rec == Incremented(k)
      <4>1. /\ rec = [record[k] EXCEPT !.consumed = @ + 1]
            /\ rec.consumed = record[k].consumed + 1
            /\ rec.expires = record[k].expires
        BY DEF Incremented, TypeOK
      <4>2. rec.consumed > Config[k].points + 1
        BY <4>1, ConfigType DEF TypeOK
      <4> HIDE DEF rec
      <4>3. Blocked(Config[k], rec) = rec
        BY <4>2, ConfigType DEF Blocked
      <4>4. record' = [record EXCEPT ![k] = rec]
        BY <2>1, <3>1, <4>3 DEF Consume, rec
      <4>5. QED
        BY <4>1, <4>4 DEF TypeOK
    <3>2. CASE key[r] # k
      BY <2>1, <3>2, ConsumeFacts DEF TypeOK
    <3>3. QED
      BY <3>1, <3>2
  <2>2. ASSUME NEW r \in Requests, Resolve(r) \/ TimeoutFires(r)
        PROVE  record'[k].expires = record[k].expires
    BY <2>2 DEF Resolve, TimeoutFires
  <2>3. CASE Tick \/ TheEnd
    BY <2>3 DEF Tick, TheEnd, vars
  <2>4. CASE Restart
    BY <2>4 DEF Restart, TypeOK
  <2>5. QED
    BY <2>1, <2>2, <2>3, <2>4 DEF Next
<1>2. QED
  BY <1>1, Invariance, PTL DEF Spec, BlockIsNotExtended

(* When an even share of the window is longer than the timer and any delay *)
(* of the event loop, no paced request is ever released by the limiter:    *)
(* the timer releases it, on time or as late as the loop was held.         *)
THEOREM PacingNeverWins == Spec => PacingLosesTheRace
<1>1. IInv /\ [Next]_vars => [TimerWins]_vars
  <2> SUFFICES ASSUME IInv, Next, NEW r \in Requests,
                      stage[r] = "waiting",
                      MinDelay(Config[key[r]]) > Timeout + Hold,
                      stage'[r] # "waiting"
               PROVE  \/ stage'[r] = "passedLate" /\ now \in Deadline(r)..(Deadline(r) + Hold)
                      \/ stage'[r] = "lost"
    BY DEF TimerWins
  <2> USE DEF IInv
  <2>1. /\ now \in Int /\ Deadline(r) \in Int /\ Deadline(r) + Hold \in Int
        /\ now <= Deadline(r) + Hold /\ resolveAt[r] > now
    <3>1. /\ now \in Int /\ askedAt[r] \in Int /\ resolveAt[r] \in Int
          /\ MinDelay(Config[key[r]]) \in Nat
      BY MinDelayNat DEF TypeOK
    <3>2. QED
      BY <3>1, TimeoutAssumption, HoldAssumption DEF WaitingInv, Deadline
  <2>2. ASSUME NEW q \in Requests, Consume(q) PROVE FALSE
    BY <2>2, ConsumeFacts DEF TypeOK
  <2>3. ASSUME NEW q \in Requests, Resolve(q) PROVE FALSE
    <3>1. q = r
      BY <2>3 DEF Resolve, TypeOK
    <3>2. now >= resolveAt[r] /\ resolveAt[r] \in Int
      BY <2>3, <3>1 DEF Resolve, TypeOK
    <3>3. QED
      BY <2>1, <3>2
  <2>4. ASSUME NEW q \in Requests, TimeoutFires(q)
        PROVE  stage'[r] = "passedLate" /\ now \in Deadline(r)..(Deadline(r) + Hold)
    <3>1. q = r
      BY <2>4 DEF TimeoutFires, TypeOK
    <3>2. stage'[r] = "passedLate" /\ now >= Deadline(r)
      BY <2>4, <3>1 DEF TimeoutFires, TypeOK
    <3>3. QED
      BY <2>1, <3>2
  <2>5. CASE Restart
    BY <2>5 DEF Restart
  <2>6. CASE Tick \/ TheEnd
    BY <2>6 DEF Tick, TheEnd, vars, requestVars
  <2>7. QED
    BY <2>2, <2>3, <2>4, <2>5, <2>6 DEF Next
<1>2. QED
  BY <1>1, Invariance, PTL DEF Spec, PacingLosesTheRace

-----------------------------------------------------------------------------
(* The limiter implements the promise without clocks.                      *)

LEMMA VerdictFacts ==
  ASSUME NEW r \in Requests
  PROVE  /\ stage[r] = "new" => Verdict(r) = "none"
         /\ stage[r] = "rejected" => Verdict(r) = "refused"
         /\ stage[r] \notin {"new", "rejected"} => Verdict(r) = "admitted"
BY DEF Verdict

LEMMA VerdictFactsPrime ==
  ASSUME NEW r \in Requests
  PROVE  /\ stage'[r] = "new" => Verdict(r)' = "none"
         /\ stage'[r] = "rejected" => Verdict(r)' = "refused"
         /\ stage'[r] \notin {"new", "rejected"} => Verdict(r)' = "admitted"
BY DEF Verdict

LEMMA InitPromise == Init => Promise!Init
<1> SUFFICES ASSUME Init PROVE Promise!Init
  OBVIOUS
<1>1. \A k \in Keys : Granted(k) = 0
  BY DEF Init, Granted, Live, NoRecord
<1>2. \A r \in Requests : Verdict(r) = "none"
  BY VerdictFacts DEF Init
<1>3. QED
  BY <1>1, <1>2 DEF Promise!Init

(* A step that leaves the counters alone and moves a request that was      *)
(* admitted to another stage of an admitted request changes nothing.       *)
LEMMA StepPromise ==
  ASSUME IInv, [Next]_vars
  PROVE  [Promise!Next]_<<[k \in Keys |-> Granted(k)], [r \in Requests |-> Verdict(r)]>>
<1> USE DEF IInv
<1> DEFINE granted == [k \in Keys |-> Granted(k)]
           verdict == [r \in Requests |-> Verdict(r)]
<1>1. ASSUME NEW r \in Requests, Consume(r)
      PROVE  Promise!Admit(r, key[r]) \/ Promise!Refuse(r, key[r])
  <2>0. PICK k \in Keys : k = key[r]
    BY DEF TypeOK
  <2> DEFINE c == Config[k]
  <2>1. /\ k \in Keys /\ stage[r] = "new" /\ now' = now /\ now \in Nat
        /\ c.points \in Nat \ {0}
    BY <1>1, <2>0, ConsumeFacts, ConfigType DEF TypeOK
  <2>2. PICK rec \in [consumed : Nat \ {0}, expires : Nat] :
          /\ record' = [record EXCEPT ![k] = rec]
          /\ rec.consumed = Incremented(k).consumed
          /\ rec.expires > now
    BY <1>1, <2>0, ConsumeFacts
  <2>3. rec.consumed = IF Live(k) THEN record[k].consumed + 1 ELSE 1
    BY <2>1, <2>2 DEF Incremented, TypeOK
  <2>4. record[k].consumed \in Nat /\ (Live(k) => record[k].consumed > 0)
    BY <2>1 DEF TypeOK
  <2>5. \A l \in Keys : l # k => Granted(l)' = Granted(l)
    BY <2>1, <2>2 DEF Granted, Live, TypeOK
  <2>6. Granted(k)' = IF rec.consumed < c.points THEN rec.consumed ELSE c.points
    <3>1. record'[k] = rec
      BY <2>1, <2>2 DEF TypeOK
    <3>2. record'[k].expires > now'
      BY <2>1, <2>2, <3>1
    <3>3. record'[k].consumed = rec.consumed
      BY <3>1
    <3>4. QED
      BY <2>1, <3>2, <3>3 DEF Granted, Live, c
  <2>7. Verdict(r) = "none"
    BY <2>1, VerdictFacts
  <2>8. CASE /\ rec.consumed > c.points
             /\ stage' = [stage EXCEPT ![r] = "rejected"]
    <3>1. Granted(k) = c.points /\ Granted(k)' = c.points
      <4> HIDE DEF c
      <4>1. QED
        BY <2>1, <2>3, <2>4, <2>6, <2>8 DEF Granted, c
    <3>2. granted' = granted
      <4>1. \A l \in Keys : Granted(l)' = Granted(l)
        BY <2>5, <3>1
      <4>2. QED
        BY <4>1
    <3>3. verdict' = [verdict EXCEPT ![r] = "refused"]
      <4>1. Verdict(r)' = "refused"
        BY <2>8, VerdictFactsPrime DEF TypeOK
      <4>2. \A q \in Requests : q # r => Verdict(q)' = Verdict(q)
        BY <2>8 DEF Verdict, TypeOK
      <4>3. QED
        BY <4>1, <4>2
    <3>4. Promise!Refuse(r, k)
      BY <2>1, <2>0, <2>7, <3>1, <3>2, <3>3 DEF Promise!Refuse
    <3>5. QED
      BY <2>0, <3>4
  <2>9. CASE /\ rec.consumed <= c.points
             /\ \E s \in {"passed", "waiting"} : stage' = [stage EXCEPT ![r] = s]
    <3>1. Granted(k) < c.points /\ Granted(k)' = Granted(k) + 1
      <4> HIDE DEF c
      <4>1. Granted(k) = rec.consumed - 1
        BY <2>1, <2>3, <2>4, <2>9 DEF Granted, c
      <4>2. Granted(k)' = rec.consumed
        BY <2>1, <2>2, <2>6, <2>9
      <4>3. QED
        BY <2>1, <2>2, <2>9, <4>1, <4>2
    <3>2. granted' = [granted EXCEPT ![k] = @ + 1]
      <4>1. \A l \in Keys : Granted(l)' = IF l = k THEN Granted(l) + 1 ELSE Granted(l)
        BY <2>5, <3>1
      <4>2. QED
        BY <2>1, <4>1
    <3>3. verdict' = [verdict EXCEPT ![r] = "admitted"]
      <4>1. Verdict(r)' = "admitted"
        BY <2>9, VerdictFactsPrime DEF TypeOK
      <4>2. \A q \in Requests : q # r => Verdict(q)' = Verdict(q)
        BY <2>9 DEF Verdict, TypeOK
      <4>3. QED
        BY <4>1, <4>2
    <3>4. Promise!Admit(r, k)
      BY <2>1, <2>0, <2>7, <3>1, <3>2, <3>3 DEF Promise!Admit
    <3>5. QED
      BY <2>0, <3>4
  <2>10. QED
    BY <1>1, <2>0, <2>2, <2>8, <2>9, ConsumeFacts
<1>2. ASSUME NEW r \in Requests, Resolve(r) \/ TimeoutFires(r)
      PROVE  UNCHANGED <<granted, verdict>>
  <2>1. PICK s \in {"passed", "passedLate"} :
          stage[r] = "waiting" /\ stage' = [stage EXCEPT ![r] = s]
    BY <1>2 DEF Resolve, TimeoutFires
  <2>2. UNCHANGED <<now, record>>
    BY <1>2 DEF Resolve, TimeoutFires
  <2>3. \A k \in Keys : Granted(k)' = Granted(k)
    BY <2>2 DEF Granted, Live
  <2>4. \A q \in Requests : Verdict(q)' = Verdict(q)
    <3>1. Verdict(r)' = "admitted" /\ Verdict(r) = "admitted"
      BY <2>1, VerdictFacts, VerdictFactsPrime DEF TypeOK
    <3>2. \A q \in Requests : q # r => Verdict(q)' = Verdict(q)
      BY <2>1 DEF Verdict, TypeOK
    <3>3. QED
      BY <3>1, <3>2
  <2>5. QED
    BY <2>3, <2>4
<1>3. CASE Tick
  <2> DEFINE S == {k \in Keys : ~Live(k)'}
  <2>1. now' = now + 1 /\ now \in Nat /\ UNCHANGED <<record, stage>>
    BY <1>3 DEF Tick, requestVars, TypeOK
  <2>2. \A k \in Keys : Granted(k)' = IF k \in S THEN 0 ELSE Granted(k)
    BY <2>1 DEF Granted, Live, TypeOK
  <2>3. \A q \in Requests : Verdict(q)' = Verdict(q)
    BY <2>1 DEF Verdict
  <2>4. Promise!Renew(S)
    BY <2>2, <2>3 DEF Promise!Renew
  <2>5. QED
    BY <2>4 DEF Promise!Next
<1>4. CASE Restart
  <2>1. /\ now' = now + 1 /\ now \in Nat
        /\ record' = [k \in Keys |-> NoRecord]
        /\ stage' = [r \in Requests |-> IF stage[r] = "waiting" THEN "lost" ELSE stage[r]]
    BY <1>4 DEF Restart, TypeOK
  <2>2. \A k \in Keys : Granted(k)' = 0
    BY <2>1 DEF Granted, Live, NoRecord
  <2>3. ASSUME NEW q \in Requests PROVE Verdict(q)' = Verdict(q)
    <3>1. CASE stage[q] = "waiting"
      BY <2>1, <3>1, VerdictFacts, VerdictFactsPrime
    <3>2. CASE stage[q] # "waiting"
      BY <2>1, <3>2 DEF Verdict
    <3>3. QED
      BY <3>1, <3>2
  <2>4. Promise!Renew(Keys)
    BY <2>2, <2>3 DEF Promise!Renew
  <2>5. QED
    BY <2>4 DEF Promise!Next
<1>5. CASE TheEnd \/ UNCHANGED vars
  <2>1. UNCHANGED <<now, record, stage>>
    BY <1>5 DEF TheEnd, vars, requestVars
  <2>2. (\A k \in Keys : Granted(k)' = Granted(k))
        /\ \A q \in Requests : Verdict(q)' = Verdict(q)
    BY <2>1 DEF Granted, Live, Verdict
  <2>3. QED
    BY <2>2
<1>6. ASSUME NEW r \in Requests, Consume(r) PROVE Promise!Next
  <2>1. key[r] \in Keys
    BY DEF TypeOK
  <2>2. QED
    BY <1>1, <1>6, <2>1 DEF Promise!Next
<1>7. QED
  BY <1>2, <1>3, <1>4, <1>5, <1>6 DEF Next

(* Whatever the configurations and the traffic, each counter grants at     *)
(* most its points between two renewals and refuses only when they are     *)
(* used up.                                                                *)
THEOREM Implementation == Spec => ImplementsPromise
<1>1. Init => Promise!Init
  BY InitPromise
<1>2. IInv /\ [Next]_vars =>
        [Promise!Next]_<<[k \in Keys |-> Granted(k)], [r \in Requests |-> Verdict(r)]>>
  BY StepPromise
<1>3. QED
  BY <1>1, <1>2, Invariance, PTL DEF Spec, ImplementsPromise, Promise!Spec
=============================================================================
