--------------------------- MODULE RateWindow_proofs ---------------------------
(***************************************************************************)
(* How many requests a counter lets through in a stretch of time as long   *)
(* as its window (TwoWindowBound), for any configurations, requests and    *)
(* times.                                                                  *)
(*                                                                         *)
(* The bound speaks of every stretch of the past.  It is inductive with    *)
(* what is known of the requests of late: WindowInv counts those since the *)
(* current window began, the first one excepted, and those since the       *)
(* window before could have begun.                                         *)
(***************************************************************************)
EXTENDS RateLimiter_proofs, FiniteSetTheorems

Bounded == {k \in Keys : \/ Config[k].blockDuration = 0
                         \/ Config[k].blockDuration >= Config[k].duration}

(* The requests accepted at a time or after it.                            *)
Since(k, from) == {r \in Requests : Accepted(r) /\ key[r] = k /\ askedAt[r] >= from}

Arrived == {r \in Requests : stage[r] # "new"}

Few(n, k) == n < Config[k].points /\ (n = 0 \/ n < record[k].consumed)

WindowInv(k) ==
  /\ record[k].consumed <= Config[k].points =>
       record[k].expires <= now + Config[k].duration
  /\ \A from \in Nat : from >= bootAt =>
       /\ from + Config[k].duration > record[k].expires =>
            Few(Cardinality(Since(k, from)), k)
       /\ /\ Live(k) /\ record[k].consumed <= Config[k].points
          /\ from + 2 * Config[k].duration > record[k].expires
          => Cardinality(Since(k, from)) < Config[k].points + record[k].consumed

RateInv ==
  /\ IsFiniteSet(Arrived)
  /\ \A k \in Bounded : WindowInv(k)
  /\ TwoWindowBound

-----------------------------------------------------------------------------
(* Counting.                                                               *)

LEMMA SinceCount ==
  ASSUME TypeOK, IsFiniteSet(Arrived), NEW k, NEW from \in Nat
  PROVE  /\ IsFiniteSet(Since(k, from))
         /\ Cardinality(Since(k, from)) \in Nat
         /\ from > now => Cardinality(Since(k, from)) = 0
<1>1. Since(k, from) \subseteq Arrived
  BY DEF Since, Arrived, Accepted
<1>2. IsFiniteSet(Since(k, from)) /\ Cardinality(Since(k, from)) \in Nat
  BY <1>1, FS_Subset, FS_CardinalityType
<1>3. ASSUME from > now PROVE Since(k, from) = {}
  <2>1. \A r \in Requests : askedAt[r] \in 0..now /\ now \in Nat
    BY DEF TypeOK
  <2>2. \A r \in Requests : ~(askedAt[r] >= from)
    BY <1>3, <2>1
  <2>3. QED
    BY <2>2 DEF Since
<1>4. QED
  BY <1>2, <1>3, FS_EmptySet

(* A step that accepts nobody.                                             *)
LEMMA NobodyAccepted ==
  ASSUME UNCHANGED <<key, askedAt>>, \A r \in Requests : Accepted(r)' <=> Accepted(r)
  PROVE  /\ \A k, from : Since(k, from)' = Since(k, from)
         /\ \A k, from, to : AcceptedWithin(k, from, to)' = AcceptedWithin(k, from, to)
BY DEF Since, AcceptedWithin

(* A step in which r arrives and is accepted, or refused.                  *)
LEMMA Arrival ==
  ASSUME TypeOK, NEW r \in Requests, stage[r] = "new",
         askedAt' = [askedAt EXCEPT ![r] = now], UNCHANGED <<key, now>>,
         NEW s, stage' = [stage EXCEPT ![r] = s],
         NEW k, NEW from \in Nat
  PROVE  /\ s = "rejected" => Since(k, from)' = Since(k, from)
         /\ k # key[r] => Since(k, from)' = Since(k, from)
         /\ from > now => Since(k, from)' = Since(k, from)
         /\ Since(k, from)' \in {Since(k, from), Since(k, from) \cup {r}}
         /\ r \notin Since(k, from)
         /\ Arrived' \in {Arrived, Arrived \cup {r}}
<1>1. /\ stage'[r] = s /\ askedAt'[r] = now /\ key'[r] = key[r]
      /\ \A q \in Requests \ {r} :
           stage'[q] = stage[q] /\ askedAt'[q] = askedAt[q] /\ key'[q] = key[q]
  BY DEF TypeOK
<1>2. \A q \in Requests \ {r} : q \in Since(k, from)' <=> q \in Since(k, from)
  BY <1>1 DEF Since, Accepted
<1>3. r \notin Since(k, from)
  BY DEF Since, Accepted
<1>4. Since(k, from) \subseteq Requests /\ Since(k, from)' \subseteq Requests
  BY DEF Since
<1>5. r \in Since(k, from)' => s # "rejected" /\ k = key[r] /\ now >= from
  BY <1>1 DEF Since, Accepted
<1>6. now >= from => ~(from > now)
  BY DEF TypeOK
<1>7. Arrived' \in {Arrived, Arrived \cup {r}}
  BY <1>1 DEF Arrived
<1>8. QED
  BY <1>2, <1>3, <1>4, <1>5, <1>6, <1>7

(* The four ways a request can find its counter.                           *)
LEMMA ConsumeCases ==
  ASSUME TypeOK, NEW r \in Requests, Consume(r), NEW k, k = key[r]
  PROVE  /\ k \in Keys
         /\ stage[r] = "new" /\ UNCHANGED <<now, bootAt, key>>
         /\ askedAt' = [askedAt EXCEPT ![r] = now]
         /\ \A l \in Keys \ {k} : record'[l] = record[l]
         /\ \/ /\ ~Live(k)
               /\ record'[k].consumed = 1
               /\ record'[k].expires = now + Config[k].duration
               /\ stage' = [stage EXCEPT ![r] = "passed"]
            \/ /\ Live(k)
               /\ record'[k].consumed = record[k].consumed + 1
               /\ record'[k].consumed <= Config[k].points
               /\ record'[k].expires = record[k].expires
               /\ \/ stage' = [stage EXCEPT ![r] = "passed"]
                  \/ stage' = [stage EXCEPT ![r] = "waiting"]
            \/ /\ Live(k)
               /\ record'[k].consumed = record[k].consumed + 1
               /\ record'[k].consumed > Config[k].points
               /\ record'[k].expires \in {record[k].expires, now + BlockDuration(Config[k])}
               /\ record'[k].expires # record[k].expires =>
                    record[k].consumed = Config[k].points
               /\ stage' = [stage EXCEPT ![r] = "rejected"]
<1>1. k \in Keys /\ record[k] \in [consumed : Nat, expires : Nat]
  BY DEF TypeOK
<1>2. /\ stage[r] = "new" /\ UNCHANGED <<now, bootAt, key>>
      /\ askedAt' = [askedAt EXCEPT ![r] = now]
  BY DEF Consume
<1>3. PICK rec : rec = Incremented(k)
  OBVIOUS
<1>4. /\ Live(k) => rec.consumed = record[k].consumed + 1 /\ rec.expires = record[k].expires
      /\ ~Live(k) => rec.consumed = 1 /\ rec.expires = now + Config[k].duration
  BY <1>1, <1>3 DEF Incremented
<1>5. PICK new : /\ record' = [record EXCEPT ![k] = new]
                 /\ \/ /\ rec.consumed > Config[k].points
                       /\ new = Blocked(Config[k], rec)
                       /\ stage' = [stage EXCEPT ![r] = "rejected"]
                    \/ /\ rec.consumed <= Config[k].points /\ new = rec
                       /\ stage' = [stage EXCEPT ![r] = "passed"]
                    \/ /\ rec.consumed <= Config[k].points /\ new = rec
                       /\ Live(k)
                       /\ stage' = [stage EXCEPT ![r] = "waiting"]
  BY <1>3 DEF Consume
<1>6. record'[k] = new /\ \A l \in Keys \ {k} : record'[l] = record[l]
  BY <1>1, <1>5 DEF TypeOK
<1>7. Config[k].points \in Nat \ {0}
  BY <1>1, ConfigType
<1>8. CASE ~Live(k)
  <2>1. rec.consumed <= Config[k].points
    BY <1>4, <1>7, <1>8
  <2>2. QED
    BY <1>1, <1>2, <1>4, <1>5, <1>6, <1>7, <1>8, <2>1
<1>9. CASE Live(k) /\ rec.consumed <= Config[k].points
  <2>1. ~(rec.consumed > Config[k].points)
    BY <1>1, <1>4, <1>7, <1>9
  <2>2. QED
    BY <1>1, <1>2, <1>4, <1>5, <1>6, <1>9, <2>1
<1>10. CASE Live(k) /\ rec.consumed > Config[k].points
  <2>1. ~(rec.consumed <= Config[k].points)
    BY <1>1, <1>4, <1>7, <1>10
  <2>2. /\ stage' = [stage EXCEPT ![r] = "rejected"]
        /\ new = Blocked(Config[k], rec)
    BY <1>5, <2>1
  <2>3. /\ new.consumed = rec.consumed
        /\ new.expires \in {rec.expires, now + BlockDuration(Config[k])}
        /\ new.expires # rec.expires => rec.consumed = Config[k].points + 1
    <3>1. PICK c : c = Config[k]
      OBVIOUS
    <3>2. rec \in [consumed : Nat, expires : Nat]
      BY <1>1, <1>3, <1>10 DEF Incremented
    <3>3. QED
      BY <2>2, <3>1, <3>2 DEF Blocked
  <2>4. QED
    BY <1>1, <1>2, <1>4, <1>6, <1>7, <1>10, <2>2, <2>3
<1>11. QED
  BY <1>1, <1>4, <1>7, <1>8, <1>9, <1>10

(* The number of requests since some time, before and after an arrival.    *)
LEMMA CountStep ==
  ASSUME TypeOK, IsFiniteSet(Arrived), NEW r \in Requests, Consume(r),
         NEW k, NEW from \in Nat,
         NEW n, n = Cardinality(Since(k, from)),
         NEW m, m = Cardinality(Since(k, from))'
  PROVE  /\ n \in Nat /\ m \in {n, n + 1}
         /\ stage' = [stage EXCEPT ![r] = "rejected"] \/ k # key[r] => m = n
         /\ from > now => n = 0 /\ m = 0
<1>1. n \in Nat /\ (from > now => n = 0) /\ IsFiniteSet(Since(k, from))
  BY SinceCount
<1>2. PICK s : stage' = [stage EXCEPT ![r] = s]
  BY ConsumeCases
<1>3. /\ stage[r] = "new" /\ UNCHANGED <<key, now>>
      /\ askedAt' = [askedAt EXCEPT ![r] = now]
  BY ConsumeCases
<1>4. /\ Since(k, from)' \in {Since(k, from), Since(k, from) \cup {r}}
      /\ r \notin Since(k, from)
      /\ k # key[r] => Since(k, from)' = Since(k, from)
      /\ from > now => Since(k, from)' = Since(k, from)
  BY <1>2, <1>3, Arrival
<1>5. ASSUME stage' = [stage EXCEPT ![r] = "rejected"]
      PROVE  Since(k, from)' = Since(k, from)
  <2>1. PICK x : x = "rejected"
    OBVIOUS
  <2>2. stage' = [stage EXCEPT ![r] = x]
    BY <1>5, <2>1
  <2>3. QED
    BY <1>3, <2>1, <2>2, Arrival
<1>6. Cardinality(Since(k, from) \cup {r}) = n + 1
  BY <1>1, <1>4, FS_AddElement
<1>7. QED
  BY <1>1, <1>4, <1>5, <1>6

LEMMA BoundedFacts ==
  ASSUME TypeOK, NEW k \in Bounded
  PROVE  /\ k \in Keys
         /\ Config[k].points \in Nat \ {0} /\ Config[k].duration \in Nat \ {0}
         /\ BlockDuration(Config[k]) \in Nat
         /\ BlockDuration(Config[k]) >= Config[k].duration
         /\ now \in Nat /\ bootAt \in Nat /\ bootAt <= now
         /\ record[k].consumed \in Nat /\ record[k].expires \in Nat
         /\ Live(k) => record[k].consumed > 0
<1>1. k \in Keys
  BY DEF Bounded
<1>2. /\ Config[k].points \in Nat \ {0} /\ Config[k].duration \in Nat \ {0}
      /\ BlockDuration(Config[k]) \in Nat \ {0}
  BY <1>1, ConfigType
<1>3. BlockDuration(Config[k]) >= Config[k].duration
  BY <1>2 DEF Bounded, BlockDuration
<1>4. /\ record[k].consumed \in Nat /\ record[k].expires \in Nat
      /\ Live(k) => record[k].consumed > 0
  BY <1>1 DEF TypeOK
<1>5. now \in Nat /\ bootAt \in Nat /\ bootAt <= now
  BY DEF TypeOK
<1>6. QED
  BY <1>1, <1>2, <1>3, <1>4, <1>5

LEMMA ConsumeWindow ==
  ASSUME TypeOK, RateInv, NEW r \in Requests, Consume(r), NEW k \in Bounded
  PROVE  WindowInv(k)'
<1>1. PICK p, d, b, t : /\ p = Config[k].points /\ d = Config[k].duration
                        /\ b = BlockDuration(Config[k]) /\ t = now
  OBVIOUS
<1>2. PICK c, e, c1, e1 : /\ c = record[k].consumed /\ e = record[k].expires
                          /\ c1 = record'[k].consumed /\ e1 = record'[k].expires
  OBVIOUS
<1>3. /\ p \in Nat \ {0} /\ d \in Nat \ {0} /\ b \in Nat /\ b >= d
      /\ t \in Nat /\ c \in Nat /\ e \in Nat
      /\ e > t => c > 0
      /\ Live(k) <=> e > t
  BY <1>1, <1>2, BoundedFacts DEF Live
<1>4. /\ k \in Keys /\ key[r] \in Keys /\ now' = t /\ bootAt' = bootAt
      /\ Live(k)' <=> e1 > t
  BY <1>1, <1>2, BoundedFacts, ConsumeCases DEF Live
<1>5. WindowInv(k)
  BY DEF RateInv
<1>6. c <= p => e <= t + d
  BY <1>1, <1>2, <1>5 DEF WindowInv
<1>7. \/ /\ k # key[r] /\ c1 = c /\ e1 = e
      \/ /\ k = key[r] /\ e <= t /\ c1 = 1 /\ e1 = t + d
      \/ /\ k = key[r] /\ e > t /\ c1 = c + 1 /\ c1 <= p /\ e1 = e
      \/ /\ k = key[r] /\ e > t /\ c1 = c + 1 /\ c1 > p
         /\ e1 \in {e, t + b}
         /\ stage' = [stage EXCEPT ![r] = "rejected"]
  <2>1. CASE k # key[r]
    BY <1>2, <1>4, <2>1, ConsumeCases
  <2>2. CASE k = key[r]
    BY <1>1, <1>2, <1>3, <2>2, ConsumeCases
  <2>3. QED
    BY <2>1, <2>2
<1>8. c1 <= p => e1 <= t + d
  BY <1>3, <1>6, <1>7
<1>9. ASSUME NEW from \in Nat, from >= bootAt
      PROVE  /\ from + d > e1 =>
                  /\ Cardinality(Since(k, from))' < p
                  /\ Cardinality(Since(k, from))' = 0 \/ Cardinality(Since(k, from))' < c1
             /\ e1 > t /\ c1 <= p /\ from + 2 * d > e1 =>
                  Cardinality(Since(k, from))' < p + c1
  <2>1. PICK n, m : /\ n = Cardinality(Since(k, from))
                    /\ m = Cardinality(Since(k, from))'
    OBVIOUS
  <2>2. /\ n \in Nat /\ m \in {n, n + 1}
        /\ from > t => n = 0 /\ m = 0
    BY <1>1, <2>1, CountStep DEF RateInv
  <2>3. stage' = [stage EXCEPT ![r] = "rejected"] \/ k # key[r] => m = n
    BY <2>1, CountStep DEF RateInv
  <2>4. /\ from + d > e => n < p /\ (n = 0 \/ n < c)
        /\ e > t /\ c <= p /\ from + 2 * d > e => n < p + c
    BY <1>1, <1>2, <1>3, <1>5, <1>9, <2>1 DEF WindowInv, Few
  <2>5. /\ from + d > e1 => m < p /\ (m = 0 \/ m < c1)
        /\ e1 > t /\ c1 <= p /\ from + 2 * d > e1 => m < p + c1
    <3>1. CASE k # key[r] /\ c1 = c /\ e1 = e
      BY <2>3, <2>4, <3>1
    <3>2. CASE e <= t /\ c1 = 1 /\ e1 = t + d
      BY <1>3, <2>2, <2>4, <3>2
    <3>3. CASE e > t /\ c1 = c + 1 /\ c1 <= p /\ e1 = e
      BY <1>3, <2>2, <2>4, <3>3
    <3>4. CASE e > t /\ c1 = c + 1 /\ c1 > p /\ e1 \in {e, t + b} /\ m = n
      BY <1>3, <2>2, <2>4, <3>4
    <3>5. QED
      BY <1>7, <2>3, <3>1, <3>2, <3>3, <3>4
  <2>6. QED
    BY <2>1, <2>5
<1>10. QED
  BY <1>1, <1>2, <1>4, <1>8, <1>9 DEF WindowInv, Few

LEMMA ConsumeBound ==
  ASSUME TypeOK, RateInv, NEW r \in Requests, Consume(r)
  PROVE  TwoWindowBound'
<1>1. ASSUME NEW k \in Bounded, NEW from \in bootAt..now
      PROVE  Cardinality(AcceptedWithin(k, from, from + Config[k].duration - 1))'
               <= 2 * Config[k].points - 1
  <2>1. PICK p, d, t, c, e : /\ p = Config[k].points /\ d = Config[k].duration /\ t = now
                             /\ c = record[k].consumed /\ e = record[k].expires
    OBVIOUS
  <2>2. /\ p \in Nat \ {0} /\ d \in Nat \ {0} /\ t \in Nat /\ c \in Nat /\ e \in Nat
        /\ from \in Nat /\ from >= bootAt /\ from <= t
        /\ Live(k) <=> e > t
    BY <2>1, BoundedFacts DEF Live
  <2>3. WindowInv(k) /\ IsFiniteSet(Arrived)
    BY DEF RateInv
  <2>4. /\ askedAt' = [askedAt EXCEPT ![r] = now] /\ UNCHANGED <<now, key>>
        /\ \A q \in Requests \ {r} :
             /\ askedAt'[q] = askedAt[q]
             /\ Accepted(q)' <=> Accepted(q)
        /\ askedAt'[r] = t /\ ~Accepted(r)
    <3>1. PICK s : stage' = [stage EXCEPT ![r] = s]
      BY ConsumeCases
    <3>2. \A q \in Requests \ {r} : stage'[q] = stage[q]
      BY <3>1 DEF TypeOK
    <3>3. /\ stage[r] = "new" /\ UNCHANGED <<now, key>>
          /\ askedAt' = [askedAt EXCEPT ![r] = now]
      BY ConsumeCases
    <3>4. QED
      BY <2>1, <3>2, <3>3 DEF TypeOK, Accepted
  <2>5. \A q \in Requests : askedAt[q] <= t /\ askedAt[q] \in Nat
    BY <2>1 DEF TypeOK
  <2>6. CASE from + d - 1 < t
    <3>1. ~(t \in from..(from + d - 1))
      BY <2>2, <2>6
    <3>2. AcceptedWithin(k, from, from + d - 1)' = AcceptedWithin(k, from, from + d - 1)
      BY <2>4, <3>1 DEF AcceptedWithin
    <3>3. Cardinality(AcceptedWithin(k, from, from + d - 1)) <= 2 * p - 1
      BY <2>1 DEF RateInv, TwoWindowBound, Bounded
    <3>4. QED
      BY <2>1, <3>2, <3>3
  <2>7. CASE from + d - 1 >= t
    <3>1. PICK n, m : /\ n = Cardinality(Since(k, from))
                      /\ m = Cardinality(Since(k, from))'
      OBVIOUS
    <3>2. ASSUME NEW q \in Requests
          PROVE  /\ askedAt[q] >= from <=> askedAt[q] \in from..(from + d - 1)
                 /\ askedAt'[q] >= from <=> askedAt'[q] \in from..(from + d - 1)
      BY <2>2, <2>4, <2>5, <2>7
    <3>3. /\ AcceptedWithin(k, from, from + d - 1) = Since(k, from)
          /\ AcceptedWithin(k, from, from + d - 1)' = Since(k, from)'
      BY <3>2 DEF AcceptedWithin, Since
    <3>4. n <= 2 * p - 1
      BY <2>1, <3>1, <3>3 DEF RateInv, TwoWindowBound, Bounded
    <3>5. n \in Nat /\ m \in {n, n + 1}
      BY <2>2, <2>3, <3>1, CountStep
    <3>6. stage' = [stage EXCEPT ![r] = "rejected"] \/ k # key[r] => m = n
      BY <2>2, <2>3, <3>1, CountStep
    <3>7. /\ from + d > e => n < p
          /\ e > t /\ c <= p /\ from + 2 * d > e => n < p + c
          /\ c <= p => e <= t + d
      BY <2>1, <2>2, <2>3, <3>1 DEF WindowInv, Few
    <3>8. \/ m = n
          \/ e <= t
          \/ e > t /\ c + 1 <= p
      BY <2>1, <2>2, <3>6, ConsumeCases
    <3>9. m <= 2 * p - 1
      BY <2>2, <2>7, <3>4, <3>5, <3>7, <3>8
    <3>10. QED
      BY <2>1, <3>1, <3>3, <3>9
  <2>8. QED
    BY <2>2, <2>6, <2>7
<1>2. UNCHANGED <<now, bootAt>>
  BY ConsumeCases
<1>3. QED
  BY <1>1, <1>2 DEF TwoWindowBound, Bounded

-----------------------------------------------------------------------------

LEMMA InitRateInv == ASSUME Init PROVE RateInv
<1>1. TypeOK
  BY InitIInv DEF IInv
<1>2. Arrived = {} /\ \A r \in Requests : ~Accepted(r)
  BY DEF Init, Arrived, Accepted
<1>3. /\ IsFiniteSet(Arrived)
      /\ \A k, from : Cardinality(Since(k, from)) = 0
      /\ \A k, from, to : Cardinality(AcceptedWithin(k, from, to)) = 0
  <2>1. /\ \A k, from : Since(k, from) = {}
        /\ \A k, from, to : AcceptedWithin(k, from, to) = {}
    BY <1>2 DEF Since, AcceptedWithin
  <2>2. QED
    BY <1>2, <2>1, FS_EmptySet
<1>4. ASSUME NEW k \in Bounded PROVE WindowInv(k)
  <2>1. /\ record[k].consumed = 0 /\ record[k].expires = 0 /\ now = 0
        /\ Config[k].points \in Nat \ {0} /\ Config[k].duration \in Nat \ {0}
    BY <1>1, BoundedFacts DEF Init, NoRecord
  <2>2. QED
    BY <1>3, <2>1 DEF WindowInv, Few
<1>5. TwoWindowBound
  <2>1. \A k \in Keys : Config[k].points \in Nat \ {0}
    BY ConfigType
  <2>2. QED
    BY <1>3, <2>1 DEF TwoWindowBound
<1>6. QED
  BY <1>3, <1>4, <1>5 DEF RateInv

(* A step that accepts nobody and leaves the counters alone, though time   *)
(* may pass.                                                               *)
LEMMA QuietStep ==
  ASSUME TypeOK, RateInv, UNCHANGED <<record, bootAt, key, askedAt>>,
         now' \in {now, now + 1},
         \A r \in Requests : Accepted(r)' <=> Accepted(r),
         Arrived' = Arrived
  PROVE  RateInv'
<1>1. /\ \A k, from : Since(k, from)' = Since(k, from)
      /\ \A k, from, to : AcceptedWithin(k, from, to)' = AcceptedWithin(k, from, to)
  BY NobodyAccepted
<1>2. now \in Nat
  BY DEF TypeOK
<1>3. ASSUME NEW k \in Bounded PROVE WindowInv(k)'
  <2>1. /\ Config[k].duration \in Nat /\ record[k].expires \in Nat
        /\ Live(k)' => Live(k)
    BY <1>2, BoundedFacts DEF Live
  <2>2. WindowInv(k)
    BY DEF RateInv
  <2>3. \A from : Cardinality(Since(k, from))' = Cardinality(Since(k, from))
    BY <1>1
  <2>4. record[k].expires <= now + Config[k].duration =>
          record[k].expires <= now' + Config[k].duration
    BY <1>2, <2>1
  <2>5. QED
    BY <2>1, <2>2, <2>3, <2>4 DEF WindowInv, Few
<1>4. TwoWindowBound'
  <2> SUFFICES ASSUME NEW k \in Bounded, NEW from \in bootAt..now'
               PROVE  Cardinality(AcceptedWithin(k, from, from + Config[k].duration - 1))
                        <= 2 * Config[k].points - 1
    BY <1>1 DEF TwoWindowBound, Bounded
  <2>1. CASE from \in bootAt..now
    BY <2>1 DEF RateInv, TwoWindowBound, Bounded
  <2>2. CASE from > now
    <3>1. \A r \in Requests : askedAt[r] \in 0..now
      BY DEF TypeOK
    <3>2. \A r \in Requests : \A to : askedAt[r] \notin from..to
      BY <1>2, <2>2, <3>1
    <3>3. AcceptedWithin(k, from, from + Config[k].duration - 1) = {}
      BY <3>2 DEF AcceptedWithin
    <3>4. Cardinality(AcceptedWithin(k, from, from + Config[k].duration - 1)) = 0
      BY <3>3, FS_EmptySet
    <3>5. QED
      BY <3>4, BoundedFacts
  <2>3. QED
    BY <1>2, <2>1, <2>2 DEF TypeOK
<1>5. QED
  BY <1>3, <1>4 DEF RateInv, Bounded

(* After a restart nothing counts that came before it.                     *)
LEMMA RestartStep == ASSUME TypeOK, RateInv, Restart PROVE RateInv'
<1>1. /\ now' = now + 1 /\ bootAt' = now + 1 /\ now \in Nat
      /\ record' = [k \in Keys |-> NoRecord]
      /\ stage' = [r \in Requests |-> IF stage[r] = "waiting" THEN "lost" ELSE stage[r]]
      /\ UNCHANGED <<key, askedAt>>
  BY DEF Restart, TypeOK
<1>2. Arrived' = Arrived
  BY <1>1 DEF Arrived
<1>3. \A r \in Requests : askedAt[r] \in 0..now
  BY DEF TypeOK
<1>4. ASSUME NEW k, NEW from \in Nat, from > now
      PROVE  /\ Cardinality(Since(k, from))' = 0
             /\ \A to : Cardinality(AcceptedWithin(k, from, to))' = 0
  <2>1. \A r \in Requests : ~(askedAt[r] >= from) /\ \A to : askedAt[r] \notin from..to
    BY <1>1, <1>3, <1>4
  <2>2. Since(k, from)' = {} /\ \A to : AcceptedWithin(k, from, to)' = {}
    BY <1>1, <2>1 DEF Since, AcceptedWithin
  <2>3. QED
    BY <2>2, FS_EmptySet
<1>5. ASSUME NEW k \in Bounded PROVE WindowInv(k)'
  <2>1. /\ record'[k].consumed = 0 /\ record'[k].expires = 0
        /\ Config[k].points \in Nat \ {0} /\ Config[k].duration \in Nat \ {0}
    BY <1>1, BoundedFacts DEF NoRecord
  <2>2. ~Live(k)'
    BY <1>1, <2>1 DEF Live
  <2>3. \A from \in Nat : from >= bootAt' => Cardinality(Since(k, from))' = 0
    BY <1>1, <1>4
  <2>4. QED
    BY <1>1, <2>1, <2>2, <2>3 DEF WindowInv, Few
<1>6. TwoWindowBound'
  <2> SUFFICES ASSUME NEW k \in Bounded, NEW from \in bootAt'..now'
               PROVE  Cardinality(AcceptedWithin(k, from, from + Config[k].duration - 1))'
                        <= 2 * Config[k].points - 1
    BY DEF TwoWindowBound, Bounded
  <2>1. from \in Nat /\ from > now
    BY <1>1
  <2>2. QED
    BY <1>4, <2>1, BoundedFacts
<1>7. QED
  BY <1>2, <1>5, <1>6 DEF RateInv, Bounded

LEMMA RateStep == ASSUME IInv, RateInv, [Next]_vars PROVE RateInv'
<1>a. TypeOK
  BY DEF IInv
<1>1. ASSUME NEW r \in Requests, Consume(r) PROVE RateInv'
  <2>1. IsFiniteSet(Arrived')
    <3>1. PICK s : stage' = [stage EXCEPT ![r] = s]
      BY <1>a, <1>1, ConsumeCases
    <3>2. /\ stage[r] = "new" /\ UNCHANGED <<key, now>>
          /\ askedAt' = [askedAt EXCEPT ![r] = now]
      BY <1>a, <1>1, ConsumeCases
    <3>3. Arrived' \in {Arrived, Arrived \cup {r}}
      BY <1>a, <3>1, <3>2, Arrival
    <3>4. QED
      BY <3>3, FS_AddElement DEF RateInv
  <2>2. QED
    BY <1>a, <1>1, <2>1, ConsumeWindow, ConsumeBound DEF RateInv, Bounded
<1>2. ASSUME NEW r \in Requests, Resolve(r) \/ TimeoutFires(r) PROVE RateInv'
  <2>1. /\ UNCHANGED <<record, bootAt, key, askedAt, now>> /\ stage[r] = "waiting"
        /\ \/ stage' = [stage EXCEPT ![r] = "passed"]
           \/ stage' = [stage EXCEPT ![r] = "passedLate"]
    BY <1>2 DEF Resolve, TimeoutFires
  <2>2. /\ stage'[r] \in {"passed", "passedLate"}
        /\ \A q \in Requests \ {r} : stage'[q] = stage[q]
    BY <1>a, <2>1 DEF TypeOK
  <2>3. (\A q \in Requests : Accepted(q)' <=> Accepted(q)) /\ Arrived' = Arrived
    BY <2>1, <2>2 DEF Accepted, Arrived
  <2>4. QED
    BY <1>a, <2>1, <2>3, QuietStep
<1>3. CASE Tick
  <2>1. now' = now + 1 /\ UNCHANGED <<bootAt, record, stage, key, askedAt>>
    BY <1>3 DEF Tick, requestVars
  <2>2. (\A q \in Requests : Accepted(q)' <=> Accepted(q)) /\ Arrived' = Arrived
    BY <2>1 DEF Accepted, Arrived
  <2>3. QED
    BY <1>a, <2>1, <2>2, QuietStep
<1>4. CASE Restart
  BY <1>a, <1>4, RestartStep
<1>5. CASE TheEnd \/ UNCHANGED vars
  <2>1. UNCHANGED <<now, bootAt, record, stage, key, askedAt>>
    BY <1>5 DEF TheEnd, vars, requestVars
  <2>2. (\A q \in Requests : Accepted(q)' <=> Accepted(q)) /\ Arrived' = Arrived
    BY <2>1 DEF Accepted, Arrived
  <2>3. QED
    BY <1>a, <2>1, <2>2, QuietStep
<1>6. QED
  BY <1>1, <1>2, <1>3, <1>4, <1>5 DEF Next

(* RateInv holds in every reachable state.                                 *)
THEOREM RateInvariance == Spec => [](IInv /\ RateInv)
<1>1. Init => RateInv
  BY InitRateInv
<1>2. IInv /\ RateInv /\ [Next]_vars => RateInv'
  BY RateStep
<1>3. QED
  BY <1>1, <1>2, Invariance, PTL DEF Spec

(* No stretch of time as long as the window lets through more than twice   *)
(* the points less one, whatever the pacing, the timer and the restarts.   *)
THEOREM WindowBound == Spec => []TwoWindowBound
<1>1. RateInv => TwoWindowBound
  BY DEF RateInv
<1>2. QED
  BY <1>1, RateInvariance, PTL

-----------------------------------------------------------------------------
(* How long a refused client has to wait.  As long as nobody was let       *)
(* through after a refusal, the counter is still in the block that the     *)
(* client was told of, or in none: RetryInv compares its end with what the *)
(* client was told.                                                        *)

ServedAfter(r) ==
  \E a \in Requests : Accepted(a) /\ key[a] = key[r] /\ askedAt[a] > askedAt[r]

(* The time a client was told to come back, and half a second, in halves   *)
(* of a tick.                                                              *)
Patience(r) == 2 * (askedAt[r] + retryAfter[r] * TicksPerSecond) + TicksPerSecond

RetryInv ==
  \A r \in Requests : stage[r] = "rejected" /\ askedAt[r] >= bootAt =>
    \/ ServedAfter(r)
    \/ /\ record[key[r]].consumed > Config[key[r]].points
       /\ record[key[r]].expires > askedAt[r]
       /\ 2 * record[key[r]].expires <= Patience(r)

(* Rounding to the nearest second takes off less than half a second.       *)
LEMMA Rounding ==
  ASSUME NEW ticks \in Nat
  PROVE  /\ RetryAfterSeconds(ticks) \in Nat
         /\ RetryAfterSeconds(ticks) * TicksPerSecond \in Nat
         /\ 2 * ticks <= 2 * (RetryAfterSeconds(ticks) * TicksPerSecond) + TicksPerSecond
<1> DEFINE T == TicksPerSecond
           n == 2 * ticks + T
           rounded == n \div (2 * T)
<1>1. T \in Nat \ {0} /\ n \in Nat /\ 2 * T \in Nat \ {0}
  BY TicksAssumption
<1>2. \A a \in Nat, b \in Nat \ {0} :
         /\ a \div b \in Nat
         /\ a = b * (a \div b) + (a % b) /\ a % b \in 0..(b - 1)
  OBVIOUS
<1>3. PICK m \in Nat : rounded \in Nat /\ n = (2 * T) * rounded + m /\ m < 2 * T
  <2> HIDE DEF n
  <2>1. PICK b \in Nat \ {0} : b = 2 * T
    BY <1>1
  <2>2. /\ n \div b \in Nat /\ n = b * (n \div b) + (n % b) /\ n % b \in 0..(b - 1)
    BY <1>1, <1>2
  <2>3. n % b \in Nat /\ n % b < b
    BY <2>2
  <2>4. QED
    BY <2>1, <2>2, <2>3
<1>4. RetryAfterSeconds(ticks) = IF rounded = 0 THEN 1 ELSE rounded
  BY DEF RetryAfterSeconds
<1> HIDE DEF rounded
<1>5. (2 * T) * rounded = 2 * (rounded * T) /\ rounded * T \in Nat
  BY <1>1, <1>3
<1>6. CASE rounded = 0
  <2>1. RetryAfterSeconds(ticks) = 1 /\ 1 * T = T
    BY <1>1, <1>4, <1>6
  <2>2. n < 2 * T
    BY <1>1, <1>3, <1>5, <1>6
  <2>3. QED
    BY <1>1, <2>1, <2>2
<1>7. CASE rounded # 0
  <2>1. RetryAfterSeconds(ticks) = rounded
    BY <1>4, <1>7
  <2>2. 2 * ticks + T = 2 * (rounded * T) + m
    BY <1>3, <1>5
  <2> HIDE DEF n
  <2>3. 2 * ticks <= 2 * (rounded * T) + T
    BY <1>1, <1>3, <1>5, <2>2
  <2>4. QED
    BY <1>3, <1>5, <2>1, <2>3
<1>8. QED
  BY <1>6, <1>7

LEMMA RetryTypes ==
  ASSUME TypeOK, NEW r \in Requests
  PROVE  /\ key[r] \in Keys /\ askedAt[r] \in Nat /\ askedAt[r] <= now /\ now \in Nat
         /\ bootAt \in Nat /\ TicksPerSecond \in Nat \ {0}
         /\ record[key[r]].expires \in Nat /\ record[key[r]].consumed \in Nat
         /\ Config[key[r]].points \in Nat \ {0}
         /\ retryAfter[r] * TicksPerSecond \in Nat /\ Patience(r) \in Nat
         /\ Patience(r) > 2 * askedAt[r]
<1>1. /\ key[r] \in Keys /\ askedAt[r] \in Nat /\ askedAt[r] <= now /\ now \in Nat
      /\ bootAt \in Nat /\ retryAfter[r] \in Nat
      /\ record[key[r]].expires \in Nat /\ record[key[r]].consumed \in Nat
  BY DEF TypeOK
<1>2. TicksPerSecond \in Nat \ {0} /\ Config[key[r]].points \in Nat \ {0}
  BY <1>1, TicksAssumption, ConfigType
<1>3. PICK w \in Nat : w = retryAfter[r] * TicksPerSecond
  BY <1>1, <1>2
<1>4. Patience(r) = 2 * (askedAt[r] + w) + TicksPerSecond
  BY <1>3 DEF Patience
<1>5. QED
  BY <1>1, <1>2, <1>3, <1>4

(* What a refused request is told.                                         *)
LEMMA RefusalFacts ==
  ASSUME TypeOK, LockoutIsBounded, NEW x \in Requests, Consume(x),
         stage'[x] = "rejected"
  PROVE  /\ Live(key[x])
         /\ record'[key[x]].consumed > Config[key[x]].points
         /\ record'[key[x]].expires > now
         /\ 2 * record'[key[x]].expires <= Patience(x)'
<1>1. PICK k : k = key[x]
  OBVIOUS
<1>2. /\ k \in Keys /\ now \in Nat /\ record \in [Keys -> [consumed : Nat, expires : Nat]]
      /\ askedAt' = [askedAt EXCEPT ![x] = now] /\ UNCHANGED key
  BY <1>1 DEF TypeOK, Consume
<1>3. PICK rec : rec = Blocked(Config[k], Incremented(k))
  OBVIOUS
<1>4. /\ rec \in [consumed : Nat \ {0}, expires : Nat]
      /\ rec.consumed = Incremented(k).consumed /\ rec.expires > now
  BY <1>2, <1>3, BlockedFacts
<1>5. /\ Incremented(k).consumed > Config[k].points
      /\ record' = [record EXCEPT ![k] = rec]
      /\ retryAfter' = [retryAfter EXCEPT ![x] = RetryAfterSeconds(rec.expires - now)]
  BY <1>1, <1>3 DEF Consume, TypeOK
<1>6. PICK left \in Nat : left = rec.expires - now
  BY <1>2, <1>4
<1>7. /\ record'[k] = rec /\ askedAt'[x] = now /\ key'[x] = k
      /\ retryAfter'[x] = RetryAfterSeconds(left)
  BY <1>1, <1>2, <1>5, <1>6 DEF TypeOK
<1>8. Live(k)
  <2>1. Config[k].points \in Nat \ {0}
    BY <1>2, ConfigType
  <2>2. QED
    BY <1>2, <1>5, <2>1 DEF Incremented
<1>9. 2 * rec.expires <= Patience(x)'
  <2>1. PICK w \in Nat : w = RetryAfterSeconds(left) * TicksPerSecond
    BY Rounding
  <2>2. 2 * left <= 2 * w + TicksPerSecond
    BY <2>1, Rounding
  <2>3. Patience(x)' = 2 * (now + w) + TicksPerSecond
    BY <1>7, <2>1 DEF Patience
  <2>4. rec.expires = now + left /\ TicksPerSecond \in Nat
    BY <1>2, <1>4, <1>6, TicksAssumption
  <2>5. QED
    BY <1>2, <2>1, <2>2, <2>3, <2>4
<1>10. QED
  BY <1>1, <1>4, <1>5, <1>7, <1>8, <1>9

(* A step that lets nobody in, refuses nobody and leaves the counters.     *)
LEMMA RetryQuiet ==
  ASSUME RetryInv, RetryAfterIsNearlyEnough,
         UNCHANGED <<record, bootAt, key, askedAt, retryAfter>>,
         \A r \in Requests : Accepted(r)' <=> Accepted(r),
         \A r \in Requests : stage'[r] = "rejected" <=> stage[r] = "rejected"
  PROVE  RetryInv' /\ RetryAfterIsNearlyEnough'
<1>1. \A r \in Requests : ServedAfter(r)' <=> ServedAfter(r)
  BY DEF ServedAfter
<1>2. \A k, from, to : AcceptedWithin(k, from, to)' = AcceptedWithin(k, from, to)
  BY NobodyAccepted
<1>3. RetryInv'
  BY <1>1 DEF RetryInv, Patience
<1>4. RetryAfterIsNearlyEnough'
  BY <1>2 DEF RetryAfterIsNearlyEnough, RetryHonoured
<1>5. QED
  BY <1>3, <1>4

LEMMA RetryConsume ==
  ASSUME IInv, RetryInv, RetryAfterIsNearlyEnough, NEW x \in Requests, Consume(x)
  PROVE  RetryInv' /\ RetryAfterIsNearlyEnough'
<1> USE DEF IInv
<1>1. /\ key[x] \in Keys /\ stage[x] = "new" /\ UNCHANGED <<now, bootAt, key>>
      /\ askedAt' = [askedAt EXCEPT ![x] = now]
      /\ \A l \in Keys \ {key[x]} : record'[l] = record[l]
  BY ConsumeCases
<1>2. /\ askedAt'[x] = now /\ ~Accepted(x) /\ key'[x] = key[x]
      /\ \A r \in Requests \ {x} :
           /\ stage'[r] = stage[r] /\ askedAt'[r] = askedAt[r] /\ key'[r] = key[r]
           /\ retryAfter'[r] = retryAfter[r]
           /\ Accepted(r)' <=> Accepted(r)
  <2>1. PICK s : stage' = [stage EXCEPT ![x] = s]
    BY ConsumeCases
  <2>2. \A r \in Requests \ {x} : retryAfter'[r] = retryAfter[r]
    BY DEF Consume, TypeOK
  <2>3. QED
    BY <1>1, <2>1, <2>2 DEF TypeOK, Accepted
<1>3. TypeOK'
  BY StepIInv DEF Next
<1>4. ASSUME NEW r \in Requests \ {x}, ServedAfter(r) PROVE ServedAfter(r)'
  BY <1>2, <1>4 DEF ServedAfter
<1>5. \A r \in Requests \ {x} : Patience(r)' = Patience(r)
  BY <1>2 DEF Patience
<1>6. RetryInv'
  <2> SUFFICES ASSUME NEW r \in Requests, stage'[r] = "rejected", askedAt'[r] >= bootAt
               PROVE  \/ ServedAfter(r)'
                      \/ /\ record'[key[r]].consumed > Config[key[r]].points
                         /\ record'[key[r]].expires > askedAt'[r]
                         /\ 2 * record'[key[r]].expires <= Patience(r)'
    BY <1>1 DEF RetryInv
  <2>1. CASE r = x
    BY <1>2, <2>1, RefusalFacts
  <2>2. CASE r # x
    <3>1. /\ stage[r] = "rejected" /\ askedAt[r] >= bootAt
          /\ askedAt'[r] = askedAt[r] /\ Patience(r)' = Patience(r)
      BY <1>2, <1>5, <2>2
    <3>2. CASE ServedAfter(r)
      BY <1>4, <2>2, <3>2
    <3>3. CASE ~ServedAfter(r)
      <4>1. /\ record[key[r]].consumed > Config[key[r]].points
            /\ record[key[r]].expires > askedAt[r]
            /\ 2 * record[key[r]].expires <= Patience(r)
        BY <3>1, <3>3 DEF RetryInv
      <4>2. CASE key[r] # key[x]
        <5>1. key[r] \in Keys
          BY RetryTypes
        <5>2. QED
          BY <1>1, <3>1, <4>1, <4>2, <5>1
      <4>3. CASE key[r] = key[x] /\ ~Live(key[x])
        <5>1. stage'[x] = "passed"
          BY <4>3, ConsumeCases DEF TypeOK
        <5>2. now > askedAt[r]
          BY <4>1, <4>3, RetryTypes DEF Live
        <5>3. Accepted(x)' /\ key'[x] = key'[r] /\ askedAt'[x] > askedAt'[r]
          BY <1>2, <3>1, <4>3, <5>1, <5>2, <2>2 DEF Accepted
        <5>4. QED
          BY <5>3 DEF ServedAfter
      <4>4. CASE key[r] = key[x] /\ Live(key[x])
        <5>1. PICK c, p, e, c1, e1 :
                /\ c = record[key[x]].consumed /\ p = Config[key[x]].points
                /\ e = record[key[x]].expires
                /\ c1 = record'[key[x]].consumed /\ e1 = record'[key[x]].expires
          OBVIOUS
        <5>2. c \in Nat /\ p \in Nat /\ c > p
          BY <4>1, <4>4, <5>1, RetryTypes
        <5>3. c1 = c + 1 /\ (e1 # e => c = p)
          BY <4>4, <5>1, ConsumeCases
        <5>4. e1 = e /\ c1 > p
          BY <5>2, <5>3
        <5>5. QED
          BY <3>1, <4>1, <4>4, <5>1, <5>4
      <4>5. QED
        BY <4>2, <4>3, <4>4
    <3>4. QED
      BY <3>2, <3>3
  <2>3. QED
    BY <2>1, <2>2
<1>7. RetryAfterIsNearlyEnough'
  <2> SUFFICES ASSUME NEW r \in Requests, NEW q \in Requests,
                      stage'[r] = "rejected", stage'[q] = "rejected",
                      key[r] = key[q], askedAt'[r] >= bootAt,
                      2 * askedAt'[q] >= Patience(r)'
               PROVE  AcceptedWithin(key[r], askedAt[r] + 1, askedAt[q])' # {}
    BY <1>1 DEF RetryAfterIsNearlyEnough, RetryHonoured, Patience
  <2>1. r # x
    <3>1. /\ Patience(r)' > 2 * askedAt'[r] /\ Patience(r)' \in Nat
          /\ askedAt'[q] \in Nat /\ askedAt'[r] \in Nat /\ askedAt'[q] <= now'
      <4>1. PICK w \in Nat : w = retryAfter'[r] * TicksPerSecond
        BY <1>3, TicksAssumption DEF TypeOK
      <4>2. askedAt'[q] \in Nat /\ askedAt'[r] \in Nat /\ askedAt'[q] <= now'
        BY <1>3 DEF TypeOK
      <4>3. Patience(r)' = 2 * (askedAt'[r] + w) + TicksPerSecond
        BY <4>1 DEF Patience
      <4>4. QED
        BY <4>2, <4>3, TicksAssumption
    <3>2. askedAt'[q] > askedAt'[r]
      BY <3>1
    <3>3. QED
      BY <1>1, <1>2, <3>1, <3>2
  <2>2. stage[r] = "rejected" /\ askedAt[r] >= bootAt /\ askedAt'[r] = askedAt[r]
        /\ Patience(r)' = Patience(r)
    BY <1>2, <1>5, <2>1
  <2>3. CASE q = x
    <3>1. askedAt'[q] = now /\ Live(key[r]) /\ key[r] = key[x]
      BY <1>2, <2>3, RefusalFacts
    <3>2. ServedAfter(r)
      <4>1. record[key[r]].expires > now
        BY <3>1 DEF Live
      <4>2. ~(2 * record[key[r]].expires <= Patience(r))
        BY <2>2, <3>1, <4>1, RetryTypes
      <4>3. QED
        BY <2>2, <4>2 DEF RetryInv
    <3>3. PICK a \in Requests : Accepted(a) /\ key[a] = key[r] /\ askedAt[a] > askedAt[r]
      BY <3>2 DEF ServedAfter
    <3>4. a # x /\ askedAt[a] \in (askedAt[r] + 1)..now
      BY <1>2, <3>3, RetryTypes
    <3>5. a \in AcceptedWithin(key[r], askedAt[r] + 1, askedAt[q])'
      BY <1>2, <2>2, <3>1, <3>3, <3>4 DEF AcceptedWithin
    <3>6. QED
      BY <3>5
  <2>4. CASE q # x
    <3>1. stage[q] = "rejected" /\ askedAt'[q] = askedAt[q]
      BY <1>2, <2>4
    <3>2. AcceptedWithin(key[r], askedAt[r] + 1, askedAt[q]) # {}
      BY <2>2, <3>1 DEF RetryAfterIsNearlyEnough, RetryHonoured, Patience
    <3>3. PICK a \in AcceptedWithin(key[r], askedAt[r] + 1, askedAt[q]) : TRUE
      BY <3>2
    <3>4. a \in Requests /\ a # x /\ Accepted(a)
      BY <1>2, <3>3 DEF AcceptedWithin
    <3>5. a \in AcceptedWithin(key[r], askedAt[r] + 1, askedAt[q])'
      BY <1>2, <2>2, <3>1, <3>3, <3>4 DEF AcceptedWithin
    <3>6. QED
      BY <3>5
  <2>5. QED
    BY <2>3, <2>4
<1>8. QED
  BY <1>6, <1>7

LEMMA RetryStep ==
  ASSUME IInv, RetryInv, RetryAfterIsNearlyEnough, [Next]_vars
  PROVE  RetryInv' /\ RetryAfterIsNearlyEnough'
<1> USE DEF IInv
<1>1. ASSUME NEW r \in Requests, Consume(r)
      PROVE  RetryInv' /\ RetryAfterIsNearlyEnough'
  BY <1>1, RetryConsume
<1>2. ASSUME NEW r \in Requests, Resolve(r) \/ TimeoutFires(r)
      PROVE  RetryInv' /\ RetryAfterIsNearlyEnough'
  <2>1. /\ UNCHANGED <<record, bootAt, key, askedAt, retryAfter>> /\ stage[r] = "waiting"
        /\ \/ stage' = [stage EXCEPT ![r] = "passed"]
           \/ stage' = [stage EXCEPT ![r] = "passedLate"]
    BY <1>2 DEF Resolve, TimeoutFires
  <2>2. /\ stage'[r] \in {"passed", "passedLate"}
        /\ \A q \in Requests \ {r} : stage'[q] = stage[q]
    BY <2>1 DEF TypeOK
  <2>3. \A q \in Requests : /\ Accepted(q)' <=> Accepted(q)
                            /\ stage'[q] = "rejected" <=> stage[q] = "rejected"
    BY <2>1, <2>2 DEF Accepted
  <2>4. QED
    BY <2>1, <2>3, RetryQuiet
<1>3. CASE Tick \/ TheEnd \/ UNCHANGED vars
  <2>1. UNCHANGED <<record, bootAt, key, askedAt, retryAfter, stage>>
    BY <1>3 DEF Tick, TheEnd, vars, requestVars
  <2>2. \A q \in Requests : Accepted(q)' <=> Accepted(q)
    BY <2>1 DEF Accepted
  <2>3. QED
    BY <2>1, <2>2, RetryQuiet
<1>4. CASE Restart
  <2>1. bootAt' = now + 1 /\ UNCHANGED askedAt
    BY <1>4 DEF Restart
  <2>2. \A r \in Requests : ~(askedAt'[r] >= bootAt')
    BY <2>1, RetryTypes
  <2>3. QED
    BY <2>2 DEF RetryInv, RetryAfterIsNearlyEnough, RetryHonoured
<1>5. QED
  BY <1>1, <1>2, <1>3, <1>4 DEF Next

(* A client that waits half a second longer than it was told to is not     *)
(* refused by the block it was told of, at any resolution of the clock.    *)
THEOREM RetryAfterSuffices == Spec => []RetryAfterIsNearlyEnough
<1>1. Init => RetryInv /\ RetryAfterIsNearlyEnough
  BY DEF Init, RetryInv, RetryAfterIsNearlyEnough, RetryHonoured
<1>2. IInv /\ RetryInv /\ RetryAfterIsNearlyEnough /\ [Next]_vars
        => RetryInv' /\ RetryAfterIsNearlyEnough'
  BY RetryStep
<1>3. QED
  BY <1>1, <1>2, Invariance, PTL DEF Spec

-----------------------------------------------------------------------------
(* Whose use a refusal is due to.  RecentInv knows when the window of a    *)
(* record began, s: since then as many requests were let through as the    *)
(* record counts, up to the points, and the record ends with the window,   *)
(* or with the block that began in it.  It is seen from the record alone,  *)
(* so it outlives the record's end and is gone with a restart.             *)

Began(k, s) ==
  \/ /\ record[k].consumed <= Config[k].points
     /\ Cardinality(Since(k, s)) >= record[k].consumed
     /\ record[k].expires = s + Config[k].duration
  \/ /\ record[k].consumed > Config[k].points
     /\ Cardinality(Since(k, s)) >= Config[k].points
     /\ record[k].expires < s + Config[k].duration + BlockDuration(Config[k])

RecentInv == \A k \in Keys : record[k].consumed > 0 => \E s \in 0..now : Began(k, s)

(* What has been decided of a request stays so.                            *)
LEMMA DecidedStays ==
  ASSUME TypeOK, [Next]_vars, NEW r \in Requests, stage[r] # "new"
  PROVE  /\ key'[r] = key[r] /\ askedAt'[r] = askedAt[r] /\ stage'[r] # "new"
         /\ Accepted(r) => Accepted(r)'
         /\ stage'[r] = "rejected" <=> stage[r] = "rejected"
<1>1. ASSUME NEW x \in Requests, Consume(x)
      PROVE  key'[r] = key[r] /\ askedAt'[r] = askedAt[r] /\ stage'[r] = stage[r]
  <2>1. /\ stage[x] = "new" /\ UNCHANGED key
        /\ askedAt' = [askedAt EXCEPT ![x] = now]
    BY <1>1 DEF Consume
  <2>2. PICK s : stage' = [stage EXCEPT ![x] = s]
    BY <1>1 DEF Consume
  <2>3. QED
    BY <2>1, <2>2 DEF TypeOK
<1>2. ASSUME NEW x \in Requests, Resolve(x) \/ TimeoutFires(x)
      PROVE  /\ UNCHANGED <<key, askedAt>>
             /\ \/ stage'[r] = stage[r]
                \/ stage[r] = "waiting" /\ stage'[r] \in {"passed", "passedLate"}
  BY <1>2 DEF Resolve, TimeoutFires, TypeOK
<1>3. CASE Restart
  <2>1. /\ UNCHANGED <<key, askedAt>>
        /\ stage'[r] = IF stage[r] = "waiting" THEN "lost" ELSE stage[r]
    BY <1>3 DEF Restart
  <2>2. QED
    BY <2>1 DEF Accepted
<1>4. CASE Tick \/ TheEnd \/ UNCHANGED vars
  BY <1>4 DEF Tick, TheEnd, vars, requestVars, Accepted
<1>5. QED
  BY <1>1, <1>2, <1>3, <1>4 DEF Next, Accepted

(* So the counts of the requests that were let through only grow.          *)
LEMMA CountsGrow ==
  ASSUME TypeOK, [Next]_vars, IsFiniteSet(Arrived'), NEW k
  PROVE  /\ \A from : /\ Since(k, from) \subseteq Since(k, from)'
                      /\ Cardinality(Since(k, from)) <= Cardinality(Since(k, from))'
                      /\ Cardinality(Since(k, from)) \in Nat
                      /\ Cardinality(Since(k, from))' \in Nat
         /\ \A from, to :
              /\ Cardinality(AcceptedWithin(k, from, to))
                   <= Cardinality(AcceptedWithin(k, from, to))'
              /\ Cardinality(AcceptedWithin(k, from, to)) \in Nat
              /\ Cardinality(AcceptedWithin(k, from, to))' \in Nat
<1>1. ASSUME NEW r \in Requests, Accepted(r)
      PROVE  Accepted(r)' /\ key'[r] = key[r] /\ askedAt'[r] = askedAt[r]
  BY <1>1, DecidedStays DEF Accepted
<1>2. ASSUME NEW from
      PROVE  Since(k, from) \subseteq Since(k, from)' /\ Since(k, from)' \subseteq Arrived'
  BY <1>1 DEF Since, Arrived, Accepted
<1>3. ASSUME NEW from, NEW to
      PROVE  /\ AcceptedWithin(k, from, to) \subseteq AcceptedWithin(k, from, to)'
             /\ AcceptedWithin(k, from, to)' \subseteq Arrived'
  BY <1>1 DEF AcceptedWithin, Arrived, Accepted
<1>4. \A S, T : S \subseteq T /\ T \subseteq Arrived' =>
        /\ Cardinality(S) <= Cardinality(T)
        /\ Cardinality(S) \in Nat /\ Cardinality(T) \in Nat
  BY FS_Subset, FS_CardinalityType
<1>5. QED
  BY <1>2, <1>3, <1>4

(* Who is let through counts, from any time up to now.                     *)
LEMMA Joined ==
  ASSUME TypeOK, NEW x \in Requests, Consume(x), IsFiniteSet(Arrived),
         Accepted(x)', NEW k, k = key[x], NEW from \in 0..now
  PROVE  /\ Cardinality(Since(k, from)) \in Nat
         /\ Cardinality(Since(k, from))' = Cardinality(Since(k, from)) + 1
<1>1. PICK n, m : n = Cardinality(Since(k, from)) /\ m = Cardinality(Since(k, from))'
  OBVIOUS
<1>2. /\ stage[x] = "new" /\ askedAt' = [askedAt EXCEPT ![x] = now] /\ UNCHANGED <<key, now>>
  BY ConsumeCases
<1>3. x \in Since(k, from)'
  <2>1. askedAt'[x] = now /\ key'[x] = k /\ now >= from
    BY <1>2 DEF TypeOK
  <2>2. QED
    BY <2>1 DEF Since
<1>4. from \in Nat /\ IsFiniteSet(Since(k, from)) /\ n \in Nat
  BY <1>1, SinceCount DEF TypeOK
<1>5. PICK s : stage' = [stage EXCEPT ![x] = s]
  BY ConsumeCases
<1>6. /\ Since(k, from)' \in {Since(k, from), Since(k, from) \cup {x}}
      /\ x \notin Since(k, from)
  BY <1>2, <1>4, <1>5, Arrival
<1>7. Since(k, from)' = Since(k, from) \cup {x}
  BY <1>3, <1>6
<1>8. m = n + 1
  BY <1>1, <1>4, <1>6, <1>7, FS_AddElement
<1>9. QED
  BY <1>1, <1>4, <1>8

LEMMA RecentStep ==
  ASSUME IInv, IsFiniteSet(Arrived), IsFiniteSet(Arrived'), RecentInv, [Next]_vars
  PROVE  RecentInv'
<1> USE DEF IInv
<1> SUFFICES ASSUME NEW k \in Keys, record'[k].consumed > 0
             PROVE  (\E s \in 0..now : Began(k, s))'
  BY DEF RecentInv
<1>1. PICK p, d, b, t : /\ p = Config[k].points /\ d = Config[k].duration
                        /\ b = BlockDuration(Config[k]) /\ t = now
  OBVIOUS
<1>2. PICK c, e, c1, e1 : /\ c = record[k].consumed /\ e = record[k].expires
                          /\ c1 = record'[k].consumed /\ e1 = record'[k].expires
  OBVIOUS
<1>3. /\ p \in Nat \ {0} /\ d \in Nat \ {0} /\ b \in Nat \ {0} /\ t \in Nat
      /\ c \in Nat /\ e \in Nat /\ (Live(k) <=> e > t) /\ (e > t => c > 0)
  BY <1>1, <1>2, ConfigType DEF TypeOK, Live
<1>4. ASSUME c > 0
      PROVE  \E s \in 0..t : LET n == Cardinality(Since(k, s)) IN
               \/ c <= p /\ n >= c /\ e = s + d
               \/ c > p /\ n >= p /\ e < s + d + b
  BY <1>1, <1>2, <1>4 DEF RecentInv, Began
<1>5. ASSUME NEW s \in 0..now',
             LET m == Cardinality(Since(k, s))' IN
               \/ c1 <= p /\ m >= c1 /\ e1 = s + d
               \/ c1 > p /\ m >= p /\ e1 < s + d + b
      PROVE  (\E z \in 0..now : Began(k, z))'
  <2>1. Began(k, s)'
    BY <1>1, <1>2, <1>5 DEF Began
  <2>2. QED
    BY <2>1
<1>6. CASE record'[k] = record[k] /\ now' \in {now, now + 1}
  <2>1. c1 = c /\ e1 = e /\ c > 0 /\ 0..t \subseteq 0..now'
    BY <1>1, <1>2, <1>3, <1>6
  <2>2. PICK s \in 0..t : LET n == Cardinality(Since(k, s)) IN
               \/ c <= p /\ n >= c /\ e = s + d
               \/ c > p /\ n >= p /\ e < s + d + b
    BY <1>4, <2>1
  <2>3. PICK n, m : n = Cardinality(Since(k, s)) /\ m = Cardinality(Since(k, s))'
    OBVIOUS
  <2>4. n \in Nat /\ m \in Nat /\ n <= m
    BY <2>3, CountsGrow
  <2>5. \/ c1 <= p /\ m >= c1 /\ e1 = s + d
        \/ c1 > p /\ m >= p /\ e1 < s + d + b
    BY <1>3, <2>1, <2>2, <2>3, <2>4
  <2>6. QED
    BY <1>5, <2>1, <2>3, <2>5
<1>7. ASSUME NEW x \in Requests, Consume(x), key[x] = k
      PROVE  (\E s \in 0..now : Began(k, s))'
  <2>1. now' = t
    BY <1>1, <1>7, ConsumeCases
  <2>2. \/ /\ e <= t /\ c1 = 1 /\ e1 = t + d /\ Accepted(x)'
        \/ /\ e > t /\ c1 = c + 1 /\ c1 <= p /\ e1 = e /\ Accepted(x)'
        \/ /\ e > t /\ c1 = c + 1 /\ c1 > p /\ e1 \in {e, t + b} /\ (e1 # e => c = p)
    <3>1. \/ stage' = [stage EXCEPT ![x] = "passed"]
          \/ stage' = [stage EXCEPT ![x] = "waiting"]
          => Accepted(x)'
      BY DEF TypeOK, Accepted
    <3>2. QED
      BY <1>1, <1>2, <1>3, <1>7, <3>1, ConsumeCases
  <2>3. CASE e <= t /\ c1 = 1 /\ e1 = t + d /\ Accepted(x)'
    <3>1. PICK n, m : n = Cardinality(Since(k, t)) /\ m = Cardinality(Since(k, t))'
      OBVIOUS
    <3>2. n \in Nat /\ m = n + 1 /\ t \in 0..now'
      BY <1>1, <1>3, <1>7, <2>1, <2>3, <3>1, Joined
    <3>3. c1 <= p /\ m >= c1
      BY <1>3, <2>3, <3>2
    <3>4. QED
      BY <1>5, <2>3, <3>1, <3>2, <3>3
  <2>4. CASE e > t
    <3>1. PICK s \in 0..t : LET n == Cardinality(Since(k, s)) IN
               \/ c <= p /\ n >= c /\ e = s + d
               \/ c > p /\ n >= p /\ e < s + d + b
      BY <1>3, <1>4, <2>4
    <3>2. PICK n, m : n = Cardinality(Since(k, s)) /\ m = Cardinality(Since(k, s))'
      OBVIOUS
    <3>3. /\ n \in Nat /\ m \in Nat /\ n <= m
          /\ Accepted(x)' => m = n + 1
      BY <1>1, <1>7, <3>2, CountsGrow, Joined DEF Next
    <3>4. \/ c1 <= p /\ m >= c1 /\ e1 = s + d
          \/ c1 > p /\ m >= p /\ e1 < s + d + b
      BY <1>3, <2>2, <2>4, <3>1, <3>2, <3>3
    <3>5. QED
      BY <1>5, <2>1, <3>2, <3>4
  <2>5. QED
    BY <1>3, <2>2, <2>3, <2>4
<1>8. ASSUME NEW x \in Requests, Consume(x), key[x] # k
      PROVE  record'[k] = record[k] /\ now' = now
  BY <1>8, ConsumeCases
<1>9. CASE Restart
  BY <1>9 DEF Restart, NoRecord
<1>10. CASE Tick
  BY <1>6, <1>10 DEF Tick
<1>11. CASE UNCHANGED <<record, now>>
  BY <1>6, <1>11
<1>12. QED
  BY <1>6, <1>7, <1>8, <1>9, <1>10, <1>11
     DEF Next, Resolve, TimeoutFires, TheEnd, vars

LEMMA RefusalStep ==
  ASSUME IInv, IsFiniteSet(Arrived'), RecentInv', RefusalIsRecent, [Next]_vars
  PROVE  RefusalIsRecent'
<1> USE DEF IInv
<1>1. TypeOK'
  BY StepIInv
<1> SUFFICES ASSUME NEW r \in Requests, stage'[r] = "rejected", NEW k, k = key'[r],
                    NEW from, from = askedAt'[r] - Config[k].duration
                                       - BlockDuration(Config[k]) + 2,
                    NEW to, to = askedAt'[r]
             PROVE  Cardinality(AcceptedWithin(k, from, to))' >= Config[k].points
  BY DEF RefusalIsRecent
<1>2. k \in Keys /\ Config[k].points \in Nat
  BY <1>1, ConfigType DEF TypeOK
<1>3. CASE stage[r] # "new"
  <2>1. stage[r] = "rejected" /\ askedAt[r] = askedAt'[r] /\ key[r] = k
    BY <1>3, DecidedStays
  <2>2. Cardinality(AcceptedWithin(k, from, to)) >= Config[k].points
    BY <2>1 DEF RefusalIsRecent
  <2>3. PICK n, m : /\ n = Cardinality(AcceptedWithin(k, from, to))
                    /\ m = Cardinality(AcceptedWithin(k, from, to))'
    OBVIOUS
  <2>4. n \in Nat /\ m \in Nat /\ n <= m
    BY <2>3, CountsGrow
  <2>5. QED
    BY <1>2, <2>2, <2>3, <2>4
<1>4. CASE stage[r] = "new"
  <2>1. Consume(r)
    <3>1. ASSUME NEW x \in Requests, Consume(x), x # r PROVE FALSE
      <4>1. PICK s : stage' = [stage EXCEPT ![x] = s]
        BY <3>1, ConsumeCases
      <4>2. QED
        BY <1>4, <3>1, <4>1 DEF TypeOK
    <3>2. ASSUME NEW x \in Requests, Resolve(x) \/ TimeoutFires(x) PROVE FALSE
      BY <1>4, <3>2 DEF Resolve, TimeoutFires, TypeOK
    <3>3. ~(Restart \/ Tick \/ TheEnd \/ UNCHANGED vars)
      BY <1>4 DEF Restart, Tick, TheEnd, vars, requestVars
    <3>4. QED
      BY <3>1, <3>2, <3>3 DEF Next
  <2>2. PICK p, d, b, t, c1, e1 :
          /\ p = Config[k].points /\ d = Config[k].duration
          /\ b = BlockDuration(Config[k]) /\ t = now
          /\ c1 = record'[k].consumed /\ e1 = record'[k].expires
    OBVIOUS
  <2>3. /\ key[r] = k /\ now' = t /\ to = t /\ UNCHANGED key
        /\ askedAt'[r] = t
    BY <2>1, <2>2, ConsumeCases DEF TypeOK
  <2>4. /\ p \in Nat \ {0} /\ d \in Nat \ {0} /\ b \in Nat \ {0} /\ t \in Nat
        /\ c1 \in Nat /\ e1 \in Nat /\ c1 > p /\ e1 > t
    BY <1>1, <1>2, <2>1, <2>2, <2>3, ConfigType, RefusalFacts DEF TypeOK
  <2>5. PICK s \in 0..t : /\ Cardinality(Since(k, s))' >= p
                          /\ e1 < s + d + b
    <3>1. PICK s \in 0..now' : Began(k, s)'
      BY <1>2, <2>2, <2>4 DEF RecentInv
    <3>2. ~(c1 <= p)
      BY <2>4
    <3>3. QED
      BY <2>2, <2>3, <3>1, <3>2 DEF Began
  <2>6. s >= from
    BY <2>2, <2>3, <2>4, <2>5
  <2>7. Since(k, s)' \subseteq AcceptedWithin(k, from, to)'
    <3>1. ASSUME NEW q \in Requests, askedAt'[q] >= s PROVE askedAt'[q] \in from..to
      <4>1. askedAt'[q] \in Nat /\ askedAt'[q] <= t /\ from \in Int
        BY <1>1, <2>2, <2>3, <2>4 DEF TypeOK
      <4>2. QED
        BY <2>3, <2>4, <2>5, <2>6, <3>1, <4>1
    <3>2. QED
      BY <3>1 DEF Since, AcceptedWithin
  <2>8. AcceptedWithin(k, from, to)' \subseteq Arrived'
    BY DEF AcceptedWithin, Arrived, Accepted
  <2>9. PICK n, m : n = Cardinality(Since(k, s))'
                    /\ m = Cardinality(AcceptedWithin(k, from, to))'
    OBVIOUS
  <2>10. IsFiniteSet(AcceptedWithin(k, from, to)')
    BY <2>8, FS_Subset
  <2>11. n \in Nat /\ m \in Nat /\ n <= m
    BY <2>7, <2>9, <2>10, FS_Subset, FS_CardinalityType
  <2>12. QED
    BY <2>2, <2>4, <2>5, <2>9, <2>11
<1>5. QED
  BY <1>3, <1>4

(* All points of a counter were taken within a window and a block before a *)
(* refusal, for any configuration, however many requests are sent.         *)
THEOREM RefusalsAreRecent == Spec => []RefusalIsRecent
<1>1. Init => RecentInv /\ RefusalIsRecent
  BY DEF Init, RecentInv, NoRecord, RefusalIsRecent
<1>2. RateInv => IsFiniteSet(Arrived)
  BY DEF RateInv
<1>3. /\ IInv /\ RateInv /\ RateInv'
      /\ RecentInv /\ RefusalIsRecent /\ [Next]_vars
      => RecentInv' /\ RefusalIsRecent'
  <2> SUFFICES ASSUME IInv, RateInv, RateInv', RecentInv, RefusalIsRecent, [Next]_vars
               PROVE  RecentInv' /\ RefusalIsRecent'
    OBVIOUS
  <2>1. IsFiniteSet(Arrived) /\ IsFiniteSet(Arrived')
    BY DEF RateInv
  <2>2. RecentInv'
    BY <2>1, RecentStep
  <2>3. QED
    BY <2>1, <2>2, RefusalStep
<1>4. QED
  BY <1>1, <1>3, RateInvariance, PTL DEF Spec

=============================================================================
