---------------------------- MODULE IpGuardProofs ----------------------------
(***************************************************************************)
(* Proofs about the IP guard, for any number of workers, any skew up to a  *)
(* window, and every window and threshold.                                 *)
(***************************************************************************)
EXTENDS IpGuard, TLAPS

\* The slowest clock that is possible reaches the end of bucket b.
EndOf(b) == (b + 1) * Window

\* While any clock may still be in b, its key lives on and has counted every
\* attempt made in b; and attempts from the own IP are attempts.
KeyOutlives ==
    \A b \in Bucket :
        /\ taken[b] > 0 /\ now < EndOf(b) => ttl[b] >= EndOf(b) - now /\ counter[b] >= taken[b]
        /\ direct[b] <= taken[b]

\* The bucket of the slowest clock i ticks ago, or at the start.
Slowest(i) == (IF i <= now THEN now - i ELSE 0) \div Window

\* The attempts from the own IP in b, if b is a bucket of this behaviour.
Own(b) == IF b \in Bucket THEN direct[b] ELSE 0

\* Since the tick i ticks ago no clock was outside of three buckets, and no
\* attempt was made in a bucket that no clock can have reached.
RecentPlaced ==
    /\ \A i \in 0..(Window - 1) : recent[i] <= Own(Slowest(i)) + Own(Slowest(i) + 1) + Own(Slowest(i) + 2)
    /\ \A b \in Bucket : direct[b] > 0 => b <= (now + MaxSkew) \div Window

Inv == TypeOK /\ KeyOutlives /\ DirectBudget /\ RecentPlaced

-----------------------------------------------------------------------------
(* Arithmetic *)

\* What a quotient says of its dividend.
LEMMA DivBounds ==
    ASSUME NEW x \in Nat, NEW d \in Nat \ {0}
    PROVE  x \div d \in Nat /\ (x \div d) * d <= x /\ x < (x \div d + 1) * d
OBVIOUS

\* Products are monotonic.
LEMMA TimesMonotonic ==
    ASSUME NEW p \in Nat, NEW q \in Nat, NEW d \in Nat, p <= q
    PROVE  p * d <= q * d
<1>1. (q - p) * d >= 0 /\ (q - p) * d = q * d - p * d
  OBVIOUS
<1> QED BY <1>1

\* Quotients are monotonic.
LEMMA DivMonotonic ==
    ASSUME NEW x \in Nat, NEW y \in Nat, NEW d \in Nat \ {0}, x <= y
    PROVE  x \div d <= y \div d
<1> DEFINE p == x \div d
           q == y \div d
<1>1. p \in Nat /\ q \in Nat /\ p * d <= x /\ y < (q + 1) * d
  BY DivBounds
<1> HIDE DEF p, q
<1>2. SUFFICES ASSUME q + 1 <= p PROVE FALSE
  BY <1>1 DEF p, q
<1>3. (q + 1) * d <= p * d
  BY <1>1, <1>2, TimesMonotonic
<1>4. p * d \in Nat /\ (q + 1) * d \in Nat
  BY <1>1
<1> QED BY <1>1, <1>3, <1>4

\* Whoever is k divisors behind has a quotient at most k smaller.
LEMMA DivApart ==
    ASSUME NEW x \in Nat, NEW y \in Nat, NEW d \in Nat \ {0}, NEW k \in Nat, x <= y + k * d
    PROVE  x \div d <= y \div d + k
<1> DEFINE p == x \div d
           q == y \div d
<1>1. p \in Nat /\ q \in Nat /\ p * d <= x /\ y < (q + 1) * d
  BY DivBounds
<1> HIDE DEF p, q
<1>2. SUFFICES ASSUME q + k + 1 <= p PROVE FALSE
  BY <1>1 DEF p, q
<1>3. (q + k + 1) * d <= p * d
  BY <1>1, <1>2, TimesMonotonic
<1>4. (q + k + 1) * d = (q + 1) * d + k * d
  BY <1>1
<1>5. p * d \in Nat /\ (q + 1) * d \in Nat /\ k * d \in Nat
  BY <1>1
<1> HIDE DEF p, q
<1> QED BY <1>1, <1>3, <1>4, <1>5

\* A worker's bucket exists, has not ended, and began at most a window ago.
LEMMA BucketNow ==
    ASSUME TypeOK, NEW w \in Worker
    PROVE  /\ BucketOf(w) \in Bucket
           /\ now < EndOf(BucketOf(w))
           /\ EndOf(BucketOf(w)) <= now + 2 * Window
<1> DEFINE x == now + skew[w]
           b == x \div Window
<1>1. x \in Nat /\ now \in Nat /\ now <= x /\ x <= now + Window /\ x <= MaxTime + MaxSkew
  <2>1. now \in 0..MaxTime /\ skew[w] \in 0..MaxSkew
    BY DEF TypeOK
  <2> QED BY <2>1, GuardAssumption DEF GuardSettings
<1>2. Window \in Nat \ {0} /\ MaxTime + MaxSkew \in Nat
  BY GuardAssumption DEF GuardSettings
<1>3. b \in Nat /\ b * Window <= x /\ x < (b + 1) * Window
  BY <1>1, <1>2, DivBounds
<1>4. b <= (MaxTime + MaxSkew) \div Window
  BY <1>1, <1>2, DivMonotonic
<1>5. (b + 1) * Window = b * Window + Window /\ b * Window \in Nat
  BY <1>2, <1>3
<1>6. (MaxTime + MaxSkew) \div Window \in Nat
  BY <1>2, DivBounds
<1>7. b \in Bucket
  BY <1>3, <1>4, <1>6 DEF Bucket
<1> HIDE DEF b, x
<1>8. now < (b + 1) * Window /\ (b + 1) * Window <= now + 2 * Window
  BY <1>1, <1>2, <1>3, <1>5
<1> QED BY <1>7, <1>8 DEF EndOf, BucketOf, b, x

\* Buckets, and their ends, are naturals.
LEMMA BucketNat == ASSUME NEW b \in Bucket PROVE b \in Nat /\ EndOf(b) \in Nat
<1>1. Window \in Nat \ {0} /\ MaxTime + MaxSkew \in Nat
  BY GuardAssumption DEF GuardSettings
<1>2. b \in Nat
  BY <1>1, DivBounds DEF Bucket
<1> QED BY <1>1, <1>2 DEF EndOf

-----------------------------------------------------------------------------
\* Nothing is counted at first.
LEMMA InitInv == Init => Inv
<1> SUFFICES ASSUME Init PROVE Inv
  OBVIOUS
<1>1. TypeOK
  BY GuardAssumption DEF Init, TypeOK, GuardSettings, Lifetime
<1>2. KeyOutlives
  BY DEF Init, KeyOutlives
<1>3. DirectBudget
  BY GuardAssumption DEF Init, DirectBudget, GuardSettings
<1>4. RecentPlaced
  <2>1. ASSUME NEW b PROVE Own(b) = 0
    BY DEF Init, Own
  <2>2. ASSUME NEW i \in 0..(Window - 1) PROVE recent[i] <= Own(Slowest(i)) + Own(Slowest(i) + 1) + Own(Slowest(i) + 2)
    BY <2>1 DEF Init
  <2> QED BY <2>2 DEF Init, RecentPlaced
<1> QED BY <1>1, <1>2, <1>3, <1>4 DEF Inv

\* A token: the key counts at least one more and lives two windows from now.
LEMMA RecordCounts ==
    ASSUME TypeOK, NEW b \in Bucket, Record(b)
    PROVE  /\ counter' \in [Bucket -> 0..(MaxCount + MaxResends)]
           /\ ttl' \in [Bucket -> 0..Lifetime]
           /\ counter'[b] > counter[b] /\ counter[b] < MaxCount
           /\ ttl'[b] = 2 * Window
           /\ \A c \in Bucket \ {b} : counter'[c] = counter[c] /\ ttl'[c] = ttl[c]
<1>1. PICK sent \in 1..(1 + MaxResends) : counter' = [counter EXCEPT ![b] = counter[b] + sent]
  BY DEF Record
<1>2. Lifetime \in Nat /\ Lifetime = 2 * Window
  BY GuardAssumption DEF Lifetime, GuardSettings
<1>3. counter[b] + sent \in 0..(MaxCount + MaxResends)
  BY GuardAssumption DEF TypeOK, Record
<1> QED BY <1>1, <1>2, <1>3 DEF TypeOK, Record

\* An attempt now is made in one of the three buckets of each of the last ticks.
LEMMA BucketNear ==
    ASSUME TypeOK, NEW w \in Worker, NEW i \in 0..(Window - 1)
    PROVE  /\ Slowest(i) \in Nat
           /\ BucketOf(w) \in Slowest(i)..(Slowest(i) + 2)
           /\ BucketOf(w) <= (now + MaxSkew) \div Window
<1> DEFINE x == now + skew[w]
           y == IF i <= now THEN now - i ELSE 0
<1>1. Window \in Nat \ {0} /\ MaxSkew \in Nat /\ MaxSkew <= Window /\ i \in Nat /\ i < Window
  BY GuardAssumption DEF GuardSettings
<1>2. now \in Nat /\ skew[w] \in Nat /\ skew[w] <= MaxSkew
  BY <1>1, GuardAssumption DEF TypeOK
<1>3. x \in Nat /\ y \in Nat /\ y <= x /\ x <= y + 2 * Window /\ x <= now + MaxSkew /\ now + MaxSkew \in Nat
  BY <1>1, <1>2
<1> HIDE DEF x, y
<1>4. y \div Window \in Nat /\ x \div Window \in Nat
  BY <1>1, <1>3, DivBounds
<1>5. y \div Window <= x \div Window /\ x \div Window <= (now + MaxSkew) \div Window
  BY <1>1, <1>3, DivMonotonic
<1>6. x \div Window <= y \div Window + 2
  BY <1>1, <1>3, DivApart
<1>7. Slowest(i) = y \div Window /\ BucketOf(w) = x \div Window
  BY DEF Slowest, BucketOf, x, y
<1> QED BY <1>4, <1>5, <1>6, <1>7

\* What left from the own IP since a tick is in the three buckets of that tick.
LEMMA AttemptPlaced ==
    ASSUME TypeOK, RecentPlaced, NEW w \in Worker, UNCHANGED <<now, skew>>,
           \/ UNCHANGED <<direct, recent>>
           \/ /\ direct' = [direct EXCEPT ![BucketOf(w)] = direct[BucketOf(w)] + 1]
              /\ recent' = [i \in 0..(Window - 1) |-> recent[i] + 1]
    PROVE  RecentPlaced'
<1>1. CASE UNCHANGED <<direct, recent>>
  BY <1>1 DEF RecentPlaced, Own, Slowest
<1>2. CASE /\ direct' = [direct EXCEPT ![BucketOf(w)] = direct[BucketOf(w)] + 1]
           /\ recent' = [i \in 0..(Window - 1) |-> recent[i] + 1]
  <2> DEFINE b == BucketOf(w)
  <2>1. b \in Bucket
    BY BucketNow
  <2>2. ASSUME NEW c PROVE Own(c)' = (IF c = b THEN Own(c) + 1 ELSE Own(c)) /\ Own(c) \in Nat
    BY <1>2, <2>1, GuardAssumption DEF Own, TypeOK
  <2>3. ASSUME NEW i \in 0..(Window - 1)
        PROVE  recent'[i] <= Own(Slowest(i))' + Own(Slowest(i) + 1)' + Own(Slowest(i) + 2)'
    <3> DEFINE f == Slowest(i)
    <3>1. f \in Nat /\ b \in f..(f + 2) /\ f' = f
      BY BucketNear DEF Slowest
    <3>2. recent'[i] = recent[i] + 1 /\ recent[i] \in Nat /\ recent[i] <= Own(f) + Own(f + 1) + Own(f + 2)
      BY <1>2 DEF TypeOK, RecentPlaced
    <3> HIDE DEF f, b
    <3>3. b = f \/ b = f + 1 \/ b = f + 2
      BY <3>1
    <3>4. /\ Own(f)' = (IF f = b THEN Own(f) + 1 ELSE Own(f)) /\ Own(f) \in Nat
          /\ Own(f + 1)' = (IF f + 1 = b THEN Own(f + 1) + 1 ELSE Own(f + 1)) /\ Own(f + 1) \in Nat
          /\ Own(f + 2)' = (IF f + 2 = b THEN Own(f + 2) + 1 ELSE Own(f + 2)) /\ Own(f + 2) \in Nat
      BY <2>2, <3>1
    <3>5. recent'[i] <= Own(f)' + Own(f + 1)' + Own(f + 2)'
      BY <3>1, <3>2, <3>3, <3>4
    <3> QED BY <3>5 DEF f
  <2>4. ASSUME NEW c \in Bucket, direct'[c] > 0 PROVE c <= (now + MaxSkew) \div Window
    <3>1. CASE c = b
      <4>1. 0 \in 0..(Window - 1)
        BY GuardAssumption DEF GuardSettings
      <4> QED BY <3>1, <4>1, BucketNear
    <3>2. CASE c # b
      BY <1>2, <2>4, <3>2 DEF TypeOK, RecentPlaced
    <3> QED BY <3>1, <3>2
  <2> QED BY <2>3, <2>4 DEF RecentPlaced
<1> QED BY <1>1, <1>2

\* The attempt of w counts once more in its bucket, whose key lives on for two windows.
LEMMA AttemptKeeps == ASSUME NEW w \in Worker, NEW force \in BOOLEAN, Inv, Attempt(w, force) PROVE Inv'
<1> DEFINE b == BucketOf(w)
<1>1. b \in Bucket /\ now < EndOf(b) /\ EndOf(b) <= now + 2 * Window
  BY BucketNow DEF Inv
<1>2. Record(b) /\ taken' = [taken EXCEPT ![b] = taken[b] + 1] /\ UNCHANGED <<now, skew>>
  BY DEF Attempt
<1> DEFINE own == ~ShouldUse(Mode(counter'[b]), force)
<1>3. \/ own /\ direct' = [direct EXCEPT ![b] = direct[b] + 1] /\ recent' = [i \in 0..(Window - 1) |-> recent[i] + 1]
      \/ ~own /\ UNCHANGED <<direct, recent>>
  BY DEF Attempt
<1>4. own /\ ProxyEnabled => counter'[b] < AggressiveAt
  <2>1. SUFFICES ASSUME own, ProxyEnabled, counter'[b] >= AggressiveAt PROVE FALSE
    BY <1>1, <1>2, RecordCounts, GuardAssumption DEF Inv, GuardSettings
  <2> QED BY <2>1 DEF ShouldUse, Mode
<1>5. /\ counter' \in [Bucket -> 0..(MaxCount + MaxResends)]
      /\ ttl' \in [Bucket -> 0..Lifetime]
      /\ counter'[b] > counter[b] /\ counter[b] < MaxCount
      /\ ttl'[b] = 2 * Window
      /\ \A c \in Bucket \ {b} : counter'[c] = counter[c] /\ ttl'[c] = ttl[c]
  BY <1>1, <1>2, RecordCounts DEF Inv
<1> HIDE DEF own, b
<1>6. taken[b] \in Nat /\ counter[b] \in Nat /\ direct[b] \in Nat /\ now \in Nat /\ EndOf(b) \in Nat
  BY <1>1, BucketNat DEF Inv, TypeOK
<1>7. taken[b] <= counter[b] /\ direct[b] <= taken[b]
  BY <1>1, <1>6 DEF Inv, KeyOutlives
<1>8. counter'[b] \in Nat
  BY <1>1, <1>5, GuardAssumption
<1>9. TypeOK'
  <2>1. taken' \in [Bucket -> 0..MaxCount]
    BY <1>1, <1>2, <1>5, <1>6, <1>7, GuardAssumption DEF Inv, TypeOK
  <2>2. direct' \in [Bucket -> 0..MaxCount]
    <3>1. direct[b] + 1 \in 0..MaxCount
      BY <1>1, <1>5, <1>6, <1>7, GuardAssumption
    <3>2. direct' = direct \/ direct' = [direct EXCEPT ![b] = direct[b] + 1]
      BY <1>3
    <3>3. direct \in [Bucket -> 0..MaxCount]
      BY DEF Inv, TypeOK
    <3> QED BY <3>1, <3>2, <3>3
  <2>3. recent' \in [0..(Window - 1) -> Nat]
    <3>1. recent \in [0..(Window - 1) -> Nat] /\ 0 \in 0..(Window - 1)
      BY GuardAssumption DEF Inv, TypeOK, GuardSettings
    <3>2. recent' = recent \/ recent' = [i \in 0..(Window - 1) |-> recent[i] + 1]
      BY <1>3
    <3> QED BY <3>1, <3>2
  <2> QED BY <1>2, <1>5, <2>1, <2>2, <2>3 DEF Inv, TypeOK
<1>10. ASSUME NEW c \in Bucket
       PROVE  /\ taken'[c] > 0 /\ now' < EndOf(c) => ttl'[c] >= EndOf(c) - now' /\ counter'[c] >= taken'[c]
              /\ direct'[c] <= taken'[c]
  <2>1. CASE c = b
    <3>1. taken'[b] = taken[b] + 1 /\ direct'[b] <= direct[b] + 1 /\ now' = now
      BY <1>1, <1>2, <1>3, <1>6 DEF Inv, TypeOK
    <3>2. Window \in Nat
      BY GuardAssumption DEF GuardSettings
    <3>3. direct'[b] \in Nat
      BY <1>1, <1>9, GuardAssumption DEF TypeOK
    <3> QED BY <2>1, <3>1, <3>2, <3>3, <1>1, <1>5, <1>6, <1>7, <1>8
  <2>2. CASE c # b
    <3>1. taken'[c] = taken[c] /\ direct'[c] = direct[c] /\ now' = now /\ counter'[c] = counter[c] /\ ttl'[c] = ttl[c]
      BY <2>2, <1>1, <1>2, <1>3, <1>5 DEF Inv, TypeOK
    <3> QED BY <3>1 DEF Inv, KeyOutlives
  <2> QED BY <2>1, <2>2
<1>11. DirectBudget'
  <2>1. SUFFICES ASSUME ProxyEnabled, NEW c \in Bucket PROVE direct'[c] < AggressiveAt
    BY DEF DirectBudget
  <2>2. direct[c] < AggressiveAt
    BY <2>1 DEF Inv, DirectBudget
  <2>3. CASE own /\ c = b
    <3>1. direct'[b] = direct[b] + 1 /\ counter'[b] < AggressiveAt
      BY <1>1, <1>3, <1>4, <2>1, <2>3 DEF Inv, TypeOK
    <3> QED BY <2>3, <3>1, <1>5, <1>6, <1>7, <1>8, GuardAssumption DEF GuardSettings
  <2>4. CASE ~(own /\ c = b)
    <3>1. direct'[c] = direct[c]
      BY <1>1, <1>3, <2>4 DEF Inv, TypeOK
    <3> QED BY <2>2, <3>1
  <2> QED BY <2>3, <2>4
<1>12. RecentPlaced'
  <2>1. \/ UNCHANGED <<direct, recent>>
        \/ /\ direct' = [direct EXCEPT ![b] = direct[b] + 1]
           /\ recent' = [i \in 0..(Window - 1) |-> recent[i] + 1]
    BY <1>3
  <2> QED BY <1>2, <2>1, AttemptPlaced DEF b, Inv
<1> QED BY <1>9, <1>10, <1>11, <1>12 DEF Inv, KeyOutlives

\* A count nobody hears of only adds to the key.
LEMMA AttemptUnheardKeeps == ASSUME NEW w \in Worker, Inv, AttemptUnheard(w) PROVE Inv'
<1> DEFINE b == BucketOf(w)
<1>1. b \in Bucket /\ now < EndOf(b) /\ EndOf(b) <= now + 2 * Window
  BY BucketNow DEF Inv
<1>2. Record(b) /\ UNCHANGED <<now, skew, taken, direct, recent>>
  BY DEF AttemptUnheard
<1>3. /\ counter' \in [Bucket -> 0..(MaxCount + MaxResends)]
      /\ ttl' \in [Bucket -> 0..Lifetime]
      /\ counter'[b] > counter[b]
      /\ ttl'[b] = 2 * Window
      /\ \A c \in Bucket \ {b} : counter'[c] = counter[c] /\ ttl'[c] = ttl[c]
  BY <1>1, <1>2, RecordCounts DEF Inv
<1> HIDE DEF b
<1>4. TypeOK' /\ DirectBudget'
  BY <1>2, <1>3 DEF Inv, TypeOK, DirectBudget
<1>7. RecentPlaced'
  BY <1>2 DEF Inv, RecentPlaced, Own, Slowest
<1>5. taken[b] \in Nat /\ counter[b] \in Nat /\ counter'[b] \in Nat /\ now \in Nat /\ EndOf(b) \in Nat
  BY <1>1, <1>3, BucketNat, GuardAssumption DEF Inv, TypeOK
<1>6. ASSUME NEW c \in Bucket
      PROVE  /\ taken'[c] > 0 /\ now' < EndOf(c) => ttl'[c] >= EndOf(c) - now' /\ counter'[c] >= taken'[c]
             /\ direct'[c] <= taken'[c]
  <2>1. CASE c = b
    <3>1. Window \in Nat
      BY GuardAssumption DEF GuardSettings
    <3> QED BY <2>1, <3>1, <1>1, <1>2, <1>3, <1>5 DEF Inv, KeyOutlives
  <2>2. CASE c # b
    BY <2>2, <1>2, <1>3 DEF Inv, KeyOutlives
  <2> QED BY <2>1, <2>2
<1> QED BY <1>4, <1>6, <1>7 DEF Inv, KeyOutlives

\* A tick takes as much from what is left of a bucket as from its key's life.
LEMMA TickKeeps == Inv /\ Tick => Inv'
<1> SUFFICES ASSUME Inv, Tick PROVE Inv'
  OBVIOUS
<1>1. now \in Nat /\ now' = now + 1 /\ now' \in 0..MaxTime /\ UNCHANGED <<skew, taken, direct>>
  BY GuardAssumption DEF Inv, TypeOK, Tick
<1>2. Lifetime \in Nat
  BY GuardAssumption DEF Lifetime, GuardSettings
<1>3. ttl' \in [Bucket -> 0..Lifetime] /\ counter' \in [Bucket -> 0..(MaxCount + MaxResends)]
  BY <1>2, GuardAssumption DEF Inv, TypeOK, Tick
<1>4. recent' \in [0..(Window - 1) -> Nat]
  BY GuardAssumption DEF Inv, TypeOK, Tick, GuardSettings
<1>5. TypeOK' /\ DirectBudget'
  BY <1>1, <1>3, <1>4 DEF Inv, TypeOK, DirectBudget
<1>6. ASSUME NEW c \in Bucket, taken[c] > 0, now + 1 < EndOf(c)
      PROVE  ttl'[c] >= EndOf(c) - (now + 1) /\ counter'[c] >= taken[c]
  <2>1. EndOf(c) \in Nat /\ ttl[c] \in Nat
    BY BucketNat, <1>2 DEF Inv, TypeOK
  <2>2. ttl[c] >= EndOf(c) - now /\ counter[c] >= taken[c]
    BY <1>1, <1>6, <2>1 DEF Inv, KeyOutlives
  <2>3. ttl[c] > 1
    BY <1>1, <1>6, <2>1, <2>2
  <2>4. ttl'[c] = ttl[c] - 1 /\ counter'[c] = (IF ttl'[c] > 0 THEN counter[c] ELSE 0)
    BY <2>1, <2>3 DEF Tick
  <2> QED BY <1>1, <2>1, <2>2, <2>3, <2>4
<1>7. RecentPlaced'
  <2>1. ASSUME NEW b PROVE Own(b)' = Own(b) /\ Own(b) \in Nat
    BY <1>1, GuardAssumption DEF Own, Inv, TypeOK
  <2>2. ASSUME NEW i \in 0..(Window - 1)
        PROVE  recent'[i] <= Own(Slowest(i)') + Own(Slowest(i)' + 1) + Own(Slowest(i)' + 2)
    <3>1. CASE i = 0
      <4>1. recent'[i] = 0
        BY <3>1 DEF Tick
      <4>2. Own(Slowest(i)') \in Nat /\ Own(Slowest(i)' + 1) \in Nat /\ Own(Slowest(i)' + 2) \in Nat
        BY <2>1
      <4> QED BY <4>1, <4>2
    <3>2. CASE i # 0
      <4>1. i - 1 \in 0..(Window - 1)
        BY <3>2, GuardAssumption DEF GuardSettings
      <4>2. recent'[i] = recent[i - 1]
        BY <3>2 DEF Tick
      <4>3. (i <= now + 1) = (i - 1 <= now) /\ now + 1 - i = now - (i - 1)
        BY <1>1, <3>2, GuardAssumption DEF GuardSettings
      <4>4. Slowest(i)' = Slowest(i - 1)
        BY <1>1, <4>3 DEF Slowest
      <4> QED BY <4>1, <4>2, <4>4 DEF Inv, RecentPlaced
    <3> QED BY <3>1, <3>2
  <2>3. ASSUME NEW b \in Bucket, direct[b] > 0 PROVE b <= (now' + MaxSkew) \div Window
    <3>1. MaxSkew \in Nat /\ Window \in Nat \ {0}
      BY GuardAssumption DEF GuardSettings
    <3>2. (now + MaxSkew) \div Window <= (now' + MaxSkew) \div Window
      BY <1>1, <3>1, DivMonotonic
    <3>3. (now + MaxSkew) \div Window \in Nat /\ (now' + MaxSkew) \div Window \in Nat /\ b \in Nat
      BY <1>1, <3>1, DivBounds, BucketNat
    <3>4. b <= (now + MaxSkew) \div Window
      BY <2>3 DEF Inv, RecentPlaced
    <3> QED BY <3>2, <3>3, <3>4
  <2>4. \A i \in 0..(Window - 1) : (Own(Slowest(i)) + Own(Slowest(i) + 1) + Own(Slowest(i) + 2))' =
                                   Own(Slowest(i)') + Own(Slowest(i)' + 1) + Own(Slowest(i)' + 2)
    BY <1>1 DEF Own
  <2> QED BY <1>1, <2>2, <2>3, <2>4 DEF RecentPlaced
<1> QED BY <1>1, <1>5, <1>6, <1>7 DEF Inv, KeyOutlives

\* A stutter keeps it.
LEMMA StutterKeeps == Inv /\ UNCHANGED vars => Inv'
BY DEF Inv, TypeOK, KeyOutlives, DirectBudget, RecentPlaced, Own, Slowest, vars

\* Every step keeps the invariant.
LEMMA NextKeeps == Inv /\ [Next]_vars => Inv'
<1> SUFFICES ASSUME Inv, [Next]_vars PROVE Inv'
  OBVIOUS
<1>1. CASE Tick
  BY <1>1, TickKeeps
<1>2. ASSUME NEW w \in Worker, AttemptUnheard(w) PROVE Inv'
  BY <1>2, AttemptUnheardKeeps
<1>3. ASSUME NEW w \in Worker, NEW force \in BOOLEAN, Attempt(w, force) PROVE Inv'
  BY <1>3, AttemptKeeps
<1>4. CASE UNCHANGED vars
  BY <1>4, StutterKeeps
<1> QED BY <1>1, <1>2, <1>3, <1>4 DEF Next

\* As long as a clock is in the bucket, the invariant is completeness.
LEMMA InvCounts == Inv => CountIsComplete
<1> SUFFICES ASSUME Inv, NEW b \in Bucket, NEW w \in Worker, BucketOf(w) = b
             PROVE  counter[b] >= taken[b]
  BY DEF CountIsComplete
<1>1. now < EndOf(b)
  BY BucketNow DEF Inv
<1>2. taken[b] \in Nat /\ counter[b] \in Nat
  BY GuardAssumption DEF Inv, TypeOK
<1> QED BY <1>1, <1>2 DEF Inv, KeyOutlives

\* The buckets a window touches cover it, whatever the skew.
LEMMA TouchedCovers ==
    /\ Touched - 1 \in Nat
    /\ Window + MaxSkew - 1 <= (Touched - 1) * Window
<1>1. Window \in Nat \ {0} /\ MaxSkew \in Nat
  BY GuardAssumption DEF GuardSettings
<1>2. CASE Window + MaxSkew = 1
  <2>1. Window = 1 /\ MaxSkew = 0
    BY <1>1, <1>2
  <2>2. (1 + 0 - 2) \div 1 = -1
    OBVIOUS
  <2> QED BY <2>1, <2>2 DEF Touched
<1>3. CASE Window + MaxSkew # 1
  <2> DEFINE n == Window + MaxSkew - 2
             q == n \div Window
  <2>1. n \in Nat
    BY <1>1, <1>3
  <2>2. q \in Nat /\ n < (q + 1) * Window
    BY <1>1, <2>1, DivBounds
  <2>3. Touched - 1 = q + 1
    BY <2>2 DEF Touched
  <2> HIDE DEF q
  <2>4. (q + 1) * Window \in Nat
    BY <1>1, <2>2
  <2>5. n + 1 <= (q + 1) * Window
    BY <2>1, <2>2, <2>4
  <2> QED BY <1>1, <2>2, <2>3, <2>5
<1> QED BY <1>2, <1>3

\* The budgets of the buckets a window touches bound what the window sees.
LEMMA InvWindow == Inv => WindowBudget
<1> SUFFICES ASSUME Inv, ProxyEnabled PROVE recent[Window - 1] <= Touched * (AggressiveAt - 1)
  BY DEF WindowBudget
<1> DEFINE i == Window - 1
           f == Slowest(i)
           last == (now + MaxSkew) \div Window
           k == Touched - 1
           a == AggressiveAt - 1
<1>1. Window \in Nat \ {0} /\ MaxSkew \in Nat /\ now \in Nat /\ i \in 0..(Window - 1) /\ a \in Nat
  BY GuardAssumption DEF GuardSettings, Inv, TypeOK
<1>2. k \in Nat /\ Window + MaxSkew - 1 <= k * Window
  BY TouchedCovers
<1>3. f \in Nat /\ last \in Nat /\ last <= f + k
  <2> DEFINE y == IF i <= now THEN now - i ELSE 0
  <2>1. y \in Nat /\ now + MaxSkew \in Nat /\ now + MaxSkew <= y + (Window + MaxSkew - 1)
    BY <1>1
  <2> HIDE DEF y, k
  <2>2. k * Window \in Nat
    BY <1>1, <1>2
  <2>3. now + MaxSkew <= y + k * Window
    BY <1>1, <1>2, <2>1, <2>2
  <2>4. f = y \div Window
    BY DEF Slowest, y
  <2> QED BY <1>1, <1>2, <2>1, <2>3, <2>4, DivBounds, DivApart
<1>4. ASSUME NEW c \in Nat PROVE Own(c) \in Nat /\ Own(c) <= a /\ (c > last => Own(c) = 0)
  <2>1. CASE c \in Bucket
    <3>1. direct[c] \in Nat /\ direct[c] < AggressiveAt /\ AggressiveAt \in Nat
      BY <2>1, GuardAssumption DEF Inv, TypeOK, DirectBudget, GuardSettings
    <3>2. direct[c] > 0 => c <= last
      BY <2>1 DEF Inv, RecentPlaced
    <3> HIDE DEF last
    <3> QED BY <1>1, <1>3, <2>1, <3>1, <3>2 DEF Own
  <2>2. CASE c \notin Bucket
    BY <1>1, <2>2 DEF Own
  <2> QED BY <2>1, <2>2
<1>5. recent[i] \in Nat /\ recent[i] <= Own(f) + Own(f + 1) + Own(f + 2)
  BY <1>1 DEF Inv, TypeOK, RecentPlaced
<1> HIDE DEF f, last, a, k
<1>6. /\ Own(f) \in Nat /\ Own(f) <= a
      /\ Own(f + 1) \in Nat /\ Own(f + 1) <= a /\ (f + 1 > last => Own(f + 1) = 0)
      /\ Own(f + 2) \in Nat /\ Own(f + 2) <= a /\ (f + 2 > last => Own(f + 2) = 0)
  BY <1>3, <1>4
<1> HIDE DEF i
<1>7. recent[i] <= (k + 1) * a
  <2>1. CASE k = 0
    BY <1>1, <1>3, <1>5, <1>6, <2>1
  <2>2. CASE k = 1
    <3>1. (k + 1) * a = a + a
      BY <1>1, <2>2
    <3> QED BY <1>1, <1>3, <1>5, <1>6, <2>2, <3>1
  <2>3. CASE k >= 2
    <3>1. 3 * a <= (k + 1) * a
      BY <1>1, <1>2, <2>3, TimesMonotonic
    <3>2. (k + 1) * a \in Nat
      BY <1>1, <1>2
    <3> QED BY <1>1, <1>5, <1>6, <3>1, <3>2
  <2> QED BY <1>2, <2>1, <2>2, <2>3
<1>8. k + 1 = Touched
  <2>1. Touched - 1 \in Nat
    BY TouchedCovers
  <2>2. Touched \in Int
    BY <1>1, DivBounds DEF Touched
  <2> QED BY <2>1, <2>2 DEF k
<1> QED BY <1>7, <1>8 DEF i, a

-----------------------------------------------------------------------------
\* The invariant of the guard.
THEOREM GuardInvariant == Spec => []Inv
BY InitInv, NextKeeps, PTL DEF Spec

\* The guard's variables keep their types: no key lives longer than two
\* windows, no bucket takes more tokens than it counts.
THEOREM GuardTypeCorrect == Spec => []TypeOK
BY GuardInvariant, PTL DEF Inv

\* A key outlives its bucket on every worker's clock.
THEOREM CountComplete == Spec => []CountIsComplete
BY GuardInvariant, InvCounts, PTL

\* The direct budget of a bucket holds for any number of workers.
THEOREM BudgetHolds == Spec => []DirectBudget
BY GuardInvariant, PTL DEF Inv

\* A sliding window sees no more than the budgets of the buckets it touches,
\* for every window, skew and number of workers.
THEOREM WindowBudgetHolds == Spec => []WindowBudget
BY GuardInvariant, InvWindow, PTL
=============================================================================
