------------------------- MODULE CircuitBreakerProofs -------------------------
(***************************************************************************)
(* Proofs about the circuit breaker for every number of workers, threshold *)
(* and cooldown.  Each operation has a lemma of its own, so that the       *)
(* modules built on the breaker can cite it.                               *)
(***************************************************************************)
EXTENDS CircuitBreaker, TLAPS

\* The inductive invariant: the bounds of the two TTLs carry OwedHalt, and
\* the coupling of gauge, opening time and counter carries MemoryAgrees, and
\* without Redis nobody ever has a command under way.
OnlySharedTrips == ~UseRedis => \A w \in Worker : command[w] = "none"

BreakerInv ==
    /\ BreakerTypeOK
    /\ OwedHalt
    /\ StreakIsConsecutive
    /\ MemoryAgrees
    /\ OnlySharedTrips

\* A cooldown never becomes an expiry of zero ("never round a cooldown down to 0").
LEMMA HaltTTLPositive == HaltTTL \in Nat /\ HaltTTL > 0
<1>1. Cooldown \in Nat /\ Second \in Nat /\ Second > 0
    BY SettingsAssumption, BoundsAssumption
<1>2. Cooldown \div Second \in Int
    BY <1>1
<1> DEFINE seconds == IF Cooldown \div Second < 1 THEN 1 ELSE Cooldown \div Second
<1>3. seconds \in Nat /\ seconds > 0
    BY <1>2
<1>4. HaltTTL = Second * seconds
    BY DEF HaltTTL
<1> HIDE DEF seconds
<1>5. Second * seconds \in Nat /\ Second * seconds > 0
    BY <1>1, <1>3
<1> QED
    BY <1>4, <1>5

\* A fresh store and fresh processes satisfy the invariant.
LEMMA InitInv == BreakerInit => BreakerInv
<1> SUFFICES ASSUME BreakerInit PROVE BreakerInv
    OBVIOUS
<1> USE SettingsAssumption, BoundsAssumption, HaltTTLPositive
<1>1. BreakerTypeOK
    <2>1. CountersOK
        BY DEF BreakerInit, CountersOK, NotOpen
    <2>2. FlagsOK
        <3>1. command \in [Worker -> Command] /\ resends \in [Worker -> 0..MaxResends]
            BY DEF BreakerInit, Command
        <3>2. gauge \in [Worker -> BOOLEAN] /\ lost \in BOOLEAN
            BY DEF BreakerInit
        <3> QED
            BY <3>1, <3>2 DEF FlagsOK
    <2> QED
        BY <2>1, <2>2 DEF BreakerTypeOK
<1>2. OwedHalt /\ StreakIsConsecutive /\ MemoryAgrees /\ OnlySharedTrips
    BY DEF BreakerInit, OwedHalt, Missing, StreakIsConsecutive, MemoryAgrees, OnlySharedTrips
<1> QED
    BY <1>1, <1>2 DEF BreakerInv

\* Moving on, or sending again, leaves a worker one command and its count of
\* lost replies, and every other worker what it had.
LEMMA PendingMoves ==
    ASSUME BreakerTypeOK, NEW w \in Worker, NEW c \in Command,
           Done(w, c) \/ Again(w, c)
    PROVE  /\ command' = [command EXCEPT ![w] = c]
           /\ command' \in [Worker -> Command]
           /\ resends' \in [Worker -> 0..MaxResends]
           /\ command'[w] = c
           /\ \A v \in Worker : v # w => command'[v] = command[v]
<1> USE BoundsAssumption DEF BreakerTypeOK, FlagsOK
<1>1. command' = [command EXCEPT ![w] = c]
    BY DEF Done, Again
<1>2. resends' \in [Worker -> 0..MaxResends]
    BY DEF Done, Again
<1> QED
    BY <1>1, <1>2

\* is_open changes no shared state; in memory it may close the breaker.
LEMMA IsOpenInv ==
    ASSUME BreakerInv, NEW w \in Worker, IsOpen(w)
    PROVE  BreakerInv'
<1> USE SettingsAssumption, BoundsAssumption
    DEF IsOpen, store, memory, pending, history, Reset, Publish, BreakerInv
<1>1. BreakerTypeOK'
    <2>1. CountersOK'
        BY DEF BreakerTypeOK, CountersOK, NotOpen
    <2>2. PICK published \in BOOLEAN : gauge' = [gauge EXCEPT ![w] = published] \/ gauge' = gauge
        <3>1. (halt > 0) \in BOOLEAN
            OBVIOUS
        <3> QED
            BY <3>1
    <2>3. FlagsOK'
        BY <2>2 DEF BreakerTypeOK, FlagsOK
    <2> QED
        BY <2>1, <2>3 DEF BreakerTypeOK
<1>2. OwedHalt' /\ StreakIsConsecutive'
    BY DEF OwedHalt, Missing, Owes, StreakIsConsecutive
<1>3. MemoryAgrees'
    BY DEF BreakerTypeOK, CountersOK, FlagsOK, MemoryAgrees, NotOpen
<1>4. OnlySharedTrips'
    BY DEF OnlySharedTrips
<1> QED
    BY <1>1, <1>2, <1>3, <1>4

\* A DEL, whether its reply arrives or not: the streak goes, the halt stays.
LEMMA DropStreakInv ==
    ASSUME BreakerInv, UseRedis, NEW w \in Worker, NEW c \in Command, DropStreak,
           Done(w, c) \/ Again(w, c), UNCHANGED <<memory, gauge>>
    PROVE  BreakerInv'
<1> USE SettingsAssumption, BoundsAssumption, HaltTTLPositive DEF DropStreak, memory, BreakerInv
<1>1. BreakerTypeOK'
    <2>1. CountersOK'
        BY DEF BreakerTypeOK, CountersOK
    <2>2. FlagsOK'
        BY PendingMoves DEF BreakerTypeOK, FlagsOK
    <2> QED
        BY <2>1, <2>2 DEF BreakerTypeOK
<1>2. OwedHalt' /\ StreakIsConsecutive' /\ MemoryAgrees' /\ OnlySharedTrips'
    BY DEF BreakerTypeOK, CountersOK, OwedHalt, Missing, StreakIsConsecutive, MemoryAgrees, OnlySharedTrips
<1> QED
    BY <1>1, <1>2

\* record_success: the streak goes, the halt stays.
LEMMA RecordSuccessInv ==
    ASSUME BreakerInv, NEW w \in Worker, RecordSuccess(w) \/ ClearStreakAgain(w)
    PROVE  BreakerInv'
<1> USE SettingsAssumption, BoundsAssumption, HaltTTLPositive
    DEF RecordSuccessMemory, store, memory, pending, history, Reset, BreakerInv
<1>1. CASE ClearStreak(w) \/ ClearStreakAgain(w)
    <2>1. "none" \in Command /\ "del" \in Command
        BY DEF Command
    <2> QED
        BY <1>1, <2>1, DropStreakInv DEF ClearStreak, ClearStreakAgain
<1>2. CASE RecordSuccessMemory(w)
    <2>1. BreakerTypeOK'
        <3>1. CountersOK'
            <4>1. UNCHANGED <<halt, streak, streakTTL, throttles, repeats>>
                BY <1>2
            <4>2. failures' = [failures EXCEPT ![w] = 0] /\ (age' = age \/ age' = [age EXCEPT ![w] = NotOpen])
                BY <1>2
            <4>3. failures' \in [Worker -> 0..MaxStreak] /\ age' \in [Worker -> NotOpen..Cooldown]
                BY <4>2 DEF BreakerTypeOK, CountersOK, NotOpen
            <4> QED
                BY <4>1, <4>3 DEF BreakerTypeOK, CountersOK
        <3>2. FlagsOK'
            <4>1. gauge' = gauge \/ gauge' = [gauge EXCEPT ![w] = FALSE]
                BY <1>2 DEF Publish
            <4>2. UNCHANGED <<command, resends, lost>>
                BY <1>2
            <4> QED
                BY <4>1, <4>2 DEF BreakerTypeOK, FlagsOK, RecordSuccessMemory
        <3> QED
            BY <3>1, <3>2 DEF BreakerTypeOK
    <2>2. OwedHalt' /\ StreakIsConsecutive'
        BY <1>2 DEF OwedHalt, Missing, Owes, StreakIsConsecutive
    <2>3. MemoryAgrees'
        BY <1>2 DEF BreakerTypeOK, CountersOK, FlagsOK, MemoryAgrees, NotOpen, Publish
    <2>4. OnlySharedTrips'
        BY <1>2 DEF OnlySharedTrips
    <2> QED
        BY <2>1, <2>2, <2>3, <2>4
<1> QED
    BY <1>1, <1>2 DEF RecordSuccess

\* One transmission of the MULTI: one count, a 429's first or one sent again.
LEMMA CountFailureBounds ==
    ASSUME BreakerTypeOK, StreakIsConsecutive, NEW w \in Worker, CountFailure(w)
    PROVE  /\ CountersOK' <=> failures' \in [Worker -> 0..MaxStreak] /\ age' \in [Worker -> NotOpen..Cooldown]
           /\ streak' \in 0..MaxStreak
           /\ throttles' \in 0..MaxStreak /\ repeats' \in 0..MaxStreak
           /\ streakTTL' = HaltTTL
           /\ halt' = halt
           /\ StreakIsConsecutive'
<1> USE BoundsAssumption, HaltTTLPositive DEF BreakerTypeOK, CountersOK, FlagsOK
<1>1. /\ streak' = Lesser(streak + 1, MaxStreak)
      /\ streakTTL' = HaltTTL /\ halt' = halt
      /\ throttles' = IF resends[w] = 0 THEN Lesser(throttles + 1, MaxStreak) ELSE throttles
      /\ repeats' = IF resends[w] > 0 THEN Lesser(repeats + 1, MaxStreak) ELSE repeats
    BY DEF CountFailure
<1>2. resends[w] \in Nat
    OBVIOUS
<1>3. /\ streak' \in 0..MaxStreak /\ streak' # 0
      /\ throttles' \in 0..MaxStreak /\ repeats' \in 0..MaxStreak
    BY <1>1 DEF Lesser
<1>4. throttles' <= streak'
    BY <1>1 DEF StreakIsConsecutive, Lesser
<1>5. streak' <= throttles' + repeats'
    BY <1>1, <1>2 DEF StreakIsConsecutive, Lesser
<1>6. CountersOK' <=> failures' \in [Worker -> 0..MaxStreak] /\ age' \in [Worker -> NotOpen..Cooldown]
    BY <1>1, <1>3
<1> QED
    BY <1>1, <1>3, <1>4, <1>5, <1>6 DEF StreakIsConsecutive

\* What follows a transmission leaves the worker owing a halt, or the streak
\* below the threshold, or the halt lost.
LEMMA CountFailureInv ==
    ASSUME BreakerInv, UseRedis, NEW w \in Worker, CountFailure(w),
           NEW c \in Command, Done(w, c) \/ Again(w, c), UNCHANGED <<memory, gauge>>,
           lost' \in BOOLEAN,
           streak' >= Threshold => lost' \/ c \in {"incr", "set"}
    PROVE  BreakerInv'
<1> USE SettingsAssumption, BoundsAssumption, HaltTTLPositive DEF memory, BreakerInv
<1>1. /\ streak' \in 0..MaxStreak /\ throttles' \in 0..MaxStreak /\ repeats' \in 0..MaxStreak
      /\ StreakIsConsecutive'
      /\ CountersOK' <=> failures' \in [Worker -> 0..MaxStreak] /\ age' \in [Worker -> NotOpen..Cooldown]
    BY CountFailureBounds
<1>2. BreakerTypeOK'
    <2>1. CountersOK'
        BY <1>1 DEF BreakerTypeOK, CountersOK
    <2>2. FlagsOK'
        BY PendingMoves DEF BreakerTypeOK, FlagsOK
    <2> QED
        BY <2>1, <2>2 DEF BreakerTypeOK
<1>3. OwedHalt'
    <2>1. command'[w] = c
        BY PendingMoves
    <2> QED
        BY <2>1 DEF OwedHalt, Missing, Owes
<1>4. MemoryAgrees' /\ OnlySharedTrips'
    BY DEF MemoryAgrees, OnlySharedTrips
<1> QED
    BY <1>1, <1>2, <1>3, <1>4

\* record_failure: a streak at the threshold leaves its worker owing a halt.
LEMMA RecordFailureInv ==
    ASSUME BreakerInv, NEW w \in Worker, RecordFailure(w) \/ RecordFailureAgain(w) \/ RecordFailureUnheard(w)
    PROVE  BreakerInv'
<1>1. CASE RecordFailureShared(w) \/ RecordFailureAgain(w) \/ RecordFailureUnheard(w)
    <2>1. "none" \in Command /\ "set" \in Command /\ "incr" \in Command
        BY DEF Command
    <2>2. CASE RecordFailureShared(w)
        <3>1. CASE streak' >= Threshold
            BY <2>1, <2>2, <3>1, CountFailureInv DEF RecordFailureShared
        <3>2. CASE ~(streak' >= Threshold)
            BY <2>1, <2>2, <3>2, CountFailureInv DEF RecordFailureShared
        <3> QED
            BY <3>1, <3>2
    <2>3. CASE RecordFailureAgain(w)
        BY <2>1, <2>3, CountFailureInv DEF RecordFailureAgain
    <2>4. CASE RecordFailureUnheard(w)
        <3>1. CASE streak' >= Threshold
            <4>1. lost' = TRUE
                BY <2>4, <3>1 DEF RecordFailureUnheard
            <4> QED
                BY <2>1, <2>4, <4>1, CountFailureInv DEF RecordFailureUnheard
        <3>2. CASE ~(streak' >= Threshold)
            <4>1. (streak' >= Threshold) \in BOOLEAN
                OBVIOUS
            <4>2. lost' \in BOOLEAN
                BY <2>4, <4>1 DEF RecordFailureUnheard
            <4> QED
                BY <2>1, <2>4, <3>2, <4>2, CountFailureInv DEF RecordFailureUnheard
        <3> QED
            BY <3>1, <3>2
    <2> QED
        BY <1>1, <2>2, <2>3, <2>4
<1>2. CASE RecordFailureMemory(w)
    <2> USE SettingsAssumption, BoundsAssumption, HaltTTLPositive
        DEF memory, store, pending, history, Publish, BreakerInv
    <2>1. failures' \in [Worker -> 0..MaxStreak]
        BY <1>2 DEF RecordFailureMemory, BreakerTypeOK, CountersOK, FlagsOK, Lesser
    <2>2. BreakerTypeOK'
        <3>1. CountersOK'
            BY <1>2, <2>1 DEF RecordFailureMemory, BreakerTypeOK, CountersOK, NotOpen
        <3>2. FlagsOK'
            BY <1>2 DEF RecordFailureMemory, BreakerTypeOK, FlagsOK
        <3> QED
            BY <3>1, <3>2 DEF BreakerTypeOK
    <2>3. OwedHalt' /\ StreakIsConsecutive'
        BY <1>2 DEF RecordFailureMemory, OwedHalt, Missing, Owes, StreakIsConsecutive
    <2>4. MemoryAgrees'
        BY <1>2 DEF RecordFailureMemory, BreakerTypeOK, CountersOK, FlagsOK, MemoryAgrees, NotOpen, Lesser
    <2>5. OnlySharedTrips'
        BY <1>2 DEF RecordFailureMemory, OnlySharedTrips
    <2> QED
        BY <2>2, <2>3, <2>4, <2>5
<1> QED
    BY <1>1, <1>2 DEF RecordFailure

\* The SET, whether its reply arrives or not: a halt that covers every streak
\* there can be.
LEMMA SetHaltInv ==
    ASSUME BreakerInv, NEW w \in Worker, SetHalt(w) \/ SetHaltAgain(w) \/ SetHaltUnheard(w)
    PROVE  BreakerInv'
<1> USE SettingsAssumption, BoundsAssumption, HaltTTLPositive DEF StartHalt, memory, BreakerInv
<1>1. StartHalt(w)
    BY DEF SetHalt, SetHaltAgain, SetHaltUnheard
<1>2. UseRedis
    BY <1>1 DEF OnlySharedTrips
<1>3. PICK c \in Command : Done(w, c) \/ Again(w, c)
    BY DEF SetHalt, SetHaltAgain, SetHaltUnheard, Command
<1>4. BreakerTypeOK'
    <2>1. CountersOK'
        BY <1>1 DEF BreakerTypeOK, CountersOK
    <2>2. gauge' \in [Worker -> BOOLEAN]
        BY DEF SetHalt, SetHaltAgain, SetHaltUnheard, Publish, BreakerTypeOK, FlagsOK
    <2>3. FlagsOK'
        BY <1>1, <1>3, <2>2, PendingMoves DEF BreakerTypeOK, FlagsOK
    <2> QED
        BY <2>1, <2>3 DEF BreakerTypeOK
<1>5. OwedHalt' /\ StreakIsConsecutive' /\ MemoryAgrees' /\ OnlySharedTrips'
    BY <1>1, <1>2 DEF BreakerTypeOK, CountersOK, OwedHalt, Missing, StreakIsConsecutive, MemoryAgrees, OnlySharedTrips
<1> QED
    BY <1>4, <1>5

\* A worker whose command is given up leaves what it owed as lost.
LEMMA GivenUpIsLost ==
    ASSUME BreakerInv, NEW w \in Worker, Done(w, "none"), UNCHANGED store,
           lost' = (lost \/ (Missing /\ Owes(w)))
    PROVE  OwedHalt' /\ OnlySharedTrips' /\ lost' \in BOOLEAN
           /\ command' \in [Worker -> Command] /\ resends' \in [Worker -> 0..MaxResends]
<1> USE DEF BreakerInv
<1>1. "none" \in Command
    BY DEF Command
<1>2. /\ \A v \in Worker : v # w => command'[v] = command[v]
      /\ command'[w] = "none"
      /\ command' \in [Worker -> Command] /\ resends' \in [Worker -> 0..MaxResends]
    BY <1>1, PendingMoves
<1>3. Missing' = Missing
    BY DEF Missing, store
<1>4. OwedHalt'
    <2> SUFFICES ASSUME Missing' PROVE lost' \/ \E v \in Worker : Owes(v)'
        BY DEF OwedHalt
    <2>1. CASE lost \/ Owes(w)
        BY <1>3, <2>1
    <2>2. CASE ~lost /\ ~Owes(w)
        <3>1. PICK v \in Worker : Owes(v)
            BY <1>3, <2>2 DEF OwedHalt
        <3>2. v # w
            BY <2>2, <3>1
        <3>3. Owes(v)'
            BY <1>2, <3>1, <3>2 DEF Owes
        <3> QED
            BY <3>3
    <2> QED
        BY <2>1, <2>2
<1>5. OnlySharedTrips'
    BY <1>2 DEF OnlySharedTrips
<1>6. lost' \in BOOLEAN
    <2>1. lost \in BOOLEAN
        BY DEF BreakerTypeOK, FlagsOK
    <2> QED
        BY <2>1
<1> QED
    BY <1>2, <1>4, <1>5, <1>6

\* A command that raises: what its worker owed is lost.
LEMMA RaiseInv ==
    ASSUME BreakerInv, NEW w \in Worker, Raise(w)
    PROVE  BreakerInv'
<1>1. OwedHalt' /\ OnlySharedTrips' /\ lost' \in BOOLEAN
      /\ command' \in [Worker -> Command] /\ resends' \in [Worker -> 0..MaxResends]
    BY GivenUpIsLost DEF Raise
<1> USE DEF Raise, store, memory, BreakerInv
<1>2. BreakerTypeOK'
    <2>1. CountersOK'
        BY DEF BreakerTypeOK, CountersOK
    <2>2. FlagsOK'
        BY <1>1 DEF BreakerTypeOK, FlagsOK
    <2> QED
        BY <2>1, <2>2 DEF BreakerTypeOK
<1>3. StreakIsConsecutive' /\ MemoryAgrees'
    BY DEF StreakIsConsecutive, MemoryAgrees
<1> QED
    BY <1>1, <1>2, <1>3

\* A new process: its memory is clean, the shared keys are as they were.
LEMMA NewProcessInv ==
    ASSUME BreakerInv, NEW w \in Worker, NewProcess(w)
    PROVE  BreakerInv'
<1>1. OwedHalt' /\ OnlySharedTrips' /\ lost' \in BOOLEAN
      /\ command' \in [Worker -> Command] /\ resends' \in [Worker -> 0..MaxResends]
    BY GivenUpIsLost DEF NewProcess
<1> USE SettingsAssumption, BoundsAssumption DEF NewProcess, Reset, Publish, store, BreakerInv
<1>2. BreakerTypeOK'
    <2>1. CountersOK'
        BY DEF BreakerTypeOK, CountersOK, NotOpen
    <2>2. FlagsOK'
        BY <1>1 DEF BreakerTypeOK, FlagsOK
    <2> QED
        BY <2>1, <2>2 DEF BreakerTypeOK
<1>3. StreakIsConsecutive'
    BY DEF StreakIsConsecutive
<1>4. MemoryAgrees'
    BY DEF BreakerTypeOK, CountersOK, FlagsOK, MemoryAgrees, NotOpen
<1> QED
    BY <1>1, <1>2, <1>3, <1>4

\* A tick: both keys run down together, so the halt still covers the streak.
LEMMA TickInv ==
    ASSUME BreakerInv, Tick
    PROVE  BreakerInv'
<1> USE SettingsAssumption, BoundsAssumption, HaltTTLPositive DEF Tick, pending, BreakerInv
<1>1. BreakerTypeOK'
    <2>1. age' \in [Worker -> NotOpen..Cooldown]
        BY DEF BreakerTypeOK, CountersOK, FlagsOK, NotOpen, Lesser
    <2>2. CountersOK'
        BY <2>1 DEF BreakerTypeOK, CountersOK
    <2>3. FlagsOK'
        BY DEF BreakerTypeOK, FlagsOK
    <2> QED
        BY <2>2, <2>3 DEF BreakerTypeOK
<1>2. OwedHalt'
    <2> SUFFICES ASSUME Missing' PROVE lost' \/ \E v \in Worker : Owes(v)'
        BY DEF OwedHalt
    <2>1. Missing /\ lost' = lost
        BY DEF Missing, BreakerTypeOK, CountersOK
    <2> QED
        BY <2>1 DEF OwedHalt, Owes
<1>3. StreakIsConsecutive'
    BY DEF BreakerTypeOK, CountersOK, FlagsOK, StreakIsConsecutive
<1>4. MemoryAgrees'
    BY DEF BreakerTypeOK, CountersOK, FlagsOK, MemoryAgrees, NotOpen, Lesser
<1>5. OnlySharedTrips'
    BY DEF OnlySharedTrips
<1> QED
    BY <1>1, <1>2, <1>3, <1>4, <1>5

\* What leaves the breaker alone leaves its invariant alone.
LEMMA BreakerUnchanged ==
    ASSUME BreakerInv, UNCHANGED breaker
    PROVE  BreakerInv'
<1> USE DEF breaker, store, pending, memory, history, BreakerInv
<1>1. BreakerTypeOK'
    BY DEF BreakerTypeOK, CountersOK, FlagsOK
<1>2. OwedHalt'
    BY DEF OwedHalt, Missing, Owes
<1>3. StreakIsConsecutive' /\ MemoryAgrees' /\ OnlySharedTrips'
    BY DEF StreakIsConsecutive, MemoryAgrees, OnlySharedTrips
<1> QED
    BY <1>1, <1>2, <1>3

-----------------------------------------------------------------------------
\* Every operation of the breaker, fault and tick preserves the invariant.
LEMMA NextInv == BreakerInv /\ [BreakerNext]_breaker => BreakerInv'
<1> SUFFICES ASSUME BreakerInv, [BreakerNext]_breaker PROVE BreakerInv'
    OBVIOUS
<1>1. CASE Tick
    BY <1>1, TickInv
<1>2. ASSUME NEW w \in Worker, WorkerStep(w) PROVE BreakerInv'
    BY <1>2, IsOpenInv, RecordSuccessInv, RecordFailureInv, SetHaltInv, RaiseInv, NewProcessInv
    DEF WorkerStep
<1>3. CASE UNCHANGED breaker
    BY <1>3, BreakerUnchanged
<1> QED
    BY <1>1, <1>2, <1>3 DEF BreakerNext

\* The inductive invariant holds in every state of the breaker on its own.
THEOREM BreakerSafe == BreakerSpec => []BreakerInv
<1> QED
    BY InitInv, NextInv, PTL DEF BreakerSpec

(***************************************************************************)
(* The breaker keeps its types, whatever its callers do: TTLs never exceed *)
(* the cooldown rounded to seconds, counters never pass their bound.       *)
(***************************************************************************)
THEOREM TypeCorrect == BreakerSpec => []BreakerTypeOK
<1>1. BreakerInv => BreakerTypeOK
    BY DEF BreakerInv
<1> QED
    BY <1>1, BreakerSafe, PTL

(***************************************************************************)
(* For any number of workers: a full streak that would outlive the halt is *)
(* owed by a worker between INCR and SET, or was lost there.               *)
(***************************************************************************)
THEOREM HaltIsOwed == BreakerSpec => []OwedHalt
<1>1. BreakerInv => OwedHalt
    BY DEF BreakerInv
<1> QED
    BY <1>1, BreakerSafe, PTL

(***************************************************************************)
(* However DELs, expiries and transmissions of any number of workers       *)
(* interleave, the shared streak holds the 429s recorded since the last    *)
(* success or lapse, and beyond them only what was sent again since.       *)
(***************************************************************************)
THEOREM StreakIsEarned == BreakerSpec => []StreakIsConsecutive
<1>1. BreakerInv => StreakIsConsecutive
    BY DEF BreakerInv
<1> QED
    BY <1>1, BreakerSafe, PTL

\* In memory the gauge, the opening time and the failure counter agree.
THEOREM MemoryIsConsistent == BreakerSpec => []MemoryAgrees
<1>1. BreakerInv => MemoryAgrees
    BY DEF BreakerInv
<1> QED
    BY <1>1, BreakerSafe, PTL

\* A step of a worker never shortens the halt.
LEMMA WorkerKeepsHalt ==
    ASSUME BreakerInv, NEW w \in Worker, WorkerStep(w)
    PROVE  halt' = halt \/ halt' = HaltTTL
<1> USE DEF store
<1>1. IsOpen(w) => halt' = halt
    BY DEF IsOpen
<1>2. RecordSuccess(w) \/ ClearStreakAgain(w) => halt' = halt
    BY DEF RecordSuccess, ClearStreak, ClearStreakAgain, DropStreak, RecordSuccessMemory
<1>3. RecordFailure(w) \/ RecordFailureAgain(w) \/ RecordFailureUnheard(w) => halt' = halt
    BY DEF RecordFailure, RecordFailureShared, RecordFailureMemory, RecordFailureAgain,
        RecordFailureUnheard, CountFailure
<1>4. SetHalt(w) \/ SetHaltAgain(w) \/ SetHaltUnheard(w) => halt' = HaltTTL
    BY DEF SetHalt, SetHaltAgain, SetHaltUnheard, StartHalt
<1>5. Raise(w) \/ NewProcess(w) => halt' = halt
    BY DEF Raise, NewProcess
<1> QED
    BY <1>1, <1>2, <1>3, <1>4, <1>5 DEF WorkerStep

(***************************************************************************)
(* No success, error, crash or restart of any worker cuts a shared halt    *)
(* short: only the clock lowers it.                                        *)
(***************************************************************************)
THEOREM HaltNeverCut == BreakerSpec => NoEarlyCancel
<1>1. BreakerInv /\ [BreakerNext]_breaker =>
        [halt' < halt => halt' = halt - 1 /\ Tick]_breaker
    <2> SUFFICES ASSUME BreakerInv, [BreakerNext]_breaker, halt' < halt
                 PROVE  halt' = halt - 1 /\ Tick
        OBVIOUS
    <2>1. halt \in 0..HaltTTL /\ HaltTTL \in Nat
        BY HaltTTLPositive DEF BreakerInv, BreakerTypeOK, CountersOK
    <2>2. CASE Tick
        BY <2>1, <2>2 DEF Tick
    <2>3. ASSUME NEW w \in Worker, WorkerStep(w) PROVE FALSE
        BY <2>1, <2>3, WorkerKeepsHalt
    <2>4. CASE UNCHANGED breaker
        BY <2>1, <2>4 DEF breaker, store
    <2> QED
        BY <2>2, <2>3, <2>4 DEF BreakerNext
<1> QED
    BY <1>1, BreakerSafe, PTL DEF BreakerSpec, NoEarlyCancel

\* Only the MULTI whose reply shows a full streak makes a worker owe a halt.
LEMMA OwingStarts ==
    ASSUME BreakerInv, NEW w \in Worker, WorkerStep(w),
           NEW v \in Worker, command'[v] = "set", command[v] # "set"
    PROVE  RecordFailureShared(w) /\ streak' >= Threshold
<1>1. command \in [Worker -> Command]
    BY DEF BreakerInv, BreakerTypeOK, FlagsOK
<1>2. ASSUME NEW c, command' = [command EXCEPT ![w] = c], c # "set" PROVE FALSE
    BY <1>1, <1>2
<1>3. CASE command' = command
    BY <1>3
<1>4. CASE RecordFailureShared(w)
    <2>1. command' = [command EXCEPT ![w] = IF streak' >= Threshold THEN "set" ELSE "none"]
        BY <1>4 DEF RecordFailureShared, Done
    <2> QED
        BY <1>1, <1>4, <2>1
<1>5. CASE SetHaltAgain(w)
    <2>1. command' = [command EXCEPT ![w] = "set"] /\ command[w] = "set"
        BY <1>5 DEF SetHaltAgain, StartHalt, Again
    <2> QED
        BY <1>1, <2>1
<1>6. CASE ~RecordFailureShared(w) /\ ~SetHaltAgain(w)
    <2>1. \/ command' = command
          \/ \E c \in {"none", "incr", "del"} : command' = [command EXCEPT ![w] = c]
        BY <1>6 DEF WorkerStep, IsOpen, pending, RecordSuccess, ClearStreak, ClearStreakAgain, RecordSuccessMemory,
            RecordFailure, RecordFailureMemory, RecordFailureAgain, RecordFailureUnheard,
            SetHalt, SetHaltUnheard, Raise, NewProcess, Done, Again
    <2> QED
        BY <1>2, <1>3, <2>1
<1> QED
    BY <1>4, <1>5, <1>6

(***************************************************************************)
(* A worker comes to owe a halt only behind 429s recorded since the last   *)
(* success of any worker, and MULTIs sent again since, that reach the      *)
(* threshold together.                                                     *)
(***************************************************************************)
THEOREM TripsAreEarned == BreakerSpec => TripIsEarned
<1>1. BreakerInv /\ [BreakerNext]_breaker =>
        [\A w \in Worker : command'[w] = "set" /\ command[w] # "set" =>
            throttles' + repeats' >= Threshold]_breaker
    <2> SUFFICES ASSUME BreakerInv, [BreakerNext]_breaker,
                        NEW v \in Worker, command'[v] = "set", command[v] # "set"
                 PROVE  throttles' + repeats' >= Threshold
        OBVIOUS
    <2>1. CASE Tick
        BY <2>1 DEF Tick, pending
    <2>2. CASE UNCHANGED breaker
        BY <2>2 DEF breaker, pending
    <2>3. ASSUME NEW w \in Worker, WorkerStep(w)
          PROVE  throttles' + repeats' >= Threshold
        <3>1. RecordFailureShared(w) /\ streak' >= Threshold
            BY <2>3, OwingStarts
        <3>2. /\ streak' \in 0..MaxStreak /\ throttles' \in 0..MaxStreak /\ repeats' \in 0..MaxStreak
              /\ StreakIsConsecutive'
            BY <3>1, CountFailureBounds DEF RecordFailureShared, BreakerInv
        <3> QED
            BY <3>1, <3>2, SettingsAssumption, BoundsAssumption DEF StreakIsConsecutive
    <2> QED
        BY <2>1, <2>2, <2>3 DEF BreakerNext
<1> QED
    BY <1>1, BreakerSafe, PTL DEF BreakerSpec, TripIsEarned
=============================================================================
