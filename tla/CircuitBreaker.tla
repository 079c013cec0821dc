---------------------------- MODULE CircuitBreaker ----------------------------
(***************************************************************************)
(* The per-source circuit breaker of ingestion/circuit_breaker.py.         *)
(*                                                                         *)
(* One CircuitBreaker object lives in each worker process of a source.     *)
(* With a Redis client (UseRedis) the halt and the streak of 429s are two  *)
(* keys every worker shares, and their TTLs are the only clock.  Without   *)
(* one, each process keeps its own counter and its own opening time.       *)
(*                                                                         *)
(* Time is counted in ticks, Second of them to a second: Redis expiries    *)
(* are whole seconds while the cooldown is a float.                        *)
(***************************************************************************)
EXTENDS Integers

CONSTANTS
    Worker,      \* the worker processes of one source
    UseRedis,    \* self._redis is not None
    Threshold,   \* consecutive 429s that open the breaker
    Cooldown,    \* cooldown_seconds, in ticks
    Second,      \* ticks in one second
    MaxResends,  \* times redis-py may send a command again when its reply is lost
    MaxStreak    \* bound: the streak and the failure counters saturate here

ASSUME SettingsAssumption ==
    /\ UseRedis \in BOOLEAN
    /\ Threshold \in Int
    /\ Cooldown \in Nat

ASSUME BoundsAssumption ==
    /\ Second \in Nat \ {0}
    /\ MaxResends \in Nat
    /\ MaxStreak \in Nat \ {0}
    /\ MaxStreak >= Threshold

VARIABLES
    halt,       \* remaining TTL of breaker:{source}:open, 0 when the key is absent
    streak,     \* value of breaker:{source}:failures, 0 when the key is absent
    streakTTL,  \* remaining TTL of breaker:{source}:failures
    command,    \* command[w]: what w is about to send again, or has yet to SET
    resends,    \* resends[w]: replies to that command that were lost so far
    failures,   \* failures[w]: _failures
    age,        \* age[w]: clock() - _opened_at, NotOpen for None, capped at Cooldown
    gauge,      \* gauge[w]: what w's circuit_breaker_state series says
    throttles,  \* history: 429s first recorded in Redis since the last success or lapse
    repeats,    \* history: MULTIs sent again since the last success or lapse
    lost        \* history: a worker died or failed while it owed a halt

store   == <<halt, streak, streakTTL>>
memory  == <<failures, age>>
pending == <<command, resends>>
history == <<throttles, repeats, lost>>
breaker == <<store, pending, memory, gauge, history>>

\* "set": w read streak >= threshold and owes the halt.  "incr" and "del": the
\* command ran, its reply was lost, and redis-py is going to send it again.
Command == {"none", "incr", "set", "del"}

NotOpen == -1

Lesser(a, b) == IF a < b THEN a ELSE b

\* Mutant of HaltTTL: the cooldown is rounded down.
HaltTTLTruncated == Second * (Cooldown \div Second)

\* _ttl_seconds, in ticks: whole seconds, and never zero of them.
HaltTTL ==
    LET seconds == Cooldown \div Second
    IN  Second * (IF seconds < 1 THEN 1 ELSE seconds)

BreakerInit ==
    /\ halt = 0 /\ streak = 0 /\ streakTTL = 0
    /\ command = [w \in Worker |-> "none"]
    /\ resends = [w \in Worker |-> 0]
    /\ failures = [w \in Worker |-> 0]
    /\ age = [w \in Worker |-> NotOpen]
    /\ gauge = [w \in Worker |-> FALSE]
    /\ throttles = 0 /\ repeats = 0
    /\ lost = FALSE

\* The command of w is over; `next` is what it has to send after it.
Done(w, next) ==
    /\ command' = [command EXCEPT ![w] = next]
    /\ resends' = [resends EXCEPT ![w] = 0]

\* The command of w ran, its reply was lost, and redis-py sends it again.
Again(w, same) ==
    /\ resends[w] < MaxResends
    /\ command' = [command EXCEPT ![w] = same]
    /\ resends' = [resends EXCEPT ![w] = resends[w] + 1]

Publish(w, isOpen) == gauge' = [gauge EXCEPT ![w] = isOpen]

Reset(w) ==
    /\ failures' = [failures EXCEPT ![w] = 0]
    /\ age' = [age EXCEPT ![w] = NotOpen]
    /\ Publish(w, FALSE)

\* Mutant of Halted: the worker trusts the gauge it last published.
HaltedStale(w) == IF UseRedis THEN gauge[w] ELSE age[w] # NotOpen /\ age[w] < Cooldown

\* Mutant of Halted: the in-memory cooldown ends a tick early.
HaltedShort(w) == IF UseRedis THEN halt > 0 ELSE age[w] # NotOpen /\ age[w] + 1 < Cooldown

\* The value is_open returns to w.
Halted(w) == IF UseRedis THEN halt > 0 ELSE age[w] # NotOpen /\ age[w] < Cooldown

\* Mutant of IsOpen: what was observed in Redis is not published.
IsOpenUnpublished(w) ==
    /\ \/ UseRedis /\ UNCHANGED <<memory, gauge>>
       \/ ~UseRedis /\ age[w] # NotOpen /\ age[w] >= Cooldown /\ Reset(w)
       \/ ~UseRedis /\ (age[w] = NotOpen \/ age[w] < Cooldown) /\ UNCHANGED <<memory, gauge>>
    /\ UNCHANGED <<store, pending, history>>

\* What evaluating is_open changes: the published gauge, and in memory the
\* reset that a cooldown which has run out brings.
IsOpen(w) ==
    /\ \/ UseRedis /\ Publish(w, halt > 0) /\ UNCHANGED memory
       \/ ~UseRedis /\ age[w] # NotOpen /\ age[w] >= Cooldown /\ Reset(w)
       \/ ~UseRedis /\ (age[w] = NotOpen \/ age[w] < Cooldown) /\ UNCHANGED <<memory, gauge>>
    /\ UNCHANGED <<store, pending, history>>

\* Mutant of DropStreak: a success deletes both keys.
DropBoth ==
    /\ halt' = 0 /\ streak' = 0 /\ streakTTL' = 0
    /\ throttles' = 0 /\ repeats' = 0 /\ lost' = FALSE

\* Mutant of DropStreak: a success deletes nothing.
DropNothing ==
    /\ throttles' = 0 /\ repeats' = 0
    /\ UNCHANGED <<store, lost>>

\* The DEL of record_success: only the streak goes, the halt is the TTL's job.
DropStreak ==
    /\ streak' = 0 /\ streakTTL' = 0
    /\ throttles' = 0 /\ repeats' = 0 /\ lost' = FALSE
    /\ UNCHANGED halt

\* record_success with Redis, for the last time it sends its DEL.
ClearStreak(w) ==
    /\ UseRedis /\ command[w] \in {"none", "del"}
    /\ DropStreak
    /\ Done(w, "none")
    /\ UNCHANGED <<memory, gauge>>

ClearStreakAgain(w) ==
    /\ UseRedis /\ command[w] \in {"none", "del"}
    /\ DropStreak
    /\ Again(w, "del")
    /\ UNCHANGED <<memory, gauge>>

\* record_success in memory.
RecordSuccessMemory(w) ==
    /\ ~UseRedis
    /\ \/ age[w] # NotOpen /\ Reset(w)
       \/ age[w] = NotOpen /\ failures' = [failures EXCEPT ![w] = 0] /\ UNCHANGED <<age, gauge>>
    /\ UNCHANGED <<store, pending, history>>

RecordSuccess(w) == ClearStreak(w) \/ RecordSuccessMemory(w)

\* One transmission of the MULTI of INCR and EXPIRE.  A 429 whose reply is lost
\* is counted again when the MULTI is sent again.
CountFailure(w) ==
    /\ streak' = Lesser(streak + 1, MaxStreak)
    /\ streakTTL' = HaltTTL
    /\ throttles' = IF resends[w] = 0 THEN Lesser(throttles + 1, MaxStreak) ELSE throttles
    /\ repeats' = IF resends[w] > 0 THEN Lesser(repeats + 1, MaxStreak) ELSE repeats
    /\ UNCHANGED halt

\* Mutant of RecordFailureShared: only the 429 that reaches the threshold trips.
RecordFailureExact(w) ==
    /\ UseRedis /\ command[w] \in {"none", "incr"}
    /\ CountFailure(w)
    /\ Done(w, IF streak' = Threshold THEN "set" ELSE "none")
    /\ lost' = FALSE
    /\ UNCHANGED <<memory, gauge>>

\* Mutant of RecordFailureShared: the streak is compared off by one.
RecordFailureEarly(w) ==
    /\ UseRedis /\ command[w] \in {"none", "incr"}
    /\ CountFailure(w)
    /\ Done(w, IF streak' + 1 >= Threshold THEN "set" ELSE "none")
    /\ lost' = FALSE
    /\ UNCHANGED <<memory, gauge>>

\* _record_failure_shared up to the comparison with the threshold, for the
\* transmission whose reply arrives.
RecordFailureShared(w) ==
    /\ UseRedis /\ command[w] \in {"none", "incr"}
    /\ CountFailure(w)
    /\ Done(w, IF streak' >= Threshold THEN "set" ELSE "none")
    /\ lost' = FALSE
    /\ UNCHANGED <<memory, gauge>>

\* The reply is lost and the MULTI will be sent again: until then anybody may
\* count, clear or let lapse what this transmission has counted.
RecordFailureAgain(w) ==
    /\ UseRedis /\ command[w] \in {"none", "incr"}
    /\ CountFailure(w)
    /\ Again(w, "incr")
    /\ lost' = FALSE
    /\ UNCHANGED <<memory, gauge>>

\* The reply is lost for good: the error surfaces, the 429 is counted, and
\* nobody looks at the streak.
RecordFailureUnheard(w) ==
    /\ UseRedis /\ command[w] \in {"none", "incr"}
    /\ CountFailure(w)
    /\ Done(w, "none")
    /\ lost' = (streak' >= Threshold)
    /\ UNCHANGED <<memory, gauge>>

\* The SET ... EX that follows when the streak has reached the threshold.
StartHalt(w) ==
    /\ command[w] = "set"
    /\ halt' = HaltTTL
    /\ lost' = FALSE
    /\ UNCHANGED <<streak, streakTTL, memory, throttles, repeats>>

SetHalt(w) == StartHalt(w) /\ Done(w, "none") /\ Publish(w, TRUE)

SetHaltAgain(w) == StartHalt(w) /\ Again(w, "set") /\ UNCHANGED gauge

\* The halt is set, and the error that surfaces keeps w from publishing it.
SetHaltUnheard(w) == StartHalt(w) /\ Done(w, "none") /\ UNCHANGED gauge

\* Mutant of RecordFailureMemory: opening is not published.
RecordFailureSilent(w) ==
    /\ ~UseRedis
    /\ failures' = [failures EXCEPT ![w] = Lesser(failures[w] + 1, MaxStreak)]
    /\ IF age[w] = NotOpen /\ failures'[w] >= Threshold
         THEN age' = [age EXCEPT ![w] = 0]
         ELSE UNCHANGED age
    /\ UNCHANGED <<gauge, store, pending, history>>

\* record_failure in memory.
RecordFailureMemory(w) ==
    /\ ~UseRedis
    /\ failures' = [failures EXCEPT ![w] = Lesser(failures[w] + 1, MaxStreak)]
    /\ IF age[w] = NotOpen /\ failures'[w] >= Threshold
         THEN age' = [age EXCEPT ![w] = 0] /\ Publish(w, TRUE)
         ELSE UNCHANGED <<age, gauge>>
    /\ UNCHANGED <<store, pending, history>>

RecordFailure(w) == RecordFailureShared(w) \/ RecordFailureMemory(w)

\* w is going to look at the streak it counted, or to set the halt.
Owes(w) == command[w] \in {"incr", "set"}

\* A full streak that would outlive the halt.
Missing == streak >= Threshold /\ halt < streakTTL

\* A Redis command of w raised: the stack frame that owed a SET is gone.
Raise(w) ==
    /\ UseRedis
    /\ Done(w, "none")
    /\ lost' = (lost \/ (Missing /\ Owes(w)))
    /\ UNCHANGED <<store, memory, gauge, throttles, repeats>>

\* The process of w ends, killed or done, and the next job starts a new one.
NewProcess(w) ==
    /\ Done(w, "none")
    /\ lost' = (lost \/ (Missing /\ Owes(w)))
    /\ Reset(w)
    /\ UNCHANGED <<store, throttles, repeats>>

\* One tick: Redis expires keys, the processes' clocks advance.
Tick ==
    /\ halt' = IF halt > 0 THEN halt - 1 ELSE 0
    /\ streakTTL' = IF streakTTL > 0 THEN streakTTL - 1 ELSE 0
    /\ IF streakTTL' = 0
         THEN streak' = 0 /\ throttles' = 0 /\ repeats' = 0 /\ lost' = FALSE
         ELSE UNCHANGED <<streak, throttles, repeats, lost>>
    /\ age' = [w \in Worker |-> IF age[w] = NotOpen THEN NotOpen ELSE Lesser(age[w] + 1, Cooldown)]
    /\ UNCHANGED <<pending, failures, gauge>>

-----------------------------------------------------------------------------
(* The breaker on its own: workers call its public operations in any order. *)

WorkerStep(w) ==
    \/ command[w] = "none" /\ IsOpen(w)
    \/ RecordSuccess(w) \/ ClearStreakAgain(w)
    \/ RecordFailure(w) \/ RecordFailureAgain(w) \/ RecordFailureUnheard(w)
    \/ SetHalt(w) \/ SetHaltAgain(w) \/ SetHaltUnheard(w)
    \/ Raise(w)
    \/ NewProcess(w)

BreakerNext == Tick \/ \E w \in Worker : WorkerStep(w)

BreakerSpec == BreakerInit /\ [][BreakerNext]_breaker

-----------------------------------------------------------------------------
CountersOK ==
    /\ halt \in 0..HaltTTL
    /\ streak \in 0..MaxStreak
    /\ streakTTL \in 0..HaltTTL
    /\ streak = 0 <=> streakTTL = 0
    /\ failures \in [Worker -> 0..MaxStreak]
    /\ age \in [Worker -> NotOpen..Cooldown]
    /\ throttles \in 0..MaxStreak
    /\ repeats \in 0..MaxStreak

FlagsOK ==
    /\ command \in [Worker -> Command]
    /\ resends \in [Worker -> 0..MaxResends]
    /\ gauge \in [Worker -> BOOLEAN]
    /\ lost \in BOOLEAN

BreakerTypeOK == CountersOK /\ FlagsOK

(***************************************************************************)
(* INCR and SET are two round trips, each of them perhaps sent again.      *)
(* Whenever the shared streak has reached the threshold and would outlive  *)
(* the halt, some worker is still between the two, or one was lost there:  *)
(* once the pending SETs are done a lifted halt never leaves a full streak *)
(* behind (_record_failure_shared, the two equal expiries).                *)
(***************************************************************************)
OwedHalt == Missing => lost \/ \E w \in Worker : Owes(w)

(***************************************************************************)
(* The shared streak is consecutive: no success of any worker, and no      *)
(* lapse, lies between the counts it is made of.  Each 429 recorded since  *)
(* is in it, and every further count is a MULTI that was sent again since  *)
(* for want of a reply; what was counted before is gone, also when another *)
(* worker's DEL or the expiry comes between two transmissions of one MULTI *)
(* (record_success deletes the key, EXPIRE lets a quiet streak lapse).     *)
(***************************************************************************)
StreakIsConsecutive ==
    /\ throttles <= streak
    /\ streak <= throttles + repeats

(***************************************************************************)
(* In memory the gauge, the opening time and the counter agree: the series *)
(* reads 1 exactly while _opened_at is set, and it is set only by          *)
(* Threshold failures that no success interrupted.                         *)
(***************************************************************************)
MemoryAgrees ==
    ~UseRedis => \A w \in Worker :
        /\ gauge[w] <=> age[w] # NotOpen
        /\ age[w] # NotOpen => failures[w] >= Threshold

(***************************************************************************)
(* A shared halt is never cut short: it only runs down with the clock, one *)
(* tick at a time, whatever successes, errors or restarts the workers see  *)
(* ("an in-flight success from another worker must not cancel an IP-wide   *)
(* halt").                                                                 *)
(***************************************************************************)
NoEarlyCancel == [][halt' < halt => halt' = halt - 1 /\ Tick]_breaker

(***************************************************************************)
(* A shared halt is earned: a worker comes to owe one only when the 429s   *)
(* recorded since the last success of any worker, with the MULTIs sent     *)
(* again since, reach the threshold; without lost replies the breaker      *)
(* never opens early.                                                      *)
(***************************************************************************)
TripIsEarned ==
    [][\A w \in Worker : command'[w] = "set" /\ command[w] # "set" =>
          throttles' + repeats' >= Threshold]_breaker
=============================================================================
