------------------------------- MODULE IpGuard -------------------------------
(***************************************************************************)
(* The IP guard (ingestion/ip_guard.py) and the proxy router it drives     *)
(* (ingestion/proxy.py): the workers of one source count their attempts in *)
(* Redis, one key per window of their own wall clock, and the count        *)
(* decides the route of the attempt.                                       *)
(*                                                                         *)
(* Every worker has its own clock, ahead of the slowest by a constant      *)
(* skew.  An attempt is placed in time where its token is taken; the       *)
(* jitter between the token and the send is in HttpClient.tla.             *)
(***************************************************************************)
EXTENDS Integers

CONSTANTS
    Worker,        \* the worker processes of one source
    WarningAt,     \* count from which a source is in warning mode
    AggressiveAt,  \* count from which it is in aggressive mode
    Window,        \* window_seconds, in ticks
    ProxyEnabled,  \* ProxyRouter.enabled
    MaxSkew,       \* how far apart the workers' clocks are, in ticks
    MaxResends,    \* times redis-py may send a MULTI again when its reply is lost
    MaxTime,       \* bound: ticks of a behaviour
    MaxCount       \* bound: attempts in one bucket

\* The thresholds may come in any order; classify looks at the aggressive one first.
GuardSettings ==
    /\ WarningAt \in Nat /\ AggressiveAt \in Nat \ {0}
    /\ Window \in Nat \ {0}
    /\ ProxyEnabled \in BOOLEAN

ASSUME GuardAssumption ==
    /\ GuardSettings
    /\ MaxSkew \in 0..Window
    /\ MaxResends \in Nat /\ MaxTime \in Nat /\ MaxCount \in Nat

Bucket == 0..((MaxTime + MaxSkew) \div Window)

VARIABLES
    now,      \* ticks since the start, by the slowest clock
    skew,     \* skew[w]: how far w's clock is ahead
    counter,  \* counter[b]: value of ratelimit:{source}:{b}, 0 when the key is absent
    ttl,      \* ttl[b]: its remaining TTL
    taken,    \* history: attempts that took a token in bucket b
    direct,   \* history: those of them that left from the workers' own IP
    recent    \* history: recent[i], attempts from the own IP since the tick i ticks ago

vars == <<now, skew, counter, ttl, taken, direct, recent>>

Init ==
    /\ now = 0
    /\ skew \in [Worker -> 0..MaxSkew]
    /\ counter = [b \in Bucket |-> 0]
    /\ ttl = [b \in Bucket |-> 0]
    /\ taken = [b \in Bucket |-> 0]
    /\ direct = [b \in Bucket |-> 0]
    /\ recent = [i \in 0..(Window - 1) |-> 0]

\* int(clock() // window)
BucketOf(w) == (now + skew[w]) \div Window

\* Mutant of Mode: the aggressive threshold itself still counts as warning.
ModeLate(count) ==
    IF count > AggressiveAt THEN "aggressive"
    ELSE IF count >= WarningAt THEN "warning" ELSE "safe"

\* classify
Mode(count) ==
    IF count >= AggressiveAt THEN "aggressive"
    ELSE IF count >= WarningAt THEN "warning" ELSE "safe"

\* Mutant of ShouldUse: the mode is ignored.
ShouldUseForced(mode, force) == ProxyEnabled /\ force

\* should_use
ShouldUse(mode, force) == ProxyEnabled /\ (force \/ mode = "aggressive")

\* Mutant of Lifetime: a key lives half a window.
LifetimeShort == Window \div 2

\* self._window * 2
Lifetime == 2 * Window

\* Mutant of Record: each attempt adds to the time the key has left.
RecordProlonging(b) ==
    /\ counter[b] < MaxCount
    /\ \E sent \in 1..(1 + MaxResends) : counter' = [counter EXCEPT ![b] = counter[b] + sent]
    /\ ttl' = [ttl EXCEPT ![b] = ttl[b] + Lifetime]

\* record: the MULTI of INCR and EXPIRE, possibly transmitted again.
Record(b) ==
    /\ counter[b] < MaxCount
    /\ \E sent \in 1..(1 + MaxResends) : counter' = [counter EXCEPT ![b] = counter[b] + sent]
    /\ ttl' = [ttl EXCEPT ![b] = Lifetime]

\* One attempt: evaluate, then the route.
Attempt(w, force) ==
    LET b == BucketOf(w)
    IN  /\ Record(b)
        /\ taken' = [taken EXCEPT ![b] = taken[b] + 1]
        /\ IF ShouldUse(Mode(counter'[b]), force)
             THEN UNCHANGED <<direct, recent>>
             ELSE /\ direct' = [direct EXCEPT ![b] = direct[b] + 1]
                  /\ recent' = [i \in 0..(Window - 1) |-> recent[i] + 1]
        /\ UNCHANGED <<now, skew>>

\* The token is counted but its reply is lost for good: no attempt is made.
AttemptUnheard(w) ==
    /\ Record(BucketOf(w))
    /\ UNCHANGED <<now, skew, taken, direct, recent>>

Tick ==
    /\ now < MaxTime
    /\ now' = now + 1
    /\ ttl' = [b \in Bucket |-> IF ttl[b] > 0 THEN ttl[b] - 1 ELSE 0]
    /\ counter' = [b \in Bucket |-> IF ttl'[b] > 0 THEN counter[b] ELSE 0]
    /\ recent' = [i \in 0..(Window - 1) |-> IF i = 0 THEN 0 ELSE recent[i - 1]]
    /\ UNCHANGED <<skew, taken, direct>>

Next == Tick \/ \E w \in Worker : AttemptUnheard(w) \/ \E force \in BOOLEAN : Attempt(w, force)

Spec == Init /\ [][Next]_vars

-----------------------------------------------------------------------------
TypeOK ==
    /\ now \in 0..MaxTime
    /\ skew \in [Worker -> 0..MaxSkew]
    /\ counter \in [Bucket -> 0..(MaxCount + MaxResends)]
    /\ ttl \in [Bucket -> 0..Lifetime]
    /\ taken \in [Bucket -> 0..MaxCount]
    /\ direct \in [Bucket -> 0..MaxCount]
    /\ recent \in [0..(Window - 1) -> Nat]

(***************************************************************************)
(* A window's key outlives the window: as long as any worker's clock is in *)
(* bucket b, the counter of b holds every attempt made in b, those of      *)
(* workers whose clock runs ahead included (the EXPIRE of two windows).    *)
(***************************************************************************)
CountIsComplete ==
    \A b \in Bucket : (\E w \in Worker : BucketOf(w) = b) => counter[b] >= taken[b]

(***************************************************************************)
(* Per window, the workers together make fewer than AggressiveAt attempts  *)
(* from their own IP once a proxy is there to take the others ("Safe <300, *)
(* Warning 300-500, Aggressive >=500 req/hr").                             *)
(***************************************************************************)
DirectBudget == ProxyEnabled => \A b \in Bucket : direct[b] < AggressiveAt

\* The buckets that Window consecutive ticks and the skew can touch.
Touched == ((Window + MaxSkew - 2) \div Window) + 2

(***************************************************************************)
(* The buckets are fixed, so Window consecutive ticks may see the budget   *)
(* of several of them, as a window that slides would not; they never see   *)
(* more than that.                                                         *)
(***************************************************************************)
WindowBudget == ProxyEnabled => recent[Window - 1] <= Touched * (AggressiveAt - 1)
=============================================================================
