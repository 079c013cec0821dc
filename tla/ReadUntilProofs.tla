--------------------------- MODULE ReadUntilProofs ---------------------------
(***************************************************************************)
(* Proofs about read_until, for every timeout and every length of body.    *)
(***************************************************************************)
EXTENDS ReadUntil, TLAPS

\* A call is told apart by its outcome: nothing is recorded, and nothing has
\* ended or cut it, before it is over.
OverOrRunning ==
    /\ outcome = "none" => recorded = "none" /\ ~ended /\ cut = "no"
    /\ outcome \in {"transport", "raised"} => recorded = "none"
    /\ buffer > 0 => status # "none"

Inv == TypeOK /\ OverOrRunning /\ StopsAtOnce /\ PartialIsExplained /\ BreakerHearsAnswers

-----------------------------------------------------------------------------
\* max(1, int(timeout)) is never 0, which to curl is no timeout.
LEMMA CurlTimeoutPositive == CurlTimeout \in Nat \ {0}
<1>1. ASSUME Timeout >= Second PROVE Timeout \div Second \in Nat \ {0}
  BY StreamAssumption, <1>1
<1>2. \A a, b \in Nat \ {0} : a * b \in Nat \ {0}
  OBVIOUS
<1> QED BY <1>1, <1>2, StreamAssumption DEF CurlTimeout

\* A return of the backend, of a call that is under way and has a status,
\* keeps the invariant if the body is explained.
LEMMA ReturnKeeps ==
    ASSUME Inv, outcome = "none", status # "none", Return,
           UNCHANGED <<backend, wanted, status>>,
           buffer' \in 0..MaxBytes, elapsed' = elapsed, silent' \in 0..Timeout,
           ended' \in BOOLEAN, cut' \in {"no", "connection", "predicate"},
           buffer' \in wanted \/ ended' \/ (cut' # "no" /\ backend = "curl")
    PROVE  Inv'
BY DEF Inv, TypeOK, OverOrRunning, StopsAtOnce, PartialIsExplained, BreakerHearsAnswers, Return

\* A call starts with an empty buffer and nothing recorded.
LEMMA InitInv == Init => Inv
<1> SUFFICES ASSUME Init PROVE Inv
  OBVIOUS
<1>1. wanted \subseteq 1..(MaxBytes - 1)
  BY DEF Init
<1>2. buffer \in 0..MaxBytes /\ silent \in 0..Timeout
  BY StreamAssumption DEF Init
<1>3. elapsed \in 0..CurlTimeout
  BY CurlTimeoutPositive DEF Init
<1>4. TypeOK
  BY <1>1, <1>2, <1>3 DEF Init, TypeOK
<1> QED
  BY <1>4, StreamAssumption DEF Init, Inv, OverOrRunning, StopsAtOnce, PartialIsExplained, BreakerHearsAnswers

\* The status line changes the status alone.
LEMMA AnswerKeeps == Inv /\ Answer => Inv'
BY StreamAssumption DEF Inv, TypeOK, OverOrRunning, StopsAtOnce, PartialIsExplained, BreakerHearsAnswers, Answer, call

\* A chunk makes the buffer longer, up to the bound.
LEMMA LongerBuffer ==
    ASSUME TypeOK, NEW size \in 1..MaxBytes
    PROVE  Lesser(buffer + size, MaxBytes) \in 1..MaxBytes
BY StreamAssumption DEF TypeOK, Lesser

\* A chunk returns the call, or leaves a body that misses the predicate.
LEMMA ChunkKeeps == ASSUME NEW size \in 1..MaxBytes, Inv, Chunk(size) PROVE Inv'
<1>1. buffer' \in 1..MaxBytes /\ silent' \in 0..Timeout /\ elapsed' = elapsed
  BY LongerBuffer, StreamAssumption DEF Inv, Chunk
<1>2. CASE buffer' \in wanted
  BY <1>1, <1>2, ReturnKeeps DEF Chunk, Inv, TypeOK
<1>3. CASE buffer' \notin wanted
  BY <1>1, <1>3 DEF Chunk, Inv, TypeOK, OverOrRunning, StopsAtOnce, PartialIsExplained, BreakerHearsAnswers, call
<1> QED BY <1>2, <1>3

\* A raising predicate is curl's return or httpx's exception.
LEMMA PredicateRaisesKeeps == ASSUME NEW size \in 1..MaxBytes, Inv, PredicateRaises(size) PROVE Inv'
<1>1. buffer' \in 1..MaxBytes /\ silent' \in 0..Timeout /\ elapsed' = elapsed
  BY LongerBuffer, StreamAssumption DEF Inv, PredicateRaises
<1>2. CASE backend = "curl"
  BY <1>1, <1>2, ReturnKeeps DEF PredicateRaises, Fail, Inv, TypeOK
<1>3. CASE backend # "curl"
  BY <1>1, <1>3 DEF PredicateRaises, Inv, TypeOK, OverOrRunning, StopsAtOnce, PartialIsExplained, BreakerHearsAnswers
<1> QED BY <1>2, <1>3

\* The stream's end explains a partial body.
LEMMA EndKeeps == Inv /\ End => Inv'
BY ReturnKeeps DEF End, Inv, TypeOK

\* Break and TimeOut: a failure, cut short by the connection.
LEMMA FailKeeps ==
    ASSUME Inv, outcome = "none", Fail, cut' = "connection",
           UNCHANGED <<backend, wanted, status, buffer, elapsed, silent, ended>>
    PROVE  Inv'
<1>1. CASE backend = "curl" /\ status # "none"
  BY <1>1, ReturnKeeps DEF Fail, Inv, TypeOK
<1>2. CASE ~(backend = "curl" /\ status # "none")
  BY <1>2 DEF Fail, RaiseTransportError, Inv, TypeOK, OverOrRunning, StopsAtOnce, PartialIsExplained, BreakerHearsAnswers
<1> QED BY <1>1, <1>2

\* The clocks stay within the timeouts.
LEMMA TickKeeps == Inv /\ Tick => Inv'
<1> SUFFICES ASSUME Inv, Tick PROVE Inv'
  OBVIOUS
<1>1. elapsed' \in 0..CurlTimeout /\ silent' \in 0..Timeout
  BY StreamAssumption, CurlTimeoutPositive DEF Inv, TypeOK, Tick, Lesser
<1> QED
  BY <1>1 DEF Inv, TypeOK, OverOrRunning, StopsAtOnce, PartialIsExplained, BreakerHearsAnswers, Tick, call

\* A stutter keeps it.
LEMMA StutterKeeps == Inv /\ UNCHANGED vars => Inv'
BY DEF Inv, TypeOK, OverOrRunning, StopsAtOnce, PartialIsExplained, BreakerHearsAnswers, vars, call

\* Every step keeps the invariant.
LEMMA NextKeeps == Inv /\ [Next]_vars => Inv'
<1> SUFFICES ASSUME Inv, [Next]_vars PROVE Inv'
  OBVIOUS
<1>1. CASE Answer
  BY <1>1, AnswerKeeps
<1>2. ASSUME NEW size \in 1..MaxBytes, Chunk(size) PROVE Inv'
  BY <1>2, ChunkKeeps
<1>3. ASSUME NEW size \in 1..MaxBytes, PredicateRaises(size) PROVE Inv'
  BY <1>3, PredicateRaisesKeeps
<1>4. CASE End
  BY <1>4, EndKeeps
<1>5. CASE Break
  BY <1>5, FailKeeps DEF Break
<1>6. CASE TimeOut
  BY <1>6, FailKeeps DEF TimeOut
<1>7. CASE Tick
  BY <1>7, TickKeeps
<1>8. CASE UNCHANGED vars
  BY <1>8, StutterKeeps
<1> QED BY <1>1, <1>2, <1>3, <1>4, <1>5, <1>6, <1>7, <1>8 DEF Next, Arrive

-----------------------------------------------------------------------------
\* The invariant of a call.
THEOREM CallInvariant == Spec => []Inv
BY InitInv, NextKeeps, PTL DEF Spec

\* The variables of a call keep their types.
THEOREM StreamTypeCorrect == Spec => []TypeOK
BY CallInvariant, PTL DEF Inv

\* A body that satisfies the predicate is returned at once, as it is.
THEOREM ReadStopsAtOnce == Spec => []StopsAtOnce
BY CallInvariant, PTL DEF Inv

\* A returned body that misses the predicate was ended by the server, or cut
\* off under curl behind a status line.
THEOREM PartialExplained == Spec => []PartialIsExplained
BY CallInvariant, PTL DEF Inv

\* The breaker hears of returned answers alone.
THEOREM AnswersHeard == Spec => []BreakerHearsAnswers
BY CallInvariant, PTL DEF Inv

-----------------------------------------------------------------------------
(***************************************************************************)
(* Why a stream ends: the variant behind StreamEnds.  TimeLeft counts the  *)
(* steps the call can still take before it times out: with curl, of the    *)
(* whole transfer, with httpx, of the present silence.                     *)
(***************************************************************************)
TimeLeft ==
    IF outcome # "none" THEN 0
    ELSE IF backend = "curl" THEN 1 + CurlTimeout - elapsed ELSE 1 + Timeout - silent

TimeBounded ==
    /\ TimeLeft \in Nat
    /\ TimeLeft = 0 <=> outcome # "none"
    /\ TimeLeft <= 1 + (IF backend = "curl" THEN CurlTimeout ELSE Timeout)

\* Whatever arrives, curl's time is not given back; every step that is not an
\* arrival takes time of either backend.
TimeRunsDown ==
    /\ ~Arrive => TimeLeft' < TimeLeft
    /\ backend = "curl" => TimeLeft' <= TimeLeft

\* The clocks are within the timeouts, so there is time left until the end.
LEMMA InvTime == Inv => TimeBounded
<1> SUFFICES ASSUME Inv PROVE TimeBounded
  OBVIOUS
<1>1. elapsed \in 0..CurlTimeout /\ silent \in 0..Timeout /\ CurlTimeout \in Nat /\ Timeout \in Nat
  BY CurlTimeoutPositive, StreamAssumption DEF Inv, TypeOK
<1> QED BY <1>1 DEF TimeBounded, TimeLeft

\* A call that ends has no time left; it had some as long as it ran.
LEMMA EndedTime ==
    ASSUME Inv, outcome = "none", outcome' # "none"
    PROVE  TimeRunsDown
<1>1. TimeLeft' = 0
  BY DEF TimeLeft
<1>2. TimeLeft \in Nat /\ TimeLeft # 0
  BY InvTime DEF TimeBounded
<1>3. TimeLeft' < TimeLeft
  BY <1>1, <1>2
<1> QED BY <1>1, <1>2, <1>3 DEF TimeRunsDown

\* An arrival restarts httpx's clock and leaves curl's alone.
LEMMA ArriveTime == Inv /\ Inv' /\ Arrive => TimeRunsDown
<1> SUFFICES ASSUME Inv, Inv', Arrive PROVE TimeRunsDown
  OBVIOUS
<1>1. outcome = "none" /\ backend' = backend /\ elapsed' = elapsed
  BY DEF Arrive, Answer, Chunk, PredicateRaises
<1>2. CASE outcome' # "none"
  BY <1>1, <1>2, EndedTime
<1>3. CASE outcome' = "none"
  <2>1. ASSUME backend = "curl" PROVE TimeLeft' = TimeLeft
    BY <1>1, <1>3, <2>1 DEF TimeLeft
  <2>2. TimeLeft \in Nat
    BY InvTime DEF TimeBounded
  <2> QED BY <2>1, <2>2 DEF TimeRunsDown
<1> QED BY <1>2, <1>3

\* A tick moves the clock that is due, for it comes only while it is not.
LEMMA TickTime == Inv /\ Tick => TimeRunsDown
<1> SUFFICES ASSUME Inv, Tick PROVE TimeRunsDown
  OBVIOUS
<1>1. elapsed \in 0..CurlTimeout /\ silent \in 0..Timeout /\ CurlTimeout \in Nat /\ Timeout \in Nat
  BY CurlTimeoutPositive, StreamAssumption DEF Inv, TypeOK
<1>2. outcome = "none" /\ outcome' = "none" /\ backend' = backend
  BY DEF Tick, call
<1>3. CASE backend = "curl"
  <2>1. elapsed' = elapsed + 1
    BY <1>1, <1>3, CurlTimeoutPositive DEF Tick, Due, Lesser
  <2>2. TimeLeft = 1 + CurlTimeout - elapsed /\ TimeLeft' = 1 + CurlTimeout - elapsed'
    BY <1>2, <1>3 DEF TimeLeft, CurlTimeout
  <2> QED BY <1>1, <2>1, <2>2 DEF TimeRunsDown
<1>4. CASE backend # "curl"
  <2>1. silent' = silent + 1
    BY <1>1, <1>4 DEF Tick, Due, Lesser
  <2>2. TimeLeft = 1 + Timeout - silent /\ TimeLeft' = 1 + Timeout - silent'
    BY <1>2, <1>4 DEF TimeLeft
  <2> QED BY <1>1, <1>4, <2>1, <2>2 DEF TimeRunsDown
<1> QED BY <1>3, <1>4

\* Every step takes time, or is an arrival that gives curl none.
LEMMA NextTime == Inv /\ Inv' /\ Next => TimeRunsDown
<1> SUFFICES ASSUME Inv, Inv', Next PROVE TimeRunsDown
  OBVIOUS
<1>1. CASE Arrive
  BY <1>1, ArriveTime
<1>2. CASE End \/ Break \/ TimeOut
  <2>1. outcome = "none" /\ outcome' # "none"
    BY <1>2 DEF End, Break, TimeOut, Fail, Return, RaiseTransportError
  <2> QED BY <2>1, EndedTime
<1>3. CASE Tick
  BY <1>3, TickTime
<1> QED BY <1>1, <1>2, <1>3 DEF Next

\* A call has at most its timeout left, none exactly when it is over, and
\* only httpx's is ever extended, by what arrives: what StreamEnds rests on,
\* for every timeout, fairness apart.
THEOREM TimeRunsOut == Spec => []TimeBounded /\ [][TimeRunsDown]_vars
<1>1. Inv /\ Inv' /\ [Next]_vars => [TimeRunsDown]_vars
  BY NextTime
<1> QED BY <1>1, CallInvariant, InvTime, PTL DEF Spec
=============================================================================
