--------------------------- MODULE HttpClientProofs ---------------------------
(***************************************************************************)
(* Proofs about the HTTP client over the breaker, for every number of      *)
(* workers, attempts and calls, and every threshold and cooldown: its      *)
(* invariants, and that it implements the gate of Gate.tla.                *)
(***************************************************************************)
EXTENDS HttpClient, CircuitBreakerProofs

\* A breaker's command under way is one of the call that stands there; the
\* one stack frame that has yet to SET the halt is the one at "trip".
CommandsAreCalls ==
    \A w \in Worker :
        /\ command[w] = "set" <=> pc[w] = "trip"
        /\ command[w] = "incr" => pc[w] = "throttled"
        /\ command[w] = "del" => pc[w] = "ok"

\* The retry loop: it runs out behind a transport error, in request alone.
LoopOK ==
    \A w \in Worker :
        /\ pc[w] = "exhausted" => transportError[w] /\ kind[w] = "request"
        /\ pc[w] = "idle" \/ kind[w] = "read_until" => attempt[w] = 0

\* A result is kept between calls only, where nobody else moves w's gauge.
ResultOK ==
    \A w \in Worker :
        /\ pc[w] # "idle" => result[w] = "none"
        /\ result[w] = "refused" => gauge[w]

\* What a worker sent under the present halt it sent in the present call, or
\* in the last one if it has been outside since.
OverrunOK ==
    \A w \in Worker :
        /\ halt = 0 \/ ~UseRedis => overrun[w] = 0
        /\ overrun[w] <= Attempts
        /\ pc[w] # "idle" =>
             overrun[w] <= attempt[w] + (IF pc[w] \in {"token", "jitter"} THEN 0 ELSE 1)

\* An attempt that request has yet to count.
Uncounted(w) == IF pc[w] = "sent" /\ kind[w] = "request" THEN 1 ELSE 0

\* A token that no request has been counted for.
Unspent(w) == IF pc[w] = "jitter" THEN 1 ELSE Uncounted(w)

TokensOK ==
    UseRedis => \A w \in Worker :
        requests[w] + Unspent(w) <= tokens[w] \/ tokens[w] = MaxCount

ProxiedOK ==
    \A w \in Worker : proxied[w] <= requests[w] + stray[w] + Uncounted(w)

ClientInv ==
    /\ BreakerInv
    /\ ControlOK
    /\ NumbersOK
    /\ CommandsAreCalls
    /\ LoopOK
    /\ ResultOK
    /\ OverrunOK
    /\ TokensOK
    /\ ProxiedOK

-----------------------------------------------------------------------------
\* A step of one worker that moves its command along with its call.
LEMMA CommandMoves ==
    ASSUME ClientInv, NEW w \in Worker,
           NEW c \in Command, command' = [command EXCEPT ![w] = c],
           NEW place, pc' = [pc EXCEPT ![w] = place],
           c = "set" <=> place = "trip", c = "incr" => place = "throttled", c = "del" => place = "ok"
    PROVE  CommandsAreCalls'
<1>1. command \in [Worker -> Command] /\ pc \in [Worker -> Place]
    BY DEF ClientInv, ControlOK, BreakerInv, BreakerTypeOK, FlagsOK
<1>2. command'[w] = c /\ pc'[w] = place
    BY <1>1
<1>3. \A v \in Worker : v # w => command'[v] = command[v] /\ pc'[v] = pc[v]
    BY <1>1
<1> QED
    BY <1>2, <1>3 DEF ClientInv, CommandsAreCalls

\* Without Redis no call has a command under way, wherever it goes.
LEMMA MemoryCalls ==
    ASSUME ClientInv, ~UseRedis, command' = command,
           NEW w \in Worker, NEW place, place # "trip", pc' = [pc EXCEPT ![w] = place]
    PROVE  CommandsAreCalls'
BY DEF ClientInv, ControlOK, BreakerInv, OnlySharedTrips, CommandsAreCalls

\* A call refused with CircuitOpenError: is_open has published the 1 it found.
LEMMA RefuseInv ==
    ASSUME ClientInv, NEW w \in Worker, Refuse(w)
    PROVE  ClientInv'
<1> USE ClientAssumption, SettingsAssumption, BoundsAssumption, HaltTTLPositive
    DEF Refuse, IsOpen, Reset, Publish, Finish, ClientInv, client, meters, breaker, store, pending, memory, history
<1>1. BreakerInv'
    BY IsOpenInv
<1>2. ControlOK'
    BY DEF ControlOK, Place, Kind, Result
<1>3. NumbersOK'
    BY DEF NumbersOK, Lesser
<1>4. CommandsAreCalls'
    BY DEF ControlOK, CommandsAreCalls
<1>5. LoopOK'
    BY DEF ControlOK, NumbersOK, LoopOK
<1>6. ResultOK'
    <2>1. CASE UseRedis
        <3>1. (halt > 0) = TRUE
            BY <2>1 DEF BreakerInv, BreakerTypeOK, CountersOK, Halted
        <3>2. gauge' = [gauge EXCEPT ![w] = TRUE]
            BY <2>1, <3>1
        <3> QED
            BY <3>2 DEF BreakerInv, BreakerTypeOK, FlagsOK, ControlOK, ResultOK
    <2>2. CASE ~UseRedis
        <3>1. age[w] # NotOpen /\ age[w] < Cooldown
            BY <2>2 DEF Halted
        <3>2. gauge' = gauge /\ gauge[w]
            BY <2>2, <3>1 DEF BreakerInv, BreakerTypeOK, CountersOK, MemoryAgrees, NotOpen
        <3> QED
            BY <3>2 DEF ControlOK, ResultOK
    <2> QED
        BY <2>1, <2>2
<1>7. OverrunOK'
    BY DEF ControlOK, NumbersOK, LoopOK, OverrunOK, Lesser, Halted
<1>8. TokensOK'
    BY DEF ControlOK, NumbersOK, TokensOK, Unspent, Uncounted, Lesser
<1>9. ProxiedOK'
    BY DEF ControlOK, NumbersOK, ProxiedOK, Uncounted, Lesser
<1> QED
    BY <1>1, <1>2, <1>3, <1>4, <1>5, <1>6, <1>7, <1>8, <1>9

\* A call let through: an admitted worker has sent nothing under a halt since.
LEMMA AdmitInv ==
    ASSUME ClientInv, NEW w \in Worker, NEW k \in Kind, Admit(w, k)
    PROVE  ClientInv'
<1> USE ClientAssumption, SettingsAssumption, BoundsAssumption, HaltTTLPositive
    DEF Admit, IsOpen, Reset, Publish, ClientInv, client, meters, breaker, store, pending, memory, history
<1>1. BreakerInv'
    BY IsOpenInv
<1>2. ControlOK'
    BY DEF ControlOK, Place, Kind, Result
<1>3. NumbersOK'
    BY DEF NumbersOK, Lesser
<1>4. CommandsAreCalls'
    BY DEF ControlOK, CommandsAreCalls
<1>5. LoopOK'
    BY DEF ControlOK, NumbersOK, LoopOK
<1>6. ResultOK'
    BY DEF BreakerInv, BreakerTypeOK, FlagsOK, MemoryAgrees, ControlOK, ResultOK, Halted
<1>7. OverrunOK'
    <2>1. overrun[w] = 0 /\ attempt[w] = 0
        <3>1. halt \in Nat
            BY DEF BreakerInv, BreakerTypeOK, CountersOK
        <3>2. halt = 0 \/ ~UseRedis
            BY <3>1 DEF Halted
        <3> QED
            BY <3>2 DEF OverrunOK, LoopOK
    <2>2. halt' = halt /\ overrun' = overrun /\ attempt' = attempt
        OBVIOUS
    <2> QED
        BY <2>1, <2>2 DEF ControlOK, NumbersOK, OverrunOK
<1>8. TokensOK'
    BY DEF ControlOK, NumbersOK, TokensOK, Unspent, Uncounted, Lesser
<1>9. ProxiedOK'
    BY DEF ControlOK, NumbersOK, ProxiedOK, Uncounted, Lesser
<1> QED
    BY <1>1, <1>2, <1>3, <1>4, <1>5, <1>6, <1>7, <1>8, <1>9

\* _begin_attempt: one token more than there are requests to come.
LEMMA TakeTokenInv ==
    ASSUME ClientInv, NEW w \in Worker, TakeToken(w)
    PROVE  ClientInv'
<1> USE ClientAssumption, SettingsAssumption, BoundsAssumption, HaltTTLPositive
    DEF TakeToken, GoTo, Bump, ClientInv, client, meters, breaker, store, pending, memory, history
<1>1. BreakerInv'
    BY BreakerUnchanged
<1>2. ControlOK'
    BY DEF ControlOK, Place, Kind, Result
<1>3. NumbersOK'
    BY DEF NumbersOK, Lesser
<1>4. CommandsAreCalls'
    BY DEF ControlOK, CommandsAreCalls
<1>5. LoopOK'
    BY DEF ControlOK, NumbersOK, LoopOK
<1>6. ResultOK'
    BY DEF ControlOK, ResultOK
<1>7. OverrunOK'
    BY DEF ControlOK, NumbersOK, LoopOK, OverrunOK, Lesser, Halted
<1>8. TokensOK'
    BY DEF ControlOK, NumbersOK, TokensOK, Unspent, Uncounted, Lesser
<1>9. ProxiedOK'
    BY DEF ControlOK, NumbersOK, ProxiedOK, Uncounted, Lesser
<1> QED
    BY <1>1, <1>2, <1>3, <1>4, <1>5, <1>6, <1>7, <1>8, <1>9

\* The send: it may fall under a halt that began after the call was let in.
LEMMA SendInv ==
    ASSUME ClientInv, NEW w \in Worker, Send(w)
    PROVE  ClientInv'
<1> USE ClientAssumption, SettingsAssumption, BoundsAssumption, HaltTTLPositive
    DEF Send, GoTo, Bump, ClientInv, client, meters, breaker, store, pending, memory, history
<1>1. BreakerInv'
    BY BreakerUnchanged
<1>2. ControlOK'
    BY DEF ControlOK, Place, Kind, Result
<1>3. NumbersOK'
    BY DEF NumbersOK, Lesser
<1>4. CommandsAreCalls'
    BY DEF ControlOK, CommandsAreCalls
<1>5. LoopOK'
    BY DEF ControlOK, NumbersOK, LoopOK
<1>6. ResultOK'
    BY DEF ControlOK, ResultOK
<1>7. OverrunOK'
    BY DEF ControlOK, NumbersOK, LoopOK, OverrunOK, Lesser, Halted
<1>8. TokensOK'
    BY DEF ControlOK, NumbersOK, TokensOK, Unspent, Uncounted, Lesser
<1>9. ProxiedOK'
    <2>1. CASE kind[w] = "request"
        BY <2>1 DEF ControlOK, NumbersOK, ProxiedOK, Uncounted, Lesser
    <2>2. CASE kind[w] = "read_until"
        BY <2>2 DEF ControlOK, NumbersOK, ProxiedOK, Uncounted, Lesser
    <2> QED
        BY <2>1, <2>2 DEF ControlOK, Kind
<1> QED
    BY <1>1, <1>2, <1>3, <1>4, <1>5, <1>6, <1>7, <1>8, <1>9

\* A transport error: counted by request, then another round or the end.
LEMMA TransportFailureInv ==
    ASSUME ClientInv, NEW w \in Worker, TransportFailure(w)
    PROVE  ClientInv'
<1> USE ClientAssumption, SettingsAssumption, BoundsAssumption, HaltTTLPositive
    DEF TransportFailure, CountRequest, NextRound, Finish, Bump, ClientInv, client, meters, breaker, store, pending, memory, history
<1>1. BreakerInv'
    BY BreakerUnchanged
<1>2. ControlOK'
    BY DEF ControlOK, Place, Kind, Result
<1>3. NumbersOK'
    BY DEF NumbersOK, Lesser
<1>4. CommandsAreCalls'
    BY DEF ControlOK, CommandsAreCalls
<1>5. LoopOK'
    <2>1. CASE kind[w] = "request"
        BY <2>1 DEF ControlOK, NumbersOK, LoopOK
    <2>2. CASE kind[w] # "request"
        BY <2>2 DEF ControlOK, NumbersOK, LoopOK
    <2> QED
        BY <2>1, <2>2
<1>6. ResultOK'
    BY DEF ControlOK, ResultOK
<1>7. OverrunOK'
    BY DEF ControlOK, NumbersOK, LoopOK, OverrunOK, Lesser, Halted
<1>8. TokensOK'
    BY DEF ControlOK, NumbersOK, TokensOK, Unspent, Uncounted, Lesser
<1>9. ProxiedOK'
    BY DEF ControlOK, NumbersOK, ProxiedOK, Uncounted, Lesser
<1> QED
    BY <1>1, <1>2, <1>3, <1>4, <1>5, <1>6, <1>7, <1>8, <1>9

\* A 429 comes back; the breaker has not heard of it yet.
LEMMA ThrottledInv ==
    ASSUME ClientInv, NEW w \in Worker, Throttled(w)
    PROVE  ClientInv'
<1> USE ClientAssumption, SettingsAssumption, BoundsAssumption, HaltTTLPositive
    DEF Throttled, CountRequest, GoTo, Bump, ClientInv, client, meters, breaker, store, pending, memory, history
<1>1. BreakerInv'
    BY BreakerUnchanged
<1>2. ControlOK'
    BY DEF ControlOK, Place, Kind, Result
<1>3. NumbersOK'
    BY DEF NumbersOK, Lesser
<1>4. CommandsAreCalls'
    BY DEF ControlOK, CommandsAreCalls
<1>5. LoopOK'
    BY DEF ControlOK, NumbersOK, LoopOK
<1>6. ResultOK'
    BY DEF ControlOK, ResultOK
<1>7. OverrunOK'
    BY DEF ControlOK, NumbersOK, LoopOK, OverrunOK, Lesser, Halted
<1>8. TokensOK'
    BY DEF ControlOK, NumbersOK, TokensOK, Unspent, Uncounted, Lesser
<1>9. ProxiedOK'
    BY DEF ControlOK, NumbersOK, ProxiedOK, Uncounted, Lesser
<1> QED
    BY <1>1, <1>2, <1>3, <1>4, <1>5, <1>6, <1>7, <1>8, <1>9

\* Any other response: retried, recorded as a success, or returned.
LEMMA RespondInv ==
    ASSUME ClientInv, NEW w \in Worker, Respond(w)
    PROVE  ClientInv'
<1> USE ClientAssumption, SettingsAssumption, BoundsAssumption, HaltTTLPositive
    DEF Respond, CountRequest, Retry, NextRound, GoTo, Finish, Bump, ClientInv, client, meters, breaker, store, pending, memory, history
<1>1. BreakerInv'
    BY BreakerUnchanged
<1>2. ControlOK'
    BY DEF ControlOK, Place, Kind, Result
<1>3. NumbersOK'
    BY DEF NumbersOK, Lesser
<1>4. CommandsAreCalls'
    BY DEF ControlOK, CommandsAreCalls
<1>5. LoopOK'
    BY DEF ControlOK, NumbersOK, LoopOK
<1>6. ResultOK'
    BY DEF ControlOK, ResultOK
<1>7. OverrunOK'
    BY DEF ControlOK, NumbersOK, LoopOK, OverrunOK, Lesser, Halted
<1>8. TokensOK'
    BY DEF ControlOK, NumbersOK, TokensOK, Unspent, Uncounted, Lesser
<1>9. ProxiedOK'
    BY DEF ControlOK, NumbersOK, ProxiedOK, Uncounted, Lesser
<1> QED
    BY <1>1, <1>2, <1>3, <1>4, <1>5, <1>6, <1>7, <1>8, <1>9

\* An exception past the except clause: a send nobody counts.
LEMMA EscapeInv ==
    ASSUME ClientInv, NEW w \in Worker, Escape(w)
    PROVE  ClientInv'
<1> USE ClientAssumption, SettingsAssumption, BoundsAssumption, HaltTTLPositive
    DEF Escape, Finish, Bump, ClientInv, client, meters, breaker, store, pending, memory, history
<1>1. BreakerInv'
    BY BreakerUnchanged
<1>2. ControlOK'
    BY DEF ControlOK, Place, Kind, Result
<1>3. NumbersOK'
    BY DEF NumbersOK, Lesser
<1>4. CommandsAreCalls'
    BY DEF ControlOK, CommandsAreCalls
<1>5. LoopOK'
    BY DEF ControlOK, NumbersOK, LoopOK
<1>6. ResultOK'
    BY DEF ControlOK, ResultOK
<1>7. OverrunOK'
    BY DEF ControlOK, NumbersOK, LoopOK, OverrunOK, Lesser, Halted
<1>8. TokensOK'
    BY DEF ControlOK, NumbersOK, TokensOK, Unspent, Uncounted, Lesser
<1>9. ProxiedOK'
    BY DEF ControlOK, NumbersOK, ProxiedOK, Uncounted, Lesser
<1> QED
    BY <1>1, <1>2, <1>3, <1>4, <1>5, <1>6, <1>7, <1>8, <1>9

\* record_success at the end of a call.
LEMMA SucceedInv ==
    ASSUME ClientInv, NEW w \in Worker, Succeed(w)
    PROVE  ClientInv'
<1> USE ClientAssumption, SettingsAssumption, BoundsAssumption, HaltTTLPositive
    DEF Succeed, RecordSuccess, ClearStreak, DropStreak, Done, RecordSuccessMemory, Reset, Publish, Finish, ClientInv, client, meters, breaker, store, pending, memory, history
<1>1. BreakerInv'
    BY RecordSuccessInv
<1>2. ControlOK'
    BY DEF ControlOK, Place, Kind, Result
<1>3. NumbersOK'
    BY DEF NumbersOK, Lesser
<1>4. CommandsAreCalls'
    <2>1. CASE UseRedis
        BY <2>1, CommandMoves DEF Command
    <2>2. CASE ~UseRedis
        BY <2>2, MemoryCalls
    <2> QED
        BY <2>1, <2>2
<1>5. LoopOK'
    BY DEF ControlOK, NumbersOK, LoopOK
<1>6. ResultOK'
    BY DEF BreakerInv, BreakerTypeOK, FlagsOK, ControlOK, ResultOK
<1>7. OverrunOK'
    BY DEF ControlOK, NumbersOK, LoopOK, OverrunOK, Lesser, Halted
<1>8. TokensOK'
    BY DEF ControlOK, NumbersOK, TokensOK, Unspent, Uncounted, Lesser
<1>9. ProxiedOK'
    BY DEF ControlOK, NumbersOK, ProxiedOK, Uncounted, Lesser
<1> QED
    BY <1>1, <1>2, <1>3, <1>4, <1>5, <1>6, <1>7, <1>8, <1>9

\* record_failure: the call ends, or goes on to set the halt it owes.
LEMMA CountThrottleInv ==
    ASSUME ClientInv, NEW w \in Worker, CountThrottle(w)
    PROVE  ClientInv'
<1> USE ClientAssumption, SettingsAssumption, BoundsAssumption, HaltTTLPositive
    DEF CountThrottle, RecordFailure, RecordFailureShared, RecordFailureMemory, CountFailure, Done, Publish, GoTo, Finish, ClientInv, client, meters, breaker, store, pending, memory, history
<1>1. BreakerInv'
    BY RecordFailureInv
<1>2. ControlOK'
    BY DEF ControlOK, Place, Kind, Result
<1>3. NumbersOK'
    BY DEF NumbersOK, Lesser
<1>4. CommandsAreCalls'
    <2>1. CASE UseRedis
        <3>1. PICK c \in {"none", "set"} : command' = [command EXCEPT ![w] = c]
            BY <2>1
        <3>2. command'[w] = c
            BY <3>1 DEF BreakerInv, BreakerTypeOK, FlagsOK
        <3> QED
            BY <3>1, <3>2, CommandMoves DEF Command
    <2>2. CASE ~UseRedis
        <3>1. command' = command
            BY <2>2
        <3>2. command'[w] # "set"
            BY <2>2, <3>1 DEF BreakerInv, OnlySharedTrips
        <3>3. pc' = [pc EXCEPT ![w] = "idle"]
            BY <3>2
        <3> QED
            BY <2>2, <3>1, <3>3, MemoryCalls
    <2> QED
        BY <2>1, <2>2
<1>5. LoopOK'
    BY DEF ControlOK, NumbersOK, LoopOK
<1>6. ResultOK'
    BY DEF BreakerInv, BreakerTypeOK, FlagsOK, ControlOK, ResultOK
<1>7. OverrunOK'
    BY DEF ControlOK, NumbersOK, LoopOK, OverrunOK, Lesser, Halted
<1>8. TokensOK'
    BY DEF ControlOK, NumbersOK, TokensOK, Unspent, Uncounted, Lesser
<1>9. ProxiedOK'
    BY DEF ControlOK, NumbersOK, ProxiedOK, Uncounted, Lesser
<1> QED
    BY <1>1, <1>2, <1>3, <1>4, <1>5, <1>6, <1>7, <1>8, <1>9

\* The SET of the halt ends the call.
LEMMA TripStepInv ==
    ASSUME ClientInv, NEW w \in Worker, Trip(w)
    PROVE  ClientInv'
<1> USE ClientAssumption, SettingsAssumption, BoundsAssumption, HaltTTLPositive
    DEF Trip, SetHalt, StartHalt, Done, Publish, Finish, ClientInv, client, meters, breaker, store, pending, memory, history
<1>1. BreakerInv'
    BY SetHaltInv
<1>2. ControlOK'
    BY DEF ControlOK, Place, Kind, Result
<1>3. NumbersOK'
    BY DEF NumbersOK, Lesser
<1>4. CommandsAreCalls'
    BY DEF BreakerInv, BreakerTypeOK, FlagsOK, ControlOK, CommandsAreCalls
<1>5. LoopOK'
    BY DEF ControlOK, NumbersOK, LoopOK
<1>6. ResultOK'
    BY DEF ControlOK, ResultOK
<1>7. OverrunOK'
    BY DEF ControlOK, NumbersOK, LoopOK, OverrunOK, Lesser, Halted
<1>8. TokensOK'
    BY DEF ControlOK, NumbersOK, TokensOK, Unspent, Uncounted, Lesser
<1>9. ProxiedOK'
    BY DEF ControlOK, NumbersOK, ProxiedOK, Uncounted, Lesser
<1> QED
    BY <1>1, <1>2, <1>3, <1>4, <1>5, <1>6, <1>7, <1>8, <1>9

\* The raise after the retry loop.
LEMMA RaiseTransportErrorInv ==
    ASSUME ClientInv, NEW w \in Worker, RaiseTransportError(w)
    PROVE  ClientInv'
<1> USE ClientAssumption, SettingsAssumption, BoundsAssumption, HaltTTLPositive
    DEF RaiseTransportError, Finish, ClientInv, client, meters, breaker, store, pending, memory, history
<1>1. BreakerInv'
    BY BreakerUnchanged
<1>2. ControlOK'
    BY DEF ControlOK, Place, Kind, Result
<1>3. NumbersOK'
    BY DEF NumbersOK, Lesser
<1>4. CommandsAreCalls'
    BY DEF ControlOK, CommandsAreCalls
<1>5. LoopOK'
    BY DEF ControlOK, NumbersOK, LoopOK
<1>6. ResultOK'
    BY DEF ControlOK, ResultOK
<1>7. OverrunOK'
    BY DEF ControlOK, NumbersOK, LoopOK, OverrunOK, Lesser, Halted
<1>8. TokensOK'
    BY DEF ControlOK, NumbersOK, TokensOK, Unspent, Uncounted, Lesser
<1>9. ProxiedOK'
    BY DEF ControlOK, NumbersOK, ProxiedOK, Uncounted, Lesser
<1> QED
    BY <1>1, <1>2, <1>3, <1>4, <1>5, <1>6, <1>7, <1>8, <1>9

\* A Redis command that raises ends the call wherever it is.
LEMMA RedisErrorInv ==
    ASSUME ClientInv, NEW w \in Worker, RedisError(w)
    PROVE  ClientInv'
<1> USE ClientAssumption, SettingsAssumption, BoundsAssumption, HaltTTLPositive
    DEF RedisError, Raise, Done, Finish, ClientInv, client, meters, breaker, store, pending, memory, history
<1>1. BreakerInv'
    BY RaiseInv
<1>2. ControlOK'
    BY DEF ControlOK, Place, Kind, Result
<1>3. NumbersOK'
    BY DEF NumbersOK, Lesser
<1>4. CommandsAreCalls'
    BY DEF BreakerInv, BreakerTypeOK, FlagsOK, ControlOK, CommandsAreCalls
<1>5. LoopOK'
    BY DEF ControlOK, NumbersOK, LoopOK
<1>6. ResultOK'
    BY DEF ControlOK, ResultOK
<1>7. OverrunOK'
    BY DEF ControlOK, NumbersOK, LoopOK, OverrunOK, Lesser, Halted
<1>8. TokensOK'
    BY DEF ControlOK, NumbersOK, TokensOK, Unspent, Uncounted, Lesser
<1>9. ProxiedOK'
    BY DEF ControlOK, NumbersOK, ProxiedOK, Uncounted, Lesser
<1> QED
    BY <1>1, <1>2, <1>3, <1>4, <1>5, <1>6, <1>7, <1>8, <1>9

\* A command that ran although its reply never came.
LEMMA ReplyLostInv ==
    ASSUME ClientInv, NEW w \in Worker, ReplyLost(w)
    PROVE  ClientInv'
<1> USE ClientAssumption, SettingsAssumption, BoundsAssumption, HaltTTLPositive
    DEF ReplyLost, RecordFailureUnheard, CountFailure, SetHaltUnheard, StartHalt, RecordSuccess, ClearStreak, DropStreak, Done, RecordSuccessMemory, Reset, Publish, Finish, Bump, ClientInv, client, meters, breaker, store, pending, memory, history
<1>1. BreakerInv'
    BY BreakerUnchanged, RecordFailureInv, SetHaltInv, RecordSuccessInv
<1>2. ControlOK'
    BY DEF ControlOK, Place, Kind, Result
<1>3. NumbersOK'
    BY DEF NumbersOK, Lesser
<1>4. CommandsAreCalls'
    <2>1. pc' = [pc EXCEPT ![w] = "idle"]
        OBVIOUS
    <2>2. CASE pc[w] = "token" /\ command' = command
        <3>1. command[w] = "none"
            BY <2>2 DEF BreakerInv, BreakerTypeOK, FlagsOK, Command, CommandsAreCalls
        <3>2. command' = [command EXCEPT ![w] = "none"]
            BY <2>2, <3>1 DEF BreakerInv, BreakerTypeOK, FlagsOK
        <3> QED
            BY <2>1, <3>2, CommandMoves DEF Command
    <2>3. CASE command' = [command EXCEPT ![w] = "none"]
        BY <2>1, <2>3, CommandMoves DEF Command
    <2> QED
        BY <2>2, <2>3
<1>5. LoopOK'
    BY DEF ControlOK, NumbersOK, LoopOK
<1>6. ResultOK'
    BY DEF ControlOK, ResultOK
<1>7. OverrunOK'
    BY DEF ControlOK, NumbersOK, LoopOK, OverrunOK, Lesser, Halted
<1>8. TokensOK'
    BY DEF ControlOK, NumbersOK, TokensOK, Unspent, Uncounted, Lesser
<1>9. ProxiedOK'
    BY DEF ControlOK, NumbersOK, ProxiedOK, Uncounted, Lesser
<1> QED
    BY <1>1, <1>2, <1>3, <1>4, <1>5, <1>6, <1>7, <1>8, <1>9

\* A command that ran and will be sent again: the call stays where it is.
LEMMA ResendInv ==
    ASSUME ClientInv, NEW w \in Worker, Resend(w)
    PROVE  ClientInv'
<1> USE ClientAssumption, SettingsAssumption, BoundsAssumption, HaltTTLPositive
    DEF Resend, RecordFailureAgain, CountFailure, SetHaltAgain, StartHalt, ClearStreakAgain, DropStreak, Again, ClientInv, client, meters, breaker, store, pending, memory, history
<1>1. BreakerInv'
    BY RecordFailureInv, SetHaltInv, RecordSuccessInv
<1>2. ControlOK'
    BY DEF ControlOK
<1>3. NumbersOK'
    BY DEF NumbersOK
<1>4. CommandsAreCalls'
    BY DEF BreakerInv, BreakerTypeOK, FlagsOK, CommandsAreCalls
<1>5. LoopOK'
    BY DEF LoopOK
<1>6. ResultOK'
    BY DEF ResultOK
<1>7. OverrunOK'
    BY DEF BreakerInv, OnlySharedTrips, NumbersOK, OverrunOK
<1>8. TokensOK'
    BY DEF TokensOK, Unspent, Uncounted
<1>9. ProxiedOK'
    BY DEF ProxiedOK, Uncounted
<1> QED
    BY <1>1, <1>2, <1>3, <1>4, <1>5, <1>6, <1>7, <1>8, <1>9

\* A new process: its locals and meters are those of Init.
LEMMA RestartInv ==
    ASSUME ClientInv, NEW w \in Worker, Restart(w)
    PROVE  ClientInv'
<1> USE ClientAssumption, SettingsAssumption, BoundsAssumption, HaltTTLPositive
    DEF Restart, NewProcess, Done, Reset, Publish, ClientInv, client, meters, breaker, store, pending, memory, history
<1>1. BreakerInv'
    BY NewProcessInv
<1>2. ControlOK'
    BY DEF ControlOK, Place, Kind, Result
<1>3. NumbersOK'
    BY DEF NumbersOK, Lesser
<1>4. CommandsAreCalls'
    BY DEF BreakerInv, BreakerTypeOK, FlagsOK, ControlOK, CommandsAreCalls
<1>5. LoopOK'
    BY DEF ControlOK, NumbersOK, LoopOK
<1>6. ResultOK'
    BY DEF ControlOK, ResultOK
<1>7. OverrunOK'
    BY DEF ControlOK, NumbersOK, LoopOK, OverrunOK, Lesser, Halted
<1>8. TokensOK'
    BY DEF ControlOK, NumbersOK, TokensOK, Unspent, Uncounted, Lesser
<1>9. ProxiedOK'
    BY DEF ControlOK, NumbersOK, ProxiedOK, Uncounted, Lesser
<1> QED
    BY <1>1, <1>2, <1>3, <1>4, <1>5, <1>6, <1>7, <1>8, <1>9

\* A tick: only a halt that lifts resets the count of overrunning sends.
LEMMA ElapseInv ==
    ASSUME ClientInv, Elapse
    PROVE  ClientInv'
<1> USE ClientAssumption, SettingsAssumption, BoundsAssumption, HaltTTLPositive
    DEF Elapse, Tick, ClientInv, client, meters, breaker, store, pending, memory, history
<1>1. BreakerInv'
    BY TickInv
<1>2. ControlOK'
    BY DEF ControlOK, Place, Kind, Result
<1>3. NumbersOK'
    BY DEF NumbersOK, Lesser
<1>4. CommandsAreCalls'
    BY DEF ControlOK, CommandsAreCalls
<1>5. LoopOK'
    BY DEF ControlOK, NumbersOK, LoopOK
<1>6. ResultOK'
    BY DEF ControlOK, ResultOK
<1>7. OverrunOK'
    BY DEF ControlOK, NumbersOK, LoopOK, OverrunOK, Lesser, Halted
<1>8. TokensOK'
    BY DEF ControlOK, NumbersOK, TokensOK, Unspent, Uncounted, Lesser
<1>9. ProxiedOK'
    BY DEF ControlOK, NumbersOK, ProxiedOK, Uncounted, Lesser
<1> QED
    BY <1>1, <1>2, <1>3, <1>4, <1>5, <1>6, <1>7, <1>8, <1>9

-----------------------------------------------------------------------------
\* The initial states satisfy the invariant.
LEMMA ClientInitInv == Init => ClientInv
<1> SUFFICES ASSUME Init PROVE ClientInv
    OBVIOUS
<1> USE ClientAssumption DEF Init
<1>1. BreakerInv
    BY InitInv
<1>2. ControlOK /\ NumbersOK
    BY DEF ControlOK, NumbersOK, Place, Kind, Result
<1>3. CommandsAreCalls /\ LoopOK /\ ResultOK
    BY DEF BreakerInit, CommandsAreCalls, LoopOK, ResultOK
<1>4. OverrunOK /\ TokensOK /\ ProxiedOK
    BY DEF OverrunOK, TokensOK, ProxiedOK, Unspent, Uncounted
<1> QED
    BY <1>1, <1>2, <1>3, <1>4 DEF ClientInv

\* Every step of the client, its faults and the clock preserves the invariant.
LEMMA ClientNextInv == ClientInv /\ [Next]_vars => ClientInv'
<1> SUFFICES ASSUME ClientInv, [Next]_vars PROVE ClientInv'
    OBVIOUS
<1>1. CASE Elapse
    BY <1>1, ElapseInv
<1>2. ASSUME NEW w \in Worker, Call(w) PROVE ClientInv'
    BY <1>2, RefuseInv, AdmitInv DEF Call
<1>3. ASSUME NEW w \in Worker, Proceed(w) PROVE ClientInv'
    BY <1>3, TakeTokenInv, SendInv, TransportFailureInv, ThrottledInv, RespondInv, EscapeInv,
       SucceedInv, CountThrottleInv, TripStepInv, RaiseTransportErrorInv
    DEF Proceed
<1>4. ASSUME NEW w \in Worker, Fault(w) PROVE ClientInv'
    BY <1>4, RedisErrorInv, ResendInv, ReplyLostInv, RestartInv DEF Fault
<1>5. CASE UNCHANGED vars
    <2> USE <1>5 DEF vars, client, meters
    <2>1. BreakerInv'
        BY BreakerUnchanged DEF ClientInv
    <2>2. ControlOK' /\ NumbersOK'
        BY DEF ClientInv, ControlOK, NumbersOK
    <2>3. CommandsAreCalls' /\ LoopOK' /\ ResultOK'
        BY DEF ClientInv, breaker, pending, CommandsAreCalls, LoopOK, ResultOK
    <2>4. OverrunOK' /\ TokensOK' /\ ProxiedOK'
        BY DEF ClientInv, breaker, store, OverrunOK, TokensOK, ProxiedOK, Unspent, Uncounted
    <2> QED
        BY <2>1, <2>2, <2>3, <2>4 DEF ClientInv
<1> QED
    BY <1>1, <1>2, <1>3, <1>4, <1>5 DEF Next

\* The inductive invariant holds in every state of the client over the breaker.
THEOREM ClientSafe == Spec => []ClientInv
<1> QED
    BY ClientInitInv, ClientNextInv, PTL DEF Spec

\* Every variable of the client and its breaker keeps its type.
THEOREM ClientTypeCorrect == Spec => []TypeOK
<1>1. ClientInv => TypeOK
    BY DEF ClientInv, BreakerInv, TypeOK
<1> QED
    BY <1>1, ClientSafe, PTL

\* The assertion behind the retry loop never fails, for any number of attempts.
THEOREM LoopAssertion == Spec => []AssertionHolds
<1>1. ClientInv => AssertionHolds
    BY DEF ClientInv, LoopOK, AssertionHolds
<1> QED
    BY <1>1, ClientSafe, PTL

\* A refused worker's gauge says open until its next call.
THEOREM RefusalReported == Spec => []RefusalIsReported
<1>1. ClientInv => RefusalIsReported
    BY DEF ClientInv, ResultOK, RefusalIsReported
<1> QED
    BY <1>1, ClientSafe, PTL

(***************************************************************************)
(* However many workers there are, each sends at most Attempts times under *)
(* one halt, however often the halt is extended.                           *)
(***************************************************************************)
THEOREM OverrunIsBounded == Spec => []OverrunBounded
<1>1. ClientInv => OverrunBounded
    BY DEF ClientInv, OverrunOK, OverrunBounded
<1> QED
    BY <1>1, ClientSafe, PTL

\* The IP guard sees every request that is counted.
THEOREM EveryAttemptSeen == Spec => []NoUnseenAttempt
<1>1. ClientInv => NoUnseenAttempt
    <2> SUFFICES ASSUME ClientInv, UseRedis, NEW w \in Worker PROVE requests[w] <= tokens[w]
        BY DEF NoUnseenAttempt
    <2>1. requests[w] \in 0..MaxCount /\ tokens[w] \in 0..MaxCount /\ Unspent(w) \in Nat
        BY DEF ClientInv, NumbersOK, Unspent, Uncounted
    <2>2. requests[w] + Unspent(w) <= tokens[w] \/ tokens[w] = MaxCount
        BY DEF ClientInv, TokensOK
    <2> QED
        BY <2>1, <2>2, ClientAssumption
<1> QED
    BY <1>1, ClientSafe, PTL

\* Between calls only stray sends are proxied and not counted.
THEOREM ProxiedCounted == Spec => []ProxiedAreCounted
<1>1. ClientInv => ProxiedAreCounted
    BY DEF ClientInv, NumbersOK, ProxiedOK, Uncounted, ProxiedAreCounted
<1> QED
    BY <1>1, ClientSafe, PTL

\* The breaker's own invariant about the two round trips of a trip, in place.
THEOREM ClientHaltIsOwed == Spec => []OwedHalt
<1>1. ClientInv => OwedHalt
    BY DEF ClientInv, BreakerInv
<1> QED
    BY <1>1, ClientSafe, PTL

-----------------------------------------------------------------------------
(***************************************************************************)
(* The measure behind CallReturns and HaltLifts: the steps a call can have *)
(* left.  An attempt takes three (token, send, what comes of it), and the  *)
(* one that is throttled two more, each of them sent up to MaxResends      *)
(* times again.                                                            *)
(***************************************************************************)
StepsLeft(w) ==
    CASE pc[w] = "idle"                   -> 0
      [] pc[w] = "token"                  -> 3 * (Attempts - 1 - attempt[w]) + 2 * MaxResends + 5
      [] pc[w] = "jitter"                 -> 3 * (Attempts - 1 - attempt[w]) + 2 * MaxResends + 4
      [] pc[w] = "sent"                   -> 3 * (Attempts - 1 - attempt[w]) + 2 * MaxResends + 3
      [] pc[w] = "throttled"              -> 2 * MaxResends + 2 - resends[w]
      [] pc[w] \in {"trip", "ok"}         -> MaxResends + 1 - resends[w]
      [] pc[w] = "exhausted"              -> 1

\* A step of w's call, or a fault of it, uses up at least one of its steps;
\* whatever else happens leaves the call where it is.
CallRunsDown(w) ==
    pc[w] # "idle" =>
        IF Proceed(w) \/ Fault(w) THEN StepsLeft(w)' < StepsLeft(w) ELSE StepsLeft(w)' = StepsLeft(w)

\* Under a halt no worker gets more to do, whoever sets the halt again has less
\* to do than before, and the clock takes from the halt.
HaltRunsDown ==
    UseRedis /\ halt > 0 =>
        /\ \A w \in Worker : StepsLeft(w)' <= StepsLeft(w)
        /\ halt' > halt => \E w \in Worker : StepsLeft(w)' < StepsLeft(w)
        /\ Elapse => halt' = halt - 1

\* What a call can still do is bounded by its attempts, and is nothing exactly
\* when there is no call.
StepsBounded ==
    \A w \in Worker :
        /\ StepsLeft(w) \in 0..(3 * Attempts + 2 * MaxResends + 2)
        /\ StepsLeft(w) = 0 <=> pc[w] = "idle"

\* Each place of a call has its number of steps.
LEMMA StepsAtPlace ==
    ASSUME ClientInv, NEW w \in Worker
    PROVE  /\ StepsLeft(w) \in Nat
           /\ StepsLeft(w) <= 3 * Attempts + 2 * MaxResends + 2
           /\ StepsLeft(w) = 0 <=> pc[w] = "idle"
<1>1. /\ pc[w] \in Place /\ attempt[w] \in 0..(Attempts - 1) /\ Attempts \in Nat \ {0}
      /\ resends[w] \in 0..MaxResends /\ MaxResends \in Nat
    BY ClientAssumption, BoundsAssumption
    DEF ClientInv, ControlOK, NumbersOK, BreakerInv, BreakerTypeOK, FlagsOK
<1> QED
    BY <1>1 DEF StepsLeft, Place

\* Who keeps place, attempt and lost replies keeps the number.
LEMMA StepsUnchanged ==
    ASSUME NEW w \in Worker, pc'[w] = pc[w], attempt'[w] = attempt[w], resends'[w] = resends[w]
    PROVE  StepsLeft(w)' = StepsLeft(w)
BY DEF StepsLeft

\* A step of w's call uses up at least one step.
LEMMA ProceedRunsDown ==
    ASSUME ClientInv, NEW w \in Worker, Proceed(w)
    PROVE  StepsLeft(w)' < StepsLeft(w)
<1>1. /\ pc \in [Worker -> Place] /\ attempt \in [Worker -> 0..(Attempts - 1)]
      /\ attempt[w] \in 0..(Attempts - 1) /\ Attempts \in Nat \ {0}
      /\ resends \in [Worker -> 0..MaxResends] /\ resends[w] \in 0..MaxResends /\ MaxResends \in Nat
    BY ClientAssumption, BoundsAssumption
    DEF ClientInv, ControlOK, NumbersOK, BreakerInv, BreakerTypeOK, FlagsOK
<1>2. ASSUME NEW failed \in BOOLEAN, NextRound(w, failed), pc[w] = "sent" PROVE StepsLeft(w)' < StepsLeft(w)
    BY <1>1, <1>2 DEF NextRound, StepsLeft
<1>3. ASSUME NEW how, Finish(w, how), pc[w] # "idle" PROVE StepsLeft(w)' < StepsLeft(w)
    <2>1. StepsLeft(w)' = 0
        BY <1>1, <1>3 DEF Finish, StepsLeft
    <2>2. StepsLeft(w) \in Nat /\ StepsLeft(w) # 0
        BY <1>3, StepsAtPlace
    <2> QED
        BY <2>1, <2>2
<1>4. CASE TakeToken(w)
    BY <1>1, <1>4 DEF TakeToken, GoTo, StepsLeft
<1>5. CASE Send(w)
    BY <1>1, <1>5 DEF Send, GoTo, StepsLeft
<1>6. CASE TransportFailure(w)
    BY <1>2, <1>3, <1>6 DEF TransportFailure
<1>7. CASE Throttled(w)
    <2>1. resends' = resends
        BY <1>7 DEF Throttled, breaker, pending
    <2> QED
        BY <1>1, <1>7, <2>1 DEF Throttled, GoTo, StepsLeft
<1>8. CASE Respond(w)
    <2>1. pc[w] = "sent" /\ (NextRound(w, FALSE) \/ GoTo(w, "ok") \/ Finish(w, "returned"))
        BY <1>8 DEF Respond
    <2>2. ASSUME GoTo(w, "ok") PROVE StepsLeft(w)' < StepsLeft(w)
        <3>1. resends' = resends
            BY <1>8 DEF Respond, breaker, pending
        <3> QED
            BY <1>1, <2>1, <2>2, <3>1 DEF GoTo, StepsLeft
    <2> QED
        BY <1>2, <1>3, <2>1, <2>2
<1>9. CASE Escape(w)
    BY <1>3, <1>9 DEF Escape
<1>10. CASE Succeed(w)
    BY <1>3, <1>10 DEF Succeed
<1>11. CASE CountThrottle(w)
    <2>1. pc[w] = "throttled" /\ (GoTo(w, "trip") \/ Finish(w, "returned"))
        BY <1>11 DEF CountThrottle
    <2>2. ASSUME GoTo(w, "trip") PROVE StepsLeft(w)' < StepsLeft(w)
        <3>1. resends'[w] \in 0..MaxResends
            BY <1>11, CountThrottleInv DEF ClientInv, BreakerInv, BreakerTypeOK, FlagsOK
        <3> QED
            BY <1>1, <2>1, <2>2, <3>1 DEF GoTo, StepsLeft
    <2> QED
        BY <1>3, <2>1, <2>2
<1>12. CASE Trip(w)
    BY <1>3, <1>12 DEF Trip
<1>13. CASE RaiseTransportError(w)
    BY <1>3, <1>13 DEF RaiseTransportError
<1> QED
    BY <1>4, <1>5, <1>6, <1>7, <1>8, <1>9, <1>10, <1>11, <1>12, <1>13 DEF Proceed

\* A fault takes w out of its call, or leaves it one reply less to lose.
LEMMA FaultRunsDown ==
    ASSUME ClientInv, NEW w \in Worker, Fault(w)
    PROVE  /\ pc[w] # "idle" => StepsLeft(w)' < StepsLeft(w)
           /\ pc[w] = "idle" => StepsLeft(w)' = StepsLeft(w)
<1>1. StepsLeft(w) \in Nat /\ (StepsLeft(w) = 0 <=> pc[w] = "idle")
    BY StepsAtPlace
<1>2. CASE Resend(w)
    <2>1. /\ pc[w] \in {"throttled", "trip", "ok"} /\ pc' = pc
          /\ resends[w] < MaxResends /\ resends' = [resends EXCEPT ![w] = resends[w] + 1]
        BY <1>2 DEF Resend, RecordFailureAgain, SetHaltAgain, ClearStreakAgain, Again, client
    <2>2. resends \in [Worker -> 0..MaxResends] /\ MaxResends \in Nat
        BY BoundsAssumption DEF ClientInv, BreakerInv, BreakerTypeOK, FlagsOK
    <2>3. resends[w] \in Nat /\ resends'[w] = resends[w] + 1
        BY <2>1, <2>2
    <2> QED
        BY <2>1, <2>2, <2>3 DEF StepsLeft
<1>3. CASE ~Resend(w)
    <2>1. pc' = [pc EXCEPT ![w] = "idle"]
        BY <1>3 DEF Fault, RedisError, ReplyLost, Restart, Finish
    <2>2. pc'[w] = "idle"
        BY <2>1 DEF ClientInv, ControlOK
    <2>3. StepsLeft(w)' = 0
        BY <2>2 DEF StepsLeft
    <2> QED
        BY <1>1, <2>3
<1> QED
    BY <1>2, <1>3

\* Nobody else's step moves w's call, and neither does the clock.
LEMMA OthersStay ==
    ASSUME ClientInv, NEW w \in Worker, NEW v \in Worker, v # w, Call(v) \/ Proceed(v) \/ Fault(v)
    PROVE  StepsLeft(w)' = StepsLeft(w)
<1>1. ASSUME NEW place, pc' = [pc EXCEPT ![v] = place] PROVE pc'[w] = pc[w]
    BY <1>1 DEF ClientInv, ControlOK
<1>2. ASSUME NEW n, attempt' = [attempt EXCEPT ![v] = n] PROVE attempt'[w] = attempt[w]
    BY <1>2 DEF ClientInv, NumbersOK
<1>3. ASSUME NEW n, resends' = [resends EXCEPT ![v] = n] PROVE resends'[w] = resends[w]
    BY <1>3 DEF ClientInv, BreakerInv, BreakerTypeOK, FlagsOK
<1> USE DEF Call, Refuse, Admit, Proceed, Fault, TakeToken, Send, TransportFailure, Throttled, Respond, Escape,
        Succeed, CountThrottle, Trip, RaiseTransportError, RedisError, Resend, ReplyLost, Restart
<1>4. pc' = pc \/ \E place : pc' = [pc EXCEPT ![v] = place]
    BY DEF client, NextRound, GoTo, Finish
<1>5. attempt' = attempt \/ \E n : attempt' = [attempt EXCEPT ![v] = n]
    BY DEF client, NextRound, GoTo, Finish
<1>6. resends' = resends \/ \E n : resends' = [resends EXCEPT ![v] = n]
    BY DEF breaker, pending, IsOpen, RecordSuccess, ClearStreak, ClearStreakAgain, RecordSuccessMemory,
        RecordFailure, RecordFailureShared, RecordFailureMemory, RecordFailureAgain, RecordFailureUnheard,
        SetHalt, SetHaltAgain, SetHaltUnheard, Raise, NewProcess, Done, Again
<1> QED
    BY <1>1, <1>2, <1>3, <1>4, <1>5, <1>6, StepsUnchanged

\* A refusal leaves w outside; an admission is possible without a halt only.
LEMMA CallUnderHalt ==
    ASSUME ClientInv, UseRedis, halt > 0, NEW w \in Worker, Call(w)
    PROVE  StepsLeft(w)' = StepsLeft(w)
<1>1. Refuse(w)
    BY DEF Call, Admit, Halted
<1>2. pc[w] = "idle" /\ pc'[w] = "idle"
    BY <1>1 DEF Refuse, Finish, ClientInv, ControlOK
<1> QED
    BY <1>2 DEF StepsLeft

\* Only a SET raises a halt, heard or not; only the clock lowers it.
LEMMA HaltMoves ==
    ASSUME ClientInv, UseRedis, [Next]_vars
    PROVE  \/ halt' = halt
           \/ \E w \in Worker : pc[w] = "trip" /\ (Proceed(w) \/ Fault(w))
           \/ Elapse
<1> USE DEF store, breaker, vars
<1>1. CASE UNCHANGED vars \/ Elapse
    BY <1>1
<1>2. ASSUME NEW w \in Worker, Call(w) PROVE halt' = halt
    BY <1>2 DEF Call, Refuse, Admit, IsOpen
<1>3. ASSUME NEW w \in Worker, Proceed(w), pc[w] # "trip" PROVE halt' = halt
    BY <1>3 DEF Proceed, TakeToken, Send, TransportFailure, Throttled, Respond, Escape, Succeed, CountThrottle,
        Trip, RaiseTransportError, RecordSuccess, ClearStreak, DropStreak, RecordSuccessMemory, RecordFailure,
        RecordFailureShared, RecordFailureMemory, CountFailure
<1>4. ASSUME NEW w \in Worker, Fault(w), pc[w] # "trip" PROVE halt' = halt
    BY <1>4 DEF Fault, RedisError, Resend, ReplyLost, Restart, RecordFailureAgain, RecordFailureUnheard,
        CountFailure, RecordSuccess, ClearStreak, ClearStreakAgain, DropStreak, RecordSuccessMemory, Raise, NewProcess
<1> QED
    BY <1>1, <1>2, <1>3, <1>4 DEF Next

\* The bound of the measure.
LEMMA InvSteps == ClientInv => StepsBounded
<1> SUFFICES ASSUME ClientInv, NEW w \in Worker
             PROVE  /\ StepsLeft(w) \in 0..(3 * Attempts + 2 * MaxResends + 2)
                    /\ StepsLeft(w) = 0 <=> pc[w] = "idle"
    BY DEF StepsBounded
<1> QED
    BY StepsAtPlace, ClientAssumption, BoundsAssumption

\* One step and one call.
LEMMA NextRunsDown ==
    ASSUME ClientInv, Next, NEW w \in Worker
    PROVE  CallRunsDown(w)
<1> SUFFICES ASSUME pc[w] # "idle"
             PROVE  IF Proceed(w) \/ Fault(w) THEN StepsLeft(w)' < StepsLeft(w) ELSE StepsLeft(w)' = StepsLeft(w)
    BY DEF CallRunsDown
<1>1. CASE Proceed(w)
    BY <1>1, ProceedRunsDown
<1>2. CASE Fault(w)
    BY <1>2, FaultRunsDown
<1>3. CASE ~Proceed(w) /\ ~Fault(w)
    <2>1. CASE Elapse
        BY <1>3, <2>1, StepsUnchanged DEF Elapse, Tick, client, pending
    <2>2. CASE \E v \in Worker : Call(v) \/ Proceed(v) \/ Fault(v)
        <3>1. PICK v \in Worker : Call(v) \/ Proceed(v) \/ Fault(v)
            BY <2>2
        <3>2. ~Call(w)
            BY DEF Call, Refuse, Admit
        <3> QED
            BY <1>3, <3>1, <3>2, OthersStay
    <2> QED
        BY <2>1, <2>2 DEF Next
<1> QED
    BY <1>1, <1>2, <1>3

\* One step under a halt.
LEMMA NextHaltRunsDown == ClientInv /\ Next => HaltRunsDown
<1> SUFFICES ASSUME ClientInv, Next, UseRedis, halt > 0
             PROVE  /\ \A w \in Worker : StepsLeft(w)' <= StepsLeft(w)
                    /\ halt' > halt => \E w \in Worker : StepsLeft(w)' < StepsLeft(w)
                    /\ Elapse => halt' = halt - 1
    BY DEF HaltRunsDown
<1>1. halt \in Nat
    BY HaltTTLPositive DEF ClientInv, BreakerInv, BreakerTypeOK, CountersOK
<1>5. \A w \in Worker : StepsLeft(w)' \in Nat
    <2>1. ClientInv'
        BY ClientNextInv
    <2> SUFFICES ASSUME NEW w \in Worker PROVE StepsLeft(w)' \in Nat
        OBVIOUS
    <2>2. /\ pc'[w] \in Place /\ attempt'[w] \in 0..(Attempts - 1) /\ Attempts \in Nat
          /\ resends'[w] \in 0..MaxResends /\ MaxResends \in Nat
        BY <2>1, ClientAssumption, BoundsAssumption
        DEF ClientInv, ControlOK, NumbersOK, BreakerInv, BreakerTypeOK, FlagsOK
    <2> QED
        BY <2>2 DEF StepsLeft, Place
<1>2. ASSUME NEW w \in Worker PROVE StepsLeft(w)' <= StepsLeft(w)
    <2>1. StepsLeft(w) \in Nat
        BY StepsAtPlace
    <2>2. CASE Elapse
        BY <2>1, <2>2, StepsUnchanged DEF Elapse, Tick, client, pending
    <2>3. ASSUME NEW v \in Worker, Call(v) \/ Proceed(v) \/ Fault(v) PROVE StepsLeft(w)' <= StepsLeft(w)
        <3>1. CASE v # w
            BY <2>1, <2>3, <3>1, OthersStay
        <3>2. CASE v = w
            <4>1. Call(w) \/ Proceed(w) \/ Fault(w)
                BY <2>3, <3>2
            <4>2. CASE Call(w)
                BY <2>1, <4>2, CallUnderHalt
            <4>3. CASE Proceed(w)
                BY <1>5, <2>1, <4>3, ProceedRunsDown
            <4>4. CASE Fault(w)
                BY <1>5, <2>1, <4>4, FaultRunsDown
            <4> QED
                BY <4>1, <4>2, <4>3, <4>4
        <3> QED
            BY <3>1, <3>2
    <2> QED
        BY <2>2, <2>3 DEF Next
<1>3. Elapse => halt' = halt - 1
    BY <1>1 DEF Elapse, Tick
<1>4. ASSUME halt' > halt PROVE \E w \in Worker : StepsLeft(w)' < StepsLeft(w)
    <2>1. PICK w \in Worker : pc[w] = "trip" /\ (Proceed(w) \/ Fault(w))
        BY <1>1, <1>3, <1>4, HaltMoves
    <2> QED
        BY <2>1, ProceedRunsDown, FaultRunsDown
<1> QED
    BY <1>2, <1>3, <1>4

(***************************************************************************)
(* A call under way can only run down: every step of it, and every fault,  *)
(* uses up one of at most 3 * Attempts + 2 * MaxResends + 2 steps, and     *)
(* nothing else gives it more (the loop over range(attempts)).             *)
(***************************************************************************)
THEOREM CallsRunDown == Spec => []StepsBounded /\ [][\A w \in Worker : CallRunsDown(w)]_vars
<1>1. ClientInv /\ [Next]_vars => [\A w \in Worker : CallRunsDown(w)]_vars
    BY NextRunsDown
<1> QED
    BY <1>1, InvSteps, ClientSafe, PTL DEF Spec

(***************************************************************************)
(* A halt can be extended only by calls that were let in before it and get *)
(* fewer with each extension, and otherwise every tick takes from it.      *)
(***************************************************************************)
THEOREM HaltsRunDown == Spec => [][HaltRunsDown]_vars
<1>1. ClientInv /\ [Next]_vars => [HaltRunsDown]_vars
    BY NextHaltRunsDown
<1> QED
    BY <1>1, ClientSafe, PTL DEF Spec

-----------------------------------------------------------------------------
(***************************************************************************)
(* The client over the breaker implements the gate of Gate.tla: proof of   *)
(* the refinement that HttpFleet and HttpMemory check on small instances.  *)
(***************************************************************************)

\* Without Redis a call is made only with the breaker closed, and it stays
\* closed until the call ends: nobody else can open it.
ClosedInCall == ~UseRedis => \A w \in Worker : pc[w] # "idle" => age[w] = NotOpen

GateInv == ClientInv /\ ClosedInCall

\* The abstract state.
down == [w \in Worker |-> Down(w)]
inside == {w \in Worker : pc[w] # "idle"}
Period == IF UseRedis THEN HaltTTL ELSE Cooldown

-----------------------------------------------------------------------------
(* What the steps do to the two variables of the gate. *)

\* The types the refinement needs, from the invariant.
LEMMA GateTypes ==
    ASSUME GateInv
    PROVE  /\ pc \in [Worker -> Place]
           /\ halt \in Nat
           /\ age \in [Worker -> NotOpen..Cooldown]
           /\ Cooldown \in Nat
BY SettingsAssumption, HaltTTLPositive
DEF GateInv, ClientInv, ControlOK, BreakerInv, BreakerTypeOK, CountersOK

\* A call that is not halted stands before a gate that is up.
LEMMA NotHaltedIsUp ==
    ASSUME GateInv, NEW w \in Worker, ~Halted(w)
    PROVE  Down(w) = 0
<1>1. CASE UseRedis
    BY <1>1, GateTypes DEF Halted, Down
<1>2. CASE ~UseRedis
    BY <1>2, GateTypes DEF Halted, Down, NotOpen
<1> QED
    BY <1>1, <1>2

\* is_open moves no gate: what it resets has run out already.
LEMMA IsOpenKeepsDown ==
    ASSUME GateInv, NEW w \in Worker, IsOpen(w)
    PROVE  down' = down
<1>1. CASE UseRedis
    BY <1>1 DEF IsOpen, store, down, Down
<1>2. CASE ~UseRedis
    <2>1. age' = age \/ (age' = [age EXCEPT ![w] = NotOpen] /\ age[w] # NotOpen /\ age[w] >= Cooldown)
        BY <1>2 DEF IsOpen, memory, Reset
    <2>2. ASSUME NEW v \in Worker PROVE Down(v)' = Down(v)
        BY <1>2, <2>1, GateTypes DEF Down, NotOpen
    <2> QED
        BY <2>2 DEF down
<1> QED
    BY <1>1, <1>2

\* Neither does a success: in memory its breaker was closed.
LEMMA SuccessKeepsDown ==
    ASSUME GateInv, NEW w \in Worker, RecordSuccess(w), pc[w] # "idle"
    PROVE  down' = down /\ age' = age
<1>1. CASE UseRedis
    BY <1>1 DEF RecordSuccess, ClearStreak, DropStreak, RecordSuccessMemory, memory, down, Down
<1>2. CASE ~UseRedis
    <2>1. age[w] = NotOpen
        BY <1>2 DEF GateInv, ClosedInCall
    <2>2. age' = age
        BY <1>2, <2>1 DEF RecordSuccess, ClearStreak, RecordSuccessMemory
    <2> QED
        BY <1>2, <2>2 DEF down, Down
<1> QED
    BY <1>1, <1>2

\* The gate's height depends on the halt and the opening times alone.
LEMMA UnchangedKeepsDown ==
    ASSUME halt' = halt, age' = age
    PROVE  down' = down
BY DEF down, Down

\* A call that ends takes its worker out.
LEMMA FinishLeaves ==
    ASSUME GateInv, NEW w \in Worker, pc' = [pc EXCEPT ![w] = "idle"]
    PROVE  inside' = inside \ {w}
BY GateTypes DEF inside

\* A call that goes on keeps it inside.
LEMMA GoOnStays ==
    ASSUME GateInv, NEW w \in Worker, pc[w] # "idle",
           NEW place, place # "idle", pc' = [pc EXCEPT ![w] = place]
    PROVE  inside' = inside
BY GateTypes DEF inside

-----------------------------------------------------------------------------
(* Every step of the client is a step of the gate or a stutter. *)

GateStep == G!Next \/ UNCHANGED <<down, inside>>

\* A call that ends with the gate as it was is a Leave.
LEMMA LeaveStep ==
    ASSUME GateInv, NEW w \in Worker, pc[w] # "idle",
           down' = down, inside' = inside \ {w}
    PROVE  GateStep
<1>1. w \in inside
    BY DEF inside
<1>2. G!Leave(w)
    BY <1>1 DEF G!Leave, down, inside
<1> QED
    BY <1>2 DEF GateStep, G!Next

\* A call that brings the gate down, and ends or goes on, is a Drop.
LEMMA DropStep ==
    ASSUME GateInv, NEW w \in Worker, pc[w] # "idle", inside' \in {inside, inside \ {w}},
           down' = [v \in Worker |-> IF UseRedis \/ v = w THEN Period ELSE down[v]]
    PROVE  GateStep
<1>1. w \in inside
    BY DEF inside
<1>2. \A v \in Worker : v \in G!Behind(w) <=> UseRedis \/ v = w
    BY DEF G!Behind
<1>3. down' = [v \in Worker |-> IF v \in G!Behind(w) THEN Period ELSE down[v]]
    BY <1>2
<1>4. G!Drop(w)
    BY <1>1, <1>3 DEF G!Drop, down, inside, Period
<1> QED
    BY <1>4 DEF GateStep, G!Next

\* A refusal is a stutter, an admission an Enter.
LEMMA CallIsGateStep ==
    ASSUME GateInv, NEW w \in Worker, Call(w)
    PROVE  GateStep
<1>1. CASE Refuse(w)
    <2>1. down' = down
        BY <1>1, IsOpenKeepsDown DEF Refuse
    <2>2. inside' = inside
        BY <1>1, GateTypes DEF Refuse, Finish, inside
    <2> QED
        BY <2>1, <2>2 DEF GateStep
<1>2. ASSUME NEW k \in Kind, Admit(w, k) PROVE GateStep
    <2>1. down' = down
        BY <1>2, IsOpenKeepsDown DEF Admit
    <2>2. w \notin inside /\ inside' = inside \cup {w}
        BY <1>2, GateTypes DEF Admit, inside
    <2>3. down[w] = 0
        BY <1>2, NotHaltedIsUp DEF Admit, down
    <2>4. G!Enter(w)
        BY <2>1, <2>2, <2>3 DEF G!Enter, down, inside
    <2> QED
        BY <2>4 DEF GateStep, G!Next
<1> QED
    BY <1>1, <1>2 DEF Call

\* Steps of a call that leave the breaker alone stay inside or leave.
LEMMA PlainStep ==
    ASSUME GateInv, NEW w \in Worker, pc[w] # "idle", UNCHANGED breaker,
           NEW place, pc' = [pc EXCEPT ![w] = place]
    PROVE  GateStep
<1>1. down' = down
    BY UnchangedKeepsDown DEF breaker, store, memory
<1>2. CASE place = "idle"
    BY <1>1, <1>2, FinishLeaves, LeaveStep
<1>3. CASE place # "idle"
    BY <1>1, <1>3, GoOnStays DEF GateStep
<1> QED
    BY <1>2, <1>3

\* record_failure: in Redis it moves no gate, in memory it may drop its own.
LEMMA CountThrottleIsGateStep ==
    ASSUME GateInv, NEW w \in Worker, CountThrottle(w)
    PROVE  GateStep
<1>1. pc[w] # "idle" /\ (pc' = [pc EXCEPT ![w] = "trip"] \/ pc' = [pc EXCEPT ![w] = "idle"])
    BY DEF CountThrottle, GoTo, Finish
<1>2. CASE UseRedis
    <2>1. down' = down
        BY <1>2, UnchangedKeepsDown
        DEF CountThrottle, RecordFailure, RecordFailureShared, RecordFailureMemory, CountFailure, memory
    <2>2. CASE pc' = [pc EXCEPT ![w] = "idle"]
        BY <1>1, <2>1, <2>2, FinishLeaves, LeaveStep
    <2>3. CASE pc' = [pc EXCEPT ![w] = "trip"]
        BY <1>1, <2>1, <2>3, GoOnStays DEF GateStep
    <2> QED
        BY <1>1, <2>2, <2>3
<1>3. CASE ~UseRedis
    <2>1. RecordFailureMemory(w)
        BY <1>3 DEF CountThrottle, RecordFailure, RecordFailureShared
    <2>2. command'[w] = "none"
        BY <1>3, <2>1 DEF RecordFailureMemory, pending, GateInv, ClientInv, BreakerInv, OnlySharedTrips
    <2>3. inside' = inside \ {w}
        BY <2>2, FinishLeaves DEF CountThrottle, Finish
    <2>4. CASE age' = age
        <3>1. down' = down
            BY <1>3, <2>4 DEF down, Down
        <3> QED
            BY <1>1, <2>3, <3>1, LeaveStep
    <2>5. CASE age' = [age EXCEPT ![w] = 0]
        <3>1. ASSUME NEW v \in Worker PROVE Down(v)' = IF UseRedis \/ v = w THEN Period ELSE down[v]
            BY <1>3, <2>5, GateTypes DEF Down, down, Period, NotOpen
        <3>2. down' = [v \in Worker |-> IF UseRedis \/ v = w THEN Period ELSE down[v]]
            BY <3>1 DEF down
        <3> QED
            BY <1>1, <2>3, <3>2, DropStep
    <2> QED
        BY <2>1, <2>4, <2>5 DEF RecordFailureMemory
<1> QED
    BY <1>2, <1>3

\* The SET of the halt, heard or not, drops every worker's gate.
LEMMA StartHaltDrops ==
    ASSUME GateInv, NEW w \in Worker, StartHalt(w), pc[w] # "idle", inside' \in {inside, inside \ {w}}
    PROVE  GateStep
<1>1. UseRedis
    BY DEF StartHalt, GateInv, ClientInv, BreakerInv, OnlySharedTrips
<1>2. down' = [v \in Worker |-> IF UseRedis \/ v = w THEN Period ELSE down[v]]
    BY <1>1 DEF StartHalt, down, Down, Period
<1> QED
    BY <1>2, DropStep

\* Every step of a call under way stays inside, leaves, or drops the gate.
LEMMA ProceedIsGateStep ==
    ASSUME GateInv, NEW w \in Worker, Proceed(w)
    PROVE  GateStep
<1>1. CASE TakeToken(w)
    BY <1>1, PlainStep DEF TakeToken, GoTo
<1>2. CASE Send(w)
    BY <1>2, PlainStep DEF Send, GoTo
<1>3. CASE TransportFailure(w)
    <2>1. PICK place : pc' = [pc EXCEPT ![w] = place]
        BY <1>3 DEF TransportFailure, NextRound, Finish
    <2> QED
        BY <1>3, <2>1, PlainStep DEF TransportFailure
<1>4. CASE Throttled(w)
    BY <1>4, PlainStep DEF Throttled, GoTo
<1>5. CASE Respond(w)
    <2>1. PICK place : pc' = [pc EXCEPT ![w] = place]
        BY <1>5 DEF Respond, NextRound, GoTo, Finish
    <2> QED
        BY <1>5, <2>1, PlainStep DEF Respond
<1>6. CASE Escape(w)
    BY <1>6, PlainStep DEF Escape, Finish
<1>7. CASE Succeed(w)
    BY <1>7, SuccessKeepsDown, FinishLeaves, LeaveStep DEF Succeed, Finish
<1>8. CASE CountThrottle(w)
    BY <1>8, CountThrottleIsGateStep
<1>9. CASE Trip(w)
    BY <1>9, StartHaltDrops, FinishLeaves DEF Trip, SetHalt, Finish
<1>10. CASE RaiseTransportError(w)
    BY <1>10, PlainStep DEF RaiseTransportError, Finish
<1> QED
    BY <1>1, <1>2, <1>3, <1>4, <1>5, <1>6, <1>7, <1>8, <1>9, <1>10 DEF Proceed

\* A new process is a Renew: a shared gate stays as it is, its own one is up.
LEMMA RestartIsGateStep ==
    ASSUME GateInv, NEW w \in Worker, Restart(w)
    PROVE  GateStep
<1>1. inside' = inside \ {w}
    BY FinishLeaves DEF Restart
<1>2. halt' = halt /\ age' = [age EXCEPT ![w] = NotOpen]
    BY DEF Restart, NewProcess, Reset, store
<1>3. ASSUME NEW v \in Worker PROVE Down(v)' = IF ~UseRedis /\ v = w THEN 0 ELSE Down(v)
    BY <1>2, GateTypes DEF Down
<1>4. down' = IF UseRedis THEN down ELSE [down EXCEPT ![w] = 0]
    BY <1>3 DEF down
<1>5. G!Renew(w)
    BY <1>1, <1>4 DEF G!Renew, down, inside
<1> QED
    BY <1>5 DEF GateStep, G!Next

\* An error that ends a call is a Leave; a refused Redis command a stutter.
LEMMA FaultIsGateStep ==
    ASSUME GateInv, NEW w \in Worker, Fault(w)
    PROVE  GateStep
<1>1. CASE RedisError(w)
    <2>1. down' = down
        BY <1>1, UnchangedKeepsDown DEF RedisError, Raise, store, memory
    <2>2. inside' = inside \ {w}
        BY <1>1, FinishLeaves DEF RedisError, Finish
    <2>3. CASE pc[w] = "idle"
        <3>1. inside' = inside
            BY <2>2, <2>3 DEF inside
        <3> QED
            BY <2>1, <3>1 DEF GateStep
    <2>4. CASE pc[w] # "idle"
        BY <2>1, <2>2, <2>4, LeaveStep
    <2> QED
        BY <2>3, <2>4
<1>2. CASE ReplyLost(w)
    <2>1. pc[w] # "idle" /\ inside' = inside \ {w}
        BY <1>2, FinishLeaves DEF ReplyLost, Finish
    <2>2. CASE SetHaltUnheard(w)
        BY <2>1, <2>2, StartHaltDrops DEF SetHaltUnheard
    <2>3. CASE ~SetHaltUnheard(w)
        <3>1. down' = down
            <4>1. CASE UNCHANGED breaker
                BY <4>1, UnchangedKeepsDown DEF breaker, store, memory
            <4>2. CASE RecordFailureUnheard(w)
                BY <4>2, UnchangedKeepsDown DEF RecordFailureUnheard, CountFailure, memory
            <4>3. CASE RecordSuccess(w)
                BY <2>1, <4>3, SuccessKeepsDown
            <4> QED
                BY <1>2, <2>3, <4>1, <4>2, <4>3 DEF ReplyLost
        <3> QED
            BY <2>1, <3>1, LeaveStep
    <2> QED
        BY <2>2, <2>3
<1>4. CASE Resend(w)
    <2>1. pc[w] # "idle" /\ inside' = inside
        BY <1>4 DEF Resend, client, inside
    <2>2. CASE SetHaltAgain(w)
        BY <2>1, <2>2, StartHaltDrops DEF SetHaltAgain
    <2>3. CASE RecordFailureAgain(w) \/ ClearStreakAgain(w)
        <3>1. down' = down
            BY <2>3, UnchangedKeepsDown DEF RecordFailureAgain, CountFailure, ClearStreakAgain, DropStreak, memory
        <3> QED
            BY <2>1, <3>1 DEF GateStep
    <2> QED
        BY <1>4, <2>2, <2>3 DEF Resend
<1>3. CASE Restart(w)
    BY <1>3, RestartIsGateStep
<1> QED
    BY <1>1, <1>2, <1>3, <1>4 DEF Fault

\* A tick lowers every gate that is down by one.
LEMMA ElapseIsGateStep ==
    ASSUME GateInv, Elapse
    PROVE  GateStep
<1>1. inside' = inside
    BY DEF Elapse, client, inside
<1>2. ASSUME NEW v \in Worker PROVE Down(v)' = IF Down(v) > 0 THEN Down(v) - 1 ELSE 0
    <2>1. CASE UseRedis
        BY <2>1, GateTypes DEF Elapse, Tick, Down
    <2>2. CASE ~UseRedis
        BY <2>2, GateTypes DEF Elapse, Tick, Down, NotOpen, Lesser
    <2> QED
        BY <2>1, <2>2
<1>3. down' = [v \in Worker |-> IF down[v] > 0 THEN down[v] - 1 ELSE 0]
    BY <1>2 DEF down
<1>4. G!Elapse
    BY <1>1, <1>3 DEF G!Elapse, down, inside
<1> QED
    BY <1>4 DEF GateStep, G!Next

-----------------------------------------------------------------------------
(* ClosedInCall is inductive beside the client's invariant. *)

\* No call is under way when the processes start.
LEMMA ClosedInit == Init => ClosedInCall
BY DEF Init, ClosedInCall

\* Call steps: a worker is admitted with its breaker closed.
LEMMA CallKeepsClosed ==
    ASSUME GateInv, ~UseRedis, NEW w \in Worker, Call(w)
    PROVE  ClosedInCall'
<1>1. age' = age \/ age' = [age EXCEPT ![w] = NotOpen]
    BY DEF Call, Refuse, Admit, IsOpen, Reset, memory
<1>2. CASE Refuse(w)
    <2>1. pc' = pc
        BY <1>2, GateTypes DEF Refuse, Finish
    <2> QED
        BY <1>1, <2>1, GateTypes DEF GateInv, ClosedInCall
<1>3. ASSUME NEW k \in Kind, Admit(w, k) PROVE ClosedInCall'
    <2>1. age'[w] = NotOpen
        <3>1. age[w] = NotOpen \/ age[w] >= Cooldown
            BY <1>3, GateTypes DEF Admit, Halted, NotOpen
        <3>2. age[w] = NotOpen => age'[w] = NotOpen
            BY <1>1, GateTypes
        <3>3. age[w] # NotOpen /\ age[w] >= Cooldown => age'[w] = NotOpen
            <4>1. IsOpen(w)
                BY <1>3 DEF Admit
            <4>2. age[w] \in Int /\ age \in [Worker -> NotOpen..Cooldown]
                BY GateTypes DEF NotOpen
            <4>3. age[w] # NotOpen /\ age[w] >= Cooldown => Reset(w)
                BY <4>1, <4>2, SettingsAssumption DEF IsOpen
            <4> QED
                BY <4>2, <4>3 DEF Reset
        <3> QED
            BY <3>1, <3>2, <3>3
    <2>2. \A v \in Worker : v # w => pc'[v] = pc[v] /\ age'[v] = age[v]
        BY <1>1, <1>3, GateTypes DEF Admit
    <2> QED
        BY <2>1, <2>2 DEF GateInv, ClosedInCall
<1> QED
    BY <1>2, <1>3 DEF Call

\* A call that goes on or ends without touching the opening times.
LEMMA SameAgeKeepsClosed ==
    ASSUME GateInv, ~UseRedis, NEW w \in Worker, pc[w] # "idle", age' = age,
           NEW place, pc' = [pc EXCEPT ![w] = place]
    PROVE  ClosedInCall'
BY GateTypes DEF GateInv, ClosedInCall

\* The other steps of a call: the failure that opens the breaker ends the call.
LEMMA ProceedKeepsClosed ==
    ASSUME GateInv, ~UseRedis, NEW w \in Worker, Proceed(w)
    PROVE  ClosedInCall'
<1>1. pc[w] # "idle"
    BY DEF Proceed, TakeToken, Send, TransportFailure, Throttled, Respond, Escape,
        Succeed, CountThrottle, Trip, RaiseTransportError
<1>2. PICK place : pc' = [pc EXCEPT ![w] = place]
    BY DEF Proceed, TakeToken, Send, TransportFailure, Throttled, Respond, Escape,
        Succeed, CountThrottle, Trip, RaiseTransportError, NextRound, GoTo, Finish
<1>3. CASE UNCHANGED breaker
    BY <1>1, <1>2, <1>3, SameAgeKeepsClosed DEF breaker, memory
<1>4. CASE Succeed(w)
    BY <1>1, <1>2, <1>4, SuccessKeepsDown, SameAgeKeepsClosed DEF Succeed
<1>5. CASE CountThrottle(w)
    <2>1. RecordFailureMemory(w)
        BY <1>5 DEF CountThrottle, RecordFailure, RecordFailureShared
    <2>2. command'[w] = "none"
        BY <2>1 DEF RecordFailureMemory, pending, GateInv, ClientInv, BreakerInv, OnlySharedTrips
    <2>3. pc' = [pc EXCEPT ![w] = "idle"]
        BY <1>5, <2>2 DEF CountThrottle, Finish
    <2>4. \A v \in Worker : v # w => age'[v] = age[v]
        BY <2>1, GateTypes DEF RecordFailureMemory
    <2> QED
        BY <2>3, <2>4, GateTypes DEF GateInv, ClosedInCall
<1>6. CASE Trip(w)
    BY <1>6 DEF Trip, SetHalt, StartHalt, GateInv, ClientInv, BreakerInv, OnlySharedTrips
<1> QED
    BY <1>3, <1>4, <1>5, <1>6 DEF Proceed, TakeToken, Send, TransportFailure,
        Throttled, Respond, Escape, RaiseTransportError

\* Without Redis the one fault left is the end of the process.
LEMMA FaultKeepsClosed ==
    ASSUME GateInv, ~UseRedis, NEW w \in Worker, Fault(w)
    PROVE  ClosedInCall'
<1>1. Restart(w)
    BY DEF Fault, RedisError, Raise, ReplyLost, Resend, RecordFailureAgain, ClearStreakAgain,
        SetHaltAgain, StartHalt, GateInv, ClientInv, BreakerInv, OnlySharedTrips
<1>2. pc' = [pc EXCEPT ![w] = "idle"] /\ age' = [age EXCEPT ![w] = NotOpen]
    BY <1>1 DEF Restart, NewProcess, Reset
<1> QED
    BY <1>2, GateTypes DEF GateInv, ClosedInCall

\* Every step of the client preserves the invariant of the refinement.
LEMMA GateNextInv == GateInv /\ [Next]_vars => GateInv'
<1> SUFFICES ASSUME GateInv, [Next]_vars PROVE GateInv'
    OBVIOUS
<1>1. ClientInv'
    BY ClientNextInv DEF GateInv
<1>2. ClosedInCall'
    <2>1. CASE UseRedis
        BY <2>1 DEF ClosedInCall
    <2>2. CASE ~UseRedis
        <3>1. CASE Elapse
            BY <3>1, GateTypes DEF Elapse, Tick, client, GateInv, ClosedInCall
        <3>2. ASSUME NEW w \in Worker, Call(w) \/ Proceed(w) \/ Fault(w) PROVE ClosedInCall'
            BY <2>2, <3>2, CallKeepsClosed, ProceedKeepsClosed, FaultKeepsClosed
        <3>3. CASE UNCHANGED vars
            BY <3>3 DEF vars, breaker, memory, client, GateInv, ClosedInCall
        <3> QED
            BY <3>1, <3>2, <3>3 DEF Next
    <2> QED
        BY <2>1, <2>2
<1> QED
    BY <1>1, <1>2 DEF GateInv

-----------------------------------------------------------------------------
\* The initial states map to the gate's: up, with nobody inside.
LEMMA GateInit == Init => G!Init
<1> SUFFICES ASSUME Init PROVE G!Init
    OBVIOUS
<1>1. \A w \in Worker : Down(w) = 0
    BY DEF Init, BreakerInit, Down
<1> QED
    BY <1>1 DEF Init, G!Init

\* Every step of the client is a step of the gate or a stutter.
LEMMA GateNext == GateInv /\ [Next]_vars => [G!Next]_(G!vars)
<1> SUFFICES ASSUME GateInv, [Next]_vars PROVE GateStep
    BY DEF GateStep, G!vars, down, inside
<1>1. CASE Elapse
    BY <1>1, ElapseIsGateStep
<1>2. ASSUME NEW w \in Worker, Call(w) \/ Proceed(w) \/ Fault(w) PROVE GateStep
    BY <1>2, CallIsGateStep, ProceedIsGateStep, FaultIsGateStep
<1>3. CASE UNCHANGED vars
    <2>1. down' = down
        BY <1>3, UnchangedKeepsDown DEF vars, breaker, store, memory
    <2>2. inside' = inside
        BY <1>3 DEF vars, client, inside
    <2> QED
        BY <2>1, <2>2 DEF GateStep
<1> QED
    BY <1>1, <1>2, <1>3 DEF Next

(***************************************************************************)
(* For any number of workers, with and without Redis, the client over the  *)
(* breaker is a gate: no call starts while it is down, only a call under   *)
(* way brings it down, and only time (or, in memory, the end of the        *)
(* process) raises it.                                                     *)
(***************************************************************************)
THEOREM ClientImplementsGate == Spec => ImplementsGate
<1>1. Init => GateInv
    BY ClientInitInv, ClosedInit DEF GateInv
<1> QED
    BY <1>1, GateInit, GateNext, GateNextInv, PTL DEF Spec, ImplementsGate, G!Spec
=============================================================================
