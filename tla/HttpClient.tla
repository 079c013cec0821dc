----------------------------- MODULE HttpClient -----------------------------
(***************************************************************************)
(* HttpClient.request and HttpClient.read_until (ingestion/http.py) in the *)
(* workers of one source, over the breaker of CircuitBreaker.tla.          *)
(*                                                                         *)
(* A worker makes one call at a time.  Each step of a call is a round trip *)
(* to Redis or to the upstream, so the steps of different workers          *)
(* interleave.  The IP guard's count and thresholds are in IpGuard.tla:    *)
(* here its verdict, with force_proxy, is any route the settings allow.    *)
(***************************************************************************)
EXTENDS CircuitBreaker

CONSTANTS
    Attempts,      \* max(1, http_max_retries + 1)
    ProxyEnabled,  \* the ProxyRouter has a proxied client
    Escapes,       \* the transport may raise what is not an httpx.TransportError
    MaxCalls,      \* bound: admitted calls of one process
    MaxCount       \* bound: the meters and history counters saturate here

ASSUME ClientAssumption ==
    /\ Attempts \in Nat \ {0}
    /\ ProxyEnabled \in BOOLEAN
    /\ Escapes \in BOOLEAN
    /\ MaxCalls \in Nat
    /\ MaxCount \in Nat

Kind == {"request", "read_until"}

\* Where a call stands: outside any call; about to take an IP-guard token;
\* token taken, before the send (the jitter sleep); on the wire; told 429,
\* recording it; past the threshold, setting the halt; told 2xx, recording
\* it; past the last round of the retry loop.
Place == {"idle", "token", "jitter", "sent", "throttled", "trip", "ok", "exhausted"}

Result == {"none", "refused", "returned", "raised"}

VARIABLES
    pc,             \* pc[w] \in Place
    kind,           \* kind[w]: the method w's call runs
    attempt,        \* attempt[w]: the loop variable, from 0
    transportError, \* transportError[w]: transport_error is not None
    result,         \* result[w]: how the last call of w ended
    calls,          \* calls[w]: admitted calls of this process
    requests,       \* requests[w]: request_count
    proxied,        \* proxied[w]: proxied_count
    tokens,         \* tokens[w]: what w added to the guard's counter
    overrun,        \* history: sends of w under the present halt
    stray           \* history: sends of w in request that ended in neither a response nor
                    \* a transport error

client  == <<pc, kind, attempt, transportError, result, calls>>
meters  == <<requests, proxied, tokens, stray>>
vars    == <<breaker, client, meters, overrun>>

Init ==
    /\ BreakerInit
    /\ pc = [w \in Worker |-> "idle"]
    /\ kind = [w \in Worker |-> "request"]
    /\ attempt = [w \in Worker |-> 0]
    /\ transportError = [w \in Worker |-> FALSE]
    /\ result = [w \in Worker |-> "none"]
    /\ calls = [w \in Worker |-> 0]
    /\ requests = [w \in Worker |-> 0]
    /\ proxied = [w \in Worker |-> 0]
    /\ tokens = [w \in Worker |-> 0]
    /\ overrun = [w \in Worker |-> 0]
    /\ stray = [w \in Worker |-> 0]

Bump(meter, w) == [meter EXCEPT ![w] = Lesser(meter[w] + 1, MaxCount)]

GoTo(w, place) ==
    /\ pc' = [pc EXCEPT ![w] = place]
    /\ UNCHANGED <<kind, attempt, transportError, result, calls>>

\* The call of w is over and its locals are gone.
Finish(w, how) ==
    /\ pc' = [pc EXCEPT ![w] = "idle"]
    /\ kind' = [kind EXCEPT ![w] = "request"]
    /\ attempt' = [attempt EXCEPT ![w] = 0]
    /\ transportError' = [transportError EXCEPT ![w] = FALSE]
    /\ result' = [result EXCEPT ![w] = how]
    /\ UNCHANGED calls

-----------------------------------------------------------------------------
(* The call: one look at the breaker, then up to Attempts attempts. *)

\* CircuitOpenError.
Refuse(w) ==
    /\ pc[w] = "idle" /\ Halted(w)
    /\ IsOpen(w)
    /\ Finish(w, "refused")
    /\ UNCHANGED <<meters, overrun>>

\* Mutant of Admit: read_until does not look at the breaker.
AdmitUnchecked(w, k) ==
    /\ pc[w] = "idle" /\ calls[w] < MaxCalls /\ (k = "request" => ~Halted(w))
    /\ IsOpen(w)
    /\ pc' = [pc EXCEPT ![w] = "token"]
    /\ kind' = [kind EXCEPT ![w] = k]
    /\ result' = [result EXCEPT ![w] = "none"]
    /\ calls' = [calls EXCEPT ![w] = calls[w] + 1]
    /\ UNCHANGED <<attempt, transportError, meters, overrun>>

Admit(w, k) ==
    /\ pc[w] = "idle" /\ calls[w] < MaxCalls /\ ~Halted(w)
    /\ IsOpen(w)
    /\ pc' = [pc EXCEPT ![w] = "token"]
    /\ kind' = [kind EXCEPT ![w] = k]
    /\ result' = [result EXCEPT ![w] = "none"]
    /\ calls' = [calls EXCEPT ![w] = calls[w] + 1]
    /\ UNCHANGED <<attempt, transportError, meters, overrun>>

\* _begin_attempt: ip_guard.evaluate() records the attempt, then may sleep.
TakeToken(w) ==
    /\ pc[w] = "token"
    /\ GoTo(w, "jitter")
    /\ tokens' = IF UseRedis THEN Bump(tokens, w) ELSE tokens
    /\ UNCHANGED <<breaker, requests, proxied, stray, overrun>>

\* The route is chosen and the attempt leaves.  read_until counts the request
\* before sending it, request once it knows what became of it.
Send(w) ==
    /\ pc[w] = "jitter"
    /\ GoTo(w, "sent")
    /\ \/ ProxyEnabled /\ proxied' = Bump(proxied, w)
       \/ UNCHANGED proxied
    /\ requests' = IF kind[w] = "read_until" THEN Bump(requests, w) ELSE requests
    /\ overrun' = IF UseRedis /\ halt > 0 THEN Bump(overrun, w) ELSE overrun
    /\ UNCHANGED <<breaker, tokens, stray>>

\* What request counts when the attempt has ended.
CountRequest(w) ==
    /\ requests' = IF kind[w] = "request" THEN Bump(requests, w) ELSE requests
    /\ UNCHANGED <<proxied, tokens, stray>>

\* Mutant of NextRound: failed attempts are not counted against the limit.
NextRoundUncounted(w, failed) ==
    /\ IF attempt[w] + 1 < Attempts
         THEN pc' = [pc EXCEPT ![w] = "token"]
         ELSE pc' = [pc EXCEPT ![w] = "exhausted"]
    /\ transportError' = [transportError EXCEPT ![w] = transportError[w] \/ failed]
    /\ UNCHANGED <<attempt, kind, result, calls>>

\* Mutant of NextRound: the token is taken once per call, not per attempt.
NextRoundUntokened(w, failed) ==
    /\ IF attempt[w] + 1 < Attempts
         THEN pc' = [pc EXCEPT ![w] = "jitter"] /\ attempt' = [attempt EXCEPT ![w] = attempt[w] + 1]
         ELSE pc' = [pc EXCEPT ![w] = "exhausted"] /\ UNCHANGED attempt
    /\ transportError' = [transportError EXCEPT ![w] = transportError[w] \/ failed]
    /\ UNCHANGED <<kind, result, calls>>

\* The next round of the loop, if there is one.
NextRound(w, failed) ==
    /\ IF attempt[w] + 1 < Attempts
         THEN pc' = [pc EXCEPT ![w] = "token"] /\ attempt' = [attempt EXCEPT ![w] = attempt[w] + 1]
         ELSE pc' = [pc EXCEPT ![w] = "exhausted"] /\ UNCHANGED attempt
    /\ transportError' = [transportError EXCEPT ![w] = transportError[w] \/ failed]
    /\ UNCHANGED <<kind, result, calls>>

\* Mutant of TransportFailure: an attempt without a response is not counted.
TransportFailureUncounted(w) ==
    /\ pc[w] = "sent"
    /\ IF kind[w] = "request" THEN NextRound(w, TRUE) ELSE Finish(w, "raised")
    /\ UNCHANGED <<breaker, meters, overrun>>

\* httpx.TransportError: request backs off and goes round, read_until re-raises.
TransportFailure(w) ==
    /\ pc[w] = "sent"
    /\ CountRequest(w)
    /\ IF kind[w] = "request" THEN NextRound(w, TRUE) ELSE Finish(w, "raised")
    /\ UNCHANGED <<breaker, overrun>>

\* A response with status 429 is handed to the breaker and never retried.
Throttled(w) ==
    /\ pc[w] = "sent"
    /\ CountRequest(w)
    /\ GoTo(w, "throttled")
    /\ UNCHANGED <<breaker, overrun>>

\* Mutant of Retry: the last attempt is no exception.
RetryAlways(w, retryable) == kind[w] = "request" /\ retryable

\* request retries such a response while it has attempts left.
Retry(w, retryable) == kind[w] = "request" /\ retryable /\ attempt[w] + 1 < Attempts

\* Any other response.  Whether its status is retryable (5xx, or listed in
\* http_retry_statuses) and whether it is a success (2xx) are independent.
Respond(w) ==
    /\ pc[w] = "sent"
    /\ CountRequest(w)
    /\ \E retryable, success \in BOOLEAN :
         \/ Retry(w, retryable) /\ NextRound(w, FALSE)
         \/ ~Retry(w, retryable) /\ success /\ GoTo(w, "ok")
         \/ ~Retry(w, retryable) /\ ~success /\ Finish(w, "returned")
    /\ UNCHANGED <<breaker, overrun>>

\* An exception the except clause does not name leaves the method at once:
\* request has not counted the attempt yet, read_until has.
Escape(w) ==
    /\ Escapes /\ pc[w] = "sent"
    /\ Finish(w, "raised")
    /\ stray' = IF kind[w] = "request" THEN Bump(stray, w) ELSE stray
    /\ UNCHANGED <<breaker, requests, proxied, tokens, overrun>>

\* breaker.record_success(), then return.
Succeed(w) ==
    /\ pc[w] = "ok"
    /\ RecordSuccess(w)
    /\ Finish(w, "returned")
    /\ UNCHANGED <<meters, overrun>>

\* breaker.record_failure(), then return, unless the halt is still to be set.
CountThrottle(w) ==
    /\ pc[w] = "throttled"
    /\ RecordFailure(w)
    /\ IF command'[w] = "set" THEN GoTo(w, "trip") ELSE Finish(w, "returned")
    /\ UNCHANGED <<meters, overrun>>

Trip(w) ==
    /\ pc[w] = "trip"
    /\ SetHalt(w)
    /\ Finish(w, "returned")
    /\ UNCHANGED <<meters, overrun>>

\* The loop is over: raise transport_error (asserted not to be None).
RaiseTransportError(w) ==
    /\ pc[w] = "exhausted"
    /\ Finish(w, "raised")
    /\ UNCHANGED <<breaker, meters, overrun>>

-----------------------------------------------------------------------------
(* Faults. *)

\* Redis cannot be reached: the error surfaces from whichever command it is.
RedisError(w) ==
    /\ pc[w] \in {"idle", "token", "throttled", "trip", "ok"}
    /\ Raise(w)
    /\ Finish(w, "raised")
    /\ UNCHANGED <<meters, overrun>>

\* Redis ran the command of the breaker, its reply was lost, and redis-py is
\* going to send it again: the call stays where it is.  (The guard's MULTI,
\* counted at least once here, is sent again in IpGuard.tla.)
Resend(w) ==
    /\ \/ pc[w] = "throttled" /\ RecordFailureAgain(w)
       \/ pc[w] = "trip" /\ SetHaltAgain(w)
       \/ pc[w] = "ok" /\ ClearStreakAgain(w)
    /\ UNCHANGED <<client, meters, overrun>>

\* Redis ran the command, but the connection was given up before its reply.
ReplyLost(w) ==
    /\ UseRedis
    /\ \/ pc[w] = "token" /\ tokens' = Bump(tokens, w) /\ UNCHANGED breaker
       \/ pc[w] = "throttled" /\ RecordFailureUnheard(w) /\ UNCHANGED tokens
       \/ pc[w] = "trip" /\ SetHaltUnheard(w) /\ UNCHANGED tokens
       \/ pc[w] = "ok" /\ RecordSuccess(w) /\ UNCHANGED tokens
    /\ Finish(w, "raised")
    /\ UNCHANGED <<requests, proxied, stray, overrun>>

\* The job ends anywhere, killed or done, and the next one is a new process.
Restart(w) ==
    /\ NewProcess(w)
    /\ pc' = [pc EXCEPT ![w] = "idle"]
    /\ kind' = [kind EXCEPT ![w] = "request"]
    /\ attempt' = [attempt EXCEPT ![w] = 0]
    /\ transportError' = [transportError EXCEPT ![w] = FALSE]
    /\ result' = [result EXCEPT ![w] = "none"]
    /\ calls' = [calls EXCEPT ![w] = 0]
    /\ requests' = [requests EXCEPT ![w] = 0]
    /\ proxied' = [proxied EXCEPT ![w] = 0]
    /\ tokens' = [tokens EXCEPT ![w] = 0]
    /\ stray' = [stray EXCEPT ![w] = 0]
    /\ UNCHANGED overrun

\* A halt that lifts ends the count of what was sent under it.
Elapse ==
    /\ Tick
    /\ overrun' = IF halt' = 0 THEN [w \in Worker |-> 0] ELSE overrun
    /\ UNCHANGED <<client, meters>>

-----------------------------------------------------------------------------
Proceed(w) ==
    \/ TakeToken(w) \/ Send(w)
    \/ TransportFailure(w) \/ Throttled(w) \/ Respond(w) \/ Escape(w)
    \/ Succeed(w) \/ CountThrottle(w) \/ Trip(w) \/ RaiseTransportError(w)

Call(w) == Refuse(w) \/ \E k \in Kind : Admit(w, k)

Fault(w) == RedisError(w) \/ Resend(w) \/ ReplyLost(w) \/ Restart(w)

Next == Elapse \/ \E w \in Worker : Call(w) \/ Proceed(w) \/ Fault(w)

Spec == Init /\ [][Next]_vars

\* The call of w waits for Redis or for the upstream.  Neither wait has a limit:
\* httpx's timeout is for each read, of a request's body as of a stream, and the
\* Redis client is made without a socket timeout.
Waiting(w) == pc[w] \in {"token", "sent", "throttled", "trip", "ok"}

\* The clock runs, and a call goes on where it waits for nobody.
FairSpec ==
    /\ Spec
    /\ WF_vars(Elapse)
    /\ \A w \in Worker : WF_vars(Send(w) \/ RaiseTransportError(w))

-----------------------------------------------------------------------------
ControlOK ==
    /\ pc \in [Worker -> Place]
    /\ kind \in [Worker -> Kind]
    /\ transportError \in [Worker -> BOOLEAN]
    /\ result \in [Worker -> Result]

NumbersOK ==
    /\ attempt \in [Worker -> 0..(Attempts - 1)]
    /\ calls \in [Worker -> 0..MaxCalls]
    /\ requests \in [Worker -> 0..MaxCount]
    /\ proxied \in [Worker -> 0..MaxCount]
    /\ tokens \in [Worker -> 0..MaxCount]
    /\ overrun \in [Worker -> 0..MaxCount]
    /\ stray \in [Worker -> 0..MaxCount]

TypeOK == BreakerTypeOK /\ ControlOK /\ NumbersOK

(***************************************************************************)
(* The assertion after the retry loop holds: the loop runs out only behind *)
(* a transport error, whatever mix of errors and retryable statuses came   *)
(* before, and only request has a loop ("loop only exits here via          *)
(* continue").                                                             *)
(***************************************************************************)
AssertionHolds ==
    \A w \in Worker : pc[w] = "exhausted" => transportError[w] /\ kind[w] = "request"

(***************************************************************************)
(* A worker that was refused reports the breaker as open: its gauge is 1   *)
(* from the refusal to its next call, even when it never saw the breaker   *)
(* open (the publish in is_open).                                          *)
(***************************************************************************)
RefusalIsReported == \A w \in Worker : result[w] = "refused" => gauge[w]

(***************************************************************************)
(* The breaker is consulted once per call, so calls admitted earlier go on *)
(* sending under a halt; but between its start and its end, extensions     *)
(* included, a halt lets at most one call's attempts of each worker out.   *)
(***************************************************************************)
OverrunBounded == \A w \in Worker : overrun[w] <= Attempts

(***************************************************************************)
(* No attempt goes unseen by the IP guard: every request counted, retries  *)
(* and streams included, took a token of its own (_begin_attempt).         *)
(***************************************************************************)
NoUnseenAttempt == UseRedis => \A w \in Worker : requests[w] <= tokens[w]

(***************************************************************************)
(* Between calls proxied_count outruns request_count only by the sends of  *)
(* request that ended in neither a response nor a transport error, one for *)
(* one (proxied_count is bumped before the send, request_count after it,   *)
(* or before it in read_until).                                            *)
(***************************************************************************)
ProxiedAreCounted ==
    \A w \in Worker : pc[w] = "idle" => proxied[w] <= requests[w] + stray[w]

(***************************************************************************)
(* What the code says of the same two counters: proxied_count does not     *)
(* outrun request_count, so their quotient, which run reports unless       *)
(* nothing was counted, is at most 1 (the comment over request_count += 1; *)
(* proxy_usage_ratio's description, "0..1").                               *)
(***************************************************************************)
ProxyRatioAtMostOne ==
    \A w \in Worker : pc[w] = "idle" /\ requests[w] > 0 => proxied[w] <= requests[w]

(***************************************************************************)
(* Every halt lifts, though nobody answers ever again.  Calls under way    *)
(* may still be throttled and extend it, but nobody is admitted meanwhile, *)
(* so the extensions run out (the TTL is the cooldown; is_open in front of *)
(* every call).                                                            *)
(***************************************************************************)
HaltLifts == halt > 0 ~> halt = 0

(***************************************************************************)
(* A call ends, in a response, a refusal or an exception, or with its      *)
(* process, if each of its waits ends: the retry loop does not go round    *)
(* for ever (the loop over range(attempts)).                               *)
(***************************************************************************)
CallReturns ==
    \A w \in Worker : []<>~Waiting(w) => (pc[w] # "idle" ~> pc[w] = "idle")

-----------------------------------------------------------------------------
\* The gate the client and the breaker implement: in Redis it is the halt,
\* in memory what is left of a process's own cooldown.
Down(w) ==
    IF UseRedis THEN halt ELSE IF age[w] = NotOpen THEN 0 ELSE Cooldown - age[w]

G == INSTANCE Gate WITH
        Shared <- UseRedis,
        Period <- IF UseRedis THEN HaltTTL ELSE Cooldown,
        down   <- [w \in Worker |-> Down(w)],
        inside <- {w \in Worker : pc[w] # "idle"}

(***************************************************************************)
(* The client over the breaker is a gate: calls are admitted only while    *)
(* it is up, only a throttled call brings it down; once down it opens      *)
(* again by time alone (or, in memory, with its process).                  *)
(***************************************************************************)
ImplementsGate == G!Spec
=============================================================================
