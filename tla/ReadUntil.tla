------------------------------ MODULE ReadUntil ------------------------------
(***************************************************************************)
(* One read_until: HttpClient.read_until (ingestion/http.py) over the two  *)
(* backends, _CurlClient.read_until (ingestion/impersonation.py) and       *)
(* HttpClient._httpx_read_until, from the send to what the breaker is told *)
(* of it.                                                                  *)
(*                                                                         *)
(* The server answers or not, sends chunks of any size, may close the      *)
(* stream, break it, or leave it open in silence; the predicate is any set *)
(* of body lengths, and it may raise.                                      *)
(***************************************************************************)
EXTENDS Integers

CONSTANTS
    Timeout,   \* http_timeout_seconds, in ticks
    Second,    \* ticks to a second
    MaxBytes   \* bound: body lengths told apart; the predicate rejects what is longer

ASSUME StreamAssumption ==
    /\ Timeout \in Nat
    /\ Second \in Nat \ {0}
    /\ MaxBytes \in Nat \ {0}

VARIABLES
    backend,   \* "curl" when settings.impersonate is set, else "httpx"
    wanted,    \* the body lengths until accepts
    status,    \* what kind of status line came, "none" before
    buffer,    \* length of the buffer
    elapsed,   \* ticks since the send
    silent,    \* ticks since anything arrived
    outcome,   \* how the call ended
    recorded,  \* what the breaker was told
    ended,     \* history: the server closed the stream in good order
    cut        \* history: what else ended it, if the call was cut off

call == <<outcome, recorded>>
vars == <<backend, wanted, status, buffer, elapsed, silent, call, ended, cut>>

Lesser(a, b) == IF a < b THEN a ELSE b

\* Mutant of CurlTimeout: without the max, less than a second is 0.
CurlTimeoutTruncated == Second * (Timeout \div Second)

\* max(1, int(timeout)) seconds
CurlTimeout == IF Timeout < Second THEN Second ELSE Second * (Timeout \div Second)

Init ==
    /\ backend \in {"curl", "httpx"}
    /\ wanted \in SUBSET (1..(MaxBytes - 1))
    /\ status = "none" /\ buffer = 0
    /\ elapsed = 0 /\ silent = 0
    /\ outcome = "none" /\ recorded = "none"
    /\ ended = FALSE /\ cut = "no"

-----------------------------------------------------------------------------
\* Mutant of Return: any status but 429 is a success.
ReturnLenient ==
    /\ outcome' = "returned"
    /\ recorded' = IF status = "throttled" THEN "failure" ELSE "success"

\* The backend gives back status and body, which are judged and returned.
Return ==
    /\ outcome' = "returned"
    /\ recorded' = CASE status = "throttled" -> "failure"
                     [] status = "success"   -> "success"
                     [] OTHER                -> "none"

RaiseTransportError == outcome' = "transport" /\ UNCHANGED recorded

\* Mutant of Fail: curl's errors are taken for aborts, whatever the status.
FailUnseen == IF backend = "curl" THEN Return ELSE RaiseTransportError

\* perform, or iter_bytes, fails: with curl that is an error only as long as
\* there is no status.
Fail == IF backend = "curl" /\ status # "none" THEN Return ELSE RaiseTransportError

\* The status line arrives.
Answer ==
    /\ outcome = "none" /\ status = "none"
    /\ status' \in {"success", "throttled", "other"}
    /\ silent' = 0
    /\ UNCHANGED <<backend, wanted, buffer, elapsed, call, ended, cut>>

\* Mutant of Chunk: the writer goes on returning the length of the chunk.
ChunkUnaborted(size) ==
    /\ outcome = "none" /\ status # "none"
    /\ buffer' = Lesser(buffer + size, MaxBytes)
    /\ silent' = 0
    /\ IF backend = "httpx" /\ buffer' \in wanted THEN Return ELSE UNCHANGED call
    /\ UNCHANGED <<backend, wanted, status, elapsed, ended, cut>>

\* A chunk is added and the predicate asked; if it holds, curl is aborted from
\* within the writer, httpx's loop is left.
Chunk(size) ==
    /\ outcome = "none" /\ status # "none"
    /\ buffer' = Lesser(buffer + size, MaxBytes)
    /\ silent' = 0
    /\ IF buffer' \in wanted THEN Return ELSE UNCHANGED call
    /\ UNCHANGED <<backend, wanted, status, elapsed, ended, cut>>

\* The predicate raises over a chunk.  Under httpx the exception leaves the
\* call; in curl's writer it only fails the transfer.
PredicateRaises(size) ==
    /\ outcome = "none" /\ status # "none"
    /\ buffer' = Lesser(buffer + size, MaxBytes)
    /\ silent' = 0
    /\ cut' = "predicate"
    /\ IF backend = "curl" THEN Fail ELSE outcome' = "raised" /\ UNCHANGED recorded
    /\ UNCHANGED <<backend, wanted, status, elapsed, ended>>

\* The server closes the stream before the predicate holds.
End ==
    /\ outcome = "none" /\ status # "none"
    /\ Return
    /\ ended' = TRUE
    /\ UNCHANGED <<backend, wanted, status, buffer, elapsed, silent, cut>>

Break ==
    /\ outcome = "none"
    /\ Fail
    /\ cut' = "connection"
    /\ UNCHANGED <<backend, wanted, status, buffer, elapsed, silent, ended>>

\* CurlOpt.TIMEOUT is for the transfer, and 0 is no timeout to curl; httpx's
\* timeout is for each silence.
Due == IF backend = "curl" THEN CurlTimeout > 0 /\ elapsed >= CurlTimeout
                           ELSE silent >= Timeout

TimeOut ==
    /\ outcome = "none" /\ Due
    /\ Fail
    /\ cut' = "connection"
    /\ UNCHANGED <<backend, wanted, status, buffer, elapsed, silent, ended>>

Tick ==
    /\ outcome = "none" /\ ~Due
    /\ elapsed' = Lesser(elapsed + 1, CurlTimeout)
    /\ silent' = Lesser(silent + 1, Timeout)
    /\ UNCHANGED <<backend, wanted, status, buffer, call, ended, cut>>

Arrive == Answer \/ \E size \in 1..MaxBytes : Chunk(size) \/ PredicateRaises(size)

Next == Arrive \/ End \/ Break \/ TimeOut \/ Tick

Spec == Init /\ [][Next]_vars

\* Time passes, and both backends see to their timeouts.  The server owes
\* nothing.
FairSpec == Spec /\ WF_vars(Tick) /\ WF_vars(TimeOut)

-----------------------------------------------------------------------------
TypeOK ==
    /\ backend \in {"curl", "httpx"}
    /\ wanted \subseteq 1..(MaxBytes - 1)
    /\ status \in {"none", "success", "throttled", "other"}
    /\ buffer \in 0..MaxBytes
    /\ elapsed \in 0..CurlTimeout /\ silent \in 0..Timeout
    /\ outcome \in {"none", "returned", "transport", "raised"}
    /\ recorded \in {"none", "success", "failure"}
    /\ ended \in BOOLEAN
    /\ cut \in {"no", "connection", "predicate"}

(***************************************************************************)
(* The read stops at once: a body that satisfies the predicate is returned *)
(* as it is, no chunk is added to it, and none is waited for ("abort the   *)
(* instant until(buffer) is true").                                        *)
(***************************************************************************)
StopsAtOnce == buffer \in wanted /\ cut = "no" => outcome = "returned"

(***************************************************************************)
(* A body that is returned without satisfying the predicate is all that    *)
(* the server sent before it closed the stream, or else it is curl's, cut  *)
(* off after the status line; and there always is a status (the checks of  *)
(* aborted and status after perform, the except clause of read_until).     *)
(***************************************************************************)
PartialIsExplained ==
    outcome = "returned" =>
        /\ status # "none"
        /\ buffer \in wanted \/ ended \/ (cut # "no" /\ backend = "curl")

(***************************************************************************)
(* The breaker hears of the answer and of nothing else: a success only of  *)
(* a 2xx that was returned, a failure only of a 429, and nothing of a call *)
(* that raised (the tail of read_until).                                   *)
(***************************************************************************)
BreakerHearsAnswers ==
    /\ recorded = "success" => outcome = "returned" /\ status = "success"
    /\ recorded = "failure" => outcome = "returned" /\ status = "throttled"

(***************************************************************************)
(* A stream cannot hold its caller for ever: with curl whatever the server *)
(* does, with httpx unless it goes on sending (the timeout is per silence  *)
(* there, and the predicate may reject every chunk).                       *)
(***************************************************************************)
StreamEnds == backend = "curl" \/ <>[][~Arrive]_vars => <>(outcome # "none")

(***************************************************************************)
(* Claimed of the curl backend ("raises httpx.TransportError on failure,   *)
(* so retry/breaker handling is unchanged"): no call whose connection      *)
(* broke or timed out returns.                                             *)
(***************************************************************************)
FailureRaises == cut = "connection" => outcome # "returned"
=============================================================================
