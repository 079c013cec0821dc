------------------------------ MODULE WorkerRun ------------------------------
(***************************************************************************)
(* One pass of a worker process: WorkerApp.run (runtime/app.py) with its   *)
(* SIGTERM handling (runtime/lifecycle.py), what it counts in its registry *)
(* (obs/metrics.py) and the push of that registry (obs/otlp_push.py,       *)
(* obs/gmp_push.py).                                                       *)
(*                                                                         *)
(* The source, the transform and the sink are the worker's own code.  They *)
(* form one lazy chain the sink pulls records through; any of them may     *)
(* raise.  SIGTERM may come between any two steps, and inside of one.      *)
(***************************************************************************)
EXTENDS Integers, Functions

CONSTANTS
    HasRedis,    \* settings.redis_url is set
    MaxRecords   \* bound: records of a run

ASSUME RunAssumption ==
    /\ HasRedis \in BOOLEAN
    /\ MaxRecords \in Nat

\* Where run stands: building its parts; about to install the handler; inside
\* the try; in its else clause; in the finally clause: counting, closing,
\* pushing; about to restore the handler; done; the process has exited; or it
\* waits for ever for a lock it holds itself.
Place == {"setup", "install", "try", "else", "count", "close", "push", "restore", "returned", "gone", "hung"}

\* Careless code may raise a BaseException or return a WriteResult the counters
\* refuse.  A polling source goes on until should_stop; another one is finite
\* and does not look.  A log level may let a warning through or not.
Code == [careless : BOOLEAN, polling : BOOLEAN, warns : BOOLEAN]

Ending == {"none", "ok", "failed", "raised", "killed"}

\* The series of the registry that the properties tell apart.
Series == {"up", "runs", "records"}

VARIABLES
    pc,         \* pc \in Place
    exitCode,   \* exit_code
    escaping,   \* an exception is on its way out of run
    landed,     \* records the sink has stored
    stop,       \* lifecycle.should_stop
    handler,    \* the SIGTERM handler: "default" or "graceful"
    open,       \* clients not closed yet
    registry,   \* the metrics of this run
    pushed,     \* the series of the registry the backend has received
    ending,     \* how the run or the process ended
    signalled,  \* history: a SIGTERM came
    code        \* what the worker's code and its log level are like, see Code

vars == <<pc, exitCode, escaping, landed, stop, handler, open, registry, pushed, ending, signalled, code>>

Clients == {"http", "proxy"} \cup (IF HasRedis THEN {"redis"} ELSE {})

Init ==
    /\ pc = "setup" /\ exitCode = 0 /\ escaping = FALSE
    /\ landed = 0 /\ stop = FALSE /\ handler = "default"
    /\ open = {}
    /\ registry = [up |-> FALSE, runs |-> "none", records |-> 0]
    /\ pushed = Restrict(registry, {})
    /\ ending = "none"
    /\ signalled = FALSE
    /\ code \in Code

-----------------------------------------------------------------------------
\* Logging, registry, breaker, guard, proxy and client are built.
Setup ==
    /\ pc = "setup"
    /\ pc' = "install"
    /\ open' = Clients
    /\ UNCHANGED <<exitCode, escaping, landed, stop, handler, registry, pushed, ending, signalled, code>>

\* Building one of them fails: no handler, no finally clause, no push.
SetupFails ==
    /\ pc = "setup"
    /\ pc' = "returned" /\ escaping' = TRUE /\ ending' = "raised"
    /\ UNCHANGED <<exitCode, landed, stop, handler, open, registry, pushed, signalled, code>>

\* handle_shutdown: the handler is swapped for the duration of the block.
Install ==
    /\ pc = "install"
    /\ pc' = "try" /\ handler' = "graceful"
    /\ UNCHANGED <<exitCode, escaping, landed, stop, open, registry, pushed, ending, signalled, code>>

\* The sink pulls one record through the chain and stores it.  A source that
\* polls should_stop yields no more once it is set.
Land ==
    /\ pc = "try" /\ landed < MaxRecords
    /\ code.polling => ~stop
    /\ landed' = landed + 1
    /\ UNCHANGED <<pc, exitCode, escaping, stop, handler, open, registry, pushed, ending, signalled, code>>

\* The source is exhausted or stopped and the sink returns.
Written ==
    /\ pc = "try"
    /\ code.polling => stop
    /\ pc' = "else"
    /\ UNCHANGED <<exitCode, escaping, landed, stop, handler, open, registry, pushed, ending, signalled, code>>

\* except Exception.
Fails ==
    /\ pc = "try"
    /\ pc' = "count" /\ exitCode' = 1
    /\ registry' = [registry EXCEPT !.up = FALSE]
    /\ UNCHANGED <<escaping, landed, stop, handler, open, pushed, ending, signalled, code>>

\* KeyboardInterrupt or SystemExit: the except clause does not name it.
FailsUnnamed ==
    /\ code.careless /\ pc = "try"
    /\ pc' = "count" /\ escaping' = TRUE
    /\ UNCHANGED <<exitCode, landed, stop, handler, open, registry, pushed, ending, signalled, code>>

\* The else clause: up, lag 0, the rows and bytes of the WriteResult.
Report ==
    /\ pc = "else"
    /\ pc' = "count"
    /\ registry' = [registry EXCEPT !.up = TRUE, !.records = landed]
    /\ UNCHANGED <<exitCode, escaping, landed, stop, handler, open, pushed, ending, signalled, code>>

\* The same clause with a result that is no WriteResult, or a count no counter
\* takes: it raises after worker_up is set, the rows counted or not.
ReportFails ==
    /\ code.careless /\ pc = "else"
    /\ pc' = "count" /\ escaping' = TRUE
    /\ \E rows \in {0, landed} : registry' = [registry EXCEPT !.up = TRUE, !.records = rows]
    /\ UNCHANGED <<exitCode, landed, stop, handler, open, pushed, ending, signalled, code>>

\* Mutant of Count: every run that reaches the finally clause is a success.
CountAlwaysSuccess ==
    /\ pc = "count"
    /\ pc' = "close"
    /\ registry' = [registry EXCEPT !.runs = "success"]
    /\ UNCHANGED <<exitCode, escaping, landed, stop, handler, open, pushed, ending, signalled, code>>

\* observe_run_finished, the request rate and the proxy ratio.
Count ==
    /\ pc = "count"
    /\ pc' = "close"
    /\ registry' = [registry EXCEPT !.runs = IF exitCode = 0 THEN "success" ELSE "failure"]
    /\ UNCHANGED <<exitCode, escaping, landed, stop, handler, open, pushed, ending, signalled, code>>

\* The client to close next: http, proxy, redis.
Closing(c) ==
    /\ c \in open
    /\ c = "proxy" => "http" \notin open
    /\ c = "redis" => open = {"redis"}

\* Mutant of Close: the handler goes back before the push.
CloseRestoring(c) ==
    /\ pc = "close" /\ Closing(c)
    /\ open' = open \ {c}
    /\ pc' = IF open' = {} THEN "push" ELSE "close"
    /\ handler' = "default"
    /\ UNCHANGED <<exitCode, escaping, landed, stop, registry, pushed, ending, signalled, code>>

Close(c) ==
    /\ pc = "close" /\ Closing(c)
    /\ open' = open \ {c}
    /\ pc' = IF open' = {} THEN "push" ELSE "close"
    /\ UNCHANGED <<exitCode, escaping, landed, stop, handler, registry, pushed, ending, signalled, code>>

\* A close that raises leaves the finally clause: the rest of it is skipped.
CloseFails(c) ==
    /\ pc = "close" /\ Closing(c)
    /\ pc' = "restore" /\ escaping' = TRUE
    /\ UNCHANGED <<exitCode, landed, stop, handler, open, registry, pushed, ending, signalled, code>>

\* push_metrics to the PushGateway: delivered whole, or skipped or failed.
PushMetrics == pushed' \in {registry, Restrict(registry, {})}

\* otlp_push_metrics: the backend may accept the request and drop some or all
\* of the points (partialSuccess).
OtlpPushMetrics == \E accepted \in SUBSET Series : pushed' = Restrict(registry, accepted)

\* Mutant of Push: the registry is read before the run is counted.
PushStale ==
    /\ pc = "push"
    /\ pc' = "restore"
    /\ pushed' = [registry EXCEPT !.runs = "none"]
    /\ UNCHANGED <<exitCode, escaping, landed, stop, handler, open, registry, ending, signalled, code>>

\* Mutant of Push: a push that fails raises.
PushRaising ==
    /\ pc = "push"
    /\ pc' = "restore"
    /\ PushMetrics
    /\ escaping' = (escaping \/ pushed' # registry)
    /\ UNCHANGED <<exitCode, landed, stop, handler, open, registry, ending, signalled, code>>

\* The push the settings ask for.  Neither raises.
Push ==
    /\ pc = "push"
    /\ pc' = "restore"
    /\ PushMetrics \/ OtlpPushMetrics
    /\ UNCHANGED <<exitCode, escaping, landed, stop, handler, open, registry, ending, signalled, code>>

\* Mutant of Restore: the handler is put back only when nothing escapes.
RestoreUnlessRaised ==
    /\ pc = "restore"
    /\ pc' = "returned"
    /\ handler' = IF escaping THEN handler ELSE "default"
    /\ ending' = IF escaping THEN "raised" ELSE IF exitCode = 0 THEN "ok" ELSE "failed"
    /\ UNCHANGED <<exitCode, escaping, landed, stop, open, registry, pushed, signalled, code>>

\* The block is left, by return exit_code or by the exception.
Restore ==
    /\ pc = "restore"
    /\ pc' = "returned"
    /\ handler' = "default"
    /\ ending' = IF escaping THEN "raised" ELSE IF exitCode = 0 THEN "ok" ELSE "failed"
    /\ UNCHANGED <<exitCode, escaping, landed, stop, open, registry, pushed, signalled, code>>

\* The process exits with run's code, or with a traceback.
Exit ==
    /\ pc = "returned"
    /\ pc' = "gone"
    /\ UNCHANGED <<exitCode, escaping, landed, stop, handler, open, registry, pushed, ending, signalled, code>>

-----------------------------------------------------------------------------
\* Mutant of RequestStop: the handler logs and forgets.
RequestStopForgotten == UNCHANGED stop

\* _on_sigterm, request_stop
RequestStop == stop' = TRUE

\* Where the main thread writes log lines: run itself, and in the try the client
\* and the worker's code; Count, Close and Restore write none.
Logging == {"try", "else", "push"}

\* The handler's warning is printed under a lock that is not reentrant.  A
\* signal may find the main thread inside a log call or, anywhere in the block,
\* inside the one the handler makes for a SIGTERM before it: the handler then
\* waits for a lock the frame below it holds and never gets to request_stop.
Hang ==
    /\ code.warns
    /\ pc \in Logging \/ signalled
    /\ pc' = "hung"
    /\ UNCHANGED <<stop, ending>>

\* SIGTERM: the handler in place takes it.
Sigterm ==
    /\ pc \notin {"gone", "hung"}
    /\ signalled' = TRUE
    /\ \/ handler = "graceful" /\ RequestStop /\ UNCHANGED <<pc, ending>>
       \/ handler = "graceful" /\ Hang
       \/ handler = "default" /\ pc' = "gone" /\ ending' = "killed" /\ UNCHANGED stop
    /\ UNCHANGED <<exitCode, escaping, landed, handler, open, registry, pushed, code>>

Progress ==
    \/ Setup \/ Install \/ Land \/ Written \/ Report \/ Count
    \/ (\E c \in Clients : Close(c))
    \/ Push \/ Restore \/ Exit

Failure == SetupFails \/ Fails \/ FailsUnnamed \/ ReportFails \/ \E c \in Clients : CloseFails(c)

Next == Progress \/ Failure \/ Sigterm

Spec == Init /\ [][Next]_vars

\* The process is scheduled, the worker's code returns from each item, and the
\* closes and the push are bounded by their timeouts.  No failure is promised.
FairSpec == Spec /\ WF_vars(Progress)

-----------------------------------------------------------------------------
TypeOK ==
    /\ pc \in Place
    /\ exitCode \in {0, 1}
    /\ escaping \in BOOLEAN
    /\ landed \in 0..MaxRecords
    /\ stop \in BOOLEAN
    /\ handler \in {"default", "graceful"}
    /\ open \subseteq Clients
    /\ registry \in [up : BOOLEAN, runs : {"none", "success", "failure"}, records : 0..MaxRecords]
    /\ DOMAIN pushed \subseteq Series /\ pushed = Restrict(registry, DOMAIN pushed)
    /\ ending \in Ending
    /\ signalled \in BOOLEAN
    /\ code \in Code

(***************************************************************************)
(* What the backend is told agrees with the exit code: of a run that       *)
(* returns, the series that arrive, be they some or all, say success, up   *)
(* and the records the sink stored exactly if the code is 0 (the except,   *)
(* else and finally clauses, and both pushes).                             *)
(***************************************************************************)
PushedAgrees ==
    ending \in {"ok", "failed"} =>
        LET told == [runs    |-> IF ending = "ok" THEN "success" ELSE "failure",
                     up      |-> ending = "ok",
                     records |-> IF ending = "ok" THEN landed ELSE 0]
        IN  pushed = Restrict(told, DOMAIN pushed)

(***************************************************************************)
(* SIGTERM does not cut a run short: it ends the process only before the   *)
(* handler is installed or after run is over, never between the first      *)
(* record and the push (handle_shutdown around the whole try statement).   *)
(***************************************************************************)
KilledOnlyOutside ==
    [][ending' = "killed" /\ ending # "killed" => pc \in {"setup", "install", "returned"}]_vars

(***************************************************************************)
(* The previous handler is back whenever run is over, whether it returned  *)
(* or raised ("restored on exit").                                         *)
(***************************************************************************)
HandlerRestored == pc \in {"returned", "gone"} => handler = "default"

(***************************************************************************)
(* Worker code that keeps its contract makes run raise in two ways only:   *)
(* the setup failed, or a client would not close.  In particular a push    *)
(* that fails never costs a run its exit code.                             *)
(***************************************************************************)
PushNeverRaises ==
    ~code.careless /\ ending = "raised" => registry.runs = "none" \/ open # {}

(***************************************************************************)
(* SIGTERM ends a run: whenever it comes, a source that would go on for    *)
(* ever and polls should_stop winds up and the process exits, unless the   *)
(* handler hung in the lock of its own log line, which takes a log level   *)
(* that prints it.                                                         *)
(***************************************************************************)
StopEndsRun == signalled ~> pc = "gone" \/ (pc = "hung" /\ code.warns)

(***************************************************************************)
(* Claimed of the handler ("a SIGTERM flips a shared flag rather than      *)
(* killing the process mid-write"): it always comes to that, or the        *)
(* process is gone for its being outside of the block.                     *)
(***************************************************************************)
SigtermFlipsFlag == signalled ~> stop \/ pc = "gone"

(***************************************************************************)
(* Claimed of the series ("1 if the run completed successfully, else 0",   *)
(* "completed worker runs by terminal status"): no run that ended in an    *)
(* exception is pushed as up or as a success.                              *)
(***************************************************************************)
RaisedIsNotSuccess ==
    ending = "raised" =>
        /\ "up" \in DOMAIN pushed => ~pushed.up
        /\ "runs" \in DOMAIN pushed => pushed.runs # "success"
=============================================================================
