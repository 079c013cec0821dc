--------------------------- MODULE WorkerRunProofs ---------------------------
(***************************************************************************)
(* Proofs about a worker's run, for any code, any number of records, with  *)
(* and without Redis.                                                      *)
(***************************************************************************)
EXTENDS WorkerRun, FiniteSetTheorems, TLAPS

\* Inside handle_shutdown.
Guarded == {"try", "else", "count", "close", "push", "restore"}

Registry == [up : BOOLEAN, runs : {"none", "success", "failure"}, records : 0..MaxRecords]

Fresh == ~registry.up /\ registry.runs = "none" /\ registry.records = 0

\* The series of a run that ends with its exit code.
Settled(runs) ==
    /\ registry.up <=> exitCode = 0
    /\ registry.runs = runs
    /\ registry.records = IF exitCode = 0 THEN landed ELSE 0

Verdict == IF exitCode = 0 THEN "success" ELSE "failure"

\* The run takes no more steps.
Over == {"gone", "hung"}

\* The handler is in place exactly inside the block, where it may hang.
HandlerOK ==
    /\ handler = "graceful" <=> pc \in Guarded \cup {"hung"}
    /\ pc = "hung" => code.warns

\* What has been pushed, and how the run ended, is known only at its end.
EndOK ==
    /\ pc \notin {"restore", "returned"} \cup Over => DOMAIN pushed = {}
    /\ pc \notin {"returned", "gone"} => ending = "none"
    /\ ending \in {"ok", "failed"} => ~escaping /\ (ending = "ok" <=> exitCode = 0)
    /\ ending = "raised" => escaping

\* The registry follows the place and the exit code, unless an exception is out.
RegistryOK ==
    /\ pc \in {"setup", "install", "try", "else"} => exitCode = 0 /\ ~escaping /\ Fresh
    /\ pc = "count" => registry.runs = "none"
    /\ pc = "count" /\ ~escaping => Settled("none")
    /\ pc \in {"close", "push", "restore"} /\ ~escaping => Settled(Verdict)
    /\ ending \in {"ok", "failed"} => Settled(Verdict)

\* What careful code lets out of run is of the setup or of a close.
EscapeOK ==
    ~code.careless /\ escaping =>
        \/ pc \in {"returned", "gone"} /\ registry.runs = "none"
        \/ pc \in {"restore", "returned"} \cup Over /\ open # {}

Inv == TypeOK /\ HandlerOK /\ EndOK /\ RegistryOK /\ EscapeOK

-----------------------------------------------------------------------------
\* A run starts outside the block with a fresh registry.
LEMMA InitInv == Init => Inv
<1> SUFFICES ASSUME Init PROVE Inv
  OBVIOUS
<1>1. TypeOK
  <2>1. DOMAIN pushed = {} /\ pushed = Restrict(registry, DOMAIN pushed)
    BY DEF Init, Restrict
  <2>2. registry \in [up : BOOLEAN, runs : {"none", "success", "failure"}, records : 0..MaxRecords]
    BY RunAssumption DEF Init
  <2> QED BY <2>1, <2>2, RunAssumption DEF Init, TypeOK, Place, Ending
<1>2. HandlerOK /\ EndOK /\ RegistryOK /\ EscapeOK
  BY DEF Init, HandlerOK, EndOK, RegistryOK, EscapeOK, Guarded, Over, Fresh, Restrict
<1> QED BY <1>1, <1>2 DEF Inv

\* Building, and failing to build.
LEMMA SetupKeeps == Inv /\ (Setup \/ SetupFails \/ Install) => Inv'
<1> SUFFICES ASSUME Inv, Setup \/ SetupFails \/ Install PROVE Inv'
  OBVIOUS
<1> USE DEF Inv, TypeOK, HandlerOK, EndOK, RegistryOK, EscapeOK, Guarded, Over, Fresh, Settled, Verdict, Place, Ending
<1>1. CASE Setup
  BY <1>1 DEF Setup
<1>2. CASE SetupFails
  BY <1>2 DEF SetupFails
<1>3. CASE Install
  BY <1>3 DEF Install
<1> QED BY <1>1, <1>2, <1>3

\* As long as nothing is pushed, the registry may change.
LEMMA NothingPushed ==
    ASSUME TypeOK, DOMAIN pushed = {}, UNCHANGED pushed
    PROVE  pushed' = Restrict(registry', DOMAIN pushed')
BY DEF TypeOK, Restrict

\* Records, and the ends of the try clause.
LEMMA TryKeeps == Inv /\ (Land \/ Written \/ Fails \/ FailsUnnamed) => Inv'
<1> SUFFICES ASSUME Inv, Land \/ Written \/ Fails \/ FailsUnnamed PROVE Inv'
  OBVIOUS
<1> USE DEF Inv, TypeOK, HandlerOK, EndOK, RegistryOK, EscapeOK, Guarded, Over, Fresh, Settled, Verdict, Place, Ending
<1>1. CASE Land
  BY <1>1, RunAssumption DEF Land
<1>2. CASE Written
  BY <1>2 DEF Written
<1>3. CASE Fails
  <2>1. pushed' = Restrict(registry', DOMAIN pushed')
    BY <1>3, NothingPushed DEF Fails
  <2>2. ~registry'.up /\ registry'.runs = "none" /\ registry'.records = 0
    BY <1>3 DEF Fails
  <2>3. registry' \in Registry
    BY <1>3 DEF Fails, Registry
  <2> QED BY <1>3, <2>1, <2>2, <2>3 DEF Fails, Registry
<1>4. CASE FailsUnnamed
  BY <1>4 DEF FailsUnnamed
<1> QED BY <1>1, <1>2, <1>3, <1>4

\* The else clause and the count.
LEMMA ReportKeeps == Inv /\ (Report \/ ReportFails \/ Count) => Inv'
<1> SUFFICES ASSUME Inv, Report \/ ReportFails \/ Count PROVE Inv'
  OBVIOUS
<1> USE DEF Inv, TypeOK, HandlerOK, EndOK, RegistryOK, EscapeOK, Guarded, Over, Fresh, Settled, Verdict, Place, Ending
<1>1. CASE Report
  <2>1. pushed' = Restrict(registry', DOMAIN pushed')
    BY <1>1, NothingPushed DEF Report
  <2> QED BY <1>1, <2>1, RunAssumption DEF Report
<1>2. CASE ReportFails
  <2>1. pushed' = Restrict(registry', DOMAIN pushed')
    BY <1>2, NothingPushed DEF ReportFails
  <2>2. PICK rows \in {0, landed} : registry' = [registry EXCEPT !.up = TRUE, !.records = rows]
    BY <1>2 DEF ReportFails
  <2> QED BY <1>2, <2>1, <2>2, RunAssumption DEF ReportFails
<1>3. CASE Count
  <2>1. pushed' = Restrict(registry', DOMAIN pushed')
    BY <1>3, NothingPushed DEF Count
  <2> QED BY <1>3, <2>1 DEF Count
<1> QED BY <1>1, <1>2, <1>3

\* The closes.
LEMMA CloseKeeps == ASSUME NEW c \in Clients, Inv, Close(c) \/ CloseFails(c) PROVE Inv'
<1> USE DEF Inv, TypeOK, HandlerOK, EndOK, RegistryOK, EscapeOK, Guarded, Over, Fresh, Settled, Verdict, Place, Ending, Closing
<1>1. CASE Close(c)
  BY <1>1 DEF Close
<1>2. CASE CloseFails(c)
  BY <1>2 DEF CloseFails
<1> QED BY <1>1, <1>2

\* The push sends a part of the registry; it raises nothing.
LEMMA PushKeeps == Inv /\ Push => Inv'
<1> SUFFICES ASSUME Inv, Push PROVE Inv'
  OBVIOUS
<1>1. registry = Restrict(registry, Series) /\ DOMAIN registry = Series
  BY DEF Inv, TypeOK, Restrict, Series
<1>2. PICK accepted \in SUBSET Series : pushed' = Restrict(registry, accepted)
  BY <1>1 DEF Push, PushMetrics, OtlpPushMetrics
<1>3. DOMAIN pushed' = accepted
  BY <1>2 DEF Restrict
<1> QED
  BY <1>2, <1>3 DEF Push, Inv, TypeOK, HandlerOK, EndOK, RegistryOK, EscapeOK, Guarded, Over, Settled, Verdict, Place

\* The handler is restored, the run ends.
LEMMA RestoreKeeps == Inv /\ (Restore \/ Exit) => Inv'
<1> SUFFICES ASSUME Inv, Restore \/ Exit PROVE Inv'
  OBVIOUS
<1> USE DEF Inv, TypeOK, HandlerOK, EndOK, RegistryOK, EscapeOK, Guarded, Over, Settled, Verdict, Place, Ending
<1>1. CASE Restore
  BY <1>1 DEF Restore
<1>2. CASE Exit
  BY <1>2 DEF Exit
<1> QED BY <1>1, <1>2

\* SIGTERM: it sets the flag inside the block, or hangs there, and ends the
\* process outside.
LEMMA SigtermKeeps == Inv /\ Sigterm => Inv'
<1> SUFFICES ASSUME Inv, Sigterm PROVE Inv'
  OBVIOUS
<1> USE DEF Inv, TypeOK, HandlerOK, EndOK, RegistryOK, EscapeOK, Guarded, Over, Fresh, Settled, Verdict, Place, Ending
<1>1. CASE handler = "graceful" /\ RequestStop /\ UNCHANGED <<pc, ending>>
  BY <1>1 DEF Sigterm, RequestStop
<1>2. CASE handler = "graceful" /\ Hang
  BY <1>2 DEF Sigterm, Hang
<1>3. CASE handler = "default" /\ pc' = "gone" /\ ending' = "killed" /\ UNCHANGED stop
  BY <1>3 DEF Sigterm
<1> QED BY <1>1, <1>2, <1>3 DEF Sigterm

\* A stutter keeps it.
LEMMA StutterKeeps == Inv /\ UNCHANGED vars => Inv'
BY DEF Inv, TypeOK, HandlerOK, EndOK, RegistryOK, EscapeOK, Over, Fresh, Settled, Verdict, vars

\* Every step keeps the invariant.
LEMMA NextKeeps == Inv /\ [Next]_vars => Inv'
<1> SUFFICES ASSUME Inv, [Next]_vars PROVE Inv'
  OBVIOUS
<1>1. CASE Setup \/ SetupFails \/ Install
  BY <1>1, SetupKeeps
<1>2. CASE Land \/ Written \/ Fails \/ FailsUnnamed
  BY <1>2, TryKeeps
<1>3. CASE Report \/ ReportFails \/ Count
  BY <1>3, ReportKeeps
<1>4. ASSUME NEW c \in Clients, Close(c) \/ CloseFails(c) PROVE Inv'
  BY <1>4, CloseKeeps
<1>5. CASE Push
  BY <1>5, PushKeeps
<1>6. CASE Restore \/ Exit
  BY <1>6, RestoreKeeps
<1>7. CASE Sigterm
  BY <1>7, SigtermKeeps
<1>8. CASE UNCHANGED vars
  BY <1>8, StutterKeeps
<1> QED BY <1>1, <1>2, <1>3, <1>4, <1>5, <1>6, <1>7, <1>8 DEF Next, Progress, Failure

-----------------------------------------------------------------------------
\* What the invariant says of a run that returned.
LEMMA InvAgrees == Inv => PushedAgrees
<1> SUFFICES ASSUME Inv, ending \in {"ok", "failed"} PROVE PushedAgrees
  BY DEF PushedAgrees
<1> DEFINE told == [runs    |-> IF ending = "ok" THEN "success" ELSE "failure",
                    up      |-> ending = "ok",
                    records |-> IF ending = "ok" THEN landed ELSE 0]
<1>1. ending = "ok" <=> exitCode = 0
  BY DEF Inv, EndOK
<1>2. registry \in Registry /\ told \in Registry
  BY RunAssumption DEF Inv, TypeOK, Registry
<1>3. registry.up = told.up /\ registry.runs = told.runs /\ registry.records = told.records
  BY <1>1 DEF Inv, TypeOK, RegistryOK, Settled, Verdict
<1> HIDE DEF told
<1>4. registry = told
  BY <1>2, <1>3 DEF Registry
<1> QED BY <1>4 DEF Inv, TypeOK, PushedAgrees, told

\* EscapeOK is stronger than the property.
LEMMA InvEscapes == Inv => PushNeverRaises
BY DEF Inv, EndOK, EscapeOK, Over, PushNeverRaises

\* The block is left before the run is over.
LEMMA InvRestored == Inv => HandlerRestored
BY DEF Inv, TypeOK, HandlerOK, HandlerRestored, Guarded

\* The invariant of a run.
THEOREM RunInvariant == Spec => []Inv
BY InitInv, NextKeeps, PTL DEF Spec

\* The run's variables keep their types; what was pushed is part of the registry.
THEOREM RunTypeCorrect == Spec => []TypeOK
BY RunInvariant, PTL DEF Inv

\* What arrives at the backend agrees with the exit code on every path.
THEOREM PushAgrees == Spec => []PushedAgrees
BY RunInvariant, InvAgrees, PTL

\* The previous handler is back whenever run is over.
THEOREM HandlerBack == Spec => []HandlerRestored
BY RunInvariant, InvRestored, PTL

\* Only the setup and the closes raise under careful code.
THEOREM PushHarmless == Spec => []PushNeverRaises
BY RunInvariant, InvEscapes, PTL

\* SIGTERM ends the process only outside of the block.
THEOREM SigtermGraceful == Spec => KilledOnlyOutside
<1>1. Inv /\ [Next]_vars
        => [ending' = "killed" /\ ending # "killed" => pc \in {"setup", "install", "returned"}]_vars
  <2> SUFFICES ASSUME Inv, Next, ending' = "killed", ending # "killed"
               PROVE  pc \in {"setup", "install", "returned"}
    OBVIOUS
  <2>1. Sigterm
    BY DEF Next, Progress, Failure, Setup, SetupFails, Install, Land, Written, Fails, FailsUnnamed, Report,
           ReportFails, Count, Close, CloseFails, Push, Restore, Exit
  <2> QED BY <2>1 DEF Inv, TypeOK, HandlerOK, Guarded, Place, Sigterm, Hang
<1> QED BY <1>1, RunInvariant, PTL DEF Spec, KilledOnlyOutside

-----------------------------------------------------------------------------
(***************************************************************************)
(* Why a run ends: the variant behind StopEndsRun.  Left counts the steps  *)
(* that are left of a run, at most: places to pass, clients to close and   *)
(* records to land, none of these once a source that polls should_stop has *)
(* been told to.                                                           *)
(***************************************************************************)
PlacesLeft ==
    CASE pc = "setup"   -> 8
      [] pc = "install" -> 7
      [] pc = "try"     -> 6
      [] pc = "else"    -> 5
      [] pc = "count"   -> 4
      [] pc = "close"   -> 3
      [] pc = "push"    -> 3
      [] pc = "restore" -> 2
      [] pc = "returned" -> 1
      [] pc \in Over   -> 0

ClosesLeft ==
    IF pc = "setup" THEN Cardinality(Clients)
    ELSE IF pc \in {"install", "try", "else", "count", "close"} THEN Cardinality(open)
    ELSE 0

RecordsLeft ==
    IF pc \in {"setup", "install", "try"} /\ ~(code.polling /\ stop) THEN MaxRecords - landed ELSE 0

Left == PlacesLeft + ClosesLeft + RecordsLeft

\* Every step of run uses up one of the steps left; no signal adds any.
RunsDown ==
    /\ Progress \/ Failure => Left' < Left
    /\ Left' <= Left

\* One of run's own steps can be taken, without another record.
Going ==
    \/ pc \notin {"try", "close"} \cup Over
    \/ pc = "try" /\ (code.polling => stop)
    \/ pc = "close" /\ \E c \in Clients : Closing(c)

\* A run that was signalled is over, hangs in the handler's log line, or can go
\* on; under a source that polls should_stop it has no records left, however
\* many there are.
RunBounded ==
    /\ Left \in Nat
    /\ Left = 0 <=> pc \in Over
    /\ signalled /\ code.polling => Left <= 6 + Cardinality(Clients)
    /\ signalled => pc = "gone" \/ (pc = "hung" /\ code.warns) \/ Going

\* What a signal leaves behind, and which clients are still open.
SignalOK ==
    /\ signalled => stop \/ pc \in Over
    /\ stop => pc \notin {"setup", "install"}
    /\ pc \in {"install", "try", "else", "count"} => open = Clients
    /\ pc = "close" => open # {}

\* No more than three clients, each counted.
LEMMA ClientsCounted ==
    /\ IsFiniteSet(Clients)
    /\ Cardinality(Clients) \in Nat \ {0}
    /\ \A S \in SUBSET Clients : IsFiniteSet(S) /\ Cardinality(S) \in Nat /\ Cardinality(S) <= Cardinality(Clients)
<1>1. IsFiniteSet({"http", "proxy", "redis"})
  <2>1. IsFiniteSet({"http"})
    BY FS_Singleton
  <2>2. IsFiniteSet({"http"} \cup {"proxy"})
    BY <2>1, FS_AddElement
  <2>3. IsFiniteSet(({"http"} \cup {"proxy"}) \cup {"redis"})
    BY <2>2, FS_AddElement
  <2>4. ({"http"} \cup {"proxy"}) \cup {"redis"} = {"http", "proxy", "redis"}
    OBVIOUS
  <2> QED BY <2>3, <2>4
<1>2. Clients \subseteq {"http", "proxy", "redis"}
  BY DEF Clients
<1>3. IsFiniteSet(Clients)
  BY <1>1, <1>2, FS_Subset
<1>4. Clients # {}
  BY DEF Clients
<1>5. Cardinality(Clients) \in Nat \ {0}
  BY <1>3, <1>4, FS_CardinalityType, FS_EmptySet
<1>6. ASSUME NEW S \in SUBSET Clients
      PROVE  IsFiniteSet(S) /\ Cardinality(S) \in Nat /\ Cardinality(S) <= Cardinality(Clients)
  <2>1. IsFiniteSet(S) /\ Cardinality(S) <= Cardinality(Clients)
    BY <1>3, FS_Subset
  <2> QED BY <2>1, FS_CardinalityType
<1> QED BY <1>3, <1>5, <1>6

\* There is a next client to close as long as one is open.
LEMMA NextToClose == ASSUME open \in SUBSET Clients, open # {} PROVE \E c \in Clients : Closing(c)
<1>1. CASE "http" \in open
  BY <1>1 DEF Closing, Clients
<1>2. CASE "http" \notin open /\ "proxy" \in open
  BY <1>2 DEF Closing, Clients
<1>3. CASE "http" \notin open /\ "proxy" \notin open
  <2>1. open = {"redis"}
    BY <1>3 DEF Clients
  <2> QED BY <2>1 DEF Closing, Clients
<1> QED BY <1>1, <1>2, <1>3

\* At first there is no signal and no client.
LEMMA InitSignal == Init => SignalOK
BY DEF Init, SignalOK

\* The clients stay open up to the closes, and a signal is not forgotten.
LEMMA NextSignal == Inv /\ SignalOK /\ [Next]_vars => SignalOK'
<1> SUFFICES ASSUME Inv, SignalOK, [Next]_vars PROVE SignalOK'
  OBVIOUS
<1> USE DEF SignalOK, Over
<1>1. CASE Setup \/ SetupFails \/ Install \/ Land \/ Written \/ Fails \/ FailsUnnamed \/ Report \/ ReportFails
  BY <1>1 DEF Setup, SetupFails, Install, Land, Written, Fails, FailsUnnamed, Report, ReportFails
<1>2. CASE Count
  BY <1>2, ClientsCounted, FS_EmptySet DEF Count
<1>3. ASSUME NEW c \in Clients, Close(c) \/ CloseFails(c) PROVE SignalOK'
  BY <1>3 DEF Close, CloseFails
<1>4. CASE Push \/ Restore \/ Exit
  BY <1>4 DEF Push, Restore, Exit
<1>5. CASE Sigterm
  <2>1. CASE handler = "graceful" /\ RequestStop /\ UNCHANGED <<pc, ending>>
    BY <1>5, <2>1 DEF Sigterm, RequestStop, Inv, HandlerOK, Guarded
  <2>2. CASE handler = "graceful" /\ Hang
    BY <1>5, <2>2 DEF Sigterm, Hang, Inv, HandlerOK, Guarded
  <2>3. CASE handler = "default" /\ pc' = "gone" /\ ending' = "killed" /\ UNCHANGED stop
    BY <1>5, <2>3 DEF Sigterm
  <2> QED BY <1>5, <2>1, <2>2, <2>3 DEF Sigterm
<1>6. CASE UNCHANGED vars
  BY <1>6 DEF vars
<1> QED BY <1>1, <1>2, <1>3, <1>4, <1>5, <1>6 DEF Next, Progress, Failure

LeftOK ==
    /\ PlacesLeft \in Nat /\ (PlacesLeft = 0 <=> pc \in Over)
    /\ ClosesLeft \in Nat /\ ClosesLeft <= Cardinality(Clients)
    /\ RecordsLeft \in Nat
    /\ pc \in Over => ClosesLeft = 0 /\ RecordsLeft = 0

\* What is left is counted in natural numbers.
LEMMA LeftCounted == Inv => LeftOK
<1> SUFFICES ASSUME Inv PROVE LeftOK
  OBVIOUS
<1>1. PlacesLeft \in Nat /\ (PlacesLeft = 0 <=> pc \in Over)
  <2>1. pc \in Place
    BY DEF Inv, TypeOK
  <2>2. pc \notin Over => PlacesLeft \in {1, 2, 3, 4, 5, 6, 7, 8}
    BY <2>1 DEF Place, PlacesLeft, Over
  <2>3. pc \in Over => PlacesLeft = 0
    BY DEF PlacesLeft, Over
  <2> QED BY <2>2, <2>3
<1>2. open \in SUBSET Clients
  BY DEF Inv, TypeOK
<1>3. ClosesLeft \in Nat /\ ClosesLeft <= Cardinality(Clients)
  BY <1>2, ClientsCounted DEF ClosesLeft
<1>4. RecordsLeft \in Nat
  BY RunAssumption DEF Inv, TypeOK, RecordsLeft
<1>5. pc \in Over => ClosesLeft = 0 /\ RecordsLeft = 0
  BY DEF ClosesLeft, RecordsLeft, Over
<1> QED BY <1>1, <1>3, <1>4, <1>5 DEF LeftOK

\* The bounds, and that a signalled run can go on.
LEMMA InvBounded == Inv /\ SignalOK => RunBounded
<1> SUFFICES ASSUME Inv, SignalOK PROVE RunBounded
  OBVIOUS
<1>1. Left \in Nat /\ (Left = 0 <=> pc \in Over)
  BY LeftCounted DEF Left, LeftOK
<1>2. ASSUME signalled, code.polling PROVE Left <= 6 + Cardinality(Clients)
  <2>1. pc \notin {"setup", "install"}
    BY <1>2 DEF SignalOK, Over
  <2>2. PlacesLeft <= 6
    BY <2>1 DEF Inv, TypeOK, Place, PlacesLeft, Over
  <2>3. RecordsLeft = 0
    BY <1>2 DEF SignalOK, RecordsLeft, Over
  <2> QED BY <2>2, <2>3, LeftCounted, ClientsCounted DEF Left, LeftOK
<1>3. ASSUME signalled PROVE pc = "gone" \/ (pc = "hung" /\ code.warns) \/ Going
  <2>1. CASE pc = "close"
    BY <2>1, NextToClose DEF Inv, TypeOK, SignalOK, Going
  <2>2. CASE pc # "close"
    BY <1>3, <2>2 DEF Inv, HandlerOK, SignalOK, Going, Over
  <2> QED BY <2>1, <2>2
<1> QED BY <1>1, <1>2, <1>3 DEF RunBounded

\* Three counts none of which grows.
LEMMA SumRunsDown ==
    ASSUME NEW a \in Nat, NEW b \in Nat, NEW c \in Nat, NEW d \in Nat, NEW e \in Nat, NEW f \in Nat,
           d <= a, e <= b, f <= c
    PROVE  /\ d + e + f <= a + b + c
           /\ d < a \/ e < b \/ f < c => d + e + f < a + b + c
OBVIOUS

\* So what is left is less if one part is and no part is more.
LEMMA PartsRunDown ==
    ASSUME Inv, Inv', PlacesLeft' <= PlacesLeft, ClosesLeft' <= ClosesLeft, RecordsLeft' <= RecordsLeft
    PROVE  /\ Left' <= Left
           /\ PlacesLeft' < PlacesLeft \/ ClosesLeft' < ClosesLeft \/ RecordsLeft' < RecordsLeft => Left' < Left
<1>1. PlacesLeft \in Nat /\ ClosesLeft \in Nat /\ RecordsLeft \in Nat
  BY LeftCounted DEF LeftOK
<1>2. PlacesLeft' \in Nat /\ ClosesLeft' \in Nat /\ RecordsLeft' \in Nat
  <2>1. LeftOK'
    BY LeftCounted, PTL
  <2> QED BY <2>1 DEF LeftOK
<1>3. Left = PlacesLeft + ClosesLeft + RecordsLeft /\ Left' = PlacesLeft' + ClosesLeft' + RecordsLeft'
  BY DEF Left
<1>4. /\ PlacesLeft' + ClosesLeft' + RecordsLeft' <= PlacesLeft + ClosesLeft + RecordsLeft
      /\ PlacesLeft' < PlacesLeft \/ ClosesLeft' < ClosesLeft \/ RecordsLeft' < RecordsLeft
           => PlacesLeft' + ClosesLeft' + RecordsLeft' < PlacesLeft + ClosesLeft + RecordsLeft
  BY <1>1, <1>2, SumRunsDown
<1> QED BY <1>3, <1>4

\* Closing a client leaves one less.
LEMMA CloseCounts ==
    ASSUME Inv, NEW c \in open
    PROVE  Cardinality(open \ {c}) = Cardinality(open) - 1 /\ Cardinality(open) \in Nat
<1>1. open \in SUBSET Clients
  BY DEF Inv, TypeOK
<1>2. IsFiniteSet(open) /\ Cardinality(open) \in Nat
  BY <1>1, ClientsCounted
<1> QED BY <1>2, FS_RemoveElement

\* The steps of run before its finally clause is left.
LEMMA StepRunsDown ==
    ASSUME Inv, Inv', SignalOK,
           \/ Setup \/ Install \/ Land \/ Written \/ Report \/ Count
           \/ SetupFails \/ Fails \/ FailsUnnamed \/ ReportFails
    PROVE  Left' < Left
<1>1. PlacesLeft \in Nat /\ ClosesLeft \in Nat /\ RecordsLeft \in Nat
  BY LeftCounted DEF LeftOK
<1>2. PlacesLeft' \in Nat /\ ClosesLeft' \in Nat /\ RecordsLeft' \in Nat
  <2>1. LeftOK'
    BY LeftCounted, PTL
  <2> QED BY <2>1 DEF LeftOK
<1>3. CASE Setup
  <2>1. PlacesLeft' < PlacesLeft /\ RecordsLeft' = RecordsLeft
    BY <1>3 DEF Setup, PlacesLeft, RecordsLeft, Over
  <2>2. ClosesLeft' = ClosesLeft
    BY <1>3 DEF Setup, ClosesLeft, Clients
  <2> QED BY <1>1, <1>2, <2>1, <2>2, PartsRunDown
<1>4. CASE Install
  <2>1. PlacesLeft' < PlacesLeft /\ RecordsLeft' = RecordsLeft /\ ClosesLeft' = ClosesLeft
    BY <1>4 DEF Install, PlacesLeft, RecordsLeft, ClosesLeft, Over
  <2> QED BY <1>1, <1>2, <2>1, PartsRunDown
<1>5. CASE Land
  <2>1. PlacesLeft' = PlacesLeft /\ ClosesLeft' = ClosesLeft
    BY <1>5 DEF Land, PlacesLeft, ClosesLeft, Over
  <2>2. RecordsLeft' < RecordsLeft
    BY <1>5, RunAssumption DEF Inv, TypeOK, Land, RecordsLeft
  <2> QED BY <1>1, <1>2, <2>1, <2>2, PartsRunDown
<1>6. CASE Written \/ Fails \/ FailsUnnamed
  <2>1. PlacesLeft' < PlacesLeft /\ ClosesLeft' = ClosesLeft /\ RecordsLeft' = 0
    BY <1>6 DEF Written, Fails, FailsUnnamed, PlacesLeft, ClosesLeft, RecordsLeft, Over
  <2> QED BY <1>1, <1>2, <2>1, PartsRunDown
<1>7. CASE Report \/ ReportFails \/ Count
  <2>1. PlacesLeft' < PlacesLeft /\ ClosesLeft' = ClosesLeft /\ RecordsLeft' = 0
    BY <1>7 DEF Report, ReportFails, Count, PlacesLeft, ClosesLeft, RecordsLeft, Over
  <2> QED BY <1>1, <1>2, <2>1, PartsRunDown
<1>8. CASE SetupFails
  <2>1. PlacesLeft' < PlacesLeft /\ ClosesLeft' = 0 /\ RecordsLeft' = 0
    BY <1>8 DEF SetupFails, PlacesLeft, ClosesLeft, RecordsLeft, Over
  <2> QED BY <1>1, <1>2, <2>1, PartsRunDown
<1> QED BY <1>3, <1>4, <1>5, <1>6, <1>7, <1>8

\* The closes, the push, the end.
LEMMA EndRunsDown ==
    ASSUME Inv, Inv', Push \/ Restore \/ Exit \/ \E c \in Clients : Close(c) \/ CloseFails(c)
    PROVE  Left' < Left
<1>1. PlacesLeft \in Nat /\ ClosesLeft \in Nat /\ RecordsLeft \in Nat
  BY LeftCounted DEF LeftOK
<1>2. PlacesLeft' \in Nat /\ ClosesLeft' \in Nat /\ RecordsLeft' \in Nat
  <2>1. LeftOK'
    BY LeftCounted, PTL
  <2> QED BY <2>1 DEF LeftOK
<1>3. CASE Push \/ Restore \/ Exit
  <2>1. PlacesLeft' < PlacesLeft /\ ClosesLeft' = 0 /\ RecordsLeft' = 0
    BY <1>3 DEF Push, Restore, Exit, PlacesLeft, ClosesLeft, RecordsLeft, Over
  <2> QED BY <1>1, <1>2, <2>1, PartsRunDown
<1>4. ASSUME NEW c \in Clients, Close(c) PROVE Left' < Left
  <2>1. /\ pc = "close" /\ c \in open /\ open' = open \ {c}
        /\ pc' = IF open' = {} THEN "push" ELSE "close"
    BY <1>4 DEF Close, Closing
  <2>2. Cardinality(open') = Cardinality(open) - 1 /\ Cardinality(open) \in Nat
    BY <2>1, CloseCounts
  <2>3. PlacesLeft' = PlacesLeft /\ RecordsLeft' = 0 /\ RecordsLeft = 0
    BY <2>1 DEF PlacesLeft, RecordsLeft, Over
  <2>4. ClosesLeft = Cardinality(open)
    BY <2>1 DEF ClosesLeft
  <2>5. ClosesLeft' < ClosesLeft
    <3>1. CASE open' = {}
      <4>1. Cardinality(open') = 0
        BY <3>1, FS_EmptySet
      <4>2. ClosesLeft' = 0
        BY <2>1, <3>1 DEF ClosesLeft
      <4> QED BY <2>2, <2>4, <4>1, <4>2
    <3>2. CASE open' # {}
      <4>1. ClosesLeft' = Cardinality(open')
        BY <2>1, <3>2 DEF ClosesLeft
      <4> QED BY <2>2, <2>4, <4>1
    <3> QED BY <3>1, <3>2
  <2> QED BY <1>1, <1>2, <2>3, <2>5, PartsRunDown
<1>5. ASSUME NEW c \in Clients, CloseFails(c) PROVE Left' < Left
  <2>1. PlacesLeft' < PlacesLeft /\ ClosesLeft' = 0 /\ RecordsLeft' = 0
    BY <1>5 DEF CloseFails, PlacesLeft, ClosesLeft, RecordsLeft, Over
  <2> QED BY <1>1, <1>2, <2>1, PartsRunDown
<1> QED BY <1>3, <1>4, <1>5

\* A signal takes the records of a polling source away, or all that is left.
LEMMA SigtermRunsDown == ASSUME Inv, Inv', Sigterm PROVE Left' <= Left
<1>1. PlacesLeft \in Nat /\ ClosesLeft \in Nat /\ RecordsLeft \in Nat
  BY LeftCounted DEF LeftOK
<1>2. PlacesLeft' \in Nat /\ ClosesLeft' \in Nat /\ RecordsLeft' \in Nat
  <2>1. LeftOK'
    BY LeftCounted, PTL
  <2> QED BY <2>1 DEF LeftOK
<1>3. CASE handler = "graceful" /\ RequestStop /\ UNCHANGED <<pc, ending>>
  <2>1. UNCHANGED <<pc, open, code, landed>> /\ stop'
    BY <1>3 DEF Sigterm, RequestStop
  <2>2. PlacesLeft' = PlacesLeft /\ ClosesLeft' = ClosesLeft
    BY <2>1 DEF PlacesLeft, ClosesLeft, Over
  <2>3. RecordsLeft' = RecordsLeft \/ RecordsLeft' = 0
    BY <2>1 DEF RecordsLeft, Inv, TypeOK
  <2> QED BY <1>1, <1>2, <2>2, <2>3, PartsRunDown
<1>4. CASE \/ handler = "graceful" /\ Hang
           \/ handler = "default" /\ pc' = "gone" /\ ending' = "killed" /\ UNCHANGED stop
  <2>1. PlacesLeft' = 0 /\ ClosesLeft' = 0 /\ RecordsLeft' = 0
    BY <1>4 DEF Hang, PlacesLeft, ClosesLeft, RecordsLeft, Over
  <2> QED BY <1>1, <1>2, <2>1, PartsRunDown
<1> QED BY <1>3, <1>4 DEF Sigterm

\* Every step.
LEMMA NextRunsDown == Inv /\ Inv' /\ SignalOK /\ SignalOK' /\ [Next]_vars => [RunsDown]_vars
<1> SUFFICES ASSUME Inv, Inv', SignalOK, SignalOK', Next PROVE RunsDown
  OBVIOUS
<1>1. Left \in Nat /\ Left' \in Nat
  <2>1. RunBounded /\ RunBounded'
    BY InvBounded, PTL
  <2> QED BY <2>1 DEF RunBounded
<1>2. ASSUME Progress \/ Failure PROVE Left' < Left
  BY <1>2, StepRunsDown, EndRunsDown DEF Progress, Failure
<1>3. CASE Sigterm
  BY <1>2, <1>3, SigtermRunsDown DEF RunsDown
<1>4. CASE Progress \/ Failure
  BY <1>1, <1>2, <1>4 DEF RunsDown
<1> QED BY <1>3, <1>4 DEF Next

\* A run takes no more steps than it has left, signals apart; once signalled
\* it can go on until it is over, or else hangs in the handler's log line, which
\* takes a log level that prints it; a polling source leaves it no more steps
\* than there are places and clients: what StopEndsRun rests on, for any number
\* of records, fairness apart.
THEOREM RunWindsDown == Spec => []RunBounded /\ [][RunsDown]_vars
<1>1. Inv /\ SignalOK /\ [Next]_vars => SignalOK'
  BY NextSignal
<1>2. Spec => []SignalOK
  BY <1>1, InitSignal, RunInvariant, PTL DEF Spec
<1>3. Inv /\ SignalOK => RunBounded
  BY InvBounded
<1>4. Inv /\ Inv' /\ SignalOK /\ SignalOK' /\ [Next]_vars => [RunsDown]_vars
  BY NextRunsDown
<1> QED BY <1>2, <1>3, <1>4, RunInvariant, PTL DEF Spec
=============================================================================
