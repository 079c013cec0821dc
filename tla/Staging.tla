------------------------------- MODULE Staging -------------------------------
(***************************************************************************)
(* The raw-landing staging boundary (storage/staging.py): ingest workers   *)
(* land each run's records in a file of its own, a transform worker        *)
(* replays the files of the channel.                                       *)
(*                                                                         *)
(* Both sides go through fsspec.  On a local directory a file is there     *)
(* from the moment it is opened, and its buffered text arrives in pieces   *)
(* that end anywhere, in the middle of a line too.  In an object store it  *)
(* appears, whole, when it is closed.  Writers fail or are killed between  *)
(* any two steps, and a replay may run meanwhile.  Replays write nothing,  *)
(* so one stands for all.                                                  *)
(***************************************************************************)
EXTENDS Integers, Sequences, FiniteSetsExt

CONSTANTS
    Writer,    \* the ingest workers of a channel
    MaxFiles,  \* bound: files of the channel
    MaxRows    \* bound: rows of a file

ASSUME StagingAssumption == MaxFiles \in Nat /\ MaxRows \in Nat

\* File names in the order sorted() gives them: by the second the run started,
\* then by its uuid.  Nothing relates that order to the order of the runs.
Name == 1..MaxFiles

None == 0

Unreturned == -1

\* "cut": its writer is gone and did not close it.
Phase == {"absent", "open", "closed", "cut"}

VARIABLES
    store,     \* what RAW_BUCKET_URL names: a "local" directory or an "object" store
    phase,     \* phase[n] \in Phase
    rows,      \* rows[n]: rows handed to file n
    seen,      \* seen[n]: whole rows a reader finds in it
    tail,      \* tail[n]: behind them a reader finds a piece of the next one
    result,    \* result[n]: row_count of the WriteResult, Unreturned before
    writing,   \* writing[w]: the file w has open, or None
    at,        \* where the replay stands
    left,      \* files it listed and has not finished
    current,   \* the file it has open, or None
    next,      \* the row of that file it comes to next
    yielded,   \* the rows it yielded, <<file, row>>
    promised   \* history: files that were written when it listed the channel

landing == <<phase, rows, seen, tail, result, writing>>
replay  == <<at, left, current, next, yielded, promised>>
vars    == <<store, landing, replay>>

Init ==
    /\ store \in {"local", "object"}
    /\ phase = [n \in Name |-> "absent"]
    /\ rows = [n \in Name |-> 0]
    /\ seen = [n \in Name |-> 0]
    /\ tail = [n \in Name |-> FALSE]
    /\ result = [n \in Name |-> Unreturned]
    /\ writing = [w \in Writer |-> None]
    /\ at = "idle" /\ left = {} /\ current = None /\ next = 1
    /\ yielded = <<>> /\ promised = {}

\* What glob finds.
Listed == {n \in Name : phase[n] = "closed" \/ (store = "local" /\ phase[n] # "absent")}

-----------------------------------------------------------------------------
(* _RawLandingSink.write *)

\* Mutant of Open: the name is the second alone, so a run may open another's file.
OpenStamped(w) ==
    /\ writing[w] = None
    /\ \E n \in Name :
        /\ phase' = [phase EXCEPT ![n] = "open"]
        /\ rows' = [rows EXCEPT ![n] = 0]
        /\ seen' = [seen EXCEPT ![n] = 0]
        /\ tail' = [tail EXCEPT ![n] = FALSE]
        /\ writing' = [writing EXCEPT ![w] = n]
    /\ UNCHANGED <<store, result, replay>>

Open(w) ==
    /\ writing[w] = None
    /\ \E n \in Name :
        /\ phase[n] = "absent"
        /\ phase' = [phase EXCEPT ![n] = "open"]
        /\ writing' = [writing EXCEPT ![w] = n]
    /\ UNCHANGED <<store, rows, seen, tail, result, replay>>

\* One record is pulled, dumped and handed to the file's buffer.
WriteRow(w) ==
    LET n == writing[w]
    IN  /\ n # None /\ rows[n] < MaxRows
        /\ rows' = [rows EXCEPT ![n] = rows[n] + 1]
        /\ UNCHANGED <<store, phase, seen, tail, result, writing, replay>>

\* The buffer of a local file overflows: more of it becomes visible.
Flush(w) ==
    LET n == writing[w]
    IN  /\ n # None /\ store = "local"
        /\ \E more \in seen[n]..rows[n], torn \in BOOLEAN :
            /\ torn => more < rows[n]
            /\ more = seen[n] /\ tail[n] => torn
            /\ seen' = [seen EXCEPT ![n] = more]
            /\ tail' = [tail EXCEPT ![n] = torn]
        /\ UNCHANGED <<store, phase, rows, result, writing, replay>>

\* The with block is left and the file closed.
CloseFile(w, n) ==
    /\ phase' = [phase EXCEPT ![n] = "closed"]
    /\ seen' = [seen EXCEPT ![n] = rows[n]]
    /\ tail' = [tail EXCEPT ![n] = FALSE]
    /\ writing' = [writing EXCEPT ![w] = None]

\* Mutant of Return: the result is returned before the file is closed.
ReturnUnclosed(w) ==
    LET n == writing[w]
    IN  /\ n # None
        /\ result' = [result EXCEPT ![n] = rows[n]]
        /\ UNCHANGED <<store, phase, rows, seen, tail, writing, replay>>

\* The records are exhausted: the file is closed, the result returned.
Return(w) ==
    LET n == writing[w]
    IN  /\ n # None
        /\ CloseFile(w, n)
        /\ result' = [result EXCEPT ![n] = rows[n]]
        /\ UNCHANGED <<store, rows, replay>>

\* Pulling or dumping a record raises: the file is closed with the rows so far.
Raise(w) ==
    LET n == writing[w]
    IN  /\ n # None
        /\ CloseFile(w, n)
        /\ UNCHANGED <<store, rows, result, replay>>

\* Mutant of Lose: the object store keeps what had been uploaded.
LoseUploaded(w) ==
    LET n == writing[w]
    IN  /\ n # None
        /\ writing' = [writing EXCEPT ![w] = None]
        /\ phase' = [phase EXCEPT ![n] = IF store = "local" THEN "cut" ELSE "closed"]
        /\ tail' = [tail EXCEPT ![n] = rows[n] > 0]
        /\ UNCHANGED <<store, rows, seen, result, replay>>

\* The process is killed or the close fails: what is visible stays, an object
\* never appears.
Lose(w) ==
    LET n == writing[w]
    IN  /\ n # None
        /\ writing' = [writing EXCEPT ![w] = None]
        /\ phase' = [phase EXCEPT ![n] = IF store = "local" THEN "cut" ELSE "absent"]
        /\ rows' = [rows EXCEPT ![n] = seen[n]]
        /\ UNCHANGED <<store, seen, tail, result, replay>>

-----------------------------------------------------------------------------
(* _RawLandingSource.fetch *)

\* The first record is asked for: the channel is listed, once.
List ==
    /\ at = "idle"
    /\ at' = "reading" /\ left' = Listed
    /\ promised' = {n \in Name : result[n] # Unreturned}
    /\ UNCHANGED <<store, landing, current, next, yielded>>

\* Mutant of OpenNext: the files come in the order of the listing, which is any.
OpenNextUnsorted ==
    /\ at = "reading" /\ current = None /\ left # {}
    /\ current' \in left /\ next' = 1
    /\ UNCHANGED <<store, landing, at, left, yielded, promised>>

OpenNext ==
    /\ at = "reading" /\ current = None /\ left # {}
    /\ current' = Min(left) /\ next' = 1
    /\ UNCHANGED <<store, landing, at, left, yielded, promised>>

\* A whole line is parsed and yielded.
Yield ==
    /\ at = "reading" /\ current # None /\ next <= seen[current]
    /\ yielded' = Append(yielded, <<current, next>>)
    /\ next' = next + 1
    /\ UNCHANGED <<store, landing, at, left, current, promised>>

\* A piece of a line is no JSON: the replay raises.
RaiseTorn ==
    /\ at = "reading" /\ current # None /\ next > seen[current] /\ tail[current]
    /\ at' = "failed"
    /\ UNCHANGED <<store, landing, left, current, next, yielded, promised>>

\* Mutant of EndOfFile: the file read is not let go of.
EndOfFileHeld ==
    /\ at = "reading" /\ current # None /\ next > seen[current] /\ ~tail[current]
    /\ left' = left \ {current}
    /\ UNCHANGED <<store, landing, at, current, next, yielded, promised>>

EndOfFile ==
    /\ at = "reading" /\ current # None /\ next > seen[current] /\ ~tail[current]
    /\ left' = left \ {current} /\ current' = None
    /\ UNCHANGED <<store, landing, at, next, yielded, promised>>

Exhausted ==
    /\ at = "reading" /\ current = None /\ left = {}
    /\ at' = "done"
    /\ UNCHANGED <<store, landing, left, current, next, yielded, promised>>

\* The run that replays is over, or killed; the next one starts afresh.
Rerun ==
    /\ at # "idle"
    /\ at' = "idle" /\ left' = {} /\ current' = None /\ next' = 1
    /\ yielded' = <<>> /\ promised' = {}
    /\ UNCHANGED <<store, landing>>

-----------------------------------------------------------------------------
Land(w) == Open(w) \/ WriteRow(w) \/ Flush(w) \/ Return(w) \/ Raise(w) \/ Lose(w)

Replay == List \/ OpenNext \/ Yield \/ RaiseTorn \/ EndOfFile \/ Exhausted \/ Rerun

Next == Replay \/ \E w \in Writer : Land(w)

Spec == Init /\ [][Next]_vars

-----------------------------------------------------------------------------
TypeOK ==
    /\ store \in {"local", "object"}
    /\ phase \in [Name -> Phase]
    /\ rows \in [Name -> 0..MaxRows]
    /\ seen \in [Name -> 0..MaxRows]
    /\ \A n \in Name : seen[n] <= rows[n]
    /\ tail \in [Name -> BOOLEAN]
    /\ result \in [Name -> Unreturned..MaxRows]
    /\ writing \in [Writer -> Name \cup {None}]
    /\ at \in {"idle", "reading", "done", "failed"}
    /\ left \subseteq Name /\ promised \subseteq Name
    /\ current \in left \cup {None}
    /\ next \in 1..(MaxRows + 1)
    /\ yielded \in Seq(Name \X (1..MaxRows))

Yielded == {yielded[k] : k \in DOMAIN yielded}

(***************************************************************************)
(* Nothing that was acknowledged is lost: a replay that completes has      *)
(* yielded every row of every WriteResult returned before it listed the    *)
(* channel, whatever was written, failed or killed meanwhile ("a parser    *)
(* bug never loses data").                                                 *)
(***************************************************************************)
AckedIsReplayed ==
    at = "done" => \A n \in promised : \A i \in 1..result[n] : <<n, i>> \in Yielded

(***************************************************************************)
(* A replay is in order and without a repetition or a gap, also while      *)
(* files grow under it: file after file by name, and each from its first   *)
(* row on (sorted(fs.glob(...)), the line loop).                           *)
(***************************************************************************)
ReplayInOrder ==
    \A k \in 1..(Len(yielded) - 1) :
        LET this == yielded[k]
            that == yielded[k + 1]
        IN  \/ that = <<this[1], this[2] + 1>>
            \/ this[1] < that[1] /\ that[2] = 1

(***************************************************************************)
(* Raw data is immutable: no step of any worker touches a file once its    *)
(* WriteResult was returned, and the file holds exactly row_count rows     *)
(* ("immutable"; a uuid in every name).                                    *)
(***************************************************************************)
RawIsImmutable ==
    [][\A n \in Name : result[n] # Unreturned =>
          /\ result'[n] = result[n] /\ seen'[n] = result[n] /\ ~tail'[n]
          /\ phase'[n] = "closed"]_vars

(***************************************************************************)
(* A replay raises only over a line its writer had no time to finish, on a *)
(* local directory; in an object store it always gets to the end (json     *)
(* .loads of every line).                                                  *)
(***************************************************************************)
RaisesOnlyTorn ==
    [][at # "failed" /\ at' = "failed" =>
          store = "local" /\ phase[current] \in {"open", "cut"}]_vars

(***************************************************************************)
(* Claimed of the raw data ("replayable source of truth", "the transform   *)
(* can be re-run"): a replay does not stop for good at a file whose writer *)
(* is gone.                                                                *)
(***************************************************************************)
AlwaysReplayable == at = "failed" => phase[current] # "cut"
=============================================================================
