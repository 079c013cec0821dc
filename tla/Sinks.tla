-------------------------------- MODULE Sinks --------------------------------
(***************************************************************************)
(* The sinks of transform workers under replays: dlt_sink, appending or,   *)
(* with a primary_key, merging into a Delta table (storage/dlt_sink.py),   *)
(* and redis_latest_sink (storage/redis_cache.py).                         *)
(*                                                                         *)
(* The raw records are a sequence that grows.  A run replays what had      *)
(* landed when it listed them (Staging.tla), pulled one by one by its      *)
(* sink; runs of several workers overlap, repeat each other, fail and are  *)
(* killed.  A record is known by its place and by the entity it observes;  *)
(* of two observations of an entity the later one is the newer.            *)
(***************************************************************************)
EXTENDS Ids, FiniteSets

CONSTANTS
    Worker,      \* the transform workers
    Entity,      \* what records are about: pairs of identifying fields
    MaxRecords,  \* bound: raw records
    MaxRuns      \* bound: runs of all workers

ASSUME SinksAssumption ==
    /\ Entity \subseteq Field \X Field
    /\ None \notin Worker
    /\ MaxRecords \in Nat /\ MaxRuns \in Nat

Record == 1..MaxRecords

NoRecord == 0

VARIABLES
    sink,     \* the sink of the workers: "append", "merge" or "latest"
    raw,      \* raw[i]: the entity that record i observes, in landing order
    at,       \* at[w]: where the run of w stands
    upto,     \* upto[w]: records it found
    pos,      \* pos[w]: row_count, records its sink has pulled
    table,    \* table[i]: rows of the table that hold record i
    snap,     \* snap[k]: the record in snapshot:{k}, or NoRecord
    runs,     \* runs started
    author,   \* history: author[k], the worker that set k last, None before
    acked,    \* history: acked[i], runs that reported i as written
    unheard   \* history: unheard[i], loads of i that no run reported

run     == <<at, upto, pos, runs>>
history == <<author, acked, unheard>>
vars    == <<sink, raw, run, table, snap, history>>

IdOf(e) == deterministic_id(e[1], e[2])

Id(i) == IdOf(raw[i])

KeyOf(e) == SnapshotKey(e[1], e[2])

Key(i) == KeyOf(raw[i])

Keys == {KeyOf(e) : e \in Entity}

Init ==
    /\ sink \in {"append", "merge", "latest"}
    /\ raw = <<>>
    /\ at = [w \in Worker |-> "idle"]
    /\ upto = [w \in Worker |-> 0]
    /\ pos = [w \in Worker |-> 0]
    /\ table = [i \in Record |-> 0]
    /\ snap = [k \in Keys |-> NoRecord]
    /\ runs = 0
    /\ author = [k \in Keys |-> None]
    /\ acked = [i \in Record |-> 0]
    /\ unheard = [i \in Record |-> 0]

-----------------------------------------------------------------------------
\* An ingest worker lands one more record.
LandRaw ==
    /\ Len(raw) < MaxRecords
    /\ \E e \in Entity : raw' = Append(raw, e)
    /\ UNCHANGED <<sink, run, table, snap, history>>

\* A run begins: the records are listed and the sink asks for the first.
Start(w) ==
    /\ at[w] # "writing" /\ runs < MaxRuns
    /\ at' = [at EXCEPT ![w] = "writing"]
    /\ upto' = [upto EXCEPT ![w] = Len(raw)]
    /\ pos' = [pos EXCEPT ![w] = 0]
    /\ runs' = runs + 1
    /\ UNCHANGED <<sink, raw, table, snap, history>>

\* Mutant of SetSnapshot: SET with NX.
SetSnapshotOnce(w, i) ==
    /\ snap' = [snap EXCEPT ![Key(i)] = IF snap[Key(i)] = NoRecord THEN i ELSE snap[Key(i)]]
    /\ author' = [author EXCEPT ![Key(i)] = w]

\* set_snapshot
SetSnapshot(w, i) ==
    /\ snap' = [snap EXCEPT ![Key(i)] = i]
    /\ author' = [author EXCEPT ![Key(i)] = w]

\* The next record: the Redis sink sets its snapshot, _counting hands it to dlt.
Pull(w) ==
    /\ at[w] = "writing" /\ pos[w] < upto[w]
    /\ pos' = [pos EXCEPT ![w] = pos[w] + 1]
    /\ IF sink = "latest" THEN SetSnapshot(w, pos[w] + 1) ELSE UNCHANGED <<snap, author>>
    /\ UNCHANGED <<sink, raw, at, upto, runs, table, acked, unheard>>

\* Mutant of Merging: the primary key is forgotten.
MergingNever == FALSE

\* write_disposition "merge"
Merging == sink = "merge"

\* The rows of the id of record i, each with the record it holds.
RowsOf(i) == UNION {{j} \X (1..table[j]) : j \in {k \in DOMAIN raw : Id(k) = Id(i)}}

\* The rows of record i behind Delta's upsert of the first n records, which does
\* not deduplicate what it loads.  An id without a row (every id, in the load
\* that creates the table) gets a row for each record of it; the rows of an id
\* that has some become rows of the record of it that was loaded, of any of
\* these if there are several, or of more than one.
Upserted(n, matched, i) ==
    LET m == Cardinality(RowsOf(i))
    IN  CASE \A j \in 1..n : Id(j) # Id(i) -> table[i]
          [] m = 0 /\ (\E j \in 1..n : Id(j) = Id(i)) -> IF i <= n THEN 1 ELSE 0
          [] m > 0 /\ (\E j \in 1..n : Id(j) = Id(i)) -> IF i \in matched THEN m ELSE 0

Load(n) ==
    IF Merging
      THEN \E matched \in SUBSET (1..n) :
             /\ \A i \in 1..n : \E j \in matched : Id(j) = Id(i)
             /\ table' = [i \in Record |-> IF i \in DOMAIN raw THEN Upserted(n, matched, i) ELSE 0]
      ELSE table' = [i \in Record |-> IF i <= n THEN table[i] + 1 ELSE table[i]]

Bump(count, n) == [i \in Record |-> IF i <= n THEN count[i] + 1 ELSE count[i]]

\* Mutant of Finish: the records were counted before they were handed to dlt.
FinishUnloaded(w) ==
    /\ at[w] = "writing" /\ pos[w] = upto[w]
    /\ at' = [at EXCEPT ![w] = "done"]
    /\ acked' = Bump(acked, upto[w])
    /\ UNCHANGED <<sink, raw, upto, pos, runs, snap, table, author, unheard>>

\* The records are exhausted: dlt loads them, write returns its WriteResult.
Finish(w) ==
    /\ at[w] = "writing" /\ pos[w] = upto[w]
    /\ at' = [at EXCEPT ![w] = "done"]
    /\ IF sink = "latest" THEN UNCHANGED table ELSE Load(upto[w])
    /\ acked' = Bump(acked, upto[w])
    /\ UNCHANGED <<sink, raw, upto, pos, runs, snap, author, unheard>>

\* The load is done, but the run fails or is killed before it can tell.
FinishUnheard(w) ==
    /\ sink # "latest" /\ at[w] = "writing" /\ pos[w] = upto[w]
    /\ at' = [at EXCEPT ![w] = "failed"]
    /\ Load(upto[w])
    /\ unheard' = Bump(unheard, upto[w])
    /\ UNCHANGED <<sink, raw, upto, pos, runs, snap, author, acked>>

\* A pull, a SET or the load raises, or the process is killed.  Nothing of an
\* unfinished load is kept, of the snapshots all that were set.
Fail(w) ==
    /\ at[w] = "writing"
    /\ at' = [at EXCEPT ![w] = "failed"]
    /\ UNCHANGED <<sink, raw, upto, pos, runs, table, snap, history>>

\* The TTL of a snapshot is over.
Expire(k) ==
    /\ snap[k] # NoRecord
    /\ snap' = [snap EXCEPT ![k] = NoRecord]
    /\ UNCHANGED <<sink, raw, run, table, history>>

Step(w) == Start(w) \/ Pull(w) \/ Finish(w) \/ FinishUnheard(w) \/ Fail(w)

Next == LandRaw \/ (\E w \in Worker : Step(w)) \/ \E k \in Keys : Expire(k)

Spec == Init /\ [][Next]_vars

-----------------------------------------------------------------------------
TypeOK ==
    /\ sink \in {"append", "merge", "latest"}
    /\ raw \in Seq(Entity) /\ Len(raw) <= MaxRecords
    /\ at \in [Worker -> {"idle", "writing", "done", "failed"}]
    /\ upto \in [Worker -> 0..MaxRecords] /\ pos \in [Worker -> 0..MaxRecords]
    /\ table \in [Record -> Nat]
    /\ snap \in [Keys -> Record \cup {NoRecord}]
    /\ runs \in 0..MaxRuns
    /\ author \in [Keys -> Worker \cup {None}]
    /\ acked \in [Record -> Nat] /\ unheard \in [Record -> Nat]

(***************************************************************************)
(* What a run reported is in the table: appended once for each report and  *)
(* not more often than it was loaded, or, with a primary key, as a row of  *)
(* its id, whoever loaded what afterwards.                                 *)
(***************************************************************************)
AckedIsStored ==
    \A i \in DOMAIN raw :
        /\ sink = "append" => table[i] \in acked[i]..(acked[i] + unheard[i])
        /\ sink = "merge" /\ acked[i] > 0 => \E j \in DOMAIN raw : Id(j) = Id(i) /\ table[j] > 0

Loaded(i) == acked[i] + unheard[i] > 0

(***************************************************************************)
(* With a primary key, replaying does not duplicate: an id of which one    *)
(* record has been loaded has one row at most, however often it was, in    *)
(* whatever runs, overlapping, failing or unheard ("replaying the same     *)
(* records upserts instead of appending").                                 *)
(***************************************************************************)
ReplayIsIdempotent ==
    sink = "merge" =>
        \A i \in DOMAIN raw :
            (\A j \in DOMAIN raw : Id(j) = Id(i) /\ Loaded(j) => j = i) => table[i] <= 1

IsPlain(e) == Plain(e[1]) /\ Plain(e[2])

(***************************************************************************)
(* Entities with plain fields are not folded into another one: what was    *)
(* reported of one is in the table under its own fields, and its snapshot  *)
(* is an observation of it, whatever other entities are around (the        *)
(* separator in deterministic_id and in the snapshot's key).               *)
(***************************************************************************)
NothingFolded ==
    /\ \A i \in DOMAIN raw :
        sink = "merge" /\ IsPlain(raw[i]) /\ acked[i] > 0 =>
            \E j \in DOMAIN raw : raw[j] = raw[i] /\ table[j] > 0
    /\ \A e \in Entity : IsPlain(e) /\ snap[KeyOf(e)] # NoRecord => raw[snap[KeyOf(e)]] = e

(***************************************************************************)
(* A snapshot whose last writer finished its run is the newest of that     *)
(* run's records of the key: a run that ends well leaves no older one      *)
(* behind, and runs over the same records end up agreeing however their    *)
(* writes interleaved.                                                     *)
(***************************************************************************)
FinishedIsNewest ==
    \A k \in Keys :
        snap[k] # NoRecord /\ at[author[k]] = "done" =>
            \A i \in 1..upto[author[k]] : Key(i) = k => i <= snap[k]
=============================================================================
