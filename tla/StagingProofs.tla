---------------------------- MODULE StagingProofs ----------------------------
(***************************************************************************)
(* Proofs about raw landing, for any number of writers, files and rows.    *)
(***************************************************************************)
EXTENDS Staging, WellFoundedInduction, TLAPS

\* A file being written has one writer and is open.
WritersOK ==
    /\ \A w \in Writer : writing[w] # None => phase[writing[w]] = "open"
    /\ \A w, v \in Writer : writing[w] = writing[v] /\ writing[w] # None => w = v

\* What a reader finds in a file in each of its phases.
FilesOK ==
    \A n \in Name :
        /\ result[n] # Unreturned => phase[n] = "closed" /\ result[n] = rows[n]
        /\ phase[n] = "closed" => seen[n] = rows[n] /\ ~tail[n]
        /\ phase[n] = "absent" => rows[n] = 0 /\ seen[n] = 0 /\ ~tail[n]
        /\ store = "object" => phase[n] # "cut" /\ (phase[n] = "open" => seen[n] = 0 /\ ~tail[n])

\* Every row of a promised file is yielded, or the file is still to be finished.
AckOK ==
    /\ \A n \in promised : result[n] # Unreturned
    /\ \A n \in promised \ left : \A i \in 1..result[n] : <<n, i>> \in Yielded
    /\ current # None => \A i \in 1..(next - 1) : <<current, i>> \in Yielded
    /\ at = "done" => left = {}

\* The file being read is the first of those left, and the last row yielded is
\* the one before the row the replay comes to, or lies in an earlier file.
OrderOK ==
    /\ current # None => \A n \in left : current <= n
    /\ Len(yielded) > 0 =>
         LET last == yielded[Len(yielded)]
         IN  /\ current = None => \A n \in left : last[1] < n
             /\ current # None => \/ last[1] = current /\ last[2] + 1 = next
                                  \/ next = 1 /\ last[1] < current

\* Before it lists the channel a replay has nothing open.
IdleOK == at = "idle" => current = None /\ yielded = <<>>

Inv == TypeOK /\ WritersOK /\ FilesOK /\ IdleOK

AckInv == Inv /\ AckOK

OrderInv == Inv /\ OrderOK /\ ReplayInOrder

-----------------------------------------------------------------------------
\* Names are positive numbers, so that they have an order and None is none of them.
LEMMA NameNat == Name \subseteq Nat /\ None \notin Name /\ Unreturned \notin Nat
BY StagingAssumption DEF Name, None, Unreturned

\* A channel's next file by name exists.
LEMMA MinInSet ==
    ASSUME NEW S \in SUBSET Name, S # {}
    PROVE  Min(S) \in S /\ \A n \in S : Min(S) <= n
<1>1. S \subseteq Nat
  BY NameNat
<1>2. PICK x \in S : \A y \in S : ~(<<y, x>> \in OpToRel(<, Nat))
  BY <1>1, WFMin, NatLessThanWellFounded
<1>3. \A y \in S : x <= y
  <2>1. SUFFICES ASSUME NEW y \in S, ~(x <= y) PROVE FALSE
    OBVIOUS
  <2>2. x \in Nat /\ y \in Nat /\ y < x
    BY <1>1, <2>1
  <2>3. <<y, x>> \in OpToRel(<, Nat)
    BY <2>2 DEF OpToRel
  <2> QED BY <1>2, <2>3
<1> QED BY <1>2, <1>3 DEF Min

-----------------------------------------------------------------------------
(* The files *)

\* At first every file is absent.
LEMMA InitInv == Init => Inv
<1> SUFFICES ASSUME Init PROVE Inv
  OBVIOUS
<1>1. TypeOK
  BY StagingAssumption DEF Init, TypeOK, Phase, Name, None, Unreturned
<1>2. WritersOK /\ FilesOK /\ IdleOK
  BY DEF Init, WritersOK, FilesOK, IdleOK
<1> QED BY <1>1, <1>2 DEF Inv

\* The file opened was absent, so nobody else writes it.
LEMMA OpenKeeps == ASSUME NEW w \in Writer, Inv, Open(w) PROVE Inv'
<1>1. PICK n \in Name : /\ phase[n] = "absent"
                        /\ phase' = [phase EXCEPT ![n] = "open"]
                        /\ writing' = [writing EXCEPT ![w] = n]
  BY DEF Open
<1>2. UNCHANGED <<store, rows, seen, tail, result, replay>>
  BY DEF Open
<1>3. TypeOK'
  BY <1>1, <1>2 DEF Inv, TypeOK, Phase, replay
<1>4. WritersOK'
  BY <1>1 DEF Inv, TypeOK, WritersOK
<1>5. FilesOK'
  BY <1>1, <1>2 DEF Inv, TypeOK, FilesOK
<1> QED BY <1>2, <1>3, <1>4, <1>5 DEF Inv, IdleOK, replay

\* A row goes to an open file, of which no result was returned.
LEMMA WriteRowKeeps == ASSUME NEW w \in Writer, Inv, WriteRow(w) PROVE Inv'
<1> DEFINE n == writing[w]
<1>1. n \in Name /\ phase[n] = "open" /\ rows[n] < MaxRows /\ rows' = [rows EXCEPT ![n] = rows[n] + 1]
  BY DEF WriteRow, Inv, TypeOK, WritersOK
<1>2. UNCHANGED <<store, phase, seen, tail, result, writing, replay>>
  BY DEF WriteRow
<1> HIDE DEF n
<1>3. rows' \in [Name -> 0..MaxRows]
  BY <1>1, StagingAssumption DEF Inv, TypeOK
<1>4. \A m \in Name : seen[m] <= rows'[m]
  BY <1>1, StagingAssumption DEF Inv, TypeOK
<1>5. FilesOK'
  <2>1. \A m \in Name \ {n} : rows'[m] = rows[m]
    BY <1>1 DEF Inv, TypeOK
  <2> QED BY <1>1, <1>2, <2>1 DEF Inv, FilesOK
<1>6. TypeOK'
  BY <1>2, <1>3, <1>4 DEF Inv, TypeOK, replay
<1> QED BY <1>2, <1>5, <1>6 DEF Inv, WritersOK, IdleOK, replay

\* A flush shows more of an open local file.
LEMMA FlushKeeps == ASSUME NEW w \in Writer, Inv, Flush(w) PROVE Inv'
<1> DEFINE n == writing[w]
<1>1. n \in Name /\ phase[n] = "open" /\ store = "local"
  BY DEF Flush, Inv, TypeOK, WritersOK
<1>2. PICK more \in seen[n]..rows[n], torn \in BOOLEAN :
          seen' = [seen EXCEPT ![n] = more] /\ tail' = [tail EXCEPT ![n] = torn]
  BY DEF Flush
<1>3. UNCHANGED <<store, phase, rows, result, writing, replay>>
  BY DEF Flush
<1> HIDE DEF n
<1>4. seen' \in [Name -> 0..MaxRows] /\ \A m \in Name : seen'[m] <= rows[m]
  BY <1>1, <1>2, <1>3, StagingAssumption DEF Inv, TypeOK
<1>5. TypeOK'
  <2>1. tail' \in [Name -> BOOLEAN]
    BY <1>2 DEF Inv, TypeOK
  <2> QED BY <1>3, <1>4, <2>1 DEF Inv, TypeOK, replay
<1>6. FilesOK'
  <2>1. \A m \in Name \ {n} : seen'[m] = seen[m] /\ tail'[m] = tail[m]
    BY <1>2 DEF Inv, TypeOK
  <2> QED BY <1>1, <1>3, <2>1 DEF Inv, FilesOK
<1> QED BY <1>3, <1>5, <1>6 DEF Inv, WritersOK, IdleOK, replay

\* The file is closed, with its rows, and nobody writes it any more.
LEMMA CloseKeeps ==
    ASSUME NEW w \in Writer, Inv, writing[w] # None, CloseFile(w, writing[w]),
           UNCHANGED <<store, rows, replay>>,
           \/ UNCHANGED result
           \/ result' = [result EXCEPT ![writing[w]] = rows[writing[w]]]
    PROVE  Inv'
<1> DEFINE n == writing[w]
<1>1. n \in Name /\ phase[n] = "open"
  BY DEF Inv, TypeOK, WritersOK
<1>2. \A v \in Writer \ {w} : writing[v] # n
  BY DEF Inv, WritersOK
<1>3. /\ phase' = [phase EXCEPT ![n] = "closed"]
      /\ seen' = [seen EXCEPT ![n] = rows[n]]
      /\ tail' = [tail EXCEPT ![n] = FALSE]
      /\ writing' = [writing EXCEPT ![w] = None]
  BY DEF CloseFile
<1> HIDE DEF n
<1>4. TypeOK'
  <2>1. rows[n] \in 0..MaxRows /\ 0..MaxRows \subseteq Unreturned..MaxRows
    BY <1>1, StagingAssumption DEF Inv, TypeOK, Unreturned
  <2>2. result' \in [Name -> Unreturned..MaxRows]
    BY <2>1 DEF Inv, TypeOK, n
  <2>3. seen' \in [Name -> 0..MaxRows] /\ \A m \in Name : seen'[m] <= rows[m]
    BY <1>1, <1>3, <2>1, StagingAssumption DEF Inv, TypeOK
  <2> QED BY <1>1, <1>3, <2>2, <2>3 DEF Inv, TypeOK, Phase, replay
<1>5. WritersOK'
  BY <1>1, <1>2, <1>3 DEF Inv, TypeOK, WritersOK
<1>6. FilesOK'
  <2>1. \A m \in Name \ {n} : result'[m] = result[m] /\ phase'[m] = phase[m] /\ seen'[m] = seen[m] /\ tail'[m] = tail[m]
    BY <1>1, <1>3 DEF Inv, TypeOK, n
  <2>2. phase'[n] = "closed" /\ seen'[n] = rows[n] /\ ~tail'[n]
    BY <1>1, <1>3 DEF Inv, TypeOK
  <2>3. result'[n] = Unreturned \/ result'[n] = rows[n]
    BY <1>1 DEF Inv, TypeOK, FilesOK, n
  <2> QED BY <2>1, <2>2, <2>3 DEF Inv, FilesOK
<1> QED BY <1>4, <1>5, <1>6 DEF Inv, IdleOK, replay

\* A lost file is cut, or absent again, and has the rows a reader finds.
LEMMA LoseKeeps == ASSUME NEW w \in Writer, Inv, Lose(w) PROVE Inv'
<1> DEFINE n == writing[w]
<1>1. n \in Name /\ phase[n] = "open"
  BY DEF Lose, Inv, TypeOK, WritersOK
<1>2. \A v \in Writer \ {w} : writing[v] # n
  BY DEF Inv, WritersOK, Lose
<1>3. /\ phase' = [phase EXCEPT ![n] = IF store = "local" THEN "cut" ELSE "absent"]
      /\ rows' = [rows EXCEPT ![n] = seen[n]]
      /\ writing' = [writing EXCEPT ![w] = None]
      /\ UNCHANGED <<store, seen, tail, result, replay>>
  BY DEF Lose
<1> HIDE DEF n
<1>4. seen[n] \in 0..MaxRows
  BY <1>1, StagingAssumption DEF Inv, TypeOK
<1>5. rows' \in [Name -> 0..MaxRows] /\ \A m \in Name : seen'[m] <= rows'[m]
  BY <1>1, <1>3, <1>4, StagingAssumption DEF Inv, TypeOK
<1>6. TypeOK'
  BY <1>1, <1>3, <1>5 DEF Inv, TypeOK, Phase, replay
<1>7. WritersOK'
  BY <1>1, <1>2, <1>3 DEF Inv, TypeOK, WritersOK
<1>8. FilesOK'
  BY <1>1, <1>3, <1>4 DEF Inv, TypeOK, FilesOK
<1> QED BY <1>3, <1>6, <1>7, <1>8 DEF Inv, IdleOK, replay

\* The replay only moves its own variables.
LEMMA ReplayKeeps == Inv /\ Replay => Inv'
<1> SUFFICES ASSUME Inv, Replay PROVE Inv'
  OBVIOUS
<1>1. UNCHANGED <<store, landing>>
  BY DEF Replay, List, OpenNext, Yield, RaiseTorn, EndOfFile, Exhausted, Rerun
<1>2. /\ at' \in {"idle", "reading", "done", "failed"}
      /\ left' \subseteq Name /\ promised' \subseteq Name
      /\ current' \in left' \cup {None}
      /\ next' \in 1..(MaxRows + 1)
      /\ yielded' \in Seq(Name \X (1..MaxRows))
  <2> USE StagingAssumption DEF Inv, TypeOK
  <2>1. CASE List
    BY <2>1 DEF List, Listed, IdleOK
  <2>2. CASE OpenNext
    <3>1. Min(left) \in left
      BY <2>2, MinInSet DEF OpenNext
    <3> QED BY <2>2, <3>1 DEF OpenNext
  <2>3. CASE Yield
    <3>1. current \in Name /\ next \in 1..MaxRows
      BY <2>3 DEF Yield
    <3>2. yielded' = Append(yielded, <<current, next>>) /\ next' = next + 1
      BY <2>3 DEF Yield
    <3>3. <<current, next>> \in Name \X (1..MaxRows)
      BY <3>1
    <3> QED BY <2>3, <3>1, <3>2, <3>3 DEF Yield
  <2>4. CASE RaiseTorn
    BY <2>4 DEF RaiseTorn
  <2>5. CASE EndOfFile
    BY <2>5 DEF EndOfFile
  <2>6. CASE Exhausted
    BY <2>6 DEF Exhausted
  <2>7. CASE Rerun
    BY <2>7 DEF Rerun
  <2> QED BY <2>1, <2>2, <2>3, <2>4, <2>5, <2>6, <2>7 DEF Replay
<1>3. IdleOK'
  BY DEF Replay, List, OpenNext, Yield, RaiseTorn, EndOfFile, Exhausted, Rerun, IdleOK
<1> QED BY <1>1, <1>2, <1>3 DEF Inv, TypeOK, WritersOK, FilesOK, landing

\* Every step keeps the invariant.
LEMMA NextKeeps == Inv /\ [Next]_vars => Inv'
<1> SUFFICES ASSUME Inv, [Next]_vars PROVE Inv'
  OBVIOUS
<1>1. CASE Replay
  BY <1>1, ReplayKeeps
<1>2. ASSUME NEW w \in Writer, Open(w) PROVE Inv'
  BY <1>2, OpenKeeps
<1>3. ASSUME NEW w \in Writer, WriteRow(w) PROVE Inv'
  BY <1>3, WriteRowKeeps
<1>4. ASSUME NEW w \in Writer, Flush(w) PROVE Inv'
  BY <1>4, FlushKeeps
<1>5. ASSUME NEW w \in Writer, Return(w) PROVE Inv'
  BY <1>5, CloseKeeps DEF Return
<1>6. ASSUME NEW w \in Writer, Raise(w) PROVE Inv'
  BY <1>6, CloseKeeps DEF Raise
<1>7. ASSUME NEW w \in Writer, Lose(w) PROVE Inv'
  BY <1>7, LoseKeeps
<1>8. CASE UNCHANGED vars
  BY <1>8 DEF Inv, TypeOK, WritersOK, FilesOK, IdleOK, vars, landing, replay
<1> QED BY <1>1, <1>2, <1>3, <1>4, <1>5, <1>6, <1>7, <1>8 DEF Next, Land

-----------------------------------------------------------------------------
(* What no step does *)

\* A file whose WriteResult was returned stays as it is.
LEMMA StepImmutable ==
    ASSUME Inv, [Next]_vars, NEW n \in Name, result[n] # Unreturned
    PROVE  /\ result'[n] = result[n] /\ seen'[n] = result[n] /\ ~tail'[n]
           /\ phase'[n] = "closed"
<1>1. phase[n] = "closed" /\ seen[n] = result[n] /\ ~tail[n]
  BY DEF Inv, FilesOK
<1>2. \A w \in Writer : writing[w] # None => writing[w] \in Name /\ writing[w] # n
  BY <1>1 DEF Inv, TypeOK, WritersOK
<1>3. CASE Replay \/ UNCHANGED vars
  <2>1. UNCHANGED landing
    BY <1>3 DEF Replay, List, OpenNext, Yield, RaiseTorn, EndOfFile, Exhausted, Rerun, vars
  <2> QED BY <1>1, <2>1 DEF landing
<1>4. ASSUME NEW w \in Writer, Open(w)
      PROVE  result'[n] = result[n] /\ seen'[n] = seen[n] /\ tail'[n] = tail[n] /\ phase'[n] = phase[n]
  BY <1>1, <1>4 DEF Open, Inv, TypeOK
<1>5. ASSUME NEW w \in Writer, WriteRow(w) \/ Flush(w)
      PROVE  result'[n] = result[n] /\ seen'[n] = seen[n] /\ tail'[n] = tail[n] /\ phase'[n] = phase[n]
  <2> DEFINE m == writing[w]
  <2>1. m # n /\ UNCHANGED <<result, phase>>
    BY <1>2, <1>5 DEF WriteRow, Flush
  <2>2. \/ UNCHANGED <<seen, tail>>
        \/ \E more, torn : seen' = [seen EXCEPT ![m] = more] /\ tail' = [tail EXCEPT ![m] = torn]
    BY <1>5 DEF WriteRow, Flush
  <2> HIDE DEF m
  <2> QED BY <2>1, <2>2 DEF Inv, TypeOK
<1>6. ASSUME NEW w \in Writer, Return(w) \/ Raise(w) \/ Lose(w)
      PROVE  result'[n] = result[n] /\ seen'[n] = seen[n] /\ tail'[n] = tail[n] /\ phase'[n] = phase[n]
  <2> DEFINE m == writing[w]
  <2>1. m # n
    BY <1>2, <1>6 DEF Return, Raise, Lose
  <2>2. \E r, s, t, p : /\ result' = result \/ result' = [result EXCEPT ![m] = r]
                        /\ seen' = seen \/ seen' = [seen EXCEPT ![m] = s]
                        /\ tail' = tail \/ tail' = [tail EXCEPT ![m] = t]
                        /\ phase' = [phase EXCEPT ![m] = p]
    BY <1>6 DEF Return, Raise, Lose, CloseFile
  <2> HIDE DEF m
  <2> QED BY <2>1, <2>2 DEF Inv, TypeOK
<1> QED BY <1>1, <1>3, <1>4, <1>5, <1>6 DEF Next, Land

\* A piece of a row is found in unfinished local files alone.
LEMMA TornIsUnfinished ==
    ASSUME Inv, RaiseTorn
    PROVE  store = "local" /\ phase[current] \in {"open", "cut"}
BY DEF Inv, TypeOK, FilesOK, Phase, RaiseTorn

-----------------------------------------------------------------------------
(* What a replay has yielded *)

\* A yield adds its row behind the others.
LEMMA YieldedGrows ==
    ASSUME TypeOK, Yield
    PROVE  /\ Len(yielded') = Len(yielded) + 1
           /\ yielded'[Len(yielded')] = <<current, next>>
           /\ \A k \in 1..Len(yielded) : yielded'[k] = yielded[k]
           /\ Yielded' = Yielded \cup {<<current, next>>}
<1>1. /\ yielded \in Seq(Name \X (1..MaxRows))
      /\ yielded' = Append(yielded, <<current, next>>)
  BY DEF TypeOK, Yield
<1>2. /\ Len(yielded') = Len(yielded) + 1
      /\ DOMAIN yielded = 1..Len(yielded) /\ DOMAIN yielded' = 1..(Len(yielded) + 1)
      /\ yielded'[Len(yielded) + 1] = <<current, next>>
      /\ \A k \in 1..Len(yielded) : yielded'[k] = yielded[k]
      /\ Len(yielded) \in Nat
  BY <1>1
<1>3. ASSUME NEW x \in Yielded' PROVE x \in Yielded \cup {<<current, next>>}
  <2>1. PICK k \in 1..(Len(yielded) + 1) : x = yielded'[k]
    BY <1>2, <1>3 DEF Yielded
  <2>2. CASE k = Len(yielded) + 1
    BY <1>2, <2>1, <2>2
  <2>3. CASE k \in 1..Len(yielded)
    BY <1>2, <2>1, <2>3 DEF Yielded
  <2> QED BY <1>2, <2>1, <2>2, <2>3
<1>4. ASSUME NEW x \in Yielded PROVE x \in Yielded'
  <2>1. PICK k \in 1..Len(yielded) : x = yielded[k]
    BY <1>2, <1>4 DEF Yielded
  <2>2. k \in 1..(Len(yielded) + 1) /\ x = yielded'[k]
    BY <1>2, <2>1
  <2> QED BY <1>2, <2>2 DEF Yielded
<1>5. <<current, next>> \in Yielded'
  <2>1. Len(yielded) + 1 \in 1..(Len(yielded) + 1)
    BY <1>2
  <2> QED BY <1>2, <2>1 DEF Yielded
<1> QED BY <1>2, <1>3, <1>4, <1>5

\* Landing leaves the replay alone, and the files it was promised.
LEMMA LandingKeepsAck ==
    ASSUME AckInv, [Next]_vars, UNCHANGED replay
    PROVE  AckOK'
<1>1. UNCHANGED <<at, left, current, next, promised, Yielded>>
  BY DEF replay, Yielded
<1>2. \A n \in promised : result'[n] = result[n]
  BY StepImmutable DEF AckInv, AckOK, Inv, TypeOK
<1> QED BY <1>1, <1>2 DEF AckInv, AckOK

\* A file is let go of when all its rows are yielded.
LEMMA ReplayKeepsAck ==
    ASSUME AckInv, Replay
    PROVE  AckOK'
<1>1. UNCHANGED <<result, seen, tail, phase>>
  BY DEF Replay, List, OpenNext, Yield, RaiseTorn, EndOfFile, Exhausted, Rerun, landing
<1>2. CASE List
  <2>1. promised' \subseteq left'
    BY <1>2 DEF List, Listed, AckInv, Inv, FilesOK
  <2>2. current' = None /\ at' = "reading"
    BY <1>2 DEF List, AckInv, Inv, IdleOK
  <2> QED BY <1>1, <1>2, <2>1, <2>2 DEF List, AckOK
<1>3. CASE OpenNext
  BY <1>1, <1>3 DEF OpenNext, AckInv, AckOK, Yielded
<1>4. CASE Yield
  <2>1. Yielded' = Yielded \cup {<<current, next>>}
    BY <1>4, YieldedGrows DEF AckInv, Inv
  <2>2. UNCHANGED <<at, left, current, promised>> /\ next' = next + 1 /\ current # None /\ at = "reading"
    BY <1>4 DEF Yield
  <2>3. \A i \in 1..(next' - 1) : i \in 1..(next - 1) \/ i = next
    BY <2>2 DEF AckInv, Inv, TypeOK
  <2> QED BY <1>1, <2>1, <2>2, <2>3 DEF AckInv, AckOK
<1>5. CASE RaiseTorn
  BY <1>1, <1>5 DEF RaiseTorn, AckInv, AckOK, Yielded
<1>6. CASE EndOfFile
  <2>1. /\ UNCHANGED <<at, promised, Yielded>> /\ at = "reading"
        /\ left' = left \ {current} /\ current # None /\ current' = None
        /\ next > seen[current]
    BY <1>6 DEF EndOfFile, Yielded
  <2>2. ASSUME current \in promised, NEW i \in 1..result[current]
        PROVE  <<current, i>> \in Yielded
    <3>1. current \in Name /\ seen[current] = result[current]
      BY <2>2 DEF AckInv, AckOK, Inv, TypeOK, FilesOK
    <3>2. i \in 1..(next - 1)
      BY <2>1, <3>1, StagingAssumption DEF AckInv, Inv, TypeOK
    <3> QED BY <2>1, <3>2 DEF AckInv, AckOK
  <2> QED BY <1>1, <2>1, <2>2 DEF AckInv, AckOK
<1>7. CASE Exhausted
  BY <1>1, <1>7 DEF Exhausted, AckInv, AckOK, Yielded
<1>8. CASE Rerun
  BY <1>1, <1>8 DEF Rerun, AckInv, AckOK
<1> QED BY <1>2, <1>3, <1>4, <1>5, <1>6, <1>7, <1>8 DEF Replay

\* Landing leaves the replay alone.
LEMMA LandingKeepsReplay ==
    ASSUME NEW w \in Writer, Land(w)
    PROVE  UNCHANGED replay
BY DEF Land, Open, WriteRow, Flush, Return, Raise, Lose

\* The row yielded comes next behind the last one.
LEMMA ReplayKeepsOrder ==
    ASSUME OrderInv, Replay
    PROVE  OrderOK' /\ ReplayInOrder'
<1>0. /\ \A n \in left : n \in Nat /\ n \in Name
      /\ current # None => current \in Nat /\ current \in left
      /\ next \in Nat /\ yielded \in Seq(Name \X (1..MaxRows))
  BY NameNat, StagingAssumption DEF OrderInv, Inv, TypeOK
<1>1. CASE List
  BY <1>1 DEF List, OrderInv, Inv, IdleOK, OrderOK, ReplayInOrder
<1>2. CASE OpenNext
  <2>1. Min(left) \in left /\ \A n \in left : Min(left) <= n
    BY <1>2, MinInSet DEF OpenNext, OrderInv, Inv, TypeOK
  <2>2. current' = Min(left) /\ next' = 1 /\ current = None /\ UNCHANGED <<left, yielded>>
    BY <1>2 DEF OpenNext
  <2> QED BY <2>1, <2>2 DEF OrderInv, OrderOK, ReplayInOrder
<1>3. CASE Yield
  <2>1. /\ Len(yielded') = Len(yielded) + 1
        /\ yielded'[Len(yielded')] = <<current, next>>
        /\ \A k \in 1..Len(yielded) : yielded'[k] = yielded[k]
    BY <1>3, YieldedGrows DEF OrderInv, Inv
  <2>2. UNCHANGED <<left, current>> /\ next' = next + 1 /\ current # None
    BY <1>3 DEF Yield
  <2>3. OrderOK'
    <3>1. yielded'[Len(yielded')][1] = current' /\ yielded'[Len(yielded')][2] + 1 = next'
      BY <1>0, <2>1, <2>2
    <3>2. current' # None /\ \A n \in left' : current' <= n
      BY <2>2 DEF OrderInv, OrderOK
    <3> QED BY <3>1, <3>2 DEF OrderOK
  <2>4. ReplayInOrder'
    <3> SUFFICES ASSUME NEW k \in 1..Len(yielded)
                 PROVE  \/ yielded'[k + 1] = <<yielded'[k][1], yielded'[k][2] + 1>>
                        \/ yielded'[k][1] < yielded'[k + 1][1] /\ yielded'[k + 1][2] = 1
      <4>1. Len(yielded') - 1 = Len(yielded)
        BY <1>0, <2>1
      <4> QED BY <4>1 DEF ReplayInOrder
    <3>1. CASE k < Len(yielded)
      <4>1. k \in 1..(Len(yielded) - 1) /\ k + 1 \in 1..Len(yielded)
        <5>1. Len(yielded) \in Nat
          BY <1>0
        <5> QED BY <3>1, <5>1
      <4>2. yielded'[k] = yielded[k] /\ yielded'[k + 1] = yielded[k + 1]
        BY <2>1, <4>1
      <4> QED BY <4>1, <4>2 DEF OrderInv, ReplayInOrder
    <3>2. CASE k = Len(yielded)
      <4>1. yielded'[k] = yielded[k] /\ yielded'[k + 1] = <<current, next>>
        BY <2>1, <3>2
      <4>2. \/ yielded[k][1] = current /\ yielded[k][2] + 1 = next
            \/ next = 1 /\ yielded[k][1] < current
        BY <1>0, <2>2, <3>2 DEF OrderInv, OrderOK
      <4> QED BY <1>0, <4>1, <4>2
    <3> QED BY <1>0, <3>1, <3>2
  <2> QED BY <2>3, <2>4
<1>4. CASE RaiseTorn
  BY <1>4 DEF RaiseTorn, OrderInv, OrderOK, ReplayInOrder
<1>5. CASE EndOfFile
  <2>1. left' = left \ {current} /\ current # None /\ current' = None /\ UNCHANGED yielded
    BY <1>5 DEF EndOfFile
  <2>2. ASSUME Len(yielded) > 0, NEW n \in left'
        PROVE  yielded[Len(yielded)][1] < n
    <3>1. current <= n /\ n # current
      BY <2>1 DEF OrderInv, OrderOK
    <3>2. /\ yielded[Len(yielded)][1] = current \/ yielded[Len(yielded)][1] < current
          /\ yielded[Len(yielded)][1] \in Nat
      <4>1. yielded[Len(yielded)] \in Name \X (1..MaxRows)
        BY <1>0, <2>2
      <4>2. \/ yielded[Len(yielded)][1] = current
            \/ yielded[Len(yielded)][1] < current
        BY <2>1, <2>2 DEF OrderInv, OrderOK
      <4>3. yielded[Len(yielded)][1] \in Name
        BY <4>1
      <4> QED BY <4>2, <4>3, NameNat
    <3> QED BY <1>0, <2>1, <3>1, <3>2
  <2> QED BY <2>1, <2>2 DEF OrderInv, OrderOK, ReplayInOrder
<1>6. CASE Exhausted
  BY <1>6 DEF Exhausted, OrderInv, OrderOK, ReplayInOrder
<1>7. CASE Rerun
  BY <1>7 DEF Rerun, OrderOK, ReplayInOrder
<1> QED BY <1>1, <1>2, <1>3, <1>4, <1>5, <1>6, <1>7 DEF Replay

-----------------------------------------------------------------------------
(***************************************************************************)
(* The inductive invariant holds of every run: open files have one writer  *)
(* each, and what a reader finds in a file fits the phase it is in.        *)
(***************************************************************************)
THEOREM StagingInvariant == Spec => []Inv
<1>1. Init => Inv
  BY InitInv
<1>2. Inv /\ [Next]_vars => Inv'
  BY NextKeeps
<1> QED BY <1>1, <1>2, PTL DEF Spec

(***************************************************************************)
(* Files, results and the replay keep their types; a reader never finds    *)
(* more rows in a file than were handed to it.                             *)
(***************************************************************************)
THEOREM StagingTypeCorrect == Spec => []TypeOK
<1>1. Inv => TypeOK
  BY DEF Inv
<1> QED BY <1>1, StagingInvariant, PTL

(***************************************************************************)
(* Raw data is immutable: no step of any number of workers touches a file  *)
(* once its WriteResult was returned.                                      *)
(***************************************************************************)
THEOREM RawImmutable == Spec => RawIsImmutable
<1>1. Inv /\ [Next]_vars =>
        [\A n \in Name : result[n] # Unreturned =>
            /\ result'[n] = result[n] /\ seen'[n] = result[n] /\ ~tail'[n]
            /\ phase'[n] = "closed"]_vars
  BY StepImmutable
<1> QED BY <1>1, StagingInvariant, PTL DEF Spec, RawIsImmutable

(***************************************************************************)
(* A replay raises only over an unfinished line, in a local directory.     *)
(***************************************************************************)
THEOREM TornAlone == Spec => RaisesOnlyTorn
<1>1. Inv /\ [Next]_vars =>
        [at # "failed" /\ at' = "failed" =>
            store = "local" /\ phase[current] \in {"open", "cut"}]_vars
  <2> SUFFICES ASSUME Inv, Next, at # "failed", at' = "failed"
               PROVE  store = "local" /\ phase[current] \in {"open", "cut"}
    BY DEF vars
  <2>1. \A w \in Writer : ~Land(w)
    BY LandingKeepsReplay DEF replay
  <2>2. RaiseTorn
    BY <2>1 DEF Next, Replay, List, OpenNext, Yield, EndOfFile, Exhausted, Rerun
  <2> QED BY <2>2, TornIsUnfinished
<1> QED BY <1>1, StagingInvariant, PTL DEF Spec, RaisesOnlyTorn

(***************************************************************************)
(* Nothing acknowledged is lost: a completed replay has yielded every row  *)
(* of every WriteResult returned before it listed the channel.             *)
(***************************************************************************)
THEOREM AckedReplayed == Spec => []AckedIsReplayed
<1>1. Init => AckInv
  BY InitInv DEF Init, AckInv, AckOK, Yielded
<1>2. AckInv /\ [Next]_vars => AckInv'
  <2> SUFFICES ASSUME AckInv, [Next]_vars PROVE AckInv'
    OBVIOUS
  <2>1. Inv'
    BY NextKeeps DEF AckInv
  <2>2. Replay \/ UNCHANGED replay
    BY LandingKeepsReplay DEF Next, vars, replay
  <2> QED BY <2>1, <2>2, ReplayKeepsAck, LandingKeepsAck DEF AckInv
<1>3. AckInv => AckedIsReplayed
  BY DEF AckInv, AckOK, AckedIsReplayed
<1> QED BY <1>1, <1>2, <1>3, PTL DEF Spec

(***************************************************************************)
(* A replay goes file after file by name and row after row, without a gap  *)
(* or a repetition, also while the files grow under it.                    *)
(***************************************************************************)
THEOREM ReplayOrdered == Spec => []ReplayInOrder
<1>1. Init => OrderInv
  BY InitInv DEF Init, OrderInv, OrderOK, ReplayInOrder
<1>2. OrderInv /\ [Next]_vars => OrderInv'
  <2> SUFFICES ASSUME OrderInv, [Next]_vars PROVE OrderInv'
    OBVIOUS
  <2>1. Inv'
    BY NextKeeps DEF OrderInv
  <2>2. CASE Replay
    BY <2>1, <2>2, ReplayKeepsOrder DEF OrderInv
  <2>3. CASE UNCHANGED replay
    BY <2>1, <2>3 DEF OrderInv, OrderOK, ReplayInOrder, replay
  <2> QED BY <2>2, <2>3, LandingKeepsReplay DEF Next, vars, replay
<1>3. OrderInv => ReplayInOrder
  BY DEF OrderInv
<1> QED BY <1>1, <1>2, <1>3, PTL DEF Spec
=============================================================================
