----------------------------- MODULE SinksProofs -----------------------------
(***************************************************************************)
(* Proofs about the sinks of transform workers, for any number of workers, *)
(* entities, records and runs; and about the ids they rest on.             *)
(***************************************************************************)
EXTENDS Sinks, FiniteSetTheorems, TLAPS

-----------------------------------------------------------------------------
(* Ids *)

Bare(s) == \A i \in DOMAIN s : s[i] # Sep

\* What is joined from two texts without the separator is joined from them alone.
LEMMA JoinedApart ==
    ASSUME NEW s \in String, NEW t \in String, NEW u \in String, NEW v \in String,
           Bare(s), Bare(t), Joined(s, t) = Joined(u, v)
    PROVE  s = u /\ t = v
<1> DEFINE a == Joined(s, t)
           b == Joined(u, v)
<1>1. /\ s \in Seq(Char) /\ t \in Seq(Char) /\ u \in Seq(Char) /\ v \in Seq(Char)
      /\ <<Sep>> \in Seq(Char)
  BY CharAssumption DEF String
<1>2. /\ Len(a) = Len(s) + 1 + Len(t) /\ a[Len(s) + 1] = Sep
      /\ \A i \in 1..Len(s) : a[i] = s[i]
      /\ \A i \in 1..Len(t) : a[Len(s) + 1 + i] = t[i]
  BY <1>1 DEF Joined
<1>3. /\ Len(b) = Len(u) + 1 + Len(v) /\ b[Len(u) + 1] = Sep
      /\ \A i \in 1..Len(u) : b[i] = u[i]
      /\ \A i \in 1..Len(v) : b[Len(u) + 1 + i] = v[i]
  BY <1>1 DEF Joined
<1>4. a = b
  OBVIOUS
<1> HIDE DEF a, b
<1>5. Len(s) \in Nat /\ Len(t) \in Nat /\ Len(u) \in Nat /\ Len(v) \in Nat
  BY <1>1
<1>6. /\ \A i \in 1..Len(s) : s[i] # Sep
      /\ \A i \in 1..Len(t) : t[i] # Sep
  BY <1>1 DEF Bare
<1>7. Len(u) = Len(s)
  <2>1. ~(Len(u) < Len(s))
    <3>1. SUFFICES ASSUME Len(u) < Len(s) PROVE FALSE
      OBVIOUS
    <3>2. Len(u) + 1 \in 1..Len(s)
      BY <1>5, <3>1
    <3> QED BY <1>2, <1>3, <1>4, <1>6, <3>2
  <2>2. ~(Len(u) > Len(s))
    <3>1. SUFFICES ASSUME Len(u) > Len(s) PROVE FALSE
      OBVIOUS
    <3>2. Len(u) - Len(s) \in 1..Len(t)
      BY <1>2, <1>3, <1>4, <1>5, <3>1
    <3>3. a[Len(s) + 1 + (Len(u) - Len(s))] = t[Len(u) - Len(s)]
      BY <1>2, <3>2
    <3>4. Len(s) + 1 + (Len(u) - Len(s)) = Len(u) + 1
      BY <1>5
    <3> QED BY <1>3, <1>4, <1>6, <3>2, <3>3, <3>4
  <2> QED BY <1>5, <2>1, <2>2
<1>8. Len(v) = Len(t)
  BY <1>2, <1>3, <1>4, <1>5, <1>7
<1>9. \A i \in 1..Len(s) : s[i] = u[i]
  BY <1>2, <1>3, <1>4, <1>7
<1>10. \A i \in 1..Len(t) : t[i] = v[i]
  BY <1>2, <1>3, <1>4, <1>7, <1>8
<1> QED BY <1>1, <1>7, <1>8, <1>9, <1>10

\* Whatever its fields are, a record with the id or the key of a plain entity
\* has its fields.
LEMMA PlainApart ==
    ASSUME NEW e \in Field \X Field, NEW f \in Field \X Field, IsPlain(e),
           IdOf(f) = IdOf(e) \/ KeyOf(f) = KeyOf(e)
    PROVE  f = e
<1>1. /\ e[1] \in String /\ e[2] \in String /\ Bare(e[1]) /\ Bare(e[2])
      /\ e[1] # <<>> /\ e[2] # <<>> /\ e[1] # Word /\ e[2] # Word
      /\ e[1] # None /\ e[2] # None
  BY CharAssumption DEF IsPlain, Plain, Bare
<1>2. e = <<e[1], e[2]>> /\ f = <<f[1], f[2]>> /\ f[1] \in Field /\ f[2] \in Field
  OBVIOUS
<1>3. <<>> \in String
  BY DEF String
<1>4. \A g \in Field : /\ PartText(g) \in String /\ FieldText(g) \in String
                       /\ g # None => PartText(g) = g /\ FieldText(g) = g
  BY <1>3, CharAssumption DEF Field, PartText, FieldText
<1>5. CASE IdOf(f) = IdOf(e)
  <2>1. Joined(e[1], e[2]) = Joined(PartText(f[1]), PartText(f[2]))
    BY <1>1, <1>5 DEF IdOf, deterministic_id, PartText
  <2>2. PartText(f[1]) = e[1] /\ PartText(f[2]) = e[2]
    BY <1>1, <1>2, <1>4, <2>1, JoinedApart
  <2> QED BY <1>1, <1>2, <2>2 DEF PartText
<1>6. CASE KeyOf(f) = KeyOf(e)
  <2>1. Joined(e[1], e[2]) = Joined(FieldText(f[1]), FieldText(f[2]))
    BY <1>1, <1>6 DEF KeyOf, SnapshotKey, FieldText
  <2>2. FieldText(f[1]) = e[1] /\ FieldText(f[2]) = e[2]
    BY <1>1, <1>2, <1>4, <2>1, JoinedApart
  <2> QED BY <1>1, <1>2, <2>2 DEF FieldText
<1> QED BY <1>5, <1>6


-----------------------------------------------------------------------------
(* The invariant *)

\* A run pulls what it found, and is done when it has pulled all of it.
RunsOK ==
    \A w \in Worker :
        /\ pos[w] <= upto[w] /\ upto[w] <= Len(raw)
        /\ at[w] = "done" => pos[w] = upto[w]

\* Nothing is known of records that have not landed.
FutureOK == \A i \in Record : i > Len(raw) => table[i] = 0 /\ acked[i] = 0 /\ unheard[i] = 0

\* A snapshot is of its key, and none of its writer's records so far is newer.
SnapshotsOK ==
    \A k \in Keys : snap[k] # NoRecord =>
        /\ sink = "latest" /\ snap[k] \in 1..Len(raw) /\ Key(snap[k]) = k
        /\ author[k] \in Worker
        /\ \A i \in 1..pos[author[k]] : Key(i) = k => i <= snap[k]

\* The rows of a merging sink are of records that were loaded.
LoadedOK == sink = "merge" => \A i \in Record : table[i] > 0 => Loaded(i)

Inv ==
    /\ TypeOK /\ RunsOK /\ FutureOK /\ LoadedOK /\ SnapshotsOK
    /\ AckedIsStored /\ ReplayIsIdempotent

\* The records that have landed are records, and observe entities.
LEMMA Landed ==
    ASSUME TypeOK
    PROVE  /\ Len(raw) \in Nat /\ DOMAIN raw = 1..Len(raw) /\ 1..Len(raw) \subseteq Record
           /\ \A i \in 1..Len(raw) : raw[i] \in Entity /\ Key(i) \in Keys
BY SinksAssumption DEF TypeOK, Record, Key, Keys

\* At first there is nothing to keep.
LEMMA InitInv == Init => Inv
<1> SUFFICES ASSUME Init PROVE Inv
  OBVIOUS
<1>1. raw \in Seq(Entity) /\ Len(raw) = 0 /\ DOMAIN raw = {}
  BY DEF Init
<1>2. TypeOK
  BY <1>1, SinksAssumption DEF Init, TypeOK
<1>3. RunsOK /\ FutureOK /\ LoadedOK /\ SnapshotsOK
  BY <1>1 DEF Init, RunsOK, FutureOK, LoadedOK, SnapshotsOK
<1>4. AckedIsStored /\ ReplayIsIdempotent
  BY <1>1 DEF AckedIsStored, ReplayIsIdempotent
<1> QED BY <1>2, <1>3, <1>4 DEF Inv

-----------------------------------------------------------------------------
(* Loads *)

\* The rows of an id can be counted, and if one record has them all they are
\* the rows of that record.
LEMMA RowsCounted ==
    ASSUME TypeOK, NEW i \in 1..Len(raw)
    PROVE  /\ Cardinality(RowsOf(i)) \in Nat
           /\ (\A j \in 1..Len(raw) : Id(j) = Id(i) /\ j # i => table[j] = 0)
                => Cardinality(RowsOf(i)) = table[i]
<1> DEFINE Same == {j \in DOMAIN raw : Id(j) = Id(i)}
           rows(j) == {j} \X (1..table[j])
           Parts == {rows(j) : j \in Same}
<1>1. Len(raw) \in Nat /\ DOMAIN raw = 1..Len(raw) /\ \A j \in 1..Len(raw) : table[j] \in Nat
  BY Landed DEF TypeOK
<1>2. IsFiniteSet(Same)
  <2>1. IsFiniteSet(1..Len(raw))
    BY <1>1, FS_Interval
  <2> QED BY <1>1, <2>1, FS_Subset
<1>3. ASSUME NEW j \in Same
      PROVE  IsFiniteSet(rows(j)) /\ Cardinality(rows(j)) = table[j]
  <2>1. table[j] \in Nat
    BY <1>1
  <2>2. IsFiniteSet(1..table[j]) /\ Cardinality(1..table[j]) = table[j]
    <3>1. ASSUME NEW m \in Nat PROVE IsFiniteSet(1..m) /\ Cardinality(1..m) = m
      BY FS_Interval
    <3> QED BY <2>1, <3>1
  <2>3. IsFiniteSet({j}) /\ Cardinality({j}) = 1
    BY FS_Singleton
  <2>4. IsFiniteSet(rows(j)) /\ Cardinality(rows(j)) = Cardinality({j}) * Cardinality(1..table[j])
    BY <2>2, <2>3, FS_Product
  <2> QED BY <2>1, <2>2, <2>3, <2>4
<1>4. IsFiniteSet(Parts)
  <2>1. [j \in Same |-> rows(j)] \in [Same -> Parts]
    OBVIOUS
  <2>2. \A P \in Parts : \E j \in Same : [k \in Same |-> rows(k)][j] = P
    OBVIOUS
  <2>3. [j \in Same |-> rows(j)] \in Surjection(Same, Parts)
    BY <2>1, <2>2 DEF Surjection
  <2> HIDE DEF Same, Parts, rows
  <2> QED BY <1>2, <2>3, FS_Surjection
<1>5. RowsOf(i) = UNION Parts
  BY DEF RowsOf
<1>6. Cardinality(RowsOf(i)) \in Nat
  <2>1. \A P \in Parts : IsFiniteSet(P)
    BY <1>3
  <2>2. IsFiniteSet(UNION Parts)
    BY <1>4, <2>1, FS_UNION
  <2> QED BY <1>5, <2>2, FS_CardinalityType
<1>7. ASSUME \A j \in 1..Len(raw) : Id(j) = Id(i) /\ j # i => table[j] = 0
      PROVE  Cardinality(RowsOf(i)) = table[i]
  <2>1. i \in Same
    BY <1>1
  <2>2. \A j \in Same : j # i => rows(j) = {}
    <3> SUFFICES ASSUME NEW j \in Same, j # i PROVE rows(j) = {}
      OBVIOUS
    <3>1. table[j] = 0
      BY <1>1, <1>7
    <3> QED BY <3>1
  <2>3. RowsOf(i) = rows(i)
    <3>1. rows(i) \in Parts
      BY <2>1
    <3>2. \A P \in Parts : P = rows(i) \/ P = {}
      BY <2>2
    <3> HIDE DEF Parts, rows
    <3> QED BY <1>5, <3>1, <3>2
  <2> QED BY <1>3, <2>1, <2>3
<1> QED BY <1>6, <1>7

\* A merge of the first n records leaves a row of each id among them, of records
\* among them, and the rows of the other ids as they were; the only loaded
\* record of an id keeps to one row.
LEMMA MergeLeaves ==
    ASSUME TypeOK, NEW n \in 0..Len(raw), Load(n), Merging
    PROVE  /\ table' \in [Record -> Nat]
           /\ \A i \in Record : i > Len(raw) => table'[i] = 0
           /\ \A i \in 1..n : \E j \in 1..n : Id(j) = Id(i) /\ table'[j] > 0
           /\ \A i \in 1..Len(raw) : i > n /\ table'[i] > 0 => table'[i] = table[i]
           /\ \A j \in 1..Len(raw) : (\A i \in 1..n : Id(i) # Id(j)) => table'[j] = table[j]
           /\ \A i \in 1..n :
                (\A j \in 1..Len(raw) : Id(j) = Id(i) /\ j # i => table[j] = 0) /\ table[i] <= 1
                    => table'[i] <= 1
<1>1. PICK matched \in SUBSET (1..n) :
          /\ \A i \in 1..n : \E j \in matched : Id(j) = Id(i)
          /\ table' = [i \in Record |-> IF i \in DOMAIN raw THEN Upserted(n, matched, i) ELSE 0]
  BY DEF Load
<1>2. n \in Nat /\ n <= Len(raw) /\ DOMAIN raw = 1..Len(raw) /\ 1..Len(raw) \subseteq Record /\ Len(raw) \in Nat
  BY Landed
<1>3. \A i \in 1..Len(raw) : table[i] \in Nat /\ Cardinality(RowsOf(i)) \in Nat
  BY <1>2, RowsCounted DEF TypeOK
<1>4. \A i \in 1..Len(raw) : table'[i] = Upserted(n, matched, i)
  BY <1>1, <1>2
<1>5. ASSUME NEW i \in 1..Len(raw), \A j \in 1..n : Id(j) # Id(i)
      PROVE  table'[i] = table[i]
  BY <1>4, <1>5 DEF Upserted
<1>6. ASSUME NEW i \in 1..Len(raw), Cardinality(RowsOf(i)) = 0, NEW j \in 1..n, Id(j) = Id(i)
      PROVE  table'[i] = IF i <= n THEN 1 ELSE 0
  BY <1>4, <1>6 DEF Upserted
<1>7. ASSUME NEW i \in 1..Len(raw), Cardinality(RowsOf(i)) > 0, NEW j \in 1..n, Id(j) = Id(i)
      PROVE  table'[i] = IF i \in matched THEN Cardinality(RowsOf(i)) ELSE 0
  BY <1>4, <1>7 DEF Upserted
<1>8. \A i \in 1..Len(raw) : table'[i] \in Nat
  BY <1>3, <1>5, <1>6, <1>7
<1>9. table' \in [Record -> Nat] /\ \A i \in Record : i > Len(raw) => table'[i] = 0
  <2>1. \A i \in Record : i \notin 1..Len(raw) => table'[i] = 0
    BY <1>1, <1>2
  <2>2. \A i \in Record : table'[i] \in Nat
    BY <1>8, <2>1
  <2>3. \A i \in Record : i > Len(raw) => i \notin 1..Len(raw)
    BY <1>2, SinksAssumption DEF Record
  <2> QED BY <1>1, <2>1, <2>2, <2>3
<1>10. ASSUME NEW i \in 1..n
       PROVE  \E j \in 1..n : Id(j) = Id(i) /\ table'[j] > 0
  <2>1. i \in 1..Len(raw) /\ i <= n
    BY <1>2
  <2>2. CASE Cardinality(RowsOf(i)) = 0
    BY <1>6, <2>1, <2>2
  <2>3. CASE Cardinality(RowsOf(i)) > 0
    <3>1. PICK j \in matched : Id(j) = Id(i)
      BY <1>1
    <3>2. j \in 1..n /\ j \in 1..Len(raw)
      BY <1>2
    <3>3. RowsOf(j) = RowsOf(i)
      BY <3>1 DEF RowsOf
    <3>4. table'[j] = Cardinality(RowsOf(i))
      BY <1>7, <2>3, <3>1, <3>2, <3>3
    <3> QED BY <2>3, <3>1, <3>2, <3>4
  <2> QED BY <1>3, <2>1, <2>2, <2>3
<1>11. ASSUME NEW i \in 1..Len(raw), i > n, table'[i] > 0
       PROVE  table'[i] = table[i]
  <2>1. i \notin matched /\ ~(i <= n)
    BY <1>2, <1>11
  <2> QED BY <1>3, <1>5, <1>6, <1>7, <1>11, <2>1
<1>12. ASSUME NEW i \in 1..n, \A j \in 1..Len(raw) : Id(j) = Id(i) /\ j # i => table[j] = 0, table[i] <= 1
       PROVE  table'[i] <= 1
  <2>1. i \in 1..Len(raw) /\ i <= n
    BY <1>2
  <2>2. Cardinality(RowsOf(i)) = table[i] /\ table[i] \in Nat
    BY <1>3, <1>12, <2>1, RowsCounted
  <2>3. CASE Cardinality(RowsOf(i)) = 0
    BY <1>6, <2>1, <2>3
  <2>4. CASE Cardinality(RowsOf(i)) > 0
    BY <1>7, <1>12, <2>1, <2>2, <2>4
  <2> QED BY <2>2, <2>3, <2>4
<1> QED BY <1>5, <1>9, <1>10, <1>11, <1>12

\* An append adds a row of each of the first n records.
LEMMA AppendAdds ==
    ASSUME TypeOK, NEW n \in 0..Len(raw), Load(n), ~Merging
    PROVE  /\ table' \in [Record -> Nat]
           /\ \A i \in Record : table'[i] = IF i <= n THEN table[i] + 1 ELSE table[i]
BY DEF TypeOK, Load

\* Bump adds one for each of the first n records.
LEMMA BumpAdds ==
    ASSUME NEW count \in [Record -> Nat], NEW n
    PROVE  /\ Bump(count, n) \in [Record -> Nat]
           /\ \A i \in Record : Bump(count, n)[i] = IF i <= n THEN count[i] + 1 ELSE count[i]
BY DEF Bump

\* The run of w loads its records, which are reported, or not.
LEMMA LoadKeeps ==
    ASSUME Inv, NEW w \in Worker, sink # "latest", Load(upto[w]),
           \/ acked' = Bump(acked, upto[w]) /\ unheard' = unheard
           \/ unheard' = Bump(unheard, upto[w]) /\ acked' = acked,
           UNCHANGED <<sink, raw>>
    PROVE  /\ table' \in [Record -> Nat] /\ acked' \in [Record -> Nat] /\ unheard' \in [Record -> Nat]
           /\ FutureOK' /\ LoadedOK' /\ AckedIsStored' /\ ReplayIsIdempotent'
<1> DEFINE n == upto[w]
<1>1. n \in 0..Len(raw) /\ n \in Nat /\ Len(raw) \in Nat /\ DOMAIN raw = 1..Len(raw) /\ 1..Len(raw) \subseteq Record
  BY Landed DEF Inv, TypeOK, RunsOK
<1>2. Load(n)
  OBVIOUS
<1>3. /\ acked' \in [Record -> Nat] /\ unheard' \in [Record -> Nat]
      /\ \A i \in Record : i > n => acked'[i] = acked[i] /\ unheard'[i] = unheard[i]
      /\ \A i \in Record : i <= n => \/ acked'[i] = acked[i] + 1 /\ unheard'[i] = unheard[i]
                                     \/ acked'[i] = acked[i] /\ unheard'[i] = unheard[i] + 1
  <2>1. Record \subseteq Nat
    BY SinksAssumption DEF Record
  <2>2. /\ Bump(acked, n) \in [Record -> Nat]
        /\ \A i \in Record : Bump(acked, n)[i] = IF i <= n THEN acked[i] + 1 ELSE acked[i]
    BY BumpAdds DEF Inv, TypeOK
  <2>3. /\ Bump(unheard, n) \in [Record -> Nat]
        /\ \A i \in Record : Bump(unheard, n)[i] = IF i <= n THEN unheard[i] + 1 ELSE unheard[i]
    BY BumpAdds DEF Inv, TypeOK
  <2>4. \A i \in Record : i > n => ~(i <= n)
    BY <1>1, <2>1
  <2>5. acked \in [Record -> Nat] /\ unheard \in [Record -> Nat]
    BY DEF Inv, TypeOK
  <2> QED BY <2>2, <2>3, <2>4, <2>5
<1>4. \A i \in DOMAIN raw : Id(i)' = Id(i)
  BY DEF Id
<1>5. \A i \in Record : table[i] \in Nat /\ acked[i] \in Nat /\ unheard[i] \in Nat /\ i \in Nat
  BY SinksAssumption DEF Inv, TypeOK, Record
<1>8. \A i \in Record : i > Len(raw) => i > n /\ ~(i <= n)
  BY <1>1, <1>5
<1> HIDE DEF n
<1>9. \A i \in Record : /\ Loaded(i) => acked'[i] + unheard'[i] > 0
                        /\ i <= n => acked'[i] + unheard'[i] > 0
  <2> SUFFICES ASSUME NEW i \in Record
               PROVE  /\ acked[i] + unheard[i] > 0 => acked'[i] + unheard'[i] > 0
                      /\ i <= n => acked'[i] + unheard'[i] > 0
    BY DEF Loaded
  <2>1. acked[i] \in Nat /\ unheard[i] \in Nat /\ i \in Nat
    BY <1>5
  <2>2. CASE i <= n
    BY <1>3, <2>1, <2>2
  <2>3. CASE i > n
    BY <1>1, <1>3, <2>1, <2>3
  <2> QED BY <1>1, <2>1, <2>2, <2>3
<1>6. CASE Merging
  <2>1. /\ table' \in [Record -> Nat]
        /\ \A i \in Record : i > Len(raw) => table'[i] = 0
        /\ \A i \in 1..n : \E j \in 1..n : Id(j) = Id(i) /\ table'[j] > 0
        /\ \A i \in 1..Len(raw) : i > n /\ table'[i] > 0 => table'[i] = table[i]
        /\ \A j \in 1..Len(raw) : (\A i \in 1..n : Id(i) # Id(j)) => table'[j] = table[j]
        /\ \A i \in 1..n :
             (\A j \in 1..Len(raw) : Id(j) = Id(i) /\ j # i => table[j] = 0) /\ table[i] <= 1
                 => table'[i] <= 1
    BY <1>1, <1>2, <1>6, MergeLeaves DEF Inv
  <2>2. FutureOK'
    BY <1>3, <1>8, <2>1 DEF Inv, FutureOK
  <2>3. AckedIsStored'
    <3> SUFFICES ASSUME NEW i \in 1..Len(raw), acked'[i] > 0
                 PROVE  \E j \in 1..Len(raw) : Id(j) = Id(i) /\ table'[j] > 0
      BY <1>1, <1>4, <1>6 DEF AckedIsStored, Merging
    <3>1. CASE \E m \in 1..n : Id(m) = Id(i)
      <4>1. PICK j \in 1..n : Id(j) = Id(i) /\ table'[j] > 0
        BY <2>1, <3>1
      <4>2. j \in 1..Len(raw)
        BY <1>1
      <4> QED BY <4>1, <4>2
    <3>2. CASE \A m \in 1..n : Id(m) # Id(i)
      <4>1. i > n
        BY <1>1, <3>2
      <4>2. PICK j \in 1..Len(raw) : Id(j) = Id(i) /\ table[j] > 0
        BY <1>1, <1>3, <1>6, <4>1 DEF Inv, AckedIsStored, Merging
      <4> QED BY <2>1, <3>2, <4>2
    <3> QED BY <3>1, <3>2
  <2>4. LoadedOK'
    <3> SUFFICES ASSUME NEW i \in Record, table'[i] > 0 PROVE acked'[i] + unheard'[i] > 0
      BY DEF LoadedOK, Loaded
    <3>1. i \in 1..Len(raw)
      <4>1. i \in Nat /\ i > 0
        BY SinksAssumption DEF Record
      <4> QED BY <1>1, <2>1, <4>1
    <3>2. CASE i <= n
      BY <1>9, <3>2
    <3>3. CASE i > n
      <4>1. table[i] > 0
        BY <2>1, <3>1, <3>3
      <4> QED BY <1>6, <1>9, <4>1 DEF Inv, LoadedOK, Merging
    <3> QED BY <1>1, <1>5, <3>2, <3>3
  <2>5. ReplayIsIdempotent'
    <3> SUFFICES ASSUME NEW i \in 1..Len(raw),
                        \A j \in 1..Len(raw) : Id(j) = Id(i) /\ acked'[j] + unheard'[j] > 0 => j = i
                 PROVE  table'[i] <= 1
      BY <1>1, <1>4 DEF ReplayIsIdempotent, Loaded
    <3>1. \A j \in 1..Len(raw) : Id(j) = Id(i) /\ Loaded(j) => j = i
      BY <1>1, <1>9
    <3>2. table[i] <= 1
      BY <1>1, <1>6, <3>1 DEF Inv, ReplayIsIdempotent, Merging
    <3>3. \A j \in 1..Len(raw) : Id(j) = Id(i) /\ j # i => table[j] = 0
      <4> SUFFICES ASSUME NEW j \in 1..Len(raw), Id(j) = Id(i), j # i PROVE table[j] = 0
        OBVIOUS
      <4>1. ~Loaded(j) /\ j \in Record
        BY <1>1, <3>1
      <4>2. ~(table[j] > 0) /\ table[j] \in Nat
        BY <1>5, <1>6, <4>1 DEF Inv, LoadedOK, Merging
      <4> QED BY <4>2
    <3>4. CASE \E m \in 1..n : Id(m) = Id(i)
      <4>1. PICK m \in 1..n : Id(m) = Id(i)
        BY <3>4
      <4>2. m \in 1..Len(raw) /\ m \in Record /\ m <= n
        BY <1>1
      <4>3. m = i
        BY <1>9, <4>1, <4>2
      <4> QED BY <2>1, <3>2, <3>3, <4>3
    <3>5. CASE \A m \in 1..n : Id(m) # Id(i)
      BY <2>1, <3>2, <3>5
    <3> QED BY <3>4, <3>5
  <2> QED BY <1>3, <2>1, <2>2, <2>3, <2>4, <2>5
<1>7. CASE ~Merging
  <2>1. /\ table' \in [Record -> Nat]
        /\ \A i \in Record : table'[i] = IF i <= n THEN table[i] + 1 ELSE table[i]
    BY <1>1, <1>2, <1>7, AppendAdds DEF Inv
  <2>2. FutureOK'
    BY <1>3, <1>8, <2>1 DEF Inv, FutureOK
  <2>3. sink = "append"
    BY <1>7 DEF Inv, TypeOK, Merging
  <2>4. AckedIsStored'
    <3> SUFFICES ASSUME NEW i \in 1..Len(raw)
                 PROVE  table'[i] \in acked'[i]..(acked'[i] + unheard'[i])
      BY <1>1, <2>3 DEF AckedIsStored
    <3>1. table[i] \in acked[i]..(acked[i] + unheard[i])
      BY <1>1, <2>3 DEF Inv, AckedIsStored
    <3>2. i \in Record
      BY <1>1
    <3>3. CASE i <= n
      <4>1. table'[i] = table[i] + 1
        BY <2>1, <3>2, <3>3
      <4>2. \/ acked'[i] = acked[i] + 1 /\ unheard'[i] = unheard[i]
            \/ acked'[i] = acked[i] /\ unheard'[i] = unheard[i] + 1
        BY <1>3, <3>2, <3>3
      <4>3. table[i] \in Nat /\ acked[i] \in Nat /\ unheard[i] \in Nat
        BY <1>5, <3>2
      <4> QED BY <3>1, <4>1, <4>2, <4>3
    <3>4. CASE ~(i <= n)
      <4>1. table'[i] = table[i] /\ i > n
        BY <1>1, <2>1, <3>2, <3>4
      <4>2. acked'[i] = acked[i] /\ unheard'[i] = unheard[i]
        BY <1>3, <3>2, <4>1
      <4> QED BY <3>1, <4>1, <4>2
    <3> QED BY <3>3, <3>4
  <2>5. ReplayIsIdempotent' /\ LoadedOK'
    BY <2>3 DEF ReplayIsIdempotent, LoadedOK
  <2> QED BY <1>3, <2>1, <2>2, <2>4, <2>5
<1> QED BY <1>6, <1>7

-----------------------------------------------------------------------------
(* The steps *)

\* What the table keeps is kept as long as table, counts and records are.
LEMMA TableKeeps ==
    ASSUME Inv, UNCHANGED <<sink, raw, table, acked, unheard>>
    PROVE  FutureOK' /\ LoadedOK' /\ AckedIsStored' /\ ReplayIsIdempotent'
<1>1. \A i \in DOMAIN raw : Id(i)' = Id(i)
  BY DEF Id
<1> QED BY <1>1 DEF Inv, FutureOK, LoadedOK, Loaded, AckedIsStored, ReplayIsIdempotent

\* A new record is last, and nothing is known of it.
LEMMA LandRawKeeps == Inv /\ LandRaw => Inv'
<1> SUFFICES ASSUME Inv, LandRaw PROVE Inv'
  OBVIOUS
<1>1. PICK e \in Entity : raw' = Append(raw, e)
  BY DEF LandRaw
<1>2. UNCHANGED <<sink, at, upto, pos, runs, table, snap, author, acked, unheard>> /\ Len(raw) < MaxRecords
  BY DEF LandRaw, run, history
<1>3. /\ Len(raw) \in Nat /\ DOMAIN raw = 1..Len(raw) /\ 1..Len(raw) \subseteq Record
      /\ raw \in Seq(Entity)
  BY Landed DEF Inv, TypeOK
<1>4. /\ raw' \in Seq(Entity) /\ Len(raw') = Len(raw) + 1 /\ DOMAIN raw' = 1..(Len(raw) + 1)
      /\ \A i \in 1..Len(raw) : raw'[i] = raw[i]
  BY <1>1, <1>3
<1>5. \A i \in 1..Len(raw) : Id(i)' = Id(i) /\ Key(i)' = Key(i)
  BY <1>4 DEF Id, Key
<1>6. TypeOK'
  BY <1>2, <1>3, <1>4, SinksAssumption DEF Inv, TypeOK
<1>7. RunsOK'
  BY <1>2, <1>3, <1>4, SinksAssumption DEF Inv, TypeOK, RunsOK
<1>8. FutureOK'
  BY <1>2, <1>3, <1>4, SinksAssumption DEF Inv, FutureOK, Record
<1>9. SnapshotsOK'
  <2> SUFFICES ASSUME NEW k \in Keys, snap[k] # NoRecord
               PROVE  /\ sink = "latest" /\ snap[k] \in 1..(Len(raw) + 1) /\ KeyOf(raw'[snap[k]]) = k
                      /\ author[k] \in Worker
                      /\ \A i \in 1..pos[author[k]] : KeyOf(raw'[i]) = k => i <= snap[k]
    BY <1>2, <1>4 DEF SnapshotsOK, Key
  <2>1. /\ sink = "latest" /\ snap[k] \in 1..Len(raw) /\ Key(snap[k]) = k /\ author[k] \in Worker
        /\ \A i \in 1..pos[author[k]] : Key(i) = k => i <= snap[k]
    BY DEF Inv, SnapshotsOK
  <2>2. 1..pos[author[k]] \subseteq 1..Len(raw)
    <3>1. pos[author[k]] \in Nat /\ upto[author[k]] \in Nat
      BY <2>1, SinksAssumption DEF Inv, TypeOK
    <3>2. pos[author[k]] <= upto[author[k]] /\ upto[author[k]] <= Len(raw)
      BY <2>1 DEF Inv, RunsOK
    <3>3. \A p, u, l \in Nat : p <= u /\ u <= l => 1..p \subseteq 1..l
      OBVIOUS
    <3> QED BY <1>3, <3>1, <3>2, <3>3
  <2>3. snap[k] \in 1..(Len(raw) + 1)
    BY <1>3, <2>1
  <2> QED BY <1>4, <2>1, <2>2, <2>3 DEF Key
<1>10. table[Len(raw) + 1] = 0 /\ acked[Len(raw) + 1] = 0 /\ unheard[Len(raw) + 1] = 0
  BY <1>2, <1>3, SinksAssumption DEF Inv, FutureOK, Record
<1>11. \A i \in 1..(Len(raw) + 1) : i \in 1..Len(raw) \/ i = Len(raw) + 1
  BY <1>3
<1>12. AckedIsStored'
  <2> SUFFICES ASSUME NEW i \in 1..(Len(raw) + 1)
               PROVE  /\ sink = "append" => table[i] \in acked[i]..(acked[i] + unheard[i])
                      /\ sink = "merge" /\ acked[i] > 0 =>
                           \E j \in 1..(Len(raw) + 1) : Id(j)' = Id(i)' /\ table[j] > 0
    BY <1>2, <1>4 DEF AckedIsStored
  <2>1. CASE i = Len(raw) + 1
    BY <1>10, <2>1
  <2>2. CASE i \in 1..Len(raw)
    BY <1>3, <1>5, <2>2 DEF Inv, AckedIsStored
  <2> QED BY <1>11, <2>1, <2>2
<1>13. ReplayIsIdempotent'
  <2> SUFFICES ASSUME sink = "merge", NEW i \in 1..(Len(raw) + 1),
                      \A j \in 1..(Len(raw) + 1) : Id(j)' = Id(i)' /\ Loaded(j)' => j = i
               PROVE  table[i] <= 1
    BY <1>2, <1>4 DEF ReplayIsIdempotent
  <2>1. CASE i = Len(raw) + 1
    BY <1>10, <2>1
  <2>2. CASE i \in 1..Len(raw)
    <3>1. \A j \in 1..Len(raw) : j \in 1..(Len(raw) + 1) /\ (Loaded(j)' <=> Loaded(j))
      BY <1>2, <1>3 DEF Loaded
    <3>2. \A j \in 1..Len(raw) : Id(j) = Id(i) /\ Loaded(j) => j = i
      BY <1>5, <2>2, <3>1
    <3> QED BY <1>3, <2>2, <3>2 DEF Inv, ReplayIsIdempotent
  <2> QED BY <1>11, <2>1, <2>2
<1>14. LoadedOK'
  BY <1>2 DEF Inv, LoadedOK, Loaded
<1> QED BY <1>6, <1>7, <1>8, <1>9, <1>12, <1>13, <1>14 DEF Inv

\* A run starts with no record pulled and no more found than landed.
LEMMA StartKeeps == ASSUME NEW w \in Worker, Inv, Start(w) PROVE Inv'
<1>1. /\ at' = [at EXCEPT ![w] = "writing"]
      /\ upto' = [upto EXCEPT ![w] = Len(raw)]
      /\ pos' = [pos EXCEPT ![w] = 0]
      /\ runs' = runs + 1 /\ runs < MaxRuns
      /\ UNCHANGED <<sink, raw, table, snap, author, acked, unheard>>
  BY DEF Start, history
<1>2. Len(raw) \in Nat /\ Len(raw) \in 0..MaxRecords
  BY Landed, SinksAssumption DEF Inv, TypeOK
<1>3. TypeOK'
  BY <1>1, <1>2, SinksAssumption DEF Inv, TypeOK
<1>4. RunsOK'
  BY <1>1, <1>2 DEF Inv, TypeOK, RunsOK
<1>5. SnapshotsOK'
  <2>1. \A i : Key(i)' = Key(i)
    BY <1>1 DEF Key
  <2>2. \A v \in Worker : pos'[v] = pos[v] \/ pos'[v] = 0
    BY <1>1 DEF Inv, TypeOK
  <2> QED BY <1>1, <2>1, <2>2 DEF Inv, SnapshotsOK
<1> QED BY <1>1, <1>3, <1>4, <1>5, TableKeeps DEF Inv

\* The record pulled is the newest so far of its run, and so is its snapshot.
LEMMA PullKeeps == ASSUME NEW w \in Worker, Inv, Pull(w) PROVE Inv'
<1> DEFINE n == pos[w] + 1
<1>1. /\ at[w] = "writing" /\ pos' = [pos EXCEPT ![w] = n]
      /\ UNCHANGED <<sink, raw, at, upto, runs, table, acked, unheard>>
  BY DEF Pull
<1>2. n \in 1..Len(raw) /\ n <= upto[w] /\ n \in Record /\ n \in 0..MaxRecords /\ Len(raw) \in Nat
  BY Landed, SinksAssumption DEF Pull, Inv, TypeOK, RunsOK
<1>3. Key(n) \in Keys
  BY <1>2, Landed DEF Inv
<1>4. \/ /\ sink = "latest"
         /\ snap' = [snap EXCEPT ![Key(n)] = n]
         /\ author' = [author EXCEPT ![Key(n)] = w]
      \/ sink # "latest" /\ UNCHANGED <<snap, author>>
  BY DEF Pull, SetSnapshot
<1>5. \A i \in 1..n : i \in 1..pos[w] \/ i = n
  BY SinksAssumption DEF Inv, TypeOK
<1> HIDE DEF n
<1>6. TypeOK'
  BY <1>1, <1>2, <1>3, <1>4 DEF Inv, TypeOK
<1>7. RunsOK'
  BY <1>1, <1>2 DEF Inv, TypeOK, RunsOK
<1>8. SnapshotsOK'
  <2> SUFFICES ASSUME NEW k \in Keys, snap'[k] # NoRecord
               PROVE  /\ sink = "latest" /\ snap'[k] \in 1..Len(raw) /\ Key(snap'[k]) = k
                      /\ author'[k] \in Worker
                      /\ \A i \in 1..pos'[author'[k]] : Key(i) = k => i <= snap'[k]
    BY <1>1 DEF SnapshotsOK, Key
  <2>1. CASE sink = "latest" /\ k = Key(n)
    <3>1. snap'[k] = n /\ author'[k] = w /\ pos'[w] = n
      BY <1>1, <1>3, <1>4, <2>1 DEF Inv, TypeOK
    <3>2. \A i \in 1..n : i <= n
      BY <1>2
    <3> QED BY <1>2, <2>1, <3>1, <3>2
  <2>2. CASE sink = "latest" /\ k # Key(n)
    <3>1. snap'[k] = snap[k] /\ author'[k] = author[k]
      BY <1>3, <1>4, <2>2 DEF Inv, TypeOK
    <3>2. /\ snap[k] \in 1..Len(raw) /\ Key(snap[k]) = k /\ author[k] \in Worker
          /\ \A i \in 1..pos[author[k]] : Key(i) = k => i <= snap[k]
      BY <3>1 DEF Inv, SnapshotsOK
    <3>3. \A i \in 1..pos'[author[k]] : i \in 1..pos[author[k]] \/ i = n
      BY <1>1, <1>5, <3>2 DEF Inv, TypeOK
    <3> QED BY <2>2, <3>1, <3>2, <3>3
  <2>3. CASE sink # "latest"
    BY <1>4, <2>3 DEF Inv, SnapshotsOK
  <2> QED BY <2>1, <2>2, <2>3
<1> QED BY <1>1, <1>6, <1>7, <1>8, TableKeeps DEF Inv

\* Finish and FinishUnheard.
LEMMA EndOfRunKeeps ==
    ASSUME NEW w \in Worker, Inv, at[w] = "writing", pos[w] = upto[w],
           \/ at' = [at EXCEPT ![w] = "done"]
           \/ at' = [at EXCEPT ![w] = "failed"],
           UNCHANGED <<sink, raw, upto, pos, runs, snap, author>>,
           \/ sink = "latest" /\ UNCHANGED table
           \/ sink # "latest" /\ Load(upto[w]),
           \/ acked' = Bump(acked, upto[w]) /\ unheard' = unheard
           \/ unheard' = Bump(unheard, upto[w]) /\ acked' = acked
    PROVE  Inv'
<1>1. /\ acked' \in [Record -> Nat] /\ unheard' \in [Record -> Nat] /\ table' \in [Record -> Nat]
      /\ FutureOK' /\ LoadedOK' /\ AckedIsStored' /\ ReplayIsIdempotent'
  <2>1. CASE sink = "latest"
    <3>1. /\ Bump(acked, upto[w]) \in [Record -> Nat] /\ Bump(unheard, upto[w]) \in [Record -> Nat]
          /\ acked \in [Record -> Nat] /\ unheard \in [Record -> Nat]
      BY BumpAdds DEF Inv, TypeOK
    <3>2. \A i \in Record : i > Len(raw) => acked'[i] = acked[i] /\ unheard'[i] = unheard[i]
      <4>1. \A i \in Record : i > Len(raw) => ~(i <= upto[w])
        BY Landed, SinksAssumption DEF Inv, TypeOK, RunsOK, Record
      <4>2. \A i \in Record : i > Len(raw) => /\ Bump(acked, upto[w])[i] = acked[i]
                                             /\ Bump(unheard, upto[w])[i] = unheard[i]
        <5>1. \A i \in Record : Bump(acked, upto[w])[i] = IF i <= upto[w] THEN acked[i] + 1 ELSE acked[i]
          BY <3>1, BumpAdds
        <5>2. \A i \in Record : Bump(unheard, upto[w])[i] = IF i <= upto[w] THEN unheard[i] + 1 ELSE unheard[i]
          BY <3>1, BumpAdds
        <5> QED BY <4>1, <5>1, <5>2
      <4> QED BY <4>2
    <3> QED BY <2>1, <3>1, <3>2 DEF Inv, TypeOK, FutureOK, LoadedOK, AckedIsStored, ReplayIsIdempotent
  <2>2. CASE sink # "latest"
    BY <2>2, LoadKeeps
  <2> QED BY <2>1, <2>2
<1>2. TypeOK'
  BY <1>1 DEF Inv, TypeOK
<1>3. RunsOK'
  BY DEF Inv, TypeOK, RunsOK
<1>4. SnapshotsOK'
  BY DEF Inv, SnapshotsOK, Key
<1> QED BY <1>1, <1>2, <1>3, <1>4 DEF Inv

\* A run that fails leaves everything as it is.
LEMMA FailKeeps == ASSUME NEW w \in Worker, Inv, Fail(w) PROVE Inv'
<1>1. at' = [at EXCEPT ![w] = "failed"] /\ UNCHANGED <<sink, raw, upto, pos, runs, table, snap, author, acked, unheard>>
  BY DEF Fail, history
<1>2. TypeOK' /\ RunsOK'
  BY <1>1 DEF Inv, TypeOK, RunsOK
<1>3. SnapshotsOK'
  BY <1>1 DEF Inv, SnapshotsOK, Key
<1> QED BY <1>1, <1>2, <1>3, TableKeeps DEF Inv

\* A snapshot that expires needs no writer.
LEMMA ExpireKeeps == ASSUME NEW k \in Keys, Inv, Expire(k) PROVE Inv'
<1>1. snap' = [snap EXCEPT ![k] = NoRecord] /\ UNCHANGED <<sink, raw, at, upto, pos, runs, table, author, acked, unheard>>
  BY DEF Expire, run, history
<1>2. TypeOK' /\ RunsOK'
  BY <1>1 DEF Inv, TypeOK, RunsOK
<1>3. \A c \in Keys : snap'[c] = snap[c] \/ snap'[c] = NoRecord
  BY <1>1 DEF Inv, TypeOK
<1>4. SnapshotsOK'
  BY <1>1, <1>3 DEF Inv, SnapshotsOK, Key
<1> QED BY <1>1, <1>2, <1>4, TableKeeps DEF Inv

\* Every step keeps the invariant.
LEMMA NextKeeps == Inv /\ [Next]_vars => Inv'
<1> SUFFICES ASSUME Inv, [Next]_vars PROVE Inv'
  OBVIOUS
<1>1. CASE LandRaw
  BY <1>1, LandRawKeeps
<1>2. ASSUME NEW w \in Worker, Start(w) PROVE Inv'
  BY <1>2, StartKeeps
<1>3. ASSUME NEW w \in Worker, Pull(w) PROVE Inv'
  BY <1>3, PullKeeps
<1>4. ASSUME NEW w \in Worker, Finish(w) PROVE Inv'
  BY <1>4, EndOfRunKeeps DEF Finish
<1>5. ASSUME NEW w \in Worker, FinishUnheard(w) PROVE Inv'
  BY <1>5, EndOfRunKeeps DEF FinishUnheard
<1>6. ASSUME NEW w \in Worker, Fail(w) PROVE Inv'
  BY <1>6, FailKeeps
<1>7. ASSUME NEW k \in Keys, Expire(k) PROVE Inv'
  BY <1>7, ExpireKeeps
<1>8. CASE UNCHANGED vars
  <2>1. UNCHANGED <<sink, raw, at, upto, pos, runs, table, snap, author, acked, unheard>>
    BY <1>8 DEF vars, run, history
  <2>2. TypeOK' /\ RunsOK' /\ SnapshotsOK'
    BY <2>1 DEF Inv, TypeOK, RunsOK, SnapshotsOK, Key
  <2> QED BY <2>1, <2>2, TableKeeps DEF Inv
<1> QED BY <1>1, <1>2, <1>3, <1>4, <1>5, <1>6, <1>7, <1>8 DEF Next, Step

-----------------------------------------------------------------------------
(***************************************************************************)
(* The inductive invariant holds of every run of any number of workers.    *)
(***************************************************************************)
THEOREM SinksInvariant == Spec => []Inv
<1>1. Init => Inv
  BY InitInv
<1>2. Inv /\ [Next]_vars => Inv'
  BY NextKeeps
<1> QED BY <1>1, <1>2, PTL DEF Spec

(***************************************************************************)
(* What a run reported is in the table: once for each report, and at most  *)
(* once more for each load nobody heard of, or as a row of its id.         *)
(***************************************************************************)
THEOREM AckedStored == Spec => []AckedIsStored
<1>1. Inv => AckedIsStored
  BY DEF Inv
<1> QED BY <1>1, SinksInvariant, PTL

(***************************************************************************)
(* Replays into a merging sink leave one row at most of an id of which one *)
(* record was loaded, however often they are repeated, overlap, fail, or   *)
(* commit unheard.                                                         *)
(***************************************************************************)
THEOREM ReplayIdempotent == Spec => []ReplayIsIdempotent
<1>1. Inv => ReplayIsIdempotent
  BY DEF Inv
<1> QED BY <1>1, SinksInvariant, PTL

(***************************************************************************)
(* Entities with plain fields are never folded into another one, whatever  *)
(* fields the others have: neither their rows nor their snapshots.         *)
(***************************************************************************)
THEOREM NeverFolded == Spec => []NothingFolded
<1>1. Inv => NothingFolded
  <2> SUFFICES ASSUME Inv PROVE NothingFolded
    OBVIOUS
  <2>1. /\ DOMAIN raw = 1..Len(raw)
        /\ \A i \in DOMAIN raw : raw[i] \in Entity
        /\ Entity \subseteq Field \X Field
    BY Landed, SinksAssumption DEF Inv
  <2>2. ASSUME NEW i \in DOMAIN raw, sink = "merge", IsPlain(raw[i]), acked[i] > 0
        PROVE  \E j \in DOMAIN raw : raw[j] = raw[i] /\ table[j] > 0
    <3>1. PICK j \in DOMAIN raw : Id(j) = Id(i) /\ table[j] > 0
      BY <2>2 DEF Inv, AckedIsStored
    <3>2. raw[j] = raw[i]
      BY <2>1, <2>2, <3>1, PlainApart DEF Id
    <3> QED BY <3>1, <3>2
  <2>3. ASSUME NEW e \in Entity, IsPlain(e), snap[KeyOf(e)] # NoRecord
        PROVE  raw[snap[KeyOf(e)]] = e
    <3>1. KeyOf(e) \in Keys
      BY DEF Keys
    <3>2. snap[KeyOf(e)] \in DOMAIN raw /\ KeyOf(raw[snap[KeyOf(e)]]) = KeyOf(e)
      BY <2>1, <2>3, <3>1 DEF Inv, SnapshotsOK, Key
    <3> QED BY <2>1, <2>3, <3>2, PlainApart
  <2> QED BY <2>2, <2>3 DEF NothingFolded
<1> QED BY <1>1, SinksInvariant, PTL

(***************************************************************************)
(* A run that ended well leaves no snapshot of its own behind that is      *)
(* older than another of its records of the key.                           *)
(***************************************************************************)
THEOREM FinishedNewest == Spec => []FinishedIsNewest
<1>1. Inv => FinishedIsNewest
  BY DEF Inv, RunsOK, SnapshotsOK, FinishedIsNewest
<1> QED BY <1>1, SinksInvariant, PTL
=============================================================================
