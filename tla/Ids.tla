--------------------------------- MODULE Ids ---------------------------------
(***************************************************************************)
(* How a record's identifying fields become one key: deterministic_id      *)
(* (storage/ids.py) for rows, the joined key_fields of the Redis sink      *)
(* (storage/redis_cache.py) for snapshots.  A field is None or a string,   *)
(* that is a sequence of characters; two fields identify a record.         *)
(*                                                                         *)
(* SHA-256 is taken to be injective, so an id is the text it is made from. *)
(***************************************************************************)
EXTENDS Integers, Sequences

CONSTANTS
    Char,   \* characters
    Sep,    \* the separator: "\x1f" in ids, ":" in Redis keys
    None,   \* Python's None
    Word    \* the string "None"

String == Seq(Char)

Field == String \cup {None}

ASSUME CharAssumption == Sep \in Char /\ None \notin String /\ Word \in String

\* Mutant of Joined: the parts are put together without a separator.
JoinedBare(s, t) == s \o t

\* _SEP.join, ":".join
Joined(s, t) == s \o <<Sep>> \o t

\* "" if part is None else str(part)
PartText(f) == IF f = None THEN <<>> ELSE f

deterministic_id(f, g) == Joined(PartText(f), PartText(g))

\* str(record[field])
FieldText(f) == IF f = None THEN Word ELSE f

SnapshotKey(f, g) == Joined(FieldText(f), FieldText(g))

\* Fields nothing is mistaken for: text without the separator that None does
\* not turn into.
Plain(f) ==
    /\ f \in String /\ f # <<>> /\ f # Word
    /\ \A i \in DOMAIN f : f[i] # Sep
=============================================================================
