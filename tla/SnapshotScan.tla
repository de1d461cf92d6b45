---------------------------- MODULE SnapshotScan ----------------------------
(***************************************************************************)
(* How a snapshot divides a table and reads a part: the arithmetic of      *)
(* plan_partitions, the WHERE clauses of snapshot_query and the keyset     *)
(* predicate a resumed part starts from, after a checkpoint that went      *)
(* through encode_key and decode_key.  TableSync takes for granted that a  *)
(* plan sends every key to one part, in key order, and that a part is read *)
(* in key order from where it stopped; this module shows both, and for     *)
(* which keys the second holds.                                            *)
(***************************************************************************)
EXTENDS Integers, Sequences, FiniteSets

CONSTANTS
    KeySpaces,   \* per table: its possible primary keys, of one or two columns
    MaxParts,    \* values of snapshot_partitions
    MinRows,     \* values of min_rows_per_partition
    RowCounts,   \* the approximate row counts the source may give
    Codecs,      \* per key column, in units of the column, what Python keeps:
                 \* multiples of grain, after up is added
    BatchSize,
    MaxResumes   \* bound on the times a part goes back

ASSUME ScanAssumption ==
    /\ \A S \in KeySpaces :
          IsFiniteSet(S) /\ (S \subseteq [1..1 -> Int] \/ S \subseteq [1..2 -> Int])
    /\ MaxParts \subseteq Nat \ {0} /\ MinRows \subseteq Nat /\ RowCounts \subseteq Nat
    /\ Codecs \subseteq [1..2 -> [grain : Nat \ {0}, up : Nat]]
    /\ \A c \in Codecs : \A i \in 1..2 : c[i].up < c[i].grain
    /\ BatchSize \in Nat \ {0} /\ MaxResumes \in Nat

VARIABLES
    space,   \* the table's possible primary keys, sequences of column values
    codec,   \* how Python holds their columns
    rows,    \* the keys that are there
    parts,   \* the planned ranges, empty before the plan
    after,   \* part -> the key of its checkpoint, <<>> for none
    cursor,  \* part -> the last key its query returned, or where it starts
    done,    \* the parts that are done
    again,   \* part -> how often it went back to its checkpoint
    copies   \* key -> how often it was inserted

vars == <<space, codec, rows, parts, after, cursor, done, again, copies>>

\* The first columns of the keys.
Firsts == {k[1] : k \in space}

-----------------------------------------------------------------------------
(* plan_partitions.  A bound is a set, empty for None.                     *)

Larger(a, b) == IF a > b THEN a ELSE b
Smaller(a, b) == IF a < b THEN a ELSE b

\* How many parts lo..hi is split into.
PartCount(lo, hi, approx, max, min) ==
    Larger(1, Smaller(max, Smaller(approx \div Larger(1, min), hi - lo + 1)))

\* The bound between part i and part i + 1.
Bound(lo, hi, n, i) == lo + ((hi - lo + 1) * i) \div n

Partitions(lo, hi, n) ==
    [i \in 1..n |-> [from |-> IF i = 1 THEN {} ELSE {Bound(lo, hi, n, i - 1)},
                     to   |-> IF i = n THEN {} ELSE {Bound(lo, hi, n, i)}]]

\* A mutated form: the upper bound is inclusive.
InPartInclusive(x, part) ==
    /\ \A b \in part.from : x >= b
    /\ \A b \in part.to : x <= b

\* The range conditions of snapshot_query.
InPart(x, part) ==
    /\ \A b \in part.from : x >= b
    /\ \A b \in part.to : x < b

-----------------------------------------------------------------------------
(* Reading a part.                                                         *)

\* The order of ORDER BY on one or two columns.
Precedes(k, l) ==
    \/ k[1] < l[1]
    \/ 2 \in DOMAIN k /\ k[1] = l[1] /\ k[2] < l[2]

\* A mutated form: every column above its own, without the equal prefixes.
KeysetAfterEveryColumn(k, last) == \A i \in DOMAIN last : k[i] > last[i]

\* keyset_predicate: equal up to a column and above in it.
KeysetAfter(k, last) ==
    \E i \in DOMAIN last : k[i] > last[i] /\ \A j \in 1..(i - 1) : k[j] = last[j]

\* The rows the query of part i has yet to return.
Pending(i) == {k \in rows : InPart(k[1], parts[i])
                            /\ (cursor[i] # <<>> => KeysetAfter(k, cursor[i]))}

\* What ORDER BY puts first, a batch of it.
FirstBatch(S) == {B \in SUBSET S :
    /\ Cardinality(B) = Smaller(BatchSize, Cardinality(S))
    /\ \A b \in B, s \in S \ B : Precedes(b, s)}

\* Keys of one table are ordered, so any of them have a last one.
ASSUME LastAssumption == \A S \in KeySpaces : \A B \in (SUBSET S) \ {{}} :
    \E b \in B : \A c \in B : c = b \/ Precedes(c, b)

Last(B) == CHOOSE b \in B : \A c \in B : c = b \/ Precedes(c, b)

\* A mutated form: the value is rounded up.
StoredRounded(k) == [i \in DOMAIN k |->
    ((k[i] + codec[i].grain - 1) \div codec[i].grain) * codec[i].grain]

\* A key as decode_key returns it.  Most types are exact (grain 1).  Python's
\* datetime ends at microseconds: a datetime2(7) has lost its last digit (grain
\* 10, up 0, in its units).  A datetime, in ticks of 1/300 s, comes rounded to
\* milliseconds: in thirds of one its values are the multiples of 10, and
\* Python has the nearest multiple of 3 (grain 3, up 1).
Stored(k) == [i \in DOMAIN k |->
    ((k[i] + codec[i].up) \div codec[i].grain) * codec[i].grain]

\* A mutated form: the checkpoint holds the first key column only.
CheckpointOfFirstColumn(k) == [i \in DOMAIN k \cap {1} |-> Stored(k)[i]]

\* The checkpoint holds every key column of the last row flushed.
Checkpoint(k) == Stored(k)

-----------------------------------------------------------------------------

\* Values of a column lie further apart than they are rounded up.
Spaced == \A k, l \in space : \A i \in DOMAIN k : k[i] > l[i] => k[i] > l[i] + codec[i].up

Init ==
    /\ space \in KeySpaces
    /\ codec \in Codecs /\ Spaced
    /\ rows \in SUBSET space
    /\ parts = <<>>
    /\ after = <<>> /\ cursor = <<>>
    /\ done = {}
    /\ again = <<>>
    /\ copies = [k \in space |-> 0]

\* Only a table with one integer key column is split.
PlanSnapshot ==
    /\ parts = <<>>
    /\ \/ /\ codec[1].grain = 1 /\ \E k \in rows : Len(k) = 1
          /\ \E lo, hi \in rows : \E approx \in RowCounts : \E max \in MaxParts : \E min \in MinRows :
                /\ \A k \in rows : lo[1] <= k[1] /\ k[1] <= hi[1]
                /\ parts' = Partitions(lo[1], hi[1], PartCount(lo[1], hi[1], approx, max, min))
       \/ parts' = <<[from |-> {}, to |-> {}]>>
    /\ after' = [i \in DOMAIN parts' |-> <<>>] /\ cursor' = after'
    /\ again' = [i \in DOMAIN parts' |-> 0]
    /\ UNCHANGED <<space, codec, rows, done, copies>>

\* Between the plan and the first read rows come and go, also beyond the
\* MIN and MAX the plan saw.
RowsChange ==
    /\ parts # <<>>
    /\ \A k \in space : copies[k] = 0
    /\ done = {}
    /\ rows' \in SUBSET space
    /\ UNCHANGED <<space, codec, parts, after, cursor, done, again, copies>>

\* The checkpoint of part i is that of the last batch flushed.
Saved(i) == after[i] = Checkpoint(cursor[i])

\* The next batch of part i is flushed to ClickHouse.
Flush(i) ==
    /\ i \notin done /\ Saved(i)
    /\ Pending(i) # {}
    /\ \E B \in FirstBatch(Pending(i)) :
          /\ copies' = [k \in space |-> IF k \in B THEN copies[k] + 1 ELSE copies[k]]
          /\ cursor' = [cursor EXCEPT ![i] = Last(B)]
    /\ UNCHANGED <<space, codec, rows, parts, after, done, again>>

\* save_progress with the last key of that batch.
SaveProgress(i) ==
    /\ i \notin done /\ ~Saved(i)
    /\ after' = [after EXCEPT ![i] = Checkpoint(cursor[i])]
    /\ UNCHANGED <<space, codec, rows, parts, cursor, done, again, copies>>

\* A part that was stopped, or failed, also between a flush and its
\* save_progress, is run again: its query starts after the checkpoint.  Where
\* that is where it was nothing happens.
Resume(i) ==
    /\ i \notin done
    /\ cursor[i] # after[i]
    /\ again[i] < MaxResumes
    /\ cursor' = [cursor EXCEPT ![i] = after[i]]
    /\ again' = [again EXCEPT ![i] = @ + 1]
    /\ UNCHANGED <<space, codec, rows, parts, after, done, copies>>

\* Nothing is left to read in part i: the last save_progress also marks it
\* done.  The last batch, with a full one, may have been saved before.
PartDone(i) ==
    /\ i \notin done
    /\ Pending(i) = {}
    /\ after' = [after EXCEPT ![i] = Checkpoint(cursor[i])]
    /\ done' = done \cup {i}
    /\ UNCHANGED <<space, codec, rows, parts, cursor, again, copies>>

AllDone == parts # <<>> /\ done = DOMAIN parts

Next ==
    \/ PlanSnapshot \/ RowsChange
    \/ \E i \in DOMAIN parts : Flush(i) \/ SaveProgress(i) \/ Resume(i) \/ PartDone(i)
    \/ AllDone /\ UNCHANGED vars

Spec == Init /\ [][Next]_vars

-----------------------------------------------------------------------------
(* Properties.                                                             *)

\* Ranges, checkpoints and counts have their types; a checkpoint has a value
\* for every key column.
TypeOK ==
    /\ space \in KeySpaces /\ codec \in Codecs /\ rows \subseteq space
    /\ DOMAIN after = DOMAIN parts /\ done \subseteq DOMAIN parts
    /\ \A i \in DOMAIN parts :
          /\ cursor[i] \in space \cup {<<>>, after[i]}
          /\ after[i] = <<>> \/ \E k \in space : after[i] = Stored(k)
    /\ again \in [DOMAIN parts -> 0..MaxResumes]
    /\ copies \in [space -> Nat]

\* Every key, also one beyond the MIN and MAX of the plan, belongs to exactly
\* one part, and a larger key to no earlier part.
OnePart == parts # <<>> => \A x \in Firsts :
    \E i \in DOMAIN parts :
       /\ \A j \in DOMAIN parts : InPart(x, parts[j]) <=> j = i
       /\ \A y \in Firsts, j \in DOMAIN parts : y >= x /\ InPart(y, parts[j]) => j >= i

Exact == \A i \in DOMAIN codec : codec[i].grain = 1

\* The first column of a composite key does not come rounded up: else a
\* checkpoint lies behind rows of the same first value yet to be read.
Resumable == (\E k \in space : 2 \in DOMAIN k) => codec[1].up = 0

\* However parts are interleaved and wherever they are stopped or fail, when
\* all are done every row has been inserted, where the keys can be resumed
\* after; a row is inserted again at most once each time its part goes back;
\* and what a checkpoint covers is not read again if Python holds keys exactly.
ReadInFull ==
    /\ AllDone /\ Resumable => \A k \in rows : copies[k] >= 1
    /\ \A i \in DOMAIN parts : \A k \in space :
          InPart(k[1], parts[i]) => copies[k] <= 1 + again[i]
    /\ Exact => \A i \in DOMAIN parts : \A k \in Pending(i) :
          after[i] # <<>> => KeysetAfter(k, after[i])
=============================================================================
