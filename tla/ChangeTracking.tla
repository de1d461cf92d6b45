--------------------------- MODULE ChangeTracking ---------------------------
(***************************************************************************)
(* One SQL Server table with Change Tracking (CT), as ch-sync uses it:     *)
(* the commit counter CHANGE_TRACKING_CURRENT_VERSION(), the retention     *)
(* horizon CHANGE_TRACKING_MIN_VALID_VERSION() and, per primary key, the   *)
(* commit that last touched the row and whether the row exists now.        *)
(*                                                                         *)
(* A row's content is identified by the version of the commit that wrote   *)
(* it, so "the replica has the row as of its last change" is an equation   *)
(* between versions.  Keys are 1..NumKeys because the snapshot reads them  *)
(* in primary-key order.                                                   *)
(***************************************************************************)
EXTENDS Naturals

CONSTANTS
    NumKeys,      \* number of primary keys the table can hold
    MaxVersion,   \* bound on the commits the source makes
    MaxExpired    \* bound on the retention horizon

ASSUME SourceAssumption ==
    NumKeys \in Nat \ {0} /\ MaxVersion \in Nat /\ MaxExpired \in Nat

VARIABLES
    cur,       \* CHANGE_TRACKING_CURRENT_VERSION()
    minValid,  \* CHANGE_TRACKING_MIN_VALID_VERSION(table)
    row        \* key -> [ver: commit that last changed it, live: it exists]

sourceVars == <<cur, minValid, row>>

Keys == 1..NumKeys

SourceTypeOK ==
    /\ cur \in Nat
    /\ minValid \in Nat
    /\ row \in [Keys -> [ver : Nat, live : BOOLEAN]]

\* CT was just enabled: rows may already exist and carry no tracked change.
SourceInit ==
    /\ cur = 0
    /\ minValid = 0
    /\ row \in [Keys -> {[ver |-> 0, live |-> b] : b \in BOOLEAN}]

\* One transaction inserts, updates or deletes the row of key k.
Commit(k) ==
    /\ cur < MaxVersion
    /\ cur' = cur + 1
    /\ \E b \in BOOLEAN :
          /\ row[k].live \/ b
          /\ row' = [row EXCEPT ![k] = [ver |-> cur + 1, live |-> b]]
    /\ UNCHANGED minValid

\* CT auto-cleanup discards old change records and moves the horizon up.
Cleanup ==
    /\ \E m \in (minValid + 1)..cur : m <= MaxExpired /\ minValid' = m
    /\ UNCHANGED <<cur, row>>

\* The keys CHANGETABLE(CHANGES table, last) returns: those whose latest commit
\* is later than last (net changes: one entry per key), except the ones whose
\* record the cleanup has discarded.
Changed(last) == {k \in Keys : row[k].ver > last /\ row[k].ver > minValid}
=============================================================================
