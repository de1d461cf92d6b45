------------------------------ MODULE Replica ------------------------------
(***************************************************************************)
(* What the replication of one table promises to whoever reads the         *)
(* ClickHouse view, without workers, snapshots or crashes:                 *)
(*                                                                         *)
(*   - before the first cut-over nothing is promised;                      *)
(*   - from then on the view has every change up to a version, upto, of    *)
(*     the source's, and upto never goes back;                             *)
(*   - no row is replaced by an older content of it.                       *)
(*                                                                         *)
(* The view is ahead of upto wherever changes are applied but not promised *)
(* yet.  TableSync implements this (TableSyncReplica).                     *)
(***************************************************************************)
EXTENDS Naturals

CONSTANT Keys

VARIABLES
    version,    \* the source's commit counter
    source,     \* key -> [ver: commit that last changed it, live: it exists]
    view,       \* key -> [val: ver of the content shown, live: shown at all]
    published,  \* a snapshot has been cut over
    upto        \* the version promised, across crashes too

replicaVars == <<version, source, view, published, upto>>

\* The view shows key k as the source has it.
Shows(k) ==
    /\ view[k].live = source[k].live
    /\ source[k].live => view[k].val = source[k].ver

\* Every change up to version v is in the view.
Whole(v) == \A k \in Keys : source[k].ver <= v => Shows(k)

\* No row shown is shown older in the next state.
Onward == \A k \in Keys :
    view[k].live /\ view'[k].live => view'[k].val >= view[k].val

Init ==
    /\ version = 0
    /\ source \in [Keys -> {[ver |-> 0, live |-> b] : b \in BOOLEAN}]
    /\ \A k \in Keys : ~view[k].live
    /\ published = FALSE
    /\ upto = 0

\* The source commits; the view does not follow by itself.
Commit(k) ==
    /\ version' = version + 1
    /\ \E b \in BOOLEAN : source' = [source EXCEPT ![k] = [ver |-> version + 1, live |-> b]]
    /\ UNCHANGED <<view, published, upto>>

\* Changes reach the view, before they are promised.
Apply ==
    /\ published
    /\ Onward /\ Whole(upto)'
    /\ UNCHANGED <<version, source, published, upto>>

\* A snapshot replaces the whole view at once.
CutOver ==
    /\ published' = TRUE
    /\ upto' \in upto..version
    /\ Onward /\ Whole(upto)'
    /\ UNCHANGED <<version, source>>

\* What the view already has is promised.
Promise ==
    /\ upto' \in (upto + 1)..version
    /\ published => Whole(upto)'
    /\ UNCHANGED <<version, source, view, published>>

Next == (\E k \in Keys : Commit(k)) \/ Apply \/ CutOver \/ Promise

Spec == Init /\ [][Next]_replicaVars

-----------------------------------------------------------------------------

\* What is promised is there, however the source goes on.
Kept == published => Whole(upto)

\* A promise is never taken back, and a table once published stays so.
NeverTakenBack ==
    [][upto' >= upto /\ (published => published')]_<<upto, published>>
=============================================================================
