--------------------------- MODULE MCSnapshotScan ---------------------------
(* SnapshotScan for TLC: keys below zero, splits that do not come out even,  *)
(* two-column keys, columns of which Python keeps every second value, and    *)
(* datetime columns, whose values are thirds of milliseconds.                *)
EXTENDS SnapshotScan

Ticks == {0, 10, 20}
Spaces == {[1..1 -> -2..3], [1..2 -> 0..2] \ {<<1, 1>>},
           [1..1 -> Ticks], [1..2 -> {0, 10, 20}] \ {<<10, 10>>}}

Whole == [grain |-> 1, up |-> 0]
Second == [grain |-> 2, up |-> 0]
Datetime == [grain |-> 3, up |-> 1]
Codings == {<<Whole, Whole>>, <<Second, Whole>>, <<Whole, Second>>,
            <<Datetime, Whole>>, <<Whole, Datetime>>}
=============================================================================
