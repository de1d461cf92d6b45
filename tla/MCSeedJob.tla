------------------------------ MODULE MCSeedJob ------------------------------
(* SeedJob for TLC: Orders, Products, and OrderItems that point into both,   *)
(* as PARENTS lists them.                                                    *)
EXTENDS SeedJob

ItemParents == <<{}, {}, {1, 2}>>

\* Everything at once with a table of two batches; parents only; items only;
\* items without new products.
Plans == {<<1, 1, 2>>, <<2, 0, 0>>, <<0, 0, 1>>, <<1, 0, 1>>}
=============================================================================
