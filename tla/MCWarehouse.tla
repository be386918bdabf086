---------------------------- MODULE MCWarehouse ----------------------------
(* Builders of the kinds the configuration names, two tables, one query. *)
EXTENDS Warehouse, TLC

CONSTANTS b1, b2, r1, f1, f2, f3, f4

MCBuilder == {b1, b2}
MCReader == {r1}
MCTable == {"team_box_stats", "standings"}
MCFile == {f1, f2, f3, f4}
OneFull == b1 :> {"full"} @@ b2 :> {"partial"}
TwoFull == b1 :> {"full"} @@ b2 :> {"full"}
Symmetry == Permutations(MCFile)
\* without what the next Connect or BeginBuild overwrites before anyone reads it
View == << tree, db, building, pc, open, reading, cut \ Fresh,
           [f \in File |-> IF f \in Fresh THEN << >> ELSE << held[f], raw[f] >>],
           [b \in Builder |-> IF pc[b] = "idle" THEN << >> ELSE << kind[b], todo[b] >>] >>
=============================================================================
