----------------------------- MODULE MCIndxWrite -----------------------------
EXTENDS IndxWrite

CONSTANTS A, B, C

(* LBAs 0..7 in three leaves; the request writes LBAs 2..5 with two       *)
(* blkids of two LBAs, and each blkid straddles a leaf boundary.          *)
MCLeaves == {A, B, C}
MCLeafOf == [l \in 0 .. 7 |-> IF l <= 2 THEN A ELSE IF l <= 4 THEN B ELSE C]
MCReqBlks == <<2, 2>>
MCFixesAll == BugFixes
====
