--------------------------- MODULE MCBtreeWbCache ---------------------------
EXTENDS BtreeWbCache

CONSTANTS n1, n2, n3

MCNodes == {n1, n2, n3}
(* n1 is written after n2 and after n3, as a parent after its children. *)
MCDeps == {<<n1, n2>>, <<n1, n3>>}
MCBufs == 1..6
====
