--------------------------- MODULE MCVdevBlockIo ---------------------------
EXTENDS VdevBlockIo, TLC

(* Two pdevs. vdev 0 is mirrored (primary on pdev 0, mirror on pdev 1),   *)
(* vdev 1 is not (primary on pdev 1), vdev 2 was freed: its slot on pdev  *)
(* 0 was removed and keeps its stale ids.  Each pdev also holds a chunk   *)
(* with no vdev (the superblock chunk and a free chunk).                  *)
MCChunkTab ==
  <<[alloc |-> TRUE,  pdev |-> 0, vdev |-> InvalidVdev, prim |-> TRUE],
    [alloc |-> TRUE,  pdev |-> 0, vdev |-> 0, prim |-> TRUE],
    [alloc |-> TRUE,  pdev |-> 1, vdev |-> 0, prim |-> FALSE],
    [alloc |-> TRUE,  pdev |-> 1, vdev |-> 1, prim |-> TRUE],
    [alloc |-> TRUE,  pdev |-> 1, vdev |-> InvalidVdev, prim |-> TRUE],
    [alloc |-> FALSE, pdev |-> 0, vdev |-> 2, prim |-> TRUE]>>

\* A readv on the mirrored vdev and a write, a pwritev and a read on the other.
MCKind == (1 :> "readv") @@ (2 :> "write") @@ (3 :> "pwritev") @@ (4 :> "read")
MCVdevOf == (1 :> 0) @@ (2 :> 1) @@ (3 :> 1) @@ (4 :> 1)
MCMirrors == (0 :> 1) @@ (1 :> 0) @@ (2 :> 0)
=============================================================================
