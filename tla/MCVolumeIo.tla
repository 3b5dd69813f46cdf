----------------------------- MODULE MCVolumeIo -----------------------------
(* One write of up to two children and one read of up to one.            *)
EXTENDS VolumeIo

CONSTANTS w, r

MCReqs == {w, r}
MCIsRead == [q \in MCReqs |-> q = r]
MCKidsOf == [q \in MCReqs |-> IF q = r THEN 1 ELSE 2]

=============================================================================
