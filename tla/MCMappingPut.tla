---------------------------- MODULE MCMappingPut ----------------------------
(* Model-checking instance of MappingPut: a volume of four LBAs and four   *)
(* requests, enough for a put that covers a gap, splits an entry at both   *)
(* ends and overlaps two entries.                                          *)
EXTENDS MappingPut

MCSeqs == 1 .. 4
=============================================================================
