--------------------------- MODULE MCParaStorage ----------------------------
(* Two callers and three changes; some of the values the store can see have the *)
(* checksum 0.                                                              *)
EXTENDS ParaStorage

MCZeroSums == {[sys |-> 1, user |-> 2], [sys |-> 0, user |-> 2], [sys |-> 1, user |-> 0]}
=============================================================================
