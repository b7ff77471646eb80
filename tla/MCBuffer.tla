------------------------------ MODULE MCBuffer ------------------------------
(***************************************************************************)
(* A byte has two values, CR and LF, and a buffer starts with room for two  *)
(* bytes behind two of headroom.                                            *)
(***************************************************************************)
EXTENDS Buffer

MCChunk == UNION {[1..n -> Byte] : n \in 0..3}
=============================================================================
