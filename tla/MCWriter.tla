------------------------------ MODULE MCWriter ------------------------------
(***************************************************************************)
(* Instances of S3Writer for TLC: streams and upload ids are               *)
(* interchangeable model values.                                           *)
(***************************************************************************)
EXTENDS S3WriterInv, TLC

Symmetry == Permutations(Writers) \cup Permutations(UploadId)
=============================================================================
