------------------------------ MODULE MCReader ------------------------------
(***************************************************************************)
(* An instance of S3Reader for TLC: one AwsS3Fs whose owner sets, changes  *)
(* and reads, with integers of three bits.                                 *)
(***************************************************************************)
EXTENDS S3Reader

NoneOrEu == {None, "eu-west-1"}
=============================================================================
