----------------------------- MODULE MCSession -----------------------------
(***************************************************************************)
(* An instance of S3Session for TLC: an owner that changes any settings,   *)
(* connects, gives up and disconnects.                                     *)
(***************************************************************************)
EXTENDS S3Session

NoneOrEu == {None, "eu-west-1"}
=============================================================================
