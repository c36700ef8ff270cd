---------------------------- MODULE MCAmiePipeline ----------------------------
(***************************************************************************)
(* Small instances of AmiePipeline.  MaxAttempts is the code's 3; the batch*)
(* limit is 1 or 2 so that packets do queue behind each other.             *)
(***************************************************************************)
EXTENDS AmiePipeline, TLC

CONSTANTS p1, p2, i1
=============================================================================
