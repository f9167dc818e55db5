---------------------------- MODULE MCDirentRecords ----------------------------
(***************************************************************************)
(* Three names of different lengths in a directory that has room for all of *)
(* them in some orders only, in blocks that records straddle.               *)
(***************************************************************************)
EXTENDS DirentRecords, TLC

MCLength == "a" :> 1 @@ "b" :> 2 @@ "c" :> 3

================================================================================
