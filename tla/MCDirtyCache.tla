----------------------------- MODULE MCDirtyCache ------------------------------
(***************************************************************************)
(* DirtyCache for model checking; all its constants are numbers.           *)
(***************************************************************************)
EXTENDS DirtyCache

================================================================================
