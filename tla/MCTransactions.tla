---------------------------- MODULE MCTransactions -----------------------------
(***************************************************************************)
(* Two blocks of data, each of a file of its own or both of one file, on a  *)
(* volume with room for two more.                                           *)
(***************************************************************************)
EXTENDS Transactions, TLC

MCOneEach == 1 :> "a" @@ 2 :> "b"
MCOneFile == 1 :> "a" @@ 2 :> "a"

================================================================================
