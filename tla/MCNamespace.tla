------------------------------ MODULE MCNamespace ------------------------------
(***************************************************************************)
(* Namespace for model checking: names are interchangeable.                *)
(***************************************************************************)
EXTENDS Namespace, TLC

MCSymmetry == Permutations(Name)

================================================================================
