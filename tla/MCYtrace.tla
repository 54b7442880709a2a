------------------------------ MODULE MCYtrace ------------------------------
(***************************************************************************)
(* Small instances of Ytrace: two call sites of different levels, so that  *)
(* a set_* call names both or one of them.                                 *)
(***************************************************************************)
EXTENDS Ytrace

MCSelections == {Point} \cup {{p} : p \in Point}
=============================================================================
