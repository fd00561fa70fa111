---------------------------- MODULE MCSettlement ----------------------------
(* Instances of Settlement for TLC.  Requests are interchangeable, and so  *)
(* are users: neither is told apart by a property.                         *)
EXTENDS Settlement, TLC

Symmetry == Permutations(Handlers) \cup Permutations(Users)
=============================================================================
