---------------------------- MODULE MCListPages ----------------------------
(* ListPages with two rows and a few requests.                             *)
EXTENDS ListPages, TLC

AllKinds == {"candidate", "vacancy", "competency", "user"}

Symmetric == Permutations(Id) \cup Permutations(Text)

=============================================================================
