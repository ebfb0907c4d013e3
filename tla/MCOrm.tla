------------------------------- MODULE MCOrm --------------------------------
(* Small instances of Orm for TLC; the writes are interchangeable, and so  *)
(* are the transaction objects.                                            *)
EXTENDS Orm, TLC

Symmetric == Permutations(Rows) \cup Permutations(Objects)
=============================================================================
