-------------------------- MODULE MCEntityPipeline --------------------------
(* TLC instance of EntityPipeline. *)
EXTENDS EntityPipeline

MCOwnRefs == {1, 2, 10}
=============================================================================
