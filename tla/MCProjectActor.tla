---------------------------- MODULE MCProjectActor ----------------------------
(* Small instances of ProjectActor. *)
EXTENDS ProjectActor, TLC

\* Sessions and calls are interchangeable.
Renamings == Permutations(Session) \cup Permutations(Call)
=============================================================================
