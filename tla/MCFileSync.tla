------------------------------ MODULE MCFileSync ------------------------------
(* A small instance of FileSync: two contents that share a chunk. *)
EXTENDS FileSync

Chunks == [c \in {"a", "b"} |-> IF c = "a" THEN {1, 2} ELSE {1, 3}]
=============================================================================
