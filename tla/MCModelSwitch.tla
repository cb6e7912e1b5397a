---- MODULE MCModelSwitch ----
(* The first generation and one of another model. *)
EXTENDS ModelSwitch, TLC
CONSTANTS g1
MCProfileOf == Legacy :> "p" @@ g1 :> "q"
====
