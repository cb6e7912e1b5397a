------------------------- MODULE EmbeddingGeneration -------------------------
(***************************************************************************)
(* What a switch of the embedding model promises to the users of a project *)
(* (ModelSwitch.tla shows that the code keeps it): one generation answers  *)
(* at any time, it changes in one instant and only while a switch runs,    *)
(* the memories it answers with are the same before and after, and nothing *)
(* else changes them while a switch runs.  The promise ends when a user    *)
(* has the generation that answers switched to itself.                     *)
(***************************************************************************)
CONSTANTS Generations,   \* the collections a project may have
          Contents       \* what a collection may hold

VARIABLES active,        \* the generation that answers
          view,          \* what it answers with
          frozen,        \* a switch runs
          void           \* nothing is promised any more

vars == <<active, view, frozen, void>>

Init == active \in Generations /\ view \in Contents /\ frozen \in BOOLEAN /\ void = FALSE

Begin == ~frozen /\ frozen' = TRUE /\ UNCHANGED <<active, view>>

Mutate == ~frozen /\ view' \in Contents /\ frozen' \in BOOLEAN /\ UNCHANGED active

Cutover ==
    /\ frozen
    /\ active' \in Generations \ {active}
    /\ frozen' \in BOOLEAN
    /\ UNCHANGED view

End == frozen /\ frozen' = FALSE /\ UNCHANGED <<active, view>>

Misuse == void' = TRUE

Next == Misuse \/ (UNCHANGED void /\ (Begin \/ Mutate \/ Cutover \/ End))

Spec == Init /\ [][Next]_vars
==============================================================================
