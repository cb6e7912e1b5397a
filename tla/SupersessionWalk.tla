--------------------------- MODULE SupersessionWalk ---------------------------
(***************************************************************************)
(* detect_supersession_cycles (src/src/storage/state.rs): a bounded walk   *)
(* along superseded_by from every record.  MemoryRelations states its      *)
(* verdict as Acyclic; here is the walk itself, as a function of the turns *)
(* that are left, and the comparison of the two.                           *)
(***************************************************************************)
EXTENDS MemoryRelations, FiniteSets

\* An id is "mem_" and 32 hexadecimal digits.
ASSUME IdIsFinite == IsFiniteSet(Id)

\* A deliberately wrong variant: a walk one turn short.
TurnsShort(r) == Cardinality(DOMAIN r) - 1

\* The turns of "for _ in 0..self.records.len()".
Turns(r) == Cardinality(DOMAIN r)

\* Does the walk that began at start and is at x come back to start in n more
\* turns?  A record without a successor ends it, and so does a missing one.
Returns(r, start) ==
    LET walk[n \in 0..Turns(r)] ==
            [x \in DOMAIN r |->
                /\ n > 0 /\ r[x].by # NoId
                /\ \/ r[x].by = start
                   \/ r[x].by \in DOMAIN r /\ walk[n - 1][r[x].by]]
    IN walk[Turns(r)][start]

detect_supersession_cycles(r) == \E start \in DOMAIN r : Returns(r, start)

-----------------------------------------------------------------------------
\* The records with one successor set as a faulty operation might have set it.
Relinked(r) == {[r EXCEPT ![x].by = y] : x, y \in DOMAIN r}

WalkDecides(r) == detect_supersession_cycles(r) <=> ~Acyclic(r)
=============================================================================
