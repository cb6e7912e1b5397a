--------------------------- MODULE MCMemoryJournal ---------------------------
(* Small instances of MemoryJournal. *)
EXTENDS MemoryJournal

Plain(b, s, c) == [by |-> b, sup |-> s, conf |-> c, locked |-> FALSE]

Item(v, b, s, c) ==
    [ver |-> v, meta |-> Plain(b, s, c), pred |-> s, revive |-> FALSE]

CONSTANT va

\* Memories 1 and 3 have the same text (they differ in scope or taxonomy).
Fingerprint == [i \in Id |-> 10 + (i % 2)]

\* What memory_export writes: every relation in both directions.
Chain == [memories |-> [x \in {1, 2} |-> IF x = 1 THEN Item(va, 2, {}, {})
                                        ELSE Item(va, NoId, {1}, {})],
          order |-> [x \in {1, 2} |-> 3 - x], tombstones |-> {}]

Pair == [memories |-> [x \in {1, 2} |-> Item(va, NoId, {}, {3 - x})],
         order |-> [x \in {1, 2} |-> x], tombstones |-> {10}]

ExportedSnapshots == {Chain, Pair}
=============================================================================
