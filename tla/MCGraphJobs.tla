---- MODULE MCGraphJobs ----
(* Every job extracts from every memory. *)
EXTENDS GraphJobs
AllSources == [j \in Jobs |-> Sources]
====
