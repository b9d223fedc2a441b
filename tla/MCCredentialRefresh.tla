------------------------ MODULE MCCredentialRefresh ------------------------
(* The processes, each with the three callers that take the lock. *)
EXTENDS CredentialRefresh, TLC

MCTask == [p \in Procs |-> <<p, "task">>]
MCFlow == [p \in Procs |-> <<p, "flow">>]
MCEnrich == [p \in Procs |-> <<p, "enrich">>]
MCCallers == Procs \X {"task", "flow", "enrich"}

\* Processes are interchangeable.
Symmetry == Permutations(Procs)
=============================================================================
