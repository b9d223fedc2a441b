--------------------------- MODULE PromptService ---------------------------
(***************************************************************************)
(* What a session promises to the clients that send it prompts.  A prompt  *)
(* waits, runs and is answered; the turns of two prompts do not overlap;   *)
(* only a prompt that waits can be withdrawn, and only one that runs can   *)
(* be stopped, unless the session is torn down; what is being stopped is   *)
(* answered as stopped, even if its turn ends meanwhile; and an answer is  *)
(* final.                                                                  *)
(***************************************************************************)
CONSTANTS
    Prompts,    \* the prompts of all clients
    Teardown    \* whether a stop may take the prompts that wait as well

VARIABLE
    status      \* where each prompt stands

Statuses == {"new", "waiting", "running", "stopping", "done", "cancelled", "rewound", "removed"}

ServiceTypeOK == status \in [Prompts -> Statuses]

ServiceInit == status = [p \in Prompts |-> "new"]

At(s) == {p \in Prompts : status[p] = s}

Become(S, s) == status' = [p \in Prompts |-> IF p \in S THEN s ELSE status[p]]

Submit(p) ==
    /\ status[p] = "new"
    /\ Become({p}, "waiting")

\* One turn at a time; a prompt that is being stopped has no turn any more.
Start(p) ==
    /\ status[p] = "waiting"
    /\ At("running") = {}
    /\ Become({p}, "running")

Finish(p) ==
    /\ status[p] = "running"
    /\ Become({p}, "done")

\* One stop at a time.
Stop(S) ==
    /\ S # {}
    /\ At("stopping") = {}
    /\ S \subseteq At("running") \cup IF Teardown THEN At("waiting") ELSE {}
    /\ Become(S, "stopping")

Answer(a) ==
    /\ At("stopping") # {}
    /\ Become(At("stopping"), a)

Withdraw(S) ==
    /\ S # {}
    /\ S \subseteq At("waiting")
    /\ Become(S, "removed")

ServiceNext ==
    \/ \E p \in Prompts : Submit(p) \/ Start(p) \/ Finish(p)
    \/ \E S \in SUBSET Prompts : Stop(S) \/ Withdraw(S)
    \/ \E a \in {"cancelled", "rewound"} : Answer(a)

ServiceSpec == ServiceInit /\ [][ServiceNext]_status
=============================================================================
