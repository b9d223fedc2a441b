---------------------------- MODULE PromptQueue ----------------------------
(***************************************************************************)
(* The algorithms on a session's prompt queue (`State::pending_inputs`):   *)
(* where a send-now prompt lands, what a sweep keeps, how a client's       *)
(* reorder is applied and which rows are broadcast to the clients.         *)
(*                                                                         *)
(* A queue is a sequence of prompt ids, front first.  `run` is the id of   *)
(* the prompt whose turn is in flight, or a value that is not an id.       *)
(***************************************************************************)
EXTENDS Naturals, Sequences, FiniteSets, SequencesExt, FiniteSetsExt

(* The ids in a queue. *)
Items(s) == {s[i] : i \in DOMAIN s}

(* No id sits in two slots of a queue. *)
Distinct(s) == \A i, j \in DOMAIN s : s[i] = s[j] => i = j

(* The k-th smallest element of a finite set of positions. *)
Nth(I, k) == CHOOSE i \in I : Cardinality({j \in I : j < i}) = k - 1

(* The positions of s that hold a member of K. *)
Positions(s, K) == {i \in DOMAIN s : s[i] \in K}

(* The subsequence of s made of the members of K: a `retain`.  It is      *)
(* written by rank and not with SelectSeq so that proofs can open it.     *)
Keep(s, K) ==
    LET I == Positions(s, K)
    IN  [k \in 1 .. Cardinality(I) |-> s[Nth(I, k)]]

(* State::sweep_pending_inputs: everything in D leaves, except the slot of *)
(* the turn in flight.                                                     *)
Sweep(s, run, D) == Keep(s, (Items(s) \ D) \cup {run})

(* Number of slots a front insertion must skip: the turn in flight keeps   *)
(* the front, because handle_completion pops it.                           *)
FrontSlot(s, run) == IF s # <<>> /\ s[1] = run THEN 1 ELSE 0

(* Faulty variant: a send-now prompt goes to the back. *)
SendNowSlot_Back(s, run, now) == Len(s)

(* insert_at for a send-now prompt: behind the turn in flight and behind   *)
(* the send-now prompts that already wait.                                 *)
SendNowSlot(s, run, now) ==
    Min({k \in FrontSlot(s, run) .. Len(s) : k = Len(s) \/ s[k + 1] \notin now})

(* VecDeque::insert(k, x). *)
InsertSlot(s, k, x) == InsertAt(s, k + 1, x)

(* VecDeque::remove of the row that holds x. *)
Drop(s, x) == Keep(s, Items(s) \ {x})

(* Faulty variant: a reorder that does not pin the items that are not rows. *)
Reorder_Unpinned(s, rows, order) ==
    Keep(order, Items(s) \cap rows) \o Keep(s, Items(s) \ (rows \cap Items(order)))

(* Faulty variant: a reorder that forgets the rows the client did not name. *)
Reorder_Partial(s, rows, order) ==
    Keep(s, Items(s) \ rows) \o Keep(order, Items(s) \cap rows)

(* handle_reorder_queue: what is not a waiting row stays in front, then    *)
(* the named rows in the requested order, then the other rows.             *)
Reorder(s, rows, order) ==
    Keep(s, Items(s) \ rows)
        \o Keep(order, Items(s) \cap rows)
        \o Keep(s, (Items(s) \cap rows) \ Items(order))

(* build_queue_wire: the waiting user rows, each with its edit version. *)
QueueWire(s, run, rows, version) ==
    LET shown == Keep(s, rows \ {run})
    IN  [k \in DOMAIN shown |-> <<shown[k], version[shown[k]]>>]
=============================================================================
