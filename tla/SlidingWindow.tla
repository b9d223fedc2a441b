--------------------------- MODULE SlidingWindow ---------------------------
(***************************************************************************)
(* The samples a circuit breaker decides on: a bounded queue of outcomes   *)
(* with a running count of the failures among them.  A sample carries its  *)
(* age and not its instant; `now` is the age of the clock reading an       *)
(* operation works with, 0 when it was taken in the same step.             *)
(***************************************************************************)
EXTENDS Integers, Sequences, FiniteSets, FiniteSetsExt

CONSTANTS MaxEntries,       \* MAX_WINDOW_ENTRIES
          WindowDuration    \* BreakerConfig::window_duration, in ticks

ASSUME WindowAssumption == MaxEntries \in Nat \ {0} /\ WindowDuration \in Nat

EmptyWindow == [entries |-> <<>>, failures |-> 0]

(* The failures of a sequence of samples, counted one by one. *)
FailuresIn(s) == Cardinality({i \in DOMAIN s : s[i].failed})

(* Faulty variant: the sample pushed out at the cap stays counted. *)
Push_Forget(w, failed, age) ==
    [entries  |-> Append(IF Len(w.entries) >= MaxEntries THEN Tail(w.entries)
                                                         ELSE w.entries,
                         [age |-> age, failed |-> failed]),
     failures |-> w.failures + (IF failed THEN 1 ELSE 0)]

(* SlidingWindow::push: at the cap the oldest sample makes room. *)
Push(w, failed, age) ==
    LET full == Len(w.entries) >= MaxEntries
    IN  [entries  |-> Append(IF full THEN Tail(w.entries) ELSE w.entries,
                             [age |-> age, failed |-> failed]),
         failures |-> w.failures
                        - (IF full /\ w.entries[1].failed THEN 1 ELSE 0)
                        + (IF failed THEN 1 ELSE 0)]

(* SlidingWindow::evict: drops samples from the front up to the first one  *)
(* that is not too old.                                                    *)
Evict(w, now) ==
    LET live  == {i \in DOMAIN w.entries : w.entries[i].age - now <= WindowDuration}
        first == IF live = {} THEN Len(w.entries) + 1 ELSE Min(live)
    IN  [entries  |-> SubSeq(w.entries, first, Len(w.entries)),
         failures |-> w.failures - FailuresIn(SubSeq(w.entries, 1, first - 1))]

(* The failure count is exact, at the cap and after evictions. *)
CountsExactly(w) == w.failures = FailuresIn(w.entries)
=============================================================================
