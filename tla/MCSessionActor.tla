-------------------------- MODULE MCSessionActor --------------------------
(***************************************************************************)
(* Small instances of SessionActor for TLC: two clients that share the     *)
(* rows between them, and one background task that some notes come from.   *)
(***************************************************************************)
EXTENDS SessionActor, TLC

CONSTANTS alice, bob,   \* the clients
          AliceRows,    \* the user prompts alice owns; bob owns the others
          watched,      \* the background task the notes in WatchedNotes report
          other,        \* the task the other notes report
          WatchedNotes

MCClients == {alice, bob}
MCOwnerOf == [u \in Users |-> IF u \in AliceRows THEN alice ELSE bob]
MCTaskOf == [n \in Notes |-> IF n \in WatchedNotes THEN watched ELSE other]
=============================================================================
