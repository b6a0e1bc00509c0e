--------------------------- MODULE MCMemoryStore ----------------------------
(***************************************************************************)
(* Values of MemoryStore's constants for TLC: three versions of a profile  *)
(* of alice, two of them created at the same time, a note of hers, and a   *)
(* channel message and a hidden message, which names no channel, of bob.   *)
(***************************************************************************)
EXTENDS MemoryStore, TLC

CONSTANTS alice, bob, first, second, third, note, message, hide, profile, room

MCAuthor == [e \in Event |-> IF e \in {message, hide} THEN bob ELSE alice]
MCCreated == [e \in Event |-> IF e = first THEN 1 ELSE 2]
MCSlot == [e \in Event |-> IF e \in {first, second, third} THEN profile ELSE NoSlot]
MCChannel == [e \in Event |-> IF e = message THEN room ELSE NoChannel]
Symmetric == Permutations({second, third})
=============================================================================
