--------------------------- MODULE MCSqliteStore ----------------------------
(***************************************************************************)
(* Values of SqliteStore's constants for TLC: two versions of the mute  *)
(* list of alice (kind 10000, replaceable) and a note of hers.             *)
(***************************************************************************)
EXTENDS SqliteStore, TLC

CONSTANTS alice, bob, list1, list2, note, mutes

MCAuthor == [e \in Event |-> alice]
MCCreated == [e \in Event |-> IF e = list2 THEN 2 ELSE 1]
MCSlot == [e \in Event |-> IF e = note THEN NoSlot ELSE mutes]
Symmetric == Permutations(Worker)
=============================================================================
