------------------------------ MODULE EventStore -----------------------------
(***************************************************************************)
(* What the relay relies on of a store of events (pkg/storage/storage.go,  *)
(* and the channel table of NIP-28 that both implementations add to it):   *)
(* an event is alive, or dead and never alive again, or unknown.  A call   *)
(* is one step.  Where the two implementations differ, both outcomes are   *)
(* allowed: a replaced or retired event may be remembered as dead (memory) *)
(* or forgotten (SQLite); a version that is saved twice may die (memory);  *)
(* a channel event that names no channel may be refused (memory) or filed  *)
(* (SQLite).                                                               *)
(***************************************************************************)
EXTENDS Naturals

CONSTANTS
    Event, PubKey,
    Author, Created,   \* pubkey and created_at of each event
    Slot, NoSlot,      \* <pubkey, kind> of a replaceable event, NoSlot of any other
    Channel, NoChannel,\* channel_id tag of an event, NoChannel if it has none
    Aged               \* events the retention run removes: old, and of no exempt kind

VARIABLES
    live,     \* events GetEvent finds
    dead,     \* events GetEvent and SaveEvent refuse
    channel   \* rows of the channel table

vars == <<live, dead, channel>>

Replaceable(e) == Slot[e] # NoSlot
Versions(e) == {d \in Event : Replaceable(d) /\ Slot[d] = Slot[e]}

Init == live = {} /\ dead = {} /\ channel = {}

\* E leaves the live events; the store may remember that it did.
Remove(E) ==
    /\ live' = live \ E
    /\ \E D \in SUBSET (live \cap E) : dead' = dead \cup D

\* SaveEvent of a new event, which replaces the versions that are not newer ...
Save(e) ==
    /\ e \notin live \cup dead
    /\ \A d \in live \cap Versions(e) : Created[d] <= Created[e]
    /\ live' = (live \ Versions(e)) \cup {e}
    /\ \E D \in SUBSET (live \cap Versions(e)) : dead' = dead \cup D
    /\ UNCHANGED channel

\* ... of a version older than one the store has: nil, and nothing is stored ...
Discard(e) ==
    /\ e \notin dead
    /\ \E d \in (live \cup dead) \cap Versions(e) : Created[d] > Created[e]
    /\ UNCHANGED vars

\* ... and of an event that is alive.
SaveAgain(e) ==
    /\ e \in live
    /\ \/ UNCHANGED vars
       \/ Replaceable(e) /\ Remove({e}) /\ UNCHANGED channel

\* DeleteEvent: an error unless p is the author.
Delete(e, p) ==
    /\ e \in live \cup dead /\ Author[e] = p
    /\ live' = live \ {e} /\ dead' = dead \cup {e}
    /\ UNCHANGED channel

\* DeleteAllEventsByPubKey
Hers(p) == {e \in live : Author[e] = p}
Vanish(p) ==
    /\ live' = live \ Hers(p) /\ dead' = dead \cup Hers(p)
    /\ UNCHANGED channel

\* DeleteEventsOlderThan
Retain == Remove(Aged) /\ UNCHANGED channel

\* SaveChannelEvent, DeleteChannelEvents
SaveChannel(e) ==
    /\ \/ channel' = channel \cup {e}
       \/ Channel[e] = NoChannel /\ UNCHANGED channel
    /\ UNCHANGED <<live, dead>>
DeleteChannel(c) ==
    /\ channel' = {e \in channel : Channel[e] # c}
    /\ UNCHANGED <<live, dead>>

Next ==
    \/ \E e \in Event :
         \/ Save(e) \/ Discard(e) \/ SaveAgain(e) \/ SaveChannel(e)
         \/ \E p \in PubKey : Delete(e, p)
         \/ DeleteChannel(Channel[e])
    \/ \E p \in PubKey : Vanish(p)
    \/ Retain

Spec == Init /\ [][Next]_vars
==============================================================================
