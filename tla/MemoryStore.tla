----------------------------- MODULE MemoryStore -----------------------------
(***************************************************************************)
(* The in-memory store (internal/store/memory/memory.go), which the tests  *)
(* of the relay run on.  Every call holds the mutex from beginning to end, *)
(* so a call is one step; callers come in any order.  EventStore is what   *)
(* it promises.                                                            *)
(***************************************************************************)
EXTENDS Naturals

CONSTANTS
    Event, PubKey,
    Author, Created,   \* pubkey and created_at of each event
    Slot, NoSlot,      \* <pubkey, kind> of a replaceable event, NoSlot of any other
    Channel, NoChannel,\* channel_id tag of an event, NoChannel if it has none
    Aged               \* events the retention run removes: old, and of no exempt kind

ASSUME MemoryStoreAssumption ==
    /\ Author \in [Event -> PubKey] /\ Created \in [Event -> Nat]
    /\ Aged \subseteq Event
    /\ \A d, e \in Event :  \* exempt by kind, removed by age
          Slot[d] # NoSlot /\ Slot[d] = Slot[e] /\ Created[d] <= Created[e] /\ e \in Aged
              => d \in Aged

VARIABLES
    events,         \* keys of Store.events
    deleted,        \* keys of Store.deleted
    channelEvents,  \* Store.channelEvents, {} where the map has no entry
    \* history variables
    taken,          \* events SaveEvent returned nil for
    disturbed       \* slots a version of which was saved again, or deleted by its author

vars == <<events, deleted, channelEvents, taken, disturbed>>

Promise == INSTANCE EventStore WITH
    live <- events \ deleted,
    dead <- deleted,
    channel <- UNION {channelEvents[c] : c \in DOMAIN channelEvents}

ChannelId == {Channel[e] : e \in Event} \ {NoChannel}

TypeOK ==
    /\ events \subseteq Event /\ deleted \subseteq Event
    /\ channelEvents \in [ChannelId -> SUBSET Event]
    /\ taken \subseteq Event
    /\ disturbed \subseteq {Slot[e] : e \in Event}

Init ==
    /\ events = {} /\ deleted = {}
    /\ channelEvents = [c \in ChannelId |-> {}]
    /\ taken = {} /\ disturbed = {}

Live == events \ deleted

\* isReplaceableEvent
Replaceable(e) == Slot[e] # NoSlot

\* The live events the loop of SaveEvent compares e with, e itself included.
Versions(e) == {d \in Live : Replaceable(e) /\ Slot[d] = Slot[e]}

\* The version in hand replaces one created at the same time.  Mutant: it
\* replaces any.
AnyOther(e, d) == d # e
Replaces(e, d) == Created[e] >= Created[d]

\* SaveEvent: the loop, over a map and so in any order, marks the versions e
\* replaces, until it comes to one that is newer; then e is not stored.
SaveEvent(e) ==
    /\ e \notin deleted
    /\ taken' = taken \cup {e}
    /\ disturbed' = disturbed \cup {Slot[d] : d \in Versions(e) \cap {e}}
    /\ UNCHANGED channelEvents
    /\ LET replaced == {d \in Versions(e) : Replaces(e, d)} IN
       \/ /\ replaced = Versions(e)
          /\ deleted' = deleted \cup replaced
          /\ events' = events \cup {e}
       \/ /\ replaced # Versions(e)
          /\ \E R \in SUBSET replaced : deleted' = deleted \cup R
          /\ UNCHANGED events

\* DeleteEvent: "event not found" and "unauthorized" leave the store alone.
DeleteEvent(e, p) ==
    /\ e \in events /\ Author[e] = p
    /\ deleted' = deleted \cup {e}
    /\ disturbed' = disturbed \cup ({Slot[e]} \ {NoSlot})
    /\ UNCHANGED <<events, channelEvents, taken>>

DeleteAllEventsByPubKey(p) ==
    LET hers == {e \in events : Author[e] = p} IN
    /\ deleted' = deleted \cup hers
    /\ disturbed' = disturbed \cup ({Slot[e] : e \in hers} \ {NoSlot})
    /\ UNCHANGED <<events, channelEvents, taken>>

\* Unlike SQLite, retention marks events as deleted.
DeleteEventsOlderThan ==
    /\ deleted' = deleted \cup (Live \cap Aged)
    /\ UNCHANGED <<events, channelEvents, taken, disturbed>>

\* SaveChannelEvent: "missing channel_id" is an error.  Mutant: it is not, and
\* the event is filed under the empty id.
SaveUnnamed(e) ==
    /\ channelEvents' = [c \in ChannelId \cup {Channel[e]} |->
          (IF c \in DOMAIN channelEvents THEN channelEvents[c] ELSE {})
              \cup (IF c = Channel[e] THEN {e} ELSE {})]
    /\ UNCHANGED <<events, deleted, taken, disturbed>>
SaveChannelEvent(e) ==
    /\ Channel[e] # NoChannel
    /\ channelEvents' = [channelEvents EXCEPT ![Channel[e]] = @ \cup {e}]
    /\ UNCHANGED <<events, deleted, taken, disturbed>>

DeleteChannelEvents(c) ==
    /\ channelEvents' = [channelEvents EXCEPT ![c] = {}]
    /\ UNCHANGED <<events, deleted, taken, disturbed>>

Next ==
    \/ \E e \in Event :
         \/ SaveEvent(e) \/ SaveChannelEvent(e)
         \/ \E p \in PubKey : DeleteEvent(e, p)
    \/ \E p \in PubKey : DeleteAllEventsByPubKey(p)
    \/ DeleteEventsOlderThan
    \/ \E c \in ChannelId : DeleteChannelEvents(c)

Spec == Init /\ [][Next]_vars
-----------------------------------------------------------------------------
(******************************** Properties *******************************)
\* The live version of a slot is as new as any SaveEvent returned nil for,
\* unless the author deleted one, or a live version was saved once more: the
\* loop of SaveEvent then marks the very event it stores.
NewestLive ==
    \A e \in taken \ Aged : Replaceable(e) /\ Slot[e] \notin disturbed =>
        \E r \in Live : Slot[r] = Slot[e] /\ Created[r] >= Created[e]

\* Every call is one that EventStore allows.
KeepsPromise == Promise!Spec
==============================================================================
