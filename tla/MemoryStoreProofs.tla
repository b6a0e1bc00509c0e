-------------------------- MODULE MemoryStoreProofs --------------------------
(***************************************************************************)
(* Proofs about MemoryStore, for any events, pubkeys and channels: its     *)
(* invariants, and that it implements EventStore.                          *)
(***************************************************************************)
EXTENDS MemoryStore, TLAPS

\* A pubkey and kind never has two live versions.
OneLivePerSlot ==
    \A d, e \in Live : Replaceable(d) /\ Slot[d] = Slot[e] => d = e

\* Only keys of events are ever keys of deleted.
OnlyKnown == deleted \subseteq events

\* A channel event is filed under the channel it names.
Filed == \A c \in ChannelId : \A e \in channelEvents[c] : Channel[e] = c

IInv == TypeOK /\ OnlyKnown /\ Filed /\ OneLivePerSlot

LEMMA IInvInit == Init => IInv
BY DEF Init, IInv, TypeOK, OnlyKnown, Filed, OneLivePerSlot, Live, ChannelId

LEMMA IInvStep == IInv /\ [Next]_vars => IInv'
<1> SUFFICES ASSUME IInv, [Next]_vars PROVE IInv'
    OBVIOUS
<1> USE MemoryStoreAssumption DEF IInv, TypeOK, OnlyKnown, Filed
<1>1. ASSUME NEW e \in Event, SaveEvent(e) PROVE IInv'
    <2>1. TypeOK' /\ OnlyKnown' /\ Filed'
        BY <1>1 DEF SaveEvent, Versions, Live
    <2>2. OneLivePerSlot'
        BY <1>1 DEF SaveEvent, Versions, Live, OneLivePerSlot, Replaceable
    <2> QED BY <2>1, <2>2
<1>2. ASSUME NEW e \in Event, SaveChannelEvent(e) PROVE IInv'
    BY <1>2 DEF SaveChannelEvent, OneLivePerSlot, Live, ChannelId
<1>3. ASSUME NEW e \in Event, NEW p \in PubKey, DeleteEvent(e, p) PROVE IInv'
    BY <1>3 DEF DeleteEvent, OneLivePerSlot, Live
<1>4. ASSUME NEW p \in PubKey, DeleteAllEventsByPubKey(p) PROVE IInv'
    BY <1>4 DEF DeleteAllEventsByPubKey, OneLivePerSlot, Live
<1>5. CASE DeleteEventsOlderThan
    BY <1>5 DEF DeleteEventsOlderThan, OneLivePerSlot, Live
<1>6. ASSUME NEW c \in ChannelId, DeleteChannelEvents(c) PROVE IInv'
    BY <1>6 DEF DeleteChannelEvents, OneLivePerSlot, Live
<1>7. CASE UNCHANGED vars
    BY <1>7 DEF vars, OneLivePerSlot, Live
<1> QED BY <1>1, <1>2, <1>3, <1>4, <1>5, <1>6, <1>7 DEF Next

LEMMA IInvAlways == Spec => []IInv
BY IInvInit, IInvStep, PTL DEF Spec

\* The maps of memory.go hold events, and channels only named ones.
THEOREM TypeCorrect == Spec => []TypeOK
BY IInvAlways, PTL DEF IInv

\* SaveEvent compares and marks one version at a time, in map order; no two
\* versions of a slot are ever alive all the same.
THEOREM OneLivePerSlotCorrect == Spec => []OneLivePerSlot
BY IInvAlways, PTL DEF IInv
-----------------------------------------------------------------------------
LEMMA NewestLiveStep == IInv /\ NewestLive /\ [Next]_vars => NewestLive'
<1> SUFFICES ASSUME IInv, NewestLive, [Next]_vars,
                    NEW e \in taken' \ Aged, Replaceable(e), Slot[e] \notin disturbed'
             PROVE  \E r \in Live' : Slot[r] = Slot[e] /\ Created[r] >= Created[e]
    BY DEF NewestLive, Replaceable
<1> USE MemoryStoreAssumption DEF IInv, TypeOK, OnlyKnown, Replaceable
<1>0. ASSUME e \in taken, Slot[e] \notin disturbed
      PROVE  \E r \in Live : Slot[r] = Slot[e] /\ Created[r] >= Created[e]
    BY <1>0 DEF NewestLive
<1>1. ASSUME NEW x \in Event, SaveEvent(x)
      PROVE  \E r \in Live' : Slot[r] = Slot[e] /\ Created[r] >= Created[e]
    <2> e \in Event /\ (e \in taken \/ e = x)
        BY <1>1 DEF SaveEvent
    <2>1. Slot[e] \notin disturbed
        BY <1>1 DEF SaveEvent
    <2>2. CASE Slot[x] # Slot[e]
        <3>1. PICK r \in Live : Slot[r] = Slot[e] /\ Created[r] >= Created[e]
            BY <1>0, <2>1, <2>2
        <3>2. r \in Live'
            BY <1>1, <2>2, <3>1 DEF SaveEvent, Versions, Live
        <3> QED BY <3>1, <3>2
    <2>3. CASE Slot[x] = Slot[e]
        <3>1. x \notin Versions(x)
            BY <1>1, <2>3 DEF SaveEvent, Versions
        <3>2. CASE \A d \in Versions(x) : Replaces(x, d)
            <4>1. x \in Live'
                BY <1>1, <3>1, <3>2 DEF SaveEvent, Versions, Live
            <4>2. Created[x] >= Created[e]
                <5>1. CASE e = x
                    BY <5>1
                <5>2. CASE e \in taken
                    <6>1. PICK r \in Live : Slot[r] = Slot[e] /\ Created[r] >= Created[e]
                        BY <1>0, <2>1, <5>2
                    <6>2. Created[x] >= Created[r]
                        BY <2>3, <3>2, <6>1 DEF Versions, Replaces
                    <6>3. r \in Event
                        BY DEF Live
                    <6> QED BY <6>1, <6>2, <6>3
                <5> QED BY <5>1, <5>2
            <4> QED BY <2>3, <4>1, <4>2
        <3>3. CASE ~ \A d \in Versions(x) : Replaces(x, d)
            <4>1. PICK d \in Versions(x) : ~Replaces(x, d)
                BY <3>3
            <4>2. \A c \in Versions(x) : c = d
                BY <2>3 DEF Versions, OneLivePerSlot, Live
            <4>3. Live' = Live
                BY <1>1, <4>1, <4>2 DEF SaveEvent, Live
            <4>4. d \in Live /\ Slot[d] = Slot[e] /\ Created[d] > Created[x] /\ d \in Event
                BY <2>3, <4>1 DEF Versions, Replaces, Live
            <4>5. CASE e = x
                BY <4>3, <4>4, <4>5
            <4>6. CASE e \in taken
                BY <1>0, <2>1, <4>3, <4>6
            <4> QED BY <4>5, <4>6
        <3> QED BY <3>2, <3>3
    <2> QED BY <2>2, <2>3
<1>2. ASSUME NEW x \in Event, SaveChannelEvent(x)
      PROVE  \E r \in Live' : Slot[r] = Slot[e] /\ Created[r] >= Created[e]
    BY <1>0, <1>2 DEF SaveChannelEvent, Live
<1>3. ASSUME NEW x \in Event, NEW p \in PubKey, DeleteEvent(x, p)
      PROVE  \E r \in Live' : Slot[r] = Slot[e] /\ Created[r] >= Created[e]
    BY <1>0, <1>3 DEF DeleteEvent, Live
<1>4. ASSUME NEW p \in PubKey, DeleteAllEventsByPubKey(p)
      PROVE  \E r \in Live' : Slot[r] = Slot[e] /\ Created[r] >= Created[e]
    BY <1>0, <1>4 DEF DeleteAllEventsByPubKey, Live
<1>5. CASE DeleteEventsOlderThan
    <2>1. PICK r \in Live : Slot[r] = Slot[e] /\ Created[r] >= Created[e]
        BY <1>0, <1>5 DEF DeleteEventsOlderThan
    <2>2. r \notin Aged
        BY <2>1, <1>5 DEF DeleteEventsOlderThan, Live
    <2> QED BY <1>5, <2>1, <2>2 DEF DeleteEventsOlderThan, Live
<1>6. ASSUME NEW c \in ChannelId, DeleteChannelEvents(c)
      PROVE  \E r \in Live' : Slot[r] = Slot[e] /\ Created[r] >= Created[e]
    BY <1>0, <1>6 DEF DeleteChannelEvents, Live
<1>7. CASE UNCHANGED vars
    BY <1>0, <1>7 DEF vars, Live
<1> QED BY <1>1, <1>2, <1>3, <1>4, <1>5, <1>6, <1>7 DEF Next

\* What SaveEvent returned nil for is in the store, or something as new is,
\* unless the author deleted a version or a live one was saved again.
THEOREM NewestLiveCorrect == Spec => []NewestLive
<1>1. Init => NewestLive
    BY DEF Init, NewestLive
<1> QED BY <1>1, IInvAlways, NewestLiveStep, PTL DEF Spec
-----------------------------------------------------------------------------
LEMMA PromiseInit == Init => Promise!Init
BY DEF Init, Promise!Init

LEMMA PromiseStep == IInv /\ [Next]_vars => [Promise!Next]_(Promise!vars)
<1> SUFFICES ASSUME IInv, [Next]_vars PROVE [Promise!Next]_(Promise!vars)
    OBVIOUS
<1> USE MemoryStoreAssumption DEF IInv, TypeOK, OnlyKnown
<1> DEFINE channel == UNION {channelEvents[c] : c \in DOMAIN channelEvents}
<1>1. ASSUME NEW e \in Event, SaveEvent(e) PROVE [Promise!Next]_(Promise!vars)
    <2>0. channel' = channel
        BY <1>1 DEF SaveEvent
    <2>1. CASE e \in Live /\ Replaceable(e)
        <3>1. Versions(e) = {e}
            BY <2>1 DEF Versions, OneLivePerSlot, Live, Replaceable
        <3>2. Replaces(e, e)
            BY DEF Replaces
        <3>3. deleted' = deleted \cup {e} /\ events' = events
            BY <1>1, <2>1, <3>1, <3>2 DEF SaveEvent, Live
        <3>4. Promise!SaveAgain(e)
            BY <2>0, <2>1, <3>3 DEF Promise!SaveAgain, Promise!Remove, Promise!Replaceable,
                                    Replaceable, Live
        <3> QED BY <3>4 DEF Promise!Next
    <2>2. CASE e \in Live /\ ~Replaceable(e)
        <3>1. deleted' = deleted /\ events' = events
            BY <1>1, <2>2 DEF SaveEvent, Versions, Live
        <3> QED BY <2>0, <3>1 DEF Promise!vars
    <2>3. CASE e \notin Live /\ \A d \in Versions(e) : Replaces(e, d)
        <3>1. deleted' = deleted \cup Versions(e) /\ events' = events \cup {e}
            BY <1>1, <2>3 DEF SaveEvent
        <3>2. Versions(e) = Live \cap Promise!Versions(e)
            BY DEF Versions, Live, Replaceable, Promise!Versions, Promise!Replaceable
        <3>3. e \notin events /\ e \notin deleted
            BY <1>1, <2>3 DEF SaveEvent, Live
        <3>4. events' \ deleted' = ((events \ deleted) \ Promise!Versions(e)) \cup {e}
            BY <3>1, <3>2, <3>3 DEF Live
        <3>5. \A d \in Live \cap Promise!Versions(e) : Created[d] <= Created[e]
            BY <2>3, <3>2 DEF Replaces, Live
        <3>6. Promise!Save(e)
            BY <2>0, <3>1, <3>2, <3>3, <3>4, <3>5 DEF Promise!Save, Live
        <3> QED BY <3>6 DEF Promise!Next
    <2>4. CASE e \notin Live /\ ~ \A d \in Versions(e) : Replaces(e, d)
        <3>1. PICK d \in Versions(e) : ~Replaces(e, d)
            BY <2>4
        <3>2. \A c \in Versions(e) : c = d
            BY DEF Versions, OneLivePerSlot, Live, Replaceable
        <3>3. deleted' = deleted /\ events' = events
            BY <1>1, <3>1, <3>2 DEF SaveEvent
        <3> QED BY <2>0, <3>3 DEF Promise!vars
    <2> QED BY <2>1, <2>2, <2>3, <2>4
<1>2. ASSUME NEW e \in Event, SaveChannelEvent(e) PROVE [Promise!Next]_(Promise!vars)
    <2>1. Channel[e] \in DOMAIN channelEvents
        BY <1>2 DEF SaveChannelEvent, ChannelId
    <2>2. channel' = channel \cup {e}
        BY <1>2, <2>1 DEF SaveChannelEvent
    <2>3. Promise!SaveChannel(e)
        BY <1>2, <2>2 DEF SaveChannelEvent, Promise!SaveChannel
    <2> QED BY <2>3 DEF Promise!Next
<1>3. ASSUME NEW e \in Event, NEW p \in PubKey, DeleteEvent(e, p)
      PROVE  [Promise!Next]_(Promise!vars)
    <2>1. Promise!Delete(e, p)
        BY <1>3 DEF DeleteEvent, Promise!Delete
    <2> QED BY <2>1 DEF Promise!Next
<1>4. ASSUME NEW p \in PubKey, DeleteAllEventsByPubKey(p) PROVE [Promise!Next]_(Promise!vars)
    <2>1. Promise!Vanish(p)
        BY <1>4 DEF DeleteAllEventsByPubKey, Promise!Vanish, Promise!Hers
    <2> QED BY <2>1 DEF Promise!Next
<1>5. CASE DeleteEventsOlderThan
    <2>1. Promise!Retain
        BY <1>5 DEF DeleteEventsOlderThan, Promise!Retain, Promise!Remove, Live
    <2> QED BY <2>1 DEF Promise!Next
<1>6. ASSUME NEW c \in ChannelId, DeleteChannelEvents(c) PROVE [Promise!Next]_(Promise!vars)
    <2>1. channel' = {e \in channel : Channel[e] # c}
        BY <1>6 DEF DeleteChannelEvents, Filed
    <2>2. Promise!DeleteChannel(c)
        BY <1>6, <2>1 DEF DeleteChannelEvents, Promise!DeleteChannel
    <2> QED BY <2>2 DEF ChannelId, Promise!Next
<1>7. CASE UNCHANGED vars
    BY <1>7 DEF vars, Promise!vars
<1> QED BY <1>1, <1>2, <1>3, <1>4, <1>5, <1>6, <1>7 DEF Next

\* The in-memory store implements EventStore: every call of memory.go is one
\* of the calls the relay counts on, or changes nothing the relay can see.
THEOREM KeepsPromiseCorrect == Spec => KeepsPromise
BY IInvAlways, PromiseInit, PromiseStep, PTL DEF Spec, KeepsPromise, Promise!Spec
==============================================================================
