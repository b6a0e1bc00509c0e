---------------------------- MODULE EventPipeline ----------------------------
(***************************************************************************)
(* From an EVENT message to its last OK: handleMessage and                 *)
(* handleEventMessage of pkg/protocol/protocol.go, Relay.HandleEvent, and  *)
(* the deletion and vanish requests of NIP-09 and NIP-62.                  *)
(*                                                                         *)
(* A connection handles one message at a time; the handlers of different   *)
(* connections interleave between their calls of the store, each of which  *)
(* is one step of EventStore, and may fail.  SaveEvent is the exception:   *)
(* it is taken statement by statement, as SQLite runs it; the memory store *)
(* runs the same steps under its lock, none of another connection between. *)
(* Tests of the event alone are sets of events, in the order of the code.  *)
(* Broadcasts are the subject of Delivery, and the rate limiter that of    *)
(* RateLimiter: here it may refuse any message.                            *)
(***************************************************************************)
EXTENDS Naturals, Sequences, SequencesExt

CONSTANTS
    Conn,              \* connections
    \* events, as in EventStore
    Event, PubKey, Author, Created, Slot, NoSlot, Channel, NoChannel, Aged,
    Kind,              \* what HandleEvent tells apart of the kind of each event
    Targets,           \* e tags of each event, in order
    Invalid,           \* events Validate refuses: fields, id or signature are wrong
    Unwelcome,         \* events the NIP-36 policy rejects
    Malformed,         \* events the validator of their kind rejects
    Expired,           \* events with a NIP-40 expiration in the past
    Here,              \* vanish requests that name this relay or ALL_RELAYS
    RequireAuth,       \* requireAuth
    Budget,            \* bound: EVENT messages of each connection, AUTH events aside
    Nil                \* no event

Kinds == {"auth", "ephemeral", "deletion", "vanish", "wrap", "room", "channel", "note"}

ASSUME EventPipelineAssumption ==
    /\ Author \in [Event -> PubKey] /\ Created \in [Event -> Nat]
    /\ Kind \in [Event -> Kinds] /\ Targets \in [Event -> Seq(Event)]
    /\ RequireAuth \in BOOLEAN /\ Budget \in Nat /\ Nil \notin Event
    \* a validator requires the channel_id of kinds 40, 41 and 42
    /\ \A e \in Event \ Malformed : Kind[e] = "room" => Channel[e] # NoChannel

VARIABLES
    live, dead, channel,  \* the store
    authenticated,        \* connections that have completed NIP-42
    \* the handler each connection is running
    at, evt,
    todo,                 \* a deletion's targets not yet dealt with
    told,                 \* the OK messages sent for the event so far
    budget,
    \* history variables
    submitted,            \* events that came to their call of the store
    accepted,             \* events to be stored that were first told OK true
    disturbed,            \* slots in which a save may have judged wrongly what is newest
    again,                \* events SaveEvent was called for while they were alive
    unfiled,              \* channel events whose second save failed
    before,               \* live events of the author when a vanish request arrived
    vanished              \* <<request, event of before>>, of every request told OK true

stored == <<live, dead, channel>>
history == <<submitted, accepted, disturbed, again, unfiled, before, vanished>>
vars == <<stored, authenticated, at, evt, todo, told, budget, history>>

S == INSTANCE EventStore

TypeOK ==
    /\ live \subseteq Event /\ dead \subseteq Event /\ channel \subseteq Event
    /\ authenticated \subseteq Conn
    /\ at \in [Conn -> {"idle", "tests", "look", "cascade", "mark", "vanish", "check",
                        "save", "newest", "purge", "insert", "file", "ok", "done"}]
    /\ evt \in [Conn -> Event \cup {Nil}]
    /\ \A c \in Conn : at[c] # "idle" => evt[c] \in Event
    /\ todo \in [Conn -> Seq(Event)]
    /\ \A c \in Conn : at[c] \in {"cascade", "mark"} => todo[c] # <<>>
    /\ told \in [Conn -> Seq(BOOLEAN)]
    /\ budget \in [Conn -> Nat]
    /\ submitted \subseteq Event /\ accepted \subseteq Event /\ again \subseteq Event
    /\ disturbed \subseteq {Slot[e] : e \in Event}
    /\ unfiled \subseteq Event /\ vanished \subseteq Event \X Event
    /\ before \in [Conn -> SUBSET Event]

Init ==
    /\ S!Init
    /\ authenticated = {}
    /\ at = [c \in Conn |-> "idle"] /\ evt = [c \in Conn |-> Nil]
    /\ todo = [c \in Conn |-> <<>>] /\ told = [c \in Conn |-> <<>>]
    /\ budget = [c \in Conn |-> Budget]
    /\ submitted = {} /\ accepted = {} /\ disturbed = {} /\ again = {} /\ unfiled = {}
    /\ before = [c \in Conn |-> {}] /\ vanished = {}

Goto(c, step) == at' = [at EXCEPT ![c] = step]

\* HandleEvent sends the OKs of answer, if any, and returns an error or nil; the
\* last OK is that of handleEventMessage.  Mutant: an error is only logged.
ReturnNil(c, answer, err) ==
    Goto(c, "done") /\ told' = [told EXCEPT ![c] = @ \o answer \o <<TRUE>>]
Finish(c, answer, err) ==
    Goto(c, "done") /\ told' = [told EXCEPT ![c] = @ \o answer \o <<~err>>]
-----------------------------------------------------------------------------
(******************************* handleMessage *****************************)
\* Without NIP-42 authentication only an AUTH event is handled.
Gated(c, e) == RequireAuth /\ c \notin authenticated /\ Kind[e] # "auth"

EventArrives(c, e) ==
    /\ at[c] = "idle"
    /\ \/ Kind[e] = "auth" /\ UNCHANGED budget
       \/ Kind[e] # "auth" /\ budget[c] > 0 /\ budget' = [budget EXCEPT ![c] = @ - 1]
    /\ evt' = [evt EXCEPT ![c] = e]
    /\ IF Gated(c, e) \/ e \in Invalid
       THEN Goto(c, "done") /\ told' = [told EXCEPT ![c] = <<FALSE>>]
       ELSE Goto(c, "tests") /\ UNCHANGED told
    /\ UNCHANGED <<stored, authenticated, todo, history>>

\* The rate limiter refuses an EVENT with a NOTICE, and no OK.
RateLimited(c) ==
    /\ at[c] = "idle" /\ budget[c] > 0
    /\ budget' = [budget EXCEPT ![c] = @ - 1]
    /\ UNCHANGED <<stored, authenticated, at, evt, todo, told, history>>

\* The handler is back in readPump.
Return(c) ==
    /\ at[c] = "done"
    /\ Goto(c, "idle")
    /\ evt' = [evt EXCEPT ![c] = Nil] /\ told' = [told EXCEPT ![c] = <<>>]
    /\ before' = [before EXCEPT ![c] = {}]
    /\ UNCHANGED <<stored, authenticated, todo, budget,
                   submitted, accepted, disturbed, again, unfiled, vanished>>
-----------------------------------------------------------------------------
(******************** HandleEvent: tests of the event alone ****************)
\* NIP-42: a challenge answered wrongly is Malformed.
HandleAuth(c) ==
    /\ at[c] = "tests" /\ Kind[evt[c]] = "auth"
    /\ IF evt[c] \in Malformed
       THEN Finish(c, <<FALSE>>, TRUE) /\ UNCHANGED authenticated
       ELSE Finish(c, <<TRUE>>, FALSE) /\ authenticated' = authenticated \cup {c}
    /\ UNCHANGED <<stored, evt, todo, budget, history>>

\* NIP-36 comes before the validators, and returns nil.
RejectUnwelcome(c) ==
    /\ at[c] = "tests" /\ Kind[evt[c]] # "auth" /\ evt[c] \in Unwelcome
    /\ Finish(c, <<FALSE>>, FALSE)
    /\ UNCHANGED <<stored, authenticated, evt, todo, budget, history>>

\* The validators of NIP-02, 22, 25, 28, 62 and 65 come before the test for an
\* ephemeral event, and that before the expiration of NIP-40.
Refused(e) == e \in Malformed \/ (Kind[e] # "ephemeral" /\ e \in Expired)

RejectMalformed(c) ==
    /\ at[c] = "tests" /\ Kind[evt[c]] # "auth" /\ evt[c] \notin Unwelcome
    /\ Refused(evt[c])
    /\ Finish(c, <<FALSE>>, TRUE)
    /\ UNCHANGED <<stored, authenticated, evt, todo, budget, history>>

Passed(c) == at[c] = "tests" /\ evt[c] \notin Unwelcome /\ ~Refused(evt[c])

\* NIP-16: broadcast, and not stored.
HandleEphemeral(c) ==
    /\ Passed(c) /\ Kind[evt[c]] = "ephemeral"
    /\ Finish(c, <<TRUE>>, FALSE)
    /\ UNCHANGED <<stored, authenticated, evt, todo, budget, history>>

\* A gift wrap is saved without the check for a duplicate.
HandleStored(c) ==
    /\ Passed(c) /\ Kind[evt[c]] \in {"wrap", "room", "channel", "note"}
    /\ Goto(c, IF Kind[evt[c]] = "wrap" THEN "save" ELSE "check")
    /\ UNCHANGED <<stored, authenticated, evt, todo, told, budget, history>>
-----------------------------------------------------------------------------
(************************** NIP-09: HandleDeletion *************************)
HandleDeletion(c) ==
    /\ Passed(c) /\ Kind[evt[c]] = "deletion"
    /\ Goto(c, "look")
    /\ todo' = [todo EXCEPT ![c] = Targets[evt[c]]]
    /\ submitted' = submitted \cup {evt[c]}
    /\ UNCHANGED <<stored, authenticated, evt, told, budget,
                   accepted, disturbed, again, unfiled, before, vanished>>

\* GetEvent of the next target: a channel's kind 40 or 41 leads to the deletion of
\* the channel's events, before anyone has asked whose it is.  "mark" otherwise:
\* another kind, unknown, dead, or GetEvent failed.  Mutants: the loop does not
\* end; an event of any kind that names a channel will do.
LookOnce(c) ==
    /\ at[c] = "look"
    /\ Goto(c, "mark")
    /\ UNCHANGED <<stored, authenticated, evt, todo, told, budget, history>>
LookForChannel(c) ==
    /\ at[c] = "look"
    /\ \/ todo[c] = <<>> /\ Finish(c, <<>>, FALSE)
       \/ todo[c] # <<>> /\ Goto(c, "mark") /\ UNCHANGED told
       \/ /\ todo[c] # <<>> /\ Head(todo[c]) \in live /\ Channel[Head(todo[c])] # NoChannel
          /\ Goto(c, "cascade") /\ UNCHANGED told
    /\ UNCHANGED <<stored, authenticated, evt, todo, budget, history>>
LookAtTarget(c) ==
    /\ at[c] = "look"
    /\ \/ todo[c] = <<>> /\ Finish(c, <<>>, FALSE)
       \/ todo[c] # <<>> /\ Goto(c, "mark") /\ UNCHANGED told
       \/ /\ todo[c] # <<>> /\ Head(todo[c]) \in live /\ Kind[Head(todo[c])] = "room"
          /\ Goto(c, "cascade") /\ UNCHANGED told
    /\ UNCHANGED <<stored, authenticated, evt, todo, budget, history>>

\* DeleteChannelEvents, whose failure is only logged.
Cascade(c) ==
    /\ at[c] = "cascade"
    /\ S!DeleteChannel(Channel[Head(todo[c])]) \/ UNCHANGED stored
    /\ Goto(c, "mark")
    /\ UNCHANGED <<authenticated, evt, todo, told, budget, history>>

\* DeleteEvent, whose refusal or failure is only logged.  Mutant: anyone may.
MarkForAnyone(c) ==
    /\ at[c] = "mark"
    /\ \/ S!Delete(Head(todo[c]), Author[Head(todo[c])])
       \/ UNCHANGED stored
    /\ todo' = [todo EXCEPT ![c] = Tail(@)]
    /\ Goto(c, "look")
    /\ UNCHANGED <<authenticated, evt, told, budget, history>>
MarkTarget(c) ==
    /\ at[c] = "mark"
    /\ \/ S!Delete(Head(todo[c]), Author[evt[c]])
       \/ UNCHANGED stored
    /\ todo' = [todo EXCEPT ![c] = Tail(@)]
    /\ Goto(c, "look")
    /\ UNCHANGED <<authenticated, evt, told, budget, history>>
-----------------------------------------------------------------------------
(*********************** NIP-62: HandleRequestToVanish *********************)
\* A request that names other relays only is told OK true as well, and nothing is
\* done about it.
ReadyToVanish(c) ==
    LET hers == S!Hers(Author[evt[c]]) IN
    /\ Passed(c) /\ Kind[evt[c]] = "vanish"
    /\ \/ /\ evt[c] \in Here
          /\ Goto(c, "vanish")
          /\ submitted' = submitted \cup {evt[c]}
          /\ before' = [before EXCEPT ![c] = hers]
          /\ UNCHANGED <<told, vanished>>
       \/ /\ evt[c] \notin Here
          /\ Finish(c, <<TRUE>>, FALSE)
          /\ vanished' = vanished \cup ({evt[c]} \X hers)
          /\ UNCHANGED <<submitted, before>>
    /\ UNCHANGED <<stored, authenticated, evt, todo, budget,
                   accepted, disturbed, again, unfiled>>

Vanish(c) ==
    /\ at[c] = "vanish"
    /\ S!Vanish(Author[evt[c]])
    /\ Finish(c, <<TRUE>>, FALSE)
    /\ vanished' = vanished \cup ({evt[c]} \X before[c])
    /\ UNCHANGED <<authenticated, evt, todo, budget,
                   submitted, accepted, disturbed, again, unfiled, before>>

\* A failure may come after some of the events have been marked.  Mutant: it is
\* only logged, as that of a deletion is.
IgnoreVanishFailure(c) ==
    /\ at[c] = "vanish"
    /\ \E D \in SUBSET S!Hers(Author[evt[c]]) :
          live' = live \ D /\ dead' = dead \cup D
    /\ Finish(c, <<TRUE>>, FALSE)
    /\ vanished' = vanished \cup ({evt[c]} \X before[c])
    /\ UNCHANGED <<channel, authenticated, evt, todo, budget,
                   submitted, accepted, disturbed, again, unfiled, before>>
VanishFails(c) ==
    /\ at[c] = "vanish"
    /\ \E D \in SUBSET S!Hers(Author[evt[c]]) :
          live' = live \ D /\ dead' = dead \cup D
    /\ Finish(c, <<FALSE>>, TRUE)
    /\ UNCHANGED <<channel, authenticated, evt, todo, budget, history>>
-----------------------------------------------------------------------------
(***************************** Storing an event ****************************)
\* GetEvent: alive, unknown, or an error, which a dead event is as well.
CheckDuplicate(c) ==
    /\ at[c] = "check"
    /\ \/ /\ evt[c] \in live
          /\ Finish(c, <<TRUE>>, FALSE)
          /\ accepted' = accepted \cup {evt[c]}
       \/ /\ evt[c] \notin live \cup dead
          /\ Goto(c, "save") /\ UNCHANGED <<told, accepted>>
    /\ UNCHANGED <<stored, authenticated, evt, todo, budget,
                   submitted, disturbed, again, unfiled, before, vanished>>

CheckFails(c) ==
    /\ at[c] = "check"
    /\ Finish(c, <<>>, TRUE)
    /\ UNCHANGED <<stored, authenticated, evt, todo, budget, history>>

\* SaveEvent begins with the SELECT from deleted_events.
SaveEvent(c) ==
    /\ at[c] = "save" /\ evt[c] \notin dead
    /\ Goto(c, IF S!Replaceable(evt[c]) THEN "newest" ELSE "insert")
    /\ submitted' = submitted \cup {evt[c]}
    /\ UNCHANGED <<stored, authenticated, evt, todo, told, budget,
                   accepted, disturbed, again, unfiled, before, vanished>>

IsNIP28(e) == Kind[e] \in {"room", "channel"}
AfterSave(e) == IF IsNIP28(e) THEN "file" ELSE "ok"

\* The SELECT of the newest version finds a newer one, which may be dead: SaveEvent
\* returns nil, and the handler goes on as if the event were stored ...
DiscardOlder(c) ==
    /\ at[c] = "newest"
    /\ \E d \in (live \cup dead) \cap S!Versions(evt[c]) : Created[d] > Created[evt[c]]
    /\ Goto(c, AfterSave(evt[c]))
    /\ UNCHANGED <<stored, authenticated, evt, todo, told, budget, history>>

\* ... or finds none, or fails, which is taken for the same.
FoundNewest(c) ==
    /\ at[c] = "newest"
    /\ \/ /\ \A d \in live \cap S!Versions(evt[c]) : Created[d] <= Created[evt[c]]
          /\ UNCHANGED disturbed
       \/ disturbed' = disturbed \cup {Slot[evt[c]]}
    /\ Goto(c, "purge")
    /\ UNCHANGED <<stored, authenticated, evt, todo, told, budget,
                   submitted, accepted, again, unfiled, before, vanished>>

\* The DELETE of every other version, however new, whose failure is ignored; the
\* memory store remembers the versions it replaces as dead.
Purge(c) ==
    LET others == (live \cap S!Versions(evt[c])) \ {evt[c]} IN
    /\ at[c] = "purge"
    /\ \/ live' = live \ others /\ \E D \in SUBSET others : dead' = dead \cup D
       \/ UNCHANGED <<live, dead>>
    /\ Goto(c, "insert")
    /\ UNCHANGED <<channel, authenticated, evt, todo, told, budget, history>>

\* A handler that has found no newer version than its own, and has not yet purged.
Overtaken(e) ==
    \E d \in Conn :
        at[d] = "purge" /\ evt[d] \in S!Versions(e) /\ Created[evt[d]] < Created[e]

\* INSERT OR REPLACE.  The row of an event that died since the first SELECT stays
\* refused; in memory a version that was alive is dead by now.
Insert(c) ==
    LET e == evt[c] IN
    /\ at[c] = "insert"
    /\ \/ live' = live \cup ({e} \ dead) /\ UNCHANGED dead
       \/ S!Replaceable(e) /\ e \in live /\ live' = live \ {e} /\ dead' = dead \cup {e}
    /\ Goto(c, AfterSave(e))
    /\ again' = again \cup (live \cap {e})
    /\ disturbed' = IF Overtaken(e) THEN disturbed \cup {Slot[e]} ELSE disturbed
    /\ UNCHANGED <<channel, authenticated, evt, todo, told, budget,
                   submitted, accepted, unfiled, before, vanished>>

\* The first SELECT finds the event dead, or fails; or the INSERT fails, when other
\* versions may have been purged.
SaveFails(c) ==
    /\ at[c] \in {"save", "insert"}
    /\ Finish(c, <<FALSE>>, TRUE)
    /\ UNCHANGED <<stored, authenticated, evt, todo, budget, history>>

\* The second save, into the channel table, whose failure is only logged.
\* Mutant: it is returned.
FileOrRefuse(c) ==
    /\ at[c] = "file"
    /\ \/ S!SaveChannel(evt[c]) /\ Goto(c, "ok") /\ UNCHANGED <<told, unfiled>>
       \/ /\ UNCHANGED stored
          /\ Finish(c, <<FALSE>>, TRUE)
          /\ unfiled' = unfiled \cup {evt[c]}
    /\ UNCHANGED <<authenticated, evt, todo, budget,
                   submitted, accepted, disturbed, again, before, vanished>>
FileInChannel(c) ==
    /\ at[c] = "file"
    /\ \/ S!SaveChannel(evt[c]) /\ UNCHANGED unfiled
       \/ UNCHANGED stored /\ unfiled' = unfiled \cup {evt[c]}
    /\ Goto(c, "ok")
    /\ UNCHANGED <<authenticated, evt, todo, told, budget,
                   submitted, accepted, disturbed, again, before, vanished>>

\* The OK, the broadcast, and the OK of handleEventMessage.
AcceptEvent(c) ==
    /\ at[c] = "ok"
    /\ Finish(c, <<TRUE>>, FALSE)
    /\ accepted' = accepted \cup {evt[c]}
    /\ UNCHANGED <<stored, authenticated, evt, todo, budget,
                   submitted, disturbed, again, unfiled, before, vanished>>
-----------------------------------------------------------------------------
\* runRetention, while handlers are running
RunRetention ==
    /\ live \cap Aged # {}
    /\ S!Retain
    /\ UNCHANGED <<authenticated, at, evt, todo, told, budget, history>>

HandlerStep(c) ==
    \/ HandleAuth(c) \/ RejectUnwelcome(c) \/ RejectMalformed(c) \/ HandleEphemeral(c)
    \/ HandleStored(c) \/ CheckDuplicate(c) \/ CheckFails(c)
    \/ SaveEvent(c) \/ DiscardOlder(c) \/ FoundNewest(c) \/ Purge(c) \/ Insert(c)
    \/ SaveFails(c) \/ FileInChannel(c) \/ AcceptEvent(c)
    \/ HandleDeletion(c) \/ LookAtTarget(c) \/ Cascade(c) \/ MarkTarget(c)
    \/ ReadyToVanish(c) \/ Vanish(c) \/ VanishFails(c)
    \/ Return(c)

Next ==
    \/ \E c \in Conn :
         \/ \E e \in Event : EventArrives(c, e)
         \/ RateLimited(c)
         \/ HandlerStep(c)
    \/ RunRetention

Spec == Init /\ [][Next]_vars
-----------------------------------------------------------------------------
(******************************** Properties *******************************)
\* The author had e deleted, or vanished.
Retracted(e) ==
    \E x \in submitted :
        /\ Author[x] = Author[e]
        /\ (Kind[x] = "deletion" /\ e \in ToSet(Targets[x])) \/ Kind[x] = "vanish"

\* A version as new as e was published, or e itself a second time.
Superseded(e) ==
    S!Replaceable(e) /\
        (e \in again \/ \E d \in (submitted \cap S!Versions(e)) \ {e} : Created[d] >= Created[e])

\* Some save of a version of e may have purged a newer one: its SELECT failed, or the
\* newer version was inserted between its SELECT and its DELETE.
Misjudged(e) == S!Replaceable(e) /\ Slot[e] \in disturbed

\* An event whose publisher was told OK true stays until its author retracts it, a
\* version as new replaces it, a save misjudges which version is newest, or it is
\* too old: no deletion request of another, no other failing call, and no other
\* interleaving of the handlers takes it away.
KeptOrExplained ==
    \A e \in accepted :
        e \in live \/ Retracted(e) \/ Superseded(e) \/ Misjudged(e) \/ e \in Aged

\* Whose vanish request was told OK true has no event left, ever, of those that were
\* alive when it arrived -- unless the request names other relays only: CHANGELOG.md:377
\* "Requests for other relays are ignored but still accepted and stored".  A version or
\* an aged event that left the store before the call may be published again.
VanishHonest ==
    \A x \in vanished : x[2] \in live =>
        Superseded(x[2]) \/ Misjudged(x[2]) \/ x[2] \in Aged \/ x[1] \notin Here

\* A stored event was told OK true, or its handler is about to: no event is
\* refused and in the store all the same.
NoSilentSave ==
    \A e \in live : e \in accepted \/ \E c \in Conn : evt[c] = e /\ at[c] \in {"file", "ok"}

\* A channel's live events are in the channel table, unless the second save failed
\* or a deletion request, of anyone, named an event that defines the channel.
ChannelComplete ==
    \A e \in live : IsNIP28(e) /\ Channel[e] # NoChannel =>
        \/ e \in channel \cup unfiled
        \/ \E c \in Conn : at[c] = "file" /\ evt[c] = e
        \/ \E x \in submitted :
              Kind[x] = "deletion" /\
              \E r \in ToSet(Targets[x]) : Kind[r] = "room" /\ Channel[r] = Channel[e]

\* The answers to an event agree, those to what NIP-36 rejects aside.
OnlyPolicyContradicts ==
    \A c \in Conn : at[c] = "done" /\ evt[c] \notin Unwelcome =>
        \A i, j \in DOMAIN told[c] : told[c][i] = told[c][j]
-----------------------------------------------------------------------------
(********************* What the documentation says *************************)
\* CHANGELOG.md:652 "An `OK` message is sent back to the client indicating
\* whether the event was accepted or rejected": not that it was both.
AnswersAgree ==
    \A c \in Conn : at[c] = "done" =>
        \A i, j \in DOMAIN told[c] : told[c][i] = told[c][j]
==============================================================================
