------------------------------ MODULE Delivery ------------------------------
(***************************************************************************)
(* Publishing and subscribing in the relay: what pkg/relay/relay.go and    *)
(* pkg/protocol/protocol.go do between an EVENT of one connection and the  *)
(* EVENT messages other connections receive.                               *)
(*                                                                         *)
(* Every connection has one readPump, which runs one handler at a time;    *)
(* a handler is several steps, separated where the code releases a lock,   *)
(* calls the store or hands a message to sendCh.  broadcastEvent starts    *)
(* one goroutine per registered client, each of which takes a snapshot of  *)
(* the client's subscriptions and then sends.  All of these interleave.    *)
(*                                                                         *)
(* A filter is the set of events it matches; it names full ids and pubkeys *)
(* and has no limit, so that a query answers with all of these events, and *)
(* with more (the SELECT ignores tags).  A call of the store is one step:  *)
(* the statements it is made of are the subject of SqliteStore.            *)
(* A message counts as sent once sendCh has taken it on an open            *)
(* connection; the channel itself is the subject of Connection.  Here it   *)
(* has room, until the peer stops reading for good: from then on whoever   *)
(* sends to that connection waits until it is closed.                      *)
(***************************************************************************)
EXTENDS Naturals, FiniteSets

CONSTANTS
    Client,         \* connections (a reconnect is another Client object)
    SubId,          \* subscription identifiers
    Event,          \* events that pass validation
    Filter,         \* filters, each the set of events it matches
    FilterLists,    \* the filter lists a REQ may carry
    Answer,         \* Answer[f]: the events the SELECT for f returns
    Addressed,      \* Addressed[f]: the direct messages whose recipient f's #p names
    Created,        \* created_at of each event
    Slot, NoSlot,   \* <pubkey, kind> of a replaceable event, NoSlot of any other
    Ephemeral,      \* events of kind 20000-29999
    DirectMessage,  \* events of kind 4
    GiftWrap,       \* events of kind 1059
    Aged,           \* events the retention run removes
    Expiring,       \* events with a NIP-40 expiration tag
    MaxSubs,        \* MaxSubscriptionsPerClient
    MaxPerReq,      \* maxEventsPerREQ
    CloseAfterEOSE, \* closeAfterEOSE
    Silent,         \* clients whose peer may stop reading
    Budget,         \* bound: the REQ and EVENT messages each client sends
    Nil             \* no subscription, no subscription id, no event

ASSUME DeliveryAssumption ==
    /\ Filter \subseteq SUBSET Event
    /\ FilterLists \subseteq SUBSET Filter
    /\ Answer \in [Filter -> SUBSET Event] /\ \A f \in Filter : f \subseteq Answer[f]
    /\ Addressed \in [Filter -> SUBSET Event]
    /\ Created \in [Event -> Nat]
    /\ Ephemeral \subseteq Event /\ DirectMessage \subseteq Event
    /\ GiftWrap \subseteq Event /\ GiftWrap \cap Ephemeral = {}
    /\ Aged \subseteq Event /\ Expiring \subseteq Event
    /\ MaxSubs \in Nat /\ MaxPerReq \in Nat
    /\ CloseAfterEOSE \in BOOLEAN
    /\ Budget \in [Client -> [req : Nat, pub : Nat]]
    /\ (\A F \in SUBSET Filter : F # Nil) /\ Nil \notin SubId /\ Nil \notin Event

VARIABLES
    conn,      \* life of each connection
    stalled,   \* connections whose sendCh is full and whose peer reads no more
    sub,       \* Client.subscriptions: the filter list of each open subscription
    \* the handler each readPump is running, and its locals
    at,        \* the step it is about to take
    sid,       \* REQ: the subscription id
    left,      \* REQ: the filters not yet queried
    todo,      \* REQ: the query's rows not yet sent
    sent,      \* REQ: stored events sent
    evt,       \* EVENT: the event
    store,     \* events a query can return
    expired,   \* events whose expiration has passed
    tasks,     \* goroutines started by broadcastEvent
    made,      \* broadcasts so far, which tells their goroutines apart
    budget,    \* messages each client may still send
    \* history variables: they record what has been done and guard nothing
    saved,     \* events that were ever saved
    acked,     \* events some client was sent OK true for
    base,      \* stored when the subscription in hand was installed, and ever since
    got,       \* events sent on each subscription since its last REQ
    skipped,   \* stored events the answer to the REQ left out: capped, or the query failed
    shadowed   \* events the broadcast sent on another subscription of the client

locals == <<sid, left, todo, sent, evt>>
history == <<saved, acked, base, got, skipped, shadowed>>
vars == <<conn, stalled, sub, at, locals, store, expired, tasks, made, budget, history>>
-----------------------------------------------------------------------------
Task == [n : Nat, evt : Event, to : Client,
         at : {"start", "snapshot", "send"}, sid : SubId \cup {Nil}]

Goroutine(n, e, c, step, s) == [n |-> n, evt |-> e, to |-> c, at |-> step, sid |-> s]

TypeOK ==
    /\ conn \in [Client -> {"new", "open", "closed", "gone"}]
    /\ stalled \subseteq Client
    /\ sub \in [Client -> [SubId -> {Nil} \cup SUBSET Filter]]
    /\ at \in [Client -> {"idle", "install", "answer", "drop",
                          "check", "save", "ack", "broadcast", "hang"}]
    /\ sid \in [Client -> SubId \cup {Nil}]
    /\ left \in [Client -> SUBSET Filter]
    /\ todo \in [Client -> SUBSET Event]
    /\ sent \in [Client -> Nat]
    /\ evt \in [Client -> Event \cup {Nil}]
    /\ \A c \in Client : /\ at[c] \in {"install", "answer", "drop"} => sid[c] \in SubId
                         /\ at[c] \in {"check", "save", "ack", "broadcast"} => evt[c] \in Event
    /\ store \subseteq Event /\ expired \subseteq Event
    /\ tasks \subseteq Task /\ made \in Nat
    /\ \A t \in tasks : t.at = "send" => t.sid \in SubId
    /\ budget \in [Client -> [req : Nat, pub : Nat]]
    /\ saved \subseteq Event /\ acked \subseteq Event
    /\ base \in [Client -> SUBSET Event]
    /\ got \in [Client -> [SubId -> SUBSET Event]]
    /\ skipped \in [Client -> [SubId -> SUBSET Event]]
    /\ shadowed \in [Client -> [SubId -> SUBSET Event]]

Init ==
    /\ conn = [c \in Client |-> "new"] /\ stalled = {}
    /\ sub = [c \in Client |-> [s \in SubId |-> Nil]]
    /\ at = [c \in Client |-> "idle"]
    /\ sid = [c \in Client |-> Nil] /\ left = [c \in Client |-> {}]
    /\ todo = [c \in Client |-> {}] /\ sent = [c \in Client |-> 0]
    /\ evt = [c \in Client |-> Nil]
    /\ store = {} /\ expired = {} /\ tasks = {} /\ made = 0
    /\ budget = Budget
    /\ saved = {} /\ acked = {}
    /\ base = [c \in Client |-> {}]
    /\ got = [c \in Client |-> [s \in SubId |-> {}]]
    /\ skipped = [c \in Client |-> [s \in SubId |-> {}]]
    /\ shadowed = [c \in Client |-> [s \in SubId |-> {}]]

Open(c, s) == sub[c][s] # Nil
OpenSubs(c) == {s \in SubId : Open(c, s)}

\* r.clients.  Mutant: a client whose handler is busy is passed over.
IdleOnly == {c \in Client : conn[c] \in {"open", "closed"} /\ at[c] = "idle"}
Registered == {c \in Client : conn[c] \in {"open", "closed"}}

\* evt.Matches for some filter of the subscription
Matches(c, s, e) == Open(c, s) /\ \E f \in sub[c][s] : e \in f

\* HasSubscriptionToPubKey of the recipient of e.
NamesRecipient(c, e) == \E s \in SubId : Open(c, s) /\ \E f \in sub[c][s] : e \in Addressed[f]

Goto(c, step) == at' = [at EXCEPT ![c] = step]

\* The select of SendEvent and its like: room in sendCh, or closeCh.
CanSend(c) == c \notin stalled \/ conn[c] # "open"

\* The locals of the handler are of no more use.
Forget(c) ==
    /\ sid' = [sid EXCEPT ![c] = Nil] /\ left' = [left EXCEPT ![c] = {}]
    /\ todo' = [todo EXCEPT ![c] = {}] /\ sent' = [sent EXCEPT ![c] = 0]
    /\ evt' = [evt EXCEPT ![c] = Nil]

\* The handler returns to readPump.  Mutant: it goes on.
NoReturn(c) == Forget(c) /\ UNCHANGED at
Return(c) == Forget(c) /\ Goto(c, "idle")

\* The handler's last message (CLOSED, NOTICE or OK): it returns if the message is
\* taken, and hangs if the peer reads no more.
LastMessage(c) == Forget(c) /\ Goto(c, IF CanSend(c) THEN "idle" ELSE "hang")
-----------------------------------------------------------------------------
(*************************** Life of a connection **************************)
SetConn(c, from, to) ==
    /\ conn[c] = from
    /\ conn' = [conn EXCEPT ![c] = to]
    /\ UNCHANGED <<stalled, sub, at, locals, store, expired, tasks, made, budget, history>>

\* ServeHTTP: the client is in r.clients before its pumps start.
Connect(c) == SetConn(c, "new", "open")

\* Client.Close: the peer hung up, a write failed, or the relay shuts down.
CloseConn(c) == SetConn(c, "open", "closed")

\* The peer reads no more and stays connected: writePump hangs in WriteMessage, which
\* has no deadline, and sendCh fills.
StopReading(c) ==
    /\ c \in Silent \ stalled /\ conn[c] = "open"
    /\ stalled' = stalled \cup {c}
    /\ UNCHANGED <<conn, sub, at, locals, store, expired, tasks, made, budget, history>>

\* The deferred delete of ServeHTTP, once both pumps have returned.
Unregister(c) == at[c] = "idle" /\ SetConn(c, "closed", "gone")
-----------------------------------------------------------------------------
(********************************** REQ ************************************)
\* readPump handles one message at a time.  Mutant: each in a goroutine.
ReadingAlways(c) == conn[c] = "open"
Reading(c) == conn[c] = "open" /\ at[c] = "idle"

\* A REQ that replaces a subscription is never too many.  Mutant: off by one.
OneTooMany(c, s) == ~Open(c, s) /\ Cardinality(OpenSubs(c)) > MaxSubs
TooMany(c, s) == ~Open(c, s) /\ Cardinality(OpenSubs(c)) >= MaxSubs

\* handleReqMessage up to the limit check, made in a lock section of its own: too many
\* subscriptions are answered with CLOSED.
ReqArrives(c, s, F) ==
    /\ Reading(c) /\ budget[c].req > 0
    /\ budget' = [budget EXCEPT ![c] = [req |-> @.req - 1, pub |-> @.pub]]
    /\ IF TooMany(c, s)
       THEN LastMessage(c)
       ELSE /\ Goto(c, "install")
            /\ sid' = [sid EXCEPT ![c] = s]
            /\ left' = [left EXCEPT ![c] = F]
            /\ UNCHANGED <<todo, sent, evt>>
    /\ UNCHANGED <<conn, stalled, sub, store, expired, tasks, made, history>>

\* c.subscriptions[subID] = filters, before the handler asks the store.
InstallSub(c) ==
    LET s == sid[c] IN
    /\ at[c] = "install"
    /\ sub' = [sub EXCEPT ![c][s] = left[c]]
    /\ Goto(c, "answer")
    /\ base' = [base EXCEPT ![c] = store]
    /\ got' = [got EXCEPT ![c][s] = {}]
    /\ skipped' = [skipped EXCEPT ![c][s] = {}]
    /\ shadowed' = [shadowed EXCEPT ![c][s] = {}]
    /\ UNCHANGED <<conn, stalled, locals, store, expired, tasks, made, budget, saved, acked>>

\* QueryEvents runs one SELECT per filter.  Mutant: it returns the newest row only.
QueryNewest(c, f) ==
    /\ at[c] = "answer" /\ f \in left[c]
    /\ left' = [left EXCEPT ![c] = @ \ {f}]
    /\ todo' = [todo EXCEPT ![c] = @ \cup
          {e \in store \cap Answer[f] : \A d \in store \cap Answer[f] : Created[d] <= Created[e]}]
    /\ UNCHANGED <<conn, stalled, sub, at, sid, sent, evt, store, expired, tasks, made, budget,
                   history>>
QueryFilter(c, f) ==
    /\ at[c] = "answer" /\ f \in left[c]
    /\ left' = [left EXCEPT ![c] = @ \ {f}]
    /\ todo' = [todo EXCEPT ![c] = @ \cup (store \cap Answer[f])]
    /\ UNCHANGED <<conn, stalled, sub, at, sid, sent, evt, store, expired, tasks, made, budget,
                   history>>

\* A failing SELECT is answered with a NOTICE: no EOSE is sent and the subscription
\* stays installed.
QueryFails(c) ==
    LET lost == todo[c] \cup {e \in store : \E f \in left[c] : e \in Answer[f]} IN
    /\ at[c] = "answer" /\ left[c] # {}
    /\ LastMessage(c)
    /\ skipped' = [skipped EXCEPT ![c][sid[c]] = @ \cup lost]
    /\ UNCHANGED <<conn, stalled, sub, store, expired, tasks, made, budget,
                   saved, acked, base, got, shadowed>>

\* The rows are sorted by created_at, newest first.
NextStored(c, e) ==
    /\ at[c] = "answer" /\ left[c] = {}
    /\ e \in todo[c] /\ \A d \in todo[c] : Created[d] <= Created[e]

SkipExpired(c, e) ==
    /\ NextStored(c, e) /\ e \in expired
    /\ todo' = [todo EXCEPT ![c] = @ \ {e}]
    /\ UNCHANGED <<conn, stalled, sub, at, sid, left, sent, evt, store, expired, tasks, made,
                   budget, history>>

SendStored(c, e) ==
    /\ NextStored(c, e) /\ e \notin expired /\ sent[c] < MaxPerReq /\ CanSend(c)
    /\ todo' = [todo EXCEPT ![c] = @ \ {e}]
    /\ sent' = [sent EXCEPT ![c] = @ + 1]
    /\ got' = IF conn[c] = "open" THEN [got EXCEPT ![c][sid[c]] = @ \cup {e}] ELSE got
    /\ UNCHANGED <<conn, stalled, sub, at, sid, left, evt, store, expired, tasks, made, budget,
                   saved, acked, base, skipped, shadowed>>

\* The break of the loop at maxEventsPerREQ.
CapReached(c, e) ==
    /\ NextStored(c, e) /\ e \notin expired /\ sent[c] >= MaxPerReq
    /\ todo' = [todo EXCEPT ![c] = {}]
    /\ skipped' = [skipped EXCEPT ![c][sid[c]] = @ \cup todo[c]]
    /\ UNCHANGED <<conn, stalled, sub, at, sid, left, sent, evt, store, expired, tasks, made,
                   budget, saved, acked, base, got, shadowed>>

AnswerSent(c) == at[c] = "answer" /\ left[c] = {} /\ todo[c] = {}

SendEOSE(c) ==
    /\ AnswerSent(c) /\ CanSend(c)
    /\ IF CloseAfterEOSE THEN Goto(c, "drop") /\ UNCHANGED locals ELSE Return(c)
    /\ UNCHANGED <<conn, stalled, sub, store, expired, tasks, made, budget, history>>

\* closeAfterEOSE: RemoveSubscription once the EOSE has been sent.
DropSub(c) ==
    /\ at[c] = "drop"
    /\ sub' = [sub EXCEPT ![c][sid[c]] = Nil]
    /\ Return(c)
    /\ UNCHANGED <<conn, stalled, store, expired, tasks, made, budget, history>>

\* The connection of a hanging handler has been closed: its message is dropped.
Release(c) ==
    /\ at[c] = "hang" /\ CanSend(c)
    /\ Return(c)
    /\ UNCHANGED <<conn, stalled, sub, store, expired, tasks, made, budget, history>>

\* CLOSE
CloseSub(c, s) ==
    /\ Reading(c)
    /\ sub' = [sub EXCEPT ![c][s] = Nil]
    /\ UNCHANGED <<conn, stalled, at, locals, store, expired, tasks, made, budget, history>>
-----------------------------------------------------------------------------
(********************************* EVENT ***********************************)
\* HandleEvent up to its first call of the store: an ephemeral event goes
\* straight to the broadcast, an expired one is refused, a gift wrap is saved
\* without the check for a duplicate.
EventArrives(c, e) ==
    /\ Reading(c) /\ budget[c].pub > 0
    /\ budget' = [budget EXCEPT ![c] = [req |-> @.req, pub |-> @.pub - 1]]
    /\ IF e \notin Ephemeral /\ e \in expired
       THEN LastMessage(c)
       ELSE /\ Goto(c, IF e \in Ephemeral THEN "broadcast"
                       ELSE IF e \in GiftWrap THEN "save" ELSE "check")
            /\ evt' = [evt EXCEPT ![c] = e]
            /\ UNCHANGED <<sid, left, todo, sent>>
    /\ UNCHANGED <<conn, stalled, sub, store, expired, tasks, made, history>>

\* OK true, as the last message.
Acknowledge(c) ==
    /\ LastMessage(c)
    /\ acked' = IF CanSend(c) THEN acked \cup {evt[c]} ELSE acked

\* GetEvent: an event already stored is answered OK "duplicate".
CheckDuplicate(c) ==
    /\ at[c] = "check"
    /\ IF evt[c] \in store THEN Acknowledge(c)
       ELSE Goto(c, "save") /\ UNCHANGED <<locals, acked>>
    /\ UNCHANGED <<conn, stalled, sub, store, expired, tasks, made, budget,
                   saved, base, got, skipped, shadowed>>

\* The store keeps the newest event of a slot; an older one is discarded, and
\* the handler goes on as if it were saved.
SameSlot(e) == {d \in Event \ {e} : Slot[e] # NoSlot /\ Slot[d] = Slot[e]}
Outdated(e, stored) == \E d \in stored \cap SameSlot(e) : Created[d] > Created[e]

SaveEvent(c) ==
    /\ at[c] = "save"
    /\ Goto(c, "ack")
    /\ \/ Outdated(evt[c], store) /\ UNCHANGED <<store, saved, base>>
       \/ /\ ~Outdated(evt[c], store)
          /\ store' = (store \ SameSlot(evt[c])) \cup {evt[c]}
          /\ saved' = saved \cup {evt[c]}
          /\ base' = [d \in Client |-> base[d] \ SameSlot(evt[c])]
    /\ UNCHANGED <<conn, stalled, sub, locals, expired, tasks, made, budget,
                   acked, got, skipped, shadowed>>

\* GetEvent or SaveEvent returns an error: OK false.  Mutant: OK true after all.
IgnoreFailure(c) ==
    /\ at[c] \in {"check", "save"}
    /\ Goto(c, "ack")
    /\ UNCHANGED <<conn, stalled, sub, locals, store, expired, tasks, made, budget, history>>
StoreFails(c) ==
    /\ at[c] \in {"check", "save"}
    /\ LastMessage(c)
    /\ UNCHANGED <<conn, stalled, sub, store, expired, tasks, made, budget, history>>

\* Mutant: the handler returns once it has sent OK, and nothing is broadcast.
OKAndReturn(c) ==
    /\ at[c] = "ack" /\ CanSend(c)
    /\ acked' = acked \cup {evt[c]}
    /\ Return(c)
    /\ UNCHANGED <<conn, stalled, sub, store, expired, tasks, made, budget,
                   saved, base, got, skipped, shadowed>>
SendOK(c) ==
    /\ at[c] = "ack" /\ CanSend(c)
    /\ acked' = acked \cup {evt[c]}
    /\ Goto(c, "broadcast")
    /\ UNCHANGED <<conn, stalled, sub, locals, store, expired, tasks, made, budget,
                   saved, base, got, skipped, shadowed>>

\* broadcastEvent: one goroutine for every client in r.clients, under clientsMu; then
\* the OK of handleEventMessage, the only one of an ephemeral event.
Broadcast(c) ==
    /\ at[c] = "broadcast"
    /\ made' = made + 1
    /\ tasks' = tasks \cup {Goroutine(made, evt[c], d, "start", Nil) : d \in Registered}
    /\ Acknowledge(c)
    /\ UNCHANGED <<conn, stalled, sub, store, expired, budget,
                   saved, base, got, skipped, shadowed>>
-----------------------------------------------------------------------------
(************************ Goroutines of broadcastEvent *********************)
\* NIP-40 and NIP-44: the goroutine ends if the event has expired, or is a
\* direct message and no subscription of the client names its recipient.
Admit(t) ==
    /\ t.at = "start"
    /\ tasks' = (tasks \ {t}) \cup
          IF t.evt \in expired \/ (t.evt \in DirectMessage /\ ~NamesRecipient(t.to, t.evt))
          THEN {} ELSE {Goroutine(t.n, t.evt, t.to, "snapshot", Nil)}
    /\ UNCHANGED <<conn, stalled, sub, at, locals, store, expired, made, budget, history>>

\* GetSubscriptions, and the choice of one matching subscription: the map is
\* iterated in any order and the goroutine returns after the first match.
Snapshot(t) ==
    LET matching == {s \in SubId : Matches(t.to, s, t.evt)} IN
    /\ t.at = "snapshot"
    /\ \/ matching = {} /\ tasks' = tasks \ {t} /\ UNCHANGED shadowed
       \/ \E s \in matching :
            /\ tasks' = (tasks \ {t}) \cup {Goroutine(t.n, t.evt, t.to, "send", s)}
            /\ shadowed' = [shadowed EXCEPT ![t.to] =
                  [r \in SubId |-> IF r \in matching \ {s} THEN @[r] \cup {t.evt} ELSE @[r]]]
    /\ UNCHANGED <<conn, stalled, sub, at, locals, store, expired, made, budget,
                   saved, acked, base, got, skipped>>

\* SendEvent on the subscription of the snapshot, whatever became of it since.
Deliver(t) ==
    /\ t.at = "send" /\ CanSend(t.to)
    /\ tasks' = tasks \ {t}
    /\ got' = IF conn[t.to] = "open" THEN [got EXCEPT ![t.to][t.sid] = @ \cup {t.evt}] ELSE got
    /\ UNCHANGED <<conn, stalled, sub, at, locals, store, expired, made, budget,
                   saved, acked, base, skipped, shadowed>>
-----------------------------------------------------------------------------
(******************************* Environment *******************************)
\* Time passes the expiration of an event.
Expire(e) ==
    /\ e \in Expiring \ expired
    /\ expired' = expired \cup {e}
    /\ UNCHANGED <<conn, stalled, sub, at, locals, store, tasks, made, budget, history>>

\* runRetention, while handlers are running.
RunRetention ==
    /\ store \cap Aged # {}
    /\ store' = store \ Aged
    /\ base' = [c \in Client |-> base[c] \ Aged]
    /\ UNCHANGED <<conn, stalled, sub, at, locals, expired, tasks, made, budget,
                   saved, acked, got, skipped, shadowed>>
-----------------------------------------------------------------------------
\* Steps of the handler of c that wait for no message.
HandlerStep(c) ==
    \/ InstallSub(c) \/ QueryFails(c) \/ SendEOSE(c) \/ DropSub(c)
    \/ \E f \in Filter : QueryFilter(c, f)
    \/ \E e \in Event : SkipExpired(c, e) \/ SendStored(c, e) \/ CapReached(c, e)
    \/ CheckDuplicate(c) \/ SaveEvent(c) \/ StoreFails(c) \/ SendOK(c) \/ Broadcast(c)
    \/ Release(c)

TaskStep(c) == \E t \in tasks : t.to = c /\ (Admit(t) \/ Snapshot(t) \/ Deliver(t))

Next ==
    \/ \E c \in Client :
         \/ Connect(c) \/ StopReading(c) \/ CloseConn(c) \/ Unregister(c)
         \/ \E s \in SubId, F \in FilterLists : ReqArrives(c, s, F)
         \/ \E s \in SubId : CloseSub(c, s)
         \/ \E e \in Event : EventArrives(c, e)
         \/ HandlerStep(c)
         \/ TaskStep(c)
    \/ \E e \in Event : Expire(e)
    \/ RunRetention

Spec == Init /\ [][Next]_vars

\* A goroutine that can run does run, and a send that has room is taken; a send to a
\* peer that reads no more is disabled, and waits for as long as the peer likes.
\* Clients send nothing they need not send, and close nothing.
Fairness == \A c \in Client : WF_vars(HandlerStep(c)) /\ WF_vars(TaskStep(c))

FairSpec == Spec /\ Fairness
-----------------------------------------------------------------------------
(******************************** Properties *******************************)
\* Subscription s of c asks for e; a direct message only counts when the same
\* filter names its recipient, since the broadcast requires that.
Wants(c, s, e) ==
    Open(c, s) /\ \E f \in sub[c][s] : e \in f /\ (e \in DirectMessage => e \in Addressed[f])

\* The answer to a REQ that is being prepared still has e to send.
ViaQuery(c, s, e) ==
    /\ at[c] = "answer" /\ sid[c] = s
    /\ e \in todo[c] \/ \E f \in left[c] : e \in f

\* A broadcast still has e to send to s: its publisher has not come to it, and never
\* will if it reads no more, or its goroutine for c has not chosen another subscription.
ViaBroadcast(c, s, e) ==
    \/ \E p \in Client : at[p] \in {"ack", "broadcast"} /\ evt[p] = e
    \/ \E t \in tasks : t.evt = e /\ t.to = c /\ (t.at = "send" => t.sid = s)

Settled(c, s, e) == e \in got[c][s] \cup skipped[c][s] \cup shadowed[c][s]

\* No gap between the stored events and the live ones: whatever the order of
\* a REQ (install, then query) and of an EVENT (save, then broadcast), an open
\* subscription that wants a stored event has been sent it, or a handler or a
\* goroutine has it in hand.  The exceptions are named: the answer was capped or
\* its query failed, or the broadcast served another subscription of the client.
NoGap ==
    \A c \in Client, s \in SubId, e \in store \ expired :
        conn[c] = "open" /\ Wants(c, s, e) =>
            Settled(c, s, e) \/ ViaQuery(c, s, e) \/ ViaBroadcast(c, s, e)

\* When the EOSE of a REQ goes out, everything that was stored when the
\* subscription was installed (and not removed since) has been sent or was
\* left out by the cap: EOSE is never early.
EoseComplete ==
    \A c \in Client :
        LET s == sid[c] IN
        conn[c] = "open" /\ AnswerSent(c) =>
            \A e \in base[c] \ expired :
                Matches(c, s, e) => e \in got[c][s] \cup skipped[c][s]

\* No client learns of an event before the store has dealt with it: an OK true
\* or a copy of an event means that it was stored, or is ephemeral, or that a
\* newer event of its slot was stored.
SaveBeforeTell ==
    \A e \in acked \cup UNION {got[c][s] : c \in Client, s \in SubId} :
        e \in saved \cup Ephemeral \/ Outdated(e, saved)

\* A connection never has more than MaxSubscriptionsPerClient subscriptions: the last
\* place may be taken, a REQ that replaces a subscription needs none, and CLOSE and
\* closeAfterEOSE make room again.
SubLimit == \A c \in Client : Cardinality(OpenSubs(c)) <= MaxSubs

\* An event sent on a subscription that is not open was already on its way:
\* a goroutine had chosen the subscription before it was closed.
OnlyInFlightAfterClose ==
    [][\A c \in Client, s \in SubId :
         ~Open(c, s) /\ ~Open(c, s)' /\ (\A t \in tasks : t.to = c => t.sid # s)
            => got'[c][s] \subseteq got[c][s]]_vars

\* The publisher of e reads no more and hangs in SendOK, after the save of e and before
\* its broadcast.
PublisherHangs(e) == \E p \in Client : at[p] = "ack" /\ evt[p] = e /\ ~CanSend(p)

\* Every stored event an open subscription wants is eventually sent on it, or one of
\* the named exceptions comes true, or the client gives it up or reads no more, or the
\* publisher's own OK keeps the event from being broadcast.
EventuallyDelivered ==
    \A c \in Client, s \in SubId, e \in Event :
        (conn[c] = "open" /\ Wants(c, s, e) /\ e \in store \ expired)
            ~> \/ Settled(c, s, e) \/ PublisherHangs(e)
               \/ ~Wants(c, s, e) \/ conn[c] # "open" \/ c \in stalled
               \/ e \notin store \ expired

-----------------------------------------------------------------------------
(********************* What the documentation says *************************)
\* CHANGELOG.md:672 "The relay broadcasts new events to all currently connected
\* clients whose active subscriptions match the event", and the comment
\* relay.go:813 "Only send once per subscription": every subscription is served.
EverySubscriptionServed ==
    \A c \in Client, s \in SubId, e \in store \ expired :
        conn[c] = "open" /\ Wants(c, s, e) =>
            \/ e \in got[c][s] \cup skipped[c][s]
            \/ ViaQuery(c, s, e) \/ ViaBroadcast(c, s, e)
=============================================================================
