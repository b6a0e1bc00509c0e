# A TLA+ verification of glienicke

glienicke is a Nostr relay in Go: clients connect over WebSocket, publish signed
events (`EVENT`), and subscribe to events with filters (`REQ`, `CLOSE`, `COUNT`).
This directory holds TLA+ models of the relay, TLC configurations that check them
on small instances, and proofs, checked by TLAPS, of what holds on every instance.

To run: `tlc -config DeliveryGap.cfg MCDelivery`, `tlapm DeliveryProofs.tla`.
`PROJECT.json` lists every run, every theorem, and the source lines each
definition stands for.

- [1. The system](#1-the-system)
- [2. The modules](#2-the-modules)
- [3. Delivery](#3-delivery)
- [4. RateLimiter](#4-ratelimiter)
- [5. SqliteStore](#5-sqlitestore)
- [6. EventStore and MemoryStore](#6-eventstore-and-memorystore)
- [7. EventPipeline](#7-eventpipeline)
- [8. Connection](#8-connection)
- [9. Queries and TagCodec](#9-queries-and-tagcodec)
- [10. What is proved](#10-what-is-proved)
- [11. What the checks found](#11-what-the-checks-found)
- [12. What is not modelled](#12-what-is-not-modelled)

## 1. The system

`cmd/relay/main.go` builds a store (always SQLite; the in-memory one is for tests),
a `relay.Relay`, and an HTTP server. Goroutines: per connection a `readPump` (reads a
message, runs its handler to the end, reads the next) and a `writePump` (writes what
is in `sendCh`); per broadcast, one goroutine for each registered client; one
retention loop; one NIP-36 file watcher.

| Component | State | Operations | What makes it correct |
|---|---|---|---|
| **Publishing, subscribing, broadcast** (`relay.go`, `protocol.go`) | `Relay.clients` (clientsMu), `Client.subscriptions` (subMu) | REQ, CLOSE, EVENT, `broadcastEvent`, register / unregister | no event falls between the stored and the live ones; EOSE is not early; nobody is told of an event that was not saved; limits hold; everything wanted is delivered |
| **WebSocket connection** (`protocol.go`) | `sendCh` (256), `closeCh`, `authPubKey`, the challenge | pumps, `sendMessage`, `Close`, AUTH, `Relay.Close` | no goroutine waits for a client that is gone; one peer does not hold up another; a closed connection goes |
| **Event pipeline** (`relay.go` `HandleEvent`, `protocol.go` `handleEventMessage`, `nips/*`) | none of its own | the chain of validators, deletion (NIP-09), vanish (NIP-62), save, OK, broadcast | the answers to an EVENT agree, and say what was stored |
| **SQLite store** (`sqlite.go`) | tables `events`, `deleted_events`, `channel_events`, `schema_migrations` | SaveEvent, GetEvent, QueryEvents, CountEvents, DeleteEvent, DeleteAllEventsByPubKey, DeleteEventsOlderThan, migrations | what is saved stays; one newest row per pubkey and replaceable kind; only an author deletes |
| **Memory store** (`memory.go`) | maps under one RWMutex | the same interface | implements the same abstract store |
| **Rate limiter** (`relay.go` `checkRate`, `isIPBanned`) | `ipLimiters` (ipLimiterMu) | check a message, check a connection | every window respects the rate; no undeserved rejection; bans last what they should |
| **Filters** (`event.go` `Matches`, `queryFilter`, NIP-50, COUNT) | none | match, select, count | the stored and the live answers to a filter agree |
| **Channels** (`nip28.go`, `nip09.go`, `channel_events`) | channel table | save, hide, mute, delete a channel with its messages | only the owner's deletion cascades |
| **NIP-36 policy** (`nip36.go`) | vocabulary (RWMutex), mtime | test an event, reload the file | a reload takes effect, a failed one changes nothing |
| **Retention** (`runRetention`) | `retentionDays` | hourly DELETE | exempt kinds (0, 3, 10002, 10050) stay |
| **Metrics, health** (`HealthHandler`) | `metrics` | count, report | |
| Encoding and signatures, configuration, NIP-11 document, test clients | none or constant | | |

How they interact: a handler (in `readPump`) calls the rate limiter, then the relay's
handler, which calls the store synchronously and writes to its own `sendCh`;
`broadcastEvent` starts goroutines that read *other* clients' subscriptions and write
to *their* `sendCh`. Shared state is thus the client map, each client's subscription
map, each client's `sendCh`, the limiter map, and the database. Every lock is held for
one map operation; no lock is held across a store call or a send. So the hard part is
what happens **between** lock sections and **between** SQL statements:

* a handler that checks and then acts (subscription limit; duplicate, then save;
  author, then mark; newest, then purge, then insert);
* a goroutine that works on a snapshot (the subscriptions at the time of a broadcast);
* REQ = install + query against EVENT = save + broadcast;
* a crash or a failing statement between two statements of one store call (the store
  opens no transaction);
* blocking: `sendCh` full, `Relay.Close` while clients register;
* boundaries: the bucket's refill in fractions, the end of a ban, `maxEventsPerREQ`.

`PROJECT.json` lists these hazards one by one, each at its line, with the properties
that guard it, or the reason why none does.

## 2. The modules

| Module | Contents | Composition |
|---|---|---|
| `Delivery` | REQ, CLOSE, EVENT and broadcast of any number of connections | a store call is one step |
| `RateLimiter` | token bucket and bans | called before any handler; on its own |
| `SqliteStore` | SaveEvent, DeleteEvent, DeleteAllEventsByPubKey, retention, one action per SQL statement | what a store call of the others is made of |
| `EventStore` | the abstract store: live, dead and unknown events, and the channel table | the interface |
| `MemoryStore` | the in-memory store | implements `EventStore` (`INSTANCE ... WITH`, checked and proved) |
| `EventPipeline` | handleMessage and HandleEvent for EVENT: the order of the tests, NIP-09, NIP-62, NIP-42, every OK | every other store call is an action of an instance of `EventStore`, SaveEvent its statements |
| `Connection` | ServeHTTP, pumps, `sendCh` with its bound, broadcasts, `Relay.Close`, peers that stop reading | what a handler does is a list of sends and broadcasts |
| `Queries` | `Matches`, SELECT, COUNT, NIP-50, channel queries, HandleReq, for both stores | operators applied to the rows of the stores |
| `TagCodec` | how tags are written to and read from SQLite | gives `Queries` the tags an event is read with |

For each module `M` that TLC runs and that needs values for its constants there is an
`MCM`, and for each module with theorems an `MProofs`. None of them has a RECURSIVE
operator. `SqliteStore` is not shown to implement `EventStore`: it does not, once calls
overlap or statements fail, as section 5 makes precise. `EventPipeline` therefore takes
SaveEvent statement by statement (`SaveEvent`, `DiscardOlder` / `FoundNewest`, `Purge`,
`Insert`), with the errors the code ignores, allows each call of the store to fail and,
where a failed call may have done part of its work (`SaveFails` after a purge,
`VanishFails`), that part.

## 3. Delivery

**State.** `conn`, `sub` and the membership test `Registered` are the relay's own
data (`Client.closed`, `Client.subscriptions`, `Relay.clients`); `stalled` are the clients
whose peer has stopped reading; `at`, `sid`, `left`,
`todo`, `sent`, `evt` are the program counter and the locals of the handler that a
connection's `readPump` is running; `tasks` are the goroutines of `broadcastEvent`,
each with the step it is at and the subscription it chose; `store` is what a query
can return; `expired` stands for the clock. `saved`, `acked`, `base`, `got`,
`skipped`, `shadowed` record what has happened and no action reads them.

**Actions.** `Connect`, `CloseConn`, `Unregister`: `ServeHTTP`, `Client.Close`, and the
deferred removal. `StopReading`: the peer reads no more, `writePump` waits in
`WriteMessage` and `sendCh` is full; then every send to the client waits (`CanSend`) until
the connection is closed, and a handler whose *last* message waits is at `hang` until
`Release`. `ReqArrives` (limit check), `InstallSub`, `QueryFilter` (one SELECT
each), `QueryFails`, `SkipExpired` / `SendStored` / `CapReached` (the loop over the
sorted rows), `SendEOSE`, `DropSub`: `handleReqMessage` and `HandleReq`. `CloseSub`:
CLOSE. `EventArrives`, `CheckDuplicate`, `SaveEvent`, `StoreFails`, `SendOK`,
`Broadcast`: `HandleEvent` and the head of `broadcastEvent`. `Admit`, `Snapshot`,
`Deliver`: the body of its goroutine. `Expire`, `RunRetention`: time and the retention
loop. A step ends where the code releases a lock, calls the store or hands over a
message.

**Abstractions.**
* A filter is the set of events it matches, chosen from a constant `Filter`. Filters
  name full ids and pubkeys and carry no limit; then the SELECT returns every stored
  event the filter matches, and maybe more, since it ignores tags: `Answer[f]`, any
  superset of `f`. Prefixes and limits, where the two differ, are in `Queries`.
* A store call is one step. `SaveEvent` discards an event older than the one in its
  slot and still returns nil, as the code does.
* An event has passed validation; deletions and vanish requests are in `EventPipeline`.
  Authentication is off (`requireAuth` false, its default).
* A message counts as sent when `sendCh` takes it on an open connection, which it does
  at once, unless the peer has stopped reading. The messages that `sendCh` still takes
  after that, and how the channel fills and empties, are in `Connection`.
* Requests and publications of a client are bounded by `Budget` (in the guards of
  `ReqArrives` and `EventArrives`); the theorems hold for every budget.

**Properties.**

| Property | Says | Run |
|---|---|---|
| `NoGap` | a stored event that an open subscription wants has been sent on it, or the REQ's answer or a broadcast still will, or a *named* exception holds: the cap, a failed query, or another subscription of the connection was served instead | `limits` |
| `EoseComplete` | at EOSE everything stored when the subscription was installed, and not removed since, has been sent or capped | `limits` |
| `SubLimit` | at most `MaxSubs` subscriptions: the last place may be taken, a replacement needs none, CLOSE and closeAfterEOSE give places back | `limits` |
| `SaveBeforeTell` | whatever a client is told of (OK true, or a copy) the store has dealt with | `limits` |
| `OnlyInFlightAfterClose` | a closed subscription only receives from goroutines that had chosen it before | `gap` |
| `EventuallyDelivered` | each stored event an open subscription wants is eventually sent, or an exception of `NoGap` comes true, or the client gives up or stops reading, or its *publisher* stops reading and hangs in the OK that comes before the broadcast (`PublisherHangs`) | `gap` |
| `TypeOK` | types | `limits` |

**Bounds.** `sam` subscribes and `pat` publishes; each could be any number of clients,
but a broadcast goroutine reads one client's subscriptions only and publishers
meet only in the store, so one of each has all the interleavings of a pair. In `gap` only
`pat` may stop reading (`Silent`): what a subscriber who reads no more is not sent is
excused for every client, so that a silent `sam` would only double the states. Two REQs are
enough to replace or to add a subscription in the middle of a broadcast, two subscription
ids for one to shadow the other, a limit of one for the second REQ to be too many, a cap
of one for the second row to be dropped, two EVENTs for a query to have two rows, or a
duplicate. `limits` publishes two of three events: two versions of a profile and a gift
wrap, which is saved without the check for a duplicate. `gap` publishes one direct
message that expires and that retention removes, while two subscriptions may be open:
`all` matches everything, and `just` one event, whose recipient it names; the SELECT for
`just` returns everything, so rows that match no filter are sent as well. An ephemeral
event, which is broadcast without being stored, is published in `every_subscription`
only: with it `gap` takes five times as long and says the same, and the proofs of section
10 cover it. `SubId` is symmetric, except in `gap`, since symmetry is not sound for
liveness. Deadlock is not checked: once every client has hung up there is nothing left to
do.

**Fairness.** `WF(HandlerStep(c))` and `WF(TaskStep(c))` for each client: the Go
scheduler runs every runnable goroutine. A send to a client that has stopped reading is not
runnable: `CanSend` disables the step, and weak fairness asks nothing of it until the
connection is closed. So the code does not promise delivery whoever publishes: `relay.go:664`
sends the publisher his OK before `relay.go:667` broadcasts, no deadline ends that send, and
an event that is stored stays unsent to everybody for as long as its publisher keeps a full
connection open. TLC finds this behaviour at once if the exception `PublisherHangs` is
dropped. There is no fairness for what clients, the clock or the retention loop do: they may
stop at any time.

## 4. RateLimiter

`known`, `tokens`, `lastRefill`, `violations`, `bannedAt` are `ipLimiters` and the
fields of `ipRateLimiter`; `Admit` and `Reject` are the outcomes of `checkRate`,
`LetIn` is `IsIPBanned` in `ServeHTTP` (it resets a ban that has lapsed). Both run
under one mutex, so each is one step. `checkRate` is called for every message but CLOSE,
by any connection of the address.

The bucket is a `float64` number of messages. Here it is an integer number of units:
`Cost` units make a message, and a tick of the clock is the time in which one unit is
gained. With `Cost = 2` the bucket can hold half a message, so that a refill
which dropped fractions would show (`RefilledWhole`, which `RejectedOnlyOverRate`
refutes). Rounding of the float is not modelled.

`WindowBound`: in **every** window the messages served cost at most
`Burst + length`. An observer starts a window at any time (`Mark`), so the invariant
speaks of all of them. `RejectedOnlyOverRate` is the converse: whoever is rejected has
used all that a burst and the rate since the last full bucket allow. `CleanSlate`,
`BanNotProlonged`: a ban lasts its time, is neither cut short nor renewed by traffic during
it, and takes `BanLimit` new violations to come back.

The run has one address, for no step of one reads or writes the limiter of another,
a burst of two and a half messages, bans after two violations that last three ticks, and
twelve ticks: enough to be banned, let in and banned again. There is always a next
step (`Mark`), so deadlock is checked but says little.

## 5. SqliteStore

Each action is one SQL statement, which SQLite makes atomic and durable. `at` and the
locals are those of the store calls that handlers (`Worker`) have in hand. Statements may
fail and the process may crash between any two (`Faults`); a crash forgets the calls and
keeps the tables. Two errors are ignored by the code and are so here: that of the SELECT
for the newest version (the event then counts as newest) and that of the DELETE.

Saving a replaceable event is a SELECT, a DELETE and an INSERT. What can go wrong between
them is recorded, for each pubkey and kind, in the history variable `disturbed`: another
save *overlap*s, the SELECT fails (*misread*), the DELETE fails (*unpurged*), the call ends
after its DELETE (*interrupted*), or retention removes a version (*retired*). The properties
then say exactly which of these it takes to break a promise:

| Property (run `store`) | Says |
|---|---|
| `OnlyAuthorDeletes` | a mark in `deleted_events` was asked for by the author |
| `GoneForGood` | a deleted event whose row is gone, and that no save in hand has cleared, never comes back |
| `RegularKept` | an accepted event that is not replaceable stays until retention takes it |
| `SlotKept` | not every version of an accepted replaceable event is lost, unless *interrupted* or *retired* |
| `OneRowIfUndisturbed` | one row for each pubkey and replaceable kind, unless *overlap* or *unpurged* |
| `NewestKept` | what is stored is as new as anything SaveEvent returned nil for, unless *overlap*, *misread* or *interrupted* |

Two workers, two versions of one mute list (one of which retention takes) and a note
suffice: the only statements that touch another event's row are the purges, which stay
within a slot. `bob` owns nothing and asks for deletions all the same. `GetEvent` and the
queries only read, and are not actions; `Queries` has them.

## 6. EventStore and MemoryStore

`EventStore` has three variables: `live` (GetEvent finds the event), `dead` (GetEvent and
SaveEvent refuse it) and `channel` (rows of the channel table). Where the two
implementations differ both outcomes are allowed: a replaced or retired event is
remembered as dead in memory and forgotten by SQLite, a channel event without a channel id
is an error in memory only.

Every method of `memory.go` holds the store's mutex from beginning to end, so each is one
action. `events` and `deleted` are the keys of its maps, and `live` is their difference.
The loop of SaveEvent walks a map: the versions it marks before it meets a newer one are
any subset (`R` in `SaveEvent`). It does not skip the event it is saving: a live
replaceable event that is saved a second time is compared with itself, marked as deleted
and stored, so that GetEvent does not find it and it can never be saved again. The
relay's check for a duplicate hides this except when two connections publish it at the same
time. `NewestLive` names this exception (`disturbed`), `EventStore` has it as `SaveAgain`.

`KeepsPromise` is the refinement: every call is a step of `EventStore` or changes nothing
the relay can see. The run has three versions of a profile, a note, a channel message and
its hiding, of two authors.

## 7. EventPipeline

One handler per connection, its program counter in `at`, the event in `evt`, the targets of
a deletion not yet dealt with in `todo`, and the OKs sent so far in `told`. A step is a call
of the store, or the tests of the event alone, which change nothing that another
handler sees. The order of HandleEvent is kept: AUTH; NIP-36, which refuses with a nil
error; the validators of the kinds; ephemeral events; expiration; deletion; vanish; gift
wraps, which skip the check for a duplicate; save; the second save of a channel event; OK.
`Finish` is the return into `handleEventMessage`, which adds the last OK: true if the
error was nil. A deletion handles one target at a time with two or three calls: GetEvent,
for an event that defines a channel DeleteChannelEvents, and then DeleteEvent, which is the
first to look at the author.

SaveEvent is the four statements of `sqlite.go:269-326`: the SELECT from `deleted_events`,
for a replaceable event the SELECT of the newest version, whose error counts as "none is
newer", and the DELETE of every other version, however new, whose error is ignored, and the
INSERT. Between any two the other handler may do anything, so that an older version whose
SELECT is stale purges a newer one that was accepted. The history variable `disturbed` holds
the pubkey-and-kind pairs where that may have happened: a SELECT that failed, or an INSERT of
a newer version while another save stood between its SELECT and its DELETE (`Overtaken`).
The in-memory store saves in one step, which is the case where the four follow each other;
the versions it remembers as dead are the choice in `Purge`.

What a validator looks at in an event's content, a wrong signature, an unwelcome word are
constant sets (`Malformed`, `Invalid`, `Unwelcome`, `Expired`, `Here`). `RateLimited` may
refuse any message but AUTH events, which the budget exempts, too.

| Property (run `pipeline`) | Says |
|---|---|
| `KeptOrExplained` | an event that was answered OK true is stored, unless its author retracted it, a version as new replaced it (or it was saved twice), a save misjudged which version is newest (`Misjudged`: its SELECT failed or was overtaken), or it is too old |
| `VanishHonest` | who is told OK true for a Request to Vanish has none of the events left that were alive when it arrived, unless the request names other relays only (`nip62.go:72`: answered "processed", nothing deleted); a version that had been replaced may be published again |
| `NoSilentSave` | no event is refused and stored: a stored event was accepted, or its handler is about to accept it |
| `ChannelComplete` | a live channel event is in the channel table, unless the second save failed or a deletion, *of anyone*, named an event that defines the channel |
| `OnlyPolicyContradicts` | the OKs of one event agree, unless NIP-36 refused it |

Run `pipeline_ok` shows that `AnswersAgree`, without that exception, fails. `pipeline` has
two connections that publish two events each of fifteen, one or more for every path
through HandleEvent, after logging in; two events each make a deletion meet a save, a
save meet its duplicate or another version at any of its statements, and a vanish request
meet any of them. (What a validator refuses takes the branch that an expired event takes; it is
published in `pipeline_ok`.)

## 8. Connection

`serving` is where ServeHTTP is for a client, `reader` and `writer` where its pumps are,
`job` the sends and broadcasts left to the handler the read pump is in, `waiting[c]` how
many goroutines of broadcastEvent are in SendEvent to `c`, `closed` what `Client.Close` does,
`relay` and `left` the loop of `Relay.Close`, which holds clientsMu. `Put` is the select of
every Send method: into the channel if there is room, an error if the client is closed,
either if both, and the caller waits if neither. The write pump's `WriteMessage` has no
deadline: it blocks as long as the peer does not read (`peer = "stopped"`: the buffers of
the kernel are full).

The pumps also select on the request's context. It is done only when ServeHTTP returns,
since the connection is hijacked, and by then the pumps have ended; those branches are
never taken and are left out. `Client.Close` is one step (its lock, channel and connection
are touched by it alone). A handler is a list of sends and broadcasts: none (CLOSE), one
(COUNT, refusals), two (REQ with an event), or send, broadcast, send (an accepted EVENT).

| Property (run `connection`) | Says |
|---|---|
| `NobodyStranded` | a goroutine only waits for a client that is registered or closed, so somebody can release it |
| `CloseIsComplete` | when Relay.Close returns, every client registered at that moment is closed: none slipped in behind its loop |
| `Responsive` | the handler of a client, and a broadcast to it, come to an end whatever the peers of the *other* clients do, unless its own peer has stopped reading |
| `ClosedIsGone` | a client whose peer drops the connection, or that Relay.Close finds, is eventually unregistered with both pumps ended, even if the pumps wait for each other on a full channel |

**Fairness.** Weak fairness of each goroutine: readPump within a handler, writePump,
ServeHTTP, the senders of a broadcast, Relay.Close. Go schedules every runnable goroutine,
and a select takes a ready branch. Strong fairness would be needed for a send that competes
for the same room with endless traffic; here the messages are bounded by `Budget`, and in
the code Go serves the waiters of a channel in order. Nothing is assumed of peers, and
nobody need call Relay.Close.

**Bounds.** Two clients; `beta`'s peer may stop reading, read again and leave, `alpha`'s
reads. A channel of one message (`Room`) and one message of each peer make both the client's
own handler and the broadcasts meet a full channel. `sendCh` holds 256 in the code; the
theorems hold for any capacity. Deadlock is not checked, as a relay whose peers are silent
has nothing to do; what must not come to a stop is in the liveness properties.

A client that never reads and never closes keeps its senders waiting: their number grows
with each broadcast that matches. This is what `Responsive` excepts.

## 9. Queries and TagCodec

A state is what the two stores hold (`rows`, `gone`, `room`; both are given the same
events) and at most one request with its answers: `answer` and `count` on SQLite, `memory`
and `distinct` in memory. The action `Ask` applies `HandleReq` to it, which chooses
the channel query, the search or the plain query, drops what has expired and cuts at
maxEventsPerREQ. Orders that the code leaves open (ties of created_at under `ORDER BY ...
LIMIT`, map iteration) are sets of sequences. A string is a sequence of characters, so that
prefixes, substrings and the splitting of tags are what they are in the code. Left out:
the folding of case in a search, blanks, negative limits (SQLite and the loops take them for
none), and the JSON of a filter. The stores hold the events themselves; `Read` is what
parseTagsJSON makes of the tags that SaveEvent wrote, and what a search and the expiration
see of an event that comes from SQLite.

| Property (run `queries`) | Says |
|---|---|
| `Complete` | the SELECT misses no live event that `Matches` accepts for a subscription with the same filters, unless the answer is cut; then everything sent is at least as new |
| `InOrder` | newest first, no event twice, within the limit of the first filter; a channel query is by the order of its kinds |
| `StoresAgree` | for a filter without tags, with nothing deleted, both stores count the same and their answers differ only among events of the same age; SQLite never counts fewer than there are |
| `SearchComplete` | the limit comes before the search: an event the search fits is missing only behind as many rows as the limit that are no older, whether the search fits them or not, or from an answer that is full |
| `RoomComplete` | a channel request without limit misses no event of the channel that its filter matches and that is not deleted |
| `TagsSurvive` | an event comes back with its tags, if they have no comma or bracket; quotes and backslashes survive |

The conditions of these properties are where the code's two halves disagree, each found by
TLC and left as it is:

* the SELECT looks neither at tags nor at `deleted_events`, so a stored answer may hold
  more than was asked for, and what was deleted (run `queries_deleted`);
* a search with limit `n` looks at the `n` newest rows the rest of the filter selects, and
  may come back empty though older events fit;
* `ids` and `authors` are compared by prefix in `Matches` and for equality in the SELECT; an
  empty list matches everything in one and nothing in the other (`Exact`);
* the limit of the first filter cuts the union of all; an event that has expired takes a
  place of the limit and is then dropped;
* COUNT on SQLite adds up the filters, so an event that two of them match counts twice, and
  counts deleted events;
* a channel query ignores `ids` and `authors`, takes since, until and limit from the last
  filter that has one, and returns deleted messages, which stay in the channel table;
* a comma or bracket in a tag takes the tag apart when it is read back.

Five events: a note with tags (one value with a quote), a note of the same age with a comma in a
tag, an expired one, a channel and a message in it. Seventeen requests: one for each clause
of a filter and each branch of HandleReq, and pairs of filters where one's limit or search meets
another.

## 10. What is proved

The modules ending in `Proofs` hold machine-checked proofs for every value of the constants that
satisfies the assumption named in the module (`DeliveryAssumption` and so on): any number
of clients, subscriptions, events, filters and workers, any limits, rates and capacities.

| Theorem | Argument |
|---|---|
| Delivery `TypeCorrect` | inductive as it stands, one step per action |
| `NoGapCorrect` | `NoGap` names every place where an event can be (sent, in the answer, in a broadcast) and is inductive with `Fresh` (a connection that has not started has no subscription and no handler), without which `Connect` could reveal a gap. One step per action: what takes the event out of one place puts it in another |
| `EoseCompleteCorrect` | from `Answering` and `Accounted`: while an answer is prepared, each event of `base` that the subscription matches is sent, left out, among the rows in hand, or matched by a filter still to be queried |
| `SaveBeforeTellCorrect` | from `Traced`: whatever a handler or a goroutine carries past the save, and every row in hand, is already saved, ephemeral or outdated. Outdated persists because `saved` only grows |
| `SubLimitCorrect` | from `Room`: between the check and the insertion the handler's own connection has a free place or replaces, as no other handler adds to its map |
| `OnlyInFlightAfterCloseCorrect` | from `AnswerHeld`: while a REQ is answered its own subscription stays open, as a CLOSE waits for readPump; so what a closed subscription receives comes from a goroutine that had chosen it before |
| RateLimiter `WindowCorrect` | from `Potential`: what the bucket would hold now counts as if it had been spent. A message moves units from bucket to `spent`; a tick adds at most one to each side. `WindowBound` alone says nothing of the bucket, so a step could break it |
| `RejectedOnlyOverRateCorrect` | from `Balance`, the books of a bucket since it was last full: what is in it and what has been spent since are a full bucket and what the time since has added. An empty bucket thus means that the rate was used up |
| `CleanSlateCorrect`, `BanNotProlongedCorrect` | with the invariant that no stored time is in the future |
| SqliteStore `OnlyAuthorDeletesCorrect` | from `Cleared`: a worker past the author check is the author and asked, a worker before it asked, and the ids of a vanish in hand belong to the pubkey that vanishes |
| `RegularKeptCorrect` | from `Purging`: only a replaceable event is ever at the purge |
| `GoneForGoodCorrect` | action property from `TypeOK`: only an insert adds a row, and only a save that had passed the check inserts |
| `SlotKeptCorrect` | a worker that has purged is about to insert, and everything that keeps it from doing so is recorded |
| `OneRowCorrect`, `NewestKeptCorrect` | with what a save that nobody disturbed knows of the rows after its SELECT and after its DELETE |
| MemoryStore `OneLivePerSlotCorrect`, `NewestLiveCorrect` | a slot has one live version at most, so the loop meets one event and the order of the map does not matter |
| `KeepsPromiseCorrect` | the refinement: each call maps to a call of `EventStore` or a stutter, by the two invariants "only known events are marked" and "a channel event is filed under its own channel" |
| EventPipeline `KeptCorrect`, `NoSilentSaveCorrect`, `VanishHonestCorrect`, `ChannelCompleteCorrect`, `OnlyPolicyContradictsCorrect` | from an invariant that says, for each place of a handler, what it has submitted and told so far and what the store owes to it; one lemma per group of actions. `KeptCorrect` and `VanishHonestCorrect` also need `Saving` (what a handler between two statements of SaveEvent has submitted) and `PurgeSound`: at its purge a save has before it no version newer than its own, or `disturbed` says so. `Deaths` then lists all that can take an event from `live` |
| Connection `NobodyStrandedCorrect`, `CloseIsCompleteCorrect` | from `Phases` (where ServeHTTP is tells whether the client is registered and has pumps), `EndedIsClosed` (a pump that has returned has closed the client) and `Passed` (nobody registers while the loop runs) |
| Queries `SelectCovers`, `QueryEventsCorrect` | about the operators, for every state: for exact filters the WHERE clause selects whatever `Matches` accepts; an answer is newest first, within the first limit, and without limits misses nothing |
| `TypeCorrect` | with `Stored`, the invariant of a state without a request: the channel table and the deleted ids are among the rows, and nothing is answered. A request is answered in one step, so each property of an answer follows from `Stored` and from what the operators of that step return |
| `InOrderCorrect` | from `SortedFacts`, `CutKeeps` (the front of a sequence keeps order and distinctness) and `PickedKeeps` (so does what a loop keeps of it) |
| `CompleteCorrect` | an event that a filter matches is selected; what the limit of that filter or the cut drops is no newer than what stays (`NewestFacts`, `CutOff`) |
| `StoresAgreeCorrect` | both answers are the first of one order of the same set, up to ties. Two such lists of the same length agree on every event that is not as old as the last one: else a pigeonhole argument gives a list one event too many (`LeadingAgree`). COUNT adds the filters up, and a sum over filters is no less than the union (`CountFacts`, `MaxOfSome`) |
| `SearchCompleteCorrect` | what the search fits is among the rows the store returned, where `FoundFacts` keeps it and `SentKept` cuts it, or it is not; then `QueryMisses` counts: the rows returned are as many as the limit, all selected, none older, and the event itself is one more |
| `RoomCompleteCorrect` | `RoomFacts` and `ChannelFacts`: without a limit the channel query cuts nothing |
| TagCodec `RoundTrip` | follows every character to where it is written. A joined list has its commas at the places `e[i]` (`JoinedAt`), and splitting there gives the strings again (`SplitAt`). In a tag these are all the commas there are (`CommasAt`); in the list of tags they are those at depth 0, as many tags are closed before them as are open, while one more is open before a comma of a tag (`DepthAt`). `Unescape` keeps the last character of each block that `Escape` wrote (`UnescapeEscape`) |
| Queries `TagsSurviveCorrect` | what is answered is a row (`TypeOK`), and its tags come back by `RoundTrip` |

Induction over a predicate is not available: the library's induction theorems take an operator
as a parameter, which the provers cannot instantiate. The proofs about TagCodec and Queries
replace it by two lemmas of the first order, in `TagCodecProofs`: `SetInduction`, about the set of the numbers for which
something holds, and `PrimitiveRecursion`, which says that a recursive function on 0..n that
is defined by its predecessor satisfies its definition. With them the recursive sum of a
COUNT and the flattening of lists are treated like any other function.

`RoundTrip` needs its condition: with a comma or a bracket in a part the tags that come back
are others, as section 9 says. It needs nothing else: parts may be empty or hold quotes
and backslashes in any order, a tag may have no part, and there may be no tag.

Only model-checked: `EventuallyDelivered`, `Responsive` and `ClosedIsGone`, because liveness
and `ENABLED` are out of the provers' reach.

## 11. What the checks found

Runs that end in a violation, each of a statement of the repository:

* `every_subscription`: a client with two matching subscriptions gets a live event on
  one of them only (`relay.go:813`); `NoGap` therefore names this exception.
* `store_overlap`: two overlapping saves leave two versions of a replaceable event.
* `queries_deleted`: a REQ returns an event that its author has deleted
  (`sqlite.go:430` selects from `events` alone).
* `pipeline_ok`: an event that NIP-36 rejects is answered OK false and then OK true
  (`relay.go:528`, `protocol.go:298`).

Smaller disagreements show in the models without a run of their own. An event can arrive on
a subscription after its CLOSE, when its goroutine had taken its snapshot before
(`OnlyInFlightAfterClose` is as much as holds; CHANGELOG.md:667 promises none). Two
connections that publish one event at the same time both pass the check for a duplicate,
save it and broadcast it (CHANGELOG.md:650 says it is not saved again). A deletion of
somebody else's channel is refused, but the channel's rows are gone from the channel table
(`ChannelComplete`). A deletion is answered OK true, where CHANGELOG.md:640 says that no OK
is sent. A Request to Vanish that names another relay is answered OK true, "Request to
Vanish processed", and is not stored (`relay.go:606-613`), where CHANGELOG.md:377 says that
it is "ignored but still accepted and stored". An older version can purge a newer one that
was answered OK true (`KeptOrExplained`, exception `Misjudged`), and an event whose
publisher does not read is not broadcast (`EventuallyDelivered`, exception
`PublisherHangs`). A crash between the DELETE and the INSERT of SaveEvent loses both
versions (`NewestKept`, cause *interrupted*). The health report's check of the database is a
CountEvents without filters, which returns 0 without asking the database (`sqlite.go:721`).

## 12. What is not modelled

* Hashing, signatures and encryption (NIP-01 ids, NIP-04, NIP-17, NIP-44, NIP-59): no
  state and nothing to interleave. What fails them is `Invalid` in `EventPipeline`.
* What the validators of NIP-02, 22, 25, 28, 36, 42, 62 and 65 test of an event's content:
  a constant set each. NIP-56's has no caller in the relay.
* The watcher that reloads the NIP-36 vocabulary: it swaps one pointer under a lock, by
  the modification time of a file.
* Migrations: `CREATE ... IF NOT EXISTS` statements run before there is a handler, which
  may be applied twice without effect.
* Metrics and health: counters that nothing else reads. Two reports at once write the
  same fields under a read lock, a data race that changes a reported rate.
* The NIP-11 document, configuration, flags, logging; test clients and load tests.
* `SaveEvents`, `PruneDeletedEvents`, `Vacuum`, `GetStats`, `GetChannelEvent`,
  `GetChannelMetadata`, `ListChannels` and `SetRetentionDays` have no caller in the program.
* `ipLimiters` and the senders waiting for a client that never reads grow without bound:
  no check could call a finite growth wrong, so they are recorded among the hazards.
