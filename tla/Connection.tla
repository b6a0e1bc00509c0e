----------------------------- MODULE Connection -----------------------------
(***************************************************************************)
(* The life of a WebSocket connection: ServeHTTP upgrades and registers a  *)
(* client and runs its two pumps; the read pump handles one message at a   *)
(* time and puts the answers in the bounded channel sendCh, the write pump *)
(* takes them out and writes them to the peer; an event is broadcast by a  *)
(* goroutine for each registered client; Relay.Close closes the clients.   *)
(* The peer may stop reading, read again, or drop the connection; a peer   *)
(* that does not read lets WriteMessage block, there being no deadline.    *)
(*                                                                         *)
(* What is handled is Delivery and EventPipeline; here a message is the    *)
(* sends and broadcasts its handler makes.  The request's context is done  *)
(* only when ServeHTTP returns (the connection is hijacked), so the ctx    *)
(* branches of the pumps are never taken.                                  *)
(***************************************************************************)
EXTENDS Naturals, Sequences

CONSTANTS
    Client,
    Room,         \* capacity of sendCh, 256 in the code
    Budget,       \* bound: messages each peer sends
    RequireAuth,  \* Relay.requireAuth
    Fickle        \* bound: clients whose peers may stop reading or leave

ASSUME ConnectionAssumption ==
    /\ Room \in Nat \ {0}    \* SendAuth comes before there is a write pump
    /\ Budget \in Nat
    /\ RequireAuth \in BOOLEAN
    /\ Fickle \subseteq Client

VARIABLES
    clients,   \* Relay.clients
    serving,   \* where ServeHTTP is for each client
    reader,    \* where the read pump is
    writer,    \* where the write pump is
    job,       \* sends and broadcasts left to the handler the read pump is in
    sendCh,
    waiting,   \* broadcast goroutines in SendEvent to the client
    closed,    \* Client.Close was called: closeCh and the connection are closed
    peer,      \* what the other end does
    relay,     \* Relay.Close: not called, in its loop with clientsMu, returned
    left,      \* clients its loop has still to close
    budget

vars == <<clients, serving, reader, writer, job, sendCh, waiting, closed, peer, relay,
          left, budget>>
pumps == <<reader, writer, job>>
around == <<peer, relay, left, budget>>

Message == {"auth", "other"}
Step == {"send", "broadcast"}

\* What the handlers of CLOSE, COUNT (or of a message refused with a notice),
\* REQ and EVENT do: an event that is accepted is answered, broadcast and
\* answered again.  Abstracted: REQ sends any number of events, and an ephemeral
\* event is broadcast before either answer.
Handling == {<< >>, <<"send">>, <<"send", "send">>, <<"send", "broadcast", "send">>}

TypeOK ==
    /\ clients \subseteq Client
    /\ serving \in [Client -> {"absent", "upgraded", "started", "gone"}]
    /\ reader \in [Client -> {"idle", "reading", "handling", "ended"}]
    /\ writer \in [Client -> {"idle", "select", "writing", "ended"}]
    /\ job \in [Client -> Seq(Step)]
    /\ \A c \in Client : reader[c] = "handling" => job[c] # << >>
    /\ sendCh \in [Client -> Seq(Message)] /\ \A c \in Client : Len(sendCh[c]) <= Room
    /\ waiting \in [Client -> Nat]
    /\ closed \in [Client -> BOOLEAN]
    /\ peer \in [Client -> {"reads", "stopped", "left"}]
    /\ relay \in {"serving", "closing", "closed"} /\ left \subseteq Client
    /\ budget \in [Client -> 0..Budget]

Init ==
    /\ clients = {}
    /\ serving = [c \in Client |-> "absent"]
    /\ reader = [c \in Client |-> "idle"] /\ writer = [c \in Client |-> "idle"]
    /\ job = [c \in Client |-> << >>] /\ sendCh = [c \in Client |-> << >>]
    /\ waiting = [c \in Client |-> 0]
    /\ closed = [c \in Client |-> FALSE]
    /\ peer = [c \in Client |-> "reads"]
    /\ relay = "serving" /\ left = {}
    /\ budget = [c \in Client |-> Budget]

-----------------------------------------------------------------------------
(* Sending and closing *)

\* The select of every Send method: the message goes into the channel if there
\* is room, or the method returns an error if the client is closed.  When both
\* are possible either happens; when neither is, the caller waits.
\* Mutants: a plain send, which does not see that the client is closed; a channel
\* of another capacity.
PutBeyond(c, msg) == sendCh' = [sendCh EXCEPT ![c] = Append(@, msg)]
PutAnyway(c, msg) == Len(sendCh[c]) < Room /\ sendCh' = [sendCh EXCEPT ![c] = Append(@, msg)]
Put(c, msg) ==
    \/ Len(sendCh[c]) < Room /\ sendCh' = [sendCh EXCEPT ![c] = Append(@, msg)]
    \/ closed[c] /\ UNCHANGED sendCh

\* Client.Close, which does something the first time only.  Mutant: closeCh is not
\* closed with the connection.
ForgetCloseCh(c) == UNCHANGED closed
Close(c) == closed' = [closed EXCEPT ![c] = TRUE]

\* Nobody holds clientsMu for longer than a step but Relay.Close.
Unlocked == relay # "closing"

-----------------------------------------------------------------------------
(* ServeHTTP *)

\* NewClient, and SendAuth if the relay wants authentication.
Upgrade(c) ==
    /\ serving[c] = "absent"
    /\ serving' = [serving EXCEPT ![c] = "upgraded"]
    /\ sendCh' = [sendCh EXCEPT ![c] = IF RequireAuth THEN <<"auth">> ELSE << >>]
    /\ UNCHANGED <<clients, pumps, waiting, closed, around>>

\* The client is registered and Client.Start launches its pumps.
\* Mutant: without the lock.
Launch(c) ==
    /\ clients' = clients \cup {c}
    /\ serving' = [serving EXCEPT ![c] = "started"]
    /\ reader' = [reader EXCEPT ![c] = "reading"]
    /\ writer' = [writer EXCEPT ![c] = "select"]
    /\ UNCHANGED <<job, waiting, closed, around>>
RegisterAnyTime(c) == serving[c] = "upgraded" /\ Launch(c) /\ UNCHANGED sendCh
Register(c) == serving[c] = "upgraded" /\ Unlocked /\ Launch(c) /\ UNCHANGED sendCh

\* Start waits for both pumps; then the deferred function, whose own Close has
\* nothing left to do.
Unregister(c) ==
    /\ serving[c] = "started" /\ reader[c] = "ended" /\ writer[c] = "ended" /\ Unlocked
    /\ clients' = clients \ {c}
    /\ serving' = [serving EXCEPT ![c] = "gone"]
    /\ Close(c)
    /\ UNCHANGED <<pumps, sendCh, waiting, around>>

-----------------------------------------------------------------------------
(* The read pump *)

Read(c, where) ==
    /\ reader' = [reader EXCEPT ![c] = where]
    /\ UNCHANGED <<clients, serving, writer, peer, relay, left>>

\* The handler has steps left, or it returns and the pump looks at closeCh before
\* it reads again.
Continue(c, rest) ==
    /\ job' = [job EXCEPT ![c] = rest]
    /\ Read(c, IF rest # << >> THEN "handling" ELSE IF closed[c] THEN "ended" ELSE "reading")

\* A message that was buffered is returned even if the connection is closed by now.
ReadMessage(c) ==
    /\ reader[c] = "reading" /\ budget[c] > 0
    /\ budget' = [budget EXCEPT ![c] = @ - 1]
    /\ \E h \in Handling : Continue(c, h)
    /\ UNCHANGED <<sendCh, waiting, closed>>

\* The pump returns, and its deferred Close closes the client.
ReadFails(c) ==
    /\ reader[c] = "reading" /\ (closed[c] \/ peer[c] = "left")
    /\ Read(c, "ended") /\ Close(c)
    /\ UNCHANGED <<job, sendCh, waiting, budget>>

At(c, step) == reader[c] = "handling" /\ Head(job[c]) = step

Answer(c) ==
    /\ At(c, "send")
    /\ Put(c, "other")
    /\ Continue(c, Tail(job[c]))
    /\ UNCHANGED <<waiting, closed, budget>>

\* broadcastEvent starts a goroutine for each registered client, of which those
\* with a subscription that matches send.  Mutant: the handler waits for room in
\* the channels itself.
WaitForRoom(known) ==
    /\ \A d \in known : Len(sendCh[d]) < Room \/ closed[d]
    /\ \E to \in SUBSET known :
          waiting' = [d \in Client |-> waiting[d] + IF d \in to THEN 1 ELSE 0]
StartSenders(known) == \E to \in SUBSET known :
    waiting' = [d \in Client |-> waiting[d] + IF d \in to THEN 1 ELSE 0]

Broadcast(c) ==
    /\ At(c, "broadcast") /\ Unlocked
    /\ StartSenders(clients)
    /\ Continue(c, Tail(job[c]))
    /\ UNCHANGED <<sendCh, closed, budget>>

-----------------------------------------------------------------------------
(* The write pump *)

Write(c, where) ==
    /\ writer' = [writer EXCEPT ![c] = where]
    /\ UNCHANGED <<clients, serving, reader, job, waiting, peer, relay, left, budget>>

\* The select of writePump: one of the branches that are ready.
SeeClosed(c) ==
    /\ writer[c] = "select" /\ closed[c]
    /\ Write(c, "ended")
    /\ UNCHANGED <<sendCh, closed>>
Take(c) ==
    /\ writer[c] = "select" /\ sendCh[c] # << >>
    /\ Write(c, "writing")
    /\ sendCh' = [sendCh EXCEPT ![c] = Tail(@)]
    /\ UNCHANGED closed

WriteMessage(c) ==
    /\ writer[c] = "writing" /\ peer[c] = "reads" /\ ~closed[c]
    /\ Write(c, "select")
    /\ UNCHANGED <<sendCh, closed>>

\* The error ends the pump, and its deferred Close closes the client.
WriteFails(c) ==
    /\ writer[c] = "writing" /\ (closed[c] \/ peer[c] = "left")
    /\ Write(c, "ended") /\ Close(c)
    /\ UNCHANGED sendCh

\* A goroutine of broadcastEvent ends its SendEvent.
Deliver(c) ==
    /\ waiting[c] > 0
    /\ Put(c, "other")
    /\ waiting' = [waiting EXCEPT ![c] = @ - 1]
    /\ UNCHANGED <<clients, serving, pumps, closed, around>>

-----------------------------------------------------------------------------
(* Relay.Close and the peers *)

CloseBegins ==
    /\ relay = "serving"
    /\ relay' = "closing" /\ left' = clients
    /\ UNCHANGED <<clients, serving, pumps, sendCh, waiting, closed, peer, budget>>

\* One round of the loop.
CloseOne(c) ==
    /\ c \in left
    /\ left' = left \ {c}
    /\ Close(c)
    /\ UNCHANGED <<clients, serving, pumps, sendCh, waiting, peer, relay, budget>>

CloseReturns ==
    /\ relay = "closing" /\ left = {}
    /\ relay' = "closed"
    /\ UNCHANGED <<clients, serving, pumps, sendCh, waiting, closed, peer, left, budget>>

\* External: a peer stops reading from its socket and the buffers are full, reads
\* again, or drops the connection.
PeerTurns(c) ==
    /\ c \in Fickle /\ serving[c] = "started" /\ peer[c] # "left"
    /\ \E does \in {"reads", "stopped", "left"} \ {peer[c]} : peer' = [peer EXCEPT ![c] = does]
    /\ UNCHANGED <<clients, serving, pumps, sendCh, waiting, closed, relay, left, budget>>

\* What each goroutine does by itself; a peer's message is not one of these.
Reading(c) == ReadFails(c) \/ Answer(c) \/ Broadcast(c)
Writing(c) == SeeClosed(c) \/ Take(c) \/ WriteMessage(c) \/ WriteFails(c)
Serving(c) == Register(c) \/ Unregister(c)
Closing == (\E c \in Client : CloseOne(c)) \/ CloseReturns

Next ==
    \/ \E c \in Client : \/ Reading(c) \/ Writing(c) \/ Serving(c) \/ Deliver(c)
                         \/ Upgrade(c) \/ ReadMessage(c) \/ PeerTurns(c)
    \/ Closing \/ CloseBegins

Spec == Init /\ [][Next]_vars

\* Each goroutine takes the step it can take, the runtime being fair to all;
\* nothing is assumed of the peers, nor that Relay.Close is called.
FairSpec ==
    /\ Spec
    /\ \A c \in Client : /\ WF_vars(Reading(c)) /\ WF_vars(Writing(c))
                         /\ WF_vars(Serving(c)) /\ WF_vars(Deliver(c))
    /\ WF_vars(Closing)

-----------------------------------------------------------------------------
(* Properties *)

\* A goroutine that waits to send to a client can be released by that client:
\* it is registered still, or closed.
NobodyStranded == \A c \in Client : waiting[c] > 0 => c \in clients \/ closed[c]

\* Relay.Close returns when every client that is registered at that moment is closed.
CloseIsComplete ==
    [][relay = "closing" /\ relay' = "closed" => \A c \in clients : closed[c]]_vars

\* The handler of a client whose peer reads comes to an end whatever the peers of
\* the other clients do, and so does a broadcast to it.
Responsive == \A c \in Client :
    /\ reader[c] = "handling" ~> (reader[c] # "handling" \/ peer[c] = "stopped")
    /\ waiting[c] > 0 ~> (waiting[c] = 0 \/ peer[c] = "stopped")

\* A client whose peer drops the connection, or that Relay.Close finds, goes: even
\* if its pumps wait for each other on a full channel, or its peer does not read.
ClosedIsGone == \A c \in Client : (peer[c] = "left" \/ c \in left) ~> serving[c] = "gone"
=============================================================================
