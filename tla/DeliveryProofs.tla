--------------------------- MODULE DeliveryProofs ---------------------------
(***************************************************************************)
(* Theorems about Delivery, for every value of its constants.              *)
(***************************************************************************)
EXTENDS Delivery, FiniteSetTheorems, TLAPS

\* Every variable keeps its type: in particular a handler that answers a REQ
\* has a subscription id and one that publishes has an event.
LEMMA TypeInductive == TypeOK /\ [Next]_vars => TypeOK'
<1> SUFFICES ASSUME TypeOK, [Next]_vars PROVE TypeOK'
  OBVIOUS
<1> USE DeliveryAssumption DEF TypeOK, history, locals
<1>1. ASSUME NEW c \in Client, Connect(c) \/ CloseConn(c) \/ Unregister(c) PROVE TypeOK'
  <2>1. PICK from, to \in {"new", "open", "closed", "gone"} : SetConn(c, from, to)
    BY <1>1 DEF Connect, CloseConn, Unregister
  <2> QED BY <2>1 DEF SetConn
<1>2. ASSUME NEW c \in Client, NEW s \in SubId, NEW F \in FilterLists, ReqArrives(c, s, F)
      PROVE TypeOK'
  <2>1. budget' \in [Client -> [req : Nat, pub : Nat]]
    BY <1>2 DEF ReqArrives
  <2>2. CASE LastMessage(c)
    BY <1>2, <2>1, <2>2 DEF ReqArrives, LastMessage, Return, Forget, Goto
  <2>3. CASE /\ Goto(c, "install") /\ sid' = [sid EXCEPT ![c] = s]
             /\ left' = [left EXCEPT ![c] = F] /\ UNCHANGED <<todo, sent, evt>>
    BY <1>2, <2>1, <2>3 DEF ReqArrives, Goto
  <2> QED BY <1>2, <2>2, <2>3 DEF ReqArrives
<1>24. ASSUME NEW c \in Client, StopReading(c) PROVE TypeOK'
  BY <1>24 DEF StopReading
<1>3. ASSUME NEW c \in Client, InstallSub(c) PROVE TypeOK'
  BY <1>3 DEF InstallSub, Goto
<1>4. ASSUME NEW c \in Client, NEW f \in Filter, QueryFilter(c, f) PROVE TypeOK'
  BY <1>4 DEF QueryFilter
<1>5. ASSUME NEW c \in Client, QueryFails(c) PROVE TypeOK'
  BY <1>5 DEF QueryFails, LastMessage, Return, Forget, Goto
<1>6. ASSUME NEW c \in Client, NEW e \in Event, SkipExpired(c, e) PROVE TypeOK'
  BY <1>6 DEF SkipExpired
<1>7. ASSUME NEW c \in Client, NEW e \in Event, SendStored(c, e) PROVE TypeOK'
  BY <1>7 DEF SendStored, NextStored
<1>8. ASSUME NEW c \in Client, NEW e \in Event, CapReached(c, e) PROVE TypeOK'
  BY <1>8 DEF CapReached, NextStored
<1>9. ASSUME NEW c \in Client, SendEOSE(c) PROVE TypeOK'
  <2>1. CASE Goto(c, "drop") /\ UNCHANGED locals
    BY <1>9, <2>1 DEF SendEOSE, AnswerSent, Goto
  <2>2. CASE Return(c)
    BY <1>9, <2>2 DEF SendEOSE, Return, Forget, Goto
  <2> QED BY <1>9, <2>1, <2>2 DEF SendEOSE
<1>10. ASSUME NEW c \in Client, DropSub(c) PROVE TypeOK'
  BY <1>10 DEF DropSub, Return, Forget, Goto
<1>11. ASSUME NEW c \in Client, NEW s \in SubId, CloseSub(c, s) PROVE TypeOK'
  BY <1>11 DEF CloseSub
<1>12. ASSUME NEW c \in Client, NEW e \in Event, EventArrives(c, e) PROVE TypeOK'
  <2>1. budget' \in [Client -> [req : Nat, pub : Nat]]
    BY <1>12 DEF EventArrives
  <2>2. CASE LastMessage(c)
    BY <1>12, <2>1, <2>2 DEF EventArrives, Reading, LastMessage, Return, Forget, Goto
  <2>3. ASSUME NEW step \in {"broadcast", "save", "check"}, Goto(c, step),
               evt' = [evt EXCEPT ![c] = e], UNCHANGED <<sid, left, todo, sent>>
        PROVE TypeOK'
    BY <1>12, <2>1, <2>3 DEF EventArrives, Goto
  <2> QED BY <1>12, <2>2, <2>3 DEF EventArrives
<1>13. ASSUME NEW c \in Client, CheckDuplicate(c) PROVE TypeOK'
  <2>1. CASE acked' \subseteq acked \cup {evt[c]} /\ LastMessage(c)
    BY <1>13, <2>1 DEF CheckDuplicate, Acknowledge, LastMessage, Return, Forget, Goto
  <2>2. CASE Goto(c, "save") /\ UNCHANGED <<acked, locals>>
    BY <1>13, <2>2 DEF CheckDuplicate, Acknowledge, Goto
  <2> QED BY <1>13, <2>1, <2>2 DEF CheckDuplicate, Acknowledge
<1>14. ASSUME NEW c \in Client, SaveEvent(c) PROVE TypeOK'
  BY <1>14 DEF SaveEvent, Goto
<1>15. ASSUME NEW c \in Client, StoreFails(c) PROVE TypeOK'
  BY <1>15 DEF StoreFails, LastMessage, Return, Forget, Goto
<1>16. ASSUME NEW c \in Client, SendOK(c) PROVE TypeOK'
  BY <1>16 DEF SendOK, Goto
<1>17. ASSUME NEW c \in Client, Broadcast(c) PROVE TypeOK'
  BY <1>17 DEF Broadcast, Acknowledge, LastMessage, Return, Forget, Goto, Task, Goroutine,
     Registered
<1>18. ASSUME NEW t \in tasks, Admit(t) PROVE TypeOK'
  BY <1>18 DEF Admit, Task, Goroutine
<1>19. ASSUME NEW t \in tasks, Snapshot(t) PROVE TypeOK'
  <2> DEFINE matching == {s \in SubId : Matches(t.to, s, t.evt)}
  <2>1. CASE matching = {} /\ tasks' = tasks \ {t} /\ UNCHANGED shadowed
    BY <1>19, <2>1 DEF Snapshot
  <2>2. ASSUME NEW s \in matching,
               tasks' = (tasks \ {t}) \cup {Goroutine(t.n, t.evt, t.to, "send", s)},
               shadowed' = [shadowed EXCEPT ![t.to] =
                  [r \in SubId |-> IF r \in matching \ {s} THEN @[r] \cup {t.evt} ELSE @[r]]]
        PROVE TypeOK'
    <3>1. t.n \in Nat /\ t.evt \in Event /\ t.to \in Client
      BY DEF Task
    <3>2. tasks' \subseteq Task /\ \A u \in tasks' : u.at = "send" => u.sid \in SubId
      BY <2>2, <3>1 DEF Task, Goroutine
    <3>3. [r \in SubId |-> IF r \in matching \ {s} THEN shadowed[t.to][r] \cup {t.evt}
                           ELSE shadowed[t.to][r]] \in [SubId -> SUBSET Event]
      BY <3>1
    <3>4. shadowed' \in [Client -> [SubId -> SUBSET Event]]
      BY <2>2, <3>1, <3>3
    <3>5. UNCHANGED <<conn, stalled, sub, at, locals, store, expired, made, budget,
                      saved, acked, base, got, skipped>>
      BY <1>19 DEF Snapshot
    <3> QED BY <3>2, <3>4, <3>5
  <2> QED BY <1>19, <2>1, <2>2 DEF Snapshot
<1>20. ASSUME NEW t \in tasks, Deliver(t) PROVE TypeOK'
  BY <1>20 DEF Deliver, Task
<1>21. ASSUME NEW e \in Event, Expire(e) PROVE TypeOK'
  BY <1>21 DEF Expire
<1>22. CASE RunRetention
  BY <1>22 DEF RunRetention
<1>23. CASE UNCHANGED vars
  BY <1>23 DEF vars
<1>25. ASSUME NEW c \in Client, Release(c) PROVE TypeOK'
  BY <1>25 DEF Release, LastMessage, Return, Forget, Goto
<1> QED
  BY <1>24, <1>25, <1>1, <1>2, <1>3, <1>4, <1>5, <1>6, <1>7, <1>8, <1>9, <1>10, <1>11, <1>12,
     <1>13,
     <1>14, <1>15, <1>16, <1>17, <1>18, <1>19, <1>20, <1>21, <1>22, <1>23
  DEF Next, HandlerStep, TaskStep

\* The type invariant of Delivery.
THEOREM TypeCorrect == Spec => []TypeOK
<1>1. Init => TypeOK
  BY DeliveryAssumption DEF Init, TypeOK
<1> QED BY <1>1, TypeInductive, PTL DEF Spec
-----------------------------------------------------------------------------
\* A subscription that wants an event matches it, and if the event is a direct
\* message the subscription names its recipient: neither test of the broadcast
\* can turn the event away.
LEMMA WantsPasses ==
    ASSUME TypeOK, NEW c \in Client, NEW s \in SubId, NEW e \in Event, Wants(c, s, e)
    PROVE  Matches(c, s, e) /\ (e \in DirectMessage => NamesRecipient(c, e))
<1> QED BY DEF Wants, Matches, NamesRecipient

\* What Snapshot does to shadowed, subscription by subscription.
LEMMA SnapshotShadows ==
    ASSUME TypeOK, NEW t \in tasks, Snapshot(t)
    PROVE  \/ /\ tasks' = tasks \ {t} /\ UNCHANGED shadowed
              /\ \A r \in SubId : ~Matches(t.to, r, t.evt)
           \/ \E s \in SubId :
                /\ Matches(t.to, s, t.evt)
                /\ tasks' = (tasks \ {t}) \cup {Goroutine(t.n, t.evt, t.to, "send", s)}
                /\ \A d \in Client, r \in SubId :
                     shadowed'[d][r] = IF d = t.to /\ r # s /\ Matches(d, r, t.evt)
                                       THEN shadowed[d][r] \cup {t.evt} ELSE shadowed[d][r]
<1> DEFINE matching == {s \in SubId : Matches(t.to, s, t.evt)}
<1>1. t.to \in Client
  BY DEF TypeOK, Task
<1>2. CASE matching = {} /\ tasks' = tasks \ {t} /\ UNCHANGED shadowed
  BY <1>2
<1>3. ASSUME NEW s \in matching,
             tasks' = (tasks \ {t}) \cup {Goroutine(t.n, t.evt, t.to, "send", s)},
             shadowed' = [shadowed EXCEPT ![t.to] =
                [r \in SubId |-> IF r \in matching \ {s} THEN @[r] \cup {t.evt} ELSE @[r]]]
      PROVE  \A d \in Client, r \in SubId :
                 shadowed'[d][r] = IF d = t.to /\ r # s /\ Matches(d, r, t.evt)
                                   THEN shadowed[d][r] \cup {t.evt} ELSE shadowed[d][r]
  <2> SUFFICES ASSUME NEW d \in Client, NEW r \in SubId
               PROVE  shadowed'[d][r] = IF d = t.to /\ r # s /\ Matches(d, r, t.evt)
                                        THEN shadowed[d][r] \cup {t.evt} ELSE shadowed[d][r]
    OBVIOUS
  <2>1. CASE d # t.to
    BY <1>3, <2>1 DEF TypeOK
  <2>2. CASE d = t.to
    <3>1. r \in matching \ {s} <=> r # s /\ Matches(d, r, t.evt)
      BY <2>2
    <3>2. shadowed'[d][r] = IF r \in matching \ {s} THEN shadowed[d][r] \cup {t.evt}
                            ELSE shadowed[d][r]
      BY <1>1, <1>3, <2>2 DEF TypeOK
    <3> QED BY <3>1, <3>2, <2>2
  <2> QED BY <2>1, <2>2
<1> QED BY <1>2, <1>3 DEF Snapshot

\* A connection that has not started has no subscription and runs no handler.
Fresh == \A c \in Client : conn[c] = "new" => at[c] = "idle" /\ OpenSubs(c) = {}

LEMMA FreshInductive == TypeOK /\ Fresh /\ [Next]_vars => Fresh'
<1> SUFFICES ASSUME TypeOK, Fresh, [Next]_vars, NEW c \in Client, conn'[c] = "new"
             PROVE  at'[c] = "idle" /\ OpenSubs(c)' = {}
  BY DEF Fresh
<1> DEFINE Goal == at'[c] = "idle" /\ OpenSubs(c)' = {}
<1> USE DEF Fresh, OpenSubs, Open, locals, history
<1>1. ASSUME NEW p \in Client, Connect(p) \/ StopReading(p) \/ CloseConn(p) \/ Unregister(p)
      PROVE Goal
  BY <1>1 DEF Connect, StopReading, CloseConn, Unregister, SetConn, TypeOK
<1>2. ASSUME NEW p \in Client, NEW r \in SubId,
             (\E F \in FilterLists : ReqArrives(p, r, F)) \/ CloseSub(p, r) PROVE Goal
  <2>1. conn[p] = "open" /\ UNCHANGED conn /\ p # c
    BY <1>2 DEF ReqArrives, CloseSub, Reading
  <2>2. at'[c] = at[c] /\ sub'[c] = sub[c]
    BY <1>2, <2>1 DEF ReqArrives, CloseSub, LastMessage, Forget, Goto, TypeOK
  <2> QED BY <2>1, <2>2
<1>3. ASSUME NEW p \in Client, NEW e \in Event, EventArrives(p, e) PROVE Goal
  BY <1>3 DEF EventArrives, Reading, LastMessage, Forget, Goto, TypeOK
<1>4. ASSUME NEW p \in Client, HandlerStep(p) PROVE Goal
  <2>1. at[p] # "idle" /\ UNCHANGED conn
    BY <1>4 DEF HandlerStep, InstallSub, QueryFails, SendEOSE, AnswerSent, DropSub,
       QueryFilter, SkipExpired, SendStored, CapReached, NextStored, CheckDuplicate,
       SaveEvent, StoreFails, SendOK, Broadcast, Acknowledge, Release
  <2>2. p # c
    BY <2>1
  <2>3. at'[c] = at[c] /\ sub'[c] = sub[c]
    BY <1>4, <2>2 DEF HandlerStep, InstallSub, QueryFails, SendEOSE, AnswerSent, DropSub,
       QueryFilter, SkipExpired, SendStored, CapReached, NextStored, CheckDuplicate,
       SaveEvent, StoreFails, SendOK, Broadcast, Acknowledge, Release, LastMessage, Return,
       Forget, Goto, TypeOK
  <2> QED BY <2>1, <2>3
<1>5. ASSUME NEW t \in tasks, Admit(t) \/ Snapshot(t) \/ Deliver(t) PROVE Goal
  BY <1>5 DEF Admit, Snapshot, Deliver
<1>6. CASE (\E e \in Event : Expire(e)) \/ RunRetention \/ UNCHANGED vars
  BY <1>6 DEF Expire, RunRetention, vars
<1> QED BY <1>1, <1>2, <1>3, <1>4, <1>5, <1>6 DEF Next, TaskStep

\* NoGap is inductive: each step that takes an event out of one of the three
\* places where it may be (sent, in the answer, in a broadcast) puts it in
\* another.
LEMMA NoGapInductive == TypeOK /\ TypeOK' /\ Fresh /\ NoGap /\ [Next]_vars => NoGap'
<1> SUFFICES ASSUME TypeOK, TypeOK', Fresh, NoGap, [Next]_vars,
                    NEW c \in Client, NEW s \in SubId, NEW e \in (store \ expired)',
                    (conn[c] = "open")', Wants(c, s, e)'
             PROVE  Settled(c, s, e)' \/ ViaQuery(c, s, e)' \/ ViaBroadcast(c, s, e)'
  BY DEF NoGap
<1> DEFINE Goal == Settled(c, s, e)' \/ ViaQuery(c, s, e)' \/ ViaBroadcast(c, s, e)'
<1>a. e \in Event
  BY DEF TypeOK
<1>b. ASSUME e \in store \ expired, conn[c] = "open", Wants(c, s, e)
      PROVE  Settled(c, s, e) \/ ViaQuery(c, s, e) \/ ViaBroadcast(c, s, e)
  BY <1>b DEF NoGap
<1> USE <1>a DEF history, locals
<1>1. ASSUME NEW p \in Client, Connect(p) \/ StopReading(p) \/ CloseConn(p) \/ Unregister(p)
      PROVE Goal
  BY <1>1, <1>b DEF Connect, StopReading, CloseConn, Unregister, SetConn, TypeOK, Fresh, OpenSubs,
     Wants, Open, Settled, ViaQuery, ViaBroadcast
<1>2. ASSUME NEW p \in Client, NEW r \in SubId, NEW F \in FilterLists, ReqArrives(p, r, F)
      PROVE Goal
  <2>1. UNCHANGED <<conn, sub, store, expired, tasks, got, skipped, shadowed>>
    BY <1>2 DEF ReqArrives
  <2>2. at[p] = "idle" /\ at'[p] \notin {"answer", "ack", "broadcast"}
    BY <1>2 DEF ReqArrives, Reading, LastMessage, Goto, TypeOK
  <2>3. \A q \in Client \ {p} : UNCHANGED <<at[q], sid[q], left[q], todo[q], evt[q]>>
    BY <1>2 DEF ReqArrives, LastMessage, Forget, Goto, TypeOK
  <2>4. Settled(c, s, e) \/ ViaQuery(c, s, e) \/ ViaBroadcast(c, s, e)
    BY <1>b, <2>1 DEF Wants, Open
  <2> QED BY <2>1, <2>2, <2>3, <2>4 DEF Settled, ViaQuery, ViaBroadcast
<1>3. ASSUME NEW p \in Client, InstallSub(p) PROVE Goal
  <2>1. CASE p = c /\ sid[p] = s
    BY <1>3, <2>1 DEF InstallSub, Goto, TypeOK, Wants, Open, ViaQuery
  <2>2. CASE ~(p = c /\ sid[p] = s)
    BY <1>3, <2>2, <1>b DEF InstallSub, Goto, TypeOK,
       Wants, Open, Settled, ViaQuery, ViaBroadcast
  <2> QED BY <2>1, <2>2
<1>4. ASSUME NEW p \in Client, NEW f \in Filter, QueryFilter(p, f) PROVE Goal
  BY <1>4, <1>b, DeliveryAssumption
     DEF QueryFilter, TypeOK, Wants, Open, Settled, ViaQuery, ViaBroadcast
<1>5. ASSUME NEW p \in Client, QueryFails(p) PROVE Goal
  <2> DEFINE lost == todo[p] \cup {d \in store : \E f \in left[p] : d \in Answer[f]}
  <2>1. ViaQuery(p, s, e) /\ e \in store => e \in lost /\ sid[p] = s
    BY DeliveryAssumption DEF ViaQuery, TypeOK
  <2>2. skipped' = [skipped EXCEPT ![p][sid[p]] = @ \cup lost]
    BY <1>5 DEF QueryFails
  <2>3. ViaQuery(c, s, e) /\ p = c /\ e \in store => e \in skipped'[c][s]
    BY <2>1, <2>2 DEF TypeOK
  <2>4. skipped[c][s] \subseteq skipped'[c][s]
    BY <2>2 DEF TypeOK
  <2>5. UNCHANGED <<conn, sub, store, expired, tasks, got, shadowed>>
    BY <1>5 DEF QueryFails
  <2>6. at[p] = "answer" /\ \A d \in Client \ {p} :
          UNCHANGED <<at[d], sid[d], left[d], todo[d], evt[d]>>
    BY <1>5 DEF QueryFails, LastMessage, Return, Forget, Goto, TypeOK
  <2>7. Settled(c, s, e) \/ ViaQuery(c, s, e) \/ ViaBroadcast(c, s, e)
    BY <1>b, <2>5 DEF Wants, Open
  <2>8. CASE Settled(c, s, e)
    BY <2>4, <2>5, <2>8 DEF Settled
  <2>9. CASE ViaQuery(c, s, e)
    BY <2>3, <2>5, <2>6, <2>9 DEF ViaQuery, Settled
  <2>10. CASE ViaBroadcast(c, s, e)
    BY <2>5, <2>6, <2>10 DEF ViaBroadcast
  <2> QED BY <2>7, <2>8, <2>9, <2>10
<1>6. ASSUME NEW p \in Client, NEW d \in Event, SkipExpired(p, d) PROVE Goal
  BY <1>6, <1>b DEF SkipExpired, TypeOK, Wants, Open, Settled, ViaQuery, ViaBroadcast
<1>7. ASSUME NEW p \in Client, NEW d \in Event, SendStored(p, d) PROVE Goal
  BY <1>7, <1>b DEF SendStored, NextStored, TypeOK,
     Wants, Open, Settled, ViaQuery, ViaBroadcast
<1>8. ASSUME NEW p \in Client, NEW d \in Event, CapReached(p, d) PROVE Goal
  BY <1>8, <1>b DEF CapReached, NextStored, TypeOK,
     Wants, Open, Settled, ViaQuery, ViaBroadcast
<1>9. ASSUME NEW p \in Client, SendEOSE(p) PROVE Goal
  <2>1. CASE Goto(p, "drop") /\ UNCHANGED locals
    BY <1>9, <2>1, <1>b DEF SendEOSE, AnswerSent, Goto, TypeOK,
       Wants, Open, Settled, ViaQuery, ViaBroadcast
  <2>2. CASE Return(p)
    BY <1>9, <2>2, <1>b DEF SendEOSE, AnswerSent, Return, Forget, Goto, TypeOK,
       Wants, Open, Settled, ViaQuery, ViaBroadcast
  <2> QED BY <1>9, <2>1, <2>2 DEF SendEOSE
<1>10. ASSUME NEW p \in Client, DropSub(p) PROVE Goal
  BY <1>10, <1>b DEF DropSub, Return, Forget, Goto, TypeOK,
     Wants, Open, Settled, ViaQuery, ViaBroadcast
<1>11. ASSUME NEW p \in Client, NEW r \in SubId, CloseSub(p, r) PROVE Goal
  BY <1>11, <1>b DEF CloseSub, TypeOK, Wants, Open, Settled, ViaQuery, ViaBroadcast
<1>12. ASSUME NEW p \in Client, NEW d \in Event, EventArrives(p, d) PROVE Goal
  <2>1. UNCHANGED <<conn, sub, store, expired, tasks, got, skipped, shadowed>>
    BY <1>12 DEF EventArrives
  <2>2. at[p] = "idle" /\ at'[p] # "answer"
    BY <1>12 DEF EventArrives, Reading, LastMessage, Goto, TypeOK
  <2>3. \A q \in Client \ {p} : UNCHANGED <<at[q], sid[q], left[q], todo[q], evt[q]>>
    BY <1>12 DEF EventArrives, LastMessage, Forget, Goto, TypeOK
  <2>4. Settled(c, s, e) \/ ViaQuery(c, s, e) \/ ViaBroadcast(c, s, e)
    BY <1>b, <2>1 DEF Wants, Open
  <2> QED BY <2>1, <2>2, <2>3, <2>4 DEF Settled, ViaQuery, ViaBroadcast
<1>13. ASSUME NEW p \in Client, CheckDuplicate(p) PROVE Goal
  <2>1. CASE LastMessage(p)
    BY <1>13, <2>1, <1>b DEF CheckDuplicate, Acknowledge, LastMessage, Return, Forget, Goto,
       TypeOK,
       Wants, Open, Settled, ViaQuery, ViaBroadcast
  <2>2. CASE Goto(p, "save") /\ UNCHANGED locals
    BY <1>13, <2>2, <1>b DEF CheckDuplicate, Acknowledge, Goto, TypeOK,
       Wants, Open, Settled, ViaQuery, ViaBroadcast
  <2> QED BY <1>13, <2>1, <2>2 DEF CheckDuplicate, Acknowledge
<1>14. ASSUME NEW p \in Client, SaveEvent(p) PROVE Goal
  <2>1. CASE e = evt[p]
    BY <1>14, <2>1 DEF SaveEvent, Goto, TypeOK, ViaBroadcast
  <2>2. CASE e # evt[p]
    BY <1>14, <2>2, <1>b DEF SaveEvent, Goto, TypeOK,
       Wants, Open, Settled, ViaQuery, ViaBroadcast
  <2> QED BY <2>1, <2>2
<1>15. ASSUME NEW p \in Client, StoreFails(p) PROVE Goal
  BY <1>15, <1>b DEF StoreFails, LastMessage, Return, Forget, Goto, TypeOK,
     Wants, Open, Settled, ViaQuery, ViaBroadcast
<1>16. ASSUME NEW p \in Client, SendOK(p) PROVE Goal
  BY <1>16, <1>b DEF SendOK, Goto, TypeOK, Wants, Open, Settled, ViaQuery, ViaBroadcast
<1>17. ASSUME NEW p \in Client, Broadcast(p) PROVE Goal
  <2>1. CASE e = evt[p]
    <3> DEFINE g == Goroutine(made, e, c, "start", Nil)
    <3>1. g \in tasks'
      BY <1>17, <2>1 DEF Broadcast, Registered
    <3>2. g.evt = e /\ g.to = c /\ g.at = "start"
      BY DEF Goroutine
    <3> QED BY <3>1, <3>2 DEF ViaBroadcast
  <2>2. CASE e # evt[p]
    <3>1. tasks \subseteq tasks'
      BY <1>17 DEF Broadcast
    <3> QED BY <1>17, <2>2, <3>1, <1>b DEF Broadcast, Acknowledge, LastMessage, Return, Forget,
       Goto, TypeOK,
               Wants, Open, Settled, ViaQuery, ViaBroadcast
  <2> QED BY <2>1, <2>2
<1>18. ASSUME NEW t \in tasks, Admit(t) \/ Snapshot(t) \/ Deliver(t) PROVE Goal
  <2>1. UNCHANGED <<conn, sub, at, sid, left, todo, evt, store, expired, skipped>>
        /\ got[c][s] \subseteq got'[c][s] /\ shadowed[c][s] \subseteq shadowed'[c][s]
        /\ \A u \in tasks : u = t \/ u \in tasks'
    <3>1. CASE Admit(t)
      BY <3>1 DEF Admit
    <3>2. CASE Snapshot(t)
      <4>1. UNCHANGED <<conn, sub, at, sid, left, todo, evt, store, expired, skipped, got>>
        BY <3>2 DEF Snapshot
      <4>2. shadowed[c][s] \subseteq shadowed'[c][s]
        BY <3>2, SnapshotShadows
      <4>3. \A u \in tasks : u = t \/ u \in tasks'
        BY <3>2, SnapshotShadows
      <4> QED BY <4>1, <4>2, <4>3
    <3>3. CASE Deliver(t)
      BY <3>3 DEF Deliver, TypeOK, Task
    <3> QED BY <1>18, <3>1, <3>2, <3>3
  <2>2. e \in store \ expired /\ conn[c] = "open" /\ Wants(c, s, e)
    BY <2>1 DEF Wants, Open
  <2>3. CASE ~(t.evt = e /\ t.to = c /\ (t.at = "send" => t.sid = s))
    BY <1>b, <2>1, <2>2, <2>3 DEF Settled, ViaQuery, ViaBroadcast
  <2>4. CASE t.evt = e /\ t.to = c /\ (t.at = "send" => t.sid = s)
    <3>1. CASE Admit(t)
      <4> DEFINE g == Goroutine(t.n, e, c, "snapshot", Nil)
      <4>1. g \in tasks'
        BY <2>2, <2>4, <3>1, WantsPasses DEF Admit
      <4>2. g.evt = e /\ g.to = c /\ g.at = "snapshot"
        BY DEF Goroutine
      <4> QED BY <4>1, <4>2 DEF ViaBroadcast
    <3>2. CASE Snapshot(t)
      <4>1. Matches(c, s, e)
        BY <2>2, WantsPasses
      <4>2. PICK r \in SubId :
               /\ tasks' = (tasks \ {t}) \cup {Goroutine(t.n, e, c, "send", r)}
               /\ r # s => e \in shadowed'[c][s]
        BY <2>4, <3>2, <4>1, SnapshotShadows
      <4>3. CASE r = s
        <5> DEFINE g == Goroutine(t.n, e, c, "send", s)
        <5>1. g \in tasks' /\ g.evt = e /\ g.to = c /\ g.sid = s
          BY <4>2, <4>3 DEF Goroutine
        <5> QED BY <5>1 DEF ViaBroadcast
      <4> QED BY <4>2, <4>3 DEF Settled
    <3>3. CASE Deliver(t)
      BY <2>2, <2>4, <3>3 DEF Deliver, Settled, TypeOK
    <3> QED BY <1>18, <3>1, <3>2, <3>3
  <2> QED BY <2>3, <2>4
<1>19. ASSUME NEW d \in Event, Expire(d) PROVE Goal
  BY <1>19, <1>b DEF Expire, Wants, Open, Settled, ViaQuery, ViaBroadcast
<1>20. CASE RunRetention
  BY <1>20, <1>b DEF RunRetention, Wants, Open, Settled, ViaQuery, ViaBroadcast
<1>21. CASE UNCHANGED vars
  BY <1>21, <1>b DEF vars, Wants, Open, Settled, ViaQuery, ViaBroadcast
<1>22. ASSUME NEW p \in Client, Release(p) PROVE Goal
  BY <1>22, <1>b DEF Release, Return, Forget, Goto, TypeOK,
     Wants, Open, Settled, ViaQuery, ViaBroadcast
<1> QED
  BY <1>22, <1>1, <1>2, <1>3, <1>4, <1>5, <1>6, <1>7, <1>8, <1>9, <1>10, <1>11, <1>12, <1>13,
     <1>14, <1>15, <1>16, <1>17, <1>18, <1>19, <1>20, <1>21
  DEF Next, HandlerStep, TaskStep

\* No stored event falls between the answer to a REQ and the live broadcast,
\* for any number of clients, subscriptions, publishers and events.
THEOREM NoGapCorrect == Spec => []NoGap
<1>1. Init => Fresh /\ NoGap
  BY DEF Init, NoGap, Fresh, OpenSubs, Open
<1>2. TypeOK /\ Fresh /\ NoGap /\ [Next]_vars => Fresh' /\ NoGap'
  BY TypeInductive, FreshInductive, NoGapInductive
<1> QED BY <1>1, <1>2, TypeCorrect, PTL DEF Spec
-----------------------------------------------------------------------------
\* An event is in the store, in an answer, in a broadcast or on the way to a
\* client only if it was saved, or is ephemeral.
Known(e) == e \in saved \cup Ephemeral \/ Outdated(e, saved)
Traced ==
    /\ store \subseteq saved
    /\ \A c \in Client : \A e \in todo[c] : Known(e)
    /\ \A c \in Client : at[c] = "ack" => Known(evt[c])
    /\ \A c \in Client : at[c] = "broadcast" => Known(evt[c])
    /\ \A t \in tasks : Known(t.evt)
    /\ \A e \in acked : Known(e)
    /\ \A c \in Client, s \in SubId : \A e \in got[c][s] : Known(e)

LEMMA TracedInductive == TypeOK /\ Traced /\ [Next]_vars => Traced'
<1> SUFFICES ASSUME TypeOK, Traced, [Next]_vars PROVE Traced'
  OBVIOUS
<1> USE DEF Traced, Known, TypeOK, locals, history
<1>1. ASSUME NEW c \in Client, Connect(c) \/ StopReading(c) \/ CloseConn(c) \/ Unregister(c)
      PROVE Traced'
  BY <1>1 DEF Connect, StopReading, CloseConn, Unregister, SetConn
<1>a. ASSUME NEW c \in Client, Return(c) \/ LastMessage(c), UNCHANGED <<store, tasks, saved, got>>,
             \A e \in acked' : Known(e)
      PROVE Traced'
  <2>1. \A d \in Client : todo'[d] \subseteq todo[d]
    BY <1>a DEF LastMessage, Return, Forget
  <2>2. \A d \in Client : at'[d] \in {"ack", "broadcast"} => at'[d] = at[d] /\ evt'[d] = evt[d]
    BY <1>a DEF LastMessage, Return, Forget, Goto
  <2> QED BY <1>a, <2>1, <2>2
<1>2. ASSUME NEW c \in Client, NEW s \in SubId, NEW F \in FilterLists, ReqArrives(c, s, F)
      PROVE Traced'
  <2>1. CASE TooMany(c, s)
    BY <1>2, <1>a, <2>1 DEF ReqArrives
  <2>2. CASE ~TooMany(c, s)
    BY <1>2, <2>2 DEF ReqArrives, Goto
  <2> QED BY <2>1, <2>2
<1>3. ASSUME NEW c \in Client, InstallSub(c) PROVE Traced'
  BY <1>3 DEF InstallSub, Goto
<1>4. ASSUME NEW c \in Client, NEW f \in Filter, QueryFilter(c, f) PROVE Traced'
  BY <1>4 DEF QueryFilter
<1>5. ASSUME NEW c \in Client, QueryFails(c) \/ DropSub(c) \/ StoreFails(c) \/ Release(c)
      PROVE Traced'
  BY <1>5, <1>a DEF QueryFails, DropSub, StoreFails, Release
<1>6. ASSUME NEW c \in Client, NEW e \in Event, SendStored(c, e) PROVE Traced'
  <2>1. \A d \in Client : todo'[d] \subseteq todo[d]
    BY <1>6 DEF SendStored
  <2>2. UNCHANGED <<at, evt, store, tasks, saved, acked>>
    BY <1>6 DEF SendStored
  <2>3. ASSUME NEW d \in Client, NEW s \in SubId, NEW f \in got'[d][s] PROVE Known(f)
    <3>1. CASE got' = got
      BY <2>3, <3>1
    <3>2. CASE got' = [got EXCEPT ![c][sid[c]] = @ \cup {e}]
      <4>1. f \in got[d][s] \/ f = e
        BY <2>3, <3>2
      <4>2. e \in todo[c]
        BY <1>6 DEF SendStored, NextStored
      <4> QED BY <4>1, <4>2
    <3> QED BY <1>6, <3>1, <3>2 DEF SendStored
  <2> QED BY <2>1, <2>2, <2>3
<1>18. ASSUME NEW c \in Client, NEW e \in Event, SkipExpired(c, e) \/ CapReached(c, e)
       PROVE Traced'
  <2>1. \A d \in Client : todo'[d] \subseteq todo[d]
    <3>1. CASE SkipExpired(c, e)
      BY <3>1 DEF SkipExpired
    <3>2. CASE CapReached(c, e)
      BY <3>2 DEF CapReached
    <3> QED BY <1>18, <3>1, <3>2
  <2>2. UNCHANGED <<at, evt, store, tasks, saved, acked, got>>
    BY <1>18 DEF SkipExpired, CapReached
  <2> QED BY <2>1, <2>2
<1>7. ASSUME NEW c \in Client, SendEOSE(c) PROVE Traced'
  <2>1. CASE Goto(c, "drop") /\ UNCHANGED locals
    BY <1>7, <2>1 DEF SendEOSE, Goto
  <2>2. CASE Return(c)
    BY <1>7, <2>2 DEF SendEOSE, Return, Forget, Goto
  <2> QED BY <1>7, <2>1, <2>2 DEF SendEOSE
<1>8. ASSUME NEW c \in Client, NEW s \in SubId, CloseSub(c, s) PROVE Traced'
  BY <1>8 DEF CloseSub
<1>9. ASSUME NEW c \in Client, NEW e \in Event, EventArrives(c, e) PROVE Traced'
  <2>1. CASE LastMessage(c)
    BY <1>9, <1>a, <2>1 DEF EventArrives
  <2>2. ASSUME NEW step \in {"broadcast", "save", "check"}, Goto(c, step),
               step = "broadcast" => e \in Ephemeral,
               evt' = [evt EXCEPT ![c] = e], UNCHANGED todo
        PROVE Traced'
    BY <1>9, <2>2 DEF EventArrives, Goto
  <2> QED BY <1>9, <2>1, <2>2 DEF EventArrives
<1>10. ASSUME NEW c \in Client, CheckDuplicate(c) PROVE Traced'
  <2>1. CASE evt[c] \in store
    BY <1>10, <1>a, <2>1 DEF CheckDuplicate, Acknowledge
  <2>2. CASE evt[c] \notin store
    BY <1>10, <2>2 DEF CheckDuplicate, Acknowledge, Goto
  <2> QED BY <2>1, <2>2
<1>11. ASSUME NEW c \in Client, SaveEvent(c) PROVE Traced'
  <2>1. UNCHANGED <<conn, sub, locals, tasks, acked, got>> /\ Goto(c, "ack")
        /\ saved \subseteq saved' /\ store' \subseteq saved'
    BY <1>11 DEF SaveEvent
  <2>2. Known(evt[c])'
    BY <1>11, <2>1 DEF SaveEvent, Outdated
  <2>3. \A e : Known(e) => Known(e)'
    BY <2>1 DEF Outdated
  <2> QED BY <2>1, <2>2, <2>3 DEF Goto
<1>12. ASSUME NEW c \in Client, SendOK(c) PROVE Traced'
  BY <1>12 DEF SendOK, Goto
<1>13. ASSUME NEW c \in Client, Broadcast(c) PROVE Traced'
  BY <1>13 DEF Broadcast, Acknowledge, LastMessage, Return, Forget, Goto, Goroutine
<1>14. ASSUME NEW t \in tasks, Admit(t) PROVE Traced'
  BY <1>14 DEF Admit, Goroutine
<1>15. ASSUME NEW t \in tasks, Snapshot(t) PROVE Traced'
  <2>1. ASSUME NEW u \in tasks' PROVE u \in tasks \/ u.evt = t.evt
    <3>1. CASE tasks' = tasks \ {t}
      BY <3>1
    <3>2. ASSUME NEW s \in SubId, tasks' = (tasks \ {t}) \cup {Goroutine(t.n, t.evt, t.to, "send", s)}
          PROVE u \in tasks \/ u.evt = t.evt
      BY <3>2 DEF Goroutine
    <3> QED BY <1>15, <3>1, <3>2, SnapshotShadows
  <2>2. UNCHANGED <<store, todo, at, evt, acked, got, saved>>
    BY <1>15 DEF Snapshot
  <2> QED BY <2>1, <2>2
<1>16. ASSUME NEW t \in tasks, Deliver(t) PROVE Traced'
  BY <1>16 DEF Deliver
<1>17. CASE (\E e \in Event : Expire(e)) \/ RunRetention \/ UNCHANGED vars
  BY <1>17 DEF Expire, RunRetention, vars
<1> QED BY <1>1, <1>2, <1>3, <1>4, <1>5, <1>6, <1>7, <1>8, <1>9, <1>10, <1>11, <1>12, <1>13,
           <1>14, <1>15, <1>16, <1>17, <1>18 DEF Next, HandlerStep, TaskStep

\* Nobody is told of an event, by an OK or by a copy of it, before it is stored.
THEOREM SaveBeforeTellCorrect == Spec => []SaveBeforeTell
<1>1. Init => Traced
  BY DEF Init, Traced
<1>2. TypeOK /\ Traced => SaveBeforeTell
  BY DEF Traced, Known, SaveBeforeTell
<1> QED BY <1>1, <1>2, TracedInductive, TypeCorrect, PTL DEF Spec
-----------------------------------------------------------------------------
\* There is room for the subscription a REQ is about to install: only the
\* handler of that REQ can open one, since its connection has no other.
Room ==
    \A c \in Client :
        /\ IsFiniteSet(OpenSubs(c)) /\ Cardinality(OpenSubs(c)) <= MaxSubs
        /\ at[c] = "install" => Cardinality(OpenSubs(c) \cup {sid[c]}) <= MaxSubs

LEMMA RoomInductive == TypeOK /\ Room /\ [Next]_vars => Room'
<1> SUFFICES ASSUME TypeOK, Room, [Next]_vars, NEW c \in Client
             PROVE  /\ IsFiniteSet(OpenSubs(c)') /\ Cardinality(OpenSubs(c)') <= MaxSubs
                    /\ at'[c] = "install"
                         => Cardinality(OpenSubs(c)' \cup {sid'[c]}) <= MaxSubs
  BY DEF Room
<1> DEFINE Goal == /\ IsFiniteSet(OpenSubs(c)') /\ Cardinality(OpenSubs(c)') <= MaxSubs
                   /\ at'[c] = "install" => Cardinality(OpenSubs(c)' \cup {sid'[c]}) <= MaxSubs
<1>a. /\ IsFiniteSet(OpenSubs(c)) /\ Cardinality(OpenSubs(c)) <= MaxSubs
      /\ Cardinality(OpenSubs(c)) \in Nat /\ MaxSubs \in Nat
  BY FS_CardinalityType, DeliveryAssumption DEF Room
<1>b. ASSUME sub'[c] = sub[c], at'[c] = "install" => at[c] = "install" /\ sid'[c] = sid[c]
      PROVE Goal
  <2>1. OpenSubs(c)' = OpenSubs(c)
    BY <1>b DEF OpenSubs, Open
  <2> QED BY <1>a, <1>b, <2>1 DEF Room
<1>c. ASSUME NEW s \in SubId, OpenSubs(c)' = OpenSubs(c) \ {s}, at'[c] # "install" PROVE Goal
  <2>1. IsFiniteSet(OpenSubs(c) \ {s}) /\ Cardinality(OpenSubs(c) \ {s}) <= Cardinality(OpenSubs(c))
    BY <1>a, FS_Subset
  <2>2. Cardinality(OpenSubs(c) \ {s}) \in Nat
    BY <2>1, FS_CardinalityType
  <2> QED BY <1>a, <1>c, <2>1, <2>2
<1> USE DEF locals, history
<1>1. ASSUME NEW p \in Client, Connect(p) \/ StopReading(p) \/ CloseConn(p) \/ Unregister(p)
      PROVE Goal
  BY <1>1, <1>b DEF Connect, StopReading, CloseConn, Unregister, SetConn
<1>2. ASSUME NEW p \in Client, NEW s \in SubId, NEW F \in FilterLists, ReqArrives(p, s, F)
      PROVE Goal
  <2>1. CASE p # c \/ LastMessage(p)
    BY <1>2, <1>b, <2>1 DEF ReqArrives, LastMessage, Forget, Goto, TypeOK
  <2>2. CASE p = c /\ ~TooMany(c, s) /\ sid' = [sid EXCEPT ![c] = s]
    <3>1. OpenSubs(c)' = OpenSubs(c) /\ sid'[c] = s
      BY <1>2, <2>2 DEF ReqArrives, OpenSubs, Open, TypeOK
    <3>2. Cardinality(OpenSubs(c) \cup {s}) =
             IF s \in OpenSubs(c) THEN Cardinality(OpenSubs(c)) ELSE Cardinality(OpenSubs(c)) + 1
      BY <1>a, FS_AddElement
    <3>3. s \in OpenSubs(c) \/ Cardinality(OpenSubs(c)) < MaxSubs
      BY <2>2, <1>a DEF TooMany, OpenSubs
    <3>4. Cardinality(OpenSubs(c) \cup {s}) <= MaxSubs
      BY <1>a, <3>2, <3>3
    <3> QED BY <1>a, <3>1, <3>4
  <2> QED BY <1>2, <2>1, <2>2 DEF ReqArrives
<1>3. ASSUME NEW p \in Client, InstallSub(p) PROVE Goal
  <2>1. CASE p # c
    BY <1>3, <1>b, <2>1 DEF InstallSub, Goto, TypeOK
  <2>2. CASE p = c
    <3>1. sid[c] \in SubId /\ sub'[c] = [sub[c] EXCEPT ![sid[c]] = left[c]] /\ left[c] # Nil
      BY <1>3, <2>2, DeliveryAssumption DEF InstallSub, TypeOK
    <3>2. OpenSubs(c)' = OpenSubs(c) \cup {sid[c]}
      BY <3>1 DEF OpenSubs, Open, TypeOK
    <3>3. IsFiniteSet(OpenSubs(c) \cup {sid[c]})
      BY <1>a, FS_AddElement
    <3>4. at[c] = "install" /\ at'[c] # "install"
      BY <1>3, <2>2 DEF InstallSub, Goto, TypeOK
    <3> QED BY <3>2, <3>3, <3>4 DEF Room
  <2> QED BY <2>1, <2>2
<1>4. ASSUME NEW p \in Client, DropSub(p) \/ \E s \in SubId : CloseSub(p, s) PROVE Goal
  <2>1. CASE p # c
    BY <1>4, <1>b, <2>1 DEF DropSub, CloseSub, Return, Forget, Goto, TypeOK
  <2>2. CASE p = c
    <3>1. PICK s \in SubId : sub' = [sub EXCEPT ![c][s] = Nil]
      BY <1>4, <2>2 DEF DropSub, CloseSub, TypeOK
    <3>2. OpenSubs(c)' = OpenSubs(c) \ {s}
      BY <3>1 DEF OpenSubs, Open, TypeOK
    <3>3. at'[c] # "install"
      BY <1>4, <2>2 DEF DropSub, CloseSub, Reading, Return, Forget, Goto, TypeOK
    <3> QED BY <1>c, <3>2, <3>3
  <2> QED BY <2>1, <2>2
<1>5. ASSUME NEW p \in Client,
             \/ QueryFails(p) \/ (\E f \in Filter : QueryFilter(p, f))
             \/ \E e \in Event : SkipExpired(p, e) \/ SendStored(p, e) \/ CapReached(p, e)
      PROVE Goal
  BY <1>5, <1>b DEF QueryFails, QueryFilter, SkipExpired, SendStored, CapReached, LastMessage,
     Return,
                    Forget, Goto, TypeOK
<1>6. ASSUME NEW p \in Client, SendEOSE(p) PROVE Goal
  <2>1. CASE Goto(p, "drop") /\ UNCHANGED locals
    BY <1>6, <1>b, <2>1 DEF SendEOSE, Goto, TypeOK
  <2>2. CASE Return(p)
    BY <1>6, <1>b, <2>2 DEF SendEOSE, Return, Forget, Goto, TypeOK
  <2> QED BY <1>6, <2>1, <2>2 DEF SendEOSE
<1>7. ASSUME NEW p \in Client, NEW e \in Event, EventArrives(p, e) PROVE Goal
  BY <1>7, <1>b DEF EventArrives, LastMessage, Forget, Goto, TypeOK
<1>8. ASSUME NEW p \in Client, CheckDuplicate(p) PROVE Goal
  <2>1. CASE LastMessage(p)
    BY <1>8, <1>b, <2>1 DEF CheckDuplicate, Acknowledge, LastMessage, Return, Forget, Goto, TypeOK
  <2>2. CASE Goto(p, "save") /\ UNCHANGED locals
    BY <1>8, <1>b, <2>2 DEF CheckDuplicate, Acknowledge, Goto, TypeOK
  <2> QED BY <1>8, <2>1, <2>2 DEF CheckDuplicate, Acknowledge
<1>9. ASSUME NEW p \in Client, SaveEvent(p) \/ StoreFails(p) \/ SendOK(p) \/ Broadcast(p)
             \/ Release(p)
      PROVE Goal
  BY <1>9, <1>b DEF SaveEvent, StoreFails, SendOK, Broadcast, Acknowledge, Release,
     LastMessage, Return, Forget, Goto, TypeOK
<1>10. ASSUME NEW t \in tasks, Admit(t) \/ Snapshot(t) \/ Deliver(t) PROVE Goal
  BY <1>10, <1>b DEF Admit, Snapshot, Deliver
<1>11. CASE (\E e \in Event : Expire(e)) \/ RunRetention \/ UNCHANGED vars
  BY <1>11, <1>b DEF Expire, RunRetention, vars
<1> QED BY <1>1, <1>2, <1>3, <1>4, <1>5, <1>6, <1>7, <1>8, <1>9, <1>10, <1>11
        DEF Next, HandlerStep, TaskStep

\* A connection never has more than MaxSubscriptionsPerClient subscriptions.
THEOREM SubLimitCorrect == Spec => []SubLimit
<1>1. Init => Room
  <2> SUFFICES ASSUME Init PROVE Room
    OBVIOUS
  <2>1. \A c \in Client : OpenSubs(c) = {} /\ at[c] = "idle"
    BY DEF Init, OpenSubs, Open
  <2>2. IsFiniteSet({}) /\ Cardinality({}) = 0
    BY FS_EmptySet
  <2>3. 0 <= MaxSubs
    BY DeliveryAssumption
  <2> QED BY <2>1, <2>2, <2>3 DEF Room
<1>2. Room => SubLimit
  BY DEF Room, SubLimit
<1> QED BY <1>1, <1>2, RoomInductive, TypeCorrect, PTL DEF Spec
-----------------------------------------------------------------------------
\* While a REQ is being answered, every event that was stored when the
\* subscription was installed is sent, left out, among the rows in hand, or
\* matched by a filter still to be queried.
Accounted(c, e) ==
    \/ e \in got[c][sid[c]] \cup skipped[c][sid[c]] \cup todo[c]
    \/ \E f \in left[c] : e \in f
Answering ==
    /\ \A c \in Client : base[c] \subseteq store
    /\ \A c \in Client : conn[c] = "open" /\ at[c] = "answer" =>
          \A e \in base[c] \ expired : Matches(c, sid[c], e) => Accounted(c, e)

LEMMA AnsweringInductive == TypeOK /\ TypeOK' /\ Fresh /\ Answering /\ [Next]_vars => Answering'
<1> SUFFICES ASSUME TypeOK, TypeOK', Fresh, Answering, [Next]_vars PROVE Answering'
  OBVIOUS
<1>a. \A c \in Client : base'[c] \subseteq store'
  <2>1. CASE \E c \in Client : InstallSub(c)
    BY <2>1 DEF InstallSub, TypeOK, Answering
  <2>2. CASE RunRetention
    BY <2>2 DEF RunRetention, TypeOK, Answering
  <2>3. CASE base' = base /\ store \subseteq store'
    BY <2>3 DEF Answering
  <2>4. ASSUME NEW c \in Client, HandlerStep(c), ~InstallSub(c), ~SaveEvent(c)
        PROVE base' = base /\ store \subseteq store'
    BY <2>4 DEF HandlerStep, QueryFails, SendEOSE, DropSub, QueryFilter, SkipExpired, SendStored,
       CapReached, CheckDuplicate, StoreFails, SendOK, Broadcast, Acknowledge, Release, history
  <2>8. ASSUME NEW c \in Client, SaveEvent(c) PROVE \A d \in Client : base'[d] \subseteq store'
    BY <2>8 DEF SaveEvent, Answering, TypeOK
  <2>5. ASSUME NEW c \in Client,
               \/ Connect(c) \/ StopReading(c) \/ CloseConn(c) \/ Unregister(c)
               \/ (\E s \in SubId, F \in FilterLists : ReqArrives(c, s, F))
               \/ (\E s \in SubId : CloseSub(c, s)) \/ (\E e \in Event : EventArrives(c, e))
        PROVE base' = base /\ store \subseteq store'
    BY <2>5 DEF Connect, StopReading, CloseConn, Unregister, SetConn, ReqArrives, CloseSub,
       EventArrives, history
  <2>6. ASSUME NEW t \in tasks, Admit(t) \/ Snapshot(t) \/ Deliver(t)
        PROVE base' = base /\ store \subseteq store'
    BY <2>6 DEF Admit, Snapshot, Deliver, history
  <2>7. CASE (\E e \in Event : Expire(e)) \/ UNCHANGED vars
    BY <2>3, <2>7 DEF Expire, vars, history
  <2> QED BY <2>1, <2>2, <2>3, <2>4, <2>5, <2>6, <2>7, <2>8 DEF Next, TaskStep
<1> SUFFICES ASSUME NEW c \in Client, (conn[c] = "open" /\ at[c] = "answer")',
                    NEW e \in (base[c] \ expired)', Matches(c, sid[c], e)'
             PROVE  Accounted(c, e)'
  BY <1>a DEF Answering
<1> DEFINE Goal == Accounted(c, e)'
<1>b. ASSUME conn[c] = "open", at[c] = "answer", e \in base[c] \ expired,
             sid'[c] = sid[c], sub'[c] = sub[c], left'[c] = left[c],
             todo[c] \subseteq got'[c][sid[c]] \cup skipped'[c][sid[c]] \cup todo'[c],
             got[c][sid[c]] \subseteq got'[c][sid[c]],
             skipped[c][sid[c]] \subseteq skipped'[c][sid[c]]
      PROVE  Goal
  <2>1. Accounted(c, e)
    BY <1>b DEF Answering, Matches, Open
  <2> QED BY <1>b, <2>1 DEF Accounted
<1> USE DEF history, locals
<1>1. ASSUME NEW p \in Client, Connect(p) \/ StopReading(p) \/ CloseConn(p) \/ Unregister(p)
      PROVE Goal
  BY <1>1, <1>b DEF Connect, StopReading, CloseConn, Unregister, SetConn, TypeOK, Fresh
<1>2. ASSUME NEW p \in Client, NEW r \in SubId, NEW F \in FilterLists, ReqArrives(p, r, F)
      PROVE Goal
  BY <1>2, <1>b DEF ReqArrives, Reading, LastMessage, Forget, Goto, TypeOK
<1>3. ASSUME NEW p \in Client, InstallSub(p) PROVE Goal
  <2>1. CASE p = c
    <3>1. sub'[c][sid'[c]] = left'[c]
      BY <1>3, <2>1 DEF InstallSub, TypeOK
    <3> QED BY <3>1 DEF Matches, Open, Accounted
  <2>2. CASE p # c
    BY <1>3, <2>2, <1>b DEF InstallSub, Goto, TypeOK
  <2> QED BY <2>1, <2>2
<1>4. ASSUME NEW p \in Client, NEW f \in Filter, QueryFilter(p, f) PROVE Goal
  <2>1. CASE p = c
    <3>1. Accounted(c, e) /\ e \in store
      BY <1>4, <2>1 DEF QueryFilter, Answering, Matches, Open, TypeOK
    <3>2. CASE e \in f
      <4>1. e \in todo'[c]
        BY <1>4, <2>1, <3>1, <3>2, DeliveryAssumption DEF QueryFilter, TypeOK
      <4> QED BY <4>1 DEF Accounted
    <3>3. CASE e \notin f
      BY <1>4, <2>1, <3>1, <3>3 DEF QueryFilter, TypeOK, Accounted
    <3> QED BY <3>2, <3>3
  <2>2. CASE p # c
    BY <1>4, <2>2, <1>b DEF QueryFilter, TypeOK
  <2> QED BY <2>1, <2>2
<1>5. ASSUME NEW p \in Client, QueryFails(p) \/ DropSub(p) PROVE Goal
  <2>1. p # c
    BY <1>5 DEF QueryFails, DropSub, LastMessage, Return, Forget, Goto, TypeOK
  <2> QED BY <1>5, <2>1, <1>b DEF QueryFails, DropSub, LastMessage, Return, Forget, Goto, TypeOK
<1>6. ASSUME NEW p \in Client, NEW d \in Event, SkipExpired(p, d) PROVE Goal
  <2>1. e # d /\ Accounted(c, e)
    BY <1>6 DEF SkipExpired, Answering, Matches, Open
  <2> QED BY <1>6, <2>1 DEF SkipExpired, Accounted, TypeOK
<1>7. ASSUME NEW p \in Client, NEW d \in Event, SendStored(p, d) PROVE Goal
  <2>1. CASE p = c
    <3>1. conn[c] = "open" /\ Accounted(c, e)
      BY <1>7, <2>1 DEF SendStored, Answering, Matches, Open
    <3>2. sid[c] \in SubId /\ todo'[c] = todo[c] \ {d} /\ UNCHANGED <<sid, left, skipped>>
      BY <1>7, <2>1 DEF SendStored, NextStored, TypeOK
    <3>3. got'[c][sid[c]] = got[c][sid[c]] \cup {d}
      BY <1>7, <2>1, <3>1, <3>2 DEF SendStored, TypeOK
    <3> QED BY <3>1, <3>2, <3>3 DEF Accounted
  <2>2. CASE p # c
    BY <1>7, <2>2, <1>b DEF SendStored, TypeOK
  <2> QED BY <2>1, <2>2
<1>8. ASSUME NEW p \in Client, NEW d \in Event, CapReached(p, d) PROVE Goal
  <2>1. CASE p = c
    <3>1. sid[c] \in SubId
      BY <1>8, <2>1 DEF CapReached, NextStored, TypeOK
    <3>2. skipped'[c][sid[c]] = skipped[c][sid[c]] \cup todo[c]
      BY <1>8, <2>1, <3>1 DEF CapReached, TypeOK
    <3> QED BY <1>8, <2>1, <3>2, <1>b DEF CapReached, NextStored, TypeOK
  <2>2. CASE p # c
    BY <1>8, <2>2, <1>b DEF CapReached, TypeOK
  <2> QED BY <2>1, <2>2
<1>9. ASSUME NEW p \in Client, SendEOSE(p) PROVE Goal
  <2>1. CASE Goto(p, "drop") /\ UNCHANGED locals
    BY <1>9, <2>1, <1>b DEF SendEOSE, Goto, TypeOK
  <2>2. CASE Return(p)
    <3>1. p # c
      BY <2>2 DEF Return, Forget, Goto, TypeOK
    <3> QED BY <1>9, <2>2, <3>1, <1>b DEF SendEOSE, Return, Forget, Goto, TypeOK
  <2> QED BY <1>9, <2>1, <2>2 DEF SendEOSE
<1>10. ASSUME NEW p \in Client, NEW r \in SubId, CloseSub(p, r) PROVE Goal
  BY <1>10, <1>b DEF CloseSub, Reading, TypeOK
<1>11. ASSUME NEW p \in Client, NEW d \in Event, EventArrives(p, d) PROVE Goal
  BY <1>11, <1>b DEF EventArrives, Reading, LastMessage, Forget, Goto, TypeOK
<1>12. ASSUME NEW p \in Client,
              \/ CheckDuplicate(p) \/ SaveEvent(p) \/ StoreFails(p) \/ SendOK(p) \/ Broadcast(p)
             \/ Release(p)
       PROVE Goal
  <2>1. p # c
    BY <1>12 DEF CheckDuplicate, Acknowledge, SaveEvent, StoreFails, SendOK, Broadcast,
       Release, LastMessage, Return, Forget, Goto, TypeOK
  <2> QED BY <1>12, <2>1, <1>b DEF CheckDuplicate, Acknowledge, SaveEvent, StoreFails, SendOK,
     Broadcast, Release,
             LastMessage, Return, Forget, Goto, TypeOK
<1>13. ASSUME NEW t \in tasks, Admit(t) \/ Snapshot(t) PROVE Goal
  BY <1>13, <1>b DEF Admit, Snapshot
<1>14. ASSUME NEW t \in tasks, Deliver(t) PROVE Goal
  <2>1. got[c][sid[c]] \subseteq got'[c][sid[c]]
    BY <1>14 DEF Deliver, TypeOK, Task
  <2> QED BY <1>14, <2>1, <1>b DEF Deliver
<1>15. ASSUME NEW d \in Event, Expire(d) PROVE Goal
  BY <1>15, <1>b DEF Expire
<1>16. CASE RunRetention
  BY <1>16, <1>b DEF RunRetention, TypeOK
<1>17. CASE UNCHANGED vars
  BY <1>17, <1>b DEF vars
<1> QED BY <1>1, <1>2, <1>3, <1>4, <1>5, <1>6, <1>7, <1>8, <1>9, <1>10, <1>11, <1>12, <1>13,
           <1>14, <1>15, <1>16, <1>17 DEF Next, HandlerStep, TaskStep

\* EOSE is never early: what was stored when the REQ was installed has been sent.
THEOREM EoseCompleteCorrect == Spec => []EoseComplete
<1>1. Init => Fresh /\ Answering
  BY DEF Init, Fresh, Answering, OpenSubs, Open
<1>2. TypeOK /\ Answering => EoseComplete
  BY DEF Answering, Accounted, EoseComplete, AnswerSent
<1>3. TypeOK /\ Fresh /\ Answering /\ [Next]_vars => Fresh' /\ Answering'
  BY TypeInductive, FreshInductive, AnsweringInductive
<1> QED BY <1>1, <1>2, <1>3, TypeCorrect, PTL DEF Spec
-----------------------------------------------------------------------------
\* While a REQ is answered its own subscription stays open: a CLOSE waits for readPump.
Held(c) == at[c] \in {"answer", "drop"} => Open(c, sid[c])
AnswerHeld == \A c \in Client : Held(c)

LEMMA AnswerHeldInductive == TypeOK /\ AnswerHeld /\ [Next]_vars => AnswerHeld'
<1> SUFFICES ASSUME TypeOK, AnswerHeld, [Next]_vars, NEW c \in Client PROVE Held(c)'
  BY DEF AnswerHeld
<1>0. Held(c)
  BY DEF AnswerHeld
<1>a. ASSUME at'[c] = at[c], sid'[c] = sid[c], sub'[c] = sub[c] PROVE Held(c)'
  BY <1>0, <1>a DEF Held, Open
<1>b. ASSUME at'[c] \notin {"answer", "drop"} PROVE Held(c)'
  BY <1>b DEF Held
<1> USE DEF locals, history
<1>1. ASSUME NEW p \in Client, Connect(p) \/ StopReading(p) \/ CloseConn(p) \/ Unregister(p)
      PROVE Held(c)'
  BY <1>1, <1>a DEF Connect, StopReading, CloseConn, Unregister, SetConn
<1>2. ASSUME NEW p \in Client, NEW s \in SubId, NEW F \in FilterLists, ReqArrives(p, s, F)
      PROVE Held(c)'
  <2>1. CASE LastMessage(p)
    BY <1>2, <1>a, <1>b, <2>1 DEF ReqArrives, LastMessage, Forget, Goto, TypeOK
  <2>2. CASE Goto(p, "install") /\ sid' = [sid EXCEPT ![p] = s]
    BY <1>2, <1>a, <1>b, <2>2 DEF ReqArrives, Goto, TypeOK
  <2> QED BY <1>2, <2>1, <2>2 DEF ReqArrives
<1>3. ASSUME NEW p \in Client, InstallSub(p) PROVE Held(c)'
  <2>1. CASE p = c
    <3>1. sid[c] \in SubId /\ sub'[c][sid[c]] = left[c] /\ sid' = sid /\ left[c] # Nil
      BY <1>3, <2>1, DeliveryAssumption DEF InstallSub, TypeOK
    <3> QED BY <3>1 DEF Held, Open
  <2>2. CASE p # c
    BY <1>3, <1>a, <2>2 DEF InstallSub, Goto, TypeOK
  <2> QED BY <2>1, <2>2
<1>4. ASSUME NEW p \in Client, QueryFails(p) \/ DropSub(p) PROVE Held(c)'
  BY <1>4, <1>a, <1>b DEF QueryFails, DropSub, LastMessage, Return, Forget, Goto, TypeOK
<1>5. ASSUME NEW p \in Client,
             \/ \E f \in Filter : QueryFilter(p, f)
             \/ \E e \in Event : SkipExpired(p, e) \/ SendStored(p, e) \/ CapReached(p, e)
      PROVE Held(c)'
  BY <1>5, <1>a DEF QueryFilter, SkipExpired, SendStored, CapReached
<1>6. ASSUME NEW p \in Client, SendEOSE(p) PROVE Held(c)'
  <2>1. at[p] = "answer" /\ UNCHANGED sub
    BY <1>6 DEF SendEOSE, AnswerSent
  <2>2. CASE Goto(p, "drop") /\ UNCHANGED locals
    BY <1>0, <2>1, <2>2 DEF Goto, Held, Open, TypeOK
  <2>3. CASE Return(p)
    BY <1>a, <1>b, <2>1, <2>3 DEF Return, Forget, Goto, TypeOK
  <2> QED BY <1>6, <2>2, <2>3 DEF SendEOSE
<1>7. ASSUME NEW p \in Client, NEW s \in SubId, CloseSub(p, s) PROVE Held(c)'
  BY <1>7, <1>a, <1>b DEF CloseSub, Reading, TypeOK
<1>8. ASSUME NEW p \in Client, NEW e \in Event, EventArrives(p, e) PROVE Held(c)'
  BY <1>8, <1>a, <1>b DEF EventArrives, LastMessage, Forget, Goto, TypeOK
<1>9. ASSUME NEW p \in Client, CheckDuplicate(p) PROVE Held(c)'
  <2>1. CASE LastMessage(p)
    BY <1>9, <1>a, <1>b, <2>1 DEF CheckDuplicate, Acknowledge, LastMessage, Return, Forget,
       Goto, TypeOK
  <2>2. CASE Goto(p, "save") /\ UNCHANGED locals
    BY <1>9, <1>a, <1>b, <2>2 DEF CheckDuplicate, Acknowledge, Goto, TypeOK
  <2> QED BY <1>9, <2>1, <2>2 DEF CheckDuplicate, Acknowledge
<1>10. ASSUME NEW p \in Client, SaveEvent(p) \/ StoreFails(p) \/ SendOK(p) \/ Broadcast(p)
             \/ Release(p)
       PROVE Held(c)'
  BY <1>10, <1>a, <1>b DEF SaveEvent, StoreFails, SendOK, Broadcast, Acknowledge, Release,
     LastMessage, Return, Forget, Goto, TypeOK
<1>11. ASSUME NEW t \in tasks, Admit(t) \/ Snapshot(t) \/ Deliver(t) PROVE Held(c)'
  BY <1>11, <1>a DEF Admit, Snapshot, Deliver
<1>12. CASE (\E e \in Event : Expire(e)) \/ RunRetention \/ UNCHANGED vars
  BY <1>12, <1>a DEF Expire, RunRetention, vars
<1> QED BY <1>1, <1>2, <1>3, <1>4, <1>5, <1>6, <1>7, <1>8, <1>9, <1>10, <1>11, <1>12
        DEF Next, HandlerStep, TaskStep

\* After a CLOSE, or before a REQ, a subscription only receives what a goroutine had
\* chosen it for while it was open.
THEOREM OnlyInFlightAfterCloseCorrect == Spec => OnlyInFlightAfterClose
<1>1. Init => AnswerHeld
  BY DEF Init, AnswerHeld, Held
<1>2. TypeOK /\ AnswerHeld /\ [Next]_vars
        => [\A c \in Client, s \in SubId :
               ~Open(c, s) /\ ~Open(c, s)' /\ (\A t \in tasks : t.to = c => t.sid # s)
                  => got'[c][s] \subseteq got[c][s]]_vars
  <2> SUFFICES ASSUME TypeOK, AnswerHeld, Next, NEW c \in Client, NEW s \in SubId,
                      ~Open(c, s), \A t \in tasks : t.to = c => t.sid # s
               PROVE  got'[c][s] \subseteq got[c][s]
    OBVIOUS
  <2> USE DEF history, locals
  <2>1. ASSUME NEW p \in Client, InstallSub(p) PROVE got'[c][s] \subseteq got[c][s]
    BY <2>1 DEF InstallSub, TypeOK
  <2>2. ASSUME NEW p \in Client, NEW e \in Event, SendStored(p, e)
        PROVE got'[c][s] \subseteq got[c][s]
    <3>1. Open(p, sid[p])
      BY <2>2 DEF SendStored, NextStored, AnswerHeld, Held
    <3>2. c # p \/ s # sid[p]
      BY <3>1
    <3> QED BY <2>2, <3>2 DEF SendStored, TypeOK
  <2>3. ASSUME NEW t \in tasks, Deliver(t) PROVE got'[c][s] \subseteq got[c][s]
    BY <2>3 DEF Deliver, TypeOK, Task
  <2>4. ASSUME NEW p \in Client, HandlerStep(p), ~InstallSub(p),
               ~\E e \in Event : SendStored(p, e)
        PROVE got' = got
    BY <2>4 DEF HandlerStep, QueryFails, SendEOSE, DropSub, QueryFilter, SkipExpired, CapReached,
       CheckDuplicate, SaveEvent, StoreFails, SendOK, Broadcast, Acknowledge, Release
  <2>5. ASSUME NEW p \in Client,
               \/ Connect(p) \/ StopReading(p) \/ CloseConn(p) \/ Unregister(p)
               \/ (\E r \in SubId, F \in FilterLists : ReqArrives(p, r, F))
               \/ (\E r \in SubId : CloseSub(p, r)) \/ (\E e \in Event : EventArrives(p, e))
        PROVE got' = got
    BY <2>5 DEF Connect, StopReading, CloseConn, Unregister, SetConn, ReqArrives, CloseSub,
       EventArrives
  <2>6. ASSUME NEW t \in tasks, Admit(t) \/ Snapshot(t) PROVE got' = got
    BY <2>6 DEF Admit, Snapshot
  <2>7. CASE (\E e \in Event : Expire(e)) \/ RunRetention
    BY <2>7 DEF Expire, RunRetention
  <2> QED BY <2>1, <2>2, <2>3, <2>4, <2>5, <2>6, <2>7 DEF Next, TaskStep
<1> QED BY <1>1, <1>2, TypeCorrect, AnswerHeldInductive, PTL DEF Spec, OnlyInFlightAfterClose
=============================================================================
