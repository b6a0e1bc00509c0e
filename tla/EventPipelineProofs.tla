------------------------- MODULE EventPipelineProofs -------------------------
(***************************************************************************)
(* Proofs about EventPipeline, for any connections, events, pubkeys and    *)
(* channels, with and without authentication.                              *)
(***************************************************************************)
EXTENDS EventPipeline, TLAPS

LEMMA TypeInit == Init => TypeOK
BY EventPipelineAssumption DEF Init, TypeOK, S!Init

LEMMA FinishType ==
    ASSUME TypeOK, NEW c \in Conn, NEW answer \in Seq(BOOLEAN), NEW err \in BOOLEAN,
           Finish(c, answer, err)
    PROVE  at' = [at EXCEPT ![c] = "done"] /\ told' \in [Conn -> Seq(BOOLEAN)]
<1>1. told[c] \o answer \o <<~err>> \in Seq(BOOLEAN)
    <2>1. told[c] \in Seq(BOOLEAN) /\ <<~err>> \in Seq(BOOLEAN)
        BY DEF TypeOK
    <2> QED BY <2>1
<1> QED BY <1>1 DEF Finish, Goto, TypeOK

LEMMA TypeStep == TypeOK /\ [Next]_vars => TypeOK'
<1> SUFFICES ASSUME TypeOK, [Next]_vars PROVE TypeOK'
    OBVIOUS
<1>0. /\ <<>> \in Seq(BOOLEAN) /\ <<TRUE>> \in Seq(BOOLEAN) /\ <<FALSE>> \in Seq(BOOLEAN)
      /\ <<>> \in Seq(Event)
    OBVIOUS
<1>1. ASSUME NEW c \in Conn, NEW e \in Event, EventArrives(c, e) PROVE TypeOK'
    <2>1. budget' \in [Conn -> Nat]
        <3>1. CASE UNCHANGED budget
            BY <3>1 DEF TypeOK
        <3>2. CASE budget[c] > 0 /\ budget' = [budget EXCEPT ![c] = @ - 1]
            <4>1. budget[c] - 1 \in Nat
                BY <3>2 DEF TypeOK
            <4> QED BY <3>2, <4>1 DEF TypeOK
        <3> QED BY <1>1, <3>1, <3>2 DEF EventArrives
    <2>2. /\ told' \in [Conn -> Seq(BOOLEAN)]
          /\ \/ at' = [at EXCEPT ![c] = "done"]
             \/ at' = [at EXCEPT ![c] = "tests"]
        BY <1>0, <1>1 DEF EventArrives, Goto, TypeOK
    <2>3. evt' = [evt EXCEPT ![c] = e] /\ UNCHANGED <<stored, authenticated, todo, history>>
        BY <1>1 DEF EventArrives
    <2> QED BY <2>1, <2>2, <2>3 DEF TypeOK, stored, history
<1>2. ASSUME NEW c \in Conn, RateLimited(c) PROVE TypeOK'
    BY <1>2 DEF RateLimited, Goto, TypeOK, stored, history
<1>3. ASSUME NEW c \in Conn, HandlerStep(c) PROVE TypeOK'
    <2>1. CASE HandleAuth(c)
        <3>1. at' = [at EXCEPT ![c] = "done"] /\ told' \in [Conn -> Seq(BOOLEAN)]
            BY <1>0, <2>1, FinishType DEF HandleAuth
        <3> QED BY <2>1, <3>1 DEF HandleAuth, TypeOK, stored, history
    <2>2. CASE RejectUnwelcome(c)
        <3>1. at' = [at EXCEPT ![c] = "done"] /\ told' \in [Conn -> Seq(BOOLEAN)]
            BY <1>0, <2>2, FinishType DEF RejectUnwelcome
        <3> QED BY <2>2, <3>1 DEF RejectUnwelcome, TypeOK, stored, history
    <2>3. CASE RejectMalformed(c)
        <3>1. at' = [at EXCEPT ![c] = "done"] /\ told' \in [Conn -> Seq(BOOLEAN)]
            BY <1>0, <2>3, FinishType DEF RejectMalformed
        <3> QED BY <2>3, <3>1 DEF RejectMalformed, TypeOK, stored, history
    <2>4. CASE HandleEphemeral(c)
        <3>1. at' = [at EXCEPT ![c] = "done"] /\ told' \in [Conn -> Seq(BOOLEAN)]
            BY <1>0, <2>4, FinishType DEF HandleEphemeral
        <3> QED BY <2>4, <3>1 DEF HandleEphemeral, Passed, TypeOK, stored, history
    <2>5. CASE HandleStored(c)
        BY <2>5 DEF HandleStored, Passed, Goto, TypeOK, stored, history
    <2>6. CASE CheckDuplicate(c)
        <3>1. /\ told' \in [Conn -> Seq(BOOLEAN)]
              /\ \/ at' = [at EXCEPT ![c] = "done"]
                 \/ at' = [at EXCEPT ![c] = "save"]
            <4>1. CASE Finish(c, <<TRUE>>, FALSE)
                BY <1>0, <4>1, FinishType
            <4>2. CASE Goto(c, "save") /\ UNCHANGED told
                BY <4>2 DEF Goto, TypeOK
            <4> QED BY <2>6, <4>1, <4>2 DEF CheckDuplicate
        <3>2. evt[c] \in Event
            BY <2>6 DEF CheckDuplicate, TypeOK
        <3>3. accepted' = accepted \/ accepted' = accepted \cup {evt[c]}
            BY <2>6 DEF CheckDuplicate
        <3>4. UNCHANGED <<stored, authenticated, evt, todo, budget,
                          submitted, disturbed, again, unfiled, before, vanished>>
            BY <2>6 DEF CheckDuplicate
        <3> QED BY <3>1, <3>2, <3>3, <3>4 DEF TypeOK, stored
    <2>7. CASE CheckFails(c)
        <3>1. at' = [at EXCEPT ![c] = "done"] /\ told' \in [Conn -> Seq(BOOLEAN)]
            BY <1>0, <2>7, FinishType DEF CheckFails
        <3> QED BY <2>7, <3>1 DEF CheckFails, TypeOK, stored, history
    <2>8. CASE SaveEvent(c)
        BY <2>8 DEF SaveEvent, Goto, TypeOK, stored
    <2>20. CASE DiscardOlder(c)
        BY <2>20 DEF DiscardOlder, AfterSave, Goto, TypeOK, stored, history
    <2>21. CASE FoundNewest(c)
        <3>1. evt[c] \in Event
            BY <2>21 DEF FoundNewest, TypeOK
        <3> QED BY <2>21, <3>1 DEF FoundNewest, Goto, TypeOK, stored
    <2>22. CASE Purge(c)
        <3>1. live' \subseteq Event /\ dead' \subseteq Event
            BY <2>22 DEF Purge, TypeOK
        <3> QED BY <2>22, <3>1 DEF Purge, Goto, TypeOK, history
    <2>23. CASE Insert(c)
        <3>1. evt[c] \in Event
            BY <2>23 DEF Insert, TypeOK
        <3>2. live' \subseteq Event /\ dead' \subseteq Event /\ again' \subseteq Event
            BY <2>23, <3>1 DEF Insert, TypeOK
        <3>3. disturbed' \subseteq {Slot[e] : e \in Event}
            BY <2>23, <3>1 DEF Insert, TypeOK
        <3> QED BY <2>23, <3>2, <3>3 DEF Insert, AfterSave, Goto, TypeOK
    <2>9. CASE SaveFails(c)
        <3>1. at' = [at EXCEPT ![c] = "done"] /\ told' \in [Conn -> Seq(BOOLEAN)]
            BY <1>0, <2>9, FinishType DEF SaveFails
        <3> QED BY <2>9, <3>1 DEF SaveFails, TypeOK, stored, history
    <2>10. CASE FileInChannel(c)
        BY <2>10 DEF FileInChannel, S!SaveChannel, Goto, TypeOK, stored, history
    <2>11. CASE AcceptEvent(c)
        <3>1. at' = [at EXCEPT ![c] = "done"] /\ told' \in [Conn -> Seq(BOOLEAN)]
            BY <1>0, <2>11, FinishType DEF AcceptEvent
        <3> QED BY <2>11, <3>1 DEF AcceptEvent, TypeOK, stored, history
    <2>12. CASE HandleDeletion(c)
        BY EventPipelineAssumption, <2>12 DEF HandleDeletion, Passed, Goto, TypeOK, stored,
           history
    <2>13. CASE LookAtTarget(c)
        <3>1. \/ at' = [at EXCEPT ![c] = "done"] /\ told' \in [Conn -> Seq(BOOLEAN)]
              \/ ~(\E answer \in Seq(BOOLEAN), err \in BOOLEAN : Finish(c, answer, err))
            BY FinishType
        <3> QED BY <1>0, <2>13, <3>1 DEF LookAtTarget, Goto, TypeOK, stored, history
    <2>14. CASE Cascade(c)
        BY <2>14 DEF Cascade, S!DeleteChannel, Goto, TypeOK, stored, history
    <2>15. CASE MarkTarget(c)
        BY <2>15 DEF MarkTarget, S!Delete, Goto, TypeOK, stored, history
    <2>16. CASE ReadyToVanish(c)
        <3>1. /\ told' \in [Conn -> Seq(BOOLEAN)]
              /\ \/ at' = [at EXCEPT ![c] = "done"]
                 \/ at' = [at EXCEPT ![c] = "vanish"]
            <4>1. CASE Finish(c, <<TRUE>>, FALSE)
                BY <1>0, <4>1, FinishType
            <4>2. CASE Goto(c, "vanish") /\ UNCHANGED told
                BY <4>2 DEF Goto, TypeOK
            <4> QED BY <2>16, <4>1, <4>2 DEF ReadyToVanish
        <3>2. evt[c] \in Event
            BY <2>16 DEF ReadyToVanish, Passed, TypeOK
        <3>3. S!Hers(Author[evt[c]]) \subseteq Event
            BY DEF S!Hers, TypeOK
        <3>4. before' \in [Conn -> SUBSET Event] /\ submitted' \subseteq Event
            BY <2>16, <3>2, <3>3 DEF ReadyToVanish, TypeOK
        <3>5. vanished' \subseteq Event \X Event
            BY <2>16, <3>2, <3>3 DEF ReadyToVanish, TypeOK
        <3>6. UNCHANGED <<stored, authenticated, evt, todo, budget,
                          accepted, disturbed, again, unfiled>>
            BY <2>16 DEF ReadyToVanish
        <3> QED BY <3>1, <3>2, <3>4, <3>5, <3>6 DEF TypeOK, stored
    <2>17. CASE Vanish(c)
        <3>1. at' = [at EXCEPT ![c] = "done"] /\ told' \in [Conn -> Seq(BOOLEAN)]
            BY <1>0, <2>17, FinishType DEF Vanish
        <3>2. evt[c] \in Event /\ before[c] \subseteq Event
            BY <2>17 DEF Vanish, TypeOK
        <3>3. vanished' \subseteq Event \X Event
            BY <2>17, <3>2 DEF Vanish, TypeOK
        <3> QED BY <2>17, <3>1, <3>3 DEF Vanish, S!Vanish, S!Hers, TypeOK
    <2>18. CASE VanishFails(c)
        <3>1. at' = [at EXCEPT ![c] = "done"] /\ told' \in [Conn -> Seq(BOOLEAN)]
            BY <1>0, <2>18, FinishType DEF VanishFails
        <3> QED BY <2>18, <3>1 DEF VanishFails, S!Hers, TypeOK, stored, history
    <2>19. CASE Return(c)
        BY <1>0, <2>19, FinishType DEF Return, Goto, TypeOK, stored, history
    <2> QED BY <1>3, <2>1, <2>2, <2>3, <2>4, <2>5, <2>6, <2>7, <2>8, <2>9, <2>10, <2>11,
               <2>12, <2>13, <2>14, <2>15, <2>16, <2>17, <2>18, <2>19, <2>20, <2>21, <2>22,
               <2>23 DEF HandlerStep
<1>4. CASE RunRetention
    BY <1>4 DEF RunRetention, S!Retain, S!Remove, Goto, TypeOK, stored, history
<1>5. CASE UNCHANGED vars
    BY <1>5 DEF vars, Goto, TypeOK, stored, history
<1> QED BY <1>1, <1>2, <1>3, <1>4, <1>5 DEF Next

\* The state of the handlers and of the store stays within its types, and a
\* deletion's loop ends with its targets.
THEOREM TypeCorrect == Spec => []TypeOK
BY TypeInit, TypeStep, PTL DEF Spec
-----------------------------------------------------------------------------
(************************* What every step respects ************************)
\* The handlers of other connections stay where they are.
LEMMA Local ==
    ASSUME TypeOK, NEW c \in Conn, HandlerStep(c) \/ \E e \in Event : EventArrives(c, e),
           NEW d \in Conn, d # c
    PROVE  /\ at'[d] = at[d] /\ evt'[d] = evt[d] /\ todo'[d] = todo[d]
           /\ told'[d] = told[d] /\ before'[d] = before[d]
<1> USE DEF TypeOK, Goto, Finish, history
<1>1. CASE HandleAuth(c) \/ RejectUnwelcome(c) \/ RejectMalformed(c) \/ HandleEphemeral(c)
    BY <1>1 DEF HandleAuth, RejectUnwelcome, RejectMalformed, HandleEphemeral
<1>2. CASE HandleStored(c) \/ CheckDuplicate(c) \/ CheckFails(c)
    BY <1>2 DEF HandleStored, CheckDuplicate, CheckFails
<1>3. CASE SaveEvent(c) \/ SaveFails(c) \/ FileInChannel(c) \/ AcceptEvent(c)
    BY <1>3 DEF SaveEvent, SaveFails, FileInChannel, AcceptEvent
<1>7. CASE DiscardOlder(c) \/ FoundNewest(c) \/ Purge(c) \/ Insert(c)
    BY <1>7 DEF DiscardOlder, FoundNewest, Purge, Insert
<1>4. CASE HandleDeletion(c) \/ LookAtTarget(c) \/ Cascade(c) \/ MarkTarget(c)
    BY <1>4 DEF HandleDeletion, LookAtTarget, Cascade, MarkTarget
<1>5. CASE ReadyToVanish(c) \/ Vanish(c) \/ VanishFails(c) \/ Return(c)
    BY <1>5 DEF ReadyToVanish, Vanish, VanishFails, Return
<1>6. ASSUME NEW e \in Event, EventArrives(c, e)
      PROVE  /\ at'[d] = at[d] /\ evt'[d] = evt[d] /\ todo'[d] = todo[d]
             /\ told'[d] = told[d] /\ before'[d] = before[d]
    <2>1. /\ told' = told \/ told' = [told EXCEPT ![c] = <<FALSE>>]
          /\ at' = [at EXCEPT ![c] = "done"] \/ at' = [at EXCEPT ![c] = "tests"]
          /\ evt' = [evt EXCEPT ![c] = e] /\ todo' = todo /\ before' = before
        BY <1>6 DEF EventArrives
    <2> QED BY <2>1
<1> QED BY <1>1, <1>2, <1>3, <1>4, <1>5, <1>6, <1>7 DEF HandlerStep

\* The steps that leave the handlers alone.
LEMMA Elsewhere ==
    ASSUME RunRetention \/ UNCHANGED vars \/ \E c \in Conn : RateLimited(c)
    PROVE  UNCHANGED <<at, evt, todo, told, history>>
BY DEF RunRetention, vars, RateLimited

\* What has been recorded stays recorded, and the dead stay dead.
LEMMA Growth ==
    ASSUME TypeOK, [Next]_vars
    PROVE  /\ submitted \subseteq submitted' /\ again \subseteq again'
           /\ disturbed \subseteq disturbed' /\ dead \subseteq dead'
<1> DEFINE Grown == /\ submitted \subseteq submitted' /\ again \subseteq again'
                    /\ disturbed \subseteq disturbed' /\ dead \subseteq dead'
<1> USE DEF history, stored
<1>1. ASSUME NEW c \in Conn, HandlerStep(c) PROVE Grown
    <2>1. CASE HandleAuth(c) \/ RejectUnwelcome(c) \/ RejectMalformed(c) \/ HandleEphemeral(c)
        BY <2>1 DEF HandleAuth, RejectUnwelcome, RejectMalformed, HandleEphemeral
    <2>2. CASE HandleStored(c) \/ CheckDuplicate(c) \/ CheckFails(c) \/ AcceptEvent(c)
        BY <2>2 DEF HandleStored, CheckDuplicate, CheckFails, AcceptEvent
    <2>3. CASE SaveEvent(c) \/ SaveFails(c) \/ FileInChannel(c)
        BY <2>3 DEF SaveEvent, SaveFails, FileInChannel, S!SaveChannel
    <2>6. CASE DiscardOlder(c) \/ FoundNewest(c) \/ Purge(c) \/ Insert(c)
        BY <2>6 DEF DiscardOlder, FoundNewest, Purge, Insert
    <2>4. CASE HandleDeletion(c) \/ LookAtTarget(c) \/ Cascade(c) \/ MarkTarget(c)
        BY <2>4 DEF HandleDeletion, LookAtTarget, Cascade, MarkTarget, S!DeleteChannel, S!Delete
    <2>5. CASE ReadyToVanish(c) \/ Vanish(c) \/ VanishFails(c) \/ Return(c)
        BY <2>5 DEF ReadyToVanish, Vanish, VanishFails, Return, S!Vanish
    <2> QED BY <1>1, <2>1, <2>2, <2>3, <2>4, <2>5, <2>6 DEF HandlerStep
<1>2. CASE RunRetention
    BY <1>2 DEF RunRetention, S!Retain, S!Remove
<1>3. CASE \E c \in Conn : RateLimited(c) \/ \E e \in Event : EventArrives(c, e)
    BY <1>3 DEF RateLimited, EventArrives
<1>4. CASE UNCHANGED vars
    BY <1>4 DEF vars
<1> QED BY <1>1, <1>2, <1>3, <1>4 DEF Next
-----------------------------------------------------------------------------
(************************ What the handlers are about **********************)
\* A handler in the loop of HandleDeletion has a deletion in hand, and targets of it;
\* a channel is deleted only because an event that defines it is named.
Deleting ==
    \A c \in Conn : at[c] \in {"look", "cascade", "mark"} =>
        /\ evt[c] \in submitted /\ Kind[evt[c]] = "deletion"
        /\ \A i \in DOMAIN todo[c] : todo[c][i] \in ToSet(Targets[evt[c]])
        /\ at[c] = "cascade" => Kind[Head(todo[c])] = "room"

Vanishing ==
    \A c \in Conn : at[c] = "vanish" => evt[c] \in submitted /\ Kind[evt[c]] = "vanish"

\* A handler in SaveEvent is past the call, and looks for other versions only of a
\* replaceable event.
Saving ==
    \A c \in Conn : at[c] \in {"newest", "purge", "insert"} =>
        /\ evt[c] \in submitted
        /\ at[c] # "insert" => S!Replaceable(evt[c])

\* A handler about to purge the other versions has none newer than its own before it,
\* unless it could not see it.
PurgeSound ==
    \A c \in Conn : at[c] = "purge" =>
        \/ Slot[evt[c]] \in disturbed
        \/ \A d \in live \cap S!Versions(evt[c]) : Created[d] <= Created[evt[c]]

\* What the store knows was saved by a handler; nothing is alive and dead.
Known == live \cup dead \subseteq submitted /\ live \cap dead = {}

HInv == TypeOK /\ Deleting /\ Vanishing /\ Saving /\ PurgeSound /\ Known

LEMMA HInvInit == Init => HInv
BY TypeInit DEF Init, HInv, Deleting, Vanishing, Saving, PurgeSound, Known, S!Init

LEMMA DeletingStep == HInv /\ [Next]_vars => Deleting'
<1> SUFFICES ASSUME HInv, [Next]_vars, NEW d \in Conn, at'[d] \in {"look", "cascade", "mark"}
             PROVE  /\ evt'[d] \in submitted' /\ Kind[evt'[d]] = "deletion"
                    /\ \A i \in DOMAIN todo'[d] : todo'[d][i] \in ToSet(Targets[evt'[d]])
                    /\ at'[d] = "cascade" => Kind[Head(todo'[d])] = "room"
    BY DEF Deleting
<1> DEFINE Good == /\ evt'[d] \in submitted' /\ Kind[evt'[d]] = "deletion"
                   /\ \A i \in DOMAIN todo'[d] : todo'[d][i] \in ToSet(Targets[evt'[d]])
                   /\ at'[d] = "cascade" => Kind[Head(todo'[d])] = "room"
<1>1. CASE at'[d] = at[d] /\ evt'[d] = evt[d] /\ todo'[d] = todo[d]
    BY <1>1, Growth DEF HInv, Deleting
<1>2. ASSUME HandlerStep(d) PROVE Good
    <2> USE DEF HInv, TypeOK, Goto, Finish
    <2>1. CASE HandleAuth(d) \/ RejectUnwelcome(d) \/ RejectMalformed(d) \/ HandleEphemeral(d)
        BY <2>1 DEF HandleAuth, RejectUnwelcome, RejectMalformed, HandleEphemeral
    <2>2. CASE HandleStored(d) \/ CheckDuplicate(d) \/ CheckFails(d) \/ AcceptEvent(d)
        BY <2>2 DEF HandleStored, CheckDuplicate, CheckFails, AcceptEvent
    <2>3. CASE SaveEvent(d) \/ SaveFails(d) \/ FileInChannel(d)
        BY <2>3 DEF SaveEvent, SaveFails, FileInChannel
    <2>9. CASE DiscardOlder(d) \/ FoundNewest(d) \/ Purge(d) \/ Insert(d)
        BY <2>9 DEF DiscardOlder, FoundNewest, Purge, Insert, AfterSave
    <2>4. CASE HandleDeletion(d)
        <3>1. evt[d] \in Event /\ Targets[evt[d]] \in Seq(Event)
            BY <2>4, EventPipelineAssumption DEF HandleDeletion, Passed
        <3> QED BY <2>4, <3>1 DEF HandleDeletion, Passed, ToSet
    <2>5. CASE LookAtTarget(d)
        BY <2>5 DEF LookAtTarget, Deleting, history
    <2>6. CASE Cascade(d)
        BY <2>6 DEF Cascade, Deleting, history
    <2>7. CASE MarkTarget(d)
        <3>1. todo[d] \in Seq(Event) /\ todo[d] # <<>>
            BY <2>7 DEF MarkTarget
        <3>2. todo'[d] = Tail(todo[d]) /\ evt' = evt /\ submitted' = submitted /\ at'[d] = "look"
            BY <2>7 DEF MarkTarget, history
        <3>3. \A i \in DOMAIN Tail(todo[d]) : \E j \in DOMAIN todo[d] : Tail(todo[d])[i] = todo[d][j]
            <4> TAKE i \in DOMAIN Tail(todo[d])
            <4>1. i + 1 \in DOMAIN todo[d] /\ Tail(todo[d])[i] = todo[d][i + 1]
                BY <3>1
            <4> QED BY <4>1
        <3> QED BY <2>7, <3>2, <3>3 DEF MarkTarget, Deleting
    <2>8. CASE ReadyToVanish(d) \/ Vanish(d) \/ VanishFails(d) \/ Return(d)
        BY <2>8 DEF ReadyToVanish, Vanish, VanishFails, Return
    <2> QED BY <1>2, <2>1, <2>2, <2>3, <2>4, <2>5, <2>6, <2>7, <2>8, <2>9 DEF HandlerStep
<1>3. ASSUME NEW e \in Event, EventArrives(d, e) PROVE Good
    BY <1>3 DEF EventArrives, Goto, HInv, TypeOK
<1> QED BY <1>1, <1>2, <1>3, Local, Elsewhere DEF Next, HInv, history

LEMMA VanishingStep == HInv /\ [Next]_vars => Vanishing'
<1> SUFFICES ASSUME HInv, [Next]_vars, NEW d \in Conn, at'[d] = "vanish"
             PROVE  evt'[d] \in submitted' /\ Kind[evt'[d]] = "vanish"
    BY DEF Vanishing
<1>1. CASE at'[d] = at[d] /\ evt'[d] = evt[d]
    BY <1>1, Growth DEF HInv, Vanishing
<1>2. ASSUME HandlerStep(d) PROVE evt'[d] \in submitted' /\ Kind[evt'[d]] = "vanish"
    <2> USE DEF HInv, TypeOK, Goto, Finish
    <2>1. CASE HandleAuth(d) \/ RejectUnwelcome(d) \/ RejectMalformed(d) \/ HandleEphemeral(d)
        BY <2>1 DEF HandleAuth, RejectUnwelcome, RejectMalformed, HandleEphemeral
    <2>2. CASE HandleStored(d) \/ CheckDuplicate(d) \/ CheckFails(d) \/ AcceptEvent(d)
        BY <2>2 DEF HandleStored, CheckDuplicate, CheckFails, AcceptEvent
    <2>3. CASE SaveEvent(d) \/ SaveFails(d) \/ FileInChannel(d)
        BY <2>3 DEF SaveEvent, SaveFails, FileInChannel
    <2>9. CASE DiscardOlder(d) \/ FoundNewest(d) \/ Purge(d) \/ Insert(d)
        BY <2>9 DEF DiscardOlder, FoundNewest, Purge, Insert, AfterSave
    <2>4. CASE HandleDeletion(d) \/ LookAtTarget(d) \/ Cascade(d) \/ MarkTarget(d)
        BY <2>4 DEF HandleDeletion, LookAtTarget, Cascade, MarkTarget
    <2>5. CASE ReadyToVanish(d)
        BY <2>5 DEF ReadyToVanish, Passed
    <2>6. CASE Vanish(d) \/ VanishFails(d) \/ Return(d)
        BY <2>6 DEF Vanish, VanishFails, Return
    <2> QED BY <1>2, <2>1, <2>2, <2>3, <2>4, <2>5, <2>6, <2>9 DEF HandlerStep
<1>3. ASSUME NEW e \in Event, EventArrives(d, e)
      PROVE  evt'[d] \in submitted' /\ Kind[evt'[d]] = "vanish"
    BY <1>3 DEF EventArrives, Goto, HInv, TypeOK
<1> QED BY <1>1, <1>2, <1>3, Local, Elsewhere DEF Next, HInv, history

LEMMA SavingStep == HInv /\ [Next]_vars => Saving'
<1> DEFINE Good(d) == at'[d] \in {"newest", "purge", "insert"} =>
                          /\ evt'[d] \in submitted'
                          /\ at'[d] # "insert" => S!Replaceable(evt'[d])
<1> SUFFICES ASSUME HInv, [Next]_vars, NEW d \in Conn PROVE Good(d)
    BY DEF Saving
<1>1. CASE at'[d] = at[d] /\ evt'[d] = evt[d]
    BY <1>1, Growth DEF HInv, Saving
<1>2. ASSUME HandlerStep(d) PROVE Good(d)
    <2> USE DEF HInv, TypeOK, Goto, Finish
    <2>1. CASE HandleAuth(d) \/ RejectUnwelcome(d) \/ RejectMalformed(d) \/ HandleEphemeral(d)
        BY <2>1 DEF HandleAuth, RejectUnwelcome, RejectMalformed, HandleEphemeral
    <2>2. CASE HandleStored(d) \/ CheckDuplicate(d) \/ CheckFails(d) \/ AcceptEvent(d)
        BY <2>2 DEF HandleStored, CheckDuplicate, CheckFails, AcceptEvent
    <2>3. CASE SaveEvent(d)
        BY <2>3 DEF SaveEvent
    <2>4. CASE FoundNewest(d)
        BY <2>4 DEF FoundNewest, Saving
    <2>5. CASE Purge(d)
        BY <2>5 DEF Purge, Saving, history
    <2>6. CASE DiscardOlder(d) \/ Insert(d) \/ SaveFails(d) \/ FileInChannel(d)
        BY <2>6 DEF DiscardOlder, Insert, AfterSave, SaveFails, FileInChannel
    <2>7. CASE HandleDeletion(d) \/ LookAtTarget(d) \/ Cascade(d) \/ MarkTarget(d)
        BY <2>7 DEF HandleDeletion, LookAtTarget, Cascade, MarkTarget
    <2>8. CASE ReadyToVanish(d) \/ Vanish(d) \/ VanishFails(d) \/ Return(d)
        BY <2>8 DEF ReadyToVanish, Vanish, VanishFails, Return
    <2> QED BY <1>2, <2>1, <2>2, <2>3, <2>4, <2>5, <2>6, <2>7, <2>8 DEF HandlerStep
<1>3. ASSUME NEW e \in Event, EventArrives(d, e) PROVE Good(d)
    BY <1>3 DEF EventArrives, Goto, HInv, TypeOK
<1> QED BY <1>1, <1>2, <1>3, Local, Elsewhere DEF Next, HInv, history

\* The steps of a handler that leave the live and the dead alone.
LEMMA Untouched ==
    ASSUME NEW c \in Conn,
           \/ HandleAuth(c) \/ RejectUnwelcome(c) \/ RejectMalformed(c) \/ HandleEphemeral(c)
           \/ HandleStored(c) \/ CheckDuplicate(c) \/ CheckFails(c) \/ AcceptEvent(c)
           \/ FileInChannel(c) \/ HandleDeletion(c) \/ LookAtTarget(c) \/ Cascade(c)
           \/ ReadyToVanish(c) \/ Return(c)
           \/ SaveEvent(c) \/ DiscardOlder(c) \/ FoundNewest(c) \/ SaveFails(c)
    PROVE  UNCHANGED <<live, dead>>
<1>1. CASE HandleAuth(c) \/ RejectUnwelcome(c) \/ RejectMalformed(c) \/ HandleEphemeral(c)
    BY <1>1 DEF HandleAuth, RejectUnwelcome, RejectMalformed, HandleEphemeral, stored
<1>2. CASE HandleStored(c) \/ CheckDuplicate(c) \/ CheckFails(c) \/ AcceptEvent(c)
    BY <1>2 DEF HandleStored, CheckDuplicate, CheckFails, AcceptEvent, stored
<1>3. CASE FileInChannel(c) \/ HandleDeletion(c) \/ LookAtTarget(c)
    BY <1>3 DEF FileInChannel, HandleDeletion, LookAtTarget, S!SaveChannel, stored
<1>4. CASE Cascade(c) \/ ReadyToVanish(c) \/ Return(c)
    BY <1>4 DEF Cascade, ReadyToVanish, Return, S!DeleteChannel, stored
<1>5. CASE SaveEvent(c) \/ DiscardOlder(c) \/ FoundNewest(c) \/ SaveFails(c)
    BY <1>5 DEF SaveEvent, DiscardOlder, FoundNewest, SaveFails, stored
<1> QED BY <1>1, <1>2, <1>3, <1>4, <1>5

LEMMA PurgeSoundStep == HInv /\ [Next]_vars => PurgeSound'
<1> SUFFICES ASSUME HInv, [Next]_vars, NEW d \in Conn, at'[d] = "purge"
             PROVE  \/ Slot[evt'[d]] \in disturbed'
                    \/ \A x \in live' \cap S!Versions(evt'[d]) : Created[x] <= Created[evt'[d]]
    BY DEF PurgeSound
<1> DEFINE Sound == \/ Slot[evt'[d]] \in disturbed'
                    \/ \A x \in live' \cap S!Versions(evt'[d]) : Created[x] <= Created[evt'[d]]
<1>1. ASSUME at'[d] = at[d], evt'[d] = evt[d], live' \subseteq live PROVE Sound
    BY <1>1, Growth DEF HInv, PurgeSound
<1>2. ASSUME NEW c \in Conn, c # d, Insert(c), at'[d] = at[d], evt'[d] = evt[d] PROVE Sound
    <2>1. live' \subseteq live \cup {evt[c]} /\ evt[c] \in Event
        BY <1>2 DEF Insert, HInv, TypeOK
    <2>2. CASE evt[c] \in S!Versions(evt[d]) /\ ~(Created[evt[c]] <= Created[evt[d]])
        <3>1. Slot[evt[c]] = Slot[evt[d]] /\ evt[d] \in Event
            BY <1>2, <2>2 DEF S!Versions, HInv, TypeOK
        <3>2. evt[d] \in S!Versions(evt[c])
            BY <2>2, <3>1 DEF S!Versions, S!Replaceable
        <3>3. Created[evt[d]] < Created[evt[c]]
            BY <2>1, <2>2, <3>1, EventPipelineAssumption
        <3>4. Overtaken(evt[c])
            BY <1>2, <3>2, <3>3 DEF Overtaken
        <3>5. Slot[evt[d]] \in disturbed'
            BY <1>2, <3>1, <3>4 DEF Insert
        <3> QED BY <1>2, <3>5
    <2>3. CASE ~(evt[c] \in S!Versions(evt[d]) /\ ~(Created[evt[c]] <= Created[evt[d]]))
        BY <1>2, <2>1, <2>3, Growth DEF HInv, PurgeSound
    <2> QED BY <2>2, <2>3
<1>3. ASSUME HandlerStep(d) PROVE Sound
    <2> USE DEF HInv, TypeOK, Goto, Finish
    <2>1. FoundNewest(d)
        <3>1. CASE HandleAuth(d) \/ RejectUnwelcome(d) \/ RejectMalformed(d) \/ HandleEphemeral(d)
            BY <3>1 DEF HandleAuth, RejectUnwelcome, RejectMalformed, HandleEphemeral
        <3>2. CASE HandleStored(d) \/ CheckDuplicate(d) \/ CheckFails(d) \/ AcceptEvent(d)
            BY <3>2 DEF HandleStored, CheckDuplicate, CheckFails, AcceptEvent
        <3>3. CASE SaveEvent(d) \/ SaveFails(d) \/ FileInChannel(d)
            BY <3>3 DEF SaveEvent, SaveFails, FileInChannel
        <3>4. CASE DiscardOlder(d) \/ Purge(d) \/ Insert(d)
            BY <3>4 DEF DiscardOlder, Purge, Insert, AfterSave
        <3>5. CASE HandleDeletion(d) \/ LookAtTarget(d) \/ Cascade(d) \/ MarkTarget(d)
            BY <3>5 DEF HandleDeletion, LookAtTarget, Cascade, MarkTarget
        <3>6. CASE ReadyToVanish(d) \/ Vanish(d) \/ VanishFails(d) \/ Return(d)
            BY <3>6 DEF ReadyToVanish, Vanish, VanishFails, Return
        <3> QED BY <1>3, <3>1, <3>2, <3>3, <3>4, <3>5, <3>6 DEF HandlerStep
    <2>2. evt' = evt /\ live' = live
        BY <2>1 DEF FoundNewest, stored
    <2> QED BY <2>1, <2>2 DEF FoundNewest
<1>4. ASSUME NEW e \in Event, EventArrives(d, e) PROVE FALSE
    BY <1>4 DEF EventArrives, Goto, HInv, TypeOK
<1>5. ASSUME NEW c \in Conn, c # d, HandlerStep(c) \/ \E e \in Event : EventArrives(c, e)
      PROVE  Sound
    <2>1. at'[d] = at[d] /\ evt'[d] = evt[d]
        BY <1>5, Local DEF HInv
    <2>2. CASE Insert(c)
        BY <1>2, <1>5, <2>1, <2>2
    <2>3. CASE ~Insert(c)
        <3>1. live' \subseteq live
            BY <1>5, <2>3, Untouched DEF HandlerStep, EventArrives, Purge, MarkTarget, Vanish,
               VanishFails, S!Delete, S!Vanish, stored
        <3> QED BY <1>1, <2>1, <3>1
    <2> QED BY <2>2, <2>3
<1>6. CASE RunRetention \/ UNCHANGED vars \/ \E c \in Conn : RateLimited(c)
    <2>1. live' \subseteq live
        BY <1>6 DEF RunRetention, vars, RateLimited, stored, S!Retain, S!Remove
    <2> QED BY <1>1, <1>6, <2>1, Elsewhere
<1> QED BY <1>3, <1>4, <1>5, <1>6 DEF Next

LEMMA KnownStep == HInv /\ [Next]_vars => Known'
<1> SUFFICES ASSUME HInv, [Next]_vars PROVE Known'
    OBVIOUS
<1>1. CASE UNCHANGED <<live, dead>>
    BY <1>1, Growth DEF HInv, Known
<1>2. ASSUME NEW c \in Conn,
             Purge(c) \/ Insert(c) \/ MarkTarget(c) \/ Vanish(c) \/ VanishFails(c)
      PROVE  Known'
    <2>1. CASE Purge(c)
        BY <2>1, Growth DEF Purge, HInv, Known
    <2>2. CASE Insert(c)
        <3>1. evt[c] \in submitted
            BY <2>2 DEF Insert, HInv, Saving
        <3> QED BY <2>2, <3>1, Growth DEF Insert, HInv, Known
    <2>3. CASE MarkTarget(c)
        BY <2>3, Growth DEF MarkTarget, S!Delete, stored, HInv, Known
    <2>4. CASE Vanish(c)
        BY <2>4, Growth DEF Vanish, S!Vanish, S!Hers, HInv, Known
    <2>5. CASE VanishFails(c)
        BY <2>5, Growth DEF VanishFails, S!Hers, HInv, Known
    <2> QED BY <1>2, <2>1, <2>2, <2>3, <2>4, <2>5
<1>3. CASE RunRetention
    BY <1>3, Growth DEF RunRetention, S!Retain, S!Remove, HInv, Known
<1>4. CASE \E c \in Conn : RateLimited(c) \/ \E e \in Event : EventArrives(c, e)
    BY <1>1, <1>4 DEF RateLimited, EventArrives, stored
<1>5. CASE UNCHANGED vars
    BY <1>1, <1>5 DEF vars, stored
<1> QED BY <1>1, <1>2, <1>3, <1>4, <1>5, Untouched DEF Next, HandlerStep

LEMMA HInvAlways == Spec => []HInv
<1>1. HInv /\ [Next]_vars => HInv'
    BY TypeStep, DeletingStep, VanishingStep, SavingStep, PurgeSoundStep, KnownStep DEF HInv
<1> QED BY <1>1, HInvInit, PTL DEF Spec
-----------------------------------------------------------------------------
(******************************* What is kept ******************************)
Explained(e) == Retracted(e) \/ Superseded(e) \/ Misjudged(e) \/ e \in Aged

LEMMA ExplainedStays ==
    ASSUME TypeOK, [Next]_vars, NEW e, Explained(e)
    PROVE  Explained(e)'
<1>1. submitted \subseteq submitted' /\ again \subseteq again' /\ disturbed \subseteq disturbed'
    BY Growth
<1>2. CASE Retracted(e)
    BY <1>1, <1>2 DEF Explained, Retracted
<1>3. CASE Superseded(e)
    BY <1>1, <1>3 DEF Explained, Superseded
<1>4. CASE Misjudged(e)
    BY <1>1, <1>4 DEF Explained, Misjudged
<1> QED BY <1>2, <1>3, <1>4 DEF Explained

\* What a save takes from the live events is replaced, was saved a second time, or was
\* of a slot whose newest version was misjudged.
LEMMA Replaced ==
    ASSUME HInv, [Next]_vars, NEW c \in Conn, Purge(c) \/ Insert(c), NEW e \in live,
    e \notin live'
    PROVE  Superseded(e)' \/ Misjudged(e)'
<1>1. e \in Event /\ evt[c] \in Event
    BY DEF Purge, Insert, HInv, TypeOK
<1>2. CASE Purge(c)
    <2>1. e \in S!Versions(evt[c]) /\ e # evt[c] /\ evt[c] \in submitted /\ at[c] = "purge"
        BY <1>2 DEF Purge, HInv, Saving
    <2>2. S!Replaceable(e) /\ evt[c] \in S!Versions(e) /\ Slot[e] = Slot[evt[c]]
        BY <1>1, <2>1 DEF S!Versions, S!Replaceable
    <2>3. CASE Slot[evt[c]] \in disturbed
        BY <2>2, <2>3, Growth DEF HInv, Misjudged
    <2>4. CASE Created[e] <= Created[evt[c]]
        <3>1. Created[evt[c]] >= Created[e]
            BY <1>1, <2>4, EventPipelineAssumption
        <3> QED BY <2>1, <2>2, <3>1, Growth DEF HInv, Superseded
    <2> QED BY <2>1, <2>3, <2>4 DEF HInv, PurgeSound
<1>3. CASE Insert(c)
    BY <1>3 DEF Insert, Superseded
<1> QED BY <1>2, <1>3

\* Whatever leaves the store has an explanation by then.
LEMMA Removal ==
    ASSUME HInv, [Next]_vars, NEW e \in live, e \notin live'
    PROVE  Explained(e)'
<1>1. ASSUME NEW c \in Conn, Purge(c) \/ Insert(c) PROVE Explained(e)'
    BY <1>1, Replaced DEF Explained
<1>3. ASSUME NEW c \in Conn, MarkTarget(c) PROVE Explained(e)'
    <2>1. e = Head(todo[c]) /\ Author[e] = Author[evt[c]]
        BY <1>3 DEF MarkTarget, S!Delete, stored
    <2>2. todo[c] \in Seq(Event) /\ todo[c] # <<>>
        BY <1>3 DEF MarkTarget, HInv, TypeOK
    <2>3. 1 \in DOMAIN todo[c] /\ Head(todo[c]) = todo[c][1]
        BY <2>2
    <2>4. evt[c] \in submitted /\ Kind[evt[c]] = "deletion" /\ e \in ToSet(Targets[evt[c]])
        BY <1>3, <2>1, <2>3 DEF MarkTarget, HInv, Deleting
    <2> QED BY <2>1, <2>4, Growth DEF Explained, Retracted, HInv
<1>4. ASSUME NEW c \in Conn, Vanish(c) \/ VanishFails(c) PROVE Explained(e)'
    <2>1. Author[e] = Author[evt[c]] /\ at[c] = "vanish"
        BY <1>4 DEF Vanish, VanishFails, S!Vanish, S!Hers
    <2> QED BY <2>1, Growth DEF Explained, Retracted, HInv, Vanishing
<1>5. CASE RunRetention
    BY <1>5 DEF RunRetention, S!Retain, S!Remove, Explained
<1>6. CASE \E c \in Conn : RateLimited(c) \/ \E x \in Event : EventArrives(c, x)
    BY <1>6 DEF RateLimited, EventArrives, stored
<1>7. CASE UNCHANGED vars
    BY <1>7 DEF vars, stored
<1> QED BY <1>1, <1>3, <1>4, <1>5, <1>6, <1>7, Untouched DEF Next, HandlerStep

\* What is dead was alive before.
LEMMA Deaths ==
    ASSUME [Next]_vars, NEW e \in dead', e \notin dead
    PROVE  e \in live /\ e \notin live'
<1>1. ASSUME NEW c \in Conn,
             Purge(c) \/ Insert(c) \/ MarkTarget(c) \/ Vanish(c) \/ VanishFails(c)
      PROVE  e \in live /\ e \notin live'
    BY <1>1 DEF Purge, Insert, MarkTarget, Vanish, VanishFails, S!Delete, S!Vanish, S!Hers, stored
<1>2. CASE RunRetention
    BY <1>2 DEF RunRetention, S!Retain, S!Remove
<1>3. CASE \E c \in Conn : RateLimited(c) \/ \E x \in Event : EventArrives(c, x)
    BY <1>3 DEF RateLimited, EventArrives, stored
<1>4. CASE UNCHANGED vars
    BY <1>4 DEF vars, stored
<1> QED BY <1>1, <1>2, <1>3, <1>4, Untouched DEF Next, HandlerStep

\* The dead, the events told OK true, and those whose handler is about to tell: a
\* handler may insert an event that died while it was saving it.
Kept ==
    /\ \A e \in dead : Explained(e)
    /\ \A e \in accepted : e \in live \/ Explained(e)
    /\ \A c \in Conn : at[c] \in {"file", "ok"} => evt[c] \in live \/ Explained(evt[c])

LEMMA KeptStays ==
    ASSUME HInv, [Next]_vars, NEW e, e \in live \/ Explained(e)
    PROVE  e \in live' \/ Explained(e)'
BY Removal, ExplainedStays DEF HInv

\* The steps that neither accept an event nor bring a handler to its OK.
LEMMA NothingToKeep ==
    ASSUME TypeOK, NEW c \in Conn,
           \/ HandleAuth(c) \/ RejectUnwelcome(c) \/ RejectMalformed(c) \/ HandleEphemeral(c)
           \/ HandleStored(c) \/ CheckFails(c) \/ SaveFails(c)
           \/ SaveEvent(c) \/ FoundNewest(c) \/ Purge(c)
           \/ HandleDeletion(c) \/ LookAtTarget(c) \/ Cascade(c) \/ MarkTarget(c)
           \/ ReadyToVanish(c) \/ Vanish(c) \/ VanishFails(c) \/ Return(c)
    PROVE  accepted' = accepted /\ at'[c] \notin {"file", "ok"}
<1> USE DEF TypeOK, Goto, Finish, history
<1>1. CASE HandleAuth(c) \/ RejectUnwelcome(c) \/ RejectMalformed(c) \/ HandleEphemeral(c)
    BY <1>1 DEF HandleAuth, RejectUnwelcome, RejectMalformed, HandleEphemeral
<1>2. CASE HandleStored(c) \/ CheckFails(c) \/ SaveFails(c)
    BY <1>2 DEF HandleStored, CheckFails, SaveFails
<1>3. CASE HandleDeletion(c) \/ LookAtTarget(c) \/ Cascade(c) \/ MarkTarget(c)
    BY <1>3 DEF HandleDeletion, LookAtTarget, Cascade, MarkTarget
<1>4. CASE ReadyToVanish(c) \/ Vanish(c) \/ VanishFails(c) \/ Return(c)
    BY <1>4 DEF ReadyToVanish, Vanish, VanishFails, Return
<1>5. CASE SaveEvent(c) \/ FoundNewest(c) \/ Purge(c)
    BY <1>5 DEF SaveEvent, FoundNewest, Purge
<1> QED BY <1>1, <1>2, <1>3, <1>4, <1>5

LEMMA KeptStep == HInv /\ Kept /\ [Next]_vars => Kept'
<1> SUFFICES ASSUME HInv, Kept, [Next]_vars PROVE Kept'
    OBVIOUS
<1>0. \A e \in dead' : Explained(e)'
    <2> TAKE e \in dead'
    <2>1. CASE e \in dead
        BY <2>1, ExplainedStays DEF Kept, HInv
    <2>2. CASE e \notin dead
        BY <2>2, Deaths, Removal
    <2> QED BY <2>1, <2>2
<1>1. ASSUME accepted' = accepted,
             \A d \in Conn : at'[d] \in {"file", "ok"} => at'[d] = at[d] /\ evt'[d] = evt[d]
      PROVE  Kept'
    BY <1>0, <1>1, KeptStays DEF Kept
<1>2. ASSUME NEW c \in Conn, HandlerStep(c) PROVE Kept'
    <2>1. \A d \in Conn \ {c} : at'[d] = at[d] /\ evt'[d] = evt[d]
        BY <1>2, Local DEF HInv
    <2>2. CASE accepted' = accepted /\ at'[c] \notin {"file", "ok"}
        BY <1>1, <2>1, <2>2
    <2>3. CASE CheckDuplicate(c)
        <3>1. at'[c] \notin {"file", "ok"} /\ live' = live
            BY <2>3 DEF CheckDuplicate, Goto, Finish, HInv, TypeOK, stored
        <3>2. \A e \in accepted' : e \in accepted \/ e \in live
            BY <2>3 DEF CheckDuplicate
        <3> QED BY <1>0, <2>1, <3>1, <3>2, KeptStays DEF Kept
    <2>4. CASE DiscardOlder(c)
        <3>1. evt' = evt /\ accepted' = accepted /\ evt[c] \in Event
            BY <2>4 DEF DiscardOlder, HInv, TypeOK, history
        <3>2. Explained(evt[c])'
            <4>1. PICK d \in (live \cup dead) \cap S!Versions(evt[c]) : Created[d] > Created[evt[c]]
                BY <2>4 DEF DiscardOlder
            <4>2. d \in submitted' /\ d # evt[c] /\ d \in S!Versions(evt[c]) /\ d \in Event
                BY <3>1, <4>1, Growth, EventPipelineAssumption DEF HInv, Known, S!Versions
            <4>3. S!Replaceable(evt[c]) /\ Created[d] >= Created[evt[c]]
                BY <3>1, <4>1, <4>2, EventPipelineAssumption DEF S!Versions, S!Replaceable
            <4> QED BY <3>1, <4>2, <4>3 DEF Explained, Superseded
        <3> QED BY <1>0, <2>1, <3>1, <3>2, KeptStays DEF Kept
    <2>7. CASE Insert(c)
        <3>1. evt' = evt /\ accepted' = accepted /\ evt[c] \in Event
            BY <2>7 DEF Insert, HInv, TypeOK
        <3>2. evt[c] \in live' \/ Explained(evt[c])'
            <4>1. CASE evt[c] \in dead
                BY <1>0, <3>1, <4>1, Growth DEF HInv
            <4>2. CASE evt[c] \in live
                BY <3>1, <4>2, Removal
            <4>3. CASE evt[c] \notin dead /\ evt[c] \notin live
                BY <2>7, <4>3 DEF Insert
            <4> QED BY <4>1, <4>2, <4>3
        <3> QED BY <1>0, <2>1, <3>1, <3>2, KeptStays DEF Kept
    <2>5. CASE FileInChannel(c)
        <3>1. evt' = evt /\ accepted' = accepted /\ at[c] = "file"
            BY <2>5 DEF FileInChannel
        <3> QED BY <1>0, <2>1, <3>1, KeptStays DEF Kept
    <2>6. CASE AcceptEvent(c)
        <3>1. at'[c] \notin {"file", "ok"} /\ at[c] = "ok" /\ accepted' = accepted \cup {evt[c]}
            BY <2>6 DEF AcceptEvent, Goto, Finish, HInv, TypeOK
        <3> QED BY <1>0, <2>1, <3>1, KeptStays DEF Kept
    <2> QED BY <1>2, <2>2, <2>3, <2>4, <2>5, <2>6, <2>7, NothingToKeep DEF HandlerStep, HInv
<1>3. ASSUME NEW c \in Conn, NEW e \in Event, EventArrives(c, e) PROVE Kept'
    <2>1. \A d \in Conn \ {c} : at'[d] = at[d] /\ evt'[d] = evt[d]
        BY <1>3, Local DEF HInv
    <2>2. accepted' = accepted /\ at'[c] \notin {"file", "ok"}
        BY <1>3 DEF EventArrives, Goto, HInv, TypeOK, history
    <2> QED BY <1>1, <2>1, <2>2
<1>4. CASE RunRetention \/ UNCHANGED vars \/ \E c \in Conn : RateLimited(c)
    BY <1>1, <1>4, Elsewhere DEF history
<1> QED BY <1>2, <1>3, <1>4 DEF Next

\* No deletion of another's takes an event away whose publisher was told OK true; of
\* failing calls and of interleavings, only those that make a save misjudge which
\* version is newest do.
THEOREM KeptCorrect == Spec => []KeptOrExplained
<1>1. Init => Kept
    BY DEF Init, Kept, S!Init
<1>2. Kept => KeptOrExplained
    BY DEF Kept, KeptOrExplained, Explained
<1> QED BY <1>1, <1>2, HInvAlways, KeptStep, PTL DEF Spec
-----------------------------------------------------------------------------
(************************* What is stored was told *************************)
\* Handlers whose event is stored and not yet told OK true.
Telling == {evt[c] : c \in {d \in Conn : at[d] \in {"file", "ok"}}}

\* Which steps add to the live events, and which end the telling.
LEMMA TellingStays ==
    ASSUME TypeOK, [Next]_vars
    PROVE  /\ live' \subseteq live \cup Telling'
           /\ Telling \subseteq Telling' \cup accepted'
           /\ accepted \subseteq accepted'
<1> DEFINE Goal == /\ live' \subseteq live \cup Telling'
                   /\ Telling \subseteq Telling' \cup accepted'
                   /\ accepted \subseteq accepted'
<1>1. ASSUME live' \subseteq live, accepted \subseteq accepted',
             \A d \in Conn : at[d] \in {"file", "ok"} => at'[d] = at[d] /\ evt'[d] = evt[d]
      PROVE  Goal
    BY <1>1 DEF Telling
<1>2. ASSUME NEW c \in Conn, HandlerStep(c) PROVE Goal
    <2>0. \A d \in Conn \ {c} : at'[d] = at[d] /\ evt'[d] = evt[d]
        BY <1>2, Local
    <2>1. CASE at[c] \in {"file", "ok"}
        <3>1. FileInChannel(c) \/ AcceptEvent(c)
            BY <1>2, <2>1 DEF HandlerStep, HandleAuth, RejectUnwelcome, RejectMalformed,
               HandleEphemeral, HandleStored, CheckDuplicate, CheckFails, SaveEvent, SaveFails,
               DiscardOlder, FoundNewest, Purge, Insert, HandleDeletion, LookAtTarget, Cascade,
               MarkTarget, ReadyToVanish, Vanish,
               VanishFails, Return, Passed
        <3>2. CASE FileInChannel(c)
            <4>1. at'[c] = "ok" /\ evt' = evt /\ accepted' = accepted /\ live' = live
                BY <3>2, Untouched DEF FileInChannel, Goto, TypeOK
            <4> QED BY <2>0, <4>1 DEF Telling
        <3>3. CASE AcceptEvent(c)
            <4>1. accepted' = accepted \cup {evt[c]} /\ live' = live
                BY <3>3, Untouched DEF AcceptEvent
            <4> QED BY <2>0, <4>1 DEF Telling
        <3> QED BY <3>1, <3>2, <3>3
    <2>2. CASE at[c] \notin {"file", "ok"} /\ Insert(c)
        <3>1. at'[c] \in {"file", "ok"} /\ evt' = evt /\ accepted' = accepted
            BY <2>2 DEF Insert, AfterSave, Goto, TypeOK
        <3>2. live' \subseteq live \cup {evt[c]}
            BY <2>2 DEF Insert
        <3> QED BY <2>0, <2>2, <3>1, <3>2 DEF Telling
    <2>3. CASE at[c] \notin {"file", "ok"} /\ ~Insert(c)
        <3>1. accepted \subseteq accepted'
            BY <1>2, <2>3, NothingToKeep DEF HandlerStep, CheckDuplicate, DiscardOlder,
               FileInChannel, AcceptEvent, history
        <3>2. live' \subseteq live
            BY <1>2, <2>3, Untouched DEF HandlerStep, Purge, MarkTarget, Vanish, VanishFails,
               S!Delete, S!Vanish, stored
        <3> QED BY <1>1, <2>0, <2>3, <3>1, <3>2
    <2> QED BY <2>1, <2>2, <2>3
<1>3. ASSUME NEW c \in Conn, NEW e \in Event, EventArrives(c, e) PROVE Goal
    <2>1. \A d \in Conn \ {c} : at'[d] = at[d] /\ evt'[d] = evt[d]
        BY <1>3, Local
    <2>2. at[c] = "idle" /\ live' = live /\ accepted' = accepted
        BY <1>3 DEF EventArrives, stored, history
    <2> QED BY <1>1, <2>1, <2>2
<1>4. CASE RunRetention \/ UNCHANGED vars \/ \E c \in Conn : RateLimited(c)
    <2>1. live' \subseteq live
        BY <1>4 DEF RunRetention, vars, RateLimited, stored, S!Retain, S!Remove
    <2> QED BY <1>1, <1>4, <2>1, Elsewhere DEF history
<1> QED BY <1>2, <1>3, <1>4 DEF Next

\* No event is in the store whose publisher was only ever told that it was refused.
THEOREM NoSilentSaveCorrect == Spec => []NoSilentSave
<1> DEFINE Told == live \subseteq accepted \cup Telling
<1>1. Init => Told
    BY DEF Init, S!Init
<1>2. TypeOK /\ Told /\ [Next]_vars => Told'
    BY TellingStays
<1>3. Told => NoSilentSave
    BY DEF NoSilentSave, Telling
<1> QED BY <1>1, <1>2, <1>3, TypeCorrect, PTL DEF Spec
-----------------------------------------------------------------------------
(*************************** What has vanished *****************************)
\* What was alive when a vanish request arrived is alive, dead, or replaced since;
\* once the request is told OK true, it is not alive as it was.
Vanishers ==
    /\ \A c \in Conn : at[c] = "vanish" =>
          /\ before[c] \subseteq {e \in Event : Author[e] = Author[evt[c]]}
          /\ \A e \in before[c] :
                e \in live \cup dead \/ Superseded(e) \/ Misjudged(e) \/ e \in Aged
    /\ \A x \in vanished : x[1] \in Here =>
          x[2] \in dead \/ Superseded(x[2]) \/ Misjudged(x[2]) \/ x[2] \in Aged

\* An event that leaves the live ones without being dead was replaced, or is old.
LEMMA LeftAlive ==
    ASSUME HInv, [Next]_vars, NEW e \in Event,
           e \in live \cup dead \/ Superseded(e) \/ Misjudged(e) \/ e \in Aged
    PROVE  (e \in live \cup dead \/ Superseded(e) \/ Misjudged(e) \/ e \in Aged)'
<1>1. CASE e \in dead \/ Superseded(e) \/ Misjudged(e) \/ e \in Aged
    <2>1. /\ submitted \subseteq submitted' /\ again \subseteq again'
          /\ disturbed \subseteq disturbed' /\ dead \subseteq dead'
        BY Growth DEF HInv
    <2> QED BY <1>1, <2>1 DEF Superseded, Misjudged
<1>2. CASE e \in live /\ e \notin live' /\ e \notin dead'
    <2>1. ASSUME NEW c \in Conn, Purge(c) \/ Insert(c) PROVE Superseded(e)' \/ Misjudged(e)'
        BY <1>2, <2>1, Replaced
    <2>3. ASSUME NEW c \in Conn, MarkTarget(c) \/ Vanish(c) \/ VanishFails(c) PROVE FALSE
        BY <1>2, <2>3 DEF MarkTarget, Vanish, VanishFails, S!Delete, S!Vanish, S!Hers, stored
    <2>4. CASE RunRetention
        BY <1>2, <2>4 DEF RunRetention, S!Retain, S!Remove
    <2>5. CASE \E c \in Conn : RateLimited(c) \/ \E x \in Event : EventArrives(c, x)
        BY <1>2, <2>5 DEF RateLimited, EventArrives, stored
    <2>6. CASE UNCHANGED vars
        BY <1>2, <2>6 DEF vars, stored
    <2> QED BY <1>2, <2>1, <2>3, <2>4, <2>5, <2>6, Untouched DEF Next, HandlerStep
<1> QED BY <1>1, <1>2

LEMMA VanishersStep == HInv /\ Vanishers /\ [Next]_vars => Vanishers'
<1> SUFFICES ASSUME HInv, Vanishers, [Next]_vars PROVE Vanishers'
    OBVIOUS
<1> DEFINE Left(e) == e \in live \cup dead \/ Superseded(e) \/ Misjudged(e) \/ e \in Aged
           Gone(e) == e \in dead \/ Superseded(e) \/ Misjudged(e) \/ e \in Aged
<1>1. \A e \in Event : Left(e) => Left(e)'
    BY LeftAlive
<1>2. \A e \in Event : Gone(e) => Gone(e)'
    <2>1. /\ submitted \subseteq submitted' /\ again \subseteq again'
          /\ disturbed \subseteq disturbed' /\ dead \subseteq dead'
        BY Growth DEF HInv
    <2> QED BY <2>1 DEF Superseded, Misjudged
<1>3. \A x \in vanished : x[1] \in Here => Gone(x[2])'
    <2> TAKE x \in vanished
    <2>1. x[2] \in Event
        BY DEF HInv, TypeOK
    <2> QED BY <1>2, <2>1 DEF Vanishers
<1>4. ASSUME \A d \in Conn : at'[d] = "vanish" =>
                 at'[d] = at[d] /\ evt'[d] = evt[d] /\ before'[d] = before[d],
             vanished' = vanished
      PROVE  Vanishers'
    BY <1>1, <1>3, <1>4 DEF Vanishers
<1>5. ASSUME NEW c \in Conn, HandlerStep(c) PROVE Vanishers'
    <2>0. \A d \in Conn \ {c} : at'[d] = at[d] /\ evt'[d] = evt[d] /\ before'[d] = before[d]
        BY <1>5, Local DEF HInv
    <2>1. CASE ReadyToVanish(c)
        <3>1. /\ evt' = evt /\ live' = live
              /\ \A x \in vanished' : x[1] \in Here => x \in vanished
            BY <2>1 DEF ReadyToVanish, stored
        <3>2. at'[c] = "vanish" => before'[c] = S!Hers(Author[evt[c]])
            BY <2>1 DEF ReadyToVanish, Goto, Finish, HInv, TypeOK
        <3>3. S!Hers(Author[evt[c]]) \subseteq {e \in Event : Author[e] = Author[evt[c]]} \cap live
            BY DEF S!Hers, HInv, TypeOK
        <3>4. \A d \in Conn \ {c} : at'[d] = "vanish" =>
                  /\ before'[d] \subseteq {e \in Event : Author[e] = Author[evt'[d]]}
                  /\ \A e \in before'[d] : Left(e)'
            BY <1>1, <2>0 DEF Vanishers
        <3>5. at'[c] = "vanish" =>
                  /\ before'[c] \subseteq {e \in Event : Author[e] = Author[evt'[c]]}
                  /\ \A e \in before'[c] : Left(e)'
            BY <3>1, <3>2, <3>3
        <3> QED BY <1>3, <3>1, <3>4, <3>5 DEF Vanishers
    <2>2. CASE Vanish(c)
        <3>1. at'[c] # "vanish" /\ at[c] = "vanish"
            BY <2>2 DEF Vanish, Finish, Goto, HInv, TypeOK
        <3>4. \A x \in vanished' : x \in vanished \/ x[2] \in before[c]
            BY <2>2 DEF Vanish
        <3>2. \A e \in before[c] : Gone(e)'
            <4> TAKE e \in before[c]
            <4>1. e \in Event /\ Author[e] = Author[evt[c]] /\ Left(e)
                BY <3>1 DEF Vanishers
            <4>2. CASE e \in live
                BY <2>2, <4>1, <4>2 DEF Vanish, S!Vanish, S!Hers
            <4>3. CASE e \notin live
                BY <1>2, <4>1, <4>3
            <4> QED BY <4>2, <4>3
        <3>3. \A d \in Conn : at'[d] = "vanish" =>
                  /\ before'[d] \subseteq {e \in Event : Author[e] = Author[evt'[d]]}
                  /\ \A e \in before'[d] : Left(e)'
            BY <1>1, <2>0, <3>1 DEF Vanishers
        <3>5. \A x \in vanished' : x[1] \in Here => Gone(x[2])'
            BY <1>3, <3>2, <3>4
        <3> QED BY <3>3, <3>5 DEF Vanishers
    <2>3. CASE ~ReadyToVanish(c) /\ ~Vanish(c)
        <3>1. vanished' = vanished
            BY <1>5, <2>3 DEF HandlerStep, HandleAuth, RejectUnwelcome, RejectMalformed,
               HandleEphemeral, HandleStored, CheckDuplicate, CheckFails, SaveEvent, SaveFails,
               DiscardOlder, FoundNewest, Purge, Insert, FileInChannel, AcceptEvent,
               HandleDeletion, LookAtTarget, Cascade, MarkTarget, VanishFails, Return, history
        <3>2. at'[c] # "vanish"
            <4> USE DEF Goto, Finish, HInv, TypeOK
            <4>1. CASE \/ HandleAuth(c) \/ RejectUnwelcome(c) \/ RejectMalformed(c)
                       \/ HandleEphemeral(c) \/ HandleStored(c) \/ CheckDuplicate(c)
                BY <4>1 DEF HandleAuth, RejectUnwelcome, RejectMalformed, HandleEphemeral,
                            HandleStored, CheckDuplicate
            <4>2. CASE \/ CheckFails(c) \/ SaveEvent(c) \/ SaveFails(c) \/ FileInChannel(c)
                       \/ AcceptEvent(c) \/ VanishFails(c) \/ Return(c)
                BY <4>2 DEF CheckFails, SaveEvent, SaveFails, FileInChannel, AcceptEvent,
                            VanishFails, Return
            <4>4. CASE DiscardOlder(c) \/ FoundNewest(c) \/ Purge(c) \/ Insert(c)
                BY <4>4 DEF DiscardOlder, FoundNewest, Purge, Insert, AfterSave
            <4>3. CASE HandleDeletion(c) \/ LookAtTarget(c) \/ Cascade(c) \/ MarkTarget(c)
                BY <4>3 DEF HandleDeletion, LookAtTarget, Cascade, MarkTarget
            <4> QED BY <1>5, <2>3, <4>1, <4>2, <4>3, <4>4 DEF HandlerStep
        <3> QED BY <1>4, <2>0, <3>1, <3>2
    <2> QED BY <2>1, <2>2, <2>3
<1>6. ASSUME NEW c \in Conn, NEW e \in Event, EventArrives(c, e) PROVE Vanishers'
    <2>1. \A d \in Conn \ {c} : at'[d] = at[d] /\ evt'[d] = evt[d] /\ before'[d] = before[d]
        BY <1>6, Local DEF HInv
    <2>2. at'[c] # "vanish" /\ vanished' = vanished
        BY <1>6 DEF EventArrives, Goto, HInv, TypeOK, history
    <2> QED BY <1>4, <2>1, <2>2
<1>7. CASE RunRetention \/ UNCHANGED vars \/ \E c \in Conn : RateLimited(c)
    BY <1>4, <1>7, Elsewhere DEF history
<1> QED BY <1>5, <1>6, <1>7 DEF Next

\* Once a vanish request that names this relay was told OK true, nothing of what it
\* was about is alive again.
THEOREM VanishHonestCorrect == Spec => []VanishHonest
<1>1. Init => Vanishers
    BY DEF Init, Vanishers
<1>2. HInv /\ Vanishers => VanishHonest
    BY DEF HInv, Known, Vanishers, VanishHonest
<1> QED BY <1>1, <1>2, HInvAlways, VanishersStep, PTL DEF Spec
-----------------------------------------------------------------------------
(******************************* The answers *******************************)
\* Until the last OK nothing is sent, since HandleEvent sends its own just before.
Answers ==
    \A c \in Conn :
        /\ at[c] # "done" => told[c] = <<>>
        /\ at[c] = "done" /\ evt[c] \notin Unwelcome =>
              \A i, j \in DOMAIN told[c] : told[c][i] = told[c][j]

LEMMA TwoAnswers ==
    ASSUME NEW a, NEW b, a = b, NEW i \in DOMAIN (<<>> \o <<a>> \o <<b>>)
    PROVE  (<<>> \o <<a>> \o <<b>>)[i] = a
<1>1. <<>> \in Seq({a, b}) /\ <<a>> \in Seq({a, b}) /\ <<b>> \in Seq({a, b})
    OBVIOUS
<1>2. <<>> \o <<a>> = <<a>>
    BY <1>1
<1>3. Len(<<a>> \o <<b>>) = 2 /\ <<a>> \o <<b>> \in Seq({a, b})
    BY <1>1
<1>4. (<<a>> \o <<b>>)[1] = a /\ (<<a>> \o <<b>>)[2] = b
    BY <1>1
<1> QED BY <1>2, <1>3, <1>4

LEMMA AnswersStep == TypeOK /\ Answers /\ [Next]_vars => Answers'
<1> SUFFICES ASSUME TypeOK, Answers, [Next]_vars, NEW d \in Conn
             PROVE  /\ at'[d] # "done" => told'[d] = <<>>
                    /\ at'[d] = "done" /\ evt'[d] \notin Unwelcome =>
                          \A i, j \in DOMAIN told'[d] : told'[d][i] = told'[d][j]
    BY DEF Answers
<1> DEFINE Good == /\ at'[d] # "done" => told'[d] = <<>>
                   /\ at'[d] = "done" /\ evt'[d] \notin Unwelcome =>
                         \A i, j \in DOMAIN told'[d] : told'[d][i] = told'[d][j]
<1>1. CASE at'[d] = at[d] /\ evt'[d] = evt[d] /\ told'[d] = told[d]
    BY <1>1 DEF Answers
<1>2. ASSUME NEW ok \in BOOLEAN, at[d] # "done",
             Finish(d, <<ok>>, ~ok) \/ Finish(d, <<>>, ~ok)
      PROVE  Good
    <2>1. told[d] = <<>>
        BY <1>2 DEF Answers
    <2>2. CASE Finish(d, <<ok>>, ~ok)
        <3>1. told'[d] = <<>> \o <<ok>> \o <<~ ~ok>> /\ at'[d] = "done"
            BY <2>1, <2>2 DEF Finish, Goto, TypeOK
        <3>2. ~ ~ok = ok
            OBVIOUS
        <3> QED BY <3>1, <3>2, TwoAnswers
    <2>3. CASE Finish(d, <<>>, ~ok)
        <3>1. told'[d] = <<ok>> /\ at'[d] = "done"
            BY <2>1, <2>3 DEF Finish, Goto, TypeOK
        <3> QED BY <3>1
    <2> QED BY <1>2, <2>2, <2>3
<1>3. ASSUME at'[d] # "done", at[d] # "done", told'[d] = told[d] PROVE Good
    BY <1>3 DEF Answers
<1>4. ASSUME HandlerStep(d) PROVE Good
    <2>1. CASE RejectUnwelcome(d)
        BY <2>1 DEF RejectUnwelcome, Finish, Goto, TypeOK
    <2>2. CASE Return(d)
        BY <2>2 DEF Return, Goto, TypeOK
    <2>3. CASE HandleAuth(d) \/ RejectMalformed(d) \/ HandleEphemeral(d)
        BY <1>2, <2>3 DEF HandleAuth, RejectMalformed, HandleEphemeral, Passed
    <2>4. CASE CheckFails(d) \/ SaveFails(d) \/ AcceptEvent(d) \/ Vanish(d) \/ VanishFails(d)
        BY <1>2, <2>4 DEF CheckFails, SaveFails, AcceptEvent, Vanish, VanishFails
    <2>5. CASE HandleStored(d) \/ SaveEvent(d) \/ FileInChannel(d) \/ HandleDeletion(d)
               \/ Cascade(d) \/ MarkTarget(d)
        BY <1>3, <2>5 DEF HandleStored, SaveEvent, FileInChannel, HandleDeletion, Cascade,
                          MarkTarget, Passed, Goto, TypeOK
    <2>9. CASE DiscardOlder(d) \/ FoundNewest(d) \/ Purge(d) \/ Insert(d)
        BY <1>3, <2>9 DEF DiscardOlder, FoundNewest, Purge, Insert, AfterSave, Goto, TypeOK
    <2>6. CASE CheckDuplicate(d)
        <3>1. Finish(d, <<TRUE>>, FALSE) \/ (Goto(d, "save") /\ UNCHANGED told)
            BY <2>6 DEF CheckDuplicate
        <3> QED BY <1>2, <1>3, <2>6, <3>1 DEF CheckDuplicate, Goto, TypeOK
    <2>7. CASE LookAtTarget(d)
        <3>1. \/ Finish(d, <<>>, FALSE)
              \/ (Goto(d, "mark") \/ Goto(d, "cascade")) /\ UNCHANGED told
            BY <2>7 DEF LookAtTarget
        <3> QED BY <1>2, <1>3, <2>7, <3>1 DEF LookAtTarget, Goto, TypeOK
    <2>8. CASE ReadyToVanish(d)
        <3>1. Finish(d, <<TRUE>>, FALSE) \/ (Goto(d, "vanish") /\ UNCHANGED told)
            BY <2>8 DEF ReadyToVanish
        <3> QED BY <1>2, <1>3, <2>8, <3>1 DEF ReadyToVanish, Passed, Goto, TypeOK
    <2> QED BY <1>4, <2>1, <2>2, <2>3, <2>4, <2>5, <2>6, <2>7, <2>8, <2>9 DEF HandlerStep
<1>5. ASSUME NEW e \in Event, EventArrives(d, e) PROVE Good
    <2>1. CASE at' = [at EXCEPT ![d] = "done"] /\ told' = [told EXCEPT ![d] = <<FALSE>>]
        BY <2>1 DEF TypeOK
    <2>2. CASE at' = [at EXCEPT ![d] = "tests"] /\ told' = told /\ at[d] = "idle"
        BY <1>3, <2>2 DEF TypeOK
    <2> QED BY <1>5, <2>1, <2>2 DEF EventArrives, Goto
<1> QED BY <1>1, <1>4, <1>5, Local, Elsewhere DEF Next, history

\* The answers to one event agree, those to what NIP-36 rejects aside.
THEOREM OnlyPolicyContradictsCorrect == Spec => []OnlyPolicyContradicts
<1>1. Init => Answers
    BY DEF Init, Answers
<1>2. Answers => OnlyPolicyContradicts
    BY DEF Answers, OnlyPolicyContradicts
<1> QED BY <1>1, <1>2, TypeCorrect, AnswersStep, PTL DEF Spec
-----------------------------------------------------------------------------
(*************************** The channel table *****************************)
\* A deletion request named an event that defines the channel of e.
Doomed(e) ==
    \E x \in submitted :
        Kind[x] = "deletion" /\
        \E r \in ToSet(Targets[x]) : Kind[r] = "room" /\ Channel[r] = Channel[e]

\* What a step does to the table, to the failures of the second save and to the
\* handlers about to make it.
LEMMA Filing ==
    ASSUME HInv, [Next]_vars, NEW e \in Event, IsNIP28(e), Channel[e] # NoChannel
    PROVE  /\ e \in channel => e \in channel' \/ Doomed(e)'
           /\ unfiled \subseteq unfiled'
           /\ \A c \in Conn : at[c] = "file" /\ evt[c] = e =>
                 e \in channel' \cup unfiled' \/ (at'[c] = "file" /\ evt'[c] = e)
           /\ e \in live' \ live => \E c \in Conn : at'[c] = "file" /\ evt'[c] = e
<1> DEFINE Goal == /\ e \in channel => e \in channel' \/ Doomed(e)'
                   /\ unfiled \subseteq unfiled'
                   /\ \A c \in Conn : at[c] = "file" /\ evt[c] = e =>
                         e \in channel' \cup unfiled' \/ (at'[c] = "file" /\ evt'[c] = e)
                   /\ e \in live' \ live => \E c \in Conn : at'[c] = "file" /\ evt'[c] = e
<1>1. ASSUME channel' = channel, unfiled' = unfiled, live' \subseteq live,
             \A c \in Conn : at[c] = "file" => at'[c] = at[c] /\ evt'[c] = evt[c]
      PROVE  Goal
    BY <1>1
<1>2. ASSUME NEW c \in Conn, HandlerStep(c) PROVE Goal
    <2>0. \A d \in Conn \ {c} : at'[d] = at[d] /\ evt'[d] = evt[d]
        BY <1>2, Local DEF HInv
    <2>1. CASE Insert(c)
        <3>1. channel' = channel /\ unfiled' = unfiled /\ live' \subseteq live \cup {evt[c]}
            BY <2>1 DEF Insert
        <3>2. at[c] = "insert" /\ evt' = evt /\ (IsNIP28(evt[c]) => at'[c] = "file")
            BY <2>1 DEF Insert, AfterSave, Goto, HInv, TypeOK
        <3> QED BY <2>0, <3>1, <3>2
    <2>2. CASE FileInChannel(c)
        <3>1. /\ at[c] = "file" /\ channel \subseteq channel' /\ unfiled \subseteq unfiled'
              /\ live' = live
            BY <2>2 DEF FileInChannel, S!SaveChannel, stored
        <3>2. evt[c] = e => e \in channel' \cup unfiled'
            BY <2>2 DEF FileInChannel, S!SaveChannel
        <3> QED BY <2>0, <3>1, <3>2
    <2>3. CASE Cascade(c)
        <3>1. at[c] = "cascade" /\ unfiled' = unfiled /\ live' = live /\ submitted' = submitted
            BY <2>3 DEF Cascade, S!DeleteChannel, stored, history
        <3>2. e \in channel /\ e \notin channel' => Channel[e] = Channel[Head(todo[c])]
            BY <2>3 DEF Cascade, S!DeleteChannel, stored
        <3>3. todo[c] \in Seq(Event) /\ todo[c] # <<>>
            BY <3>1 DEF HInv, TypeOK
        <3>4. 1 \in DOMAIN todo[c] /\ Head(todo[c]) = todo[c][1]
            BY <3>3
        <3>5. /\ evt[c] \in submitted /\ Kind[evt[c]] = "deletion"
              /\ Head(todo[c]) \in ToSet(Targets[evt[c]]) /\ Kind[Head(todo[c])] = "room"
            BY <3>1, <3>4 DEF HInv, Deleting
        <3>6. e \in channel => e \in channel' \/ Doomed(e)'
            BY <3>1, <3>2, <3>5 DEF Doomed
        <3> QED BY <2>0, <3>1, <3>6
    <2>4. CASE ~Insert(c) /\ ~FileInChannel(c) /\ ~Cascade(c)
        <3>1. at[c] # "file"
            BY <1>2, <2>4 DEF HandlerStep, HandleAuth, RejectUnwelcome, RejectMalformed,
               HandleEphemeral, HandleStored, CheckDuplicate, CheckFails, SaveEvent, SaveFails,
               AcceptEvent,
               DiscardOlder, FoundNewest, Purge, HandleDeletion, LookAtTarget, MarkTarget,
               ReadyToVanish, Vanish, VanishFails,
               Return, Passed
        <3>2. channel' = channel /\ unfiled' = unfiled
            BY <1>2, <2>4 DEF HandlerStep, HandleAuth, RejectUnwelcome, RejectMalformed,
               HandleEphemeral, HandleStored, CheckDuplicate, CheckFails, SaveEvent, SaveFails,
               AcceptEvent,
               DiscardOlder, FoundNewest, Purge, HandleDeletion, LookAtTarget, MarkTarget,
               ReadyToVanish, Vanish, VanishFails,
               Return, S!Delete, S!Vanish, stored, history
        <3>3. live' \subseteq live
            BY <1>2, <2>4, Untouched DEF HandlerStep, Purge, MarkTarget, Vanish, VanishFails,
               S!Delete, S!Vanish, stored
        <3> QED BY <1>1, <2>0, <3>1, <3>2, <3>3
    <2> QED BY <2>1, <2>2, <2>3, <2>4
<1>3. ASSUME NEW c \in Conn, NEW x \in Event, EventArrives(c, x) PROVE Goal
    <2>1. \A d \in Conn \ {c} : at'[d] = at[d] /\ evt'[d] = evt[d]
        BY <1>3, Local DEF HInv
    <2>2. at[c] = "idle" /\ live' = live /\ channel' = channel /\ unfiled' = unfiled
        BY <1>3 DEF EventArrives, stored, history
    <2> QED BY <1>1, <2>1, <2>2
<1>4. CASE RunRetention \/ UNCHANGED vars \/ \E c \in Conn : RateLimited(c)
    <2>1. live' \subseteq live /\ channel' = channel
        BY <1>4 DEF RunRetention, vars, RateLimited, stored, S!Retain, S!Remove
    <2> QED BY <1>1, <1>4, <2>1, Elsewhere DEF history
<1> QED BY <1>2, <1>3, <1>4 DEF Next

\* A channel's live events are in its table, but for a failed second save and for
\* deletion requests that name an event defining the channel.
THEOREM ChannelCompleteCorrect == Spec => []ChannelComplete
<1>1. Init => ChannelComplete
    BY DEF Init, ChannelComplete, S!Init
<1>2. HInv /\ HInv' /\ ChannelComplete /\ [Next]_vars => ChannelComplete'
    <2> SUFFICES ASSUME HInv, HInv', ChannelComplete, [Next]_vars,
                        NEW e \in live', IsNIP28(e), Channel[e] # NoChannel
                 PROVE  \/ e \in channel' \cup unfiled'
                        \/ \E c \in Conn : at'[c] = "file" /\ evt'[c] = e
                        \/ Doomed(e)'
        BY DEF ChannelComplete, Doomed, IsNIP28
    <2>1. e \in Event
        BY DEF HInv, TypeOK
    <2>2. CASE e \notin live
        BY <2>1, <2>2, Filing
    <2>3. CASE e \in live
        <3>1. CASE Doomed(e)
            BY <3>1, Growth DEF Doomed, HInv
        <3>2. CASE e \in channel \cup unfiled
            BY <2>1, <3>2, Filing
        <3>3. CASE \E c \in Conn : at[c] = "file" /\ evt[c] = e
            BY <2>1, <3>3, Filing
        <3> QED BY <2>3, <3>1, <3>2, <3>3 DEF ChannelComplete, Doomed
    <2> QED BY <2>2, <2>3
<1> QED BY <1>1, <1>2, HInvAlways, PTL DEF Spec
=============================================================================
