-------------------------- MODULE SqliteStoreProofs --------------------------
(***************************************************************************)
(* Theorems about SqliteStore, for any number of handlers and any events.  *)
(***************************************************************************)
EXTENDS SqliteStore, TLAPS

\* What each statement leaves of the types.
LEMMA TypeInductive == TypeOK /\ [Next]_vars => TypeOK'
<1> SUFFICES ASSUME TypeOK, [Next]_vars PROVE TypeOK'
  OBVIOUS
<1> USE SqliteStoreAssumption DEF TypeOK, locals, history
<1>1. ASSUME NEW w \in Worker, Return(w), UNCHANGED rows,
             deleter' \in [Event -> {Nil} \cup PubKey], answered' \subseteq Event,
             disturbed' \subseteq Cause \X {Slot[e] : e \in Event}
      PROVE TypeOK'
  BY <1>1 DEF Return
<1>2. ASSUME NEW cause \in Cause, NEW E \in SUBSET Event, Disturb(cause, E)
      PROVE disturbed' \subseteq Cause \X {Slot[e] : e \in Event}
  BY <1>2 DEF Disturb
<1>3. ASSUME NEW w \in Worker, NEW e \in Event, CallSave(w, e) PROVE TypeOK'
  <2>1. disturbed' \subseteq Cause \X {Slot[d] : d \in Event}
    BY <1>2, <1>3 DEF CallSave, Cause
  <2> QED BY <1>3, <2>1 DEF CallSave, Call
<1>4. ASSUME NEW w \in Worker, NEW e \in Event, MarkNext(w, e) PROVE TypeOK'
  BY <1>4 DEF MarkNext
<1>5. ASSUME NEW w \in Worker, CheckDeleted(w) PROVE TypeOK'
  <2>1. CASE Return(w)
    BY <1>1, <1>5, <2>1 DEF CheckDeleted
  <2>2. CASE Goto(w, "newest") \/ Goto(w, "insert")
    BY <1>5, <2>2 DEF CheckDeleted, Goto
  <2> QED BY <1>5, <2>1, <2>2 DEF CheckDeleted
<1>6. ASSUME NEW w \in Worker, DiscardOlder(w) PROVE TypeOK'
  BY <1>1, <1>6 DEF DiscardOlder
<1>7. ASSUME NEW w \in Worker, FoundNewest(w) \/ Purge(w) PROVE TypeOK'
  <2>1. evt[w] \in Event
    BY <1>7 DEF FoundNewest, Purge
  <2>2. disturbed' \subseteq Cause \X {Slot[d] : d \in Event}
    BY <1>2, <1>7, <2>1 DEF FoundNewest, Purge, Cause
  <2> QED BY <1>7, <2>1, <2>2 DEF FoundNewest, Purge, Goto
<1>8. ASSUME NEW w \in Worker, Insert(w) PROVE TypeOK'
  BY <1>8 DEF Insert, Return
<1>9. ASSUME NEW w \in Worker, NEW e \in Event, NEW p \in PubKey, CallDelete(w, e, p)
      PROVE TypeOK'
  BY <1>9 DEF CallDelete, Call
<1>10. ASSUME NEW w \in Worker, CheckAuthor(w) PROVE TypeOK'
  <2>1. CASE Return(w)
    BY <1>1, <1>10, <2>1 DEF CheckAuthor
  <2>2. CASE Goto(w, "mark") /\ evt[w] \in rows
    BY <1>10, <2>2 DEF CheckAuthor, Goto
  <2> QED BY <1>10, <2>1, <2>2 DEF CheckAuthor
<1>11. ASSUME NEW w \in Worker, MarkDeleted(w) PROVE TypeOK'
  BY <1>1, <1>11 DEF MarkDeleted
<1>12. ASSUME NEW w \in Worker, NEW p \in PubKey, CallVanish(w, p) PROVE TypeOK'
  BY <1>12 DEF CallVanish, Call
<1>13. ASSUME NEW w \in Worker, VanishDone(w) PROVE TypeOK'
  BY <1>1, <1>13 DEF VanishDone
<1>14. ASSUME NEW w \in Worker, StatementFails(w) PROVE TypeOK'
  <2>1. {e \in {evt[w]} : at[w] = "insert"} \in SUBSET Event
    OBVIOUS
  <2>2. disturbed' \subseteq Cause \X {Slot[d] : d \in Event}
    BY <1>2, <1>14, <2>1 DEF StatementFails, Cause
  <2> QED BY <1>1, <1>14, <2>2 DEF StatementFails
<1>15. ASSUME Crash PROVE TypeOK'
  <2>1. {evt[w] : w \in {v \in Worker : at[v] = "insert"}} \in SUBSET Event
    OBVIOUS
  <2>2. disturbed' \subseteq Cause \X {Slot[d] : d \in Event}
    BY <1>2, <1>15, <2>1 DEF Crash, Cause
  <2> QED BY <1>15, <2>2 DEF Crash
<1>16. ASSUME RunRetention \/ UNCHANGED vars PROVE TypeOK'
  BY <1>2, <1>16 DEF RunRetention, vars, Cause
<1> QED BY <1>3, <1>4, <1>5, <1>6, <1>7, <1>8, <1>9, <1>10, <1>11, <1>12, <1>13, <1>14, <1>15,
           <1>16 DEF Next

\* Type correctness: a handler that runs a statement has what it needs.
THEOREM TypeCorrect == Spec => []TypeOK
<1>1. Init => TypeOK
  BY SqliteStoreAssumption DEF Init, TypeOK
<1> QED BY <1>1, TypeInductive, PTL DEF Spec
-----------------------------------------------------------------------------
\* A handler about to mark an event has established who its author is.
Cleared ==
    \A w \in Worker :
        /\ at[w] = "mark" => Author[evt[w]] = who[w]
        /\ at[w] = "markAll" => \A e \in ids[w] : Author[e] = who[w]

LEMMA AuthorInductive ==
    TypeOK /\ Cleared /\ OnlyAuthorDeletes /\ [Next]_vars => Cleared' /\ OnlyAuthorDeletes'
<1> SUFFICES ASSUME TypeOK, Cleared, OnlyAuthorDeletes, [Next]_vars
             PROVE  Cleared' /\ OnlyAuthorDeletes'
  OBVIOUS
<1> USE SqliteStoreAssumption DEF TypeOK, Cleared, OnlyAuthorDeletes, Deleted, locals, history
<1>1. ASSUME NEW w \in Worker, Return(w), UNCHANGED deleter
      PROVE Cleared' /\ OnlyAuthorDeletes'
  BY <1>1 DEF Return
<1>2. ASSUME NEW w \in Worker, NEW e \in Event, CallSave(w, e)
      PROVE Cleared' /\ OnlyAuthorDeletes'
  BY <1>2 DEF CallSave, Call
<1>3. ASSUME NEW w \in Worker, NEW e \in Event, MarkNext(w, e)
      PROVE Cleared' /\ OnlyAuthorDeletes'
  BY <1>3 DEF MarkNext
<1>4. ASSUME NEW w \in Worker,
             NEW step \in {"newest", "purge", "insert"},
             Goto(w, step), UNCHANGED deleter
      PROVE Cleared' /\ OnlyAuthorDeletes'
  BY <1>4 DEF Goto
<1>5. ASSUME NEW w \in Worker, CheckDeleted(w) PROVE Cleared' /\ OnlyAuthorDeletes'
  <2>1. CASE Return(w)
    BY <1>1, <1>5, <2>1 DEF CheckDeleted
  <2>2. CASE Goto(w, "newest") \/ Goto(w, "insert")
    BY <1>4, <1>5, <2>2 DEF CheckDeleted
  <2> QED BY <1>5, <2>1, <2>2 DEF CheckDeleted
<1>6. ASSUME NEW w \in Worker, FoundNewest(w) \/ Purge(w)
      PROVE Cleared' /\ OnlyAuthorDeletes'
  BY <1>4, <1>6 DEF FoundNewest, Purge
<1>7. ASSUME NEW w \in Worker,
             DiscardOlder(w) \/ Insert(w) \/ VanishDone(w) \/ StatementFails(w)
      PROVE Cleared' /\ OnlyAuthorDeletes'
  BY <1>1, <1>7 DEF DiscardOlder, Insert, VanishDone, StatementFails
<1>8. ASSUME NEW w \in Worker, NEW e \in Event, NEW p \in PubKey, CallDelete(w, e, p)
      PROVE Cleared' /\ OnlyAuthorDeletes'
  BY <1>8 DEF CallDelete, Call
<1>9. ASSUME NEW w \in Worker, CheckAuthor(w) PROVE Cleared' /\ OnlyAuthorDeletes'
  <2>1. CASE Return(w)
    BY <1>1, <1>9, <2>1 DEF CheckAuthor
  <2>2. CASE Goto(w, "mark") /\ Author[evt[w]] = who[w]
    BY <1>9, <2>2 DEF CheckAuthor, Goto
  <2> QED BY <1>9, <2>1, <2>2 DEF CheckAuthor
<1>10. ASSUME NEW w \in Worker, MarkDeleted(w) PROVE Cleared' /\ OnlyAuthorDeletes'
  BY <1>10 DEF MarkDeleted, Return
<1>11. ASSUME NEW w \in Worker, NEW p \in PubKey, CallVanish(w, p)
      PROVE Cleared' /\ OnlyAuthorDeletes'
  BY <1>11 DEF CallVanish, Call
<1>12. ASSUME Crash \/ RunRetention \/ UNCHANGED vars PROVE Cleared' /\ OnlyAuthorDeletes'
  BY <1>12 DEF Crash, RunRetention, vars
<1> QED BY <1>2, <1>3, <1>5, <1>6, <1>7, <1>8, <1>9, <1>10, <1>11, <1>12 DEF Next

\* Only its author ever has an event deleted, with any number of handlers, of
\* failing statements and of crashes between the check and the mark.
THEOREM OnlyAuthorDeletesCorrect == Spec => []OnlyAuthorDeletes
<1>1. Init => Cleared /\ OnlyAuthorDeletes
  BY DEF Init, Cleared, OnlyAuthorDeletes, Deleted
<1> QED BY <1>1, AuthorInductive, TypeCorrect, PTL DEF Spec
-----------------------------------------------------------------------------
\* A deleted event whose row is gone, and that no save in hand has cleared,
\* never comes back, crash or not.
THEOREM GoneForGoodCorrect == Spec => GoneForGood
<1>1. TypeOK /\ [Next]_vars => [\A e \in Event : Gone(e) => Gone(e)']_vars
  <2> SUFFICES ASSUME TypeOK, Next, NEW e \in Event, Gone(e) PROVE Gone(e)'
    OBVIOUS
  <2> USE DEF TypeOK, Gone, Deleted, locals, history
  <2>1. ASSUME NEW w \in Worker, Return(w), rows' \subseteq rows, Deleted(e) => Deleted(e)'
        PROVE Gone(e)'
    BY <2>1, SqliteStoreAssumption DEF Return
  <2>2. ASSUME NEW w \in Worker, NEW d \in Event, CallSave(w, d) \/ MarkNext(w, d)
        PROVE Gone(e)'
    BY <2>2 DEF CallSave, Call, MarkNext
  <2>3. ASSUME NEW w \in Worker, CheckDeleted(w) PROVE Gone(e)'
    <3>1. CASE Deleted(evt[w])
      BY <2>1, <2>3, <3>1 DEF CheckDeleted
    <3>2. CASE ~Deleted(evt[w])
      <4>1. evt[w] # e /\ UNCHANGED <<rows, deleter, evt>>
        BY <2>3, <3>2 DEF CheckDeleted, Goto
      <4>2. \A v \in Worker : v # w => at'[v] = at[v]
        BY <2>3, <3>2 DEF CheckDeleted, Goto
      <4> QED BY <4>1, <4>2
    <3> QED BY <3>1, <3>2
  <2>4. ASSUME NEW w \in Worker, FoundNewest(w) \/ Purge(w) PROVE Gone(e)'
    <3>1. evt[w] # e /\ UNCHANGED <<deleter, evt>> /\ rows' \subseteq rows
      BY <2>4 DEF FoundNewest, Purge, Goto
    <3>2. \A v \in Worker : v # w => at'[v] = at[v]
      BY <2>4 DEF FoundNewest, Purge, Goto
    <3> QED BY <3>1, <3>2
  <2>5. ASSUME NEW w \in Worker, Insert(w) PROVE Gone(e)'
    BY <2>5, SqliteStoreAssumption DEF Insert, Return
  <2>6. ASSUME NEW w \in Worker,
               DiscardOlder(w) \/ MarkDeleted(w) \/ VanishDone(w) \/ StatementFails(w)
        PROVE Gone(e)'
    BY <2>1, <2>6 DEF DiscardOlder, MarkDeleted, VanishDone, StatementFails
  <2>7. ASSUME NEW w \in Worker, CheckAuthor(w) PROVE Gone(e)'
    <3>1. CASE Return(w)
      BY <2>1, <2>7, <3>1 DEF CheckAuthor
    <3>2. CASE Goto(w, "mark")
      BY <2>7, <3>2 DEF CheckAuthor, Goto
    <3> QED BY <2>7, <3>1, <3>2 DEF CheckAuthor
  <2>8. ASSUME NEW w \in Worker, NEW d \in Event, NEW p \in PubKey,
               CallDelete(w, d, p) \/ CallVanish(w, p)
        PROVE Gone(e)'
    BY <2>8, SqliteStoreAssumption DEF CallDelete, CallVanish, Call
  <2>9. ASSUME Crash \/ RunRetention PROVE Gone(e)'
    BY <2>9 DEF Crash, RunRetention
  <2> QED BY <2>2, <2>3, <2>4, <2>5, <2>6, <2>7, <2>8, <2>9 DEF Next
<1> QED BY <1>1, TypeCorrect, PTL DEF Spec, GoneForGood
-----------------------------------------------------------------------------
\* Only a save of a replaceable event comes to the DELETE.
Purging == \A w \in Worker : at[w] \in {"newest", "purge"} => Replaceable(evt[w])

LEMMA PurgingInductive == TypeOK /\ Purging /\ [Next]_vars => Purging'
<1> SUFFICES ASSUME TypeOK, Purging, [Next]_vars PROVE Purging'
  OBVIOUS
<1> USE DEF TypeOK, Purging, Replaceable, locals
<1>1. ASSUME NEW w \in Worker, Return(w) PROVE Purging'
  BY <1>1 DEF Return
<1>2. ASSUME NEW w \in Worker, NEW e \in Event, CallSave(w, e) \/ MarkNext(w, e)
      PROVE Purging'
  BY <1>2 DEF CallSave, Call, MarkNext
<1>3. ASSUME NEW w \in Worker, CheckDeleted(w) PROVE Purging'
  <2>1. CASE Return(w)
    BY <1>1, <2>1
  <2>2. CASE Replaceable(evt[w]) /\ Goto(w, "newest")
    BY <2>2 DEF Goto
  <2>3. CASE Goto(w, "insert")
    BY <2>3 DEF Goto
  <2> QED BY <1>3, <2>1, <2>2, <2>3 DEF CheckDeleted
<1>4. ASSUME NEW w \in Worker, FoundNewest(w) \/ Purge(w) PROVE Purging'
  BY <1>4 DEF FoundNewest, Purge, Goto
<1>5. ASSUME NEW w \in Worker,
             \/ DiscardOlder(w) \/ Insert(w) \/ MarkDeleted(w)
             \/ VanishDone(w) \/ StatementFails(w)
      PROVE Purging'
  BY <1>1, <1>5 DEF DiscardOlder, Insert, MarkDeleted, VanishDone, StatementFails
<1>6. ASSUME NEW w \in Worker, CheckAuthor(w) PROVE Purging'
  <2>1. CASE Return(w)
    BY <1>1, <2>1
  <2>2. CASE Goto(w, "mark")
    BY <2>2 DEF Goto
  <2> QED BY <1>6, <2>1, <2>2 DEF CheckAuthor
<1>7. ASSUME NEW w \in Worker,
             \/ \E p \in PubKey : CallVanish(w, p)
             \/ \E e \in Event, p \in PubKey : CallDelete(w, e, p)
      PROVE Purging'
  BY <1>7 DEF CallDelete, CallVanish, Call
<1>8. ASSUME Crash \/ RunRetention \/ UNCHANGED vars PROVE Purging'
  BY <1>8 DEF Crash, RunRetention, vars
<1> QED BY <1>2, <1>3, <1>4, <1>5, <1>6, <1>7, <1>8 DEF Next

\* Steps of SaveEvent, and what the steps of Next do to the saves in hand.
SaveSteps == {"check", "newest", "purge", "insert"}

\* A step that no save takes part in.
Quiet ==
    /\ UNCHANGED <<rows, answered, disturbed>>
    /\ \A w \in Worker : at[w] \in SaveSteps \/ at'[w] \in SaveSteps =>
                            at'[w] = at[w] /\ evt'[w] = evt[w]

LEMMA StepKinds ==
    ASSUME TypeOK, [Next]_vars
    PROVE  \/ Quiet \/ Crash \/ RunRetention
           \/ \E w \in Worker :
                \/ \E e \in Event : CallSave(w, e)
                \/ CheckDeleted(w) \/ DiscardOlder(w) \/ FoundNewest(w) \/ Purge(w)
                \/ Insert(w) \/ StatementFails(w)
<1> USE DEF TypeOK, Quiet, SaveSteps, locals, history
<1>1. ASSUME NEW w \in Worker, NEW e \in Event, MarkNext(w, e) PROVE Quiet
  BY <1>1 DEF MarkNext
<1>2. ASSUME NEW w \in Worker, NEW e \in Event, NEW p \in PubKey,
             CallDelete(w, e, p) \/ CallVanish(w, p)
      PROVE Quiet
  BY <1>2 DEF CallDelete, CallVanish, Call
<1>3. ASSUME NEW w \in Worker, CheckAuthor(w) PROVE Quiet
  <2>1. at[w] = "author" /\ (Goto(w, "mark") \/ Return(w)) /\ UNCHANGED <<rows, answered, disturbed>>
    BY <1>3 DEF CheckAuthor
  <2> QED BY <2>1 DEF Goto, Return
<1>4. ASSUME NEW w \in Worker, MarkDeleted(w) \/ VanishDone(w) PROVE Quiet
  BY <1>4 DEF MarkDeleted, VanishDone, Return
<1>5. ASSUME NEW w \in Worker, NEW p \in PubKey, CallVanish(w, p) PROVE Quiet
  BY <1>5 DEF CallVanish, Call
<1>6. CASE UNCHANGED vars
  BY <1>6 DEF vars
<1> QED BY <1>1, <1>2, <1>3, <1>4, <1>5, <1>6 DEF Next

\* No step but CallSave begins a save; the others go on or end.
LEMMA NoNewSave ==
    ASSUME TypeOK, [Next]_vars, \A w \in Worker, e \in Event : ~CallSave(w, e)
    PROVE  \A v \in Worker : at'[v] \in SaveSteps => at[v] \in SaveSteps /\ evt'[v] = evt[v]
<1> USE DEF TypeOK, SaveSteps, locals
<1>1. ASSUME NEW w \in Worker, Return(w)
      PROVE  \A v \in Worker : at'[v] \in SaveSteps => at[v] \in SaveSteps /\ evt'[v] = evt[v]
  BY <1>1 DEF Return
<1>2. ASSUME NEW w \in Worker, NEW step \in SaveSteps, at[w] \in SaveSteps, Goto(w, step)
      PROVE  \A v \in Worker : at'[v] \in SaveSteps => at[v] \in SaveSteps /\ evt'[v] = evt[v]
  BY <1>2 DEF Goto
<1>3. ASSUME NEW w \in Worker,
             \/ CheckDeleted(w) \/ DiscardOlder(w) \/ FoundNewest(w) \/ Purge(w)
             \/ Insert(w) \/ StatementFails(w)
      PROVE  Return(w) \/ (at[w] \in SaveSteps /\ \E step \in SaveSteps : Goto(w, step))
  BY <1>3 DEF CheckDeleted, DiscardOlder, FoundNewest, Purge, Insert, StatementFails
<1>4. CASE Quiet
  BY <1>4 DEF Quiet
<1>5. CASE Crash \/ RunRetention
  BY <1>5 DEF Crash, RunRetention
<1> QED BY <1>1, <1>2, <1>3, <1>4, <1>5, StepKinds

\* What has gone wrong stays recorded.
LEMMA DisturbedGrows ==
    ASSUME TypeOK, [Next]_vars PROVE disturbed \subseteq disturbed'
<1> USE DEF history, Disturb
<1>1. ASSUME NEW w \in Worker, NEW e \in Event, CallSave(w, e)
      PROVE disturbed \subseteq disturbed'
  BY <1>1 DEF CallSave
<1>2. ASSUME NEW w \in Worker,
             CheckDeleted(w) \/ DiscardOlder(w) \/ FoundNewest(w) \/ Purge(w)
      PROVE disturbed \subseteq disturbed'
  BY <1>2 DEF CheckDeleted, DiscardOlder, FoundNewest, Purge
<1>3. ASSUME NEW w \in Worker, Insert(w) \/ StatementFails(w)
      PROVE disturbed \subseteq disturbed'
  BY <1>3 DEF Insert, StatementFails
<1>4. CASE Quiet \/ Crash \/ RunRetention
  BY <1>4 DEF Quiet, Crash, RunRetention
<1> QED BY <1>1, <1>2, <1>3, <1>4, StepKinds

\* A save that has purged its slot goes on to the INSERT, or is interrupted.
LEMMA InsertGoesOn ==
    ASSUME TypeOK, [Next]_vars,
           NEW v \in Worker, at[v] = "insert", Replaceable(evt[v])
    PROVE  \/ at'[v] = "insert" /\ evt'[v] = evt[v]
           \/ Insert(v)
           \/ <<"interrupted", Slot[evt[v]]>> \in disturbed'
<1> USE DEF TypeOK, locals
<1>1. ASSUME NEW w \in Worker, w # v,
             \/ \E e \in Event : CallSave(w, e)
             \/ CheckDeleted(w) \/ DiscardOlder(w) \/ FoundNewest(w) \/ Purge(w)
             \/ Insert(w) \/ StatementFails(w)
      PROVE  at'[v] = at[v] /\ evt'[v] = evt[v]
  <2>1. CASE \E e \in Event : CallSave(w, e)
    BY <1>1, <2>1 DEF CallSave, Call
  <2>2. CASE Return(w) \/ \E step \in {"newest", "purge", "insert"} : Goto(w, step)
    BY <1>1, <2>2 DEF Return, Goto
  <2> QED BY <1>1, <2>1, <2>2
          DEF CheckDeleted, DiscardOlder, FoundNewest, Purge, Insert, StatementFails
<1>2. ASSUME StatementFails(v) PROVE <<"interrupted", Slot[evt[v]]>> \in disturbed'
  BY <1>2 DEF StatementFails, Disturb
<1>3. ASSUME Crash PROVE <<"interrupted", Slot[evt[v]]>> \in disturbed'
  <2>1. evt[v] \in {evt[w] : w \in {u \in Worker : at[u] = "insert"}}
    OBVIOUS
  <2> QED BY <1>3, <2>1 DEF Crash, Disturb
<1>4. CASE Quiet
  BY <1>4 DEF Quiet, SaveSteps
<1>5. CASE RunRetention
  BY <1>5 DEF RunRetention
<1>6. ~(\E e \in Event : CallSave(v, e)) /\ ~CheckDeleted(v) /\ ~DiscardOlder(v)
          /\ ~FoundNewest(v) /\ ~Purge(v)
  BY DEF CallSave, Call, CheckDeleted, DiscardOlder, FoundNewest, Purge
<1> QED BY <1>1, <1>2, <1>3, <1>4, <1>5, <1>6, StepKinds

\* The rows and the answered events are the work of four statements.
LEMMA RowsChange ==
    ASSUME TypeOK, [Next]_vars
    PROVE  \/ rows' = rows /\ answered' = answered
           \/ \E w \in Worker : Purge(w) \/ Insert(w) \/ DiscardOlder(w)
           \/ RunRetention
<1> USE DEF history
<1>1. ASSUME NEW w \in Worker,
             \/ \E e \in Event : CallSave(w, e)
             \/ CheckDeleted(w) \/ FoundNewest(w) \/ StatementFails(w)
      PROVE rows' = rows /\ answered' = answered
  BY <1>1 DEF CallSave, CheckDeleted, FoundNewest, StatementFails
<1>2. CASE Quiet \/ Crash
  BY <1>2 DEF Quiet, Crash
<1> QED BY <1>1, <1>2, StepKinds

LEMMA KeptInductive ==
    TypeOK /\ Purging /\ RegularKept /\ [Next]_vars => RegularKept'
<1> SUFFICES ASSUME TypeOK, Purging, RegularKept, [Next]_vars PROVE RegularKept'
  OBVIOUS
<1> USE DEF RegularKept, Replaceable
<1>1. CASE rows' = rows /\ answered' = answered
  BY <1>1
<1>2. ASSUME NEW w \in Worker, Purge(w) PROVE RegularKept'
  BY <1>2 DEF Purge, Purging, SameSlot, history, TypeOK
<1>3. ASSUME NEW w \in Worker, Insert(w) PROVE RegularKept'
  BY <1>3 DEF Insert
<1>4. ASSUME NEW w \in Worker, DiscardOlder(w) PROVE RegularKept'
  BY <1>4 DEF DiscardOlder, Purging, TypeOK
<1>5. CASE RunRetention
  BY <1>5 DEF RunRetention, history
<1> QED BY <1>1, <1>2, <1>3, <1>4, <1>5, RowsChange

\* A saved event that is not replaceable stays until retention takes it: the
\* DELETE of a save never reaches it, whoever saves what and whatever fails.
THEOREM RegularKeptCorrect == Spec => []RegularKept
<1>1. Init => Purging /\ RegularKept
  BY DEF Init, Purging, RegularKept
<1> QED BY <1>1, PurgingInductive, KeptInductive, TypeCorrect, PTL DEF Spec
-----------------------------------------------------------------------------
LEMMA SlotInductive ==
    TypeOK /\ Purging /\ SlotKept /\ [Next]_vars => SlotKept'
<1> SUFFICES ASSUME TypeOK, Purging, SlotKept, [Next]_vars, NEW e \in answered', Replaceable(e),
                    <<"interrupted", Slot[e]>> \notin disturbed',
                    <<"retired", Slot[e]>> \notin disturbed'
             PROVE  \/ \E r \in rows' : Slot[r] = Slot[e]
                    \/ \E v \in Worker : at'[v] = "insert" /\ Slot[evt'[v]] = Slot[e]
  BY DEF SlotKept, Replaceable, Undisturbed
<1> DEFINE Kept == \/ \E r \in rows' : Slot[r] = Slot[e]
                   \/ \E v \in Worker : at'[v] = "insert" /\ Slot[evt'[v]] = Slot[e]
<1>1. ASSUME NEW w \in Worker, DiscardOlder(w), e = evt[w] PROVE Kept
  BY <1>1 DEF DiscardOlder, SameSlot
<1>2. ASSUME NEW w \in Worker, Insert(w), e = evt[w] PROVE Kept
  BY <1>2 DEF Insert
<1>3. e \in answered \/ \E w \in Worker : (DiscardOlder(w) \/ Insert(w)) /\ e = evt[w]
  BY RowsChange DEF DiscardOlder, Insert, Purge, RunRetention
<1>4. ASSUME e \in answered PROVE Kept
  <2>1. \/ \E r \in rows : Slot[r] = Slot[e]
        \/ \E v \in Worker : at[v] = "insert" /\ Slot[evt[v]] = Slot[e]
    BY <1>4, DisturbedGrows DEF SlotKept, Undisturbed
  <2>2. ASSUME NEW r \in rows, Slot[r] = Slot[e], r \notin rows' PROVE Kept
    <3>1. ASSUME NEW w \in Worker, Purge(w) PROVE Kept
      <4>1. Slot[evt[w]] = Slot[e]
        BY <2>2, <3>1 DEF Purge, SameSlot
      <4>2. at'[w] = "insert" /\ evt'[w] = evt[w]
        BY <3>1 DEF Purge, Goto, TypeOK, locals
      <4> QED BY <4>1, <4>2
    <3>2. ~RunRetention
      BY <2>2 DEF RunRetention, Disturb, Replaceable
    <3> QED BY <2>2, <3>1, <3>2, RowsChange DEF Insert, DiscardOlder
  <2>3. ASSUME NEW v \in Worker, at[v] = "insert", Slot[evt[v]] = Slot[e] PROVE Kept
    BY <2>3, InsertGoesOn DEF Insert, Replaceable
  <2> QED BY <2>1, <2>2, <2>3
<1> QED BY <1>1, <1>2, <1>3, <1>4

\* No overlap of saves leaves a pubkey and kind without an event: only a call
\* that ends after its DELETE does, or retention.
THEOREM SlotKeptCorrect == Spec => []SlotKept
<1>1. Init => Purging /\ SlotKept
  BY DEF Init, SlotKept, Purging
<1> QED BY <1>1, PurgingInductive, SlotInductive, TypeCorrect, PTL DEF Spec
-----------------------------------------------------------------------------
\* Two saves in one slot overlap.
SameSaved(v, w) == Replaceable(evt[w]) /\ Slot[evt[v]] = Slot[evt[w]]

Alone ==
    \A v, w \in Worker :
        v # w /\ at[v] \in SaveSteps /\ at[w] \in SaveSteps /\ SameSaved(v, w)
            => <<"overlap", Slot[evt[w]]>> \in disturbed

\* A save that is about to purge has the newest version ...
NewestSoFar ==
    \A w \in Worker :
        at[w] = "purge" /\ Undisturbed(evt[w], {"overlap", "misread"}) =>
            \A r \in rows \cap SameSlot(evt[w]) : Created[r] <= Created[evt[w]]

\* ... and one that has purged finds no other version.
SlotPurged ==
    \A w \in Worker :
        at[w] = "insert" /\ Replaceable(evt[w]) /\ Undisturbed(evt[w], {"overlap", "unpurged"}) =>
            \A r \in rows \cap SameSlot(evt[w]) : r = evt[w]

SaveInv == Alone /\ NewestSoFar /\ SlotPurged

LEMMA InitSaveInv == Init => SaveInv
<1> SUFFICES ASSUME Init PROVE SaveInv
  OBVIOUS
<1>1. \A w \in Worker : at[w] = "idle"
  BY DEF Init
<1>2. Alone
  BY <1>1 DEF Alone, SaveSteps
<1>3. NewestSoFar
  BY <1>1 DEF NewestSoFar
<1>4. SlotPurged
  BY <1>1 DEF SlotPurged
<1> QED BY <1>2, <1>3, <1>4 DEF SaveInv

LEMMA AloneInductive == TypeOK /\ Alone /\ [Next]_vars => Alone'
<1> SUFFICES ASSUME TypeOK, Alone, [Next]_vars,
                    NEW v \in Worker, NEW w \in Worker, v # w,
                    at'[v] \in SaveSteps, at'[w] \in SaveSteps,
                    Replaceable(evt'[w]), Slot[evt'[v]] = Slot[evt'[w]]
             PROVE  <<"overlap", Slot[evt'[w]]>> \in disturbed'
  BY DEF Alone, SameSaved, Replaceable
<1>1. CASE \A u \in Worker, e \in Event : ~CallSave(u, e)
  BY <1>1, NoNewSave, DisturbedGrows DEF Alone, SameSaved
<1>2. ASSUME NEW u \in Worker, NEW e \in Event, CallSave(u, e)
      PROVE  <<"overlap", Slot[evt'[w]]>> \in disturbed'
  <2>1. \A x \in Worker \ {u} : at'[x] = at[x] /\ evt'[x] = evt[x]
    BY <1>2 DEF CallSave, Call, TypeOK
  <2>2. evt'[u] = e /\ Replaceable(e) /\ u \in {v, w} => \E x \in Worker : Saving(x, e)
    BY <1>2, <2>1 DEF CallSave, Call, TypeOK, Saving, SaveSteps, Replaceable
  <2>3. evt'[u] = e
    BY <1>2 DEF CallSave, Call, TypeOK
  <2>4. CASE u \in {v, w}
    <3>1. Slot[evt'[w]] = Slot[e] /\ Replaceable(e)
      BY <2>3, <2>4 DEF Replaceable
    <3> QED BY <1>2, <2>2, <2>3, <2>4, <3>1 DEF CallSave, Disturb
  <2>5. CASE u \notin {v, w}
    BY <2>1, <2>5, DisturbedGrows DEF Alone, SameSaved
  <2> QED BY <2>4, <2>5
<1> QED BY <1>1, <1>2

\* Whoever changes a slot's rows is not in the way of an undisturbed save.
LEMMA RowsOfSlot ==
    ASSUME TypeOK, Alone, [Next]_vars,
           NEW w \in Worker, at[w] \in SaveSteps, Replaceable(evt[w]), ~Insert(w),
           <<"overlap", Slot[evt[w]]>> \notin disturbed
    PROVE  rows' \cap SameSlot(evt[w]) \subseteq rows
<1>1. ASSUME NEW v \in Worker, Insert(v) PROVE rows' \cap SameSlot(evt[w]) \subseteq rows
  <2>1. Slot[evt[v]] # Slot[evt[w]]
    BY <1>1 DEF Alone, SameSaved, Insert, SaveSteps
  <2> QED BY <1>1, <2>1 DEF Insert, SameSlot
<1>2. ASSUME NEW v \in Worker, Purge(v) \/ DiscardOlder(v)
      PROVE rows' \cap SameSlot(evt[w]) \subseteq rows
  BY <1>2 DEF Purge, DiscardOlder
<1>3. CASE RunRetention
  BY <1>3 DEF RunRetention
<1> QED BY <1>1, <1>2, <1>3, RowsChange

LEMMA SaveInvInductive == TypeOK /\ Purging /\ SaveInv /\ [Next]_vars => SaveInv'
<1> SUFFICES ASSUME TypeOK, Purging, SaveInv, [Next]_vars PROVE SaveInv'
  OBVIOUS
<1> USE DEF SaveInv
<1>1. Alone'
  BY AloneInductive
<1>2. NewestSoFar'
  <2> SUFFICES ASSUME NEW w \in Worker, at'[w] = "purge",
                      <<"overlap", Slot[evt'[w]]>> \notin disturbed',
                      <<"misread", Slot[evt'[w]]>> \notin disturbed',
                      NEW r \in rows' \cap SameSlot(evt'[w])
               PROVE  Created[r] <= Created[evt'[w]]
    BY DEF NewestSoFar, Undisturbed, SameSlot
  <2>1. CASE at[w] = "purge" /\ evt'[w] = evt[w] /\ ~Insert(w)
    BY <2>1, RowsOfSlot, DisturbedGrows DEF NewestSoFar, Undisturbed, Purging, SaveSteps
  <2>2. CASE FoundNewest(w)
    BY <2>2 DEF FoundNewest, Goto, Disturb, Purging, TypeOK, locals, SameSlot
  <2>3. (at[w] = "purge" /\ evt'[w] = evt[w]) \/ FoundNewest(w)
    <3>1. ~(\E u \in Worker, e \in Event : CallSave(u, e) /\ u = w)
      BY DEF CallSave, Call, TypeOK
    <3>2. CASE \E u \in Worker \ {w}, e \in Event : CallSave(u, e)
      BY <3>2 DEF CallSave, Call, TypeOK
    <3>3. CASE \A u \in Worker, e \in Event : ~CallSave(u, e)
      <4>1. evt'[w] = evt[w]
        BY <3>3, NoNewSave DEF SaveSteps
      <4>2. ASSUME NEW u \in Worker, CheckDeleted(u) \/ DiscardOlder(u) \/ FoundNewest(u)
                       \/ Purge(u) \/ Insert(u) \/ StatementFails(u)
            PROVE  at[w] = "purge" \/ FoundNewest(w)
        <5>1. \/ Return(u) \/ Goto(u, "newest") \/ Goto(u, "insert")
              \/ (FoundNewest(u) /\ Goto(u, "purge"))
          BY <4>2 DEF CheckDeleted, DiscardOlder, FoundNewest, Purge, Insert, StatementFails
        <5> QED BY <5>1 DEF Return, Goto, TypeOK
      <4>3. CASE Quiet \/ Crash \/ RunRetention
        BY <4>1, <4>3 DEF Quiet, Crash, RunRetention, SaveSteps
      <4> QED BY <3>3, <4>1, <4>2, <4>3, StepKinds
    <3> QED BY <3>1, <3>2, <3>3
  <2> QED BY <2>1, <2>2, <2>3 DEF Insert
<1>3. SlotPurged'
  <2> SUFFICES ASSUME NEW w \in Worker, at'[w] = "insert", Replaceable(evt'[w]),
                      <<"overlap", Slot[evt'[w]]>> \notin disturbed',
                      <<"unpurged", Slot[evt'[w]]>> \notin disturbed',
                      NEW r \in rows' \cap SameSlot(evt'[w])
               PROVE  r = evt'[w]
    BY DEF SlotPurged, Undisturbed, SameSlot, Replaceable
  <2>1. CASE at[w] = "insert" /\ evt'[w] = evt[w] /\ ~Insert(w)
    BY <2>1, RowsOfSlot, DisturbedGrows DEF SlotPurged, Undisturbed, SaveSteps
  <2>2. CASE Purge(w)
    BY <2>2 DEF Purge, Goto, Disturb, TypeOK, locals, SameSlot
  <2>3. (at[w] = "insert" /\ evt'[w] = evt[w] /\ ~Insert(w)) \/ Purge(w)
    <3>1. ~(\E u \in Worker, e \in Event : CallSave(u, e) /\ u = w) /\ ~Insert(w)
      BY DEF CallSave, Call, TypeOK, Insert, Return
    <3>2. CASE \E u \in Worker \ {w}, e \in Event : CallSave(u, e)
      BY <3>1, <3>2 DEF CallSave, Call, TypeOK
    <3>3. CASE \A u \in Worker, e \in Event : ~CallSave(u, e)
      <4>1. evt'[w] = evt[w]
        BY <3>3, NoNewSave DEF SaveSteps
      <4>2. ASSUME NEW u \in Worker, CheckDeleted(u)
            PROVE  at[w] = "insert"
        <5>1. Return(u) \/ Goto(u, "newest") \/ (~Replaceable(evt[u]) /\ Goto(u, "insert"))
          BY <4>2 DEF CheckDeleted
        <5> QED BY <4>1, <5>1 DEF Return, Goto, TypeOK, Replaceable
      <4>3. ASSUME NEW u \in Worker, DiscardOlder(u) \/ FoundNewest(u)
                       \/ Purge(u) \/ Insert(u) \/ StatementFails(u)
            PROVE  at[w] = "insert" \/ Purge(w)
        <5>1. Return(u) \/ Goto(u, "purge") \/ (Purge(u) /\ Goto(u, "insert"))
          BY <4>3 DEF DiscardOlder, FoundNewest, Purge, Insert, StatementFails
        <5> QED BY <5>1 DEF Return, Goto, TypeOK
      <4>4. CASE Quiet \/ Crash \/ RunRetention
        BY <3>1, <4>1, <4>4 DEF Quiet, Crash, RunRetention, SaveSteps
      <4> QED BY <3>1, <3>3, <4>1, <4>2, <4>3, <4>4, StepKinds
    <3> QED BY <3>1, <3>2, <3>3
  <2> QED BY <2>1, <2>2, <2>3
<1> QED BY <1>1, <1>2, <1>3

LEMMA OneRowInductive ==
    TypeOK /\ SaveInv /\ OneRowIfUndisturbed /\ [Next]_vars => OneRowIfUndisturbed'
<1> SUFFICES ASSUME TypeOK, SaveInv, OneRowIfUndisturbed, [Next]_vars,
                    NEW d \in rows', NEW e \in rows', Replaceable(d), Slot[d] = Slot[e],
                    <<"overlap", Slot[d]>> \notin disturbed',
                    <<"unpurged", Slot[d]>> \notin disturbed'
             PROVE  d = e
  BY DEF OneRowIfUndisturbed, Undisturbed, Replaceable
<1>1. CASE d \in rows /\ e \in rows
  BY <1>1, DisturbedGrows DEF OneRowIfUndisturbed, Undisturbed
<1>2. ASSUME NEW w \in Worker, Insert(w) PROVE d = e
  <2>1. rows' = rows \cup {evt[w]} /\ at[w] = "insert" /\ disturbed' = disturbed
    BY <1>2 DEF Insert
  <2>2. \A r \in rows : Slot[r] = Slot[d] /\ Slot[evt[w]] = Slot[d] => r = evt[w]
    BY <2>1 DEF SaveInv, SlotPurged, Undisturbed, Replaceable, SameSlot, TypeOK
  <2> QED BY <1>1, <2>1, <2>2
<1> QED BY <1>1, <1>2, RowsChange DEF Purge, DiscardOlder, RunRetention

\* A pubkey and kind has one row, unless its saves overlapped or a DELETE failed.
THEOREM OneRowCorrect == Spec => []OneRowIfUndisturbed
<1>1. Init => Purging /\ SaveInv /\ OneRowIfUndisturbed
  BY InitSaveInv DEF Init, Purging, OneRowIfUndisturbed
<1> QED BY <1>1, PurgingInductive, SaveInvInductive, OneRowInductive, TypeCorrect, PTL DEF Spec

LEMMA NewestInductive ==
    TypeOK /\ Purging /\ SaveInv /\ NewestKept /\ [Next]_vars => NewestKept'
<1> SUFFICES ASSUME TypeOK, Purging, SaveInv, NewestKept, [Next]_vars,
                    NEW e \in answered', e \notin Aged, Replaceable(e),
                    <<"overlap", Slot[e]>> \notin disturbed',
                    <<"misread", Slot[e]>> \notin disturbed',
                    <<"interrupted", Slot[e]>> \notin disturbed'
             PROVE  \/ \E r \in rows' : Slot[r] = Slot[e] /\ Created[r] >= Created[e]
                    \/ \E w \in Worker : /\ at'[w] = "insert" /\ Slot[evt'[w]] = Slot[e]
                                         /\ Created[evt'[w]] >= Created[e]
  BY DEF NewestKept, Undisturbed, Replaceable
<1> DEFINE Kept == \/ \E r \in rows' : Slot[r] = Slot[e] /\ Created[r] >= Created[e]
                   \/ \E w \in Worker : /\ at'[w] = "insert" /\ Slot[evt'[w]] = Slot[e]
                                        /\ Created[evt'[w]] >= Created[e]
<1> USE SqliteStoreAssumption
<1>1. ASSUME NEW w \in Worker, DiscardOlder(w), e = evt[w] PROVE Kept
  <2>1. PICK r \in rows \cap SameSlot(evt[w]) : Created[evt[w]] < Created[r]
    BY <1>1 DEF DiscardOlder
  <2>2. r \in rows' /\ Created[r] \in Nat /\ Created[e] \in Nat /\ Slot[r] = Slot[e]
    BY <1>1, <2>1 DEF DiscardOlder, TypeOK, SameSlot
  <2> QED BY <1>1, <2>1, <2>2
<1>2. ASSUME NEW w \in Worker, Insert(w), e = evt[w] PROVE Kept
  BY <1>2 DEF Insert, TypeOK
<1>3. e \in answered \/ \E w \in Worker : (DiscardOlder(w) \/ Insert(w)) /\ e = evt[w]
  BY RowsChange DEF DiscardOlder, Insert, Purge, RunRetention
<1>4. ASSUME e \in answered PROVE Kept
  <2>1. \/ \E r \in rows : Slot[r] = Slot[e] /\ Created[r] >= Created[e]
        \/ \E w \in Worker : /\ at[w] = "insert" /\ Slot[evt[w]] = Slot[e]
                             /\ Created[evt[w]] >= Created[e]
    BY <1>4, DisturbedGrows DEF NewestKept, Undisturbed
  <2>2. ASSUME NEW r \in rows, Slot[r] = Slot[e], Created[r] >= Created[e], r \notin rows'
        PROVE Kept
    <3>1. ASSUME NEW w \in Worker, Purge(w) PROVE Kept
      <4>1. r \in SameSlot(evt[w]) /\ evt[w] \in Event /\ at[w] = "purge"
        BY <2>2, <3>1 DEF Purge, TypeOK
      <4>2. Slot[evt[w]] = Slot[e]
        BY <2>2, <4>1 DEF SameSlot
      <4>3. Undisturbed(evt[w], {"overlap", "misread"})
        BY <4>2, DisturbedGrows DEF Undisturbed
      <4>4. Created[r] <= Created[evt[w]]
        BY <4>1, <4>3 DEF SaveInv, NewestSoFar
      <4>5. at'[w] = "insert" /\ evt'[w] = evt[w]
        BY <3>1 DEF Purge, Goto, TypeOK, locals
      <4>6. Created[r] \in Nat /\ Created[evt[w]] \in Nat /\ Created[e] \in Nat
        BY <1>4, <4>1 DEF TypeOK
      <4> QED BY <2>2, <4>2, <4>4, <4>5, <4>6
    <3>2. ~RunRetention
      BY <1>4, <2>2 DEF RunRetention, Replaceable, TypeOK
    <3> QED BY <2>2, <3>1, <3>2, RowsChange DEF Insert, DiscardOlder
  <2>3. ASSUME NEW v \in Worker, at[v] = "insert", Slot[evt[v]] = Slot[e],
               Created[evt[v]] >= Created[e]
        PROVE Kept
    BY <2>3, InsertGoesOn DEF Insert, Replaceable
  <2> QED BY <2>1, <2>2, <2>3
<1> QED BY <1>1, <1>2, <1>3, <1>4

\* What is stored for a pubkey and kind is as new as anything SaveEvent returned
\* nil for, unless saves overlapped, the SELECT failed or the INSERT was not reached.
THEOREM NewestKeptCorrect == Spec => []NewestKept
<1>1. Init => Purging /\ SaveInv /\ NewestKept
  BY InitSaveInv DEF Init, Purging, NewestKept
<1> QED BY <1>1, PurgingInductive, SaveInvInductive, NewestInductive, TypeCorrect, PTL DEF Spec
=============================================================================
