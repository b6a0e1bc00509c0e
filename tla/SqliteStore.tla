---------------------------- MODULE SqliteStore -----------------------------
(***************************************************************************)
(* The SQLite store (internal/store/sqlite/sqlite.go).  SQLite makes each  *)
(* SQL statement atomic and durable; the store opens no transaction around *)
(* the statements of SaveEvent, DeleteEvent and DeleteAllEventsByPubKey,   *)
(* and its connection pool lets several handlers run them at once.  So an  *)
(* action is one statement, and a crash may come between any two.          *)
(***************************************************************************)
EXTENDS FiniteSets, Naturals

CONSTANTS
    Worker,     \* handlers calling the store
    Event,      \* events by id
    PubKey,
    Author,     \* pubkey of each event
    Created,    \* created_at of each event
    Slot,       \* <pubkey, kind> of a replaceable event, NoSlot of any other
    NoSlot,
    Aged,       \* events the retention run removes: old, and of no exempt kind
    Faults,     \* whether statements may fail and the process may crash
    Nil

ASSUME SqliteStoreAssumption ==
    /\ Author \in [Event -> PubKey] /\ Created \in [Event -> Nat]
    /\ DOMAIN Slot = Event
    /\ Aged \subseteq Event
    /\ \A d, e \in Event :  \* exempt by kind, removed by age
          Slot[d] # NoSlot /\ Slot[d] = Slot[e] /\ Created[d] <= Created[e] /\ e \in Aged
              => d \in Aged
    /\ Faults \in BOOLEAN /\ Nil \notin Event /\ Nil \notin PubKey

VARIABLES
    rows,      \* table events
    deleter,   \* table deleted_events: the deleter_pubkey of each event, if any
    at,        \* the statement each worker runs next
    evt,       \* the event a worker saves or deletes
    who,       \* the pubkey a worker deletes for
    ids,       \* DeleteAllEventsByPubKey: ids still to be marked
    \* history variables
    answered,  \* events SaveEvent returned nil for, inserted or discarded
    disturbed  \* what went wrong in the saves of each slot: <<cause, slot>>

locals == <<evt, who, ids>>
history == <<answered, disturbed>>
vars == <<rows, deleter, at, locals, history>>

\* What can go wrong in the saves of one pubkey and kind: two of them overlap;
\* the SELECT of the newest fails; the DELETE fails; the call ends after it;
\* retention removes a version.
Cause == {"overlap", "misread", "unpurged", "interrupted", "retired"}

TypeOK ==
    /\ rows \subseteq Event /\ deleter \in [Event -> {Nil} \cup PubKey]
    /\ at \in [Worker -> {"idle", "check", "newest", "purge", "insert",
                          "author", "mark", "markAll"}]
    /\ evt \in [Worker -> {Nil} \cup Event] /\ who \in [Worker -> {Nil} \cup PubKey]
    /\ ids \in [Worker -> SUBSET Event]
    /\ \A w \in Worker : at[w] \notin {"idle", "markAll"} => evt[w] \in Event
    /\ \A w \in Worker : at[w] \in {"author", "mark", "markAll"} => who[w] \in PubKey
    /\ answered \subseteq Event
    /\ disturbed \subseteq Cause \X {Slot[e] : e \in Event}

Init ==
    /\ rows = {} /\ deleter = [e \in Event |-> Nil]
    /\ at = [w \in Worker |-> "idle"]
    /\ evt = [w \in Worker |-> Nil] /\ who = [w \in Worker |-> Nil]
    /\ ids = [w \in Worker |-> {}]
    /\ answered = {} /\ disturbed = {}

\* isReplaceableKind
Replaceable(e) == Slot[e] # NoSlot
\* Mutant: the kind is forgotten.
SameAuthor(e) == {d \in Event : Author[d] = Author[e]}
SameSlot(e) == {d \in Event : Slot[d] = Slot[e]}
Deleted(e) == deleter[e] # Nil

\* Worker w is in SaveEvent with a version of the slot of e.
Saving(w, e) ==
    at[w] \in {"check", "newest", "purge", "insert"} /\ Replaceable(e) /\ Slot[evt[w]] = Slot[e]
Disturb(cause, E) == disturbed' = disturbed \cup {<<cause, Slot[e]>> : e \in {d \in E : Replaceable(d)}}

Goto(w, step) == at' = [at EXCEPT ![w] = step] /\ UNCHANGED locals

Call(w, step, e, p) ==
    /\ at[w] = "idle"
    /\ at' = [at EXCEPT ![w] = step]
    /\ evt' = [evt EXCEPT ![w] = e]
    /\ who' = [who EXCEPT ![w] = p]

\* Mutant: the caller's step survives the return.
NoReturn(w) ==
    /\ UNCHANGED <<at, ids>>
    /\ evt' = [evt EXCEPT ![w] = Nil] /\ who' = [who EXCEPT ![w] = Nil]

Return(w) ==
    /\ at' = [at EXCEPT ![w] = "idle"]
    /\ evt' = [evt EXCEPT ![w] = Nil] /\ who' = [who EXCEPT ![w] = Nil]
    /\ ids' = [ids EXCEPT ![w] = {}]
-----------------------------------------------------------------------------
(******************************** SaveEvent ********************************)
CallSave(w, e) ==
    /\ Call(w, "check", e, Nil)
    /\ Disturb("overlap", {d \in {e} : \E v \in Worker : Saving(v, d)})
    /\ UNCHANGED <<rows, deleter, ids, answered>>

\* SELECT 1 FROM deleted_events.  Mutant: no such check.
CheckNothing(w) ==
    /\ at[w] = "check"
    /\ Goto(w, IF Replaceable(evt[w]) THEN "newest" ELSE "insert")
    /\ UNCHANGED <<rows, deleter, history>>
CheckDeleted(w) ==
    /\ at[w] = "check"
    /\ IF Deleted(evt[w]) THEN Return(w)  \* "event has been deleted"
       ELSE Goto(w, IF Replaceable(evt[w]) THEN "newest" ELSE "insert")
    /\ UNCHANGED <<rows, deleter, history>>

\* SELECT created_at ... LIMIT 1: an event older than the stored one is
\* discarded, and the caller told that it was saved.
DiscardOlder(w) ==
    /\ at[w] = "newest"
    /\ \E r \in rows \cap SameSlot(evt[w]) : Created[evt[w]] < Created[r]
    /\ answered' = answered \cup {evt[w]}
    /\ Return(w)
    /\ UNCHANGED <<rows, deleter, disturbed>>

\* ... and if it fails the event counts as the newest.  Mutants: any event
\* counts as the newest; the newest is inserted without the DELETE.
FoundAnyway(w) ==
    /\ at[w] = "newest"
    /\ Goto(w, "purge")
    /\ UNCHANGED <<rows, deleter, history>>
SkipPurge(w) ==
    /\ at[w] = "newest"
    /\ \A r \in rows \cap SameSlot(evt[w]) : Created[evt[w]] >= Created[r]
    /\ Goto(w, "insert")
    /\ UNCHANGED <<rows, deleter, history>>
FoundNewest(w) ==
    /\ at[w] = "newest"
    /\ Goto(w, "purge")
    /\ \/ /\ \A r \in rows \cap SameSlot(evt[w]) : Created[evt[w]] >= Created[r]
          /\ UNCHANGED disturbed
       \/ Faults /\ Disturb("misread", {evt[w]})
    /\ UNCHANGED <<rows, deleter, answered>>

\* DELETE of the other events of the slot; its error is ignored.  Mutant: an
\* event that proves older after all is dropped once it has purged the slot.
PurgeThenRecheck(w) ==
    /\ at[w] = "purge"
    /\ rows' = rows \ (SameSlot(evt[w]) \ {evt[w]})
    /\ IF \E r \in rows \cap SameSlot(evt[w]) : Created[evt[w]] < Created[r]
       THEN Return(w) ELSE Goto(w, "insert")
    /\ UNCHANGED <<deleter, history>>
Purge(w) ==
    /\ at[w] = "purge"
    /\ \/ rows' = rows \ (SameSlot(evt[w]) \ {evt[w]}) /\ UNCHANGED disturbed
       \/ Faults /\ Disturb("unpurged", {evt[w]}) /\ UNCHANGED rows
    /\ Goto(w, "insert")
    /\ UNCHANGED <<deleter, answered>>

\* INSERT OR REPLACE
Insert(w) ==
    /\ at[w] = "insert"
    /\ rows' = rows \cup {evt[w]}
    /\ answered' = answered \cup {evt[w]}
    /\ Return(w)
    /\ UNCHANGED <<deleter, disturbed>>
-----------------------------------------------------------------------------
(************************ DeleteEvent, called by NIP-09 ********************)
CallDelete(w, e, p) ==
    /\ Call(w, "author", e, p)
    /\ UNCHANGED <<rows, deleter, ids, history>>

\* SELECT pubkey: not found and "unauthorized" end the call.  Mutant: anybody may.
CheckFound(w) ==
    /\ at[w] = "author"
    /\ IF evt[w] \in rows THEN Goto(w, "mark") ELSE Return(w)
    /\ UNCHANGED <<rows, deleter, history>>
CheckAuthor(w) ==
    /\ at[w] = "author"
    /\ IF evt[w] \in rows /\ Author[evt[w]] = who[w] THEN Goto(w, "mark") ELSE Return(w)
    /\ UNCHANGED <<rows, deleter, history>>

\* INSERT OR IGNORE INTO deleted_events; the row of events stays.
MarkDeleted(w) ==
    /\ at[w] = "mark"
    /\ deleter' = [deleter EXCEPT ![evt[w]] = IF @ = Nil THEN who[w] ELSE @]
    /\ Return(w)
    /\ UNCHANGED <<rows, history>>
-----------------------------------------------------------------------------
(****************** DeleteAllEventsByPubKey, called by NIP-62 **************)
\* SELECT id FROM events WHERE pubkey = ?
CallVanish(w, p) ==
    /\ Call(w, "markAll", Nil, p)
    /\ ids' = [ids EXCEPT ![w] = {e \in rows : Author[e] = p}]
    /\ UNCHANGED <<rows, deleter, history>>

\* One INSERT for each id.
MarkNext(w, e) ==
    /\ at[w] = "markAll" /\ e \in ids[w]
    /\ deleter' = [deleter EXCEPT ![e] = IF @ = Nil THEN who[w] ELSE @]
    /\ ids' = [ids EXCEPT ![w] = @ \ {e}]
    /\ UNCHANGED <<rows, at, evt, who, history>>

VanishDone(w) ==
    /\ at[w] = "markAll" /\ ids[w] = {}
    /\ Return(w)
    /\ UNCHANGED <<rows, deleter, history>>
-----------------------------------------------------------------------------
\* A failing statement of any call, but the two whose error is ignored, ends
\* the call with an error.
StatementFails(w) ==
    /\ Faults /\ at[w] \in {"check", "insert", "author", "mark", "markAll"}
    /\ Disturb("interrupted", {e \in {evt[w]} : at[w] = "insert"})
    /\ Return(w)
    /\ UNCHANGED <<rows, deleter, answered>>

\* The process stops and starts again: the calls in hand are gone, and what
\* their statements did stays done.
Crash ==
    /\ Faults /\ \E w \in Worker : at[w] # "idle"
    /\ at' = [w \in Worker |-> "idle"]
    /\ evt' = [w \in Worker |-> Nil] /\ who' = [w \in Worker |-> Nil]
    /\ ids' = [w \in Worker |-> {}]
    /\ Disturb("interrupted", {evt[w] : w \in {v \in Worker : at[v] = "insert"}})
    /\ UNCHANGED <<rows, deleter, answered>>

\* DeleteEventsOlderThan: one statement; deleted_events keeps its rows.
RunRetention ==
    /\ rows \cap Aged # {}
    /\ rows' = rows \ Aged
    /\ Disturb("retired", rows \cap Aged)
    /\ UNCHANGED <<deleter, at, locals, answered>>

Next ==
    \/ \E w \in Worker :
         \/ \E e \in Event : CallSave(w, e) \/ MarkNext(w, e)
         \/ CheckDeleted(w) \/ DiscardOlder(w) \/ FoundNewest(w) \/ Purge(w) \/ Insert(w)
         \/ \E e \in Event, p \in PubKey : CallDelete(w, e, p)
         \/ CheckAuthor(w) \/ MarkDeleted(w)
         \/ \E p \in PubKey : CallVanish(w, p)
         \/ VanishDone(w) \/ StatementFails(w)
    \/ Crash \/ RunRetention

Spec == Init /\ [][Next]_vars
-----------------------------------------------------------------------------
(******************************** Properties *******************************)
\* Only the author of an event ever has it deleted, by id or by a Request to
\* Vanish, whatever happens between the check of the author and the mark.
OnlyAuthorDeletes == \A e \in Event : Deleted(e) => deleter[e] = Author[e]

\* An event that is not replaceable, once saved, stays until retention takes
\* it: no save of another event purges it, and no crash loses it.
RegularKept == \A e \in answered : ~Replaceable(e) => e \in rows \cup Aged

\* A deleted event whose row is gone, and that no save in hand has already
\* cleared, never comes back.
Gone(e) ==
    /\ Deleted(e) /\ e \notin rows
    /\ \A w \in Worker : evt[w] = e => at[w] \notin {"newest", "purge", "insert"}
GoneForGood == [][\A e \in Event : Gone(e) => Gone(e)']_vars

\* The saves of the slot of e have gone wrong in none of these ways.
Undisturbed(e, causes) == \A cause \in causes : <<cause, Slot[e]>> \notin disturbed

\* Unless a call ended between the DELETE and the INSERT, or retention took
\* one, the saves of a pubkey and kind never lose every version, overlapping or
\* not: one is stored, or about to be.
SlotKept ==
    \A e \in answered : Replaceable(e) /\ Undisturbed(e, {"interrupted", "retired"}) =>
        \/ \E r \in rows : Slot[r] = Slot[e]
        \/ \E w \in Worker : at[w] = "insert" /\ Slot[evt[w]] = Slot[e]

\* Unless saves overlapped or a DELETE failed, a pubkey and kind has one row.
OneRowIfUndisturbed ==
    \A d, e \in rows :
        Replaceable(d) /\ Slot[d] = Slot[e] /\ Undisturbed(d, {"overlap", "unpurged"}) => d = e

\* Unless saves overlapped, the SELECT failed, or a call ended between the
\* DELETE and the INSERT, what is stored is as new as anything the store took.
NewestKept ==
    \A e \in answered \ Aged :
        Replaceable(e) /\ Undisturbed(e, {"overlap", "misread", "interrupted"}) =>
            \/ \E r \in rows : Slot[r] = Slot[e] /\ Created[r] >= Created[e]
            \/ \E w \in Worker : /\ at[w] = "insert" /\ Slot[evt[w]] = Slot[e]
                                /\ Created[evt[w]] >= Created[e]
-----------------------------------------------------------------------------
(********************* What the documentation says *************************)
\* CHANGELOG.md:16 "SQLite store now enforces keeping only the newest event per
\* pubkey+kind, deleting older duplicates on save": only one is kept.
OneRowPerSlot ==
    \A d, e \in rows : Replaceable(d) /\ Slot[d] = Slot[e] => d = e
=============================================================================
