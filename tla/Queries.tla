------------------------------- MODULE Queries -------------------------------
(***************************************************************************)
(* What a REQ and a COUNT answer: the matching of pkg/event, the queries   *)
(* of the SQLite and the in-memory store, the channel queries of NIP-28,   *)
(* the search of NIP-50, and HandleReq, which chooses among them and sends *)
(* the events.  The same events are kept by both stores, so that a request *)
(* is answered by both.                                                    *)
(*                                                                         *)
(* A string is a sequence of characters.  A list of a filter is absent     *)
(* (Nil), or may be empty; an order the code leaves open (ties of          *)
(* created_at, a map) is any.  What the stores keep of replaceable events, *)
(* vanish requests and aged events is SqliteStore and MemoryStore.         *)
(***************************************************************************)
EXTENDS Integers, FiniteSets, SequencesExt, TagCodec

CONSTANTS
    Event,
    Id, Author, Kind, Created, Content,
    Tags,         \* tags of each event, each a sequence of strings
    Channel,      \* channel_id of each event, Nil if it has none
    Name,         \* names of the tags the code knows
    Past,         \* expiration times that have passed
    FilterLists,  \* the filters of a request
    MaxPerReq,    \* maxEventsPerREQ
    Nil

\* The lists of a filter are absent or sequences, its limit is absent or not negative;
\* a request has a filter.
ASSUME QueriesAssumption ==
    /\ Created \in [Event -> Nat] /\ Kind \in [Event -> Nat]
    /\ \A e \in Event : IsSequence(Id[e]) /\ IsSequence(Author[e]) /\ IsTags(Tags[e])
    /\ IsFiniteSet(Event) /\ Nil \notin Event
    /\ MaxPerReq \in Nat /\ Nil \notin Nat
    /\ \A fs \in FilterLists :
          /\ fs # Nil /\ IsSequence(fs) /\ fs # << >>
          /\ \A i \in DOMAIN fs :
                /\ fs[i].kinds # Nil => IsSequence(fs[i].kinds)
                /\ fs[i].limit # Nil => fs[i].limit \in Nat

\* The tags an event has when it is read from the SQLite tables.
Read == [e \in Event |-> parseTagsJSON(tagsToJSON(Tags[e]))]

VARIABLES
    rows,     \* table events, and the keys of memory.Store.events
    gone,     \* table deleted_events, and memory.Store.deleted
    room,     \* table channel_events, and memory.Store.channelEvents
    req,      \* the filters of the request being answered
    answer,   \* the events the relay sends, on the SQLite store
    memory,   \* the events it sends on the in-memory store
    count,    \* the answer to a COUNT, on the SQLite store
    distinct  \* and on the in-memory store

vars == <<rows, gone, room, req, answer, memory, count, distinct>>

TypeOK ==
    /\ rows \subseteq Event /\ gone \subseteq rows /\ room \subseteq rows
    /\ req \in FilterLists \cup {Nil}
    /\ ToSet(answer) \subseteq rows /\ ToSet(memory) \subseteq (rows \ gone) \cup room
    /\ Len(answer) <= MaxPerReq /\ Len(memory) <= MaxPerReq
    /\ count \in Nat /\ distinct \in 0..Cardinality(rows)

-----------------------------------------------------------------------------
(* pkg/event *)

matchesPrefix(target, prefix) ==
    Len(prefix) <= Len(target) /\ SubSeq(target, 1, Len(prefix)) = prefix

Values(tags, name) ==
    {tags[i][2] : i \in {i \in DOMAIN tags : Len(tags[i]) >= 2 /\ tags[i][1] = name}}

\* An absent and an empty list ask for nothing.
Names(list, target) ==
    list \notin {Nil, {}} => \E prefix \in list : matchesPrefix(target, prefix)

Within(e, since, until) ==
    /\ since # Nil => Created[e] >= since
    /\ until # Nil => Created[e] <= until

Matches(e, tags, f) ==
    /\ Names(f.ids, Id[e]) /\ Names(f.authors, Author[e])
    /\ f.kinds \notin {Nil, << >>} => Kind[e] \in ToSet(f.kinds)
    /\ Within(e, f.since, f.until)
    /\ \A name \in DOMAIN f.tags :
          \E prefix \in ToSet(f.tags[name]), v \in Values(tags, name) : matchesPrefix(v, prefix)

-----------------------------------------------------------------------------
(* Sorting and cutting *)

\* The events, newest first; the first of them.  Mutants: in any order; all of them.
AnyOrder(S) == {s \in [1..Cardinality(S) -> S] : ToSet(s) = S}
NewestFirst(s) == \A i, j \in DOMAIN s : i < j => Created[s[i]] >= Created[s[j]]
Sorted(S) == {s \in [1..Cardinality(S) -> S] : ToSet(s) = S /\ NewestFirst(s)}

CutNothing(s, limit) == s
Cut(s, limit) == IF limit = Nil THEN s
                 ELSE IF Len(s) > limit THEN SubSeq(s, 1, limit) ELSE s

\* ORDER BY created_at DESC LIMIT: the sets of rows that may come back.  Mutant: without
\* the ORDER BY.
AnyRows(S, limit) ==
    IF limit = Nil THEN {S} ELSE {T \in SUBSET S : Cardinality(T) = Min({limit, Cardinality(S)})}
Newest(S, limit) ==
    IF limit = Nil THEN {S}
    ELSE {T \in SUBSET S :
             /\ Cardinality(T) = Min({limit, Cardinality(S)})
             /\ \A t \in T, s \in S \ T : Created[t] >= Created[s]}

-----------------------------------------------------------------------------
(* SQLite *)

\* "IN (...)" with the list, if there is one; full ids and pubkeys only.
In(list, value) == list # Nil => value \in list

\* The WHERE clause of queryFilter and countFilter.  It says nothing of tags or of
\* deleted_events.  Mutant: until is exclusive.
SelectBefore(f) == {e \in rows :
    /\ In(f.ids, Id[e]) /\ In(f.authors, Author[e])
    /\ f.kinds # Nil => Kind[e] \in ToSet(f.kinds)
    /\ Within(e, f.since, f.until) /\ Created[e] # f.until}
Select(f) == {e \in rows :
    /\ In(f.ids, Id[e]) /\ In(f.authors, Author[e])
    /\ f.kinds # Nil => Kind[e] \in ToSet(f.kinds)
    /\ Within(e, f.since, f.until)}

\* Each filter has its own limit; the first filter's is that of the union too.
QueryEvents(fs) ==
    LET picks == {p \in [DOMAIN fs -> SUBSET rows] :
                     \A i \in DOMAIN fs : p[i] \in Newest(Select(fs[i]), fs[i].limit)}
    IN  {Cut(s, fs[1].limit) : s \in UNION {Sorted(UNION {p[i] : i \in DOMAIN fs}) : p \in picks}}

\* The counts of the filters are added up.  Mutant: only the first is taken.
CountFirst(fs) == Cardinality(Select(fs[1]))
CountEvents(fs) ==
    LET total[i \in 0..Len(fs)] == IF i = 0 THEN 0 ELSE total[i - 1] + Cardinality(Select(fs[i]))
    IN  total[Len(fs)]

-----------------------------------------------------------------------------
(* In memory *)

Live == rows \ gone
Asked(fs) == {e \in Live : \E i \in DOMAIN fs : Matches(e, Tags[e], fs[i])}

MemoryQuery(fs) == {Cut(s, fs[1].limit) : s \in Sorted(Asked(fs))}

MemoryCount(fs) == Cardinality(Asked(fs))

-----------------------------------------------------------------------------
(* NIP-50 *)

HasSubstring(string, term) ==
    \E i \in 0..Len(string) - Len(term) : SubSeq(string, i + 1, i + Len(term)) = term
HasSuffix(string, suffix) ==
    Len(suffix) <= Len(string)
      /\ SubSeq(string, Len(string) - Len(suffix) + 1, Len(string)) = suffix

eventContainsTerm(e, tags, term) ==
    \/ HasSubstring(Content[e], term)
    \/ \E i \in DOMAIN tags : Len(tags[i]) >= 2 /\ HasSubstring(tags[i][2], term)

\* An extension is a key and a value; what is not known is ignored.
eventMatchesExtension(tags, ext) ==
    /\ ext.key = "domain" =>
          \E v \in Values(tags, Name.nip05) : HasSuffix(v, <<"@">> \o ext.value)
    /\ ext.key = "language" => ext.value \in Values(tags, Name.language)
    /\ ext.key = "nsfw" /\ ext.value \in BOOLEAN =>
          ext.value = (Values(tags, Name.warning) # {})

\* SearchFilter.Matches, of a filter whose search ParseSearchQuery took apart.
Fits(e, tags, search) ==
    /\ \A term \in search.terms : eventContainsTerm(e, tags, term)
    /\ \A term \in search.exclusions : ~eventContainsTerm(e, tags, term)
    /\ \A ext \in search.extensions : eventMatchesExtension(tags, ext)
SearchMatches(e, tags, f) == Matches(e, tags, f) /\ (f.search # Nil => Fits(e, tags, f.search))

\* SearchEvents: what the store returned, limits and all, is filtered.
Found(fs, tags, stored) ==
    {Picked(s, {k \in DOMAIN s : \E i \in DOMAIN fs : SearchMatches(s[k], tags[s[k]], fs[i])}) :
        s \in stored}

HasSearch(fs) == \E i \in DOMAIN fs : fs[i].search # Nil

-----------------------------------------------------------------------------
(* NIP-28 *)

\* The first filter with a channel_id tells which channel.
ChannelOf(fs) ==
    LET named == {i \in DOMAIN fs : /\ Name.channel \in DOMAIN fs[i].tags
                                    /\ fs[i].tags[Name.channel] # << >>
                                    /\ fs[i].tags[Name.channel][1] # << >>}
    IN  IF named = {} THEN Nil ELSE fs[Min(named)].tags[Name.channel][1]

\* since, until and limit are those of the last filter that has one.
LastOf(fs, field) ==
    LET given == {i \in DOMAIN fs : fs[i][field] # Nil}
    IN  IF given = {} THEN Nil ELSE fs[Max(given)][field]

\* QueryChannelEvents, the same in both stores; a limit of 0 is none.
\* Mutant: since is exclusive.
AfterSince(channel, since, until, limit) ==
    {Cut(s, IF limit = 0 THEN Nil ELSE limit) :
        s \in Sorted({e \in room : /\ Channel[e] = channel /\ Within(e, since, until)
                                   /\ Created[e] # since})}
QueryChannelEvents(channel, since, until, limit) ==
    {Cut(s, IF limit = 0 THEN Nil ELSE limit) :
        s \in Sorted({e \in room : Channel[e] = channel /\ Within(e, since, until)})}

\* One query for each kind of the first filter, the answers one after the other;
\* ids, authors and the other tags are not looked at.
queryChannelEvents(fs) ==
    LET events == QueryChannelEvents(ChannelOf(fs), LastOf(fs, "since"),
                                     LastOf(fs, "until"), LastOf(fs, "limit"))
        kinds == fs[1].kinds
    IN  IF kinds \in {Nil, << >>} THEN events
        ELSE {FlattenSeq([k \in DOMAIN kinds |->
                             Picked(q[k], {n \in DOMAIN q[k] : Kind[q[k][n]] = kinds[k]})]) :
                  q \in [DOMAIN kinds -> events]}

-----------------------------------------------------------------------------
(* HandleReq *)

\* NIP-40: the first expiration tag counts.
Expired(tags) ==
    LET dated == {i \in DOMAIN tags : Len(tags[i]) >= 2 /\ tags[i][1] = Name.expiration}
    IN  \E i \in dated : (\A j \in dated : i <= j) /\ tags[i][2] \in Past

Sent(tags, stored) ==
    {Cut(Picked(s, {k \in DOMAIN s : ~Expired(tags[s[k]])}), MaxPerReq) : s \in stored}

\* The events that may be sent on a store that answers plain queries with stored
\* and returns events with these tags.
HandleReq(fs, tags, stored) ==
    Sent(tags, IF ChannelOf(fs) # Nil THEN queryChannelEvents(fs)
               ELSE IF HasSearch(fs) THEN Found(fs, tags, stored)
               ELSE stored)

-----------------------------------------------------------------------------
Init ==
    /\ rows = {} /\ gone = {} /\ room = {}
    /\ req = Nil /\ answer = << >> /\ memory = << >> /\ count = 0 /\ distinct = 0

\* SaveEvent, and SaveChannelEvent if the event belongs to a channel.
Save(e) ==
    /\ req = Nil /\ e \notin rows
    /\ rows' = rows \cup {e}
    /\ room' = IF Channel[e] # Nil THEN room \cup {e} ELSE room
    /\ UNCHANGED <<gone, req, answer, memory, count, distinct>>

\* DeleteEvent by the author: the channel keeps the event.
Delete(e) ==
    /\ req = Nil /\ e \in Live
    /\ gone' = gone \cup {e}
    /\ UNCHANGED <<rows, room, req, answer, memory, count, distinct>>

\* A REQ, or a COUNT, with these filters.
Ask(fs) ==
    /\ req = Nil
    /\ req' = fs
    /\ answer' \in HandleReq(fs, Read, QueryEvents(fs))
    /\ memory' \in HandleReq(fs, Tags, MemoryQuery(fs))
    /\ count' = CountEvents(fs) /\ distinct' = MemoryCount(fs)
    /\ UNCHANGED <<rows, gone, room>>

Answered ==
    /\ req # Nil
    /\ req' = Nil /\ answer' = << >> /\ memory' = << >> /\ count' = 0 /\ distinct' = 0
    /\ UNCHANGED <<rows, gone, room>>

Next ==
    \/ \E e \in Event : Save(e) \/ Delete(e)
    \/ \E fs \in FilterLists : Ask(fs)
    \/ Answered

Spec == Init /\ [][Next]_vars

-----------------------------------------------------------------------------
(* Properties *)

\* A filter whose lists are absent, or are not empty and name full ids and pubkeys.
Exact(f) ==
    /\ {} \notin {f.ids, f.authors} /\ f.kinds # << >>
    /\ \A e \in Event :
          /\ f.ids # Nil => \A w \in f.ids : matchesPrefix(Id[e], w) => Id[e] = w
          /\ f.authors # Nil => \A w \in f.authors : matchesPrefix(Author[e], w) => Author[e] = w
AllExact == \A i \in DOMAIN req : Exact(req[i])

Regular == req # Nil /\ ChannelOf(req) = Nil /\ ~HasSearch(req)
Limitless == \A i \in DOMAIN req : req[i].limit = Nil

\* The SELECT misses no live event that a subscription with the same filters would
\* be sent, unless the answer is cut; then all that is sent is at least as new.
Complete ==
    Regular /\ AllExact /\ (Limitless \/ Len(req) = 1) =>
        \A e \in Asked(req) :
            \/ e \in ToSet(answer) \/ Expired(Read[e])
            \/ /\ ~Limitless \/ Len(answer) = MaxPerReq
               /\ \A d \in ToSet(answer) : Created[d] >= Created[e]

\* A request is answered newest first, with no event twice and within the limit of the
\* first filter; a channel request is by the order of its kinds, and has the limit of
\* the last filter.
InOrder == req # Nil =>
    \A s \in {answer, memory} :
        /\ ChannelOf(req) = Nil \/ req[1].kinds = Nil =>
              NewestFirst(s) /\ Cardinality(ToSet(s)) = Len(s)
        /\ ChannelOf(req) = Nil /\ req[1].limit # Nil => Len(s) <= req[1].limit

\* For one filter without tags, as long as nothing is deleted, the two stores count the
\* same and their answers differ only in the choice and order of events of the same
\* age.  (An event that has expired is dropped from an answer it has taken a place of
\* the limit in.)  The SQLite store never counts fewer events than there are.
Simple == Regular /\ AllExact /\ Len(req) = 1 /\ DOMAIN req[1].tags = {} /\ gone = {}
NoneExpired == \A e \in rows : ~Expired(Read[e]) /\ ~Expired(Tags[e])
StoresAgree ==
    /\ req # Nil /\ AllExact => count >= distinct
    /\ Simple => count = distinct
    /\ Simple /\ NoneExpired =>
          /\ Len(answer) = Len(memory)
          /\ \A i \in DOMAIN answer : Created[answer[i]] = Created[memory[i]]

\* The limit is applied before the search, so that an event the search fits may be
\* missing from an answer that is not full: but only behind as many rows as the limit,
\* whether the search fits them or not, or in an answer as long as a REQ may have, and
\* never in favour of an older one.
SearchComplete ==
    req # Nil /\ ChannelOf(req) = Nil /\ HasSearch(req) /\ AllExact /\ (Limitless \/ Len(req) = 1) =>
        \A e \in Live : (\E i \in DOMAIN req : SearchMatches(e, Read[e], req[i])) =>
            \/ e \in ToSet(answer) \/ Expired(Read[e])
            \/ Len(answer) = MaxPerReq /\ \A d \in ToSet(answer) : Created[d] >= Created[e]
            \/ /\ ~Limitless
               /\ Cardinality({d \in Select(req[1]) : Created[d] >= Created[e]}) > req[1].limit
               /\ \A d \in ToSet(answer) : Created[d] >= Created[e]

\* A channel request without limit misses no event of the channel that its one
\* filter matches and that is not deleted, though it is asked kind by kind.
RoomComplete ==
    req # Nil /\ ChannelOf(req) # Nil /\ Len(req) = 1 /\ req[1].limit \in {Nil, 0} =>
        \A e \in room \ gone :
            Channel[e] = ChannelOf(req) /\ Matches(e, Tags[e], req[1]) =>
                \/ e \in ToSet(answer) \/ Expired(Read[e]) \/ Len(answer) = MaxPerReq

\* An event comes back from the SQLite store with its tags, if no comma or bracket is
\* in them: quotes and backslashes survive.
TagsSurvive == \A e \in ToSet(answer) : PlainTags(Tags[e]) => Read[e] = Tags[e]

-----------------------------------------------------------------------------
(* What the documentation says *)

\* CHANGELOG.md:639 of NIP-09: "Deleted events are marked as such in storage and are no
\* longer returned by `REQ` queries."  The SELECT of queryFilter does not look at
\* deleted_events, nor do the queries of a channel.
DeletedNotReturned == ToSet(answer) \cap gone = {}
==============================================================================
