----------------------------- MODULE MCQueries -----------------------------
(***************************************************************************)
(* Values of Queries' constants for TLC.  Two notes of alice of the same   *)
(* age, the one with tags, the other with a comma in a tag; a note of bob  *)
(* that has expired; a channel and a message in it.                        *)
(***************************************************************************)
EXTENDS Queries

CONSTANTS note, comma, stale, room40, message

a == <<"a">>   b == <<"b">>   x == <<"x">>

MCName == [channel |-> <<"c">>, expiration |-> <<"e">>, nip05 |-> <<"n">>,
           language |-> <<"l">>, warning |-> <<"w">>]
MCId == (note :> <<"a", "a">>) @@ (comma :> <<"a", "b">>) @@ (stale :> <<"b", "a">>)
            @@ (room40 :> <<"b", "b">>) @@ (message :> <<"x", "x">>)
MCAuthor == [e \in Event |-> IF e \in {note, comma} THEN <<"a", "x">> ELSE <<"b", "x">>]
MCKind == [e \in Event |-> IF e = room40 THEN 40 ELSE IF e = message THEN 42 ELSE 1]
MCCreated == [e \in Event |-> IF e \in {note, comma} THEN 2 ELSE IF e = message THEN 3 ELSE 1]
MCContent == [e \in Event |-> IF e = note THEN <<"h", "a">> ELSE <<"h">>]
MCTags ==
    (note :> << <<<<"p">>, <<"x", "\"">>>>, <<<<"l">>, a>> >>)
    @@ (comma :> << <<<<"p">>, <<"x", ",", "b">>>>, <<<<"w">>>> >>)
    @@ (stale :> << <<<<"e">>, <<"0">>>> >>)
    @@ (room40 :> << <<<<"c">>, x>> >>)
    @@ (message :> << <<<<"c">>, x>>, <<<<"p">>, <<"x", "\\">>>> >>)
MCChannel == [e \in Event |-> IF e \in {room40, message} THEN x ELSE Nil]
MCPast == {<<"0">>}

All == [ids |-> Nil, authors |-> Nil, kinds |-> Nil, since |-> Nil, until |-> Nil,
        limit |-> Nil, tags |-> << >>, search |-> Nil]
For(term) == [terms |-> {term}, exclusions |-> {}, extensions |-> {}]
MCFilterLists == {
    <<All>>,
    <<[All EXCEPT !.limit = 1]>>,
    <<[All EXCEPT !.ids = {<<"a", "a">>, <<"b", "a">>}], [All EXCEPT !.kinds = <<1>>]>>,
    <<[All EXCEPT !.ids = {a}]>>,
    <<[All EXCEPT !.kinds = << >>]>>,
    <<[All EXCEPT !.authors = {<<"a", "x">>}, !.until = 2]>>,
    <<[All EXCEPT !.kinds = <<1>>, !.tags = <<"p">> :> <<x>>, !.limit = 1]>>,
    <<[All EXCEPT !.limit = 2], [All EXCEPT !.since = 2]>>,
    <<[All EXCEPT !.search = For(a)]>>,
    <<[All EXCEPT !.search = For(a), !.limit = 1]>>,
    <<[All EXCEPT !.search = [For(<<"h", "a">>) EXCEPT !.exclusions = {b}], !.authors = {<<"a", "x">>}],
      [All EXCEPT !.kinds = <<40>>]>>,
    <<[All EXCEPT !.search = [For(<<"h">>) EXCEPT
          !.extensions = {[key |-> "nsfw", value |-> TRUE], [key |-> "mood", value |-> a]}]]>>,
    <<[All EXCEPT !.search = [For(<<"h">>) EXCEPT
          !.extensions = {[key |-> "language", value |-> a]}]]>>,
    <<[All EXCEPT !.search = [For(<<"h">>) EXCEPT
          !.extensions = {[key |-> "domain", value |-> a]}]]>>,
    <<[All EXCEPT !.tags = MCName.channel :> <<x>>, !.since = 1]>>,
    <<[All EXCEPT !.tags = MCName.channel :> <<x>>, !.kinds = <<40, 42>>, !.limit = 0]>>,
    <<[All EXCEPT !.tags = MCName.channel :> <<x>>, !.limit = 1], [All EXCEPT !.until = 1]>>
    }
=============================================================================
