------------------------------ MODULE TagCodec ------------------------------
(***************************************************************************)
(* How the SQLite store keeps the tags of an event (sqlite.go): a column   *)
(* with a JSON array that SaveEvent and tagsToJSON write and parseTagsJSON *)
(* reads.  A string is a sequence of characters; blanks, which the parser  *)
(* trims and the writer never adds, are left out.                          *)
(***************************************************************************)
EXTENDS Integers, SequencesExt

IsSequence(s) == s \in Seq(ToSet(s))
IsTags(tags) ==
    /\ IsSequence(tags)
    /\ \A i \in DOMAIN tags :
          IsSequence(tags[i]) /\ \A j \in DOMAIN tags[i] : IsSequence(tags[i][j])

\* What a loop that tests every entry of s keeps: the entries at these positions, in order.
Picked(s, positions) ==
    [n \in 1..Cardinality(positions) |->
        s[CHOOSE i \in positions : Cardinality({j \in positions : j <= i}) = n]]

\* The characters with a meaning, with "[" and "]".
Comma == ","
Quote == "\""
Backslash == "\\"

\* The strings, each followed by a comma but the last.
Joined(strings) == FlattenSeq(
    [i \in DOMAIN strings |-> IF i = 1 THEN strings[i] ELSE <<Comma>> \o strings[i]])

Escape(part) == FlattenSeq(
    [i \in DOMAIN part |-> IF part[i] = Quote THEN <<Backslash, Quote>> ELSE <<part[i]>>])
Quoted(part) == <<Quote>> \o Escape(part) \o <<Quote>>
Bracketed(string) == <<"[">> \o string \o <<"]">>

tagsToJSON(tags) == Bracketed(Joined(
    [i \in DOMAIN tags |-> Bracketed(Joined([j \in DOMAIN tags[i] |-> Quoted(tags[i][j])]))]))

-----------------------------------------------------------------------------
IsBracketed(string) == Len(string) >= 2 /\ Head(string) = "[" /\ Last(string) = "]"
Inner(string) == SubSeq(string, 2, Len(string) - 1)

\* The pieces of the string between the positions.
Split(string, positions) ==
    LET ends == positions \cup {0, Len(string) + 1}
        end(n) == CHOOSE p \in ends : Cardinality({q \in ends : q < p}) = n
    IN  [i \in 1..Cardinality(positions) + 1 |-> SubSeq(string, end(i - 1) + 1, end(i) - 1)]

\* How deep in brackets a position is; brackets in a quoted part count as well.
Depth(string, i) ==
    Cardinality({j \in 1..i : string[j] = "["}) - Cardinality({j \in 1..i : string[j] = "]"})
Commas(string) == {i \in DOMAIN string : string[i] = Comma}

\* \" becomes ".  Mutant: the backslash stays.
KeepEscapes(part) == part
Unescape(part) == Picked(part, {i \in DOMAIN part :
    ~(part[i] = Backslash /\ i < Len(part) /\ part[i + 1] = Quote)})

Unquote(part) ==
    IF Len(part) >= 2 /\ Head(part) = Quote /\ Last(part) = Quote THEN Unescape(Inner(part)) ELSE part

\* Split by every comma, one that is in a part included.
parseTagString(string) ==
    IF ~IsBracketed(string) \/ Inner(string) = << >> THEN << >>
    ELSE LET parts == Split(Inner(string), Commas(Inner(string)))
         IN  [i \in DOMAIN parts |-> Unquote(parts[i])]

\* Split by the commas outside brackets.
parseTagsJSON(string) ==
    IF ~IsBracketed(string) THEN << >>
    ELSE LET inner == Inner(string)
             tags == Split(inner, {i \in Commas(inner) : Depth(inner, i) = 0})
             kept == Picked(tags, {i \in DOMAIN tags : tags[i] # << >>})
         IN  [i \in DOMAIN kept |-> parseTagString(kept[i])]

\* Strings the parser does not take apart.
Plain(part) == \A i \in DOMAIN part : part[i] \notin {Comma, "[", "]"}
PlainTags(tags) == \A i \in DOMAIN tags : \A j \in DOMAIN tags[i] : Plain(tags[i][j])
=============================================================================
