---------------------------- MODULE MCDelivery ------------------------------
(***************************************************************************)
(* Values of Delivery's constants for TLC: sam subscribes, pat publishes.  *)
(***************************************************************************)
EXTENDS Delivery, TLC

CONSTANTS sam, pat,     \* clients
          old, new,     \* events, old created before new
          wrap,         \* a gift wrap
          blip,         \* an ephemeral event
          profile       \* a slot

MCCreated == [e \in Event |-> IF e = old THEN 1 ELSE 2]
Symmetric == Permutations(SubId)

\* Filters: everything, or only one event
all == Event
just == {new}
OneList == {{all}}
TwoLists == {{all}, {just}}
MCFilter == {all, just}

\* No filter names a recipient; the filter {new} does; both do.
NobodyNamed == [f \in Filter |-> {}]
OnlyJustNames == [f \in Filter |-> IF f = just THEN {new} ELSE {}]

\* The SELECT ignores the tags that distinguish {new}.
MCAnswer == [f \in Filter |-> all]

NoSlots == [e \in Event |-> NoSlot]
OneProfile == [e \in Event |-> IF e \in {old, new} THEN profile ELSE NoSlot]

\* sam sends r REQs, everybody else p EVENTs
Roles(r, p) == [c \in Client |-> IF c = sam THEN [req |-> r, pub |-> 0]
                                 ELSE [req |-> 0, pub |-> p]]
TwoReqsTwoEvents == Roles(2, 2)
TwoReqsOneEvent == Roles(2, 1)
=============================================================================
