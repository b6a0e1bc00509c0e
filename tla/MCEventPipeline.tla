--------------------------- MODULE MCEventPipeline ---------------------------
(***************************************************************************)
(* Values of EventPipeline's constants for TLC: one event for each path    *)
(* through HandleEvent.  alice has a room, a version and a newer version   *)
(* of her profile, a deletion that names the older one and bob's message   *)
(* in the room, and a vanish request; bob has the message, a deletion that *)
(* names alice's room, and a vanish request for another relay.             *)
(***************************************************************************)
EXTENDS EventPipeline, TLC

CONSTANTS
    alice, bob, lobby, profile,
    room, message, old, new, wrap, blip, retract, meddle, vanish, elsewhere,
    login, badLogin, forged, nsfw, broken, stale,
    alpha, beta

MCAuthor == [e \in Event |-> IF e \in {message, meddle, wrap, elsewhere} THEN bob ELSE alice]
MCCreated == [e \in Event |-> IF e = new THEN 2 ELSE 1]
MCSlot == [e \in Event |-> IF e \in {old, new} THEN profile ELSE NoSlot]
MCChannel == [e \in Event |-> IF e \in {room, message} THEN lobby ELSE NoChannel]
MCKind == [e \in Event |->
    CASE e \in {login, badLogin} -> "auth"
      [] e = blip -> "ephemeral"
      [] e \in {retract, meddle} -> "deletion"
      [] e \in {vanish, elsewhere} -> "vanish"
      [] e = wrap -> "wrap"
      [] e = room -> "room"
      [] e = message -> "channel"
      [] OTHER -> "note"]
Symmetric == Permutations(Conn)
MCTargets == [e \in Event |->
    IF e = retract THEN <<old, message>> ELSE IF e = meddle THEN <<room>> ELSE <<>>]
==============================================================================
