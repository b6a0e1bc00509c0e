\* Calls in any order, a version of a profile saved again included; retention takes
\* the oldest version.
SPECIFICATION Spec
CONSTANTS
    alice = alice  bob = bob  profile = profile  room = room
    NoSlot = NoSlot  NoChannel = NoChannel
    first = first  second = second  third = third
    note = note  message = message  hide = hide
    Event = {first, second, third, note, message, hide}
    PubKey = {alice, bob}
    Author <- MCAuthor
    Created <- MCCreated
    Slot <- MCSlot
    Channel <- MCChannel
    Aged = {first}
SYMMETRY Symmetric
INVARIANTS TypeOK NewestLive
PROPERTY KeepsPromise
