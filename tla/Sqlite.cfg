\* Two handlers, two versions of a mute list and a note; statements fail and the
\* process crashes, and retention takes the older version.
SPECIFICATION Spec
CONSTANTS
    alice = alice  bob = bob  mutes = mutes  NoSlot = NoSlot  Nil = Nil
    list1 = list1  list2 = list2  note = note
    Worker = {w1, w2}
    Event = {list1, list2, note}
    PubKey = {alice, bob}
    Author <- MCAuthor
    Created <- MCCreated
    Slot <- MCSlot
    Aged = {list1}
    Faults = TRUE
SYMMETRY Symmetric
INVARIANTS TypeOK OnlyAuthorDeletes RegularKept SlotKept OneRowIfUndisturbed NewestKept
PROPERTY GoneForGood
