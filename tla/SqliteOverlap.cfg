\* Two handlers save two versions of a mute list at the same time.
SPECIFICATION Spec
CONSTANTS
    alice = alice  bob = bob  mutes = mutes  NoSlot = NoSlot  Nil = Nil
    list1 = list1  list2 = list2  note = note
    Worker = {w1, w2}
    Event = {list1, list2}
    PubKey = {alice}
    Author <- MCAuthor
    Created <- MCCreated
    Slot <- MCSlot
    Aged = {}
    Faults = FALSE
SYMMETRY Symmetric
INVARIANT OneRowPerSlot
