\* pat publishes a direct message that expires and that retention removes; one filter
\* of sam names its recipient, the other does not, and two subscriptions may be open at
\* once.  The relay's own steps are fair; sam and pat may stop, or hang up, at any time,
\* and pat may read no more while the connection stays open.
SPECIFICATION FairSpec
CONSTANTS
    sam = sam  pat = pat  old = old  new = new  blip = blip  wrap = wrap
    profile = profile  NoSlot = NoSlot  Nil = Nil
    Client = {sam, pat}
    SubId = {s1, s2}
    Event = {new}
    Filter <- MCFilter
    FilterLists <- TwoLists
    Answer <- MCAnswer
    Addressed <- OnlyJustNames
    Created <- MCCreated
    Slot <- NoSlots
    Ephemeral = {}
    DirectMessage = {new}
    GiftWrap = {}
    Aged = {new}
    Expiring = {new}
    MaxSubs = 2
    MaxPerReq = 1
    Silent = {pat}
    CloseAfterEOSE = FALSE
    Budget <- TwoReqsOneEvent
\* Everybody may have hung up, with nothing left to do.
CHECK_DEADLOCK FALSE
PROPERTIES OnlyInFlightAfterClose EventuallyDelivered
