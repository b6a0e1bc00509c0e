\* sam has two subscriptions that match the event, an ephemeral one or another, that pat
\* publishes.
SPECIFICATION Spec
CONSTANTS
    sam = sam  pat = pat  old = old  new = new  blip = blip  wrap = wrap
    profile = profile  NoSlot = NoSlot  Nil = Nil
    Client = {sam, pat}
    SubId = {s1, s2}
    Event = {new, blip}
    Filter <- MCFilter
    FilterLists <- OneList
    Answer <- MCAnswer
    Addressed <- NobodyNamed
    Created <- MCCreated
    Slot <- NoSlots
    Ephemeral = {blip}
    DirectMessage = {}
    GiftWrap = {}
    Aged = {}
    Expiring = {}
    MaxSubs = 2
    MaxPerReq = 1
    Silent = {}
    CloseAfterEOSE = FALSE
    Budget <- TwoReqsOneEvent
\* Everybody may have hung up, with nothing left to do.
CHECK_DEADLOCK FALSE
SYMMETRY Symmetric
INVARIANT EverySubscriptionServed
