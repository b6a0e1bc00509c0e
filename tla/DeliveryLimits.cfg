\* A subscription limit and a cap of one, and subscriptions that close after EOSE: sam
\* replaces or adds one while pat publishes two events, of two versions of a profile and
\* a gift wrap.
SPECIFICATION Spec
CONSTANTS
    sam = sam  pat = pat  old = old  new = new  blip = blip  wrap = wrap
    profile = profile  NoSlot = NoSlot  Nil = Nil
    Client = {sam, pat}
    SubId = {s1, s2}
    Event = {old, new, wrap}
    Filter <- MCFilter
    FilterLists <- OneList
    Answer <- MCAnswer
    Addressed <- NobodyNamed
    Created <- MCCreated
    Slot <- OneProfile
    Ephemeral = {}
    DirectMessage = {}
    GiftWrap = {wrap}
    Aged = {}
    Expiring = {}
    MaxSubs = 1
    MaxPerReq = 1
    Silent = {}
    CloseAfterEOSE = TRUE
    Budget <- TwoReqsTwoEvents
\* Everybody may have hung up, with nothing left to do.
CHECK_DEADLOCK FALSE
SYMMETRY Symmetric
INVARIANTS TypeOK EoseComplete SubLimit SaveBeforeTell NoGap
