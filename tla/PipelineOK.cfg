\* One connection, no authentication, one event of each of a few kinds: the answers to
\* an event the NIP-36 policy rejects.
SPECIFICATION Spec
CONSTANTS
    alpha = alpha  beta = beta
    alice = alice  bob = bob  lobby = lobby  profile = profile
    NoSlot = NoSlot  NoChannel = NoChannel  Nil = Nil
    room = room  message = message  old = old  new = new  wrap = wrap  blip = blip
    retract = retract  meddle = meddle  vanish = vanish  elsewhere = elsewhere
    login = login  badLogin = badLogin  forged = forged  nsfw = nsfw
    broken = broken  stale = stale
    Conn = {alpha}
    Event = {room, message, old, retract, forged, nsfw, broken}
    PubKey = {alice, bob}
    Author <- MCAuthor
    Created <- MCCreated
    Slot <- MCSlot
    Channel <- MCChannel
    Aged = {}
    Kind <- MCKind
    Targets <- MCTargets
    Invalid = {forged}
    Unwelcome = {nsfw}
    Malformed = {broken}
    Expired = {}
    Here = {}
    RequireAuth = FALSE
    Budget = 2
INVARIANT AnswersAgree
CHECK_DEADLOCK FALSE
