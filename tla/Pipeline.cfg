\* Two connections publish two events each, after NIP-42 authentication; every call
\* of the store may fail.  What has expired is refused, unless it is ephemeral.
SPECIFICATION Spec
CONSTANTS
    alpha = alpha  beta = beta
    alice = alice  bob = bob  lobby = lobby  profile = profile
    NoSlot = NoSlot  NoChannel = NoChannel  Nil = Nil
    room = room  message = message  old = old  new = new  wrap = wrap  blip = blip
    retract = retract  meddle = meddle  vanish = vanish  elsewhere = elsewhere
    login = login  badLogin = badLogin  forged = forged  nsfw = nsfw
    broken = broken  stale = stale
    Conn = {alpha, beta}
    Event = {room, message, old, new, wrap, blip, retract, meddle, vanish, elsewhere,
             login, badLogin, forged, nsfw, stale}
    PubKey = {alice, bob}
    Author <- MCAuthor
    Created <- MCCreated
    Slot <- MCSlot
    Channel <- MCChannel
    Aged = {wrap}
    Kind <- MCKind
    Targets <- MCTargets
    Invalid = {forged}
    Unwelcome = {nsfw}
    Malformed = {badLogin}
    Expired = {stale, blip}
    Here = {vanish}
    RequireAuth = TRUE
    Budget = 2
SYMMETRY Symmetric
INVARIANTS TypeOK KeptOrExplained VanishHonest NoSilentSave ChannelComplete OnlyPolicyContradicts
