---------------------------- MODULE RateLimiter -----------------------------
(***************************************************************************)
(* The per-IP token bucket and the bans of pkg/relay/relay.go.  checkRate  *)
(* and IsIPBanned run under ipLimiterMu, so each call is one step; calls   *)
(* of all connections of an IP share the IP's limiter.                     *)
(*                                                                         *)
(* A tick of the clock is the time in which the bucket gains one unit, and *)
(* a message costs Cost units: with Cost = k a tick is 1/(10k) of a        *)
(* second.  Tokens are a float64 in the code; here they are units.         *)
(***************************************************************************)
EXTENDS Naturals

CONSTANTS
    IP,           \* client addresses
    Cost,         \* units one message takes from the bucket
    Burst,        \* reqBurstLimit, in units
    BanLimit,     \* banViolationLimit
    BanDuration,  \* banDuration, in ticks
    MaxTime,      \* bound: ticks of the clock
    Never         \* the zero time.Time

ASSUME RateLimiterAssumption ==
    /\ Cost \in Nat \ {0} /\ Burst \in Nat
    /\ BanLimit \in Nat \ {0} /\ BanDuration \in Nat
    /\ MaxTime \in Nat /\ Never \notin Nat

VARIABLES
    now,               \* time.Now()
    known,             \* addresses with a limiter: the keys of ipLimiters
    tokens, lastRefill, violations, bannedAt,  \* the fields of ipRateLimiter
    rateLimitedCount,  \* metrics.rateLimitedCount
    \* history variables
    spent,             \* units taken by admitted messages of each address
    markAt, markSpent, \* start of an observed window, and spent then
    fullAt, fullSpent  \* when the bucket was last full, and spent then

limiter == <<known, tokens, lastRefill, violations, bannedAt, rateLimitedCount>>
mark == <<markAt, markSpent>>
full == <<fullAt, fullSpent>>
vars == <<now, limiter, spent, mark, full>>

TypeOK ==
    /\ now \in Nat /\ known \subseteq IP
    /\ tokens \in [IP -> Nat] /\ lastRefill \in [IP -> Nat]
    /\ violations \in [IP -> Nat] /\ bannedAt \in [IP -> {Never} \cup Nat]
    /\ rateLimitedCount \in Nat
    /\ spent \in [IP -> Nat]
    /\ markAt \in [IP -> Nat] /\ markSpent \in [IP -> Nat]
    /\ fullAt \in [IP -> Nat] /\ fullSpent \in [IP -> Nat]

Init ==
    /\ now = 0 /\ known = {}
    /\ tokens = [i \in IP |-> 0] /\ lastRefill = [i \in IP |-> 0]
    /\ violations = [i \in IP |-> 0] /\ bannedAt = [i \in IP |-> Never]
    /\ rateLimitedCount = 0
    /\ spent = [i \in IP |-> 0]
    /\ markAt = [i \in IP |-> 0] /\ markSpent = [i \in IP |-> 0]
    /\ fullAt = [i \in IP |-> 0] /\ fullSpent = [i \in IP |-> 0]

\* isIPBanned, apart from the reset of a ban that has lapsed.
Banned(i) == bannedAt[i] # Never /\ now - bannedAt[i] <= BanDuration
Lapsed(i) == bannedAt[i] # Never /\ ~Banned(i)

\* violations once isIPBanned has run.  Mutant: no reset.
CarriedStale(i) == violations[i]
Carried(i) == IF Lapsed(i) THEN 0 ELSE violations[i]

\* The bucket after the refill; a new limiter starts with a full one.
\* Mutants: no cap, and a refill in whole messages that forgets the rest.
Uncapped(n) == n
Capped(n) == IF n > Burst THEN Burst ELSE n
RefilledWhole(i) ==
    IF i \in known THEN Capped(tokens[i] + Cost * ((now - lastRefill[i]) \div Cost)) ELSE Burst
Refilled(i) == IF i \in known THEN Capped(tokens[i] + (now - lastRefill[i])) ELSE Burst

\* rl.tokens >= 1.  Mutant: anything left is enough.
AffordsLess(i) == Refilled(i) > 0
Affords(i) == Refilled(i) >= Cost

\* History: a refill that reaches the cap starts a new count.
NoteFull(i) ==
    /\ fullAt' = [fullAt EXCEPT ![i] = IF Refilled(i) = Burst THEN now ELSE @]
    /\ fullSpent' = [fullSpent EXCEPT ![i] = IF Refilled(i) = Burst THEN spent[i] ELSE @]

\* checkRate: the message is served.
Admit(i) ==
    /\ ~Banned(i) /\ Affords(i)
    /\ known' = known \cup {i}
    /\ tokens' = [tokens EXCEPT ![i] = Refilled(i) - Cost]
    /\ lastRefill' = [lastRefill EXCEPT ![i] = now]
    /\ violations' = [violations EXCEPT ![i] = Carried(i)]
    /\ bannedAt' = [bannedAt EXCEPT ![i] = Never]
    /\ spent' = [spent EXCEPT ![i] = @ + Cost]
    /\ NoteFull(i)
    /\ UNCHANGED <<now, rateLimitedCount, mark>>

\* The message counts as a violation, and bans the address if it is one too many.
Violation(i) ==
    /\ known' = known \cup {i}
    /\ tokens' = [tokens EXCEPT ![i] = Refilled(i)]
    /\ lastRefill' = [lastRefill EXCEPT ![i] = now]
    /\ violations' = [violations EXCEPT ![i] = Carried(i) + 1]
    /\ bannedAt' = [bannedAt EXCEPT ![i] = IF Carried(i) + 1 >= BanLimit THEN now ELSE Never]
    /\ rateLimitedCount' = rateLimitedCount + 1
    /\ NoteFull(i)
    /\ UNCHANGED <<now, spent, mark>>

\* checkRate: "rate-limited", or "banned".  Mutant: the bucket is looked at
\* before the ban.
RejectBanned(i) == ~Affords(i) /\ Violation(i)
Reject(i) == ~Banned(i) /\ ~Affords(i) /\ Violation(i)

\* While an address is banned both callers turn it away and change nothing.

\* IsIPBanned in ServeHTTP lets the connection in; a ban that has lapsed is
\* reset on the way.
LetIn(i) ==
    /\ ~Banned(i)
    /\ violations' = [violations EXCEPT ![i] = Carried(i)]
    /\ bannedAt' = [bannedAt EXCEPT ![i] = Never]
    /\ UNCHANGED <<now, known, tokens, lastRefill, rateLimitedCount, spent, mark, full>>

Tick ==
    /\ now < MaxTime
    /\ now' = now + 1
    /\ UNCHANGED <<limiter, spent, mark, full>>

\* History: an observer starts a window here.
Mark(i) ==
    /\ markAt' = [markAt EXCEPT ![i] = now]
    /\ markSpent' = [markSpent EXCEPT ![i] = spent[i]]
    /\ UNCHANGED <<now, limiter, spent, full>>

Next ==
    \/ \E i \in IP : Admit(i) \/ Reject(i) \/ LetIn(i) \/ Mark(i)
    \/ Tick

Spec == Init /\ [][Next]_vars
-----------------------------------------------------------------------------
\* In every window of time, of any length and wherever it starts, an address
\* is served at most a burst and what the rate allows, however many
\* connections it has (CHANGELOG.md:47, 10 messages a second, burst of 20).
WindowBound ==
    \A i \in IP : spent[i] + markAt[i] <= markSpent[i] + Burst + now

\* A message is only rejected when the address has really asked for more than
\* the rate since its bucket was last full: no refill is ever lost between
\* calls.
RejectedOnlyOverRate ==
    [][\A i \in IP : Reject(i) =>
          spent[i] + Cost + fullAt'[i] > fullSpent'[i] + Burst + now]_vars

\* Between bans the count of violations is below the limit: a lapsed ban does
\* not leave an address one violation, or none, away from the next.
CleanSlate == \A i \in IP : bannedAt[i] = Never => violations[i] < BanLimit

\* A ban lasts BanDuration, neither shortened nor prolonged by messages sent or
\* connections made while it lasts (serving a message would end it); it takes
\* BanLimit fresh violations to be banned again.
BanNotProlonged ==
    [][\A i \in IP : bannedAt[i] # Never /\ bannedAt'[i] # bannedAt[i] =>
          now > bannedAt[i] + BanDuration /\ (bannedAt'[i] = Never \/ BanLimit = 1)]_vars
=============================================================================
