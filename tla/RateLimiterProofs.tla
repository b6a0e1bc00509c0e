------------------------- MODULE RateLimiterProofs --------------------------
(***************************************************************************)
(* Theorems about RateLimiter, for every rate, burst and ban length.       *)
(***************************************************************************)
EXTENDS RateLimiter, TLAPS

\* The type invariant, with the order of the times the limiter keeps.
TimesOK ==
    \A i \in IP :
        /\ lastRefill[i] <= now /\ markAt[i] <= now /\ fullAt[i] <= now
        /\ tokens[i] <= Burst
        /\ bannedAt[i] # Never => bannedAt[i] <= now

LEMMA RefilledBound ==
    ASSUME TypeOK, TimesOK, NEW i \in IP
    PROVE  Refilled(i) \in Nat /\ Refilled(i) <= Burst
<1> QED BY RateLimiterAssumption DEF TypeOK, TimesOK, Refilled, Capped

LEMMA TypeInductive == TypeOK /\ TimesOK /\ [Next]_vars => TypeOK' /\ TimesOK'
<1> SUFFICES ASSUME TypeOK, TimesOK, [Next]_vars PROVE TypeOK' /\ TimesOK'
  OBVIOUS
<1> USE RateLimiterAssumption DEF limiter, mark, full
<1>1. ASSUME NEW i \in IP, Admit(i) PROVE TypeOK' /\ TimesOK'
  <2>1. Refilled(i) - Cost \in Nat /\ Refilled(i) - Cost <= Burst
    BY <1>1, RefilledBound DEF Admit, Affords
  <2>2. Carried(i) \in Nat
    BY DEF Carried, TypeOK
  <2> QED BY <1>1, <2>1, <2>2 DEF Admit, NoteFull, TypeOK, TimesOK
<1>2. ASSUME NEW i \in IP, Reject(i) PROVE TypeOK' /\ TimesOK'
  <2>1. Refilled(i) \in Nat /\ Refilled(i) <= Burst
    BY RefilledBound
  <2>2. Carried(i) + 1 \in Nat
    BY DEF Carried, TypeOK
  <2> QED BY <1>2, <2>1, <2>2 DEF Reject, Violation, NoteFull, TypeOK, TimesOK
<1>3. ASSUME NEW i \in IP, LetIn(i) PROVE TypeOK' /\ TimesOK'
  BY <1>3 DEF LetIn, Carried, TypeOK, TimesOK
<1>4. ASSUME NEW i \in IP, Mark(i) PROVE TypeOK' /\ TimesOK'
  BY <1>4 DEF Mark, TypeOK, TimesOK
<1>5. CASE Tick
  BY <1>5 DEF Tick, TypeOK, TimesOK
<1>6. CASE UNCHANGED vars
  BY <1>6 DEF vars, TypeOK, TimesOK
<1> QED BY <1>1, <1>2, <1>3, <1>4, <1>5, <1>6 DEF Next

THEOREM TypeCorrect == Spec => [](TypeOK /\ TimesOK)
<1>1. Init => TypeOK /\ TimesOK
  BY RateLimiterAssumption DEF Init, TypeOK, TimesOK
<1> QED BY <1>1, TypeInductive, PTL DEF Spec
-----------------------------------------------------------------------------
\* The inductive form of WindowBound: what the bucket would hold now counts as
\* if it had been spent.  A message moves units from the bucket to spent, a
\* tick adds at most one to each side.
Potential(i) == spent[i] + Refilled(i) + markAt[i] <= markSpent[i] + Burst + now

WindowInv ==
    \A i \in IP : Potential(i)
        /\ (i \notin known => spent[i] = 0 /\ markSpent[i] = 0)

LEMMA WindowInductive ==
    TypeOK /\ TimesOK /\ TypeOK' /\ TimesOK' /\ WindowInv /\ [Next]_vars => WindowInv'
<1> SUFFICES ASSUME TypeOK, TimesOK, TypeOK', TimesOK', WindowInv, [Next]_vars, NEW j \in IP
             PROVE  Potential(j)' /\ (j \notin known => spent[j] = 0 /\ markSpent[j] = 0)'
  BY DEF WindowInv
<1> DEFINE Goal == Potential(j)' /\ (j \notin known => spent[j] = 0 /\ markSpent[j] = 0)'
<1>0. Potential(j) /\ (j \notin known => spent[j] = 0 /\ markSpent[j] = 0)
  BY DEF WindowInv
<1> USE RateLimiterAssumption DEF limiter, mark, full
<1>1. ASSUME NEW i \in IP, Admit(i) \/ Reject(i) PROVE Goal
  <2>1. CASE i = j
    <3>1. j \in known' /\ lastRefill'[j] = now /\ now' = now
          /\ spent'[j] + tokens'[j] = spent[j] + Refilled(j)
          /\ UNCHANGED <<markAt, markSpent>>
      BY <1>1, <2>1, RefilledBound DEF Admit, Reject, Violation, TypeOK
    <3>2. Refilled(j)' = tokens'[j]
      BY <3>1 DEF Refilled, Capped, TypeOK, TimesOK
    <3> QED BY <1>0, <3>1, <3>2, RefilledBound DEF Potential, TypeOK
  <2>2. CASE i # j
    <3>1. UNCHANGED <<now, spent[j], tokens[j], lastRefill[j], markAt, markSpent>>
          /\ (j \in known' <=> j \in known)
      BY <1>1, <2>2 DEF Admit, Reject, Violation, TypeOK
    <3> QED BY <1>0, <3>1 DEF Potential, Refilled
  <2> QED BY <2>1, <2>2
<1>2. ASSUME NEW i \in IP, LetIn(i) PROVE Goal
  BY <1>2, <1>0 DEF LetIn, Potential, Refilled
<1>3. ASSUME NEW i \in IP, Mark(i) PROVE Goal
  <2>1. Refilled(j)' = Refilled(j) /\ Refilled(j) \in Nat /\ Refilled(j) <= Burst
    BY <1>3, RefilledBound DEF Mark, Refilled
  <2> QED BY <1>3, <1>0, <2>1 DEF Mark, Potential, TypeOK
<1>4. CASE Tick
  <2>1. Refilled(j) \in Nat /\ UNCHANGED <<known, tokens, lastRefill>> /\ now' = now + 1
    BY <1>4, RefilledBound DEF Tick
  <2>2. CASE j \in known
    <3> DEFINE held == tokens[j] + (now - lastRefill[j])
    <3>1. held \in Nat /\ tokens'[j] + (now' - lastRefill'[j]) = held + 1
      BY <2>1 DEF TypeOK, TimesOK
    <3>2. /\ Refilled(j) = IF held > Burst THEN Burst ELSE held
          /\ Refilled(j)' = IF held + 1 > Burst THEN Burst ELSE held + 1
      BY <2>1, <2>2, <3>1 DEF Refilled, Capped
    <3> HIDE DEF held
    <3>3. Refilled(j)' \in Nat /\ Refilled(j)' <= Refilled(j) + 1
      BY <3>1, <3>2
    <3>4. UNCHANGED <<spent, markAt, markSpent>>
      BY <1>4 DEF Tick
    <3> QED BY <1>0, <2>1, <2>2, <3>3, <3>4 DEF Potential, TypeOK
  <2>3. CASE j \notin known
    BY <1>4, <1>0, <2>1, <2>3 DEF Tick, Potential, Refilled, TypeOK
  <2> QED BY <2>2, <2>3
<1>5. CASE UNCHANGED vars
  BY <1>5, <1>0 DEF vars, Potential, Refilled
<1> QED BY <1>1, <1>2, <1>3, <1>4, <1>5 DEF Next

\* The rate limit: no window of time serves an address more than a burst and
\* what the rate allows.
THEOREM WindowCorrect == Spec => []WindowBound
<1>1. Init => WindowInv
  <2> SUFFICES ASSUME Init, NEW i \in IP
               PROVE  Potential(i) /\ spent[i] = 0 /\ markSpent[i] = 0
    BY DEF WindowInv
  <2>1. spent[i] = 0 /\ markSpent[i] = 0 /\ markAt[i] = 0 /\ now = 0 /\ Refilled(i) = Burst
    BY DEF Init, Refilled
  <2> QED BY <2>1, RateLimiterAssumption DEF Potential
<1>2. TypeOK /\ TimesOK /\ WindowInv => WindowBound
  <2> SUFFICES ASSUME TypeOK, TimesOK, WindowInv, NEW i \in IP
               PROVE  spent[i] + markAt[i] <= markSpent[i] + Burst + now
    BY DEF WindowBound
  <2>1. Potential(i) /\ Refilled(i) \in Nat
    BY RefilledBound DEF WindowInv
  <2> QED BY <2>1, RateLimiterAssumption DEF Potential, TypeOK
<1>3. TypeOK /\ TimesOK /\ WindowInv /\ [Next]_vars => WindowInv'
  BY TypeInductive, WindowInductive
<1> QED BY <1>1, <1>2, <1>3, TypeCorrect, PTL DEF Spec
-----------------------------------------------------------------------------
LEMMA CleanSlateInductive ==
    TypeOK /\ TimesOK /\ CleanSlate /\ [Next]_vars => CleanSlate'
<1> SUFFICES ASSUME TypeOK, TimesOK, CleanSlate, [Next]_vars, NEW j \in IP, bannedAt'[j] = Never
             PROVE  violations'[j] < BanLimit
  BY DEF CleanSlate
<1> USE RateLimiterAssumption DEF limiter, CleanSlate, TypeOK
<1>1. \A i \in IP : ~Banned(i) => Carried(i) < BanLimit
  BY DEF Carried, Lapsed, Banned
<1>2. ASSUME NEW i \in IP, Admit(i) \/ LetIn(i) PROVE violations'[j] < BanLimit
  BY <1>1, <1>2 DEF Admit, LetIn
<1>3. ASSUME NEW i \in IP, Reject(i) PROVE violations'[j] < BanLimit
  <2>1. Carried(i) \in Nat
    BY DEF Carried
  <2> QED BY <1>3, <2>1 DEF Reject, Violation, TimesOK
<1>4. ASSUME (\E i \in IP : Mark(i)) \/ Tick \/ UNCHANGED vars PROVE violations'[j] < BanLimit
  BY <1>4 DEF Mark, Tick, vars
<1> QED BY <1>2, <1>3, <1>4 DEF Next

\* A ban that has ended leaves a clean slate.
THEOREM CleanSlateCorrect == Spec => []CleanSlate
<1>1. Init => CleanSlate
  BY RateLimiterAssumption DEF Init, CleanSlate
<1> QED BY <1>1, CleanSlateInductive, TypeCorrect, PTL DEF Spec

\* A ban ends when its time has passed, and by then the violations count afresh.
THEOREM BanNotProlongedCorrect == Spec => BanNotProlonged
<1>1. TypeOK /\ TimesOK /\ [Next]_vars
        => [\A i \in IP : bannedAt[i] # Never /\ bannedAt'[i] # bannedAt[i] =>
               now > bannedAt[i] + BanDuration /\ (bannedAt'[i] = Never \/ BanLimit = 1)]_vars
  <2> SUFFICES ASSUME TypeOK, TimesOK, Next, NEW j \in IP,
                      bannedAt[j] # Never, bannedAt'[j] # bannedAt[j]
               PROVE  /\ now > bannedAt[j] + BanDuration
                      /\ bannedAt'[j] = Never \/ BanLimit = 1
    OBVIOUS
  <2> USE RateLimiterAssumption DEF TypeOK, TimesOK
  <2>1. Admit(j) \/ Reject(j) \/ LetIn(j)
    BY DEF Next, Admit, Reject, Violation, LetIn, Mark, Tick, limiter
  <2>2. ~Banned(j) /\ Lapsed(j)
    BY <2>1 DEF Admit, Reject, LetIn, Lapsed
  <2>3. now > bannedAt[j] + BanDuration
    BY <2>2 DEF Banned
  <2>4. Carried(j) = 0
    BY <2>2 DEF Carried
  <2>5. bannedAt'[j] = Never \/ BanLimit = 1
    BY <2>1, <2>4 DEF Admit, Reject, Violation, LetIn
  <2> QED BY <2>3, <2>5
<1> QED BY <1>1, TypeCorrect, PTL DEF Spec, BanNotProlonged
-----------------------------------------------------------------------------
\* No refill is lost: as long as the bucket has not been full again, what it holds and
\* what has been taken from it since it was full make up a burst and the refill.
Balance(i) == i \in known => tokens[i] + spent[i] + fullAt[i] = Burst + fullSpent[i] + lastRefill[i]
BalanceInv == \A i \in IP : Balance(i)

LEMMA BalanceInductive == TypeOK /\ TimesOK /\ BalanceInv /\ [Next]_vars => BalanceInv'
<1> SUFFICES ASSUME TypeOK, TimesOK, BalanceInv, [Next]_vars, NEW j \in IP PROVE Balance(j)'
  BY DEF BalanceInv
<1>0. Balance(j)
  BY DEF BalanceInv
<1> USE RateLimiterAssumption DEF limiter, mark, full
<1>1. ASSUME NEW i \in IP, Admit(i) \/ Reject(i) PROVE Balance(j)'
  <2>1. CASE i = j
    <3>1. /\ tokens'[j] + spent'[j] = Refilled(j) + spent[j] /\ lastRefill'[j] = now
          /\ tokens'[j] \in Nat /\ spent'[j] \in Nat
      BY <1>1, <2>1, RefilledBound DEF Admit, Affords, Reject, Violation, TypeOK
    <3>2. /\ fullAt'[j] = IF Refilled(j) = Burst THEN now ELSE fullAt[j]
          /\ fullSpent'[j] = IF Refilled(j) = Burst THEN spent[j] ELSE fullSpent[j]
      BY <1>1, <2>1 DEF Admit, Reject, Violation, NoteFull, TypeOK
    <3>3. CASE Refilled(j) = Burst
      BY <3>1, <3>2, <3>3 DEF Balance, TypeOK
    <3>4. CASE Refilled(j) # Burst
      <4>1. j \in known /\ Refilled(j) = tokens[j] + (now - lastRefill[j])
        BY <3>4 DEF Refilled, Capped
      <4> QED BY <1>0, <3>1, <3>2, <3>4, <4>1 DEF Balance, TypeOK
    <3> QED BY <3>3, <3>4
  <2>2. CASE i # j
    <3>1. UNCHANGED <<tokens[j], spent[j], fullAt[j], fullSpent[j], lastRefill[j]>>
          /\ (j \in known' <=> j \in known)
      BY <1>1, <2>2 DEF Admit, Reject, Violation, NoteFull, TypeOK
    <3> QED BY <1>0, <3>1 DEF Balance
  <2> QED BY <2>1, <2>2
<1>2. ASSUME (\E i \in IP : LetIn(i) \/ Mark(i)) \/ Tick \/ UNCHANGED vars PROVE Balance(j)'
  BY <1>0, <1>2 DEF LetIn, Mark, Tick, vars, Balance
<1> QED BY <1>1, <1>2 DEF Next

\* A message is rejected only if the address has asked for more than the rate since its
\* bucket was last full.
THEOREM RejectedOnlyOverRateCorrect == Spec => RejectedOnlyOverRate
<1>1. Init => BalanceInv
  BY DEF Init, BalanceInv, Balance
<1>2. TypeOK /\ TimesOK /\ BalanceInv /\ [Next]_vars
        => [\A i \in IP : Reject(i) =>
               spent[i] + Cost + fullAt'[i] > fullSpent'[i] + Burst + now]_vars
  <2> SUFFICES ASSUME TypeOK, TimesOK, BalanceInv, NEW i \in IP, Reject(i)
               PROVE  spent[i] + Cost + fullAt'[i] > fullSpent'[i] + Burst + now
    OBVIOUS
  <2> USE RateLimiterAssumption
  <2>1. Refilled(i) \in Nat /\ Refilled(i) < Cost
    BY RefilledBound DEF Reject, Affords
  <2>2. /\ fullAt'[i] = IF Refilled(i) = Burst THEN now ELSE fullAt[i]
        /\ fullSpent'[i] = IF Refilled(i) = Burst THEN spent[i] ELSE fullSpent[i]
    BY DEF Reject, Violation, NoteFull, TypeOK
  <2>3. CASE Refilled(i) = Burst
    BY <2>1, <2>2, <2>3 DEF TypeOK
  <2>4. CASE Refilled(i) # Burst
    <3>1. i \in known /\ Refilled(i) = tokens[i] + (now - lastRefill[i])
      BY <2>4 DEF Refilled, Capped
    <3>2. Balance(i)
      BY DEF BalanceInv
    <3> QED BY <2>1, <2>2, <2>4, <3>1, <3>2 DEF Balance, TypeOK
  <2> QED BY <2>3, <2>4
<1> QED BY <1>1, <1>2, TypeCorrect, BalanceInductive, PTL DEF Spec, RejectedOnlyOverRate
=============================================================================
