-------------------------- MODULE FallbackChainProofs -------------------------
(***************************************************************************)
(* The properties of FallbackChain for every number of turns, candidates   *)
(* and limits, without the bounds TLC needs on the clock and the calls.    *)
(* IInv is inductive; the rate and the meaning of a cooldown follow from   *)
(* it, and that failures never shorten a cooldown follows from its second  *)
(* part and the tables of cooldowns, which do not decrease.                *)
(***************************************************************************)
EXTENDS FallbackChain, TLAPS

USE FallbackAssumption

----------------------------------------------------------------------------
\* Arithmetic

\* What the minimum of two numbers is.
LEMMA MinFacts ==
  ASSUME NEW a \in Nat, NEW b \in Nat
  PROVE  Min2(a, b) \in Nat /\ Min2(a, b) <= a /\ Min2(a, b) <= b
BY DEF Min2

\* A factor that grows makes a product grow.
LEMMA TimesGrows ==
  ASSUME NEW a \in Nat, NEW x \in Nat, NEW y \in Nat, x <= y
  PROVE  a * x \in Nat /\ a * y \in Nat /\ a * x <= a * y
BY SMT

\* The table of the standard cooldown does not decrease.
LEMMA FivesGrow ==
  ASSUME NEW m \in 1 .. 4, NEW n \in 1 .. 4, m <= n
  PROVE  Fives[m] \in Nat /\ Fives[n] \in Nat /\ Fives[m] <= Fives[n]
BY DEF Fives

\* The table of the billing cooldown does not decrease.
LEMMA TwosGrow ==
  ASSUME NEW m \in 1 .. 11, NEW n \in 1 .. 11, m <= n
  PROVE  Twos[m] \in Nat /\ Twos[n] \in Nat /\ Twos[m] <= Twos[n]
BY DEF Twos

\* Cutting off at a maximum keeps the order.
LEMMA MinGrows ==
  ASSUME NEW c \in Nat, NEW x \in Nat, NEW y \in Nat, x <= y
  PROVE  Min2(c, x) <= Min2(c, y)
BY DEF Min2

\* The standard cooldown grows with the number of errors, up to its cap.
LEMMA StandardFacts ==
  ASSUME NEW m \in Nat \ {0}, NEW n \in Nat \ {0}, m <= n
  PROVE  /\ Standard(m) \in Nat /\ Standard(n) \in Nat
         /\ Standard(m) <= Standard(n) /\ Standard(n) <= StandardCap
<1> DEFINE i == Min2(m, 4)
           j == Min2(n, 4)
<1>1. i \in 1 .. 4 /\ j \in 1 .. 4 /\ i <= j
  BY DEF Min2
<1> HIDE DEF i, j
<1>2. Fives[i] \in Nat /\ Fives[j] \in Nat /\ Fives[i] <= Fives[j]
  BY <1>1, FivesGrow
<1> DEFINE x == StandardBase * Fives[i]
           y == StandardBase * Fives[j]
<1>3. x \in Nat /\ y \in Nat /\ x <= y
  BY <1>2, TimesGrows
<1>4. Standard(m) = Min2(StandardCap, x) /\ Standard(n) = Min2(StandardCap, y)
  BY DEF Standard, i, j
<1> HIDE DEF x, y
<1> QED
  BY <1>3, <1>4, MinFacts, MinGrows

\* The billing cooldown grows with the number of billing errors, up to its cap.
LEMMA BillingFacts ==
  ASSUME NEW m \in Nat \ {0}, NEW n \in Nat \ {0}, m <= n
  PROVE  /\ Billing(m) \in Nat /\ Billing(n) \in Nat
         /\ Billing(m) <= Billing(n) /\ Billing(n) <= BillingCap
<1> DEFINE i == Min2(m, 11)
           j == Min2(n, 11)
<1>1. i \in 1 .. 11 /\ j \in 1 .. 11 /\ i <= j
  BY DEF Min2
<1> HIDE DEF i, j
<1>2. Twos[i] \in Nat /\ Twos[j] \in Nat /\ Twos[i] <= Twos[j]
  BY <1>1, TwosGrow
<1> DEFINE x == BillingBase * Twos[i]
           y == BillingBase * Twos[j]
<1>3. x \in Nat /\ y \in Nat /\ x <= y
  BY <1>2, TimesGrows
<1>4. Billing(m) = Min2(BillingCap, x) /\ Billing(n) = Min2(BillingCap, y)
  BY DEF Billing, i, j
<1> HIDE DEF x, y
<1> QED
  BY <1>3, <1>4, MinFacts, MinGrows

\* What flows into a bucket is what the rate gives for the time that has passed.
LEMMA Inflow ==
  ASSUME NEW g \in Nat, NEW t \in Nat, NEW r \in Nat, NEW l \in Nat, NEW n \in Nat,
         l <= n, g * Minute + t <= r * (Minute + l)
  PROVE  /\ (n - l) * r \in Nat
         /\ g * Minute + t + (n - l) * r <= r * (Minute + n)
<1>1. r * (Minute + n) = r * (Minute + l) + (n - l) * r
  BY SMT
<1>2. (n - l) * r \in Nat
  BY SMT
<1>3. g * Minute \in Nat /\ r * (Minute + l) \in Nat /\ r * (Minute + n) \in Nat
  BY SMT
<1> QED
  BY <1>1, <1>2, <1>3

----------------------------------------------------------------------------
\* What the operators do

\* Refilling moves a bucket's tick to now and keeps what the bucket promises.
LEMMA RefilledFacts ==
  ASSUME TypeOK, Clocks, Buckets, NEW k \in Candidates
  PROVE  /\ Refilled(k) \in Nat /\ Refilled(k) <= RPM[k] * Minute
         /\ granted[k] * Minute + Refilled(k) <= RPM[k] * (Minute + now)
<1> DEFINE r == RPM[k]
           flow == (now - lastTick[k]) * r
<1>1. /\ r \in Nat /\ tokens[k] \in Nat /\ granted[k] \in Nat
      /\ lastTick[k] \in Nat /\ now \in Nat /\ lastTick[k] <= now
      /\ granted[k] * Minute + tokens[k] <= r * (Minute + lastTick[k])
  BY DEF TypeOK, Clocks, Buckets
<1>2. Refilled(k) = Min2(r * Minute, tokens[k] + flow)
  BY DEF Refilled
<1> HIDE DEF r
<1>3. flow \in Nat /\ granted[k] * Minute + tokens[k] + flow <= r * (Minute + now)
  BY <1>1, Inflow
<1>4. r * Minute \in Nat /\ granted[k] * Minute \in Nat /\ r * (Minute + now) \in Nat
  BY <1>1, SMT
<1> HIDE DEF flow
<1>5. tokens[k] + flow \in Nat
  BY <1>1, <1>3
<1>6. /\ Min2(r * Minute, tokens[k] + flow) \in Nat
      /\ Min2(r * Minute, tokens[k] + flow) <= r * Minute
      /\ Min2(r * Minute, tokens[k] + flow) <= tokens[k] + flow
  BY <1>4, <1>5, MinFacts
<1>7. granted[k] * Minute + Min2(r * Minute, tokens[k] + flow) <= r * (Minute + now)
  BY <1>1, <1>3, <1>4, <1>6
<1> QED
  BY <1>2, <1>6, <1>7 DEF r

\* Passing over a candidate and returning put an execution where it holds nothing,
\* and leave the others alone.
LEMMA Moves ==
  ASSUME TypeOK, NEW e \in Executions, PassOver(e) \/ Return(e)
  PROVE  /\ pc' \in [Executions -> {"idle", "check", "acquire", "waiting", "calling"}]
         /\ cand' \in [Executions -> Candidates]
         /\ checkedAt' \in [Executions -> Nat]
         /\ canceled' \subseteq Executions
         /\ pc'[e] \in {"idle", "check"}
         /\ \A f \in Executions \ {e} :
              pc'[f] = pc[f] /\ cand'[f] = cand[f] /\ checkedAt'[f] = checkedAt[f]
<1>1. 1 \in Candidates
  BY DEF Candidates
<1>2. CASE Return(e)
  <2>1. /\ pc' = [pc EXCEPT ![e] = "idle"]
        /\ cand' = [cand EXCEPT ![e] = 1]
        /\ checkedAt' = [checkedAt EXCEPT ![e] = 0]
    BY <1>2 DEF Return
  <2>2. canceled' \subseteq Executions
    BY <1>2, Zenon DEF Return, TypeOK
  <2>3. pc' \in [Executions -> {"idle", "check", "acquire", "waiting", "calling"}]
    BY <2>1 DEF TypeOK
  <2>4. cand' \in [Executions -> Candidates]
    BY <1>1, <2>1 DEF TypeOK
  <2>5. checkedAt' \in [Executions -> Nat]
    BY <2>1 DEF TypeOK
  <2>6. pc'[e] = "idle"
    BY <2>1 DEF TypeOK
  <2>7. \A f \in Executions \ {e} :
          pc'[f] = pc[f] /\ cand'[f] = cand[f] /\ checkedAt'[f] = checkedAt[f]
    BY <2>1 DEF TypeOK
  <2> QED
    BY <2>2, <2>3, <2>4, <2>5, <2>6, <2>7
<1>3. CASE cand[e] < NumCandidates /\ cand' = [cand EXCEPT ![e] = @ + 1]
           /\ pc' = [pc EXCEPT ![e] = "check"] /\ UNCHANGED <<checkedAt, canceled>>
  <2>1. cand[e] + 1 \in Candidates
    <3>1. cand[e] \in Candidates
      BY DEF TypeOK
    <3>2. \A c \in Candidates : c < NumCandidates => c + 1 \in Candidates
      BY DEF Candidates
    <3> QED
      BY <1>3, <3>1, <3>2
  <2> QED
    BY <1>3, <2>1 DEF TypeOK
<1> QED
  BY <1>2, <1>3 DEF PassOver

\* A grant or a refill keeps the types and the promises of every bucket.
LEMMA BucketsKept ==
  ASSUME TypeOK, Clocks, Buckets, NEW k \in Candidates, UNCHANGED now,
         \/ HasToken(k) /\ TakeToken(k)
         \/ Refill(k)
         \/ UNCHANGED bucketVars
  PROVE  /\ tokens' \in [Candidates -> Nat]
         /\ lastTick' \in [Candidates -> Nat]
         /\ granted' \in [Candidates -> Nat]
         /\ \A j \in Candidates : lastTick'[j] <= now
         /\ Buckets'
<1>1. CASE UNCHANGED bucketVars
  BY <1>1 DEF bucketVars, TypeOK, Clocks, Buckets
<1>2. CASE Refill(k)
  <2>1. /\ tokens' = [tokens EXCEPT ![k] = Refilled(k)]
        /\ lastTick' = [lastTick EXCEPT ![k] = now]
        /\ granted' = granted
    BY <1>2 DEF Refill
  <2>2. /\ Refilled(k) \in Nat /\ Refilled(k) <= RPM[k] * Minute
        /\ granted[k] * Minute + Refilled(k) <= RPM[k] * (Minute + now)
    BY RefilledFacts
  <2>3. /\ tokens' \in [Candidates -> Nat]
        /\ lastTick' \in [Candidates -> Nat]
        /\ granted' \in [Candidates -> Nat]
        /\ \A j \in Candidates : lastTick'[j] <= now
    BY <2>1, <2>2 DEF TypeOK, Clocks
  <2>4. /\ tokens'[k] <= RPM[k] * Minute
        /\ granted'[k] * Minute + tokens'[k] <= RPM[k] * (Minute + lastTick'[k])
    BY <2>1, <2>2 DEF TypeOK
  <2>5. \A j \in Candidates \ {k} :
          tokens'[j] = tokens[j] /\ lastTick'[j] = lastTick[j] /\ granted'[j] = granted[j]
    BY <2>1 DEF TypeOK
  <2>6. Buckets'
    BY <2>4, <2>5 DEF Buckets
  <2> QED
    BY <2>3, <2>6
<1>3. CASE k \in Limited /\ HasToken(k) /\ TakeToken(k)
  <2>1. /\ tokens' = [tokens EXCEPT ![k] = Refilled(k) - Minute]
        /\ lastTick' = [lastTick EXCEPT ![k] = now]
        /\ granted' = [granted EXCEPT ![k] = @ + 1]
        /\ Refilled(k) >= Minute
    BY <1>3 DEF TakeToken, HasToken
  <2>2. /\ Refilled(k) \in Nat /\ Refilled(k) <= RPM[k] * Minute
        /\ granted[k] * Minute + Refilled(k) <= RPM[k] * (Minute + now)
    BY RefilledFacts
  <2>3. granted[k] \in Nat /\ Minute \in Nat /\ RPM[k] \in Nat /\ now \in Nat
    BY DEF TypeOK
  <2>4. RPM[k] * Minute \in Nat /\ granted[k] * Minute \in Nat
    BY <2>3, SMT
  <2>5. Refilled(k) - Minute \in Nat /\ Refilled(k) - Minute <= RPM[k] * Minute
    BY <2>1, <2>2, <2>3, <2>4
  <2>6. (granted[k] + 1) * Minute = granted[k] * Minute + Minute
    BY <2>3, SMT
  <2>7. (granted[k] + 1) * Minute + (Refilled(k) - Minute) <= RPM[k] * (Minute + now)
    BY <2>2, <2>3, <2>4, <2>6
  <2>8. /\ tokens' \in [Candidates -> Nat]
        /\ lastTick' \in [Candidates -> Nat]
        /\ granted' \in [Candidates -> Nat]
        /\ \A j \in Candidates : lastTick'[j] <= now
    BY <2>1, <2>3, <2>5 DEF TypeOK, Clocks
  <2>9. /\ tokens'[k] <= RPM[k] * Minute
        /\ granted'[k] * Minute + tokens'[k] <= RPM[k] * (Minute + lastTick'[k])
    BY <2>1, <2>5, <2>7 DEF TypeOK
  <2>10. \A j \in Candidates \ {k} :
           tokens'[j] = tokens[j] /\ lastTick'[j] = lastTick[j] /\ granted'[j] = granted[j]
    BY <2>1 DEF TypeOK
  <2>11. Buckets'
    BY <2>9, <2>10 DEF Buckets
  <2> QED
    BY <2>8, <2>11
<1>4. CASE k \notin Limited /\ TakeToken(k)
  BY <1>1, <1>4 DEF TakeToken
<1> QED
  BY <1>1, <1>2, <1>3, <1>4

\* What Clocks says of the cooldowns of one candidate.
CoolOK(k) ==
  /\ lastFailure[k] <= now
  /\ \/ coolUntil[k] = 0
     \/ /\ errors[k] > 0 /\ lastFailure[k] >= 0
        /\ coolUntil[k] <= lastFailure[k] + Standard(errors[k])
  /\ \/ disabledUntil[k] = 0
     \/ /\ lastFailure[k] >= 0
        /\ disabledUntil[k] <= lastFailure[k] + (IF billing[k] = 0 THEN 0 ELSE Billing(billing[k]))

\* Types of the cooldown tracker.
CoolTypes ==
  /\ errors \in [Candidates -> Nat]
  /\ billing \in [Candidates -> Nat]
  /\ coolUntil \in [Candidates -> Nat]
  /\ disabledUntil \in [Candidates -> Nat]
  /\ lastFailure \in [Candidates -> Nat \cup {-1}]

\* A failure keeps the tracker consistent, and neither end moves back.
LEMMA FailureKeeps ==
  ASSUME TypeOK, Clocks, NEW k \in Candidates, NEW reason \in {"billing", "other"},
         MarkFailure(k, reason), UNCHANGED now
  PROVE  /\ CoolTypes' /\ CoolOK(k)'
         /\ lastFailure'[k] = now
         /\ coolUntil'[k] >= coolUntil[k] /\ disabledUntil'[k] >= disabledUntil[k]
         /\ \A j \in Candidates \ {k} :
              /\ errors'[j] = errors[j] /\ billing'[j] = billing[j]
              /\ coolUntil'[j] = coolUntil[j] /\ disabledUntil'[j] = disabledUntil[j]
              /\ lastFailure'[j] = lastFailure[j]
<1> DEFINE e == (IF Outdated(k) THEN 0 ELSE errors[k]) + 1
           b == (IF Outdated(k) THEN 0 ELSE billing[k])
                + (IF reason = "billing" THEN 1 ELSE 0)
<1>1. /\ now \in Nat /\ errors[k] \in Nat /\ billing[k] \in Nat
      /\ coolUntil[k] \in Nat /\ disabledUntil[k] \in Nat
      /\ lastFailure[k] \in Nat \cup {-1}
      /\ CoolOK(k)
  BY DEF TypeOK, Clocks, CoolOK
<1>2. /\ errors' = [errors EXCEPT ![k] = e]
      /\ billing' = [billing EXCEPT ![k] = b]
      /\ lastFailure' = [lastFailure EXCEPT ![k] = now]
      /\ IF reason = "billing"
         THEN disabledUntil' = [disabledUntil EXCEPT ![k] = now + Billing(b)]
              /\ coolUntil' = coolUntil
         ELSE coolUntil' = [coolUntil EXCEPT ![k] = now + Standard(e)]
              /\ disabledUntil' = disabledUntil
  BY DEF MarkFailure
<1>3. /\ e \in Nat \ {0} /\ b \in Nat
      /\ reason = "billing" => b # 0
      /\ (~Outdated(k)) => (errors[k] <= e /\ billing[k] <= b)
  BY <1>1
<1> HIDE DEF e, b
<1>4. /\ Standard(e) \in Nat
      /\ errors[k] > 0 => Standard(errors[k]) \in Nat /\ Standard(errors[k]) <= StandardCap
      /\ errors[k] > 0 /\ errors[k] <= e => Standard(errors[k]) <= Standard(e)
  <2>1. Standard(e) \in Nat
    BY <1>3, StandardFacts
  <2>2. errors[k] > 0 => Standard(errors[k]) \in Nat /\ Standard(errors[k]) <= StandardCap
    BY <1>1, StandardFacts
  <2>3. errors[k] > 0 /\ errors[k] <= e => Standard(errors[k]) <= Standard(e)
    BY <1>1, <1>3, StandardFacts
  <2> QED
    BY <2>1, <2>2, <2>3
<1>5. /\ b # 0 => Billing(b) \in Nat
      /\ billing[k] # 0 => Billing(billing[k]) \in Nat /\ Billing(billing[k]) <= BillingCap
      /\ billing[k] # 0 /\ b # 0 /\ billing[k] <= b => Billing(billing[k]) <= Billing(b)
  <2>1. b # 0 => Billing(b) \in Nat
    BY <1>3, BillingFacts
  <2>2. billing[k] # 0 => Billing(billing[k]) \in Nat /\ Billing(billing[k]) <= BillingCap
    BY <1>1, BillingFacts
  <2>3. billing[k] # 0 /\ b # 0 /\ billing[k] <= b => Billing(billing[k]) <= Billing(b)
    BY <1>1, <1>3, BillingFacts
  <2> QED
    BY <2>1, <2>2, <2>3
<1>6. Outdated(k) => (lastFailure[k] >= 0 /\ now - lastFailure[k] > FailureWindow)
  BY DEF Outdated
<1>7. now + Standard(e) >= coolUntil[k]
  <2>1. CASE coolUntil[k] = 0
    BY <2>1, <1>1, <1>4
  <2>2. CASE coolUntil[k] # 0
    <3>1. /\ errors[k] > 0 /\ lastFailure[k] >= 0 /\ lastFailure[k] <= now
          /\ coolUntil[k] <= lastFailure[k] + Standard(errors[k])
      BY <2>2, <1>1 DEF CoolOK
    <3>2. CASE Outdated(k)
      BY <3>1, <3>2, <1>1, <1>4, <1>6
    <3>3. CASE ~Outdated(k)
      BY <3>1, <3>3, <1>1, <1>3, <1>4
    <3> QED
      BY <3>2, <3>3
  <2> QED
    BY <2>1, <2>2
<1>8. b # 0 => now + Billing(b) >= disabledUntil[k]
  <2> SUFFICES ASSUME b # 0 PROVE now + Billing(b) >= disabledUntil[k]
    OBVIOUS
  <2>1. CASE disabledUntil[k] = 0
    BY <2>1, <1>1, <1>5
  <2>2. CASE disabledUntil[k] # 0
    <3>1. /\ lastFailure[k] >= 0 /\ lastFailure[k] <= now
          /\ disabledUntil[k] <= lastFailure[k]
               + (IF billing[k] = 0 THEN 0 ELSE Billing(billing[k]))
      BY <2>2, <1>1 DEF CoolOK
    <3>2. CASE billing[k] = 0
      BY <3>1, <3>2, <1>1, <1>5
    <3>3. CASE billing[k] # 0 /\ Outdated(k)
      BY <3>1, <3>3, <1>1, <1>5, <1>6
    <3>4. CASE billing[k] # 0 /\ ~Outdated(k)
      BY <3>1, <3>4, <1>1, <1>3, <1>5
    <3> QED
      BY <3>2, <3>3, <3>4
  <2> QED
    BY <2>1, <2>2
<1>9. CoolTypes'
  <2>1. now + Standard(e) \in Nat /\ (b # 0 => now + Billing(b) \in Nat)
    BY <1>1, <1>4, <1>5
  <2> QED
    BY <1>2, <1>3, <2>1 DEF CoolTypes, TypeOK
<1>10. /\ errors'[k] = e /\ billing'[k] = b /\ lastFailure'[k] = now
       /\ reason = "billing" => disabledUntil'[k] = now + Billing(b) /\ coolUntil'[k] = coolUntil[k]
       /\ reason # "billing" => coolUntil'[k] = now + Standard(e)
                                /\ disabledUntil'[k] = disabledUntil[k]
  BY <1>2 DEF TypeOK
<1>11. coolUntil'[k] >= coolUntil[k] /\ disabledUntil'[k] >= disabledUntil[k]
  BY <1>1, <1>3, <1>7, <1>8, <1>10
<1>12. coolUntil'[k] <= now + Standard(e)
  BY <1>1, <1>4, <1>7, <1>10
<1>13. disabledUntil'[k] <= now + (IF b = 0 THEN 0 ELSE Billing(b))
  <2>1. CASE reason = "billing"
    BY <2>1, <1>1, <1>3, <1>5, <1>10
  <2>2. CASE reason # "billing" /\ b # 0
    BY <2>2, <1>1, <1>5, <1>8, <1>10
  <2>3. CASE reason # "billing" /\ b = 0
    <3>1. disabledUntil[k] <= now
      <4>1. CASE disabledUntil[k] = 0
        BY <4>1, <1>1
      <4>2. CASE disabledUntil[k] # 0
        <5>1. /\ lastFailure[k] >= 0 /\ lastFailure[k] <= now
              /\ disabledUntil[k] <= lastFailure[k]
                   + (IF billing[k] = 0 THEN 0 ELSE Billing(billing[k]))
          BY <4>2, <1>1 DEF CoolOK
        <5>2. CASE billing[k] = 0
          BY <5>1, <5>2, <1>1
        <5>3. CASE billing[k] # 0
          <6>1. Outdated(k)
            BY <5>3, <2>3, <1>1, <1>3
          <6> QED
            BY <6>1, <5>1, <5>3, <1>1, <1>5, <1>6
        <5> QED
          BY <5>2, <5>3
      <4> QED
        BY <4>1, <4>2
    <3> QED
      BY <3>1, <2>3, <1>10, <1>1
  <2> QED
    BY <2>1, <2>2, <2>3
<1>14. CoolOK(k)'
  BY <1>1, <1>3, <1>10, <1>12, <1>13 DEF CoolOK
<1>15. \A j \in Candidates \ {k} :
         /\ errors'[j] = errors[j] /\ billing'[j] = billing[j]
         /\ coolUntil'[j] = coolUntil[j] /\ disabledUntil'[j] = disabledUntil[j]
         /\ lastFailure'[j] = lastFailure[j]
  BY <1>2 DEF TypeOK
<1> QED
  BY <1>9, <1>10, <1>11, <1>14, <1>15

\* A success keeps the tracker consistent.
LEMMA SuccessKeeps ==
  ASSUME TypeOK, Clocks, NEW k \in Candidates, MarkSuccess(k), UNCHANGED now
  PROVE  /\ CoolTypes' /\ \A j \in Candidates : CoolOK(j)'
         /\ errors'[k] = 0 /\ coolUntil'[k] = 0 /\ disabledUntil'[k] = 0
         /\ lastFailure' = lastFailure
         /\ \A j \in Candidates \ {k} :
              coolUntil'[j] = coolUntil[j] /\ disabledUntil'[j] = disabledUntil[j]
<1>1. /\ errors' = [errors EXCEPT ![k] = 0]
      /\ billing' = [billing EXCEPT ![k] = 0]
      /\ coolUntil' = [coolUntil EXCEPT ![k] = 0]
      /\ disabledUntil' = [disabledUntil EXCEPT ![k] = 0]
      /\ lastFailure' = lastFailure
  BY DEF MarkSuccess
<1>2. CoolTypes'
  BY <1>1 DEF CoolTypes, TypeOK
<1>3. errors'[k] = 0 /\ coolUntil'[k] = 0 /\ disabledUntil'[k] = 0
  BY <1>1 DEF TypeOK
<1>4. \A j \in Candidates \ {k} :
        /\ errors'[j] = errors[j] /\ billing'[j] = billing[j]
        /\ coolUntil'[j] = coolUntil[j] /\ disabledUntil'[j] = disabledUntil[j]
  BY <1>1 DEF TypeOK
<1>5. CoolOK(k)'
  BY <1>1, <1>3 DEF CoolOK, Clocks
<1>6. ASSUME NEW j \in Candidates \ {k} PROVE CoolOK(j)'
  BY <1>1, <1>4 DEF CoolOK, Clocks
<1> QED
  BY <1>1, <1>2, <1>3, <1>4, <1>5, <1>6

\* What became of the cooldown of a candidate in a step: it stayed or a failure
\* was counted, or it was lifted.
Noted(k) ==
  \/ /\ coolUntil'[k] = coolUntil[k] /\ disabledUntil'[k] = disabledUntil[k]
     /\ lastFailure'[k] = lastFailure[k]
  \/ lastFailure'[k] = now
  \/ coolUntil'[k] = 0 /\ disabledUntil'[k] = 0

\* An execution that returns or goes on to another candidate leaves the checks of
\* the others as good as they were.
LEMMA CheckedKept ==
  ASSUME IInv, NEW e \in Executions, UNCHANGED now,
         \A k \in Candidates : Noted(k),
         pc'[e] \in {"idle", "check"},
         \A f \in Executions \ {e} :
           pc'[f] = pc[f] /\ cand'[f] = cand[f] /\ checkedAt'[f] = checkedAt[f]
  PROVE  Checked'
<1> SUFFICES ASSUME NEW f \in Executions,
                    pc'[f] \in {"acquire", "waiting", "calling"}
             PROVE  /\ checkedAt'[f] <= now'
                    /\ \/ /\ coolUntil'[cand'[f]] <= checkedAt'[f]
                          /\ disabledUntil'[cand'[f]] <= checkedAt'[f]
                       \/ lastFailure'[cand'[f]] >= checkedAt'[f]
  BY DEF Checked
<1>1. f # e
  OBVIOUS
<1> DEFINE k == cand[f]
<1>2. /\ pc[f] \in {"acquire", "waiting", "calling"}
      /\ cand'[f] = k /\ checkedAt'[f] = checkedAt[f]
  BY <1>1
<1>3. /\ k \in Candidates /\ checkedAt[f] \in Nat /\ now \in Nat
      /\ coolUntil[k] \in Nat /\ disabledUntil[k] \in Nat
      /\ lastFailure[k] \in Nat \cup {-1}
  BY DEF IInv, TypeOK
<1>4. /\ checkedAt[f] <= now
      /\ \/ coolUntil[k] <= checkedAt[f] /\ disabledUntil[k] <= checkedAt[f]
         \/ lastFailure[k] >= checkedAt[f]
  BY <1>2 DEF IInv, Checked
<1>5. Noted(k)
  BY <1>3
<1> HIDE DEF k
<1>6. CASE /\ coolUntil'[k] = coolUntil[k] /\ disabledUntil'[k] = disabledUntil[k]
           /\ lastFailure'[k] = lastFailure[k]
  BY <1>2, <1>4, <1>6
<1>7. CASE lastFailure'[k] = now
  BY <1>2, <1>3, <1>4, <1>7
<1>8. CASE coolUntil'[k] = 0 /\ disabledUntil'[k] = 0
  BY <1>2, <1>3, <1>4, <1>8
<1> QED
  BY <1>5, <1>6, <1>7, <1>8 DEF Noted

\* Clocks is what CoolOK says of every candidate and what the buckets say of lastTick.
LEMMA ClocksSplit ==
  ASSUME \A k \in Candidates : CoolOK(k) /\ lastTick[k] <= now
  PROVE  Clocks
BY DEF Clocks, CoolOK

----------------------------------------------------------------------------
\* The inductive invariant

\* Empty tables and full buckets keep every promise.
LEMMA InitIInv == Init => IInv
<1> SUFFICES ASSUME Init PROVE IInv
  OBVIOUS
<1>1. 1 \in Candidates /\ \A k \in Candidates : RPM[k] \in Nat /\ RPM[k] * Minute \in Nat
  <2>1. 1 \in Candidates
    BY DEF Candidates
  <2>2. \A k \in Candidates : RPM[k] \in Nat
    OBVIOUS
  <2>3. ASSUME NEW r \in Nat PROVE r * Minute \in Nat
    BY <2>3, SMT
  <2> QED
    BY <2>1, <2>2, <2>3
<1>2. TypeOK
  BY <1>1 DEF Init, TypeOK
<1>3. Clocks
  BY DEF Init, Clocks
<1>4. Buckets
  <2> SUFFICES ASSUME NEW k \in Candidates
               PROVE  /\ tokens[k] <= RPM[k] * Minute
                      /\ granted[k] * Minute + tokens[k] <= RPM[k] * (Minute + lastTick[k])
    BY DEF Buckets
  <2>1. tokens[k] = RPM[k] * Minute /\ granted[k] = 0 /\ lastTick[k] = 0
    BY DEF Init
  <2>2. 0 * Minute = 0 /\ Minute + 0 = Minute
    OBVIOUS
  <2>3. RPM[k] * Minute \in Nat
    BY <1>1
  <2> QED
    BY <2>1, <2>2, <2>3
<1>5. Checked
  BY DEF Init, Checked
<1> QED
  BY <1>2, <1>3, <1>4, <1>5 DEF IInv

\* A step that leaves the tracker and the buckets alone and moves one execution.
LEMMA MoveKeeps ==
  ASSUME IInv, NEW e \in Executions, PassOver(e) \/ Return(e),
         UNCHANGED <<now, cooldownVars, bucketVars, started>>
  PROVE  IInv'
<1>1. /\ pc' \in [Executions -> {"idle", "check", "acquire", "waiting", "calling"}]
      /\ cand' \in [Executions -> Candidates]
      /\ checkedAt' \in [Executions -> Nat]
      /\ canceled' \subseteq Executions
      /\ pc'[e] \in {"idle", "check"}
      /\ \A f \in Executions \ {e} :
           pc'[f] = pc[f] /\ cand'[f] = cand[f] /\ checkedAt'[f] = checkedAt[f]
  BY Moves DEF IInv
<1>2. TypeOK'
  BY <1>1 DEF IInv, TypeOK, cooldownVars, bucketVars
<1>3. Clocks'
  BY DEF IInv, Clocks, cooldownVars, bucketVars
<1>4. Buckets'
  BY DEF IInv, Buckets, bucketVars
<1>5. \A k \in Candidates : Noted(k)
  BY DEF Noted, cooldownVars
<1>6. Checked'
  BY <1>1, <1>5, CheckedKept
<1> QED
  BY <1>2, <1>3, <1>4, <1>6 DEF IInv

\* A call of Execute holds nothing yet.
LEMMA BeginStep ==
  ASSUME IInv, NEW e \in Executions, Begin(e)
  PROVE  IInv'
<1>1. /\ pc[e] = "idle" /\ pc' = [pc EXCEPT ![e] = "check"] /\ started' = started + 1
      /\ UNCHANGED <<now, cooldownVars, bucketVars, cand, checkedAt, canceled>>
  BY DEF Begin
<1>2. /\ pc' \in [Executions -> {"idle", "check", "acquire", "waiting", "calling"}]
      /\ pc'[e] = "check" /\ \A f \in Executions \ {e} : pc'[f] = pc[f]
  BY <1>1 DEF IInv, TypeOK
<1>3. TypeOK'
  BY <1>1, <1>2 DEF IInv, TypeOK, cooldownVars, bucketVars
<1>4. Clocks' /\ Buckets'
  BY <1>1 DEF IInv, Clocks, Buckets, cooldownVars, bucketVars
<1>5. \A k \in Candidates : Noted(k)
  BY <1>1 DEF Noted, cooldownVars
<1>6. Checked'
  BY <1>1, <1>2, <1>5, CheckedKept
<1> QED
  BY <1>3, <1>4, <1>6 DEF IInv

\* A check that finds the candidate available makes the execution's check a good one.
LEMMA CheckStep ==
  ASSUME IInv, NEW e \in Executions, Check(e)
  PROVE  IInv'
<1>1. UNCHANGED <<now, cooldownVars, bucketVars, started>>
  BY DEF Check
<1>2. CASE PassOver(e) \/ Return(e)
  BY <1>1, <1>2, MoveKeeps
<1>3. CASE /\ Available(cand[e])
           /\ checkedAt' = [checkedAt EXCEPT ![e] = now]
           /\ pc' = [pc EXCEPT ![e] = "acquire"]
           /\ UNCHANGED <<cand, canceled>>
  <2>1. /\ pc' \in [Executions -> {"idle", "check", "acquire", "waiting", "calling"}]
        /\ checkedAt' \in [Executions -> Nat] /\ checkedAt'[e] = now
        /\ \A f \in Executions \ {e} : pc'[f] = pc[f] /\ checkedAt'[f] = checkedAt[f]
    BY <1>3 DEF IInv, TypeOK
  <2>2. TypeOK'
    BY <1>1, <1>3, <2>1 DEF IInv, TypeOK, cooldownVars, bucketVars
  <2>3. Clocks' /\ Buckets'
    BY <1>1 DEF IInv, Clocks, Buckets, cooldownVars, bucketVars
  <2>4. Checked'
    <3>1. coolUntil'[cand'[e]] <= checkedAt'[e] /\ disabledUntil'[cand'[e]] <= checkedAt'[e]
      BY <1>1, <1>3, <2>1 DEF Available, cooldownVars
    <3>2. now \in Nat /\ now <= now /\ now' = now
      BY <1>1 DEF IInv, TypeOK
    <3> QED
      BY <1>1, <1>3, <2>1, <3>1, <3>2 DEF IInv, Checked, cooldownVars
  <2> QED
    BY <2>2, <2>3, <2>4 DEF IInv
<1> QED
  BY <1>2, <1>3 DEF Check

\* A bucket gives a token, or is refilled and the execution waits or goes on.
LEMMA AcquireStep ==
  ASSUME IInv, NEW e \in Executions, Acquire(e)
  PROVE  IInv'
<1> DEFINE k == cand[e]
<1>1. /\ UNCHANGED <<now, cooldownVars, started>>
      /\ pc[e] \in {"acquire", "waiting"}
      /\ k \in Candidates
      /\ TypeOK /\ Clocks /\ Buckets /\ Checked
  BY DEF Acquire, IInv, TypeOK
<1>2. (HasToken(k) /\ TakeToken(k)) \/ Refill(k)
  BY DEF Acquire
<1>3. /\ tokens' \in [Candidates -> Nat]
      /\ lastTick' \in [Candidates -> Nat]
      /\ granted' \in [Candidates -> Nat]
      /\ \A j \in Candidates : lastTick'[j] <= now
      /\ Buckets'
  BY <1>1, <1>2, BucketsKept
<1>4. Clocks'
  BY <1>1, <1>3 DEF Clocks, cooldownVars
<1>5. CASE PassOver(e)
  <2>1. /\ pc' \in [Executions -> {"idle", "check", "acquire", "waiting", "calling"}]
        /\ cand' \in [Executions -> Candidates]
        /\ checkedAt' \in [Executions -> Nat]
        /\ canceled' \subseteq Executions
        /\ pc'[e] \in {"idle", "check"}
        /\ \A f \in Executions \ {e} :
             pc'[f] = pc[f] /\ cand'[f] = cand[f] /\ checkedAt'[f] = checkedAt[f]
    BY <1>1, <1>5, Moves
  <2>2. TypeOK'
    BY <1>1, <1>3, <2>1 DEF TypeOK, cooldownVars
  <2>3. \A j \in Candidates : Noted(j)
    BY <1>1 DEF Noted, cooldownVars
  <2>4. Checked'
    BY <1>1, <2>1, <2>3, CheckedKept
  <2> QED
    BY <1>3, <1>4, <2>2, <2>4 DEF IInv
<1>6. ASSUME NEW to \in {"calling", "waiting"},
             pc' = [pc EXCEPT ![e] = to], UNCHANGED <<cand, checkedAt, canceled>>
      PROVE  IInv'
  <2>1. /\ pc' \in [Executions -> {"idle", "check", "acquire", "waiting", "calling"}]
        /\ \A f \in Executions \ {e} : pc'[f] = pc[f]
    BY <1>1, <1>6 DEF TypeOK
  <2>2. TypeOK'
    BY <1>1, <1>3, <1>6, <2>1 DEF TypeOK, cooldownVars
  <2>3. \A f \in Executions :
          pc'[f] \in {"acquire", "waiting", "calling"}
          => pc[f] \in {"acquire", "waiting", "calling"}
    BY <1>1, <2>1
  <2>4. Checked'
    BY <1>1, <1>6, <2>3 DEF Checked, cooldownVars
  <2> QED
    BY <1>3, <1>4, <2>2, <2>4 DEF IInv
<1> QED
  BY <1>5, <1>6 DEF Acquire

\* A success lifts the cooldown of its candidate.
LEMMA SucceedsStep ==
  ASSUME IInv, NEW e \in Executions, CallSucceeds(e)
  PROVE  IInv'
<1> DEFINE k == cand[e]
<1>1. /\ MarkSuccess(k) /\ Return(e) /\ UNCHANGED <<now, bucketVars, started>>
      /\ k \in Candidates /\ TypeOK /\ Clocks /\ Buckets
  BY DEF CallSucceeds, IInv, TypeOK
<1> HIDE DEF k
<1>2. /\ CoolTypes' /\ \A j \in Candidates : CoolOK(j)'
      /\ coolUntil'[k] = 0 /\ disabledUntil'[k] = 0
      /\ lastFailure' = lastFailure
      /\ \A j \in Candidates \ {k} :
           coolUntil'[j] = coolUntil[j] /\ disabledUntil'[j] = disabledUntil[j]
  BY <1>1, SuccessKeeps
<1>3. /\ pc' \in [Executions -> {"idle", "check", "acquire", "waiting", "calling"}]
      /\ cand' \in [Executions -> Candidates]
      /\ checkedAt' \in [Executions -> Nat]
      /\ canceled' \subseteq Executions
      /\ pc'[e] \in {"idle", "check"}
      /\ \A f \in Executions \ {e} :
           pc'[f] = pc[f] /\ cand'[f] = cand[f] /\ checkedAt'[f] = checkedAt[f]
  BY <1>1, Moves
<1>4. TypeOK'
  BY <1>1, <1>2, <1>3 DEF TypeOK, CoolTypes, bucketVars
<1>5. \A j \in Candidates : CoolOK(j)' /\ lastTick'[j] <= now'
  BY <1>1, <1>2 DEF Clocks, bucketVars
<1>6. Clocks'
  BY <1>5 DEF Clocks, CoolOK
<1>7. Buckets'
  BY <1>1 DEF Buckets, bucketVars
<1>8. \A j \in Candidates : Noted(j)
  BY <1>2 DEF Noted
<1>9. Checked'
  BY <1>1, <1>3, <1>8, CheckedKept
<1> QED
  BY <1>4, <1>6, <1>7, <1>9 DEF IInv

\* A failure is counted, and whoever looked before it has an old check.
LEMMA FailsStep ==
  ASSUME IInv, NEW e \in Executions, NEW reason \in {"billing", "other"},
         CallFails(e, reason)
  PROVE  IInv'
<1> PICK k \in Candidates : k = cand[e]
  BY DEF IInv, TypeOK
<1>1. /\ MarkFailure(k, reason) /\ PassOver(e) /\ UNCHANGED <<now, bucketVars, started>>
      /\ k \in Candidates /\ TypeOK /\ Clocks /\ Buckets
  BY DEF CallFails, IInv, TypeOK
<1>2. /\ CoolTypes' /\ CoolOK(k)'
      /\ lastFailure'[k] = now
      /\ \A j \in Candidates \ {k} :
           /\ errors'[j] = errors[j] /\ billing'[j] = billing[j]
           /\ coolUntil'[j] = coolUntil[j] /\ disabledUntil'[j] = disabledUntil[j]
           /\ lastFailure'[j] = lastFailure[j]
  BY <1>1, FailureKeeps
<1>3. /\ pc' \in [Executions -> {"idle", "check", "acquire", "waiting", "calling"}]
      /\ cand' \in [Executions -> Candidates]
      /\ checkedAt' \in [Executions -> Nat]
      /\ canceled' \subseteq Executions
      /\ pc'[e] \in {"idle", "check"}
      /\ \A f \in Executions \ {e} :
           pc'[f] = pc[f] /\ cand'[f] = cand[f] /\ checkedAt'[f] = checkedAt[f]
  BY <1>1, Moves
<1>4. TypeOK'
  BY <1>1, <1>2, <1>3 DEF TypeOK, CoolTypes, bucketVars
<1>5. ASSUME NEW j \in Candidates \ {k} PROVE CoolOK(j)'
  BY <1>1, <1>2 DEF CoolOK, Clocks
<1>6. \A j \in Candidates : CoolOK(j)' /\ lastTick'[j] <= now'
  BY <1>1, <1>2, <1>5 DEF Clocks, bucketVars
<1>7. Clocks'
  BY <1>6 DEF Clocks, CoolOK
<1>8. Buckets'
  BY <1>1 DEF Buckets, bucketVars
<1>9. \A j \in Candidates : Noted(j)
  BY <1>2 DEF Noted
<1>10. Checked'
  BY <1>1, <1>3, <1>9, CheckedKept
<1> QED
  BY <1>4, <1>7, <1>8, <1>10 DEF IInv

\* A context is canceled.
LEMMA CancelStep ==
  ASSUME IInv, NEW e \in Executions, Cancel(e)
  PROVE  IInv'
<1>1. /\ canceled' = canceled \cup {e}
      /\ UNCHANGED <<now, cooldownVars, bucketVars, execVars>>
  BY DEF Cancel
<1>2. canceled' \subseteq Executions
  BY <1>1, Zenon DEF IInv, TypeOK
<1>3. TypeOK'
  BY <1>1, <1>2 DEF IInv, TypeOK, cooldownVars, bucketVars, execVars
<1>4. Clocks' /\ Buckets' /\ Checked'
  BY <1>1 DEF IInv, Clocks, Buckets, Checked, cooldownVars, bucketVars, execVars
<1> QED
  BY <1>3, <1>4 DEF IInv

\* Time passes.
LEMMA TickStep ==
  ASSUME IInv, Tick
  PROVE  IInv'
<1>1. /\ now' = now + 1
      /\ UNCHANGED <<cooldownVars, bucketVars, execVars, canceled>>
  BY DEF Tick
<1>2. TypeOK'
  BY <1>1 DEF IInv, TypeOK, cooldownVars, bucketVars, execVars
<1>3. now \in Nat /\ now <= now' /\ now' \in Nat
  BY <1>1 DEF IInv, TypeOK
<1>4. /\ \A k \in Candidates : lastFailure[k] \in Nat \cup {-1} /\ lastTick[k] \in Nat
      /\ \A e \in Executions : checkedAt[e] \in Nat
  BY DEF IInv, TypeOK
<1>5. Clocks'
  BY <1>1, <1>3, <1>4 DEF IInv, Clocks, cooldownVars, bucketVars
<1>6. Buckets'
  BY <1>1 DEF IInv, Buckets, bucketVars
<1>7. Checked'
  BY <1>1, <1>3, <1>4 DEF IInv, Checked, cooldownVars, execVars
<1> QED
  BY <1>2, <1>5, <1>6, <1>7 DEF IInv

\* A stuttering step.
LEMMA StutterStep ==
  ASSUME IInv, UNCHANGED vars
  PROVE  IInv'
<1> USE DEF vars, cooldownVars, bucketVars, execVars
<1>1. TypeOK'
  BY DEF IInv, TypeOK
<1>2. Clocks' /\ Buckets' /\ Checked'
  BY DEF IInv, Clocks, Buckets, Checked
<1> QED
  BY <1>1, <1>2 DEF IInv

\* Every step keeps the inductive invariant.
LEMMA NextIInv == IInv /\ [Next]_vars => IInv'
<1> SUFFICES ASSUME IInv, [Next]_vars PROVE IInv'
  OBVIOUS
<1>1. ASSUME NEW e \in Executions, Begin(e) PROVE IInv'
  BY <1>1, BeginStep
<1>2. ASSUME NEW e \in Executions, Check(e) PROVE IInv'
  BY <1>2, CheckStep
<1>3. ASSUME NEW e \in Executions, Acquire(e) PROVE IInv'
  BY <1>3, AcquireStep
<1>4. ASSUME NEW e \in Executions, WaitCanceled(e) \/ CallEnds(e) PROVE IInv'
  BY <1>4, MoveKeeps DEF WaitCanceled, CallEnds
<1>5. ASSUME NEW e \in Executions, CallSucceeds(e) PROVE IInv'
  BY <1>5, SucceedsStep
<1>6. ASSUME NEW e \in Executions, NEW reason \in {"billing", "other"},
             CallFails(e, reason)
      PROVE  IInv'
  BY <1>6, FailsStep
<1>7. ASSUME NEW e \in Executions, Cancel(e) PROVE IInv'
  BY <1>7, CancelStep
<1>8. CASE Tick
  BY <1>8, TickStep
<1>9. CASE UNCHANGED vars
  BY <1>9, StutterStep
<1> QED
  BY <1>1, <1>2, <1>3, <1>4, <1>5, <1>6, <1>7, <1>8, <1>9 DEF Next

\* The tables, the clock and what every execution knows of its candidate fit
\* together at all times.
THEOREM Invariant == Spec => []IInv
<1> QED
  BY InitIInv, NextIInv, PTL DEF Spec

----------------------------------------------------------------------------
\* The properties

\* However many turns share a limiter, it never lets through more than a burst and
\* what the rate gives for the time since it was made.
THEOREM RateBounded == Spec => []RateBound
<1>1. IInv => RateBound
  <2> SUFFICES ASSUME IInv, NEW k \in Limited
               PROVE  granted[k] * Minute <= RPM[k] * (Minute + now)
    BY DEF RateBound
  <2>1. /\ k \in Candidates /\ RPM[k] \in Nat /\ Minute \in Nat
        /\ granted[k] \in Nat /\ tokens[k] \in Nat
        /\ lastTick[k] \in Nat /\ now \in Nat /\ lastTick[k] <= now
        /\ granted[k] * Minute + tokens[k] <= RPM[k] * (Minute + lastTick[k])
    BY DEF IInv, TypeOK, Clocks, Buckets, Limited
  <2>2. ASSUME NEW r \in Nat, NEW x \in Nat, NEW y \in Nat, x <= y
        PROVE  r * x \in Nat /\ r * y \in Nat /\ r * x <= r * y
    BY <2>2, TimesGrows
  <2>3. /\ RPM[k] * (Minute + lastTick[k]) <= RPM[k] * (Minute + now)
        /\ RPM[k] * (Minute + lastTick[k]) \in Nat /\ RPM[k] * (Minute + now) \in Nat
    BY <2>1, <2>2
  <2>4. granted[k] * Minute \in Nat
    BY <2>1, <2>2
  <2> QED
    BY <2>1, <2>3, <2>4
<1> QED
  BY <1>1, Invariant, PTL

\* A provider in cooldown is called only by an execution whose check is older than
\* the failure.
THEOREM CooldownIsRespected == Spec => []CooldownRespected
<1>1. IInv => CooldownRespected
  <2> SUFFICES ASSUME IInv, NEW e \in Executions, pc[e] = "calling", ~Available(cand[e])
               PROVE  lastFailure[cand[e]] >= checkedAt[e]
    BY DEF CooldownRespected
  <2> DEFINE k == cand[e]
  <2>1. /\ k \in Candidates /\ now \in Nat /\ checkedAt[e] \in Nat
        /\ coolUntil[k] \in Nat /\ disabledUntil[k] \in Nat
    BY DEF IInv, TypeOK
  <2>2. /\ checkedAt[e] <= now
        /\ \/ coolUntil[k] <= checkedAt[e] /\ disabledUntil[k] <= checkedAt[e]
           \/ lastFailure[k] >= checkedAt[e]
    BY DEF IInv, Checked
  <2>3. ~(disabledUntil[k] <= now /\ coolUntil[k] <= now)
    BY DEF Available
  <2> HIDE DEF k
  <2>4. lastFailure[k] >= checkedAt[e]
    BY <2>1, <2>2, <2>3
  <2> QED
    BY <2>4 DEF k
<1> QED
  BY <1>1, Invariant, PTL

\* A step that does not touch the tracker shortens nothing.
LEMMA UntouchedKeeps ==
  ASSUME TypeOK, UNCHANGED cooldownVars, NEW k \in Candidates
  PROVE  coolUntil'[k] >= coolUntil[k] /\ disabledUntil'[k] >= disabledUntil[k]
<1>1. coolUntil[k] \in Nat /\ disabledUntil[k] \in Nat
  BY DEF TypeOK
<1>2. coolUntil' = coolUntil /\ disabledUntil' = disabledUntil
  BY DEF cooldownVars
<1> QED
  BY <1>1, <1>2

\* Only a success makes a provider available sooner.
THEOREM FailuresNeverShorten == Spec => NeverShortened
<1>1. ASSUME IInv, [Next]_vars, NEW k \in Candidates, errors'[k] # 0
      PROVE  coolUntil'[k] >= coolUntil[k] /\ disabledUntil'[k] >= disabledUntil[k]
  <2>1. /\ TypeOK /\ Clocks
        /\ coolUntil[k] \in Nat /\ disabledUntil[k] \in Nat
    BY <1>1 DEF IInv, TypeOK
  <2>2. CASE UNCHANGED cooldownVars
    BY <1>1, <2>1, <2>2, UntouchedKeeps
  <2>3. ASSUME NEW e \in Executions, CallSucceeds(e)
        PROVE  coolUntil'[k] >= coolUntil[k] /\ disabledUntil'[k] >= disabledUntil[k]
    <3>1. MarkSuccess(cand[e]) /\ UNCHANGED now /\ cand[e] \in Candidates
      BY <2>1, <2>3 DEF CallSucceeds, TypeOK
    <3>2. /\ errors'[cand[e]] = 0
          /\ \A j \in Candidates \ {cand[e]} :
               coolUntil'[j] = coolUntil[j] /\ disabledUntil'[j] = disabledUntil[j]
      BY <2>1, <3>1, SuccessKeeps
    <3> QED
      BY <1>1, <2>1, <3>2
  <2>4. ASSUME NEW e \in Executions, NEW reason \in {"billing", "other"},
               CallFails(e, reason)
        PROVE  coolUntil'[k] >= coolUntil[k] /\ disabledUntil'[k] >= disabledUntil[k]
    <3>1. MarkFailure(cand[e], reason) /\ UNCHANGED now /\ cand[e] \in Candidates
      BY <2>1, <2>4 DEF CallFails, TypeOK
    <3>2. /\ coolUntil'[cand[e]] >= coolUntil[cand[e]]
          /\ disabledUntil'[cand[e]] >= disabledUntil[cand[e]]
          /\ \A j \in Candidates \ {cand[e]} :
               coolUntil'[j] = coolUntil[j] /\ disabledUntil'[j] = disabledUntil[j]
      BY <2>1, <3>1, FailureKeeps
    <3> QED
      BY <1>1, <2>1, <3>2
  <2>5. ASSUME NEW e \in Executions,
               Begin(e) \/ Check(e) \/ Acquire(e) \/ WaitCanceled(e) \/ CallEnds(e) \/ Cancel(e)
        PROVE  UNCHANGED cooldownVars
    <3>1. CASE Begin(e) \/ Check(e) \/ WaitCanceled(e) \/ CallEnds(e) \/ Cancel(e)
      BY <3>1 DEF Begin, Check, WaitCanceled, CallEnds, Cancel
    <3>2. CASE Acquire(e)
      BY <3>2 DEF Acquire
    <3> QED
      BY <2>5, <3>1, <3>2
  <2>6. CASE Tick \/ UNCHANGED vars
    BY <2>6, <2>2 DEF Tick, vars
  <2> QED
    BY <1>1, <2>2, <2>3, <2>4, <2>5, <2>6 DEF Next
<1>2. IInv /\ [Next]_vars =>
        [\A k \in Candidates :
           errors'[k] # 0 => /\ coolUntil'[k] >= coolUntil[k]
                             /\ disabledUntil'[k] >= disabledUntil[k]]_vars
  BY <1>1
<1> QED
  BY <1>2, Invariant, PTL DEF Spec, NeverShortened
=============================================================================
