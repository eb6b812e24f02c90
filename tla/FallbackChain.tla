---------------------------- MODULE FallbackChain -----------------------------
(***************************************************************************)
(* FallbackChain.Execute with the two tables it shares with every other    *)
(* turn: the CooldownTracker and the token buckets of RateLimiterRegistry. *)
(* An execution tries the candidates in order.  Every table operation is a *)
(* step of its own, under its own mutex; a call to a provider lies between *)
(* two steps and may take any time.                                        *)
(*                                                                         *)
(* Time is counted in units of which Minute make a minute.  A bucket holds *)
(* parts of a token, Minute to the token, so that refilling adds rpm parts *)
(* in each unit, which is what tokens += elapsed * rpm / 60 does.          *)
(***************************************************************************)
EXTENDS Integers, Sequences

CONSTANTS
  Executions,    \* the turns that may call Execute at the same time
  NumCandidates, \* the candidates are 1..NumCandidates, in order
  RPM,           \* requests per minute of each candidate, 0 is unrestricted
  Minute,        \* time units in a minute
  StandardBase,  \* cooldown after the first error
  StandardCap,   \* an hour
  BillingBase,   \* disabled after the first billing error
  BillingCap,    \* a day
  FailureWindow, \* failureWindow
  MaxStarted,    \* bound on the calls of Execute
  MaxNow         \* bound on the clock

Candidates == 1 .. NumCandidates
Limited == {k \in Candidates : RPM[k] > 0}

ASSUME FallbackAssumption ==
  /\ NumCandidates \in Nat \ {0}
  /\ RPM \in [Candidates -> Nat]
  /\ Minute \in Nat \ {0}
  /\ StandardBase \in Nat /\ StandardCap \in Nat
  /\ BillingBase \in Nat /\ BillingCap \in Nat
  /\ FailureWindow \in Nat
  /\ StandardCap <= FailureWindow /\ BillingCap <= FailureWindow
  /\ MaxStarted \in Nat /\ MaxNow \in Nat

VARIABLES
  now,           \* the clock
  errors,        \* ErrorCount
  billing,       \* FailureCounts[billing]
  coolUntil,     \* CooldownEnd, 0 is the zero time
  disabledUntil, \* DisabledUntil
  lastFailure,   \* LastFailure, -1 is the zero time
  tokens,        \* parts of tokens in each bucket
  lastTick,      \* when each bucket was refilled
  granted,       \* tokens taken from each bucket so far
  pc,            \* where each execution is
  cand,          \* the candidate it is at
  checkedAt,     \* when it found that candidate available
  canceled,      \* the executions whose context is canceled
  started        \* calls of Execute so far

cooldownVars == <<errors, billing, coolUntil, disabledUntil, lastFailure>>
bucketVars   == <<tokens, lastTick, granted>>
execVars     == <<pc, cand, checkedAt, started>>
vars == <<now, cooldownVars, bucketVars, execVars, canceled>>

Min2(a, b) == IF a < b THEN a ELSE b

Fives == <<1, 5, 25, 125>>
Twos  == <<1, 2, 4, 8, 16, 32, 64, 128, 256, 512, 1024>>

\* calculateStandardCooldown and calculateBillingCooldown, for n > 0 errors.
Standard(n) == Min2(StandardCap, StandardBase * Fives[Min2(n, 4)])
Billing(n)  == Min2(BillingCap, BillingBase * Twos[Min2(n, 11)])

Init ==
  /\ now = 0
  /\ errors = [k \in Candidates |-> 0]
  /\ billing = [k \in Candidates |-> 0]
  /\ coolUntil = [k \in Candidates |-> 0]
  /\ disabledUntil = [k \in Candidates |-> 0]
  /\ lastFailure = [k \in Candidates |-> -1]
  /\ tokens = [k \in Candidates |-> RPM[k] * Minute]
  /\ lastTick = [k \in Candidates |-> 0]
  /\ granted = [k \in Candidates |-> 0]
  /\ pc = [e \in Executions |-> "idle"]
  /\ cand = [e \in Executions |-> 1]
  /\ checkedAt = [e \in Executions |-> 0]
  /\ canceled = {}
  /\ started = 0

----------------------------------------------------------------------------
\* The cooldown tracker

\* IsAvailable.
Available(k) == disabledUntil[k] <= now /\ coolUntil[k] <= now

\* (mutant of Outdated) Any earlier failure is outdated.
OutdatedAtOnce(k) == lastFailure[k] >= 0 /\ now > lastFailure[k]

\* The last failure is older than the failure window.
Outdated(k) == lastFailure[k] >= 0 /\ now - lastFailure[k] > FailureWindow

\* MarkFailure: an old failure no longer counts.  The reason decides which of
\* the two ends is moved.
MarkFailure(k, reason) ==
  LET e == (IF Outdated(k) THEN 0 ELSE errors[k]) + 1
      b == (IF Outdated(k) THEN 0 ELSE billing[k])
           + (IF reason = "billing" THEN 1 ELSE 0)
  IN  /\ errors' = [errors EXCEPT ![k] = e]
      /\ billing' = [billing EXCEPT ![k] = b]
      /\ lastFailure' = [lastFailure EXCEPT ![k] = now]
      /\ IF reason = "billing"
         THEN /\ disabledUntil' = [disabledUntil EXCEPT ![k] = now + Billing(b)]
              /\ UNCHANGED coolUntil
         ELSE /\ coolUntil' = [coolUntil EXCEPT ![k] = now + Standard(e)]
              /\ UNCHANGED disabledUntil

\* MarkSuccess forgets all of it but the time of the last failure.
MarkSuccess(k) ==
  /\ errors' = [errors EXCEPT ![k] = 0]
  /\ billing' = [billing EXCEPT ![k] = 0]
  /\ coolUntil' = [coolUntil EXCEPT ![k] = 0]
  /\ disabledUntil' = [disabledUntil EXCEPT ![k] = 0]
  /\ UNCHANGED lastFailure

----------------------------------------------------------------------------
\* The token buckets

\* refillLocked.
Refilled(k) == Min2(RPM[k] * Minute, tokens[k] + (now - lastTick[k]) * RPM[k])

HasToken(k) == k \notin Limited \/ Refilled(k) >= Minute

\* (mutant of TakeToken) Refills without moving lastTick.
TakeTokenKeepsTick(k) ==
  IF k \in Limited
  THEN /\ tokens' = [tokens EXCEPT ![k] = Refilled(k) - Minute]
       /\ granted' = [granted EXCEPT ![k] = @ + 1]
       /\ UNCHANGED lastTick
  ELSE UNCHANGED bucketVars

\* A token is taken; a candidate without a limiter has no bucket.
TakeToken(k) ==
  IF k \in Limited
  THEN /\ tokens' = [tokens EXCEPT ![k] = Refilled(k) - Minute]
       /\ lastTick' = [lastTick EXCEPT ![k] = now]
       /\ granted' = [granted EXCEPT ![k] = @ + 1]
  ELSE UNCHANGED bucketVars

\* There is none, and the bucket is only refilled.
Refill(k) ==
  /\ tokens' = [tokens EXCEPT ![k] = Refilled(k)]
  /\ lastTick' = [lastTick EXCEPT ![k] = now]
  /\ UNCHANGED granted

----------------------------------------------------------------------------
\* Execute

\* A turn calls Execute, for the first time or again, with its own context.
Begin(e) ==
  /\ pc[e] = "idle" /\ started < MaxStarted
  /\ started' = started + 1
  /\ pc' = [pc EXCEPT ![e] = "check"]
  /\ UNCHANGED <<now, cooldownVars, bucketVars, cand, checkedAt, canceled>>

\* Execute returns, and what it held is gone.
Return(e) ==
  /\ pc' = [pc EXCEPT ![e] = "idle"]
  /\ cand' = [cand EXCEPT ![e] = 1]
  /\ checkedAt' = [checkedAt EXCEPT ![e] = 0]
  /\ canceled' = canceled \ {e}

\* The candidate is passed over: the next one, or all of them are exhausted.
PassOver(e) ==
  \/ cand[e] = NumCandidates /\ Return(e)
  \/ /\ cand[e] < NumCandidates
     /\ cand' = [cand EXCEPT ![e] = @ + 1]
     /\ pc' = [pc EXCEPT ![e] = "check"]
     /\ UNCHANGED <<checkedAt, canceled>>

\* (mutant of Check) The last candidate is tried although it is in cooldown.
CheckButLast(e) ==
  /\ pc[e] = "check"
  /\ \/ e \in canceled /\ Return(e)
     \/ /\ e \notin canceled /\ ~Available(cand[e])
        /\ cand[e] < NumCandidates /\ PassOver(e)
     \/ /\ e \notin canceled
        /\ Available(cand[e]) \/ cand[e] = NumCandidates
        /\ checkedAt' = [checkedAt EXCEPT ![e] = now]
        /\ pc' = [pc EXCEPT ![e] = "acquire"]
        /\ UNCHANGED <<cand, canceled>>
  /\ UNCHANGED <<now, cooldownVars, bucketVars, started>>

Check(e) ==
  /\ pc[e] = "check"
  /\ \/ e \in canceled /\ Return(e)
     \/ e \notin canceled /\ ~Available(cand[e]) /\ PassOver(e)
     \/ /\ e \notin canceled /\ Available(cand[e])
        /\ checkedAt' = [checkedAt EXCEPT ![e] = now]
        /\ pc' = [pc EXCEPT ![e] = "acquire"]
        /\ UNCHANGED <<cand, canceled>>
  /\ UNCHANGED <<now, cooldownVars, bucketVars, started>>

\* TryAcquire, and one round of the loop of Wait.  A saturated candidate is
\* passed over unless it is the last, which is waited for.
Acquire(e) ==
  LET k == cand[e]
  IN  /\ pc[e] \in {"acquire", "waiting"}
      /\ \/ /\ HasToken(k)
            /\ TakeToken(k)
            /\ pc' = [pc EXCEPT ![e] = "calling"]
            /\ UNCHANGED <<cand, checkedAt, canceled>>
         \/ /\ ~HasToken(k) /\ k < NumCandidates
            /\ Refill(k)
            /\ PassOver(e)
         \/ /\ ~HasToken(k) /\ k = NumCandidates
            /\ Refill(k)
            /\ pc' = [pc EXCEPT ![e] = "waiting"]
            /\ UNCHANGED <<cand, checkedAt, canceled>>
      /\ UNCHANGED <<now, cooldownVars, started>>

WaitCanceled(e) ==
  /\ pc[e] = "waiting" /\ e \in canceled
  /\ Return(e)
  /\ UNCHANGED <<now, cooldownVars, bucketVars, started>>

CallSucceeds(e) ==
  /\ pc[e] = "calling"
  /\ MarkSuccess(cand[e])
  /\ Return(e)
  /\ UNCHANGED <<now, bucketVars, started>>

\* A canceled context, an error ClassifyError does not know, and one that is not
\* retriable end the execution and mark nothing.
CallEnds(e) ==
  /\ pc[e] = "calling"
  /\ Return(e)
  /\ UNCHANGED <<now, cooldownVars, bucketVars, started>>

\* A retriable error.
CallFails(e, reason) ==
  /\ pc[e] = "calling" /\ e \notin canceled
  /\ MarkFailure(cand[e], reason)
  /\ PassOver(e)
  /\ UNCHANGED <<now, bucketVars, started>>

Cancel(e) ==
  /\ pc[e] # "idle" /\ e \notin canceled
  /\ canceled' = canceled \cup {e}
  /\ UNCHANGED <<now, cooldownVars, bucketVars, execVars>>

Tick ==
  /\ now < MaxNow
  /\ now' = now + 1
  /\ UNCHANGED <<cooldownVars, bucketVars, execVars, canceled>>

Next ==
  \/ \E e \in Executions :
       \/ Begin(e) \/ Check(e) \/ Acquire(e) \/ WaitCanceled(e) \/ CallSucceeds(e)
       \/ CallEnds(e) \/ Cancel(e)
       \/ \E reason \in {"billing", "other"} : CallFails(e, reason)
  \/ Tick

Spec == Init /\ [][Next]_vars

----------------------------------------------------------------------------
\* Properties

TypeOK ==
  /\ now \in Nat
  /\ errors \in [Candidates -> Nat]
  /\ billing \in [Candidates -> Nat]
  /\ coolUntil \in [Candidates -> Nat]
  /\ disabledUntil \in [Candidates -> Nat]
  /\ lastFailure \in [Candidates -> Nat \cup {-1}]
  /\ tokens \in [Candidates -> Nat]
  /\ lastTick \in [Candidates -> Nat]
  /\ granted \in [Candidates -> Nat]
  /\ pc \in [Executions -> {"idle", "check", "acquire", "waiting", "calling"}]
  /\ cand \in [Executions -> Candidates]
  /\ checkedAt \in [Executions -> Nat]
  /\ canceled \subseteq Executions
  /\ started \in Nat

\* What the clock and the tables have to do with each other.  An end never lies
\* further ahead of the last failure than the count of failures gives.
Clocks ==
  \A k \in Candidates :
    /\ lastFailure[k] <= now
    /\ lastTick[k] <= now
    /\ \/ coolUntil[k] = 0
       \/ /\ errors[k] > 0 /\ lastFailure[k] >= 0
          /\ coolUntil[k] <= lastFailure[k] + Standard(errors[k])
    /\ \/ disabledUntil[k] = 0
       \/ /\ lastFailure[k] >= 0
          /\ disabledUntil[k] <= lastFailure[k] + (IF billing[k] = 0 THEN 0 ELSE Billing(billing[k]))

\* What is in a bucket and what was taken from it is no more than the burst and
\* what flowed in.
Buckets ==
  \A k \in Candidates :
    /\ tokens[k] <= RPM[k] * Minute
    /\ granted[k] * Minute + tokens[k] <= RPM[k] * (Minute + lastTick[k])

\* Between its check and the end of its call an execution's candidate was
\* available at the check, or has failed since.
Checked ==
  \A e \in Executions : LET k == cand[e] IN
    pc[e] \in {"acquire", "waiting", "calling"} =>
      /\ checkedAt[e] <= now
      /\ \/ coolUntil[k] <= checkedAt[e] /\ disabledUntil[k] <= checkedAt[e]
         \/ lastFailure[k] >= checkedAt[e]

\* The inductive invariant behind the three properties below.
IInv == TypeOK /\ Clocks /\ Buckets /\ Checked

\* However many turns share a limiter, and however they poll it, at any time no
\* more requests were let through by the chain than a minute's burst and the rate
\* allow.  A turn with one candidate calls its provider without the chain.
RateBound ==
  \A k \in Limited : granted[k] * Minute <= RPM[k] * (Minute + now)

\* A provider in cooldown is called only by an execution that looked before the
\* failure that started it: the check may be stale by the time of the call, but
\* never by a failure that was already there.  Of calls through the chain only.
CooldownRespected ==
  \A e \in Executions :
    pc[e] = "calling" /\ ~Available(cand[e]) => lastFailure[cand[e]] >= checkedAt[e]

\* One more failure never makes a provider available sooner, whatever its reason
\* and although counts are reset after the failure window; only a success does.
NeverShortened ==
  [][\A k \in Candidates :
       errors'[k] # 0 => /\ coolUntil'[k] >= coolUntil[k]
                         /\ disabledUntil'[k] >= disabledUntil[k]]_vars
=============================================================================
