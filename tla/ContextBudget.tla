----------------------------- MODULE ContextBudget -----------------------------
(***************************************************************************)
(* Where a session's history may be cut (context_budget.go), what the      *)
(* emergency compression keeps of it (context_legacy.go) and what is left  *)
(* out of it when it is shown to a provider (context.go).  A cut is the    *)
(* number of messages dropped from the front, as in the code's 0-based     *)
(* slices history[cut:].                                                   *)
(*                                                                         *)
(* A message has a role and says what it is of: a call of k tools in       *)
(* iteration n, the result of the k-th of them, or anything else.  The     *)
(* pair of n and the place of a tool in its call stands for the call's ID. *)
(***************************************************************************)
EXTENDS Integers, Sequences, FiniteSets, SequencesExt

Message(role, of, n, k) == [role |-> role, of |-> of, n |-> n, k |-> k]

-------------------------------------------------------------------------------
(* Cuts. *)

\* The cuts that leave a history beginning at a user message.
TurnBoundaries(history) ==
  {cut \in 0 .. Len(history) - 1 : history[cut + 1].role = "user"}

Keep(history, cut) == SubSeq(history, cut + 1, Len(history))

Highest(S) == CHOOSE i \in S : \A j \in S : j <= i
Lowest(S)  == CHOOSE i \in S : \A j \in S : i <= j

\* (mutant of SafeBoundary) cuts where it is asked to.
CutAnywhere(history, target) == target

\* The boundary to cut at, preferring the one that keeps more; 0 keeps all.
SafeBoundary(history, target) ==
  LET turns == TurnBoundaries(history)
      back  == {t \in turns : 0 < t /\ t <= target}
      ahead == {t \in turns : target < t}
  IN  IF target <= 0 THEN 0
      ELSE IF target >= Len(history) THEN Len(history)
      ELSE IF turns = {} THEN target
      ELSE IF back # {} THEN Highest(back)
      ELSE IF ahead # {} THEN Lowest(ahead)
      ELSE 0

\* The boundary with as many boundaries before it as half of all.
MiddleBoundary(turns) ==
  CHOOSE t \in turns :
    Cardinality({u \in turns : u < t}) = Cardinality(turns) \div 2

CompressionCut(history) ==
  LET turns == TurnBoundaries(history)
  IN  IF Cardinality(turns) >= 2 THEN MiddleBoundary(turns)
      ELSE SafeBoundary(history, Len(history) \div 2)

\* Half of the turns go; a single turn is reduced to its user message.
CompressionSpan(history) ==
  LET cut   == CompressionCut(history)
      turns == TurnBoundaries(history)
      user  == Highest(turns) + 1
  IN  IF Len(history) <= 2 THEN <<1, Len(history)>>
      ELSE IF cut > 0 THEN <<cut + 1, Len(history)>>
      ELSE IF turns = {} THEN <<1, 0>>
      ELSE <<user, user>>

ForceCompression(history) ==
  LET span == CompressionSpan(history) IN SubSeq(history, span[1], span[2])

-------------------------------------------------------------------------------
(* What the provider is shown: no result without its call, no call without  *)
(* all of its results.                                                      *)

Answers(result, call) ==
  result.of = "result" /\ result.n = call.n /\ result.k \in 1 .. call.k

\* (mutant of Follows) a call must follow the user's message directly.
FollowsUserOnly(m, shown) ==
  m.of = "call" => shown # <<>> /\ Last(shown).role = "user"

\* The tool messages directly after position i.
ToolBlock(h, i) ==
  {j \in i + 1 .. Len(h) : \A l \in i + 1 .. j : h[l].role = "tool"}

\* The first pass looks back: at the message a call follows, and for a tool
\* message at the last one that is no tool message.
Follows(m, shown) ==
  CASE m.role = "system" -> FALSE
    [] m.role = "tool"   -> \E i \in DOMAIN shown :
                              /\ shown[i].of = "call"
                              /\ i + 1 .. Len(shown) \subseteq ToolBlock(shown, i)
    [] m.of = "call"     -> shown # <<>> /\ Last(shown).role \in {"user", "tool"}
    [] OTHER             -> TRUE

FirstPass(history) ==
  LET kept[i \in 0 .. Len(history)] ==
        IF i = 0 THEN <<>>
        ELSE LET shown == kept[i - 1]
             IN  IF Follows(history[i], shown) THEN Append(shown, history[i]) ELSE shown
  IN  kept[Len(history)]

AllAnswered(h, i) ==
  \A k \in 1 .. h[i].k :
    \E j \in ToolBlock(h, i) : Answers(h[j], h[i]) /\ h[j].k = k

\* A result is shown with the call its block belongs to, once.
ShownResult(h, j) ==
  \E i \in 1 .. j - 1 :
    /\ h[i].of = "call" /\ AllAnswered(h, i)
    /\ j \in ToolBlock(h, i) /\ Answers(h[j], h[i])
    /\ \A l \in i + 1 .. j - 1 : h[l] # h[j]

\* (mutant of Sanitize) nothing is left out.
ShowAll(history) == history

\* The messages at the places shown, in their order.
Selected(h, shown) ==
  LET kept[i \in 0 .. Len(h)] ==
        IF i = 0 THEN <<>>
        ELSE LET before == kept[i - 1]
             IN  IF i \in shown THEN Append(before, h[i]) ELSE before
  IN  kept[Len(h)]

Sanitize(history) ==
  LET h == FirstPass(history)
  IN  Selected(h, {i \in DOMAIN h : IF h[i].of = "call" THEN AllAnswered(h, i)
                                    ELSE h[i].role = "tool" => ShownResult(h, i)})

\* What a provider demands: the results of each call, and no others, are the
\* tool messages that follow it.
Paired(h) ==
  /\ \A i \in DOMAIN h : h[i].of = "call" =>
       /\ AllAnswered(h, i)
       /\ Cardinality(ToolBlock(h, i)) = h[i].k
  /\ \A j \in DOMAIN h : h[j].role = "tool" =>
       \E i \in 1 .. j - 1 :
         h[i].of = "call" /\ j \in ToolBlock(h, i) /\ Answers(h[j], h[i])
===============================================================================
