----------------------------- MODULE SubTurnProofs ----------------------------
(***************************************************************************)
(* The safety properties of SubTurn for any number of sub-turns, any depth, *)
(* any number of slots and any room for results.                           *)
(*                                                                         *)
(* Slots are counted by the children that own one, which is what a leak on *)
(* one of the ways out of spawnSubTurn would break.  The depth limit needs *)
(* to know that a child is one deeper than its parent (Tree), the place of *)
(* a result that a result nobody has delivered is nowhere yet (Places).    *)
(***************************************************************************)
EXTENDS SubTurn, FiniteSetTheorems, TLAPS

USE SubTurnAssumption

\* What a sequence holds, and the children whose result is in the channel of a turn.
Elems(s) == {s[i] : i \in DOMAIN s}
Held(t) == Elems(chan[t])

\* A child is one deeper than its parent, which was started before it.
Tree ==
  /\ depth[Root] = 0 /\ pc[Root] \in {"running", "done"}
  /\ \A c \in Subs : pc[c] # "idle" =>
       pc[parent[c]] # "idle" /\ depth[c] = depth[parent[c]] + 1

\* Who returned has given its slot back when it delivers; only an asynchronous
\* child sends.
SlotBack ==
  \A c \in Subs :
    /\ pc[c] \in {"deliver", "send"} /\ outcome[c] # "panic" => ~holds[c]
    /\ pc[c] = "send" => async[c]

\* A result is in a channel, in messages or announced only when its child is done.
Places ==
  /\ \A t \in Turns : \A c \in Held(t) : pc[c] = "done" /\ parent[c] = t /\ async[c]
  /\ \A t \in Turns : \A c \in received[t] : pc[c] = "done" /\ async[c]
  /\ \A c \in Subs : pc[c] # "done" => events[c] = {}
  /\ ResultGoesToOnePlace

FullInv == TypeOK /\ SlotsCounted /\ WithinLimits /\ Tree /\ SlotBack /\ Places

----------------------------------------------------------------------------
\* Sequences and sets

\* Sub-turns are turns, and the root is none of them.
LEMMA SubsAreTurns == Subs \subseteq Turns /\ Root \in Turns /\ Root \notin Subs
BY DEF Subs, Turns, Root

\* What is in a sequence after one more is appended.
LEMMA HeldAppend ==
  ASSUME NEW S, NEW s \in Seq(S), NEW c \in S
  PROVE  Elems(Append(s, c)) = Elems(s) \cup {c}
<1>1. /\ DOMAIN Append(s, c) = 1 .. Len(s) + 1 /\ DOMAIN s = 1 .. Len(s)
      /\ Append(s, c)[Len(s) + 1] = c
      /\ \A i \in 1 .. Len(s) : Append(s, c)[i] = s[i]
      /\ Len(s) \in Nat
  OBVIOUS
<1>2. ASSUME NEW x \in {Append(s, c)[i] : i \in DOMAIN Append(s, c)}
      PROVE  x \in {s[i] : i \in DOMAIN s} \cup {c}
  <2>1. PICK i \in 1 .. Len(s) + 1 : x = Append(s, c)[i]
    BY <1>1, <1>2
  <2>2. i = Len(s) + 1 \/ i \in 1 .. Len(s)
    BY <1>1
  <2> QED
    BY <1>1, <2>1, <2>2
<1>3. ASSUME NEW x \in {s[i] : i \in DOMAIN s} \cup {c}
      PROVE  x \in {Append(s, c)[i] : i \in DOMAIN Append(s, c)}
  <2>1. CASE x = c
    <3>1. Len(s) + 1 \in DOMAIN Append(s, c)
      BY <1>1
    <3> QED
      BY <2>1, <3>1, <1>1
  <2>2. CASE x \in {s[i] : i \in DOMAIN s}
    <3>1. PICK i \in 1 .. Len(s) : x = s[i]
      BY <1>1, <2>2
    <3>2. i \in DOMAIN Append(s, c) /\ x = Append(s, c)[i]
      BY <1>1, <3>1
    <3> QED
      BY <3>2
  <2> QED
    BY <1>3, <2>1, <2>2
<1> QED
  BY <1>2, <1>3 DEF Elems

\* What is in a sequence is its head and what is in its tail.
LEMMA HeldTail ==
  ASSUME NEW S, NEW s \in Seq(S), s # <<>>
  PROVE  /\ Tail(s) \in Seq(S) /\ Head(s) \in S
         /\ Len(Tail(s)) <= Len(s)
         /\ Elems(s) = Elems(Tail(s)) \cup {Head(s)}
<1>1. /\ Len(s) \in Nat /\ Len(s) >= 1 /\ DOMAIN s = 1 .. Len(s)
      /\ Tail(s) \in Seq(S) /\ Head(s) = s[1]
      /\ DOMAIN Tail(s) = 1 .. Len(s) - 1
      /\ Len(Tail(s)) = Len(s) - 1
      /\ \A i \in 1 .. Len(s) - 1 : Tail(s)[i] = s[i + 1]
  OBVIOUS
<1>2. Head(s) \in S
  OBVIOUS
<1>3. ASSUME NEW x \in {s[i] : i \in DOMAIN s}
      PROVE  x \in {Tail(s)[i] : i \in DOMAIN Tail(s)} \cup {Head(s)}
  <2>1. PICK i \in 1 .. Len(s) : x = s[i]
    BY <1>1, <1>3
  <2>2. CASE i = 1
    BY <1>1, <2>1, <2>2
  <2>3. CASE i # 1
    <3>1. i - 1 \in DOMAIN Tail(s) /\ Tail(s)[i - 1] = x
      BY <1>1, <2>1, <2>3
    <3> QED
      BY <3>1
  <2> QED
    BY <2>2, <2>3
<1>4. ASSUME NEW x \in {Tail(s)[i] : i \in DOMAIN Tail(s)} \cup {Head(s)}
      PROVE  x \in {s[i] : i \in DOMAIN s}
  <2>1. CASE x = Head(s)
    <3>1. 1 \in DOMAIN s
      BY <1>1
    <3> QED
      BY <1>1, <2>1, <3>1
  <2>2. CASE x \in {Tail(s)[i] : i \in DOMAIN Tail(s)}
    <3>1. PICK i \in 1 .. Len(s) - 1 : x = Tail(s)[i]
      BY <1>1, <2>2
    <3>2. i + 1 \in DOMAIN s /\ s[i + 1] = x
      BY <1>1, <3>1
    <3> QED
      BY <3>2
  <2> QED
    BY <1>4, <2>1, <2>2
<1>5. Len(Tail(s)) <= Len(s)
  BY <1>1
<1>6. Elems(s) = Elems(Tail(s)) \cup {Head(s)}
  BY <1>3, <1>4 DEF Elems
<1> QED
  BY <1>1, <1>2, <1>5, <1>6

\* A channel with room for one more result.
LEMMA RoomForOne ==
  ASSUME NEW S, NEW s \in Seq(S), NEW c \in S, Len(s) < Capacity
  PROVE  Append(s, c) \in Seq(S) /\ Len(Append(s, c)) <= Capacity
BY SMT

----------------------------------------------------------------------------
\* Slots

\* Who owns a slot of a turn is a finite set of children.
LEMMA HoldersFinite ==
  ASSUME NEW p
  PROVE  IsFiniteSet(Holders(p)) /\ IsFiniteSet(Holders(p)')
<1>1. IsFiniteSet(Subs)
  BY FS_Interval DEF Subs
<1>2. Holders(p) \subseteq Subs /\ Holders(p)' \subseteq Subs
  BY DEF Holders
<1> QED
  BY <1>1, <1>2, FS_Subset

\* One goroutine moves, the others stay where they are and keep what they have.
Others(c) ==
  \A d \in Turns \ {c} :
    /\ pc'[d] = pc[d] /\ parent'[d] = parent[d] /\ depth'[d] = depth[d]
    /\ async'[d] = async[d] /\ holds'[d] = holds[d] /\ outcome'[d] = outcome[d]

\* No slot changes hands.
LEMMA SlotsSame ==
  ASSUME TypeOK, SlotsCounted, NEW c \in Turns, Others(c), sem' = sem,
         holds'[c] = holds[c], parent'[c] = parent[c] \/ ~holds[c],
         c \in Subs /\ holds[c] => pc'[c] \notin {"idle", "acquire", "done"}
  PROVE  SlotsCounted'
<1>1. ASSUME NEW p \in Turns PROVE Holders(p)' = Holders(p)
  BY SubsAreTurns DEF Holders, Others
<1>2. \A p \in Turns : sem'[p] = Cardinality(Holders(p)')
  BY <1>1 DEF SlotsCounted
<1>3. \A d \in Subs : holds'[d] => pc'[d] \notin {"idle", "acquire", "done"}
  BY SubsAreTurns DEF SlotsCounted, Others
<1> QED
  BY <1>2, <1>3 DEF SlotsCounted

\* A child takes a slot of its parent.
LEMMA SlotTaken ==
  ASSUME TypeOK, SlotsCounted, NEW c \in Subs, Others(c), parent' = parent,
         pc[c] = "acquire", pc'[c] = "checks",
         sem' = SlotsOf(sem, parent[c], 1), holds'[c] = TRUE
  PROVE  SlotsCounted'
<1> PICK p \in Turns : p = parent[c]
  BY SubsAreTurns DEF TypeOK
<1>1. ~holds[c]
  BY DEF SlotsCounted
<1>2. c \notin Holders(p) /\ Holders(p)' = Holders(p) \cup {c}
  BY <1>1, SubsAreTurns DEF Holders, Others
<1>3. Cardinality(Holders(p)') = Cardinality(Holders(p)) + 1
  BY <1>2, HoldersFinite, FS_AddElement
<1>4. sem'[p] = sem[p] + 1 /\ \A q \in Turns \ {p} : sem'[q] = sem[q]
  BY DEF TypeOK, SlotsOf
<1>5. ASSUME NEW q \in Turns \ {p} PROVE Holders(q)' = Holders(q)
  BY SubsAreTurns DEF Holders, Others
<1>6. \A q \in Turns : sem'[q] = Cardinality(Holders(q)')
  BY <1>3, <1>4, <1>5 DEF SlotsCounted
<1>7. \A d \in Subs : holds'[d] => pc'[d] \notin {"idle", "acquire", "done"}
  BY SubsAreTurns DEF SlotsCounted, Others
<1> QED
  BY <1>6, <1>7 DEF SlotsCounted

\* A child gives back the slot it has, if it has one.
LEMMA SlotReleased ==
  ASSUME TypeOK, SlotsCounted, NEW c \in Subs, Others(c), parent' = parent, ReleaseSlot(c)
  PROVE  SlotsCounted' /\ sem' \in [Turns -> 0 .. MaxConcurrent] /\ ~holds'[c]
<1> PICK p \in Turns : p = parent[c]
  BY SubsAreTurns DEF TypeOK
<1>1. ~holds'[c]
  BY SubsAreTurns DEF ReleaseSlot, TypeOK
<1>2. \A d \in Subs : holds'[d] => pc'[d] \notin {"idle", "acquire", "done"}
  BY <1>1, SubsAreTurns DEF SlotsCounted, Others
<1>3. ASSUME NEW q \in Turns \ {p} PROVE Holders(q)' = Holders(q)
  BY <1>1, SubsAreTurns DEF Holders, Others
<1>4. CASE holds[c]
  <2>1. c \in Holders(p) /\ Holders(p)' = Holders(p) \ {c}
    BY <1>1, <1>4, SubsAreTurns DEF Holders, Others
  <2>2. Cardinality(Holders(p)') = Cardinality(Holders(p)) - 1
    BY <2>1, HoldersFinite, FS_RemoveElement
  <2>3. Cardinality(Holders(p)') \in Nat
    BY HoldersFinite, FS_CardinalityType
  <2>4. sem' = [sem EXCEPT ![p] = @ + (-1)]
    BY <1>4 DEF ReleaseSlot, SlotsOf
  <2>5. sem'[p] = sem[p] - 1 /\ \A q \in Turns \ {p} : sem'[q] = sem[q]
    BY <2>4 DEF TypeOK
  <2>6. sem[p] = Cardinality(Holders(p))
    BY DEF SlotsCounted
  <2>7. sem'[p] = Cardinality(Holders(p)')
    BY <2>2, <2>5, <2>6
  <2>8. \A q \in Turns : sem'[q] = Cardinality(Holders(q)')
    BY <1>3, <2>5, <2>7 DEF SlotsCounted
  <2>9. sem[p] \in 0 .. MaxConcurrent /\ sem'[p] \in Nat
    BY <2>3, <2>7 DEF TypeOK
  <2>10. sem'[p] \in 0 .. MaxConcurrent
    BY <2>5, <2>9
  <2>11. sem' \in [Turns -> 0 .. MaxConcurrent]
    BY <2>4, <2>5, <2>10 DEF TypeOK
  <2> QED
    BY <1>1, <1>2, <2>8, <2>11 DEF SlotsCounted
<1>5. CASE ~holds[c]
  <2>1. Holders(p)' = Holders(p)
    BY <1>1, <1>5, SubsAreTurns DEF Holders, Others
  <2>2. sem' = sem
    BY <1>5 DEF ReleaseSlot
  <2>3. \A q \in Turns : sem'[q] = Cardinality(Holders(q)')
    BY <1>3, <2>1, <2>2 DEF SlotsCounted
  <2>4. sem' \in [Turns -> 0 .. MaxConcurrent]
    BY <2>2 DEF TypeOK
  <2> QED
    BY <1>1, <1>2, <2>3, <2>4 DEF SlotsCounted
<1> QED
  BY <1>4, <1>5

----------------------------------------------------------------------------
\* What a step of one goroutine keeps

\* A goroutine that is under way stays where it is in the tree.
LEMMA TreeKept ==
  ASSUME TypeOK, Tree, NEW c \in Turns, Others(c), pc[c] # "idle", pc'[c] # "idle",
         parent'[c] = parent[c], depth'[c] = depth[c],
         c = Root => pc'[c] \in {"running", "done"}
  PROVE  Tree'
<1>1. \A t \in Turns : depth'[t] = depth[t] /\ parent'[t] = parent[t]
  BY DEF Others
<1>2. \A t \in Turns : pc[t] # "idle" => pc'[t] # "idle"
  BY DEF Others
<1>3. \A t \in Turns : pc'[t] # "idle" => pc[t] # "idle"
  BY DEF Others
<1>4. depth'[Root] = 0 /\ pc'[Root] \in {"running", "done"}
  BY <1>1, SubsAreTurns DEF Tree, Others
<1>5. ASSUME NEW d \in Subs, pc'[d] # "idle"
      PROVE  pc'[parent'[d]] # "idle" /\ depth'[d] = depth'[parent'[d]] + 1
  <2>1. d \in Turns /\ parent[d] \in Turns
    BY SubsAreTurns DEF TypeOK
  <2> QED
    BY <1>1, <1>2, <1>3, <1>5, <2>1 DEF Tree
<1> QED
  BY <1>4, <1>5 DEF Tree

\* A goroutine runs on only within the depth limit.
LEMMA LimitsKept ==
  ASSUME WithinLimits, NEW c \in Turns, Others(c), depth'[c] = depth[c], chan' = chan,
         pc'[c] \in {"link", "running"} => depth[c] <= MaxDepth
  PROVE  WithinLimits'
BY DEF WithinLimits, Others

\* Who is about to deliver holds no slot.
LEMMA SlotBackKept ==
  ASSUME SlotBack, NEW c \in Turns, Others(c),
         pc'[c] \in {"deliver", "send"} /\ outcome'[c] # "panic" => ~holds'[c],
         pc'[c] = "send" => async'[c]
  PROVE  SlotBack'
BY SubsAreTurns DEF SlotBack, Others

\* Nobody's result moves while a child is under way.
LEMMA PlacesStay ==
  ASSUME TypeOK, Places, NEW c \in Turns, Others(c), pc[c] # "done",
         UNCHANGED resultVars, pc'[c] # "done" \/ outcome'[c] # "returned"
  PROVE  Places'
<1>1. chan' = chan /\ events' = events /\ received' = received
  BY DEF resultVars
<1>2. \A t \in Turns : \A d \in Held(t) : d # c /\ d \in Subs
  BY SubsAreTurns DEF Places, Held, Elems, TypeOK
<1>3. \A t \in Turns : \A d \in Held(t)' : pc'[d] = "done" /\ parent'[d] = t /\ async'[d]
  BY <1>1, <1>2, SubsAreTurns DEF Places, Others, Held
<1>4. \A t \in Turns : \A d \in received'[t] : pc'[d] = "done" /\ async'[d]
  <2>1. \A t \in Turns : \A d \in received[t] : d \in Subs /\ d # c
    BY DEF Places, TypeOK
  <2> QED
    BY <1>1, <2>1, SubsAreTurns DEF Places, Others
<1>5. \A d \in Subs : pc'[d] # "done" => events'[d] = {}
  BY <1>1, SubsAreTurns DEF Places, Others
<1>6. ResultGoesToOnePlace'
  <2> SUFFICES ASSUME NEW d \in Subs, pc'[d] = "done", outcome'[d] = "returned"
               PROVE  LET taken == InChannel(d)' \/ d \in received'[parent'[d]]
                      IN  IF async'[d]
                          THEN events'[d] = IF taken THEN {"delivered"} ELSE {"orphan"}
                          ELSE events'[d] = {} /\ ~taken
    BY DEF ResultGoesToOnePlace
  <2>1. d # c /\ d \in Turns
    BY SubsAreTurns
  <2>2. /\ pc[d] = "done" /\ outcome[d] = "returned" /\ parent'[d] = parent[d]
        /\ async'[d] = async[d] /\ events'[d] = events[d]
    BY <1>1, <2>1 DEF Others
  <2>3. InChannel(d)' <=> InChannel(d)
    BY <1>1, <2>2 DEF InChannel
  <2> QED
    BY <1>1, <2>2, <2>3 DEF Places, ResultGoesToOnePlace
<1> QED
  BY <1>3, <1>4, <1>5, <1>6 DEF Places

\* A child that is done, its result in one place: put is what went into the channel
\* of its parent, if anything did.
LEMMA PlacesEnd ==
  ASSUME TypeOK, Places, NEW c \in Subs, Others(c), pc[c] # "done", pc'[c] = "done",
         parent' = parent, async' = async, outcome' = outcome, received' = received,
         NEW put \in SUBSET {c}, NEW p \in Turns, p = parent[c],
         \A t \in Turns \ {p} : Held(t)' = Held(t),
         Held(p)' = Held(p) \cup put,
         \A d \in Subs \ {c} : events'[d] = events[d],
         outcome[c] # "panic" =>
           events'[c] = IF async[c] THEN (IF put = {} THEN {"orphan"} ELSE {"delivered"}) ELSE {},
         put # {} => async[c]
  PROVE  Places'
<1>1. \A t \in Turns : \A d \in Held(t) : d # c /\ d \in Subs
  BY SubsAreTurns DEF Places, Held, Elems, TypeOK
<1>2. \A t \in Turns : \A d \in received[t] : d # c /\ d \in Subs
  BY DEF Places, TypeOK
<1>3. ASSUME NEW t \in Turns, NEW d \in Held(t)'
      PROVE  pc'[d] = "done" /\ parent'[d] = t /\ async'[d]
  <2>1. CASE d = c
    <3>1. t = p /\ put # {}
      BY <1>1, <1>3, <2>1
    <3> QED
      BY <2>1, <3>1
  <2>2. CASE d # c
    <3>1. d \in Held(t)
      BY <1>3, <2>2
    <3> QED
      BY <1>1, <2>2, <3>1, SubsAreTurns DEF Places, Others
  <2> QED
    BY <2>1, <2>2
<1>4. \A t \in Turns : \A d \in received'[t] : pc'[d] = "done" /\ async'[d]
  BY <1>2, SubsAreTurns DEF Places, Others
<1>5. \A d \in Subs : pc'[d] # "done" => events'[d] = {}
  BY SubsAreTurns DEF Places, Others
<1>6. ASSUME NEW d \in Subs, pc'[d] = "done", outcome'[d] = "returned"
      PROVE  LET taken == InChannel(d)' \/ d \in received'[parent'[d]]
             IN  IF async'[d]
                 THEN events'[d] = IF taken THEN {"delivered"} ELSE {"orphan"}
                 ELSE events'[d] = {} /\ ~taken
  <2>2. InChannel(d) <=> d \in Held(parent[d])
    BY DEF InChannel, Held, Elems
  <2>3. parent[d] \in Turns
    BY SubsAreTurns DEF TypeOK
  <2>4. CASE d = c
    <3>1. c \notin Held(p) /\ c \notin received[p]
      BY <1>1, <1>2
    <3>2. (c \in Held(p)') <=> put # {}
      BY <3>1
    <3>3. InChannel(d)' <=> d \in Held(p)'
      BY <2>4 DEF InChannel, Held, Elems
    <3>4. (InChannel(d)' \/ d \in received'[parent'[d]]) <=> put # {}
      BY <2>4, <3>1, <3>2, <3>3
    <3> QED
      BY <1>6, <2>4, <3>4
  <2>5. CASE d # c
    <3>1. pc[d] = "done" /\ outcome[d] = "returned" /\ events'[d] = events[d]
      BY <1>6, <2>5, SubsAreTurns DEF Others
    <3> PICK q \in Turns : q = parent[d]
      BY <2>3
    <3>2. d \in Held(q)' <=> d \in Held(q)
      BY <2>5
    <3>3. (InChannel(d)' \/ d \in received'[parent'[d]])
          <=> (InChannel(d) \/ d \in received[parent[d]])
      BY <2>2, <3>2 DEF InChannel, Held, Elems
    <3> QED
      BY <3>1, <3>3 DEF Places, ResultGoesToOnePlace
  <2> QED
    BY <2>4, <2>5
<1>7. ResultGoesToOnePlace'
  BY <1>6 DEF ResultGoesToOnePlace
<1> QED
  BY <1>3, <1>4, <1>5, <1>7 DEF Places

----------------------------------------------------------------------------
\* The steps

\* A child that another goroutine's step does not name keeps what it has.
LEMMA Frame ==
  ASSUME TypeOK, NEW c \in Turns, NEW to \in Steps, pc' = [pc EXCEPT ![c] = to]
  PROVE  /\ pc' \in [Turns -> Steps] /\ pc'[c] = to
         /\ \A d \in Turns \ {c} : pc'[d] = pc[d]
BY DEF TypeOK

\* A new child is one deeper than the turn that spawns it and has nothing yet.
LEMMA SpawnStep ==
  ASSUME FullInv, NEW p \in Turns, NEW c \in Subs, NEW isAsync \in BOOLEAN,
         Spawn(p, c, isAsync)
  PROVE  FullInv'
<1>1. /\ pc[p] = "running" /\ pc[c] = "idle"
      /\ pc' = [pc EXCEPT ![c] = "acquire"]
      /\ parent' = [parent EXCEPT ![c] = p]
      /\ depth' = [depth EXCEPT ![c] = depth[p] + 1]
      /\ async' = [async EXCEPT ![c] = isAsync]
      /\ UNCHANGED <<sem, holds, children, active, outcome, finishVars, resultVars>>
  BY DEF Spawn, Runs
<1>2. TypeOK /\ c \in Turns /\ c # Root /\ p # c
  BY <1>1, SubsAreTurns DEF FullInv
<1>3. Others(c) /\ pc'[c] = "acquire" /\ depth'[c] = depth[p] + 1 /\ parent'[c] = p
  BY <1>1, <1>2 DEF Others, TypeOK
<1>4. TypeOK'
  <2>1. async' \in [Turns -> BOOLEAN]
    BY <1>1, <1>2 DEF TypeOK
  <2> QED
    BY <1>1, <1>2, <2>1 DEF TypeOK, Steps, finishVars, resultVars
<1>5. ~holds[c]
  BY <1>1 DEF FullInv, SlotsCounted
<1>6. SlotsCounted'
  BY <1>1, <1>2, <1>3, <1>5, SlotsSame DEF FullInv
<1>7. WithinLimits'
  BY <1>1, <1>3 DEF FullInv, WithinLimits, Others, resultVars
<1>8. Tree'
  <2>1. \A t \in Turns \ {c} : pc'[t] = pc[t] /\ depth'[t] = depth[t] /\ parent'[t] = parent[t]
    BY <1>3 DEF Others
  <2>2. depth'[Root] = 0 /\ pc'[Root] \in {"running", "done"}
    BY <1>2, <2>1, SubsAreTurns DEF FullInv, Tree
  <2>3. ASSUME NEW d \in Subs, pc'[d] # "idle"
        PROVE  pc'[parent'[d]] # "idle" /\ depth'[d] = depth'[parent'[d]] + 1
    <3>1. CASE d = c
      BY <1>1, <1>2, <1>3, <2>1, <3>1
    <3>2. CASE d # c
      <4>1. /\ pc[d] # "idle" /\ parent'[d] = parent[d] /\ depth'[d] = depth[d]
            /\ parent[d] \in Turns
        BY <2>1, <2>3, <3>2, SubsAreTurns DEF FullInv, TypeOK
      <4>2. pc[parent[d]] # "idle" /\ depth[d] = depth[parent[d]] + 1
        BY <4>1 DEF FullInv, Tree
      <4>3. parent[d] # c
        BY <1>1, <4>2
      <4> QED
        BY <2>1, <4>1, <4>2, <4>3
    <3> QED
      BY <3>1, <3>2
  <2> QED
    BY <2>2, <2>3 DEF Tree
<1>9. SlotBack'
  BY <1>2, <1>3, SlotBackKept DEF FullInv
<1>10. Places'
  BY <1>1, <1>2, <1>3, PlacesStay DEF FullInv
<1> QED
  BY <1>4, <1>6, <1>7, <1>8, <1>9, <1>10 DEF FullInv

\* A step of a child on its way that leaves slots and results alone.
LEMMA PlainStep ==
  ASSUME FullInv, NEW c \in Turns, NEW to \in Steps, pc[c] \notin {"idle", "done"},
         to # "idle", pc' = [pc EXCEPT ![c] = to],
         outcome' \in [Turns -> {"none", "returned", "panic", "refused"}],
         \A d \in Turns \ {c} : outcome'[d] = outcome[d],
         active' \subseteq Turns, children' \in [Turns -> SUBSET Subs],
         UNCHANGED <<sem, holds, spawnVars, finishVars, resultVars>>,
         c = Root => to \in {"running", "done"},
         c \in Subs /\ to \in {"acquire", "done"} => ~holds[c],
         to \in {"link", "running"} => depth[c] <= MaxDepth,
         to \in {"deliver", "send"} /\ outcome'[c] # "panic" => ~holds[c],
         to = "send" => async[c],
         to # "done" \/ outcome'[c] # "returned" \/ c = Root
  PROVE  FullInv'
<1>1. /\ pc' \in [Turns -> Steps] /\ pc'[c] = to
      /\ \A d \in Turns \ {c} : pc'[d] = pc[d]
  BY Frame DEF FullInv
<1>2. Others(c)
  BY <1>1 DEF Others, spawnVars
<1>3. TypeOK'
  BY <1>1 DEF FullInv, TypeOK, spawnVars, finishVars, resultVars
<1>4. SlotsCounted'
  BY <1>1, <1>2, SlotsSame DEF FullInv, spawnVars
<1>5. WithinLimits'
  BY <1>1, <1>2, LimitsKept DEF FullInv, spawnVars, resultVars
<1>6. Tree'
  BY <1>1, <1>2, TreeKept DEF FullInv, spawnVars
<1>7. SlotBack'
  BY <1>1, <1>2, SlotBackKept DEF FullInv, spawnVars
<1>8. Places'
  <2>1. CASE c # Root
    BY <1>1, <1>2, <2>1, PlacesStay DEF FullInv
  <2>2. CASE c = Root
    <3>1. \A d \in Subs : d \in Turns /\ d # c
      BY <2>2, SubsAreTurns
    <3>2. /\ pc[c] = "running"
          /\ chan' = chan /\ events' = events /\ received' = received
          /\ parent' = parent /\ async' = async
      BY <2>2 DEF FullInv, Tree, resultVars, spawnVars
    <3>3. \A t \in Turns : (\A d \in Held(t) : d \in Subs) /\ (\A d \in received[t] : d \in Subs)
      BY DEF FullInv, TypeOK, Held, Elems
    <3>4. \A d \in Subs : pc'[d] = pc[d] /\ outcome'[d] = outcome[d]
      BY <1>1, <3>1
    <3>5. ResultGoesToOnePlace'
      BY <3>2, <3>4 DEF FullInv, Places, ResultGoesToOnePlace, InChannel
    <3> QED
      BY <3>2, <3>3, <3>4, <3>5 DEF FullInv, Places, Held
  <2> QED
    BY <2>1, <2>2
<1> QED
  BY <1>3, <1>4, <1>5, <1>6, <1>7, <1>8 DEF FullInv

\* A slot is taken, or the parent has no semaphore.
LEMMA AcquireStep ==
  ASSUME FullInv, NEW c \in Subs, Acquire(c)
  PROVE  FullInv'
<1>1. /\ pc[c] = "acquire" /\ pc' = [pc EXCEPT ![c] = "checks"]
      /\ UNCHANGED <<children, active, outcome, spawnVars, finishVars, resultVars>>
      /\ TypeOK /\ c \in Turns /\ c # Root
  BY SubsAreTurns DEF Acquire, FullInv
<1>2. CASE UNCHANGED <<sem, holds>>
  <2>1. "checks" \in Steps
    BY DEF Steps
  <2> QED
    BY <1>1, <1>2, <2>1, PlainStep DEF TypeOK
<1>3. CASE /\ sem[parent[c]] < MaxConcurrent
           /\ sem' = SlotsOf(sem, parent[c], 1)
           /\ holds' = [holds EXCEPT ![c] = TRUE]
  <2>1. Others(c) /\ pc'[c] = "checks" /\ holds'[c] = TRUE /\ pc' \in [Turns -> Steps]
    BY <1>1, <1>3 DEF Others, TypeOK, Steps, spawnVars
  <2>2. TypeOK'
    <3>1. holds' \in [Turns -> BOOLEAN]
      BY <1>1, <1>3 DEF TypeOK
    <3>2. sem' \in [Turns -> 0 .. MaxConcurrent]
      <4>1. parent[c] \in Turns /\ sem[parent[c]] + 1 \in 0 .. MaxConcurrent
        BY <1>1, <1>3 DEF TypeOK
      <4>2. sem' = [sem EXCEPT ![parent[c]] = @ + 1]
        BY <1>3 DEF SlotsOf
      <4> QED
        BY <1>1, <4>1, <4>2 DEF TypeOK
    <3> QED
      BY <1>1, <2>1, <3>1, <3>2 DEF TypeOK, spawnVars, finishVars, resultVars
  <2>3. SlotsCounted'
    BY <1>1, <1>3, <2>1, SlotTaken DEF FullInv, spawnVars
  <2>4. WithinLimits'
    BY <1>1, <2>1, LimitsKept DEF FullInv, spawnVars, resultVars
  <2>5. Tree'
    BY <1>1, <2>1, TreeKept DEF FullInv, spawnVars
  <2>6. SlotBack'
    BY <1>1, <2>1, SlotBackKept DEF FullInv
  <2>7. Places'
    BY <1>1, <2>1, PlacesStay DEF FullInv
  <2> QED
    BY <2>2, <2>3, <2>4, <2>5, <2>6, <2>7 DEF FullInv
<1> QED
  BY <1>2, <1>3 DEF Acquire

\* No slot in time: the child is refused with nothing to give back.
LEMMA AcquireFailsStep ==
  ASSUME FullInv, NEW c \in Subs, AcquireFails(c)
  PROVE  FullInv'
<1>1. /\ pc[c] = "acquire" /\ pc' = [pc EXCEPT ![c] = "done"]
      /\ outcome' = [outcome EXCEPT ![c] = "refused"]
      /\ UNCHANGED <<sem, holds, children, active, spawnVars, finishVars, resultVars>>
      /\ TypeOK /\ c \in Turns /\ c # Root
  BY SubsAreTurns DEF AcquireFails, FullInv
<1>2. ~holds[c]
  BY <1>1 DEF FullInv, SlotsCounted
<1>3. /\ outcome' \in [Turns -> {"none", "returned", "panic", "refused"}]
      /\ outcome'[c] = "refused" /\ \A d \in Turns \ {c} : outcome'[d] = outcome[d]
      /\ "done" \in Steps /\ active' \subseteq Turns /\ children' \in [Turns -> SUBSET Subs]
  BY <1>1 DEF TypeOK, Steps
<1> QED
  BY <1>1, <1>2, <1>3, PlainStep

\* A child is registered within the depth limit.
LEMMA RegisterStep ==
  ASSUME FullInv, NEW c \in Subs, Register(c)
  PROVE  FullInv'
<1>1. /\ pc[c] = "checks" /\ pc' = [pc EXCEPT ![c] = "link"]
      /\ depth[parent[c]] < MaxDepth /\ active' = active \cup {c}
      /\ UNCHANGED <<sem, holds, children, outcome, spawnVars, finishVars, resultVars>>
      /\ TypeOK /\ c \in Turns /\ c # Root
  BY SubsAreTurns DEF Register, FullInv
<1>2. depth[c] <= MaxDepth
  <2>1. depth[c] = depth[parent[c]] + 1 /\ depth[parent[c]] \in Nat
    BY <1>1 DEF FullInv, Tree, TypeOK
  <2> QED
    BY <1>1, <2>1
<1>3. /\ outcome' \in [Turns -> {"none", "returned", "panic", "refused"}]
      /\ "link" \in Steps /\ active' \subseteq Turns /\ children' \in [Turns -> SUBSET Subs]
      /\ \A d \in Turns \ {c} : outcome'[d] = outcome[d]
  BY <1>1 DEF TypeOK, Steps
<1> QED
  BY <1>1, <1>2, <1>3, PlainStep

\* A child joins the children of its parent and runs.
LEMMA LinkStep ==
  ASSUME FullInv, NEW c \in Subs, Link(c)
  PROVE  FullInv'
<1>1. /\ pc[c] = "link" /\ pc' = [pc EXCEPT ![c] = "running"]
      /\ children' = [children EXCEPT ![parent[c]] = @ \cup {c}]
      /\ UNCHANGED <<sem, holds, active, outcome, spawnVars, finishVars, resultVars>>
      /\ TypeOK /\ c \in Turns /\ c # Root
  BY SubsAreTurns DEF Link, FullInv
<1>2. depth[c] <= MaxDepth
  BY <1>1 DEF FullInv, WithinLimits
<1>3. /\ outcome' \in [Turns -> {"none", "returned", "panic", "refused"}]
      /\ "running" \in Steps /\ active' \subseteq Turns
      /\ \A d \in Turns \ {c} : outcome'[d] = outcome[d]
  BY <1>1 DEF TypeOK, Steps
<1>4. children' \in [Turns -> SUBSET Subs]
  BY <1>1 DEF TypeOK
<1> QED
  BY <1>1, <1>2, <1>3, <1>4, PlainStep

\* A turn returns or panics; a child keeps its slot until the next step.
LEMMA RunEndsStep ==
  ASSUME FullInv, NEW t \in Turns, NEW o \in {"returned", "panic"}, RunEnds(t, o)
  PROVE  FullInv'
<1> DEFINE to == IF t = Root THEN "done" ELSE IF o = "panic" THEN "deliver" ELSE "ran"
<1>1. /\ pc[t] = "running" /\ pc' = [pc EXCEPT ![t] = to]
      /\ active' = active \ {t} /\ outcome' = [outcome EXCEPT ![t] = o]
      /\ UNCHANGED <<sem, holds, children, spawnVars, finishVars, resultVars>>
      /\ TypeOK
  BY DEF RunEnds, Runs, FullInv
<1>2. /\ outcome' \in [Turns -> {"none", "returned", "panic", "refused"}]
      /\ to \in Steps /\ outcome'[t] = o
      /\ children' \in [Turns -> SUBSET Subs]
      /\ \A d \in Turns \ {t} : outcome'[d] = outcome[d]
  BY <1>1 DEF TypeOK, Steps
<1>3. active' \subseteq Turns
  BY <1>1 DEF TypeOK
<1>4. /\ to # "idle" /\ (t = Root => to \in {"running", "done"})
      /\ (t \in Subs => to \notin {"acquire", "done"})
      /\ to \notin {"link", "running"}
      /\ (to \in {"deliver", "send"} => o = "panic") /\ to # "send"
      /\ (to # "done" \/ t = Root)
  BY SubsAreTurns
<1> HIDE DEF to
<1> QED
  BY <1>1, <1>2, <1>3, <1>4, PlainStep

\* A delivery to a living parent begins.
LEMMA StartSendStep ==
  ASSUME FullInv, NEW c \in Subs, StartSend(c)
  PROVE  FullInv'
<1>1. /\ pc[c] = "deliver" /\ async[c] /\ pc' = [pc EXCEPT ![c] = "send"]
      /\ UNCHANGED <<sem, holds, children, active, outcome, spawnVars, finishVars, resultVars>>
      /\ TypeOK /\ c \in Turns /\ c # Root
  BY SubsAreTurns DEF StartSend, FullInv
<1>2. outcome[c] # "panic" => ~holds[c]
  BY <1>1 DEF FullInv, SlotBack
<1>3. /\ outcome' \in [Turns -> {"none", "returned", "panic", "refused"}]
      /\ "send" \in Steps /\ active' \subseteq Turns /\ children' \in [Turns -> SUBSET Subs]
      /\ outcome' = outcome
  BY <1>1 DEF TypeOK, Steps
<1> QED
  BY <1>1, <1>2, <1>3, PlainStep

\* What giving back a slot leaves of the others.
LEMMA ReleaseOthers ==
  ASSUME TypeOK, NEW c \in Subs, NEW to \in Steps, ReleaseSlot(c),
         pc' = [pc EXCEPT ![c] = to], UNCHANGED spawnVars,
         \A d \in Turns \ {c} : outcome'[d] = outcome[d]
  PROVE  Others(c) /\ holds' \in [Turns -> BOOLEAN]
<1>1. c \in Turns /\ holds' = [holds EXCEPT ![c] = FALSE]
  BY SubsAreTurns DEF ReleaseSlot
<1>2. holds' \in [Turns -> BOOLEAN]
  BY <1>1 DEF TypeOK
<1>3. Others(c)
  BY <1>1, Frame DEF Others, TypeOK, spawnVars
<1> QED
  BY <1>2, <1>3

\* A step of a child that gives its slot back and leaves the results alone.
LEMMA ReleaseStep ==
  ASSUME FullInv, NEW c \in Subs, NEW to \in Steps, pc[c] \notin {"idle", "done"},
         to \in {"done", "deliver"}, ReleaseSlot(c), pc' = [pc EXCEPT ![c] = to],
         outcome' \in [Turns -> {"none", "returned", "panic", "refused"}],
         \A d \in Turns \ {c} : outcome'[d] = outcome[d],
         UNCHANGED <<children, active, spawnVars, finishVars, resultVars>>,
         to # "done" \/ outcome'[c] # "returned"
  PROVE  FullInv'
<1>1. /\ pc' \in [Turns -> Steps] /\ pc'[c] = to /\ c \in Turns /\ c # Root
      /\ TypeOK
  BY Frame, SubsAreTurns DEF FullInv
<1>2. Others(c) /\ holds' \in [Turns -> BOOLEAN]
  BY <1>1, ReleaseOthers
<1>3. SlotsCounted' /\ sem' \in [Turns -> 0 .. MaxConcurrent] /\ ~holds'[c]
  BY <1>2, SlotReleased DEF FullInv, spawnVars
<1>4. TypeOK'
  BY <1>1, <1>2, <1>3 DEF TypeOK, spawnVars, finishVars, resultVars
<1>5. WithinLimits'
  BY <1>1, <1>2, LimitsKept DEF FullInv, spawnVars, resultVars
<1>6. Tree'
  BY <1>1, <1>2, TreeKept DEF FullInv, spawnVars
<1>7. SlotBack'
  BY <1>1, <1>2, <1>3, SlotBackKept DEF FullInv
<1>8. Places'
  BY <1>1, <1>2, PlacesStay DEF FullInv
<1> QED
  BY <1>3, <1>4, <1>5, <1>6, <1>7, <1>8 DEF FullInv

\* A child that is refused or has returned gives its slot back.
LEMMA RefuseReleaseStep ==
  ASSUME FullInv, NEW c \in Subs, (\E valid \in BOOLEAN : Refuse(c, valid)) \/ Release(c)
  PROVE  FullInv'
<1>1. TypeOK /\ c \in Turns /\ "done" \in Steps /\ "deliver" \in Steps
  BY SubsAreTurns DEF FullInv, Steps
<1>2. ASSUME NEW valid \in BOOLEAN, Refuse(c, valid) PROVE FullInv'
  <2>1. /\ pc[c] = "checks" /\ ReleaseSlot(c) /\ pc' = [pc EXCEPT ![c] = "done"]
        /\ outcome' = [outcome EXCEPT ![c] = "refused"]
        /\ UNCHANGED <<children, active, spawnVars, finishVars, resultVars>>
    BY <1>2 DEF Refuse
  <2>2. /\ outcome' \in [Turns -> {"none", "returned", "panic", "refused"}]
        /\ outcome'[c] = "refused" /\ \A d \in Turns \ {c} : outcome'[d] = outcome[d]
    BY <1>1, <2>1 DEF TypeOK
  <2> QED
    BY <1>1, <2>1, <2>2, ReleaseStep
<1>3. CASE Release(c)
  <2>1. /\ pc[c] = "ran" /\ ReleaseSlot(c) /\ pc' = [pc EXCEPT ![c] = "deliver"]
        /\ UNCHANGED <<children, active, outcome, spawnVars, finishVars, resultVars>>
    BY <1>3 DEF Release
  <2>2. outcome' \in [Turns -> {"none", "returned", "panic", "refused"}]
    BY <1>1, <2>1 DEF TypeOK
  <2> QED
    BY <1>1, <2>1, <2>2, ReleaseStep
<1> QED
  BY <1>2, <1>3

\* The last step of a child: its slot is given back and its result is in one place.
LEMMA EndStep ==
  ASSUME FullInv, NEW c \in Subs, pc[c] \in {"deliver", "send"}, Cleanup(c),
         received' = received, NEW put \in SUBSET {c}, NEW p \in Turns, p = parent[c],
         chan' \in [Turns -> Seq(Subs)], \A t \in Turns : Len(chan'[t]) <= Capacity,
         events' \in [Turns -> SUBSET {"delivered", "orphan"}],
         \A t \in Turns \ {p} : Held(t)' = Held(t),
         Held(p)' = Held(p) \cup put,
         \A d \in Subs \ {c} : events'[d] = events[d],
         outcome[c] # "panic" =>
           events'[c] = IF async[c] THEN (IF put = {} THEN {"orphan"} ELSE {"delivered"}) ELSE {},
         put # {} => async[c]
  PROVE  FullInv'
<1>1. /\ ReleaseSlot(c) /\ active' = active \ {c} /\ pc' = [pc EXCEPT ![c] = "done"]
      /\ UNCHANGED <<children, outcome, spawnVars, finishVars>>
  BY DEF Cleanup
<1>2. "done" \in Steps /\ TypeOK /\ c \in Turns /\ c # Root
  BY SubsAreTurns DEF Steps, FullInv
<1>3. pc' \in [Turns -> Steps] /\ pc'[c] = "done"
  BY <1>1, <1>2, Frame
<1>4. Others(c) /\ holds' \in [Turns -> BOOLEAN]
  BY <1>1, <1>2, ReleaseOthers
<1>5. SlotsCounted' /\ sem' \in [Turns -> 0 .. MaxConcurrent] /\ ~holds'[c]
  BY <1>1, <1>4, SlotReleased DEF FullInv, spawnVars
<1>6. active' \subseteq Turns
  BY <1>1, <1>2 DEF TypeOK
<1>7. TypeOK'
  BY <1>1, <1>2, <1>3, <1>4, <1>5, <1>6 DEF TypeOK, spawnVars, finishVars
<1>8. WithinLimits'
  BY <1>1, <1>3, <1>4 DEF FullInv, WithinLimits, Others, spawnVars
<1>9. Tree'
  BY <1>1, <1>2, <1>3, <1>4, TreeKept DEF FullInv, spawnVars
<1>10. SlotBack'
  BY <1>2, <1>3, <1>4, SlotBackKept DEF FullInv
<1>11. Places'
  BY <1>1, <1>2, <1>3, <1>4, PlacesEnd DEF FullInv, spawnVars
<1> QED
  BY <1>5, <1>7, <1>8, <1>9, <1>10, <1>11 DEF FullInv

\* A synchronous result is returned.
LEMMA ReturnStep ==
  ASSUME FullInv, NEW c \in Subs, Return(c)
  PROVE  FullInv'
<1> PICK p \in Turns : p = parent[c]
  BY SubsAreTurns DEF FullInv, TypeOK
<1>1. /\ pc[c] = "deliver" /\ ~async[c] /\ Cleanup(c)
      /\ chan' = chan /\ events' = events /\ received' = received
  BY DEF Return, resultVars
<1>2. /\ chan \in [Turns -> Seq(Subs)] /\ events \in [Turns -> SUBSET {"delivered", "orphan"}]
      /\ \A t \in Turns : Len(chan[t]) <= Capacity
      /\ events[c] = {}
  BY <1>1 DEF FullInv, TypeOK, WithinLimits, Places
<1>3. \A t : Held(t)' = Held(t)
  BY <1>1 DEF Held
<1> QED
  BY <1>1, <1>2, <1>3, EndStep

\* A result that finds no channel, or a closed one, is announced as an orphan.
LEMMA OrphanStep ==
  ASSUME FullInv, NEW c \in Subs, DeliverToNobody(c) \/ SendGivesUp(c)
  PROVE  FullInv'
<1> PICK p \in Turns : p = parent[c]
  BY SubsAreTurns DEF FullInv, TypeOK
<1>1. /\ pc[c] \in {"deliver", "send"} /\ async[c] /\ Orphan(c) /\ Cleanup(c)
      /\ chan' = chan /\ received' = received
  BY DEF DeliverToNobody, SendGivesUp, FullInv, SlotBack
<1>2. /\ chan \in [Turns -> Seq(Subs)] /\ events \in [Turns -> SUBSET {"delivered", "orphan"}]
      /\ \A t \in Turns : Len(chan[t]) <= Capacity
      /\ events[c] = {} /\ c \in Turns
  BY <1>1, SubsAreTurns DEF FullInv, TypeOK, WithinLimits, Places
<1>3. \A t : Held(t)' = Held(t)
  BY <1>1 DEF Held
<1>4. /\ events' \in [Turns -> SUBSET {"delivered", "orphan"}]
      /\ \A d \in Turns \ {c} : events'[d] = events[d]
      /\ outcome[c] # "panic" => events'[c] = {"orphan"}
  BY <1>1, <1>2 DEF Orphan
<1>5. \A d \in Subs \ {c} : events'[d] = events[d]
  BY <1>4, SubsAreTurns
<1> DEFINE put == {}
<1>6. /\ put \in SUBSET {c} /\ (put # {} => async[c])
      /\ \A t \in Turns \ {p} : Held(t)' = Held(t)
      /\ Held(p)' = Held(p) \cup put
      /\ outcome[c] # "panic" =>
           events'[c] = IF async[c] THEN (IF put = {} THEN {"orphan"} ELSE {"delivered"}) ELSE {}
  BY <1>1, <1>3, <1>4
<1>7. chan' \in [Turns -> Seq(Subs)] /\ \A t \in Turns : Len(chan'[t]) <= Capacity
  BY <1>1, <1>2
<1> HIDE DEF put
<1> QED
  BY <1>1, <1>4, <1>5, <1>6, <1>7, EndStep

\* A result goes into a channel that has room.
LEMMA SendStep ==
  ASSUME FullInv, NEW c \in Subs, Send(c)
  PROVE  FullInv'
<1> PICK p \in Turns : p = parent[c]
  BY SubsAreTurns DEF FullInv, TypeOK
<1>1. /\ pc[c] = "send" /\ async[c] /\ Len(chan[p]) < Capacity
      /\ chan' = [chan EXCEPT ![p] = Append(@, c)]
      /\ events' = [events EXCEPT ![c] = IF outcome[c] = "panic" THEN @
                                         ELSE @ \cup {"delivered"}]
      /\ Cleanup(c) /\ received' = received
  BY DEF Send, FullInv, SlotBack
<1>2. /\ chan \in [Turns -> Seq(Subs)] /\ events \in [Turns -> SUBSET {"delivered", "orphan"}]
      /\ \A t \in Turns : Len(chan[t]) <= Capacity
      /\ events[c] = {} /\ c \in Turns
  BY <1>1, SubsAreTurns DEF FullInv, TypeOK, WithinLimits, Places
<1>3. Append(chan[p], c) \in Seq(Subs) /\ Len(Append(chan[p], c)) <= Capacity
  BY <1>1, <1>2, RoomForOne
<1>4. /\ chan'[p] = Append(chan[p], c)
      /\ \A t \in Turns \ {p} : chan'[t] = chan[t]
      /\ chan' \in [Turns -> Seq(Subs)]
  BY <1>1, <1>2, <1>3
<1>5. \A t \in Turns : Len(chan'[t]) <= Capacity
  BY <1>2, <1>3, <1>4
<1>6. \A t \in Turns \ {p} : Held(t)' = Held(t)
  BY <1>4 DEF Held
<1>7. Held(p)' = Held(p) \cup {c}
  <2>1. Elems(Append(chan[p], c)) = Elems(chan[p]) \cup {c}
    BY <1>2, HeldAppend
  <2> QED
    BY <1>4, <2>1 DEF Held
<1>8. /\ events' \in [Turns -> SUBSET {"delivered", "orphan"}]
      /\ \A d \in Turns \ {c} : events'[d] = events[d]
      /\ outcome[c] # "panic" => events'[c] = {"delivered"}
  BY <1>1, <1>2
<1>9. \A d \in Subs \ {c} : events'[d] = events[d]
  BY <1>8, SubsAreTurns
<1> DEFINE put == {c}
<1>10. /\ put \in SUBSET {c} /\ (put # {} => async[c])
       /\ Held(p)' = Held(p) \cup put
       /\ outcome[c] # "panic" =>
            events'[c] = IF async[c] THEN (IF put = {} THEN {"orphan"} ELSE {"delivered"}) ELSE {}
  BY <1>1, <1>7, <1>8
<1>11. /\ pc[c] \in {"deliver", "send"} /\ Cleanup(c) /\ received' = received
       /\ chan' \in [Turns -> Seq(Subs)]
       /\ events' \in [Turns -> SUBSET {"delivered", "orphan"}]
  BY <1>1, <1>4, <1>8
<1> HIDE DEF put
<1> QED
  BY <1>5, <1>6, <1>9, <1>10, <1>11, EndStep

\* A turn takes a result out of its channel; a panicked child's is nil.
LEMMA PollStep ==
  ASSUME FullInv, NEW t \in Subs, Poll(t)
  PROVE  FullInv'
<1> DEFINE h == Head(chan[t])
<1>1. /\ chan[t] # <<>> /\ chan' = [chan EXCEPT ![t] = Tail(@)]
      /\ received' = [received EXCEPT ![t] = IF outcome[h] = "panic" THEN @ ELSE @ \cup {h}]
      /\ UNCHANGED <<pc, sem, holds, children, active, outcome, events, spawnVars, finishVars>>
  BY DEF Poll
<1>2. TypeOK /\ t \in Turns /\ chan[t] \in Seq(Subs)
  BY SubsAreTurns DEF FullInv, TypeOK
<1>3. /\ Tail(chan[t]) \in Seq(Subs) /\ h \in Subs
      /\ Len(Tail(chan[t])) <= Len(chan[t])
      /\ Held(t) = Elems(Tail(chan[t])) \cup {h}
  BY <1>1, <1>2, HeldTail DEF Held
<1> HIDE DEF h
<1>4. /\ chan' \in [Turns -> Seq(Subs)] /\ chan'[t] = Tail(chan[t])
      /\ \A d \in Turns \ {t} : chan'[d] = chan[d]
  BY <1>1, <1>2, <1>3 DEF TypeOK
<1>5. /\ received' \in [Turns -> SUBSET Subs]
      /\ received'[t] = (IF outcome[h] = "panic" THEN received[t] ELSE received[t] \cup {h})
      /\ \A d \in Turns \ {t} : received'[d] = received[d]
  BY <1>1, <1>2, <1>3 DEF TypeOK
<1>6. Held(t) = Held(t)' \cup {h} /\ \A d \in Turns \ {t} : Held(d)' = Held(d)
  BY <1>3, <1>4 DEF Held
<1>7. TypeOK'
  BY <1>1, <1>2, <1>4, <1>5 DEF TypeOK, spawnVars, finishVars
<1>8. SlotsCounted'
  BY <1>1 DEF FullInv, SlotsCounted, Holders, spawnVars
<1>9. WithinLimits'
  <2>1. Len(Tail(chan[t])) \in Nat /\ Len(chan[t]) \in Nat /\ Len(chan[t]) <= Capacity
    BY <1>2, <1>3 DEF FullInv, WithinLimits
  <2>2. Len(Tail(chan[t])) <= Capacity
    BY <1>3, <2>1
  <2> QED
    BY <1>1, <1>4, <2>2 DEF FullInv, WithinLimits, spawnVars
<1>10. Tree' /\ SlotBack'
  BY <1>1 DEF FullInv, Tree, SlotBack, spawnVars
<1>11. Places'
  <2>1. /\ pc' = pc /\ parent' = parent /\ async' = async /\ events' = events
        /\ outcome' = outcome
    BY <1>1 DEF spawnVars
  <2>2. pc[h] = "done" /\ parent[h] = t /\ async[h]
    BY <1>2, <1>6 DEF FullInv, Places
  <2>3. \A d \in Turns : \A c \in Held(d)' : pc'[c] = "done" /\ parent'[c] = d /\ async'[c]
    BY <1>2, <1>6, <2>1 DEF FullInv, Places
  <2>4. \A d \in Turns : \A c \in received'[d] : pc'[c] = "done" /\ async'[c]
    BY <1>5, <2>1, <2>2 DEF FullInv, Places
  <2>5. ASSUME NEW c \in Subs, pc'[c] = "done", outcome'[c] = "returned"
        PROVE  LET taken == InChannel(c)' \/ c \in received'[parent'[c]]
               IN  IF async'[c]
                   THEN events'[c] = IF taken THEN {"delivered"} ELSE {"orphan"}
                   ELSE events'[c] = {} /\ ~taken
    <3> PICK q \in Turns : q = parent[c]
      BY <1>2, SubsAreTurns DEF TypeOK
    <3>1. InChannel(c) <=> c \in Held(q)
      BY DEF InChannel, Held, Elems
    <3>2. InChannel(c)' <=> c \in Held(q)'
      BY <2>1 DEF InChannel, Held, Elems
    <3>4. (c \in Held(q)' \/ c \in received'[q]) <=> (c \in Held(q) \/ c \in received[q])
      <4>1. CASE q # t
        BY <1>5, <1>6, <4>1
      <4>2. CASE q = t /\ c # h
        BY <1>5, <1>6, <4>2
      <4>3. CASE q = t /\ c = h
        <5>1. c \in received'[t]
          BY <1>5, <2>1, <2>5, <4>3
        <5> QED
          BY <1>6, <4>3, <5>1
      <4> QED
        BY <4>1, <4>2, <4>3
    <3> QED
      BY <2>1, <2>5, <3>1, <3>2, <3>4 DEF FullInv, Places, ResultGoesToOnePlace
  <2>6. ResultGoesToOnePlace'
    BY <2>5 DEF ResultGoesToOnePlace
  <2> QED
    BY <2>1, <2>3, <2>4, <2>6 DEF FullInv, Places
<1> QED
  BY <1>7, <1>8, <1>9, <1>10, <1>11 DEF FullInv

\* Finishing a turn touches neither slots nor results.
LEMMA FinishFrame ==
  ASSUME FullInv, TypeOK',
         UNCHANGED <<pc, sem, holds, outcome, spawnVars, resultVars>>
  PROVE  FullInv'
<1> USE DEF spawnVars, resultVars
<1>1. SlotsCounted' /\ WithinLimits'
  BY DEF FullInv, SlotsCounted, Holders, WithinLimits
<1>2. Tree' /\ SlotBack'
  BY DEF FullInv, Tree, SlotBack
<1>3. Places'
  BY DEF FullInv, Places, Held, ResultGoesToOnePlace, InChannel
<1> QED
  BY <1>1, <1>2, <1>3 DEF FullInv

\* A hard abort, and the steps of the Finish it begins.
LEMMA AbortStep ==
  ASSUME FullInv, NEW t \in Subs, HardAbort(t) \/ Finish(t)
  PROVE  FullInv'
<1>1. TypeOK /\ t \in Turns
  BY SubsAreTurns DEF FullInv
<1>2. CASE HardAbort(t)
  <2>1. /\ aborts' \in 0 .. MaxAborts
        /\ fin' \in [Turns -> {"no", "mark", "close", "cascade"}]
    BY <1>1, <1>2 DEF HardAbort, TypeOK
  <2>2. TypeOK'
    BY <1>1, <1>2, <2>1 DEF HardAbort, TypeOK, spawnVars, resultVars
  <2> QED
    BY <1>2, <2>2, FinishFrame DEF HardAbort
<1>3. CASE FinishMark(t)
  <2>1. /\ isFinished' \in [Turns -> BOOLEAN]
        /\ fin' \in [Turns -> {"no", "mark", "close", "cascade"}]
    BY <1>1, <1>3 DEF FinishMark, TypeOK
  <2>2. TypeOK'
    BY <1>1, <1>3, <2>1 DEF FinishMark, TypeOK, spawnVars, resultVars
  <2> QED
    BY <1>3, <2>2, FinishFrame DEF FinishMark
<1>4. CASE FinishClose(t)
  <2>1. /\ closed' \in [Turns -> BOOLEAN] /\ cancelled' \in [Turns -> BOOLEAN]
        /\ todo' \in [Turns -> SUBSET Subs]
        /\ fin' \in [Turns -> {"no", "mark", "close", "cascade"}]
    BY <1>1, <1>4 DEF FinishClose, TypeOK
  <2>2. TypeOK'
    BY <1>1, <1>4, <2>1 DEF FinishClose, TypeOK, spawnVars, resultVars
  <2> QED
    BY <1>4, <2>2, FinishFrame DEF FinishClose
<1>5. ASSUME NEW c \in Subs, FinishChild(t, c) PROVE FullInv'
  <2>1. /\ todo' \in [Turns -> SUBSET Subs]
        /\ fin' \in [Turns -> {"no", "mark", "close", "cascade"}]
    <3>1. todo' \in [Turns -> SUBSET Subs]
      BY <1>1, <1>5 DEF FinishChild, TypeOK
    <3>2. fin' = [fin EXCEPT ![c] = "mark"] \/ fin' = fin
      BY <1>5 DEF FinishChild
    <3>3. fin' \in [Turns -> {"no", "mark", "close", "cascade"}]
      BY <1>1, <3>2 DEF TypeOK
    <3> QED
      BY <3>1, <3>3
  <2>2. TypeOK'
    BY <1>1, <1>5, <2>1 DEF FinishChild, TypeOK, spawnVars, resultVars
  <2> QED
    BY <1>5, <2>2, FinishFrame DEF FinishChild
<1> QED
  BY <1>2, <1>3, <1>4, <1>5 DEF Finish

\* A stuttering step.
LEMMA StutterStep ==
  ASSUME FullInv, UNCHANGED vars
  PROVE  FullInv'
<1>1. TypeOK'
  BY DEF FullInv, TypeOK, vars
<1> QED
  BY <1>1, FinishFrame DEF vars, spawnVars, resultVars

----------------------------------------------------------------------------
\* The theorems

\* Before the first sub-turn nobody has a slot and nothing is in a channel.
LEMMA InitFullInv == Init => FullInv
<1> SUFFICES ASSUME Init PROVE FullInv
  OBVIOUS
<1>1. TypeOK
  BY SubsAreTurns DEF Init, TypeOK, Steps
<1>2. SlotsCounted
  <2>1. ASSUME NEW p \in Turns PROVE Holders(p) = {}
    BY SubsAreTurns DEF Init, Holders
  <2>2. \A p \in Turns : sem[p] = Cardinality(Holders(p))
    BY <2>1, FS_EmptySet DEF Init
  <2> QED
    BY <2>2, SubsAreTurns DEF Init, SlotsCounted
<1>3. WithinLimits
  <2>1. Len(<<>>) = 0
    OBVIOUS
  <2> QED
    BY <2>1 DEF Init, WithinLimits
<1>4. Tree /\ SlotBack
  BY SubsAreTurns DEF Init, Tree, SlotBack
<1>5. Places
  <2>1. \A t \in Turns : chan[t] = <<>> /\ received[t] = {} /\ events[t] = {}
    BY DEF Init
  <2>2. \A t \in Turns : Held(t) = {}
    BY <2>1 DEF Held, Elems
  <2>3. \A c \in Subs : pc[c] = "idle"
    BY SubsAreTurns DEF Init
  <2> QED
    BY <2>1, <2>2, <2>3, SubsAreTurns DEF Places, ResultGoesToOnePlace
<1> QED
  BY <1>1, <1>2, <1>3, <1>4, <1>5 DEF FullInv

\* Every step keeps the inductive invariant.
LEMMA NextFullInv == FullInv /\ [Next]_vars => FullInv'
<1> SUFFICES ASSUME FullInv, [Next]_vars PROVE FullInv'
  OBVIOUS
<1>1. ASSUME NEW p \in Turns, NEW c \in Subs, NEW isAsync \in BOOLEAN, Spawn(p, c, isAsync)
      PROVE  FullInv'
  BY <1>1, SpawnStep
<1>2. ASSUME NEW c \in Subs, Around(c) PROVE FullInv'
  <2>1. CASE Acquire(c)
    BY <2>1, AcquireStep
  <2>2. CASE AcquireFails(c)
    BY <2>2, AcquireFailsStep
  <2>3. CASE (\E valid \in BOOLEAN : Refuse(c, valid)) \/ Release(c)
    BY <2>3, RefuseReleaseStep
  <2>4. CASE Register(c)
    BY <2>4, RegisterStep
  <2>5. CASE Link(c)
    BY <2>5, LinkStep
  <2>6. CASE Return(c)
    BY <2>6, ReturnStep
  <2>7. CASE DeliverToNobody(c) \/ SendGivesUp(c)
    BY <2>7, OrphanStep
  <2>8. CASE StartSend(c)
    BY <2>8, StartSendStep
  <2>9. CASE Send(c)
    BY <2>9, SendStep
  <2> QED
    BY <1>2, <2>1, <2>2, <2>3, <2>4, <2>5, <2>6, <2>7, <2>8, <2>9 DEF Around
<1>3. ASSUME NEW t \in Turns, Ends(t) PROVE FullInv'
  BY <1>3, RunEndsStep DEF Ends
<1>4. ASSUME NEW t \in Subs, Poll(t) \/ HardAbort(t) \/ Finish(t) PROVE FullInv'
  BY <1>4, PollStep, AbortStep
<1>5. CASE UNCHANGED vars
  BY <1>5, StutterStep
<1> QED
  BY <1>1, <1>2, <1>3, <1>4, <1>5 DEF Next

\* Slots, depths and results fit together at all times.
THEOREM FullInvariance == Spec => []FullInv
<1> QED
  BY InitFullInv, NextFullInv, PTL DEF Spec

\* No slot of a turn leaks on any way out of spawnSubTurn, no turn runs below the
\* depth limit and no channel is overfilled.
THEOREM SlotSafety == Spec => []IInv
<1>1. FullInv => IInv
  BY DEF FullInv, IInv
<1> QED
  BY <1>1, FullInvariance, PTL

\* The result of a sub-turn that returned goes to exactly one place.
THEOREM ResultSafety == Spec => []ResultGoesToOnePlace
<1>1. FullInv => ResultGoesToOnePlace
  BY DEF FullInv, Places
<1> QED
  BY <1>1, FullInvariance, PTL

\* Only a child that panicked keeps a slot of its parent while it delivers.
THEOREM SlotDuringDelivery == Spec => []SlotKeptOnlyByPanic
<1>1. FullInv => SlotKeptOnlyByPanic
  BY DEF FullInv, SlotBack, SlotKeptOnlyByPanic
<1> QED
  BY <1>1, FullInvariance, PTL
=============================================================================
