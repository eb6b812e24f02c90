----------------------------- MODULE SessionProofs -----------------------------
(***************************************************************************)
(* Proofs about what is kept of a session: its file (SessionStore) and its *)
(* memory in the database (SessionMemory).                                 *)
(*                                                                         *)
(* The file, for every one an older version or an alias may have left,     *)
(* every number of messages and of failures: the types, the two safety     *)
(* properties, and that the two files implement SessionHistory.  Only is a *)
(* recursive function; the first part proves what it returns, by induction *)
(* over the length of a sequence.  The second part is about a file read    *)
(* from an offset, the third about the history that keeps what was told.   *)
(* Then the invariant, a lemma for each action, which also says what the   *)
(* action does to the refinement mapping, and the theorems.                *)
(*                                                                         *)
(* The memory, for every size of its fanouts, chunks and fresh tail, every *)
(* number of messages, summaries, clearings and failures, and one turn at  *)
(* a time: the invariant, facts about ordinals and their order, a lemma    *)
(* for each action (BeginKeeps, AddRowKeeps, ...), and the theorems.       *)
(***************************************************************************)
EXTENDS SessionStore, SessionMemory, FiniteSetTheorems, SequenceTheorems,
        WellFoundedInduction, TLAPS


-------------------------------------------------------------------------------
(* Induction.  A set of numbers with zero and every successor of its members   *)
(* has all of them: a least number outside of it cannot be.                    *)

LEMMA Induction ==
  ASSUME NEW T, 0 \in T, \A n \in Nat : n \in T => n + 1 \in T
  PROVE  Nat \subseteq T
<1> DEFINE Less == {ss \in Nat \X Nat : ss[1] < ss[2]}
           Out == Nat \ T
<1>1. IsWellFoundedOn(Less, Nat) BY NatLessThanWellFounded DEF OpToRel
<1>2. SUFFICES ASSUME Out # {} PROVE FALSE OBVIOUS
<1>3. PICK x \in Out : \A y \in Out : ~(<<y, x>> \in Less)
  <2>1. Out \subseteq Nat OBVIOUS
  <2> HIDE DEF Less, Out
  <2> QED BY <1>1, <1>2, <2>1, WFMin
<1>4. x \in Nat /\ x \notin T /\ x # 0 OBVIOUS
<1>5. x - 1 \in Nat /\ x - 1 < x BY <1>4
<1>6. x - 1 \in T
  <2>1. CASE x - 1 \in Out
    <3>1. <<x - 1, x>> \in Less BY <1>4, <1>5
    <3> QED BY <1>3, <2>1, <3>1
  <2>2. CASE x - 1 \notin Out BY <2>2, <1>5
  <2> QED BY <2>1, <2>2
<1>7. (x - 1) + 1 \in T BY <1>5, <1>6
<1> QED BY <1>4, <1>7

LEMMA SeqInduction ==
  ASSUME NEW A, NEW T, <<>> \in T,
         \A s \in Seq(A), e \in A : s \in T => Append(s, e) \in T
  PROVE  Seq(A) \subseteq T
<1> DEFINE N == {n \in Nat : \A s \in Seq(A) : Len(s) = n => s \in T}
<1>1. 0 \in N
  <2>1. \A s \in Seq(A) : Len(s) = 0 => s = <<>> BY EmptySeq
  <2> QED BY <2>1
<1>2. ASSUME NEW n \in Nat, n \in N PROVE n + 1 \in N
  <2>1. SUFFICES ASSUME NEW s \in Seq(A), Len(s) = n + 1 PROVE s \in T OBVIOUS
  <2>2. s # <<>> BY <2>1, EmptySeq
  <2>3. PICK r \in Seq(A), e \in A : s = Append(r, e) BY <2>2, SequenceEmptyOrAppend
  <2>4. Len(r) = n BY <2>1, <2>3, AppendProperties, LenProperties
  <2>5. r \in T BY <1>2, <2>4
  <2> QED BY <2>3, <2>5
<1>3. Nat \subseteq N
  <2> HIDE DEF N
  <2> QED BY <1>1, <1>2, Induction
<1>4. ASSUME NEW s \in Seq(A) PROVE s \in T
  <2>1. Len(s) \in Nat BY LenProperties
  <2> QED BY <1>3, <2>1
<1> QED BY <1>4

-------------------------------------------------------------------------------
(* What Only returns.  KeptOf says that f is the function Only defines.        *)

KeptOf(f, s, S, k) ==
  f = [n \in 0 .. k |->
         IF n = 0 THEN <<>>
         ELSE IF s[n] \in S THEN Append(f[n - 1], s[n]) ELSE f[n - 1]]

LEMMA KeptExists ==
  ASSUME NEW s, NEW S, NEW k \in Nat
  PROVE  \E f : KeptOf(f, s, S, k)
<1> DEFINE T == {n \in Nat : \E f : KeptOf(f, s, S, n)}
<1>1. 0 \in T
  <2> DEFINE g == [n \in 0 .. 0 |-> <<>>]
  <2>1. KeptOf(g, s, S, 0) BY DEF KeptOf
  <2> QED BY <2>1
<1>2. ASSUME NEW n \in Nat, n \in T PROVE n + 1 \in T
  <2>1. PICK f : KeptOf(f, s, S, n) BY <1>2
  <2> DEFINE g == [m \in 0 .. n + 1 |->
                     IF m = n + 1
                     THEN IF s[n + 1] \in S THEN Append(f[n], s[n + 1]) ELSE f[n]
                     ELSE f[m]]
             h == [m \in 0 .. n + 1 |->
                     IF m = 0 THEN <<>>
                     ELSE IF s[m] \in S THEN Append(g[m - 1], s[m]) ELSE g[m - 1]]
  <2>2. ASSUME NEW m \in 0 .. n + 1 PROVE g[m] = h[m]
    <3>1. CASE m = n + 1
      <4>1. m - 1 = n /\ m # 0 /\ n \in 0 .. n + 1 /\ n # n + 1 BY <3>1
      <4>2. g[n] = f[n] BY <4>1
      <4> QED BY <3>1, <4>1, <4>2
    <3>2. CASE m \in 0 .. n
      <4>1. g[m] = f[m] BY <3>2
      <4>2. f[m] = IF m = 0 THEN <<>>
                   ELSE IF s[m] \in S THEN Append(f[m - 1], s[m]) ELSE f[m - 1]
        BY <2>1, <3>2 DEF KeptOf
      <4>3. CASE m = 0 BY <4>1, <4>2, <4>3
      <4>4. CASE m # 0
        <5>1. m - 1 \in 0 .. n + 1 /\ m - 1 # n + 1 BY <3>2, <4>4
        <5>2. g[m - 1] = f[m - 1] BY <5>1
        <5> QED BY <4>1, <4>2, <4>4, <5>2
      <4> QED BY <4>3, <4>4
    <3> QED BY <3>1, <3>2
  <2>3. g = h BY <2>2
  <2>4. KeptOf(g, s, S, n + 1) BY <2>3 DEF KeptOf
  <2> QED BY <2>4
<1>3. Nat \subseteq T
  <2> HIDE DEF T
  <2> QED BY <1>1, <1>2, Induction
<1> QED BY <1>3

\* Two such functions agree as far as the sequences do.
LEMMA KeptAgree ==
  ASSUME NEW s, NEW t, NEW S, NEW j \in Nat, NEW k \in Nat, NEW f, NEW g,
         KeptOf(f, s, S, j), KeptOf(g, t, S, k),
         NEW l \in Nat, l <= j, l <= k, \A n \in 1 .. l : s[n] = t[n]
  PROVE  f[l] = g[l]
<1> DEFINE T == {n \in Nat : n <= l => f[n] = g[n]}
<1>1. 0 \in T BY DEF KeptOf
<1>2. ASSUME NEW n \in Nat, n \in T PROVE n + 1 \in T
  <2>1. SUFFICES ASSUME n + 1 <= l PROVE f[n + 1] = g[n + 1] OBVIOUS
  <2>2. f[n] = g[n] BY <1>2, <2>1
  <2>3. n + 1 \in 0 .. j /\ n + 1 \in 0 .. k /\ n + 1 # 0 /\ (n + 1) - 1 = n BY <2>1
  <2>4. f[n + 1] = IF s[n + 1] \in S THEN Append(f[n], s[n + 1]) ELSE f[n]
    BY <2>3 DEF KeptOf
  <2>5. g[n + 1] = IF t[n + 1] \in S THEN Append(g[n], t[n + 1]) ELSE g[n]
    BY <2>3 DEF KeptOf
  <2>6. s[n + 1] = t[n + 1] BY <2>1
  <2> QED BY <2>2, <2>4, <2>5, <2>6
<1>3. Nat \subseteq T
  <2> HIDE DEF T
  <2> QED BY <1>1, <1>2, Induction
<1> QED BY <1>3

LEMMA OnlyKept ==
  ASSUME NEW s, NEW S, Len(s) \in Nat
  PROVE  \E f : KeptOf(f, s, S, Len(s)) /\ Only(s, S) = f[Len(s)]
<1> DEFINE kept == CHOOSE f : KeptOf(f, s, S, Len(s))
<1>1. KeptOf(kept, s, S, Len(s)) BY KeptExists
<1>2. Only(s, S) = kept[Len(s)] BY DEF Only, KeptOf
<1> QED BY <1>1, <1>2

\* Only of nothing, and of one element more.
LEMMA OnlyEmpty == ASSUME NEW S PROVE Only(<<>>, S) = <<>>
<1>1. Len(<<>>) = 0 OBVIOUS
<1>2. PICK f : KeptOf(f, <<>>, S, 0) /\ Only(<<>>, S) = f[0] BY <1>1, OnlyKept
<1> QED BY <1>2 DEF KeptOf

LEMMA OnlyAppend ==
  ASSUME NEW A, NEW S, NEW s \in Seq(A), NEW e \in A
  PROVE  Only(Append(s, e), S) = IF e \in S THEN Append(Only(s, S), e) ELSE Only(s, S)
<1> DEFINE t == Append(s, e)
<1>1. /\ Len(s) \in Nat /\ Len(t) = Len(s) + 1
      /\ t[Len(s) + 1] = e /\ \A n \in 1 .. Len(s) : s[n] = t[n]
  BY AppendProperties, LenProperties
<1>2. PICK f : KeptOf(f, s, S, Len(s)) /\ Only(s, S) = f[Len(s)] BY <1>1, OnlyKept
<1>3. PICK g : KeptOf(g, t, S, Len(t)) /\ Only(t, S) = g[Len(t)] 
  <2>1. Len(t) \in Nat BY <1>1
  <2> HIDE DEF t
  <2> QED BY <2>1, OnlyKept
<1> HIDE DEF t
<1>4. PICK k \in Nat : k = Len(s) BY <1>1
<1>5. k + 1 \in 0 .. k + 1 /\ k + 1 # 0 /\ (k + 1) - 1 = k /\ k <= k + 1 OBVIOUS
<1>6. KeptOf(f, s, S, k) /\ KeptOf(g, t, S, k + 1) BY <1>1, <1>2, <1>3, <1>4
<1>7. f[k] = g[k]
  <2>1. \A n \in 1 .. k : s[n] = t[n] BY <1>1, <1>4
  <2>2. k + 1 \in Nat /\ k <= k OBVIOUS
  <2> QED BY <1>5, <1>6, <2>1, <2>2, KeptAgree
<1>8. g[k + 1] = IF t[k + 1] \in S THEN Append(g[k], t[k + 1]) ELSE g[k]
  BY <1>5, <1>6 DEF KeptOf
<1> QED BY <1>1, <1>2, <1>3, <1>4, <1>7, <1>8 DEF t

LEMMA OnlyType ==
  ASSUME NEW A, NEW S, NEW s \in Seq(A)
  PROVE  Only(s, S) \in Seq(A \cap S)
<1> DEFINE T == {r \in Seq(A) : Only(r, S) \in Seq(A \cap S)}
<1>1. <<>> \in T BY OnlyEmpty, EmptySeq
<1>2. ASSUME NEW r \in Seq(A), NEW e \in A, r \in T PROVE Append(r, e) \in T
  <2>1. Append(r, e) \in Seq(A) BY AppendProperties
  <2>2. Only(r, S) \in Seq(A \cap S) BY <1>2
  <2>3. e \in S => Append(Only(r, S), e) \in Seq(A \cap S) BY <2>2, AppendProperties
  <2>4. Only(Append(r, e), S) = IF e \in S THEN Append(Only(r, S), e) ELSE Only(r, S)
    BY OnlyAppend
  <2> QED BY <2>1, <2>2, <2>3, <2>4
<1>3. Seq(A) \subseteq T
  <2> HIDE DEF T
  <2> QED BY <1>1, <1>2, SeqInduction
<1> QED BY <1>3

LEMMA OnlyConcat ==
  ASSUME NEW A, NEW S, NEW s \in Seq(A), NEW t \in Seq(A)
  PROVE  Only(s \o t, S) = Only(s, S) \o Only(t, S)
<1> DEFINE T == {r \in Seq(A) : Only(s \o r, S) = Only(s, S) \o Only(r, S)}
<1>1. <<>> \in T
  <2>1. s \o <<>> = s BY ConcatEmptySeq
  <2>2. Only(s, S) \in Seq(A \cap S) BY OnlyType
  <2>3. Only(s, S) \o <<>> = Only(s, S) BY <2>2, ConcatEmptySeq
  <2> QED BY <2>1, <2>3, OnlyEmpty, EmptySeq
<1>2. ASSUME NEW r \in Seq(A), NEW e \in A, r \in T PROVE Append(r, e) \in T
  <2>1. Append(r, e) \in Seq(A) BY AppendProperties
  <2>2. s \o r \in Seq(A) BY ConcatProperties
  <2>3. s \o Append(r, e) = Append(s \o r, e)
    <3>1. <<e>> \in Seq(A) OBVIOUS
    <3>2. Append(r, e) = r \o <<e>> /\ Append(s \o r, e) = (s \o r) \o <<e>>
      BY <2>2, AppendIsConcat
    <3> QED BY <3>1, <3>2, ConcatAssociative
  <2>4. Only(s \o r, S) = Only(s, S) \o Only(r, S) BY <1>2
  <2>5. Only(s, S) \in Seq(A \cap S) /\ Only(r, S) \in Seq(A \cap S) BY OnlyType
  <2>6. ASSUME e \in S
        PROVE  Append(Only(s, S) \o Only(r, S), e) = Only(s, S) \o Append(Only(r, S), e)
    <3>1. e \in A \cap S /\ <<e>> \in Seq(A \cap S) BY <2>6
    <3>2. Only(s, S) \o Only(r, S) \in Seq(A \cap S) BY <2>5, ConcatProperties
    <3>3. /\ Append(Only(s, S) \o Only(r, S), e) = (Only(s, S) \o Only(r, S)) \o <<e>>
          /\ Append(Only(r, S), e) = Only(r, S) \o <<e>>
      BY <3>1, <3>2, <2>5, AppendIsConcat
    <3> QED BY <2>5, <3>1, <3>3, ConcatAssociative
  <2>7. Only(Append(r, e), S) = IF e \in S THEN Append(Only(r, S), e) ELSE Only(r, S)
    BY OnlyAppend
  <2>8. Only(Append(s \o r, e), S)
          = IF e \in S THEN Append(Only(s \o r, S), e) ELSE Only(s \o r, S)
    <3> DEFINE q == s \o r
    <3>1. q \in Seq(A) BY <2>2
    <3> HIDE DEF q
    <3>2. Only(Append(q, e), S) = IF e \in S THEN Append(Only(q, S), e) ELSE Only(q, S)
      BY <3>1, OnlyAppend
    <3> QED BY <3>2 DEF q
  <2>9. Only(s \o Append(r, e), S) = Only(s, S) \o Only(Append(r, e), S)
    BY <2>3, <2>4, <2>6, <2>7, <2>8
  <2> QED BY <2>1, <2>9
<1>3. Seq(A) \subseteq T
  <2> HIDE DEF T
  <2> QED BY <1>1, <1>2, SeqInduction
<1> QED BY <1>3

\* Whether an element stays depends on the set only as far as s reaches.
LEMMA OnlySame ==
  ASSUME NEW A, NEW S, NEW R, A \cap S = A \cap R, NEW s \in Seq(A)
  PROVE  Only(s, S) = Only(s, R)
<1> DEFINE T == {r \in Seq(A) : Only(r, S) = Only(r, R)}
<1>1. <<>> \in T BY OnlyEmpty, EmptySeq
<1>2. ASSUME NEW r \in Seq(A), NEW e \in A, r \in T PROVE Append(r, e) \in T
  <2>1. Append(r, e) \in Seq(A) BY AppendProperties
  <2>2. e \in S <=> e \in R OBVIOUS
  <2>3. Only(r, S) = Only(r, R) BY <1>2
  <2>4. /\ Only(Append(r, e), S) = IF e \in S THEN Append(Only(r, S), e) ELSE Only(r, S)
        /\ Only(Append(r, e), R) = IF e \in R THEN Append(Only(r, R), e) ELSE Only(r, R)
    BY OnlyAppend
  <2> QED BY <2>1, <2>2, <2>3, <2>4
<1>3. Seq(A) \subseteq T
  <2> HIDE DEF T
  <2> QED BY <1>1, <1>2, SeqInduction
<1> QED BY <1>3

LEMMA OnlyAll ==
  ASSUME NEW A, NEW S, A \subseteq S, NEW s \in Seq(A)
  PROVE  Only(s, S) = s
<1> DEFINE T == {r \in Seq(A) : Only(r, S) = r}
<1>1. <<>> \in T BY OnlyEmpty, EmptySeq
<1>2. ASSUME NEW r \in Seq(A), NEW e \in A, r \in T PROVE Append(r, e) \in T
  <2>1. Append(r, e) \in Seq(A) BY AppendProperties
  <2>2. Only(Append(r, e), S) = Append(Only(r, S), e) BY OnlyAppend
  <2> QED BY <1>2, <2>1, <2>2
<1>3. Seq(A) \subseteq T
  <2> HIDE DEF T
  <2> QED BY <1>1, <1>2, SeqInduction
<1> QED BY <1>3

LEMMA OnlyNone ==
  ASSUME NEW A, NEW S, A \cap S = {}, NEW s \in Seq(A)
  PROVE  Only(s, S) = <<>>
<1>1. Only(s, S) \in Seq({}) BY OnlyType
<1> QED BY <1>1

\* Selecting twice.
LEMMA OnlyOnly ==
  ASSUME NEW A, NEW S, NEW R, NEW s \in Seq(A)
  PROVE  Only(Only(s, S), R) = Only(s, S \cap R)
<1> DEFINE T == {r \in Seq(A) : Only(Only(r, S), R) = Only(r, S \cap R)}
<1>1. <<>> \in T BY OnlyEmpty, EmptySeq
<1>2. ASSUME NEW r \in Seq(A), NEW e \in A, r \in T PROVE Append(r, e) \in T
  <2>1. Append(r, e) \in Seq(A) BY AppendProperties
  <2>2. Only(Only(r, S), R) = Only(r, S \cap R) BY <1>2
  <2>3. /\ Only(Append(r, e), S) = IF e \in S THEN Append(Only(r, S), e) ELSE Only(r, S)
        /\ Only(Append(r, e), S \cap R)
             = IF e \in S \cap R THEN Append(Only(r, S \cap R), e) ELSE Only(r, S \cap R)
    BY OnlyAppend
  <2>4. Only(r, S) \in Seq(A \cap S) BY OnlyType
  <2>5. ASSUME e \in S
        PROVE  Only(Append(Only(r, S), e), R)
                 = IF e \in R THEN Append(Only(Only(r, S), R), e) ELSE Only(Only(r, S), R)
    <3>1. e \in A \cap S BY <2>5
    <3> QED BY <2>4, <3>1, OnlyAppend
  <2>6. Only(Only(Append(r, e), S), R) = Only(Append(r, e), S \cap R)
    <3>1. CASE e \in S
      <4>1. Only(Append(r, e), S) = Append(Only(r, S), e) BY <2>3, <3>1
      <4>2. Only(Only(Append(r, e), S), R)
              = IF e \in R THEN Append(Only(Only(r, S), R), e) ELSE Only(Only(r, S), R)
        BY <2>5, <3>1, <4>1
      <4>3. e \in S \cap R <=> e \in R BY <3>1
      <4> QED BY <2>2, <2>3, <4>2, <4>3
    <3>2. CASE e \notin S BY <2>2, <2>3, <3>2
    <3> QED BY <3>1, <3>2
  <2> QED BY <2>1, <2>6
<1>3. Seq(A) \subseteq T
  <2> HIDE DEF T
  <2> QED BY <1>1, <1>2, SeqInduction
<1> QED BY <1>3

LEMMA OnlyLen ==
  ASSUME NEW A, NEW S, NEW s \in Seq(A)
  PROVE  Len(Only(s, S)) <= Len(s)
<1> DEFINE T == {r \in Seq(A) : Len(Only(r, S)) <= Len(r)}
<1>1. <<>> \in T BY OnlyEmpty, EmptySeq
<1>2. ASSUME NEW r \in Seq(A), NEW e \in A, r \in T PROVE Append(r, e) \in T
  <2>1. Append(r, e) \in Seq(A) /\ Len(Append(r, e)) = Len(r) + 1 /\ Len(r) \in Nat
    BY AppendProperties, LenProperties
  <2>2. Only(r, S) \in Seq(A \cap S) /\ Len(Only(r, S)) \in Nat BY OnlyType, LenProperties
  <2>3. e \in S => Len(Append(Only(r, S), e)) = Len(Only(r, S)) + 1
    BY <2>2, AppendProperties
  <2>4. Only(Append(r, e), S) = IF e \in S THEN Append(Only(r, S), e) ELSE Only(r, S)
    BY OnlyAppend
  <2>5. Len(Only(r, S)) <= Len(r) BY <1>2
  <2>6. CASE e \in S BY <2>1, <2>2, <2>3, <2>4, <2>5, <2>6
  <2>7. CASE e \notin S BY <2>1, <2>2, <2>4, <2>5, <2>7
  <2> QED BY <2>6, <2>7
<1>3. Seq(A) \subseteq T
  <2> HIDE DEF T
  <2> QED BY <1>1, <1>2, SeqInduction
<1> QED BY <1>3

-------------------------------------------------------------------------------
(* Elements of sequences, and sequences without repetition.                    *)

LEMMA Elements ==
  ASSUME NEW A, NEW s \in Seq(A)
  PROVE  /\ ToSet(s) \subseteq A
         /\ s \in Seq(ToSet(s))
         /\ \A i \in 1 .. Len(s) : s[i] \in ToSet(s)
         /\ \A e \in ToSet(s) : \E i \in 1 .. Len(s) : s[i] = e
<1>1. DOMAIN s = 1 .. Len(s) /\ Len(s) \in Nat BY LenProperties
<1>2. \A i \in 1 .. Len(s) : s[i] \in ToSet(s) BY <1>1 DEF ToSet
<1>3. s \in Seq(ToSet(s)) BY <1>1, <1>2
<1> QED BY <1>1, <1>2, <1>3, ElementOfSeq DEF ToSet

LEMMA ConcatElements ==
  ASSUME NEW A, NEW s \in Seq(A), NEW t \in Seq(A)
  PROVE  ToSet(s \o t) = ToSet(s) \cup ToSet(t)
<1>1. /\ s \o t \in Seq(A) /\ Len(s \o t) = Len(s) + Len(t)
      /\ \A i \in 1 .. Len(s) + Len(t) :
           (s \o t)[i] = IF i <= Len(s) THEN s[i] ELSE t[i - Len(s)]
  BY ConcatProperties
<1>2. Len(s) \in Nat /\ Len(t) \in Nat BY LenProperties
<1>3. ASSUME NEW e \in ToSet(s) PROVE e \in ToSet(s \o t)
  <2>1. PICK i \in 1 .. Len(s) : s[i] = e BY Elements
  <2>2. i \in 1 .. Len(s) + Len(t) /\ i <= Len(s) BY <1>2, <2>1
  <2>3. (s \o t)[i] = e BY <1>1, <2>1, <2>2
  <2> QED BY <1>1, <2>2, <2>3, Elements
<1>4. ASSUME NEW e \in ToSet(t) PROVE e \in ToSet(s \o t)
  <2>1. PICK i \in 1 .. Len(t) : t[i] = e BY Elements
  <2>2. i + Len(s) \in 1 .. Len(s) + Len(t) /\ ~(i + Len(s) <= Len(s)) /\ (i + Len(s)) - Len(s) = i
    BY <1>2, <2>1
  <2>3. (s \o t)[i + Len(s)] = e BY <1>1, <2>1, <2>2
  <2> QED BY <1>1, <2>2, <2>3, Elements
<1>5. ASSUME NEW e \in ToSet(s \o t) PROVE e \in ToSet(s) \cup ToSet(t)
  <2>1. PICK i \in 1 .. Len(s) + Len(t) : (s \o t)[i] = e BY <1>1, Elements
  <2>2. CASE i <= Len(s)
    <3>1. i \in 1 .. Len(s) /\ s[i] = e BY <1>1, <1>2, <2>1, <2>2
    <3> QED BY <3>1, Elements
  <2>3. CASE ~(i <= Len(s))
    <3>1. i - Len(s) \in 1 .. Len(t) /\ t[i - Len(s)] = e BY <1>1, <1>2, <2>1, <2>3
    <3> QED BY <3>1, Elements
  <2> QED BY <2>2, <2>3
<1> QED BY <1>3, <1>4, <1>5

LEMMA AppendElements ==
  ASSUME NEW A, NEW s \in Seq(A), NEW e \in A
  PROVE  ToSet(Append(s, e)) = ToSet(s) \cup {e}
<1> DEFINE t == <<e>>
<1>1. t \in Seq(A) OBVIOUS
<1>2. ToSet(t) = {e} BY DEF ToSet
<1>3. Append(s, e) = s \o t BY AppendIsConcat
<1> HIDE DEF t
<1>4. ToSet(s \o t) = ToSet(s) \cup ToSet(t) BY <1>1, ConcatElements
<1> QED BY <1>2, <1>3, <1>4

\* Everything of the set that is in the sequence is selected.
LEMMA OnlyElements ==
  ASSUME NEW A, NEW S, NEW s \in Seq(A)
  PROVE  \A e \in S : e \in ToSet(s) => e \in ToSet(Only(s, S))
<1> DEFINE T == {r \in Seq(A) : \A e \in S : e \in ToSet(r) => e \in ToSet(Only(r, S))}
<1>1. <<>> \in T
  <2>1. <<>> \in Seq(A) BY EmptySeq
  <2>2. DOMAIN <<>> = {} OBVIOUS
  <2>3. ToSet(<<>>) = {} BY <2>2 DEF ToSet
  <2> QED BY <2>1, <2>3
<1>2. ASSUME NEW r \in Seq(A), NEW d \in A, r \in T PROVE Append(r, d) \in T
  <2>1. Append(r, d) \in Seq(A) BY AppendProperties
  <2>2. \A t \in Seq(A) : ToSet(Append(t, d)) = ToSet(t) \cup {d} BY AppendElements
  <2>3. Only(r, S) \in Seq(A)
    <3>1. Only(r, S) \in Seq(A \cap S) BY OnlyType
    <3> QED BY <3>1, SeqMonotonic
  <2>4. Only(Append(r, d), S) = IF d \in S THEN Append(Only(r, S), d) ELSE Only(r, S)
    BY OnlyAppend
  <2>5. ASSUME NEW e \in S, e \in ToSet(Append(r, d)) PROVE e \in ToSet(Only(Append(r, d), S))
    <3>1. e \in ToSet(r) => e \in ToSet(Only(r, S)) BY <1>2
    <3>2. e \in ToSet(r) \/ e = d BY <2>2, <2>5
    <3>3. CASE d \in S
      <4>1. ToSet(Only(Append(r, d), S)) = ToSet(Only(r, S)) \cup {d} BY <2>2, <2>3, <2>4, <3>3
      <4> QED BY <3>1, <3>2, <4>1
    <3>4. CASE d \notin S BY <2>4, <3>1, <3>2, <3>4
    <3> QED BY <3>3, <3>4
  <2> QED BY <2>1, <2>5
<1>3. Seq(A) \subseteq T
  <2> HIDE DEF T
  <2> QED BY <1>1, <1>2, SeqInduction
<1> QED BY <1>3

LEMMA DistinctParts ==
  ASSUME NEW A, NEW s \in Seq(A), NEW t \in Seq(A), IsInjective(s \o t)
  PROVE  /\ IsInjective(s) /\ IsInjective(t)
         /\ ToSet(s) \cap ToSet(t) = {}
<1>1. /\ s \o t \in Seq(A) /\ Len(s \o t) = Len(s) + Len(t)
      /\ \A i \in 1 .. Len(s) + Len(t) :
           (s \o t)[i] = IF i <= Len(s) THEN s[i] ELSE t[i - Len(s)]
  BY ConcatProperties
<1>2. Len(s) \in Nat /\ Len(t) \in Nat /\ DOMAIN s = 1 .. Len(s) /\ DOMAIN t = 1 .. Len(t)
  BY LenProperties
<1>3. DOMAIN (s \o t) = 1 .. Len(s) + Len(t) BY <1>1, LenProperties
<1>4. \A i, j \in 1 .. Len(s) + Len(t) : (s \o t)[i] = (s \o t)[j] => i = j
  BY <1>3 DEF IsInjective
<1>5. ASSUME NEW i \in 1 .. Len(s)
      PROVE  i \in 1 .. Len(s) + Len(t) /\ (s \o t)[i] = s[i]
  <2>1. i \in 1 .. Len(s) + Len(t) /\ i <= Len(s) BY <1>2
  <2> QED BY <2>1, <1>1
<1>6. ASSUME NEW i \in 1 .. Len(t)
      PROVE  /\ i + Len(s) \in 1 .. Len(s) + Len(t) /\ i + Len(s) > Len(s)
             /\ (s \o t)[i + Len(s)] = t[i]
  <2>1. /\ i + Len(s) \in 1 .. Len(s) + Len(t) /\ ~(i + Len(s) <= Len(s))
        /\ (i + Len(s)) - Len(s) = i /\ i + Len(s) > Len(s)
    BY <1>2
  <2> QED BY <2>1, <1>1
<1>7. IsInjective(s)
  <2>1. ASSUME NEW i \in 1 .. Len(s), NEW j \in 1 .. Len(s), s[i] = s[j] PROVE i = j
    BY <1>4, <1>5, <2>1
  <2> QED BY <1>2, <2>1 DEF IsInjective
<1>8. IsInjective(t)
  <2>1. ASSUME NEW i \in 1 .. Len(t), NEW j \in 1 .. Len(t), t[i] = t[j] PROVE i = j
    <3>1. i + Len(s) = j + Len(s) BY <1>4, <1>6, <2>1
    <3> QED BY <1>2, <3>1
  <2> QED BY <1>2, <2>1 DEF IsInjective
<1>9. ASSUME NEW e \in ToSet(s), e \in ToSet(t) PROVE FALSE
  <2>1. PICK i \in 1 .. Len(s) : s[i] = e BY Elements
  <2>2. PICK j \in 1 .. Len(t) : t[j] = e BY <1>9, Elements
  <2>3. i = j + Len(s) BY <1>4, <1>5, <1>6, <2>1, <2>2
  <2> QED BY <1>2, <2>1, <2>2, <2>3
<1> QED BY <1>7, <1>8, <1>9

LEMMA DistinctAppend ==
  ASSUME NEW A, NEW s \in Seq(A), NEW e \in A, IsInjective(s), e \notin ToSet(s)
  PROVE  IsInjective(Append(s, e))
<1>1. /\ Append(s, e) \in Seq(A) /\ Len(Append(s, e)) = Len(s) + 1
      /\ Append(s, e)[Len(s) + 1] = e
      /\ \A i \in 1 .. Len(s) : Append(s, e)[i] = s[i]
  BY AppendProperties, LenProperties
<1>2. Len(s) \in Nat /\ DOMAIN s = 1 .. Len(s) /\ DOMAIN Append(s, e) = 1 .. Len(s) + 1
  BY <1>1, LenProperties
<1>3. ASSUME NEW i \in 1 .. Len(s) + 1, NEW j \in 1 .. Len(s) + 1,
             Append(s, e)[i] = Append(s, e)[j]
      PROVE  i = j
  <2>1. \A k \in 1 .. Len(s) : s[k] # e BY Elements
  <2>2. i \in 1 .. Len(s) \/ i = Len(s) + 1 BY <1>2
  <2>3. j \in 1 .. Len(s) \/ j = Len(s) + 1 BY <1>2
  <2>4. CASE i \in 1 .. Len(s) /\ j \in 1 .. Len(s) BY <1>1, <1>2, <1>3, <2>4 DEF IsInjective
  <2> QED BY <1>1, <1>3, <2>1, <2>2, <2>3, <2>4
<1> QED BY <1>2, <1>3 DEF IsInjective

-------------------------------------------------------------------------------
(* A file read from an offset: what is shown, and what the offset hides.       *)

View(file_, at) == Only(SubSeq(file_, at + 1, Len(file_)), Shown)
Gone(file_, at) == Only(SubSeq(file_, 1, at), Shown)

LEMMA Cut ==
  ASSUME NEW A, NEW s \in Seq(A), NEW k \in 0 .. Len(s)
  PROVE  /\ SubSeq(s, 1, k) \in Seq(A) /\ Len(SubSeq(s, 1, k)) = k
         /\ SubSeq(s, k + 1, Len(s)) \in Seq(A) /\ Len(SubSeq(s, k + 1, Len(s))) = Len(s) - k
         /\ SubSeq(s, 1, k) \o SubSeq(s, k + 1, Len(s)) = s
<1>1. Len(s) \in Nat /\ k \in Nat /\ \A i \in 1 .. Len(s) : s[i] \in A BY ElementOfSeq, LenProperties
<1>2. SubSeq(s, 1, k) \in Seq(A) /\ Len(SubSeq(s, 1, k)) = k
  <2>1. \A i \in 1 .. k : s[i] \in A BY <1>1
  <2>2. k < 1 => k = 0 BY <1>1
  <2> QED BY <1>1, <2>1, <2>2, SubSeqProperties
<1>3. SubSeq(s, k + 1, Len(s)) \in Seq(A) /\ Len(SubSeq(s, k + 1, Len(s))) = Len(s) - k
  <2>1. \A i \in k + 1 .. Len(s) : s[i] \in A BY <1>1
  <2>2. ~(k + 1 <= Len(s)) => Len(s) - k = 0 BY <1>1
  <2>3. k + 1 <= Len(s) => Len(s) - (k + 1) + 1 = Len(s) - k BY <1>1
  <2>4. k + 1 \in Int /\ Len(s) \in Int BY <1>1
  <2> QED BY <2>1, <2>2, <2>3, <2>4, SubSeqProperties
<1>4. SubSeq(s, 1, k) \o SubSeq(s, k + 1, Len(s)) = SubSeq(s, 1, Len(s))
  <2>1. /\ 1 \in 1 .. Len(s) + 1 /\ k \in 1 - 1 .. Len(s) /\ Len(s) \in k .. Len(s)
    BY <1>1
  <2> QED BY <2>1, ConcatAdjacentSubSeq
<1> QED BY <1>2, <1>3, <1>4, SubSeqFull

LEMMA Views ==
  ASSUME NEW A, NEW s \in Seq(A), NEW k \in 0 .. Len(s)
  PROVE  /\ View(s, k) \in Seq(A \cap Shown)
         /\ Gone(s, k) \in Seq(A \cap Shown)
         /\ Gone(s, k) \o View(s, k) = Only(s, Shown)
<1> DEFINE a == SubSeq(s, 1, k)
           b == SubSeq(s, k + 1, Len(s))
<1>1. a \in Seq(A) /\ b \in Seq(A) /\ a \o b = s BY Cut
<1> HIDE DEF a, b
<1>2. Only(a, Shown) \in Seq(A \cap Shown) /\ Only(b, Shown) \in Seq(A \cap Shown)
  BY <1>1, OnlyType
<1>3. Only(a \o b, Shown) = Only(a, Shown) \o Only(b, Shown) BY <1>1, OnlyConcat
<1> QED BY <1>1, <1>2, <1>3 DEF a, b, View, Gone

LEMMA ViewZero ==
  ASSUME NEW A, NEW s \in Seq(A)
  PROVE  View(s, 0) = Only(s, Shown) /\ Gone(s, 0) = <<>>
<1>1. SubSeq(s, 0 + 1, Len(s)) = s BY SubSeqFull
<1>2. SubSeq(s, 1, 0) = <<>> BY SubSeqEmpty
<1> QED BY <1>1, <1>2, OnlyEmpty DEF View, Gone

LEMMA ViewAppend ==
  ASSUME NEW A, NEW s \in Seq(A), NEW k \in 0 .. Len(s), NEW e \in A
  PROVE  /\ k \in 0 .. Len(Append(s, e))
         /\ Gone(Append(s, e), k) = Gone(s, k)
         /\ View(Append(s, e), k) = IF e \in Shown THEN Append(View(s, k), e) ELSE View(s, k)
<1> DEFINE a == SubSeq(s, 1, k)
           b == SubSeq(s, k + 1, Len(s))
           t == Append(s, e)
<1>1. a \in Seq(A) /\ b \in Seq(A) /\ a \o b = s /\ Len(a) = k BY Cut
<1>2. /\ t \in Seq(A) /\ Len(t) = Len(s) + 1 /\ t[Len(s) + 1] = e
      /\ \A i \in 1 .. Len(s) : t[i] = s[i]
      /\ Len(s) \in Nat /\ k \in Nat
  BY AppendProperties, LenProperties
<1>3. k \in 0 .. Len(t) BY <1>2
<1>4. SubSeq(t, 1, k) = a
  <2>1. SubSeq(t, 1, k) \in Seq(A) /\ Len(SubSeq(t, 1, k)) = k BY <1>2, <1>3, Cut
  <2>2. ASSUME NEW i \in 1 .. k PROVE SubSeq(t, 1, k)[i] = a[i]
    <3>1. i \in 1 .. Len(s) /\ 1 + i - 1 = i BY <1>2
    <3> QED BY <1>2, <2>1, <3>1
  <2> QED BY <1>1, <2>1, <2>2, SeqEqual
<1>5. SubSeq(t, k + 1, Len(t)) = Append(b, e)
  <2>1. /\ SubSeq(t, k + 1, Len(t)) \in Seq(A)
        /\ Len(SubSeq(t, k + 1, Len(t))) = Len(s) - k + 1
    BY <1>2, <1>3, Cut
  <2>2. Append(b, e) \in Seq(A) /\ Len(Append(b, e)) = Len(s) - k + 1 /\ Len(b) = Len(s) - k
    <3>1. Len(b) = Len(s) - k BY Cut
    <3> HIDE DEF b
    <3>2. Append(b, e) \in Seq(A) /\ Len(Append(b, e)) = Len(b) + 1
      BY <1>1, AppendProperties
    <3> QED BY <3>1, <3>2
  <2>3. ASSUME NEW i \in 1 .. Len(s) - k + 1
        PROVE  SubSeq(t, k + 1, Len(t))[i] = Append(b, e)[i]
    <3>1. SubSeq(t, k + 1, Len(t))[i] = t[i + k] BY <1>2
    <3>2. CASE i = Len(s) - k + 1
      <4>1. i + k = Len(s) + 1 BY <1>2, <3>2
      <4>2. Append(b, e)[i] = e BY <1>1, <2>2, <3>2
      <4> QED BY <1>2, <3>1, <4>1, <4>2
    <3>3. CASE i \in 1 .. Len(s) - k
      <4>1. i + k \in 1 .. Len(s) BY <1>2, <3>3
      <4>2. Append(b, e)[i] = b[i]
        <5>1. b \in Seq(A) /\ i \in 1 .. Len(b) BY <1>1, <2>2, <3>3
        <5> HIDE DEF b
        <5> QED BY <5>1, AppendProperties
      <4>3. b[i] = s[i + k] BY <1>2, <3>3
      <4> QED BY <1>2, <3>1, <4>1, <4>2, <4>3
    <3>4. i \in 1 .. Len(s) - k \/ i = Len(s) - k + 1 BY <1>2
    <3> QED BY <3>2, <3>3, <3>4
  <2> HIDE DEF b, t
  <2> QED BY <2>1, <2>2, <2>3, SeqEqual
<1> HIDE DEF a, b
<1>6. Only(Append(b, e), Shown)
        = IF e \in Shown THEN Append(Only(b, Shown), e) ELSE Only(b, Shown)
  BY <1>1, OnlyAppend
<1> QED BY <1>3, <1>4, <1>5, <1>6 DEF a, b, View, Gone

\* Reading from further on leaves out a first part, and the offset hides it.
LEMMA ViewFrom ==
  ASSUME NEW A, NEW s \in Seq(A), NEW j \in 0 .. Len(s), NEW k \in j .. Len(s)
  PROVE  \E p \in Seq(A \cap Shown) :
           /\ View(s, j) = p \o View(s, k)
           /\ Gone(s, k) = Gone(s, j) \o p
           /\ Len(p) <= k - j
<1> DEFINE a == SubSeq(s, 1, j)
           b == SubSeq(s, j + 1, k)
           c == SubSeq(s, k + 1, Len(s))
<1>1. Len(s) \in Nat /\ j \in Nat /\ k \in Nat /\ j <= k /\ k <= Len(s) /\ k \in 0 .. Len(s)
  BY LenProperties
<1>2. a \in Seq(A) /\ c \in Seq(A) BY <1>1, Cut
<1>3. b \in Seq(A) /\ Len(b) = k - j
  <2>1. \A i \in j + 1 .. k : s[i] \in A
    <3>1. ASSUME NEW i \in j + 1 .. k PROVE i \in 1 .. Len(s) BY <1>1
    <3> QED BY <3>1, ElementOfSeq
  <2>2. ~(j + 1 <= k) => k - j = 0 BY <1>1
  <2>3. j + 1 <= k => k - (j + 1) + 1 = k - j BY <1>1
  <2>4. j + 1 \in Int /\ k \in Int BY <1>1
  <2> QED BY <2>1, <2>2, <2>3, <2>4, SubSeqProperties
<1>4. a \o b = SubSeq(s, 1, k)
  <2>1. 1 \in 1 .. Len(s) + 1 /\ j \in 1 - 1 .. Len(s) /\ k \in j .. Len(s) BY <1>1
  <2> QED BY <2>1, ConcatAdjacentSubSeq
<1>5. b \o c = SubSeq(s, j + 1, Len(s))
  <2>1. j + 1 \in 1 .. Len(s) + 1 /\ k \in (j + 1) - 1 .. Len(s) /\ Len(s) \in k .. Len(s)
    BY <1>1
  <2> QED BY <2>1, ConcatAdjacentSubSeq
<1> HIDE DEF a, b, c
<1>6. Only(b, Shown) \in Seq(A \cap Shown) /\ Len(Only(b, Shown)) <= k - j
  BY <1>3, OnlyType, OnlyLen
<1>7. /\ Only(a \o b, Shown) = Only(a, Shown) \o Only(b, Shown)
      /\ Only(b \o c, Shown) = Only(b, Shown) \o Only(c, Shown)
  BY <1>2, <1>3, OnlyConcat
<1>8. /\ View(s, j) = Only(b, Shown) \o View(s, k)
      /\ Gone(s, k) = Gone(s, j) \o Only(b, Shown)
  BY <1>4, <1>5, <1>7 DEF View, Gone, a, c
<1> QED BY <1>6, <1>8

\* The offset TruncateHistory writes exists, and leaves as many messages as it
\* is asked to keep: the last ones.
LEMMA SkipExists ==
  ASSUME NEW A, NEW s \in Seq(A), NEW k \in 0 .. Len(s), NEW n \in Nat,
         n < Len(View(s, k))
  PROVE  \E at \in k .. Len(s) :
           /\ Len(View(s, at)) = n
           /\ \A less \in k .. at - 1 : Len(View(s, less)) > n
<1> DEFINE Least(at) == /\ Len(View(s, at)) = n
                        /\ \A less \in k .. at - 1 : Len(View(s, less)) > n
           T == {m \in Nat : k + m <= Len(s) =>
                   \/ \E at \in k .. k + m : Least(at)
                   \/ \A at \in k .. k + m : Len(View(s, at)) > n}
<1>1. Len(s) \in Nat /\ k \in Nat /\ k <= Len(s) BY LenProperties
<1>2. \A at \in 0 .. Len(s) : Len(View(s, at)) \in Nat BY Views, LenProperties
<1>3. 0 \in T
  <2>1. \A at \in k .. k + 0 : at = k BY <1>1
  <2> QED BY <1>1, <1>2, <2>1
<1>4. ASSUME NEW m \in Nat, m \in T PROVE m + 1 \in T
  <2>1. SUFFICES ASSUME k + (m + 1) <= Len(s)
                 PROVE  \/ \E at \in k .. k + (m + 1) : Least(at)
                        \/ \A at \in k .. k + (m + 1) : Len(View(s, at)) > n
    OBVIOUS
  <2>2. k + m <= Len(s) BY <1>1, <2>1
  <2>3. CASE \E at \in k .. k + m : Least(at)
    <3>1. PICK at \in k .. k + m : Least(at) BY <2>3
    <3>2. at \in k .. k + (m + 1) BY <1>1
    <3> QED BY <3>1, <3>2
  <2>4. CASE \A at \in k .. k + m : Len(View(s, at)) > n
    <3> DEFINE i == k + m
               j == k + (m + 1)
    <3>1. i \in 0 .. Len(s) /\ j \in i .. Len(s) /\ j - i = 1 /\ i \in k .. k + m
          /\ j - 1 = i /\ j \in 0 .. Len(s) /\ j \in k .. k + (m + 1)
      BY <1>1, <2>1
    <3> HIDE DEF i, j
    <3>2. PICK p \in Seq(A \cap Shown) : View(s, i) = p \o View(s, j) /\ Len(p) <= j - i
      BY <3>1, ViewFrom
    <3>3. Len(View(s, i)) = Len(p) + Len(View(s, j))
      <4>1. View(s, j) \in Seq(A \cap Shown) BY <3>1, Views
      <4> QED BY <3>2, <4>1, ConcatProperties
    <3>4. Len(View(s, i)) > n BY <2>4, <3>1
    <3>5. Len(p) \in Nat /\ Len(p) <= 1 BY <3>1, <3>2, LenProperties
    <3>6. Len(View(s, j)) \in Nat /\ Len(View(s, i)) \in Nat BY <1>2, <3>1
    <3>7. Len(View(s, j)) = n \/ Len(View(s, j)) > n BY <3>3, <3>4, <3>5, <3>6
    <3>8. CASE Len(View(s, j)) = n
      <4>1. \A less \in k .. j - 1 : Len(View(s, less)) > n BY <2>4, <3>1 DEF i
      <4> QED BY <3>1, <3>8, <4>1
    <3>9. CASE Len(View(s, j)) > n
      <4>1. ASSUME NEW at \in k .. k + (m + 1) PROVE Len(View(s, at)) > n
        <5>1. at \in k .. k + m \/ at = j BY <1>1 DEF j
        <5> QED BY <2>4, <3>9, <5>1
      <4> QED BY <4>1
    <3> QED BY <3>7, <3>8, <3>9
  <2> QED BY <1>4, <2>2, <2>3, <2>4
<1>5. Nat \subseteq T
  <2> HIDE DEF T
  <2> QED BY <1>3, <1>4, Induction
<1>6. PICK m \in Nat : k + m = Len(s)
  <2>1. Len(s) - k \in Nat /\ k + (Len(s) - k) = Len(s) BY <1>1
  <2> QED BY <2>1
<1>7. CASE \A at \in k .. Len(s) : Len(View(s, at)) > n
  <2>1. Len(s) \in k .. Len(s) BY <1>1
  <2>2. SubSeq(s, Len(s) + 1, Len(s)) = <<>> BY <1>1, SubSeqEmpty
  <2>3. View(s, Len(s)) = <<>> BY <2>2, OnlyEmpty DEF View
  <2>4. Len(View(s, Len(s))) > n BY <1>7, <2>1
  <2> QED BY <2>3, <2>4
<1>8. CASE \E at \in k .. Len(s) : Least(at) BY <1>8
<1>9. k + m <= Len(s) BY <1>1, <1>6
<1> QED BY <1>5, <1>6, <1>7, <1>8, <1>9

\* (the offset of SkipFor, for a file and an offset)
SkipOf(file_, at, keepLast) ==
  IF keepLast >= Len(View(file_, at)) THEN at
  ELSE CHOOSE i \in at .. Len(file_) :
         /\ Len(View(file_, i)) = keepLast
         /\ \A less \in at .. i - 1 : Len(View(file_, less)) > keepLast

LEMMA Truncated ==
  ASSUME NEW A, NEW s \in Seq(A), NEW k \in 0 .. Len(s), NEW n \in 1 .. Len(View(s, k))
  PROVE  /\ SkipOf(s, k, n) \in k .. Len(s)
         /\ Len(View(s, SkipOf(s, k, n))) = n
         /\ \E p \in Seq(A \cap Shown) :
              /\ View(s, k) = p \o View(s, SkipOf(s, k, n))
              /\ Gone(s, SkipOf(s, k, n)) = Gone(s, k) \o p
<1>1. Len(s) \in Nat /\ k \in Nat /\ k <= Len(s) BY LenProperties
<1>2. Len(View(s, k)) \in Nat BY Views, LenProperties
<1>3. SkipOf(s, k, n) \in k .. Len(s) /\ Len(View(s, SkipOf(s, k, n))) = n
  <2>1. CASE n >= Len(View(s, k))
    <3>1. n = Len(View(s, k)) /\ k \in k .. Len(s) BY <1>1, <1>2, <2>1
    <3> QED BY <2>1, <3>1 DEF SkipOf
  <2>2. CASE ~(n >= Len(View(s, k)))
    <3>1. n \in Nat /\ n < Len(View(s, k)) BY <1>2, <2>2
    <3>2. \E i \in k .. Len(s) :
            /\ Len(View(s, i)) = n
            /\ \A less \in k .. i - 1 : Len(View(s, less)) > n
      BY <3>1, SkipExists
    <3> QED BY <2>2, <3>2 DEF SkipOf
  <2> QED BY <2>1, <2>2
<1>4. PICK at \in k .. Len(s) : at = SkipOf(s, k, n) BY <1>3
<1>5. PICK p \in Seq(A \cap Shown) : /\ View(s, k) = p \o View(s, at)
                                      /\ Gone(s, at) = Gone(s, k) \o p
                                      /\ Len(p) <= at - k
  BY ViewFrom
<1> QED BY <1>3, <1>4, <1>5

-------------------------------------------------------------------------------
(* What a history v keeps of what was told, h. *)

Keeps(v, h) == Only(v, ToSet(h)) = h

LEMMA KeptElements ==
  ASSUME NEW A, NEW v \in Seq(A), NEW h, Keeps(v, h)
  PROVE  h \in Seq(A) /\ ToSet(h) \subseteq ToSet(v)
<1>1. v \in Seq(ToSet(v)) /\ ToSet(v) \subseteq A BY Elements
<1>2. Only(v, ToSet(h)) \in Seq(ToSet(v) \cap ToSet(h)) BY <1>1, OnlyType
<1>3. h \in Seq(ToSet(v)) BY <1>2, SeqMonotonic DEF Keeps
<1>4. h \in Seq(A) BY <1>1, <1>3, SeqMonotonic
<1> QED BY <1>3, <1>4, Elements

\* A history keeps what it is.
LEMMA KeepsItself ==
  ASSUME NEW A, NEW v \in Seq(A)
  PROVE  Keeps(v, v)
<1>1. v \in Seq(ToSet(v)) BY Elements
<1>2. ToSet(v) \subseteq ToSet(v) OBVIOUS
<1> QED BY <1>1, <1>2, OnlyAll DEF Keeps

\* Truncated messages that come back stand in front of it.
LEMMA KeepsReappeared ==
  ASSUME NEW A, NEW g \in Seq(A), NEW v \in Seq(A), NEW h,
         IsInjective(g \o v), Keeps(v, h)
  PROVE  Keeps(g \o v, h)
<1>1. ToSet(g) \cap ToSet(v) = {} BY DistinctParts
<1>2. h \in Seq(A) /\ ToSet(h) \subseteq ToSet(v) BY KeptElements
<1>3. g \in Seq(ToSet(g)) BY Elements
<1>4. ToSet(g) \cap ToSet(h) = {} BY <1>1, <1>2
<1>5. Only(g, ToSet(h)) = <<>> BY <1>3, <1>4, OnlyNone
<1>6. Only(g \o v, ToSet(h)) = Only(g, ToSet(h)) \o Only(v, ToSet(h)) BY OnlyConcat
<1>7. <<>> \o h = h BY <1>2, ConcatEmptySeq
<1> QED BY <1>5, <1>6, <1>7 DEF Keeps

\* A truncated history keeps what is told after the truncation.
LEMMA KeepsTruncated ==
  ASSUME NEW A, NEW p \in Seq(A), NEW v \in Seq(A), NEW h,
         IsInjective(p \o v), Keeps(p \o v, h)
  PROVE  /\ Keeps(v, Only(h, ToSet(v)))
         /\ p \o v = h => Only(h, ToSet(v)) = v
<1> DEFINE H == ToSet(h)
           V == ToSet(v)
<1>1. ToSet(p) \cap V = {} BY DistinctParts
<1>2. p \o v \in Seq(A) BY ConcatProperties
<1>3. h \in Seq(A) BY <1>2, KeptElements
<1>4. p \in Seq(ToSet(p)) /\ v \in Seq(V) BY Elements
<1>5. Only(p, H \cap V) = <<>>
  <2>1. ToSet(p) \cap (H \cap V) = {} BY <1>1
  <2> QED BY <1>4, <2>1, OnlyNone
<1>6. Only(v, H \cap V) \in Seq(A \cap (H \cap V)) BY OnlyType
<1>7. Only(p \o v, H \cap V) = Only(v, H \cap V)
  <2>1. Only(p \o v, H \cap V) = Only(p, H \cap V) \o Only(v, H \cap V) BY OnlyConcat
  <2>2. <<>> \o Only(v, H \cap V) = Only(v, H \cap V) BY <1>6, ConcatEmptySeq
  <2> QED BY <1>5, <2>1, <2>2
<1>8. Only(h, V) = Only(v, H \cap V)
  <2> DEFINE w == p \o v
  <2>1. w \in Seq(A) BY <1>2
  <2>2. h = Only(w, H) BY DEF Keeps
  <2> HIDE DEF w, H, V
  <2>3. Only(Only(w, H), V) = Only(w, H \cap V) BY <2>1, OnlyOnly
  <2>4. Only(h, V) = Only(w, H \cap V) BY <2>2, <2>3
  <2> QED BY <1>7, <2>4 DEF w
<1>9. ToSet(Only(h, V)) = H \cap V
  <2>1. Only(h, V) \in Seq(H \cap V)
    <3>1. h \in Seq(H) BY <1>3, Elements
    <3> QED BY <3>1, OnlyType
  <2>2. ToSet(Only(h, V)) \subseteq H \cap V BY <2>1, Elements
  <2>3. ASSUME NEW e \in H \cap V PROVE e \in ToSet(Only(h, V))
    <3> QED BY <1>3, OnlyElements
  <2> QED BY <2>2, <2>3
<1>10. Keeps(v, Only(h, V)) BY <1>8, <1>9 DEF Keeps
<1>11. ASSUME p \o v = h PROVE Only(h, V) = v
  <2>1. H = ToSet(p) \cup V BY <1>11, ConcatElements
  <2>2. V \subseteq H \cap V BY <2>1
  <2>3. Only(v, H \cap V) = v BY <1>4, <2>2, OnlyAll
  <2> QED BY <1>8, <2>3
<1> QED BY <1>10, <1>11

\* One message more, before and after its caller is told of it.
LEMMA KeepsAppended ==
  ASSUME NEW A, NEW q \in Seq(A), NEW m \in A, NEW h,
         IsInjective(Append(q, m)), Keeps(q, h)
  PROVE  Keeps(Append(q, m), h) /\ Keeps(Append(q, m), Append(h, m))
<1> DEFINE H == ToSet(h)
<1>1. Append(q, m) = q \o <<m>> /\ <<m>> \in Seq(A) /\ ToSet(<<m>>) = {m}
  BY AppendIsConcat DEF ToSet
<1>2. m \notin ToSet(q) BY <1>1, DistinctParts
<1>3. h \in Seq(A) /\ H \subseteq ToSet(q) BY KeptElements
<1>4. \A S : Only(Append(q, m), S) = IF m \in S THEN Append(Only(q, S), m) ELSE Only(q, S)
  BY OnlyAppend
<1>5. Keeps(Append(q, m), h) BY <1>2, <1>3, <1>4 DEF Keeps
<1>6. ToSet(Append(h, m)) = H \cup {m} BY <1>3, AppendElements
<1>7. Only(q, H \cup {m}) = h
  <2>1. q \in Seq(ToSet(q)) BY Elements
  <2>2. ToSet(q) \cap (H \cup {m}) = ToSet(q) \cap H BY <1>2
  <2>3. Only(q, H \cup {m}) = Only(q, H) BY <2>1, <2>2, OnlySame
  <2> QED BY <2>3 DEF Keeps
<1>8. Only(Append(q, m), H \cup {m}) = Append(h, m) BY <1>4, <1>7
<1> QED BY <1>5, <1>6, <1>8 DEF Keeps

-------------------------------------------------------------------------------
(* The invariant. *)

Lines == LinesOf \cap Shown

OpOK ==
  \/ op = NoOp
  \/ op \in [of : {"append"}, msg : Messages, swallowed : BOOLEAN]
  \/ op \in [of : {"set", "compact"}, target : Seq(Lines), before : Seq(Lines), hidden : Seq(Lines)]
  \/ op \in [of : {"promote"}, lines : Seq(LinesOf), ended : BOOLEAN]

Types ==
  /\ lines \in Seq(LinesOf)
  /\ ended \in BOOLEAN
  /\ skip \in 0 .. Len(lines)
  /\ count \in Nat
  /\ summary \in Summaries \cup {NoSummary, AliasSummary}
  /\ OpOK
  /\ appended \subseteq Messages
  /\ failures \in 0 .. MaxFailures
  /\ stale \in BOOLEAN

\* The metadata is such that either write of an operation leaves a history.
Files ==
  /\ skip > 0 => Visible # <<>>
  /\ Rewriting =>
       /\ skip = 0
       /\ Only(lines, Shown) = op.hidden \o op.before
       /\ op.target \in Prefixes(op.before) \cup Suffixes(op.before)
       /\ op.of = "compact" => op.target = op.before
  /\ op.of = "promote" =>
       /\ skip = 0 /\ summary = NoSummary
       /\ lines = AliasHistory
       /\ Only(op.lines, Shown) = <<>>

\* No message has two lines, and none has one before it is appended.
Unique ==
  /\ IsInjective(Only(lines, Shown))
  /\ ToSet(Only(lines, Shown)) \cap Messages \subseteq appended

\* What the callers were told is in the history, apart from the message they
\* are about to be told of.
Told ==
  /\ held \in Seq(Lines)
  /\ IF op.of = "append" /\ ~op.swallowed
     THEN \E q \in Prefixes(Visible) :
            /\ Visible = Append(q, op.msg)
            /\ Keeps(q, held)
            /\ ~stale => q = held
     ELSE /\ Keeps(Current, held)
          /\ ~stale => Current = held

\* A torn line shows in stale.
Tears ==
  /\ ~ended => stale
  /\ op.of = "append" /\ op.swallowed => stale
  /\ op.of = "promote" /\ ~op.ended => stale

Inv == Types /\ Files /\ Unique /\ Told /\ Tears

-------------------------------------------------------------------------------
(* What the invariant says of a state, and what reading gives before and after *)
(* a step.                                                                     *)

LEMMA Reading ==
  /\ Visible = View(lines, skip) /\ Hidden = Gone(lines, skip)
  /\ Visible' = View(lines', skip') /\ Hidden' = Gone(lines', skip')
  /\ \A n : SkipFor(n) = SkipOf(lines, skip, n)
<1>1. Visible = View(lines, skip) /\ Hidden = Gone(lines, skip)
  BY DEF Visible, Hidden, ReadFrom, View, Gone
<1>2. Visible' = View(lines', skip') /\ Hidden' = Gone(lines', skip')
  BY DEF Visible, Hidden, ReadFrom, View, Gone
<1>3. \A n : SkipFor(n) = SkipOf(lines, skip, n)
  BY <1>1 DEF SkipFor, SkipOf, ReadFrom, View
<1> QED BY <1>1, <1>2, <1>3

LEMMA Universe ==
  /\ Lines \subseteq LinesOf /\ Lines \subseteq Shown /\ LinesOf \cap Shown = Lines
  /\ Messages \subseteq Lines /\ Torn \in LinesOf /\ Torn \notin Shown
  /\ OldLines \in Seq(LinesOf) /\ AliasHistory \in Seq(Lines) /\ AliasHistory \in Seq(LinesOf)
  /\ ToSet(OldLines) \cap Messages = {} /\ ToSet(AliasHistory) \cap Messages = {}
<1>1. /\ OldLines \in Seq(ToSet(OldLines)) /\ ToSet(OldLines) \subseteq Nat \ Messages
  BY SessionStoreAssumption, Elements
<1>2. /\ AliasHistory \in Seq(ToSet(AliasHistory)) /\ ToSet(AliasHistory) \subseteq Shown \ Messages
  BY SessionStoreAssumption, Elements
<1>3. OldLines \in Seq(LinesOf)
  <2>1. ToSet(OldLines) \subseteq LinesOf BY DEF LinesOf
  <2> QED BY <1>1, <2>1, SeqMonotonic
<1>4. ToSet(AliasHistory) \subseteq Lines /\ Lines \subseteq LinesOf BY <1>2 DEF Lines, LinesOf
<1>5. AliasHistory \in Seq(Lines) BY <1>2, <1>4, SeqMonotonic
<1>6. AliasHistory \in Seq(LinesOf) BY <1>4, <1>5, SeqMonotonic
<1>7. Messages \subseteq Lines BY SessionStoreAssumption DEF Lines, LinesOf
<1>8. Torn \in LinesOf /\ Torn \notin Shown BY DEF LinesOf, Shown
<1> QED BY <1>1, <1>2, <1>3, <1>4, <1>5, <1>6, <1>7, <1>8 DEF Lines

LEMMA OpCases ==
  ASSUME OpOK
  PROVE  /\ op.of \in {"none", "append", "set", "compact", "promote"}
         /\ Idle <=> op.of = "none"
         /\ op.of = "append" => op.msg \in Messages /\ op.swallowed \in BOOLEAN
         /\ Rewriting => /\ op.target \in Seq(Lines)
                         /\ op.before \in Seq(Lines) /\ op.hidden \in Seq(Lines)
         /\ op.of = "promote" => op.lines \in Seq(LinesOf) /\ op.ended \in BOOLEAN
BY DEF OpOK, Idle, NoOp, Rewriting

LEMMA EmptyHasNone == IsInjective(<<>>) /\ ToSet(<<>>) = {}
<1>1. DOMAIN <<>> = {} OBVIOUS
<1> QED BY <1>1 DEF IsInjective, ToSet

\* What an older version left, or a file of one alias, is read as what it shows.
LEMMA ShownAsIs ==
  ASSUME NEW s \in Seq(Lines)
  PROVE  Only(s, Shown) = s
BY Universe, OnlyAll

LEMMA Contents ==
  ASSUME Types, Files, Unique
  PROVE  /\ Visible \in Seq(Lines) /\ Hidden \in Seq(Lines)
         /\ Hidden \o Visible = Only(lines, Shown)
         /\ Current \in Seq(Lines) /\ Dropped \in Seq(Lines)
         /\ op.of # "promote" => Dropped \o Current = Only(lines, Shown)
         /\ IsInjective(Visible) /\ IsInjective(Current)
         /\ skip = 0 => Visible = Only(lines, Shown) /\ Hidden = <<>>
<1>1. lines \in Seq(LinesOf) /\ skip \in 0 .. Len(lines) BY DEF Types
<1>2. /\ Visible \in Seq(Lines) /\ Hidden \in Seq(Lines)
      /\ Hidden \o Visible = Only(lines, Shown)
  BY <1>1, Views, Reading, Universe
<1>3. skip = 0 => Visible = Only(lines, Shown) /\ Hidden = <<>> BY <1>1, ViewZero, Reading
<1>4. IsInjective(Visible)
  <2>1. IsInjective(Hidden \o Visible) BY <1>2 DEF Unique
  <2> QED BY <1>2, <2>1, DistinctParts
<1>5. CASE Rewriting
  <2>1. /\ op.before \in Seq(Lines) /\ op.hidden \in Seq(Lines)
    BY <1>5, OpCases DEF Types
  <2>2. Only(lines, Shown) = op.hidden \o op.before BY <1>5 DEF Files
  <2>3. IsInjective(op.before) BY <2>1, <2>2, DistinctParts DEF Unique
  <2> QED BY <1>2, <1>3, <1>4, <1>5, <2>1, <2>2, <2>3 DEF Current, Dropped
<1>6. CASE ~Rewriting /\ op.of = "promote"
  <2>1. <<>> \in Seq(Lines) BY EmptySeq
  <2>2. Current = <<>> /\ Dropped = <<>> BY <1>6 DEF Current, Dropped
  <2> QED BY <1>2, <1>3, <1>4, <1>6, <2>1, <2>2, EmptyHasNone
<1>7. CASE ~Rewriting /\ op.of # "promote"
  <2>1. Current = Visible /\ Dropped = Hidden BY <1>7 DEF Current, Dropped
  <2> QED BY <1>2, <1>3, <1>4, <1>7, <2>1
<1> QED BY <1>5, <1>6, <1>7

\* What happens to the file.
LEMMA FileKept ==
  ASSUME UNCHANGED lines, UNCHANGED skip
  PROVE  Visible' = Visible /\ Hidden' = Hidden
BY Reading

LEMMA FileAppended ==
  ASSUME Types, NEW e \in LinesOf, lines' = Append(lines, e), UNCHANGED skip
  PROVE  /\ lines' \in Seq(LinesOf) /\ skip' \in 0 .. Len(lines')
         /\ Hidden' = Hidden
         /\ Visible' = IF e \in Shown THEN Append(Visible, e) ELSE Visible
         /\ Only(lines', Shown)
              = IF e \in Shown THEN Append(Only(lines, Shown), e) ELSE Only(lines, Shown)
<1>1. lines \in Seq(LinesOf) /\ skip \in 0 .. Len(lines) BY DEF Types
<1>2. lines' \in Seq(LinesOf) BY <1>1, AppendProperties
<1>3. /\ skip \in 0 .. Len(Append(lines, e))
      /\ Gone(Append(lines, e), skip) = Gone(lines, skip)
      /\ View(Append(lines, e), skip)
           = IF e \in Shown THEN Append(View(lines, skip), e) ELSE View(lines, skip)
  BY <1>1, ViewAppend
<1>4. Only(Append(lines, e), Shown)
        = IF e \in Shown THEN Append(Only(lines, Shown), e) ELSE Only(lines, Shown)
  BY <1>1, OnlyAppend
<1> QED BY <1>2, <1>3, <1>4, Reading

LEMMA FileReplaced ==
  ASSUME NEW s \in Seq(LinesOf), lines' = s, skip' = 0
  PROVE  /\ lines' \in Seq(LinesOf) /\ skip' \in 0 .. Len(lines')
         /\ Hidden' = <<>> /\ Visible' = Only(s, Shown)
<1>1. View(s, 0) = Only(s, Shown) /\ Gone(s, 0) = <<>> BY ViewZero
<1>2. Len(s) \in Nat BY LenProperties
<1> QED BY <1>1, <1>2, Reading

LEMMA PartOf ==
  ASSUME NEW A, NEW v \in Seq(A), NEW h \in Prefixes(v) \cup Suffixes(v)
  PROVE  /\ \E k \in 0 .. Len(v) : h = SubSeq(v, 1, k) \/ h = SubSeq(v, k + 1, Len(v))
         /\ h \in Seq(A)
         /\ IsInjective(v) => IsInjective(h)
<1>1. Len(v) \in Nat BY LenProperties
<1>2. \E k \in 0 .. Len(v) : h = SubSeq(v, 1, k) \/ h = SubSeq(v, k + 1, Len(v))
  <2>1. CASE h \in Prefixes(v) BY <2>1 DEF Prefixes
  <2>2. CASE h \in Suffixes(v) /\ h # <<>>
    <3>1. PICK l \in 1 .. Len(v) : h = SubSeq(v, l, Len(v)) BY <2>2 DEF Suffixes
    <3>2. l - 1 \in 0 .. Len(v) /\ (l - 1) + 1 = l BY <1>1
    <3> QED BY <3>1, <3>2
  <2>3. CASE h = <<>>
    <3>1. SubSeq(v, 1, 0) = <<>> /\ 0 \in 0 .. Len(v) BY <1>1, SubSeqEmpty
    <3> QED BY <2>3, <3>1
  <2> QED BY <2>1, <2>2, <2>3
<1>3. PICK k \in 0 .. Len(v) : h = SubSeq(v, 1, k) \/ h = SubSeq(v, k + 1, Len(v)) BY <1>2
<1> DEFINE a == SubSeq(v, 1, k)
           b == SubSeq(v, k + 1, Len(v))
<1>4. a \in Seq(A) /\ b \in Seq(A) /\ a \o b = v BY Cut
<1>5. h = a \/ h = b BY <1>3
<1> HIDE DEF a, b
<1>6. IsInjective(v) => IsInjective(a) /\ IsInjective(b) BY <1>4, DistinctParts
<1> QED BY <1>2, <1>4, <1>5, <1>6

LEMMA PrefixOfAppend ==
  ASSUME NEW A, NEW q \in Seq(A), NEW e \in A
  PROVE  q \in Prefixes(Append(q, e))
<1> DEFINE t == Append(q, e)
<1>1. /\ t \in Seq(A) /\ Len(t) = Len(q) + 1 /\ \A i \in 1 .. Len(q) : t[i] = q[i]
      /\ Len(q) \in Nat
  BY AppendProperties, LenProperties
<1>2. Len(q) \in 0 .. Len(t) BY <1>1
<1>3. SubSeq(t, 1, Len(q)) \in Seq(A) /\ Len(SubSeq(t, 1, Len(q))) = Len(q) BY <1>1, <1>2, Cut
<1>4. \A i \in 1 .. Len(q) : SubSeq(t, 1, Len(q))[i] = q[i]
  <2>1. ASSUME NEW i \in 1 .. Len(q) PROVE SubSeq(t, 1, Len(q))[i] = q[i]
    <3>1. SubSeq(t, 1, Len(q))[i] = t[i] BY <1>1
    <3> QED BY <1>1, <3>1
  <2> QED BY <2>1
<1> HIDE DEF t
<1>5. SubSeq(t, 1, Len(q)) = q BY <1>3, <1>4, SeqEqual
<1> QED BY <1>2, <1>5 DEF Prefixes, t

-------------------------------------------------------------------------------
(* Each action preserves the invariant. *)

LEMMA Initially == Init => Inv
<1> SUFFICES ASSUME Init PROVE Inv OBVIOUS
<1>1. OldLines \in Seq(LinesOf) /\ Len(OldLines) \in Nat BY Universe, LenProperties
<1>2. lines = OldLines /\ skip = 0 /\ op = NoOp /\ held = Only(OldLines, Shown) BY DEF Init
<1>3. op.of = "none" BY <1>2 DEF NoOp
<1>4. Types
  <2>1. OpOK BY <1>2 DEF OpOK
  <2>2. count \in Nat /\ skip \in 0 .. Len(lines) BY <1>1 DEF Init
  <2>3. failures \in 0 .. MaxFailures BY SessionStoreAssumption DEF Init
  <2>4. /\ ended \in BOOLEAN /\ stale \in BOOLEAN /\ appended \subseteq Messages
        /\ summary \in Summaries \cup {NoSummary, AliasSummary}
    BY DEF Init
  <2> QED BY <1>1, <1>2, <2>1, <2>2, <2>3, <2>4 DEF Types
<1>5. Files BY <1>2, <1>3 DEF Files, Rewriting
<1>6. Unique
  <2>1. Only(OldLines, Shown) \in Seq(ToSet(OldLines) \cap Shown)
    BY <1>1, Elements, OnlyType
  <2>2. ToSet(Only(OldLines, Shown)) \subseteq ToSet(OldLines) BY <2>1, Elements
  <2>3. ToSet(Only(lines, Shown)) \cap Messages = {} BY <1>2, <2>2, Universe
  <2> QED BY <1>2, <2>3, SessionStoreAssumption DEF Unique
<1>7. Visible = held /\ Visible \in Seq(Lines)
  BY <1>1, <1>2, <1>4, <1>5, <1>6, Contents
<1>8. Keeps(Visible, held) BY <1>7, KeepsItself
<1>9. Told BY <1>3, <1>7, <1>8 DEF Told, Current, Rewriting
<1>10. Tears BY <1>3 DEF Init, Tears
<1> QED BY <1>4, <1>5, <1>6, <1>9, <1>10 DEF Inv

\* A file that gets a line without a message, or no line.
LEMMA NothingShown ==
  ASSUME Inv, NEW m \in Messages \ appended,
         \/ UNCHANGED lines
         \/ lines' = Append(lines, Torn),
         UNCHANGED skip, appended' = appended \cup {m}
  PROVE  /\ lines' \in Seq(LinesOf) /\ skip' \in 0 .. Len(lines')
         /\ Hidden' = Hidden /\ Visible' = Visible
         /\ Only(lines', Shown) = Only(lines, Shown)
         /\ Unique'
<1>1. Types BY DEF Inv
<1>2. CASE UNCHANGED lines
  <2>1. Visible' = Visible /\ Hidden' = Hidden BY <1>2, FileKept
  <2>2. lines' \in Seq(LinesOf) /\ skip' \in 0 .. Len(lines') BY <1>1, <1>2 DEF Types
  <2> QED BY <1>2, <2>1, <2>2 DEF Inv, Unique
<1>3. CASE lines' = Append(lines, Torn)
  <2>1. /\ lines' \in Seq(LinesOf) /\ skip' \in 0 .. Len(lines')
        /\ Hidden' = Hidden /\ Visible' = Visible
        /\ Only(lines', Shown) = Only(lines, Shown)
    BY <1>1, <1>3, Universe, FileAppended
  <2> QED BY <2>1 DEF Inv, Unique
<1> QED BY <1>2, <1>3

LEMMA AddMessageStep ==
  ASSUME Inv, NEW m \in Messages, AddMessage(m)
  PROVE  /\ Inv' /\ Dropped' = Dropped /\ UNCHANGED summary
         /\ Current' \in {Append(Current, m), Current}
<1> USE DEF Inv
<1>1. /\ Idle /\ m \in Messages \ appended /\ lines' = Written(m) /\ ended' = TRUE
      /\ appended' = appended \cup {m} /\ UNCHANGED <<skip, count, summary, failures, held, stale>>
      /\ op' = [of |-> "append", msg |-> m, swallowed |-> ~ended]
  BY DEF AddMessage, NextMessage, meta
<1>2. op'.of = "append" /\ op'.msg = m /\ op'.swallowed = ~ended BY <1>1
<1>3. OpOK'
  <2>1. (~ended) \in BOOLEAN OBVIOUS
  <2> QED BY <1>1, <2>1 DEF OpOK
<1>4. Current = Visible /\ Dropped = Hidden /\ op.of = "none"
  BY <1>1 DEF Idle, NoOp, Current, Dropped, Rewriting
<1>5. Current' = Visible' /\ Dropped' = Hidden' BY <1>2 DEF Current, Dropped, Rewriting
<1>6. Visible \in Seq(Lines) /\ Keeps(Visible, held) /\ (~stale => Visible = held)
  BY <1>4, Contents DEF Told
<1>7. CASE ended
  <2>1. lines' = Append(lines, m) /\ m \in Lines /\ m \in Shown /\ m \in LinesOf
    BY <1>1, <1>7, Universe DEF Written
  <2>2. /\ lines' \in Seq(LinesOf) /\ skip' \in 0 .. Len(lines')
        /\ Visible' = Append(Visible, m) /\ Hidden' = Hidden
        /\ Only(lines', Shown) = Append(Only(lines, Shown), m)
    BY <1>1, <2>1, FileAppended
  <2>3. Unique'
    <3>1. Only(lines, Shown) \in Seq(Lines)
      <4>1. lines \in Seq(LinesOf) BY DEF Types
      <4> QED BY <4>1, Universe, OnlyType
    <3>2. m \notin ToSet(Only(lines, Shown)) BY <1>1 DEF Unique
    <3>3. IsInjective(Append(Only(lines, Shown), m))
      BY <2>1, <3>1, <3>2, DistinctAppend DEF Unique
    <3>4. ToSet(Append(Only(lines, Shown), m)) = ToSet(Only(lines, Shown)) \cup {m}
      BY <2>1, <3>1, AppendElements
    <3> QED BY <1>1, <2>2, <3>3, <3>4 DEF Unique
  <2>4. Visible' # <<>> BY <1>6, <2>1, <2>2, AppendProperties
  <2>5. Files' BY <1>2, <2>4 DEF Files, Rewriting
  <2>6. Told'
    <3>1. Visible \in Prefixes(Visible') BY <1>6, <2>1, <2>2, PrefixOfAppend
    <3>2. \E q \in Prefixes(Visible') :
            Visible' = Append(q, op'.msg) /\ Keeps(q, held') /\ (~stale' => q = held')
      BY <1>1, <1>2, <1>6, <2>2, <3>1
    <3> QED BY <1>1, <1>2, <1>7, <3>2 DEF Told
  <2>7. Types' BY <1>1, <1>3, <2>2 DEF Types
  <2>8. Tears' BY <1>1, <1>2, <1>7 DEF Tears
  <2> QED BY <1>1, <1>4, <1>5, <2>2, <2>3, <2>5, <2>6, <2>7, <2>8
<1>8. CASE ~ended
  <2>1. UNCHANGED lines BY <1>1, <1>8 DEF Written
  <2>2. /\ lines' \in Seq(LinesOf) /\ skip' \in 0 .. Len(lines')
        /\ Visible' = Visible /\ Hidden' = Hidden /\ Unique'
    BY <1>1, <2>1, NothingShown
  <2>3. Files' BY <1>1, <1>2, <2>2 DEF Files, Rewriting
  <2>4. Told' BY <1>1, <1>2, <1>5, <1>6, <1>8, <2>2 DEF Told
  <2>5. Types' BY <1>1, <1>3, <2>2 DEF Types
  <2>6. Tears' BY <1>1, <1>2, <1>8 DEF Tears
  <2> QED BY <1>1, <1>4, <1>5, <2>2, <2>3, <2>4, <2>5, <2>6
<1>9. ended \in BOOLEAN BY DEF Types
<1> QED BY <1>7, <1>8, <1>9

LEMMA AddMessageTornStep ==
  ASSUME Inv, NEW m \in Messages, AddMessageTorn(m)
  PROVE  Inv' /\ UNCHANGED <<Current, Dropped, summary>>
<1> USE DEF Inv
<1>1. /\ Idle /\ m \in Messages \ appended /\ ended' = FALSE
      /\ lines' = (IF ended THEN Append(lines, Torn) ELSE lines)
      /\ failures < MaxFailures /\ failures' = failures + 1 /\ stale' = TRUE
      /\ appended' = appended \cup {m} /\ UNCHANGED <<skip, count, summary, op, held>>
  BY DEF AddMessageTorn, NextMessage, meta
<1>2. /\ op.of = "none" /\ op'.of = "none"
      /\ Current = Visible /\ Current' = Visible' /\ Dropped = Hidden /\ Dropped' = Hidden'
  BY <1>1 DEF Idle, NoOp, Current, Dropped, Rewriting
<1>3. UNCHANGED lines \/ lines' = Append(lines, Torn) BY <1>1
<1>4. /\ lines' \in Seq(LinesOf) /\ skip' \in 0 .. Len(lines')
      /\ Visible' = Visible /\ Hidden' = Hidden /\ Unique'
  BY <1>1, <1>3, NothingShown
<1>5. Files' BY <1>1, <1>2, <1>4 DEF Files, Rewriting
<1>6. Told' BY <1>1, <1>2, <1>4 DEF Told
<1>7. Types'
  <2>1. OpOK' BY <1>1 DEF OpOK, Types
  <2>2. failures' \in 0 .. MaxFailures BY <1>1, SessionStoreAssumption DEF Types
  <2> QED BY <1>1, <1>4, <2>1, <2>2 DEF Types
<1>8. Tears' BY <1>1, <1>2 DEF Tears
<1> QED BY <1>1, <1>2, <1>4, <1>5, <1>6, <1>7, <1>8

LEMMA CountMessageStep ==
  ASSUME Inv, CountMessage
  PROVE  Inv' /\ UNCHANGED <<Current, Dropped, summary>>
<1> USE DEF Inv
<1>1. /\ op.of = "append" /\ op' = NoOp /\ count' = count + 1
      /\ held' = (IF op.swallowed THEN held ELSE Append(held, op.msg))
      /\ UNCHANGED <<lines, ended, skip, summary, appended, failures, stale>>
  BY DEF CountMessage, file
<1>2. /\ op'.of = "none"
      /\ Current = Visible /\ Current' = Visible' /\ Dropped = Hidden /\ Dropped' = Hidden'
  BY <1>1 DEF NoOp, Current, Dropped, Rewriting
<1>3. Visible' = Visible /\ Hidden' = Hidden BY <1>1, FileKept
<1>4. Visible \in Seq(Lines) /\ IsInjective(Visible) BY Contents
<1>5. op.msg \in Lines /\ op.swallowed \in BOOLEAN BY <1>1, OpCases, Universe DEF Types
<1>6. Types'
  <2>1. OpOK' BY <1>1 DEF OpOK
  <2>2. count' \in Nat BY <1>1 DEF Types
  <2> QED BY <1>1, <2>1, <2>2 DEF Types
<1>7. Files' BY <1>1, <1>2, <1>3 DEF Files, Rewriting
<1>8. Unique' BY <1>1 DEF Unique
<1>9. Told'
  <2>1. CASE op.swallowed BY <1>1, <1>2, <1>3, <2>1 DEF Told
  <2>2. CASE ~op.swallowed
    <3>1. PICK q \in Prefixes(Visible) :
            Visible = Append(q, op.msg) /\ Keeps(q, held) /\ (~stale => q = held)
      BY <1>1, <2>2 DEF Told
    <3>2. q \in Seq(Lines) BY <1>4, PartOf
    <3>3. held \in Seq(Lines) BY DEF Told
    <3>4. IsInjective(Append(q, op.msg)) BY <1>4, <3>1
    <3>5. Keeps(Append(q, op.msg), Append(held, op.msg))
      BY <1>5, <3>1, <3>2, <3>4, KeepsAppended
    <3>6. Append(held, op.msg) \in Seq(Lines) BY <1>5, <3>3, AppendProperties
    <3> QED BY <1>1, <1>2, <1>3, <2>2, <3>1, <3>5, <3>6 DEF Told
  <2> QED BY <1>5, <2>1, <2>2
<1>10. Tears' BY <1>1, <1>2 DEF Tears
<1> QED BY <1>1, <1>2, <1>3, <1>6, <1>7, <1>8, <1>9, <1>10

LEMMA SetSummaryStep ==
  ASSUME Inv, NEW s \in Summaries, SetSummary(s)
  PROVE  Inv' /\ UNCHANGED <<Current, Dropped>> /\ summary' = s
<1> USE DEF Inv
<1>1. /\ Idle /\ summary' = s
      /\ UNCHANGED <<lines, ended, skip, count, op, appended, failures, held, stale>>
  BY DEF SetSummary, file, ghost
<1>2. /\ op.of = "none" /\ op'.of = "none"
      /\ Current = Visible /\ Current' = Visible' /\ Dropped = Hidden /\ Dropped' = Hidden'
  BY <1>1 DEF Idle, NoOp, Current, Dropped, Rewriting
<1>3. Visible' = Visible /\ Hidden' = Hidden BY <1>1, FileKept
<1>4. Types'
  <2>1. OpOK' BY <1>1 DEF OpOK, Types
  <2> QED BY <1>1, <2>1 DEF Types
<1>5. Files' BY <1>1, <1>2, <1>3 DEF Files, Rewriting
<1>6. Unique' BY <1>1 DEF Unique
<1>7. Told' BY <1>1, <1>2, <1>3 DEF Told
<1>8. Tears' BY <1>1, <1>2 DEF Tears
<1> QED BY <1>1, <1>2, <1>3, <1>4, <1>5, <1>6, <1>7, <1>8

\* The two parts of a sequence, by their lengths.
LEMMA ConcatCut ==
  ASSUME NEW A, NEW p \in Seq(A), NEW v \in Seq(A)
  PROVE  /\ Len(p \o v) - Len(v) = Len(p)
         /\ SubSeq(p \o v, 1, Len(p)) = p
         /\ SubSeq(p \o v, Len(p) + 1, Len(p \o v)) = v
<1>1. /\ p \o v \in Seq(A) /\ Len(p \o v) = Len(p) + Len(v)
      /\ Len(p) \in Nat /\ Len(v) \in Nat
      /\ \A i \in 1 .. Len(p) + Len(v) :
           (p \o v)[i] = IF i <= Len(p) THEN p[i] ELSE v[i - Len(p)]
  BY ConcatProperties, LenProperties
<1> DEFINE w == p \o v
           a == SubSeq(w, 1, Len(p))
           b == SubSeq(w, Len(p) + 1, Len(w))
<1>2. Len(p) \in 0 .. Len(w) /\ Len(w) - Len(p) = Len(v) /\ Len(w) - Len(v) = Len(p) BY <1>1
<1>3. a \in Seq(A) /\ Len(a) = Len(p) /\ b \in Seq(A) /\ Len(b) = Len(v)
  <2> HIDE DEF w
  <2> QED BY <1>1, <1>2, Cut DEF w
<1>4. ASSUME NEW i \in 1 .. Len(p) PROVE a[i] = p[i]
  <2>1. i \in 1 .. Len(p) + Len(v) /\ i <= Len(p) BY <1>1
  <2>2. a[i] = w[i] BY <1>1
  <2> QED BY <1>1, <2>1, <2>2
<1>5. ASSUME NEW i \in 1 .. Len(v) PROVE b[i] = v[i]
  <2>1. /\ i + Len(p) \in 1 .. Len(p) + Len(v) /\ ~(i + Len(p) <= Len(p))
        /\ (i + Len(p)) - Len(p) = i
    BY <1>1
  <2>2. b[i] = w[i + Len(p)] BY <1>1, <1>2
  <2> QED BY <1>1, <2>1, <2>2
<1>6. a = p /\ b = v
  <2> HIDE DEF a, b
  <2> QED BY <1>3, <1>4, <1>5, SeqEqual
<1> QED BY <1>2, <1>6

\* The last messages of the history are what the new offset shows.
LEMMA LastOnesAre ==
  ASSUME NEW A, NEW p \in Seq(A), NEW v \in Seq(A)
  PROVE  LastOnes(p \o v, Len(v)) = v
<1>1. /\ Len(p \o v) - Len(v) = Len(p)
      /\ SubSeq(p \o v, Len(p) + 1, Len(p \o v)) = v
  BY ConcatCut
<1>2. Len(p \o v) = Len(p) + Len(v) /\ Len(p) \in Nat /\ Len(v) \in Nat
  BY ConcatProperties, LenProperties
<1>3. CASE Len(v) < Len(p \o v) BY <1>1, <1>3 DEF LastOnes
<1>4. CASE ~(Len(v) < Len(p \o v))
  <2>1. Len(p) = 0 BY <1>2, <1>4
  <2>2. p = <<>> BY <2>1, EmptySeq
  <2>3. p \o v = v BY <2>2, ConcatEmptySeq
  <2> QED BY <1>4, <2>3 DEF LastOnes
<1> QED BY <1>3, <1>4

\* What a truncation does to what is read.
LEMMA TruncateReads ==
  ASSUME Inv, NEW n \in 1 .. Len(Visible), TruncateHistory(n)
  PROVE  /\ skip' \in 0 .. Len(lines') /\ Len(Visible') = n
         /\ LastOnes(Visible, n) = Visible'
         /\ \E p \in Seq(Lines) : Visible = p \o Visible' /\ Hidden' = Hidden \o p
<1>1. skip' = SkipOf(lines, skip, n) /\ UNCHANGED lines
  BY Reading DEF TruncateHistory, file
<1>2. lines \in Seq(LinesOf) /\ skip \in 0 .. Len(lines) BY DEF Inv, Types
<1>3. n \in 1 .. Len(View(lines, skip)) BY Reading
<1>4. /\ SkipOf(lines, skip, n) \in skip .. Len(lines)
      /\ Len(View(lines, SkipOf(lines, skip, n))) = n
      /\ \E p \in Seq(LinesOf \cap Shown) :
           /\ View(lines, skip) = p \o View(lines, SkipOf(lines, skip, n))
           /\ Gone(lines, SkipOf(lines, skip, n)) = Gone(lines, skip) \o p
  BY <1>2, <1>3, Truncated
<1>5. PICK p \in Seq(Lines) : Visible = p \o Visible' /\ Hidden' = Hidden \o p
  BY <1>1, <1>4, Reading, Universe
<1>6. skip' \in 0 .. Len(lines') /\ Len(Visible') = n
  <2>1. Len(lines) \in Nat BY <1>2, LenProperties
  <2> QED BY <1>1, <1>2, <1>4, <2>1, Reading
<1>7. Visible' \in Seq(Lines)
  <2>1. lines' \in Seq(LinesOf) BY <1>1, <1>2
  <2> QED BY <1>6, <2>1, Views, Reading, Universe
<1>8. LastOnes(Visible, n) = Visible' BY <1>5, <1>6, <1>7, LastOnesAre
<1> QED BY <1>5, <1>6, <1>8

LEMMA TruncateHistoryStep ==
  ASSUME Inv, NEW n \in 1 .. Len(Visible), TruncateHistory(n)
  PROVE  /\ Inv' /\ UNCHANGED summary /\ Current = Visible
         /\ Len(Current') = n /\ Current' \in Seq(Lines)
         /\ \E p \in Seq(Lines) : Current = p \o Current' /\ Dropped' = Dropped \o p
<1> USE DEF Inv
<1>1. /\ Idle /\ count' = Len(lines)
      /\ held' = Only(held, ToSet(LastOnes(Visible, n)))
      /\ UNCHANGED <<lines, ended, summary, op, appended, failures, stale>>
  BY DEF TruncateHistory, file
<1>2. /\ op.of = "none" /\ op'.of = "none"
      /\ Current = Visible /\ Current' = Visible' /\ Dropped = Hidden /\ Dropped' = Hidden'
  BY <1>1 DEF Idle, NoOp, Current, Dropped, Rewriting
<1>3. PICK p \in Seq(Lines) : Visible = p \o Visible' /\ Hidden' = Hidden \o p
  BY TruncateReads
<1>4. /\ skip' \in 0 .. Len(lines') /\ Len(Visible') = n /\ LastOnes(Visible, n) = Visible'
  BY TruncateReads
<1>5. Visible' \in Seq(Lines)
  <2>1. lines' \in Seq(LinesOf) BY <1>1 DEF Types
  <2> QED BY <1>4, <2>1, Views, Reading, Universe
<1>6. Types'
  <2>1. OpOK' BY <1>1 DEF OpOK, Types
  <2>2. count' \in Nat BY <1>1, LenProperties DEF Types
  <2> QED BY <1>1, <1>4, <2>1, <2>2 DEF Types
<1>7. Visible' # <<>>
  <2>1. n # 0
    <3>1. Len(Visible) \in Nat BY Contents, LenProperties
    <3> QED BY <3>1
  <2> QED BY <1>4, <2>1, EmptySeq
<1>8. Files' BY <1>2, <1>7 DEF Files, Rewriting
<1>9. Unique' BY <1>1 DEF Unique
<1>10. Told'
  <2>1. /\ held \in Seq(Lines) /\ Keeps(p \o Visible', held)
        /\ (~stale => p \o Visible' = held)
    BY <1>2, <1>3 DEF Told
  <2>2. IsInjective(p \o Visible') BY <1>3, Contents
  <2> DEFINE v == Visible'
  <2>3. v \in Seq(Lines) /\ IsInjective(p \o v) /\ Keeps(p \o v, held) BY <1>5, <2>1, <2>2
  <2>4. held' = Only(held, ToSet(v)) BY <1>1, <1>4
  <2>5. Keeps(v, Only(held, ToSet(v))) /\ (p \o v = held => Only(held, ToSet(v)) = v)
    <3> HIDE DEF v
    <3> QED BY <2>3, KeepsTruncated
  <2>6. held' \in Seq(Lines)
    <3>1. Only(held, ToSet(v)) \in Seq(Lines \cap ToSet(v))
      <4> HIDE DEF v
      <4> QED BY <2>1, OnlyType
    <3> QED BY <2>4, <3>1, SeqMonotonic
  <2> QED BY <1>1, <1>2, <2>1, <2>4, <2>5, <2>6 DEF Told
<1>11. Tears' BY <1>1, <1>2 DEF Tears
<1> QED BY <1>1, <1>2, <1>3, <1>4, <1>5, <1>6, <1>8, <1>9, <1>10, <1>11

\* SetHistory and Compact begin: the metadata is written.
LEMMA RewriteStep ==
  ASSUME Inv, Idle, NEW of \in {"set", "compact"}, NEW h \in Prefixes(Visible) \cup Suffixes(Visible),
         of = "compact" => h = Visible,
         skip' = 0, count' \in Nat, op' = Rewrite(of, h),
         UNCHANGED <<lines, ended, summary, appended, failures, held, stale>>
  PROVE  Inv' /\ UNCHANGED <<Current, Dropped, summary>>
<1> USE DEF Inv
<1>1. Visible \in Seq(Lines) /\ Hidden \in Seq(Lines) /\ Hidden \o Visible = Only(lines, Shown)
  BY Contents
<1>2. h \in Seq(Lines) BY <1>1, PartOf
<1>3. op' = [of |-> of, target |-> h, before |-> Visible, hidden |-> Hidden] BY DEF Rewrite
<1>4. /\ op'.of = of /\ op'.target = h /\ op'.before = Visible /\ op'.hidden = Hidden
      /\ Rewriting'
  BY <1>3 DEF Rewriting
<1>5. Current' = Visible /\ Dropped' = Hidden /\ Current = Visible /\ Dropped = Hidden
  BY <1>4 DEF Current, Dropped, Idle, NoOp, Rewriting
<1>6. Types'
  <2>1. OpOK' BY <1>1, <1>2, <1>3 DEF OpOK
  <2>2. skip' \in 0 .. Len(lines') BY LenProperties DEF Types
  <2> QED BY <2>1, <2>2 DEF Types
<1>7. Files' BY <1>1, <1>4 DEF Files
<1>8. Unique' BY DEF Unique
<1>9. Told'
  <2>1. op.of = "none" /\ Current = Visible BY DEF Idle, NoOp, Current, Rewriting
  <2>2. Keeps(Visible, held) /\ (~stale => Visible = held) BY <2>1 DEF Told
  <2> QED BY <1>4, <1>5, <2>2 DEF Told
<1>10. Tears' BY <1>4 DEF Tears
<1> QED BY <1>5, <1>6, <1>7, <1>8, <1>9, <1>10

LEMMA SetHistoryStep ==
  ASSUME Inv, NEW h \in Prefixes(Visible) \cup Suffixes(Visible), SetHistory(h)
  PROVE  Inv' /\ UNCHANGED <<Current, Dropped, summary>>
<1>1. /\ Idle /\ skip' = 0 /\ count' = Len(h) /\ op' = Rewrite("set", h)
      /\ UNCHANGED <<lines, ended, summary, appended, failures, held, stale>>
  BY DEF SetHistory, file, ghost
<1>2. h \in Seq(Lines)
  <2>1. Visible \in Seq(Lines) BY Contents DEF Inv
  <2> QED BY <2>1, PartOf
<1>3. count' \in Nat BY <1>1, <1>2, LenProperties
<1> QED BY <1>1, <1>3, RewriteStep

LEMMA WholeIsPrefix ==
  ASSUME NEW A, NEW v \in Seq(A)
  PROVE  v \in Prefixes(v)
<1>1. SubSeq(v, 1, Len(v)) = v /\ Len(v) \in 0 .. Len(v) BY SubSeqFull, LenProperties
<1> QED BY <1>1 DEF Prefixes

LEMMA CompactStep ==
  ASSUME Inv, Compact
  PROVE  Inv' /\ UNCHANGED <<Current, Dropped, summary>>
<1>1. /\ Idle /\ skip' = 0 /\ count' = Len(Visible) /\ op' = Rewrite("compact", Visible)
      /\ UNCHANGED <<lines, ended, summary, appended, failures, held, stale>>
  BY DEF Compact, file, ghost
<1>2. Visible \in Seq(Lines) BY Contents DEF Inv
<1>3. count' \in Nat BY <1>1, <1>2, LenProperties
<1>4. Visible \in Prefixes(Visible) \cup Suffixes(Visible) BY <1>2, WholeIsPrefix
<1> QED BY <1>1, <1>3, <1>4, RewriteStep

LEMMA ReplaceFileStep ==
  ASSUME Inv, ReplaceFile
  PROVE  /\ Inv' /\ Current' = op.target /\ Dropped' = <<>> /\ UNCHANGED summary
         /\ Current \in Seq(Lines) /\ Current' \in Prefixes(Current) \cup Suffixes(Current)
<1> USE DEF Inv
<1>1. /\ Rewriting /\ lines' = op.target /\ ended' = TRUE /\ op' = NoOp
      /\ UNCHANGED <<skip, count, summary, appended, failures>>
  BY DEF ReplaceFile, Rewriting, meta
<1>2. /\ op.target \in Seq(Lines) /\ op.before \in Seq(Lines) /\ op.hidden \in Seq(Lines)
  BY <1>1, OpCases DEF Types
<1>3. /\ skip = 0 /\ Only(lines, Shown) = op.hidden \o op.before
      /\ op.target \in Prefixes(op.before) \cup Suffixes(op.before)
      /\ op.of = "compact" => op.target = op.before
  BY <1>1 DEF Files
<1>4. op.target \in Seq(LinesOf) BY <1>2, Universe, SeqMonotonic
<1>5. /\ lines' \in Seq(LinesOf) /\ skip' \in 0 .. Len(lines')
      /\ Hidden' = <<>> /\ Visible' = op.target /\ Only(lines', Shown) = op.target
  <2>1. /\ lines' \in Seq(LinesOf) /\ skip' \in 0 .. Len(lines')
        /\ Hidden' = <<>> /\ Visible' = Only(op.target, Shown)
    BY <1>1, <1>3, <1>4, FileReplaced
  <2> QED BY <1>1, <1>2, <2>1, ShownAsIs
<1>6. op'.of = "none" BY <1>1 DEF NoOp
<1>7. Current' = op.target /\ Dropped' = <<>>
  BY <1>5, <1>6 DEF Current, Dropped, Rewriting
<1>8. Types'
  <2>1. OpOK' BY <1>1 DEF OpOK
  <2>2. stale' \in BOOLEAN BY DEF ReplaceFile, ghost, Types
  <2> QED BY <1>1, <1>5, <2>1, <2>2 DEF Types
<1>9. Files' BY <1>1, <1>3, <1>6 DEF Files, Rewriting
<1>10. Unique'
  <2>1. IsInjective(op.before) BY <1>1, Contents DEF Current
  <2>2. IsInjective(op.target) BY <1>2, <1>3, <2>1, PartOf
  <2>3. ToSet(op.target) \subseteq ToSet(op.before)
    <3>1. op.before \in Seq(ToSet(op.before)) BY <1>2, Elements
    <3>2. op.target \in Seq(ToSet(op.before)) BY <1>3, <3>1, PartOf
    <3> QED BY <3>2, Elements
  <2>4. ToSet(op.before) \subseteq ToSet(Only(lines, Shown))
    BY <1>2, <1>3, ConcatElements
  <2> QED BY <1>1, <1>5, <2>2, <2>3, <2>4 DEF Unique
<1>11. Told'
  <2>1. CASE op.of = "compact"
    <3>1. UNCHANGED <<held, stale>> /\ op.target = op.before /\ Current = op.before
      BY <1>1, <1>3, <2>1 DEF ReplaceFile, ghost, Current
    <3>2. Keeps(op.before, held) /\ (~stale => op.before = held) /\ held \in Seq(Lines)
      BY <2>1, <3>1 DEF Told
    <3> QED BY <1>6, <1>7, <3>1, <3>2 DEF Told
  <2>2. CASE op.of # "compact"
    <3>1. held' = op.target /\ stale' = FALSE BY <2>2 DEF ReplaceFile
    <3>2. Keeps(op.target, op.target) BY <1>2, KeepsItself
    <3> QED BY <1>2, <1>6, <1>7, <3>1, <3>2 DEF Told
  <2> QED BY <2>1, <2>2
<1>12. Tears' BY <1>1, <1>6 DEF Tears
<1>13. Current = op.before BY <1>1 DEF Current
<1> QED BY <1>1, <1>2, <1>3, <1>13, <1>7, <1>8, <1>9, <1>10, <1>11, <1>12

LEMMA PromoteAliasHistoryStep ==
  ASSUME Inv, PromoteAliasHistory
  PROVE  Inv' /\ UNCHANGED <<Current, Dropped, summary>>
<1> USE DEF Inv
<1>1. /\ Idle /\ Visible = <<>> /\ summary = NoSummary
      /\ lines' = AliasHistory /\ ended' = TRUE
      /\ op' = [of |-> "promote", lines |-> lines, ended |-> ended]
      /\ UNCHANGED <<skip, count, summary, appended, failures, held, stale>>
  BY DEF PromoteAliasHistory, meta, ghost
<1>2. skip = 0
  <2>1. ~(skip > 0) /\ skip \in 0 .. Len(lines) BY <1>1 DEF Files, Types
  <2>2. Len(lines) \in Nat BY LenProperties DEF Types
  <2> QED BY <2>1, <2>2
<1>3. Hidden = <<>> /\ Only(lines, Shown) = <<>> BY <1>1, <1>2, Contents
<1>4. /\ op'.of = "promote" /\ op'.lines = lines /\ op'.ended = ended BY <1>1
<1>5. Current' = <<>> /\ Dropped' = <<>> BY <1>4 DEF Current, Dropped, Rewriting
<1>6. op.of = "none" /\ Current = Visible /\ Dropped = Hidden
  BY <1>1 DEF Idle, NoOp, Current, Dropped, Rewriting
<1>7. lines' \in Seq(LinesOf) /\ skip' \in 0 .. Len(lines') /\ Visible' = AliasHistory
  <2>1. /\ lines' \in Seq(LinesOf) /\ skip' \in 0 .. Len(lines')
        /\ Visible' = Only(AliasHistory, Shown)
    BY <1>1, <1>2, Universe, FileReplaced
  <2> QED BY <2>1, Universe, ShownAsIs
<1>8. Types'
  <2>1. OpOK' BY <1>1 DEF OpOK, Types
  <2> QED BY <1>1, <1>7, <2>1 DEF Types
<1>9. Files' BY <1>1, <1>2, <1>3, <1>4 DEF Files, Rewriting
<1>10. Unique'
  <2>1. Only(AliasHistory, Shown) = AliasHistory BY Universe, ShownAsIs
  <2> QED BY <1>1, <2>1, Universe, SessionStoreAssumption DEF Unique
<1>11. Told'
  <2>1. held \in Seq(Lines) /\ Keeps(Visible, held) /\ (~stale => Visible = held)
    BY <1>6 DEF Told
  <2> QED BY <1>1, <1>4, <1>5, <2>1 DEF Told
<1>12. Tears'
  <2>1. ended \in BOOLEAN BY DEF Types
  <2> QED BY <1>1, <1>4, <2>1 DEF Tears
<1> QED BY <1>1, <1>3, <1>5, <1>6, <1>8, <1>9, <1>10, <1>11, <1>12

LEMMA WritePromotedMetaStep ==
  ASSUME Inv, WritePromotedMeta
  PROVE  /\ Inv' /\ Current' = AliasHistory /\ Dropped' = <<>>
         /\ Current = <<>> /\ summary = NoSummary /\ summary' = AliasSummary
<1> USE DEF Inv
<1>1. /\ op.of = "promote" /\ skip' = 0 /\ count' = Len(AliasHistory) /\ op' = NoOp
      /\ summary' = (IF AliasSummary # NoSummary THEN AliasSummary ELSE summary)
      /\ held' = AliasHistory
      /\ UNCHANGED <<lines, ended, appended, failures, stale>>
  BY DEF WritePromotedMeta, file
<1>2. lines = AliasHistory /\ skip = 0 /\ summary = NoSummary BY <1>1 DEF Files
<1>3. summary' = AliasSummary BY <1>1, <1>2
<1>4. op'.of = "none" BY <1>1 DEF NoOp
<1>5. /\ lines' \in Seq(LinesOf) /\ skip' \in 0 .. Len(lines')
      /\ Hidden' = <<>> /\ Visible' = AliasHistory
  <2>1. /\ lines' \in Seq(LinesOf) /\ skip' \in 0 .. Len(lines')
        /\ Hidden' = <<>> /\ Visible' = Only(AliasHistory, Shown)
    BY <1>1, <1>2, Universe, FileReplaced
  <2> QED BY <2>1, Universe, ShownAsIs
<1>6. Current' = AliasHistory /\ Dropped' = <<>>
  BY <1>4, <1>5 DEF Current, Dropped, Rewriting
<1>7. Current = <<>> BY <1>1 DEF Current, Rewriting
<1>8. Types'
  <2>1. OpOK' BY <1>1 DEF OpOK
  <2>2. count' \in Nat BY <1>1, Universe, LenProperties
  <2> QED BY <1>1, <1>3, <1>5, <2>1, <2>2 DEF Types
<1>9. Files' BY <1>1, <1>4 DEF Files, Rewriting
<1>10. Unique' BY <1>1 DEF Unique
<1>11. Told'
  <2>1. Keeps(AliasHistory, AliasHistory) BY Universe, KeepsItself
  <2> QED BY <1>1, <1>4, <1>6, <2>1, Universe DEF Told
<1>12. Tears' BY <1>1, <1>4 DEF Tears
<1> QED BY <1>2, <1>3, <1>6, <1>7, <1>8, <1>9, <1>10, <1>11, <1>12

LEMMA RollBackPromotionStep ==
  ASSUME Inv, RollBackPromotion
  PROVE  Inv' /\ UNCHANGED <<Current, Dropped, summary>>
<1> USE DEF Inv
<1>1. /\ op.of = "promote" /\ failures < MaxFailures /\ lines' = op.lines
      /\ ended' = op.ended /\ op' = NoOp /\ failures' = failures + 1
      /\ UNCHANGED <<skip, count, summary, appended, held, stale>>
  BY DEF RollBackPromotion, meta, ghost
<1>2. skip = 0 /\ Only(op.lines, Shown) = <<>> BY <1>1 DEF Files
<1>3. op.lines \in Seq(LinesOf) /\ op.ended \in BOOLEAN BY <1>1, OpCases DEF Types
<1>4. op'.of = "none" BY <1>1 DEF NoOp
<1>5. /\ lines' \in Seq(LinesOf) /\ skip' \in 0 .. Len(lines')
      /\ Hidden' = <<>> /\ Visible' = <<>>
  BY <1>1, <1>2, <1>3, FileReplaced
<1>6. /\ Current' = <<>> /\ Dropped' = <<>> /\ Current = <<>> /\ Dropped = <<>>
  BY <1>1, <1>4, <1>5 DEF Current, Dropped, Rewriting
<1>7. Types'
  <2>1. OpOK' BY <1>1 DEF OpOK
  <2>2. failures' \in 0 .. MaxFailures BY <1>1, SessionStoreAssumption DEF Types
  <2> QED BY <1>1, <1>3, <1>5, <2>1, <2>2 DEF Types
<1>8. Files' BY <1>1, <1>2, <1>4 DEF Files, Rewriting
<1>9. Unique' BY <1>1, <1>2, EmptyHasNone DEF Unique
<1>10. Told' BY <1>1, <1>4, <1>6 DEF Told
<1>11. Tears' BY <1>1, <1>4 DEF Tears
<1> QED BY <1>1, <1>6, <1>7, <1>8, <1>9, <1>10, <1>11

LEMMA FailStep ==
  ASSUME Inv, Fail
  PROVE  /\ Inv' /\ UNCHANGED summary
         /\ \/ op.of = "append" /\ Current' = Current /\ Dropped' = Dropped
            \/ Rewriting /\ Current' = Dropped \o Current /\ Dropped' = <<>>
            \/ /\ op.of = "promote" /\ Current = <<>> /\ summary = NoSummary
               /\ Current' = AliasHistory /\ Dropped' = <<>>
<1> USE DEF Inv
<1>1. /\ ~Idle /\ failures < MaxFailures /\ op' = NoOp /\ failures' = failures + 1
      /\ stale' = TRUE
      /\ UNCHANGED <<lines, ended, skip, count, summary, appended, held>>
  BY DEF Fail, file, meta
<1>2. op'.of = "none" BY <1>1 DEF NoOp
<1>3. Visible' = Visible /\ Hidden' = Hidden BY <1>1, FileKept
<1>4. Current' = Visible /\ Dropped' = Hidden
  BY <1>2, <1>3 DEF Current, Dropped, Rewriting
<1>5. Types'
  <2>1. OpOK' BY <1>1 DEF OpOK
  <2>2. failures' \in 0 .. MaxFailures BY <1>1, SessionStoreAssumption DEF Types
  <2> QED BY <1>1, <2>1, <2>2 DEF Types
<1>6. Files' BY <1>1, <1>2, <1>3 DEF Files, Rewriting
<1>7. Unique' BY <1>1 DEF Unique
<1>8. Tears' BY <1>1, <1>2 DEF Tears
<1>9. Keeps(Visible, held) => Told' BY <1>1, <1>2, <1>4 DEF Told
<1>10. Visible \in Seq(Lines) /\ IsInjective(Visible) BY Contents
<1>11. CASE op.of = "append"
  <2>1. Current = Visible /\ Dropped = Hidden BY <1>11 DEF Current, Dropped, Rewriting
  <2>2. op.msg \in Lines /\ op.swallowed \in BOOLEAN BY <1>11, OpCases, Universe DEF Types
  <2>3. Keeps(Visible, held)
    <3>1. CASE op.swallowed BY <2>1, <3>1 DEF Told
    <3>2. CASE ~op.swallowed
      <4>1. PICK q \in Prefixes(Visible) : Visible = Append(q, op.msg) /\ Keeps(q, held)
        BY <1>11, <3>2 DEF Told
      <4>2. q \in Seq(Lines) BY <1>10, PartOf
      <4>3. IsInjective(Append(q, op.msg)) BY <1>10, <4>1
      <4>4. Keeps(Append(q, op.msg), held) BY <2>2, <4>1, <4>2, <4>3, KeepsAppended
      <4> QED BY <4>1, <4>4
    <3> QED BY <2>2, <3>1, <3>2
  <2> QED BY <1>1, <1>4, <1>5, <1>6, <1>7, <1>8, <1>9, <1>11, <2>1, <2>3
<1>12. CASE Rewriting
  <2>1. skip = 0 /\ op.of # "append" /\ op.of # "promote" BY <1>12 DEF Files, Rewriting
  <2>2. /\ Dropped \o Current = Only(lines, Shown) /\ Hidden = <<>>
        /\ Visible = Only(lines, Shown)
        /\ Current \in Seq(Lines) /\ Dropped \in Seq(Lines)
    BY <2>1, Contents
  <2>3. Keeps(Current, held) BY <2>1 DEF Told
  <2>4. IsInjective(Dropped \o Current) BY <2>2 DEF Unique
  <2>5. Keeps(Dropped \o Current, held) BY <2>2, <2>3, <2>4, KeepsReappeared
  <2>6. Keeps(Visible, held) BY <2>2, <2>5
  <2> QED BY <1>1, <1>4, <1>5, <1>6, <1>7, <1>8, <1>9, <1>12, <2>2, <2>6
<1>13. CASE op.of = "promote"
  <2>1. skip = 0 /\ lines = AliasHistory /\ summary = NoSummary BY <1>13 DEF Files
  <2>2. Visible = AliasHistory /\ Hidden = <<>>
    <3>1. Only(AliasHistory, Shown) = AliasHistory BY Universe, ShownAsIs
    <3> QED BY <2>1, <3>1, Contents
  <2>3. Current = <<>> BY <1>13 DEF Current, Rewriting
  <2>4. Keeps(<<>>, held) BY <1>13, <2>3 DEF Told
  <2>5. held = <<>> BY <2>4, OnlyEmpty DEF Keeps
  <2>6. Keeps(AliasHistory, <<>>)
    <3>1. Only(AliasHistory, {}) = <<>> BY Universe, OnlyNone
    <3> QED BY <3>1, EmptyHasNone DEF Keeps
  <2>7. Keeps(Visible, held) BY <2>2, <2>5, <2>6
  <2> QED BY <1>1, <1>4, <1>5, <1>6, <1>7, <1>8, <1>9, <1>13, <2>1, <2>2, <2>3, <2>7
<1> QED BY <1>1, <1>11, <1>12, <1>13, OpCases DEF Types, Rewriting

-------------------------------------------------------------------------------
(* The refinement, step by step. *)

LEMMA TruncateRefines ==
  ASSUME Inv, NEW n \in 1 .. Len(Visible), TruncateHistory(n)
  PROVE  Promised!TruncateHistory(n) \/ UNCHANGED <<Current, Dropped, summary>>
<1>1. /\ UNCHANGED summary /\ Len(Current') = n /\ Current' \in Seq(Lines)
      /\ Current \in Seq(Lines) /\ Dropped \in Seq(Lines)
  BY TruncateHistoryStep, Contents DEF Inv
<1>2. PICK p \in Seq(Lines) : Current = p \o Current' /\ Dropped' = Dropped \o p
  BY TruncateHistoryStep
<1> DEFINE v == Current'
<1>3. v \in Seq(Lines) /\ Current = p \o v /\ Len(v) = n BY <1>1, <1>2
<1>4. /\ Len(Current) - n = Len(p) /\ SubSeq(Current, 1, Len(p)) = p
      /\ SubSeq(Current, Len(p) + 1, Len(Current)) = v
  <2> HIDE DEF v
  <2> QED BY <1>3, ConcatCut
<1>5. Len(Current) \in Nat /\ n \in Nat /\ Len(p) \in Nat
  <2>1. Len(v) \in Nat
    <3> HIDE DEF v
    <3> QED BY <1>3, LenProperties
  <2> QED BY <1>1, <1>3, <2>1, LenProperties
<1>6. CASE n < Len(Current)
  BY <1>1, <1>2, <1>4, <1>6 DEF Promised!TruncateHistory
<1>7. CASE ~(n < Len(Current))
  <2>1. Len(p) = 0 BY <1>4, <1>5, <1>7
  <2>2. p = <<>> BY <2>1, EmptySeq
  <2>3. <<>> \o v = v
    <3> HIDE DEF v
    <3> QED BY <1>3, ConcatEmptySeq
  <2>4. Dropped \o <<>> = Dropped BY <1>1, ConcatEmptySeq
  <2> QED BY <1>1, <1>2, <2>2, <2>3, <2>4
<1> QED BY <1>6, <1>7

LEMMA ReplaceFileRefines ==
  ASSUME Inv, ReplaceFile
  PROVE  \E k \in 0 .. Len(Current) :
           Promised!SetHistory(1, k) \/ Promised!SetHistory(k + 1, Len(Current))
<1>1. /\ Dropped' = <<>> /\ UNCHANGED summary
      /\ Current \in Seq(Lines) /\ Current' \in Prefixes(Current) \cup Suffixes(Current)
  BY ReplaceFileStep
<1>2. PICK h \in Prefixes(Current) \cup Suffixes(Current) : h = Current' BY <1>1
<1>3. PICK k \in 0 .. Len(Current) :
        h = SubSeq(Current, 1, k) \/ h = SubSeq(Current, k + 1, Len(Current))
  BY <1>1, PartOf
<1> QED BY <1>1, <1>2, <1>3 DEF Promised!SetHistory

LEMMA Step ==
  ASSUME Inv, [Next]_vars
  PROVE  Inv' /\ [Promised!Next]_<<Current, Dropped, summary>>
<1>1. ASSUME NEW m \in Messages, AddMessage(m)
      PROVE  Inv' /\ [Promised!Next]_<<Current, Dropped, summary>>
  <2>1. /\ Inv' /\ Dropped' = Dropped /\ UNCHANGED summary
        /\ Current' \in {Append(Current, m), Current}
    BY <1>1, AddMessageStep
  <2>2. Current' = Append(Current, m) => Promised!AddMessage(m)
    BY <2>1 DEF Promised!AddMessage
  <2> QED BY <2>1, <2>2 DEF Promised!Next
<1>2. ASSUME NEW m \in Messages, AddMessageTorn(m)
      PROVE  Inv' /\ [Promised!Next]_<<Current, Dropped, summary>>
  BY <1>2, AddMessageTornStep
<1>3. ASSUME CountMessage PROVE Inv' /\ [Promised!Next]_<<Current, Dropped, summary>>
  BY <1>3, CountMessageStep
<1>4. ASSUME NEW s \in Summaries, SetSummary(s)
      PROVE  Inv' /\ [Promised!Next]_<<Current, Dropped, summary>>
  <2>1. Inv' /\ UNCHANGED <<Current, Dropped>> /\ summary' = s BY <1>4, SetSummaryStep
  <2>2. Promised!SetSummary(s) BY <2>1 DEF Promised!SetSummary
  <2> QED BY <2>1, <2>2 DEF Promised!Next
<1>5. ASSUME NEW n \in 1 .. Len(Visible), TruncateHistory(n)
      PROVE  Inv' /\ [Promised!Next]_<<Current, Dropped, summary>>
  <2>1. Inv' /\ Current = Visible BY <1>5, TruncateHistoryStep
  <2>2. Promised!TruncateHistory(n) \/ UNCHANGED <<Current, Dropped, summary>>
    BY <1>5, TruncateRefines
  <2> QED BY <2>1, <2>2 DEF Promised!Next
<1>6. ASSUME NEW h \in Prefixes(Visible) \cup Suffixes(Visible), SetHistory(h)
      PROVE  Inv' /\ [Promised!Next]_<<Current, Dropped, summary>>
  BY <1>6, SetHistoryStep
<1>7. ASSUME Compact PROVE Inv' /\ [Promised!Next]_<<Current, Dropped, summary>>
  BY <1>7, CompactStep
<1>8. ASSUME ReplaceFile PROVE Inv' /\ [Promised!Next]_<<Current, Dropped, summary>>
  <2>1. Inv' BY <1>8, ReplaceFileStep
  <2>2. \E k \in 0 .. Len(Current) :
          Promised!SetHistory(1, k) \/ Promised!SetHistory(k + 1, Len(Current))
    BY <1>8, ReplaceFileRefines
  <2> QED BY <2>1, <2>2 DEF Promised!Next
<1>9. ASSUME PromoteAliasHistory PROVE Inv' /\ [Promised!Next]_<<Current, Dropped, summary>>
  BY <1>9, PromoteAliasHistoryStep
<1>10. ASSUME WritePromotedMeta PROVE Inv' /\ [Promised!Next]_<<Current, Dropped, summary>>
  <2>1. /\ Inv' /\ Current' = AliasHistory /\ Dropped' = <<>>
        /\ Current = <<>> /\ summary = NoSummary /\ summary' = AliasSummary
    BY <1>10, WritePromotedMetaStep
  <2>2. Promised!Promote(TRUE) BY <2>1 DEF Promised!Promote
  <2> QED BY <2>1, <2>2 DEF Promised!Next
<1>11. ASSUME RollBackPromotion PROVE Inv' /\ [Promised!Next]_<<Current, Dropped, summary>>
  BY <1>11, RollBackPromotionStep
<1>12. ASSUME Fail PROVE Inv' /\ [Promised!Next]_<<Current, Dropped, summary>>
  <2>1. /\ Inv' /\ UNCHANGED summary
        /\ \/ op.of = "append" /\ Current' = Current /\ Dropped' = Dropped
           \/ Rewriting /\ Current' = Dropped \o Current /\ Dropped' = <<>>
           \/ /\ op.of = "promote" /\ Current = <<>> /\ summary = NoSummary
              /\ Current' = AliasHistory /\ Dropped' = <<>>
    BY <1>12, FailStep
  <2>2. CASE Current' = Current /\ Dropped' = Dropped BY <2>1, <2>2
  <2>3. CASE Current' = Dropped \o Current /\ Dropped' = <<>>
    <3>1. Promised!Reappear BY <2>1, <2>3 DEF Promised!Reappear
    <3> QED BY <2>1, <3>1 DEF Promised!Next
  <2>4. CASE /\ Current = <<>> /\ summary = NoSummary
             /\ Current' = AliasHistory /\ Dropped' = <<>>
    <3>1. Promised!Promote(FALSE) BY <2>1, <2>4 DEF Promised!Promote
    <3> QED BY <2>1, <3>1 DEF Promised!Next
  <2> QED BY <2>1, <2>2, <2>3, <2>4
<1>13. ASSUME UNCHANGED vars PROVE Inv' /\ [Promised!Next]_<<Current, Dropped, summary>>
  <2>1. UNCHANGED <<lines, ended, skip, count, summary, op, appended, failures, held, stale>>
    BY <1>13 DEF vars, file, meta, ghost
  <2>2. Visible' = Visible /\ Hidden' = Hidden BY <2>1, FileKept
  <2>3. Current' = Current /\ Dropped' = Dropped
    BY <2>1, <2>2 DEF Current, Dropped, Rewriting
  <2>4. Types' BY <2>1 DEF Inv, Types, OpOK
  <2>5. Files' BY <2>1, <2>2 DEF Inv, Files, Rewriting
  <2>6. Unique' BY <2>1 DEF Inv, Unique
  <2>7. Told' BY <2>1, <2>2, <2>3 DEF Inv, Told
  <2>8. Tears' BY <2>1 DEF Inv, Tears
  <2> QED BY <2>1, <2>3, <2>4, <2>5, <2>6, <2>7, <2>8 DEF Inv
<1> QED BY <1>1, <1>2, <1>3, <1>4, <1>5, <1>6, <1>7, <1>8, <1>9, <1>10, <1>11, <1>12, <1>13
        DEF Next

-------------------------------------------------------------------------------
(* The theorems. *)

\* In every reachable state the files and what the callers know are as Inv says.
THEOREM Invariance == Spec => []Inv
<1>1. Inv /\ [Next]_vars => Inv' BY Step
<1> QED BY Initially, <1>1, PTL DEF Spec

\* Lines, offset, counter and summary keep their types; the offset never points
\* past the file (jsonl.go:611-631, 668-704).
THEOREM TypeCorrect == Spec => []TypeOK
<1>1. Inv => TypeOK BY OpCases DEF Inv, Types, TypeOK
<1> QED BY Invariance, <1>1, PTL

\* Between operations the history has every message a caller was told is stored
\* and that was not truncated, in order and once, after any failures at any
\* writes (jsonl.go:555-609, 668-803).
THEOREM NothingIsLost == Spec => []NothingLost
<1>1. Inv => NothingLost
  <2> SUFFICES ASSUME Inv, Idle PROVE Keeps(Visible, held) BY DEF NothingLost, Keeps
  <2>1. op.of = "none" BY DEF Idle, NoOp
  <2> QED BY <2>1 DEF Inv, Told, Current, Rewriting
<1> QED BY Invariance, <1>1, PTL

\* As long as nothing failed since a complete SetHistory the history is exactly
\* that (jsonl.go:706-739).
THEOREM ExactIsExact == Spec => []ExactUnlessStale
<1>1. Inv => ExactUnlessStale
  <2> SUFFICES ASSUME Inv, Idle, ~stale PROVE Visible = held BY DEF ExactUnlessStale
  <2>1. op.of = "none" BY DEF Idle, NoOp
  <2> QED BY <2>1 DEF Inv, Told, Current, Rewriting
<1> QED BY Invariance, <1>1, PTL

\* The two files implement the list of messages and the summary of SessionHistory:
\* every operation happens as a whole or not at all, and a failure brings back
\* truncated messages at most (store.go:11-37, jsonl.go).
THEOREM Implements == Spec => KeepsPromise
<1>1. Init => Promised!Init
  <2> SUFFICES ASSUME Init PROVE Promised!Init OBVIOUS
  <2>1. Inv BY Initially
  <2>2. lines = OldLines /\ skip = 0 /\ op = NoOp /\ summary = NoSummary BY DEF Init
  <2>3. op.of = "none" BY <2>2 DEF NoOp
  <2>4. Visible = Only(OldLines, Shown) /\ Hidden = <<>> BY <2>1, <2>2, Contents DEF Inv
  <2> QED BY <2>2, <2>3, <2>4 DEF Promised!Init, Current, Dropped, Rewriting
<1>2. Inv /\ [Next]_vars => [Promised!Next]_Promised!svars BY Step DEF Promised!svars
<1> QED BY <1>1, <1>2, Invariance, PTL DEF Spec, KeepsPromise, Promised!Spec


-------------------------------------------------------------------------------
(* SessionMemory.  What holds of the database, of what each actor is about,  *)
(* and, until two condensations overlap, of the context.                     *)

Known == 1 .. next - 1
Increasing(f) == \A i, j \in DOMAIN f : i < j => f[i] < f[j]

Making  == {"merge", "locate", "replace"}          \* a condensed summary
Holding == {"replaceLeaf", "locate", "replace"}    \* a summary not in the context yet
Resting == {"idle", "turn", "leaf", "retry", "more", "condense", "off", "boot", "done"}
TurnSteps == Making \cup Holding \cup {"idle", "turn", "add", "leaf", "retry", "summarize",
                                       "more", "condense", "clear", "off"}
Places == TurnSteps \cup {"boot", "done"}

Works(n, s) ==
  [base : Nat, todo : Seq(1 .. n), ids : Seq(Nat), from : Nat, to : Nat,
   cands : SUBSET (1 .. s), others : BOOLEAN, covers : SUBSET (1 .. n), depth : Nat,
   made : 0 .. s, retry : BOOLEAN, fresh : BOOLEAN]

MemoryTypes ==
  /\ next \in Nat \ {0} /\ lastRow \in Nat /\ lastSum \in Nat /\ tainted \in BOOLEAN
  /\ history \in Seq(Known) /\ wiped \subseteq Known
  /\ rows \in [DOMAIN rows -> Known] /\ DOMAIN rows \subseteq 1 .. lastRow
  /\ items \in [DOMAIN items -> [row : Nat, sum : Nat]]
  /\ DOMAIN items \subseteq Nat /\ IsFiniteSet(DOMAIN items)
  /\ summaries \in [DOMAIN summaries -> [depth : Nat, tokens : Nat, covers : SUBSET Known]]
  /\ DOMAIN summaries \subseteq 1 .. lastSum
  /\ work \in [Actors -> Works(next - 1, lastSum)]

\* An actor that is not about something has nothing in its variables that matters.
Blank(w) ==
  w.todo = <<>> /\ w.ids = <<>> /\ w.covers = {} /\ w.cands = {} /\ w.depth = 0

Steps ==
  /\ pc \in [Actors -> Places]
  /\ \A t \in Turns : pc[t] \in TurnSteps
  /\ pc[Background] \in Making \cup {"idle", "condense"}
  /\ pc[Boot] \in {"off", "boot", "add", "done"}
  /\ pc[Boot] # "off" => pc[Background] = "idle" /\ \A t \in Turns : pc[t] = "off"
  /\ \A a \in Actors : pc[a] \in Resting \cup {"clear"} => Blank(work[a])
  /\ \A a \in Actors : pc[a] \notin Making => work[a].depth = 0
  /\ \A a \in Actors : pc[a] # "add" => work[a].todo = <<>> /\ work[a].ids = <<>>

\* While a session is cleared, the database is empty but for what others make of
\* what was there.
Emptied ==
  \A t \in Turns : pc[t] = "clear" =>
    /\ rows = <<>> /\ items = <<>>
    /\ \A a \in Actors : /\ work[a].cands \cap DOMAIN summaries = {}
                         /\ pc[a] = "replace" => work[a].made \notin DOMAIN summaries

\* Messages are stored, and their rows written, in order.
Ordered ==
  /\ Increasing(history) /\ Increasing(rows)
  /\ \A a \in Actors :
       /\ Increasing(work[a].todo) /\ Increasing(work[a].ids)
       /\ ToSet(work[a].ids) \subseteq DOMAIN rows
       /\ \A r \in DOMAIN rows, m \in ToSet(work[a].todo) : rows[r] < m

\* What is being recorded is the end of the history, and nothing tells of it yet; a
\* restart may record what summaries tell of.
BeingRecorded(a) == ToSet(work[a].todo) \cup Recorded(a)
Recording ==
  \A a \in Actors :
    /\ \A o \in DOMAIN items : IsMessage(items[o]) => items[o].row \notin ToSet(work[a].ids)
    /\ \A m \in ToSet(history), n \in BeingRecorded(a) : m >= n => m \in BeingRecorded(a)
    /\ a \in Turns => \A n \in BeingRecorded(a) :
         /\ \A s \in DOMAIN summaries : summaries[s].covers \subseteq 1 .. n - 1
         /\ \A b \in Actors : work[b].covers \subseteq 1 .. n - 1

\* A summary that is made is nowhere in use.
Pending ==
  \A a \in Actors : pc[a] \in Holding =>
    /\ work[a].made # 0
    /\ \A o \in DOMAIN items : items[o].sum # work[a].made
    /\ \A b \in Actors : work[a].made \notin work[b].cands
    /\ \A b \in Actors \ {a} : pc[b] \in Holding => work[b].made # work[a].made
    /\ work[a].made \in DOMAIN summaries =>
         /\ summaries[work[a].made].covers = work[a].covers
         /\ summaries[work[a].made].depth = work[a].depth

\* Only summaries that will not be used tell of what was cleared.
Unused(a) ==
  /\ pc[a] \in Making
  /\ IF pc[a] = "replace" THEN work[a].made \notin DOMAIN summaries
     ELSE work[a].cands \cap DOMAIN summaries = {}
Clean ==
  /\ ClearedStaysCleared
  /\ \A r \in DOMAIN rows : rows[r] \notin wiped
  /\ ToSet(history) \cap wiped = {}
  /\ \A a \in Actors : ToSet(work[a].todo) \cap wiped = {}
  /\ \A a \in Actors : work[a].covers \cap wiped = {} \/ Unused(a)

\* The context begins with the summaries, the deeper ones first, each at one place.
Depth(o) == summaries[items[o].sum].depth
Shape ==
  \A o, p \in DOMAIN items : ~IsMessage(items[p]) =>
    /\ o < p => ~IsMessage(items[o]) /\ Depth(o) >= Depth(p)
    /\ items[o].sum = items[p].sum => o = p

\* A leaf summary tells of what it will replace, the first messages of the context.
LeafReady(t) ==
  pc[t] \in {"summarize", "replaceLeaf"} =>
    LET w == work[t]
    IN  /\ w.from \in DOMAIN items /\ w.to \in DOMAIN items /\ w.from <= w.to
        /\ IsMessage(items[w.from])
        /\ \A o \in DOMAIN items : o < w.from => ~IsMessage(items[o])
        /\ w.covers = UNION {Tells(items[o]) : o \in Between(w.from, w.to)}
        /\ pc[t] = "replaceLeaf" => w.made \in DOMAIN summaries

\* So does a condensed one, of summaries that stand together, the first of their depth.
BlockReady(a) ==
  pc[a] \in Making /\ work[a].fresh =>
    LET w == work[a]
        B == Standing(w.cands)
    IN  /\ B # {}
        /\ w.covers = UNION {Tells(items[o]) : o \in B}
        /\ \A o \in B : ~IsMessage(items[o]) /\ Depth(o) < w.depth
        /\ \A o \in DOMAIN items \ B :
             \/ ~IsMessage(items[o]) /\ Depth(o) >= w.depth /\ \A p \in B : o < p
             \/ \A p \in B : p < o
        /\ pc[a] # "merge" => w.made \in DOMAIN summaries
        /\ pc[a] = "replace" => /\ ~w.others /\ w.from \in B /\ w.to \in B
                                /\ \A o \in B : w.from <= o /\ o <= w.to

\* Nothing of the session is forgotten, also while it is started.
Whole ==
  /\ NothingForgotten
  /\ pc[Boot] = "boot" /\ ~tainted =>
       rows = <<>> \/ ToSet(history) \subseteq Remembered \cup missed \cup cut

Untainted ==
  ~tainted => /\ Shape /\ OnceInOrder
              /\ \A t \in Turns : LeafReady(t)
              /\ \A a \in Actors : BlockReady(a)

MemoryInv ==
  /\ MemoryTypes /\ Steps /\ Emptied /\ Ordered /\ Resolvable
  /\ Recording /\ Pending /\ Clean /\ Untainted /\ Whole

\* An item is a message or a summary, not both.
Apart == \A o \in DOMAIN items : ~IsMessage(items[o]) => items[o].row = 0

-------------------------------------------------------------------------------
(* Least and greatest numbers. *)

LEMMA LeastIs ==
  ASSUME NEW S, S \subseteq Nat, S # {}
  PROVE  \E x \in S : \A y \in S : x <= y
<1> DEFINE Less == {ss \in Nat \X Nat : ss[1] < ss[2]}
<1>1. IsWellFoundedOn(Less, Nat)
  BY NatLessThanWellFounded DEF OpToRel
<1>2. PICK x \in S : \A y \in S : ~(<<y, x>> \in Less)
  <2> HIDE DEF Less
  <2> QED
    BY <1>1, WFMin
<1>3. ASSUME NEW y \in S PROVE x <= y
  <2>1. x \in Nat /\ y \in Nat /\ ~(<<y, x>> \in Less)
    BY <1>2
  <2>2. ~(y < x)
    BY <2>1
  <2> QED
    BY <2>1, <2>2
<1> QED
  BY <1>3

LEMMA MinIs ==
  ASSUME NEW S, S \subseteq Nat, S # {}
  PROVE  Min(S) \in S /\ \A y \in S : Min(S) <= y
BY LeastIs DEF Min

LEMMA BoundedMax ==
  ASSUME NEW n \in Nat, NEW S, S \subseteq 0 .. n, S # {}
  PROVE  \E x \in S : \A y \in S : y <= x
<1> DEFINE D == {n - s : s \in S}
<1>1. D \subseteq Nat /\ D # {}
  <2>1. \A s \in S : n - s \in Nat
    OBVIOUS
  <2> QED
    BY <2>1
<1>2. PICK d \in D : \A y \in D : d <= y
  <2> HIDE DEF D
  <2> QED
    BY <1>1, LeastIs
<1>3. PICK x \in S : d = n - x
  OBVIOUS
<1>4. ASSUME NEW y \in S PROVE y <= x
  <2>1. n - x <= n - y
    BY <1>2, <1>3
  <2> QED
    BY <2>1
<1> QED
  BY <1>4

\* How many members of a set are not above a number tells them apart.
Rank(S, x) == Cardinality({y \in S : y <= x})

LEMMA RankIs ==
  ASSUME NEW S, S \subseteq Nat, IsFiniteSet(S)
  PROVE  /\ Cardinality(S) \in Nat
         /\ \A x \in S : Rank(S, x) \in 1 .. Cardinality(S)
         /\ \A x, y \in S : x < y => Rank(S, x) < Rank(S, y)
<1>1. Cardinality(S) \in Nat
  BY FS_CardinalityType
<1>2. ASSUME NEW x \in S
      PROVE  /\ IsFiniteSet({y \in S : y <= x})
             /\ Rank(S, x) \in 1 .. Cardinality(S)
  <2> DEFINE R == {y \in S : y <= x}
  <2>1. R \in SUBSET S /\ x \in R
    OBVIOUS
  <2>2. IsFiniteSet(R) /\ Cardinality(R) <= Cardinality(S)
    BY <2>1, FS_Subset
  <2>3. Cardinality(R) \in Nat /\ Cardinality(R) # 0
    BY <2>1, <2>2, FS_CardinalityType, FS_EmptySet
  <2> QED
    BY <1>1, <2>2, <2>3 DEF Rank
<1>3. ASSUME NEW x \in S, NEW y \in S, x < y
      PROVE  Rank(S, x) < Rank(S, y)
  <2> DEFINE R == {z \in S : z <= x}
             T == {z \in S : z <= y}
  <2>1. R \in SUBSET T /\ y \in T /\ y \notin R
    <3>1. x \in Nat /\ y \in Nat /\ \A z \in S : z \in Nat
      OBVIOUS
    <3>2. \A z \in S : z <= x => z <= y
      BY <1>3, <3>1
    <3>3. \A z \in R : z \in T
      BY <3>2
    <3>4. y \in T /\ y \notin R
      BY <1>3, <3>1
    <3> QED
      BY <3>3, <3>4
  <2>2. IsFiniteSet(T) /\ IsFiniteSet(R)
    BY <1>2
  <2>3. Cardinality(R) <= Cardinality(T) /\ Cardinality(R) # Cardinality(T)
    BY <2>1, <2>2, FS_Subset
  <2>4. Cardinality(R) \in Nat /\ Cardinality(T) \in Nat
    BY <2>2, FS_CardinalityType
  <2> QED
    BY <2>3, <2>4 DEF Rank
<1> QED
  BY <1>1, <1>2, <1>3

LEMMA MaxIs ==
  ASSUME NEW S, S \subseteq Nat, IsFiniteSet(S), S # {}
  PROVE  Max(S) \in S /\ \A y \in S : y <= Max(S)
<1> DEFINE n == Cardinality(S)
           R == {Rank(S, x) : x \in S}
<1>1. n \in Nat /\ R \subseteq 0 .. n /\ R # {}
  <2>1. n \in Nat /\ \A x \in S : Rank(S, x) \in 1 .. n
    BY RankIs
  <2> HIDE DEF n
  <2>2. \A x \in S : Rank(S, x) \in 0 .. n
    BY <2>1
  <2>3. PICK x \in S : TRUE
    OBVIOUS
  <2>4. Rank(S, x) \in R
    OBVIOUS
  <2> QED
    BY <2>1, <2>2, <2>4
<1>2. PICK r \in R : \A q \in R : q <= r
  <2> HIDE DEF n, R
  <2> QED
    BY <1>1, BoundedMax
<1>3. PICK x \in S : r = Rank(S, x)
  OBVIOUS
<1>4. ASSUME NEW y \in S PROVE y <= x
  <2>1. SUFFICES ASSUME x < y PROVE FALSE
    OBVIOUS
  <2>2. Rank(S, x) < Rank(S, y) /\ Rank(S, x) \in Nat /\ Rank(S, y) \in Nat
    <3>1. x \in S /\ \A z \in S : Rank(S, z) \in 1 .. Cardinality(S)
      BY RankIs
    <3>2. Rank(S, x) < Rank(S, y)
      BY <2>1, <3>1, RankIs
    <3> QED
      BY <3>1, <3>2
  <2> QED
    BY <1>2, <1>3, <2>2
<1>5. \E m \in S : \A y \in S : m >= y
  BY <1>4
<1>6. Max(S) \in S /\ \A y \in S : Max(S) >= y
  BY <1>5 DEF Max
<1> QED
  BY <1>6

\* Each rank is taken.
LEMMA RankTaken ==
  ASSUME NEW S, S \subseteq Nat, IsFiniteSet(S), NEW k \in 1 .. Cardinality(S)
  PROVE  \E x \in S : Rank(S, x) = k
<1> DEFINE f == [x \in S |-> Rank(S, x)]
           n == Cardinality(S)
<1>1. n \in Nat /\ \A x \in S : f[x] \in 1 .. n
  BY RankIs
<1>2. \A x, y \in S : f[x] = f[y] => x = y
  <2>1. \A x, y \in S : x < y => f[x] < f[y]
    BY RankIs
  <2>2. \A x \in S : x \in Nat /\ f[x] \in Nat
    BY <1>1
  <2> QED
    BY <2>1, <2>2
<1>3. f \in Injection(S, 1 .. n)
  BY <1>1, <1>2 DEF Injection, IsInjective
<1>4. IsFiniteSet(1 .. n) /\ Cardinality(1 .. n) = n
  BY <1>1, FS_Interval
<1>5. f \in Surjection(S, 1 .. n)
  <2> HIDE DEF f
  <2> QED
    BY <1>3, <1>4, FS_Injection
<1> QED
  BY <1>5 DEF Surjection

-------------------------------------------------------------------------------
(* Steps that leave the database as it is. *)

LEMMA ActorsAre ==
  ASSUME OneTurn
  PROVE  /\ Background \in Actors /\ Boot \in Actors /\ Turns \subseteq Actors
         /\ Background # Boot /\ Background \notin Turns /\ Boot \notin Turns
         /\ \A t \in Turns : Actors = {t, Background, Boot}
<1>1. Background # Boot
  BY DEF Background, Boot
<1> QED
  BY <1>1, MemoryAssumption DEF OneTurn, Actors

LEMMA NoneIn == ToSet(<<>>) = {} /\ Increasing(<<>>) /\ DOMAIN <<>> = {}
<1>1. DOMAIN <<>> = {}
  BY EmptySeq
<1> QED
  BY <1>1 DEF ToSet, Increasing

LEMMA BlankIs ==
  ASSUME NEW w, Blank(w)
  PROVE  /\ ToSet(w.todo) = {} /\ Increasing(w.todo)
         /\ ToSet(w.ids) = {} /\ Increasing(w.ids)
         /\ w.covers = {} /\ w.cands = {} /\ w.depth = 0
BY NoneIn DEF Blank

\* Actors that come to rest, and messages that leave the history, disturb nothing.
LEMMA RestingStep ==
  ASSUME MemoryInv, UNCHANGED <<next, db, wiped, redone, tainted>>,
         history' \in Seq(Known), Increasing(history'), ToSet(history') \subseteq ToSet(history),
         work' \in [Actors -> Works(next - 1, lastSum)], Steps',
         \A a \in Actors : \/ pc'[a] = pc[a] /\ work'[a] = work[a]
                           \/ pc'[a] \in Resting /\ Blank(work'[a])
  PROVE  /\ MemoryTypes' /\ Steps' /\ Emptied' /\ Ordered' /\ Resolvable'
         /\ Recording' /\ Pending' /\ Clean' /\ Untainted'
<1> DEFINE Same(a) == pc'[a] = pc[a] /\ work'[a] = work[a]
           Rests(a) == /\ pc'[a] \in Resting
                       /\ ToSet(work'[a].todo) = {} /\ Increasing(work'[a].todo)
                       /\ ToSet(work'[a].ids) = {} /\ Increasing(work'[a].ids)
                       /\ work'[a].covers = {} /\ work'[a].cands = {} /\ work'[a].depth = 0
<1>1. \A a \in Actors : Same(a) \/ Rests(a)
  BY BlankIs
<1> HIDE DEF Rests
<1>2. \A a \in Actors : pc'[a] \notin Resting => Same(a)
  BY <1>1 DEF Rests
<1>3. /\ UNCHANGED <<next, rows, lastRow, items, summaries, lastSum, wiped, redone, tainted>>
      /\ Known' = Known
  BY DEF db, Known
<1>4. MemoryTypes'
  BY <1>3 DEF MemoryInv, MemoryTypes
<1>5. Emptied'
  <2>1. SUFFICES ASSUME NEW t \in Turns, pc'[t] = "clear"
                 PROVE  /\ rows' = <<>> /\ items' = <<>>
                        /\ \A a \in Actors :
                             /\ work'[a].cands \cap DOMAIN summaries' = {}
                             /\ pc'[a] = "replace" => work'[a].made \notin DOMAIN summaries'
    BY DEF Emptied
  <2>2. t \in Actors /\ pc[t] = "clear"
    BY <1>2, <2>1 DEF Resting, Actors
  <2>3. /\ rows = <<>> /\ items = <<>>
        /\ \A a \in Actors : /\ work[a].cands \cap DOMAIN summaries = {}
                             /\ pc[a] = "replace" => work[a].made \notin DOMAIN summaries
    BY <2>2 DEF MemoryInv, Emptied
  <2> QED
    BY <1>1, <1>3, <2>3 DEF Rests, Resting
<1>6. Ordered'
  BY <1>1, <1>3 DEF MemoryInv, Ordered, Rests
<1>7. Resolvable'
  BY <1>3 DEF MemoryInv, Resolvable, Dangling, IsMessage
<1>8. \A a \in Actors : BeingRecorded(a)' \subseteq BeingRecorded(a)
  BY <1>1, <1>3 DEF BeingRecorded, Recorded, Rests
<1>9. \A a \in Actors : BeingRecorded(a)' = BeingRecorded(a) \/ BeingRecorded(a)' = {}
  BY <1>1, <1>3 DEF BeingRecorded, Recorded, Rests
<1>10. Recording'
  <2> SUFFICES ASSUME NEW a \in Actors
               PROVE  /\ \A o \in DOMAIN items' : IsMessage(items'[o]) => items'[o].row \notin ToSet(work'[a].ids)
                      /\ \A m \in ToSet(history'), n \in BeingRecorded(a)' : m >= n => m \in BeingRecorded(a)'
                      /\ a \in Turns => \A n \in BeingRecorded(a)' :
                           /\ \A s \in DOMAIN summaries' : summaries'[s].covers \subseteq 1 .. n - 1
                           /\ \A b \in Actors : work'[b].covers \subseteq 1 .. n - 1
    BY DEF Recording, IsMessage
  <2>1. \A o \in DOMAIN items' : IsMessage(items'[o]) => items'[o].row \notin ToSet(work'[a].ids)
    BY <1>1, <1>3 DEF MemoryInv, Recording, Rests
  <2>2. \A m \in ToSet(history'), n \in BeingRecorded(a)' : m >= n => m \in BeingRecorded(a)'
    BY <1>9 DEF MemoryInv, Recording
  <2>3. a \in Turns => \A n \in BeingRecorded(a)' :
                           \A s \in DOMAIN summaries' : summaries'[s].covers \subseteq 1 .. n - 1
    BY <1>3, <1>8 DEF MemoryInv, Recording
  <2>4. a \in Turns => \A n \in BeingRecorded(a)' :
                           \A b \in Actors : work'[b].covers \subseteq 1 .. n - 1
    BY <1>1, <1>8 DEF MemoryInv, Recording, Rests
  <2> QED
    BY <2>1, <2>2, <2>3, <2>4
<1>11. Pending'
  BY <1>1, <1>2, <1>3 DEF MemoryInv, Pending, Resting, Holding, Rests
<1>12. Remembered' = Remembered
  BY <1>3 DEF Remembered, Dangling, IsMessage, Tells
<1>13. Clean'
  <2>1. ClearedStaysCleared'
    BY <1>3, <1>12 DEF MemoryInv, Clean, ClearedStaysCleared
  <2>2. \A r \in DOMAIN rows' : rows'[r] \notin wiped'
    BY <1>3 DEF MemoryInv, Clean
  <2>3. ToSet(history') \cap wiped' = {}
    BY <1>3 DEF MemoryInv, Clean
  <2>4. \A a \in Actors : ToSet(work'[a].todo) \cap wiped' = {}
    BY <1>1, <1>3 DEF MemoryInv, Clean, Rests
  <2>5. \A a \in Actors : work'[a].covers \cap wiped' = {} \/ Unused(a)'
    BY <1>1, <1>3 DEF MemoryInv, Clean, Rests, Unused
  <2> QED
    BY <2>1, <2>2, <2>3, <2>4, <2>5 DEF Clean
<1>14. Untainted'
  <2>1. SUFFICES ASSUME ~tainted'
                 PROVE  /\ Shape' /\ OnceInOrder'
                        /\ \A t \in Turns : LeafReady(t)'
                        /\ \A a \in Actors : BlockReady(a)'
    BY DEF Untainted
  <2>2. /\ Shape /\ OnceInOrder /\ ~tainted
        /\ \A t \in Turns : LeafReady(t)
        /\ \A a \in Actors : BlockReady(a)
    BY <1>3, <2>1 DEF MemoryInv, Untainted
  <2>3. Shape'
    BY <1>3, <2>2 DEF Shape, IsMessage, Depth
  <2>4. OnceInOrder'
    BY <1>3, <2>2 DEF OnceInOrder, Orderly, Tells, IsMessage
  <2>5. ASSUME NEW t \in Turns PROVE LeafReady(t)'
    <3>1. t \in Actors
      BY DEF Actors
    <3>2. CASE pc'[t] \in {"summarize", "replaceLeaf"}
      <4>1. Same(t)
        BY <1>2, <3>1, <3>2 DEF Resting
      <4>2. LeafReady(t)
        BY <2>2
      <4> QED
        BY <1>3, <4>1, <4>2 DEF LeafReady, Between, Tells, IsMessage
    <3> QED
      BY <3>2 DEF LeafReady
  <2>6. ASSUME NEW a \in Actors PROVE BlockReady(a)'
    <3>1. CASE pc'[a] \in Making
      <4>1. Same(a)
        BY <1>2, <3>1 DEF Resting, Making
      <4>2. BlockReady(a)
        BY <2>2
      <4> QED
        BY <1>3, <4>1, <4>2 DEF BlockReady, Standing, Tells, IsMessage, Depth
    <3> QED
      BY <3>1 DEF BlockReady
  <2> QED
    BY <2>3, <2>4, <2>5, <2>6
<1> QED
  BY <1>4, <1>5, <1>6, <1>7, <1>10, <1>11, <1>13, <1>14

\* A turn, or the condensation in the background, that comes to rest while nothing is
\* being started leaves everything true.
LEMMA QuietStep ==
  ASSUME OneTurn, MemoryInv, UNCHANGED <<next, db, ghosts>>,
         history' \in Seq(Known), Increasing(history'), ToSet(history') \subseteq ToSet(history),
         pc' \in [Actors -> Places], work' \in [Actors -> Works(next - 1, lastSum)],
         pc[Boot] = "off", pc'[Boot] = "off", work'[Boot] = work[Boot],
         \A t \in Turns :
           \/ pc'[t] = pc[t] /\ work'[t] = work[t]
           \/ /\ pc[t] \notin {"add", "clear"} /\ pc'[t] \in Resting \cap TurnSteps
              /\ Blank(work'[t]),
         \/ pc'[Background] = pc[Background] /\ work'[Background] = work[Background]
         \/ pc'[Background] \in {"idle", "condense"} /\ Blank(work'[Background])
  PROVE  MemoryInv'
<1>0. Steps
  BY DEF MemoryInv
<1>1. \A a \in Actors : a \in Turns \/ a = Boot \/ a = Background
  BY DEF Actors
<1>2. \A a \in Actors : \/ pc'[a] = pc[a] /\ work'[a] = work[a]
                        \/ /\ pc[a] \notin {"add", "clear"} /\ pc'[a] \in Resting
                           /\ Blank(work'[a])
  <2>1. pc[Background] \notin {"add", "clear"}
    BY <1>0 DEF Steps, Making
  <2> QED
    BY <1>1, <2>1 DEF Resting
<1>3. Steps'
  <2>1. \A t \in Turns : pc'[t] \in TurnSteps
    BY <1>0 DEF Steps
  <2>2. pc'[Background] \in Making \cup {"idle", "condense"}
    BY <1>0 DEF Steps
  <2>3. \A a \in Actors : pc'[a] \in Resting \cup {"clear"} => Blank(work'[a])
    BY <1>0, <1>2 DEF Steps
  <2>4. \A a \in Actors : pc'[a] \notin Making => work'[a].depth = 0
    BY <1>0, <1>2 DEF Steps, Blank
  <2>5. \A a \in Actors : pc'[a] # "add" => work'[a].todo = <<>> /\ work'[a].ids = <<>>
    BY <1>0, <1>2 DEF Steps, Blank
  <2> QED
    BY <2>1, <2>2, <2>3, <2>4, <2>5 DEF Steps
<1>4. UNCHANGED <<next, db, wiped, redone, tainted, missed, cut>>
  BY DEF ghosts
<1>5. /\ MemoryTypes' /\ Steps' /\ Emptied' /\ Ordered' /\ Resolvable'
      /\ Recording' /\ Pending' /\ Clean' /\ Untainted'
  BY <1>2, <1>3, <1>4, RestingStep
<1>6. Whole'
  <2>1. InFlight' = InFlight
    <3>1. \A a \in Actors : /\ ToSet(work'[a].todo) = ToSet(work[a].todo)
                            /\ ToSet(work'[a].ids) = ToSet(work[a].ids)
      <4>1. \A a \in Actors : pc[a] \notin {"add", "clear"} => ToSet(work[a].todo) = {} /\ ToSet(work[a].ids) = {}
        BY <1>0, NoneIn DEF Steps
      <4> QED
        BY <1>2, <4>1, BlankIs
    <3> QED
      BY <1>4, <3>1 DEF InFlight, Recorded, db
  <2>2. Settled' => Settled
    BY <1>2 DEF Settled, Resting, Actors
  <2>3. Remembered' = Remembered
    BY <1>4 DEF Remembered, Dangling, IsMessage, Tells, db
  <2>4. NothingForgotten
    BY DEF MemoryInv, Whole
  <2>5. NothingForgotten'
    BY <1>4, <2>1, <2>2, <2>3, <2>4 DEF NothingForgotten
  <2> QED
    BY <2>5 DEF Whole
<1> QED
  BY <1>5, <1>6 DEF MemoryInv

LEMMA ForgetIs ==
  ASSUME NEW n, NEW s \in Nat, NEW w \in Works(n, s), NEW retry \in BOOLEAN
  PROVE  LET x == [NoWork EXCEPT !.base = w.base, !.retry = retry]
             y == [NoWork EXCEPT !.base = w.base]
         IN  /\ x \in Works(n, s) /\ Blank(x)
             /\ y \in Works(n, s) /\ Blank(y)
             /\ NoWork \in Works(n, s) /\ Blank(NoWork)
<1>1. <<>> \in Seq(1 .. n) /\ <<>> \in Seq(Nat)
  BY EmptySeq
<1>2. 0 \in 0 .. s /\ 0 \in Nat
  OBVIOUS
<1>3. NoWork \in Works(n, s) /\ Blank(NoWork)
  BY <1>1, <1>2, Zenon DEF Works, NoWork, Blank
<1>4. w.base \in Nat
  BY DEF Works
<1>5. ASSUME NEW b \in Nat, NEW rr \in BOOLEAN
      PROVE  /\ [NoWork EXCEPT !.base = b, !.retry = rr] \in Works(n, s)
             /\ Blank([NoWork EXCEPT !.base = b, !.retry = rr])
  BY <1>3 DEF Works, NoWork, Blank
<1>6. [NoWork EXCEPT !.base = w.base] \in Works(n, s) /\ Blank([NoWork EXCEPT !.base = w.base])
  BY <1>3, <1>4 DEF Works, NoWork, Blank
<1> QED
  BY <1>3, <1>4, <1>5, <1>6

\* While a turn runs or condenses nothing is being started.
LEMMA Running ==
  ASSUME OneTurn, MemoryInv, NEW a \in Turns \cup {Background}, pc[a] \notin {"off", "idle"}
  PROVE  /\ pc[Boot] = "off" /\ a \in Actors /\ a # Boot
         /\ work[a] \in Works(next - 1, lastSum)
         /\ pc[a] \notin Making => work[a].depth = 0
         /\ pc[a] \in Resting => Blank(work[a])
BY ActorsAre DEF MemoryInv, Steps, MemoryTypes

LEMMA ComesToRest ==
  ASSUME OneTurn, MemoryInv, UNCHANGED <<history, next, db, ghosts>>,
         NEW a \in Turns \cup {Background}, pc[Boot] = "off",
         pc[a] \notin {"off", "add", "clear"},
         NEW x \in Resting, a \in Turns => x \in TurnSteps, a = Background => x \in {"idle", "condense"},
         NEW w \in Works(next - 1, lastSum), Blank(w),
         pc' = [pc EXCEPT ![a] = x], work' = [work EXCEPT ![a] = w]
  PROVE  MemoryInv'
<1>1. a \in Actors /\ a # Boot /\ (a = Background => a \notin Turns)
  BY ActorsAre
<1>2. pc \in [Actors -> Places] /\ work \in [Actors -> Works(next - 1, lastSum)] /\ x \in Places
  <2>1. x \in Places
    BY DEF Resting, Places, TurnSteps
  <2> QED
    BY <2>1 DEF MemoryInv, Steps, MemoryTypes
<1>3. pc' \in [Actors -> Places] /\ work' \in [Actors -> Works(next - 1, lastSum)]
  BY <1>1, <1>2
<1>4. pc'[Boot] = "off" /\ work'[Boot] = work[Boot]
  BY <1>1, <1>2, ActorsAre
<1>5. \A t \in Turns :
           \/ pc'[t] = pc[t] /\ work'[t] = work[t]
           \/ /\ pc[t] \notin {"add", "clear"} /\ pc'[t] \in Resting \cap TurnSteps
              /\ Blank(work'[t])
  <2> SUFFICES ASSUME NEW t \in Turns
               PROVE  \/ pc'[t] = pc[t] /\ work'[t] = work[t]
                      \/ /\ pc[t] \notin {"add", "clear"} /\ pc'[t] \in Resting \cap TurnSteps
                         /\ Blank(work'[t])
    OBVIOUS
  <2>1. t \in Actors
    BY ActorsAre
  <2>2. CASE t = a
    BY <1>2, <2>1, <2>2
  <2>3. CASE t # a
    BY <1>2, <2>1, <2>3
  <2> QED
    BY <2>2, <2>3
<1>6. \/ pc'[Background] = pc[Background] /\ work'[Background] = work[Background]
      \/ pc'[Background] \in {"idle", "condense"} /\ Blank(work'[Background])
  <2>1. Background \in Actors
    BY ActorsAre
  <2>2. CASE Background = a
    BY <1>2, <2>1, <2>2
  <2>3. CASE Background # a
    BY <1>2, <2>1, <2>3
  <2> QED
    BY <2>2, <2>3
<1>7. history' \in Seq(Known) /\ Increasing(history') /\ ToSet(history') \subseteq ToSet(history)
  BY DEF MemoryInv, MemoryTypes, Ordered
<1> QED
  BY <1>3, <1>4, <1>5, <1>6, <1>7, QuietStep

LEMMA BeginKeeps ==
  ASSUME OneTurn, MemoryInv, NEW t \in Turns, Begin(t)  PROVE  MemoryInv'
<1>1. pc[Boot] = "off" /\ t \in Actors /\ Blank(work[t]) /\ work[t] \in Works(next - 1, lastSum)
  <2>1. t \in Actors /\ pc[t] = "idle" /\ pc[t] \in Resting
    BY ActorsAre DEF Begin, Resting
  <2> QED
    BY <2>1 DEF MemoryInv, Steps, MemoryTypes
<1> DEFINE w == [work[t] EXCEPT !.base = Len(history)]
<1>2. Len(history) \in Nat
  BY DEF MemoryInv, MemoryTypes
<1>3. w \in Works(next - 1, lastSum) /\ Blank(w)
  BY <1>1, <1>2 DEF Works, Blank
<1>4. work' = [work EXCEPT ![t] = w] /\ pc' = [pc EXCEPT ![t] = "turn"]
  BY DEF Begin, Goto
<1>5. pc[t] \notin {"off", "add", "clear"} /\ UNCHANGED <<history, next, db, ghosts>>
  BY DEF Begin
<1>6. "turn" \in Resting /\ "turn" \in TurnSteps
  BY DEF Resting, TurnSteps
<1> HIDE DEF w
<1> QED
  BY <1>1, <1>3, <1>4, <1>5, <1>6, ComesToRest, ActorsAre

LEMMA ForgettingKeeps ==
  ASSUME OneTurn, MemoryInv, UNCHANGED <<history, next, db, ghosts>>,
         NEW a \in Turns \cup {Background}, pc[a] \notin {"off", "idle", "add", "clear"},
         NEW x \in Resting, a \in Turns => x \in TurnSteps, a = Background => x \in {"idle", "condense"},
         Goto(a, x), Forget(a)
  PROVE  MemoryInv'
<1>1. pc[Boot] = "off" /\ work[a] \in Works(next - 1, lastSum)
  BY Running
<1>2. lastSum \in Nat
  BY DEF MemoryInv, MemoryTypes
<1>3. /\ [NoWork EXCEPT !.base = work[a].base] \in Works(next - 1, lastSum)
      /\ Blank([NoWork EXCEPT !.base = work[a].base])
  BY <1>1, <1>2, ForgetIs
<1> QED
  BY <1>1, <1>3, ComesToRest DEF Goto, Forget

LEMMA EndKeeps ==
  ASSUME OneTurn, MemoryInv, NEW t \in Turns, End(t)  PROVE  MemoryInv'
<1>1. pc[t] = "turn" /\ UNCHANGED <<history, next, db, ghosts>>
  BY DEF End
<1>2. pc[Boot] = "off" /\ work[t] \in Works(next - 1, lastSum) /\ lastSum \in Nat
  BY <1>1, Running DEF MemoryInv, MemoryTypes
<1>3. NoWork \in Works(next - 1, lastSum) /\ Blank(NoWork)
  BY <1>2, ForgetIs
<1>4. "idle" \in Resting /\ "idle" \in TurnSteps
  BY DEF Resting, TurnSteps
<1>5. pc' = [pc EXCEPT ![t] = "idle"] /\ work' = [work EXCEPT ![t] = NoWork]
  BY DEF End, Goto
<1>6. t # Background
  BY ActorsAre
<1> QED
  BY <1>1, <1>2, <1>3, <1>4, <1>5, <1>6, ComesToRest

\* The first messages of a sequence.
LEMMA Beginning ==
  ASSUME NEW S, NEW s \in Seq(S), NEW n \in 0 .. Len(s)
  PROVE  /\ SubSeq(s, 1, n) \in Seq(S) /\ Len(SubSeq(s, 1, n)) = n
         /\ \A i \in 1 .. n : SubSeq(s, 1, n)[i] = s[i]
         /\ ToSet(SubSeq(s, 1, n)) \subseteq ToSet(s)
         /\ S \subseteq Nat /\ Increasing(s) => Increasing(SubSeq(s, 1, n))
<1> DEFINE b == SubSeq(s, 1, n)
<1>1. \A i \in 1 .. n : s[i] \in S /\ i \in DOMAIN s
  OBVIOUS
<1>2. n \in Nat /\ n - 1 + 1 = n /\ (n < 1 => n = 0) /\ \A i \in 1 .. n : 1 + i - 1 = i
  OBVIOUS
<1>3. b \in Seq(S) /\ Len(b) = n /\ \A i \in 1 .. n : b[i] = s[i]
  <2>1. /\ b \in Seq(S) /\ Len(b) = IF 1 <= n THEN n - 1 + 1 ELSE 0
        /\ \A i \in 1 .. n - 1 + 1 : b[i] = s[1 + i - 1]
    <3> HIDE DEF b
    <3> QED
      BY <1>1, <1>2, SubSeqProperties DEF b
  <2> HIDE DEF b
  <2> QED
    BY <1>2, <2>1
<1> HIDE DEF b
<1>4. DOMAIN b = 1 .. n
  BY <1>3
<1> QED
  BY <1>1, <1>3, <1>4 DEF b, ToSet, Increasing

LEMMA AbortKeeps ==
  ASSUME OneTurn, MemoryInv, NEW t \in Turns, Abort(t)  PROVE  MemoryInv'
<1>1. pc[t] = "turn" /\ UNCHANGED <<next, db, ghosts>>
  BY DEF Abort
<1>2. pc[Boot] = "off" /\ work[t] \in Works(next - 1, lastSum) /\ lastSum \in Nat /\ t \in Actors /\ t # Boot
  BY <1>1, Running DEF MemoryInv, MemoryTypes
<1>3. NoWork \in Works(next - 1, lastSum) /\ Blank(NoWork)
  BY <1>2, ForgetIs
<1>4. "idle" \in Resting /\ "idle" \in TurnSteps /\ "idle" \in Places
  BY DEF Resting, TurnSteps, Places
<1>5. pc' = [pc EXCEPT ![t] = "idle"] /\ work' = [work EXCEPT ![t] = NoWork]
  BY DEF Abort, Goto
<1>6. history' \in Seq(Known) /\ Increasing(history') /\ ToSet(history') \subseteq ToSet(history)
  <2>1. work[t].base \in 0 .. Len(history) /\ history \in Seq(Known) /\ Known \subseteq Nat /\ Increasing(history)
    <3>1. work[t].base \in Nat
      BY <1>2 DEF Works
    <3>2. history \in Seq(Known) /\ Known \subseteq Nat /\ Increasing(history)
      BY DEF MemoryInv, MemoryTypes, Ordered, Known
    <3> QED
      BY <3>1, <3>2 DEF Abort
  <2> QED
    BY <2>1, Beginning DEF Abort
<1>7. pc \in [Actors -> Places] /\ work \in [Actors -> Works(next - 1, lastSum)]
  BY DEF MemoryInv, Steps, MemoryTypes
<1>8. \A b \in Actors : b # t => pc'[b] = pc[b] /\ work'[b] = work[b]
  BY <1>5, <1>7
<1>9. pc'[t] = "idle" /\ work'[t] = NoWork
  BY <1>2, <1>5, <1>7
<1>10. pc' \in [Actors -> Places] /\ work' \in [Actors -> Works(next - 1, lastSum)]
  BY <1>3, <1>4, <1>5, <1>7
<1> QED
  BY <1>1, <1>2, <1>3, <1>4, <1>6, <1>8, <1>9, <1>10, QuietStep, ActorsAre

LEMMA CompactKeeps ==
  ASSUME OneTurn, MemoryInv, NEW t \in Turns, CompactContext(t)  PROVE  MemoryInv'
<1>1. pc[t] = "turn" /\ UNCHANGED <<history, next, db, ghosts>>
  BY DEF CompactContext
<1>2. pc[Boot] = "off" /\ work[t] \in Works(next - 1, lastSum) /\ Blank(work[t]) /\ t # Background
  BY <1>1, Running, ActorsAre DEF Resting
<1>3. PICK retry \in BOOLEAN : /\ pc' = [pc EXCEPT ![t] = IF retry THEN "retry" ELSE "leaf"]
                               /\ work' = [work EXCEPT ![t].retry = retry]
  BY DEF CompactContext, Goto
<1> DEFINE w == [work[t] EXCEPT !.retry = retry]
           x == IF retry THEN "retry" ELSE "leaf"
<1>4. w \in Works(next - 1, lastSum) /\ Blank(w)
  BY <1>2 DEF Works, Blank
<1>5. work' = [work EXCEPT ![t] = w] /\ pc' = [pc EXCEPT ![t] = x]
  BY <1>3
<1>6. x \in Resting /\ x \in TurnSteps
  BY DEF Resting, TurnSteps
<1> HIDE DEF w, x
<1> QED
  BY <1>1, <1>2, <1>4, <1>5, <1>6, ComesToRest

LEMMA UnderBudgetKeeps ==
  ASSUME OneTurn, MemoryInv, NEW t \in Turns, UnderBudget(t)  PROVE  MemoryInv'
<1>1. pc[t] = "retry" /\ UNCHANGED <<history, next, db, ghosts>> /\ Goto(t, "turn") /\ Forget(t)
  BY DEF UnderBudget
<1>2. "turn" \in Resting /\ "turn" \in TurnSteps /\ t # Background
  BY ActorsAre DEF Resting, TurnSteps
<1> QED
  BY <1>1, <1>2, ForgettingKeeps

LEMMA StartCondensingKeeps ==
  ASSUME OneTurn, MemoryInv, NEW t \in Turns, StartCondensing(t)  PROVE  MemoryInv'
<1>1. pc[t] = "more" /\ UNCHANGED <<history, next, db, ghosts>> /\ Forget(t)
  BY DEF StartCondensing
<1>2. /\ pc[Boot] = "off" /\ work[t] \in Works(next - 1, lastSum) /\ lastSum \in Nat
      /\ t \in Actors /\ t # Boot /\ t # Background /\ Background \in Actors /\ Boot \in Actors
      /\ Background # Boot /\ \A s \in Turns : s = t
  BY <1>1, Running, ActorsAre DEF MemoryInv, MemoryTypes, OneTurn
<1> DEFINE w == [NoWork EXCEPT !.base = work[t].base]
<1>3. w \in Works(next - 1, lastSum) /\ Blank(w)
  BY <1>2, ForgetIs
<1>4. work' = [work EXCEPT ![t] = w]
  BY <1>1 DEF Forget
<1>5. pc \in [Actors -> Places] /\ work \in [Actors -> Works(next - 1, lastSum)]
  BY DEF MemoryInv, Steps, MemoryTypes
<1> HIDE DEF w
<1>6. PICK over \in BOOLEAN : 
       pc' = [pc EXCEPT ![t] = "turn",
                        ![Background] = IF over /\ @ = "idle" THEN "condense" ELSE @]
  BY DEF StartCondensing
<1>7. /\ pc'[t] = "turn" /\ pc'[Boot] = pc[Boot]
      /\ \/ pc'[Background] = pc[Background]
         \/ pc[Background] = "idle" /\ pc'[Background] = "condense"
  BY <1>2, <1>5, <1>6
<1>8. pc' \in [Actors -> Places]
  <2>1. "turn" \in Places /\ "condense" \in Places
    BY DEF Places, TurnSteps
  <2> QED
    BY <1>2, <1>5, <1>6, <2>1
<1>9. work'[t] = w /\ work'[Boot] = work[Boot] /\ work'[Background] = work[Background] /\ work' \in [Actors -> Works(next - 1, lastSum)]
  BY <1>2, <1>3, <1>4, <1>5
<1>10. pc[Background] = "idle" => Blank(work[Background])
  BY <1>2 DEF MemoryInv, Steps, Resting
<1>11. history' \in Seq(Known) /\ Increasing(history') /\ ToSet(history') \subseteq ToSet(history)
  BY <1>1 DEF MemoryInv, MemoryTypes, Ordered
<1>12. \A s \in Turns : /\ pc[s] \notin {"add", "clear"} /\ pc'[s] \in Resting \cap TurnSteps
                        /\ Blank(work'[s])
  BY <1>1, <1>2, <1>3, <1>7, <1>9 DEF Resting, TurnSteps
<1>13. \/ pc'[Background] = pc[Background] /\ work'[Background] = work[Background]
       \/ pc'[Background] \in {"idle", "condense"} /\ Blank(work'[Background])
  BY <1>7, <1>9, <1>10
<1> QED
  BY <1>1, <1>2, <1>7, <1>8, <1>9, <1>11, <1>12, <1>13, QuietStep

LEMMA CompactFailsKeeps ==
  ASSUME OneTurn, MemoryInv, NEW a \in Turns \cup {Background}, CompactFails(a)  PROVE  MemoryInv'
<1>1. /\ pc[a] \notin {"off", "idle", "add", "clear"} /\ UNCHANGED <<history, next, db, ghosts>>
      /\ Goto(a, NothingMade(a)) /\ Forget(a)
  BY DEF CompactFails
<1>2. /\ NothingMade(a) \in Resting /\ (a \in Turns => NothingMade(a) \in TurnSteps)
      /\ (a = Background => NothingMade(a) \in {"idle", "condense"})
  BY ActorsAre DEF Resting, TurnSteps, NothingMade
<1> QED
  BY <1>1, <1>2, ForgettingKeeps

LEMMA RememberedSame ==
  ASSUME UNCHANGED db  PROVE  Remembered' = Remembered
BY DEF Remembered, Dangling, IsMessage, Tells, db

LEMMA ResumeKeeps ==
  ASSUME OneTurn, MemoryInv, Resume  PROVE  MemoryInv'
<1>1. /\ pc[Boot] = "done" /\ UNCHANGED <<history, next, db, work, counts, ghosts>>
      /\ pc' = [a \in Actors |-> IF a = Boot THEN "off" ELSE "idle"]
  BY DEF Resume
<1>2. Steps /\ work \in [Actors -> Works(next - 1, lastSum)]
  BY DEF MemoryInv, MemoryTypes
<1>3. pc[Background] = "idle" /\ \A t \in Turns : pc[t] = "off"
  BY <1>1, <1>2 DEF Steps
<1>4. \A a \in Actors : a \in Turns \/ a = Boot \/ a = Background
  BY DEF Actors
<1>5. \A a \in Actors : Blank(work[a])
  <2>1. \A a \in Actors : pc[a] \in Resting
    BY <1>1, <1>3, <1>4 DEF Resting
  <2> QED
    BY <1>2, <2>1 DEF Steps
<1>6. \A a \in Actors : pc'[a] \in {"off", "idle"} /\ Blank(work'[a])
  BY <1>1, <1>5
<1>7. Steps'
  <2>1. pc' \in [Actors -> Places]
    BY <1>1 DEF Places, TurnSteps
  <2>2. /\ \A t \in Turns : pc'[t] \in TurnSteps
        /\ pc'[Background] \in Making \cup {"idle", "condense"}
        /\ pc'[Boot] = "off"
    BY <1>1, ActorsAre DEF TurnSteps
  <2>3. \A a \in Actors : /\ work'[a].depth = 0
                          /\ work'[a].todo = <<>> /\ work'[a].ids = <<>>
    BY <1>6 DEF Blank
  <2> QED
    BY <1>6, <2>1, <2>2, <2>3 DEF Steps
<1>8. /\ UNCHANGED <<next, db, wiped, redone, tainted, missed, cut>>
      /\ history' \in Seq(Known) /\ Increasing(history') /\ ToSet(history') \subseteq ToSet(history)
      /\ work' \in [Actors -> Works(next - 1, lastSum)]
  BY <1>1, <1>2 DEF MemoryInv, MemoryTypes, Ordered, ghosts
<1>9. /\ MemoryTypes' /\ Steps' /\ Emptied' /\ Ordered' /\ Resolvable'
      /\ Recording' /\ Pending' /\ Clean' /\ Untainted'
  <2>1. \A a \in Actors : \/ pc'[a] = pc[a] /\ work'[a] = work[a]
                          \/ pc'[a] \in Resting /\ Blank(work'[a])
    BY <1>6 DEF Resting
  <2> QED
    BY <1>7, <1>8, <2>1, RestingStep
<1>10. Whole'
  <2>1. Settled
    BY <1>1, <1>3 DEF Settled
  <2>2. InFlight' = InFlight /\ Remembered' = Remembered
    BY <1>1, <1>8, RememberedSame DEF InFlight, Recorded, db
  <2>3. NothingForgotten'
    BY <1>1, <1>8, <2>1, <2>2 DEF MemoryInv, Whole, NothingForgotten
  <2>4. pc'[Boot] = "off"
    BY <1>1, ActorsAre
  <2> QED
    BY <2>3, <2>4 DEF Whole
<1> QED
  BY <1>9, <1>10 DEF MemoryInv

LEMMA CrashKeeps ==
  ASSUME OneTurn, MemoryInv, Crash  PROVE  MemoryInv'
<1>1. /\ UNCHANGED <<history, next, db, redone, wiped, tainted>>
      /\ pc' = [a \in Actors |-> IF a = Boot THEN "boot" ELSE IF a = Background THEN "idle" ELSE "off"]
      /\ work' = [a \in Actors |-> NoWork]
      /\ missed' = missed \cup UNION {ToSet(work[a].todo) : a \in Actors}
      /\ cut' = cut \cup UNION {Recorded(a) : a \in Actors}
  BY DEF Crash
<1>2. lastSum \in Nat
  BY DEF MemoryInv, MemoryTypes
<1>3. NoWork \in Works(next - 1, lastSum) /\ Blank(NoWork)
  <2> DEFINE w == NoWork
  <2>1. work[Boot] \in Works(next - 1, lastSum)
    BY ActorsAre DEF MemoryInv, MemoryTypes
  <2> QED
    BY <1>2, <2>1, ForgetIs
<1>4. \A a \in Actors : pc'[a] \in {"boot", "off", "idle"} /\ Blank(work'[a])
  BY <1>1, <1>3
<1>5. Steps'
  <2>1. pc' \in [Actors -> Places]
    BY <1>1 DEF Places, TurnSteps
  <2>2. /\ \A t \in Turns : pc'[t] = "off" /\ pc'[t] \in TurnSteps
        /\ pc'[Background] = "idle"
        /\ pc'[Boot] = "boot"
    BY <1>1, ActorsAre DEF TurnSteps
  <2>3. \A a \in Actors : /\ work'[a].depth = 0
                          /\ work'[a].todo = <<>> /\ work'[a].ids = <<>>
    BY <1>4 DEF Blank
  <2> QED
    BY <1>4, <2>1, <2>2, <2>3 DEF Steps
<1>6. /\ UNCHANGED <<next, db, wiped, redone, tainted>>
      /\ history' \in Seq(Known) /\ Increasing(history') /\ ToSet(history') \subseteq ToSet(history)
      /\ work' \in [Actors -> Works(next - 1, lastSum)]
  BY <1>1, <1>3 DEF MemoryInv, MemoryTypes, Ordered
<1>7. /\ MemoryTypes' /\ Steps' /\ Emptied' /\ Ordered' /\ Resolvable'
      /\ Recording' /\ Pending' /\ Clean' /\ Untainted'
  <2>1. \A a \in Actors : \/ pc'[a] = pc[a] /\ work'[a] = work[a]
                          \/ pc'[a] \in Resting /\ Blank(work'[a])
    BY <1>4 DEF Resting
  <2> QED
    BY <1>5, <1>6, <2>1, RestingStep
<1>8. Whole'
  <2>1. pc'[Boot] = "boot" /\ ~Settled'
    BY <1>1, ActorsAre DEF Settled
  <2>2. Remembered' = Remembered
    BY <1>1, RememberedSame
  <2>3. ASSUME ~tainted, rows # <<>>
        PROVE  ToSet(history) \subseteq Remembered \cup missed' \cup cut'
    <3>1. InFlight \subseteq missed' \cup cut'
      BY <1>1 DEF InFlight
    <3>2. CASE Settled
      BY <1>1, <2>3, <3>1, <3>2 DEF MemoryInv, Whole, NothingForgotten
    <3>3. CASE pc[Boot] = "boot"
      BY <1>1, <2>3, <3>3 DEF MemoryInv, Whole
    <3>4. CASE \E t \in Turns : pc[t] = "clear"
      BY <2>3, <3>4 DEF MemoryInv, Emptied
    <3> QED
      BY <3>2, <3>3, <3>4 DEF Settled
  <2> QED
    BY <1>1, <2>1, <2>2, <2>3 DEF Whole, NothingForgotten, db
<1> QED
  BY <1>7, <1>8 DEF MemoryInv

LEMMA IngestFailsKeeps ==
  ASSUME OneTurn, MemoryInv, NEW a \in Turns \cup {Boot}, IngestFails(a)  PROVE  MemoryInv'
<1> DEFINE w == [NoWork EXCEPT !.base = work[a].base]
<1>1. /\ pc[a] = "add" /\ UNCHANGED <<history, next, db, redone, wiped, tainted>>
      /\ pc' = [pc EXCEPT ![a] = Ready(a)] /\ work' = [work EXCEPT ![a] = w]
      /\ missed' = missed \cup ToSet(work[a].todo)
      /\ cut' = cut \cup Recorded(a)
  BY DEF IngestFails, Goto, Forget
<1>2. a \in Actors /\ lastSum \in Nat /\ Steps /\ work \in [Actors -> Works(next - 1, lastSum)]
  BY ActorsAre DEF MemoryInv, MemoryTypes
<1>3. w \in Works(next - 1, lastSum) /\ Blank(w)
  BY <1>2, ForgetIs
<1> HIDE DEF w
<1>4. pc \in [Actors -> Places]
  BY <1>2 DEF Steps
<1>5. /\ pc'[a] = Ready(a) /\ work'[a] = w
      /\ \A b \in Actors \ {a} : pc'[b] = pc[b] /\ work'[b] = work[b]
      /\ pc' \in [Actors -> Places]
      /\ work' \in [Actors -> Works(next - 1, lastSum)]
  <2>1. Ready(a) \in Places
    BY DEF Ready, Places, TurnSteps
  <2> QED
    BY <1>1, <1>2, <1>3, <1>4, <2>1
<1>6. \A b \in Actors : \/ pc'[b] = pc[b] /\ work'[b] = work[b]
                        \/ b = a /\ pc'[b] = Ready(a) /\ Blank(work'[b])
  BY <1>3, <1>5
<1>7. Ready(a) \in {"done", "turn"} /\ (a = Boot <=> Ready(a) = "done")
  BY DEF Ready
<1>8. Steps'
  <2>1. pc'[Background] = pc[Background]
    BY <1>5, ActorsAre
  <2>2. /\ \A t \in Turns : pc'[t] \in TurnSteps
        /\ pc'[Boot] \in {"off", "boot", "add", "done"}
    BY <1>2, <1>6, <1>7, ActorsAre DEF Steps, TurnSteps
  <2>3. pc'[Boot] # "off" => pc[Boot] # "off" /\ a = Boot
    <3>1. CASE a = Boot
      BY <1>1, <3>1
    <3>2. CASE a # Boot
      BY <1>1, <1>2, <1>5, <3>2, ActorsAre DEF Steps
    <3> QED
      BY <3>1, <3>2
  <2>4. pc'[Boot] # "off" => pc'[Background] = "idle" /\ \A t \in Turns : pc'[t] = "off"
    BY <1>2, <1>5, <2>1, <2>3, ActorsAre DEF Steps
  <2>5. \A b \in Actors : pc'[b] \in Resting \cup {"clear"} => Blank(work'[b])
    BY <1>2, <1>6 DEF Steps
  <2>6. \A b \in Actors : pc'[b] \notin Making => work'[b].depth = 0
    BY <1>2, <1>6 DEF Steps, Blank
  <2>7. \A b \in Actors : pc'[b] # "add" => work'[b].todo = <<>> /\ work'[b].ids = <<>>
    BY <1>2, <1>6 DEF Steps, Blank
  <2>8. pc'[Background] \in Making \cup {"idle", "condense"}
    BY <1>2, <2>1 DEF Steps
  <2> QED
    BY <1>5, <2>2, <2>4, <2>5, <2>6, <2>7, <2>8 DEF Steps
<1>9. /\ UNCHANGED <<next, db, wiped, redone, tainted>>
      /\ history' \in Seq(Known) /\ Increasing(history') /\ ToSet(history') \subseteq ToSet(history)
  BY <1>1, <1>3 DEF MemoryInv, MemoryTypes, Ordered
<1>10. /\ MemoryTypes' /\ Steps' /\ Emptied' /\ Ordered' /\ Resolvable'
       /\ Recording' /\ Pending' /\ Clean' /\ Untainted'
  <2>1. \A b \in Actors : \/ pc'[b] = pc[b] /\ work'[b] = work[b]
                          \/ pc'[b] \in Resting /\ Blank(work'[b])
    BY <1>6, <1>7 DEF Resting
  <2> QED
    BY <1>5, <1>8, <1>9, <2>1, RestingStep
<1>11. Whole'
  <2>1. Settled' => Settled
    BY <1>1, <1>6, <1>7, ActorsAre DEF Settled
  <2>2. Remembered' = Remembered /\ rows' = rows
    BY <1>1, RememberedSame DEF db
  <2>3. InFlight \subseteq InFlight' \cup missed' \cup cut'
    BY <1>1, <1>5, <2>2 DEF InFlight, Recorded
  <2>4. missed \subseteq missed' /\ cut \subseteq cut'
    BY <1>1
  <2>5. NothingForgotten'
    BY <1>1, <2>1, <2>2, <2>3, <2>4 DEF MemoryInv, Whole, NothingForgotten
  <2>6. pc'[Boot] = "boot" => pc[Boot] = "boot" /\ a # Boot
    BY <1>6, <1>7, ActorsAre, <1>1
  <2> QED
    BY <1>1, <2>2, <2>4, <2>5, <2>6 DEF MemoryInv, Whole
<1> QED
  BY <1>10, <1>11 DEF MemoryInv

-------------------------------------------------------------------------------
(* Steps that add to the database. *)

\* Nothing dangles, so the context tells of what its items tell of.
LEMMA TellsAre ==
  ASSUME MemoryTypes, Resolvable
  PROVE  /\ Remembered = UNION {Tells(items[o]) : o \in DOMAIN items}
         /\ \A o \in DOMAIN items :
              /\ items[o].row \in Nat /\ items[o].sum \in Nat
              /\ Tells(items[o]) \subseteq Known
              /\ IsMessage(items[o]) =>
                   items[o].row \in DOMAIN rows /\ Tells(items[o]) = {rows[items[o].row]}
              /\ ~IsMessage(items[o]) =>
                   /\ items[o].sum \in DOMAIN summaries
                   /\ Tells(items[o]) = summaries[items[o].sum].covers
                   /\ summaries[items[o].sum].covers \subseteq Known
                   /\ Depth(o) \in Nat
<1>1. \A o \in DOMAIN items :
              /\ items[o].row \in Nat /\ items[o].sum \in Nat
              /\ IsMessage(items[o]) =>
                   items[o].row \in DOMAIN rows /\ Tells(items[o]) = {rows[items[o].row]}
              /\ ~IsMessage(items[o]) =>
                   items[o].sum \in DOMAIN summaries /\ Tells(items[o]) = summaries[items[o].sum].covers
  BY DEF MemoryTypes, Resolvable, Dangling, Tells
<1>2. /\ \A r \in DOMAIN rows : rows[r] \in Known
      /\ \A s \in DOMAIN summaries : summaries[s].covers \subseteq Known /\ summaries[s].depth \in Nat
  BY DEF MemoryTypes
<1>3. Remembered = UNION {Tells(items[o]) : o \in DOMAIN items}
  BY DEF Remembered, Resolvable
<1> QED
  BY <1>1, <1>2, <1>3 DEF Depth

\* What is ready goes on with its summary made.
LeafGoesOn(t) ==
  /\ pc[t] \in {"summarize", "replaceLeaf"}
  /\ work'[t].from = work[t].from /\ work'[t].to = work[t].to /\ work'[t].covers = work[t].covers
  /\ pc'[t] = "replaceLeaf" => work'[t].made \in DOMAIN summaries'
BlockGoesOn(a) ==
  /\ pc[a] \in Making
  /\ work'[a].cands = work[a].cands /\ work'[a].covers = work[a].covers
  /\ work'[a].depth = work[a].depth /\ work'[a].fresh = work[a].fresh
  /\ pc'[a] \in {"locate", "replace"} => work'[a].made \in DOMAIN summaries'
  /\ pc'[a] = "replace" => /\ pc[a] = "replace" /\ work'[a].others = work[a].others
                           /\ work'[a].from = work[a].from /\ work'[a].to = work[a].to

\* What is added to the database changes nothing for what is ready.
LEMMA ReadyKept ==
  ASSUME MemoryTypes, Resolvable,
         \A r \in DOMAIN rows : r \in DOMAIN rows' /\ rows'[r] = rows[r],
         \A s \in DOMAIN summaries : s \in DOMAIN summaries' /\ summaries'[s] = summaries[s],
         \A o \in DOMAIN items : o \in DOMAIN items' /\ items'[o] = items[o],
         \A o \in DOMAIN items' \ DOMAIN items :
           items'[o].sum = 0 /\ o \in Nat /\ \A p \in DOMAIN items : p < o
  PROVE  /\ \A o \in DOMAIN items :
              /\ Tells(items[o])' = Tells(items[o])
              /\ ~IsMessage(items[o]) => Depth(o)' = Depth(o)
         /\ Shape => Shape'
         /\ \A t \in Turns : LeafReady(t) /\ pc'[t] = pc[t] /\ work'[t] = work[t] => LeafReady(t)'
         /\ \A a \in Actors : BlockReady(a) /\ pc'[a] = pc[a] /\ work'[a] = work[a] => BlockReady(a)'
         /\ \A t \in Turns : LeafReady(t) /\ LeafGoesOn(t) => LeafReady(t)'
         /\ \A a \in Actors : BlockReady(a) /\ BlockGoesOn(a) => BlockReady(a)'
<1>0. \A o \in DOMAIN items : o \in Nat
  BY DEF MemoryTypes
<1>1. \A o \in DOMAIN items :
        /\ Tells(items[o])' = Tells(items[o])
        /\ ~IsMessage(items[o]) => Depth(o)' = Depth(o)
  <2> SUFFICES ASSUME NEW o \in DOMAIN items
               PROVE  /\ Tells(items[o])' = Tells(items[o])
                      /\ ~IsMessage(items[o]) => Depth(o)' = Depth(o)
    OBVIOUS
  <2>1. items'[o] = items[o]
    OBVIOUS
  <2>2. CASE IsMessage(items[o])
    <3>1. items[o].row \in DOMAIN rows
      BY <2>2, TellsAre
    <3> QED
      BY <2>1, <2>2, <3>1 DEF Tells, IsMessage
  <2>3. CASE ~IsMessage(items[o])
    <3>1. items[o].sum \in DOMAIN summaries
      BY <2>3, TellsAre
    <3> QED
      BY <2>1, <2>3, <3>1 DEF Tells, IsMessage, Depth
  <2> QED
    BY <2>2, <2>3
<1>2. Shape => Shape'
  BY <1>0, <1>1 DEF Shape, IsMessage
<1>3. ASSUME NEW t \in Turns, LeafReady(t), LeafGoesOn(t)
      PROVE  LeafReady(t)'
  <2>1. pc[t] \in {"summarize", "replaceLeaf"}
    BY <1>3 DEF LeafGoesOn
  <2> DEFINE w == work[t]
  <2>2. /\ w.from \in DOMAIN items /\ w.to \in DOMAIN items /\ w.from <= w.to
        /\ IsMessage(items[w.from])
        /\ \A o \in DOMAIN items : o < w.from => ~IsMessage(items[o])
        /\ w.covers = UNION {Tells(items[o]) : o \in Between(w.from, w.to)}
    BY <1>3, <2>1 DEF LeafReady
  <2>3. /\ w'.from = w.from /\ w'.to = w.to /\ w'.covers = w.covers /\ w' = work'[t]
        /\ pc'[t] = "replaceLeaf" => w'.made \in DOMAIN summaries'
    BY <1>3 DEF LeafGoesOn
  <2> HIDE DEF w
  <2>4. w.from \in Nat /\ w.to \in Nat
    BY <1>0, <2>2
  <2>5. \A o \in DOMAIN items' : o <= w.to => o \in DOMAIN items
    BY <1>0, <2>2
  <2>6. Between(w.from, w.to)' = Between(w.from, w.to)
    <3>1. \A o : o \in DOMAIN items' /\ o \in w.from .. w.to <=> o \in DOMAIN items /\ o \in w.from .. w.to
      BY <2>4, <2>5
    <3> QED
      BY <2>3, <3>1 DEF Between
  <2>7. UNION {Tells(items[o])' : o \in Between(w.from, w.to)} = w.covers
    <3>1. \A o \in Between(w.from, w.to) : o \in DOMAIN items
      BY DEF Between
    <3> QED
      BY <1>1, <2>2, <3>1
  <2>8. \A o \in DOMAIN items' : o < w.from => ~IsMessage(items'[o])
    BY <1>0, <2>2, <2>4, <2>5
  <2>9. IsMessage(items'[w.from])
    BY <2>2
  <2> QED
    BY <2>2, <2>3, <2>6, <2>7, <2>8, <2>9 DEF LeafReady, IsMessage
<1>4. ASSUME NEW a \in Actors, BlockReady(a), BlockGoesOn(a)
      PROVE  BlockReady(a)'
  <2>1. SUFFICES ASSUME pc[a] \in Making, work[a].fresh
                 PROVE  BlockReady(a)'
    BY <1>4 DEF BlockReady, BlockGoesOn
  <2> DEFINE w == work[a]
             B == Standing(w.cands)
  <2>2. /\ B # {}
        /\ w.covers = UNION {Tells(items[o]) : o \in B}
        /\ \A o \in B : ~IsMessage(items[o]) /\ Depth(o) < w.depth
        /\ \A o \in DOMAIN items \ B :
             \/ ~IsMessage(items[o]) /\ Depth(o) >= w.depth /\ \A p \in B : o < p
             \/ \A p \in B : p < o
        /\ pc[a] = "replace" => /\ ~w.others /\ w.from \in B /\ w.to \in B
                                /\ \A o \in B : w.from <= o /\ o <= w.to
    BY <1>4, <2>1 DEF BlockReady
  <2>3. /\ w'.cands = w.cands /\ w'.covers = w.covers /\ w'.depth = w.depth /\ w'.fresh = w.fresh
        /\ pc'[a] \in {"locate", "replace"} => w'.made \in DOMAIN summaries'
        /\ pc'[a] = "replace" => pc[a] = "replace" /\ w'.others = w.others /\ w'.from = w.from /\ w'.to = w.to
        /\ w' = work'[a]
    BY <1>4 DEF BlockGoesOn
  <2>4. 0 \notin w.cands
    BY DEF MemoryTypes, Works
  <2> HIDE DEF w
  <2>5. B' = B
    <3>1. \A o \in B' : o \in B
      BY <2>3, <2>4 DEF Standing
    <3>2. \A o \in B : o \in B'
      BY <2>3 DEF Standing
    <3> QED
      BY <3>1, <3>2
  <2>6. B \subseteq DOMAIN items
    BY DEF Standing
  <2> HIDE DEF B
  <2>7. UNION {Tells(items[o])' : o \in B} = w.covers
    BY <1>1, <2>2, <2>6
  <2>8. \A o \in B : ~IsMessage(items'[o]) /\ Depth(o)' < w.depth
    BY <1>1, <2>2, <2>6
  <2>9. \A o \in DOMAIN items' \ B :
             \/ ~IsMessage(items'[o]) /\ Depth(o)' >= w.depth /\ \A p \in B : o < p
             \/ \A p \in B : p < o
    <3> SUFFICES ASSUME NEW o \in DOMAIN items' \ B
                 PROVE  \/ ~IsMessage(items'[o]) /\ Depth(o)' >= w.depth /\ \A p \in B : o < p
                        \/ \A p \in B : p < o
      OBVIOUS
    <3>1. CASE o \in DOMAIN items
      BY <1>1, <2>2, <3>1
    <3>2. CASE o \notin DOMAIN items
      BY <2>6, <3>2
    <3> QED
      BY <3>1, <3>2
  <2>10. pc'[a] = "replace" => /\ ~w'.others /\ w'.from \in B' /\ w'.to \in B'
                              /\ \A o \in B' : w'.from <= o /\ o <= w'.to
    BY <2>2, <2>3, <2>5
  <2>12. /\ B' # {} /\ w'.covers = UNION {Tells(items[o])' : o \in B'}
         /\ \A o \in B' : ~IsMessage(items'[o]) /\ Depth(o)' < w'.depth
         /\ \A o \in DOMAIN items' \ B' :
             \/ ~IsMessage(items'[o]) /\ Depth(o)' >= w'.depth /\ \A p \in B' : o < p
             \/ \A p \in B' : p < o
    BY <2>2, <2>3, <2>5, <2>7, <2>8, <2>9
  <2>13. pc'[a] \in Making /\ pc'[a] # "merge" => w'.made \in DOMAIN summaries'
    BY <2>3 DEF Making
  <2> HIDE DEF Making
  <2> QED
    BY <2>10, <2>12, <2>13 DEF BlockReady, IsMessage, w, B
<1>5. ASSUME NEW t \in Turns, LeafReady(t), pc'[t] = pc[t], work'[t] = work[t]
      PROVE  LeafReady(t)'
  <2>1. CASE pc[t] \in {"summarize", "replaceLeaf"}
    <3>1. LeafGoesOn(t)
      BY <1>5, <2>1 DEF LeafGoesOn, LeafReady
    <3> QED
      BY <1>3, <1>5, <3>1
  <2> QED
    BY <1>5, <2>1 DEF LeafReady
<1>6. ASSUME NEW a \in Actors, BlockReady(a), pc'[a] = pc[a], work'[a] = work[a]
      PROVE  BlockReady(a)'
  <2>1. CASE pc[a] \in Making /\ work[a].fresh
    <3>1. BlockGoesOn(a)
      BY <1>6, <2>1 DEF BlockGoesOn, BlockReady, Making
    <3> QED
      BY <1>4, <1>6, <3>1
  <2> QED
    BY <1>6, <2>1 DEF BlockReady
<1> QED
  BY <1>1, <1>2, <1>3, <1>4, <1>5, <1>6

LEMMA WorksGrow ==
  ASSUME NEW m \in Nat, NEW n \in Nat, NEW r \in Nat, NEW s \in Nat, m <= n, r <= s
  PROVE  Works(m, r) \subseteq Works(n, s)
<1>1. 1 .. m \subseteq 1 .. n /\ 1 .. r \subseteq 1 .. s /\ 0 .. r \subseteq 0 .. s
  OBVIOUS
<1>2. Seq(1 .. m) \subseteq Seq(1 .. n)
  BY <1>1
<1> QED
  BY <1>1, <1>2 DEF Works

LEMMA SeqGrows ==
  ASSUME NEW S, NEW T, S \subseteq T
  PROVE  Seq(S) \subseteq Seq(T)
OBVIOUS

LEMMA ToSetIs ==
  ASSUME NEW S, NEW s \in Seq(S)
  PROVE  /\ ToSet(s) \subseteq S
         /\ \A x : x \in ToSet(s) <=> \E i \in 1 .. Len(s) : s[i] = x
         /\ \A e : ToSet(Append(s, e)) = ToSet(s) \cup {e}
<1>1. DOMAIN s = 1 .. Len(s) /\ \A i \in 1 .. Len(s) : s[i] \in S
  OBVIOUS
<1>2. ASSUME NEW e PROVE ToSet(Append(s, e)) = ToSet(s) \cup {e}
  <2>1. /\ DOMAIN Append(s, e) = 1 .. Len(s) + 1
        /\ Append(s, e)[Len(s) + 1] = e
        /\ \A i \in 1 .. Len(s) : Append(s, e)[i] = s[i]
    <3>1. s \in Seq(S \cup {e}) /\ e \in S \cup {e}
      OBVIOUS
    <3> QED
      BY <3>1
  <2>2. Len(s) \in Nat
    OBVIOUS
  <2>3. 1 .. Len(s) + 1 = (1 .. Len(s)) \cup {Len(s) + 1}
    BY <2>2
  <2> QED
    BY <1>1, <2>1, <2>3 DEF ToSet
<1> QED
  BY <1>1, <1>2 DEF ToSet

LEMMA OnlyIs ==
  ASSUME NEW x PROVE ToSet(<<x>>) = {x} /\ Increasing(<<x>>)
BY DEF ToSet, Increasing

\* An actor that is not recording has nothing to record.
LEMMA NotRecording ==
  ASSUME MemoryInv, NEW a \in Actors, pc[a] # "add"
  PROVE  /\ work[a].todo = <<>> /\ work[a].ids = <<>>
         /\ ToSet(work[a].todo) = {} /\ ToSet(work[a].ids) = {}
         /\ BeingRecorded(a) = {} /\ Recorded(a) = {}
BY NoneIn DEF MemoryInv, Steps, BeingRecorded, Recorded

\* Only one actor records.
LEMMA OneRecorder ==
  ASSUME OneTurn, MemoryInv, NEW a \in Turns \cup {Boot}, pc[a] = "add"
  PROVE  /\ a \in Actors
         /\ \A b \in Actors \ {a} : pc[b] # "add" /\ BeingRecorded(b) = {}
         /\ InFlight = BeingRecorded(a)
         /\ \A t \in Turns : pc[t] # "clear"
         /\ a = Boot => /\ pc[Background] = "idle" /\ work[Background].covers = {}
                        /\ \A t \in Turns : pc[t] = "off" /\ work[t].covers = {}
         /\ a # Boot => pc[Boot] = "off" /\ a \in Turns /\ work[Boot].covers = {}
<1>1. Steps /\ a \in Actors
  BY ActorsAre DEF MemoryInv
<1>2. /\ a = Boot => pc[Background] = "idle" /\ \A t \in Turns : pc[t] = "off"
      /\ a # Boot => pc[Boot] = "off" /\ a \in Turns
  BY <1>1 DEF Steps
<1>3. pc[Background] # "add"
  BY <1>1 DEF Steps, Making
<1>4. \A b \in Actors \ {a} : pc[b] # "add"
  <2>1. CASE a = Boot
    <3>1. \A b \in Actors \ {a} : b = Background \/ b \in Turns
      BY <2>1 DEF Actors
    <3> QED
      BY <1>2, <1>3, <2>1, <3>1
  <2>2. CASE a # Boot
    <3>1. \A b \in Actors \ {a} : b = Background \/ b = Boot
      BY <1>2, <2>2, ActorsAre
    <3> QED
      BY <1>2, <1>3, <2>2, <3>1
  <2> QED
    BY <2>1, <2>2
<1>5. \A b \in Actors \ {a} : BeingRecorded(b) = {}
  BY <1>4, NotRecording
<1>6. InFlight = UNION {BeingRecorded(b) : b \in Actors}
  BY DEF InFlight, BeingRecorded
<1>7. InFlight = BeingRecorded(a)
  BY <1>1, <1>5, <1>6
<1>8. \A b \in Actors : pc[b] \in {"off", "idle"} => work[b].covers = {}
  BY <1>1 DEF Steps, Resting, Blank
<1>9. \A t \in Turns : pc[t] # "clear"
  BY <1>2, ActorsAre
<1> QED
  BY <1>1, <1>2, <1>4, <1>5, <1>7, <1>8, <1>9, ActorsAre

LEMMA StoreKeeps ==
  ASSUME OneTurn, MemoryInv, NEW t \in Turns, Store(t)  PROVE  MemoryInv'
<1> DEFINE w == [work[t] EXCEPT !.todo = <<next>>]
<1>1. /\ pc[t] = "turn" /\ UNCHANGED <<db, counts, ghosts>>
      /\ history' = Append(history, next) /\ next' = next + 1
      /\ pc' = [pc EXCEPT ![t] = "add"] /\ work' = [work EXCEPT ![t] = w]
  BY DEF Store, Goto
<1>2. /\ UNCHANGED <<rows, lastRow, items, summaries, lastSum, missed, cut, redone, wiped, tainted>>
  BY <1>1 DEF db, ghosts
<1>3. /\ pc[Boot] = "off" /\ t \in Actors /\ t # Boot /\ t # Background /\ Blank(work[t])
      /\ work[t] \in Works(next - 1, lastSum) /\ \A s \in Turns : s = t
  BY <1>1, Running, ActorsAre DEF Resting, OneTurn
<1>4. /\ next \in Nat \ {0} /\ lastSum \in Nat /\ history \in Seq(Known)
      /\ work \in [Actors -> Works(next - 1, lastSum)] /\ pc \in [Actors -> Places]
      /\ MemoryTypes /\ Resolvable /\ Steps
  BY DEF MemoryInv, MemoryTypes, Steps
<1>5. Known' = 1 .. next /\ Known \subseteq Known' /\ next \notin Known /\ next' - 1 = next
  BY <1>1, <1>4 DEF Known
<1>6. w.todo = <<next>> /\ w.ids = <<>> /\ w.covers = {} /\ w.cands = {} /\ w.depth = 0
  BY <1>3 DEF Works, Blank
<1>7. Works(next - 1, lastSum) \subseteq Works(next, lastSum)
  BY <1>4, WorksGrow
<1>8. w \in Works(next, lastSum)
  <2>1. <<next>> \in Seq(1 .. next)
    BY <1>4
  <2>2. work[t] \in Works(next, lastSum)
    BY <1>3, <1>7
  <2> QED
    BY <2>1, <2>2 DEF Works
<1> HIDE DEF w
<1>9. /\ work' \in [Actors -> Works(next, lastSum)] /\ pc' \in [Actors -> Places]
      /\ work'[t] = w /\ pc'[t] = "add"
      /\ \A b \in Actors \ {t} : work'[b] = work[b] /\ pc'[b] = pc[b]
  <2>1. "add" \in Places
    BY DEF Places, TurnSteps
  <2>2. work \in [Actors -> Works(next, lastSum)]
    BY <1>4, <1>7
  <2> QED
    BY <1>1, <1>3, <1>4, <1>8, <2>1, <2>2
<1>10. /\ ToSet(history') = ToSet(history) \cup {next} /\ history' \in Seq(Known')
       /\ ToSet(history) \subseteq Known
  <2>1. history \in Seq(Known') /\ next \in Known'
    <3>1. Seq(Known) \subseteq Seq(Known')
      BY <1>5, SeqGrows
    <3>2. next \in Known'
      BY <1>4, <1>5
    <3> QED
      BY <1>4, <3>1, <3>2
  <2> QED
    BY <1>1, <1>4, <2>1, ToSetIs
<1>11. \A b \in Actors : /\ b = t => work'[b] = w
                         /\ b # t => work'[b] = work[b]
  BY <1>9
<1>12. ToSet(w.todo) = {next} /\ Increasing(w.todo) /\ ToSet(w.ids) = {} /\ Increasing(w.ids)
  BY <1>6, OnlyIs, NoneIn
<1>13. MemoryTypes'
  <2>1. rows \in [DOMAIN rows -> Known'] /\ DOMAIN rows \subseteq 1 .. lastRow
    BY <1>4, <1>5 DEF MemoryTypes
  <2>2. summaries \in [DOMAIN summaries -> [depth : Nat, tokens : Nat, covers : SUBSET Known']]
    BY <1>4, <1>5 DEF MemoryTypes
  <2>3. wiped' \subseteq Known' /\ next' \in Nat \ {0}
    BY <1>1, <1>2, <1>4, <1>5 DEF MemoryTypes
  <2>4. work' \in [Actors -> Works(next' - 1, lastSum')]
    BY <1>2, <1>5, <1>9
  <2> QED
    BY <1>2, <1>4, <1>10, <2>1, <2>2, <2>3, <2>4 DEF MemoryTypes
<1>14. Steps'
  <2>1. /\ \A s \in Turns : pc'[s] \in TurnSteps
        /\ pc'[Background] = pc[Background] /\ pc'[Boot] = "off"
    BY <1>3, <1>9, ActorsAre DEF TurnSteps
  <2>2. \A b \in Actors : pc'[b] \in Resting \cup {"clear"} => Blank(work'[b])
    BY <1>4, <1>9 DEF Steps, Resting
  <2>3. \A b \in Actors : pc'[b] \notin Making => work'[b].depth = 0
    BY <1>4, <1>6, <1>9 DEF Steps
  <2>4. \A b \in Actors : pc'[b] # "add" => work'[b].todo = <<>> /\ work'[b].ids = <<>>
    BY <1>4, <1>9 DEF Steps
  <2> QED
    BY <1>4, <1>9, <2>1, <2>2, <2>3, <2>4 DEF Steps
<1>15. Emptied'
  BY <1>3, <1>9 DEF Emptied
<1>16. Ordered'
  <2>1. Increasing(history')
    <3>1. /\ DOMAIN history' = 1 .. Len(history) + 1
          /\ \A i \in 1 .. Len(history) : history'[i] = history[i] /\ history[i] \in Known
          /\ history'[Len(history) + 1] = next
      <4>1. history \in Seq(Nat) /\ next \in Nat
        BY <1>4 DEF Known
      <4> QED
        BY <1>1, <1>4, <4>1
    <3>2. Increasing(history) /\ DOMAIN history = 1 .. Len(history) /\ Len(history) \in Nat
      BY <1>4 DEF MemoryInv, Ordered
    <3>3. \A i \in 1 .. Len(history) : history[i] < next
      BY <1>4, <3>1 DEF Known
    <3> QED
      BY <3>1, <3>2, <3>3 DEF Increasing
  <2>2. Increasing(rows')
    BY <1>2 DEF MemoryInv, Ordered
  <2>3. \A r \in DOMAIN rows : rows[r] < next
    BY <1>4 DEF MemoryTypes, Known
  <2>4. ASSUME NEW b \in Actors
        PROVE  /\ Increasing(work'[b].todo) /\ Increasing(work'[b].ids)
               /\ ToSet(work'[b].ids) \subseteq DOMAIN rows'
               /\ \A r \in DOMAIN rows', m \in ToSet(work'[b].todo) : rows'[r] < m
    <3>1. CASE b = t
      BY <1>2, <1>9, <1>12, <2>3, <3>1
    <3>2. CASE b # t
      BY <1>2, <1>9, <3>2 DEF MemoryInv, Ordered
    <3> QED
      BY <3>1, <3>2
  <2> QED
    BY <2>1, <2>2, <2>4 DEF Ordered
<1>17. Resolvable'
  BY <1>2, <1>4 DEF Resolvable, Dangling, IsMessage
<1>18. /\ BeingRecorded(t)' = {next}
       /\ \A b \in Actors \ {t} : BeingRecorded(b)' = {}
       /\ \A b \in Actors : BeingRecorded(b) = {}
  <2>1. BeingRecorded(t)' = {next}
    <3>1. work'[t].todo = w.todo /\ work'[t].ids = w.ids
      BY <1>9
    <3> QED
      BY <1>12, <3>1 DEF BeingRecorded, Recorded
  <2>2. \A b \in Actors : pc[b] # "add"
    BY <1>1, <1>3, <1>4, ActorsAre DEF Steps, Making
  <2>3. \A b \in Actors : BeingRecorded(b) = {}
    BY <2>2, NotRecording
  <2>4. \A b \in Actors \ {t} : BeingRecorded(b)' = BeingRecorded(b)
    BY <1>2, <1>9 DEF BeingRecorded, Recorded
  <2> QED
    BY <2>1, <2>3, <2>4
<1>19. Recording'
  <2>1. ASSUME NEW b \in Actors, NEW o \in DOMAIN items', IsMessage(items'[o])
        PROVE  items'[o].row \notin ToSet(work'[b].ids)
    <3>1. CASE b = t
      BY <1>9, <1>12, <3>1
    <3>2. CASE b # t
      BY <1>2, <1>9, <2>1, <3>2 DEF MemoryInv, Recording
    <3> QED
      BY <3>1, <3>2
  <2>2. \A b \in Actors : \A m \in ToSet(history'), n \in BeingRecorded(b)' : m >= n => m \in BeingRecorded(b)'
    <3>1. \A m \in ToSet(history') : m >= next => m = next
      BY <1>4, <1>10 DEF Known
    <3> QED
      BY <1>18, <3>1
  <2>3. \A s \in DOMAIN summaries' : summaries'[s].covers \subseteq 1 .. next - 1
    BY <1>2, <1>4 DEF MemoryTypes, Known
  <2>4. \A b \in Actors : work'[b].covers \subseteq 1 .. next - 1
    <3>1. \A b \in Actors : work[b].covers \subseteq 1 .. next - 1
      BY <1>4 DEF Works
    <3> QED
      BY <1>6, <1>11, <3>1
  <2> QED
    BY <1>18, <2>1, <2>2, <2>3, <2>4 DEF Recording, IsMessage
<1>20. Pending'
  <2>1. \A b \in Actors : work'[b].cands = IF b = t THEN {} ELSE work[b].cands
    BY <1>6, <1>9
  <2>2. \A b \in Actors : pc'[b] \in Holding => b # t /\ pc[b] \in Holding /\ work'[b] = work[b]
    BY <1>9 DEF Holding
  <2> QED
    BY <1>2, <2>1, <2>2 DEF MemoryInv, Pending
<1>21. Clean'
  <2>1. ToSet(history') \cap wiped' = {}
    BY <1>2, <1>4, <1>5, <1>10 DEF MemoryInv, MemoryTypes, Clean
  <2>2. \A b \in Actors : ToSet(work'[b].todo) \cap wiped' = {}
    <3>1. {next} \cap wiped = {}
      BY <1>4, <1>5 DEF MemoryTypes
    <3> QED
      BY <1>2, <1>11, <1>12, <3>1 DEF MemoryInv, Clean
  <2>3. \A b \in Actors : work'[b].covers \cap wiped' = {} \/ Unused(b)'
    BY <1>2, <1>6, <1>9 DEF MemoryInv, Clean, Unused
  <2>4. ClearedStaysCleared'
    BY <1>1, <1>2, RememberedSame DEF MemoryInv, Clean, ClearedStaysCleared
  <2> QED
    BY <1>2, <2>1, <2>2, <2>3, <2>4 DEF MemoryInv, Clean
<1>22. Untainted'
  <2>1. SUFFICES ASSUME ~tainted'
                 PROVE  /\ Shape' /\ OnceInOrder'
                        /\ \A s \in Turns : LeafReady(s)'
                        /\ \A a \in Actors : BlockReady(a)'
    BY DEF Untainted
  <2>2. /\ Shape /\ OnceInOrder /\ ~tainted
        /\ \A s \in Turns : LeafReady(s)
        /\ \A a \in Actors : BlockReady(a)
    BY <1>2, <2>1 DEF MemoryInv, Untainted
  <2>3. /\ \A o \in DOMAIN items :
              /\ Tells(items[o])' = Tells(items[o])
              /\ ~IsMessage(items[o]) => Depth(o)' = Depth(o)
        /\ Shape => Shape'
        /\ \A s \in Turns : LeafReady(s) /\ pc'[s] = pc[s] /\ work'[s] = work[s] => LeafReady(s)'
        /\ \A a \in Actors : BlockReady(a) /\ pc'[a] = pc[a] /\ work'[a] = work[a] => BlockReady(a)'
    BY <1>2, <1>4, ReadyKept
  <2>4. \A o \in DOMAIN items : Orderly(items[o])' = Orderly(items[o])
    <3>1. \A o \in DOMAIN items : Tells(items[o]) \subseteq Known
      BY <1>4, TellsAre
    <3>2. \A o \in DOMAIN items : Tells(items[o])' \cap ToSet(history') = Tells(items[o]) \cap ToSet(history)
      BY <1>5, <1>10, <2>3, <3>1
    <3> QED
      BY <1>2, <3>2 DEF Orderly
  <2>5. OnceInOrder'
    BY <1>2, <2>2, <2>4 DEF OnceInOrder
  <2>6. \A s \in Turns : LeafReady(s)'
    BY <1>3, <1>9 DEF LeafReady
  <2>7. \A a \in Actors : BlockReady(a)'
    <3>1. BlockReady(t)'
      BY <1>9 DEF BlockReady, Making
    <3> QED
      BY <1>9, <2>2, <2>3, <3>1
  <2> QED
    BY <2>2, <2>3, <2>5, <2>6, <2>7
<1>23. Whole'
  <2>1. InFlight' = {next} /\ InFlight = {}
    <3>1. /\ InFlight' = UNION {BeingRecorded(b)' : b \in Actors}
          /\ InFlight = UNION {BeingRecorded(b) : b \in Actors}
      BY DEF InFlight, BeingRecorded
    <3> QED
      BY <1>3, <1>18, <3>1
  <2>2. Remembered' = Remembered
    BY <1>1, RememberedSame
  <2>3. Settled
    BY <1>1, <1>3 DEF Settled
  <2>4. NothingForgotten'
    BY <1>2, <1>10, <2>1, <2>2, <2>3 DEF MemoryInv, Whole, NothingForgotten
  <2>5. pc'[Boot] = "off"
    BY <1>3, <1>9, ActorsAre
  <2> QED
    BY <2>4, <2>5 DEF Whole
<1> QED
  BY <1>13, <1>14, <1>15, <1>16, <1>17, <1>19, <1>20, <1>21, <1>22, <1>23 DEF MemoryInv

LEMMA HeadIs ==
  ASSUME NEW S, S \subseteq Nat, NEW s \in Seq(S), s # <<>>
  PROVE  /\ Head(s) \in S /\ Tail(s) \in Seq(S)
         /\ ToSet(s) = {Head(s)} \cup ToSet(Tail(s))
         /\ Increasing(s) => /\ Increasing(Tail(s))
                             /\ \A x \in ToSet(Tail(s)) : Head(s) < x
<1> DEFINE u == Tail(s)
<1>1. /\ Head(s) = s[1] /\ Head(s) \in S /\ u \in Seq(S) /\ Len(u) = Len(s) - 1
      /\ \A i \in 1 .. Len(u) : u[i] = s[i + 1]
      /\ Len(s) \in Nat /\ Len(s) # 0
  BY HeadTailProperties
<1> HIDE DEF u
<1>2. /\ DOMAIN s = 1 .. Len(s) /\ DOMAIN u = 1 .. Len(s) - 1
      /\ \A i \in 1 .. Len(s) - 1 : u[i] = s[i + 1] /\ i + 1 \in 1 .. Len(s)
  BY <1>1
<1>3. \A i \in 1 .. Len(s) : i = 1 \/ (i - 1 \in 1 .. Len(s) - 1 /\ u[i - 1] = s[i])
  <2>1. \A i \in 1 .. Len(s) : i = 1 \/ (i - 1 \in 1 .. Len(s) - 1 /\ (i - 1) + 1 = i)
    BY <1>1
  <2> QED
    BY <1>2, <2>1
<1>4. ToSet(s) = {s[1]} \cup ToSet(u)
  <2>1. \A x \in ToSet(s) : x \in {s[1]} \cup ToSet(u)
    BY <1>2, <1>3 DEF ToSet
  <2>2. 1 \in DOMAIN s
    BY <1>1, <1>2
  <2>3. \A x \in ToSet(u) : x \in ToSet(s)
    BY <1>2 DEF ToSet
  <2>4. s[1] \in ToSet(s)
    BY <2>2 DEF ToSet
  <2> QED
    BY <2>1, <2>3, <2>4
<1>5. ASSUME Increasing(s)
      PROVE  Increasing(u) /\ \A x \in ToSet(u) : s[1] < x
  <2>1. \A i, j \in 1 .. Len(s) : i < j => s[i] < s[j]
    BY <1>2, <1>5 DEF Increasing
  <2>2. \A i, j \in 1 .. Len(s) - 1 : i < j => u[i] < u[j]
    BY <1>1, <1>2, <2>1
  <2>3. \A i \in 1 .. Len(s) - 1 : s[1] < u[i]
    <3>1. 1 \in 1 .. Len(s) /\ \A i \in 1 .. Len(s) - 1 : 1 < i + 1
      BY <1>1
    <3> QED
      BY <1>2, <2>1, <3>1
  <2> QED
    BY <1>2, <2>2, <2>3 DEF Increasing, ToSet
<1> QED
  BY <1>1, <1>4, <1>5 DEF u

LEMMA AppendIs ==
  ASSUME NEW S, S \subseteq Nat, NEW s \in Seq(S), NEW e \in S,
         Increasing(s), \A x \in ToSet(s) : x < e
  PROVE  /\ Append(s, e) \in Seq(S) /\ Increasing(Append(s, e))
         /\ ToSet(Append(s, e)) = ToSet(s) \cup {e}
<1>1. /\ Append(s, e) \in Seq(S) /\ DOMAIN Append(s, e) = 1 .. Len(s) + 1
      /\ \A i \in 1 .. Len(s) : Append(s, e)[i] = s[i]
      /\ Append(s, e)[Len(s) + 1] = e /\ Len(s) \in Nat /\ DOMAIN s = 1 .. Len(s)
  OBVIOUS
<1>2. \A i \in 1 .. Len(s) : s[i] < e
  BY <1>1 DEF ToSet
<1>3. Increasing(Append(s, e))
  BY <1>1, <1>2 DEF Increasing
<1> QED
  BY <1>1, <1>3, ToSetIs

LEMMA StoreOnlyKeeps ==
  ASSUME OneTurn, MemoryInv, NEW t \in Turns, StoreOnly(t)  PROVE  MemoryInv'
<1>1. /\ pc[t] = "turn" /\ UNCHANGED <<db, pc, work, cut, redone, wiped, tainted>>
      /\ history' = Append(history, next) /\ next' = next + 1
      /\ missed' = missed \cup {next}
  BY DEF StoreOnly
<1>2. UNCHANGED <<rows, lastRow, items, summaries, lastSum, pc, work, cut, redone, wiped, tainted>>
  BY <1>1 DEF db
<1>3. pc[Boot] = "off" /\ t \in Actors /\ t # Boot /\ \A s \in Turns : s = t
  BY <1>1, Running, ActorsAre DEF Resting, OneTurn
<1>4. /\ next \in Nat \ {0} /\ lastSum \in Nat /\ history \in Seq(Known)
      /\ work \in [Actors -> Works(next - 1, lastSum)]
      /\ MemoryTypes /\ Resolvable /\ Steps
  BY DEF MemoryInv, MemoryTypes, Steps
<1>5. Known' = 1 .. next /\ Known \subseteq Known' /\ next \notin Known /\ next' - 1 = next
  BY <1>1, <1>4 DEF Known
<1>6. work' \in [Actors -> Works(next, lastSum)]
  <2>1. Works(next - 1, lastSum) \subseteq Works(next, lastSum)
    BY <1>4, WorksGrow
  <2> QED
    BY <1>2, <1>4, <2>1
<1>7. /\ history' \in Seq(Known') /\ ToSet(history) \subseteq Known
      /\ ToSet(history') = ToSet(history) \cup {next} /\ Increasing(history')
  <2>1. history \in Seq(Known') /\ next \in Known'
    <3>1. Seq(Known) \subseteq Seq(Known')
      BY <1>5, SeqGrows
    <3> QED
      BY <1>4, <1>5, <3>1
  <2>2. ToSet(history) \subseteq Known
    BY <1>4, ToSetIs
  <2>3. Increasing(history) /\ \A m \in ToSet(history) : m < next
    BY <1>4, <2>2 DEF MemoryInv, Ordered, Known
  <2>4. Known' \subseteq Nat
    BY <1>4, <1>5
  <2>5. /\ Append(history, next) \in Seq(Known') /\ Increasing(Append(history, next))
        /\ ToSet(Append(history, next)) = ToSet(history) \cup {next}
    BY <2>1, <2>3, <2>4, AppendIs
  <2>6. Increasing(history') <=> Increasing(Append(history, next))
    BY <1>1 DEF Increasing
  <2> QED
    BY <1>1, <2>2, <2>5, <2>6
<1>8. MemoryTypes'
  <2>1. rows \in [DOMAIN rows -> Known'] /\ DOMAIN rows \subseteq 1 .. lastRow
    BY <1>4, <1>5 DEF MemoryTypes
  <2>2. summaries \in [DOMAIN summaries -> [depth : Nat, tokens : Nat, covers : SUBSET Known']]
    BY <1>4, <1>5 DEF MemoryTypes
  <2>3. wiped' \subseteq Known' /\ next' \in Nat \ {0}
    BY <1>1, <1>2, <1>4, <1>5 DEF MemoryTypes
  <2>4. work' \in [Actors -> Works(next' - 1, lastSum')]
    BY <1>2, <1>5, <1>6
  <2> QED
    BY <1>2, <1>4, <1>7, <2>1, <2>2, <2>3, <2>4 DEF MemoryTypes
<1>9. Steps' /\ Emptied' /\ Resolvable' /\ Pending'
  BY <1>2 DEF MemoryInv, Steps, Blank, Emptied, Resolvable, Dangling, IsMessage, Pending
<1>10. Ordered'
  BY <1>2, <1>7 DEF MemoryInv, Ordered, Increasing
<1>11. \A b \in Actors : BeingRecorded(b)' = {} /\ BeingRecorded(b) = {}
  <2>1. \A b \in Actors : pc[b] # "add"
    BY <1>1, <1>3, <1>4, ActorsAre DEF Steps, Making
  <2>2. \A b \in Actors : BeingRecorded(b) = {}
    BY <2>1, NotRecording
  <2>3. \A b \in Actors : BeingRecorded(b)' = BeingRecorded(b)
    BY <1>2 DEF BeingRecorded, Recorded
  <2> QED
    BY <2>2, <2>3
<1>12. Recording'
  BY <1>2, <1>11 DEF MemoryInv, Recording, IsMessage
<1>13. Clean'
  <2>1. ToSet(history') \cap wiped' = {}
    BY <1>2, <1>4, <1>5, <1>7 DEF MemoryInv, MemoryTypes, Clean
  <2>2. ClearedStaysCleared'
    BY <1>1, <1>2, RememberedSame DEF MemoryInv, Clean, ClearedStaysCleared
  <2> QED
    BY <1>2, <2>1, <2>2 DEF MemoryInv, Clean, Unused
<1>14. /\ \A o \in DOMAIN items : Orderly(items[o])' = Orderly(items[o])
       /\ Shape => Shape'
       /\ \A s \in Turns : LeafReady(s) => LeafReady(s)'
       /\ \A a \in Actors : BlockReady(a) => BlockReady(a)'
  <2>1. /\ \A o \in DOMAIN items : Tells(items[o])' = Tells(items[o])
        /\ Shape => Shape'
        /\ \A s \in Turns : LeafReady(s) => LeafReady(s)'
        /\ \A a \in Actors : BlockReady(a) => BlockReady(a)'
    BY <1>2, <1>4, ReadyKept
  <2>2. \A o \in DOMAIN items : Tells(items[o]) \subseteq Known
    BY <1>4, TellsAre
  <2>3. \A o \in DOMAIN items : Tells(items[o])' \cap ToSet(history') = Tells(items[o]) \cap ToSet(history)
    BY <1>5, <1>7, <2>1, <2>2
  <2> QED
    BY <1>2, <2>1, <2>3 DEF Orderly
<1>15. Untainted'
  <2>1. OnceInOrder => OnceInOrder'
    BY <1>2, <1>14 DEF OnceInOrder
  <2> QED
    BY <1>2, <1>14, <2>1 DEF MemoryInv, Untainted
<1>16. Whole'
  <2>1. Remembered' = Remembered
    BY <1>1, RememberedSame
  <2>2. InFlight' = InFlight
    BY <1>2 DEF InFlight, Recorded
  <2>3. Settled
    BY <1>1, <1>3 DEF Settled
  <2>4. NothingForgotten'
    BY <1>1, <1>2, <1>7, <2>1, <2>2, <2>3 DEF MemoryInv, Whole, NothingForgotten
  <2>5. pc'[Boot] = "off"
    BY <1>2, <1>3
  <2> QED
    BY <2>4, <2>5 DEF Whole
<1> QED
  BY <1>8, <1>9, <1>10, <1>12, <1>13, <1>15, <1>16 DEF MemoryInv

LEMMA AddRowKeeps ==
  ASSUME OneTurn, MemoryInv, NEW a \in Turns \cup {Boot}, AddRow(a)  PROVE  MemoryInv'
<1> DEFINE id == lastRow + 1
           m == Head(work[a].todo)
           w == [work[a] EXCEPT !.todo = Tail(@), !.ids = Append(@, id)]
<1>1. /\ pc[a] = "add" /\ work[a].todo # <<>>
      /\ lastRow' = id /\ rows' = Add(rows, id, m) /\ work' = [work EXCEPT ![a] = w]
      /\ UNCHANGED <<history, next, items, summaries, lastSum, pc, missed, cut, redone, wiped, tainted>>
  BY DEF AddRow, ghosts
<1>2. /\ MemoryTypes /\ Resolvable /\ Steps /\ a \in Actors
      /\ work \in [Actors -> Works(next - 1, lastSum)] /\ lastRow \in Nat
      /\ next \in Nat \ {0} /\ lastSum \in Nat /\ work[a] \in Works(next - 1, lastSum)
  BY ActorsAre DEF MemoryInv, MemoryTypes
<1>3. /\ \A b \in Actors \ {a} : pc[b] # "add" /\ BeingRecorded(b) = {}
      /\ \A t \in Turns : pc[t] # "clear"
  BY <1>1, OneRecorder
<1>4. work[a].todo \in Seq(Known) /\ work[a].ids \in Seq(Nat) /\ Known \subseteq Nat
  BY <1>2 DEF Works, Known
<1>5. /\ Increasing(work[a].todo) /\ Increasing(work[a].ids)
      /\ ToSet(work[a].ids) \subseteq DOMAIN rows
      /\ \A r \in DOMAIN rows, n \in ToSet(work[a].todo) : rows[r] < n
  BY <1>2 DEF MemoryInv, Ordered
<1>6. /\ m \in Known /\ Tail(work[a].todo) \in Seq(Known)
      /\ ToSet(work[a].todo) = {m} \cup ToSet(Tail(work[a].todo))
      /\ Increasing(Tail(work[a].todo)) /\ \A x \in ToSet(Tail(work[a].todo)) : m < x
  BY <1>1, <1>4, <1>5, HeadIs
<1>7. \A r \in DOMAIN rows : r \in Nat /\ r < id /\ rows[r] \in Known /\ rows[r] < m
  <2>1. \A r \in DOMAIN rows : r \in 1 .. lastRow /\ rows[r] \in Known
    BY <1>2 DEF MemoryTypes
  <2> QED
    BY <1>2, <1>5, <1>6, <2>1
<1>8. /\ Append(work[a].ids, id) \in Seq(Nat) /\ Increasing(Append(work[a].ids, id))
      /\ ToSet(Append(work[a].ids, id)) = ToSet(work[a].ids) \cup {id}
  <2>1. id \in Nat /\ \A x \in ToSet(work[a].ids) : x < id
    BY <1>2, <1>5, <1>7
  <2> HIDE DEF id
  <2> QED
    BY <1>4, <1>5, <2>1, AppendIs
<1>9. /\ w.todo = Tail(work[a].todo) /\ w.ids = Append(work[a].ids, id)
      /\ w.cands = work[a].cands /\ w.covers = work[a].covers /\ w.depth = work[a].depth
      /\ w.made = work[a].made /\ w \in Works(next - 1, lastSum)
  <2>1. Tail(work[a].todo) \in Seq(1 .. next - 1)
    BY <1>6 DEF Known
  <2> HIDE DEF id
  <2> QED
    BY <1>2, <1>8, <2>1 DEF Works
<1> HIDE DEF w, m
<1>10. /\ DOMAIN rows' = DOMAIN rows \cup {id} /\ rows'[id] = m
       /\ \A r \in DOMAIN rows : rows'[r] = rows[r] /\ r # id
       /\ rows' \in [DOMAIN rows' -> Known] /\ id \notin DOMAIN rows
  BY <1>1, <1>2, <1>6, <1>7 DEF Add
<1>11. /\ work' \in [Actors -> Works(next - 1, lastSum)] /\ work'[a] = w
       /\ \A b \in Actors \ {a} : work'[b] = work[b]
       /\ \A b \in Actors : /\ work'[b].cands = work[b].cands /\ work'[b].covers = work[b].covers
                            /\ work'[b].depth = work[b].depth /\ work'[b].made = work[b].made
  BY <1>1, <1>2, <1>9
<1>12. Known' = Known
  BY <1>1 DEF Known
<1>13. MemoryTypes'
  <2>1. DOMAIN rows' \subseteq 1 .. lastRow' /\ lastRow' \in Nat
    <3>1. \A r \in DOMAIN rows : r \in 1 .. lastRow
      BY <1>2 DEF MemoryTypes
    <3>2. lastRow' = lastRow + 1 /\ DOMAIN rows' = DOMAIN rows \cup {lastRow + 1}
      BY <1>1, <1>10
    <3> QED
      BY <1>2, <3>1, <3>2
  <2> QED
    BY <1>1, <1>2, <1>10, <1>11, <1>12, <2>1 DEF MemoryTypes
<1>14. Steps'
  BY <1>1, <1>2, <1>11 DEF Steps, Resting, Blank
<1>15. Emptied'
  BY <1>1, <1>3 DEF Emptied
<1>16. Ordered'
  <2>1. Increasing(history') /\ Increasing(rows)
    BY <1>1 DEF MemoryInv, Ordered
  <2>2. Increasing(rows')
    BY <1>2, <1>7, <1>10, <2>1 DEF Increasing
  <2>3. ASSUME NEW b \in Actors
        PROVE  /\ Increasing(work'[b].todo) /\ Increasing(work'[b].ids)
               /\ ToSet(work'[b].ids) \subseteq DOMAIN rows'
               /\ \A r \in DOMAIN rows', n \in ToSet(work'[b].todo) : rows'[r] < n
    <3>1. CASE b = a
      <4>1. /\ work'[b].todo = Tail(work[a].todo) /\ work'[b].ids = Append(work[a].ids, id)
        BY <1>9, <1>11, <3>1
      <4>2. ToSet(work'[b].ids) \subseteq DOMAIN rows'
        BY <1>5, <1>8, <1>10, <4>1
      <4>3. \A r \in DOMAIN rows', n \in ToSet(work'[b].todo) : rows'[r] < n
        BY <1>5, <1>6, <1>10, <4>1
      <4> QED
        BY <1>6, <1>8, <4>1, <4>2, <4>3
    <3>2. CASE b # a
      <4>1. work'[b].todo = <<>> /\ work'[b].ids = <<>>
        BY <1>3, <1>11, <3>2, NotRecording
      <4> QED
        BY <4>1, NoneIn
    <3> QED
      BY <3>1, <3>2
  <2> QED
    BY <2>1, <2>2, <2>3 DEF Ordered
<1>17. Resolvable'
  BY <1>1, <1>2, <1>10 DEF Resolvable, Dangling, IsMessage
<1>18. BeingRecorded(a)' = BeingRecorded(a)
  <2>1. Recorded(a) = {rows[r] : r \in ToSet(work[a].ids)}
    BY <1>5 DEF Recorded
  <2>2. Recorded(a)' = {rows'[r] : r \in ToSet(work[a].ids) \cup {id}}
    <3>1. ToSet(work'[a].ids) = ToSet(work[a].ids) \cup {id}
      BY <1>8, <1>9, <1>11
    <3>2. ToSet(work[a].ids) \cup {id} \subseteq DOMAIN rows'
      BY <1>5, <1>10
    <3> QED
      BY <3>1, <3>2 DEF Recorded
  <2>3. Recorded(a)' = Recorded(a) \cup {m}
    BY <1>5, <1>10, <2>1, <2>2
  <2>4. ToSet(work[a].todo) = {m} \cup ToSet(work'[a].todo)
    BY <1>6, <1>9, <1>11
  <2> QED
    BY <2>3, <2>4 DEF BeingRecorded
<1>19. \A b \in Actors \ {a} : BeingRecorded(b)' = {}
  <2>1. \A b \in Actors \ {a} : work'[b].todo = <<>> /\ work'[b].ids = <<>>
    BY <1>3, <1>11, NotRecording
  <2> QED
    BY <2>1, NoneIn DEF BeingRecorded, Recorded
<1>20. Recording'
  <2>1. ASSUME NEW b \in Actors, NEW o \in DOMAIN items, IsMessage(items[o])
        PROVE  items[o].row \notin ToSet(work'[b].ids)
    <3>1. CASE b = a
      <4>1. items[o].row \in DOMAIN rows
        BY <1>2, <2>1, TellsAre
      <4>2. items[o].row \notin ToSet(work[a].ids)
        BY <1>2, <2>1 DEF MemoryInv, Recording
      <4> QED
        BY <1>8, <1>9, <1>10, <1>11, <3>1, <4>1, <4>2
    <3>2. CASE b # a
      BY <1>3, <1>11, <3>2, NotRecording, NoneIn
    <3> QED
      BY <3>1, <3>2
  <2>2. \A b \in Actors : \A x \in ToSet(history), n \in BeingRecorded(b)' : x >= n => x \in BeingRecorded(b)'
    BY <1>2, <1>18, <1>19 DEF MemoryInv, Recording
  <2>3. \A b \in Actors : b \in Turns => \A n \in BeingRecorded(b)' :
         /\ \A s \in DOMAIN summaries : summaries[s].covers \subseteq 1 .. n - 1
         /\ \A c \in Actors : work'[c].covers \subseteq 1 .. n - 1
    BY <1>2, <1>11, <1>18, <1>19 DEF MemoryInv, Recording
  <2> QED
    BY <1>1, <2>1, <2>2, <2>3 DEF Recording, IsMessage
<1>21. Pending'
  BY <1>1, <1>11 DEF MemoryInv, Pending
<1>22. /\ \A o \in DOMAIN items :
              /\ Tells(items[o])' = Tells(items[o])
              /\ ~IsMessage(items[o]) => Depth(o)' = Depth(o)
       /\ Shape => Shape'
       /\ \A t \in Turns : LeafReady(t) /\ pc'[t] = pc[t] /\ work'[t] = work[t] => LeafReady(t)'
       /\ \A b \in Actors : BlockReady(b) /\ pc'[b] = pc[b] /\ work'[b] = work[b] => BlockReady(b)'
  BY <1>1, <1>2, <1>10, ReadyKept
<1>23. Remembered' = Remembered
  <2>1. Remembered = UNION {Tells(items[o]) : o \in DOMAIN items}
    BY <1>2, TellsAre
  <2>2. Remembered' = UNION {Tells(items[o])' : o \in DOMAIN items'}
    BY <1>17 DEF Remembered, Resolvable
  <2> QED
    BY <1>1, <1>22, <2>1, <2>2
<1>24. Clean'
  <2>1. m \notin wiped /\ \A b \in Actors : ToSet(work'[b].todo) \cap wiped = {}
    <3>1. ToSet(work[a].todo) \cap wiped = {}
      BY <1>2 DEF MemoryInv, Clean
    <3>2. ToSet(work'[a].todo) \cap wiped = {} /\ m \notin wiped
      BY <1>6, <1>9, <1>11, <3>1
    <3> QED
      BY <1>11, <3>2 DEF MemoryInv, Clean
  <2>2. \A r \in DOMAIN rows' : rows'[r] \notin wiped
    BY <1>10, <2>1 DEF MemoryInv, Clean
  <2>3. \A b \in Actors : work'[b].covers \cap wiped = {} \/ Unused(b)'
    BY <1>1, <1>11 DEF MemoryInv, Clean, Unused
  <2> QED
    BY <1>1, <1>23, <2>1, <2>2, <2>3 DEF MemoryInv, Clean, ClearedStaysCleared
<1>25. Untainted'
  <2>1. SUFFICES ASSUME ~tainted'
                 PROVE  /\ Shape' /\ OnceInOrder'
                        /\ \A t \in Turns : LeafReady(t)'
                        /\ \A b \in Actors : BlockReady(b)'
    BY DEF Untainted
  <2>2. /\ Shape /\ OnceInOrder /\ ~tainted
        /\ \A t \in Turns : LeafReady(t)
        /\ \A b \in Actors : BlockReady(b)
    BY <1>1, <2>1 DEF MemoryInv, Untainted
  <2>3. OnceInOrder'
    BY <1>1, <1>22, <2>2 DEF OnceInOrder, Orderly
  <2>4. \A t \in Turns : LeafReady(t)'
    <3>1. \A t \in Turns : t \in Actors
      BY ActorsAre
    <3>2. \A t \in Turns : t = a => LeafReady(t)'
      BY <1>1 DEF LeafReady
    <3> QED
      BY <1>1, <1>11, <1>22, <2>2, <3>1, <3>2
  <2>5. \A b \in Actors : BlockReady(b)'
    <3>1. BlockReady(a)'
      BY <1>1 DEF BlockReady, Making
    <3> QED
      BY <1>1, <1>11, <1>22, <2>2, <3>1
  <2> QED
    BY <1>22, <2>2, <2>3, <2>4, <2>5
<1>26. Whole'
  <2>1. InFlight' = InFlight
    <3>1. /\ InFlight' = UNION {BeingRecorded(b)' : b \in Actors}
          /\ InFlight = UNION {BeingRecorded(b) : b \in Actors}
      BY DEF InFlight, BeingRecorded
    <3> QED
      BY <1>3, <1>18, <1>19, <3>1
  <2>2. Settled' = Settled
    BY <1>1 DEF Settled
  <2>3. NothingForgotten'
    BY <1>1, <1>23, <2>1, <2>2 DEF MemoryInv, Whole, NothingForgotten
  <2>4. pc[Boot] # "boot"
    BY <1>1, OneRecorder
  <2> QED
    BY <1>1, <2>3, <2>4 DEF Whole
<1> QED
  BY <1>13, <1>14, <1>15, <1>16, <1>17, <1>20, <1>21, <1>24, <1>25, <1>26 DEF MemoryInv

LEMMA CreateKeeps ==
  ASSUME OneTurn, MemoryInv, NEW a \in Turns \cup {Background}, NEW place, NEW goto,
         \/ place = "summarize" /\ goto = "replaceLeaf" /\ a \in Turns
         \/ place = "merge" /\ goto = "locate",
         CreateSummary(a, place, goto)
  PROVE  MemoryInv'
<1> DEFINE s == lastSum + 1
           w == [work[a] EXCEPT !.made = s]
<1>1. /\ pc[a] = place /\ lastSum' = s
      /\ UNCHANGED <<history, next, rows, lastRow, items, missed, cut, redone, wiped, tainted>>
      /\ pc' = [pc EXCEPT ![a] = goto]
  BY DEF CreateSummary, Goto, ghosts
<1>2. work' = [work EXCEPT ![a] = w]
  BY DEF CreateSummary
<1>3. PICK n \in SummaryTokens :
        summaries' = Add(summaries, s, [depth |-> work[a].depth, tokens |-> n, covers |-> work[a].covers])
  BY DEF CreateSummary
<1>4. n \in Nat
  BY MemoryAssumption
<1>5. /\ MemoryTypes /\ Resolvable /\ Steps /\ a \in Actors /\ pc[Boot] = "off" /\ a # Boot
      /\ work \in [Actors -> Works(next - 1, lastSum)] /\ pc \in [Actors -> Places]
      /\ next \in Nat \ {0} /\ lastSum \in Nat /\ work[a] \in Works(next - 1, lastSum)
  BY <1>1, Running DEF MemoryInv, MemoryTypes, Steps
<1>6. s \in Nat \ {0} /\ s > lastSum /\ Works(next - 1, lastSum) \subseteq Works(next - 1, s)
  <2>1. next - 1 \in Nat /\ s \in Nat \ {0} /\ lastSum <= s /\ s > lastSum
    BY <1>5
  <2> HIDE DEF s
  <2> QED
    BY <1>5, <2>1, WorksGrow
<1>7. \A x \in DOMAIN summaries : x \in 1 .. lastSum /\ x \in Nat /\ x < s
  BY <1>5 DEF MemoryTypes
<1>8. /\ work[a].depth \in Nat /\ work[a].covers \subseteq Known
      /\ \A b \in Actors : /\ work[b].cands \subseteq 1 .. lastSum /\ s \notin work[b].cands
                           /\ work[b].made \in 0 .. lastSum /\ work[b].made # s
  <2>1. \A b \in Actors : work[b] \in Works(next - 1, lastSum)
    BY <1>5
  <2>2. /\ work[a].depth \in Nat /\ work[a].covers \subseteq Known
        /\ \A b \in Actors : work[b].cands \subseteq 1 .. lastSum /\ work[b].made \in 0 .. lastSum
    BY <1>5, <2>1 DEF Works, Known
  <2>3. s \notin 0 .. lastSum /\ s \notin 1 .. lastSum
    BY <1>5, <1>6
  <2> HIDE DEF s
  <2> QED
    BY <2>2, <2>3
<1> DEFINE new == [depth |-> work[a].depth, tokens |-> n, covers |-> work[a].covers]
<1>9. /\ DOMAIN summaries' = DOMAIN summaries \cup {s} /\ summaries'[s] = new
      /\ \A x \in DOMAIN summaries : summaries'[x] = summaries[x] /\ x # s
      /\ summaries' = [x \in DOMAIN summaries' |-> summaries'[x]]
      /\ s \notin DOMAIN summaries
  BY <1>3, <1>7 DEF Add
<1>10. /\ w.made = s /\ w.cands = work[a].cands /\ w.covers = work[a].covers
       /\ w.depth = work[a].depth /\ w.todo = work[a].todo /\ w.ids = work[a].ids
       /\ w.from = work[a].from /\ w.to = work[a].to /\ w.others = work[a].others
       /\ w.fresh = work[a].fresh
       /\ w \in Works(next - 1, s)
  <2>1. s \in 0 .. s /\ work[a] \in Works(next - 1, s)
    BY <1>5, <1>6
  <2> HIDE DEF s
  <2> QED
    BY <2>1 DEF Works
<1> HIDE DEF w, s
<1>11. goto \in Places /\ goto # "add" /\ goto # "clear" /\ goto \notin Resting
       /\ (goto \in Making <=> place = "merge") /\ goto # "replace"
  BY DEF Places, TurnSteps, Resting, Making, Holding
<1>12. /\ work' \in [Actors -> Works(next - 1, s)] /\ pc' \in [Actors -> Places]
       /\ work'[a] = w /\ pc'[a] = goto
       /\ \A b \in Actors \ {a} : work'[b] = work[b] /\ pc'[b] = pc[b]
       /\ \A b \in Actors : /\ work'[b].cands = work[b].cands /\ work'[b].covers = work[b].covers
                            /\ work'[b].depth = work[b].depth
                            /\ work'[b].todo = work[b].todo /\ work'[b].ids = work[b].ids
  <2>1. work \in [Actors -> Works(next - 1, s)]
    BY <1>5, <1>6
  <2> QED
    BY <1>1, <1>2, <1>5, <1>10, <1>11, <2>1
<1>13. Known' = Known
  BY <1>1 DEF Known
<1>14. MemoryTypes'
  <2>1. new \in [depth : Nat, tokens : Nat, covers : SUBSET Known]
    BY <1>4, <1>8
  <2>2. \A x \in DOMAIN summaries : summaries[x] \in [depth : Nat, tokens : Nat, covers : SUBSET Known]
    BY <1>5 DEF MemoryTypes
  <2> HIDE DEF new
  <2>3. \A x \in DOMAIN summaries' : summaries'[x] \in [depth : Nat, tokens : Nat, covers : SUBSET Known]
    BY <1>9, <2>1, <2>2
  <2>4. summaries' \in [DOMAIN summaries' -> [depth : Nat, tokens : Nat, covers : SUBSET Known']]
    BY <1>9, <1>13, <2>3
  <2>5. DOMAIN summaries' \subseteq 1 .. lastSum'
    BY <1>1, <1>5, <1>6, <1>7, <1>9 DEF s
  <2>6. lastSum' \in Nat /\ work' \in [Actors -> Works(next' - 1, lastSum')]
    BY <1>1, <1>6, <1>12
  <2> QED
    BY <1>1, <1>5, <1>13, <2>4, <2>5, <2>6 DEF MemoryTypes
<1>15. Steps'
  <2>1. \A t \in Turns : pc'[t] \in TurnSteps
    <3>1. \A t \in Turns : t = a => pc'[t] \in TurnSteps
      BY <1>12 DEF TurnSteps, Making, Holding
    <3>2. \A t \in Turns : t # a => pc'[t] \in TurnSteps
      BY <1>5, <1>12, ActorsAre DEF Steps
    <3> QED
      BY <3>1, <3>2
  <2>2. pc'[Background] \in Making \cup {"idle", "condense"}
    <3>1. CASE a = Background
      BY <1>12, <3>1, ActorsAre DEF Making
    <3>2. CASE a # Background
      BY <1>5, <1>12, <3>2, ActorsAre DEF Steps
    <3> QED
      BY <3>1, <3>2
  <2>3. pc'[Boot] = "off"
    BY <1>5, <1>12, ActorsAre
  <2>4. \A b \in Actors : pc'[b] \in Resting \cup {"clear"} => Blank(work'[b])
    BY <1>5, <1>11, <1>12 DEF Steps
  <2>5. \A b \in Actors : pc'[b] \notin Making => work'[b].depth = 0
    <3>1. place = "summarize" => work[a].depth = 0
      BY <1>1, <1>5 DEF Steps, Making
    <3>2. pc'[a] \notin Making => work'[a].depth = 0
      BY <1>5, <1>11, <1>12, <3>1
    <3> QED
      BY <1>5, <1>12, <3>2 DEF Steps
  <2>6. \A b \in Actors : pc'[b] # "add" => work'[b].todo = <<>> /\ work'[b].ids = <<>>
    <3>1. work[a].todo = <<>> /\ work[a].ids = <<>>
      BY <1>1, <1>5 DEF Steps
    <3> QED
      BY <1>5, <1>12, <3>1 DEF Steps
  <2> QED
    BY <1>12, <2>1, <2>2, <2>3, <2>4, <2>5, <2>6 DEF Steps
<1>16. Emptied'
  <2>1. SUFFICES ASSUME NEW t \in Turns, pc'[t] = "clear"
                 PROVE  /\ rows' = <<>> /\ items' = <<>>
                        /\ \A b \in Actors :
                             /\ work'[b].cands \cap DOMAIN summaries' = {}
                             /\ pc'[b] = "replace" => work'[b].made \notin DOMAIN summaries'
    BY DEF Emptied
  <2>2. t \in Actors /\ t # a /\ pc[t] = "clear"
    BY <1>11, <1>12, <2>1, ActorsAre
  <2>3. /\ rows = <<>> /\ items = <<>>
        /\ \A b \in Actors : /\ work[b].cands \cap DOMAIN summaries = {}
                             /\ pc[b] = "replace" => work[b].made \notin DOMAIN summaries
    BY <2>2 DEF MemoryInv, Emptied
  <2>4. \A b \in Actors : work'[b].cands \cap DOMAIN summaries' = {}
    BY <1>8, <1>9, <1>12, <2>3
  <2>5. \A b \in Actors : pc'[b] = "replace" => work'[b].made \notin DOMAIN summaries'
    BY <1>8, <1>9, <1>11, <1>12, <2>3
  <2> QED
    BY <1>1, <2>3, <2>4, <2>5
<1>17. Ordered'
  BY <1>1, <1>12 DEF MemoryInv, Ordered
<1>18. Resolvable'
  BY <1>1, <1>5, <1>9 DEF Resolvable, Dangling, IsMessage
<1>19. \A b \in Actors : BeingRecorded(b)' = BeingRecorded(b)
  BY <1>1, <1>12 DEF BeingRecorded, Recorded
<1>20. Recording'
  <2>1. \A b \in Actors, o \in DOMAIN items : IsMessage(items[o]) => items[o].row \notin ToSet(work'[b].ids)
    BY <1>12 DEF MemoryInv, Recording
  <2>2. \A b \in Actors : \A x \in ToSet(history), m \in BeingRecorded(b)' : x >= m => x \in BeingRecorded(b)'
    BY <1>19 DEF MemoryInv, Recording
  <2>3. \A b \in Actors : b \in Turns => \A m \in BeingRecorded(b)' :
         /\ \A x \in DOMAIN summaries' : summaries'[x].covers \subseteq 1 .. m - 1
         /\ \A c \in Actors : work'[c].covers \subseteq 1 .. m - 1
    <3>1. \A b \in Actors : b \in Turns => \A m \in BeingRecorded(b) :
         /\ \A x \in DOMAIN summaries : summaries[x].covers \subseteq 1 .. m - 1
         /\ \A c \in Actors : work[c].covers \subseteq 1 .. m - 1
      BY DEF MemoryInv, Recording
    <3> QED
      BY <1>5, <1>9, <1>12, <1>19, <3>1
  <2> QED
    BY <1>1, <2>1, <2>2, <2>3 DEF Recording, IsMessage
<1>21. \A o \in DOMAIN items : items[o].sum # s
  <2>1. \A o \in DOMAIN items : items[o].sum = 0 \/ items[o].sum \in DOMAIN summaries
    BY <1>5, TellsAre DEF IsMessage
  <2> QED
    BY <1>6, <1>9, <2>1
<1>22. Pending'
  <2>1. SUFFICES ASSUME NEW b \in Actors, pc'[b] \in Holding
        PROVE  /\ work'[b].made # 0
               /\ \A o \in DOMAIN items' : items'[o].sum # work'[b].made
               /\ \A c \in Actors : work'[b].made \notin work'[c].cands
               /\ \A c \in Actors \ {b} : pc'[c] \in Holding => work'[c].made # work'[b].made
               /\ work'[b].made \in DOMAIN summaries' =>
                    /\ summaries'[work'[b].made].covers = work'[b].covers
                    /\ summaries'[work'[b].made].depth = work'[b].depth
    BY DEF Pending
  <2>2. CASE b = a
    <3>1. work'[b].made = s
      BY <1>10, <1>12, <2>2
    <3>2. \A c \in Actors \ {b} : work'[c].made # s
      BY <1>8, <1>12, <2>2
    <3> QED
      BY <1>1, <1>6, <1>8, <1>9, <1>12, <1>21, <2>2, <3>1, <3>2
  <2>3. CASE b # a
    <3>1. pc[b] \in Holding /\ work'[b] = work[b]
      BY <1>12, <2>1, <2>3
    <3>2. /\ work[b].made # 0
          /\ \A o \in DOMAIN items : items[o].sum # work[b].made
          /\ \A c \in Actors : work[b].made \notin work[c].cands
          /\ \A c \in Actors \ {b} : pc[c] \in Holding => work[c].made # work[b].made
          /\ work[b].made \in DOMAIN summaries =>
               /\ summaries[work[b].made].covers = work[b].covers
               /\ summaries[work[b].made].depth = work[b].depth
      BY <3>1 DEF MemoryInv, Pending
    <3>3. \A c \in Actors \ {b} : pc'[c] \in Holding => work'[c].made # work[b].made
      BY <1>8, <1>10, <1>12, <3>2
    <3>4. work[b].made \in DOMAIN summaries' => work[b].made \in DOMAIN summaries
      BY <1>8, <1>9
    <3> QED
      BY <1>1, <1>9, <1>12, <3>1, <3>2, <3>3, <3>4
  <2> QED
    BY <2>2, <2>3
<1>23. /\ \A o \in DOMAIN items :
              /\ Tells(items[o])' = Tells(items[o])
              /\ ~IsMessage(items[o]) => Depth(o)' = Depth(o)
       /\ Shape => Shape'
       /\ \A t \in Turns : LeafReady(t) /\ pc'[t] = pc[t] /\ work'[t] = work[t] => LeafReady(t)'
       /\ \A b \in Actors : BlockReady(b) /\ pc'[b] = pc[b] /\ work'[b] = work[b] => BlockReady(b)'
       /\ \A t \in Turns : LeafReady(t) /\ LeafGoesOn(t) => LeafReady(t)'
       /\ \A b \in Actors : BlockReady(b) /\ BlockGoesOn(b) => BlockReady(b)'
  BY <1>1, <1>5, <1>9, ReadyKept
<1>24. Remembered' = Remembered
  <2>1. Remembered = UNION {Tells(items[o]) : o \in DOMAIN items}
    BY <1>5, TellsAre
  <2>2. Remembered' = UNION {Tells(items[o])' : o \in DOMAIN items'}
    BY <1>18 DEF Remembered, Resolvable
  <2> QED
    BY <1>1, <1>23, <2>1, <2>2
<1>25. Clean'
  <2>1. \A b \in Actors : work'[b].covers \cap wiped = {} \/ Unused(b)'
    <3> SUFFICES ASSUME NEW b \in Actors PROVE work'[b].covers \cap wiped = {} \/ Unused(b)'
      OBVIOUS
    <3>1. work[b].covers \cap wiped = {} \/ Unused(b)
      BY DEF MemoryInv, Clean
    <3>2. CASE b = a
      <4>1. Unused(b) => place = "merge" /\ work[b].cands \cap DOMAIN summaries = {}
        BY <1>1, <3>2 DEF Unused, Making
      <4>2. Unused(b) => work'[b].cands \cap DOMAIN summaries' = {}
        BY <1>8, <1>9, <1>12, <4>1
      <4>3. Unused(b) => Unused(b)'
        BY <1>11, <1>12, <3>2, <4>1, <4>2 DEF Unused
      <4> QED
        BY <1>12, <3>1, <4>3
    <3>3. CASE b # a
      <4>1. work'[b] = work[b] /\ pc'[b] = pc[b]
        BY <1>12, <3>3
      <4>2. Unused(b) => Unused(b)'
        BY <1>8, <1>9, <4>1 DEF Unused
      <4> QED
        BY <3>1, <4>1, <4>2
    <3> QED
      BY <3>2, <3>3
  <2>2. \A b \in Actors : ToSet(work'[b].todo) \cap wiped = {}
    BY <1>12 DEF MemoryInv, Clean
  <2> QED
    BY <1>1, <1>24, <2>1, <2>2 DEF MemoryInv, Clean, ClearedStaysCleared
<1>26. Untainted'
  <2>1. SUFFICES ASSUME ~tainted'
                 PROVE  /\ Shape' /\ OnceInOrder'
                        /\ \A t \in Turns : LeafReady(t)'
                        /\ \A b \in Actors : BlockReady(b)'
    BY DEF Untainted
  <2>2. /\ Shape /\ OnceInOrder /\ ~tainted
        /\ \A t \in Turns : LeafReady(t)
        /\ \A b \in Actors : BlockReady(b)
    BY <1>1, <2>1 DEF MemoryInv, Untainted
  <2>3. OnceInOrder'
    BY <1>1, <1>23, <2>2 DEF OnceInOrder, Orderly
  <2>4. \A t \in Turns : LeafReady(t)'
    <3>1. \A t \in Turns : t \in Actors
      BY ActorsAre
    <3>2. a \in Turns => LeafReady(a)'
      <4>1. CASE place = "summarize"
        <5>1. LeafGoesOn(a)
          BY <1>1, <1>9, <1>10, <1>12, <4>1 DEF LeafGoesOn
        <5> QED
          BY <1>23, <2>2, <5>1
      <4>2. CASE place = "merge"
        BY <1>12, <4>2 DEF LeafReady
      <4> QED
        BY <4>1, <4>2
    <3> QED
      BY <1>12, <1>23, <2>2, <3>1, <3>2
  <2>5. \A b \in Actors : BlockReady(b)'
    <3>1. BlockReady(a)'
      <4>1. CASE place = "merge"
        <5>1. BlockGoesOn(a)
          BY <1>1, <1>9, <1>10, <1>11, <1>12, <4>1 DEF BlockGoesOn, Making
        <5> QED
          BY <1>5, <1>23, <2>2, <5>1
      <4>2. CASE place # "merge"
        BY <1>11, <1>12, <4>2 DEF BlockReady
      <4> QED
        BY <4>1, <4>2
    <3> QED
      BY <1>12, <1>23, <2>2, <3>1
  <2> QED
    BY <1>23, <2>2, <2>3, <2>4, <2>5
<1>27. Whole'
  <2>1. InFlight' = InFlight
    BY <1>1, <1>12 DEF InFlight, Recorded
  <2>2. Settled' => Settled
    <3>1. \A t \in Turns : pc[t] = "clear" => pc'[t] = "clear"
      BY <1>1, <1>12, ActorsAre
    <3> QED
      BY <1>5, <3>1 DEF Settled
  <2>3. NothingForgotten'
    BY <1>1, <1>24, <2>1, <2>2 DEF MemoryInv, Whole, NothingForgotten
  <2>4. pc'[Boot] = "off"
    BY <1>15, <1>5, <1>12, ActorsAre
  <2> QED
    BY <2>3, <2>4 DEF Whole
<1> QED
  BY <1>14, <1>15, <1>16, <1>17, <1>18, <1>20, <1>22, <1>25, <1>26, <1>27 DEF MemoryInv

LEMMA StepsApart ==
  ASSUME NEW d \in Nat \ {0}, NEW j \in Nat, NEW k \in Nat, j < k
  PROVE  j * d \in Nat /\ k * d \in Nat /\ j * d < k * d
<1> DEFINE e == k - j - 1
<1>1. e \in Nat /\ k = j + 1 + e
  OBVIOUS
<1>2. j * d \in Nat /\ e * d \in Nat
  BY <1>1
<1>3. k * d = j * d + d + e * d
  <2> HIDE DEF e
  <2> QED
    BY <1>1
<1> QED
  BY <1>1, <1>2, <1>3

\* What a finite set is mapped to is finite.
LEMMA ImageFinite ==
  ASSUME NEW S, IsFiniteSet(S), NEW f, NEW T, \A x \in S : f[x] \in T,
         \A y \in T : \E x \in S : f[x] = y
  PROVE  IsFiniteSet(T)
<1> DEFINE g == [x \in S |-> f[x]]
<1>1. g \in Surjection(S, T)
  BY DEF Surjection
<1> HIDE DEF g
<1> QED
  BY <1>1, FS_Surjection

LEMMA MaxOrdinalIs ==
  ASSUME MemoryTypes
  PROVE  MaxOrdinal \in Nat /\ \A o \in DOMAIN items : o \in Nat /\ o <= MaxOrdinal
<1> DEFINE S == {0} \cup DOMAIN items
<1>1. S \subseteq Nat /\ S # {} /\ IsFiniteSet(S)
  <2>1. IsFiniteSet(DOMAIN items) /\ DOMAIN items \subseteq Nat
    BY DEF MemoryTypes
  <2>2. IsFiniteSet({0})
    BY FS_Singleton
  <2>3. IsFiniteSet({0} \cup DOMAIN items)
    BY <2>1, <2>2, FS_Union
  <2> QED
    BY <2>1, <2>3
<1>2. Max(S) \in S /\ \A y \in S : y <= Max(S)
  <2> HIDE DEF S
  <2> QED
    BY <1>1, MaxIs
<1> QED
  BY <1>1, <1>2 DEF MaxOrdinal

\* The items a recording adds, in the order of their rows, after those there are.
LEMMA AppendedItems ==
  ASSUME OneTurn, MemoryInv, NEW a \in Actors, AppendContext(a)
  PROVE  /\ IsFiniteSet(DOMAIN items') /\ DOMAIN items' \subseteq Nat
         /\ items' = [o \in DOMAIN items' |-> items'[o]]
         /\ \A o \in DOMAIN items : o \in DOMAIN items' /\ items'[o] = items[o]
         /\ \A o \in DOMAIN items' \ DOMAIN items :
              /\ items'[o].sum = 0 /\ items'[o].row \in ToSet(work[a].ids)
              /\ items'[o] \in [row : Nat, sum : Nat]
              /\ \A p \in DOMAIN items : p < o
              /\ \A p \in DOMAIN items' \ DOMAIN items : o < p => items'[o].row < items'[p].row
         /\ \A r \in ToSet(work[a].ids) : \E o \in DOMAIN items' : items'[o].sum = 0 /\ items'[o].row = r
<1> DEFINE ids == work[a].ids
           ordinal(k) == MaxOrdinal + k * OrdinalStep
           at(o) == CHOOSE k \in DOMAIN ids : ordinal(k) = o
           N == {ordinal(k) : k \in DOMAIN ids}
<1>1. items' = [o \in DOMAIN items \cup N |->
                 IF o \in DOMAIN items THEN items[o] ELSE [row |-> ids[at(o)], sum |-> 0]]
  BY DEF AppendContext
<1>2. ids \in Seq(Nat) /\ Increasing(ids) /\ MemoryTypes
  <2>1. work[a] \in Works(next - 1, lastSum)
    BY DEF MemoryInv, MemoryTypes
  <2> QED
    BY <2>1 DEF MemoryInv, Ordered, Works
<1> HIDE DEF ids
<1>3. DOMAIN ids = 1 .. Len(ids) /\ Len(ids) \in Nat /\ \A k \in DOMAIN ids : k \in Nat \ {0} /\ ids[k] \in Nat
  BY <1>2
<1>4. MaxOrdinal \in Nat /\ \A o \in DOMAIN items : o \in Nat /\ o <= MaxOrdinal
  BY <1>2, MaxOrdinalIs
<1>5. OrdinalStep \in Nat \ {0}
  BY MemoryAssumption
<1>6. \A k \in DOMAIN ids : ordinal(k) \in Nat /\ MaxOrdinal < ordinal(k)
  <2> SUFFICES ASSUME NEW k \in DOMAIN ids PROVE ordinal(k) \in Nat /\ MaxOrdinal < ordinal(k)
    OBVIOUS
  <2>1. 0 * OrdinalStep < k * OrdinalStep /\ k * OrdinalStep \in Nat /\ 0 * OrdinalStep = 0
    <3>1. 0 \in Nat /\ k \in Nat /\ 0 < k
      BY <1>3
    <3> QED
      BY <1>5, <3>1, StepsApart
  <2> QED
    BY <1>4, <2>1
<1>7. \A j, k \in DOMAIN ids : j < k => ordinal(j) < ordinal(k)
  <2> SUFFICES ASSUME NEW j \in DOMAIN ids, NEW k \in DOMAIN ids, j < k PROVE ordinal(j) < ordinal(k)
    OBVIOUS
  <2>1. j * OrdinalStep < k * OrdinalStep /\ k * OrdinalStep \in Nat /\ j * OrdinalStep \in Nat
    BY <1>3, <1>5, StepsApart
  <2> QED
    BY <1>4, <2>1
<1> HIDE DEF ordinal
<1>8. \A k \in DOMAIN ids : at(ordinal(k)) = k
  <2> SUFFICES ASSUME NEW k \in DOMAIN ids PROVE at(ordinal(k)) = k
    OBVIOUS
  <2>1. \A j \in DOMAIN ids : ordinal(j) = ordinal(k) => j = k
    BY <1>3, <1>6, <1>7
  <2> QED
    BY <2>1
<1> HIDE DEF at
<1>9. \A o \in N : o \in Nat /\ MaxOrdinal < o /\ o \notin DOMAIN items
  BY <1>4, <1>6
<1>10. DOMAIN items' = DOMAIN items \cup N
  BY <1>1
<1>11. IsFiniteSet(N)
  <2>1. IsFiniteSet(DOMAIN ids)
    BY <1>3, FS_Interval
  <2> DEFINE f == [k \in DOMAIN ids |-> ordinal(k)]
  <2>2. /\ \A k \in DOMAIN ids : f[k] \in N
        /\ \A o \in N : \E k \in DOMAIN ids : f[k] = o
    OBVIOUS
  <2> HIDE DEF f, N
  <2> QED
    BY <2>1, <2>2, ImageFinite
<1>12. IsFiniteSet(DOMAIN items')
  <2>1. IsFiniteSet(DOMAIN items)
    BY <1>2 DEF MemoryTypes
  <2> HIDE DEF N
  <2>2. IsFiniteSet(DOMAIN items \cup N)
    BY <1>11, <2>1, FS_Union
  <2> QED
    BY <1>10, <2>2
<1>13. \A k \in DOMAIN ids : /\ ordinal(k) \in DOMAIN items' \ DOMAIN items
                             /\ items'[ordinal(k)] = [row |-> ids[k], sum |-> 0]
  BY <1>1, <1>8, <1>9
<1>14. \A o \in DOMAIN items' \ DOMAIN items : \E k \in DOMAIN ids : o = ordinal(k)
  BY <1>10
<1>15. ASSUME NEW o \in DOMAIN items' \ DOMAIN items
       PROVE  /\ items'[o].sum = 0 /\ items'[o].row \in ToSet(ids)
              /\ items'[o] \in [row : Nat, sum : Nat]
              /\ \A p \in DOMAIN items : p < o
              /\ \A p \in DOMAIN items' \ DOMAIN items : o < p => items'[o].row < items'[p].row
  <2>1. PICK k \in DOMAIN ids : o = ordinal(k)
    BY <1>14
  <2>2. items'[o] = [row |-> ids[k], sum |-> 0]
    BY <1>13, <2>1
  <2>3. ASSUME NEW p \in DOMAIN items' \ DOMAIN items, o < p
        PROVE  items'[o].row < items'[p].row
    <3>1. PICK j \in DOMAIN ids : p = ordinal(j)
      BY <1>14
    <3>2. items'[p] = [row |-> ids[j], sum |-> 0]
      BY <1>13, <3>1
    <3>3. k < j
      <4>1. k \in Nat /\ j \in Nat /\ ordinal(k) \in Nat /\ ordinal(j) \in Nat /\ ordinal(k) < ordinal(j)
        BY <1>3, <1>6, <2>1, <2>3, <3>1
      <4>2. ~(j < k) /\ j # k
        BY <1>7, <4>1
      <4> QED
        BY <4>1, <4>2
    <3> QED
      BY <1>2, <2>2, <3>2, <3>3 DEF Increasing
  <2>4. \A p \in DOMAIN items : p < o
    BY <1>4, <1>6, <2>1
  <2> QED
    BY <1>3, <2>2, <2>3, <2>4 DEF ToSet
<1>16. \A r \in ToSet(ids) : \E o \in DOMAIN items' : items'[o].sum = 0 /\ items'[o].row = r
  <2> SUFFICES ASSUME NEW r \in ToSet(ids) PROVE \E o \in DOMAIN items' : items'[o].sum = 0 /\ items'[o].row = r
    OBVIOUS
  <2>1. PICK k \in DOMAIN ids : r = ids[k]
    BY DEF ToSet
  <2>2. ordinal(k) \in DOMAIN items' /\ items'[ordinal(k)] = [row |-> ids[k], sum |-> 0]
    BY <1>13
  <2> QED
    BY <2>1, <2>2
<1>17. DOMAIN items' \subseteq Nat
  BY <1>4, <1>9, <1>10
<1>18. \A o \in DOMAIN items : o \in DOMAIN items' /\ items'[o] = items[o]
  BY <1>1
<1>19. items' = [o \in DOMAIN items' |-> items'[o]]
  BY <1>1
<1> QED
  BY <1>12, <1>15, <1>16, <1>17, <1>18, <1>19 DEF ids

\* What is being recorded is not told of: rows are read once, and summaries tell of less.
LEMMA NotToldYet ==
  ASSUME MemoryInv, NEW t \in Turns, NEW m \in BeingRecorded(t), m \notin ToSet(work[t].todo)
  PROVE  m \notin Remembered
<1>1. MemoryTypes /\ Resolvable /\ t \in Actors
  BY DEF MemoryInv, Actors
<1>2. PICK r \in ToSet(work[t].ids) \cap DOMAIN rows : m = rows[r]
  BY DEF BeingRecorded, Recorded
<1>3. SUFFICES ASSUME NEW o \in DOMAIN items, m \in Tells(items[o])
               PROVE  FALSE
  BY <1>1, TellsAre
<1>4. \A q \in DOMAIN rows : q \in Nat /\ rows[q] \in Nat
  BY <1>1 DEF MemoryTypes, Known
<1>5. CASE IsMessage(items[o])
  <2>1. items[o].row \in DOMAIN rows /\ m = rows[items[o].row]
    BY <1>1, <1>3, <1>5, TellsAre
  <2>2. items[o].row = r
    <3>1. Increasing(rows)
      BY DEF MemoryInv, Ordered
    <3> DEFINE q == items[o].row
    <3>2. q \in DOMAIN rows /\ rows[q] = m /\ q \in Nat /\ r \in Nat /\ m \in Nat
      BY <1>2, <1>4, <2>1
    <3> HIDE DEF q
    <3>3. ~(q < r) /\ ~(r < q)
      BY <1>2, <3>1, <3>2 DEF Increasing
    <3>4. q = r
      BY <3>2, <3>3
    <3> QED
      BY <3>4 DEF q
  <2> QED
    BY <1>1, <1>2, <1>5, <2>2 DEF MemoryInv, Recording
<1>6. CASE ~IsMessage(items[o])
  <2>1. items[o].sum \in DOMAIN summaries /\ m \in summaries[items[o].sum].covers
    BY <1>1, <1>3, <1>6, TellsAre
  <2>2. summaries[items[o].sum].covers \subseteq 1 .. m - 1
    BY <1>1, <2>1 DEF MemoryInv, Recording
  <2> QED
    BY <1>2, <1>4, <2>1, <2>2
<1> QED
  BY <1>5, <1>6

LEMMA AppendKeeps ==
  ASSUME OneTurn, MemoryInv, NEW a \in Turns \cup {Boot}, AppendContext(a)  PROVE  MemoryInv'
<1> DEFINE w == [NoWork EXCEPT !.base = work[a].base]
<1>1. /\ pc[a] = "add" /\ work[a].todo = <<>>
      /\ UNCHANGED <<history, next, rows, lastRow, summaries, lastSum, wiped, tainted>>
      /\ pc' = [pc EXCEPT ![a] = Ready(a)] /\ work' = [work EXCEPT ![a] = w]
      /\ missed' = missed \ Recorded(a) /\ cut' = cut \ Recorded(a)
      /\ redone' = IF a = Boot THEN redone \cup (Recorded(a) \cap Remembered) ELSE redone
  BY DEF AppendContext, Goto, Forget
<1>2. /\ a \in Actors /\ lastSum \in Nat /\ Steps /\ work \in [Actors -> Works(next - 1, lastSum)]
      /\ MemoryTypes /\ Resolvable
  BY ActorsAre DEF MemoryInv, MemoryTypes
<1>3. w \in Works(next - 1, lastSum) /\ Blank(w)
  BY <1>2, ForgetIs
<1> HIDE DEF w
<1>4. pc \in [Actors -> Places]
  BY <1>2 DEF Steps
<1>5. /\ pc'[a] = Ready(a) /\ work'[a] = w
      /\ \A b \in Actors \ {a} : pc'[b] = pc[b] /\ work'[b] = work[b]
      /\ pc' \in [Actors -> Places]
      /\ work' \in [Actors -> Works(next - 1, lastSum)]
  <2>1. Ready(a) \in Places
    BY DEF Ready, Places, TurnSteps
  <2> QED
    BY <1>1, <1>2, <1>3, <1>4, <2>1
<1>6. \A b \in Actors : \/ b # a /\ pc'[b] = pc[b] /\ work'[b] = work[b]
                        \/ b = a /\ pc'[b] = Ready(a) /\ Blank(work'[b]) /\ work'[b] = w
  BY <1>3, <1>5
<1>7. Ready(a) \in {"done", "turn"} /\ (a = Boot <=> Ready(a) = "done")
  BY DEF Ready
<1>8. /\ \A b \in Actors \ {a} : pc[b] # "add" /\ BeingRecorded(b) = {}
      /\ InFlight = BeingRecorded(a)
      /\ \A t \in Turns : pc[t] # "clear"
      /\ a # Boot => pc[Boot] = "off"
      /\ a = Boot => pc[Background] = "idle" /\ \A t \in Turns : pc[t] = "off"
  BY <1>1, OneRecorder
<1>9. Steps'
  <2>1. pc'[Background] = pc[Background]
    BY <1>5, ActorsAre
  <2>2. /\ \A t \in Turns : pc'[t] \in TurnSteps
        /\ pc'[Boot] \in {"off", "boot", "add", "done"}
    BY <1>2, <1>6, <1>7, ActorsAre DEF Steps, TurnSteps
  <2>3. pc'[Boot] # "off" => a = Boot
    BY <1>5, <1>8, ActorsAre
  <2>4. pc'[Boot] # "off" => pc'[Background] = "idle" /\ \A t \in Turns : pc'[t] = "off"
    BY <1>5, <1>8, <2>1, <2>3, ActorsAre
  <2>5. \A b \in Actors : pc'[b] \in Resting \cup {"clear"} => Blank(work'[b])
    BY <1>2, <1>6 DEF Steps
  <2>6. \A b \in Actors : pc'[b] \notin Making => work'[b].depth = 0
    BY <1>2, <1>6 DEF Steps, Blank
  <2>7. \A b \in Actors : pc'[b] # "add" => work'[b].todo = <<>> /\ work'[b].ids = <<>>
    BY <1>2, <1>6 DEF Steps, Blank
  <2>8. pc'[Background] \in Making \cup {"idle", "condense"}
    BY <1>2, <2>1 DEF Steps
  <2> QED
    BY <1>5, <2>2, <2>4, <2>5, <2>6, <2>7, <2>8 DEF Steps
<1>10. /\ ToSet(w.todo) = {} /\ Increasing(w.todo) /\ ToSet(w.ids) = {} /\ Increasing(w.ids)
       /\ w.covers = {} /\ w.cands = {} /\ w.todo = <<>> /\ w.ids = <<>>
  BY <1>3, BlankIs DEF Blank
<1>11. /\ IsFiniteSet(DOMAIN items') /\ DOMAIN items' \subseteq Nat
       /\ items' = [o \in DOMAIN items' |-> items'[o]]
       /\ \A o \in DOMAIN items : o \in DOMAIN items' /\ items'[o] = items[o]
       /\ \A o \in DOMAIN items' \ DOMAIN items :
            /\ items'[o].sum = 0 /\ items'[o].row \in ToSet(work[a].ids)
            /\ items'[o] \in [row : Nat, sum : Nat]
            /\ \A p \in DOMAIN items : p < o
            /\ \A p \in DOMAIN items' \ DOMAIN items : o < p => items'[o].row < items'[p].row
       /\ \A r \in ToSet(work[a].ids) : \E o \in DOMAIN items' : items'[o].sum = 0 /\ items'[o].row = r
  BY <1>2, AppendedItems
<1>12. ToSet(work[a].ids) \subseteq DOMAIN rows
  BY <1>2 DEF MemoryInv, Ordered
<1>13. Known' = Known
  BY <1>1 DEF Known
<1>14. MemoryTypes'
  <2>1. \A o \in DOMAIN items' : items'[o] \in [row : Nat, sum : Nat]
    <3>1. \A o \in DOMAIN items : items[o] \in [row : Nat, sum : Nat]
      BY <1>2 DEF MemoryTypes
    <3> QED
      BY <1>11, <3>1
  <2>2. items' \in [DOMAIN items' -> [row : Nat, sum : Nat]]
    BY <1>11, <2>1
  <2> QED
    BY <1>1, <1>2, <1>5, <1>11, <1>13, <2>2 DEF MemoryTypes
<1>15. Emptied'
  <2>1. \A t \in Turns : pc'[t] # "clear"
    BY <1>6, <1>7, <1>8, ActorsAre
  <2> QED
    BY <2>1 DEF Emptied
<1>16. Ordered'
  <2>1. Increasing(history') /\ Increasing(rows')
    BY <1>1 DEF MemoryInv, Ordered
  <2>2. \A b \in Actors :
          /\ Increasing(work'[b].todo) /\ Increasing(work'[b].ids)
          /\ ToSet(work'[b].ids) \subseteq DOMAIN rows'
          /\ \A r \in DOMAIN rows', n \in ToSet(work'[b].todo) : rows'[r] < n
    BY <1>1, <1>6, <1>10 DEF MemoryInv, Ordered
  <2> QED
    BY <2>1, <2>2 DEF Ordered
<1>17. Resolvable'
  <2>1. \A o \in DOMAIN items : ~Dangling(items[o])'
    BY <1>1, <1>2, <1>11 DEF Resolvable, Dangling, IsMessage
  <2>2. \A o \in DOMAIN items' \ DOMAIN items : ~Dangling(items[o])'
    BY <1>1, <1>11, <1>12 DEF Dangling, IsMessage
  <2> QED
    BY <2>1, <2>2 DEF Resolvable
<1>18. \A b \in Actors : ToSet(work'[b].ids) = {} /\ ToSet(work'[b].todo) = {} /\ BeingRecorded(b)' = {}
  <2>1. \A b \in Actors : ToSet(work'[b].ids) = {} /\ ToSet(work'[b].todo) = {}
    BY <1>6, <1>8, <1>10, NotRecording
  <2> QED
    BY <2>1 DEF BeingRecorded, Recorded
<1>19. Recording'
  BY <1>18 DEF Recording
<1>20. Pending'
  <2>1. \A b \in Actors : pc'[b] \in Holding => b # a /\ pc[b] \in Holding /\ work'[b] = work[b]
    BY <1>6, <1>7 DEF Holding
  <2>2. \A b \in Actors : work'[b].cands = {} \/ work'[b].cands = work[b].cands
    BY <1>6, <1>10
  <2>3. SUFFICES ASSUME NEW b \in Actors, pc'[b] \in Holding
        PROVE  /\ work'[b].made # 0
               /\ \A o \in DOMAIN items' : items'[o].sum # work'[b].made
               /\ \A c \in Actors : work'[b].made \notin work'[c].cands
               /\ \A c \in Actors \ {b} : pc'[c] \in Holding => work'[c].made # work'[b].made
               /\ work'[b].made \in DOMAIN summaries' =>
                    /\ summaries'[work'[b].made].covers = work'[b].covers
                    /\ summaries'[work'[b].made].depth = work'[b].depth
    BY DEF Pending
  <2>4. pc[b] \in Holding /\ work'[b] = work[b]
    BY <2>1, <2>3
  <2>5. /\ work[b].made # 0
        /\ \A o \in DOMAIN items : items[o].sum # work[b].made
        /\ \A c \in Actors : work[b].made \notin work[c].cands
        /\ \A c \in Actors \ {b} : pc[c] \in Holding => work[c].made # work[b].made
        /\ work[b].made \in DOMAIN summaries =>
             /\ summaries[work[b].made].covers = work[b].covers
             /\ summaries[work[b].made].depth = work[b].depth
    BY <2>4 DEF MemoryInv, Pending
  <2>6. \A o \in DOMAIN items' : items'[o].sum # work[b].made
    BY <1>11, <2>5
  <2>7. \A c \in Actors \ {b} : pc'[c] \in Holding => work'[c].made # work[b].made
    BY <2>1, <2>5
  <2> QED
    BY <1>1, <2>2, <2>4, <2>5, <2>6, <2>7
<1>21. /\ \A o \in DOMAIN items :
              /\ Tells(items[o])' = Tells(items[o])
              /\ ~IsMessage(items[o]) => Depth(o)' = Depth(o)
       /\ Shape => Shape'
       /\ \A t \in Turns : LeafReady(t) /\ pc'[t] = pc[t] /\ work'[t] = work[t] => LeafReady(t)'
       /\ \A b \in Actors : BlockReady(b) /\ pc'[b] = pc[b] /\ work'[b] = work[b] => BlockReady(b)'
  <2>1. \A o \in DOMAIN items' \ DOMAIN items :
           items'[o].sum = 0 /\ o \in Nat /\ \A p \in DOMAIN items : p < o
    BY <1>11
  <2> QED
    BY <1>1, <1>2, <1>11, <2>1, ReadyKept
<1>22. \A o \in DOMAIN items' \ DOMAIN items : /\ items'[o].row \in ToSet(work[a].ids) /\ items'[o].row \in DOMAIN rows
                                               /\ Tells(items[o])' = {rows[items'[o].row]}
  BY <1>1, <1>11, <1>12 DEF Tells, IsMessage
<1>23. Recorded(a) = {rows[r] : r \in ToSet(work[a].ids)} /\ BeingRecorded(a) = Recorded(a)
  BY <1>1, <1>12, NoneIn DEF BeingRecorded, Recorded
<1>24. Remembered' = Remembered \cup Recorded(a)
  <2>1. Remembered = UNION {Tells(items[o]) : o \in DOMAIN items}
    BY <1>2, TellsAre
  <2>2. Remembered' = UNION {Tells(items[o])' : o \in DOMAIN items'}
    BY <1>17 DEF Remembered, Resolvable
  <2>3. \A m \in Remembered' : m \in Remembered \cup Recorded(a)
    BY <1>21, <1>22, <1>23, <2>1, <2>2
  <2>4. \A m \in Remembered : m \in Remembered'
    BY <1>11, <1>21, <2>1, <2>2
  <2>5. \A m \in Recorded(a) : m \in Remembered'
    <3> SUFFICES ASSUME NEW m \in Recorded(a) PROVE m \in Remembered'
      OBVIOUS
    <3>1. PICK r \in ToSet(work[a].ids) : m = rows[r]
      BY <1>23
    <3>2. PICK o \in DOMAIN items' : items'[o].sum = 0 /\ items'[o].row = r
      BY <1>11
    <3>3. Tells(items[o])' = {m}
      BY <1>1, <3>1, <3>2 DEF Tells, IsMessage
    <3> QED
      BY <2>2, <3>3
  <2> QED
    BY <2>3, <2>4, <2>5
<1>25. Clean'
  <2>1. Recorded(a) \cap wiped = {}
    BY <1>12, <1>23 DEF MemoryInv, Clean
  <2>2. ClearedStaysCleared'
    BY <1>1, <1>24, <2>1 DEF MemoryInv, Clean, ClearedStaysCleared
  <2>3. \A b \in Actors : work'[b].covers \cap wiped = {} \/ Unused(b)'
    BY <1>1, <1>6, <1>10 DEF MemoryInv, Clean, Unused
  <2> QED
    BY <1>1, <1>18, <2>2, <2>3 DEF MemoryInv, Clean
<1>26. Untainted'
  <2>1. SUFFICES ASSUME ~tainted'
                 PROVE  /\ Shape' /\ OnceInOrder'
                        /\ \A t \in Turns : LeafReady(t)'
                        /\ \A b \in Actors : BlockReady(b)'
    BY DEF Untainted
  <2>2. /\ Shape /\ OnceInOrder /\ ~tainted
        /\ \A t \in Turns : LeafReady(t)
        /\ \A b \in Actors : BlockReady(b)
    BY <1>1, <2>1 DEF MemoryInv, Untainted
  <2>3. ASSUME NEW o \in DOMAIN items', NEW p \in DOMAIN items', o < p,
               NEW m \in Orderly(items[o])', NEW n \in Orderly(items[p])'
        PROVE  m < n
    <3>0. redone \subseteq redone' /\ history' = history
      BY <1>1
    <3>1. CASE p \in DOMAIN items
      <4>1. o \in DOMAIN items
        <5>1. o \in Nat /\ p \in Nat
          BY <1>11
        <5>2. o \notin DOMAIN items => p < o
          BY <1>11, <3>1
        <5> QED
          BY <2>3, <5>1, <5>2
      <4>2. m \in Orderly(items[o]) /\ n \in Orderly(items[p])
        BY <1>21, <2>3, <3>0, <3>1, <4>1 DEF Orderly
      <4> QED
        BY <2>2, <2>3, <3>1, <4>1, <4>2 DEF OnceInOrder
    <3>2. CASE p \notin DOMAIN items
      <4>1. items'[p].row \in ToSet(work[a].ids) /\ items'[p].row \in DOMAIN rows /\ n = rows[items'[p].row]
        BY <1>22, <3>2 DEF Orderly
      <4>2. CASE o \in DOMAIN items
        <5>1. m \in Tells(items[o]) /\ m \in ToSet(history) /\ m \notin redone'
          BY <1>21, <3>0, <4>2 DEF Orderly
        <5>2. m \in Remembered
          BY <1>2, <4>2, <5>1, TellsAre
        <5>3. n \in Recorded(a) /\ m \in Nat /\ n \in Nat
          <6>1. n \in Recorded(a)
            BY <1>23, <4>1
          <6>2. n \in Known /\ m \in Known
            BY <1>2, <4>1, <4>2, <5>1, TellsAre DEF MemoryTypes
          <6> QED
            BY <6>1, <6>2 DEF Known
        <5>4. m \notin Recorded(a)
          <6>1. CASE a = Boot
            BY <1>1, <5>1, <5>2, <6>1
          <6>2. CASE a # Boot
            <7>1. a \in Turns /\ ToSet(work[a].todo) = {}
              BY <1>1, <6>2, NoneIn
            <7> QED
              BY <1>23, <5>2, <7>1, NotToldYet
          <6> QED
            BY <6>1, <6>2
        <5>5. ~(m >= n)
          BY <1>2, <1>23, <5>1, <5>3, <5>4 DEF MemoryInv, Recording
        <5> QED
          BY <5>3, <5>5
      <4>3. CASE o \notin DOMAIN items
        <5>1. items'[o].row \in DOMAIN rows /\ m = rows[items'[o].row]
          BY <1>22, <4>3 DEF Orderly
        <5>2. items'[o].row < items'[p].row
          BY <1>11, <2>3, <3>2, <4>3
        <5> QED
          BY <4>1, <5>1, <5>2 DEF MemoryInv, Ordered, Increasing
      <4> QED
        BY <4>2, <4>3
    <3> QED
      BY <3>1, <3>2
  <2>4. OnceInOrder'
    BY <2>3 DEF OnceInOrder
  <2>5. \A t \in Turns : LeafReady(t)'
    <3>1. \A t \in Turns : t \in Actors
      BY ActorsAre
    <3>2. \A t \in Turns : t = a => LeafReady(t)'
      BY <1>5, <1>7 DEF LeafReady
    <3> QED
      BY <1>5, <1>21, <2>2, <3>1, <3>2
  <2>6. \A b \in Actors : BlockReady(b)'
    <3>1. BlockReady(a)'
      BY <1>5, <1>7 DEF BlockReady, Making
    <3> QED
      BY <1>5, <1>21, <2>2, <3>1
  <2> QED
    BY <1>21, <2>2, <2>4, <2>5, <2>6
<1>27. Whole'
  <2>1. Settled
    <3>1. pc[Boot] # "boot"
      BY <1>1, <1>8
    <3> QED
      BY <1>8, <3>1 DEF Settled
  <2>2. InFlight \subseteq Remembered'
    BY <1>8, <1>23, <1>24
  <2>3. Remembered \cup missed \cup cut \subseteq Remembered' \cup missed' \cup cut'
    BY <1>1, <1>24
  <2>4. NothingForgotten'
    <3>1. ~tainted => ToSet(history) \subseteq Remembered' \cup missed' \cup cut'
      BY <2>1, <2>2, <2>3 DEF MemoryInv, Whole, NothingForgotten
    <3> QED
      BY <1>1, <3>1 DEF NothingForgotten
  <2>5. pc'[Boot] # "boot"
    BY <1>5, <1>7, <1>8, ActorsAre
  <2> QED
    BY <2>4, <2>5 DEF Whole
<1> QED
  BY <1>9, <1>14, <1>15, <1>16, <1>17, <1>19, <1>20, <1>25, <1>26, <1>27 DEF MemoryInv

-------------------------------------------------------------------------------
(* Steps that select what will be summarized. *)

\* An actor that has read the context and goes on leaves the rest as it is.
LEMMA LocalStep ==
  ASSUME OneTurn, MemoryInv, UNCHANGED <<history, next, db, ghosts>>,
         NEW a \in Turns \cup {Background}, pc[a] \notin {"off", "idle", "add", "clear"},
         NEW x \in {"summarize", "merge", "replace"}, a = Background => x # "summarize",
         NEW w \in Works(next - 1, lastSum), w.todo = <<>>, w.ids = <<>>,
         x = "summarize" => w.depth = 0,
         pc' = [pc EXCEPT ![a] = x], work' = [work EXCEPT ![a] = w],
         items = <<>> => w.cands = {} /\ x # "replace",
         \A t \in Turns : \A n \in BeingRecorded(t) : w.covers \subseteq 1 .. n - 1,
         \A b \in Actors \ {a} : pc[b] \in Holding => work[b].made \notin w.cands,
         x = "replace" =>
           /\ pc[a] = "locate" /\ w.made = work[a].made /\ w.cands = work[a].cands
           /\ w.covers = work[a].covers /\ w.depth = work[a].depth,
         w.covers \cap wiped = {},
         ~tainted => (a \in Turns => LeafReady(a)') /\ BlockReady(a)'
  PROVE  MemoryInv'
<1>1. /\ UNCHANGED <<rows, lastRow, items, summaries, lastSum, missed, cut, redone, wiped, tainted>>
      /\ Known' = Known
  BY DEF db, ghosts, Known
<1>2. /\ pc[Boot] = "off" /\ a \in Actors /\ a # Boot
      /\ MemoryTypes /\ Steps /\ Resolvable
      /\ work \in [Actors -> Works(next - 1, lastSum)] /\ pc \in [Actors -> Places]
  BY Running DEF MemoryInv, MemoryTypes, Steps
<1>3. x \in Places /\ x \notin {"off", "idle", "add", "clear"} /\ x \notin Resting
      /\ (x # "summarize" => x \in Making) /\ (x \in Holding => x = "replace")
  BY DEF Places, TurnSteps, Resting, Making, Holding
<1>4. /\ work' \in [Actors -> Works(next - 1, lastSum)] /\ pc' \in [Actors -> Places]
      /\ work'[a] = w /\ pc'[a] = x
      /\ \A b \in Actors \ {a} : work'[b] = work[b] /\ pc'[b] = pc[b]
  BY <1>2, <1>3
<1>5. work[a].todo = <<>> /\ work[a].ids = <<>>
  BY <1>2 DEF Steps
<1>6. \A b \in Actors : work'[b].todo = work[b].todo /\ work'[b].ids = work[b].ids
  BY <1>4, <1>5
<1>7. MemoryTypes'
  BY <1>1, <1>2, <1>4 DEF MemoryTypes
<1>8. Steps'
  <2>1. \A t \in Turns : pc'[t] \in TurnSteps
    BY <1>2, <1>4, ActorsAre DEF Steps, TurnSteps, Making
  <2>2. pc'[Background] \in Making \cup {"idle", "condense"}
    BY <1>2, <1>3, <1>4, ActorsAre DEF Steps
  <2>3. pc'[Boot] = "off"
    BY <1>2, <1>4, ActorsAre
  <2>4. \A b \in Actors : pc'[b] \in Resting \cup {"clear"} => Blank(work'[b])
    BY <1>2, <1>3, <1>4 DEF Steps
  <2>5. \A b \in Actors : pc'[b] \notin Making => work'[b].depth = 0
    BY <1>2, <1>3, <1>4 DEF Steps
  <2>6. \A b \in Actors : pc'[b] # "add" => work'[b].todo = <<>> /\ work'[b].ids = <<>>
    BY <1>2, <1>4, <1>5 DEF Steps
  <2> QED
    BY <1>4, <2>1, <2>2, <2>3, <2>4, <2>5, <2>6 DEF Steps
<1>9. Emptied'
  <2>1. SUFFICES ASSUME NEW t \in Turns, pc'[t] = "clear"
                 PROVE  /\ rows' = <<>> /\ items' = <<>>
                        /\ \A b \in Actors :
                             /\ work'[b].cands \cap DOMAIN summaries' = {}
                             /\ pc'[b] = "replace" => work'[b].made \notin DOMAIN summaries'
    BY DEF Emptied
  <2>2. t \in Actors /\ t # a /\ pc[t] = "clear"
    BY <1>3, <1>4, <2>1, ActorsAre
  <2>3. /\ rows = <<>> /\ items = <<>>
        /\ \A b \in Actors : /\ work[b].cands \cap DOMAIN summaries = {}
                             /\ pc[b] = "replace" => work[b].made \notin DOMAIN summaries
    BY <2>2 DEF MemoryInv, Emptied
  <2>4. w.cands = {} /\ x # "replace"
    BY <2>3
  <2> QED
    BY <1>1, <1>4, <2>3, <2>4
<1>10. Ordered'
  BY <1>1, <1>6 DEF MemoryInv, Ordered
<1>11. Resolvable'
  BY <1>1, <1>2 DEF Resolvable, Dangling, IsMessage
<1>12. \A b \in Actors : BeingRecorded(b)' = BeingRecorded(b)
  BY <1>1, <1>6 DEF BeingRecorded, Recorded
<1>13. Recording'
  <2>1. \A b \in Actors, o \in DOMAIN items : IsMessage(items[o]) => items[o].row \notin ToSet(work'[b].ids)
    BY <1>6 DEF MemoryInv, Recording
  <2>2. \A b \in Actors : \A m \in ToSet(history), n \in BeingRecorded(b)' : m >= n => m \in BeingRecorded(b)'
    BY <1>12 DEF MemoryInv, Recording
  <2>3. \A b \in Actors : b \in Turns => \A m \in BeingRecorded(b)' :
         /\ \A s \in DOMAIN summaries : summaries[s].covers \subseteq 1 .. m - 1
         /\ \A c \in Actors : work'[c].covers \subseteq 1 .. m - 1
    <3>1. \A b \in Actors : b \in Turns => \A m \in BeingRecorded(b) :
         /\ \A s \in DOMAIN summaries : summaries[s].covers \subseteq 1 .. m - 1
         /\ \A c \in Actors : work[c].covers \subseteq 1 .. m - 1
      BY DEF MemoryInv, Recording
    <3> QED
      BY <1>4, <1>12, <3>1
  <2> QED
    BY <1>1, <2>1, <2>2, <2>3 DEF Recording, IsMessage
<1>14. Pending'
  <2>1. SUFFICES ASSUME NEW b \in Actors, pc'[b] \in Holding
        PROVE  /\ work'[b].made # 0
               /\ \A o \in DOMAIN items' : items'[o].sum # work'[b].made
               /\ \A c \in Actors : work'[b].made \notin work'[c].cands
               /\ \A c \in Actors \ {b} : pc'[c] \in Holding => work'[c].made # work'[b].made
               /\ work'[b].made \in DOMAIN summaries' =>
                    /\ summaries'[work'[b].made].covers = work'[b].covers
                    /\ summaries'[work'[b].made].depth = work'[b].depth
    BY DEF Pending
  <2>2. \A c \in Actors : pc'[c] \in Holding => pc[c] \in Holding /\ work'[c].made = work[c].made
    BY <1>3, <1>4 DEF Holding
  <2>3. /\ pc[b] \in Holding /\ work'[b].made = work[b].made /\ work'[b].covers = work[b].covers
        /\ work'[b].depth = work[b].depth /\ (b = a => w.cands = work[a].cands)
    BY <1>3, <1>4, <2>1, <2>2
  <2>4. /\ work[b].made # 0
        /\ \A o \in DOMAIN items : items[o].sum # work[b].made
        /\ \A c \in Actors : work[b].made \notin work[c].cands
        /\ \A c \in Actors \ {b} : pc[c] \in Holding => work[c].made # work[b].made
        /\ work[b].made \in DOMAIN summaries =>
             /\ summaries[work[b].made].covers = work[b].covers
             /\ summaries[work[b].made].depth = work[b].depth
    BY <2>3 DEF MemoryInv, Pending
  <2>5. \A c \in Actors : work[b].made \notin work'[c].cands
    BY <1>4, <2>3, <2>4
  <2>6. \A c \in Actors \ {b} : pc'[c] \in Holding => work'[c].made # work[b].made
    BY <2>2, <2>4
  <2> QED
    BY <1>1, <2>3, <2>4, <2>5, <2>6
<1>15. Remembered' = Remembered
  BY RememberedSame
<1>16. Clean'
  <2>1. \A b \in Actors : work'[b].covers \cap wiped = {} \/ Unused(b)'
    BY <1>1, <1>4 DEF MemoryInv, Clean, Unused
  <2> QED
    BY <1>1, <1>6, <1>15, <2>1 DEF MemoryInv, Clean, ClearedStaysCleared
<1>17. Untainted'
  <2>1. SUFFICES ASSUME ~tainted'
                 PROVE  /\ Shape' /\ OnceInOrder'
                        /\ \A t \in Turns : LeafReady(t)'
                        /\ \A b \in Actors : BlockReady(b)'
    BY DEF Untainted
  <2>2. /\ Shape /\ OnceInOrder /\ ~tainted
        /\ \A t \in Turns : LeafReady(t)
        /\ \A b \in Actors : BlockReady(b)
    BY <1>1, <2>1 DEF MemoryInv, Untainted
  <2>3. /\ \A o \in DOMAIN items : Tells(items[o])' = Tells(items[o])
        /\ Shape => Shape'
        /\ \A t \in Turns : LeafReady(t) /\ pc'[t] = pc[t] /\ work'[t] = work[t] => LeafReady(t)'
        /\ \A b \in Actors : BlockReady(b) /\ pc'[b] = pc[b] /\ work'[b] = work[b] => BlockReady(b)'
    BY <1>1, <1>2, ReadyKept
  <2>4. OnceInOrder'
    BY <1>1, <2>2, <2>3 DEF OnceInOrder, Orderly
  <2>5. \A t \in Turns : t \in Actors
    BY ActorsAre
  <2>6. \A t \in Turns : LeafReady(t)'
    BY <1>4, <2>2, <2>3, <2>5
  <2>7. \A b \in Actors : BlockReady(b)'
    BY <1>4, <2>2, <2>3
  <2> QED
    BY <2>2, <2>3, <2>4, <2>6, <2>7
<1>18. Whole'
  <2>1. InFlight' = InFlight
    BY <1>1, <1>6 DEF InFlight, Recorded
  <2>2. Settled' => Settled
    <3>1. \A t \in Turns : pc[t] = "clear" => pc'[t] = "clear"
      BY <1>4, ActorsAre
    <3> QED
      BY <1>2, <3>1 DEF Settled
  <2>3. NothingForgotten'
    BY <1>1, <1>15, <2>1, <2>2 DEF MemoryInv, Whole, NothingForgotten
  <2>4. pc'[Boot] = "off"
    BY <1>2, <1>4, ActorsAre
  <2> QED
    BY <2>3, <2>4 DEF Whole
<1> QED
  BY <1>7, <1>8, <1>9, <1>10, <1>11, <1>13, <1>14, <1>16, <1>17, <1>18 DEF MemoryInv

\* A run of messages that has no message before it begins the messages of the context.
LEMMA FirstRun ==
  ASSUME MemoryTypes, Shape, NEW from \in DOMAIN items, IsMessage(items[from]),
         ~\E o \in DOMAIN items : Adjacent(o, from) /\ IsMessage(items[o])
  PROVE  \A o \in DOMAIN items : o < from => ~IsMessage(items[o])
<1>1. SUFFICES ASSUME NEW o \in DOMAIN items, o < from, IsMessage(items[o]) PROVE FALSE
  OBVIOUS
<1>2. IsFiniteSet(DOMAIN items) /\ \A p \in DOMAIN items : p \in Nat
  BY DEF MemoryTypes
<1> DEFINE S == {p \in DOMAIN items : p < from}
           q == Max(S)
<1>3. q \in S /\ \A p \in S : p <= q
  <2>1. S \in SUBSET DOMAIN items /\ S # {} /\ S \subseteq Nat
    BY <1>1, <1>2
  <2>2. IsFiniteSet(S)
    <3> HIDE DEF S
    <3> QED
      BY <1>2, <2>1, FS_Subset
  <2> HIDE DEF S
  <2> QED
    BY <2>1, <2>2, MaxIs
<1> HIDE DEF q
<1>4. q \in DOMAIN items /\ q < from /\ q \in Nat /\ from \in Nat
  BY <1>2, <1>3
<1>5. IsMessage(items[q])
  <2>1. o <= q /\ o \in Nat
    BY <1>1, <1>2, <1>3
  <2>2. CASE o = q
    BY <1>1, <2>2
  <2>3. CASE o < q
    BY <1>1, <1>4, <2>3 DEF Shape
  <2> QED
    BY <1>4, <2>1, <2>2, <2>3
<1>6. Between(q, from) = {q, from}
  <2>1. \A p \in Between(q, from) : p \in {q, from}
    BY <1>2, <1>3, <1>4 DEF Between
  <2>2. q \in Between(q, from) /\ from \in Between(q, from)
    BY <1>4 DEF Between
  <2> QED
    BY <2>1, <2>2
<1> QED
  BY <1>4, <1>5, <1>6 DEF Adjacent

LEMMA SelectLeafKeeps ==
  ASSUME OneTurn, MemoryInv, NEW t \in Turns, SelectLeaf(t)  PROVE  MemoryInv'
<1> DEFINE limit == Limit(work[t].retry)
           chunks == LeafChunks(limit)
           c == CHOOSE c \in chunks : TRUE
           chunk == {items[o] : o \in Between(c[1], c[2])}
<1>1. /\ pc[t] \in {"leaf", "retry"} /\ UNCHANGED <<history, next, db, ghosts>>
      /\ IF chunks = {} THEN /\ Goto(t, IF work[t].retry THEN "condense" ELSE "more")
                             /\ UNCHANGED work
         ELSE IF \E item \in chunk : Dangling(item) THEN Goto(t, "turn") /\ Forget(t)
         ELSE /\ Goto(t, "summarize")
              /\ work' = [work EXCEPT ![t].from = c[1], ![t].to = c[2],
                                      ![t].covers = UNION {Tells(item) : item \in chunk}]
  BY DEF SelectLeaf
<1>2. /\ pc[Boot] = "off" /\ t \in Actors /\ t # Boot /\ t # Background
      /\ work[t] \in Works(next - 1, lastSum) /\ Blank(work[t])
      /\ work \in [Actors -> Works(next - 1, lastSum)]
      /\ MemoryTypes /\ Resolvable /\ Steps
  BY <1>1, Running, ActorsAre DEF MemoryInv, MemoryTypes, Resting
<1> HIDE DEF chunks
<1>3. CASE chunks = {}
  <2> DEFINE x == IF work[t].retry THEN "condense" ELSE "more"
  <2>1. pc' = [pc EXCEPT ![t] = x] /\ work' = [work EXCEPT ![t] = work[t]]
    BY <1>1, <1>2, <1>3 DEF Goto
  <2>2. x \in Resting /\ x \in TurnSteps
    BY DEF Resting, TurnSteps
  <2> HIDE DEF x
  <2> QED
    BY <1>1, <1>2, <2>1, <2>2, ComesToRest
<1>4. CASE chunks # {} /\ \E item \in chunk : Dangling(item)
  <2>1. Goto(t, "turn") /\ Forget(t)
    BY <1>1, <1>4
  <2>2. "turn" \in Resting /\ "turn" \in TurnSteps
    BY DEF Resting, TurnSteps
  <2> QED
    BY <1>1, <1>2, <2>1, <2>2, ForgettingKeeps
<1>5. CASE chunks # {} /\ ~\E item \in chunk : Dangling(item)
  <2> DEFINE w == [work[t] EXCEPT !.from = c[1], !.to = c[2],
                                  !.covers = UNION {Tells(item) : item \in chunk}]
  <2>1. pc' = [pc EXCEPT ![t] = "summarize"] /\ work' = [work EXCEPT ![t] = w]
    BY <1>1, <1>2, <1>5 DEF Goto
  <2>2. c \in chunks
    BY <1>5
  <2>3. c[1] \in DOMAIN items /\ c[2] \in DOMAIN items /\ c[1] <= c[2] /\ IsChunk(c[1], c[2], limit)
    <3>1. limit \subseteq DOMAIN items
      BY DEF Limit, Older
    <3>2. \A d \in chunks : d \in limit \X limit /\ d[1] <= d[2] /\ IsChunk(d[1], d[2], limit)
      BY DEF chunks, LeafChunks
    <3> HIDE DEF c, limit
    <3>3. c \in limit \X limit /\ c[1] <= c[2] /\ IsChunk(c[1], c[2], limit)
      BY <2>2, <3>2
    <3> QED
      BY <3>1, <3>3
  <2> HIDE DEF c, limit
  <2>4. UNION {Tells(item) : item \in chunk} = UNION {Tells(items[o]) : o \in Between(c[1], c[2])}
    OBVIOUS
  <2>5. \A o \in Between(c[1], c[2]) : o \in DOMAIN items
    BY DEF Between
  <2>6. c[1] \in Nat /\ c[2] \in Nat /\ UNION {Tells(items[o]) : o \in Between(c[1], c[2])} \subseteq Known
    BY <1>2, <2>3, <2>5, TellsAre DEF MemoryTypes
  <2>7. UNION {Tells(items[o]) : o \in Between(c[1], c[2])} \subseteq Remembered
    BY <1>2, <2>5, TellsAre
  <2> HIDE DEF chunk
  <2>8. /\ w.from = c[1] /\ w.to = c[2]
        /\ w.covers = UNION {Tells(items[o]) : o \in Between(c[1], c[2])}
        /\ w.todo = <<>> /\ w.ids = <<>> /\ w.depth = 0 /\ w.cands = {}
    BY <1>2, <2>4 DEF Works, Blank
  <2>9. w \in Works(next - 1, lastSum)
    <3> DEFINE U == UNION {Tells(item) : item \in chunk}
    <3>1. U \subseteq 1 .. next - 1
      BY <2>4, <2>6 DEF Known
    <3> HIDE DEF U
    <3> QED
      BY <1>2, <2>6, <3>1 DEF Works, U
  <2> HIDE DEF w
  <2>10. \A b \in Actors : BeingRecorded(b) = {}
    <3>1. \A b \in Actors : pc[b] # "add"
      BY <1>1, <1>2, ActorsAre DEF Steps, Making
    <3> QED
      BY <3>1, NotRecording
  <2>11. w.covers \cap wiped = {}
    BY <2>7, <2>8 DEF MemoryInv, Clean, ClearedStaysCleared
  <2>12. pc'[t] = "summarize" /\ work'[t] = w
    BY <1>2, <2>1 DEF Steps
  <2>13. ASSUME ~tainted PROVE LeafReady(t)' /\ BlockReady(t)'
    <3>1. BlockReady(t)'
      BY <2>12 DEF BlockReady, Making
    <3>2. Shape
      BY <2>13 DEF MemoryInv, Untainted
    <3>3. IsMessage(items[c[1]])
      <4>1. c[1] \in Between(c[1], c[2])
        BY <2>3, <2>6 DEF Between
      <4>2. \A o \in Between(c[1], c[2]) : IsMessage(items[o])
        BY <2>3 DEF IsChunk
      <4> QED
        BY <4>1, <4>2
    <3>4. \A o \in DOMAIN items : o < c[1] => ~IsMessage(items[o])
      <4>1. ~\E o \in DOMAIN items : Adjacent(o, c[1]) /\ IsMessage(items[o])
        BY <2>3 DEF IsChunk
      <4> QED
        BY <1>2, <2>3, <3>2, <3>3, <4>1, FirstRun
    <3>5. LeafReady(t)'
      <4>1. items' = items /\ rows' = rows /\ summaries' = summaries
        BY <1>1 DEF db
      <4>2. /\ w.from \in DOMAIN items' /\ w.to \in DOMAIN items' /\ w.from <= w.to
            /\ IsMessage(items'[w.from])
            /\ \A o \in DOMAIN items' : o < w.from => ~IsMessage(items'[o])
        BY <2>3, <2>8, <3>3, <3>4, <4>1
      <4>3. \A o \in DOMAIN items : Tells(items[o])' = Tells(items[o])
        BY <4>1 DEF Tells, IsMessage
      <4>4. Between(work[t].from, work[t].to)' = Between(c[1], c[2])
        BY <2>8, <2>12, <4>1 DEF Between
      <4>5. w.covers = UNION {Tells(items[o])' : o \in Between(work[t].from, work[t].to)'}
        BY <2>5, <2>8, <4>3, <4>4
      <4> QED
        BY <2>12, <4>2, <4>5 DEF LeafReady, IsMessage
    <3> QED
      BY <3>1, <3>5
  <2>14. "summarize" \in {"summarize", "merge", "replace"} /\ pc[t] \notin {"off", "idle", "add", "clear"}
    BY <1>1
  <2>15. \A s \in Turns : \A n \in BeingRecorded(s) : w.covers \subseteq 1 .. n - 1
    BY <2>10, ActorsAre
  <2> QED
    BY <1>1, <1>2, <2>1, <2>8, <2>9, <2>11, <2>13, <2>14, <2>15, LocalStep
<1> QED
  BY <1>3, <1>4, <1>5

LEMMA LocateKeeps ==
  ASSUME OneTurn, MemoryInv, NEW a \in Turns \cup {Background}, Locate(a)  PROVE  MemoryInv'
<1> DEFINE S == Standing(work[a].cands)
           w == [work[a] EXCEPT !.from = Min(S), !.to = Max(S),
                                !.others = \E o \in DOMAIN items \ S : o \in Min(S) .. Max(S)]
<1>1. pc[a] = "locate" /\ UNCHANGED <<history, next, db, ghosts>>
  BY DEF Locate
<1>2. /\ pc[Boot] = "off" /\ a \in Actors /\ a # Boot
      /\ work[a] \in Works(next - 1, lastSum) /\ pc \in [Actors -> Places]
      /\ work \in [Actors -> Works(next - 1, lastSum)]
      /\ MemoryTypes /\ Resolvable /\ Steps
  BY <1>1, Running DEF MemoryInv, MemoryTypes, Steps
<1>3. CASE S = {}
  <2>1. Goto(a, NothingMade(a)) /\ Forget(a)
    BY <1>3 DEF Locate
  <2>2. /\ NothingMade(a) \in Resting /\ (a \in Turns => NothingMade(a) \in TurnSteps)
        /\ (a = Background => NothingMade(a) \in {"idle", "condense"})
    BY ActorsAre DEF Resting, TurnSteps, NothingMade
  <2> QED
    BY <1>1, <1>2, <2>1, <2>2, ForgettingKeeps
<1>4. CASE S # {}
  <2>1. pc' = [pc EXCEPT ![a] = "replace"] /\ work' = [work EXCEPT ![a] = w]
    BY <1>4 DEF Locate, Goto
  <2>2. S \in SUBSET DOMAIN items /\ S \subseteq Nat /\ IsFiniteSet(DOMAIN items) /\ S # {}
    BY <1>2, <1>4 DEF Standing, MemoryTypes
  <2>3. IsFiniteSet(S)
    <3> HIDE DEF S
    <3> QED
      BY <2>2, FS_Subset
  <2>4. Min(S) \in S /\ Max(S) \in S /\ \A o \in S : Min(S) <= o /\ o <= Max(S)
    <3> HIDE DEF S
    <3> QED
      BY <2>2, <2>3, MinIs, MaxIs
  <2> DEFINE others == \E o \in DOMAIN items \ S : o \in Min(S) .. Max(S)
  <2>5. others \in BOOLEAN
    OBVIOUS
  <2>6. \A o \in S : items[o].sum \in work[a].cands
    BY DEF Standing
  <2> HIDE DEF S, others
  <2>7. /\ w \in Works(next - 1, lastSum) /\ w.todo = work[a].todo /\ w.ids = work[a].ids
        /\ w.from = Min(S) /\ w.to = Max(S) /\ w.others = others
        /\ w.made = work[a].made /\ w.cands = work[a].cands
        /\ w.covers = work[a].covers /\ w.depth = work[a].depth /\ w.fresh = work[a].fresh
    <3>1. Min(S) \in Nat /\ Max(S) \in Nat
      BY <2>2, <2>4
    <3> QED
      BY <1>2, <2>5, <3>1 DEF Works, others
  <2>8. w.todo = <<>> /\ w.ids = <<>>
    BY <1>1, <1>2, <2>7 DEF Steps
  <2> HIDE DEF w
  <2>9. items # <<>>
    <3>1. DOMAIN items # {}
      BY <2>2
    <3> QED
      BY <3>1, NoneIn
  <2>10. \A t \in Turns : \A n \in BeingRecorded(t) : w.covers \subseteq 1 .. n - 1
    BY <1>2, <2>7, ActorsAre DEF MemoryInv, Recording
  <2>11. \A b \in Actors \ {a} : pc[b] \in Holding => work[b].made \notin w.cands
    BY <1>2, <2>7 DEF MemoryInv, Pending
  <2>12. w.covers \cap wiped = {}
    <3>1. PICK o \in S : o \in DOMAIN items
      BY <2>2
    <3>2. items[o].sum \in work[a].cands /\ items[o].sum # 0
      BY <1>2, <2>6 DEF Works
    <3>3. items[o].sum \in DOMAIN summaries
      BY <1>2, <3>1, <3>2, TellsAre DEF IsMessage
    <3>4. ~Unused(a)
      BY <1>1, <3>2, <3>3 DEF Unused
    <3> QED
      BY <1>2, <2>7, <3>4 DEF MemoryInv, Clean
  <2>13. pc'[a] = "replace" /\ work'[a] = w
    BY <1>2, <2>1
  <2>14. ASSUME ~tainted PROVE (a \in Turns => LeafReady(a)') /\ BlockReady(a)'
    <3>1. a \in Turns => LeafReady(a)'
      BY <2>13 DEF LeafReady
    <3>2. SUFFICES ASSUME w.fresh PROVE BlockReady(a)'
      BY <2>13, <3>1 DEF BlockReady
    <3>3. BlockReady(a)
      BY <1>2, <2>14 DEF MemoryInv, Untainted
    <3>4. /\ work[a].covers = UNION {Tells(items[o]) : o \in S}
          /\ \A o \in S : ~IsMessage(items[o]) /\ Depth(o) < work[a].depth
          /\ \A o \in DOMAIN items \ S :
                \/ ~IsMessage(items[o]) /\ Depth(o) >= work[a].depth /\ \A p \in S : o < p
                \/ \A p \in S : p < o
          /\ work[a].made \in DOMAIN summaries
      BY <1>1, <2>7, <3>2, <3>3 DEF BlockReady, Making, S
    <3>5. ~others
      <4> SUFFICES ASSUME NEW o \in DOMAIN items \ S, o \in Min(S) .. Max(S) PROVE FALSE
        BY DEF others
      <4>1. o < Min(S) \/ Max(S) < o
        BY <2>4, <3>4
      <4>2. o \in Nat /\ Min(S) \in Nat /\ Max(S) \in Nat
        BY <1>2, <2>2, <2>4 DEF MemoryTypes
      <4> QED
        BY <4>1, <4>2
    <3>6. items' = items /\ rows' = rows /\ summaries' = summaries
      BY <1>1 DEF db
    <3>7. Standing(work[a].cands)' = S
      BY <2>7, <2>13, <3>6 DEF Standing, S
    <3>8. \A o \in DOMAIN items : /\ Tells(items[o])' = Tells(items[o])
                                  /\ Depth(o)' = Depth(o)
      BY <3>6 DEF Tells, IsMessage, Depth
    <3>9. w.covers = UNION {Tells(items[o])' : o \in S}
      BY <2>2, <2>7, <3>4, <3>8
    <3>10. /\ \A o \in S : ~IsMessage(items'[o]) /\ Depth(o)' < w.depth
           /\ \A o \in DOMAIN items' \ S :
                \/ ~IsMessage(items'[o]) /\ Depth(o)' >= w.depth /\ \A p \in S : o < p
                \/ \A p \in S : p < o
      BY <2>2, <2>7, <3>4, <3>6, <3>8
    <3>11. ~w.others /\ w.from \in S /\ w.to \in S /\ \A o \in S : w.from <= o /\ o <= w.to
      BY <2>4, <2>7, <3>5
    <3>12. w.made \in DOMAIN summaries' /\ S # {}
      BY <2>2, <2>7, <3>4, <3>6
    <3> QED
      BY <2>13, <3>7, <3>9, <3>10, <3>11, <3>12 DEF BlockReady, IsMessage
  <2>15. /\ "replace" \in {"summarize", "merge", "replace"} /\ "replace" # "summarize"
         /\ pc[a] \notin {"off", "idle", "add", "clear"}
    BY <1>1
  <2> QED
    BY <1>1, <2>1, <2>7, <2>8, <2>9, <2>10, <2>11, <2>12, <2>14, <2>15, LocalStep
<1> QED
  BY <1>3, <1>4

\* The summaries that are selected are of one depth, and the first of it.
LEMMA OlderIs ==
  ASSUME MemoryTypes, NEW o \in DOMAIN items, NEW p \in Older, o < p
  PROVE  o \in Older
<1> DEFINE A == {q \in DOMAIN items : q >= o}
           B == {q \in DOMAIN items : q >= p}
<1>1. /\ IsFiniteSet(DOMAIN items) /\ p \in DOMAIN items /\ \A q \in DOMAIN items : q \in Nat
      /\ Cardinality(B) > FreshTailCount /\ FreshTailCount \in Nat
  BY MemoryAssumption DEF MemoryTypes, Older
<1>2. A \in SUBSET DOMAIN items /\ B \in SUBSET A
  <2>1. \A q \in DOMAIN items : q >= p => q >= o
    BY <1>1
  <2> QED
    BY <2>1
<1>3. IsFiniteSet(A)
  <2> HIDE DEF A, B
  <2> QED
    BY <1>1, <1>2, FS_Subset
<1>4. Cardinality(B) <= Cardinality(A) /\ Cardinality(B) \in Nat /\ Cardinality(A) \in Nat
  <2> HIDE DEF A, B
  <2>1. IsFiniteSet(B) /\ Cardinality(B) <= Cardinality(A)
    BY <1>2, <1>3, FS_Subset
  <2> QED
    BY <1>3, <2>1, FS_CardinalityType
<1>5. Cardinality(A) > FreshTailCount
  <2> HIDE DEF A, B
  <2> QED
    BY <1>1, <1>4
<1> QED
  BY <1>5 DEF Older

LEMMA OldestAre ==
  ASSUME MemoryTypes, NEW d, OldestAtDepth(d) # {}
  PROVE  \E S \in SUBSET At(d) :
           /\ S # {} /\ OldestAtDepth(d) = Sums(S)
           /\ \A o \in At(d), p \in S : o < p => o \in S
<1> DEFINE fits(o) == /\ Upto(o) \subseteq At(d)
                      /\ SumTokens(Sums(Upto(o))) <= LeafChunkTokens
           S == UNION {Upto(o) : o \in {p \in Older : fits(p)}}
<1>1. OldestAtDepth(d) = IF SumTokens(Sums(S)) < CondensedTargetTokens THEN {} ELSE Sums(S)
  BY DEF OldestAtDepth
<1>2. OldestAtDepth(d) = Sums(S)
  <2> HIDE DEF S
  <2> QED
    BY <1>1
<1>3. S \subseteq At(d)
  OBVIOUS
<1>4. S # {}
  <2> HIDE DEF S
  <2> QED
    BY <1>2 DEF Sums
<1>5. ASSUME NEW o \in At(d), NEW p \in S, o < p PROVE o \in S
  <2>1. PICK q \in Older : fits(q) /\ p \in Upto(q)
    OBVIOUS
  <2>2. o \in DOMAIN items /\ p \in DOMAIN items /\ q \in DOMAIN items /\ p <= q
    BY <2>1 DEF At, Upto, Older
  <2>3. o <= q
    BY <1>5, <2>2 DEF MemoryTypes
  <2>4. o \in Upto(q)
    BY <2>2, <2>3 DEF Upto
  <2> QED
    BY <2>1, <2>4
<1> QED
  BY <1>2, <1>3, <1>4, <1>5

LEMMA ShallowestAre ==
  ASSUME MemoryTypes, Resolvable, Shallowest # {}
  PROVE  \E d \in Nat : \E S \in SUBSET At(d) :
           /\ S # {} /\ Shallowest = Sums(S)
           /\ \A o \in At(d), p \in S : o < p => o \in S
<1> DEFINE at(depth) == At(depth) \cap Older
           enough == {depth \in Depths : Cardinality(at(depth)) >= CondensedMinFanout}
           first(S) == {o \in S : Cardinality({p \in S : p <= o}) <= CondensedMinFanout}
           d == Min(enough)
           A == at(d)
           S == first(A)
<1>1. Shallowest = IF enough = {} THEN {} ELSE Sums(S)
  BY DEF Shallowest
<1>2. enough # {} /\ Shallowest = Sums(S)
  <2> HIDE DEF S, enough
  <2> QED
    BY <1>1
<1>3. d \in Nat
  <2>1. Depths \subseteq Nat
    <3>1. \A o \in DOMAIN items : ~IsMessage(items[o]) => summaries[items[o].sum].depth \in Nat
      BY TellsAre DEF Depth
    <3> QED
      BY <3>1 DEF Depths
  <2>2. enough \subseteq Nat
    BY <2>1
  <2> HIDE DEF enough
  <2> QED
    BY <1>2, <2>2, MinIs
<1> HIDE DEF d
<1>4. S # {}
  <2> HIDE DEF S
  <2> QED
    BY <1>2 DEF Sums
<1>5. S \subseteq At(d)
  OBVIOUS
<1>6. ASSUME NEW o \in At(d), NEW p \in S, o < p PROVE o \in S
  <2>1. p \in A /\ Rank(A, p) <= CondensedMinFanout
    BY DEF Rank
  <2>2. o \in DOMAIN items /\ p \in Older
    BY <2>1 DEF At
  <2>3. o \in A
    BY <1>6, <2>2, OlderIs
  <2>4. A \subseteq Nat /\ A \in SUBSET DOMAIN items /\ IsFiniteSet(DOMAIN items)
    BY DEF MemoryTypes, At
  <2>5. Rank(A, o) < Rank(A, p) /\ Rank(A, o) \in Nat /\ Rank(A, p) \in Nat
    <3> HIDE DEF A, S
    <3>1. IsFiniteSet(A)
      BY <2>4, FS_Subset
    <3>2. Cardinality(A) \in Nat /\ Rank(A, o) \in 1 .. Cardinality(A) /\ Rank(A, p) \in 1 .. Cardinality(A)
      BY <2>1, <2>3, <2>4, <3>1, RankIs
    <3>3. \A x, y \in A : x < y => Rank(A, x) < Rank(A, y)
      BY <2>4, <3>1, RankIs
    <3>4. Rank(A, o) < Rank(A, p)
      BY <1>6, <2>1, <2>3, <3>3
    <3>5. Rank(A, o) \in Nat /\ Rank(A, p) \in Nat
      BY <3>2
    <3> QED
      BY <3>4, <3>5
  <2>6. Rank(A, o) <= CondensedMinFanout
    <3> HIDE DEF A, S
    <3> QED
      BY <2>1, <2>5, MemoryAssumption
  <2> QED
    BY <2>3, <2>6 DEF Rank
<1> QED
  BY <1>2, <1>3, <1>4, <1>5, <1>6

LEMMA CandidatesAre ==
  ASSUME MemoryTypes, Resolvable, Candidates # {}
  PROVE  \E d \in Nat : \E S \in SUBSET At(d) :
           /\ S # {} /\ Candidates = Sums(S)
           /\ \A o \in At(d), p \in S : o < p => o \in S
<1> DEFINE found == {depth \in Depths : OldestAtDepth(depth) # {}}
           d == Min(found)
<1>1. CASE found # {}
  <2>1. Candidates = OldestAtDepth(d)
    BY <1>1 DEF Candidates
  <2>2. Depths \subseteq Nat
    <3>1. \A o \in DOMAIN items : ~IsMessage(items[o]) => summaries[items[o].sum].depth \in Nat
      BY TellsAre DEF Depth
    <3> QED
      BY <3>1 DEF Depths
  <2>3. found \subseteq Nat
    BY <2>2
  <2>4. d \in found
    <3> HIDE DEF found
    <3> QED
      BY <1>1, <2>3, MinIs
  <2>5. d \in Nat /\ OldestAtDepth(d) # {}
    BY <2>3, <2>4
  <2> HIDE DEF d
  <2> QED
    BY <2>1, <2>5, OldestAre
<1>2. CASE found = {}
  <2>1. Candidates = Shallowest
    BY <1>2 DEF Candidates
  <2> HIDE DEF found
  <2> QED
    BY <2>1, ShallowestAre
<1> QED
  BY <1>1, <1>2

LEMMA SelectCandidatesKeeps ==
  ASSUME OneTurn, MemoryInv, NEW a \in Turns \cup {Background}, SelectCandidates(a)  PROVE  MemoryInv'
<1> DEFINE cands == Candidates
           w == [work[a] EXCEPT !.cands = cands,
                                !.covers = UNION {summaries[s].covers : s \in cands},
                                !.depth = 1 + Max({summaries[s].depth : s \in cands}),
                                !.fresh = TRUE]
<1>1. pc[a] = "condense" /\ UNCHANGED <<history, next, db, ghosts>>
  BY DEF SelectCandidates
<1>2. /\ pc[Boot] = "off" /\ a \in Actors /\ a # Boot
      /\ work[a] \in Works(next - 1, lastSum) /\ pc \in [Actors -> Places]
      /\ work \in [Actors -> Works(next - 1, lastSum)] /\ Blank(work[a])
      /\ MemoryTypes /\ Resolvable /\ Steps
  BY <1>1, Running DEF MemoryInv, MemoryTypes, Steps, Resting
<1>3. CASE cands = {}
  <2>1. Goto(a, NothingMade(a)) /\ Forget(a)
    BY <1>3 DEF SelectCandidates
  <2>2. /\ NothingMade(a) \in Resting /\ (a \in Turns => NothingMade(a) \in TurnSteps)
        /\ (a = Background => NothingMade(a) \in {"idle", "condense"})
    BY ActorsAre DEF Resting, TurnSteps, NothingMade
  <2> QED
    BY <1>1, <1>2, <2>1, <2>2, ForgettingKeeps
<1>4. CASE cands # {}
  <2>1. pc' = [pc EXCEPT ![a] = "merge"] /\ work' = [work EXCEPT ![a] = w]
    BY <1>4 DEF SelectCandidates, Goto
  <2>0. PICK d \in Nat : \E S \in SUBSET At(d) :
           /\ S # {} /\ cands = Sums(S)
           /\ \A o \in At(d), p \in S : o < p => o \in S
    BY <1>2, <1>4, CandidatesAre
  <2>2. PICK S \in SUBSET At(d) :
           /\ S # {} /\ cands = Sums(S)
           /\ \A o \in At(d), p \in S : o < p => o \in S
    BY <2>0
  <2>3. \A o \in S : o \in DOMAIN items /\ o \in Nat /\ ~IsMessage(items[o]) /\ Depth(o) = d
    BY <1>2 DEF At, Depth, MemoryTypes
  <2>4. \A s \in cands : \E o \in S : items[o].sum = s
    BY <2>2 DEF Sums
  <2>5. \A o \in S : items[o].sum \in cands
    BY <2>2 DEF Sums
  <2> HIDE DEF cands
  <2>6. \A s \in cands : s \in DOMAIN summaries /\ summaries[s].depth = d /\ summaries[s].covers \subseteq Known
    BY <1>2, <2>3, <2>4, TellsAre DEF Depth
  <2>7. UNION {summaries[s].covers : s \in cands} = UNION {Tells(items[o]) : o \in S}
    <3>1. \A o \in S : Tells(items[o]) = summaries[items[o].sum].covers
      BY <1>2, <2>3, TellsAre
    <3>2. \A m \in UNION {summaries[s].covers : s \in cands} : m \in UNION {Tells(items[o]) : o \in S}
      BY <2>4, <3>1
    <3>3. \A m \in UNION {Tells(items[o]) : o \in S} : m \in UNION {summaries[s].covers : s \in cands}
      BY <2>5, <3>1
    <3> QED
      BY <3>2, <3>3
  <2>8. Max({summaries[s].depth : s \in cands}) = d
    <3>1. {summaries[s].depth : s \in cands} = {d}
      <4>1. cands # {}
        BY <2>2, <2>5
      <4> QED
        BY <2>6, <4>1
    <3>2. IsFiniteSet({d}) /\ {d} \subseteq Nat /\ {d} # {}
      BY FS_Singleton
    <3>3. Max({d}) \in {d}
      BY <3>2, MaxIs
    <3> QED
      BY <3>1, <3>3
  <2>9. /\ w.cands = cands /\ w.covers = UNION {Tells(items[o]) : o \in S} /\ w.depth = 1 + d
        /\ w.fresh = TRUE /\ w.todo = <<>> /\ w.ids = <<>>
    BY <1>2, <2>7, <2>8 DEF Works, Blank
  <2>10. w \in Works(next - 1, lastSum)
    <3> DEFINE U == UNION {summaries[s].covers : s \in cands}
               D == 1 + Max({summaries[s].depth : s \in cands})
    <3>1. U \subseteq 1 .. next - 1
      BY <2>6 DEF Known
    <3>2. D \in Nat
      BY <2>8
    <3>3. cands \subseteq 1 .. lastSum
      BY <1>2, <2>6 DEF MemoryTypes
    <3> HIDE DEF U, D
    <3> QED
      BY <1>2, <3>1, <3>2, <3>3 DEF Works, U, D
  <2> HIDE DEF w
  <2>11. items # <<>>
    <3>1. DOMAIN items # {}
      BY <2>2, <2>3
    <3> QED
      BY <3>1, NoneIn
  <2>12. \A t \in Turns : \A n \in BeingRecorded(t) : w.covers \subseteq 1 .. n - 1
    <3> SUFFICES ASSUME NEW t \in Turns, NEW n \in BeingRecorded(t), NEW o \in S
                 PROVE  Tells(items[o]) \subseteq 1 .. n - 1
      BY <2>9
    <3>1. items[o].sum \in DOMAIN summaries /\ Tells(items[o]) = summaries[items[o].sum].covers
      BY <1>2, <2>3, TellsAre
    <3> QED
      BY <3>1, ActorsAre DEF MemoryInv, Recording
  <2>13. \A b \in Actors \ {a} : pc[b] \in Holding => work[b].made \notin w.cands
    <3>1. \A b \in Actors : pc[b] \in Holding => \A o \in DOMAIN items : items[o].sum # work[b].made
      BY DEF MemoryInv, Pending
    <3> QED
      BY <2>3, <2>4, <2>9, <3>1
  <2>14. w.covers \cap wiped = {}
    <3>1. w.covers \subseteq Remembered
      BY <1>2, <2>3, <2>9, TellsAre
    <3> QED
      BY <3>1 DEF MemoryInv, Clean, ClearedStaysCleared
  <2>15. pc'[a] = "merge" /\ work'[a] = w
    BY <1>2, <2>1
  <2>16. ASSUME ~tainted PROVE (a \in Turns => LeafReady(a)') /\ BlockReady(a)'
    <3>1. a \in Turns => LeafReady(a)'
      BY <2>15 DEF LeafReady
    <3>2. Shape
      BY <2>16 DEF MemoryInv, Untainted
    <3>3. \A o \in DOMAIN items : o \in Nat /\ (~IsMessage(items[o]) => Depth(o) \in Nat)
      BY <1>2, TellsAre DEF MemoryTypes
    <3>4. Standing(cands) = S
      <4>1. ASSUME NEW o \in Standing(cands) PROVE o \in S
        <5>1. PICK p \in S : items[p].sum = items[o].sum
          BY <2>4 DEF Standing
        <5>2. o = p
          BY <2>3, <3>2, <5>1 DEF Shape, Standing
        <5> QED
          BY <5>2
      <4>2. \A o \in S : o \in Standing(cands)
        BY <2>3, <2>5 DEF Standing
      <4> QED
        BY <4>1, <4>2
    <3>5. ASSUME NEW o \in DOMAIN items \ S
          PROVE  \/ ~IsMessage(items[o]) /\ Depth(o) >= 1 + d /\ \A p \in S : o < p
                 \/ \A p \in S : p < o
      <4>1. \A p \in S : /\ o < p => ~IsMessage(items[o]) /\ Depth(o) >= d
                         /\ o # p /\ o \in Nat /\ p \in Nat
                         /\ p < o /\ ~IsMessage(items[o]) => d >= Depth(o)
        BY <2>3, <3>2, <3>3 DEF Shape
      <4>2. CASE IsMessage(items[o])
        BY <4>1, <4>2
      <4>3. CASE ~IsMessage(items[o]) /\ Depth(o) = d
        <5>1. o \in At(d)
          BY <4>3 DEF At, Depth
        <5> QED
          BY <2>2, <4>1, <5>1
      <4>4. CASE ~IsMessage(items[o]) /\ Depth(o) < d
        BY <3>3, <4>1, <4>4
      <4>5. CASE ~IsMessage(items[o]) /\ Depth(o) > d
        BY <3>3, <4>1, <4>5
      <4> QED
        BY <3>3, <4>2, <4>3, <4>4, <4>5
    <3>6. items' = items /\ rows' = rows /\ summaries' = summaries
      BY <1>1 DEF db
    <3>7. Standing(work[a].cands)' = S
      BY <2>9, <2>15, <3>4, <3>6 DEF Standing
    <3>8. \A o \in DOMAIN items : /\ Tells(items[o])' = Tells(items[o])
                                  /\ Depth(o)' = Depth(o)
      BY <3>6 DEF Tells, IsMessage, Depth
    <3>9. w.covers = UNION {Tells(items[o])' : o \in S}
      BY <2>3, <2>9, <3>8
    <3>10. \A o \in S : ~IsMessage(items'[o]) /\ Depth(o)' < w.depth
      BY <2>3, <2>9, <3>6, <3>8
    <3>11. \A o \in DOMAIN items' \ S :
                \/ ~IsMessage(items'[o]) /\ Depth(o)' >= w.depth /\ \A p \in S : o < p
                \/ \A p \in S : p < o
      BY <2>9, <3>5, <3>6, <3>8
    <3> QED
      BY <2>2, <2>15, <3>1, <3>7, <3>9, <3>10, <3>11 DEF BlockReady, IsMessage
  <2>17. /\ "merge" \in {"summarize", "merge", "replace"} /\ "merge" # "summarize" /\ "merge" # "replace"
         /\ pc[a] \notin {"off", "idle", "add", "clear"}
    BY <1>1
  <2> QED
    BY <1>1, <1>2, <2>1, <2>9, <2>10, <2>11, <2>12, <2>13, <2>14, <2>16, <2>17, LocalStep
<1> QED
  BY <1>3, <1>4

-------------------------------------------------------------------------------
(* Steps that rewrite the context. *)

\* What Insert returns has the items that were left, and the summary if there is one.
LEMMA ResequenceIs ==
  ASSUME NEW rest, NEW s, IsFiniteSet(DOMAIN rest), DOMAIN rest \subseteq Nat
  PROVE  LET f == Resequence(rest, s)
         IN  /\ IsFiniteSet(DOMAIN f) /\ DOMAIN f \subseteq Nat /\ f = [o \in DOMAIN f |-> f[o]]
             /\ \A o \in DOMAIN f : f[o] = SumItem(s) \/ \E p \in DOMAIN rest : f[o] = rest[p]
<1> DEFINE S == DOMAIN rest
           ordinal(o) == Cardinality({p \in S : p <= o}) * OrdinalStep
           last == (Cardinality(S) + 1) * OrdinalStep
           N == {ordinal(o) : o \in S}
           f == Resequence(rest, s)
<1>1. f = [n \in N \cup {last} |->
             IF n = last THEN SumItem(s) ELSE rest[CHOOSE o \in S : ordinal(o) = n]]
  BY DEF Resequence
<1>2. OrdinalStep \in Nat \ {0} /\ Cardinality(S) \in Nat
  BY MemoryAssumption, FS_CardinalityType
<1>3. \A o \in S : ordinal(o) \in Nat
  <2>1. \A o \in S : Rank(S, o) \in 1 .. Cardinality(S)
    <3>1. S \subseteq Nat /\ IsFiniteSet(S)
      OBVIOUS
    <3> HIDE DEF S
    <3> QED
      BY <3>1, RankIs
  <2>2. \A o \in S : Rank(S, o) \in Nat
    <3> HIDE DEF S
    <3> QED
      BY <1>2, <2>1
  <2>3. \A o \in S : ordinal(o) = Rank(S, o) * OrdinalStep
    BY DEF Rank
  <2> HIDE DEF ordinal
  <2> QED
    BY <1>2, <2>2, <2>3
<1>4. last \in Nat
  <2>1. Cardinality(S) + 1 \in Nat
    BY <1>2
  <2> QED
    BY <1>2, <2>1
<1> HIDE DEF ordinal, last
<1>5. N \subseteq Nat /\ IsFiniteSet(N)
  <2> DEFINE g == [o \in S |-> ordinal(o)]
  <2>1. \A x \in S : g[x] \in N
    OBVIOUS
  <2>2. \A y \in N : \E x \in S : g[x] = y
    OBVIOUS
  <2>3. N \subseteq Nat
    BY <1>3
  <2> HIDE DEF g, N
  <2> QED
    BY <2>1, <2>2, <2>3, ImageFinite
<1>6. ASSUME NEW n \in N \cup {last}
      PROVE  f[n] = SumItem(s) \/ \E p \in S : f[n] = rest[p]
  <2>1. CASE n = last
    BY <1>1, <2>1
  <2>2. CASE n # last
    <3>1. \E o \in S : ordinal(o) = n
      BY <2>2
    <3> DEFINE p == CHOOSE o \in S : ordinal(o) = n
    <3>2. p \in S
      BY <3>1
    <3>3. f[n] = rest[p]
      BY <1>1, <2>2
    <3> QED
      BY <3>2, <3>3
  <2> QED
    BY <2>1, <2>2
<1> HIDE DEF N
<1>7. DOMAIN f = N \cup {last} /\ f = [o \in DOMAIN f |-> f[o]]
  BY <1>1
<1>8. IsFiniteSet(N \cup {last})
  BY <1>5, FS_AddElement
<1> HIDE DEF f
<1> QED
  BY <1>4, <1>5, <1>6, <1>7, <1>8 DEF f

LEMMA InsertIs ==
  ASSUME NEW gone, NEW mid \in Nat, NEW s, MemoryTypes
  PROVE  LET f == Insert(Without(gone), mid, s)
         IN  /\ IsFiniteSet(DOMAIN f) /\ DOMAIN f \subseteq Nat /\ f = [o \in DOMAIN f |-> f[o]]
             /\ \A o \in DOMAIN f : \/ \E p \in DOMAIN items : f[o] = items[p]
                                    \/ s \in DOMAIN summaries /\ f[o] = SumItem(s)
<1> DEFINE rest == Without(gone)
           f == Insert(rest, mid, s)
<1>1. /\ DOMAIN rest = DOMAIN items \ gone /\ rest = [o \in DOMAIN items \ gone |-> items[o]]
      /\ \A o \in DOMAIN rest : o \in DOMAIN items /\ rest[o] = items[o]
  BY DEF Without
<1>2. IsFiniteSet(DOMAIN items) /\ DOMAIN items \subseteq Nat
  BY DEF MemoryTypes
<1>3. IsFiniteSet(DOMAIN rest) /\ DOMAIN rest \subseteq Nat
  BY <1>1, <1>2, FS_Subset
<1> HIDE DEF rest
<1>4. CASE s \notin DOMAIN summaries
  <2>1. f = rest
    BY <1>4 DEF Insert
  <2> HIDE DEF f
  <2> QED
    BY <1>1, <1>3, <2>1 DEF f, rest
<1>5. CASE s \in DOMAIN summaries /\ mid \in DOMAIN rest
  <2>1. f = Resequence(rest, s)
    BY <1>5 DEF Insert
  <2>2. /\ IsFiniteSet(DOMAIN f) /\ DOMAIN f \subseteq Nat /\ f = [o \in DOMAIN f |-> f[o]]
        /\ \A o \in DOMAIN f : f[o] = SumItem(s) \/ \E p \in DOMAIN rest : f[o] = rest[p]
    <3> HIDE DEF f
    <3> QED
      BY <1>3, <2>1, ResequenceIs
  <2> HIDE DEF f
  <2> QED
    BY <1>1, <1>5, <2>2 DEF f, rest
<1>6. CASE s \in DOMAIN summaries /\ mid \notin DOMAIN rest
  <2>1. f = [y \in DOMAIN rest \cup {mid} |-> IF y = mid THEN SumItem(s) ELSE rest[y]]
    BY <1>6 DEF Insert, Add
  <2>2. IsFiniteSet(DOMAIN rest \cup {mid})
    BY <1>3, FS_AddElement
  <2> HIDE DEF f
  <2>3. DOMAIN f = DOMAIN rest \cup {mid} /\ f = [o \in DOMAIN f |-> f[o]]
    BY <2>1
  <2>4. \A o \in DOMAIN f : f[o] = SumItem(s) \/ \E p \in DOMAIN items : f[o] = items[p]
    BY <1>1, <2>1
  <2>5. IsFiniteSet(DOMAIN f) /\ DOMAIN f \subseteq Nat
    BY <1>3, <2>2, <2>3
  <2> QED
    BY <1>6, <2>3, <2>4, <2>5 DEF f, rest
<1> QED
  BY <1>4, <1>5, <1>6

LEMMA NoItems ==
  ASSUME NEW f, f = [o \in DOMAIN f |-> f[o]], DOMAIN f = {}
  PROVE  f = <<>>
<1>1. <<>> = [i \in {} |-> <<>>[i]]
  <2>1. <<>> \in Seq({}) /\ Len(<<>>) = 0
    OBVIOUS
  <2>2. <<>> = [i \in 1 .. 0 |-> <<>>[i]]
    BY <2>1
  <2> QED
    BY <2>2
<1> QED
  BY <1>1

\* An actor's rewriting of the context: the items that stay are what they were, and there is
\* none that dangles or tells of what it should not.
LEMMA ItemsRewritten ==
  ASSUME OneTurn, MemoryInv, NEW a \in Turns \cup {Background}, pc[a] \in {"replaceLeaf", "replace"},
         UNCHANGED <<history, next, rows, lastRow, summaries, lastSum, missed, cut, redone, wiped>>,
         tainted' \in BOOLEAN,
         IsFiniteSet(DOMAIN items'), DOMAIN items' \subseteq Nat,
         items' = [o \in DOMAIN items' |-> items'[o]],
         \A o \in DOMAIN items' :
            \/ \E p \in DOMAIN items : items'[o] = items[p]
            \/ work[a].made \in DOMAIN summaries /\ items'[o] = SumItem(work[a].made),
         NEW x \in Resting, a \in Turns => x \in TurnSteps, a = Background => x \in {"idle", "condense"},
         pc' = [pc EXCEPT ![a] = x],
         work' \in [Actors -> Works(next - 1, lastSum)], Blank(work'[a]),
         \A b \in Actors \ {a} : \/ work'[b] = work[b]
                                 \/ work'[b] = [work[b] EXCEPT !.fresh = FALSE]
  PROVE  /\ MemoryTypes' /\ Steps' /\ Emptied' /\ Ordered' /\ Resolvable'
         /\ Recording' /\ Pending' /\ Clean'
         /\ InFlight' = InFlight /\ (Settled' => Settled) /\ pc'[Boot] = "off"
<1>1. Known' = Known
  BY DEF Known
<1>2. /\ pc[Boot] = "off" /\ a \in Actors /\ a # Boot
      /\ MemoryTypes /\ Steps /\ Resolvable
      /\ work \in [Actors -> Works(next - 1, lastSum)] /\ pc \in [Actors -> Places]
      /\ lastSum \in Nat
  BY Running DEF MemoryInv, MemoryTypes, Steps
<1>3. x \in Places /\ x \notin {"add", "clear"} /\ x \notin Making /\ x \notin Holding
  BY DEF Places, TurnSteps, Resting, Making, Holding
<1>4. /\ pc' \in [Actors -> Places] /\ pc'[a] = x
      /\ \A b \in Actors \ {a} : pc'[b] = pc[b]
  BY <1>2, <1>3
<1>5. \A b \in Actors \ {a} :
        /\ work'[b].todo = work[b].todo /\ work'[b].ids = work[b].ids
        /\ work'[b].covers = work[b].covers /\ work'[b].cands = work[b].cands
        /\ work'[b].depth = work[b].depth /\ work'[b].made = work[b].made
  <2> SUFFICES ASSUME NEW b \in Actors \ {a}
               PROVE  /\ work'[b].todo = work[b].todo /\ work'[b].ids = work[b].ids
                      /\ work'[b].covers = work[b].covers /\ work'[b].cands = work[b].cands
                      /\ work'[b].depth = work[b].depth /\ work'[b].made = work[b].made
    OBVIOUS
  <2>1. CASE work'[b] = [work[b] EXCEPT !.fresh = FALSE]
    <3>1. work[b] \in Works(next - 1, lastSum)
      BY <1>2
    <3> QED
      BY <2>1, <3>1 DEF Works
  <2> QED
    BY <2>1
<1>6. /\ work'[a].todo = <<>> /\ work'[a].ids = <<>> /\ work'[a].covers = {} /\ work'[a].cands = {}
      /\ work'[a].depth = 0
  BY DEF Blank
<1>7. work[a].todo = <<>> /\ work[a].ids = <<>>
  BY <1>2 DEF Steps
<1>8. \A b \in Actors : work'[b].todo = work[b].todo /\ work'[b].ids = work[b].ids
  BY <1>5, <1>6, <1>7
<1>9. /\ pc[a] \in Holding /\ work[a].made # 0
      /\ work[a].made \in DOMAIN summaries => summaries[work[a].made].covers = work[a].covers
  BY <1>2 DEF MemoryInv, Pending, Holding
<1>10. work[a].made \in Nat
  BY <1>2 DEF Works
<1>11. MemoryTypes'
  <2>1. \A o \in DOMAIN items : items[o] \in [row : Nat, sum : Nat]
    BY <1>2 DEF MemoryTypes
  <2>2. SumItem(work[a].made) \in [row : Nat, sum : Nat]
    BY <1>10 DEF SumItem
  <2>3. \A o \in DOMAIN items' : items'[o] \in [row : Nat, sum : Nat]
    BY <2>1, <2>2
  <2>4. items' \in [DOMAIN items' -> [row : Nat, sum : Nat]]
    BY <2>3
  <2> QED
    BY <1>1, <1>2, <2>4 DEF MemoryTypes
<1>12. Steps'
  <2>1. \A t \in Turns : pc'[t] \in TurnSteps
    BY <1>2, <1>4, ActorsAre DEF Steps
  <2>2. pc'[Background] \in Making \cup {"idle", "condense"}
    BY <1>2, <1>4, ActorsAre DEF Steps
  <2>3. pc'[Boot] = "off"
    BY <1>2, <1>4, ActorsAre
  <2>4. \A b \in Actors : pc'[b] \in Resting \cup {"clear"} => Blank(work'[b])
    <3>1. \A b \in Actors \ {a} : Blank(work[b]) => Blank(work'[b])
      BY <1>5 DEF Blank
    <3> QED
      BY <1>2, <1>4, <3>1 DEF Steps
  <2>5. \A b \in Actors : pc'[b] \notin Making => work'[b].depth = 0
    BY <1>2, <1>4, <1>5, <1>6 DEF Steps
  <2>6. \A b \in Actors : pc'[b] # "add" => work'[b].todo = <<>> /\ work'[b].ids = <<>>
    BY <1>2, <1>4, <1>8, <1>6 DEF Steps
  <2> QED
    BY <1>4, <2>1, <2>2, <2>3, <2>4, <2>5, <2>6 DEF Steps
<1>13. Emptied'
  <2>1. SUFFICES ASSUME NEW t \in Turns, pc'[t] = "clear"
                 PROVE  /\ rows' = <<>> /\ items' = <<>>
                        /\ \A b \in Actors :
                             /\ work'[b].cands \cap DOMAIN summaries' = {}
                             /\ pc'[b] = "replace" => work'[b].made \notin DOMAIN summaries'
    BY DEF Emptied
  <2>2. t \in Actors /\ t # a /\ pc[t] = "clear" /\ a = Background /\ pc[a] = "replace"
    <3>1. t \in Actors /\ t # a /\ pc[t] = "clear"
      BY <1>3, <1>4, <2>1, ActorsAre
    <3>2. a = Background
      BY <3>1, ActorsAre
    <3>3. pc[a] # "replaceLeaf"
      BY <1>2, <3>2 DEF Steps, Making
    <3> QED
      BY <3>1, <3>2, <3>3
  <2>3. /\ rows = <<>> /\ items = <<>>
        /\ \A b \in Actors : /\ work[b].cands \cap DOMAIN summaries = {}
                             /\ pc[b] = "replace" => work[b].made \notin DOMAIN summaries
    BY <2>2 DEF MemoryInv, Emptied
  <2>4. items' = <<>>
    <3>1. DOMAIN items' = {}
      BY <1>2, <2>2, <2>3, NoneIn
    <3> QED
      BY <3>1, NoItems
  <2>5. \A b \in Actors : work'[b].cands \cap DOMAIN summaries' = {}
    BY <1>5, <1>6, <2>3
  <2>6. \A b \in Actors : pc'[b] = "replace" => work'[b].made \notin DOMAIN summaries'
    BY <1>3, <1>4, <1>5, <2>3 DEF Making
  <2> QED
    BY <2>3, <2>4, <2>5, <2>6
<1>14. Ordered'
  BY <1>8 DEF MemoryInv, Ordered
<1>15. \A o \in DOMAIN items' : IsMessage(items'[o]) => \E p \in DOMAIN items : items'[o] = items[p]
  BY <1>9 DEF IsMessage, SumItem
<1>16. Resolvable'
  <2>1. \A o \in DOMAIN items : ~Dangling(items[o])
    BY <1>2 DEF Resolvable
  <2>2. work[a].made \in DOMAIN summaries => ~Dangling(SumItem(work[a].made))
    BY <1>9 DEF Dangling, IsMessage, SumItem
  <2>3. \A o \in DOMAIN items' : ~Dangling(items'[o])
    BY <2>1, <2>2
  <2> QED
    BY <2>3 DEF Resolvable, Dangling, IsMessage
<1>17. \A b \in Actors : BeingRecorded(b)' = BeingRecorded(b)
  BY <1>8 DEF BeingRecorded, Recorded
<1>18. Recording'
  <2>1. \A b \in Actors, o \in DOMAIN items' : IsMessage(items'[o]) => items'[o].row \notin ToSet(work'[b].ids)
    BY <1>8, <1>15 DEF MemoryInv, Recording
  <2>2. \A b \in Actors : \A m \in ToSet(history), n \in BeingRecorded(b)' : m >= n => m \in BeingRecorded(b)'
    BY <1>17 DEF MemoryInv, Recording
  <2>3. \A b \in Actors : b \in Turns => \A m \in BeingRecorded(b)' :
         /\ \A s \in DOMAIN summaries : summaries[s].covers \subseteq 1 .. m - 1
         /\ \A c \in Actors : work'[c].covers \subseteq 1 .. m - 1
    <3>1. \A b \in Actors : b \in Turns => \A m \in BeingRecorded(b) :
         /\ \A s \in DOMAIN summaries : summaries[s].covers \subseteq 1 .. m - 1
         /\ \A c \in Actors : work[c].covers \subseteq 1 .. m - 1
      BY DEF MemoryInv, Recording
    <3> QED
      BY <1>5, <1>6, <1>17, <3>1
  <2> QED
    BY <2>1, <2>2, <2>3 DEF Recording, IsMessage
<1>19. Pending'
  <2>1. SUFFICES ASSUME NEW b \in Actors, pc'[b] \in Holding
        PROVE  /\ work'[b].made # 0
               /\ \A o \in DOMAIN items' : items'[o].sum # work'[b].made
               /\ \A c \in Actors : work'[b].made \notin work'[c].cands
               /\ \A c \in Actors \ {b} : pc'[c] \in Holding => work'[c].made # work'[b].made
               /\ work'[b].made \in DOMAIN summaries' =>
                    /\ summaries'[work'[b].made].covers = work'[b].covers
                    /\ summaries'[work'[b].made].depth = work'[b].depth
    BY DEF Pending
  <2>2. \A c \in Actors : pc'[c] \in Holding => c # a /\ pc[c] \in Holding /\ work'[c].made = work[c].made
    BY <1>3, <1>4, <1>5
  <2>3. /\ b # a /\ pc[b] \in Holding /\ work'[b].made = work[b].made
        /\ work'[b].covers = work[b].covers /\ work'[b].depth = work[b].depth
    BY <1>5, <2>1, <2>2
  <2>4. /\ work[b].made # 0
        /\ \A o \in DOMAIN items : items[o].sum # work[b].made
        /\ \A c \in Actors : work[b].made \notin work[c].cands
        /\ \A c \in Actors \ {b} : pc[c] \in Holding => work[c].made # work[b].made
        /\ work[b].made \in DOMAIN summaries =>
             /\ summaries[work[b].made].covers = work[b].covers
             /\ summaries[work[b].made].depth = work[b].depth
    BY <2>3 DEF MemoryInv, Pending
  <2>5. \A c \in Actors : work[b].made \notin work'[c].cands
    BY <1>5, <1>6, <2>4
  <2>6. \A c \in Actors \ {b} : pc'[c] \in Holding => work'[c].made # work[b].made
    BY <2>2, <2>4
  <2>7. \A o \in DOMAIN items' : items'[o].sum # work[b].made
    <3>1. work[a].made # work[b].made
      BY <1>2, <1>9, <2>3, <2>4
    <3> QED
      BY <2>4, <3>1 DEF SumItem
  <2> QED
    BY <2>3, <2>4, <2>5, <2>6, <2>7
<1>20. Clean'
  <2>1. \A b \in Actors : work'[b].covers \cap wiped = {} \/ Unused(b)'
    <3>1. \A b \in Actors \ {a} : Unused(b) => Unused(b)'
      BY <1>4, <1>5 DEF Unused
    <3> QED
      BY <1>5, <1>6, <3>1 DEF MemoryInv, Clean
  <2>2. ClearedStaysCleared'
    <3>1. Remembered' = UNION {Tells(items[o])' : o \in DOMAIN items'}
      BY <1>16 DEF Remembered, Resolvable
    <3>2. Remembered \cap wiped = {} /\ Remembered = UNION {Tells(items[o]) : o \in DOMAIN items}
      BY <1>2, TellsAre DEF MemoryInv, Clean, ClearedStaysCleared
    <3>3. ASSUME NEW o \in DOMAIN items' PROVE Tells(items[o])' \cap wiped = {}
      <4>0. Tells(items[o])' = Tells(items'[o])
        BY DEF Tells, IsMessage
      <4>1. CASE \E p \in DOMAIN items : items'[o] = items[p]
        BY <3>2, <4>0, <4>1
      <4>2. CASE work[a].made \in DOMAIN summaries /\ items'[o] = SumItem(work[a].made)
        <5>1. Tells(items'[o]) = work[a].covers
          BY <1>9, <4>2 DEF Tells, IsMessage, SumItem
        <5>2. ~Unused(a)
          BY <4>2 DEF Unused, Making
        <5> QED
          BY <1>2, <4>0, <5>1, <5>2 DEF MemoryInv, Clean
      <4> QED
        BY <4>1, <4>2
    <3> QED
      BY <3>1, <3>3 DEF ClearedStaysCleared
  <2> QED
    BY <1>8, <2>1, <2>2 DEF MemoryInv, Clean
<1>21. InFlight' = InFlight
  BY <1>8 DEF InFlight, Recorded
<1>22. pc'[Boot] = "off"
  BY <1>2, <1>4, ActorsAre
<1>23. Settled' => Settled
  <2>1. \A t \in Turns : pc[t] = "clear" => pc'[t] = "clear"
    BY <1>4, ActorsAre
  <2> QED
    BY <1>2, <2>1 DEF Settled
<1> QED
  BY <1>11, <1>12, <1>13, <1>14, <1>16, <1>18, <1>19, <1>20, <1>21, <1>22, <1>23

\* A summary takes the place of a block of items it tells of, between the deeper summaries
\* before it and what comes after it.
Replaces(B, mid, s) ==
  /\ B \subseteq DOMAIN items /\ mid \in Nat /\ s \in DOMAIN summaries /\ s # 0
  /\ \A o \in DOMAIN items : items[o].sum # s
  /\ \E p \in B : p <= mid
  /\ \E p \in B : mid <= p
  /\ summaries[s].covers = UNION {Tells(items[o]) : o \in B}
  /\ \A o \in DOMAIN items \ B :
       \/ ~IsMessage(items[o]) /\ Depth(o) >= summaries[s].depth /\ \A p \in B : o < p
       \/ /\ \A p \in B : p < o
          /\ ~IsMessage(items[o]) => Depth(o) <= summaries[s].depth
  /\ items' = Add(Without(B), mid, SumItem(s))
  /\ UNCHANGED <<history, rows, summaries, redone>>

LEMMA ReplacedItems ==
  ASSUME MemoryTypes, Resolvable, NEW B, NEW mid, NEW s, Replaces(B, mid, s)
  PROVE  /\ DOMAIN items' = (DOMAIN items \ B) \cup {mid}
         /\ items'[mid] = SumItem(s) /\ ~IsMessage(items'[mid])
         /\ Depth(mid)' = summaries[s].depth /\ Depth(mid)' \in Nat
         /\ Tells(items[mid])' = UNION {Tells(items[p]) : p \in B}
         /\ \A o \in DOMAIN items \ B :
              /\ o \in DOMAIN items' /\ o # mid /\ o \in Nat
              /\ items'[o] = items[o] /\ Tells(items[o])' = Tells(items[o])
              /\ ~IsMessage(items[o]) => Depth(o)' = Depth(o) /\ Depth(o) \in Nat
              /\ \/ ~IsMessage(items[o]) /\ Depth(o) >= Depth(mid)' /\ (\A p \in B : o < p) /\ o < mid
                 \/ /\ (\A p \in B : p < o) /\ mid < o
                    /\ ~IsMessage(items[o]) => Depth(o) <= Depth(mid)'
<1>1. /\ DOMAIN Without(B) = DOMAIN items \ B
      /\ \A o \in DOMAIN items \ B : Without(B)[o] = items[o]
  BY DEF Without
<1>2. \A o \in DOMAIN items : o \in Nat
  BY DEF MemoryTypes
<1>3. /\ B \subseteq DOMAIN items /\ mid \in Nat /\ s \in DOMAIN summaries /\ s # 0
      /\ \E p \in B : p <= mid
      /\ \E p \in B : mid <= p
      /\ summaries[s].covers = UNION {Tells(items[o]) : o \in B}
      /\ items' = Add(Without(B), mid, SumItem(s))
      /\ rows' = rows /\ summaries' = summaries
  BY DEF Replaces
<1>4. \A o \in DOMAIN items \ B :
         \/ ~IsMessage(items[o]) /\ Depth(o) >= summaries[s].depth /\ (\A p \in B : o < p) /\ o < mid
         \/ /\ (\A p \in B : p < o) /\ mid < o
            /\ ~IsMessage(items[o]) => Depth(o) <= summaries[s].depth
  <2> SUFFICES ASSUME NEW o \in DOMAIN items \ B
               PROVE  \/ ~IsMessage(items[o]) /\ Depth(o) >= summaries[s].depth /\ (\A p \in B : o < p) /\ o < mid
                      \/ /\ (\A p \in B : p < o) /\ mid < o
                         /\ ~IsMessage(items[o]) => Depth(o) <= summaries[s].depth
    OBVIOUS
  <2>1. (\A p \in B : o < p) => o < mid
    BY <1>2, <1>3
  <2>2. (\A p \in B : p < o) => mid < o
    BY <1>2, <1>3
  <2> QED
    BY <2>1, <2>2 DEF Replaces
<1>5. \A o \in DOMAIN items \ B : o # mid
  BY <1>2, <1>3, <1>4
<1>6. /\ DOMAIN items' = (DOMAIN items \ B) \cup {mid}
      /\ items'[mid] = SumItem(s)
      /\ \A o \in DOMAIN items \ B : items'[o] = items[o]
  BY <1>1, <1>3, <1>5 DEF Add
<1>7. /\ ~IsMessage(items'[mid]) /\ Depth(mid)' = summaries[s].depth
      /\ Tells(items[mid])' = summaries[s].covers
  BY <1>3, <1>6 DEF IsMessage, Depth, Tells, SumItem
<1>8. summaries[s].depth \in Nat
  BY <1>3 DEF MemoryTypes
<1>9. \A o \in DOMAIN items \ B :
        /\ Tells(items[o])' = Tells(items[o])
        /\ ~IsMessage(items[o]) => Depth(o)' = Depth(o) /\ Depth(o) \in Nat
  <2>1. \A o \in DOMAIN items \ B : Tells(items[o])' = Tells(items[o]) /\ Depth(o)' = Depth(o)
    BY <1>3, <1>6 DEF Tells, IsMessage, Depth
  <2> QED
    BY <2>1, TellsAre
<1> QED
  BY <1>2, <1>3, <1>4, <1>5, <1>6, <1>7, <1>8, <1>9

LEMMA BlockReplaced ==
  ASSUME MemoryTypes, Resolvable, Shape, OnceInOrder, ~tainted,
         NEW B, NEW mid, NEW s, Replaces(B, mid, s)
  PROVE  Shape' /\ OnceInOrder' /\ Remembered' = Remembered
<1> DEFINE rest == DOMAIN items \ B
<1>1. /\ DOMAIN items' = rest \cup {mid}
      /\ items'[mid] = SumItem(s) /\ ~IsMessage(items'[mid])
      /\ Depth(mid)' \in Nat
      /\ Tells(items[mid])' = UNION {Tells(items[p]) : p \in B}
  BY ReplacedItems
<1>2. \A o \in rest :
              /\ o \in DOMAIN items /\ o # mid /\ o \in Nat
              /\ items'[o] = items[o] /\ Tells(items[o])' = Tells(items[o])
              /\ ~IsMessage(items[o]) => Depth(o)' = Depth(o) /\ Depth(o) \in Nat
              /\ \/ ~IsMessage(items[o]) /\ Depth(o) >= Depth(mid)' /\ (\A p \in B : o < p) /\ o < mid
                 \/ /\ (\A p \in B : p < o) /\ mid < o
                    /\ ~IsMessage(items[o]) => Depth(o) <= Depth(mid)'
  BY ReplacedItems
<1>3. /\ B \subseteq DOMAIN items /\ mid \in Nat /\ s \in DOMAIN summaries /\ s # 0
      /\ \A o \in DOMAIN items : items[o].sum # s
      /\ UNCHANGED <<history, rows, summaries, redone>>
  BY DEF Replaces
<1> HIDE DEF rest
<1>4. Shape'
  <2>1. SUFFICES ASSUME NEW o \in DOMAIN items', NEW p \in DOMAIN items', ~IsMessage(items'[p])
                 PROVE  /\ o < p => ~IsMessage(items'[o]) /\ Depth(o)' >= Depth(p)'
                        /\ items'[o].sum = items'[p].sum => o = p
    BY DEF Shape, IsMessage
  <2>2. CASE o \in rest /\ p \in rest
    <3>1. o \in DOMAIN items /\ p \in DOMAIN items /\ items'[o] = items[o] /\ items'[p] = items[p]
      BY <1>2, <2>2
    <3>2. /\ o < p => ~IsMessage(items[o]) /\ Depth(o) >= Depth(p)
          /\ items[o].sum = items[p].sum => o = p
      BY <2>1, <3>1 DEF Shape
    <3>3. Depth(p)' = Depth(p)
      BY <1>2, <2>1, <2>2, <3>1
    <3>4. ~IsMessage(items[o]) => Depth(o)' = Depth(o)
      BY <1>2, <2>2
    <3> QED
      BY <3>1, <3>2, <3>3, <3>4
  <2>3. CASE o = mid /\ p \in rest
    <3>1. items'[p] = items[p] /\ Depth(p)' = Depth(p) /\ Depth(p) \in Nat /\ p # mid /\ p \in Nat
      BY <1>2, <2>1, <2>3
    <3>2. mid < p => Depth(p) <= Depth(mid)'
      BY <1>2, <1>3, <2>1, <2>3, <3>1
    <3>3. items'[o].sum = s /\ items'[p].sum # s
      BY <1>1, <1>2, <1>3, <2>3, <3>1 DEF SumItem
    <3> QED
      BY <1>1, <2>3, <3>1, <3>2, <3>3
  <2>4. CASE o \in rest /\ p = mid
    <3>1. items'[o] = items[o] /\ o # mid /\ o \in Nat
      BY <1>2, <2>4
    <3>2. o < mid => ~IsMessage(items[o]) /\ Depth(o) >= Depth(mid)' /\ Depth(o)' = Depth(o)
      BY <1>2, <1>3, <2>4, <3>1
    <3>3. items'[p].sum = s /\ items'[o].sum # s
      BY <1>1, <1>2, <1>3, <2>4, <3>1 DEF SumItem
    <3> QED
      BY <2>4, <3>1, <3>2, <3>3
  <2>5. CASE o = mid /\ p = mid
    BY <1>3, <2>5
  <2> QED
    BY <1>1, <2>2, <2>3, <2>4, <2>5
<1>5. /\ \A o \in rest : Orderly(items[o])' = Orderly(items[o])
      /\ \A m \in Orderly(items[mid])' : \E q \in B : m \in Orderly(items[q])
  BY <1>1, <1>2, <1>3 DEF Orderly
<1>6. OnceInOrder'
  <2>1. SUFFICES ASSUME NEW o \in DOMAIN items', NEW p \in DOMAIN items', o < p,
                        NEW m \in Orderly(items[o])', NEW n \in Orderly(items[p])'
                 PROVE  m < n
    BY DEF OnceInOrder
  <2>2. \A q, r \in DOMAIN items : q < r => \A x \in Orderly(items[q]), y \in Orderly(items[r]) : x < y
    BY DEF OnceInOrder
  <2>3. CASE o \in rest /\ p \in rest
    BY <1>2, <1>5, <2>1, <2>2, <2>3
  <2>4. CASE o = mid /\ p \in rest
    <3>1. PICK q \in B : m \in Orderly(items[q])
      BY <1>5, <2>1, <2>4
    <3>2. q < p /\ p \in DOMAIN items /\ q \in DOMAIN items
      BY <1>2, <1>3, <2>1, <2>4
    <3> QED
      BY <1>5, <2>1, <2>2, <2>4, <3>1, <3>2
  <2>5. CASE o \in rest /\ p = mid
    <3>1. PICK q \in B : n \in Orderly(items[q])
      BY <1>5, <2>1, <2>5
    <3>2. o < q /\ o \in DOMAIN items /\ q \in DOMAIN items
      BY <1>2, <1>3, <2>1, <2>5
    <3> QED
      BY <1>5, <2>1, <2>2, <2>5, <3>1, <3>2
  <2>6. CASE o = mid /\ p = mid
    BY <1>3, <2>1, <2>6
  <2> QED
    BY <1>1, <2>3, <2>4, <2>5, <2>6
<1>7. Remembered' = Remembered
  <2>1. Remembered = UNION {Tells(items[o]) : o \in DOMAIN items}
    BY TellsAre
  <2>2. \A o \in DOMAIN items' : ~Dangling(items[o])'
    <3>1. ~Dangling(items[mid])'
      BY <1>1, <1>3 DEF Dangling, IsMessage, SumItem
    <3>2. \A o \in rest : ~Dangling(items[o])'
      BY <1>2, <1>3 DEF Resolvable, Dangling, IsMessage
    <3> QED
      BY <1>1, <3>1, <3>2
  <2>3. Remembered' = UNION {Tells(items[o])' : o \in DOMAIN items'}
    BY <2>2 DEF Remembered
  <2>4. \A m \in Remembered' : m \in Remembered
    BY <1>1, <1>2, <1>3, <2>1, <2>3
  <2>5. \A m \in Remembered : m \in Remembered'
    <3> SUFFICES ASSUME NEW o \in DOMAIN items, NEW m \in Tells(items[o]) PROVE m \in Remembered'
      BY <2>1
    <3>1. CASE o \in B
      <4>1. m \in Tells(items[mid])' /\ mid \in DOMAIN items'
        BY <1>1, <3>1
      <4> QED
        BY <2>3, <4>1
    <3>2. CASE o \in rest
      <4>1. m \in Tells(items[o])' /\ o \in DOMAIN items'
        BY <1>1, <1>2, <3>2
      <4> QED
        BY <2>3, <4>1
    <3> QED
      BY <3>1, <3>2 DEF rest
  <2> QED
    BY <2>4, <2>5
<1> QED
  BY <1>4, <1>6, <1>7


LEMMA MiddleIs ==
  ASSUME NEW x \in Nat, NEW y \in Nat
  PROVE  /\ (x + y) \div 2 \in Nat
         /\ x <= y => x <= (x + y) \div 2 /\ (x + y) \div 2 <= y
OBVIOUS

\* Condensing the summaries before it does not disturb a leaf that is being made.
LEMMA LeafApart ==
  ASSUME MemoryTypes, Resolvable, Shape, NEW B, NEW mid, NEW s, Replaces(B, mid, s),
         \A o \in B : ~IsMessage(items[o]),
         NEW t \in Turns, LeafReady(t), pc'[t] = pc[t],
         work'[t].from = work[t].from, work'[t].to = work[t].to,
         work'[t].covers = work[t].covers, work'[t].made = work[t].made
  PROVE  LeafReady(t)'
<1> DEFINE w == work[t]
<1>1. SUFFICES ASSUME pc[t] \in {"summarize", "replaceLeaf"}  PROVE LeafReady(t)'
  BY DEF LeafReady
<1>2. /\ w.from \in DOMAIN items /\ w.to \in DOMAIN items /\ w.from <= w.to
      /\ IsMessage(items[w.from])
      /\ \A o \in DOMAIN items : o < w.from => ~IsMessage(items[o])
      /\ w.covers = UNION {Tells(items[o]) : o \in Between(w.from, w.to)}
      /\ pc[t] = "replaceLeaf" => w.made \in DOMAIN summaries
  BY <1>1 DEF LeafReady
<1>3. /\ w'.from = w.from /\ w'.to = w.to /\ w'.covers = w.covers /\ w'.made = w.made
      /\ w' = work'[t]
  OBVIOUS
<1> HIDE DEF w
<1>4. /\ B \subseteq DOMAIN items /\ mid \in Nat /\ summaries' = summaries
      /\ \E p \in B : mid <= p
  BY DEF Replaces
<1>5. \A o \in DOMAIN items : o \in Nat
  BY DEF MemoryTypes
<1>6. w.from \in Nat /\ w.to \in Nat
  BY <1>2, <1>5
<1>7. \A o \in B : o < w.from
  <2> SUFFICES ASSUME NEW o \in B PROVE o < w.from
    OBVIOUS
  <2>1. w.from < o => ~IsMessage(items[w.from])
    BY <1>2, <1>4 DEF Shape
  <2>2. o # w.from /\ o \in Nat
    BY <1>2, <1>4, <1>5
  <2> QED
    BY <1>2, <1>6, <2>1, <2>2
<1>8. mid < w.from
  BY <1>4, <1>5, <1>6, <1>7
<1>9. /\ DOMAIN items' = (DOMAIN items \ B) \cup {mid}
      /\ ~IsMessage(items'[mid])
      /\ \A o \in DOMAIN items \ B : items'[o] = items[o] /\ Tells(items[o])' = Tells(items[o])
  BY ReplacedItems
<1>10. \A o : o \in DOMAIN items' /\ o \in w.from .. w.to <=> o \in DOMAIN items /\ o \in w.from .. w.to
  BY <1>4, <1>5, <1>6, <1>7, <1>8, <1>9
<1>11. Between(w.from, w.to)' = Between(w.from, w.to)
  BY <1>3, <1>10 DEF Between
<1>12. \A o \in Between(w.from, w.to) : o \in DOMAIN items \ B
  BY <1>4, <1>5, <1>6, <1>7 DEF Between
<1>13. UNION {Tells(items[o])' : o \in Between(w.from, w.to)} = w.covers
  BY <1>2, <1>9, <1>12
<1>14. \A o \in DOMAIN items' : o < w.from => ~IsMessage(items'[o])
  BY <1>2, <1>9
<1>15. /\ w.from \in DOMAIN items' /\ w.to \in DOMAIN items' /\ IsMessage(items'[w.from])
  BY <1>2, <1>6, <1>9, <1>10, <1>12 DEF Between
<1> QED
  BY <1>2, <1>3, <1>4, <1>11, <1>13, <1>14, <1>15 DEF LeafReady, IsMessage

\* A new leaf, of the messages after them, does not disturb summaries being condensed.
LEMMA BlockApart ==
  ASSUME MemoryTypes, Resolvable, Shape, NEW B, NEW mid, NEW s, Replaces(B, mid, s),
         \A o \in B : IsMessage(items[o]),
         NEW a \in Actors, BlockReady(a), pc'[a] = pc[a], work'[a] = work[a], s \notin work[a].cands
  PROVE  BlockReady(a)'
<1> DEFINE w == work[a]
           C == Standing(w.cands)
<1>1. SUFFICES ASSUME pc[a] \in Making, w.fresh  PROVE BlockReady(a)'
  BY DEF BlockReady
<1>2. /\ C # {}
      /\ w.covers = UNION {Tells(items[o]) : o \in C}
      /\ \A o \in C : ~IsMessage(items[o]) /\ Depth(o) < w.depth
      /\ \A o \in DOMAIN items \ C :
             \/ ~IsMessage(items[o]) /\ Depth(o) >= w.depth /\ \A p \in C : o < p
             \/ \A p \in C : p < o
      /\ pc[a] # "merge" => w.made \in DOMAIN summaries
      /\ pc[a] = "replace" => /\ ~w.others /\ w.from \in C /\ w.to \in C
                              /\ \A o \in C : w.from <= o /\ o <= w.to
  BY <1>1 DEF BlockReady
<1>3. w' = w
  OBVIOUS
<1>4. /\ B \subseteq DOMAIN items /\ mid \in Nat /\ summaries' = summaries
      /\ \E p \in B : p <= mid
  BY DEF Replaces
<1>5. \A o \in DOMAIN items : o \in Nat
  BY DEF MemoryTypes
<1>6. C \subseteq DOMAIN items /\ s \notin w.cands
  BY DEF Standing
<1>7. /\ DOMAIN items' = (DOMAIN items \ B) \cup {mid}
      /\ items'[mid] = SumItem(s)
      /\ \A o \in DOMAIN items \ B :
           /\ items'[o] = items[o] /\ Tells(items[o])' = Tells(items[o])
           /\ ~IsMessage(items[o]) => Depth(o)' = Depth(o)
  BY ReplacedItems
<1>8. \A p \in C : p < mid
  <2> SUFFICES ASSUME NEW p \in C PROVE p < mid
    OBVIOUS
  <2>1. PICK q \in B : q <= mid
    BY <1>4
  <2>2. q < p => ~IsMessage(items[q])
    BY <1>2, <1>4, <1>6 DEF Shape
  <2>3. q # p /\ q \in Nat /\ p \in Nat
    BY <1>2, <1>4, <1>5, <1>6
  <2> QED
    BY <1>4, <2>1, <2>2, <2>3
<1>9. \A o \in C : o \in DOMAIN items \ B
  BY <1>2, <1>6
<1>10. C' = C
  <2>1. \A o \in C : o \in C'
    BY <1>3, <1>7, <1>9 DEF Standing
  <2>2. \A o \in C' : o \in C
    BY <1>3, <1>6, <1>7 DEF Standing, SumItem
  <2> QED
    BY <2>1, <2>2
<1> HIDE DEF w, C
<1>11. UNION {Tells(items[o])' : o \in C} = w.covers
  BY <1>2, <1>7, <1>9
<1>12. \A o \in C : ~IsMessage(items'[o]) /\ Depth(o)' < w.depth
  BY <1>2, <1>7, <1>9
<1>13. \A o \in DOMAIN items' \ C :
             \/ ~IsMessage(items'[o]) /\ Depth(o)' >= w.depth /\ \A p \in C : o < p
             \/ \A p \in C : p < o
  BY <1>2, <1>7, <1>8
<1> QED
  BY <1>1, <1>2, <1>3, <1>4, <1>10, <1>11, <1>12, <1>13 DEF BlockReady, IsMessage, w, C

LEMMA WholeStays ==
  ASSUME MemoryInv, UNCHANGED <<history, missed, cut>>,
         InFlight' = InFlight, Settled' => Settled, pc'[Boot] = "off",
         ~tainted' => ~tainted /\ Remembered' = Remembered
  PROVE  Whole'
<1>1. NothingForgotten
  BY DEF MemoryInv, Whole
<1>2. NothingForgotten'
  BY <1>1 DEF NothingForgotten
<1> QED
  BY <1>2 DEF Whole

LEMMA ReplaceLeafKeeps ==
  ASSUME OneTurn, MemoryInv, NEW t \in Turns, ReplaceLeaf(t)
  PROVE  MemoryInv' /\ (Apart => Apart')
<1> DEFINE from == work[t].from
           to == work[t].to
           s == work[t].made
           mid == (from + to) \div 2
           B == Between(from, to)
           x == IF work[t].retry THEN "retry" ELSE "more"
           w == [NoWork EXCEPT !.base = work[t].base, !.retry = work[t].retry]
<1>1. /\ pc[t] = "replaceLeaf"
      /\ items' = Insert(Without(B), mid, s)
      /\ pc' = [pc EXCEPT ![t] = x] /\ work' = [work EXCEPT ![t] = w]
      /\ UNCHANGED <<history, next, rows, lastRow, summaries, lastSum, counts, ghosts>>
  BY DEF ReplaceLeaf, ReplaceRange, Goto
<1>2. /\ t \in Turns \cup {Background} /\ t \in Actors /\ t # Background
      /\ Background \in Actors /\ pc[Boot] = "off"
      /\ \A b \in Turns : b = t
      /\ \A b \in Actors : b = t \/ b = Background \/ b = Boot
      /\ MemoryTypes /\ Steps /\ Resolvable /\ Pending
      /\ work \in [Actors -> Works(next - 1, lastSum)] /\ work[t] \in Works(next - 1, lastSum)
      /\ pc \in [Actors -> Places] /\ lastSum \in Nat
  <2>1. t \in Turns \cup {Background} /\ t \in Actors /\ t # Background /\ Background \in Actors
    BY ActorsAre
  <2>2. (\A b \in Turns : b = t) /\ \A b \in Actors : b = t \/ b = Background \/ b = Boot
    BY ActorsAre DEF OneTurn
  <2> QED
    BY <1>1, <2>1, <2>2, Running DEF MemoryInv, MemoryTypes, Steps
<1>3. x \in Resting /\ x \in TurnSteps /\ x \in {"retry", "more"}
  BY DEF Resting, TurnSteps
<1>4. w \in Works(next - 1, lastSum) /\ Blank(w)
  <2>1. work[t].retry \in BOOLEAN
    BY <1>2 DEF Works
  <2> QED
    BY <1>2, <2>1, ForgetIs
<1>5. from \in Nat /\ to \in Nat /\ s \in 0 .. lastSum /\ mid \in Nat
  <2>1. from \in Nat /\ to \in Nat /\ s \in 0 .. lastSum
    BY <1>2 DEF Works
  <2> HIDE DEF from, to
  <2> QED
    BY <2>1, MiddleIs
<1> HIDE DEF x, w, mid
<1>6. /\ work' \in [Actors -> Works(next - 1, lastSum)] /\ work'[t] = w
      /\ \A b \in Actors \ {t} : work'[b] = work[b]
      /\ pc'[t] = x /\ \A b \in Actors \ {t} : pc'[b] = pc[b]
  BY <1>1, <1>2, <1>4
<1>7. /\ IsFiniteSet(DOMAIN items') /\ DOMAIN items' \subseteq Nat
      /\ items' = [o \in DOMAIN items' |-> items'[o]]
      /\ \A o \in DOMAIN items' :
            \/ \E p \in DOMAIN items : items'[o] = items[p]
            \/ s \in DOMAIN summaries /\ items'[o] = SumItem(s)
  <2> HIDE DEF B, s
  <2> QED
    BY <1>1, <1>2, <1>5, InsertIs
<1>8. tainted' = tainted /\ tainted \in BOOLEAN /\ UNCHANGED <<missed, cut, redone, wiped>>
  BY <1>1, <1>2 DEF ghosts, MemoryTypes
<1>9. /\ MemoryTypes' /\ Steps' /\ Emptied' /\ Ordered' /\ Resolvable'
      /\ Recording' /\ Pending' /\ Clean'
      /\ InFlight' = InFlight /\ (Settled' => Settled) /\ pc'[Boot] = "off"
  <2>1. pc[t] \in {"replaceLeaf", "replace"} /\ Blank(work'[t]) /\ tainted' \in BOOLEAN
    BY <1>1, <1>4, <1>6, <1>8
  <2>2. (t \in Turns => x \in TurnSteps) /\ (t = Background => x \in {"idle", "condense"})
    BY <1>2, <1>3
  <2>3. \A b \in Actors \ {t} : work'[b] = work[b] \/ work'[b] = [work[b] EXCEPT !.fresh = FALSE]
    BY <1>6
  <2> QED
    BY <1>1, <1>2, <1>3, <1>6, <1>7, <1>8, <2>1, <2>2, <2>3, ItemsRewritten
<1>10. ASSUME ~tainted
       PROVE  Shape /\ OnceInOrder /\ LeafReady(t) /\ BlockReady(Background) /\ BlockReady(Boot)
  BY <1>2, <1>10, ActorsAre DEF MemoryInv, Untainted
<1>11. ASSUME ~tainted
       PROVE  Replaces(B, mid, s) /\ \A o \in B : IsMessage(items[o])
  <2>1. /\ from \in DOMAIN items /\ to \in DOMAIN items /\ from <= to
        /\ IsMessage(items[from])
        /\ \A o \in DOMAIN items : o < from => ~IsMessage(items[o])
        /\ work[t].covers = UNION {Tells(items[o]) : o \in B}
        /\ s \in DOMAIN summaries
    BY <1>1, <1>10, <1>11 DEF LeafReady
  <2>2. from \in B /\ to \in B /\ from <= mid /\ mid <= to
    <3>1. from \in B /\ to \in B
      BY <1>5, <2>1 DEF Between
    <3> HIDE DEF B, from, to
    <3> QED
      BY <1>5, <2>1, <3>1, MiddleIs DEF mid
  <2>3. \A o \in DOMAIN items : o \in Nat
    BY <1>2 DEF MemoryTypes
  <2>4. \A o \in DOMAIN items : from <= o => IsMessage(items[o])
    BY <1>5, <1>10, <1>11, <2>1, <2>3 DEF Shape
  <2>5. B \subseteq DOMAIN items /\ \A o \in B : IsMessage(items[o]) /\ from <= o /\ o <= to
    <3>1. B \subseteq DOMAIN items /\ \A o \in B : from <= o /\ o <= to
      BY <1>5 DEF Between
    <3> QED
      BY <2>4, <3>1
  <2>6. \A o \in DOMAIN items \ B : o < from \/ to < o
    BY <1>5, <2>3 DEF Between
  <2>7. /\ s # 0 /\ \A o \in DOMAIN items : items[o].sum # s
        /\ summaries[s].covers = UNION {Tells(items[o]) : o \in B}
        /\ summaries[s].depth = 0
    <3>1. work[t].depth = 0
      BY <1>1, <1>2 DEF Steps, Making
    <3> QED
      BY <1>1, <1>2, <2>1, <3>1 DEF Pending, Holding
  <2>8. mid \notin DOMAIN Without(B)
    <3>1. mid \in DOMAIN items => mid \in B
      BY <1>5, <2>2 DEF Between
    <3> QED
      BY <3>1 DEF Without
  <2>9. items' = Add(Without(B), mid, SumItem(s))
    BY <1>1, <2>1, <2>8 DEF Insert
  <2>10. \A o \in DOMAIN items : ~IsMessage(items[o]) => Depth(o) >= 0
    BY <1>2, TellsAre
  <2>11. \A o \in DOMAIN items \ B :
            \/ ~IsMessage(items[o]) /\ Depth(o) >= summaries[s].depth /\ \A p \in B : o < p
            \/ /\ \A p \in B : p < o
               /\ ~IsMessage(items[o]) => Depth(o) <= summaries[s].depth
    <3> SUFFICES ASSUME NEW o \in DOMAIN items \ B
                 PROVE  \/ ~IsMessage(items[o]) /\ Depth(o) >= 0 /\ \A p \in B : o < p
                        \/ (\A p \in B : p < o) /\ IsMessage(items[o])
      BY <2>7
    <3>1. \A p \in B : p \in Nat
      BY <2>3, <2>5
    <3>2. CASE o < from
      BY <1>5, <2>1, <2>3, <2>5, <2>10, <3>1, <3>2
    <3>3. CASE to < o
      BY <1>5, <2>1, <2>3, <2>4, <2>5, <3>1, <3>3
    <3> QED
      BY <2>6, <3>2, <3>3
  <2> QED
    BY <1>1, <1>5, <1>8, <2>1, <2>2, <2>5, <2>7, <2>9, <2>11 DEF Replaces
<1>12. ASSUME ~tainted
       PROVE  Shape' /\ OnceInOrder' /\ Remembered' = Remembered
  <2> HIDE DEF B, s
  <2> QED
    BY <1>2, <1>10, <1>11, <1>12, BlockReplaced
<1>13. Untainted'
  <2> SUFFICES ASSUME ~tainted
               PROVE  /\ \A b \in Turns : LeafReady(b)'
                      /\ \A a \in Actors : BlockReady(a)'
    BY <1>8, <1>12 DEF Untainted
  <2>1. \A b \in Turns : LeafReady(b)'
    <3>1. x \notin {"summarize", "replaceLeaf"}
      BY <1>3
    <3> QED
      BY <1>2, <1>6, <3>1 DEF LeafReady
  <2>2. BlockReady(t)'
    <3>1. x \notin Making
      BY <1>3 DEF Making
    <3> QED
      BY <1>6, <3>1 DEF BlockReady
  <2>3. BlockReady(Boot)'
    <3>1. pc'[Boot] \notin Making
      BY <1>9 DEF Making
    <3> QED
      BY <3>1 DEF BlockReady
  <2>4. BlockReady(Background)'
    <3>1. pc'[Background] = pc[Background] /\ work'[Background] = work[Background]
      BY <1>2, <1>6
    <3>2. s \notin work[Background].cands
      BY <1>1, <1>2 DEF Pending, Holding
    <3> HIDE DEF B, s
    <3> QED
      BY <1>2, <1>10, <1>11, <3>1, <3>2, BlockApart
  <2> QED
    BY <1>2, <2>1, <2>2, <2>3, <2>4
<1>14. Whole'
  BY <1>1, <1>8, <1>9, <1>12, WholeStays
<1>15. Apart => Apart'
  BY <1>7 DEF Apart, SumItem, IsMessage
<1> QED
  BY <1>9, <1>13, <1>14, <1>15 DEF MemoryInv


LEMMA ReplaceCandidatesKeeps ==
  ASSUME OneTurn, MemoryInv, NEW a \in Turns \cup {Background}, ReplaceCandidates(a)
  PROVE  MemoryInv' /\ (Apart => Apart')
<1> DEFINE v == work[a]
           from == v.from
           to == v.to
           s == v.made
           B == Standing(v.cands)
           mid == (from + to) \div 2
           far == (Min(B) + Max(B)) \div 2
           w == [NoWork EXCEPT !.base = v.base, !.retry = v.retry]
<1>1. /\ pc[a] = "replace"
      /\ items' = IF v.others THEN ReplaceItems(v.cands, s) ELSE ReplaceRange(from, to, s)
      /\ tainted' = (tainted \/ (~v.fresh /\ items' # items))
      /\ work' = [NotFresh(work, a) EXCEPT ![a] = w]
      /\ UNCHANGED <<history, next, rows, lastRow, summaries, lastSum, missed, cut, redone, wiped>>
  BY DEF ReplaceCandidates
<1>2. PICK x \in Made(a) : pc' = [pc EXCEPT ![a] = x]
  BY DEF ReplaceCandidates, Goto
<1>3. /\ a \in Actors /\ pc[Boot] = "off"
      /\ MemoryTypes /\ Steps /\ Resolvable /\ Pending
      /\ work \in [Actors -> Works(next - 1, lastSum)] /\ v \in Works(next - 1, lastSum)
      /\ pc \in [Actors -> Places] /\ lastSum \in Nat
      /\ items \in [DOMAIN items -> [row : Nat, sum : Nat]]
      /\ IsFiniteSet(DOMAIN items) /\ DOMAIN items \subseteq Nat /\ tainted \in BOOLEAN
  BY <1>1, Running DEF MemoryInv, MemoryTypes, Steps
<1>4. /\ x \in Resting /\ x \notin Making /\ x \notin {"summarize", "replaceLeaf"}
      /\ (a \in Turns => x \in TurnSteps) /\ (a = Background => x \in {"idle", "condense"})
  BY <1>2, ActorsAre DEF Made, Resting, TurnSteps, Making
<1>5. w \in Works(next - 1, lastSum) /\ Blank(w)
  <2>1. v.retry \in BOOLEAN
    BY <1>3 DEF Works
  <2> QED
    BY <1>3, <2>1, ForgetIs
<1>6. from \in Nat /\ to \in Nat /\ s \in 0 .. lastSum /\ mid \in Nat
  <2>1. from \in Nat /\ to \in Nat /\ s \in 0 .. lastSum
    BY <1>3 DEF Works
  <2> HIDE DEF from, to
  <2> QED
    BY <2>1, MiddleIs
<1>7. B \subseteq DOMAIN items /\ (B # {} => far \in Nat)
  <2>1. B \in SUBSET DOMAIN items /\ B \subseteq Nat
    BY <1>3 DEF Standing
  <2>2. IsFiniteSet(B)
    <3> HIDE DEF B
    <3> QED
      BY <1>3, <2>1, FS_Subset
  <2>3. SUFFICES ASSUME B # {} PROVE far \in Nat
    BY <2>1
  <2>4. Min(B) \in Nat /\ Max(B) \in Nat
    <3> HIDE DEF B
    <3> QED
      BY <2>1, <2>2, <2>3, MinIs, MaxIs
  <2> QED
    BY <2>4, MiddleIs
<1> HIDE DEF w, mid, far
<1>8. /\ work' \in [Actors -> Works(next - 1, lastSum)] /\ work'[a] = w
      /\ \A b \in Actors \ {a} : work'[b] = [work[b] EXCEPT !.fresh = FALSE]
      /\ pc'[a] = x /\ \A b \in Actors \ {a} : pc'[b] = pc[b]
  <2> DEFINE all == NotFresh(work, a)
  <2>1. \A b \in Actors : [work[b] EXCEPT !.fresh = FALSE] \in Works(next - 1, lastSum)
    <3> SUFFICES ASSUME NEW b \in Actors PROVE [work[b] EXCEPT !.fresh = FALSE] \in Works(next - 1, lastSum)
      OBVIOUS
    <3>1. work[b] \in Works(next - 1, lastSum)
      BY <1>3
    <3> QED
      BY <3>1 DEF Works
  <2>2. /\ all \in [Actors -> Works(next - 1, lastSum)]
        /\ \A b \in Actors \ {a} : all[b] = [work[b] EXCEPT !.fresh = FALSE]
    BY <1>3, <2>1 DEF NotFresh
  <2> HIDE DEF all
  <2>3. work' = [all EXCEPT ![a] = w]
    BY <1>1 DEF all
  <2>4. pc'[a] = x /\ \A b \in Actors \ {a} : pc'[b] = pc[b]
    BY <1>2, <1>3
  <2> QED
    BY <1>3, <1>5, <2>2, <2>3, <2>4
<1>9. /\ IsFiniteSet(DOMAIN items') /\ DOMAIN items' \subseteq Nat
      /\ items' = [o \in DOMAIN items' |-> items'[o]]
      /\ \A o \in DOMAIN items' :
            \/ \E p \in DOMAIN items : items'[o] = items[p]
            \/ s \in DOMAIN summaries /\ items'[o] = SumItem(s)
  <2>1. CASE v.others /\ B = {}
    <3>1. items' = items
      BY <1>1, <2>1 DEF ReplaceItems
    <3> QED
      BY <1>3, <3>1
  <2>2. CASE v.others /\ B # {}
    <3>1. items' = Insert(Without(B), far, s)
      BY <1>1, <2>2 DEF ReplaceItems, far
    <3> HIDE DEF B, s
    <3> QED
      BY <1>3, <1>7, <2>2, <3>1, InsertIs
  <2>3. CASE ~v.others
    <3>1. items' = Insert(Without(Between(from, to)), mid, s)
      BY <1>1, <2>3 DEF ReplaceRange, mid
    <3> HIDE DEF from, to, s
    <3> QED
      BY <1>3, <1>6, <3>1, InsertIs
  <2> QED
    BY <2>1, <2>2, <2>3
<1>10. /\ MemoryTypes' /\ Steps' /\ Emptied' /\ Ordered' /\ Resolvable'
       /\ Recording' /\ Pending' /\ Clean'
       /\ InFlight' = InFlight /\ (Settled' => Settled) /\ pc'[Boot] = "off"
  <2>1. pc[a] \in {"replaceLeaf", "replace"} /\ Blank(work'[a]) /\ tainted' \in BOOLEAN
    BY <1>1, <1>3, <1>5, <1>8
  <2>2. \A b \in Actors \ {a} : work'[b] = work[b] \/ work'[b] = [work[b] EXCEPT !.fresh = FALSE]
    BY <1>8
  <2> QED
    BY <1>1, <1>2, <1>4, <1>8, <1>9, <2>1, <2>2, ItemsRewritten
<1>11. ASSUME ~tainted
       PROVE  Shape /\ OnceInOrder /\ BlockReady(a) /\ \A t \in Turns : LeafReady(t)
  BY <1>3, <1>11 DEF MemoryInv, Untainted
<1>12. ASSUME ~tainted, v.fresh
       PROVE  Replaces(B, mid, s) /\ \A o \in B : ~IsMessage(items[o])
  <2>1. /\ B # {}
        /\ v.covers = UNION {Tells(items[o]) : o \in B}
        /\ \A o \in B : ~IsMessage(items[o]) /\ Depth(o) < v.depth
        /\ \A o \in DOMAIN items \ B :
             \/ ~IsMessage(items[o]) /\ Depth(o) >= v.depth /\ \A p \in B : o < p
             \/ \A p \in B : p < o
        /\ s \in DOMAIN summaries
        /\ ~v.others /\ from \in B /\ to \in B
        /\ \A o \in B : from <= o /\ o <= to
    BY <1>1, <1>11, <1>12 DEF BlockReady, Making
  <2>2. from <= mid /\ mid <= to
    <3>1. from <= to
      BY <2>1
    <3> HIDE DEF from, to
    <3> QED
      BY <1>6, <3>1, MiddleIs DEF mid
  <2>3. \A o \in DOMAIN items : o \in Nat
    BY <1>3
  <2>4. Between(from, to) = B
    <3>1. \A o \in B : o \in DOMAIN items /\ o \in from .. to
      BY <1>6, <1>7, <2>1, <2>3
    <3>2. \A o \in DOMAIN items : o \in from .. to => o \in B
      <4> SUFFICES ASSUME NEW o \in DOMAIN items, o \in from .. to, o \notin B PROVE FALSE
        OBVIOUS
      <4>1. o < from \/ to < o
        BY <2>1
      <4> QED
        BY <1>6, <2>3, <4>1
    <3> HIDE DEF B
    <3> QED
      BY <3>1, <3>2 DEF Between
  <2>5. /\ s # 0 /\ \A o \in DOMAIN items : items[o].sum # s
        /\ summaries[s].covers = UNION {Tells(items[o]) : o \in B}
        /\ summaries[s].depth = v.depth /\ v.depth \in Nat
    BY <1>1, <1>3, <2>1 DEF Pending, Holding, Works
  <2> HIDE DEF B
  <2>6. mid \notin DOMAIN Without(B)
    <3>1. mid \in DOMAIN items => mid \in B
      BY <1>6, <2>2, <2>4 DEF Between
    <3> QED
      BY <3>1 DEF Without
  <2>7. items' = Add(Without(B), mid, SumItem(s))
    BY <1>1, <2>1, <2>4, <2>6 DEF Insert, ReplaceRange, mid
  <2>8. \A o \in DOMAIN items \ B :
            \/ ~IsMessage(items[o]) /\ Depth(o) >= summaries[s].depth /\ \A p \in B : o < p
            \/ /\ \A p \in B : p < o
               /\ ~IsMessage(items[o]) => Depth(o) <= summaries[s].depth
    <3> SUFFICES ASSUME NEW o \in DOMAIN items \ B, \A p \in B : p < o, ~IsMessage(items[o])
                 PROVE  Depth(o) <= v.depth
      BY <2>1, <2>5
    <3>1. from < o /\ from \in DOMAIN items /\ Depth(from) < v.depth
      BY <1>7, <2>1
    <3>2. Depth(from) >= Depth(o)
      BY <1>11, <1>12, <3>1 DEF Shape
    <3>3. Depth(from) \in Nat /\ Depth(o) \in Nat
      BY <1>3, <2>1, <3>1, TellsAre
    <3> QED
      BY <2>5, <3>1, <3>2, <3>3
  <2> QED
    BY <1>1, <1>6, <1>7, <2>1, <2>2, <2>5, <2>7, <2>8 DEF Replaces
<1>13. ASSUME ~tainted, v.fresh
       PROVE  Shape' /\ OnceInOrder' /\ Remembered' = Remembered
  <2> HIDE DEF B, s
  <2> QED
    BY <1>3, <1>11, <1>12, <1>13, BlockReplaced
<1>14. ASSUME ~tainted', ~v.fresh
       PROVE  items' = items /\ rows' = rows /\ summaries' = summaries /\ history' = history /\ redone' = redone
  BY <1>1, <1>14
<1>15. ~tainted' => ~tainted
  BY <1>1
<1>16. Untainted'
  <2> SUFFICES ASSUME ~tainted'
               PROVE  /\ Shape' /\ OnceInOrder'
                      /\ \A b \in Turns : LeafReady(b)'
                      /\ \A b \in Actors : BlockReady(b)'
    BY DEF Untainted
  <2>1. Shape' /\ OnceInOrder'
    <3>1. CASE v.fresh
      BY <1>13, <1>15, <3>1
    <3>2. CASE ~v.fresh
      <4>1. Shape /\ OnceInOrder
        BY <1>11, <1>15
      <4>2. Shape'
        BY <1>14, <3>2, <4>1 DEF Shape, IsMessage, Depth
      <4>3. OnceInOrder'
        BY <1>14, <1>15, <3>2, <4>1 DEF OnceInOrder, Orderly, Tells, IsMessage
      <4> QED
        BY <4>2, <4>3
    <3> QED
      BY <3>1, <3>2
  <2>2. ASSUME NEW b \in Turns PROVE LeafReady(b)'
    <3>1. b \in Actors
      BY ActorsAre
    <3>2. CASE b = a
      BY <1>4, <1>8, <3>2 DEF LeafReady
    <3>3. CASE b # a
      <4>1. pc'[b] = pc[b] /\ work'[b] = [work[b] EXCEPT !.fresh = FALSE] /\ work[b] \in Works(next - 1, lastSum)
        BY <1>3, <1>8, <3>1, <3>3
      <4>2. /\ work'[b].from = work[b].from /\ work'[b].to = work[b].to
            /\ work'[b].covers = work[b].covers /\ work'[b].made = work[b].made
        BY <4>1 DEF Works
      <4>3. LeafReady(b)
        BY <1>11, <1>15
      <4>4. CASE v.fresh
        <5> HIDE DEF B, s
        <5> QED
          BY <1>3, <1>11, <1>12, <1>15, <4>1, <4>2, <4>3, <4>4, LeafApart
      <4>5. CASE ~v.fresh
        <5>1. items' = items /\ rows' = rows /\ summaries' = summaries
          BY <1>14, <4>5
        <5> QED
          BY <4>1, <4>2, <4>3, <5>1 DEF LeafReady, Between, Tells, IsMessage
      <4> QED
        BY <4>4, <4>5
    <3> QED
      BY <3>2, <3>3
  <2>3. ASSUME NEW b \in Actors PROVE BlockReady(b)'
    <3>1. CASE b = a
      BY <1>4, <1>8, <3>1 DEF BlockReady
    <3>2. CASE b # a
      <4>1. work'[b] = [work[b] EXCEPT !.fresh = FALSE] /\ work[b] \in Works(next - 1, lastSum)
        BY <1>3, <1>8, <3>2
      <4>2. ~work'[b].fresh
        BY <4>1 DEF Works
      <4> QED
        BY <4>2 DEF BlockReady
    <3> QED
      BY <3>1, <3>2
  <2> QED
    BY <2>1, <2>2, <2>3
<1>17. ASSUME ~tainted' PROVE ~tainted /\ Remembered' = Remembered
  <2>1. CASE v.fresh
    BY <1>13, <1>15, <1>17, <2>1
  <2>2. CASE ~v.fresh
    <3>1. items' = items /\ rows' = rows /\ summaries' = summaries
      BY <1>14, <1>17, <2>2
    <3> QED
      BY <1>15, <1>17, <3>1 DEF Remembered, Dangling, Tells, IsMessage
  <2> QED
    BY <2>1, <2>2
<1>18. Whole'
  BY <1>1, <1>10, <1>17, WholeStays
<1>19. Apart => Apart'
  BY <1>9 DEF Apart, SumItem, IsMessage
<1> QED
  BY <1>10, <1>16, <1>18, <1>19 DEF MemoryInv


-------------------------------------------------------------------------------
(* Clearing. *)

LEMMA EmptyIs ==
  /\ DOMAIN <<>> = {} /\ IsFiniteSet({}) /\ ToSet(<<>>) = {} /\ Increasing(<<>>)
  /\ \A S : <<>> \in [DOMAIN <<>> -> S]
<1>1. DOMAIN <<>> = {}
  BY EmptySeq
<1>2. \A S : <<>> \in [1 .. 0 -> S]
  <2>1. \A S : <<>> \in Seq(S) /\ Len(<<>>) = 0
    BY EmptySeq
  <2> QED
    BY <2>1
<1>3. 1 .. 0 = {}
  OBVIOUS
<1> QED
  BY <1>1, <1>2, <1>3, NoneIn, FS_EmptySet

LEMMA ClearMemoryKeeps ==
  ASSUME OneTurn, MemoryInv, NEW t \in Turns, ClearMemory(t)  PROVE  MemoryInv'
<1>1. /\ pc[t] = "idle" /\ rows' = <<>> /\ items' = <<>> /\ summaries' = <<>>
      /\ work' = NotFresh(work, t) /\ pc' = [pc EXCEPT ![t] = "clear"]
      /\ UNCHANGED <<history, next, lastRow, lastSum, missed, cut, redone, wiped, tainted>>
  BY DEF ClearMemory, Goto, ghosts
<1>2. /\ t \in Actors /\ t # Background /\ t # Boot /\ Background \in Actors /\ Boot \in Actors
      /\ \A b \in Turns : b = t
      /\ \A b \in Actors : b = t \/ b = Background \/ b = Boot
      /\ Turns \subseteq Actors
  BY ActorsAre DEF OneTurn
<1>3. /\ MemoryTypes /\ Steps /\ Ordered /\ Pending /\ Clean
      /\ work \in [Actors -> Works(next - 1, lastSum)]
      /\ pc \in [Actors -> Places] /\ lastSum \in Nat
  BY DEF MemoryInv, MemoryTypes, Steps
<1>4. /\ pc[Boot] = "off" /\ pc[Background] \in Making \cup {"idle", "condense"}
      /\ Blank(work[t]) /\ Blank(work[Boot])
  BY <1>1, <1>2, <1>3 DEF Steps, Resting
<1>5. /\ DOMAIN rows' = {} /\ DOMAIN items' = {} /\ DOMAIN summaries' = {}
  BY <1>1, EmptyIs
<1>6. \A b \in Actors : work[b].todo = <<>> /\ work[b].ids = <<>>
  BY <1>1, <1>2, <1>3, <1>4 DEF Steps, Making
<1>7. /\ work' \in [Actors -> Works(next - 1, lastSum)] /\ work'[t] = work[t]
      /\ \A b \in Actors \ {t} : ~work'[b].fresh
      /\ \A b \in Actors :
           /\ work'[b].todo = <<>> /\ work'[b].ids = <<>>
           /\ work'[b].covers = work[b].covers /\ work'[b].cands = work[b].cands
           /\ work'[b].depth = work[b].depth /\ work'[b].made = work[b].made
  <2>1. \A b \in Actors : work[b] \in Works(next - 1, lastSum)
    BY <1>3
  <2>2. work'[t] = work[t] /\ \A b \in Actors \ {t} : work'[b] = [work[b] EXCEPT !.fresh = FALSE]
    BY <1>1, <1>2 DEF NotFresh
  <2>3. ASSUME NEW b \in Actors \ {t}
        PROVE  /\ work'[b] \in Works(next - 1, lastSum) /\ ~work'[b].fresh
               /\ work'[b].todo = work[b].todo /\ work'[b].ids = work[b].ids
               /\ work'[b].covers = work[b].covers /\ work'[b].cands = work[b].cands
               /\ work'[b].depth = work[b].depth /\ work'[b].made = work[b].made
    BY <2>1, <2>2 DEF Works
  <2>4. work' = [b \in Actors |-> work'[b]]
    BY <1>1 DEF NotFresh
  <2> QED
    BY <1>2, <1>6, <2>1, <2>2, <2>3, <2>4
<1>8. /\ pc' \in [Actors -> Places] /\ pc'[t] = "clear"
      /\ \A b \in Actors \ {t} : pc'[b] = pc[b]
  <2>1. "clear" \in Places
    BY DEF Places, TurnSteps
  <2> QED
    BY <1>1, <1>2, <1>3, <2>1
<1>9. MemoryTypes'
  <2>1. UNCHANGED Known
    BY <1>1 DEF Known
  <2>2. /\ rows' \in [DOMAIN rows' -> Known]
        /\ items' \in [DOMAIN items' -> [row : Nat, sum : Nat]]
        /\ summaries' \in [DOMAIN summaries' -> [depth : Nat, tokens : Nat, covers : SUBSET Known]]
    BY <1>1, EmptyIs
  <2>3. /\ DOMAIN rows' \subseteq 1 .. lastRow /\ DOMAIN summaries' \subseteq 1 .. lastSum
        /\ DOMAIN items' \subseteq Nat /\ IsFiniteSet(DOMAIN items')
    BY <1>5, EmptyIs
  <2> QED
    BY <1>1, <1>3, <1>7, <2>1, <2>2, <2>3 DEF MemoryTypes
<1>10. Steps'
  <2>1. \A b \in Turns : pc'[b] \in TurnSteps
    BY <1>2, <1>8 DEF TurnSteps
  <2>2. pc'[Background] = pc[Background] /\ pc'[Boot] = "off"
    BY <1>2, <1>4, <1>8
  <2>3. \A b \in Actors : pc'[b] \in Resting \cup {"clear"} => Blank(work'[b])
    BY <1>3, <1>4, <1>6, <1>7, <1>8 DEF Steps, Blank
  <2>4. \A b \in Actors : pc'[b] \notin Making => work'[b].depth = 0
    <3>1. work[t].depth = 0
      BY <1>4 DEF Blank
    <3> QED
      BY <1>3, <1>7, <1>8, <3>1 DEF Steps
  <2> QED
    BY <1>4, <1>7, <1>8, <2>1, <2>2, <2>3, <2>4 DEF Steps
<1>11. Emptied'
  BY <1>1, <1>5 DEF Emptied
<1>12. Ordered'
  <2>1. Increasing(history') /\ Increasing(rows')
    BY <1>1, <1>3, EmptyIs DEF Ordered
  <2> QED
    BY <1>5, <1>7, <2>1, EmptyIs DEF Ordered
<1>13. Resolvable' /\ Recording'
  <2>1. \A b \in Actors : BeingRecorded(b)' = {}
    BY <1>7, EmptyIs DEF BeingRecorded, Recorded
  <2> QED
    BY <1>5, <2>1 DEF Resolvable, Recording
<1>14. Pending'
  <2>1. \A b \in Actors : pc'[b] \in Holding => pc[b] \in Holding
    BY <1>8 DEF Holding
  <2> QED
    BY <1>3, <1>5, <1>7, <2>1 DEF Pending
<1>15. Clean'
  <2>1. Remembered' = {}
    BY <1>5 DEF Remembered
  <2>2. \A b \in Actors : work'[b].covers \cap wiped = {} \/ Unused(b)'
    <3>1. work[t].covers = {}
      BY <1>4 DEF Blank
    <3>2. \A b \in Actors \ {t} : pc[b] \in Making => Unused(b)'
      BY <1>5, <1>8 DEF Unused
    <3>3. \A b \in Actors \ {t} : pc[b] \notin Making => work[b].covers \cap wiped = {}
      BY <1>3 DEF Clean, Unused
    <3> QED
      BY <1>7, <3>1, <3>2, <3>3
  <2>3. ToSet(history') \cap wiped' = {} /\ \A b \in Actors : ToSet(work'[b].todo) \cap wiped' = {}
    BY <1>1, <1>3, <1>7, EmptyIs DEF Clean
  <2> QED
    BY <1>1, <1>5, <2>1, <2>2, <2>3 DEF Clean, ClearedStaysCleared
<1>16. Untainted'
  <2>1. Shape' /\ OnceInOrder'
    BY <1>5 DEF Shape, OnceInOrder
  <2>2. \A b \in Turns : LeafReady(b)'
    BY <1>2, <1>8 DEF LeafReady
  <2>3. \A b \in Actors : BlockReady(b)'
    BY <1>7, <1>8 DEF BlockReady, Making
  <2> QED
    BY <2>1, <2>2, <2>3 DEF Untainted
<1>17. Whole'
  <2>1. ~Settled' /\ pc'[Boot] = "off"
    BY <1>2, <1>4, <1>8 DEF Settled
  <2> QED
    BY <2>1 DEF Whole, NothingForgotten
<1> QED
  BY <1>9, <1>10, <1>11, <1>12, <1>13, <1>14, <1>15, <1>16, <1>17 DEF MemoryInv

LEMMA ClearHistoryKeeps ==
  ASSUME OneTurn, MemoryInv, NEW t \in Turns, ClearHistory(t)  PROVE  MemoryInv'
<1>1. /\ pc[t] = "clear" /\ history' = <<>> /\ wiped' = Known
      /\ pc' = [pc EXCEPT ![t] = "idle"]
      /\ UNCHANGED <<next, rows, lastRow, items, summaries, lastSum, work, missed, cut, redone, tainted>>
  BY DEF ClearHistory, Goto, db, Known
<1>2. /\ t \in Actors /\ t # Background /\ t # Boot /\ Background \in Actors /\ Boot \in Actors
      /\ \A b \in Turns : b = t
      /\ \A b \in Actors : b = t \/ b = Background \/ b = Boot
      /\ Turns \subseteq Actors
  BY ActorsAre DEF OneTurn
<1>3. /\ MemoryTypes /\ Steps /\ Ordered /\ Pending /\ Clean /\ Resolvable /\ Recording
      /\ pc \in [Actors -> Places] /\ Untainted /\ Emptied
  BY DEF MemoryInv, Steps
<1>4. /\ rows = <<>> /\ items = <<>>
      /\ \A a \in Actors : /\ work[a].cands \cap DOMAIN summaries = {}
                           /\ pc[a] = "replace" => work[a].made \notin DOMAIN summaries
  BY <1>1, <1>3 DEF Emptied
<1>5. DOMAIN rows = {} /\ DOMAIN items = {}
  BY <1>4, EmptyIs
<1>6. /\ pc[Boot] = "off" /\ pc[Background] \in Making \cup {"idle", "condense"}
      /\ Blank(work[t]) /\ Blank(work[Boot])
      /\ pc[Background] \notin Making => Blank(work[Background])
  BY <1>1, <1>2, <1>3 DEF Steps, Resting
<1>7. \A b \in Actors : work[b].todo = <<>> /\ work[b].ids = <<>>
  BY <1>1, <1>2, <1>3, <1>6 DEF Steps, Making
<1>8. /\ pc' \in [Actors -> Places] /\ pc'[t] = "idle"
      /\ \A b \in Actors \ {t} : pc'[b] = pc[b]
  <2>1. "idle" \in Places
    BY DEF Places, TurnSteps
  <2> QED
    BY <1>1, <1>2, <1>3, <2>1
<1>9. MemoryTypes'
  <2>1. UNCHANGED Known
    BY <1>1 DEF Known
  <2>2. history' \in Seq(Known) /\ wiped' \subseteq Known
    BY <1>1, EmptySeq
  <2> QED
    BY <1>1, <1>3, <2>1, <2>2 DEF MemoryTypes
<1>10. Steps'
  <2>1. \A b \in Turns : pc'[b] \in TurnSteps
    BY <1>2, <1>8 DEF TurnSteps
  <2>2. pc'[Background] = pc[Background] /\ pc'[Boot] = "off"
    BY <1>2, <1>6, <1>8
  <2>3. \A b \in Actors : pc'[b] \in Resting \cup {"clear"} => Blank(work[b])
    BY <1>3, <1>6, <1>8 DEF Steps
  <2>4. \A b \in Actors : pc'[b] \notin Making => work[b].depth = 0
    <3>1. work[t].depth = 0
      BY <1>6 DEF Blank
    <3> QED
      BY <1>3, <1>8, <3>1 DEF Steps
  <2> QED
    BY <1>1, <1>6, <1>7, <1>8, <2>1, <2>2, <2>3, <2>4 DEF Steps, Blank
<1>11. Emptied'
  BY <1>2, <1>8 DEF Emptied
<1>12. Ordered'
  BY <1>1, <1>3, EmptyIs DEF Ordered
<1>13. Resolvable'
  BY <1>1, <1>5 DEF Resolvable
<1>14. Recording'
  <2>1. \A b \in Actors : BeingRecorded(b)' = {}
    BY <1>1, <1>5, <1>7, EmptyIs DEF BeingRecorded, Recorded
  <2> QED
    BY <1>1, <1>5, <2>1 DEF Recording
<1>15. Pending'
  <2>1. \A b \in Actors : pc'[b] \in Holding => pc[b] \in Holding
    BY <1>8 DEF Holding
  <2> QED
    BY <1>1, <1>3, <2>1 DEF Pending
<1>16. Clean'
  <2>1. Remembered' = {}
    BY <1>1, <1>5 DEF Remembered
  <2>2. \A b \in Actors : work'[b].covers \cap wiped' = {} \/ Unused(b)'
    <3>1. work[t].covers = {} /\ work[Boot].covers = {}
      BY <1>6 DEF Blank
    <3>2. pc[Background] \notin Making => work[Background].covers = {}
      BY <1>6 DEF Blank
    <3>3. pc[Background] \in Making => Unused(Background)'
      BY <1>1, <1>2, <1>4, <1>8 DEF Unused
    <3> QED
      BY <1>1, <1>2, <3>1, <3>2, <3>3
  <2>3. ToSet(history') \cap wiped' = {} /\ \A b \in Actors : ToSet(work'[b].todo) \cap wiped' = {}
    BY <1>1, <1>7, EmptyIs
  <2> QED
    BY <1>1, <1>5, <2>1, <2>2, <2>3 DEF Clean, ClearedStaysCleared
<1>17. Untainted'
  <2> SUFFICES ASSUME ~tainted
               PROVE  /\ Shape' /\ OnceInOrder'
                      /\ \A b \in Turns : LeafReady(b)'
                      /\ \A b \in Actors : BlockReady(b)'
    BY <1>1 DEF Untainted
  <2>1. Shape' /\ OnceInOrder'
    BY <1>1, <1>5 DEF Shape, OnceInOrder
  <2>2. \A b \in Turns : LeafReady(b)'
    BY <1>2, <1>8 DEF LeafReady
  <2>3. \A b \in Actors : BlockReady(b)'
    <3> SUFFICES ASSUME NEW b \in Actors PROVE BlockReady(b)'
      OBVIOUS
    <3>1. CASE b = t
      BY <1>8, <3>1 DEF BlockReady, Making
    <3>2. CASE b # t
      <4>1. pc'[b] = pc[b] /\ work' = work /\ items' = items /\ rows' = rows /\ summaries' = summaries
        BY <1>1, <1>8, <3>2
      <4>2. BlockReady(b)
        BY <1>3 DEF Untainted
      <4> QED
        BY <4>1, <4>2 DEF BlockReady, Standing, Tells, IsMessage, Depth
    <3> QED
      BY <3>1, <3>2
  <2> QED
    BY <2>1, <2>2, <2>3
<1>18. Whole'
  <2>1. ToSet(history') = {} /\ pc'[Boot] = "off"
    BY <1>1, <1>2, <1>6, <1>8, EmptyIs
  <2> QED
    BY <2>1 DEF Whole, NothingForgotten
<1> QED
  BY <1>9, <1>10, <1>11, <1>12, <1>13, <1>14, <1>15, <1>16, <1>17, <1>18 DEF MemoryInv


-------------------------------------------------------------------------------
(* A restart. *)

Place(r) == Rank(DOMAIN rows, r)
Matching(p) == \A r \in DOMAIN rows : Place(r) <= p => rows[r] = history[Place(r)]
ReadRows == Min({Cardinality(DOMAIN rows), Len(history)})
Match == Max({p \in 0 .. ReadRows : Matching(p)})
OldRows == IF Match = ReadRows THEN {} ELSE {r \in DOMAIN rows : Place(r) > Match}
Delta == SubSeq(history, Match + 1, Len(history))

LEMMA BootstrapIs ==
  ASSUME Bootstrap
  PROVE  /\ pc[Boot] = "boot"
         /\ rows' = [r \in DOMAIN rows \ OldRows |-> rows[r]]
         /\ items' = Without({o \in DOMAIN items : items[o].row \in OldRows})
         /\ pc' = [pc EXCEPT ![Boot] = IF Delta = <<>> THEN "done" ELSE "add"]
         /\ work' = [work EXCEPT ![Boot].todo = Delta]
         /\ UNCHANGED <<history, next, lastRow, summaries, lastSum, counts, ghosts>>
BY DEF Bootstrap, Goto, OldRows, Delta, Match, ReadRows, Matching, Place, Rank

\* The rows that stay are those of the messages before the first that is recorded anew.
LEMMA DeltaIs ==
  ASSUME MemoryTypes, Ordered
  PROVE  /\ Match \in 0 .. Len(history)
         /\ Delta \in Seq(Known) /\ Increasing(Delta)
         /\ ToSet(Delta) = {history[j] : j \in Match + 1 .. Len(history)}
         /\ Delta # <<>> => \A r \in DOMAIN rows \ OldRows : Place(r) <= Match
         /\ \A r \in DOMAIN rows : Place(r) <= Match => rows[r] = history[Place(r)]
         /\ \A r \in DOMAIN rows : Place(r) \in Nat \ {0}
         /\ \A r \in OldRows : r \in DOMAIN rows /\ (rows[r] \in ToSet(history) => rows[r] \in ToSet(Delta))
         /\ rows = <<>> => ToSet(Delta) = ToSet(history)
<1> DEFINE D == DOMAIN rows
           n == Cardinality(D)
           len == Len(history)
<1>1. /\ history \in Seq(Known) /\ len \in Nat /\ DOMAIN history = 1 .. len
      /\ \A j \in 1 .. len : history[j] \in Known /\ history[j] \in Nat
      /\ \A i, j \in 1 .. len : i < j => history[i] < history[j]
  <2>1. history \in Seq(Known) /\ Known \subseteq Nat
    BY DEF MemoryTypes, Known
  <2>2. len \in Nat /\ DOMAIN history = 1 .. len /\ \A j \in 1 .. len : history[j] \in Known
    BY <2>1
  <2>3. \A i, j \in DOMAIN history : i < j => history[i] < history[j]
    BY DEF Ordered, Increasing
  <2> HIDE DEF len
  <2> QED
    BY <2>1, <2>2, <2>3
<1>2. IsFiniteSet(D) /\ D \subseteq Nat
  <2>1. lastRow \in Nat /\ D \in SUBSET (1 .. lastRow)
    BY DEF MemoryTypes
  <2>2. IsFiniteSet(1 .. lastRow) /\ D \subseteq Nat
    BY <2>1, FS_Interval
  <2> HIDE DEF D
  <2>3. IsFiniteSet(D)
    BY <2>1, <2>2, FS_Subset
  <2> QED
    BY <2>2, <2>3
<1>3. /\ n \in Nat
      /\ \A r \in D : Place(r) \in 1 .. n
      /\ \A q, r \in D : q < r => Place(q) < Place(r)
  <2> HIDE DEF D
  <2> QED
    BY <1>2, RankIs DEF Place, D
<1>4. \A k \in 1 .. n : \E r \in D : Place(r) = k
  <2> HIDE DEF D
  <2> QED
    BY <1>2, RankTaken DEF Place, D
<1>5. \A q, r \in D : rows[q] = rows[r] => q = r
  <2>1. Increasing(rows) /\ \A r \in D : rows[r] \in Nat
    BY DEF Ordered, MemoryTypes, Known
  <2> QED
    BY <1>2, <2>1 DEF Increasing
<1> HIDE DEF n, len
<1>6. ReadRows \in {n, len} /\ ReadRows \in Nat /\ ReadRows <= n /\ ReadRows <= len
  <2> DEFINE S == {n, len}
  <2>1. S \subseteq Nat /\ S # {} /\ n \in S /\ len \in S
    BY <1>1, <1>3
  <2>2. ReadRows = Min(S)
    BY DEF ReadRows, n, len
  <2>3. ReadRows \in S /\ \A y \in S : ReadRows <= y
    <3> HIDE DEF S
    <3> QED
      BY <2>1, <2>2, MinIs
  <2> QED
    BY <2>1, <2>3
<1>7. Match \in 0 .. ReadRows /\ Matching(Match)
  <2> DEFINE S == {p \in 0 .. ReadRows : Matching(p)}
  <2>1. S \in SUBSET (0 .. ReadRows) /\ S \subseteq Nat
    BY <1>6
  <2>2. 0 \in S
    <3>1. Matching(0)
      BY <1>3 DEF Matching
    <3> QED
      BY <1>6, <3>1
  <2>3. IsFiniteSet(0 .. ReadRows)
    BY <1>6, FS_Interval
  <2>4. Match = Max(S)
    BY DEF Match
  <2>5. Match \in S
    <3> HIDE DEF S
    <3>1. IsFiniteSet(S)
      BY <2>1, <2>3, FS_Subset
    <3> QED
      BY <2>1, <2>2, <2>4, <3>1, MaxIs
  <2> QED
    BY <2>5
<1>8. Match \in Nat /\ Match <= len /\ Match \in 0 .. len
  BY <1>1, <1>6, <1>7
<1>9. /\ Delta \in Seq(Known) /\ Len(Delta) = len - Match /\ DOMAIN Delta = 1 .. len - Match
      /\ \A i \in 1 .. len - Match : Delta[i] = history[Match + i]
  <2>1. Delta = SubSeq(history, Match + 1, len)
    BY DEF Delta, len
  <2>2. \A i \in Match + 1 .. len : history[i] \in Known
    BY <1>1, <1>8
  <2>3. Delta = [i \in 1 .. len - Match |-> history[Match + i]]
    BY <1>1, <1>8, <2>1
  <2>4. \A i \in 1 .. len - Match : Match + i \in Match + 1 .. len
    BY <1>1, <1>8
  <2>5. Delta \in [1 .. len - Match -> Known] /\ len - Match \in Nat
    BY <1>1, <1>8, <2>2, <2>3, <2>4
  <2>6. Delta \in Seq(Known)
    BY <2>5
  <2> QED
    BY <2>3, <2>5, <2>6
<1>10. Increasing(Delta)
  BY <1>1, <1>8, <1>9 DEF Increasing
<1>11. ToSet(Delta) = {history[j] : j \in Match + 1 .. len}
  <2>1. \A i \in 1 .. len - Match : Match + i \in Match + 1 .. len
    BY <1>1, <1>8
  <2>2. \A j \in Match + 1 .. len : j - Match \in 1 .. len - Match /\ Match + (j - Match) = j
    BY <1>1, <1>8
  <2>3. ToSet(Delta) = {Delta[i] : i \in DOMAIN Delta}
    BY <1>9 DEF ToSet
  <2>4. \A m \in ToSet(Delta) : \E j \in Match + 1 .. len : m = history[j]
    BY <1>9, <2>1, <2>3
  <2>5. \A j \in Match + 1 .. len : history[j] \in ToSet(Delta)
    BY <1>9, <2>2, <2>3
  <2> QED
    BY <2>4, <2>5
<1>12. ASSUME Delta # <<>>, NEW r \in D \ OldRows  PROVE Place(r) <= Match
  <2>1. Match < len
    BY <1>1, <1>8, <1>9, <1>12
  <2>2. CASE Match = ReadRows
    BY <1>1, <1>3, <1>6, <1>8, <2>1, <2>2
  <2>3. CASE Match # ReadRows
    BY <1>3, <1>8, <1>12, <2>3 DEF OldRows
  <2> QED
    BY <2>2, <2>3
<1>13. ASSUME NEW r \in OldRows
       PROVE  r \in D /\ (rows[r] \in ToSet(history) => rows[r] \in ToSet(Delta))
  <2>1. r \in D /\ Place(r) > Match
    BY DEF OldRows
  <2>2. SUFFICES ASSUME rows[r] \in ToSet(history) PROVE rows[r] \in ToSet(Delta)
    BY <2>1
  <2>3. PICK j \in 1 .. len : rows[r] = history[j]
    BY <1>1, <2>2 DEF ToSet
  <2>4. ~(j <= Match)
    <3> SUFFICES ASSUME j <= Match PROVE FALSE
      OBVIOUS
    <3>1. j \in 1 .. n
      BY <1>3, <1>6, <1>7
    <3>2. PICK q \in D : Place(q) = j
      BY <1>4, <3>1
    <3>3. rows[q] = history[j]
      BY <1>7, <3>2 DEF Matching
    <3>4. q = r
      BY <1>5, <2>1, <2>3, <3>2, <3>3
    <3> QED
      BY <1>8, <2>1, <3>2, <3>4
  <2>5. j \in Match + 1 .. len
    BY <1>1, <1>8, <2>4
  <2> QED
    BY <1>11, <2>3, <2>5
<1>14. ASSUME rows = <<>> PROVE ToSet(Delta) = ToSet(history)
  <2>1. n = 0
    BY <1>14, EmptyIs, FS_EmptySet DEF n
  <2>2. Match = 0
    BY <1>6, <1>7, <2>1
  <2>3. Match + 1 .. len = 1 .. len
    BY <2>2
  <2>4. ToSet(history) = {history[j] : j \in 1 .. len}
    BY <1>1 DEF ToSet
  <2> QED
    BY <1>11, <2>3, <2>4
<1> QED
  BY <1>3, <1>7, <1>8, <1>9, <1>10, <1>11, <1>12, <1>13, <1>14 DEF len, Matching


LEMMA BootstrapKeeps ==
  ASSUME OneTurn, MemoryInv, Apart, Bootstrap  PROVE  MemoryInv'
<1> DEFINE w == [work[Boot] EXCEPT !.todo = Delta]
           x == IF Delta = <<>> THEN "done" ELSE "add"
           gone == {o \in DOMAIN items : items[o].row \in OldRows}
<1>1. /\ pc[Boot] = "boot"
      /\ rows' = [r \in DOMAIN rows \ OldRows |-> rows[r]]
      /\ items' = Without(gone)
      /\ pc' = [pc EXCEPT ![Boot] = x] /\ work' = [work EXCEPT ![Boot] = w]
      /\ UNCHANGED <<history, next, lastRow, summaries, lastSum, missed, cut, redone, wiped, tainted>>
  BY BootstrapIs DEF ghosts
<1>2. /\ Boot \in Actors /\ Background \in Actors /\ Turns \subseteq Actors
      /\ Background # Boot /\ Boot \notin Turns
      /\ \A b \in Actors : b = Boot \/ b = Background \/ b \in Turns
  BY ActorsAre DEF Actors
<1>3. /\ MemoryTypes /\ Steps /\ Ordered /\ Clean /\ Resolvable /\ Untainted /\ Whole
      /\ work \in [Actors -> Works(next - 1, lastSum)] /\ pc \in [Actors -> Places]
  BY DEF MemoryInv, MemoryTypes, Steps
<1>4. /\ pc[Background] = "idle" /\ \A t \in Turns : pc[t] = "off"
      /\ \A b \in Actors : pc[b] \in {"boot", "idle", "off"} /\ Blank(work[b])
  BY <1>1, <1>2, <1>3 DEF Steps, Resting
<1>5. /\ Match \in 0 .. Len(history)
      /\ Delta \in Seq(Known) /\ Increasing(Delta)
      /\ ToSet(Delta) = {history[j] : j \in Match + 1 .. Len(history)}
      /\ Delta # <<>> => \A r \in DOMAIN rows \ OldRows : Place(r) <= Match
      /\ \A r \in DOMAIN rows : Place(r) <= Match => rows[r] = history[Place(r)]
      /\ \A r \in DOMAIN rows : Place(r) \in Nat \ {0}
      /\ \A r \in OldRows : r \in DOMAIN rows /\ (rows[r] \in ToSet(history) => rows[r] \in ToSet(Delta))
      /\ rows = <<>> => ToSet(Delta) = ToSet(history)
  BY <1>3, DeltaIs
<1>6. /\ history \in Seq(Known) /\ Len(history) \in Nat /\ Match \in Nat
      /\ ToSet(history) = {history[j] : j \in 1 .. Len(history)}
      /\ \A j \in 1 .. Len(history) : history[j] \in Nat
      /\ \A i, j \in 1 .. Len(history) : i < j => history[i] < history[j]
  <2>1. history \in Seq(Known) /\ Known \subseteq Nat
    BY <1>3 DEF MemoryTypes, Known
  <2>2. /\ Len(history) \in Nat /\ DOMAIN history = 1 .. Len(history)
        /\ \A j \in 1 .. Len(history) : history[j] \in Known
    BY <2>1
  <2>3. \A i, j \in 1 .. Len(history) : i < j => history[i] < history[j]
    BY <1>3, <2>2 DEF Ordered, Increasing
  <2>4. ToSet(history) = {history[j] : j \in 1 .. Len(history)}
    BY <2>2 DEF ToSet
  <2>5. \A j \in 1 .. Len(history) : history[j] \in Nat
    BY <2>1, <2>2
  <2> HIDE DEF gone, w, x
  <2> QED
    BY <1>5, <2>1, <2>2, <2>3, <2>4, <2>5
<1>7. /\ x \in {"add", "done"} /\ (x = "done" => Delta = <<>>)
      /\ x \in Places /\ x \notin Making \cup Holding \cup {"clear", "boot", "summarize"}
  BY DEF Places, TurnSteps, Making, Holding
<1> HIDE DEF x
<1>8. /\ w \in Works(next - 1, lastSum) /\ w.todo = Delta
      /\ w.ids = <<>> /\ w.covers = {} /\ w.cands = {} /\ w.depth = 0
  <2>1. work[Boot] \in Works(next - 1, lastSum) /\ Delta \in Seq(1 .. next - 1) /\ Blank(work[Boot])
    BY <1>2, <1>3, <1>4, <1>5 DEF Known
  <2> QED
    BY <2>1 DEF Works, Blank
<1> HIDE DEF w
<1>9. /\ work' \in [Actors -> Works(next - 1, lastSum)] /\ work'[Boot] = w
      /\ \A b \in Actors \ {Boot} : work'[b] = work[b]
      /\ pc' \in [Actors -> Places] /\ pc'[Boot] = x
      /\ \A b \in Actors \ {Boot} : pc'[b] = pc[b]
  BY <1>1, <1>2, <1>3, <1>7, <1>8
<1>10. /\ \A b \in Actors : work'[b].ids = <<>> /\ work'[b].covers = {} /\ work'[b].cands = {} /\ work'[b].depth = 0
       /\ \A b \in Actors \ {Boot} : work'[b].todo = <<>>
  BY <1>4, <1>8, <1>9 DEF Blank
<1>11. /\ DOMAIN rows' = DOMAIN rows \ OldRows /\ \A r \in DOMAIN rows' : rows'[r] = rows[r]
       /\ DOMAIN items' = DOMAIN items \ gone
       /\ items' = [o \in DOMAIN items' |-> items[o]]
       /\ \A o \in DOMAIN items' : o \in DOMAIN items /\ items'[o] = items[o] /\ items[o].row \notin OldRows
  <2>1. /\ DOMAIN items' = DOMAIN items \ gone
        /\ items' = [o \in DOMAIN items' |-> items[o]]
    BY <1>1 DEF Without
  <2> QED
    BY <1>1, <2>1
<1>12. MemoryTypes'
  <2>1. UNCHANGED Known
    BY <1>1 DEF Known
  <2>2. \A r \in DOMAIN rows : rows[r] \in Known
    BY <1>3 DEF MemoryTypes
  <2>3. rows' \in [DOMAIN rows' -> Known] /\ DOMAIN rows' \subseteq 1 .. lastRow
    BY <1>1, <1>3, <1>11, <2>2 DEF MemoryTypes
  <2>4. \A o \in DOMAIN items : items[o] \in [row : Nat, sum : Nat]
    BY <1>3 DEF MemoryTypes
  <2>5. items' \in [DOMAIN items' -> [row : Nat, sum : Nat]] /\ DOMAIN items' \subseteq Nat
    BY <1>3, <1>11, <2>4 DEF MemoryTypes
  <2>6. IsFiniteSet(DOMAIN items')
    <3>1. DOMAIN items' \in SUBSET DOMAIN items /\ IsFiniteSet(DOMAIN items)
      BY <1>3, <1>11 DEF MemoryTypes
    <3> QED
      BY <3>1, FS_Subset
  <2> QED
    BY <1>1, <1>3, <1>9, <2>1, <2>3, <2>5, <2>6 DEF MemoryTypes
<1>13. Steps'
  <2>1. /\ pc'[Background] = "idle" /\ \A t \in Turns : pc'[t] = "off" /\ pc'[t] \in TurnSteps
    BY <1>2, <1>4, <1>9 DEF TurnSteps
  <2>2. \A b \in Actors : pc'[b] \in Resting \cup {"clear"} => Blank(work'[b])
    <3>1. x \in Resting \cup {"clear"} => Delta = <<>>
      BY <1>7 DEF Resting
    <3>2. \A b \in Actors \ {Boot} : Blank(work'[b])
      BY <1>4, <1>9
    <3> QED
      BY <1>8, <1>9, <3>1, <3>2 DEF Blank
  <2>3. \A b \in Actors : pc'[b] # "add" => work'[b].todo = <<>> /\ work'[b].ids = <<>>
    BY <1>7, <1>8, <1>9, <1>10
  <2> QED
    BY <1>7, <1>9, <1>10, <2>1, <2>2, <2>3 DEF Steps
<1>14. Emptied'
  <2>1. \A t \in Turns : pc'[t] # "clear"
    BY <1>2, <1>4, <1>9
  <2> QED
    BY <2>1 DEF Emptied
<1>15. Ordered'
  <2>1. Increasing(history') /\ Increasing(rows')
    BY <1>1, <1>3, <1>11 DEF Ordered, Increasing
  <2>2. ASSUME NEW r \in DOMAIN rows', NEW m \in ToSet(Delta) PROVE rows'[r] < m
    <3>1. PICK j \in Match + 1 .. Len(history) : m = history[j]
      BY <1>5
    <3>2. Delta # <<>>
      BY NoneIn
    <3>3. r \in DOMAIN rows /\ Place(r) <= Match /\ Place(r) \in Nat \ {0} /\ rows[r] = history[Place(r)]
      BY <1>5, <1>11, <3>2
    <3>4. Place(r) \in 1 .. Len(history) /\ j \in 1 .. Len(history) /\ Place(r) < j
      BY <1>5, <1>6, <3>1, <3>3
    <3> QED
      BY <1>6, <1>11, <3>1, <3>3, <3>4
  <2>3. \A b \in Actors : work'[b].todo = Delta \/ work'[b].todo = <<>>
    BY <1>8, <1>9, <1>10
  <2> QED
    BY <1>5, <1>10, <2>1, <2>2, <2>3, NoneIn DEF Ordered
<1>16. Resolvable'
  <2>1. \A o \in DOMAIN items : ~Dangling(items[o])
    BY <1>3 DEF Resolvable
  <2>2. \A o \in DOMAIN items' : ~Dangling(items[o])'
    BY <1>1, <1>11, <2>1 DEF Dangling, IsMessage
  <2> QED
    BY <2>2 DEF Resolvable
<1>17. /\ BeingRecorded(Boot)' = ToSet(Delta)
       /\ \A b \in Actors \ {Boot} : BeingRecorded(b)' = {}
  BY <1>2, <1>8, <1>9, <1>10, NoneIn DEF BeingRecorded, Recorded
<1>18. Recording'
  <2>1. \A m \in ToSet(history), k \in ToSet(Delta) : m >= k => m \in ToSet(Delta)
    <3> SUFFICES ASSUME NEW m \in ToSet(history), NEW k \in ToSet(Delta), m >= k
                 PROVE  m \in ToSet(Delta)
      OBVIOUS
    <3>1. PICK j \in Match + 1 .. Len(history) : k = history[j]
      BY <1>5
    <3>2. PICK i \in 1 .. Len(history) : m = history[i]
      BY <1>6
    <3>3. ~(i < j)
      <4>1. j \in 1 .. Len(history) /\ history[i] \in Nat /\ history[j] \in Nat
        BY <1>6, <3>1, <3>2
      <4> QED
        BY <1>6, <3>1, <3>2, <4>1
    <3>4. i \in Match + 1 .. Len(history)
      BY <1>6, <3>1, <3>2, <3>3
    <3> QED
      BY <1>5, <3>2, <3>4
  <2>2. \A b \in Actors : \A m \in ToSet(history'), k \in BeingRecorded(b)' : m >= k => m \in BeingRecorded(b)'
    BY <1>1, <1>17, <2>1
  <2>3. \A b \in Turns : b \in Actors \ {Boot}
    BY <1>2
  <2> QED
    BY <1>10, <1>17, <2>2, <2>3, NoneIn DEF Recording
<1>19. Pending'
  <2>1. \A b \in Actors : pc'[b] \notin Holding
    BY <1>4, <1>7, <1>9 DEF Holding
  <2> QED
    BY <2>1 DEF Pending
<1>20. \A o \in DOMAIN items' : Tells(items[o])' = Tells(items[o])
  <2> SUFFICES ASSUME NEW o \in DOMAIN items' PROVE Tells(items[o])' = Tells(items[o])
    OBVIOUS
  <2>1. o \in DOMAIN items /\ items'[o] = items[o] /\ summaries' = summaries
    BY <1>1, <1>11
  <2>2. IsMessage(items[o]) => rows'[items[o].row] = rows[items[o].row]
    BY <1>3, <1>11, <2>1, TellsAre
  <2> QED
    BY <2>1, <2>2 DEF Tells, IsMessage
<1>21. /\ Remembered = UNION {Tells(items[o]) : o \in DOMAIN items}
       /\ Remembered' = UNION {Tells(items[o])' : o \in DOMAIN items'}
  <2>1. Remembered' = UNION {Tells(items[o])' : o \in DOMAIN items'}
    BY <1>16 DEF Remembered, Resolvable
  <2> QED
    BY <1>3, <2>1, TellsAre
<1>22. Clean'
  <2>1. Remembered' \subseteq Remembered
    BY <1>11, <1>20, <1>21
  <2>2. ToSet(Delta) \subseteq ToSet(history)
    <3>1. \A j \in Match + 1 .. Len(history) : j \in 1 .. Len(history)
      BY <1>6
    <3> QED
      BY <1>5, <1>6, <3>1
  <2>3. \A b \in Actors : ToSet(work'[b].todo) \cap wiped = {}
    <3>1. ToSet(Delta) \cap wiped = {}
      BY <1>3, <2>2 DEF Clean
    <3> QED
      BY <1>8, <1>9, <1>10, <3>1, NoneIn
  <2>4. Remembered' \cap wiped = {}
    BY <1>3, <2>1 DEF Clean, ClearedStaysCleared
  <2>5. \A r \in DOMAIN rows' : rows'[r] \notin wiped
    BY <1>3, <1>11 DEF Clean
  <2> QED
    BY <1>1, <1>3, <1>10, <2>3, <2>4, <2>5 DEF Clean, ClearedStaysCleared
<1>23. Untainted'
  <2> SUFFICES ASSUME ~tainted
               PROVE  /\ Shape' /\ OnceInOrder'
                      /\ \A b \in Turns : LeafReady(b)'
                      /\ \A b \in Actors : BlockReady(b)'
    BY <1>1 DEF Untainted
  <2>1. Shape /\ OnceInOrder
    BY <1>3 DEF Untainted
  <2>2. Shape'
    <3>1. \A o \in DOMAIN items' : Depth(o)' = Depth(o)
      BY <1>1, <1>11 DEF Depth
    <3> QED
      BY <1>11, <2>1, <3>1 DEF Shape, IsMessage
  <2>3. OnceInOrder'
    <3>1. \A o \in DOMAIN items' : Orderly(items[o])' = Orderly(items[o])
      BY <1>1, <1>20 DEF Orderly
    <3>2. \A o, p \in DOMAIN items : o < p => \A m \in Orderly(items[o]), n \in Orderly(items[p]) : m < n
      BY <2>1 DEF OnceInOrder
    <3>3. \A o, p \in DOMAIN items' : o < p => \A m \in Orderly(items[o])', n \in Orderly(items[p])' : m < n
      BY <1>11, <3>1, <3>2
    <3> QED
      BY <3>3 DEF OnceInOrder
  <2>4. \A b \in Turns : LeafReady(b)'
    BY <1>2, <1>4, <1>9 DEF LeafReady
  <2>5. \A b \in Actors : BlockReady(b)'
    BY <1>4, <1>7, <1>9 DEF BlockReady, Making
  <2> QED
    BY <2>2, <2>3, <2>4, <2>5
<1>24. Whole'
  <2>1. pc'[Boot] # "boot"
    BY <1>7, <1>9
  <2>2. ToSet(Delta) \subseteq InFlight'
    <3>1. ToSet(work'[Boot].todo) = ToSet(Delta)
      BY <1>8, <1>9
    <3> QED
      BY <1>2, <3>1 DEF InFlight
  <2>3. ASSUME ~tainted, NEW m \in ToSet(history)
        PROVE  m \in Remembered' \cup InFlight' \cup missed \cup cut
    <3>1. CASE rows = <<>>
      BY <1>5, <2>2, <3>1
    <3>2. CASE rows # <<>>
      <4>1. m \in Remembered \cup missed \cup cut
        BY <1>1, <1>3, <2>3, <3>2 DEF Whole
      <4>2. SUFFICES ASSUME m \in Remembered, m \notin ToSet(Delta)
                     PROVE  m \in Remembered'
        BY <2>2, <4>1
      <4>3. PICK o \in DOMAIN items : m \in Tells(items[o])
        BY <1>21, <4>2
      <4>4. items[o].row \notin OldRows
        <5>1. CASE IsMessage(items[o])
          <6>1. m = rows[items[o].row]
            BY <1>3, <4>3, <5>1, TellsAre
          <6> QED
            BY <1>5, <2>3, <4>2, <6>1
        <5>2. CASE ~IsMessage(items[o])
          <6>1. items[o].row = 0
            BY <5>2 DEF Apart
          <6>2. 0 \notin DOMAIN rows
            BY <1>3 DEF MemoryTypes
          <6> QED
            BY <1>5, <6>1, <6>2
        <5> QED
          BY <5>1, <5>2
      <4>5. o \in DOMAIN items'
        BY <1>11, <4>4
      <4> QED
        BY <1>20, <1>21, <4>3, <4>5
    <3> QED
      BY <3>1, <3>2
  <2>4. NothingForgotten'
    BY <1>1, <2>3 DEF NothingForgotten
  <2> QED
    BY <2>1, <2>4 DEF Whole
<1> QED
  BY <1>12, <1>13, <1>14, <1>15, <1>16, <1>18, <1>19, <1>22, <1>23, <1>24 DEF MemoryInv


-------------------------------------------------------------------------------
(* All steps. *)

LEMMA ApartKeeps ==
  ASSUME OneTurn, MemoryInv, Apart, MemoryNext  PROVE  Apart'
<1>1. ASSUME UNCHANGED items PROVE Apart'
  BY <1>1 DEF Apart, IsMessage
<1>2. ASSUME NEW t \in Turns, Turn(t) PROVE Apart'
  <2>1. CASE ReplaceLeaf(t)
    BY <2>1, ReplaceLeafKeeps
  <2>2. CASE ClearMemory(t)
    <3>1. DOMAIN items' = {}
      BY <2>2, EmptyIs DEF ClearMemory
    <3> QED
      BY <3>1 DEF Apart
  <2>3. CASE ~ReplaceLeaf(t) /\ ~ClearMemory(t)
    <3>1. UNCHANGED items
      BY <1>2, <2>3 DEF Turn, Begin, End, Abort, Store, StoreOnly, CompactContext, UnderBudget, SelectLeaf,
         Summarize, CreateSummary, StartCondensing, ClearHistory, db
    <3> QED
      BY <1>1, <3>1
  <2> QED
    BY <2>1, <2>2, <2>3
<1>3. ASSUME NEW a \in Actors, Record(a) PROVE Apart'
  <2>1. CASE AppendContext(a)
    <3>1. \A o \in DOMAIN items' : \/ o \in DOMAIN items /\ items'[o] = items[o]
                                   \/ items'[o].sum = 0
      BY <2>1 DEF AppendContext
    <3> QED
      BY <3>1 DEF Apart, IsMessage
  <2>2. CASE ~AppendContext(a)
    <3>1. UNCHANGED items
      BY <1>3, <2>2 DEF Record, AddRow, IngestFails, db
    <3> QED
      BY <1>1, <3>1
  <2> QED
    BY <2>1, <2>2
<1>4. ASSUME NEW a \in Turns \cup {Background}, Condense(a) PROVE Apart'
  <2>1. CASE ReplaceCandidates(a)
    BY <2>1, ReplaceCandidatesKeeps
  <2>2. CASE ~ReplaceCandidates(a)
    <3>1. UNCHANGED items
      BY <1>4, <2>2 DEF Condense, SelectCandidates, Merge, CreateSummary, Locate, CompactFails, db
    <3> QED
      BY <1>1, <3>1
  <2> QED
    BY <2>1, <2>2
<1>5. CASE Crash \/ Resume
  <2>1. UNCHANGED items
    BY <1>5 DEF Crash, Resume, db
  <2> QED
    BY <1>1, <2>1
<1>6. CASE Bootstrap
  <2>1. \A o \in DOMAIN items' : o \in DOMAIN items /\ items'[o] = items[o]
    BY <1>6, BootstrapIs DEF Without
  <2> QED
    BY <2>1 DEF Apart, IsMessage
<1> QED
  BY <1>2, <1>3, <1>4, <1>5, <1>6, ActorsAre DEF MemoryNext

LEMMA MemoryStart ==
  ASSUME OneTurn, MemoryInit  PROVE  MemoryInv /\ Apart
<1>1. /\ DOMAIN rows = {} /\ DOMAIN items = {} /\ DOMAIN summaries = {}
      /\ history = <<>> /\ rows = <<>> /\ items = <<>> /\ summaries = <<>>
  BY EmptyIs DEF MemoryInit
<1>2. /\ pc \in [Actors -> Places] /\ pc[Boot] = "off" /\ Boot \in Actors
      /\ \A a \in Actors : pc[a] = "off" \/ pc[a] = "idle"
      /\ \A t \in Turns : t \in Actors /\ pc[t] = "idle"
      /\ Background \in Actors /\ pc[Background] = "idle"
  BY ActorsAre DEF MemoryInit, Places, TurnSteps
<1>3. \A a \in Actors : /\ pc[a] \notin Making \cup Holding
                        /\ pc[a] \notin {"add", "clear", "boot", "summarize", "replaceLeaf"}
  BY <1>2 DEF Making, Holding
<1>4. /\ next = 1 /\ lastRow = 0 /\ lastSum = 0 /\ wiped = {} /\ tainted = FALSE
      /\ \A a \in Actors : work[a] = NoWork
      /\ work = [a \in Actors |-> NoWork]
  BY DEF MemoryInit
<1>5. NoWork \in Works(next - 1, lastSum) /\ Blank(NoWork)
  <2>1. <<>> \in Seq(1 .. next - 1) /\ <<>> \in Seq(Nat)
    BY EmptySeq
  <2>2. NoWork \in Works(next - 1, lastSum)
    BY <1>4, <2>1 DEF NoWork, Works
  <2>3. Blank(NoWork)
    BY DEF NoWork, Blank
  <2> QED
    BY <2>2, <2>3
<1>6. /\ NoWork.todo = <<>> /\ NoWork.ids = <<>> /\ NoWork.covers = {} /\ NoWork.depth = 0
  BY DEF NoWork
<1>7. MemoryTypes
  <2>1. /\ rows \in [DOMAIN rows -> Known]
        /\ items \in [DOMAIN items -> [row : Nat, sum : Nat]]
        /\ summaries \in [DOMAIN summaries -> [depth : Nat, tokens : Nat, covers : SUBSET Known]]
        /\ history \in Seq(Known)
    BY <1>1, EmptyIs, EmptySeq
  <2>2. /\ DOMAIN rows \subseteq 1 .. lastRow /\ DOMAIN summaries \subseteq 1 .. lastSum
        /\ DOMAIN items \subseteq Nat /\ IsFiniteSet(DOMAIN items) /\ wiped \subseteq Known
    BY <1>1, <1>4, EmptyIs
  <2>3. work \in [Actors -> Works(next - 1, lastSum)]
    BY <1>4, <1>5
  <2>4. next \in Nat \ {0} /\ lastRow \in Nat /\ lastSum \in Nat
    BY <1>4
  <2>5. tainted \in BOOLEAN
    BY <1>4, Zenon
  <2> QED
    BY <2>1, <2>2, <2>3, <2>4, <2>5 DEF MemoryTypes
<1>8. Steps
  <2>1. \A t \in Turns : pc[t] \in TurnSteps
    BY <1>2 DEF TurnSteps
  <2> QED
    BY <1>2, <1>4, <1>5, <1>6, <2>1 DEF Steps
<1>9. Emptied
  BY <1>2 DEF Emptied
<1>10. Ordered
  BY <1>1, <1>4, <1>6, EmptyIs DEF Ordered
<1>11. Resolvable
  BY <1>1 DEF Resolvable
<1>12. Recording
  <2>1. \A a \in Actors : BeingRecorded(a) = {}
    BY <1>1, <1>4, <1>6, EmptyIs DEF BeingRecorded, Recorded
  <2> QED
    BY <1>1, <2>1 DEF Recording
<1>13. Pending
  BY <1>3 DEF Pending
<1>14. Clean
  BY <1>1, <1>4, <1>6 DEF Clean, ClearedStaysCleared
<1>15. Untainted
  <2>1. Shape /\ OnceInOrder
    BY <1>1 DEF Shape, OnceInOrder
  <2>2. \A t \in Turns : LeafReady(t)
    BY <1>2 DEF LeafReady
  <2>3. \A a \in Actors : BlockReady(a)
    BY <1>3 DEF BlockReady
  <2> QED
    BY <2>1, <2>2, <2>3 DEF Untainted
<1>16. Whole
  <2>1. ToSet(history) = {}
    BY <1>1, EmptyIs
  <2> QED
    BY <1>2, <2>1 DEF Whole, NothingForgotten
<1>17. Apart
  BY <1>1 DEF Apart
<1> QED
  BY <1>7, <1>8, <1>9, <1>10, <1>11, <1>12, <1>13, <1>14, <1>15, <1>16, <1>17 DEF MemoryInv

LEMMA MemoryStep ==
  ASSUME OneTurn, MemoryInv, Apart, [MemoryNext]_memoryVars  PROVE  MemoryInv' /\ Apart'
<1>1. CASE UNCHANGED memoryVars
  <2>1. /\ history' = history /\ next' = next /\ rows' = rows /\ lastRow' = lastRow
        /\ items' = items /\ summaries' = summaries /\ lastSum' = lastSum
        /\ pc' = pc /\ work' = work /\ missed' = missed /\ cut' = cut
        /\ redone' = redone /\ wiped' = wiped /\ tainted' = tainted
    BY <1>1 DEF memoryVars, db, ghosts
  <2>2. MemoryTypes' /\ Steps' /\ Emptied' /\ Ordered' /\ Resolvable'
    BY <2>1 DEF MemoryInv, MemoryTypes, Known, Steps, Blank, Emptied, Ordered, Increasing,
       Resolvable, Dangling, IsMessage
  <2>3. Recording' /\ Pending'
    BY <2>1 DEF MemoryInv, Recording, BeingRecorded, Recorded, IsMessage, Pending
  <2>4. Remembered' = Remembered
    BY <2>1, RememberedSame DEF db
  <2>5. Clean'
    BY <2>1, <2>4 DEF MemoryInv, Clean, ClearedStaysCleared, Unused
  <2>6. Whole'
    BY <2>1, <2>4 DEF MemoryInv, Whole, NothingForgotten, Settled, InFlight, Recorded
  <2>7. Untainted'
    BY <2>1 DEF MemoryInv, Untainted, Shape, OnceInOrder, Orderly, LeafReady, BlockReady,
       Standing, Between, Tells, IsMessage, Depth
  <2>8. Apart'
    BY <2>1 DEF Apart, IsMessage
  <2> QED
    BY <2>2, <2>3, <2>5, <2>6, <2>7, <2>8 DEF MemoryInv
<1>2. CASE MemoryNext
  <2>1. Apart'
    BY <1>2, ApartKeeps
  <2>2. ASSUME NEW t \in Turns, Turn(t) PROVE MemoryInv'
    <3>1. CASE Begin(t) \/ End(t) \/ Abort(t) \/ Store(t) \/ StoreOnly(t)
      BY <3>1, BeginKeeps, EndKeeps, AbortKeeps, StoreKeeps, StoreOnlyKeeps
    <3>2. CASE CompactContext(t) \/ UnderBudget(t) \/ SelectLeaf(t) \/ ReplaceLeaf(t)
      BY <3>2, CompactKeeps, UnderBudgetKeeps, SelectLeafKeeps, ReplaceLeafKeeps
    <3>3. CASE Summarize(t)
      BY <3>3, CreateKeeps DEF Summarize
    <3>4. CASE StartCondensing(t) \/ ClearMemory(t) \/ ClearHistory(t)
      BY <3>4, StartCondensingKeeps, ClearMemoryKeeps, ClearHistoryKeeps
    <3> QED
      BY <2>2, <3>1, <3>2, <3>3, <3>4 DEF Turn
  <2>3. ASSUME NEW a \in Turns \cup {Boot}, Record(a) PROVE MemoryInv'
    BY <2>3, AddRowKeeps, AppendKeeps, IngestFailsKeeps DEF Record
  <2>4. ASSUME NEW a \in Turns \cup {Background}, Condense(a) PROVE MemoryInv'
    <3>1. CASE Merge(a)
      BY <3>1, CreateKeeps DEF Merge
    <3> QED
      BY <2>4, <3>1, SelectCandidatesKeeps, LocateKeeps, ReplaceCandidatesKeeps, CompactFailsKeeps DEF Condense
  <2>5. CASE Crash
    BY <2>1, <2>5, CrashKeeps
  <2>6. CASE Bootstrap
    BY <2>1, <2>6, BootstrapKeeps
  <2>7. CASE Resume
    BY <2>1, <2>7, ResumeKeeps
  <2> QED
    BY <1>2, <2>1, <2>2, <2>3, <2>4, <2>5, <2>6, <2>7 DEF MemoryNext
<1> QED
  BY <1>1, <1>2

\* What holds of the memory of a session that is claimed by one turn at a time: what the
\* database and the actors hold, and what of the context, until condensations overlap.
THEOREM MemoryInvariance == OneTurn /\ MemorySpec => [](MemoryInv /\ Apart)
<1> SUFFICES ASSUME OneTurn PROVE MemorySpec => [](MemoryInv /\ Apart)
  OBVIOUS
<1>1. MemoryInit => MemoryInv /\ Apart
  BY MemoryStart
<1>2. (MemoryInv /\ Apart) /\ [MemoryNext]_memoryVars => (MemoryInv /\ Apart)'
  BY MemoryStep
<1> QED
  BY <1>1, <1>2, PTL DEF MemorySpec

\* compactLeaf and Assemble never meet an item of the context whose row or summary is gone,
\* whatever is cut short and whatever is cleared while it is condensed.
THEOREM ReadableMemory == OneTurn /\ MemorySpec => []Resolvable
<1>1. MemoryInv => Resolvable
  BY DEF MemoryInv
<1> QED
  BY <1>1, MemoryInvariance, PTL

\* Every message that a turn gave to Ingest and the session's file still has is told of in
\* the context, itself or in a summary, or is on its way there, save those whose recording
\* was cut short, as long as no two condensations overlap.  Of what was stored in the file
\* alone (results of tools denied or skipped and of sub-turns) nothing is said until a
\* restart has recorded it.
THEOREM NothingLeftOut == OneTurn /\ MemorySpec => []NothingForgotten
<1>1. MemoryInv => NothingForgotten
  BY DEF MemoryInv, Whole
<1> QED
  BY <1>1, MemoryInvariance, PTL

\* So long, the context tells of them in their order and of each once, save those that a
\* restart has recorded again.
THEOREM ToldInOrder == OneTurn /\ MemorySpec => []OnceInOrder
<1>1. MemoryInv => OnceInOrder
  BY DEF MemoryInv, Untainted, OnceInOrder
<1> QED
  BY <1>1, MemoryInvariance, PTL

\* What a cleared session held does not come back, though a condensation that had begun
\* before the clearing ends after it.
THEOREM ClearedIsGone == OneTurn /\ MemorySpec => []ClearedStaysCleared
<1>1. MemoryInv => ClearedStaysCleared
  BY DEF MemoryInv, Clean
<1> QED
  BY <1>1, MemoryInvariance, PTL
===============================================================================
