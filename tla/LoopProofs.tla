----------------------------- MODULE LoopProofs -----------------------------
(* What the loop of Only returns: the elements of the set, in the order of the   *)
(* sequence, for sequences of any length.                                      *)
EXTENDS Loops, SequenceTheorems, WellFoundedInduction, TLAPS

(* Sequences.  Induction over numbers and sequences is stated on sets of them: *)
(* a set that has the first and with each the next has all.                   *)

LEMMA NatSets ==
  ASSUME NEW T \in SUBSET Nat, 0 \in T, \A n \in T : n + 1 \in T PROVE T = Nat
<1> SUFFICES ASSUME Nat \ T # {} PROVE FALSE
  OBVIOUS
<1>1. PICK x \in Nat \ T : \A y \in Nat \ T : ~(<<y, x>> \in OpToRel(<,Nat))
  BY NatLessThanWellFounded, WFMin
<1>2. \A y \in Nat \ T : ~(y < x)
  BY <1>1 DEF OpToRel
<1>3. x \in Nat /\ x # 0 /\ x \notin T
  BY <1>1
<1>4. x - 1 \in Nat /\ x = (x - 1) + 1
  BY <1>3
<1>5. x - 1 \notin T
  BY <1>3, <1>4
<1> QED BY <1>2, <1>4, <1>5

\* Induction over sequences, on sets of them.
LEMMA SeqSets ==
  ASSUME NEW E, NEW Z \in SUBSET Seq(E), <<>> \in Z,
         \A s \in Z, e \in E : Append(s, e) \in Z
  PROVE  Z = Seq(E)
<1> DEFINE T == {n \in Nat : \A s \in Seq(E) : Len(s) = n => s \in Z}
<1>1. 0 \in T
  BY EmptySeq
<1>2. ASSUME NEW n \in T PROVE n + 1 \in T
  <2> SUFFICES ASSUME NEW s \in Seq(E), Len(s) = n + 1 PROVE s \in Z
    OBVIOUS
  <2>1. s # <<>>
    BY EmptySeq
  <2>2. PICK t \in Seq(E), e \in E : s = Append(t, e)
    BY <2>1, SequenceEmptyOrAppend
  <2>3. Len(t) = n
    BY <2>2, AppendProperties
  <2> QED BY <2>2, <2>3
<1>3. T = Nat
  <2> HIDE DEF T
  <2>1. T \in SUBSET Nat
    BY DEF T
  <2> QED BY <1>1, <1>2, <2>1, NatSets
<1>4. \A s \in Seq(E) : Len(s) \in Nat
  BY LenProperties
<1> QED BY <1>3, <1>4

\* The loop of Only, as a function of how far it has come: there is one.
LoopOf(k, s, S) ==
  k = [i \in 0..Len(s) |-> IF i = 0 THEN <<>>
                           ELSE IF s[i] \in S THEN Append(k[i - 1], s[i]) ELSE k[i - 1]]

LEMMA LoopExists ==
  ASSUME NEW E, NEW S, NEW s \in Seq(E)
  PROVE  \E k : LoopOf(k, s, S) /\ \A i \in 0..Len(s) : k[i] \in Seq(E)
<1> DEFINE Z == {t \in Seq(E) : \E k : LoopOf(k, t, S) /\ \A i \in 0..Len(t) : k[i] \in Seq(E)}
<1>1. <<>> \in Z
  <2> DEFINE k == [i \in 0..0 |-> <<>>]
  <2>1. Len(<<>>) = 0 /\ <<>> \in Seq(E)
    BY EmptySeq
  <2>2. LoopOf(k, <<>>, S)
    BY <2>1 DEF LoopOf
  <2> QED BY <2>1, <2>2
<1>2. ASSUME NEW t \in Z, NEW e \in E PROVE Append(t, e) \in Z
  <2>1. PICK k : LoopOf(k, t, S) /\ \A i \in 0..Len(t) : k[i] \in Seq(E)
    OBVIOUS
  <2> DEFINE u == Append(t, e)
             j == [i \in 0..Len(u) |-> IF i <= Len(t) THEN k[i]
                     ELSE IF e \in S THEN Append(k[Len(t)], e) ELSE k[Len(t)]]
  <2>2. /\ u \in Seq(E) /\ Len(t) \in Nat /\ Len(u) = Len(t) + 1 /\ u[Len(u)] = e
        /\ \A i \in 1..Len(t) : u[i] = t[i]
    BY AppendProperties
  <2> HIDE DEF u
  <2>3. \A i \in 0..Len(t) : k[i] = IF i = 0 THEN <<>>
                           ELSE IF t[i] \in S THEN Append(k[i - 1], t[i]) ELSE k[i - 1]
    BY <2>1 DEF LoopOf
  <2>4. \A i \in 0..Len(u) : j[i] \in Seq(E)
    BY <2>1, <2>2
  <2>5. \A i \in 0..Len(u) : j[i] = IF i = 0 THEN <<>>
                           ELSE IF u[i] \in S THEN Append(j[i - 1], u[i]) ELSE j[i - 1]
    <3> SUFFICES ASSUME NEW i \in 0..Len(u)
                 PROVE  j[i] = IF i = 0 THEN <<>>
                               ELSE IF u[i] \in S THEN Append(j[i - 1], u[i]) ELSE j[i - 1]
      OBVIOUS
    <3>1. CASE i = 0
      BY <2>2, <2>3, <3>1
    <3>2. CASE i \in 1..Len(t)
      BY <2>2, <2>3, <3>2
    <3>3. CASE i = Len(u)
      BY <2>2, <3>3
    <3> QED BY <2>2, <3>1, <3>2, <3>3
  <2>6. LoopOf(j, u, S)
    BY <2>5 DEF LoopOf
  <2> QED BY <2>2, <2>4, <2>6 DEF u
<1>3. Z = Seq(E)
  <2> HIDE DEF Z
  <2>1. Z \in SUBSET Seq(E)
    BY DEF Z
  <2> QED BY <1>1, <1>2, <2>1, SeqSets
<1> QED BY <1>3

LEMMA LoopUnique ==
  ASSUME NEW E, NEW S, NEW s \in Seq(E), NEW u \in Seq(E), NEW k, NEW j,
         LoopOf(k, s, S), LoopOf(j, u, S), Len(s) <= Len(u),
         \A i \in 1..Len(s) : u[i] = s[i]
  PROVE  \A i \in 0..Len(s) : k[i] = j[i]
<1> DEFINE T == {i \in Nat : i <= Len(s) => k[i] = j[i]}
<1>1. /\ Len(s) \in Nat /\ Len(u) \in Nat
      /\ \A i \in 0..Len(s) : k[i] = IF i = 0 THEN <<>>
                                ELSE IF s[i] \in S THEN Append(k[i - 1], s[i]) ELSE k[i - 1]
      /\ \A i \in 0..Len(u) : j[i] = IF i = 0 THEN <<>>
                                ELSE IF u[i] \in S THEN Append(j[i - 1], u[i]) ELSE j[i - 1]
  BY LenProperties DEF LoopOf
<1>2. 0 \in T
  BY <1>1
<1>3. ASSUME NEW n \in T PROVE n + 1 \in T
  <2> SUFFICES ASSUME n + 1 <= Len(s) PROVE k[n + 1] = j[n + 1]
    OBVIOUS
  <2>1. k[n] = j[n] /\ n + 1 \in 1..Len(s) /\ n + 1 \in 0..Len(u) /\ (n + 1) - 1 = n
    BY <1>1
  <2> QED BY <1>1, <2>1
<1>4. T = Nat
  <2> HIDE DEF T
  <2>1. T \in SUBSET Nat
    BY DEF T
  <2> QED BY <1>2, <1>3, <2>1, NatSets
<1> QED BY <1>1, <1>4

LEMMA OnlyIsLoop ==
  ASSUME NEW E, NEW S, NEW s \in Seq(E)
  PROVE  \E k : /\ LoopOf(k, s, S) /\ Only(s, S) = k[Len(s)]
                /\ \A i \in 0..Len(s) : k[i] \in Seq(E)
<1> DEFINE c == CHOOSE k : LoopOf(k, s, S)
<1>1. PICK k : LoopOf(k, s, S) /\ \A i \in 0..Len(s) : k[i] \in Seq(E)
  BY LoopExists
<1>2. LoopOf(c, s, S)
  BY <1>1
<1>3. \A i \in 0..Len(s) : c[i] = k[i]
  <2> HIDE DEF c
  <2>1. Len(s) \in Nat
    BY LenProperties
  <2> QED BY <1>1, <1>2, <2>1, LoopUnique
<1>4. Only(s, S) = c[Len(s)]
  BY DEF Only, LoopOf
<1> QED BY <1>1, <1>2, <1>3, <1>4

LEMMA OnlyEmpty == \A S : Only(<<>>, S) = <<>>
<1> SUFFICES ASSUME NEW S PROVE Only(<<>>, S) = <<>>
  OBVIOUS
<1>1. Len(<<>>) = 0 /\ <<>> \in Seq({})
  BY EmptySeq
<1>2. PICK k : /\ LoopOf(k, <<>>, S) /\ Only(<<>>, S) = k[Len(<<>>)]
               /\ \A i \in 0..Len(<<>>) : k[i] \in Seq({})
  BY <1>1, OnlyIsLoop
<1> QED BY <1>1, <1>2 DEF LoopOf

\* What Only does, by one more element.
LEMMA OnlyAppend ==
  ASSUME NEW E, NEW S, NEW s \in Seq(E), NEW e \in E
  PROVE  /\ Only(s, S) \in Seq(E)
         /\ Only(Append(s, e), S) = IF e \in S THEN Append(Only(s, S), e) ELSE Only(s, S)
<1> DEFINE u == Append(s, e)
<1>2. /\ u \in Seq(E) /\ Len(s) \in Nat /\ Len(u) = Len(s) + 1 /\ u[Len(u)] = e
      /\ \A i \in 1..Len(s) : u[i] = s[i]
  BY AppendProperties
<1> HIDE DEF u
<1>3. PICK k : /\ LoopOf(k, s, S) /\ Only(s, S) = k[Len(s)]
               /\ \A i \in 0..Len(s) : k[i] \in Seq(E)
  BY <1>2, OnlyIsLoop
<1>4. PICK j : /\ LoopOf(j, u, S) /\ Only(u, S) = j[Len(u)]
               /\ \A i \in 0..Len(u) : j[i] \in Seq(E)
  BY <1>2, OnlyIsLoop
<1>5. k[Len(s)] = j[Len(s)] /\ k[Len(s)] \in Seq(E)
  <2>1. \A i \in 0..Len(s) : k[i] = j[i]
    <3>1. Len(s) <= Len(u)
      BY <1>2
    <3> QED BY <1>2, <1>3, <1>4, <3>1, LoopUnique
  <2> QED BY <1>2, <1>3, <2>1
<1>6. j[Len(u)] = IF e \in S THEN Append(j[Len(s)], e) ELSE j[Len(s)]
  <2>1. Len(u) \in 0..Len(u) /\ Len(u) # 0 /\ Len(u) - 1 = Len(s)
    BY <1>2
  <2> QED BY <1>2, <1>4, <2>1 DEF LoopOf
<1> QED BY <1>3, <1>4, <1>5, <1>6 DEF u

LEMMA AppendRange ==
  ASSUME NEW E, NEW s \in Seq(E), NEW e \in E
  PROVE  Range(Append(s, e)) = Range(s) \cup {e} /\ Range(<<>>) = {}
<1>1. /\ Append(s, e) \in Seq(E) /\ Len(s) \in Nat /\ Len(Append(s, e)) = Len(s) + 1
      /\ Append(s, e)[Len(s) + 1] = e
      /\ \A i \in 1..Len(s) : Append(s, e)[i] = s[i]
  BY AppendProperties
<1>2. Range(Append(s, e)) = {Append(s, e)[i] : i \in 1..Len(Append(s, e))} /\ Range(s) = {s[i] : i \in 1..Len(s)}
  BY <1>1, RangeEquality
<1>3. Range(<<>>) = {}
  BY DEF Range
<1> QED BY <1>1, <1>2, <1>3

LEMMA OnlyRange ==
  ASSUME NEW E, NEW S, NEW s \in Seq(E)
  PROVE  Only(s, S) \in Seq(E) /\ Range(Only(s, S)) = Range(s) \cap S
<1> DEFINE Z == {t \in Seq(E) : Only(t, S) \in Seq(E) /\ Range(Only(t, S)) = Range(t) \cap S}
<1>1. <<>> \in Z
  <2>1. <<>> \in Seq(E) /\ Only(<<>>, S) = <<>> /\ Range(<<>>) = {}
    BY EmptySeq, OnlyEmpty DEF Range
  <2> QED BY <2>1
<1>2. ASSUME NEW t \in Z, NEW e \in E PROVE Append(t, e) \in Z
  <2>1. Append(t, e) \in Seq(E)
    BY AppendProperties
  <2>2. Only(Append(t, e), S) = IF e \in S THEN Append(Only(t, S), e) ELSE Only(t, S)
    BY OnlyAppend
  <2>3. Range(Append(t, e)) = Range(t) \cup {e}
    BY AppendRange
  <2>4. CASE e \in S
    <3>1. Only(Append(t, e), S) \in Seq(E) /\ Range(Only(Append(t, e), S)) = Range(Only(t, S)) \cup {e}
      BY <2>2, <2>4, AppendRange, AppendProperties
    <3> QED BY <2>1, <2>3, <2>4, <3>1
  <2>5. CASE e \notin S
    BY <2>1, <2>2, <2>3, <2>5
  <2> QED BY <2>4, <2>5
<1>3. Z = Seq(E)
  <2> HIDE DEF Z
  <2>1. Z \in SUBSET Seq(E)
    BY DEF Z
  <2> QED BY <1>1, <1>2, <2>1, SeqSets
<1> QED BY <1>3

LEMMA OnlyOnly ==
  ASSUME NEW E, NEW T, NEW S \in SUBSET T, NEW s \in Seq(E)
  PROVE  Only(Only(s, T), S) = Only(s, S)
<1> DEFINE Z == {t \in Seq(E) : Only(Only(t, T), S) = Only(t, S)}
<1>1. <<>> \in Z
  BY EmptySeq, OnlyEmpty
<1>2. ASSUME NEW t \in Z, NEW e \in E PROVE Append(t, e) \in Z
  <2>1. Append(t, e) \in Seq(E)
    BY AppendProperties
  <2>2. /\ Only(Append(t, e), T) = IF e \in T THEN Append(Only(t, T), e) ELSE Only(t, T)
        /\ Only(Append(t, e), S) = IF e \in S THEN Append(Only(t, S), e) ELSE Only(t, S)
        /\ Only(t, T) \in Seq(E)
    BY OnlyAppend
  <2>3. Only(Append(Only(t, T), e), S) = IF e \in S THEN Append(Only(Only(t, T), S), e) ELSE Only(Only(t, T), S)
    BY <2>2, OnlyAppend
  <2> QED BY <2>1, <2>2, <2>3
<1>3. Z = Seq(E)
  <2> HIDE DEF Z
  <2>1. Z \in SUBSET Seq(E)
    BY DEF Z
  <2> QED BY <1>1, <1>2, <2>1, SeqSets
<1> QED BY <1>3

LEMMA DistinctAppend ==
  ASSUME NEW E, NEW s \in Seq(E), NEW m \in E
  PROVE  IsInjective(Append(s, m)) <=> IsInjective(s) /\ m \notin Range(s)
<1> DEFINE u == Append(s, m)
<1>1. /\ Len(s) \in Nat /\ DOMAIN s = 1..Len(s) /\ DOMAIN u = 1..(Len(s) + 1)
      /\ u[Len(s) + 1] = m /\ \A i \in 1..Len(s) : u[i] = s[i]
  BY AppendProperties, LenProperties
<1>2. m \in Range(s) <=> \E i \in 1..Len(s) : s[i] = m
  BY <1>1 DEF Range
<1> HIDE DEF u
<1>3. ASSUME IsInjective(u) PROVE IsInjective(s) /\ m \notin Range(s)
  BY <1>1, <1>2, <1>3 DEF IsInjective
<1>4. ASSUME IsInjective(s), m \notin Range(s) PROVE IsInjective(u)
  <2> SUFFICES ASSUME NEW a \in 1..(Len(s) + 1), NEW b \in 1..(Len(s) + 1), u[a] = u[b] PROVE a = b
    BY <1>1 DEF IsInjective
  <2>1. CASE a \in 1..Len(s) /\ b \in 1..Len(s)
    BY <1>1, <1>4, <2>1 DEF IsInjective
  <2>2. CASE a = Len(s) + 1 /\ b \in 1..Len(s)
    BY <1>1, <1>2, <1>4, <2>2
  <2>3. CASE a \in 1..Len(s) /\ b = Len(s) + 1
    BY <1>1, <1>2, <1>4, <2>3
  <2> QED BY <1>1, <2>1, <2>2, <2>3
<1> QED BY <1>3, <1>4 DEF u

LEMMA OnlyDistinct ==
  ASSUME NEW E, NEW S, NEW s \in Seq(E), IsInjective(s)
  PROVE  IsInjective(Only(s, S))
<1> DEFINE Z == {t \in Seq(E) : IsInjective(t) => IsInjective(Only(t, S))}
<1>1. <<>> \in Z
  BY EmptySeq, OnlyEmpty
<1>2. ASSUME NEW t \in Z, NEW e \in E PROVE Append(t, e) \in Z
  <2>1. Append(t, e) \in Seq(E) /\ Only(t, S) \in Seq(E)
    BY AppendProperties, OnlyAppend
  <2>2. Only(Append(t, e), S) = IF e \in S THEN Append(Only(t, S), e) ELSE Only(t, S)
    BY OnlyAppend
  <2>3. ASSUME IsInjective(Append(t, e)) PROVE IsInjective(Only(Append(t, e), S))
    <3>1. IsInjective(t) /\ e \notin Range(t)
      BY <2>3, DistinctAppend
    <3>2. IsInjective(Only(t, S)) /\ Range(Only(t, S)) \subseteq Range(t)
      BY <3>1, OnlyRange
    <3>3. IsInjective(Append(Only(t, S), e))
      BY <2>1, <3>1, <3>2, DistinctAppend
    <3> QED BY <2>2, <3>2, <3>3
  <2> QED BY <2>1, <2>3
<1>3. Z = Seq(E)
  <2> HIDE DEF Z
  <2>1. Z \in SUBSET Seq(E)
    BY DEF Z
  <2> QED BY <1>1, <1>2, <2>1, SeqSets
<1> QED BY <1>3
=============================================================================
