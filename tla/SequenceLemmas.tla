--------------------------- MODULE SequenceLemmas ---------------------------
(***************************************************************************)
(* What inserting into, removing from and taking the tail of a sequence    *)
(* does to its positions and to its elements; used for the queues of       *)
(* PrioritySem and for the lists of APIClient.                             *)
(***************************************************************************)
EXTENDS Integers, Sequences, SequencesExt, SequenceTheorems,
        WellFoundedInduction, TLAPS

\* The entry at position i of s with e inserted at pos.
Shifted(s, pos, e, i) == IF i < pos THEN s[i] ELSE IF i = pos THEN e ELSE s[i-1]

\* Inserting e at position pos shifts the entries from pos on by one place.
LEMMA InsertAtProperties ==
  ASSUME NEW S, NEW s \in Seq(S), NEW pos \in 1..Len(s)+1, NEW e \in S
  PROVE  /\ InsertAt(s, pos, e) \in Seq(S)
         /\ Len(InsertAt(s, pos, e)) = Len(s) + 1
         /\ \A i \in 1..Len(s)+1 : InsertAt(s, pos, e)[i] = Shifted(s, pos, e, i)
<1> DEFINE a == SubSeq(s, 1, pos - 1)
           b == SubSeq(s, pos, Len(s))
<1>1. a \in Seq(S) /\ Len(a) = pos - 1 /\ \A i \in 1..pos-1 : a[i] = s[i]
  OBVIOUS
<1>2. b \in Seq(S) /\ Len(b) = Len(s) - pos + 1
      /\ \A i \in 1..Len(s)-pos+1 : b[i] = s[pos + i - 1]
  OBVIOUS
<1> HIDE DEF a, b
<1> DEFINE c == a \o <<e>>
<1>3. c \in Seq(S) /\ Len(c) = pos
      /\ \A i \in 1..pos : c[i] = IF i < pos THEN s[i] ELSE e
  BY <1>1
<1>4. InsertAt(s, pos, e) = c \o b
  BY DEF InsertAt, a, b
<1> HIDE DEF c
<1>5. /\ c \o b \in Seq(S)
      /\ Len(c \o b) = Len(c) + Len(b)
      /\ \A i \in 1..Len(c)+Len(b) :
           (c \o b)[i] = IF i <= Len(c) THEN c[i] ELSE b[i - Len(c)]
  BY <1>2, <1>3, ConcatProperties
<1> QED
  <2> SUFFICES ASSUME NEW i \in 1..Len(s)+1
               PROVE  (c \o b)[i] =
                        IF i < pos THEN s[i] ELSE IF i = pos THEN e ELSE s[i-1]
    BY <1>2, <1>3, <1>4, <1>5 DEF Shifted
  <2>1. Len(c) = pos /\ i \in 1..Len(c)+Len(b)
    BY <1>2, <1>3
  <2>2. CASE i <= pos
    BY <2>1, <2>2, <1>3, <1>5
  <2>3. CASE i > pos
    <3>1. i - pos \in 1..Len(s)-pos+1 /\ pos + (i - pos) - 1 = i - 1
      BY <2>3
    <3>2. (c \o b)[i] = b[i - pos]
      BY <2>1, <2>3, <1>5
    <3> QED
      BY <3>1, <3>2, <1>2, <2>3
  <2>4. i <= pos \/ i > pos
    OBVIOUS
  <2> QED
    BY <2>2, <2>3, <2>4

\* Removing the entry at position pos closes the gap.
LEMMA RemoveAtProperties ==
  ASSUME NEW S, NEW s \in Seq(S), NEW pos \in 1..Len(s)
  PROVE  /\ RemoveAt(s, pos) \in Seq(S)
         /\ Len(RemoveAt(s, pos)) = Len(s) - 1
         /\ \A i \in 1..Len(s)-1 :
              RemoveAt(s, pos)[i] = IF i < pos THEN s[i] ELSE s[i+1]
<1> DEFINE a == SubSeq(s, 1, pos - 1)
           b == SubSeq(s, pos + 1, Len(s))
<1>1. a \in Seq(S) /\ Len(a) = pos - 1 /\ \A i \in 1..pos-1 : a[i] = s[i]
  OBVIOUS
<1>2. b \in Seq(S) /\ Len(b) = Len(s) - pos
      /\ \A i \in 1..Len(s)-pos : b[i] = s[pos + i]
  OBVIOUS
<1>3. RemoveAt(s, pos) = a \o b
  BY DEF RemoveAt
<1> HIDE DEF a, b
<1>4. /\ a \o b \in Seq(S)
      /\ Len(a \o b) = Len(a) + Len(b)
      /\ \A i \in 1..Len(a)+Len(b) :
           (a \o b)[i] = IF i <= Len(a) THEN a[i] ELSE b[i - Len(a)]
  BY <1>1, <1>2, ConcatProperties
<1> QED
  <2> SUFFICES ASSUME NEW i \in 1..Len(s)-1
               PROVE  (a \o b)[i] = IF i < pos THEN s[i] ELSE s[i+1]
    BY <1>1, <1>2, <1>3, <1>4
  <2>1. Len(a) = pos - 1 /\ i \in 1..Len(a)+Len(b)
    BY <1>1, <1>2
  <2>2. CASE i < pos
    BY <2>1, <2>2, <1>1, <1>4
  <2>3. CASE i >= pos
    <3>1. i - (pos - 1) \in 1..Len(s)-pos /\ pos + (i - (pos - 1)) = i + 1
      BY <2>3
    <3>2. (a \o b)[i] = b[i - (pos - 1)]
      BY <2>1, <2>3, <1>4
    <3> QED
      BY <3>1, <3>2, <1>2, <2>3
  <2>4. i < pos \/ i >= pos
    OBVIOUS
  <2> QED
    BY <2>2, <2>3, <2>4

\* The elements of a sequence by position.
LEMMA ToSetByIndex ==
  ASSUME NEW S, NEW s \in Seq(S)
  PROVE  \A x : x \in ToSet(s) <=> \E i \in 1..Len(s) : s[i] = x
BY LenProperties DEF ToSet

\* A sequence without repetition, by position.
LEMMA InjectiveByIndex ==
  ASSUME NEW S, NEW s \in Seq(S)
  PROVE  IsInjective(s) <=> \A i, j \in 1..Len(s) : s[i] = s[j] => i = j
BY LenProperties DEF IsInjective

\* Inserting a new entry adds it to the elements, once.
LEMMA InsertElements ==
  ASSUME NEW S, NEW s \in Seq(S), NEW pos \in 1..Len(s)+1, NEW e \in S
  PROVE  /\ ToSet(InsertAt(s, pos, e)) = ToSet(s) \cup {e}
         /\ IsInjective(s) /\ e \notin ToSet(s) => IsInjective(InsertAt(s, pos, e))
<1> DEFINE t == InsertAt(s, pos, e)
<1>1. /\ t \in Seq(S) /\ Len(t) = Len(s) + 1
      /\ \A i \in 1..Len(s)+1 :
           t[i] = IF i < pos THEN s[i] ELSE IF i = pos THEN e ELSE s[i-1]
  <2>1. t \in Seq(S) /\ Len(t) = Len(s) + 1
    BY InsertAtProperties
  <2>2. ASSUME NEW i \in 1..Len(s)+1
        PROVE  t[i] = Shifted(s, pos, e, i)
    BY InsertAtProperties
  <2> QED
    BY <2>1, <2>2 DEF Shifted
<1> HIDE DEF t
<1>a. \A x : x \in ToSet(t) <=> \E i \in 1..Len(s)+1 : t[i] = x
  BY <1>1, ToSetByIndex
<1>b. \A x : x \in ToSet(s) <=> \E i \in 1..Len(s) : s[i] = x
  BY ToSetByIndex
<1>2. ASSUME NEW i \in 1..Len(s)+1 PROVE t[i] \in ToSet(s) \cup {e}
  BY <1>1, <1>b
<1>3. e \in ToSet(t)
  BY <1>1, <1>a
<1>4. ASSUME NEW k \in 1..Len(s) PROVE s[k] \in ToSet(t)
  <2>1. CASE k < pos
    <3>1. k \in 1..Len(s)+1 /\ t[k] = s[k]
      BY <1>1, <2>1
    <3> QED
      BY <3>1, <1>a
  <2>2. CASE k >= pos
    <3>1. k + 1 \in 1..Len(s)+1 /\ t[k + 1] = s[k]
      BY <1>1, <2>2
    <3> QED
      BY <3>1, <1>a
  <2> QED
    BY <2>1, <2>2
<1>5. ToSet(t) = ToSet(s) \cup {e}
  BY <1>2, <1>3, <1>4, <1>a, <1>b
<1>6. ASSUME IsInjective(s), e \notin ToSet(s) PROVE IsInjective(t)
  <2>1. \A k, l \in 1..Len(s) : s[k] = s[l] => k = l
    BY <1>6, InjectiveByIndex
  <2>2. \A k \in 1..Len(s) : s[k] # e
    BY <1>6, <1>b
  <2>3. ASSUME NEW i \in 1..Len(s)+1, NEW j \in 1..Len(s)+1, t[i] = t[j]
        PROVE  i = j
    <3>1. CASE i = pos
      BY <1>1, <2>2, <2>3, <3>1
    <3>2. CASE j = pos
      BY <1>1, <2>2, <2>3, <3>2
    <3>3. CASE i # pos /\ j # pos
      <4> DEFINE i1 == IF i < pos THEN i ELSE i - 1
                 j1 == IF j < pos THEN j ELSE j - 1
      <4>1. i1 \in 1..Len(s) /\ j1 \in 1..Len(s) /\ (i1 = j1 => i = j)
        BY <3>3
      <4>2. t[i] = s[i1] /\ t[j] = s[j1]
        BY <1>1, <3>3
      <4> HIDE DEF i1, j1
      <4> QED
        BY <2>1, <2>3, <4>1, <4>2
    <3> QED
      BY <3>1, <3>2, <3>3
  <2> QED
    BY <1>1, <2>3, InjectiveByIndex
<1> QED
  BY <1>5, <1>6 DEF t

\* Removing an entry of a sequence without repetition takes this element, and no other, out.
LEMMA RemoveElements ==
  ASSUME NEW S, NEW s \in Seq(S), NEW pos \in 1..Len(s), IsInjective(s)
  PROVE  /\ ToSet(RemoveAt(s, pos)) = ToSet(s) \ {s[pos]}
         /\ IsInjective(RemoveAt(s, pos))
<1> DEFINE t == RemoveAt(s, pos)
<1>1. /\ t \in Seq(S) /\ Len(t) = Len(s) - 1
      /\ \A i \in 1..Len(s)-1 : t[i] = IF i < pos THEN s[i] ELSE s[i+1]
  BY RemoveAtProperties
<1> HIDE DEF t
<1>a. \A x : x \in ToSet(t) <=> \E i \in 1..Len(s)-1 : t[i] = x
  BY <1>1, ToSetByIndex
<1>b. \A x : x \in ToSet(s) <=> \E i \in 1..Len(s) : s[i] = x
  BY ToSetByIndex
<1>2. ToSet(t) \subseteq ToSet(s) \ {s[pos]}
  BY <1>1, <1>a, <1>b DEF IsInjective
<1>3. ASSUME NEW k \in 1..Len(s), k # pos PROVE s[k] \in ToSet(t)
  <2>1. CASE k < pos
    BY <1>1, <1>a, <2>1
  <2>2. CASE k > pos
    <3>1. k - 1 \in 1..Len(s)-1 /\ t[k - 1] = s[k]
      BY <1>1, <2>2
    <3> QED
      BY <3>1, <1>a
  <2> QED
    BY <1>3, <2>1, <2>2
<1>4. ToSet(t) = ToSet(s) \ {s[pos]}
  BY <1>2, <1>3, <1>b
<1>5. ASSUME NEW i \in 1..Len(s)-1, NEW j \in 1..Len(s)-1, t[i] = t[j]
      PROVE  i = j
  <2> DEFINE i1 == IF i < pos THEN i ELSE i + 1
             j1 == IF j < pos THEN j ELSE j + 1
  <2>1. i1 \in 1..Len(s) /\ j1 \in 1..Len(s) /\ (i1 = j1 => i = j)
    OBVIOUS
  <2>2. t[i] = s[i1] /\ t[j] = s[j1]
    BY <1>1
  <2> HIDE DEF i1, j1
  <2> QED
    BY <1>5, <2>1, <2>2, InjectiveByIndex
<1>6. IsInjective(t)
  BY <1>1, <1>5 DEF IsInjective
<1> QED
  BY <1>4, <1>6 DEF t

\* Tail takes exactly the first element out.
LEMMA TailElements ==
  ASSUME NEW S, NEW s \in Seq(S), s # <<>>, IsInjective(s)
  PROVE  /\ Head(s) \in ToSet(s)
         /\ ToSet(Tail(s)) = ToSet(s) \ {Head(s)}
         /\ IsInjective(Tail(s))
<1>1. /\ Tail(s) \in Seq(S) /\ Len(Tail(s)) = Len(s) - 1 /\ Len(s) \in Nat \ {0}
      /\ \A i \in 1..Len(s)-1 : Tail(s)[i] = s[i+1]
  BY HeadTailProperties, EmptySeq
<1>2. Head(s) = s[1] /\ 1 \in 1..Len(s)
  BY <1>1
<1> DEFINE t == Tail(s)
<1> HIDE DEF t
<1>a. \A x : x \in ToSet(t) <=> \E i \in 1..Len(s)-1 : t[i] = x
  BY <1>1, ToSetByIndex DEF t
<1>b. \A x : x \in ToSet(s) <=> \E i \in 1..Len(s) : s[i] = x
  BY ToSetByIndex
<1>3. ToSet(t) \subseteq ToSet(s) \ {s[1]}
  BY <1>1, <1>2, <1>a, <1>b DEF IsInjective, t
<1>4. ASSUME NEW k \in 1..Len(s), k # 1 PROVE s[k] \in ToSet(t)
  <2>1. k - 1 \in 1..Len(s)-1 /\ t[k - 1] = s[k]
    BY <1>1, <1>4 DEF t
  <2> QED
    BY <2>1, <1>a
<1>5. ToSet(t) = ToSet(s) \ {s[1]}
  BY <1>3, <1>4, <1>b
<1>6. IsInjective(t)
  BY <1>1 DEF IsInjective, t
<1> QED
  BY <1>2, <1>5, <1>6, <1>b DEF t

\* A nonempty set of natural numbers has a least element, and Min is it.
LEMMA MinProperties ==
  ASSUME NEW S \in SUBSET Nat, S # {}
  PROVE  Min(S) \in S /\ \A y \in S : Min(S) <= y
<1>1. \E x \in S : \A y \in S : ~(<<y, x>> \in OpToRel(<, Nat))
  BY NatLessThanWellFounded, WFMin
<1>2. \A x, y \in Nat : x <= y \/ <<y, x>> \in OpToRel(<, Nat)
  BY DEF OpToRel
<1>3. \E x \in S : \A y \in S : x <= y
  BY <1>1, <1>2
<1> QED
  BY <1>3 DEF Min

\* RemoveFirst takes out an entry of the element it is given.
LEMMA RemoveFirstAt ==
  ASSUME NEW S, NEW s \in Seq(S), NEW e \in ToSet(s)
  PROVE  \E i \in 1..Len(s) : s[i] = e /\ RemoveFirst(s, e) = RemoveAt(s, i)
<1> DEFINE I == {i \in 1..Len(s) : s[i] = e}
<1>1. I # {} /\ I \in SUBSET Nat
  BY ToSetByIndex
<1>2. Min(I) \in I
  BY <1>1, MinProperties
<1>3. SelectInSeq(s, LAMBDA v : v = e) = Min(I)
  BY <1>1 DEF SelectInSeq
<1>4. RemoveFirst(s, e) = RemoveAt(s, SelectInSeq(s, LAMBDA v : v = e))
  BY <1>1 DEF RemoveFirst
<1> QED BY <1>2, <1>3, <1>4
=============================================================================
