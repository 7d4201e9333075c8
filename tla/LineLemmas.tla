------------------------------ MODULE LineLemmas ------------------------------
(***************************************************************************)
(* Facts about lines, sequences without repeats, which the models use for  *)
(* locks, queues and deques: what joining, leaving and serving them does.  *)
(***************************************************************************)
EXTENDS Integers, Sequences, SequencesExt, SequenceTheorems, FiniteSetTheorems,
        NaturalsInduction, WellFoundedInduction, TLAPS

-------------------------------------------------------------------------------
(* Joining a line, and leaving it in front or in the middle.               *)

\* What is left of a sequence without its i-th member.
LEMMA RemoveAtSeq ==
  ASSUME NEW S, NEW s \in Seq(S), NEW i \in 1 .. Len(s)
  PROVE  /\ RemoveAt(s, i) \in Seq(S)
         /\ Len(RemoveAt(s, i)) = Len(s) - 1
         /\ \A j \in 1 .. Len(s) - 1 :
                RemoveAt(s, i)[j] = IF j < i THEN s[j] ELSE s[j + 1]
<1> DEFINE before == SubSeq(s, 1, i - 1)
           after == SubSeq(s, i + 1, Len(s))
<1>1. Len(s) \in Nat /\ i \in Int /\ \A k \in 1 .. Len(s) : s[k] \in S
  BY LenProperties, ElementOfSeq
<1>2. /\ before \in Seq(S)
      /\ Len(before) = i - 1
      /\ \A k \in 1 .. i - 1 : before[k] = s[k]
  BY <1>1
<1>3. /\ after \in Seq(S)
      /\ Len(after) = Len(s) - i
      /\ \A k \in 1 .. Len(s) - i : after[k] = s[i + k]
  BY <1>1
<1> HIDE DEF before, after
<1>4. /\ before \o after \in Seq(S)
      /\ Len(before \o after) = Len(s) - 1
      /\ \A j \in 1 .. Len(s) - 1 : (before \o after)[j] =
            IF j <= i - 1 THEN before[j] ELSE after[j - (i - 1)]
  BY <1>1, <1>2, <1>3, ConcatProperties
<1>5. ASSUME NEW j \in 1 .. Len(s) - 1
      PROVE  (before \o after)[j] = IF j < i THEN s[j] ELSE s[j + 1]
  <2>1. CASE j < i
    <3>1. j \in 1 .. i - 1 /\ j <= i - 1
      BY <1>1, <2>1
    <3>2. before[j] = s[j]
      BY <1>2, <3>1
    <3>3. (before \o after)[j] = before[j]
      BY <1>4, <3>1
    <3>. QED
      BY <2>1, <3>2, <3>3
  <2>2. CASE j >= i
    <3>1. /\ j - (i - 1) \in 1 .. Len(s) - i
          /\ i + (j - (i - 1)) = j + 1
          /\ ~(j <= i - 1) /\ ~(j < i)
      BY <1>1, <2>2
    <3>2. after[j - (i - 1)] = s[j + 1]
      BY <1>3, <3>1
    <3>3. (before \o after)[j] = after[j - (i - 1)]
      BY <1>4, <3>1
    <3>. QED
      BY <3>1, <3>2, <3>3
  <2>3. j < i \/ j >= i
    BY <1>1
  <2>. QED
    BY <2>1, <2>2, <2>3
<1>6. RemoveAt(s, i) = before \o after
  BY DEF RemoveAt, before, after
<1>. QED
  BY <1>4, <1>5, <1>6

\* Whoever joins a line without being in it is in it once.
LEMMA AppendLine ==
  ASSUME NEW S, NEW s \in Seq(S), NEW e \in S, IsInjective(s), e \notin Range(s)
  PROVE  /\ IsInjective(Append(s, e))
         /\ Range(Append(s, e)) = Range(s) \cup {e}
<1> DEFINE r == Append(s, e)
<1>1. /\ Len(s) \in Nat /\ DOMAIN s = 1 .. Len(s) /\ DOMAIN r = 1 .. Len(s) + 1
      /\ \A i \in 1 .. Len(s) : r[i] = s[i]
      /\ r[Len(s) + 1] = e
  BY LenProperties, AppendProperties
<1> HIDE DEF r
<1>2. IsInjective(r)
  BY <1>1 DEF IsInjective, Range
<1>3. Range(r) = Range(s) \cup {e}
  BY <1>1 DEF Range
<1>. QED
  BY <1>2, <1>3 DEF r

\* Whoever is first in a line and leaves it is no longer in it.
LEMMA TailLine ==
  ASSUME NEW S, NEW s \in Seq(S), s # <<>>, IsInjective(s)
  PROVE  /\ IsInjective(Tail(s))
         /\ Range(Tail(s)) = Range(s) \ {Head(s)}
<1> DEFINE r == Tail(s)
<1>1. /\ Len(s) \in Nat \ {0} /\ DOMAIN s = 1 .. Len(s) /\ DOMAIN r = 1 .. Len(s) - 1
      /\ \A i \in 1 .. Len(s) - 1 : r[i] = s[i + 1]
      /\ Head(s) = s[1]
  BY LenProperties, HeadTailProperties, EmptySeq
<1> HIDE DEF r
<1>2. IsInjective(r)
  <2> SUFFICES ASSUME NEW i \in 1 .. Len(s) - 1, NEW j \in 1 .. Len(s) - 1, r[i] = r[j]
               PROVE  i = j
    BY <1>1 DEF IsInjective
  <2>1. s[i + 1] = s[j + 1] /\ i + 1 \in DOMAIN s /\ j + 1 \in DOMAIN s
    BY <1>1
  <2>2. i + 1 = j + 1
    BY <2>1 DEF IsInjective
  <2>. QED
    BY <1>1, <2>2
<1>3. Range(r) \subseteq Range(s) \ {Head(s)}
  BY <1>1 DEF Range, IsInjective
<1>4. ASSUME NEW x \in Range(s), x # Head(s)
      PROVE  x \in Range(r)
  <2>1. PICK k \in 1 .. Len(s) : x = s[k]
    BY <1>1 DEF Range
  <2>2. k - 1 \in 1 .. Len(s) - 1 /\ r[k - 1] = x
    BY <1>1, <1>4, <2>1
  <2>. QED
    BY <1>1, <2>2 DEF Range
<1>. QED
  BY <1>2, <1>3, <1>4 DEF r

\* Nor is whoever leaves it in the middle.
LEMMA RemoveAtLine ==
  ASSUME NEW S, NEW s \in Seq(S), NEW i \in 1 .. Len(s), IsInjective(s)
  PROVE  /\ IsInjective(RemoveAt(s, i))
         /\ Range(RemoveAt(s, i)) = Range(s) \ {s[i]}
<1> DEFINE r == RemoveAt(s, i)
<1>1. /\ r \in Seq(S)
      /\ Len(r) = Len(s) - 1
      /\ \A j \in 1 .. Len(s) - 1 : r[j] = IF j < i THEN s[j] ELSE s[j + 1]
  BY RemoveAtSeq
<1>. HIDE DEF r
<1>2. Len(s) \in Nat /\ DOMAIN s = 1 .. Len(s) /\ DOMAIN r = 1 .. Len(s) - 1
  BY <1>1, LenProperties
<1>3. IsInjective(r)
  <2> SUFFICES ASSUME NEW j \in 1 .. Len(s) - 1, NEW k \in 1 .. Len(s) - 1, r[j] = r[k]
               PROVE  j = k
    BY <1>2 DEF IsInjective
  <2> DEFINE at(l) == IF l < i THEN l ELSE l + 1
  <2>1. /\ s[at(j)] = s[at(k)]
        /\ at(j) \in DOMAIN s /\ at(k) \in DOMAIN s
    BY <1>1, <1>2
  <2>2. at(j) = at(k)
    BY <2>1 DEF IsInjective
  <2>. QED
    BY <1>2, <2>2
<1>4. Range(r) \subseteq Range(s) \ {s[i]}
  BY <1>1, <1>2 DEF IsInjective, Range
<1>5. ASSUME NEW x \in Range(s), x # s[i]
      PROVE  x \in Range(r)
  <2>1. PICK k \in 1 .. Len(s) : x = s[k]
    BY <1>2 DEF Range
  <2>2. CASE k < i
    BY <1>1, <1>2, <2>1, <2>2 DEF Range
  <2>3. CASE k > i
    <3>1. k - 1 \in 1 .. Len(s) - 1 /\ r[k - 1] = s[k]
      BY <1>1, <1>2, <2>3
    <3>. QED
      BY <1>2, <2>1, <3>1 DEF Range
  <2>. QED
    BY <1>2, <1>5, <2>1, <2>2, <2>3
<1>. QED
  BY <1>3, <1>4, <1>5 DEF r

-------------------------------------------------------------------------------
(* Serving the first of a line.                                            *)

\* The part of a line from the m-th member on is a line.
LEMMA PartLine ==
  ASSUME NEW S, NEW s \in Seq(S), NEW m \in Nat \ {0}, m <= Len(s) + 1, IsInjective(s)
  PROVE  /\ SubSeq(s, m, Len(s)) \in Seq(S)
         /\ Len(SubSeq(s, m, Len(s))) = Len(s) - m + 1
         /\ \A i \in 1 .. Len(s) - m + 1 : SubSeq(s, m, Len(s))[i] = s[m + i - 1]
         /\ IsInjective(SubSeq(s, m, Len(s)))
         /\ Range(SubSeq(s, m, Len(s))) = {s[i] : i \in m .. Len(s)}
<1> DEFINE p == SubSeq(s, m, Len(s))
<1>1. Len(s) \in Nat /\ DOMAIN s = 1 .. Len(s)
  BY LenProperties
<1>2. /\ p \in Seq(S)
      /\ Len(p) = Len(s) - m + 1
      /\ \A i \in 1 .. Len(s) - m + 1 : p[i] = s[m + i - 1]
  BY <1>1
<1>. HIDE DEF p
<1>3. DOMAIN p = 1 .. Len(s) - m + 1
  BY <1>2, LenProperties
<1>4. \A i \in 1 .. Len(s) - m + 1 : m + i - 1 \in m .. Len(s)
  BY <1>1
<1>5. IsInjective(p)
  <2> SUFFICES ASSUME NEW i \in 1 .. Len(s) - m + 1, NEW j \in 1 .. Len(s) - m + 1, p[i] = p[j]
               PROVE  i = j
    BY <1>3 DEF IsInjective
  <2>1. /\ s[m + i - 1] = s[m + j - 1]
        /\ m + i - 1 \in DOMAIN s /\ m + j - 1 \in DOMAIN s
    BY <1>1, <1>2
  <2>2. m + i - 1 = m + j - 1
    BY <2>1 DEF IsInjective
  <2>. QED
    BY <1>1, <2>2
<1>6. Range(p) \subseteq {s[i] : i \in m .. Len(s)}
  BY <1>2, <1>3, <1>4 DEF Range
<1>7. ASSUME NEW i \in m .. Len(s)
      PROVE  s[i] \in Range(p)
  <2>1. i - m + 1 \in 1 .. Len(s) - m + 1 /\ m + (i - m + 1) - 1 = i
    BY <1>1
  <2>. QED
    BY <1>2, <1>3, <2>1 DEF Range
<1>. QED
  BY <1>2, <1>5, <1>6, <1>7 DEF p

\* A set of places that holds all places before each of its members is the
\* beginning of the line.
LEMMA BeginningCounted ==
  ASSUME NEW n \in Nat, NEW E \in SUBSET (1 .. n),
         \A i \in E : \A j \in 1 .. i : j \in E
  PROVE  Cardinality(E) \in 0 .. n /\ E = 1 .. Cardinality(E)
<1>1. IsFiniteSet(1 .. n) /\ Cardinality(1 .. n) = n
  BY FS_Interval
<1>2. IsFiniteSet(E) /\ Cardinality(E) \in Nat /\ Cardinality(E) <= n
  BY <1>1, FS_Subset, FS_CardinalityType
<1>3. IsFiniteSet(1 .. Cardinality(E)) /\ Cardinality(1 .. Cardinality(E)) = Cardinality(E)
  BY <1>2, FS_Interval
<1>4. ASSUME NEW i \in E
      PROVE  i \in 1 .. Cardinality(E)
  <2>1. 1 .. i \in SUBSET E /\ i \in Nat
    OBVIOUS
  <2>2. Cardinality(1 .. i) = i
    BY <2>1, FS_Interval
  <2>3. Cardinality(1 .. i) <= Cardinality(E)
    BY <1>2, <2>1, FS_Subset
  <2>. QED
    BY <1>2, <2>1, <2>2, <2>3
<1>5. E \in SUBSET (1 .. Cardinality(E))
  BY <1>4
<1>6. E = 1 .. Cardinality(E)
  BY <1>3, <1>5, FS_Subset
<1>. QED
  BY <1>2, <1>6

\* The first k of a line are k.
LEMMA FirstCounted ==
  ASSUME NEW S, NEW s \in Seq(S), IsInjective(s), NEW k \in 0 .. Len(s)
  PROVE  /\ IsFiniteSet({s[i] : i \in 1 .. k})
         /\ Cardinality({s[i] : i \in 1 .. k}) = k
<1> DEFINE T == {s[i] : i \in 1 .. k}
           f == [i \in 1 .. k |-> s[i]]
<1>1. Len(s) \in Nat /\ DOMAIN s = 1 .. Len(s) /\ k \in Nat
  BY LenProperties
<1>2. f \in Injection(1 .. k, T)
  BY <1>1 DEF Injection, IsInjective
<1>3. f \in Surjection(1 .. k, T)
  BY DEF Surjection
<1>4. ExistsBijection(1 .. k, T)
  BY <1>2, <1>3 DEF ExistsBijection, Bijection
<1>5. IsFiniteSet(1 .. k) /\ Cardinality(1 .. k) = k
  BY <1>1, FS_Interval
<1>. QED
  BY <1>4, <1>5, FS_Bijection

\* Some number of a set of numbers is the least.
LEMMA LeastNumber ==
  ASSUME NEW T, T \subseteq Nat, T # {}
  PROVE  \E m \in T : \A n \in T : m <= n
<1>1. IsWellFoundedOn(OpToRel(<, Nat), Nat)
  BY NatLessThanWellFounded
<1>2. PICK m \in T : \A n \in T : ~ (<<n, m>> \in OpToRel(<, Nat))
  BY <1>1, WFMin
<1>3. \A n \in T : ~(n < m)
  BY <1>2 DEF OpToRel
<1>. QED
  BY <1>3
===============================================================================
