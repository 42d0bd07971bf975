--------------------------- MODULE SequenceLemmas ---------------------------
(***************************************************************************)
(* What appending, joining and removing do to the elements of a sequence:  *)
(* the lemmas on ready and got that the proofs about the queue share.      *)
(***************************************************************************)
EXTENDS SequencesExt, SequenceTheorems, FiniteSetTheorems, TLAPS

\* s has no element twice.
NoRepeats(s) == \A m, n \in 1..Len(s) : s[m] = s[n] => m = n

LEMMA ToSetIndices ==
  ASSUME NEW S, NEW s \in Seq(S)
  PROVE  ToSet(s) = {s[n] : n \in 1..Len(s)} /\ ToSet(s) \subseteq S
  BY LenProperties, ElementOfSeq DEF ToSet

LEMMA ConcatSet ==
  ASSUME NEW S, NEW s \in Seq(S), NEW u \in Seq(S)
  PROVE  /\ s \o u \in Seq(S)
         /\ ToSet(s \o u) = ToSet(s) \cup ToSet(u)
         /\ NoRepeats(s) /\ NoRepeats(u) /\ ToSet(s) \cap ToSet(u) = {}
              => NoRepeats(s \o u)
<1> DEFINE c == s \o u
<1>1. /\ c \in Seq(S)
      /\ Len(c) = Len(s) + Len(u)
      /\ \A i \in 1..(Len(s) + Len(u)) :
           c[i] = IF i <= Len(s) THEN s[i] ELSE u[i - Len(s)]
  BY ConcatProperties
<1>2. Len(s) \in Nat /\ Len(u) \in Nat
  BY LenProperties
<1> HIDE DEF c
<1>3. \A i \in 1..Len(s) : c[i] = s[i]
  BY <1>1, <1>2
<1>4. \A i \in 1..Len(u) : Len(s) + i \in 1..Len(c) /\ c[Len(s) + i] = u[i]
  BY <1>1, <1>2
<1>5. \A i \in 1..Len(c) : \/ i \in 1..Len(s) /\ c[i] = s[i]
                           \/ i - Len(s) \in 1..Len(u) /\ c[i] = u[i - Len(s)]
  BY <1>1, <1>2
<1>6. /\ ToSet(c) = {c[n] : n \in 1..Len(c)}
      /\ ToSet(s) = {s[n] : n \in 1..Len(s)}
      /\ ToSet(u) = {u[n] : n \in 1..Len(u)}
  BY <1>1, ToSetIndices
<1>7. ToSet(c) = ToSet(s) \cup ToSet(u)
  <2>1. \A x : x \in ToSet(c) => x \in ToSet(s) \cup ToSet(u)
    BY <1>5, <1>6
  <2>2. \A x : x \in ToSet(s) => x \in ToSet(c)
    BY <1>1, <1>2, <1>3, <1>6
  <2>3. \A x : x \in ToSet(u) => x \in ToSet(c)
    BY <1>4, <1>6
  <2> QED
    BY <2>1, <2>2, <2>3
<1>8. ASSUME NoRepeats(s), NoRepeats(u), ToSet(s) \cap ToSet(u) = {}
      PROVE  NoRepeats(c)
  <2> SUFFICES ASSUME NEW m \in 1..Len(c), NEW n \in 1..Len(c), c[m] = c[n]
               PROVE  m = n
    BY DEF NoRepeats
  <2>1. CASE m \in 1..Len(s) /\ n \in 1..Len(s)
    BY <2>1, <1>3, <1>8 DEF NoRepeats
  <2>2. CASE m \notin 1..Len(s) /\ n \notin 1..Len(s)
    <3>1. /\ m - Len(s) \in 1..Len(u) /\ c[m] = u[m - Len(s)]
          /\ n - Len(s) \in 1..Len(u) /\ c[n] = u[n - Len(s)]
      BY <2>2, <1>5
    <3>2. m - Len(s) = n - Len(s)
      BY <3>1, <1>8 DEF NoRepeats
    <3> QED
      BY <3>2, <1>1, <1>2
  <2>3. CASE m \in 1..Len(s) /\ n \notin 1..Len(s)
    <3>1. c[m] \in ToSet(s) /\ c[n] \in ToSet(u)
      BY <2>3, <1>3, <1>5, <1>6
    <3> QED
      BY <3>1, <1>8
  <2>4. CASE m \notin 1..Len(s) /\ n \in 1..Len(s)
    <3>1. c[n] \in ToSet(s) /\ c[m] \in ToSet(u)
      BY <2>4, <1>3, <1>5, <1>6
    <3> QED
      BY <3>1, <1>8
  <2> QED
    BY <2>1, <2>2, <2>3, <2>4
<1> QED
  BY <1>1, <1>7, <1>8 DEF c

LEMMA AppendSet ==
  ASSUME NEW S, NEW s \in Seq(S), NEW e \in S
  PROVE  /\ Append(s, e) \in Seq(S)
         /\ ToSet(Append(s, e)) = ToSet(s) \cup {e}
         /\ NoRepeats(s) /\ e \notin ToSet(s) => NoRepeats(Append(s, e))
<1> DEFINE c == Append(s, e)
<1>1. /\ c \in Seq(S)
      /\ Len(c) = Len(s) + 1
      /\ \A i \in 1..Len(s) : c[i] = s[i]
      /\ c[Len(s) + 1] = e
  BY AppendProperties
<1>2. Len(s) \in Nat
  BY LenProperties
<1> HIDE DEF c
<1>3. /\ ToSet(c) = {c[n] : n \in 1..Len(c)}
      /\ ToSet(s) = {s[n] : n \in 1..Len(s)}
  BY <1>1, ToSetIndices
<1>4. \A i \in 1..Len(c) : i \in 1..Len(s) \/ i = Len(s) + 1
  BY <1>1, <1>2
<1>5. ToSet(c) = ToSet(s) \cup {e}
  <2>1. \A x : x \in ToSet(c) => x \in ToSet(s) \cup {e}
    BY <1>1, <1>3, <1>4
  <2>2. \A x : x \in ToSet(s) => x \in ToSet(c)
    BY <1>1, <1>2, <1>3
  <2>3. e \in ToSet(c)
    BY <1>1, <1>2, <1>3
  <2> QED
    BY <2>1, <2>2, <2>3
<1>6. NoRepeats(s) /\ e \notin ToSet(s) => NoRepeats(c)
  BY <1>1, <1>2, <1>3, <1>4 DEF NoRepeats
<1> QED
  BY <1>1, <1>5, <1>6 DEF c

LEMMA RemoveAtSet ==
  ASSUME NEW S, NEW s \in Seq(S), NEW n \in 1..Len(s)
  PROVE  /\ RemoveAt(s, n) \in Seq(S)
         /\ NoRepeats(s) => /\ NoRepeats(RemoveAt(s, n))
                            /\ ToSet(RemoveAt(s, n)) = ToSet(s) \ {s[n]}
<1> DEFINE before == SubSeq(s, 1, n - 1)
           after == SubSeq(s, n + 1, Len(s))
           c == before \o after
<1>1. Len(s) \in Nat /\ n \in Nat /\ \A i \in 1..Len(s) : s[i] \in S
  BY LenProperties, ElementOfSeq
<1>2. /\ before \in Seq(S)
      /\ Len(before) = n - 1
      /\ \A i \in 1..(n - 1) : before[i] = s[i]
  BY <1>1, SubSeqProperties
<1>3. /\ after \in Seq(S)
      /\ Len(after) = Len(s) - n
      /\ \A i \in 1..(Len(s) - n) : after[i] = s[n + i]
  BY <1>1, SubSeqProperties
<1>4. RemoveAt(s, n) = c
  BY DEF RemoveAt
<1> HIDE DEF before, after
<1>5. /\ c \in Seq(S)
      /\ ToSet(c) = ToSet(before) \cup ToSet(after)
      /\ NoRepeats(before) /\ NoRepeats(after)
           /\ ToSet(before) \cap ToSet(after) = {} => NoRepeats(c)
  BY <1>2, <1>3, ConcatSet
<1>6. /\ ToSet(before) = {s[i] : i \in 1..(n - 1)}
      /\ ToSet(after) = {s[i] : i \in (n + 1)..Len(s)}
      /\ ToSet(s) = {s[i] : i \in 1..Len(s)}
  <2>1. ToSet(before) = {before[i] : i \in 1..(n - 1)}
    BY <1>2, ToSetIndices
  <2>2. ToSet(after) = {after[i] : i \in 1..(Len(s) - n)}
    BY <1>3, ToSetIndices
  <2>3. \A i \in (n + 1)..Len(s) : /\ i - n \in 1..(Len(s) - n)
                                   /\ after[i - n] = s[i]
    BY <1>1, <1>3
  <2>4. \A i \in 1..(Len(s) - n) : /\ n + i \in (n + 1)..Len(s)
                                   /\ after[i] = s[n + i]
    BY <1>1, <1>3
  <2>5. ToSet(after) = {s[i] : i \in (n + 1)..Len(s)}
    BY <2>2, <2>3, <2>4
  <2>6. ToSet(before) = {s[i] : i \in 1..(n - 1)}
    BY <2>1, <1>2
  <2> QED
    BY <2>5, <2>6, ToSetIndices
<1>7. ASSUME NoRepeats(s)
      PROVE  /\ NoRepeats(before)
             /\ NoRepeats(after)
             /\ ToSet(before) \cap ToSet(after) = {}
             /\ ToSet(before) \cup ToSet(after) = ToSet(s) \ {s[n]}
  <2>1. NoRepeats(before)
    BY <1>1, <1>2, <1>7 DEF NoRepeats
  <2>2. NoRepeats(after)
    <3> SUFFICES ASSUME NEW i \in 1..(Len(s) - n), NEW k \in 1..(Len(s) - n),
                        after[i] = after[k]
                 PROVE  i = k
      BY <1>3 DEF NoRepeats
    <3>1. s[n + i] = s[n + k]
      BY <1>3
    <3>2. n + i \in 1..Len(s) /\ n + k \in 1..Len(s)
      BY <1>1
    <3>3. n + i = n + k
      BY <3>1, <3>2, <1>7 DEF NoRepeats
    <3> QED
      BY <3>3, <1>1
  <2>3. ToSet(before) \cap ToSet(after) = {}
    BY <1>1, <1>6, <1>7 DEF NoRepeats
  <2>4. ToSet(before) \cup ToSet(after) = {s[i] : i \in 1..Len(s) \ {n}}
    BY <1>1, <1>6
  <2>5. {s[i] : i \in 1..Len(s) \ {n}} = ToSet(s) \ {s[n]}
    BY <1>1, <1>6, <1>7 DEF NoRepeats
  <2> QED
    BY <2>1, <2>2, <2>3, <2>4, <2>5
<1> QED
  BY <1>4, <1>5, <1>7
LEMMA ToSetFinite ==
  ASSUME NEW S, NEW s \in Seq(S)
  PROVE  IsFiniteSet(ToSet(s))
<1>1. Len(s) \in Nat /\ ToSet(s) = {s[n] : n \in 1..Len(s)}
  BY LenProperties, ToSetIndices
<1>2. IsFiniteSet(1..Len(s))
  BY <1>1, FS_Interval
<1> DEFINE f == [n \in 1..Len(s) |-> s[n]]
<1>3. f \in Surjection(1..Len(s), ToSet(s))
  BY <1>1 DEF Surjection
<1> QED
  BY <1>2, <1>3, FS_Surjection

\* A sequence without repetitions is an ordering of its elements.
LEMMA OrderingOfElements ==
  ASSUME NEW S, NEW s \in Seq(S), NoRepeats(s)
  PROVE  /\ s \in SetToSeqs(ToSet(s))
         /\ IsFiniteSet(ToSet(s))
         /\ Len(s) \in Nat
         /\ Cardinality(ToSet(s)) = Len(s)
<1> DEFINE D == 1..Len(s)
<1>1. Len(s) \in Nat /\ ToSet(s) = {s[n] : n \in D}
  BY LenProperties, ToSetIndices
<1>2. s \in [D -> ToSet(s)]
  <2>1. s = [n \in D |-> s[n]]
    BY LenProperties
  <2>2. \A n \in D : s[n] \in ToSet(s)
    BY <1>1
  <2> HIDE DEF D
  <2> QED
    BY <2>1, <2>2
<1>3. \A m, n \in D : s[m] = s[n] => m = n
  BY DEF NoRepeats
<1>4. s \in Surjection(D, ToSet(s)) /\ s \in Injection(D, ToSet(s))
  <2> HIDE DEF D
  <2>1. \A x \in ToSet(s) : \E n \in D : s[n] = x
    BY <1>1
  <2>2. s \in Surjection(D, ToSet(s))
    BY <1>2, <2>1 DEF Surjection
  <2>3. DOMAIN s = D
    BY <1>2
  <2>4. IsInjective(s)
    BY <1>3, <2>3 DEF IsInjective
  <2>5. s \in Injection(D, ToSet(s))
    BY <1>2, <2>4 DEF Injection
  <2> QED
    BY <2>2, <2>5
<1>5. IsFiniteSet(D) /\ Cardinality(D) = Len(s)
  BY <1>1, FS_Interval
<1>6. Cardinality(ToSet(s)) = Len(s)
  <2> HIDE DEF D
  <2> QED
    BY <1>4, <1>5, FS_Surjection
<1>7. \A m, n \in D : m # n => s[m] # s[n]
  BY <1>3
<1> QED
  BY <1>1, <1>2, <1>6, <1>7, ToSetFinite DEF SetToSeqs
=============================================================================
