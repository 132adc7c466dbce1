-------------------------- MODULE AgentRead_proofs --------------------------
(***************************************************************************)
(* Proofs about AgentRead, for every number of panes and names, every size *)
(* of screen, tail, overlap and answer, and every number of changes and    *)
(* writes, in four parts:                                                  *)
(*                                                                         *)
(*   1. ends of sequences, and the greatest number of a set;               *)
(*   2. the search for the earlier screen (ExactEnd, OverlapEnd) and the   *)
(*      answer of a read, for any text and any cursor;                     *)
(*   3. types, and what the reader remembers of the agents it has met;     *)
(*   4. which agent a route leads to, and what an answer leaves out.       *)
(*                                                                         *)
(* ExactEnd searches by a recursive function.  That the function exists,   *)
(* and what it finds, is shown by the least number for which it might not: *)
(* the well-foundedness of < on the naturals, without a schema.            *)
(***************************************************************************)
EXTENDS AgentRead, SequenceTheorems, FiniteSetTheorems, WellFoundedInduction, TLAPS

-----------------------------------------------------------------------------
(* 1. Numbers and sequences.                                               *)

\* A set of naturals that is not empty has a least member.
LEMMA LeastNumber ==
  ASSUME NEW T, T \subseteq Nat, T # {}
  PROVE  \E x \in T : \A y \in T : x <= y
<1> DEFINE R == OpToRel(<, Nat)
<1>1. IsWellFoundedOn(R, Nat)
  BY NatLessThanWellFounded
<1> HIDE DEF R
<1>2. PICK x \in T : \A y \in T : ~(<<y, x>> \in R)
  BY <1>1, WFMin
<1>3. ASSUME NEW y \in T, y < x
      PROVE  <<y, x>> \in R
  BY <1>3 DEF R, OpToRel
<1>4. ASSUME NEW y \in T
      PROVE  x <= y
  <2>1. ~(y < x)
    BY <1>2, <1>3
  <2>2. x \in Nat /\ y \in Nat
    OBVIOUS
  <2>3. QED
    BY <2>1, <2>2
<1>5. QED
  BY <1>4

\* Max and Min choose what they are named for.
LEMMA GreatestNumber ==
  ASSUME NEW n \in Nat, NEW T, T \subseteq 0..n, T # {}
  PROVE  Max(T) \in T /\ \A y \in T : y <= Max(T)
<1> DEFINE D == {d \in 0..n : n - d \in T}
<1>1. D \subseteq Nat
  OBVIOUS
<1>2. D # {}
  <2>1. PICK x \in T : TRUE
    OBVIOUS
  <2>2. n - x \in 0..n /\ n - (n - x) = x
    OBVIOUS
  <2>3. QED
    BY <2>1, <2>2
<1>3. PICK d \in D : \A e \in D : d <= e
  BY <1>1, <1>2, LeastNumber
<1>4. n - d \in T
  BY <1>3
<1>5. ASSUME NEW y \in T
      PROVE  n - d >= y
  <2>1. y \in 0..n /\ n - y \in 0..n /\ n - (n - y) = y
    OBVIOUS
  <2>2. n - y \in D
    BY <2>1
  <2>3. d <= n - y
    BY <1>3, <2>2
  <2>4. QED
    BY <2>1, <2>3
<1>6. Max(T) \in T /\ \A y \in T : Max(T) >= y
  BY <1>4, <1>5 DEF Max
<1>7. QED
  BY <1>6

LEMMA MaxOfOne ==
  ASSUME NEW k \in Nat
  PROVE  Max({k}) = k
BY DEF Max

LEMMA MinOfTwo ==
  ASSUME NEW a \in Nat, NEW b \in Nat
  PROVE  Min({a, b}) = IF a <= b THEN a ELSE b
BY DEF Min

\* The end of a sequence, and the rest of it.
LEMMA LastIs ==
  ASSUME NEW s \in Seq(Nat), NEW n \in Nat
  PROVE  /\ Last(s, n) \in Seq(Nat)
         /\ Len(Last(s, n)) = IF Len(s) <= n THEN Len(s) ELSE n
         /\ \A i \in 1..Len(Last(s, n)) :
               Last(s, n)[i] = s[Len(s) - Len(Last(s, n)) + i]
<1>1. Len(s) \in Nat /\ \A i \in 1..Len(s) : s[i] \in Nat
  BY LenProperties, ElementOfSeq
<1>2. CASE Len(s) <= n
  BY <1>1, <1>2 DEF Last
<1>3. CASE ~(Len(s) <= n)
  <2>1. Last(s, n) = SubSeq(s, Len(s) - n + 1, Len(s))
    BY <1>3 DEF Last
  <2>2. \A i \in Len(s) - n + 1 .. Len(s) : s[i] \in Nat
    BY <1>1, <1>3
  <2>3. /\ Last(s, n) \in Seq(Nat)
        /\ Len(Last(s, n)) = IF Len(s) - n + 1 <= Len(s)
                             THEN Len(s) - (Len(s) - n + 1) + 1 ELSE 0
        /\ \A i \in 1 .. Len(s) - (Len(s) - n + 1) + 1 :
              Last(s, n)[i] = s[Len(s) - n + 1 + i - 1]
    BY <1>1, <2>1, <2>2, SubSeqProperties
  <2>4. Len(Last(s, n)) = n
    BY <1>1, <2>3
  <2>5. ASSUME NEW i \in 1..n
        PROVE  Last(s, n)[i] = s[Len(s) - n + i]
    <3>1. /\ i \in 1 .. Len(s) - (Len(s) - n + 1) + 1
          /\ Len(s) - n + 1 + i - 1 = Len(s) - n + i
      BY <1>1
    <3>2. QED
      BY <2>3, <3>1
  <2>6. QED
    BY <1>3, <2>3, <2>4, <2>5
<1>4. QED
  BY <1>2, <1>3

LEMMA LastN ==
  ASSUME NEW s \in Seq(Nat), NEW n \in 0..Len(s)
  PROVE  /\ Last(s, n) \in Seq(Nat)
         /\ Len(Last(s, n)) = n
         /\ \A i \in 1..n : Last(s, n)[i] = s[Len(s) - n + i]
<1>1. Len(s) \in Nat /\ n \in Nat /\ n <= Len(s)
  BY LenProperties
<1>2. Last(s, n) \in Seq(Nat)
  BY <1>1, LastIs
<1>3. Len(Last(s, n)) = IF Len(s) <= n THEN Len(s) ELSE n
  BY <1>1, LastIs
<1>4. Len(Last(s, n)) = n
  BY <1>1, <1>3
<1>5. \A i \in 1..Len(Last(s, n)) : Last(s, n)[i] = s[Len(s) - Len(Last(s, n)) + i]
  BY <1>1, LastIs
<1>6. QED
  BY <1>2, <1>4, <1>5

LEMMA FromIs ==
  ASSUME NEW s \in Seq(Nat), NEW n \in 0..Len(s)
  PROVE  /\ From(s, n) \in Seq(Nat)
         /\ Len(From(s, n)) = Len(s) - n
         /\ \A i \in 1..Len(s) - n : From(s, n)[i] = s[n + i]
<1>1. Len(s) \in Nat /\ \A i \in 1..Len(s) : s[i] \in Nat
  BY LenProperties, ElementOfSeq
<1>2. \A i \in n + 1 .. Len(s) : s[i] \in Nat
  BY <1>1
<1>3. /\ From(s, n) \in Seq(Nat)
      /\ Len(From(s, n)) = IF n + 1 <= Len(s) THEN Len(s) - (n + 1) + 1 ELSE 0
      /\ \A i \in 1 .. Len(s) - (n + 1) + 1 : From(s, n)[i] = s[n + 1 + i - 1]
  BY <1>1, <1>2, SubSeqProperties DEF From
<1>4. Len(From(s, n)) = Len(s) - n
  BY <1>1, <1>3
<1>5. ASSUME NEW i \in 1..Len(s) - n
      PROVE  From(s, n)[i] = s[n + i]
  <2>1. i \in 1 .. Len(s) - (n + 1) + 1 /\ n + 1 + i - 1 = n + i
    BY <1>1
  <2>2. QED
    BY <1>3, <2>1
<1>6. QED
  BY <1>3, <1>4, <1>5

\* The first n.
LEMMA FirstIs ==
  ASSUME NEW s \in Seq(Nat), NEW n \in 0..Len(s)
  PROVE  /\ SubSeq(s, 1, n) \in Seq(Nat)
         /\ Len(SubSeq(s, 1, n)) = n
         /\ \A i \in 1..n : SubSeq(s, 1, n)[i] = s[i]
<1>1. Len(s) \in Nat /\ \A i \in 1..n : s[i] \in Nat
  BY LenProperties, ElementOfSeq
<1>2. /\ SubSeq(s, 1, n) \in Seq(Nat)
      /\ Len(SubSeq(s, 1, n)) = IF 1 <= n THEN n - 1 + 1 ELSE 0
      /\ \A i \in 1 .. n - 1 + 1 : SubSeq(s, 1, n)[i] = s[1 + i - 1]
  BY <1>1, SubSeqProperties
<1>3. Len(SubSeq(s, 1, n)) = n
  BY <1>1, <1>2
<1>4. ASSUME NEW i \in 1..n
      PROVE  SubSeq(s, 1, n)[i] = s[i]
  <2>1. i \in 1 .. n - 1 + 1 /\ 1 + i - 1 = i
    BY <1>1
  <2>2. QED
    BY <1>2, <2>1
<1>5. QED
  BY <1>2, <1>3, <1>4

\* t is the end of s, glyph by glyph.
LEMMA EndsWithIs ==
  ASSUME NEW s \in Seq(Nat), NEW t \in Seq(Nat)
  PROVE  EndsWith(s, t) <=>
            /\ Len(t) <= Len(s)
            /\ \A i \in 1..Len(t) : s[Len(s) - Len(t) + i] = t[i]
<1>0. Len(s) \in Nat /\ Len(t) \in Nat
  BY LenProperties
<1>1. CASE Len(t) <= Len(s)
  <2> DEFINE e == Last(s, Len(t))
  <2>1. /\ e \in Seq(Nat) /\ Len(e) = Len(t)
        /\ \A i \in 1..Len(t) : e[i] = s[Len(s) - Len(t) + i]
    BY <1>0, <1>1, LastN
  <2> HIDE DEF e
  <2>2. e = t <=> \A i \in 1..Len(t) : e[i] = t[i]
    BY <2>1, SeqEqual
  <2>3. (\A i \in 1..Len(t) : e[i] = t[i])
           <=> \A i \in 1..Len(t) : s[Len(s) - Len(t) + i] = t[i]
    BY <2>1
  <2>4. EndsWith(s, t) <=> e = t
    BY <1>1 DEF EndsWith, e
  <2>5. QED
    BY <1>1, <2>2, <2>3, <2>4
<1>2. CASE ~(Len(t) <= Len(s))
  BY <1>2 DEF EndsWith
<1>3. QED
  BY <1>1, <1>2

LEMMA EndsWithLast ==
  ASSUME NEW s \in Seq(Nat), NEW n \in Nat
  PROVE  EndsWith(s, Last(s, n))
<1> DEFINE e == Last(s, n)
<1>1. /\ e \in Seq(Nat) /\ Len(e) <= Len(s)
      /\ \A i \in 1..Len(e) : s[Len(s) - Len(e) + i] = e[i]
  BY LastIs, LenProperties
<1> HIDE DEF e
<1>2. EndsWith(s, e)
  BY <1>1, EndsWithIs
<1>3. QED
  BY <1>2 DEF e

LEMMA EndsWithSelf ==
  ASSUME NEW s \in Seq(Nat)
  PROVE  EndsWith(s, s) /\ EndsWith(s, <<>>)
<1>1. Len(s) \in Nat /\ <<>> \in Seq(Nat) /\ Len(<<>>) = 0
  BY LenProperties, EmptySeq
<1>2. ASSUME NEW i \in 1..Len(s)
      PROVE  s[Len(s) - Len(s) + i] = s[i]
  <2>1. Len(s) - Len(s) + i = i
    BY <1>1
  <2>2. QED
    BY <2>1
<1>3. EndsWith(s, s)
  BY <1>1, <1>2, EndsWithIs
<1>4. \A i \in 1..Len(<<>>) : s[Len(s) - Len(<<>>) + i] = <<>>[i]
  BY <1>1
<1>5. EndsWith(s, <<>>)
  <2> DEFINE e == <<>>
  <2>1. e \in Seq(Nat) /\ Len(e) <= Len(s)
        /\ \A i \in 1..Len(e) : s[Len(s) - Len(e) + i] = e[i]
    BY <1>1, <1>4
  <2> HIDE DEF e
  <2>2. EndsWith(s, e)
    BY <2>1, EndsWithIs
  <2>3. QED
    BY <2>2 DEF e
<1>6. QED
  BY <1>3, <1>5

LEMMA EndsWithTransitive ==
  ASSUME NEW s \in Seq(Nat), NEW t \in Seq(Nat), NEW u \in Seq(Nat),
         EndsWith(s, t), EndsWith(t, u)
  PROVE  EndsWith(s, u)
<1>1. /\ Len(s) \in Nat /\ Len(t) \in Nat /\ Len(u) \in Nat
      /\ Len(t) <= Len(s) /\ Len(u) <= Len(t)
      /\ \A i \in 1..Len(t) : s[Len(s) - Len(t) + i] = t[i]
      /\ \A i \in 1..Len(u) : t[Len(t) - Len(u) + i] = u[i]
  BY LenProperties, EndsWithIs
<1>2. ASSUME NEW i \in 1..Len(u)
      PROVE  s[Len(s) - Len(u) + i] = u[i]
  <2>1. /\ Len(t) - Len(u) + i \in 1..Len(t)
        /\ Len(s) - Len(t) + (Len(t) - Len(u) + i) = Len(s) - Len(u) + i
    BY <1>1
  <2>2. QED
    BY <1>1, <2>1
<1>3. QED
  BY <1>1, <1>2, EndsWithIs

\* What ends with t goes on to end with t and more.
LEMMA EndsWithMore ==
  ASSUME NEW s \in Seq(Nat), NEW t \in Seq(Nat), NEW u \in Seq(Nat),
         EndsWith(s, t)
  PROVE  EndsWith(s \o u, t \o u)
<1>1. /\ Len(s) \in Nat /\ Len(t) \in Nat /\ Len(u) \in Nat
      /\ Len(t) <= Len(s)
      /\ \A i \in 1..Len(t) : s[Len(s) - Len(t) + i] = t[i]
  BY LenProperties, EndsWithIs
<1>2. /\ s \o u \in Seq(Nat) /\ Len(s \o u) = Len(s) + Len(u)
      /\ \A i \in 1 .. Len(s) + Len(u) :
            (s \o u)[i] = IF i <= Len(s) THEN s[i] ELSE u[i - Len(s)]
  BY ConcatProperties
<1>3. /\ t \o u \in Seq(Nat) /\ Len(t \o u) = Len(t) + Len(u)
      /\ \A i \in 1 .. Len(t) + Len(u) :
            (t \o u)[i] = IF i <= Len(t) THEN t[i] ELSE u[i - Len(t)]
  BY ConcatProperties
<1>4. ASSUME NEW i \in 1 .. Len(t) + Len(u)
      PROVE  (s \o u)[(Len(s) + Len(u)) - (Len(t) + Len(u)) + i] = (t \o u)[i]
  <2>1. /\ Len(s) - Len(t) + i \in 1 .. Len(s) + Len(u)
        /\ (Len(s) + Len(u)) - (Len(t) + Len(u)) + i = Len(s) - Len(t) + i
    BY <1>1
  <2>2. CASE i <= Len(t)
    <3>1. Len(s) - Len(t) + i <= Len(s) /\ i \in 1..Len(t)
      BY <1>1, <2>2
    <3>2. QED
      BY <1>1, <1>2, <1>3, <2>1, <2>2, <3>1
  <2>3. CASE ~(i <= Len(t))
    <3>1. /\ ~(Len(s) - Len(t) + i <= Len(s))
          /\ Len(s) - Len(t) + i - Len(s) = i - Len(t)
      BY <1>1, <2>3
    <3>2. QED
      BY <1>2, <1>3, <2>1, <2>3, <3>1
  <2>4. QED
    BY <2>2, <2>3
<1>5. Len(t \o u) <= Len(s \o u)
  BY <1>1, <1>2, <1>3
<1>6. \A i \in 1..Len(t \o u) :
         (s \o u)[Len(s \o u) - Len(t \o u) + i] = (t \o u)[i]
  BY <1>2, <1>3, <1>4
<1>7. s \o u \in Seq(Nat) /\ t \o u \in Seq(Nat)
  BY <1>2, <1>3
<1> DEFINE v == s \o u
           w == t \o u
<1> HIDE DEF v, w
<1>8. EndsWith(v, w)
  <2>1. v \in Seq(Nat) /\ w \in Seq(Nat) /\ Len(w) <= Len(v)
        /\ \A i \in 1..Len(w) : v[Len(v) - Len(w) + i] = w[i]
    BY <1>5, <1>6, <1>7 DEF v, w
  <2>2. QED
    BY <2>1, EndsWithIs
<1>9. QED
  BY <1>8 DEF v, w

\* The last n of a sequence are the last n of its end.
LEMMA LastOfEnd ==
  ASSUME NEW s \in Seq(Nat), NEW t \in Seq(Nat), EndsWith(s, t),
         NEW n \in 0..Len(t)
  PROVE  Last(s, n) = Last(t, n)
<1>1. /\ Len(s) \in Nat /\ Len(t) \in Nat /\ Len(t) <= Len(s) /\ n \in Nat
      /\ \A i \in 1..Len(t) : s[Len(s) - Len(t) + i] = t[i]
  BY LenProperties, EndsWithIs
<1>2. /\ Last(s, n) \in Seq(Nat) /\ Len(Last(s, n)) = n
      /\ \A i \in 1..n : Last(s, n)[i] = s[Len(s) - n + i]
  <2>1. n \in 0..Len(s)
    BY <1>1
  <2>2. QED
    BY <2>1, LastN
<1>3. /\ Last(t, n) \in Seq(Nat) /\ Len(Last(t, n)) = n
      /\ \A i \in 1..n : Last(t, n)[i] = t[Len(t) - n + i]
  BY <1>1, LastN
<1>4. ASSUME NEW i \in 1..n
      PROVE  Last(s, n)[i] = Last(t, n)[i]
  <2>1. /\ Len(t) - n + i \in 1..Len(t)
        /\ Len(s) - Len(t) + (Len(t) - n + i) = Len(s) - n + i
    BY <1>1
  <2>2. QED
    BY <1>1, <1>2, <1>3, <2>1
<1>5. QED
  BY <1>2, <1>3, <1>4, SeqEqual

\* A sequence is what comes first and what comes after.
LEMMA FirstAndRest ==
  ASSUME NEW s \in Seq(Nat), NEW n \in 0..Len(s)
  PROVE  SubSeq(s, 1, n) \o From(s, n) = s
<1>1. Len(s) \in Nat
  BY LenProperties
<1>2. 1 \in 1..Len(s) + 1 /\ n \in 1 - 1 .. Len(s) /\ Len(s) \in n .. Len(s)
  BY <1>1
<1>3. SubSeq(s, 1, n) \o SubSeq(s, n + 1, Len(s)) = SubSeq(s, 1, Len(s))
  BY <1>2, ConcatAdjacentSubSeq
<1>4. QED
  BY <1>3, SubSeqFull DEF From

\* Where something of t stands in s, the rest completes it: if the first n of
\* s end with t, then s ends with t and the rest.
LEMMA EndsWithRest ==
  ASSUME NEW s \in Seq(Nat), NEW n \in 0..Len(s), NEW t \in Seq(Nat),
         EndsWith(SubSeq(s, 1, n), t)
  PROVE  EndsWith(s, t \o From(s, n))
<1>1. SubSeq(s, 1, n) \in Seq(Nat) /\ From(s, n) \in Seq(Nat)
  BY FirstIs, FromIs
<1>2. EndsWith(SubSeq(s, 1, n) \o From(s, n), t \o From(s, n))
  BY <1>1, EndsWithMore
<1>3. QED
  BY <1>2, FirstAndRest
-----------------------------------------------------------------------------
(* 2. The search and the answer.                                           *)

\* What Found finds, and that the last of the places is further up than where
\* the search began, so that the search ends.
LEMMA FoundIs ==
  ASSUME NEW s \in Seq(Nat), NEW t \in Seq(Nat), NEW upto \in 0..Len(s),
         Found(s, t, upto) # {}
  PROVE  LET m == Max(Found(s, t, upto))
         IN /\ m \in Nat /\ m + Len(t) \in 0..upto
            /\ SubSeq(s, m + 1, m + Len(t)) = t
<1> DEFINE T == Found(s, t, upto)
<1>1. upto \in Nat /\ Len(t) \in Nat
  BY LenProperties
<1>2. T \subseteq 0..upto
  BY DEF Found
<1>3. \A m \in T : /\ m \in Nat /\ m + Len(t) \in 0..upto
                  /\ SubSeq(s, m + 1, m + Len(t)) = t
  BY <1>1 DEF Found
<1> HIDE DEF T
<1>4. T # {}
  BY DEF T
<1>5. Max(T) \in T
  BY <1>1, <1>2, <1>4, GreatestNumber
<1>6. QED
  BY <1>3, <1>5 DEF T

\* What stands at m in s is the end of what s is up to there.
LEMMA PlaceIsEnd ==
  ASSUME NEW s \in Seq(Nat), NEW t \in Seq(Nat), NEW m \in Nat,
         m + Len(t) <= Len(s), SubSeq(s, m + 1, m + Len(t)) = t
  PROVE  EndsWith(SubSeq(s, 1, m + Len(t)), t)
<1>1. Len(s) \in Nat /\ Len(t) \in Nat /\ m + Len(t) \in 0..Len(s)
  BY LenProperties
<1> DEFINE k == m + Len(t)
           e == SubSeq(s, 1, k)
<1>2. e \in Seq(Nat) /\ Len(e) = k /\ \A i \in 1..k : e[i] = s[i]
  BY <1>1, FirstIs
<1>3. ASSUME NEW i \in 1..Len(t)
      PROVE  t[i] = s[m + i]
  <2>1. \A j \in m + 1 .. k : s[j] \in Nat
    BY <1>1, ElementOfSeq
  <2>2. \A j \in 1 .. k - (m + 1) + 1 : SubSeq(s, m + 1, k)[j] = s[m + 1 + j - 1]
    BY <1>1, <2>1, SubSeqProperties
  <2>3. i \in 1 .. k - (m + 1) + 1 /\ m + 1 + i - 1 = m + i
    BY <1>1
  <2>4. QED
    BY <2>2, <2>3
<1> HIDE DEF e
<1>4. ASSUME NEW i \in 1..Len(t)
      PROVE  e[Len(e) - Len(t) + i] = t[i]
  <2>1. Len(e) - Len(t) + i = m + i /\ m + i \in 1..k
    BY <1>1, <1>2
  <2>2. QED
    BY <1>2, <1>3, <2>1
<1>5. EndsWith(e, t)
  <2>1. Len(t) <= Len(e)
    BY <1>1, <1>2
  <2>2. QED
    BY <1>2, <1>4, <2>1, EndsWithIs
<1>6. QED
  BY <1>5 DEF e

\* One step of the search in ExactEnd, f being the search so far.
SearchStep(s, c, f, upto) ==
    LET places == Found(s, c.tail, upto) IN
    IF places = {} THEN {}
    ELSE LET end == Max(places) + Len(c.tail) IN
         IF end >= Len(c.hash) /\ Last(SubSeq(s, 1, end), Len(c.hash)) = c.hash
         THEN {end}
         ELSE f[Max(places)]

IsSearch(s, c, n, f) == f = [upto \in 0..n |-> SearchStep(s, c, f, upto)]

LEMMA ExactEndIs ==
  ASSUME NEW s, NEW c, c.hash # <<>>
  PROVE  ExactEnd(s, c) = (CHOOSE f : IsSearch(s, c, Len(s), f))[Len(s)]
<1>1. ExactEnd(s, c) =
         (CHOOSE f : f = [upto \in 0..Len(s) |-> SearchStep(s, c, f, upto)])[Len(s)]
  BY Zenon DEF ExactEnd, SearchStep
<1>2. QED
  BY <1>1, Zenon DEF IsSearch

\* A step looks only at what was found further up.
LEMMA SearchLooksUp ==
  ASSUME NEW s \in Seq(Nat), NEW c, c.tail \in Seq(Nat), c.tail # <<>>,
         NEW upto \in 0..Len(s), NEW f, NEW g,
         \A k \in 0..upto : k < upto => f[k] = g[k]
  PROVE  SearchStep(s, c, f, upto) = SearchStep(s, c, g, upto)
<1>1. CASE Found(s, c.tail, upto) = {}
  BY <1>1 DEF SearchStep
<1>2. CASE Found(s, c.tail, upto) # {}
  <2> DEFINE m == Max(Found(s, c.tail, upto))
  <2>1. m \in Nat /\ m + Len(c.tail) \in 0..upto
    BY <1>2, FoundIs
  <2>2. Len(c.tail) \in Nat /\ Len(c.tail) # 0 /\ upto \in Nat
    BY LenProperties, EmptySeq
  <2> HIDE DEF m
  <2>3. m \in 0..upto /\ m < upto
    BY <2>1, <2>2
  <2>4. f[m] = g[m]
    BY <2>3
  <2>5. QED
    BY <1>2, <2>4 DEF SearchStep, m
<1>3. QED
  BY <1>1, <1>2

\* The search is defined, up to every place of the screen.
LEMMA SearchExists ==
  ASSUME NEW s \in Seq(Nat), NEW c, c.tail \in Seq(Nat), c.tail # <<>>
  PROVE  \E f : IsSearch(s, c, Len(s), f)
<1> DEFINE T == {n \in 0..Len(s) : ~\E f : IsSearch(s, c, n, f)}
<1>0. Len(s) \in Nat
  BY LenProperties
<1>1. SUFFICES ASSUME T # {}
               PROVE  FALSE
  BY <1>0
<1>2. PICK n \in T : \A k \in T : n <= k
  <2>1. T \subseteq Nat
    BY <1>0
  <2> HIDE DEF T
  <2>2. QED
    BY <1>1, <2>1, LeastNumber
<1>3. PICK g : n > 0 => IsSearch(s, c, n - 1, g)
  <2>1. CASE n = 0
    BY <2>1, <1>0
  <2>2. CASE n > 0
    <3>1. n - 1 \in 0..Len(s) /\ ~(n <= n - 1)
      BY <1>0, <2>2
    <3>2. n - 1 \notin T
      BY <1>2, <3>1
    <3>3. \E g : IsSearch(s, c, n - 1, g)
      BY <3>1, <3>2
    <3>4. QED
      BY <3>3
  <2>3. QED
    BY <1>0, <2>1, <2>2
<1> DEFINE f == [upto \in 0..n |-> IF upto < n THEN g[upto] ELSE SearchStep(s, c, g, n)]
<1>4. n \in 0..Len(s) /\ n \in Nat
  BY <1>0
<1>5. ASSUME NEW k \in 0..n, k < n
      PROVE  f[k] = g[k]
  BY <1>5
<1>6. ASSUME NEW upto \in 0..n
      PROVE  f[upto] = SearchStep(s, c, f, upto)
  <2>1. upto \in 0..Len(s)
    BY <1>0, <1>4
  <2>2. \A k \in 0..upto : k < upto => f[k] = g[k]
    BY <1>4, <1>5
  <2>3. SearchStep(s, c, f, upto) = SearchStep(s, c, g, upto)
    <3> HIDE DEF f
    <3>1. QED
      BY <2>1, <2>2, SearchLooksUp
  <2>4. CASE upto = n
    <3>1. f[n] = SearchStep(s, c, g, n)
      BY <1>4
    <3>2. QED
      BY <2>3, <2>4, <3>1
  <2>5. CASE upto # n
    <3>1. upto < n /\ n > 0 /\ upto \in 0..n - 1
      BY <1>4, <2>5
    <3>2. f[upto] = g[upto]
      BY <1>5, <3>1
    <3>3. g = [u \in 0..n - 1 |-> SearchStep(s, c, g, u)]
      BY <1>3, <3>1, Zenon DEF IsSearch
    <3>4. g[upto] = SearchStep(s, c, g, upto)
      BY <3>1, <3>3, Zenon
    <3>5. QED
      BY <2>3, <3>2, <3>4
  <2>6. QED
    BY <2>4, <2>5
<1>7. f = [upto \in 0..n |-> SearchStep(s, c, f, upto)]
  <2>1. f = [upto \in 0..n |-> f[upto]]
    OBVIOUS
  <2> HIDE DEF f
  <2>2. QED
    BY <1>6, <2>1, Zenon
<1>8. IsSearch(s, c, n, f)
  BY <1>7, Zenon DEF IsSearch
<1>9. QED
  BY <1>8
\* An end of s that the search may give: the earlier screen stands before it.
EndOf(s, c, k) == k \in 0..Len(s) /\ EndsWith(SubSeq(s, 1, k), c.hash)

\* The search gives nothing, or one end at which the earlier screen stands.
LEMMA SearchFinds ==
  ASSUME NEW s \in Seq(Nat), NEW c, c.hash \in Seq(Nat),
         c.tail \in Seq(Nat), c.tail # <<>>,
         NEW f, IsSearch(s, c, Len(s), f), NEW u \in 0..Len(s)
  PROVE  f[u] = {} \/ \E k : f[u] = {k} /\ EndOf(s, c, k)
<1> DEFINE Good(n) == f[n] = {} \/ \E k : f[n] = {k} /\ EndOf(s, c, k)
           T == {n \in 0..Len(s) : ~Good(n)}
<1>0. Len(s) \in Nat /\ Len(c.hash) \in Nat /\ Len(c.tail) \in Nat /\ Len(c.tail) # 0
  BY LenProperties, EmptySeq
<1>1. SUFFICES ASSUME T # {}
               PROVE  FALSE
  OBVIOUS
<1>2. PICK n \in T : \A k \in T : n <= k
  <2>1. T \subseteq Nat
    BY <1>0
  <2> HIDE DEF T
  <2>2. QED
    BY <1>1, <2>1, LeastNumber
<1>3. n \in 0..Len(s) /\ ~Good(n)
  OBVIOUS
<1> DEFINE m == Max(Found(s, c.tail, n))
           end == m + Len(c.tail)
<1>4. f[n] = SearchStep(s, c, f, n)
  <2>1. f = [upto \in 0..Len(s) |-> SearchStep(s, c, f, upto)]
    BY Zenon DEF IsSearch
  <2>2. QED
    BY <1>3, <2>1, Zenon
<1>5. CASE Found(s, c.tail, n) = {}
  <2>1. f[n] = {}
    BY <1>4, <1>5 DEF SearchStep
  <2>2. QED
    BY <1>3, <2>1
<1>6. CASE Found(s, c.tail, n) # {}
  <2>1. m \in Nat /\ end \in 0..n
    BY <1>3, <1>6, FoundIs
  <2>2. CASE end >= Len(c.hash) /\ Last(SubSeq(s, 1, end), Len(c.hash)) = c.hash
    <3>1. f[n] = {end}
      BY <1>4, <1>6, <2>2 DEF SearchStep
    <3>2. end \in 0..Len(s)
      BY <1>0, <1>3, <2>1
    <3>3. Len(SubSeq(s, 1, end)) = end
      BY <3>2, FirstIs
    <3>4. EndsWith(SubSeq(s, 1, end), c.hash)
      BY <1>0, <2>2, <3>2, <3>3 DEF EndsWith
    <3>5. EndOf(s, c, end)
      BY <3>2, <3>4 DEF EndOf
    <3>6. QED
      BY <1>3, <3>1, <3>5
  <2>3. CASE ~(end >= Len(c.hash) /\ Last(SubSeq(s, 1, end), Len(c.hash)) = c.hash)
    <3>1. f[n] = f[m]
      BY <1>4, <1>6, <2>3 DEF SearchStep
    <3> HIDE DEF m
    <3>2. m \in 0..Len(s) /\ ~(n <= m)
      BY <1>0, <1>3, <2>1
    <3>3. m \notin T
      BY <1>2, <3>2
    <3>4. Good(m)
      BY <3>2, <3>3
    <3>5. QED
      BY <1>3, <3>1, <3>4
  <2>4. QED
    BY <2>2, <2>3
<1>7. QED
  BY <1>5, <1>6

\* What a reader's cursor is made of: see _encode_cursor.
IsCursor(c) ==
    /\ c.hash \in Seq(Nat)
    /\ c.tail = KeptTail(c.hash)

LEMMA TailIs ==
  ASSUME NEW c, IsCursor(c)
  PROVE  /\ c.tail \in Seq(Nat) /\ EndsWith(c.hash, c.tail)
         /\ Len(c.tail) <= TailLen /\ Len(c.tail) <= Len(c.hash)
         /\ c.hash # <<>> => c.tail # <<>>
<1>1. TailLen \in Nat /\ TailLen > 0
  BY SizesPositive
<1>2. Len(c.hash) \in Nat /\ c.hash \in Seq(Nat) /\ c.tail = Last(c.hash, TailLen)
  BY LenProperties DEF IsCursor, KeptTail
<1>3. /\ c.tail \in Seq(Nat)
      /\ Len(c.tail) = IF Len(c.hash) <= TailLen THEN Len(c.hash) ELSE TailLen
  BY <1>1, <1>2, LastIs
<1>4. EndsWith(c.hash, c.tail)
  BY <1>1, <1>2, EndsWithLast
<1>5. c.hash # <<>> => Len(c.tail) # 0
  BY <1>1, <1>2, <1>3, EmptySeq
<1>6. Len(c.tail) <= TailLen /\ Len(c.tail) <= Len(c.hash)
  BY <1>1, <1>2, <1>3
<1>7. c.hash # <<>> => c.tail # <<>>
  BY <1>5, EmptySeq
<1>8. QED
  BY <1>3, <1>4, <1>6, <1>7

LEMMA ExactEndFinds ==
  ASSUME NEW s \in Seq(Nat), NEW c, IsCursor(c), ExactEnd(s, c) # {}
  PROVE  \E k : ExactEnd(s, c) = {k} /\ EndOf(s, c, k) /\ (c.hash = <<>> => k = 0)
<1>1. CASE c.hash = <<>>
  <2>1. ExactEnd(s, c) = {0}
    BY <1>1, Zenon DEF ExactEnd
  <2>2. 0 \in 0..Len(s)
    BY LenProperties
  <2>3. SubSeq(s, 1, 0) \in Seq(Nat)
    BY <2>2, FirstIs
  <2>4. EndsWith(SubSeq(s, 1, 0), <<>>)
    BY <2>3, EndsWithSelf
  <2>5. QED
    BY <1>1, <2>1, <2>2, <2>4 DEF EndOf
<1>2. CASE c.hash # <<>>
  <2>1. c.hash \in Seq(Nat) /\ c.tail \in Seq(Nat) /\ c.tail # <<>>
    BY <1>2, TailIs DEF IsCursor
  <2> DEFINE f == CHOOSE f : IsSearch(s, c, Len(s), f)
  <2>2. \E g : IsSearch(s, c, Len(s), g)
    BY <2>1, SearchExists
  <2>3. IsSearch(s, c, Len(s), f)
    BY <2>2, Zenon
  <2>4. ExactEnd(s, c) = f[Len(s)]
    BY <1>2, ExactEndIs, Zenon
  <2>5. Len(s) \in 0..Len(s)
    BY LenProperties
  <2> HIDE DEF f
  <2>6. f[Len(s)] = {} \/ \E k : f[Len(s)] = {k} /\ EndOf(s, c, k)
    BY <2>1, <2>3, <2>5, SearchFinds
  <2>7. QED
    BY <1>2, <2>4, <2>6
<1>3. QED
  BY <1>1, <1>2

\* An end of s by overlap: the last n glyphs of the earlier screen stand
\* before it, n being as many as is asked for at least.
OverlapOf(s, c, k) ==
    /\ k \in 0..Len(s) /\ k # Len(s)
    /\ \E n \in MinOverlap..Len(c.tail) : EndsWith(SubSeq(s, 1, k), Last(c.tail, n))

LEMMA OverlapEndFinds ==
  ASSUME NEW s \in Seq(Nat), NEW c, IsCursor(c), OverlapEnd(s, c) # {}
  PROVE  \E k : OverlapEnd(s, c) = {k} /\ OverlapOf(s, c, k)
<1> DEFINE T == Found(s, c.tail, Len(s))
           overlaps == {n \in MinOverlap..Len(c.tail) :
                           n <= Len(s) /\ Last(c.tail, n) = SubSeq(s, 1, n)}
           longest == {n \in overlaps : \A m \in overlaps : m <= n}
           m == Max(T)
           end == m + Len(c.tail)
<1>1. /\ Len(s) \in Nat /\ c.tail \in Seq(Nat) /\ Len(c.tail) \in Nat
      /\ MinOverlap \in Nat
  BY TailIs, LenProperties, SizesPositive
<1>2. MinOverlap <= Len(c.tail)
  BY <1>1 DEF OverlapEnd
<1>3. CASE T # {}
  <2>1. OverlapEnd(s, c) = {end} \ {Len(s)}
    BY <1>1, <1>2, <1>3 DEF OverlapEnd
  <2>2. end # Len(s) /\ OverlapEnd(s, c) = {end}
    BY <2>1
  <2>3. /\ m \in Nat /\ end \in 0..Len(s)
        /\ SubSeq(s, m + 1, end) = c.tail
    <3>1. Len(s) \in 0..Len(s)
      BY <1>1
    <3>2. QED
      BY <1>1, <1>3, <3>1, FoundIs
  <2> HIDE DEF m
  <2>4. end <= Len(s)
    BY <1>1, <2>3
  <2>5. EndsWith(SubSeq(s, 1, end), c.tail)
    BY <1>1, <2>3, <2>4, PlaceIsEnd
  <2>6. Last(c.tail, Len(c.tail)) = c.tail /\ Len(c.tail) \in MinOverlap..Len(c.tail)
    BY <1>1, <1>2 DEF Last
  <2>7. OverlapOf(s, c, end)
    BY <2>2, <2>3, <2>5, <2>6 DEF OverlapOf
  <2>8. QED
    BY <2>2, <2>7
<1>4. CASE T = {}
  <2>1. OverlapEnd(s, c) = longest \ {Len(s)}
    BY <1>1, <1>2, <1>4 DEF OverlapEnd
  <2>2. PICK n \in longest : n # Len(s)
    BY <2>1
  <2>3. /\ n \in MinOverlap..Len(c.tail) /\ n <= Len(s)
        /\ Last(c.tail, n) = SubSeq(s, 1, n)
        /\ \A k \in overlaps : k <= n
    OBVIOUS
  <2>4. ASSUME NEW k \in longest
        PROVE  k = n
    <3>1. k \in overlaps /\ n \in overlaps
      OBVIOUS
    <3>2. n <= k /\ k <= n
      BY <2>3, <3>1
    <3>3. k \in Nat /\ n \in Nat
      <4>1. k \in MinOverlap..Len(c.tail) /\ n \in MinOverlap..Len(c.tail)
        BY <3>1
      <4> HIDE DEF overlaps, longest
      <4>2. QED
        BY <1>1, <4>1
    <3>4. QED
      BY <3>2, <3>3
  <2>5. longest = {n}
    BY <2>4
  <2>6. OverlapEnd(s, c) = {n}
    BY <2>1, <2>2, <2>5
  <2>7. n \in 0..Len(s)
    BY <1>1, <2>3
  <2>8. EndsWith(SubSeq(s, 1, n), Last(c.tail, n))
    <3>1. SubSeq(s, 1, n) \in Seq(Nat)
      BY <2>7, FirstIs
    <3>2. QED
      BY <2>3, <3>1, EndsWithSelf
  <2>9. OverlapOf(s, c, n)
    BY <2>2, <2>3, <2>7, <2>8 DEF OverlapOf
  <2>10. QED
    BY <2>6, <2>9
<1>5. QED
  BY <1>3, <1>4

\* Where the new text begins, for the holder of a cursor.
LEMMA NewFromFinds ==
  ASSUME NEW s \in Seq(Nat), NEW stream, NEW c, c # Nobody => IsCursor(c),
         NewFrom(s, stream, c) # {}
  PROVE  /\ c # Nobody /\ c.stream = stream
         /\ \E k : /\ NewFrom(s, stream, c) = {k}
                   /\ \/ EndOf(s, c, k) /\ (c.hash = <<>> => k = 0)
                      \/ OverlapOf(s, c, k)
<1>1. c # Nobody /\ c.stream = stream /\ IsCursor(c)
  BY DEF NewFrom
<1>2. CASE c.hash = s
  <2>1. NewFrom(s, stream, c) = {Len(s)}
    BY <1>1, <1>2 DEF NewFrom
  <2>2. Len(s) \in 0..Len(s) /\ (s = <<>> => Len(s) = 0)
    BY LenProperties, EmptySeq
  <2>3. SubSeq(s, 1, Len(s)) = s
    BY SubSeqFull
  <2>4. EndOf(s, c, Len(s))
    BY <1>2, <2>2, <2>3, EndsWithSelf DEF EndOf
  <2>5. QED
    BY <1>1, <1>2, <2>1, <2>2, <2>4
<1>3. CASE c.hash # s /\ ExactEnd(s, c) # {}
  <2>1. NewFrom(s, stream, c) = ExactEnd(s, c)
    BY <1>1, <1>3, Zenon DEF NewFrom
  <2>2. \E k : ExactEnd(s, c) = {k} /\ EndOf(s, c, k) /\ (c.hash = <<>> => k = 0)
    BY <1>1, <1>3, ExactEndFinds
  <2>3. QED
    BY <1>1, <2>1, <2>2
<1>4. CASE c.hash # s /\ ExactEnd(s, c) = {}
  <2>1. NewFrom(s, stream, c) = OverlapEnd(s, c)
    BY <1>1, <1>4, Zenon DEF NewFrom
  <2>2. \E k : OverlapEnd(s, c) = {k} /\ OverlapOf(s, c, k)
    BY <1>1, <2>1, OverlapEndFinds
  <2>3. QED
    BY <1>1, <2>1, <2>2
<1>5. QED
  BY <1>2, <1>3, <1>4
\* An answer is the text from there on, or the whole screen, and no more of
\* it than fits.
LEMMA AnswerIs ==
  ASSUME NEW s \in Seq(Nat), NEW stream, NEW c, c # Nobody => IsCursor(c)
  PROVE  LET a == Answer(s, stream, c)
         IN /\ a \in Answers /\ Len(a.output) <= MaxGlyphs
            /\ ~a.delta /\ ~a.truncated => a.output = s
            /\ a.delta /\ ~a.truncated =>
                  \E k : /\ a.output = From(s, k)
                         /\ c # Nobody /\ c.stream = stream
                         /\ \/ EndOf(s, c, k) /\ (c.hash = <<>> => k = 0)
                            \/ OverlapOf(s, c, k)
<1> DEFINE start == NewFrom(s, stream, c)
           candidate == IF start = {} THEN s ELSE From(s, Max(start))
           a == Answer(s, stream, c)
<1>0. MaxGlyphs \in Nat /\ Len(s) \in Nat
  BY SizesPositive, LenProperties
<1>1. /\ a.output = Last(candidate, MaxGlyphs)
      /\ a.truncated = (Len(candidate) > MaxGlyphs)
      /\ a.delta = (start # {})
      /\ a = [output |-> a.output, truncated |-> a.truncated, delta |-> a.delta]
  BY Zenon DEF Answer
<1>2. ASSUME start # {}
      PROVE  \E k : /\ candidate = From(s, k) /\ k \in 0..Len(s)
                    /\ c # Nobody /\ c.stream = stream
                    /\ \/ EndOf(s, c, k) /\ (c.hash = <<>> => k = 0)
                       \/ OverlapOf(s, c, k)
  <2>1. /\ c # Nobody /\ c.stream = stream
        /\ \E k : /\ start = {k}
                  /\ \/ EndOf(s, c, k) /\ (c.hash = <<>> => k = 0)
                     \/ OverlapOf(s, c, k)
    BY <1>2, NewFromFinds
  <2>2. PICK k : /\ start = {k}
                 /\ \/ EndOf(s, c, k) /\ (c.hash = <<>> => k = 0)
                    \/ OverlapOf(s, c, k)
    BY <2>1
  <2>3. k \in 0..Len(s)
    BY <2>2 DEF EndOf, OverlapOf
  <2>4. Max({k}) = k
    BY <1>0, <2>3, MaxOfOne
  <2> HIDE DEF start
  <2>5. candidate = From(s, k)
    BY <2>2, <2>4
  <2>6. QED
    BY <2>1, <2>2, <2>3, <2>5
<1>3. candidate \in Seq(Nat)
  <2>1. CASE start = {}
    BY <2>1
  <2>2. CASE start # {}
    BY <1>2, <2>2, FromIs
  <2>3. QED
    BY <2>1, <2>2
<1> HIDE DEF a, start, candidate
<1>4. Len(candidate) \in Nat
  BY <1>3, LenProperties
<1>5. /\ Last(candidate, MaxGlyphs) \in Seq(Nat)
      /\ Len(Last(candidate, MaxGlyphs)) =
            IF Len(candidate) <= MaxGlyphs THEN Len(candidate) ELSE MaxGlyphs
  BY <1>0, <1>3, LastIs
<1>6. a.output \in Seq(Nat) /\ Len(a.output) <= MaxGlyphs
  BY <1>0, <1>1, <1>4, <1>5
<1>7. a \in Answers
  <2>1. a.truncated \in BOOLEAN /\ a.delta \in BOOLEAN
    BY <1>1
  <2>2. QED
    BY <1>1, <1>6, <2>1 DEF Answers
<1>8. ASSUME ~a.truncated
      PROVE  a.output = candidate
  <2>1. Len(candidate) <= MaxGlyphs
    <3>1. ~(Len(candidate) > MaxGlyphs)
      BY <1>1, <1>8, Zenon
    <3>2. QED
      BY <1>0, <1>4, <3>1
  <2>2. QED
    BY <1>1, <2>1 DEF Last
<1>9. ~a.delta => candidate = s
  BY <1>1 DEF candidate
<1>10. QED
  BY <1>1, <1>2, <1>6, <1>7, <1>8, <1>9 DEF a

\* Where the last glyph of the earlier screen stands in s, s up to there is
\* the end of the earlier screen.
LastSeen(h, s) ==
    h # <<>> => \A i \in 1..Len(s) :
                   s[i] = h[Len(h)] =>
                      /\ i <= Len(h)
                      /\ \A j \in 1..i : s[j] = h[Len(h) - i + j]

\* Two sequences that end alike have the same last glyph.
LEMMA LastGlyph ==
  ASSUME NEW s \in Seq(Nat), NEW t \in Seq(Nat), t # <<>>, EndsWith(s, t)
  PROVE  /\ Len(s) \in 1..Len(s) /\ s # <<>>
         /\ s[Len(s)] = t[Len(t)]
<1>1. /\ Len(s) \in Nat /\ Len(t) \in Nat /\ Len(t) # 0 /\ Len(t) <= Len(s)
      /\ \A i \in 1..Len(t) : s[Len(s) - Len(t) + i] = t[i]
  BY LenProperties, EmptySeq, EndsWithIs
<1>2. Len(t) \in 1..Len(t) /\ Len(s) - Len(t) + Len(t) = Len(s) /\ Len(s) \in 1..Len(s)
  BY <1>1
<1>3. s[Len(s)] = t[Len(t)]
  BY <1>1, <1>2
<1>4. s # <<>>
  BY <1>2, EmptySeq
<1>5. QED
  BY <1>2, <1>3, <1>4

\* Nothing of the screen is missing, when LastSeen holds of it.
LEMMA NothingMissing ==
  ASSUME NEW s \in Seq(Nat), NEW h \in Seq(Nat), NEW k \in 0..Len(s), LastSeen(h, s),
         NEW t \in Seq(Nat), t # <<>>, EndsWith(h, t), EndsWith(SubSeq(s, 1, k), t)
  PROVE  EndsWith(h \o From(s, k), s)
<1> DEFINE e == SubSeq(s, 1, k)
<1>1. e \in Seq(Nat) /\ Len(e) = k /\ (\A i \in 1..k : e[i] = s[i])
  BY FirstIs
<1>2. Len(s) \in Nat /\ Len(h) \in Nat /\ From(s, k) \in Seq(Nat) /\ k \in Nat
  BY LenProperties, FromIs
<1>3. e \o From(s, k) = s
  BY FirstAndRest
<1>4. EndsWith(e, t)
  OBVIOUS
<1> HIDE DEF e
<1>5. /\ Len(e) \in 1..Len(e) /\ e[Len(e)] = t[Len(t)]
      /\ h # <<>> /\ h[Len(h)] = t[Len(t)]
  BY <1>1, <1>4, LastGlyph
<1>6. k \in 1..Len(s) /\ k \in 1..k
  BY <1>1, <1>2, <1>5
<1>7. s[k] = h[Len(h)]
  BY <1>1, <1>5, <1>6
<1>8. k <= Len(h) /\ \A j \in 1..k : s[j] = h[Len(h) - k + j]
  BY <1>5, <1>6, <1>7 DEF LastSeen
<1>9. \A j \in 1..Len(e) : h[Len(h) - Len(e) + j] = e[j]
  BY <1>1, <1>8
<1>10. EndsWith(h, e)
  BY <1>1, <1>8, <1>9, EndsWithIs
<1>11. EndsWith(h \o From(s, k), e \o From(s, k))
  BY <1>1, <1>2, <1>10, EndsWithMore
<1>12. QED
  BY <1>3, <1>11

\* The earlier screen and what is given from k on together complete the
\* screen: what AnswerCompletesScreen says of one answer.
Completes(s, h, new, seen) ==
    LET known == h \o new
        agreed == Len(new) + Min({MinOverlap, Len(h)})
    IN /\ EndsWith(s, Last(known, agreed))
       /\ new = <<>> => EndsWith(s, h)
       /\ seen => EndsWith(known, s)

LEMMA RestCompletes ==
  ASSUME NEW s \in Seq(Nat), NEW c, IsCursor(c), NEW k,
         \/ EndOf(s, c, k) /\ (c.hash = <<>> => k = 0)
         \/ OverlapOf(s, c, k)
  PROVE  Completes(s, c.hash, From(s, k), LastSeen(c.hash, s))
<1> DEFINE h == c.hash
           new == From(s, k)
           known == h \o new
           least == Min({MinOverlap, Len(h)})
           agreed == Len(new) + least
<1>0. /\ k \in 0..Len(s) /\ Len(s) \in Nat /\ k \in Nat /\ k <= Len(s)
      /\ h \in Seq(Nat) /\ Len(h) \in Nat
  BY LenProperties DEF EndOf, OverlapOf, IsCursor
<1>1. SubSeq(s, 1, k) \in Seq(Nat) /\ new \in Seq(Nat) /\ Len(new) = Len(s) - k
  BY <1>0, FirstIs, FromIs
<1>2. known \in Seq(Nat) /\ Len(known) = Len(h) + Len(new)
  <2> HIDE DEF h, new
  <2>1. QED
    BY <1>0, <1>1, ConcatProperties
<1>3. MinOverlap \in Nat /\ MinOverlap > 0
  BY SizesPositive
<1>4. least \in Nat /\ least <= MinOverlap /\ least <= Len(h)
  <2> HIDE DEF h
  <2>1. least = IF MinOverlap <= Len(h) THEN MinOverlap ELSE Len(h)
    BY <1>0, <1>3, MinOfTwo
  <2>2. QED
    BY <1>0, <1>3, <2>1
<1>5. agreed \in Nat /\ agreed <= Len(known) /\ Len(new) \in Nat
  BY <1>0, <1>1, <1>2, <1>4
<1>6. CASE EndOf(s, c, k) /\ (c.hash = <<>> => k = 0)
  <2>1. EndsWith(SubSeq(s, 1, k), h)
    BY <1>6 DEF EndOf
  <2>2. EndsWith(s, known)
    BY <1>0, <2>1, EndsWithRest
  <2>3. EndsWith(s, Last(known, agreed))
    <3> HIDE DEF known, agreed
    <3>1. EndsWith(known, Last(known, agreed)) /\ Last(known, agreed) \in Seq(Nat)
      BY <1>2, <1>5, EndsWithLast, LastIs
    <3>2. QED
      BY <1>2, <2>2, <3>1, EndsWithTransitive
  <2>4. ASSUME new = <<>>
        PROVE  EndsWith(s, h)
    <3>1. Len(new) = 0
      BY <2>4, EmptySeq
    <3>2. k = Len(s)
      BY <1>0, <1>1, <3>1
    <3>3. QED
      BY <2>1, <3>2, SubSeqFull
  <2>5. ASSUME LastSeen(h, s)
        PROVE  EndsWith(known, s)
    <3>1. CASE h = <<>>
      <4>1. From(s, 0) = s
        BY <1>0, SubSeqFull DEF From
      <4>2. k = 0
        BY <1>6, <3>1
      <4>3. h \o s = s
        BY <3>1, ConcatEmptySeq
      <4>4. known = s
        BY <4>1, <4>2, <4>3
      <4>5. QED
        BY <4>4, EndsWithSelf
    <3>2. CASE h # <<>>
      <4> HIDE DEF h
      <4>1. EndsWith(h, h)
        BY <1>0, EndsWithSelf
      <4>2. QED
        BY <1>0, <2>1, <2>5, <3>2, <4>1, NothingMissing
    <3>3. QED
      BY <3>1, <3>2
  <2>6. QED
    BY <2>3, <2>4, <2>5 DEF Completes
<1>7. CASE OverlapOf(s, c, k)
  <2>1. PICK n \in MinOverlap..Len(c.tail) : EndsWith(SubSeq(s, 1, k), Last(c.tail, n))
    BY <1>7 DEF OverlapOf
  <2> DEFINE t == Last(c.tail, n)
             end == t \o new
  <2>2. c.tail \in Seq(Nat) /\ EndsWith(h, c.tail) /\ Len(c.tail) \in Nat
    BY TailIs, LenProperties
  <2>3. n \in Nat /\ MinOverlap <= n /\ n \in 0..Len(c.tail) /\ n > 0
    BY <1>3, <2>1, <2>2
  <2>4. t \in Seq(Nat) /\ Len(t) = n
    BY <2>2, <2>3, LastN
  <2>5. EndsWith(h, t)
    <3>1. EndsWith(c.tail, t)
      BY <2>2, <2>3, EndsWithLast
    <3> HIDE DEF t, h
    <3>2. QED
      BY <1>0, <2>2, <2>4, <3>1, EndsWithTransitive
  <2>6. EndsWith(SubSeq(s, 1, k), t)
    BY <2>1
  <2> HIDE DEF t
  <2>7. EndsWith(s, end)
    BY <1>0, <2>4, <2>6, EndsWithRest
  <2>8. EndsWith(known, end)
    <3> HIDE DEF h, new
    <3>1. QED
      BY <1>0, <1>1, <2>4, <2>5, EndsWithMore
  <2>9. end \in Seq(Nat) /\ Len(end) = n + Len(new)
    BY <1>1, <2>4, ConcatProperties
  <2>10. agreed \in 0..Len(end)
    <3> HIDE DEF least, new, end
    <3>1. QED
      BY <1>3, <1>4, <1>5, <2>3, <2>9
  <2> HIDE DEF agreed, known, end
  <2>11. Last(known, agreed) = Last(end, agreed)
    BY <1>2, <2>8, <2>9, <2>10, LastOfEnd
  <2>12. EndsWith(end, Last(end, agreed)) /\ Last(end, agreed) \in Seq(Nat)
    BY <1>5, <2>9, EndsWithLast, LastIs
  <2>13. EndsWith(s, Last(known, agreed))
    BY <2>7, <2>9, <2>11, <2>12, EndsWithTransitive
  <2>14. new # <<>>
    <3>1. k # Len(s)
      BY <1>7 DEF OverlapOf
    <3>2. Len(new) # 0
      BY <1>0, <1>1, <3>1
    <3>3. QED
      BY <3>2, EmptySeq
  <2>15. ASSUME LastSeen(h, s)
         PROVE  EndsWith(known, s)
    <3>1. t # <<>>
      BY <2>3, <2>4, EmptySeq
    <3>2. EndsWith(h \o new, s)
      BY <1>0, <2>4, <2>5, <2>6, <2>15, <3>1, NothingMissing
    <3>3. QED
      BY <3>2 DEF known
  <2>16. QED
    BY <2>13, <2>14, <2>15 DEF Completes, agreed, known
<1>8. QED
  BY <1>6, <1>7
-----------------------------------------------------------------------------
(* 3. Types, and the agents the reader knows of.                           *)

AgentsTyped ==
    /\ agent \in [Panes -> Agents \cup {Nobody}]
    /\ \A p \in Panes : agent[p] # Nobody => agent[p].pane = p

TextTyped ==
    /\ text \in [Panes -> Seq(Nat)]
    /\ \A p \in Panes : Len(text[p]) <= Lines

CountsTyped == changes \in Nat /\ writes \in Nat /\ plain \in BOOLEAN

\* A token is made of the agent it was made for, and of nothing else.
RouteMade ==
    /\ route.version \in {1, 2} /\ route.made \in Agents
    /\ route = Route(route.made, route.version)

\* So is a cursor of the screen, and of the agent whose screen that was.
CursorMade ==
    cursor # Nobody =>
        /\ IsCursor(cursor) /\ Len(cursor.hash) <= Lines
        /\ cursor.of # Nobody => /\ cursor.of \in Agents
                                 /\ cursor.stream = Identity(cursor.of)

FoundTyped == found \in Agents \cup {Nobody}

\* An answer is no longer held once another reading has begun.
SaidTyped ==
    said # Nobody =>
        found = Nobody /\ said \in Answers /\ Len(said.output) <= MaxGlyphs

Typed == /\ AgentsTyped /\ TextTyped /\ CountsTyped
         /\ RouteMade /\ CursorMade /\ FoundTyped /\ SaidTyped

\* The agents that are there, and those the reader holds something of.
Known == {route.made}
            \cup (({found} \cup (IF cursor = Nobody THEN {} ELSE {cursor.of})) \ {Nobody})
            \cup Here

\* Pane and revision, where one is told, tell the lives of all known agents apart.
LivesTold ==
    \A x, y \in Known :
        x.pane = y.pane /\ x.revision = y.revision /\ x.revision # 0 => x.life = y.life

\* For none of them is ahead of the number that the next change gives.
RevisionsGrow == \A x \in Known : x.revision <= changes + 1

\* What may come into pane p: nobody, the same agent changed, or one whose
\* revision is not told or new.
MayCome(p, a) ==
    a # Nobody =>
        /\ a \in Agents /\ a.pane = p
        /\ \/ /\ agent[p] # Nobody
              /\ a.revision = agent[p].revision /\ a.life = agent[p].life
           \/ a.revision \in Revisions

AgentChanges(p) ==
    \/ Start(p) \/ Replace(p) \/ Leave(p) \/ Forget(p) \/ Session(p) \/ Revise(p)
    \/ \E n \in Names : Name(p, n)

LEMMA HereTyped ==
  ASSUME AgentsTyped
  PROVE  Here \subseteq Agents
BY DEF AgentsTyped, Here

\* All that happens to the agents is that one of them changes.
LEMMA OneAgentChanges ==
  ASSUME AgentsTyped, changes \in Nat, NEW p \in Panes, AgentChanges(p)
  PROVE  \E a : /\ Change(p, a) /\ MayCome(p, a)
                /\ \/ text' = text
                   \/ text' = [text EXCEPT ![p] = <<>>]
<1>1. agent[p] # Nobody => agent[p] \in Agents /\ agent[p].pane = p
  BY DEF AgentsTyped
<1>2. \A s \in {0} \cup {a.session : a \in Here} : s \in Nat
  BY HereTyped DEF Agents
<1>r. \A r \in Revisions : r \in Nat
  BY DEF Revisions
<1>3. CASE Start(p)
  <2>1. PICK s \in {0} \cup {a.session : a \in Here}, t \in Reports, r \in Revisions :
           Change(p, [pane |-> p, told |-> t, name |-> Nobody, alias |-> Nobody,
                      session |-> s, revision |-> r, life |-> changes + 2])
    BY <1>3 DEF Start
  <2> DEFINE a == [pane |-> p, told |-> t, name |-> Nobody, alias |-> Nobody,
                   session |-> s, revision |-> r, life |-> changes + 2]
  <2>2. a \in Agents /\ a.pane = p /\ a.revision \in Revisions
    <3>1. s \in Nat /\ r \in Nat /\ changes + 2 \in Nat
      BY <1>2, <1>r
    <3>2. QED
      BY <3>1 DEF Agents
  <2>3. agent[p] = Nobody /\ text' = text
    BY <1>3 DEF Start
  <2>4. Change(p, a)
    BY <2>1
  <2> HIDE DEF a
  <2>5. MayCome(p, a)
    BY <2>2, <2>3 DEF MayCome
  <2>6. QED
    BY <2>3, <2>4, <2>5
<1>4. CASE Replace(p)
  <2>1. PICK s \in {0} \cup {a.session : a \in Here}, r \in Revisions :
           Change(p, [agent[p] EXCEPT !.name = Nobody, !.session = s,
                                      !.revision = r, !.life = changes + 2])
    BY <1>4 DEF Replace
  <2> DEFINE a == [agent[p] EXCEPT !.name = Nobody, !.session = s,
                                   !.revision = r, !.life = changes + 2]
  <2>2. agent[p] # Nobody /\ text' = text
    BY <1>4 DEF Replace
  <2>3. a \in Agents /\ a.pane = p /\ a.revision \in Revisions
    <3>1. s \in Nat /\ r \in Nat /\ changes + 2 \in Nat
      BY <1>2, <1>r
    <3> DEFINE b == agent[p]
               l == changes + 2
               b2 == [b EXCEPT !.name = Nobody, !.session = s]
    <3>2. b \in Agents /\ b.pane = p
      BY <1>1, <2>2
    <3> HIDE DEF b, l
    <3>3. b2 \in Agents /\ b2.pane = p
      BY <3>1, <3>2 DEF Agents
    <3> HIDE DEF b2
    <3>4. /\ [b2 EXCEPT !.revision = r, !.life = l] \in Agents
          /\ [b2 EXCEPT !.revision = r, !.life = l].pane = p
          /\ [b2 EXCEPT !.revision = r, !.life = l].revision = r
      BY <3>1, <3>2, <3>3 DEF Agents, l
    <3>5. QED
      BY <3>4 DEF b2, b, l
  <2>4. Change(p, a)
    BY <2>1
  <2> HIDE DEF a
  <2>5. MayCome(p, a)
    BY <2>2, <2>3 DEF MayCome
  <2>6. QED
    BY <2>2, <2>4, <2>5
<1>5. CASE Leave(p)
  <2>1. Change(p, Nobody) /\ text' = [text EXCEPT ![p] = <<>>]
    BY <1>5 DEF Leave
  <2>2. MayCome(p, Nobody)
    BY DEF MayCome
  <2>3. QED
    BY <2>1, <2>2
<1>6. CASE Forget(p)
  <2> DEFINE a == [agent[p] EXCEPT !.name = Nobody]
  <2>1. agent[p] # Nobody /\ text' = text /\ Change(p, a)
    BY <1>6 DEF Forget
  <2>2. a \in Agents /\ a.pane = p /\ a.revision = agent[p].revision
        /\ a.life = agent[p].life
    BY <1>1, <2>1 DEF Agents
  <2> HIDE DEF a
  <2>3. MayCome(p, a)
    BY <2>1, <2>2 DEF MayCome
  <2>4. QED
    BY <2>1, <2>3
<1>7. CASE Session(p)
  <2> DEFINE a == [agent[p] EXCEPT !.session = changes + 2]
  <2>1. agent[p] # Nobody /\ text' = text /\ Change(p, a)
    BY <1>7 DEF Session
  <2>2. a \in Agents /\ a.pane = p /\ a.revision = agent[p].revision
        /\ a.life = agent[p].life
    BY <1>1, <2>1 DEF Agents
  <2> HIDE DEF a
  <2>3. MayCome(p, a)
    BY <2>1, <2>2 DEF MayCome
  <2>4. QED
    BY <2>1, <2>3
<1>8. CASE Revise(p)
  <2>r. PICK r \in Revisions : Change(p, [agent[p] EXCEPT !.revision = r])
    BY <1>8 DEF Revise
  <2> DEFINE a == [agent[p] EXCEPT !.revision = r]
  <2>1. agent[p] # Nobody /\ text' = text /\ Change(p, a)
    BY <1>8, <2>r DEF Revise
  <2>2. a \in Agents /\ a.pane = p /\ a.revision = r
    BY <1>1, <1>r, <2>1 DEF Agents
  <2> HIDE DEF a
  <2>3. MayCome(p, a)
    BY <2>1, <2>2 DEF MayCome
  <2>4. QED
    BY <2>1, <2>3
<1>9. CASE \E n \in Names : Name(p, n)
  <2>1. PICK n \in Names : Name(p, n)
    BY <1>9
  <2> DEFINE a == [agent[p] EXCEPT !.name = n, !.alias = n]
  <2>2. agent[p] # Nobody /\ text' = text /\ Change(p, a)
    BY <2>1 DEF Name
  <2>3. a \in Agents /\ a.pane = p /\ a.revision = agent[p].revision
        /\ a.life = agent[p].life
    BY <1>1, <2>2 DEF Agents
  <2> HIDE DEF a
  <2>4. MayCome(p, a)
    BY <2>2, <2>3 DEF MayCome
  <2>5. QED
    BY <2>2, <2>4
<1>10. QED
  BY <1>3, <1>4, <1>5, <1>6, <1>7, <1>8, <1>9 DEF AgentChanges

\* What writing leaves in a pane: a sequence that fits on the screen.
LEMMA WriteTyped ==
  ASSUME TextTyped, CountsTyped, NEW p \in Panes, NEW t \in Seq(Nat), Write(p, t)
  PROVE  /\ TextTyped' /\ writes' \in Nat
         /\ UNCHANGED <<agent, changes, route, cursor, found, said>>
<1>1. text' = [text EXCEPT ![p] = Last(t, Lines)] /\ writes' = writes + 1
      /\ UNCHANGED <<agent, changes, route, cursor, found, said>>
  BY DEF Write, readerVars
<1>2. Lines \in Nat /\ Len(t) \in Nat
  BY SizesPositive, LenProperties
<1>3. Last(t, Lines) \in Seq(Nat) /\ Len(Last(t, Lines)) <= Lines
  BY <1>2, LastIs
<1>4. TextTyped'
  BY <1>1, <1>3 DEF TextTyped
<1>5. QED
  BY <1>1, <1>4 DEF CountsTyped

AgentWrites(p) == WriteMore(p) \/ RedrawEnd(p) \/ RedrawAbove(p) \/ Repeat(p)

LEMMA WritesAreTyped ==
  ASSUME TextTyped, CountsTyped, NEW p \in Panes, AgentWrites(p)
  PROVE  /\ TextTyped' /\ CountsTyped'
         /\ UNCHANGED <<agent, changes, route, cursor, found, said>>
<1>1. text[p] \in Seq(Nat) /\ Len(text[p]) \in Nat /\ writes + 1 \in Nat
  BY LenProperties DEF TextTyped, CountsTyped
<1>2. \A i \in 1..Len(text[p]) : text[p][i] \in Nat
  BY <1>1, ElementOfSeq
<1>3. \A x \in Nat : Append(text[p], x) \in Seq(Nat)
  BY <1>1, AppendProperties
<1>4. \A i \in 1..Len(text[p]) : [text[p] EXCEPT ![i] = writes + 1] \in Seq(Nat)
  BY <1>1, ExceptSeq
<1>5. plain' \in BOOLEAN /\ \E t \in Seq(Nat) : Write(p, t)
  <2>1. CASE WriteMore(p)
    BY <1>1, <1>3, <2>1 DEF WriteMore, CountsTyped
  <2>2. CASE RedrawEnd(p)
    <3>1. Len(text[p]) \in 1..Len(text[p])
      BY <1>1, <2>2, EmptySeq DEF RedrawEnd
    <3>2. QED
      BY <1>4, <2>2, <3>1 DEF RedrawEnd, CountsTyped
  <2>3. CASE RedrawAbove(p)
    <3>1. PICK i \in 1..Len(text[p]) - 1 : Write(p, [text[p] EXCEPT ![i] = writes + 1])
      BY <2>3 DEF RedrawAbove
    <3>2. i \in 1..Len(text[p])
      BY <1>1
    <3>3. QED
      BY <1>4, <2>3, <3>1, <3>2 DEF RedrawAbove
  <2>4. CASE Repeat(p)
    BY <1>2, <1>3, <2>4 DEF Repeat
  <2>5. QED
    BY <2>1, <2>2, <2>3, <2>4 DEF AgentWrites
<1>6. QED
  BY <1>5, WriteTyped DEF CountsTyped
\* The token made of an agent.
LEMMA RouteOf ==
  ASSUME NEW a \in Agents, NEW v \in {1, 2}
  PROVE  LET r == Route(a, v)
         IN r.version \in {1, 2} /\ r.made = a /\ r = Route(r.made, r.version)
BY DEF Route

\* What an agent that is there has in its pane.
LEMMA ScreenOf ==
  ASSUME AgentsTyped, TextTyped, NEW a \in Here
  PROVE  /\ a \in Agents /\ a.pane \in Panes /\ a # Nobody
         /\ text[a.pane] \in Seq(Nat) /\ Len(text[a.pane]) <= Lines
<1>1. a \in Agents /\ a # Nobody
  BY HereTyped DEF Here
<1>2. a.pane \in Panes
  BY <1>1 DEF Agents
<1>3. QED
  BY <1>1, <1>2 DEF TextTyped

\* The cursor made of a screen.
LEMMA CursorOf ==
  ASSUME NEW s \in Seq(Nat), NEW stream, NEW of
  PROVE  LET c == Cursor(s, stream, of)
         IN IsCursor(c) /\ c.hash = s /\ c.stream = stream /\ c.of = of
BY DEF Cursor, IsCursor

\* A read gives the answer for the screen of an agent that is there, and
\* keeps that screen.
LEMMA ReadGives ==
  ASSUME Typed, Read
  PROVE  /\ found \in Agents /\ found # Nobody /\ found' = Nobody
         /\ UNCHANGED <<agent, text, changes, writes, plain, route>>
         /\ \/ UNCHANGED <<cursor, said>>
            \/ \E a \in Here : \E of \in {found, Nobody} :
                  /\ said' = Answer(text[a.pane], Identity(found), cursor)
                  /\ cursor' = Cursor(text[a.pane], Identity(found), of)
<1>1. found \in Agents /\ found # Nobody /\ found' = Nobody
      /\ UNCHANGED <<agent, text, changes, writes, plain, route>>
  BY DEF Typed, FoundTyped, Read, worldVars
<1> DEFINE now == {a \in Here : TargetOf(found) \in {a.name, a.pane}}
<1>2. CASE now = {}
  BY <1>1, <1>2 DEF Read
<1>3. CASE now # {}
  <2>1. PICK a \in now :
           /\ said' = Answer(text[a.pane], Identity(found), cursor)
           /\ cursor' = Cursor(text[a.pane], Identity(found),
                               IF a.life = found.life THEN found ELSE Nobody)
    BY <1>3 DEF Read
  <2>2. a \in Here /\ (IF a.life = found.life THEN found ELSE Nobody) \in {found, Nobody}
    OBVIOUS
  <2>3. QED
    BY <1>1, <2>1, <2>2
<1>4. QED
  BY <1>2, <1>3

LEMMA TypedInit ==
  ASSUME Init
  PROVE  Typed
<1>1. PICK p \in Panes : \E a \in FirstAgents(p) :
          /\ agent = [q \in Panes |-> IF q = p THEN a ELSE Nobody]
          /\ route \in {Route(a, 1), Route(a, 2)}
          /\ text = [q \in Panes |-> IF q = p THEN [i \in 1..Lines |-> i] ELSE <<>>]
  BY DEF Init
<1>2. PICK a \in FirstAgents(p) :
          /\ agent = [q \in Panes |-> IF q = p THEN a ELSE Nobody]
          /\ route \in {Route(a, 1), Route(a, 2)}
          /\ text = [q \in Panes |-> IF q = p THEN [i \in 1..Lines |-> i] ELSE <<>>]
  BY <1>1
<1>3. a \in Agents /\ a.pane = p
  BY DEF FirstAgents, Agents
<1>4. AgentsTyped
  BY <1>2, <1>3 DEF AgentsTyped
<1>5. TextTyped
  <2>1. Lines \in Nat
    BY SizesPositive
  <2>2. [i \in 1..Lines |-> i] \in Seq(Nat) /\ Len([i \in 1..Lines |-> i]) = Lines
    BY <2>1
  <2>3. <<>> \in Seq(Nat) /\ Len(<<>>) = 0
    OBVIOUS
  <2> DEFINE full == [i \in 1..Lines |-> i]
  <2>4. full \in Seq(Nat) /\ Len(full) <= Lines
    BY <2>1, <2>2
  <2> HIDE DEF full
  <2>5. text = [q \in Panes |-> IF q = p THEN full ELSE <<>>]
    BY <1>2 DEF full
  <2>6. QED
    BY <2>1, <2>3, <2>4, <2>5 DEF TextTyped
<1>6. CountsTyped
  BY SizesPositive DEF Init, CountsTyped
<1>7. RouteMade
  <2>1. PICK v \in {1, 2} : route = Route(a, v)
    BY <1>2
  <2>2. QED
    BY <1>3, <2>1, RouteOf, Zenon DEF RouteMade
<1>8. CursorMade /\ FoundTyped /\ SaidTyped
  BY DEF Init, CursorMade, FoundTyped, SaidTyped
<1>9. QED
  BY <1>4, <1>5, <1>6, <1>7, <1>8 DEF Typed

\* Who an agent is addressed as, or a route leads to, is there.
LEMMA ResolvedIsHere ==
  ASSUME NEW r, NEW a \in Resolved(r, Here)
  PROVE  a \in Here
BY DEF Resolved, Successors

LEMMA TypedStep ==
  ASSUME Typed, [Next]_vars
  PROVE  Typed'
<1>0. /\ AgentsTyped /\ TextTyped /\ CountsTyped /\ RouteMade /\ CursorMade
      /\ FoundTyped /\ SaidTyped /\ Here \subseteq Agents
  BY HereTyped DEF Typed
<1>1. CASE UNCHANGED vars
  BY <1>0, <1>1 DEF vars, worldVars, readerVars, Typed, AgentsTyped, TextTyped,
     CountsTyped, RouteMade, CursorMade, FoundTyped, SaidTyped
<1>2. ASSUME NEW n \in Names, Address(n)
      PROVE  Typed'
  <2>1. PICK a \in Here : found' = a /\ route' = Route(a, 2)
    BY <1>2 DEF Address
  <2>2. said' = Nobody /\ UNCHANGED <<agent, text, changes, writes, plain, cursor>>
    BY <1>2 DEF Address, worldVars
  <2>3. FoundTyped'
    BY <1>0, <2>1 DEF FoundTyped
  <2>4. RouteMade'
    BY <1>0, <2>1, RouteOf DEF RouteMade
  <2>5. QED
    BY <1>0, <2>2, <2>3, <2>4 DEF Typed, AgentsTyped, TextTyped, CountsTyped,
       CursorMade, SaidTyped
<1>3. CASE Resolve
  <2>1. PICK a \in Resolved(route, Here) : found' = a /\ route' \in {route, Route(a, 2)}
    BY <1>3 DEF Resolve
  <2>2. said' = Nobody /\ UNCHANGED <<agent, text, changes, writes, plain, cursor>>
    BY <1>3 DEF Resolve, worldVars
  <2>3. a \in Here /\ a \in Agents
    BY <1>0, <2>1, ResolvedIsHere
  <2>4. FoundTyped'
    BY <2>1, <2>3 DEF FoundTyped
  <2>5. RouteMade'
    <3>1. CASE route' = route
      BY <1>0, <3>1 DEF RouteMade
    <3>2. CASE route' = Route(a, 2)
      BY <2>3, <3>2, RouteOf DEF RouteMade
    <3>3. QED
      BY <2>1, <3>1, <3>2
  <2>6. QED
    BY <1>0, <2>2, <2>4, <2>5 DEF Typed, AgentsTyped, TextTyped, CountsTyped,
       CursorMade, SaidTyped
<1>4. CASE Read
  <2>1. /\ found \in Agents /\ found # Nobody /\ found' = Nobody
        /\ UNCHANGED <<agent, text, changes, writes, plain, route>>
    BY <1>4, ReadGives
  <2>2. AgentsTyped' /\ TextTyped' /\ CountsTyped' /\ RouteMade' /\ FoundTyped'
    BY <1>0, <2>1 DEF AgentsTyped, TextTyped, CountsTyped, RouteMade, FoundTyped
  <2>3. CASE UNCHANGED <<cursor, said>>
    BY <1>0, <2>1, <2>2, <2>3 DEF Typed, CursorMade, SaidTyped
  <2>4. CASE ~UNCHANGED <<cursor, said>>
    <3>1. PICK a \in Here, of \in {found, Nobody} :
             /\ said' = Answer(text[a.pane], Identity(found), cursor)
             /\ cursor' = Cursor(text[a.pane], Identity(found), of)
      BY <1>4, <2>4, ReadGives
    <3>2. text[a.pane] \in Seq(Nat) /\ Len(text[a.pane]) <= Lines
      BY <1>0, ScreenOf
    <3>3. CursorMade'
      <4>1. /\ IsCursor(cursor') /\ cursor'.hash = text[a.pane]
            /\ cursor'.stream = Identity(found) /\ cursor'.of = of
        BY <3>1, <3>2, CursorOf
      <4>2. QED
        BY <2>1, <3>2, <4>1 DEF CursorMade
    <3>4. SaidTyped'
      <4>1. cursor # Nobody => IsCursor(cursor)
        BY <1>0 DEF CursorMade
      <4>2. said' \in Answers /\ Len(said'.output) <= MaxGlyphs
        BY <3>1, <3>2, <4>1, AnswerIs
      <4>3. QED
        BY <2>1, <4>2 DEF SaidTyped
    <3>5. QED
      BY <2>2, <3>3, <3>4 DEF Typed
  <2>5. QED
    BY <2>3, <2>4
<1>5. CASE DropCursor
  <2>1. /\ cursor' = Nobody /\ said' = Nobody
        /\ UNCHANGED <<agent, text, changes, writes, plain, route, found>>
    BY <1>5 DEF DropCursor, worldVars
  <2>2. QED
    BY <1>0, <2>1 DEF Typed, AgentsTyped, TextTyped, CountsTyped, RouteMade,
       CursorMade, FoundTyped, SaidTyped
<1>6. ASSUME NEW p \in Panes, AgentChanges(p)
      PROVE  Typed'
  <2>1. PICK a : /\ Change(p, a) /\ MayCome(p, a)
                 /\ text' = text \/ text' = [text EXCEPT ![p] = <<>>]
    BY <1>0, <1>6, OneAgentChanges DEF CountsTyped
  <2>2. /\ changes' = changes + 1 /\ agent' = [agent EXCEPT ![p] = a]
        /\ UNCHANGED <<writes, plain, route, cursor, found, said>>
    BY <2>1 DEF Change, readerVars
  <2>3. a # Nobody => a \in Agents /\ a.pane = p
    BY <2>1 DEF MayCome
  <2>4. AgentsTyped'
    BY <1>0, <2>2, <2>3 DEF AgentsTyped
  <2>5. TextTyped'
    <3>1. CASE text' = text
      BY <1>0, <3>1 DEF TextTyped
    <3>2. CASE text' = [text EXCEPT ![p] = <<>>]
      <4>1. Lines \in Nat /\ <<>> \in Seq(Nat) /\ Len(<<>>) = 0
        BY SizesPositive
      <4>2. QED
        BY <1>0, <3>2, <4>1 DEF TextTyped
    <3>3. QED
      BY <2>1, <3>1, <3>2
  <2>6. CountsTyped'
    BY <1>0, <2>2 DEF CountsTyped
  <2>7. QED
    BY <1>0, <2>2, <2>4, <2>5, <2>6 DEF Typed, RouteMade, CursorMade, FoundTyped,
       SaidTyped
<1>7. ASSUME NEW p \in Panes, AgentWrites(p)
      PROVE  Typed'
  <2>1. /\ TextTyped' /\ CountsTyped'
        /\ UNCHANGED <<agent, changes, route, cursor, found, said>>
    BY <1>0, <1>7, WritesAreTyped
  <2>2. QED
    BY <1>0, <2>1 DEF Typed, AgentsTyped, RouteMade, CursorMade, FoundTyped, SaidTyped
<1>8. QED
  BY <1>1, <1>2, <1>3, <1>4, <1>5, <1>6, <1>7 DEF Next, AgentChanges, AgentWrites

THEOREM AlwaysTyped == Spec => []Typed
<1>1. Init => Typed
  BY TypedInit
<1>2. Typed /\ [Next]_vars => Typed'
  BY TypedStep
<1>3. QED
  BY <1>1, <1>2, PTL DEF Spec

LEMMA TypedIsTypeOK ==
  ASSUME Typed
  PROVE  TypeOK
<1>1. \A p \in Panes : agent[p] = Nobody \/ (agent[p] \in Agents /\ agent[p].pane = p)
  BY DEF Typed, AgentsTyped
<1>2. text \in [Panes -> Seq(Nat)] /\ {changes, writes} \subseteq Nat /\ plain \in BOOLEAN
  BY DEF Typed, TextTyped, CountsTyped
<1>3. route.version \in {1, 2} /\ route.made \in Agents
  BY DEF Typed, RouteMade
<1>4. ASSUME cursor # Nobody
      PROVE  /\ Len(cursor.hash) <= Lines /\ Len(cursor.tail) <= TailLen
             /\ EndsWith(cursor.hash, cursor.tail)
  BY <1>4, TailIs DEF Typed, CursorMade
<1>5. found # Nobody => found \in Agents
  BY DEF Typed, FoundTyped
<1>6. said # Nobody => said \in Answers /\ Len(said.output) <= MaxGlyphs
  BY DEF Typed, SaidTyped
<1>7. QED
  BY <1>1, <1>2, <1>3, <1>4, <1>5, <1>6 DEF TypeOK

\* Every variable has its type, and a cursor keeps no more than the end of a
\* screen.
THEOREM TypeCorrect == Spec => []TypeOK
<1>1. Typed => TypeOK
  BY TypedIsTypeOK
<1>2. QED
  BY <1>1, AlwaysTyped, PTL
-----------------------------------------------------------------------------
(* 4. Whom a route leads to, and what an answer leaves out.                *)

LEMMA KnownTyped ==
  ASSUME Typed
  PROVE  Known \subseteq Agents
<1>1. Here \subseteq Agents /\ route.made \in Agents /\ found \in Agents \cup {Nobody}
  BY HereTyped DEF Typed, RouteMade, FoundTyped
<1>2. cursor # Nobody => cursor.of \in Agents \cup {Nobody}
  BY DEF Typed, CursorMade
<1>3. QED
  BY <1>1, <1>2 DEF Known

LEMMA KnownInit ==
  ASSUME Init
  PROVE  LivesTold /\ RevisionsGrow
<1>0. PICK p \in Panes : \E a \in FirstAgents(p) :
          /\ agent = [q \in Panes |-> IF q = p THEN a ELSE Nobody]
          /\ route \in {Route(a, 1), Route(a, 2)}
  BY DEF Init
<1>1. PICK a \in FirstAgents(p) :
          /\ agent = [q \in Panes |-> IF q = p THEN a ELSE Nobody]
          /\ route \in {Route(a, 1), Route(a, 2)}
  BY <1>0
<1>2. a.revision \in {0, 1} /\ a \in Agents
  BY DEF FirstAgents, Agents
<1>3. cursor = Nobody /\ found = Nobody /\ changes = 0
  BY DEF Init
<1>4. route.made = a
  BY <1>1, <1>2, RouteOf
<1>5. Here \subseteq {a}
  BY <1>1 DEF Here
<1>6. Known \subseteq {a}
  BY <1>3, <1>4, <1>5 DEF Known
<1>7. LivesTold
  BY <1>6 DEF LivesTold
<1>8. RevisionsGrow
  BY <1>2, <1>3, <1>6 DEF RevisionsGrow
<1>9. QED
  BY <1>7, <1>8

LEMMA KnownFewer ==
  ASSUME LivesTold, RevisionsGrow, Known' \subseteq Known, UNCHANGED <<agent, changes>>
  PROVE  LivesTold' /\ RevisionsGrow'
BY DEF LivesTold, RevisionsGrow

\* What the reader does, it does with agents that are known.
LEMMA ReaderMeetsNobodyNew ==
  ASSUME Typed, (\E n \in Names : Address(n)) \/ Resolve \/ Read \/ DropCursor
  PROVE  Known' \subseteq Known /\ UNCHANGED <<agent, changes>>
<1>0. Here \subseteq Agents
  BY HereTyped DEF Typed
<1>1. ASSUME NEW n \in Names, Address(n)
      PROVE  Known' \subseteq Known /\ UNCHANGED <<agent, changes>>
  <2>1. PICK a \in Here : found' = a /\ route' = Route(a, 2)
    BY <1>1 DEF Address
  <2>2. UNCHANGED <<agent, changes, cursor>>
    BY <1>1 DEF Address, worldVars
  <2>3. route'.made = a
    BY <1>0, <2>1, RouteOf
  <2>4. QED
    BY <2>1, <2>2, <2>3 DEF Known, Here
<1>2. CASE Resolve
  <2>1. PICK a \in Resolved(route, Here) : found' = a /\ route' \in {route, Route(a, 2)}
    BY <1>2 DEF Resolve
  <2>2. UNCHANGED <<agent, changes, cursor>>
    BY <1>2 DEF Resolve, worldVars
  <2>3. a \in Here
    BY <2>1, ResolvedIsHere
  <2>4. route'.made \in {route.made, a}
    BY <1>0, <2>1, <2>3, RouteOf
  <2>5. QED
    BY <2>1, <2>2, <2>3, <2>4 DEF Known, Here
<1>3. CASE Read
  <2>1. /\ found' = Nobody /\ UNCHANGED <<agent, text, changes, writes, plain, route>>
    BY <1>3, ReadGives
  <2>2. CASE UNCHANGED <<cursor, said>>
    BY <2>1, <2>2 DEF Known, Here
  <2>3. CASE ~UNCHANGED <<cursor, said>>
    <3>1. PICK a \in Here, of \in {found, Nobody} :
             cursor' = Cursor(text[a.pane], Identity(found), of)
      BY <1>3, <2>3, ReadGives
    <3>2. cursor'.of \in {found, Nobody}
      BY <3>1 DEF Cursor
    <3>3. QED
      BY <2>1, <3>2 DEF Known, Here
  <2>4. QED
    BY <2>2, <2>3
<1>4. CASE DropCursor
  BY <1>4 DEF DropCursor, worldVars, Known, Here
<1>5. QED
  BY <1>1, <1>2, <1>3, <1>4

\* A new agent is told apart from those that are known.
LEMMA NewAgentIsToldApart ==
  ASSUME Typed, LivesTold, RevisionsGrow, NEW p \in Panes, NEW a,
         Change(p, a), MayCome(p, a)
  PROVE  LivesTold' /\ RevisionsGrow'
<1>1. /\ changes' = changes + 1 /\ agent' = [agent EXCEPT ![p] = a]
      /\ UNCHANGED <<route, cursor, found>> /\ changes \in Nat
      /\ agent \in [Panes -> Agents \cup {Nobody}]
  BY DEF Change, readerVars, Typed, CountsTyped, AgentsTyped
<1>2. Here' \subseteq Here \cup ({a} \ {Nobody})
  BY <1>1 DEF Here
<1>3. Known' \subseteq Known \cup ({a} \ {Nobody})
  BY <1>1, <1>2 DEF Known
<1>4. \A x \in Known : /\ x \in Agents /\ x.revision \in Nat /\ x.pane \in Panes
                       /\ x.revision <= changes + 1
  BY KnownTyped DEF Agents, RevisionsGrow
<1>5. agent[p] # Nobody => agent[p] \in Known /\ agent[p].pane = p
  BY DEF Known, Here, Typed, AgentsTyped
<1>6. a # Nobody => a \in Agents /\ a.pane = p /\ a.revision \in Nat
  BY DEF MayCome, Agents
<1>7. a # Nobody => \/ /\ agent[p] # Nobody
                      /\ a.revision = agent[p].revision /\ a.life = agent[p].life
                   \/ a.revision \in {0, changes + 2}
  BY DEF MayCome, Revisions
<1>8. ASSUME a # Nobody, NEW x \in Known, x.pane = p, x.revision = a.revision, a.revision # 0
      PROVE  x.life = a.life
  <2>1. CASE agent[p] # Nobody /\ a.revision = agent[p].revision /\ a.life = agent[p].life
    BY <1>5, <1>8, <2>1 DEF LivesTold
  <2>2. a.revision # changes + 2
    BY <1>1, <1>4, <1>8
  <2>3. QED
    BY <1>7, <1>8, <2>1, <2>2
<1>9. LivesTold'
  <2>1. SUFFICES ASSUME NEW x \in Known', NEW y \in Known',
                        x.pane = y.pane, x.revision = y.revision, x.revision # 0
                 PROVE  x.life = y.life
    BY DEF LivesTold
  <2>2. CASE x \in Known /\ y \in Known
    BY <2>1, <2>2 DEF LivesTold
  <2>3. CASE x \notin Known /\ y \notin Known
    BY <1>3, <2>3
  <2>4. CASE x \in Known /\ y \notin Known
    <3>1. y = a /\ a # Nobody
      BY <1>3, <2>4
    <3>2. QED
      BY <1>6, <1>8, <2>1, <2>4, <3>1
  <2>5. CASE x \notin Known /\ y \in Known
    <3>1. x = a /\ a # Nobody
      BY <1>3, <2>5
    <3>2. QED
      BY <1>6, <1>8, <2>1, <2>5, <3>1
  <2>6. QED
    BY <2>2, <2>3, <2>4, <2>5
<1>10. RevisionsGrow'
  <2>1. ASSUME NEW x \in Known
        PROVE  x.revision <= changes' + 1
    BY <1>1, <1>4
  <2>2. ASSUME a # Nobody
        PROVE  a.revision <= changes' + 1
    BY <1>1, <1>4, <1>5, <1>7, <2>2
  <2>3. QED
    BY <1>3, <2>1, <2>2 DEF RevisionsGrow
<1>11. QED
  BY <1>9, <1>10

LEMMA KnownStep ==
  ASSUME Typed, LivesTold, RevisionsGrow, [Next]_vars
  PROVE  LivesTold' /\ RevisionsGrow'
<1>0. AgentsTyped /\ TextTyped /\ CountsTyped /\ changes \in Nat
  BY DEF Typed, CountsTyped
<1>1. CASE UNCHANGED vars
  <2>1. UNCHANGED <<agent, changes, route, found, cursor>>
    BY <1>1 DEF vars, worldVars, readerVars
  <2>2. Known' \subseteq Known
    BY <2>1 DEF Known, Here
  <2>3. QED
    BY <2>1, <2>2, KnownFewer
<1>2. CASE (\E n \in Names : Address(n)) \/ Resolve \/ Read \/ DropCursor
  BY <1>2, ReaderMeetsNobodyNew, KnownFewer
<1>3. ASSUME NEW p \in Panes, AgentChanges(p)
      PROVE  LivesTold' /\ RevisionsGrow'
  BY <1>0, <1>3, OneAgentChanges, NewAgentIsToldApart
<1>4. ASSUME NEW p \in Panes, AgentWrites(p)
      PROVE  LivesTold' /\ RevisionsGrow'
  <2>1. UNCHANGED <<agent, changes, route, found, cursor>>
    BY <1>0, <1>4, WritesAreTyped
  <2>2. Known' \subseteq Known
    BY <2>1 DEF Known, Here
  <2>3. QED
    BY <2>1, <2>2, KnownFewer
<1>5. QED
  BY <1>1, <1>2, <1>3, <1>4 DEF Next, AgentChanges, AgentWrites

\* A revision that is told tells lives apart: the invariant behind both action
\* properties, as far as agents go.
THEOREM LivesAreTold == Spec => [](LivesTold /\ RevisionsGrow)
<1>1. Init => LivesTold /\ RevisionsGrow
  BY KnownInit
<1>2. Typed /\ LivesTold /\ RevisionsGrow /\ [Next]_vars => LivesTold' /\ RevisionsGrow'
  BY KnownStep
<1>3. QED
  BY <1>1, <1>2, AlwaysTyped, PTL DEF Spec

\* Two known agents of one identity are one agent, or nothing is told of it.
LEMMA IdentityTells ==
  ASSUME Typed, LivesTold, NEW x \in Known, NEW y \in Known, Identity(x) = Identity(y)
  PROVE  Untold(x) \/ SameAgent(x, y)
<1>1. x \in Agents /\ y \in Agents
  BY KnownTyped
<1>2. CASE x.session # 0 /\ y.session # 0
  <2>1. <<"session", x.session>> = <<"session", y.session>>
    BY <1>2 DEF Identity
  <2>2. QED
    BY <1>2, <2>1 DEF SameAgent
<1>3. CASE x.session = 0 /\ y.session = 0
  <2>1. <<x.pane, "terminal" \in x.told, TargetOf(x), x.revision>>
          = <<y.pane, "terminal" \in y.told, TargetOf(y), y.revision>>
    BY <1>3 DEF Identity
  <2>2. x.pane = y.pane /\ x.revision = y.revision
    BY <2>1
  <2>3. QED
    BY <1>3, <2>2 DEF LivesTold, SameAgent, Untold
<1>4. CASE x.session # 0 /\ y.session = 0
  <2>1. <<"session", x.session>> = <<y.pane, "terminal" \in y.told, TargetOf(y), y.revision>>
    BY <1>4 DEF Identity
  <2>2. Len(<<"session", x.session>>) = 2
        /\ Len(<<y.pane, "terminal" \in y.told, TargetOf(y), y.revision>>) = 4
    OBVIOUS
  <2>3. QED
    BY <2>1, <2>2
<1>5. CASE x.session = 0 /\ y.session # 0
  <2>1. <<"session", y.session>> = <<x.pane, "terminal" \in x.told, TargetOf(x), x.revision>>
    BY <1>5 DEF Identity
  <2>2. Len(<<"session", y.session>>) = 2
        /\ Len(<<x.pane, "terminal" \in x.told, TargetOf(x), x.revision>>) = 4
    OBVIOUS
  <2>3. QED
    BY <2>1, <2>2
<1>6. QED
  BY <1>2, <1>3, <1>4, <1>5

\* What RouteKeepsItsAgent says of one step.
LEMMA RouteLeadsToItsAgent ==
  ASSUME Typed, LivesTold, Resolve
  PROVE  \/ LeadsHome(route, found')
         \/ Untold(route.made) /\ Identity(found') = Identity(route.made)
<1> DEFINE made == route.made
           exact == {b \in Here : Identity(b) = route.occupant}
<1>1. PICK a \in Resolved(route, Here) : found' = a
  BY DEF Resolve
<1>2. a \in Here /\ a # Nobody
  BY ResolvedIsHere DEF Here
<1>3. made \in Agents /\ route.version \in {1, 2} /\ route = Route(made, route.version)
  BY DEF Typed, RouteMade
<1>4. /\ route.occupant = Identity(made) /\ route.kind = LabelKind(made)
      /\ route.label = Label(made) /\ route.pane = made.pane
      /\ route.revision = made.revision /\ (route.bound <=> made.session # 0)
  <2> DEFINE v == route.version
             m == made
  <2> HIDE DEF v, m
  <2>1. route = Route(m, v)
    BY <1>3, Zenon DEF m, v
  <2>2. /\ route.occupant = Identity(m) /\ route.kind = LabelKind(m)
        /\ route.label = Label(m) /\ route.pane = m.pane
        /\ route.revision = m.revision /\ (route.bound <=> m.session # 0)
    BY <2>1 DEF Route
  <2>3. QED
    BY <2>2 DEF m
<1>5. a \in Known /\ made \in Known
  BY <1>2 DEF Known
<1>6. CASE Identity(a) = route.occupant
  BY <1>1, <1>4, <1>5, <1>6, IdentityTells DEF LeadsHome
<1>7. CASE Identity(a) # route.occupant
  <2>1. exact = {} /\ route.version # 1 /\ a \in Successors(route, Here)
    BY <1>1, <1>7 DEF Resolved
  <2>2. route.version = 2
    BY <1>3, <2>1
  <2>3. CASE route.kind = "registered"
    <3>1. /\ LabelKind(a) = "registered" /\ Label(a) = route.label
          /\ a.pane = route.pane
      BY <2>1, <2>3 DEF Successors, BasicallyContinues
    <3>2. LabelKind(made) = "registered" /\ Label(a) = Label(made) /\ a.pane = made.pane
      BY <1>4, <2>3, <3>1
    <3>3. made.name # Nobody /\ Label(made) = made.name
      BY <3>2 DEF LabelKind, Label
    <3>4. a.name # Nobody /\ Label(a) = a.name
      BY <3>1 DEF LabelKind, Label
    <3>5. QED
      BY <1>1, <2>2, <3>2, <3>3, <3>4 DEF LeadsHome
  <2>4. CASE route.kind # "registered"
    <3>1. StrictlyContinues(route, a)
      BY <2>1, <2>4 DEF Successors
    <3>2. ~route.bound /\ a.pane = route.pane /\ a.revision = route.revision
          /\ a.revision # 0
      BY <1>2, <3>1, HereTyped DEF StrictlyContinues, StrictReady, Typed, Agents
    <3>3. made.session = 0 /\ a.pane = made.pane /\ a.revision = made.revision
      BY <1>4, <3>2
    <3>4. a.life = made.life
      BY <1>5, <3>2, <3>3 DEF LivesTold
    <3>5. QED
      BY <1>1, <3>3, <3>4 DEF SameAgent, LeadsHome
  <2>5. QED
    BY <2>3, <2>4
<1>8. QED
  BY <1>6, <1>7

\* A route leads to the agent it was made for, or, if it is of version 2, to
\* one of the same registered name in the same pane; and to another one only if
\* neither session nor revision was told of the first, and its identity is that
\* of the second.
THEOREM RouteKeepsItsAgentHolds == Spec => RouteKeepsItsAgent
<1>1. Typed /\ LivesTold /\ [Next]_vars
         => [Resolve =>
              \/ LeadsHome(route, found')
              \/ Untold(route.made) /\ Identity(found') = Identity(route.made)]_vars
  BY RouteLeadsToItsAgent
<1>2. QED
  BY <1>1, AlwaysTyped, LivesAreTold, PTL DEF Spec, RouteKeepsItsAgent

\* While text is only added or redrawn at its end, no glyph is anywhere twice,
\* none is later than the last one written, and of what the reader has seen
\* last, all that is still there ends with its last glyph.
PlainText ==
    plain =>
        /\ \A p, q \in Panes : \A i \in 1..Len(text[p]), j \in 1..Len(text[q]) :
              text[p][i] = text[q][j] => p = q /\ i = j
        /\ \A p \in Panes : \A i \in 1..Len(text[p]) : text[p][i] <= writes
        /\ cursor # Nobody =>
              /\ \A i \in 1..Len(cursor.hash) : cursor.hash[i] <= writes
              /\ \A p \in Panes : LastSeen(cursor.hash, text[p])

LEMMA PlainInit ==
  ASSUME Init
  PROVE  PlainText
<1>1. PICK p \in Panes :
          text = [q \in Panes |-> IF q = p THEN [i \in 1..Lines |-> i] ELSE <<>>]
  BY DEF Init
<1>2. Lines \in Nat /\ writes = Lines /\ cursor = Nobody
  BY SizesPositive DEF Init
<1> DEFINE full == [i \in 1..Lines |-> i]
<1>3. Len(full) = Lines /\ \A i \in 1..Lines : full[i] = i
  BY <1>2
<1>4. text[p] = full /\ \A q \in Panes : q # p => text[q] = <<>>
  BY <1>1
<1> HIDE DEF full
<1>5. \A q \in Panes : \A i \in 1..Len(text[q]) : q = p /\ i \in 1..Lines /\ text[q][i] = i
  <2>1. ASSUME NEW q \in Panes, NEW i \in 1..Len(text[q])
        PROVE  q = p /\ i \in 1..Lines /\ text[q][i] = i
    <3>1. CASE q = p
      BY <1>3, <1>4, <2>1, <3>1
    <3>2. CASE q # p
      <4>1. text[q] = <<>> /\ Len(<<>>) = 0
        BY <1>4, <3>2
      <4>2. QED
        BY <2>1, <4>1
    <3>3. QED
      BY <3>1, <3>2
  <2>2. QED
    BY <2>1
<1>6. \A q \in Panes : \A i \in 1..Len(text[q]) : text[q][i] <= writes
  BY <1>2, <1>5
<1>7. QED
  BY <1>2, <1>5, <1>6 DEF PlainText

\* Nothing is written: panes at most lose their text, the reader its cursor.
LEMMA PlainWithout ==
  ASSUME PlainText, plain' = plain, writes' = writes,
         \A p \in Panes : text'[p] = text[p] \/ text'[p] = <<>>,
         cursor' = cursor \/ cursor' = Nobody
  PROVE  PlainText'
<1>1. SUFFICES ASSUME plain
               PROVE  PlainText'
  BY DEF PlainText
<1>2. ASSUME NEW p \in Panes, NEW i \in 1..Len(text'[p])
      PROVE  text'[p] = text[p] /\ i \in 1..Len(text[p])
  <2>1. CASE text'[p] = text[p]
    BY <1>2, <2>1
  <2>2. CASE text'[p] = <<>>
    <3>1. Len(<<>>) = 0
      OBVIOUS
    <3>2. QED
      BY <1>2, <2>2, <3>1
  <2>3. QED
    BY <2>1, <2>2
<1>3. \A p, q \in Panes : \A i \in 1..Len(text'[p]), j \in 1..Len(text'[q]) :
         text'[p][i] = text'[q][j] => p = q /\ i = j
  BY <1>1, <1>2 DEF PlainText
<1>4. \A p \in Panes : \A i \in 1..Len(text'[p]) : text'[p][i] <= writes'
  BY <1>1, <1>2 DEF PlainText
<1>5. ASSUME cursor' # Nobody
      PROVE  /\ \A i \in 1..Len(cursor'.hash) : cursor'.hash[i] <= writes'
             /\ \A p \in Panes : LastSeen(cursor'.hash, text'[p])
  <2>1. cursor' = cursor
    BY <1>5
  <2>2. /\ \A i \in 1..Len(cursor.hash) : cursor.hash[i] <= writes
        /\ \A p \in Panes : LastSeen(cursor.hash, text[p])
    BY <1>1, <1>5, <2>1 DEF PlainText
  <2>3. ASSUME NEW p \in Panes
        PROVE  LastSeen(cursor.hash, text'[p])
    <3>1. CASE text'[p] = text[p]
      BY <2>2, <3>1
    <3>2. CASE text'[p] = <<>>
      <4>1. 1..Len(<<>>) = {}
        OBVIOUS
      <4>2. QED
        BY <3>2, <4>1 DEF LastSeen
    <3>3. QED
      BY <3>1, <3>2
  <2>4. QED
    BY <2>1, <2>2, <2>3
<1>6. QED
  BY <1>3, <1>4, <1>5 DEF PlainText

\* Of a screen that is read as it is, the last glyph is where it was read.
LEMMA PlainRead ==
  ASSUME PlainText, UNCHANGED <<plain, writes, text>>, TextTyped,
         NEW a \in Panes, cursor'.hash = text[a]
  PROVE  PlainText'
<1>1. SUFFICES ASSUME plain
               PROVE  PlainText'
  BY DEF PlainText
<1> DEFINE h == text[a]
<1>2. h \in Seq(Nat) /\ Len(h) \in Nat
  BY LenProperties DEF TextTyped
<1>3. ASSUME NEW p \in Panes, h # <<>>, NEW i \in 1..Len(text[p]),
             text[p][i] = h[Len(h)]
      PROVE  /\ i <= Len(h)
             /\ \A j \in 1..i : text[p][j] = h[Len(h) - i + j]
  <2>1. Len(h) \in 1..Len(h)
    BY <1>2, <1>3, EmptySeq
  <2>2. p = a /\ i = Len(h)
    BY <1>1, <1>3, <2>1 DEF PlainText
  <2>3. ASSUME NEW j \in 1..i
        PROVE  Len(h) - i + j = j
    BY <1>2, <2>2
  <2>4. QED
    BY <1>2, <2>2, <2>3
<1>4. \A p \in Panes : LastSeen(h, text[p])
  BY <1>3 DEF LastSeen
<1>5. \A i \in 1..Len(h) : h[i] <= writes
  BY <1>1 DEF PlainText
<1>6. QED
  BY <1>1, <1>4, <1>5 DEF PlainText

\* A glyph comes to the end of the text of pane p, after what was there, from
\* its glyph d + 1 on.
Comes(p, d) ==
    /\ writes' = writes + 1 /\ plain' = plain /\ cursor' = cursor
    /\ \A q \in Panes : q # p => text'[q] = text[q]
    /\ Len(text'[p]) \in Nat \ {0}
    /\ text'[p][Len(text'[p])] = writes + 1
    /\ \A i \in 1..Len(text'[p]) :
          i # Len(text'[p]) => i + d \in 1..Len(text[p]) /\ text'[p][i] = text[p][i + d]

LEMMA PlainWriteComes ==
  ASSUME TextTyped, CountsTyped, NEW p \in Panes, WriteMore(p) \/ RedrawEnd(p)
  PROVE  \E d \in {0, 1} : Comes(p, d)
<1> DEFINE old == text[p]
<1>1. old \in Seq(Nat) /\ Len(old) \in Nat /\ Len(old) <= Lines /\ writes + 1 \in Nat
      /\ text \in [Panes -> Seq(Nat)]
  BY LenProperties DEF TextTyped, CountsTyped
<1>2. Lines \in Nat /\ Lines > 0
  BY SizesPositive
<1>3. CASE WriteMore(p)
  <2> DEFINE t == Append(old, writes + 1)
             new == Last(t, Lines)
  <2>1. /\ text' = [text EXCEPT ![p] = new]
        /\ writes' = writes + 1 /\ plain' = plain /\ cursor' = cursor
    BY <1>3 DEF WriteMore, Write, readerVars
  <2>2. /\ t \in Seq(Nat) /\ Len(t) = Len(old) + 1
        /\ \A i \in 1..Len(old) : t[i] = old[i]
        /\ t[Len(old) + 1] = writes + 1
    BY <1>1, AppendProperties
  <2> HIDE DEF t
  <2>3. /\ Len(new) = IF Len(t) <= Lines THEN Len(t) ELSE Lines
        /\ \A i \in 1..Len(new) : new[i] = t[Len(t) - Len(new) + i]
    BY <1>2, <2>2, LastIs
  <2> HIDE DEF new, old
  <2>4. Len(new) \in Nat \ {0} /\ Len(new) <= Len(t)
    BY <1>1, <1>2, <2>2, <2>3
  <2> DEFINE d == Len(t) - Len(new)
  <2>5. d \in {0, 1}
    BY <1>1, <1>2, <2>2, <2>3
  <2>6. new[Len(new)] = writes + 1
    <3>1. Len(new) \in 1..Len(new) /\ Len(t) - Len(new) + Len(new) = Len(old) + 1
      BY <1>1, <2>2, <2>4
    <3>2. QED
      BY <2>2, <2>3, <3>1
  <2>7. ASSUME NEW i \in 1..Len(new), i # Len(new)
        PROVE  i + d \in 1..Len(old) /\ new[i] = old[i + d]
    <3>1. i + d \in 1..Len(old) /\ d + i = i + d
      BY <1>1, <2>2, <2>4, <2>5, <2>7
    <3>2. new[i] = t[d + i]
      BY <2>3
    <3>3. QED
      BY <2>2, <3>1, <3>2
  <2>8. text'[p] = new /\ \A q \in Panes : q # p => text'[q] = text[q]
    BY <1>1, <2>1
  <2> HIDE DEF d
  <2>9. Comes(p, d)
    BY <2>1, <2>4, <2>6, <2>7, <2>8 DEF Comes, old
  <2>10. QED
    BY <2>5, <2>9
<1>4. CASE RedrawEnd(p)
  <2> DEFINE t == [old EXCEPT ![Len(old)] = writes + 1]
             new == Last(t, Lines)
  <2>1. /\ text' = [text EXCEPT ![p] = new] /\ old # <<>>
        /\ writes' = writes + 1 /\ plain' = plain /\ cursor' = cursor
    BY <1>4 DEF RedrawEnd, Write, readerVars
  <2>2. Len(old) \in 1..Len(old)
    BY <1>1, <2>1, EmptySeq
  <2>3. /\ t \in Seq(Nat) /\ Len(t) = Len(old)
        /\ \A i \in 1..Len(old) : t[i] = IF i = Len(old) THEN writes + 1 ELSE old[i]
    BY <1>1, <2>2, ExceptSeq
  <2> HIDE DEF t
  <2>4. new = t
    BY <1>1, <2>3 DEF Last
  <2>5. text'[p] = t /\ \A q \in Panes : q # p => text'[q] = text[q]
    BY <1>1, <2>1, <2>4
  <2>6. ASSUME NEW i \in 1..Len(t), i # Len(t)
        PROVE  i + 0 \in 1..Len(old) /\ t[i] = old[i + 0]
    <3>1. i + 0 = i /\ i \in 1..Len(old)
      BY <2>3
    <3>2. QED
      BY <2>3, <2>6, <3>1
  <2>7. t[Len(t)] = writes + 1 /\ Len(t) \in Nat \ {0}
    BY <1>1, <2>2, <2>3
  <2>8. Comes(p, 0)
    BY <2>1, <2>5, <2>6, <2>7 DEF Comes
  <2>9. QED
    BY <2>8
<1>5. QED
  BY <1>3, <1>4

LEMMA PlainComes ==
  ASSUME PlainText, TextTyped, CountsTyped, cursor # Nobody => IsCursor(cursor),
         NEW p \in Panes, NEW d \in {0, 1}, Comes(p, d)
  PROVE  PlainText'
<1>1. SUFFICES ASSUME plain
               PROVE  PlainText'
  BY DEF PlainText, Comes
<1> DEFINE new == text'[p]
           old == text[p]
<1>2. /\ \A q, r \in Panes : \A i \in 1..Len(text[q]), j \in 1..Len(text[r]) :
            text[q][i] = text[r][j] => q = r /\ i = j
      /\ \A q \in Panes : \A i \in 1..Len(text[q]) : text[q][i] <= writes
  BY <1>1 DEF PlainText
<1>3. /\ writes' = writes + 1 /\ cursor' = cursor /\ writes \in Nat
      /\ \A q \in Panes : q # p => text'[q] = text[q]
      /\ Len(new) \in Nat \ {0} /\ new[Len(new)] = writes + 1
      /\ \A i \in 1..Len(new) :
            i # Len(new) => i + d \in 1..Len(old) /\ new[i] = old[i + d]
  BY DEF Comes, CountsTyped
<1>4. \A q \in Panes : \A i \in 1..Len(text[q]) : text[q][i] \in Nat
  BY ElementOfSeq DEF TextTyped
\* What is on the screens now is new, or was there before.
<1>5. ASSUME NEW q \in Panes, NEW i \in 1..Len(text'[q])
      PROVE  \/ q = p /\ i = Len(new) /\ text'[q][i] = writes + 1
             \/ /\ q = p /\ i # Len(new) /\ i + d \in 1..Len(text[q])
                /\ text'[q][i] = text[q][i + d]
             \/ q # p /\ i \in 1..Len(text[q]) /\ text'[q][i] = text[q][i]
  BY <1>3, <1>5
<1>6. ASSUME NEW q \in Panes, NEW i \in 1..Len(text'[q])
      PROVE  /\ text'[q][i] <= writes + 1
             /\ text'[q][i] = writes + 1 => q = p /\ i = Len(new)
  <2>1. CASE q = p /\ i = Len(new) /\ text'[q][i] = writes + 1
    BY <1>3, <2>1
  <2>2. CASE q = p /\ i + d \in 1..Len(text[q]) /\ text'[q][i] = text[q][i + d]
    <3>1. text[q][i + d] <= writes /\ text[q][i + d] \in Nat
      BY <1>2, <1>4, <2>2
    <3>2. QED
      BY <1>3, <2>2, <3>1
  <2>3. CASE q # p /\ i \in 1..Len(text[q]) /\ text'[q][i] = text[q][i]
    <3>1. text[q][i] <= writes /\ text[q][i] \in Nat
      BY <1>2, <1>4, <2>3
    <3>2. QED
      BY <1>3, <2>3, <3>1
  <2>4. QED
    BY <1>5, <2>1, <2>2, <2>3
<1>7. ASSUME NEW q \in Panes, NEW r \in Panes, NEW i \in 1..Len(text'[q]),
             NEW j \in 1..Len(text'[r]), text'[q][i] = text'[r][j]
      PROVE  q = r /\ i = j
  <2>1. CASE text'[q][i] = writes + 1
    BY <1>6, <1>7, <2>1
  <2>2. CASE text'[q][i] # writes + 1
    <3> DEFINE k == IF q = p THEN i + d ELSE i
               l == IF r = p THEN j + d ELSE j
    <3>1. k \in 1..Len(text[q]) /\ text'[q][i] = text[q][k]
      BY <1>5, <2>2
    <3>2. l \in 1..Len(text[r]) /\ text'[r][j] = text[r][l]
      BY <1>5, <1>7, <2>2
    <3> HIDE DEF k, l
    <3>3. q = r /\ k = l
      <4>1. text[q][k] = text[r][l]
        BY <1>7, <3>1, <3>2
      <4>2. k \in 1..Len(text[q]) /\ l \in 1..Len(text[r])
        BY <3>1, <3>2
      <4>3. QED
        BY <1>2, <4>1, <4>2, Zenon
    <3>4. i \in Int /\ j \in Int
      OBVIOUS
    <3>5. QED
      BY <3>3, <3>4 DEF k, l
  <2>3. QED
    BY <2>1, <2>2
<1>8. ASSUME cursor # Nobody
      PROVE  /\ \A i \in 1..Len(cursor.hash) : cursor.hash[i] <= writes + 1
             /\ \A q \in Panes : LastSeen(cursor.hash, text'[q])
  <2> DEFINE h == cursor.hash
  <2>1. /\ \A i \in 1..Len(h) : h[i] <= writes
        /\ \A q \in Panes : LastSeen(h, text[q])
    BY <1>1, <1>8 DEF PlainText
  <2>2. h \in Seq(Nat) /\ Len(h) \in Nat /\ \A i \in 1..Len(h) : h[i] \in Nat
    BY <1>8, LenProperties, ElementOfSeq DEF IsCursor
  <2> HIDE DEF h
  <2>3. \A i \in 1..Len(h) : h[i] <= writes + 1 /\ h[i] # writes + 1
    BY <1>3, <2>1, <2>2
  <2>4. ASSUME h # <<>>, NEW i \in 1..Len(new), new[i] = h[Len(h)]
        PROVE  /\ i <= Len(h)
               /\ \A j \in 1..i : new[j] = h[Len(h) - i + j]
    <3>1. Len(h) \in 1..Len(h)
      BY <2>2, <2>4, EmptySeq
    <3>2. i # Len(new)
      BY <1>3, <2>3, <2>4, <3>1
    <3>3. i + d \in 1..Len(old) /\ old[i + d] = h[Len(h)]
      BY <1>3, <2>4, <3>2
    <3>4. i + d <= Len(h) /\ \A j \in 1..i + d : old[j] = h[Len(h) - (i + d) + j]
      BY <2>1, <2>4, <3>3 DEF LastSeen
    <3>5. ASSUME NEW j \in 1..i
          PROVE  new[j] = h[Len(h) - i + j]
      <4>1. /\ j \in 1..Len(new) /\ j # Len(new) /\ j + d \in 1..i + d
            /\ Len(h) - (i + d) + (j + d) = Len(h) - i + j
        BY <1>3, <2>2, <3>2
      <4>2. new[j] = old[j + d]
        BY <1>3, <4>1
      <4>3. old[j + d] = h[Len(h) - (i + d) + (j + d)]
        BY <3>4, <4>1
      <4>4. QED
        BY <4>1, <4>2, <4>3
    <3>6. QED
      BY <2>2, <3>4, <3>5
  <2>5. LastSeen(h, new)
    BY <2>4 DEF LastSeen
  <2>6. \A q \in Panes : LastSeen(h, text'[q])
    BY <1>3, <2>1, <2>5
  <2>7. QED
    BY <2>3, <2>6 DEF h
<1>9. QED
  <2>1. \A q \in Panes : \A i \in 1..Len(text'[q]) : text'[q][i] <= writes'
    BY <1>3, <1>6
  <2>2. \A q, r \in Panes : \A i \in 1..Len(text'[q]), j \in 1..Len(text'[r]) :
           text'[q][i] = text'[r][j] => q = r /\ i = j
    BY <1>7
  <2>3. cursor' # Nobody =>
           /\ \A i \in 1..Len(cursor'.hash) : cursor'.hash[i] <= writes'
           /\ \A q \in Panes : LastSeen(cursor'.hash, text'[q])
    BY <1>3, <1>8
  <2>4. QED
    BY <2>1, <2>2, <2>3 DEF PlainText
LEMMA PlainStep ==
  ASSUME Typed, PlainText, [Next]_vars
  PROVE  PlainText'
<1>0. /\ AgentsTyped /\ TextTyped /\ CountsTyped /\ changes \in Nat
      /\ cursor # Nobody => IsCursor(cursor)
  BY DEF Typed, CountsTyped, CursorMade
<1>1. CASE UNCHANGED vars
  BY <1>1, PlainWithout DEF vars, worldVars, readerVars
<1>2. CASE (\E n \in Names : Address(n)) \/ Resolve \/ DropCursor
  <2>1. UNCHANGED <<text, writes, plain>> /\ (cursor' = cursor \/ cursor' = Nobody)
    BY <1>2 DEF Address, Resolve, DropCursor, worldVars
  <2>2. QED
    BY <2>1, PlainWithout
<1>3. CASE Read
  <2>1. UNCHANGED <<agent, text, writes, plain>>
    BY <1>3, ReadGives
  <2>2. CASE UNCHANGED <<cursor, said>>
    BY <2>1, <2>2, PlainWithout
  <2>3. CASE ~UNCHANGED <<cursor, said>>
    <3>1. PICK a \in Here, of \in {found, Nobody} :
             cursor' = Cursor(text[a.pane], Identity(found), of)
      BY <1>3, <2>3, ReadGives
    <3>2. a.pane \in Panes /\ cursor'.hash = text[a.pane]
      BY <1>0, <3>1, ScreenOf, CursorOf
    <3>3. QED
      BY <1>0, <2>1, <3>2, PlainRead
  <2>4. QED
    BY <2>2, <2>3
<1>4. ASSUME NEW p \in Panes, AgentChanges(p)
      PROVE  PlainText'
  <2>1. PICK a : Change(p, a) /\ (text' = text \/ text' = [text EXCEPT ![p] = <<>>])
    BY <1>0, <1>4, OneAgentChanges
  <2>2. UNCHANGED <<writes, plain, cursor>>
    BY <2>1 DEF Change, readerVars
  <2>3. \A q \in Panes : text'[q] = text[q] \/ text'[q] = <<>>
    BY <1>0, <2>1 DEF TextTyped
  <2>4. QED
    BY <2>2, <2>3, PlainWithout
<1>5. ASSUME NEW p \in Panes, AgentWrites(p)
      PROVE  PlainText'
  <2>1. CASE WriteMore(p) \/ RedrawEnd(p)
    BY <1>0, <2>1, PlainWriteComes, PlainComes
  <2>2. CASE RedrawAbove(p) \/ Repeat(p)
    BY <2>2 DEF RedrawAbove, Repeat, PlainText
  <2>3. QED
    BY <1>5, <2>1, <2>2 DEF AgentWrites
<1>6. QED
  BY <1>1, <1>2, <1>3, <1>4, <1>5 DEF Next, AgentChanges, AgentWrites

\* The invariant behind the answers, as far as text goes.
THEOREM PlainTextHolds == Spec => []PlainText
<1>1. Init => PlainText
  BY PlainInit
<1>2. Typed /\ PlainText /\ [Next]_vars => PlainText'
  BY PlainStep
<1>3. QED
  BY <1>1, <1>2, AlwaysTyped, PTL DEF Spec

\* What AnswerCompletesScreen says of one step.
AnswerCompletes ==
    Read /\ said' # Nobody /\ ~said'.truncated =>
        LET screen == cursor'.hash
            new == said'.output
        IN IF ~said'.delta THEN new = screen
           ELSE LET known == cursor.hash \o new
                    agreed == Len(new) + Min({MinOverlap, Len(cursor.hash)})
                IN /\ Nobody \notin {cursor.of, cursor'.of} /\ ~Untold(cursor.of) =>
                         SameAgent(cursor.of, cursor'.of)
                   /\ EndsWith(screen, Last(known, agreed))
                   /\ new = <<>> => EndsWith(screen, cursor.hash)
                   /\ plain => EndsWith(known, screen)
LEMMA OneAnswerCompletes ==
  ASSUME Typed, LivesTold, PlainText
  PROVE  AnswerCompletes
<1> DEFINE screen == cursor'.hash
           new == said'.output
<1>1. SUFFICES ASSUME Read, said' # Nobody, ~said'.truncated
               PROVE  /\ ~said'.delta => new = screen
                      /\ said'.delta =>
                            /\ Nobody \notin {cursor.of, cursor'.of} /\ ~Untold(cursor.of) =>
                                  SameAgent(cursor.of, cursor'.of)
                            /\ Completes(screen, cursor.hash, new, plain)
  BY DEF AnswerCompletes, Completes
<1>2. found \in Agents /\ found # Nobody
  BY <1>1, ReadGives
<1>3. ~UNCHANGED said
  BY <1>1, <1>2 DEF Typed, SaidTyped
<1>4. PICK a \in Here, of \in {found, Nobody} :
         /\ said' = Answer(text[a.pane], Identity(found), cursor)
         /\ cursor' = Cursor(text[a.pane], Identity(found), of)
  BY <1>1, <1>3, ReadGives
<1> DEFINE s == text[a.pane]
<1>5. s \in Seq(Nat) /\ a.pane \in Panes
  BY ScreenOf DEF Typed
<1> HIDE DEF s
<1>6. screen = s /\ cursor'.of = of
  BY <1>4, <1>5, CursorOf DEF s
<1>7. cursor # Nobody =>
         /\ IsCursor(cursor)
         /\ cursor.of # Nobody => cursor.of \in Agents /\ cursor.stream = Identity(cursor.of)
  BY DEF Typed, CursorMade
<1>8. said' = Answer(s, Identity(found), cursor)
  BY <1>4 DEF s
<1>9. ASSUME ~said'.delta
      PROVE  new = screen
  BY <1>1, <1>5, <1>6, <1>7, <1>8, <1>9, AnswerIs
<1>10. ASSUME said'.delta
       PROVE  /\ Nobody \notin {cursor.of, cursor'.of} /\ ~Untold(cursor.of) =>
                    SameAgent(cursor.of, cursor'.of)
              /\ Completes(screen, cursor.hash, new, plain)
  <2>1. PICK k : /\ new = From(s, k)
                 /\ cursor # Nobody /\ cursor.stream = Identity(found)
                 /\ \/ EndOf(s, cursor, k) /\ (cursor.hash = <<>> => k = 0)
                    \/ OverlapOf(s, cursor, k)
    BY <1>1, <1>5, <1>7, <1>8, <1>10, AnswerIs
  <2>2. ASSUME cursor.of # Nobody, cursor'.of # Nobody, ~Untold(cursor.of)
        PROVE  SameAgent(cursor.of, cursor'.of)
    <3>1. cursor'.of = found
      BY <1>4, <1>6, <2>2
    <3>2. cursor.of \in Known /\ found \in Known
      BY <1>2, <2>1, <2>2 DEF Known
    <3>3. Identity(cursor.of) = Identity(found)
      BY <1>7, <2>1, <2>2
    <3>4. QED
      BY <2>2, <3>1, <3>2, <3>3, IdentityTells
  <2>3. Completes(s, cursor.hash, new, LastSeen(cursor.hash, s))
    BY <1>5, <1>7, <2>1, RestCompletes
  <2>4. plain => LastSeen(cursor.hash, s)
    BY <1>5, <2>1 DEF PlainText, s
  <2>5. Completes(screen, cursor.hash, new, plain)
    BY <1>6, <2>3, <2>4 DEF Completes
  <2>6. QED
    BY <2>2, <2>5
<1>11. QED
  BY <1>9, <1>10

\* An answer, put after the earlier screen, ends as the screen that was read
\* does, is of the same agent where anything is told of it, and leaves nothing
\* out of plain text.
THEOREM AnswerCompletesScreenHolds == Spec => AnswerCompletesScreen
<1>1. Typed /\ LivesTold /\ PlainText => [AnswerCompletes]_vars
  BY OneAnswerCompletes
<1>2. [][AnswerCompletes]_vars => AnswerCompletesScreen
  BY PTL DEF AnswerCompletes, AnswerCompletesScreen
<1>3. QED
  BY <1>1, <1>2, AlwaysTyped, LivesAreTold, PlainTextHolds, PTL
=============================================================================
