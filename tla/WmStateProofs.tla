--------------------------- MODULE WmStateProofs ---------------------------
(***************************************************************************)
(* Facts about the helpers of WmState, proved for every value of the       *)
(* constants.  First the linked lists, then one lemma per helper: it keeps *)
(* the types and leaves alone which windows and outputs there are.         *)
(***************************************************************************)
EXTENDS WmState, SequenceTheorems, WellFoundedInduction, TLAPS

----------------------------------------------------------------------------
(* Lists without repetition *)

\* Where an entry of a list is found.
LEMMA IndexInFound ==
    ASSUME NEW S, NEW seq \in Seq(S), NEW x \in Range(seq)
    PROVE  IndexIn(seq, x) \in 1 .. Len(seq) /\ seq[IndexIn(seq, x)] = x
<1>1. PICK i \in DOMAIN seq : seq[i] = x
  BY DEF Range
<1>2. IndexIn(seq, x) \in DOMAIN seq /\ seq[IndexIn(seq, x)] = x
  BY <1>1 DEF IndexIn
<1> QED
  BY <1>2, LenProperties

\* The entries of a list with the one at k left out.
LEMMA RemoveAtEntries ==
    ASSUME NEW S, NEW seq \in Seq(S), NEW k \in 1 .. Len(seq)
    PROVE  /\ RemoveAt(seq, k) \in Seq(S)
           /\ Len(RemoveAt(seq, k)) = Len(seq) - 1
           /\ \A i \in 1 .. Len(seq) - 1 :
                 RemoveAt(seq, k)[i] = IF i < k THEN seq[i] ELSE seq[i + 1]
<1> DEFINE a == SubSeq(seq, 1, k - 1)
           b == SubSeq(seq, k + 1, Len(seq))
<1>1. Len(seq) \in Nat /\ \A i \in 1 .. Len(seq) : seq[i] \in S
  BY LenProperties, ElementOfSeq
<1>2. /\ a \in Seq(S) /\ Len(a) = k - 1
      /\ \A i \in 1 .. k - 1 : a[i] = seq[i]
  BY <1>1, SubSeqProperties
<1>3. /\ b \in Seq(S) /\ Len(b) = Len(seq) - k
      /\ \A i \in 1 .. Len(seq) - k : b[i] = seq[k + i]
  BY <1>1, SubSeqProperties
<1>4. RemoveAt(seq, k) = a \o b
  BY DEF RemoveAt
<1> HIDE DEF a, b
<1>5. /\ a \o b \in Seq(S) /\ Len(a \o b) = Len(seq) - 1
      /\ \A i \in 1 .. Len(seq) - 1 :
            (a \o b)[i] = IF i <= k - 1 THEN a[i] ELSE b[i - (k - 1)]
  BY <1>1, <1>2, <1>3, ConcatProperties
<1>6. ASSUME NEW i \in 1 .. Len(seq) - 1
      PROVE  (a \o b)[i] = IF i < k THEN seq[i] ELSE seq[i + 1]
  <2>1. CASE i < k
    BY <1>1, <1>2, <1>5, <2>1
  <2>2. CASE ~(i < k)
    <3>1. ~(i <= k - 1)
      BY <1>1, <2>2
    <3>2. (a \o b)[i] = b[i - (k - 1)]
      BY <1>5, <3>1
    <3>3. i - (k - 1) \in 1 .. Len(seq) - k
      BY <1>1, <2>2
    <3>4. b[i - (k - 1)] = seq[k + (i - (k - 1))]
      BY <1>3, <3>3
    <3>5. k + (i - (k - 1)) = i + 1
      BY <1>1
    <3> QED
      BY <3>2, <3>4, <3>5, <2>2
  <2> QED
    BY <2>1, <2>2
<1> QED
  BY <1>4, <1>5, <1>6

\* The entries of a list with e put in at k.
LEMMA InsertAtEntries ==
    ASSUME NEW S, NEW seq \in Seq(S), NEW k \in 1 .. Len(seq) + 1, NEW e \in S
    PROVE  /\ InsertAt(seq, k, e) \in Seq(S)
           /\ Len(InsertAt(seq, k, e)) = Len(seq) + 1
           /\ \A i \in 1 .. Len(seq) + 1 :
                 InsertAt(seq, k, e)[i] =
                    IF i < k THEN seq[i] ELSE IF i = k THEN e ELSE seq[i - 1]
<1> DEFINE a == SubSeq(seq, 1, k - 1)
           b == SubSeq(seq, k, Len(seq))
           c == a \o <<e>>
<1>1. Len(seq) \in Nat /\ \A i \in 1 .. Len(seq) : seq[i] \in S
  BY LenProperties, ElementOfSeq
<1>2. /\ a \in Seq(S) /\ Len(a) = k - 1
      /\ \A i \in 1 .. k - 1 : a[i] = seq[i]
  BY <1>1, SubSeqProperties
<1>3. /\ b \in Seq(S) /\ Len(b) = Len(seq) - k + 1
      /\ \A i \in 1 .. Len(seq) - k + 1 : b[i] = seq[k + i - 1]
  BY <1>1, SubSeqProperties
<1>4. InsertAt(seq, k, e) = c \o b
  BY DEF InsertAt
<1>5. <<e>> \in Seq(S) /\ Len(<<e>>) = 1 /\ <<e>>[1] = e
  OBVIOUS
<1> HIDE DEF a, b
<1>6. /\ c \in Seq(S) /\ Len(c) = k
      /\ \A i \in 1 .. k : c[i] = IF i <= k - 1 THEN a[i] ELSE <<e>>[i - (k - 1)]
  BY <1>1, <1>2, <1>5, ConcatProperties
<1>7. \A i \in 1 .. k : c[i] = IF i < k THEN seq[i] ELSE e
  BY <1>1, <1>2, <1>5, <1>6
<1> HIDE DEF c
<1>8. /\ c \o b \in Seq(S) /\ Len(c \o b) = Len(seq) + 1
      /\ \A i \in 1 .. Len(seq) + 1 :
            (c \o b)[i] = IF i <= k THEN c[i] ELSE b[i - k]
  BY <1>1, <1>3, <1>6, ConcatProperties
<1>9. ASSUME NEW i \in 1 .. Len(seq) + 1
      PROVE  (c \o b)[i] =
                IF i < k THEN seq[i] ELSE IF i = k THEN e ELSE seq[i - 1]
  <2>1. CASE i <= k
    BY <1>1, <1>7, <1>8, <2>1
  <2>2. CASE ~(i <= k)
    <3>1. (c \o b)[i] = b[i - k]
      BY <1>1, <1>8, <2>2
    <3>2. i - k \in 1 .. Len(seq) - k + 1
      BY <1>1, <2>2
    <3>3. b[i - k] = seq[k + (i - k) - 1]
      BY <1>3, <3>2
    <3>4. k + (i - k) - 1 = i - 1
      BY <1>1
    <3> QED
      BY <3>1, <3>3, <3>4, <2>2
  <2> QED
    BY <2>1, <2>2
<1> QED
  BY <1>4, <1>8, <1>9

\* A list that holds exactly the elements of R, each once.
Holds(seq, R) == IsInjective(seq) /\ Range(seq) = R

\* Taking an entry out of a list without repetition takes out that element only.
LEMMA WithoutHolds ==
    ASSUME NEW S, NEW seq \in Seq(S), IsInjective(seq), NEW x \in Range(seq)
    PROVE  Without(seq, x) \in Seq(S) /\ Holds(Without(seq, x), Range(seq) \ {x})
<1> DEFINE k == IndexIn(seq, x)
           r == RemoveAt(seq, k)
           n == Len(seq)
<1>1. k \in 1 .. n /\ seq[k] = x
  BY IndexInFound
<1>2. n \in Nat /\ DOMAIN seq = 1 .. n
  BY LenProperties
<1> HIDE DEF k
<1>3. /\ r \in Seq(S) /\ Len(r) = n - 1
      /\ \A i \in 1 .. n - 1 : r[i] = IF i < k THEN seq[i] ELSE seq[i + 1]
  BY <1>1, RemoveAtEntries
<1>4. DOMAIN r = 1 .. n - 1
  BY <1>3, LenProperties
<1> HIDE DEF r, n
<1>5. \A i, j \in 1 .. n : seq[i] = seq[j] => i = j
  BY <1>2 DEF IsInjective
<1>6. IsInjective(r)
  BY <1>1, <1>2, <1>3, <1>4, <1>5 DEF IsInjective
<1>7. Range(r) \subseteq Range(seq) \ {x}
  <2>1. ASSUME NEW i \in 1 .. n - 1
        PROVE  r[i] \in Range(seq) \ {x}
    <3>1. CASE i < k
      <4>1. r[i] = seq[i] /\ i \in 1 .. n /\ i # k
        BY <1>1, <1>2, <1>3, <3>1
      <4> QED
        BY <1>1, <1>2, <1>5, <4>1 DEF Range
    <3>2. CASE ~(i < k)
      <4>1. r[i] = seq[i + 1] /\ i + 1 \in 1 .. n /\ i + 1 # k
        BY <1>1, <1>2, <1>3, <3>2
      <4> QED
        BY <1>1, <1>2, <1>5, <4>1 DEF Range
    <3> QED
      BY <3>1, <3>2
  <2> QED
    BY <1>4, <2>1 DEF Range
<1>8. Range(seq) \ {x} \subseteq Range(r)
  <2>1. ASSUME NEW i \in 1 .. n, seq[i] # x
        PROVE  seq[i] \in Range(r)
    <3>1. CASE i < k
      BY <1>1, <1>2, <1>3, <1>4, <3>1 DEF Range
    <3>2. CASE i > k
      <4>1. i - 1 \in 1 .. n - 1 /\ ~(i - 1 < k) /\ (i - 1) + 1 = i
        BY <1>1, <1>2, <3>2
      <4>2. r[i - 1] = seq[i]
        BY <1>3, <4>1
      <4> QED
        BY <1>4, <4>1, <4>2 DEF Range
    <3> QED
      BY <1>1, <1>2, <2>1, <3>1, <3>2
  <2> QED
    BY <1>2, <2>1 DEF Range
<1> QED
  BY <1>3, <1>6, <1>7, <1>8 DEF Without, Holds, r, k

\* A list that has one more entry, new and put in at k.
LEMMA AddedHolds ==
    ASSUME NEW S, NEW seq \in Seq(S), IsInjective(seq),
           NEW e \in S \ Range(seq), NEW k \in 1 .. Len(seq) + 1,
           NEW r \in Seq(S), Len(r) = Len(seq) + 1,
           \A i \in 1 .. Len(seq) + 1 :
              r[i] = IF i < k THEN seq[i] ELSE IF i = k THEN e ELSE seq[i - 1]
    PROVE  Holds(r, Range(seq) \cup {e})
<1> DEFINE n == Len(seq)
<1>1. n \in Nat /\ DOMAIN seq = 1 .. n
  BY LenProperties
<1>2. \A i \in 1 .. n + 1 :
         r[i] = IF i < k THEN seq[i] ELSE IF i = k THEN e ELSE seq[i - 1]
  OBVIOUS
<1>3. DOMAIN r = 1 .. n + 1
  BY LenProperties
<1> HIDE DEF n
<1>4. \A i \in 1 .. n : seq[i] # e /\ \A j \in 1 .. n : seq[i] = seq[j] => i = j
  BY <1>1 DEF IsInjective, Range
<1>5. IsInjective(r)
  <2>1. ASSUME NEW i \in 1 .. n + 1, NEW j \in 1 .. n + 1, i < j
        PROVE  r[i] # r[j]
    <3>1. CASE j < k
      BY <1>1, <1>2, <1>4, <2>1, <3>1
    <3>2. CASE j = k
      BY <1>1, <1>2, <1>4, <2>1, <3>2
    <3>3. CASE k < j
      <4>1. r[j] = seq[j - 1] /\ j - 1 \in 1 .. n
        BY <1>1, <1>2, <3>3
      <4>2. CASE i < k
        BY <1>1, <1>2, <1>4, <2>1, <4>1, <4>2, <3>3
      <4>3. CASE i = k
        BY <1>1, <1>2, <1>4, <2>1, <4>1, <4>3
      <4>4. CASE k < i
        <5>1. r[i] = seq[i - 1] /\ i - 1 \in 1 .. n /\ i - 1 # j - 1
          BY <1>1, <1>2, <2>1, <4>4
        <5> QED
          BY <1>4, <4>1, <5>1
      <4> QED
        BY <4>2, <4>3, <4>4, <1>1
    <3> QED
      BY <3>1, <3>2, <3>3, <1>1
  <2> QED
    BY <1>1, <1>3, <2>1 DEF IsInjective
<1>6. Range(r) \subseteq Range(seq) \cup {e}
  <2>1. ASSUME NEW i \in 1 .. n + 1
        PROVE  r[i] = e \/ \E j \in 1 .. n : r[i] = seq[j]
    <3>1. CASE i < k
      BY <1>1, <1>2, <3>1 DEF n
    <3>2. CASE i = k
      BY <1>2, <3>2
    <3>3. CASE k < i
      <4>1. r[i] = seq[i - 1] /\ i - 1 \in 1 .. n
        BY <1>1, <1>2, <3>3 DEF n
      <4> QED
        BY <4>1
    <3> QED
      BY <3>1, <3>2, <3>3, <1>1 DEF n
  <2>2. \A i \in 1 .. n + 1 : r[i] \in Range(seq) \cup {e}
    <3> TAKE i \in 1 .. n + 1
    <3>1. CASE r[i] = e
      BY <3>1
    <3>2. CASE \E j \in 1 .. n : r[i] = seq[j]
      BY <1>1, <3>2 DEF Range
    <3> QED
      BY <2>1, <3>1, <3>2
  <2>3. DOMAIN r = 1 .. n + 1
    BY <1>1, <1>3
  <2> HIDE DEF n
  <2> QED
    BY <2>2, <2>3 DEF Range
<1>7. e \in Range(r)
  BY <1>1, <1>2, <1>3 DEF Range
<1>8. ASSUME NEW i \in 1 .. n
      PROVE  seq[i] \in Range(r)
  <2>1. CASE i < k
    <3>1. i \in 1 .. n + 1 /\ r[i] = seq[i]
      BY <1>1, <1>2, <2>1
    <3> QED
      BY <1>3, <3>1 DEF Range
  <2>2. CASE ~(i < k)
    <3>1. i + 1 \in 1 .. n + 1 /\ ~(i + 1 < k) /\ i + 1 # k /\ (i + 1) - 1 = i
      BY <1>1, <2>2
    <3>2. r[i + 1] = seq[i]
      BY <1>2, <3>1
    <3> QED
      BY <1>3, <3>1, <3>2 DEF Range
  <2> QED
    BY <2>1, <2>2
<1>9. Range(seq) \subseteq Range(r)
  BY <1>1, <1>8 DEF Range
<1> QED
  BY <1>5, <1>6, <1>7, <1>9 DEF Holds

\* Putting a new element into a list without repetition adds that one only:
\* in the middle, in front and at the end.
LEMMA InsertAtHolds ==
    ASSUME NEW S, NEW seq \in Seq(S), IsInjective(seq),
           NEW e \in S \ Range(seq), NEW k \in 1 .. Len(seq) + 1
    PROVE  /\ InsertAt(seq, k, e) \in Seq(S)
           /\ Holds(InsertAt(seq, k, e), Range(seq) \cup {e})
<1>1. e \in S
  OBVIOUS
<1> DEFINE r == InsertAt(seq, k, e)
<1> HIDE DEF r
<1>2. /\ r \in Seq(S) /\ Len(r) = Len(seq) + 1
      /\ \A i \in 1 .. Len(seq) + 1 :
            r[i] = IF i < k THEN seq[i] ELSE IF i = k THEN e ELSE seq[i - 1]
  BY <1>1, InsertAtEntries DEF r
<1>3. Holds(r, Range(seq) \cup {e})
  BY <1>2, AddedHolds
<1> QED
  BY <1>2, <1>3 DEF r

\* A window that is not in the list is put at its head or at its tail.
LEMMA EndsHold ==
    ASSUME NEW S, NEW seq \in Seq(S), IsInjective(seq), NEW e \in S \ Range(seq)
    PROVE  /\ <<e>> \o seq \in Seq(S) /\ Holds(<<e>> \o seq, Range(seq) \cup {e})
           /\ Append(seq, e) \in Seq(S)
           /\ Holds(Append(seq, e), Range(seq) \cup {e})
<1> DEFINE n == Len(seq)
           a == <<e>> \o seq
           b == Append(seq, e)
<1>1. e \in S /\ n \in Nat /\ 1 \in 1 .. n + 1 /\ n + 1 \in 1 .. n + 1
  BY LenProperties
<1>2. <<e>> \in Seq(S) /\ Len(<<e>>) = 1 /\ <<e>>[1] = e
  BY <1>1
<1>3. /\ a \in Seq(S) /\ Len(a) = n + 1
      /\ \A i \in 1 .. n + 1 : a[i] = IF i <= 1 THEN <<e>>[i] ELSE seq[i - 1]
  BY <1>1, <1>2, ConcatProperties
<1>4. \A i \in 1 .. n + 1 :
         a[i] = IF i < 1 THEN seq[i] ELSE IF i = 1 THEN e ELSE seq[i - 1]
  BY <1>1, <1>2, <1>3
<1>5. /\ b \in Seq(S) /\ Len(b) = n + 1
      /\ \A i \in 1 .. n + 1 :
            b[i] = IF i < n + 1 THEN seq[i] ELSE IF i = n + 1 THEN e ELSE seq[i - 1]
  BY <1>1, AppendProperties
<1> HIDE DEF a, b
<1>6. Holds(a, Range(seq) \cup {e})
  BY <1>1, <1>3, <1>4, AddedHolds
<1>7. Holds(b, Range(seq) \cup {e})
  BY <1>1, <1>5, AddedHolds
<1> QED
  BY <1>3, <1>5, <1>6, <1>7 DEF a, b

\* A new element inserted before or after one of the list.
LEMMA BesideHolds ==
    ASSUME NEW S, NEW seq \in Seq(S), IsInjective(seq),
           NEW w \in S \ Range(seq), NEW x \in Range(seq)
    PROVE  /\ Before(seq, w, x) \in Seq(S) /\ Holds(Before(seq, w, x), Range(seq) \cup {w})
           /\ After(seq, w, x) \in Seq(S) /\ Holds(After(seq, w, x), Range(seq) \cup {w})
<1>1. Len(seq) \in Nat /\ IndexIn(seq, x) \in 1 .. Len(seq)
  BY IndexInFound, LenProperties
<1>2. /\ IndexIn(seq, x) \in 1 .. Len(seq) + 1
      /\ IndexIn(seq, x) + 1 \in 1 .. Len(seq) + 1
  BY <1>1
<1> QED
  BY <1>2, InsertAtHolds DEF Before, After

\* Exchanging two entries keeps the elements.
LEMMA ExchangeHolds ==
    ASSUME NEW S, NEW seq \in Seq(S), IsInjective(seq),
           NEW w \in Range(seq), NEW v \in Range(seq)
    PROVE  LET r == [seq EXCEPT ![IndexIn(seq, w)] = v, ![IndexIn(seq, v)] = w]
           IN  r \in Seq(S) /\ Holds(r, Range(seq))
<1> DEFINE i == IndexIn(seq, w)
           j == IndexIn(seq, v)
           n == Len(seq)
           r == [seq EXCEPT ![i] = v, ![j] = w]
<1>1. i \in 1 .. n /\ seq[i] = w /\ j \in 1 .. n /\ seq[j] = v
  BY IndexInFound
<1>2. n \in Nat /\ seq \in [1 .. n -> S]
  BY LenProperties
<1>3. w \in S /\ v \in S
  BY <1>1, <1>2
<1> HIDE DEF i, j, n
<1>4. /\ r \in [1 .. n -> S]
      /\ r[j] = w /\ r[i] = v
      /\ \A k \in 1 .. n : k # i /\ k # j => r[k] = seq[k]
  BY <1>1, <1>2, <1>3
<1> HIDE DEF r
<1>5. r \in Seq(S) /\ DOMAIN r = 1 .. n
  BY <1>2, <1>4, SeqDef
<1>6. \A k, l \in 1 .. n : seq[k] = seq[l] => k = l
  BY <1>2 DEF IsInjective
<1>7. IsInjective(r)
  BY <1>1, <1>4, <1>5, <1>6 DEF IsInjective
<1>8. Range(r) = Range(seq)
  BY <1>1, <1>2, <1>4, <1>5 DEF Range
<1> QED
  BY <1>5, <1>7, <1>8 DEF Holds, r, i, j

----------------------------------------------------------------------------
(* List walks and the outputs *)

\* A set of positions has a first and a last member.
LEMMA LeastNatural ==
    ASSUME NEW I \in SUBSET Nat, I # {}
    PROVE  \E i \in I : \A j \in I : i <= j
<1> DEFINE R == OpToRel(<, Nat)
<1>1. IsWellFoundedOn(R, Nat)
  BY NatLessThanWellFounded
<1>2. \A x, y \in Nat : <<y, x>> \in R <=> y < x
  BY DEF OpToRel
<1> HIDE DEF R
<1>3. PICK x \in I : \A y \in I : ~(<<y, x>> \in R)
  BY <1>1, WFMin
<1>4. x \in Nat /\ \A y \in I : y \in Nat
  OBVIOUS
<1>5. \A y \in I : ~(y < x)
  BY <1>2, <1>3, <1>4
<1> QED
  BY <1>4, <1>5

\* A non-empty set of positions has a greatest one.
LEMMA GreatestNatural ==
    ASSUME NEW n \in Nat, NEW I \in SUBSET (1 .. n), I # {}
    PROVE  \E i \in I : \A j \in I : j <= i
<1> DEFINE J == {n - i : i \in I}
<1>1. J \in SUBSET Nat /\ J # {}
  <2>1. \A i \in I : n - i \in Nat
    OBVIOUS
  <2> QED
    BY <2>1
<1>2. PICK k \in J : \A j \in J : k <= j
  BY <1>1, LeastNatural
<1>3. PICK i \in I : k = n - i
  OBVIOUS
<1>4. \A j \in I : n - i <= n - j
  BY <1>2, <1>3
<1>5. \A j \in I : j <= i
  BY <1>4
<1> QED
  BY <1>5

\* A walk ends at null only where there is nothing to find.
LEMMA EarliestLatestNull ==
    ASSUME NEW S, NEW seq \in Seq(S), NEW I \in SUBSET DOMAIN seq, NEW null,
           null \notin S
    PROVE  /\ Earliest(seq, I, null) = null <=> I = {}
           /\ Latest(seq, I, null) = null <=> I = {}
<1>1. Len(seq) \in Nat /\ DOMAIN seq = 1 .. Len(seq)
  BY LenProperties
<1>2. \A i \in I : seq[i] # null
  BY <1>1, ElementOfSeq
<1>3. ASSUME I # {}
      PROVE  /\ \E i \in I : \A j \in I : i <= j
             /\ \E i \in I : \A j \in I : j <= i
  <2>1. I \in SUBSET Nat /\ I \in SUBSET (1 .. Len(seq))
    BY <1>1
  <2> QED
    BY <1>1, <1>3, <2>1, LeastNatural, GreatestNatural
<1>4. CASE I = {}
  BY <1>4 DEF Earliest, Latest
<1>5. CASE I # {}
  BY <1>2, <1>3, <1>5 DEF Earliest, Latest
<1> QED
  BY <1>4, <1>5

\* A list walk yields a window of the list that is in the walked set, or null.
LEMMA EarliestLatest ==
    ASSUME NEW S, NEW seq \in Seq(S), NEW I \in SUBSET DOMAIN seq, NEW null
    PROVE  /\ Earliest(seq, I, null) \in {seq[i] : i \in I} \cup {null}
           /\ Latest(seq, I, null) \in {seq[i] : i \in I} \cup {null}
BY DEF Earliest, Latest

\* A walk of server->toplevels ends at a listed window of S or at null.
LEMMA Walks ==
    ASSUME NEW s \in ServerState, NEW S, NEW w
    PROVE  LET found == (Range(s.toplevels) \cap S) \cup {NoWindow}
           IN  /\ FirstIn(s, S) \in found /\ LastIn(s, S) \in found
               /\ NextIn(s, S, w) \in found /\ PrevIn(s, S, w) \in found
<1>1. s.toplevels \in Seq(Window)
  BY DEF ServerState
<1>2. \A I \in SUBSET Places(s, S) :
          /\ I \in SUBSET DOMAIN s.toplevels
          /\ {s.toplevels[i] : i \in I} \subseteq Range(s.toplevels) \cap S
  BY DEF Places, Range
<1>3. \A I \in SUBSET Places(s, S) :
          /\ Earliest(s.toplevels, I, NoWindow)
                 \in (Range(s.toplevels) \cap S) \cup {NoWindow}
          /\ Latest(s.toplevels, I, NoWindow)
                 \in (Range(s.toplevels) \cap S) \cup {NoWindow}
  <2> SUFFICES ASSUME NEW I \in SUBSET Places(s, S)
               PROVE  /\ Earliest(s.toplevels, I, NoWindow)
                             \in (Range(s.toplevels) \cap S) \cup {NoWindow}
                      /\ Latest(s.toplevels, I, NoWindow)
                             \in (Range(s.toplevels) \cap S) \cup {NoWindow}
    OBVIOUS
  <2>1. I \in SUBSET DOMAIN s.toplevels
    BY <1>2
  <2>2. /\ Earliest(s.toplevels, I, NoWindow)
               \in {s.toplevels[i] : i \in I} \cup {NoWindow}
        /\ Latest(s.toplevels, I, NoWindow)
               \in {s.toplevels[i] : i \in I} \cup {NoWindow}
    BY <1>1, <2>1, EarliestLatest
  <2> QED
    BY <1>2, <2>2
<1> QED
  BY <1>3 DEF FirstIn, LastIn, NextIn, PrevIn

\* The windows in the list are windows.
LEMMA ListedWindows ==
    ASSUME NEW s \in ServerState
    PROVE  Range(s.toplevels) \subseteq Window /\ Live(s) \subseteq Output
<1>1. s.toplevels \in Seq(Window) /\ s.outputs \in Seq(Output)
  BY DEF ServerState
<1> QED
  BY <1>1, RangeOfSeq, ElementOfSeq, LenProperties DEF Live, Range

\* The walk from the front and the one from the back find nothing together, and
\* a walk that starts at w does not come back to w.
LEMMA WalksAgree ==
    ASSUME NEW s \in ServerState, IsInjective(s.toplevels), NEW S
    PROVE  /\ FirstIn(s, S) = NoWindow <=> LastIn(s, S) = NoWindow
           /\ \A w \in Range(s.toplevels) : NextIn(s, S, w) # w /\ PrevIn(s, S, w) # w
<1> DEFINE seq == s.toplevels
           n == Len(seq)
<1>1. seq \in Seq(Window) /\ n \in Nat /\ DOMAIN seq = 1 .. n
  BY LenProperties DEF ServerState
<1>2. FirstIn(s, S) = NoWindow <=> LastIn(s, S) = NoWindow
  <2>1. Places(s, S) \in SUBSET DOMAIN seq
    BY DEF Places
  <2>2. NoWindow \notin Window
    BY NullAssumption
  <2> QED
    BY <1>1, <2>1, <2>2, EarliestLatestNull DEF FirstIn, LastIn
<1>3. ASSUME NEW w \in Range(seq), NEW I \in SUBSET DOMAIN seq,
             \A i \in I : i # PlaceOf(s, w)
      PROVE  Earliest(seq, I, NoWindow) # w /\ Latest(seq, I, NoWindow) # w
  <2>1. PlaceOf(s, w) \in DOMAIN seq /\ seq[PlaceOf(s, w)] = w /\ w # NoWindow
    <3>1. w \in Window
      BY ListedWindows
    <3> QED
      BY <1>1, <3>1, IndexInFound, NullAssumption DEF PlaceOf
  <2>2. \A i \in I : seq[i] # w
    BY <1>3, <2>1 DEF IsInjective
  <2>3. /\ Earliest(seq, I, NoWindow) \in {seq[i] : i \in I} \cup {NoWindow}
        /\ Latest(seq, I, NoWindow) \in {seq[i] : i \in I} \cup {NoWindow}
    BY <1>1, EarliestLatest
  <2> QED
    BY <2>1, <2>2, <2>3
<1>4. ASSUME NEW w \in Range(seq)
      PROVE  NextIn(s, S, w) # w /\ PrevIn(s, S, w) # w
  <2> DEFINE I == {i \in Places(s, S) : i > PlaceOf(s, w)}
             J == {i \in Places(s, S) : i < PlaceOf(s, w)}
  <2>1. PlaceOf(s, w) \in 1 .. n
    BY <1>1, IndexInFound DEF PlaceOf
  <2>2. Places(s, S) \in SUBSET (1 .. n)
    BY <1>1 DEF Places
  <2>3. /\ I \in SUBSET DOMAIN seq /\ \A i \in I : i # PlaceOf(s, w)
        /\ J \in SUBSET DOMAIN seq /\ \A i \in J : i # PlaceOf(s, w)
    BY <1>1, <2>1, <2>2
  <2> HIDE DEF I, J
  <2>4. Earliest(seq, I, NoWindow) # w /\ Latest(seq, J, NoWindow) # w
    BY <1>3, <2>3
  <2> QED
    BY <2>4 DEF NextIn, PrevIn, I, J
<1> QED
  BY <1>2, <1>4

\* output_cycle and the first output are connected outputs or null.
LEMMA OutputsFound ==
    ASSUME NEW s \in ServerState
    PROVE  /\ FirstOutput(s) \in Live(s) \cup {NoOutput}
           /\ \A o \in Live(s) : \A step :
                  CycleOutput(s, o, step) \in Live(s) \cup {NoOutput}
<1> DEFINE n == Len(s.outputs)
<1>1. s.outputs \in Seq(Output) /\ n \in Nat /\ DOMAIN s.outputs = 1 .. n
  BY LenProperties DEF ServerState
<1>2. \A i \in 1 .. n : s.outputs[i] \in Live(s)
  BY <1>1 DEF Live, Range
<1>3. FirstOutput(s) \in Live(s) \cup {NoOutput}
  <2>1. s.outputs # <<>> => 1 \in 1 .. n
    BY <1>1, EmptySeq
  <2> QED
    BY <1>2, <2>1 DEF FirstOutput
<1>4. ASSUME NEW o \in Live(s), NEW step
      PROVE  CycleOutput(s, o, step) \in Live(s) \cup {NoOutput}
  <2> DEFINE i == CHOOSE k \in 1 .. n : s.outputs[k] = o
  <2>1. \E k \in 1 .. n : s.outputs[k] = o
    BY <1>1 DEF Live, Range
  <2>2. i \in 1 .. n
    BY <2>1
  <2> HIDE DEF i
  <2>3. /\ n > 1 => (IF i = n THEN 1 ELSE i + 1) \in 1 .. n
        /\ n > 1 => (IF i = 1 THEN n ELSE i - 1) \in 1 .. n
    BY <1>1, <2>2
  <2>4. CASE n <= 1
    BY <2>4 DEF CycleOutput
  <2>5. CASE n > 1
    <3>1. CycleOutput(s, o, step) =
              IF step = "next" THEN s.outputs[IF i = n THEN 1 ELSE i + 1]
              ELSE s.outputs[IF i = 1 THEN n ELSE i - 1]
      BY <1>1, <2>5 DEF CycleOutput, i
    <3> QED
      BY <1>2, <2>3, <2>5, <3>1
  <2> QED
    BY <1>1, <2>4, <2>5
<1> QED
  BY <1>3, <1>4

----------------------------------------------------------------------------
(* Calm helpers: no window is mapped, unmapped, moved to another place, or *)
(* lost sight of.                                                          *)

\* Mapped windows and focused_output refer to connected monitors.
GoodPointers(s) ==
    /\ \A w \in Linked(s) : s.win[w].output \in Live(s) \cup {NoOutput}
    /\ s.focused_output \in Live(s) \cup {NoOutput}

\* last_focused is null or a mapped window of that output and workspace.
Owns(s, o, ws, w) ==
    w # NoWindow => /\ w \in Linked(s)
                    /\ s.win[w].output = o
                    /\ s.win[w].workspace = ws
Remembered(s) ==
    \A o \in Live(s), ws \in WS : Owns(s, o, ws, s.out[o].last_focused[ws])

\* Pointers that are followed without a test lead to objects.
Sound(s) == GoodPointers(s) /\ Remembered(s)

\* The window with the keyboard is mapped.
OnKeyboard(s) == s.kb_focus \in Window => s.kb_focus \in Linked(s)

\* x and y are states of a window that is in the same place in both.  A layout may
\* hide a window, but none that is in a scratchpad or not mapped.
SamePlace(x, y) ==
    /\ y.life = x.life /\ y.output = x.output /\ y.workspace = x.workspace
    /\ y.in_scratchpad = x.in_scratchpad /\ y.scratchpad_name = x.scratchpad_name
    /\ y.tree = x.tree
    /\ x.in_scratchpad = TRUE \/ x.life # "linked" => (x.enabled = TRUE => y.enabled = TRUE)

\* From s to t no window but those of W goes to another place.
Shifts(s, t, W) ==
    /\ t \in ServerState
    /\ t.outputs = s.outputs
    /\ \A w \in Window \ W : SamePlace(s.win[w], t.win[w])
    /\ t.focused_output \in Live(s) \cup {s.focused_output}
    /\ t.kb_focus \in Window \cup {NoWindow, s.kb_focus}

\* The pointers stay good, and no bad one is followed.
Careful(s, t) ==
    /\ Remembered(t)
    /\ OnKeyboard(s) => OnKeyboard(t)
    /\ t.crashed => s.crashed

Settles(s, t, W) == Shifts(s, t, W) /\ (Sound(s) => Careful(s, t))

Calm(s, t) ==
    /\ Settles(s, t, {})
    /\ t.toplevels = s.toplevels /\ t.shown_pads = s.shown_pads

\* What a calm step leaves alone.
LEMMA CalmKeeps ==
    ASSUME NEW s, NEW t, Calm(s, t)
    PROVE  /\ t \in ServerState
           /\ Linked(t) = Linked(s) /\ Live(t) = Live(s)
           /\ t.outputs = s.outputs /\ t.toplevels = s.toplevels
           /\ \A w \in Window : SamePlace(s.win[w], t.win[w])
           /\ GoodPointers(s) => GoodPointers(t)
           /\ Sound(s) => Sound(t)
<1>1. /\ Linked(t) = Linked(s) /\ Live(t) = Live(s)
      /\ \A w \in Window : SamePlace(s.win[w], t.win[w])
      /\ t.focused_output \in Live(s) \cup {s.focused_output}
  BY DEF Calm, Settles, Shifts, SamePlace, Linked, Live
<1>2. \A w \in Linked(s) : t.win[w].output = s.win[w].output
  BY <1>1 DEF SamePlace, Linked
<1>3. GoodPointers(s) => GoodPointers(t)
  BY <1>1, <1>2 DEF GoodPointers
<1>4. Sound(s) => Sound(t)
  BY <1>3 DEF Calm, Settles, Sound, Careful
<1> QED
  BY <1>1, <1>3, <1>4 DEF Calm, Settles, Shifts

\* A calm step before or after one that moves windows changes nothing about it.
LEMMA ShiftCalm ==
    ASSUME NEW s, NEW t, NEW u, NEW W, Shifts(s, t, W), Calm(t, u)
    PROVE  Shifts(s, u, W)
<1>1. \A w \in Window : SamePlace(t.win[w], u.win[w])
  BY CalmKeeps
<1>2. \A w \in Window \ W : SamePlace(s.win[w], u.win[w])
  BY <1>1 DEF Shifts, SamePlace
<1> QED
  BY <1>2 DEF Shifts, Settles, Calm, Live

\* The same of one that settles them, if the pointers were good in between.
LEMMA SettlesCalm ==
    ASSUME NEW s, NEW t, NEW u, NEW W, Settles(s, t, W), Calm(t, u),
           Sound(s) => GoodPointers(t)
    PROVE  Settles(s, u, W)
<1>1. Shifts(s, u, W)
  BY ShiftCalm DEF Settles
<1>2. Sound(s) => Careful(s, u)
  BY DEF Calm, Settles, Careful, Sound
<1> QED
  BY <1>1, <1>2 DEF Settles

\* And of a calm step before it.
LEMMA CalmSettles ==
    ASSUME NEW s, NEW t, NEW u, NEW W, Calm(s, t), Settles(t, u, W)
    PROVE  Settles(s, u, W)
<1>1. /\ Live(t) = Live(s)
      /\ Sound(s) => Sound(t)
      /\ \A w \in Window : SamePlace(s.win[w], t.win[w])
  BY CalmKeeps
<1>2. \A w \in Window \ W : SamePlace(s.win[w], u.win[w])
  BY <1>1 DEF Settles, Shifts, SamePlace
<1>3. Shifts(s, u, W)
  BY <1>1, <1>2 DEF Settles, Shifts, Calm
<1>4. Sound(s) => Careful(s, u)
  BY <1>1 DEF Calm, Settles, Careful
<1> QED
  BY <1>3, <1>4 DEF Settles

\* Two calm steps make a calm step.
LEMMA CalmChain ==
    ASSUME NEW s, NEW t, NEW u, Calm(s, t), Calm(t, u)
    PROVE  Calm(s, u)
BY CalmSettles DEF Calm

\* Doing nothing is calm.
LEMMA CalmSame ==
    ASSUME NEW s \in ServerState
    PROVE  Calm(s, s)
BY DEF Calm, Settles, Shifts, SamePlace, Careful, Sound

\* Assignments to one field of the server.
LEMMA CalmWin ==
    ASSUME NEW s \in ServerState, NEW f \in [Window -> Toplevel],
           \A w \in Window : SamePlace(s.win[w], f[w])
    PROVE  Calm(s, [s EXCEPT !.win = f])
<1> DEFINE t == [s EXCEPT !.win = f]
<1>1. /\ t \in ServerState /\ t.win = f /\ t.out = s.out
      /\ t.outputs = s.outputs /\ t.toplevels = s.toplevels
      /\ t.shown_pads = s.shown_pads /\ t.kb_focus = s.kb_focus
      /\ t.focused_output = s.focused_output /\ t.crashed = s.crashed
  BY DEF ServerState
<1> HIDE DEF t
<1>2. Linked(t) = Linked(s) /\ Live(t) = Live(s)
  BY <1>1 DEF Linked, Live, SamePlace
<1>3. \A o, ws, w : Owns(s, o, ws, w) => Owns(t, o, ws, w)
  BY <1>1, <1>2 DEF Owns, SamePlace, Linked
<1>4. Remembered(s) => Remembered(t)
  BY <1>1, <1>2, <1>3 DEF Remembered
<1> QED
  BY <1>1, <1>2, <1>4 DEF Calm, Settles, Shifts, Careful, Sound, OnKeyboard, t

\* Assignments to one window that leave it where it is.
LEMMA CalmWindow ==
    ASSUME NEW s \in ServerState, NEW w \in Window, NEW x \in Toplevel,
           SamePlace(s.win[w], x)
    PROVE  Calm(s, [s EXCEPT !.win[w] = x])
<1> DEFINE f == [s.win EXCEPT ![w] = x]
<1>1. /\ f \in [Window -> Toplevel]
      /\ \A v \in Window : SamePlace(s.win[v], f[v])
  BY DEF ServerState, SamePlace
<1>2. [s EXCEPT !.win[w] = x] = [s EXCEPT !.win = f]
  BY DEF ServerState
<1> HIDE DEF f
<1> QED
  BY <1>1, <1>2, CalmWin

\* Assignments to the state of outputs that remember no other windows, or
\* remember them where they are.
LEMMA CalmOut ==
    ASSUME NEW s \in ServerState, NEW f \in [Output -> OutputState],
           Sound(s) => \A o \in Live(s), ws \in WS :
                          \/ f[o].last_focused[ws] = s.out[o].last_focused[ws]
                          \/ Owns(s, o, ws, f[o].last_focused[ws])
    PROVE  Calm(s, [s EXCEPT !.out = f])
<1> DEFINE t == [s EXCEPT !.out = f]
<1>1. /\ t \in ServerState /\ t.win = s.win /\ t.out = f
      /\ t.outputs = s.outputs /\ t.toplevels = s.toplevels
      /\ t.shown_pads = s.shown_pads /\ t.kb_focus = s.kb_focus
      /\ t.focused_output = s.focused_output /\ t.crashed = s.crashed
  BY DEF ServerState
<1> HIDE DEF t
<1>2. Linked(t) = Linked(s) /\ Live(t) = Live(s)
  BY <1>1 DEF Linked, Live
<1>3. \A o, ws, w : Owns(t, o, ws, w) <=> Owns(s, o, ws, w)
  BY <1>1, <1>2 DEF Owns
<1>4. Sound(s) => Remembered(t)
  BY <1>1, <1>2, <1>3 DEF Remembered, Sound
<1> QED
  BY <1>1, <1>2, <1>4 DEF Calm, Settles, Shifts, Careful, OnKeyboard, SamePlace, t

\* Assignments to the keyboard focus and the focused output, and a crash that
\* only a bad pointer causes.
LEMMA CalmFields ==
    ASSUME NEW s \in ServerState
    PROVE  /\ \A w \in Window \cup {NoWindow} :
                  (Sound(s) => w \in Linked(s) \cup {NoWindow})
                      => Calm(s, [s EXCEPT !.kb_focus = w])
           /\ \A o \in Live(s) \cup {s.focused_output} :
                  Calm(s, [s EXCEPT !.focused_output = o])
           /\ \A b \in BOOLEAN : (Sound(s) /\ b => s.crashed)
                                     => Calm(s, [s EXCEPT !.crashed = b])
<1>1. Live(s) \cup {s.focused_output} \subseteq Output \cup {NoOutput}
  BY ListedWindows DEF ServerState
<1>2. ASSUME NEW t \in ServerState, t.win = s.win, t.out = s.out,
             t.outputs = s.outputs, t.toplevels = s.toplevels,
             t.shown_pads = s.shown_pads,
             t.focused_output \in Live(s) \cup {s.focused_output},
             t.kb_focus \in Window \cup {NoWindow, s.kb_focus},
             Sound(s) => /\ t.kb_focus \in Linked(s) \cup {NoWindow, s.kb_focus}
                         /\ t.crashed => s.crashed
      PROVE  Calm(s, t)
  <2>1. Linked(t) = Linked(s) /\ Live(t) = Live(s)
    BY <1>2 DEF Linked, Live
  <2>2. \A o, ws, w : Owns(t, o, ws, w) <=> Owns(s, o, ws, w)
    BY <1>2, <2>1 DEF Owns
  <2>3. Remembered(s) => Remembered(t)
    BY <1>2, <2>1, <2>2 DEF Remembered
  <2>4. Sound(s) /\ OnKeyboard(s) => OnKeyboard(t)
    BY <1>2, <2>1, NullAssumption DEF OnKeyboard
  <2> QED
    BY <1>2, <2>3, <2>4 DEF Calm, Settles, Shifts, Careful, Sound, SamePlace
<1>3. ASSUME NEW w \in Window \cup {NoWindow},
             Sound(s) => w \in Linked(s) \cup {NoWindow}
      PROVE  Calm(s, [s EXCEPT !.kb_focus = w])
  <2> DEFINE t == [s EXCEPT !.kb_focus = w]
  <2>1. /\ t \in ServerState /\ t.win = s.win /\ t.out = s.out
        /\ t.outputs = s.outputs /\ t.toplevels = s.toplevels
        /\ t.shown_pads = s.shown_pads /\ t.focused_output = s.focused_output
        /\ t.kb_focus = w /\ t.crashed = s.crashed
    BY DEF ServerState
  <2> HIDE DEF t
  <2> QED
    BY <1>2, <1>3, <2>1 DEF t
<1>4. ASSUME NEW o \in Live(s) \cup {s.focused_output}
      PROVE  Calm(s, [s EXCEPT !.focused_output = o])
  <2> DEFINE t == [s EXCEPT !.focused_output = o]
  <2>1. /\ t \in ServerState /\ t.win = s.win /\ t.out = s.out
        /\ t.outputs = s.outputs /\ t.toplevels = s.toplevels
        /\ t.shown_pads = s.shown_pads /\ t.focused_output = o
        /\ t.kb_focus = s.kb_focus /\ t.crashed = s.crashed
    BY <1>1 DEF ServerState
  <2> HIDE DEF t
  <2> QED
    BY <1>2, <2>1 DEF t
<1>5. ASSUME NEW b \in BOOLEAN, Sound(s) /\ b => s.crashed
      PROVE  Calm(s, [s EXCEPT !.crashed = b])
  <2> DEFINE t == [s EXCEPT !.crashed = b]
  <2>1. /\ t \in ServerState /\ t.win = s.win /\ t.out = s.out
        /\ t.outputs = s.outputs /\ t.toplevels = s.toplevels
        /\ t.shown_pads = s.shown_pads /\ t.focused_output = s.focused_output
        /\ t.kb_focus = s.kb_focus /\ t.crashed = b
    BY DEF ServerState
  <2> HIDE DEF t
  <2> QED
    BY <1>2, <1>5, <2>1 DEF t
<1> QED
  BY <1>3, <1>4, <1>5

\* A dereference of a bad pointer, where the pointers are not all good.
LEMMA CalmCrash ==
    ASSUME NEW s \in ServerState, ~Sound(s)
    PROVE  Calm(s, Crash(s))
BY CalmFields DEF Crash

\* The fields of a window that a calm step may change.
LEMMA ToplevelFields ==
    ASSUME NEW t \in Toplevel
    PROVE  /\ \A b \in BOOLEAN : [t EXCEPT !.enabled = b] \in Toplevel
           /\ \A f \in SUBSET Flag : [t EXCEPT !.flags = f] \in Toplevel
           /\ \A ws \in WS : [t EXCEPT !.workspace = ws] \in Toplevel
           /\ \A i \in BOOLEAN : [t EXCEPT !.in_scratchpad = i] \in Toplevel
           /\ \A p \in Pad : [t EXCEPT !.scratchpad_name = p] \in Toplevel
           /\ \A n \in Pad \cup {"windows"} : [t EXCEPT !.tree = n] \in Toplevel
BY DEF Toplevel

\* arrange_windows changes only the flags of a window and whether it is enabled,
\* that of a scratchpad window not.
LEMMA ArrangeWindowType ==
    ASSUME NEW s \in ServerState, NEW w \in Linked(s)
    PROVE  /\ ArrangeWindow(s, w) \in Toplevel
           /\ SamePlace(s.win[w], ArrangeWindow(s, w))
           /\ PicturedWindow(s, w) \in Toplevel
           /\ SamePlace(s.win[w], PicturedWindow(s, w))
<1> DEFINE t == s.win[w]
           f == t.flags \cup {"floating"}
           b == ActiveLayout(s, t.output) = "tabbed" => FrontWindow(s, t.output) = w
<1>1. /\ t \in Toplevel /\ f \in SUBSET Flag /\ b \in BOOLEAN
      /\ t.life = "linked" /\ t.in_scratchpad \in BOOLEAN
  BY DEF ServerState, Toplevel, Flag, Linked
<1>2. \/ ~t.in_scratchpad /\ ArrangeWindow(s, w) = [t EXCEPT !.flags = f, !.enabled = TRUE]
      \/ ~t.in_scratchpad /\ ArrangeWindow(s, w) = [t EXCEPT !.enabled = b]
      \/ ArrangeWindow(s, w) = t
  BY DEF ArrangeWindow, Tiled
<1>3. \/ PicturedWindow(s, w) = t
      \/ ~t.in_scratchpad /\ \E g \in {t.flags, f} :
             PicturedWindow(s, w) = [t EXCEPT !.enabled = FALSE, !.flags = g]
  BY DEF PicturedWindow
<1> HIDE DEF t, f, b
<1>4. SamePlace(t, t)
  BY DEF SamePlace
<1>5. ASSUME ~t.in_scratchpad, NEW g \in SUBSET Flag, NEW e \in BOOLEAN
      PROVE  LET x == [t EXCEPT !.enabled = e, !.flags = g]
             IN  x \in Toplevel /\ SamePlace(t, x)
  BY <1>1, <1>5 DEF Toplevel, SamePlace
<1>6. [t EXCEPT !.flags = f, !.enabled = TRUE] = [t EXCEPT !.enabled = TRUE, !.flags = f]
  BY <1>1 DEF Toplevel
<1>7. [t EXCEPT !.enabled = b] = [t EXCEPT !.enabled = b, !.flags = t.flags]
      /\ t.flags \in SUBSET Flag
  BY <1>1 DEF Toplevel
<1>8. ArrangeWindow(s, w) \in Toplevel /\ SamePlace(t, ArrangeWindow(s, w))
  <2>1. CASE ~t.in_scratchpad /\ ArrangeWindow(s, w) = [t EXCEPT !.flags = f, !.enabled = TRUE]
    <3>1. LET x == [t EXCEPT !.enabled = TRUE, !.flags = f]
          IN  x \in Toplevel /\ SamePlace(t, x)
      BY <1>1, <1>5, <2>1, Zenon
    <3> QED
      BY <1>6, <2>1, <3>1, Zenon
  <2>2. CASE ~t.in_scratchpad /\ ArrangeWindow(s, w) = [t EXCEPT !.enabled = b]
    <3>1. LET x == [t EXCEPT !.enabled = b, !.flags = t.flags]
          IN  x \in Toplevel /\ SamePlace(t, x)
      BY <1>1, <1>5, <1>7, <2>2, Zenon
    <3> QED
      BY <1>7, <2>2, <3>1, Zenon
  <2>3. CASE ArrangeWindow(s, w) = t
    BY <1>1, <1>4, <2>3
  <2> QED
    BY <1>2, <2>1, <2>2, <2>3
<1>9. PicturedWindow(s, w) \in Toplevel /\ SamePlace(t, PicturedWindow(s, w))
  <2>1. CASE PicturedWindow(s, w) = t
    BY <1>1, <1>4, <2>1
  <2>2. ASSUME ~t.in_scratchpad, NEW g \in {t.flags, f},
               PicturedWindow(s, w) = [t EXCEPT !.enabled = FALSE, !.flags = g]
        PROVE  PicturedWindow(s, w) \in Toplevel /\ SamePlace(t, PicturedWindow(s, w))
    <3>1. g \in SUBSET Flag
      BY <1>1, <1>7
    <3>2. LET x == [t EXCEPT !.enabled = FALSE, !.flags = g]
          IN  x \in Toplevel /\ SamePlace(t, x)
      BY <1>5, <2>2, <3>1, Zenon
    <3> QED
      BY <2>2, <3>2, Zenon
  <2> QED
    BY <1>3, <2>1, <2>2, Zenon
<1> QED
  BY <1>8, <1>9 DEF t

\* No remembered window of a connected output is free.
LEMMA NoFreedFront ==
    ASSUME NEW s \in ServerState, Sound(s), NEW o \in Live(s), NEW S \in SUBSET WS
    PROVE  ~FreedFront(s, o, S)
BY DEF FreedFront, Sound, Remembered, Owns, Linked

\* arrange_windows is calm, for any set of connected outputs.
LEMMA CalmArrange ==
    ASSUME NEW s \in ServerState, NEW O, Sound(s) => O \subseteq Live(s)
    PROVE  Calm(s, Arrange(s, O))
<1> DEFINE f == [w \in Window |->
                    IF w \notin Linked(s) \/ s.win[w].output \notin O THEN s.win[w]
                    ELSE IF Overviewed(s, s.win[w].output) THEN PicturedWindow(s, w)
                    ELSE ArrangeWindow(s, w)]
           b == s.crashed \/ \E o \in O :
                    FreedFront(s, o, IF Overviewed(s, o) THEN WS
                                     ELSE {s.out[o].active_workspace})
           t == [s EXCEPT !.win = f]
<1>1. Arrange(s, O) = [t EXCEPT !.crashed = b]
  BY DEF Arrange, ServerState
<1>2. \A w \in Window : f[w] \in Toplevel /\ SamePlace(s.win[w], f[w])
  <2>1. \A w \in Window : s.win[w] \in Toplevel /\ SamePlace(s.win[w], s.win[w])
    BY DEF ServerState, SamePlace
  <2> QED
    BY <2>1, ArrangeWindowType
<1>3. f \in [Window -> Toplevel]
  BY <1>2
<1>4. b \in BOOLEAN /\ (Sound(s) /\ b => s.crashed)
  <2>1. ASSUME Sound(s), NEW o \in O
        PROVE  ~FreedFront(s, o, IF Overviewed(s, o) THEN WS
                                 ELSE {s.out[o].active_workspace})
    <3>1. o \in Live(s) /\ o \in Output
      BY <2>1, ListedWindows
    <3>2. {s.out[o].active_workspace} \in SUBSET WS
      BY <3>1 DEF ServerState, OutputState
    <3> QED
      BY <2>1, <3>1, <3>2, NoFreedFront
  <2> QED
    BY <2>1 DEF ServerState
<1> HIDE DEF f, b
<1>5. Calm(s, t) /\ t.crashed = s.crashed
  BY <1>2, <1>3, CalmWin DEF ServerState
<1>6. t \in ServerState /\ (Sound(t) => Sound(s))
  <2>1. /\ t \in ServerState /\ t.win = f /\ t.out = s.out /\ t.outputs = s.outputs
        /\ t.focused_output = s.focused_output
    BY <1>3 DEF ServerState
  <2> HIDE DEF t
  <2>2. Linked(t) = Linked(s) /\ Live(t) = Live(s)
    BY <1>5, CalmKeeps
  <2>3. \A w \in Linked(s) : /\ t.win[w].output = s.win[w].output
                             /\ t.win[w].workspace = s.win[w].workspace
    BY <1>2, <2>1 DEF SamePlace, Linked
  <2>4. \A o, ws, w : Owns(t, o, ws, w) => Owns(s, o, ws, w)
    BY <2>1, <2>2, <2>3 DEF Owns
  <2> QED
    BY <2>1, <2>2, <2>3, <2>4 DEF Sound, GoodPointers, Remembered
<1>7. Calm(t, [t EXCEPT !.crashed = b])
  BY <1>4, <1>5, <1>6, CalmFields
<1> HIDE DEF t
<1> QED
  BY <1>1, <1>5, <1>7, CalmChain

\* arrange_windows of one output is calm, also of a null one.
LEMMA CalmArrangeOutput ==
    ASSUME NEW s \in ServerState, NEW o, Sound(s) => o \in Live(s) \cup {NoOutput}
    PROVE  Calm(s, ArrangeOutput(s, o))
<1>1. CASE o = NoOutput
  BY <1>1, CalmSame DEF ArrangeOutput
<1>2. CASE o # NoOutput /\ o \notin Live(s)
  BY <1>2, CalmCrash DEF ArrangeOutput
<1>3. CASE o # NoOutput /\ o \in Live(s)
  BY <1>3, CalmArrange DEF ArrangeOutput
<1> QED
  BY <1>1, <1>2, <1>3

\* focus_toplevel is calm: the output it focuses is one of the list.
LEMMA CalmFocusToplevel ==
    ASSUME NEW s \in ServerState, NEW w \in Window \cup {NoWindow},
           Sound(s) => w \in Linked(s) \cup {NoWindow}
    PROVE  Calm(s, FocusToplevel(s, w))
<1> DEFINE o == s.win[w].output
           ws == s.win[w].workspace
           t == [s EXCEPT !.kb_focus = w]
           u == [t EXCEPT !.focused_output = o, !.out[o].last_focused[ws] = w]
<1>1. CASE w = NoWindow \/ s.crashed \/ s.kb_focus = w
  BY <1>1, CalmSame, CalmCrash, NullAssumption DEF FocusToplevel, Linked
<1>2. CASE w # NoWindow /\ s.win[w].life = "free"
  <2>1. ~Sound(s)
    BY <1>2 DEF Linked
  <2> QED
    BY <1>2, <2>1, CalmSame, CalmCrash DEF FocusToplevel
<1>3. CASE ~(w = NoWindow \/ s.crashed \/ s.win[w].life = "free" \/ s.kb_focus = w)
  <2>1. w \in Window /\ o \in Output \cup {NoOutput} /\ ws \in WS
    BY <1>3 DEF ServerState, Toplevel
  <2>2. Calm(s, t) /\ t \in ServerState /\ Live(t) = Live(s)
    BY CalmFields, CalmKeeps
  <2>3. FocusToplevel(s, w) =
            IF o = NoOutput THEN t
            ELSE IF o \notin Live(s) THEN Crash(t)
            ELSE IF \/ s.out[o].layout_mode[ws] \in {"tabbed", "scroll"}
                    \/ Overviewed(s, o)
                 THEN ArrangeOutput(u, o) ELSE u
    BY <1>3, Zenon DEF FocusToplevel
  <2>4. /\ t.win = s.win /\ t.out = s.out /\ Linked(t) = Linked(s)
        /\ t.focused_output = s.focused_output /\ Sound(t) = Sound(s)
    <3>1. /\ t.win = s.win /\ t.out = s.out /\ t.outputs = s.outputs
          /\ t.focused_output = s.focused_output
      BY DEF ServerState
    <3>2. Linked(t) = Linked(s) /\ Live(t) = Live(s)
      BY <3>1 DEF Linked, Live
    <3>3. \A p, v, x : Owns(t, p, v, x) = Owns(s, p, v, x)
      BY <3>1, <3>2 DEF Owns
    <3>4. Remembered(t) <=> Remembered(s)
      BY <3>1, <3>2, <3>3, Zenon DEF Remembered
    <3>5. GoodPointers(t) <=> GoodPointers(s)
      BY <3>1, <3>2, Zenon DEF GoodPointers
    <3> QED
      BY <3>1, <3>2, <3>4, <3>5 DEF Sound
  <2>5. Sound(t) => w \in Linked(t) /\ (o # NoOutput => o \in Live(t))
    BY <1>3, <2>2, <2>4 DEF Sound, GoodPointers
  <2>6. o # NoOutput /\ o \notin Live(s) => Calm(t, Crash(t))
    BY <2>2, <2>5, CalmCrash
  <2>7. t.win[w].output = o /\ t.win[w].workspace = ws
    BY <2>4
  <2> HIDE DEF t, o, ws
  <2>8. ASSUME o \in Live(s)
        PROVE  Calm(s, u)
    <3> DEFINE h == [t.out EXCEPT ![o].last_focused[ws] = w]
               g == [t EXCEPT !.out = h]
    <3>1. o \in Output
      BY <2>8, ListedWindows
    <3>2. u = [g EXCEPT !.focused_output = o]
      BY <2>2 DEF ServerState
    <3>3. t.out[o] \in OutputState /\ t.out \in [Output -> OutputState]
      BY <2>2, <3>1 DEF ServerState
    <3>4. [t.out[o] EXCEPT !.last_focused[ws] = w] \in OutputState
      BY <2>1, <3>3 DEF OutputState
    <3>5. h \in [Output -> OutputState]
      BY <3>1, <3>3, <3>4
    <3>6. \A p \in Output, ws2 \in WS :
             \/ h[p].last_focused[ws2] = t.out[p].last_focused[ws2]
             \/ p = o /\ ws2 = ws /\ h[p].last_focused[ws2] = w
      BY <2>1, <3>1, <3>3 DEF OutputState
    <3> HIDE DEF h, u
    <3>7. Sound(t) => \A p \in Live(t), ws2 \in WS :
                          \/ h[p].last_focused[ws2] = t.out[p].last_focused[ws2]
                          \/ Owns(t, p, ws2, h[p].last_focused[ws2])
      BY <2>2, <2>5, <2>7, <3>6, ListedWindows DEF Owns
    <3>8. Calm(t, g) /\ g \in ServerState /\ Live(g) = Live(s)
      BY <2>2, <3>5, <3>7, CalmOut, CalmKeeps
    <3> HIDE DEF g
    <3>9. Calm(g, u)
      BY <2>8, <3>2, <3>8, CalmFields
    <3> QED
      BY <2>2, <3>8, <3>9, CalmChain
  <2> HIDE DEF u
  <2>9. o \in Live(s) => Calm(s, ArrangeOutput(u, o))
    <3>1. o \in Live(s) => Calm(u, ArrangeOutput(u, o))
      BY <2>8, CalmArrangeOutput, CalmKeeps
    <3> QED
      BY <2>8, <3>1, CalmChain
  <2>10. o # NoOutput /\ o \notin Live(s) => Calm(s, Crash(t))
    BY <2>2, <2>6, CalmChain
  <2> QED
    BY <2>2, <2>3, <2>8, <2>9, <2>10
<1> QED
  BY <1>1, <1>2, <1>3

\* Focusing a window, or none, is calm.
LEMMA CalmFocusOrClear ==
    ASSUME NEW s \in ServerState, NEW w \in Window \cup {NoWindow},
           Sound(s) => w \in Linked(s) \cup {NoWindow}
    PROVE  Calm(s, FocusOrClear(s, w))
BY CalmFields, CalmFocusToplevel DEF FocusOrClear, ClearFocus

\* What a fallback of the focus chooses from: a remembered window and a walk.
LEMMA FoundWindows ==
    ASSUME NEW s \in ServerState, NEW S, NEW w
    PROVE  /\ FirstIn(s, S) \in Window \cup {NoWindow}
           /\ LastIn(s, S) \in Window \cup {NoWindow}
           /\ NextIn(s, S, w) \in Window \cup {NoWindow}
           /\ PrevIn(s, S, w) \in Window \cup {NoWindow}
           /\ FocusedToplevel(s) \in Linked(s) \cup {NoWindow}
           /\ Linked(s) \subseteq Window
           /\ \A o \in Output, ws \in WS :
                  s.out[o].last_focused[ws] \in Window \cup {NoWindow}
<1>1. \A o \in Output, ws \in WS :
          s.out[o].last_focused[ws] \in Window \cup {NoWindow}
  BY DEF ServerState, OutputState
<1> QED
  BY <1>1, Walks, ListedWindows DEF FocusedToplevel, Linked

\* A walk among linked windows ends at one of them, or at null.
LEMMA FoundLinked ==
    ASSUME NEW s \in ServerState, NEW S, NEW w, S \subseteq Linked(s)
    PROVE  /\ FirstIn(s, S) \in Linked(s) \cup {NoWindow}
           /\ LastIn(s, S) \in Linked(s) \cup {NoWindow}
           /\ NextIn(s, S, w) \in Linked(s) \cup {NoWindow}
           /\ PrevIn(s, S, w) \in Linked(s) \cup {NoWindow}
BY Walks

\* The fallback to the remembered window of a workspace is calm.
LEMMA CalmFocusActive ==
    ASSUME NEW s \in ServerState, NEW o \in Output, Sound(s) => o \in Live(s)
    PROVE  Calm(s, FocusActive(s, o))
<1>1. s.out[o].active_workspace \in WS
  BY DEF ServerState, OutputState
<1> DEFINE last == s.out[o].last_focused[s.out[o].active_workspace]
           w == Or(last, FirstIn(s, Tiled(s, o)))
<1>2. last \in Window \cup {NoWindow} /\ FirstIn(s, Tiled(s, o)) \in Linked(s) \cup {NoWindow}
  BY <1>1, FoundWindows, FoundLinked DEF Tiled
<1>3. Sound(s) => last \in Linked(s) \cup {NoWindow}
  BY <1>1 DEF Sound, Remembered, Owns
<1>4. w \in Window \cup {NoWindow} /\ (Sound(s) => w \in Linked(s) \cup {NoWindow})
  BY <1>2, <1>3, FoundWindows DEF Or
<1> HIDE DEF w
<1>5. Calm(s, FocusOrClear(s, w))
  BY <1>4, CalmFocusOrClear
<1> QED
  BY <1>5 DEF FocusActive, w

\* Emptying last_focused is calm.
LEMMA CalmForgetFocus ==
    ASSUME NEW s \in ServerState, NEW w \in Window,
           NEW o \in Output \cup {NoOutput}
    PROVE  Calm(s, ForgetFocus(s, o, w))
<1> DEFINE ws == s.win[w].workspace
           g == [s.out EXCEPT ![o].last_focused[ws] = NoWindow]
<1>1. CASE o = NoOutput
  BY <1>1, CalmSame DEF ForgetFocus
<1>2. CASE o \in Output
  <2>1. ws \in WS
    BY DEF ServerState, Toplevel
  <2>2. s.out[o] \in OutputState /\ s.out \in [Output -> OutputState]
    BY <1>2 DEF ServerState
  <2>3. [s EXCEPT !.out[o].last_focused[ws] = NoWindow] = [s EXCEPT !.out = g]
    BY DEF ServerState
  <2> HIDE DEF ws
  <2>4. [s.out[o] EXCEPT !.last_focused[ws] = NoWindow] \in OutputState
    BY <2>1, <2>2 DEF OutputState
  <2>5. /\ g \in [Output -> OutputState]
        /\ \A p \in Output, ws2 \in WS :
              g[p].last_focused[ws2] \in {s.out[p].last_focused[ws2], NoWindow}
    BY <1>2, <2>1, <2>2, <2>4 DEF OutputState
  <2> HIDE DEF g
  <2>6. \A p \in Live(s), ws2 \in WS :
            \/ g[p].last_focused[ws2] = s.out[p].last_focused[ws2]
            \/ Owns(s, p, ws2, g[p].last_focused[ws2])
    BY <2>5, ListedWindows DEF Owns
  <2>7. Calm(s, [s EXCEPT !.out = g])
    BY <2>5, <2>6, CalmOut
  <2> QED
    BY <2>3, <2>7, CalmSame DEF ForgetFocus, ws
<1> QED
  BY <1>1, <1>2

\* What emptying last_focused leaves alone.
LEMMA ForgetFocusKeeps ==
    ASSUME NEW s \in ServerState, NEW o, NEW w
    PROVE  LET t == ForgetFocus(s, o, w)
           IN  /\ t.win = s.win /\ t.toplevels = s.toplevels
               /\ t.outputs = s.outputs /\ t.kb_focus = s.kb_focus
               /\ t.focused_output = s.focused_output
               /\ t.shown_pads = s.shown_pads /\ t.crashed = s.crashed
BY DEF ForgetFocus, ServerState

\* Then nothing remembers the window: elsewhere it never was.
Forgotten(s, w) ==
    \A o \in Live(s), ws \in WS : s.out[o].last_focused[ws] # w

\* So it is after the workspace of the window forgot it.
LEMMA FocusForgotten ==
    ASSUME NEW s \in ServerState, NEW w \in Linked(s),
           Sound(ForgetFocus(s, s.win[w].output, w))
    PROVE  Forgotten(ForgetFocus(s, s.win[w].output, w), w)
<1> DEFINE o == s.win[w].output
           ws == s.win[w].workspace
           t == ForgetFocus(s, o, w)
<1>1. w \in Window /\ w # NoWindow /\ o \in Output \cup {NoOutput} /\ ws \in WS
  BY NullAssumption DEF Linked, ServerState, Toplevel
<1>2. t.win = s.win /\ Live(t) = Live(s) /\ NoOutput \notin Live(s) /\ Live(s) \subseteq Output
  BY ForgetFocusKeeps, ListedWindows, NullAssumption DEF Live
<1>3. o # NoOutput => t.out[o].last_focused[ws] # w
  <2>1. CASE o # NoOutput /\ s.out[o].last_focused[ws] = w
    <3>1. t = [s EXCEPT !.out[o].last_focused[ws] = NoWindow]
      BY <2>1 DEF ForgetFocus
    <3>2. s.out[o] \in OutputState /\ s.out \in [Output -> OutputState] /\ o \in Output
      BY <1>1, <2>1 DEF ServerState
    <3> HIDE DEF o, ws
    <3> QED
      BY <1>1, <3>1, <3>2 DEF ServerState, OutputState
  <2>2. CASE ~(o # NoOutput /\ s.out[o].last_focused[ws] = w)
    BY <2>2 DEF ForgetFocus
  <2> QED
    BY <2>1, <2>2
<1> HIDE DEF t
<1>4. ASSUME NEW p \in Live(t), NEW v \in WS, t.out[p].last_focused[v] = w
      PROVE  p = o /\ v = ws
  <2>1. Owns(t, p, v, w)
    BY <1>4 DEF Sound, Remembered, t
  <2>2. w # NoWindow
    BY <1>1
  <2> QED
    BY <1>2, <2>1, <2>2 DEF Owns
<1> QED
  BY <1>2, <1>3, <1>4 DEF Forgotten, t

\* One window is replaced by another state of it, and nothing remembers it.
LEMMA Replaced ==
    ASSUME NEW s \in ServerState, NEW t \in ServerState, NEW w \in Window,
           \A v \in Window : v # w => t.win[v] = s.win[v],
           t.outputs = s.outputs, t.out = s.out,
           t.focused_output = s.focused_output,
           t.kb_focus \in {s.kb_focus, NoWindow}, t.crashed = s.crashed,
           Sound(s) => Forgotten(s, w)
    PROVE  /\ Shifts(s, t, {w})
           /\ Sound(s) => Remembered(t)
           /\ (t.kb_focus = w => t.win[w].life = "linked") => Settles(s, t, {w})
<1>1. \A v \in Window : v # w => SamePlace(s.win[v], t.win[v])
  BY DEF SamePlace
<1>2. Shifts(s, t, {w})
  BY <1>1 DEF Shifts
<1>3. Sound(s) => Remembered(t)
  <2> SUFFICES ASSUME Sound(s), NEW o \in Live(t), NEW ws \in WS
               PROVE  Owns(t, o, ws, t.out[o].last_focused[ws])
    BY DEF Remembered
  <2>1. o \in Live(s) /\ t.out[o].last_focused[ws] = s.out[o].last_focused[ws]
    BY DEF Live
  <2> DEFINE v == s.out[o].last_focused[ws]
  <2>2. v # w
    BY <2>1 DEF Forgotten
  <2>3. Owns(s, o, ws, v)
    BY <2>1 DEF Sound, Remembered
  <2> HIDE DEF v
  <2>4. Owns(t, o, ws, v)
    BY <2>2, <2>3 DEF Owns, Linked
  <2> QED
    BY <2>1, <2>4 DEF v
<1>4. ASSUME t.kb_focus = w => t.win[w].life = "linked", OnKeyboard(s)
      PROVE  OnKeyboard(t)
  BY <1>4, NullAssumption DEF OnKeyboard, Linked
<1> QED
  BY <1>2, <1>3, <1>4 DEF Settles, Careful

\* The pointer focuses an output that is in the list, so it is calm.
LEMMA CalmPointerRefresh ==
    ASSUME NEW s \in ServerState, NEW at \in Live(s) \cup {NoOutput}
    PROVE  Calm(s, PointerRefresh(s, at))
BY CalmSame, CalmFields DEF PointerRefresh

============================================================================
