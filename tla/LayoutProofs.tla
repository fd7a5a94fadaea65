---------------------------- MODULE LayoutProofs ----------------------------
(***************************************************************************)
(* The rectangles of the layouts, proved right for every screen, gap and   *)
(* ratio, and every number of windows that has room.                       *)
(***************************************************************************)
EXTENDS Layouts, FiniteSetTheorems, WellFoundedInduction, TLAPS

----------------------------------------------------------------------------
(* Facts about numbers *)

\* A set of natural numbers has a least one.
LEMMA LeastNatural ==
    ASSUME NEW I \in SUBSET Nat, I # {}
    PROVE  \E i \in I : \A j \in I : i <= j
<1> DEFINE R == OpToRel(<, Nat)
<1>1. IsWellFoundedOn(R, Nat)
  BY NatLessThanWellFounded
<1>2. \A x, y \in Nat : <<y, x>> \in R <=> y < x
  BY DEF OpToRel
<1> HIDE DEF R
<1>3. PICK x \in I : \A y \in I : ~(<<y, x>> \in R)
  BY <1>1, WFMin
<1>4. x \in Nat /\ \A y \in I : y \in Nat /\ ~(y < x)
  BY <1>2, <1>3
<1> QED
  BY <1>4

\* Products of natural numbers are natural numbers, and grow with each factor.
LEMMA Products ==
    ASSUME NEW a \in Nat, NEW b \in Nat, a <= b, NEW c \in Nat
    PROVE  a * c \in Nat /\ b * c \in Nat /\ a * c <= b * c
<1>1. b * c = a * c + (b - a) * c
  OBVIOUS
<1>2. (b - a) * c >= 0 /\ a * c >= 0
  OBVIOUS
<1>3. a * c \in Int /\ b * c \in Int /\ (b - a) * c \in Int
  OBVIOUS
<1> QED
  BY <1>1, <1>2, <1>3

\* A quotient is a natural number that many times fits.
LEMMA Quotients ==
    ASSUME NEW a \in Nat, NEW b \in Nat \ {0}
    PROVE  /\ a \div b \in Nat /\ b * (a \div b) <= a
           /\ b <= a => a \div b >= 1
<1> DEFINE q == a \div b
<1>1. /\ q \in Int /\ b * q <= a /\ a < b * (q + 1)
  OBVIOUS
<1> HIDE DEF q
<1>2. q >= 0
  <2> SUFFICES ASSUME q < 0
               PROVE  FALSE
    BY <1>1
  <2>1. -(q + 1) \in Nat
    BY <1>1
  <2>2. b * (-(q + 1)) >= 0
    BY <2>1
  <2>3. b * (q + 1) = -(b * (-(q + 1)))
    BY <1>1
  <2> QED
    BY <1>1, <2>2, <2>3
<1>3. b <= a => q >= 1
  <2> SUFFICES ASSUME b <= a, q = 0
               PROVE  FALSE
    BY <1>1, <1>2
  <2> QED
    BY <1>1
<1> QED
  BY <1>1, <1>2, <1>3 DEF q

\* Of m intervals of length p, the last one of which has no end, a number is in one.
LEMMA RowOf ==
    ASSUME NEW m \in Nat \ {0}, NEW p \in Nat, NEW y \in Nat
    PROVE  \E k \in 1 .. m :
              /\ (k - 1) * p <= y /\ (k < m => y < k * p)
              /\ \A j \in 1 .. m : (j - 1) * p <= y /\ (j < m => y < j * p) => j = k
<1> DEFINE K == {k \in 1 .. m : k = m \/ y < k * p}
<1>1. PICK k \in K : \A j \in K : k <= j
  <2>1. K \in SUBSET Nat /\ m \in K
    OBVIOUS
  <2> HIDE DEF K
  <2> QED
    BY <2>1, LeastNatural
<1>2. k \in 1 .. m /\ (k < m => y < k * p)
  BY <1>1
<1>3. (k - 1) * p <= y
  <2>1. CASE k = 1
    BY <2>1
  <2>2. CASE k # 1
    <3>1. k - 1 \in 1 .. m /\ k - 1 \notin K
      BY <1>1, <1>2, <2>2
    <3>2. ~(y < (k - 1) * p)
      BY <3>1
    <3>3. (k - 1) * p \in Int
      BY <1>2
    <3> QED
      BY <3>2, <3>3
  <2> QED
    BY <2>1, <2>2
<1>4. ASSUME NEW i \in 1 .. m, NEW j \in 1 .. m, i < j, i < m => y < i * p
      PROVE  ~((j - 1) * p <= y)
  <2>1. i \in Nat /\ j - 1 \in Nat /\ i <= j - 1 /\ i < m
    BY <1>4
  <2>2. i * p <= (j - 1) * p /\ i * p \in Nat /\ (j - 1) * p \in Nat
    BY <2>1, Products
  <2> QED
    BY <1>4, <2>1, <2>2
<1>5. ASSUME NEW j \in 1 .. m, (j - 1) * p <= y, j < m => y < j * p
      PROVE  j = k
  <2>1. ~(k < j)
    BY <1>2, <1>4, <1>5
  <2>2. ~(j < k)
    BY <1>2, <1>3, <1>4, <1>5
  <2> QED
    BY <1>2, <2>1, <2>2
<1> QED
  BY <1>2, <1>3, <1>5

----------------------------------------------------------------------------
(* Tiles *)

Sized(b) == b.x \in Int /\ b.y \in Int /\ b.w \in Int /\ b.h \in Int

\* Every one of n windows gets a pixel, in one direction or the other, of the master
\* and of the stack.
Fits(size, gap, n, ratio) ==
    /\ size > 0
    /\ n > 1 => LET master == (size * ratio) \div 100
                IN  0 < master /\ master + gap < size /\ (n - 2) * gap + (n - 1) <= size
FitsBoth(box, gap, n, ratio) == Fits(box.w, gap, n, ratio) /\ Fits(box.h, gap, n, ratio)

Grown(b, gap) == [b EXCEPT !.w = @ + gap, !.h = @ + gap]

\* A pixel is in a rectangle that grows by the gap.
LEMMA HoldsGrown ==
    ASSUME NEW x, NEW y, NEW w, NEW h, NEW gap, NEW cell
    PROVE  Holds(Grown(Box(x, y, w, h), gap), cell) <=>
               /\ x <= cell[1] /\ cell[1] < x + (w + gap)
               /\ y <= cell[2] /\ cell[2] < y + (h + gap)
  BY DEF Holds, Grown, Box

\* The pixels of a box.
LEMMA CellsOf ==
    ASSUME NEW box, Sized(box), NEW cell \in Cells(box)
    PROVE  /\ cell[1] \in Int /\ box.x <= cell[1] /\ cell[1] < box.x + box.w
           /\ cell[2] \in Int /\ box.y <= cell[2] /\ cell[2] < box.y + box.h
           /\ cell = <<cell[1], cell[2]>>
<1>1. PICK a \in box.x .. box.x + box.w - 1, b \in box.y .. box.y + box.h - 1 :
          cell = <<a, b>>
  BY DEF Cells
<1> QED
  BY <1>1 DEF Sized

\* Frames partition a box if each is inside and each pixel is in exactly one.
LEMMA PartitionOne ==
    ASSUME NEW frames, NEW gap, NEW box,
           \A i \in DOMAIN frames :
               Within(frames[i], box) /\ frames[i].w > 0 /\ frames[i].h >= 0,
           \A cell \in Cells(box) : \E i \in DOMAIN frames :
               \A j \in DOMAIN frames : Holds(Grown(frames[j], gap), cell) <=> j = i
    PROVE  Partition(frames, gap, box)
<1>1. ASSUME NEW cell \in Cells(box)
      PROVE  Cardinality({ i \in DOMAIN frames :
                 Holds([frames[i] EXCEPT !.w = @ + gap, !.h = @ + gap], cell) }) = 1
  <2>1. PICK i \in DOMAIN frames :
            \A j \in DOMAIN frames : Holds(Grown(frames[j], gap), cell) <=> j = i
    OBVIOUS
  <2>2. { j \in DOMAIN frames :
            Holds([frames[j] EXCEPT !.w = @ + gap, !.h = @ + gap], cell) } = {i}
    BY <2>1 DEF Grown
  <2> QED
    BY <2>2, FS_Singleton
<1> QED
  BY <1>1 DEF Partition

\* The sizes of a stack of m windows, one below the other.
LEMMA StackSizes ==
    ASSUME NEW size \in Nat, NEW gap \in Nat, NEW m \in Nat \ {0}, (m - 1) * gap + m <= size
    PROVE  LET each == (size - (m - 1) * gap) \div m
           IN  /\ each \in Nat /\ each >= 1
               /\ \A k \in 1 .. m :
                     /\ (k - 1) * (each + gap) \in Nat
                     /\ (k - 1) * (each + gap) + each <= size
<1> DEFINE each == (size - (m - 1) * gap) \div m
           rest == size - (m - 1) * gap
<1>1. (m - 1) * gap \in Nat
  BY Products
<1>2. rest \in Nat /\ m <= rest
  BY <1>1
<1> HIDE DEF rest
<1>3. rest \div m \in Nat /\ m * (rest \div m) <= rest /\ rest \div m >= 1
  BY <1>2, Quotients
<1>4. each \in Nat /\ m * each <= rest /\ each >= 1
  BY <1>3 DEF rest
<1>5. m * each + (m - 1) * gap <= size
  BY <1>1, <1>4 DEF rest
<1> HIDE DEF each
<1>6. ASSUME NEW k \in 1 .. m
      PROVE  /\ (k - 1) * (each + gap) \in Nat
             /\ (k - 1) * (each + gap) + each <= size
  <2>1. k - 1 \in Nat /\ m - 1 \in Nat /\ k - 1 <= m - 1 /\ each + gap \in Nat
    BY <1>4
  <2>2. (k - 1) * (each + gap) \in Nat /\ (k - 1) * (each + gap) <= (m - 1) * (each + gap)
    BY <2>1, Products
  <2>3. (m - 1) * (each + gap) + each = m * each + (m - 1) * gap
    BY <1>4
  <2>4. (m - 1) * (each + gap) \in Int
    BY <1>4
  <2> QED
    BY <1>4, <1>5, <2>2, <2>3, <2>4
<1> QED
  BY <1>4, <1>6 DEF each

\* A division of a box in n frames, as Partition wants it, and no frame is empty.
Divided(F, n, gap, box) ==
    /\ DOMAIN F = 1 .. n
    /\ \A i \in 1 .. n : F[i] \in Rect /\ Within(F[i], box) /\ F[i].w > 0 /\ F[i].h > 0
    /\ \A cell \in Cells(box) : \E i \in 1 .. n :
          \A j \in 1 .. n : Holds(Grown(F[j], gap), cell) <=> j = i

\* A lone window has the box to itself.
LEMMA LoneTile ==
    ASSUME NEW box, box \in Rect, box.w > 0, box.h > 0, NEW gap \in Nat, NEW F, F = [i \in 1 .. 1 |-> box]
    PROVE  Divided(F, 1, gap, box)
<1>1. Sized(box) /\ box = Box(box.x, box.y, box.w, box.h)
  BY DEF Rect, Sized, Box
<1>2. ASSUME NEW cell \in Cells(box)
      PROVE  Holds(Grown(box, gap), cell)
  <2>1. /\ cell[1] \in Int /\ box.x <= cell[1] /\ cell[1] < box.x + box.w
        /\ cell[2] \in Int /\ box.y <= cell[2] /\ cell[2] < box.y + box.h
    BY <1>1, CellsOf
  <2>2. Holds(Grown(Box(box.x, box.y, box.w, box.h), gap), cell) <=>
               /\ box.x <= cell[1] /\ cell[1] < box.x + (box.w + gap)
               /\ box.y <= cell[2] /\ cell[2] < box.y + (box.h + gap)
    BY HoldsGrown
  <2>3. cell[1] < box.x + (box.w + gap) /\ cell[2] < box.y + (box.h + gap)
    BY <1>1, <2>1 DEF Sized
  <2> QED
    BY <1>1, <2>1, <2>2, <2>3
<1>3. Within(box, box)
  BY <1>1 DEF Within, Sized
<1> QED
  BY <1>2, <1>3 DEF Divided

\* A master and a stack of windows divide the box.
LEMMA HTileDivides ==
    ASSUME NEW box, box \in Rect, NEW gap \in Nat, NEW n \in Nat \ {0}, NEW ratio \in Int,
           FitsBoth(box, gap, n, ratio)
    PROVE  Divided(HTile(box, gap, n, ratio), n, gap, box)
<1> DEFINE master == (box.w * ratio) \div 100
           each == (box.h - (n - 2) * gap) \div (n - 1)
           top(i) == (i - 2) * (each + gap)
           rest == box.w - (master + gap)
           F == HTile(box, gap, n, ratio)
<1>1. Sized(box) /\ box.w > 0 /\ box.h > 0
  BY DEF Rect, Sized, FitsBoth, Fits
<1>2. CASE n = 1
  <2>1. F = [i \in 1 .. 1 |-> box]
    BY <1>2 DEF HTile
  <2> QED
    BY <1>1, <1>2, <2>1, LoneTile
<1>3. CASE n # 1
  <2>1. n > 1
    BY <1>3
  <2>2. F = [i \in 1 .. n |->
               IF i = 1 THEN Box(box.x, box.y, master, box.h)
               ELSE Box(box.x + master + gap, box.y + top(i), rest,
                        IF i < n THEN each ELSE box.h - top(i))]
    BY <1>3 DEF HTile
  <2>3. 0 < master /\ master + gap < box.w
    BY <2>1 DEF FitsBoth, Fits
  <2>4. master \in Int
    BY <1>1 DEF Sized
  <2>5. (n - 2) * gap + (n - 1) <= box.h
    BY <2>1 DEF FitsBoth, Fits
  <2> HIDE DEF master
  <2>6. /\ each \in Nat /\ each >= 1
        /\ \A k \in 1 .. n - 1 :
              /\ (k - 1) * (each + gap) \in Nat
              /\ (k - 1) * (each + gap) + each <= box.h
    <3>1. \A m \in Nat \ {0} : m = n - 1 =>
             /\ each \in Nat /\ each >= 1
             /\ \A k \in 1 .. m :
                   /\ (k - 1) * (each + gap) \in Nat
                   /\ (k - 1) * (each + gap) + each <= box.h
      <4> SUFFICES ASSUME NEW m \in Nat \ {0}, m = n - 1
                   PROVE  /\ each \in Nat /\ each >= 1
                          /\ \A k \in 1 .. m :
                                /\ (k - 1) * (each + gap) \in Nat
                                /\ (k - 1) * (each + gap) + each <= box.h
        OBVIOUS
      <4>1. m - 1 = n - 2 /\ box.h \in Nat
        BY <1>1 DEF Sized
      <4>2. (m - 1) * gap + m <= box.h
        BY <2>5, <4>1
      <4>3. each = (box.h - (m - 1) * gap) \div m
        BY <4>1
      <4> HIDE DEF each
      <4> QED
        BY <4>1, <4>2, <4>3, StackSizes
    <3> HIDE DEF each
    <3>2. n - 1 \in Nat \ {0}
      BY <2>1
    <3> QED
      BY <3>1, <3>2
  <2> HIDE DEF each
  <2>7. ASSUME NEW i \in 2 .. n
        PROVE  top(i) \in Nat /\ top(i) + each <= box.h
    <3>1. i - 1 \in 1 .. n - 1 /\ (i - 1) - 1 = i - 2
      BY <2>1
    <3> QED
      BY <2>6, <3>1
  <2>8. \A i \in 1 .. n : i = 1 \/ i \in 2 .. n
    BY <2>1
  <2>9. ASSUME NEW i \in 1 .. n
        PROVE  F[i] \in Rect /\ Within(F[i], box) /\ F[i].w > 0 /\ F[i].h > 0
    <3>1. CASE i = 1
      <4>1. F[i] = Box(box.x, box.y, master, box.h)
        BY <2>2, <3>1
      <4> HIDE DEF F
      <4> QED
        BY <1>1, <2>3, <2>4, <4>1 DEF Box, Rect, Within, Sized
    <3>2. CASE i # 1
      <4> DEFINE high == IF i < n THEN each ELSE box.h - top(i)
      <4>1. F[i] = Box(box.x + master + gap, box.y + top(i), rest, high)
        BY <2>2, <3>2
      <4>2. i \in 2 .. n
        BY <2>8, <3>2
      <4>3. top(i) \in Nat /\ top(i) + each <= box.h
        BY <2>7, <4>2
      <4> HIDE DEF F, top
      <4>4. high \in Int /\ high > 0 /\ top(i) + high <= box.h
        BY <1>1, <2>6, <4>3 DEF Sized
      <4>5. rest \in Int /\ rest > 0 /\ (box.x + master + gap) + rest = box.x + box.w
        BY <1>1, <2>3, <2>4 DEF Sized
      <4> HIDE DEF high, rest
      <4> QED
        BY <1>1, <2>3, <2>4, <4>1, <4>3, <4>4, <4>5 DEF Box, Rect, Within, Sized
    <3> QED
      BY <3>1, <3>2
  <2>10. ASSUME NEW cell \in Cells(box)
         PROVE  \E i \in 1 .. n : \A j \in 1 .. n : Holds(Grown(F[j], gap), cell) <=> j = i
    <3>1. /\ cell[1] \in Int /\ box.x <= cell[1] /\ cell[1] < box.x + box.w
          /\ cell[2] \in Int /\ box.y <= cell[2] /\ cell[2] < box.y + box.h
      BY <1>1, CellsOf
    <3> DEFINE y == cell[2] - box.y
               left == cell[1] < box.x + (master + gap)
    <3>2. y \in Nat /\ y < box.h
      BY <1>1, <3>1 DEF Sized
    <3>3. Holds(Grown(F[1], gap), cell) <=> left
      <4>1. F[1] = Box(box.x, box.y, master, box.h)
        BY <2>1, <2>2
      <4> HIDE DEF F
      <4>2. Holds(Grown(F[1], gap), cell) <=>
               /\ box.x <= cell[1] /\ cell[1] < box.x + (master + gap)
               /\ box.y <= cell[2] /\ cell[2] < box.y + (box.h + gap)
        BY <4>1, HoldsGrown
      <4>3. cell[2] < box.y + (box.h + gap)
        BY <1>1, <3>1 DEF Sized
      <4> QED
        BY <3>1, <4>2, <4>3
    <3>4. ASSUME NEW k \in 1 .. n - 1
          PROVE  Holds(Grown(F[k + 1], gap), cell) <=>
                    /\ ~left
                    /\ (k - 1) * (each + gap) <= y
                    /\ k < n - 1 => y < k * (each + gap)
      <4> DEFINE i == k + 1
                 high == IF i < n THEN each ELSE box.h - top(i)
      <4>1. i \in 2 .. n /\ i \in 1 .. n /\ i # 1 /\ i - 2 = k - 1 /\ (i < n <=> k < n - 1)
        BY <2>1
      <4>2. F[i] = Box(box.x + master + gap, box.y + top(i), rest, high)
        BY <2>2, <4>1
      <4>3. top(i) = (k - 1) * (each + gap)
        BY <4>1
      <4>4. top(i) \in Nat /\ top(i) + each <= box.h
        BY <2>7, <4>1
      <4>5. k * (each + gap) = top(i) + (each + gap)
        BY <2>6, <4>3
      <4> HIDE DEF i, top, F
      <4>6. Holds(Grown(F[i], gap), cell) <=>
               /\ box.x + master + gap <= cell[1]
               /\ cell[1] < box.x + master + gap + (rest + gap)
               /\ box.y + top(i) <= cell[2] /\ cell[2] < box.y + top(i) + (high + gap)
        BY <4>2, HoldsGrown
      <4>7. /\ box.x + master + gap <= cell[1] <=> ~left
            /\ cell[1] < box.x + master + gap + (rest + gap)
        BY <1>1, <2>3, <2>4, <3>1 DEF Sized
      <4>8. /\ box.y + top(i) <= cell[2] <=> top(i) <= y
            /\ cell[2] < box.y + top(i) + (high + gap) <=> y < top(i) + (high + gap)
        BY <1>1, <2>6, <3>1, <4>4 DEF Sized
      <4>9. CASE i < n
        <5>1. high = each
          BY <4>9
        <5> QED
          BY <4>1, <4>3, <4>5, <4>6, <4>7, <4>8, <4>9, <5>1 DEF i
      <4>10. CASE ~(i < n)
        <5>1. y < top(i) + (high + gap)
          BY <1>1, <3>2, <4>4, <4>10 DEF Sized
        <5> QED
          BY <4>1, <4>3, <4>6, <4>7, <4>8, <4>10, <5>1 DEF i
      <4> QED
        BY <4>9, <4>10
    <3>5. PICK k \in 1 .. n - 1 :
              /\ (k - 1) * (each + gap) <= y /\ (k < n - 1 => y < k * (each + gap))
              /\ \A j \in 1 .. n - 1 :
                    (j - 1) * (each + gap) <= y /\ (j < n - 1 => y < j * (each + gap)) => j = k
      <4>1. n - 1 \in Nat \ {0} /\ each + gap \in Nat
        BY <2>1, <2>6
      <4> QED
        BY <3>2, <4>1, RowOf
    <3> HIDE DEF F, y, left
    <3>6. \A j \in 1 .. n : j = 1 \/ \E i \in 1 .. n - 1 : j = i + 1
      <4> SUFFICES ASSUME NEW j \in 1 .. n, j # 1
                   PROVE  \E i \in 1 .. n - 1 : j = i + 1
        OBVIOUS
      <4>1. j - 1 \in 1 .. n - 1 /\ j = (j - 1) + 1
        OBVIOUS
      <4> QED
        BY <4>1
    <3>7. CASE left
      <4>1. \A j \in 1 .. n : Holds(Grown(F[j], gap), cell) <=> j = 1
        BY <3>3, <3>4, <3>6, <3>7
      <4>2. 1 \in 1 .. n
        OBVIOUS
      <4> QED
        BY <4>1, <4>2
    <3>8. CASE ~left
      <4>1. \A i \in 1 .. n - 1 : Holds(Grown(F[i + 1], gap), cell) <=> i = k
        BY <3>4, <3>5, <3>8
      <4>2. k + 1 \in 1 .. n /\ k + 1 # 1 /\ \A i \in 1 .. n - 1 : i + 1 = k + 1 <=> i = k
        BY <2>1
      <4>3. \A j \in 1 .. n : Holds(Grown(F[j], gap), cell) <=> j = k + 1
        BY <3>3, <3>6, <3>8, <4>1, <4>2
      <4> QED
        BY <4>2, <4>3
    <3> QED
      BY <3>7, <3>8
  <2>11. DOMAIN F = 1 .. n
    BY <2>2
  <2> HIDE DEF F
  <2> QED
    BY <2>9, <2>10, <2>11 DEF Divided, F
<1> QED
  BY <1>2, <1>3

\* A box turned over its diagonal.
LEMMA TurnedBoxes ==
    ASSUME NEW b \in Rect, NEW c \in Rect
    PROVE  /\ Turned(b) \in Rect /\ Turned(b).w = b.h /\ Turned(b).h = b.w
           /\ Within(Turned(b), c) <=> Within(b, Turned(c))
<1>1. Turned(b) = [x |-> b.y, y |-> b.x, w |-> b.h, h |-> b.w]
  BY DEF Turned, Box
<1>2. Turned(c) = [x |-> c.y, y |-> c.x, w |-> c.h, h |-> c.w]
  BY DEF Turned, Box
<1>3. Turned(b) \in Rect /\ Turned(b).w = b.h /\ Turned(b).h = b.w
  BY <1>1 DEF Rect
<1>4. Within(Turned(b), c) <=> Within(b, Turned(c))
  BY <1>1, <1>2 DEF Within
<1> QED
  BY <1>3, <1>4

\* The pixels in it are turned as well.
LEMMA TurnedHolds ==
    ASSUME NEW b \in Rect, NEW gap, NEW cell, NEW flip, flip = <<cell[2], cell[1]>>
    PROVE  Holds(Grown(Turned(b), gap), cell) <=> Holds(Grown(b, gap), flip)
<1>1. Turned(b) = [x |-> b.y, y |-> b.x, w |-> b.h, h |-> b.w]
  BY DEF Turned, Box
<1>2. /\ Grown(b, gap).x = b.x /\ Grown(b, gap).y = b.y
      /\ Grown(b, gap).w = b.w + gap /\ Grown(b, gap).h = b.h + gap
  BY DEF Grown, Rect
<1>3. LET t == Grown(Turned(b), gap)
      IN  t.x = b.y /\ t.y = b.x /\ t.w = b.h + gap /\ t.h = b.w + gap
  BY <1>1 DEF Grown
<1>4. flip[1] = cell[2] /\ flip[2] = cell[1]
  OBVIOUS
<1> QED
  BY <1>2, <1>3, <1>4 DEF Holds

\* So do a master on top and a row.
LEMMA VTileDivides ==
    ASSUME NEW box, box \in Rect, NEW gap \in Nat, NEW n \in Nat \ {0}, NEW ratio \in Int,
           FitsBoth(box, gap, n, ratio)
    PROVE  Divided(VTile(box, gap, n, ratio), n, gap, box)
<1> DEFINE turn == Turned(box)
           G == HTile(turn, gap, n, ratio)
           F == VTile(box, gap, n, ratio)
<1>1. turn \in Rect /\ turn.w = box.h /\ turn.h = box.w
  BY TurnedBoxes
<1>2. Divided(G, n, gap, turn)
  <2>1. FitsBoth(turn, gap, n, ratio)
    BY <1>1 DEF FitsBoth
  <2> HIDE DEF turn
  <2> QED
    BY <1>1, <2>1, HTileDivides
<1>3. F = [i \in 1 .. n |-> Turned(G[i])]
  BY DEF VTile
<1> HIDE DEF F, G
<1>4. ASSUME NEW i \in 1 .. n
      PROVE  F[i] \in Rect /\ Within(F[i], box) /\ F[i].w > 0 /\ F[i].h > 0
  <2>1. G[i] \in Rect /\ Within(G[i], turn) /\ G[i].w > 0 /\ G[i].h > 0
    BY <1>2 DEF Divided
  <2>2. F[i] = Turned(G[i])
    BY <1>3
  <2> QED
    BY <2>1, <2>2, TurnedBoxes
<1>5. ASSUME NEW cell \in Cells(box)
      PROVE  \E i \in 1 .. n : \A j \in 1 .. n : Holds(Grown(F[j], gap), cell) <=> j = i
  <2> DEFINE flip == <<cell[2], cell[1]>>
  <2>1. flip \in Cells(turn)
    <3>1. PICK a \in box.x .. box.x + box.w - 1, b \in box.y .. box.y + box.h - 1 :
             cell = <<a, b>>
      BY DEF Cells
    <3>2. flip = <<b, a>>
      BY <3>1
    <3>3. turn.x = box.y /\ turn.y = box.x
      BY DEF Turned, Box
    <3> HIDE DEF turn
    <3> QED
      BY <1>1, <3>2, <3>3 DEF Cells
  <2>2. PICK i \in 1 .. n : \A j \in 1 .. n : Holds(Grown(G[j], gap), flip) <=> j = i
    BY <1>2, <2>1 DEF Divided
  <2>3. ASSUME NEW j \in 1 .. n
        PROVE  Holds(Grown(F[j], gap), cell) <=> Holds(Grown(G[j], gap), flip)
    <3>1. G[j] \in Rect /\ F[j] = Turned(G[j])
      BY <1>2, <1>3 DEF Divided
    <3> HIDE DEF flip
    <3>2. flip = <<cell[2], cell[1]>>
      BY DEF flip
    <3> QED
      BY <3>1, <3>2, TurnedHolds
  <2> QED
    BY <2>2, <2>3
<1>6. DOMAIN F = 1 .. n
  BY <1>3
<1> QED
  BY <1>4, <1>5, <1>6 DEF Divided, F

\* What is divided is partitioned.
LEMMA DividedParts ==
    ASSUME NEW F, NEW n, NEW gap, NEW box, Divided(F, n, gap, box)
    PROVE  Partition(F, gap, box)
<1>1. \A i \in DOMAIN F : Within(F[i], box) /\ F[i].w > 0 /\ F[i].h >= 0
  BY DEF Divided, Rect
<1>2. \A cell \in Cells(box) : \E i \in DOMAIN F :
         \A j \in DOMAIN F : Holds(Grown(F[j], gap), cell) <=> j = i
  BY DEF Divided
<1> QED
  BY <1>1, <1>2, PartitionOne

----------------------------------------------------------------------------
(* The workspace *)

\* A desk with its fields, whatever the rectangles are.
Shape(d) ==
    d = [setup |-> d.setup, layout |-> d.layout, ratio |-> d.ratio, tiles |-> d.tiles,
         front |-> d.front, maximize |-> d.maximize, frame |-> d.frame,
         tab_bar |-> d.tab_bar, padded |-> d.padded, pad_layout |-> d.pad_layout,
         pad_frame |-> d.pad_frame]
DeskType(d) ==
    /\ Shape(d)
    /\ d.setup \in Setup /\ d.ratio \in Ratio
    /\ d.layout \in {"htile", "vtile", "tabbed", "hscroll", "vscroll"}
    /\ d.tiles \in 0 .. MaxTiles /\ d.front \in 0 .. d.tiles /\ d.maximize \in SUBSET Int
    /\ d.padded \in 0 .. MaxTiles /\ d.pad_layout \in {"htile", "vtile"}

\* The rectangles are those of the last arrangement, which for a scratchpad may have
\* been made with another ratio.
DeskInv(d) ==
    /\ DeskType(d)
    /\ d.frame = FramesOf(d) /\ d.tab_bar = TabBarOf(d)
    /\ d.padded > 0 => \E r \in Ratio : d.pad_frame = PadFrames(d, r)

LayoutSpec == LayoutInit /\ [][LayoutNext]_desk

\* Every window has room in every layout, and so has a tab bar.
Roomy ==
    \A s \in Setup, n \in 1 .. MaxTiles :
        LET inner == Gap(s, n, s.inner)
            outer == Gap(s, n, s.outer)
            box   == Shrunk(s.area, outer)
        IN  /\ inner >= 0
            /\ \A r \in Ratio : /\ FitsBoth(box, inner, n, r)
                                /\ FitsBoth(Shrunk(s.screen, outer), inner, n, r)
            /\ s.tab_bar >= 0
            /\ s.tab_bar < IF s.tabs \in {"left", "right"} THEN box.w ELSE box.h

\* Gaps are not negative and columns not wider than the screen.
Strips ==
    \A s \in Setup : s.inner >= 0 /\ s.outer >= 0 /\ s.area.w >= 0 /\ s.column \in 0 .. 100

\* A desk whose rectangles change,
LEMMA ArrangedDesk ==
    ASSUME NEW d, Shape(d), NEW a, NEW b
    PROVE  [d EXCEPT !.frame = a, !.tab_bar = b] =
           [setup |-> d.setup, layout |-> d.layout, ratio |-> d.ratio, tiles |-> d.tiles,
            front |-> d.front, maximize |-> d.maximize, frame |-> a,
            tab_bar |-> b, padded |-> d.padded, pad_layout |-> d.pad_layout,
            pad_frame |-> d.pad_frame]
<1> DEFINE e1 == [d EXCEPT !.frame = a]
<1>1. e1 = [setup |-> d.setup, layout |-> d.layout, ratio |-> d.ratio, tiles |-> d.tiles,
             front |-> d.front, maximize |-> d.maximize, frame |-> a,
             tab_bar |-> d.tab_bar, padded |-> d.padded, pad_layout |-> d.pad_layout,
             pad_frame |-> d.pad_frame]
  BY DEF Shape
<1> HIDE DEF e1
<1>2. [e1 EXCEPT !.tab_bar = b] =
      [setup |-> d.setup, layout |-> d.layout, ratio |-> d.ratio, tiles |-> d.tiles,
       front |-> d.front, maximize |-> d.maximize, frame |-> a,
       tab_bar |-> b, padded |-> d.padded, pad_layout |-> d.pad_layout,
       pad_frame |-> d.pad_frame]
  BY <1>1
<1> QED
  BY <1>2 DEF e1

\* and one whose scratchpad changes.
LEMMA PaddedDesk ==
    ASSUME NEW d, Shape(d), NEW n, NEW l
    PROVE  [d EXCEPT !.padded = n, !.pad_layout = l] =
           [setup |-> d.setup, layout |-> d.layout, ratio |-> d.ratio, tiles |-> d.tiles,
            front |-> d.front, maximize |-> d.maximize, frame |-> d.frame,
            tab_bar |-> d.tab_bar, padded |-> n, pad_layout |-> l,
            pad_frame |-> d.pad_frame]
<1> DEFINE e1 == [d EXCEPT !.padded = n]
<1>1. e1 = [setup |-> d.setup, layout |-> d.layout, ratio |-> d.ratio, tiles |-> d.tiles,
             front |-> d.front, maximize |-> d.maximize, frame |-> d.frame,
             tab_bar |-> d.tab_bar, padded |-> n, pad_layout |-> d.pad_layout,
             pad_frame |-> d.pad_frame]
  BY DEF Shape
<1> HIDE DEF e1
<1>2. [e1 EXCEPT !.pad_layout = l] =
      [setup |-> d.setup, layout |-> d.layout, ratio |-> d.ratio, tiles |-> d.tiles,
       front |-> d.front, maximize |-> d.maximize, frame |-> d.frame,
       tab_bar |-> d.tab_bar, padded |-> n, pad_layout |-> l,
       pad_frame |-> d.pad_frame]
  BY <1>1
<1> QED
  BY <1>2 DEF e1

\* What a layout makes of a desk is decided by these fields; the focus matters only
\* where it is followed.
LEMMA FramesFollow ==
    ASSUME NEW d, NEW e, e.setup = d.setup, e.layout = d.layout, e.ratio = d.ratio,
           e.tiles = d.tiles, e.maximize = d.maximize,
           e.front = d.front \/ d.layout \notin {"tabbed", "hscroll", "vscroll"}
    PROVE  FramesOf(e) = FramesOf(d) /\ TabBarOf(e) = TabBarOf(d)
<1>1. /\ Content(e) = Content(d) /\ TabBar(e) = TabBar(d)
  <2>1. TabHeight(e) = TabHeight(d) /\ TabBox(e) = TabBox(d)
    BY DEF TabHeight, TabBox
  <2> QED
    BY <2>1 DEF Content, TabBar
<1>2. Tiles(e) = Tiles(d)
  BY Zenon DEF Tiles
<1>3. e.front = d.front => HScroll(e) = HScroll(d) /\ VScroll(e) = VScroll(d)
  <2> SUFFICES ASSUME e.front = d.front
               PROVE  HScroll(e) = HScroll(d) /\ VScroll(e) = VScroll(d)
    OBVIOUS
  <2>1. FrontTile(e) = FrontTile(d)
    BY DEF FrontTile
  <2> QED
    BY <2>1, Zenon DEF HScroll, VScroll
<1>4. TabBarOf(e) = TabBarOf(d)
  BY <1>1 DEF TabBarOf
<1>5. CASE e.front = d.front
  <2>1. HScroll(e) = HScroll(d) /\ VScroll(e) = VScroll(d)
    BY <1>3, <1>5
  <2> QED
    BY <1>1, <1>2, <1>4, <2>1, Zenon DEF FramesOf
<1>6. CASE d.layout \notin {"tabbed", "hscroll", "vscroll"}
  <2>1. FramesOf(e) = Tiles(e) /\ FramesOf(d) = Tiles(d)
    BY <1>6 DEF FramesOf
  <2> QED
    BY <1>2, <1>4, <2>1
<1> QED
  BY <1>5, <1>6

\* The rectangles of the scratchpad are those of an arrangement.
PadRight(d) == d.padded > 0 => \E r \in Ratio : d.pad_frame = PadFrames(d, r)

\* They follow from the number of its windows and the screen.
LEMMA PadFollows ==
    ASSUME NEW d, NEW e, PadRight(d), e.setup = d.setup \/ e.padded = 0,
           e.padded = d.padded, e.pad_layout = d.pad_layout, e.pad_frame = d.pad_frame,
           d.padded \in Nat
    PROVE  PadRight(e)
<1>1. CASE e.padded = 0
  BY <1>1 DEF PadRight
<1>2. CASE e.setup = d.setup
  <2>1. \A r : PadFrames(e, r) = PadFrames(d, r)
    BY <1>2 DEF PadFrames
  <2> QED
    BY <2>1 DEF PadRight
<1> QED
  BY <1>1, <1>2

\* arrange_windows makes the rectangles right.
LEMMA ArrangedRight ==
    ASSUME NEW d, DeskType(d), PadRight(d)
    PROVE  DeskInv(Arranged(d))
<1> DEFINE e == Arranged(d)
<1>1. e = [setup |-> d.setup, layout |-> d.layout, ratio |-> d.ratio, tiles |-> d.tiles,
           front |-> d.front, maximize |-> d.maximize, frame |-> FramesOf(d),
           tab_bar |-> TabBarOf(d), padded |-> d.padded, pad_layout |-> d.pad_layout,
           pad_frame |-> d.pad_frame]
  BY ArrangedDesk DEF Arranged, DeskType
<1> HIDE DEF e
<1>2. DeskType(e)
  BY <1>1 DEF DeskType, Shape
<1>3. FramesOf(e) = FramesOf(d) /\ TabBarOf(e) = TabBarOf(d)
  BY <1>1, FramesFollow
<1>4. PadRight(e)
  BY <1>1, PadFollows DEF DeskType
<1> QED
  BY <1>1, <1>2, <1>3, <1>4 DEF DeskInv, PadRight, e

\* whichever windows there are now,
LEMMA EditedRight ==
    ASSUME LayoutConstants, NEW d, DeskType(d), PadRight(d),
           NEW n \in 0 .. MaxTiles, NEW f \in 0 .. n, NEW m \in SUBSET Int
    PROVE  DeskInv(Arranged([d EXCEPT !.tiles = n, !.front = f, !.maximize = m]))
<1>1. Shape(d) /\ d.padded \in Nat
  BY DEF DeskType, LayoutConstants
<1> DEFINE c1 == [d EXCEPT !.tiles = n]
<1>2. c1 = [setup |-> d.setup, layout |-> d.layout, ratio |-> d.ratio, tiles |-> n,
            front |-> d.front, maximize |-> d.maximize, frame |-> d.frame, tab_bar |-> d.tab_bar,
            padded |-> d.padded, pad_layout |-> d.pad_layout, pad_frame |-> d.pad_frame]
  BY <1>1 DEF Shape
<1> HIDE DEF c1
<1> DEFINE c2 == [c1 EXCEPT !.front = f]
<1>3. c2 = [setup |-> d.setup, layout |-> d.layout, ratio |-> d.ratio, tiles |-> n,
            front |-> f, maximize |-> d.maximize, frame |-> d.frame, tab_bar |-> d.tab_bar,
            padded |-> d.padded, pad_layout |-> d.pad_layout, pad_frame |-> d.pad_frame]
  BY <1>2
<1> HIDE DEF c2
<1> DEFINE c == [c2 EXCEPT !.maximize = m]
<1>4. c = [setup |-> d.setup, layout |-> d.layout, ratio |-> d.ratio, tiles |-> n,
           front |-> f, maximize |-> m, frame |-> d.frame, tab_bar |-> d.tab_bar,
           padded |-> d.padded, pad_layout |-> d.pad_layout, pad_frame |-> d.pad_frame]
  BY <1>3
<1> HIDE DEF c
<1>5. DeskType(c)
  BY <1>4 DEF DeskType, Shape
<1>6. PadRight(c)
  BY <1>1, <1>4, PadFollows
<1>7. DeskInv(Arranged(c))
  BY <1>5, <1>6, ArrangedRight
<1>8. c = [d EXCEPT !.tiles = n, !.front = f, !.maximize = m]
  BY DEF c, c1, c2
<1> QED
  BY <1>7, <1>8

\* and after every step.
LEMMA DeskStep ==
    ASSUME LayoutConstants, DeskInv(desk), LayoutNext
    PROVE  DeskInv(desk')
<1> DEFINE d == desk
           e == desk'
<1> HIDE DEF d, e
<1>1. DeskType(d) /\ PadRight(d) /\ d.frame = FramesOf(d) /\ d.tab_bar = TabBarOf(d)
  BY DEF DeskInv, PadRight, d
<1>11. Shape(d)
  BY <1>1 DEF DeskType
<1>2. ASSUME NEW c, Shape(c), c.setup \in Setup, c.setup = d.setup \/ d.padded = 0,
             c.ratio \in Ratio, c.layout \in {"htile", "vtile", "tabbed", "hscroll", "vscroll"},
             c.tiles \in 0 .. MaxTiles, c.front \in 0 .. c.tiles, c.maximize \in SUBSET Int,
             c.padded = d.padded, c.pad_layout = d.pad_layout, c.pad_frame = d.pad_frame
      PROVE  DeskType(c) /\ DeskInv(Arranged(c))
  <2>1. DeskType(c)
    BY <1>1, <1>2 DEF DeskType
  <2>2. d.padded \in Nat
    BY <1>1 DEF DeskType, LayoutConstants
  <2>3. PadRight(c)
    BY <1>1, <1>2, <2>2, PadFollows
  <2> QED
    BY <2>1, <2>3, ArrangedRight
<1>12. ASSUME NEW n \in 0 .. MaxTiles, NEW f \in 0 .. n, NEW m \in SUBSET Int
       PROVE  DeskInv(Arranged([d EXCEPT !.tiles = n, !.front = f, !.maximize = m]))
  BY <1>1, EditedRight
<1>3. ASSUME AddTile
      PROVE  DeskInv(e)
  <2>1. d.tiles < MaxTiles
    BY <1>3 DEF AddTile, d
  <2>2. PICK i \in {1, d.tiles + 1} :
           e = Arranged([d EXCEPT !.tiles = @ + 1, !.front = i,
                            !.maximize = { IF j < i THEN j ELSE j + 1 : j \in @ }])
    BY <1>3 DEF AddTile, d, e
  <2> DEFINE m == { IF j < i THEN j ELSE j + 1 : j \in d.maximize }
             n == d.tiles + 1
  <2>3. m \in SUBSET Int
    BY <1>1, <2>2 DEF DeskType, LayoutConstants
  <2>4. n \in 0 .. MaxTiles /\ i \in 0 .. n
    BY <1>1, <2>1, <2>2 DEF DeskType, LayoutConstants
  <2>5. e = Arranged([d EXCEPT !.tiles = n, !.front = i, !.maximize = m])
    BY <1>11, <2>2 DEF Shape
  <2> HIDE DEF m, n
  <2> QED
    BY <1>12, <2>3, <2>4, <2>5
<1>4. ASSUME RemoveTile
      PROVE  DeskInv(e)
  <2>1. PICK i \in 1 .. d.tiles, f \in 0 .. d.tiles - 1 :
           e = Arranged([d EXCEPT !.tiles = @ - 1, !.front = f,
                            !.maximize = { IF j < i THEN j ELSE j - 1 : j \in @ \ {i} }])
    BY <1>4 DEF RemoveTile, d, e
  <2> DEFINE m == { IF j < i THEN j ELSE j - 1 : j \in d.maximize \ {i} }
             n == d.tiles - 1
  <2>2. m \in SUBSET Int
    BY <1>1, <2>1 DEF DeskType, LayoutConstants
  <2>3. n \in 0 .. MaxTiles /\ f \in 0 .. n
    BY <1>1, <2>1 DEF DeskType, LayoutConstants
  <2>4. e = Arranged([d EXCEPT !.tiles = n, !.front = f, !.maximize = m])
    BY <1>11, <2>1 DEF Shape
  <2> HIDE DEF m, n
  <2> QED
    BY <1>12, <2>2, <2>3, <2>4
<1>5. ASSUME FocusTile
      PROVE  DeskInv(e)
  <2>1. PICK i \in 1 .. d.tiles :
           e = IF d.layout \in {"tabbed", "hscroll", "vscroll"}
               THEN Arranged([d EXCEPT !.front = i]) ELSE [d EXCEPT !.front = i]
    BY <1>5 DEF FocusTile, d, e
  <2> DEFINE c == [d EXCEPT !.front = i]
  <2>2. c = [setup |-> d.setup, layout |-> d.layout, ratio |-> d.ratio, tiles |-> d.tiles,
             front |-> i, maximize |-> d.maximize, frame |-> d.frame,
             tab_bar |-> d.tab_bar, padded |-> d.padded, pad_layout |-> d.pad_layout,
             pad_frame |-> d.pad_frame]
    BY <1>1 DEF DeskType, Shape
  <2>3. e = IF d.layout \in {"tabbed", "hscroll", "vscroll"} THEN Arranged(c) ELSE c
    BY <2>1
  <2> HIDE DEF c
  <2>4. i \in 0 .. d.tiles
    BY <1>1, <2>1 DEF DeskType, LayoutConstants
  <2>5. DeskType(c) /\ DeskInv(Arranged(c))
    BY <1>1, <1>2, <2>2, <2>4 DEF DeskType, Shape
  <2>6. CASE d.layout \in {"tabbed", "hscroll", "vscroll"}
    BY <2>3, <2>5, <2>6
  <2>7. CASE d.layout \notin {"tabbed", "hscroll", "vscroll"}
    <3>1. FramesOf(c) = FramesOf(d) /\ TabBarOf(c) = TabBarOf(d)
      BY <2>2, <2>7, FramesFollow
    <3>2. PadRight(c)
      BY <1>1, <2>2, PadFollows DEF DeskType
    <3> QED
      BY <1>1, <2>2, <2>3, <2>5, <2>7, <3>1, <3>2 DEF DeskInv, PadRight
  <2> QED
    BY <2>6, <2>7
<1>6. ASSUME MaximizeTile
      PROVE  DeskInv(e)
  <2> DEFINE m == IF d.front \in d.maximize THEN d.maximize \ {d.front}
                  ELSE d.maximize \cup {d.front}
             c == [d EXCEPT !.maximize = m]
  <2>1. e = Arranged(c)
    BY <1>1, <1>6 DEF MaximizeTile, DeskType, Shape, d, e
  <2>2. m \in SUBSET Int
    BY <1>1 DEF DeskType, LayoutConstants
  <2> HIDE DEF m
  <2>3. c = [setup |-> d.setup, layout |-> d.layout, ratio |-> d.ratio, tiles |-> d.tiles,
             front |-> d.front, maximize |-> m, frame |-> d.frame,
             tab_bar |-> d.tab_bar, padded |-> d.padded, pad_layout |-> d.pad_layout,
             pad_frame |-> d.pad_frame]
    BY <1>1 DEF DeskType, Shape
  <2> HIDE DEF c
  <2> QED
    BY <1>1, <1>2, <2>1, <2>2, <2>3 DEF DeskType, Shape
<1>7. ASSUME Adjust
      PROVE  DeskInv(e)
  <2>1. PICK r \in Ratio : e = Arranged([d EXCEPT !.ratio = r])
    BY <1>7 DEF Adjust, d, e
  <2> DEFINE c == [d EXCEPT !.ratio = r]
  <2>2. c = [setup |-> d.setup, layout |-> d.layout, ratio |-> r, tiles |-> d.tiles,
             front |-> d.front, maximize |-> d.maximize, frame |-> d.frame,
             tab_bar |-> d.tab_bar, padded |-> d.padded, pad_layout |-> d.pad_layout,
             pad_frame |-> d.pad_frame]
    BY <1>1 DEF DeskType, Shape
  <2>3. e = Arranged(c)
    BY <2>1
  <2> HIDE DEF c
  <2> QED
    BY <1>1, <1>2, <2>1, <2>2, <2>3 DEF DeskType, Shape
<1>8. ASSUME ChangeLayout
      PROVE  DeskInv(e)
  <2>1. PICK l \in {"htile", "vtile", "tabbed", "hscroll", "vscroll"} : e = Arranged([d EXCEPT !.layout = l])
    BY <1>8 DEF ChangeLayout, d, e
  <2> DEFINE c == [d EXCEPT !.layout = l]
  <2>2. c = [setup |-> d.setup, layout |-> l, ratio |-> d.ratio, tiles |-> d.tiles,
             front |-> d.front, maximize |-> d.maximize, frame |-> d.frame,
             tab_bar |-> d.tab_bar, padded |-> d.padded, pad_layout |-> d.pad_layout,
             pad_frame |-> d.pad_frame]
    BY <1>1 DEF DeskType, Shape
  <2>3. e = Arranged(c)
    BY <2>1
  <2> HIDE DEF c
  <2> QED
    BY <1>1, <1>2, <2>1, <2>2, <2>3 DEF DeskType, Shape
<1>9. ASSUME Resetup
      PROVE  DeskInv(e)
  <2>1. PICK s \in Setup : e = Arranged([d EXCEPT !.setup = s]) /\ d.padded = 0
    BY <1>9 DEF Resetup, d, e
  <2> DEFINE c == [d EXCEPT !.setup = s]
  <2>2. c = [setup |-> s, layout |-> d.layout, ratio |-> d.ratio, tiles |-> d.tiles,
             front |-> d.front, maximize |-> d.maximize, frame |-> d.frame,
             tab_bar |-> d.tab_bar, padded |-> d.padded, pad_layout |-> d.pad_layout,
             pad_frame |-> d.pad_frame]
    BY <1>1 DEF DeskType, Shape
  <2>3. e = Arranged(c)
    BY <2>1
  <2> HIDE DEF c
  <2> QED
    BY <1>1, <1>2, <2>1, <2>2, <2>3 DEF DeskType, Shape
<1>10. ASSUME ArrangePad
      PROVE  DeskInv(e)
  <2>1. PICK n \in 0 .. MaxTiles, l \in {"htile", "vtile"} :
           e = ArrangedPad([d EXCEPT !.padded = n, !.pad_layout = l])
    BY <1>10 DEF ArrangePad, d, e
  <2> DEFINE c == [d EXCEPT !.padded = n, !.pad_layout = l]
  <2>2. c = [setup |-> d.setup, layout |-> d.layout, ratio |-> d.ratio, tiles |-> d.tiles,
             front |-> d.front, maximize |-> d.maximize, frame |-> d.frame,
             tab_bar |-> d.tab_bar, padded |-> n, pad_layout |-> l,
             pad_frame |-> d.pad_frame]
    BY <1>11, PaddedDesk, Zenon
  <2>3. e = ArrangedPad(c)
    BY <2>1
  <2> HIDE DEF c
  <2>4. e = [setup |-> d.setup, layout |-> d.layout, ratio |-> d.ratio, tiles |-> d.tiles,
             front |-> d.front, maximize |-> d.maximize, frame |-> d.frame,
             tab_bar |-> d.tab_bar, padded |-> n, pad_layout |-> l,
             pad_frame |-> PadFrames(c, d.ratio)]
    BY <2>2, <2>3 DEF ArrangedPad
  <2>5. DeskType(e)
    BY <1>1, <2>1, <2>4 DEF DeskType, Shape
  <2>6. FramesOf(e) = FramesOf(d) /\ TabBarOf(e) = TabBarOf(d)
    BY <2>4, FramesFollow
  <2>7. PadFrames(e, d.ratio) = PadFrames(c, d.ratio)
    BY <2>2, <2>4 DEF PadFrames
  <2> QED
    BY <1>1, <2>4, <2>5, <2>6, <2>7 DEF DeskInv, DeskType
<1> QED
  BY <1>3, <1>4, <1>5, <1>6, <1>7, <1>8, <1>9, <1>10 DEF LayoutNext, e

\* At first there is no window to place.
LEMMA DeskInit ==
    ASSUME LayoutConstants, LayoutInit
    PROVE  DeskInv(desk)
<1>1. PICK s \in Setup, r \in Ratio :
        desk = [setup |-> s, layout |-> "htile", ratio |-> r, tiles |-> 0, front |-> 0,
                maximize |-> {}, frame |-> [i \in {} |-> Nowhere], tab_bar |-> Nowhere,
                padded |-> 0, pad_layout |-> "htile", pad_frame |-> [i \in {} |-> Nowhere]]
  BY DEF LayoutInit
<1>2. DeskType(desk)
  BY <1>1 DEF DeskType, Shape, LayoutConstants
<1>3. FramesOf(desk) = [i \in {} |-> Nowhere] /\ TabBarOf(desk) = Nowhere
  <2>1. desk.layout = "htile" /\ desk.tiles = 0 /\ 1 .. 0 = {}
    BY <1>1
  <2>2. FramesOf(desk) = Tiles(desk)
    BY <2>1 DEF FramesOf
  <2>3. DOMAIN Tiles(desk) = {} /\ Tiles(desk) = [i \in {} |-> Tiles(desk)[i]]
    BY <2>1 DEF Tiles
  <2>4. [i \in {} |-> Nowhere] = [i \in {} |-> Tiles(desk)[i]]
    OBVIOUS
  <2> QED
    BY <2>1, <2>2, <2>3, <2>4 DEF TabBarOf
<1> QED
  BY <1>1, <1>2, <1>3 DEF DeskInv

----------------------------------------------------------------------------
(* What follows for the user *)

\* Two frames partition a box if each pixel is in one and not in the other.
LEMMA TwoFrames ==
    ASSUME NEW box, NEW a \in Rect, NEW b \in Rect,
           Within(a, box), Within(b, box), a.w > 0, b.w > 0, a.h >= 0, b.h >= 0,
           \A cell \in Cells(box) : Holds(b, cell) <=> ~Holds(a, cell)
    PROVE  Partition(<<a, b>>, 0, box)
<1> DEFINE F == <<a, b>>
<1>1. DOMAIN F = {1, 2} /\ F[1] = a /\ F[2] = b
  OBVIOUS
<1>2. ASSUME NEW c \in Rect, NEW cell
      PROVE  Holds(Grown(c, 0), cell) <=> Holds(c, cell)
  <2>1. /\ Grown(c, 0).x = c.x /\ Grown(c, 0).y = c.y
        /\ Grown(c, 0).w = c.w + 0 /\ Grown(c, 0).h = c.h + 0
    BY DEF Grown, Rect
  <2>2. c.w + 0 = c.w /\ c.h + 0 = c.h
    BY DEF Rect
  <2> QED
    BY <2>1, <2>2 DEF Holds
<1>3. ASSUME NEW cell \in Cells(box)
      PROVE  \E i \in DOMAIN F : \A j \in DOMAIN F : Holds(Grown(F[j], 0), cell) <=> j = i
  <2>1. /\ Holds(Grown(a, 0), cell) <=> Holds(a, cell)
        /\ Holds(Grown(b, 0), cell) <=> Holds(b, cell)
    BY <1>2
  <2>2. Holds(b, cell) <=> ~Holds(a, cell)
    OBVIOUS
  <2> HIDE DEF F
  <2>3. CASE Holds(a, cell)
    <3>1. \A j \in DOMAIN F : Holds(Grown(F[j], 0), cell) <=> j = 1
      BY <1>1, <2>1, <2>2, <2>3
    <3> QED
      BY <1>1, <3>1
  <2>4. CASE ~Holds(a, cell)
    <3>1. \A j \in DOMAIN F : Holds(Grown(F[j], 0), cell) <=> j = 2
      BY <1>1, <2>1, <2>2, <2>4
    <3> QED
      BY <1>1, <3>1
  <2> QED
    BY <2>3, <2>4
<1>4. \A i \in DOMAIN F : Within(F[i], box) /\ F[i].w > 0 /\ F[i].h >= 0
  BY <1>1
<1> QED
  BY <1>3, <1>4, PartitionOne

\* A tab bar and the content beside, below or above it partition the box.
LEMMA TabsFit ==
    ASSUME LayoutConstants, NEW d, d.setup \in Setup, NEW box, box = TabBox(d), box \in Rect,
           NEW bar, bar = TabHeight(d), bar \in Nat, box.w > 0, box.h > 0,
           bar < IF d.setup.tabs \in {"left", "right"} THEN box.w ELSE box.h
    PROVE  Partition(IF bar = 0 THEN <<Content(d)>> ELSE <<Content(d), TabBar(d)>>, 0, box)
<1> DEFINE a == Content(d)
           b == TabBar(d)
<1>1. /\ box.x \in Int /\ box.y \in Int /\ box.w \in Int /\ box.h \in Int
      /\ d.setup.tabs \in {"top", "bottom", "left", "right"}
      /\ box = [x |-> box.x, y |-> box.y, w |-> box.w, h |-> box.h]
  BY DEF Rect, LayoutConstants
<1>2. CASE bar = 0
  <2>1. a = box
    BY <1>1, <1>2 DEF Content, Box
  <2> DEFINE F == <<a>>
  <2>2. F = [i \in 1 .. 1 |-> box]
    BY <2>1
  <2> HIDE DEF F
  <2>3. Divided(F, 1, 0, box)
    BY <2>2, LoneTile
  <2>4. Partition(F, 0, box)
    BY <2>3, DividedParts
  <2> QED
    BY <1>2, <2>4 DEF F
<1>3. CASE bar # 0
  <2>1. /\ d.setup.tabs = "top" => /\ a = [x |-> box.x, y |-> box.y + bar, w |-> box.w, h |-> box.h - bar]
                                   /\ b = [x |-> box.x, y |-> box.y, w |-> box.w, h |-> bar]
        /\ d.setup.tabs = "bottom" => /\ a = [x |-> box.x, y |-> box.y, w |-> box.w, h |-> box.h - bar]
                                      /\ b = [x |-> box.x, y |-> box.y + box.h - bar, w |-> box.w, h |-> bar]
        /\ d.setup.tabs = "left" => /\ a = [x |-> box.x + bar, y |-> box.y, w |-> box.w - bar, h |-> box.h]
                                    /\ b = [x |-> box.x, y |-> box.y, w |-> bar, h |-> box.h]
        /\ d.setup.tabs = "right" => /\ a = [x |-> box.x, y |-> box.y, w |-> box.w - bar, h |-> box.h]
                                     /\ b = [x |-> box.x + box.w - bar, y |-> box.y, w |-> bar, h |-> box.h]
    BY DEF Content, TabBar, Box
  <2> HIDE DEF a, b
  <2>2. /\ a \in Rect /\ b \in Rect /\ Within(a, box) /\ Within(b, box)
        /\ a.w > 0 /\ b.w > 0 /\ a.h >= 0 /\ b.h >= 0
    <3>1. CASE d.setup.tabs = "top"
      BY <1>1, <1>3, <2>1, <3>1 DEF Rect, Within
    <3>2. CASE d.setup.tabs = "bottom"
      BY <1>1, <1>3, <2>1, <3>2 DEF Rect, Within
    <3>3. CASE d.setup.tabs = "left"
      BY <1>1, <1>3, <2>1, <3>3 DEF Rect, Within
    <3>4. CASE d.setup.tabs = "right"
      BY <1>1, <1>3, <2>1, <3>4 DEF Rect, Within
    <3> QED
      BY <1>1, <3>1, <3>2, <3>3, <3>4
  <2>3. ASSUME NEW cell \in Cells(box)
        PROVE  Holds(b, cell) <=> ~Holds(a, cell)
    <3>0. /\ cell[1] \in Int /\ box.x <= cell[1] /\ cell[1] < box.x + box.w
          /\ cell[2] \in Int /\ box.y <= cell[2] /\ cell[2] < box.y + box.h
      BY <1>1, CellsOf DEF Sized
    <3>1. CASE d.setup.tabs = "top"
      BY <1>1, <2>1, <3>0, <3>1 DEF Holds
    <3>2. CASE d.setup.tabs = "bottom"
      BY <1>1, <2>1, <3>0, <3>2 DEF Holds
    <3>3. CASE d.setup.tabs = "left"
      BY <1>1, <2>1, <3>0, <3>3 DEF Holds
    <3>4. CASE d.setup.tabs = "right"
      BY <1>1, <2>1, <3>0, <3>4 DEF Holds
    <3> QED
      BY <1>1, <3>1, <3>2, <3>3, <3>4
  <2>4. Partition(<<a, b>>, 0, box)
    BY <2>2, <2>3, TwoFrames
  <2> QED
    BY <1>3, <2>4 DEF a, b
<1> QED
  BY <1>2, <1>3

\* What Roomy says of one screen, number of windows and ratio.
LEMMA RoomFor ==
    ASSUME LayoutConstants, Roomy, NEW s \in Setup, NEW n \in 1 .. MaxTiles, NEW r \in Ratio,
           NEW inner, inner = Gap(s, n, s.inner), NEW outer, outer = Gap(s, n, s.outer),
           NEW box, box = Shrunk(s.area, outer), NEW whole, whole = Shrunk(s.screen, outer)
    PROVE  /\ inner \in Nat /\ box \in Rect /\ whole \in Rect /\ r \in Int /\ n \in Nat \ {0}
           /\ FitsBoth(box, inner, n, r) /\ FitsBoth(whole, inner, n, r)
           /\ s.tab_bar \in Nat
           /\ s.tab_bar < IF s.tabs \in {"left", "right"} THEN box.w ELSE box.h
<1>1. /\ s.inner \in Int /\ s.outer \in Int /\ s.tab_bar \in Int
      /\ s.area \in Rect /\ s.screen \in Rect
  BY DEF LayoutConstants
<1>2. inner \in Int /\ outer \in Int
  BY <1>1 DEF Gap
<1>3. /\ box = [x |-> s.area.x + outer, y |-> s.area.y + outer,
                w |-> s.area.w - 2 * outer, h |-> s.area.h - 2 * outer]
      /\ whole = [x |-> s.screen.x + outer, y |-> s.screen.y + outer,
                  w |-> s.screen.w - 2 * outer, h |-> s.screen.h - 2 * outer]
  BY DEF Shrunk, Box
<1>4. box \in Rect /\ whole \in Rect
  BY <1>1, <1>2, <1>3 DEF Rect
<1>5. r \in Int /\ n \in Nat \ {0}
  BY DEF LayoutConstants
<1>6. /\ inner >= 0 /\ s.tab_bar >= 0
      /\ FitsBoth(box, inner, n, r) /\ FitsBoth(whole, inner, n, r)
      /\ s.tab_bar < IF s.tabs \in {"left", "right"} THEN box.w ELSE box.h
  BY Zenon DEF Roomy
<1> QED
  BY <1>1, <1>2, <1>4, <1>5, <1>6

\* The tiles of a workspace whose rectangles are right fit,
LEMMA TilesRight ==
    ASSUME LayoutConstants, Roomy, NEW d, DeskInv(d), d.layout \in {"htile", "vtile"},
           d.tiles > 0, d.maximize = {}
    PROVE  Partition(d.frame, Gap(d.setup, d.tiles, d.setup.inner),
                     Shrunk(d.setup.area, Gap(d.setup, d.tiles, d.setup.outer)))
<1> DEFINE s == d.setup
           n == d.tiles
           r == d.ratio
           inner == Gap(s, n, s.inner)
           outer == Gap(s, n, s.outer)
           box == Shrunk(s.area, outer)
           whole == Shrunk(s.screen, outer)
<1>1. s \in Setup /\ n \in 1 .. MaxTiles /\ r \in Ratio
  BY DEF DeskInv, DeskType, LayoutConstants
<1>2. /\ d.frame = IF d.layout = "vtile" THEN VTile(box, inner, n, r)
                   ELSE [i \in 1 .. n |-> IF i \in d.maximize THEN box
                                          ELSE HTile(box, inner, n, r)[i]]
  BY DEF DeskInv, FramesOf, Tiles
<1>3. inner = Gap(s, n, s.inner) /\ outer = Gap(s, n, s.outer)
      /\ box = Shrunk(s.area, outer) /\ whole = Shrunk(s.screen, outer)
  OBVIOUS
<1> HIDE DEF s, n, r, inner, outer, box, whole
<1>4. inner \in Nat /\ box \in Rect /\ r \in Int /\ n \in Nat \ {0} /\ FitsBoth(box, inner, n, r)
  BY <1>1, <1>3, RoomFor
<1>5. CASE d.layout = "vtile"
  BY <1>2, <1>4, <1>5, VTileDivides, DividedParts DEF s, n, inner, outer, box
<1>6. CASE d.layout = "htile"
  <2> DEFINE F == HTile(box, inner, n, r)
  <2>1. Divided(F, n, inner, box)
    BY <1>4, HTileDivides
  <2>2. F = [i \in 1 .. n |-> F[i]]
    BY DEF HTile
  <2>3. d.frame = [i \in 1 .. n |-> F[i]]
    BY <1>2, <1>6
  <2> HIDE DEF F
  <2>4. Partition(d.frame, inner, box)
    BY <2>1, <2>2, <2>3, DividedParts
  <2> QED
    BY <2>4 DEF s, n, inner, outer, box
<1> QED
  BY <1>5, <1>6

\* so do its content and tab bar,
LEMMA TabsRight ==
    ASSUME LayoutConstants, Roomy, NEW d, DeskInv(d), d.layout = "tabbed", d.tiles > 0
    PROVE  Partition(IF TabHeight(d) = 0 THEN <<d.frame[1]>> ELSE <<d.frame[1], d.tab_bar>>,
                     0, TabBox(d))
<1> DEFINE s == d.setup
           n == d.tiles
           r == d.ratio
           inner == Gap(s, n, s.inner)
           outer == Gap(s, n, s.outer)
           box == Shrunk(s.area, outer)
           whole == Shrunk(s.screen, outer)
           bar == TabHeight(d)
<1>1. s \in Setup /\ n \in 1 .. MaxTiles /\ r \in Ratio
  BY DEF DeskInv, DeskType, LayoutConstants
<1>2. d.frame[1] = Content(d) /\ d.tab_bar = TabBar(d)
  <2>1. d.frame = [i \in 1 .. d.tiles |-> Content(d)] /\ d.tab_bar = TabBar(d)
    BY DEF DeskInv, FramesOf, TabBarOf
  <2> QED
    BY <1>1, <2>1
<1>3. inner = Gap(s, n, s.inner) /\ outer = Gap(s, n, s.outer)
      /\ box = Shrunk(s.area, outer) /\ whole = Shrunk(s.screen, outer)
  OBVIOUS
<1>4. box = TabBox(d)
  BY DEF TabBox
<1>5. bar = 0 \/ bar = s.tab_bar
  BY DEF TabHeight
<1>6. bar = TabHeight(d)
  OBVIOUS
<1> HIDE DEF n, r, inner, outer, box, whole, bar
<1>7. /\ box \in Rect /\ FitsBoth(box, inner, n, r) /\ s.tab_bar \in Nat
      /\ s.tab_bar < IF s.tabs \in {"left", "right"} THEN box.w ELSE box.h
  <2> HIDE DEF s
  <2> QED
    BY <1>1, <1>3, RoomFor
<1>8. box.w > 0 /\ box.h > 0
  BY <1>7 DEF FitsBoth, Fits
<1>9. bar \in Nat /\ bar < IF s.tabs \in {"left", "right"} THEN box.w ELSE box.h
  BY <1>5, <1>7, <1>8
<1>10. Partition(IF bar = 0 THEN <<Content(d)>> ELSE <<Content(d), TabBar(d)>>, 0, box)
  BY <1>1, <1>4, <1>6, <1>7, <1>8, <1>9, TabsFit
<1> QED
  BY <1>2, <1>4, <1>6, <1>10

\* and the windows of a shown scratchpad.
LEMMA PadsRight ==
    ASSUME LayoutConstants, Roomy, NEW d, DeskInv(d), d.padded > 0
    PROVE  Partition(d.pad_frame, Gap(d.setup, d.padded, d.setup.inner),
                     Shrunk(d.setup.screen, Gap(d.setup, d.padded, d.setup.outer)))
<1> DEFINE s == d.setup
           n == d.padded
           inner == Gap(s, n, s.inner)
           outer == Gap(s, n, s.outer)
           box == Shrunk(s.area, outer)
           whole == Shrunk(s.screen, outer)
<1>1. s \in Setup /\ n \in 1 .. MaxTiles
  BY DEF DeskInv, DeskType, LayoutConstants
<1>2. PICK r \in Ratio : d.pad_frame = PadFrames(d, r)
  BY DEF DeskInv
<1>3. d.pad_frame = IF d.pad_layout = "htile" THEN HTile(whole, inner, n, r)
                    ELSE VTile(whole, inner, n, r)
  BY <1>2 DEF PadFrames
<1>4. inner = Gap(s, n, s.inner) /\ outer = Gap(s, n, s.outer)
      /\ box = Shrunk(s.area, outer) /\ whole = Shrunk(s.screen, outer)
  OBVIOUS
<1> HIDE DEF s, n, inner, outer, box, whole
<1>5. /\ inner \in Nat /\ whole \in Rect /\ r \in Int /\ n \in Nat \ {0}
      /\ FitsBoth(whole, inner, n, r)
  BY <1>1, <1>4, RoomFor
<1>6. Partition(d.pad_frame, inner, whole)
  <2>1. CASE d.pad_layout = "htile"
    BY <1>3, <1>5, <2>1, HTileDivides, DividedParts
  <2>2. CASE d.pad_layout # "htile"
    BY <1>3, <1>5, <2>2, VTileDivides, DividedParts
  <2> QED
    BY <2>1, <2>2
<1> QED
  BY <1>6 DEF s, n, inner, outer, whole

\* A strip of columns: where the front one is, and that the next begins after one.
LEMMA ColumnsRight ==
    ASSUME LayoutConstants, Strips, NEW d, DeskInv(d), d.layout = "hscroll"
    PROVE  /\ d.front # 0 => Within(d.frame[d.front], d.setup.area)
           /\ \A i \in 1 .. d.tiles - 1 : \A cell \in Cells(d.frame[i]) :
                 ~Holds(d.frame[i + 1], cell)
<1> DEFINE s == d.setup
           n == d.tiles
           f == FrontTile(d)
           W == s.area.w
           col == (W * s.column) \div 100
           pitch == col + s.inner
           at(i) == (i - 1) * pitch
           middle == s.outer + at(f) + (pitch - s.inner) \div 2
           scrolled == IF middle > W \div 2 THEN middle - W \div 2 ELSE 0
           origin == s.area.x + s.outer - scrolled
<1>1. /\ s \in Setup /\ n \in Nat /\ d.front \in 0 .. n
  BY DEF DeskInv, DeskType, LayoutConstants
<1>2. /\ s.inner \in Nat /\ s.outer \in Nat /\ W \in Nat /\ s.column \in 0 .. 100
      /\ s.area \in Rect /\ s.area.x \in Int /\ s.area.y \in Int /\ s.area.h \in Int
  BY <1>1 DEF LayoutConstants, Strips, Rect
<1>3. col \in Nat /\ col <= W
  <2>1. W * s.column \in Nat /\ W * s.column <= W * 100
    <3>1. s.column * W <= 100 * W /\ s.column * W \in Nat
      BY <1>2, Products
    <3>2. s.column * W = W * s.column /\ 100 * W = W * 100
      BY <1>2
    <3> QED
      BY <3>1, <3>2
  <2> DEFINE c == W * s.column
  <2> HIDE DEF c
  <2>2. c \in Nat /\ c <= W * 100
    BY <2>1 DEF c
  <2>3. c \div 100 \in Nat /\ c \div 100 <= W
    BY <1>2, <2>2
  <2> QED
    BY <2>3 DEF c
<1>4. d.frame = [i \in 1 .. n |-> Box(origin + at(i), s.area.y + s.outer,
                                     pitch - s.inner, s.area.h - 2 * s.outer)]
  BY DEF DeskInv, FramesOf, HScroll
<1>5. d.front # 0 => f = d.front
  BY DEF FrontTile
<1>6. f \in Nat \ {0}
  BY <1>1 DEF FrontTile
<1> HIDE DEF f, s, n, col, W
<1>7. pitch \in Nat /\ pitch - s.inner = col
  BY <1>2, <1>3
<1> HIDE DEF pitch
<1>8. ASSUME NEW i \in Nat \ {0}
      PROVE  at(i) \in Nat /\ at(i + 1) = at(i) + pitch
  <2>1. i - 1 \in Nat /\ (i - 1) * pitch \in Nat
    BY <1>7
  <2>2. (i + 1 - 1) * pitch = (i - 1) * pitch + pitch
    BY <1>7
  <2> QED
    BY <2>1, <2>2
<1>9. at(f) \in Nat
  BY <1>6, <1>8
<1> HIDE DEF at
<1>10. /\ scrolled \in Int /\ origin \in Int
       /\ s.area.x <= origin + at(f) /\ origin + at(f) + col <= s.area.x + W
  <2>1. middle = s.outer + at(f) + col \div 2
    BY <1>7
  <2>2. /\ W \div 2 \in Nat /\ 2 * (W \div 2) <= W /\ W <= 2 * (W \div 2) + 1
        /\ col \div 2 \in Nat /\ 2 * (col \div 2) <= col /\ col <= 2 * (col \div 2) + 1
    BY <1>2, <1>3
  <2> DEFINE half == W \div 2
             part == col \div 2
  <2>3. /\ middle = s.outer + at(f) + part
        /\ scrolled = IF middle > half THEN middle - half ELSE 0
        /\ origin = s.area.x + s.outer - scrolled
    BY <2>1
  <2> HIDE DEF half, part, middle, scrolled, origin
  <2>4. /\ half \in Nat /\ 2 * half <= W /\ W <= 2 * half + 1
        /\ part \in Nat /\ 2 * part <= col /\ col <= 2 * part + 1
    BY <2>2 DEF half, part
  <2> QED
    BY <1>2, <1>3, <1>9, <2>3, <2>4
<1> HIDE DEF origin, scrolled
<1>11. ASSUME NEW i \in 1 .. n
       PROVE  d.frame[i] = [x |-> origin + at(i), y |-> s.area.y + s.outer,
                            w |-> col, h |-> s.area.h - 2 * s.outer]
  BY <1>4, <1>7 DEF Box
<1>12. ASSUME d.front # 0
       PROVE  Within(d.frame[d.front], s.area)
  <2>1. f = d.front /\ d.front \in 1 .. n
    BY <1>1, <1>5, <1>12
  <2>2. d.frame[f] = [x |-> origin + at(f), y |-> s.area.y + s.outer,
                      w |-> col, h |-> s.area.h - 2 * s.outer]
    BY <1>11, <2>1
  <2>3. W = s.area.w
    BY DEF W
  <2> QED
    BY <1>2, <1>3, <1>9, <1>10, <2>1, <2>2, <2>3 DEF Within
<1>13. ASSUME NEW i \in 1 .. n - 1, NEW cell \in Cells(d.frame[i])
       PROVE  ~Holds(d.frame[i + 1], cell)
  <2>1. /\ i \in 1 .. n /\ i + 1 \in 1 .. n /\ i \in Nat \ {0}
    BY <1>1
  <2>2. at(i) \in Nat /\ at(i + 1) = at(i) + pitch
    BY <1>8, <2>1
  <2>3. /\ d.frame[i] = [x |-> origin + at(i), y |-> s.area.y + s.outer,
                         w |-> col, h |-> s.area.h - 2 * s.outer]
        /\ d.frame[i + 1] = [x |-> origin + at(i + 1), y |-> s.area.y + s.outer,
                             w |-> col, h |-> s.area.h - 2 * s.outer]
    BY <1>11, <2>1
  <2>4. Sized(d.frame[i])
    BY <1>2, <1>3, <1>10, <2>2, <2>3 DEF Sized
  <2>5. cell[1] \in Int /\ cell[1] < origin + at(i) + col
    BY <2>3, <2>4, CellsOf
  <2>6. origin + at(i) + col <= origin + at(i + 1)
    BY <1>2, <1>3, <1>7, <1>10, <2>2
  <2> QED
    BY <1>3, <1>7, <1>10, <2>2, <2>3, <2>5, <2>6 DEF Holds
<1> QED
  BY <1>12, <1>13 DEF s, n

\* A strip of rows, of which one fills the screen.
LEMMA RowsRight ==
    ASSUME LayoutConstants, Strips, NEW d, DeskInv(d), d.layout = "vscroll"
    PROVE  /\ d.front # 0 => Within(d.frame[d.front], d.setup.area)
           /\ \A i \in 1 .. d.tiles - 1 : \A cell \in Cells(d.frame[i]) :
                 ~Holds(d.frame[i + 1], cell)
<1> DEFINE s == d.setup
           n == d.tiles
           f == FrontTile(d)
           wide == s.area.w - 2 * s.outer
           high == s.area.h - 2 * s.outer
           pitch == high + s.inner
           at(i) == (i - 1) * pitch
           top == s.area.y + s.outer
           origin == top - at(f)
<1>1. /\ s \in Setup /\ n \in Nat /\ d.front \in 0 .. n
  BY DEF DeskInv, DeskType, LayoutConstants
<1>2. /\ s.inner \in Nat /\ s.outer \in Nat /\ s.area.w \in Int
      /\ s.area.x \in Int /\ s.area.y \in Int /\ s.area.h \in Int
  BY <1>1 DEF LayoutConstants, Strips, Rect
<1>3. d.frame = [i \in 1 .. n |-> Box(s.area.x + s.outer, origin + at(i), wide, high)]
  BY DEF DeskInv, FramesOf, VScroll, Shrunk, Box
<1>4. d.front # 0 => f = d.front
  BY DEF FrontTile
<1>5. f \in Nat \ {0}
  BY <1>1 DEF FrontTile
<1>6. /\ wide = s.area.w - 2 * s.outer /\ high = s.area.h - 2 * s.outer
      /\ top = s.area.y + s.outer /\ origin = top - at(f)
      /\ wide \in Int /\ high \in Int /\ top \in Int /\ pitch \in Int /\ pitch = high + s.inner
  BY <1>2
<1> HIDE DEF f, s, n, wide, high, pitch, top, origin
<1>7. ASSUME NEW i \in Nat \ {0}
      PROVE  at(i) \in Int /\ at(i + 1) = at(i) + pitch
  <2>1. i - 1 \in Nat /\ (i - 1) * pitch \in Int
    BY <1>6
  <2>2. (i + 1 - 1) * pitch = (i - 1) * pitch + pitch
    BY <1>6
  <2> QED
    BY <2>1, <2>2
<1> HIDE DEF at
<1>8. origin \in Int /\ origin + at(f) = top
  BY <1>5, <1>6, <1>7
<1>9. ASSUME NEW i \in 1 .. n
      PROVE  d.frame[i] = [x |-> s.area.x + s.outer, y |-> origin + at(i),
                           w |-> wide, h |-> high]
  BY <1>3 DEF Box
<1>10. ASSUME d.front # 0
       PROVE  Within(d.frame[d.front], s.area)
  <2>1. f = d.front /\ d.front \in 1 .. n
    BY <1>1, <1>4, <1>10
  <2>2. d.frame[f] = [x |-> s.area.x + s.outer, y |-> origin + at(f), w |-> wide, h |-> high]
    BY <1>9, <2>1
  <2> QED
    BY <1>2, <1>6, <1>8, <2>1, <2>2 DEF Within
<1>11. ASSUME NEW i \in 1 .. n - 1, NEW cell \in Cells(d.frame[i])
       PROVE  ~Holds(d.frame[i + 1], cell)
  <2>1. /\ i \in 1 .. n /\ i + 1 \in 1 .. n /\ i \in Nat \ {0}
    BY <1>1
  <2>2. at(i) \in Int /\ at(i + 1) = at(i) + pitch
    BY <1>7, <2>1
  <2>3. /\ d.frame[i] = [x |-> s.area.x + s.outer, y |-> origin + at(i),
                         w |-> wide, h |-> high]
        /\ d.frame[i + 1] = [x |-> s.area.x + s.outer, y |-> origin + at(i + 1),
                             w |-> wide, h |-> high]
    BY <1>9, <2>1
  <2>4. Sized(d.frame[i])
    BY <1>2, <1>6, <1>8, <2>2, <2>3 DEF Sized
  <2>5. cell[2] \in Int /\ cell[2] < origin + at(i) + high
    BY <2>3, <2>4, CellsOf
  <2>6. origin + at(i) + high <= origin + at(i + 1)
    BY <1>2, <1>6, <1>8, <2>2
  <2> QED
    BY <1>6, <1>8, <2>2, <2>3, <2>5, <2>6 DEF Holds
<1> QED
  BY <1>10, <1>11 DEF s, n

\* Whatever is done to a workspace and to the scratchpad, every rectangle is the one
\* that the layout gives the windows there are now: none is left over from another
\* number of windows, layout or screen, and only a scratchpad's may come from an
\* earlier ratio (arrange_windows after every operation)
THEOREM RectanglesCurrent == LayoutSpec => []DeskInv(desk)
<1>1. LayoutInit => DeskInv(desk)
  BY LayoutConstants, DeskInit
<1>2. DeskInv(desk) /\ [LayoutNext]_desk => DeskInv(desk)'
  <2> SUFFICES ASSUME DeskInv(desk), [LayoutNext]_desk
               PROVE  DeskInv(desk)'
    OBVIOUS
  <2>1. CASE LayoutNext
    <3>1. DeskInv(desk')
      BY <2>1, LayoutConstants, DeskStep
    <3> QED
      BY <3>1 DEF DeskInv, DeskType, Shape, FramesOf, TabBarOf, PadFrames
  <2>2. CASE UNCHANGED desk
    <3>1. DeskInv(desk')
      BY <2>2
    <3> QED
      BY <3>1
  <2> QED
    BY <2>1, <2>2
<1> QED
  BY <1>1, <1>2, PTL DEF LayoutSpec

\* Where every window has room, the tiles neither overlap nor leave a hole, for every
\* screen, gap, ratio and number of windows (arrange_windows_impl, arrange_scratchpad)
THEOREM TilesAlwaysFit ==
    ASSUME Roomy PROVE LayoutSpec => []TilesFit
<1>1. DeskInv(desk) => TilesFit
  BY LayoutConstants, TilesRight, TabsRight, PadsRight DEF TilesFit
<1> QED
  BY <1>1, RectanglesCurrent, PTL

\* Where no gap is negative and no column wider than the screen, the window that has
\* the focus is wholly on a scrolling workspace's screen and uncovered, for every
\* number of windows (arrange_windows_impl)
THEOREM FrontAlwaysOnScreen ==
    ASSUME Strips PROVE LayoutSpec => []FrontOnScreen
<1>1. DeskInv(desk) => FrontOnScreen
  BY LayoutConstants, ColumnsRight, RowsRight DEF FrontOnScreen
<1> QED
  BY <1>1, RectanglesCurrent, PTL
=============================================================================
