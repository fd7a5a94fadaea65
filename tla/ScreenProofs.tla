---------------------------- MODULE ScreenProofs ----------------------------
(***************************************************************************)
(* What clients and screens show, proved for every number of windows,      *)
(* outputs, workspaces and clients: the handles of ext-workspace clients,  *)
(* the animations of windows, the notifications of the bars, the items and *)
(* icons of the tray.                                                      *)
(***************************************************************************)
EXTENDS MCScreen, FiniteSetTheorems, SequenceTheorems,
        WellFoundedInduction, TLAPS

----------------------------------------------------------------------------
(* Facts about numbers and sequences *)

\* A set of natural numbers has a least one.
LEMMA LeastNatural ==
    ASSUME NEW I \in SUBSET Nat, I # {}
    PROVE  \E i \in I : \A j \in I : i <= j
<1> DEFINE R == OpToRel(<, Nat)
<1>1. IsWellFoundedOn(R, Nat)
  BY NatLessThanWellFounded
<1>2. \A x, y \in Nat : <<y, x>> \in R <=> y < x
  BY DEF OpToRel
<1> HIDE DEF R
<1>3. PICK x \in I : \A y \in I : ~(<<y, x>> \in R)
  BY <1>1, WFMin
<1>4. x \in Nat /\ \A y \in I : y \in Nat /\ ~(y < x)
  BY <1>2, <1>3
<1> QED
  BY <1>4

\* A set of natural numbers that has a bound has a greatest one: its least bound.
LEMMA MaxIsGreatest ==
    ASSUME NEW I \in SUBSET Nat, I # {}, NEW b \in Nat, \A i \in I : i <= b
    PROVE  Max(I) \in I /\ \A i \in I : i <= Max(I)
<1> DEFINE U == {u \in Nat : \A i \in I : i <= u}
<1>1. PICK m \in U : \A u \in U : m <= u
  <2>1. U \in SUBSET Nat /\ U # {}
    OBVIOUS
  <2> HIDE DEF U
  <2> QED
    BY <2>1, LeastNatural
<1>2. m \in I
  <2> SUFFICES ASSUME m \notin I
               PROVE  FALSE
    OBVIOUS
  <2>1. \A i \in I : i \in Nat /\ i < m
    BY <1>1
  <2>2. PICK i \in I : i < m
    BY <2>1
  <2>3. m - 1 \in U
    BY <1>1, <2>1, <2>2
  <2> QED
    BY <1>1, <2>3
<1>3. m \in I /\ \A i \in I : m >= i
  BY <1>1, <1>2
<1>4. Max(I) \in I /\ \A i \in I : Max(I) >= i
  BY <1>3 DEF Max
<1> QED
  BY <1>4

\* Every entry of a sequence without the one at k is an entry of the sequence, and
\* no entry comes twice.
LEMMA RemoveAtEntries ==
    ASSUME NEW S, NEW seq \in Seq(S), NEW k \in 1 .. Len(seq)
    PROVE  /\ RemoveAt(seq, k) \in Seq(S)
           /\ Len(RemoveAt(seq, k)) = Len(seq) - 1
           /\ \A i \in 1 .. Len(seq) - 1 :
                 RemoveAt(seq, k)[i] = seq[IF i < k THEN i ELSE i + 1]
<1> DEFINE a == SubSeq(seq, 1, k - 1)
           b == SubSeq(seq, k + 1, Len(seq))
<1>1. Len(seq) \in Nat /\ \A i \in 1 .. Len(seq) : seq[i] \in S
  BY LenProperties, ElementOfSeq
<1>2. a \in Seq(S) /\ Len(a) = k - 1 /\ \A i \in 1 .. k - 1 : a[i] = seq[i]
  BY <1>1, SubSeqProperties
<1>3. /\ b \in Seq(S) /\ Len(b) = Len(seq) - k
      /\ \A i \in 1 .. Len(seq) - k : b[i] = seq[k + i]
  BY <1>1, SubSeqProperties
<1>4. RemoveAt(seq, k) = a \o b
  BY DEF RemoveAt
<1> HIDE DEF a, b
<1>5. /\ a \o b \in Seq(S) /\ Len(a \o b) = Len(seq) - 1
      /\ \A i \in 1 .. Len(seq) - 1 :
            (a \o b)[i] = IF i <= k - 1 THEN a[i] ELSE b[i - (k - 1)]
  BY <1>1, <1>2, <1>3, ConcatProperties
<1>6. ASSUME NEW i \in 1 .. Len(seq) - 1
      PROVE  (a \o b)[i] = seq[IF i < k THEN i ELSE i + 1]
  <2>1. CASE i < k
    BY <1>1, <1>2, <1>5, <2>1
  <2>2. CASE ~(i < k)
    <3>1. (a \o b)[i] = b[i - (k - 1)]
      BY <1>1, <1>5, <2>2
    <3>2. i - (k - 1) \in 1 .. Len(seq) - k /\ k + (i - (k - 1)) = i + 1
      BY <1>1, <2>2
    <3>3. b[i - (k - 1)] = seq[i + 1]
      BY <1>3, <3>2
    <3> QED
      BY <2>2, <3>1, <3>3
  <2> QED
    BY <2>1, <2>2
<1> QED
  BY <1>4, <1>5, <1>6

----------------------------------------------------------------------------
(* The handles of ext-workspace clients *)

\* Of the handles hs of a group, those that are not removed stand for different
\* workspaces, of the n there are.
Match(hs, n) ==
    /\ hs \in Seq(HandleState)
    /\ \A i \in 1 .. Len(hs) : ~hs[i].removed => hs[i].index < n
    /\ \A i, j \in 1 .. Len(hs) :
          ~hs[i].removed /\ ~hs[j].removed /\ hs[i].index = hs[j].index => i = j

\* The outputs show workspaces there are: a reload moves them to the last one.
Valid ==
    /\ count \in 1 .. MaxCount
    /\ current \in [Monitor -> 0 .. count - 1] /\ previous \in [Monitor -> 0 .. count - 1]

AllMatch ==
    /\ handles \in [Manager -> [Monitor -> Seq(HandleState)]]
    /\ \A m \in Manager, o \in Monitor : Match(handles[m][o], count)

Related ==
    /\ monitors \subseteq Monitor /\ target \in Monitor
    /\ bound \subseteq Manager /\ groups \in [Manager -> SUBSET Monitor]
    /\ misused \in BOOLEAN

ExtInv == Valid /\ AllMatch /\ Related

\* Handles that are announced stand for the workspaces from .. n - 1.
LEMMA AnnouncedMatch ==
    ASSUME NEW n \in 1 .. MaxCount, NEW from \in 0 .. n, NEW active
    PROVE  LET hs == Announced(from, n, active)
           IN  /\ Match(hs, n) /\ Len(hs) = n - from
               /\ \A j \in 1 .. n - from : hs[j].index = from + j - 1 /\ ~hs[j].removed
<1> DEFINE hs == Announced(from, n, active)
           h(j) == [index |-> from + j - 1, removed |-> FALSE,
                    active |-> active = from + j - 1]
<1>1. n - from \in Nat /\ n \in Nat /\ from \in Nat /\ n <= MaxCount /\ MaxCount \in Nat
  BY ExtAssumption
<1>2. \A j \in 1 .. n - from : /\ h(j) \in HandleState
                               /\ h(j).index = from + j - 1 /\ h(j).removed = FALSE
  <2> SUFFICES ASSUME NEW j \in 1 .. n - from
               PROVE  /\ h(j) \in HandleState
                      /\ h(j).index = from + j - 1 /\ h(j).removed = FALSE
    OBVIOUS
  <2>1. from + j - 1 \in Index
    BY <1>1 DEF Index
  <2>2. (active = from + j - 1) \in BOOLEAN
    OBVIOUS
  <2> QED
    BY <2>1, <2>2 DEF HandleState
<1>3. hs = [j \in 1 .. n - from |-> h(j)]
  BY DEF Announced
<1> HIDE DEF h
<1>4. hs \in Seq(HandleState) /\ Len(hs) = n - from
      /\ \A j \in 1 .. n - from : hs[j] = h(j)
  BY <1>1, <1>2, <1>3
<1> HIDE DEF hs
<1>5. \A j \in 1 .. n - from : hs[j].index = from + j - 1 /\ hs[j].removed = FALSE
  BY <1>2, <1>4
<1>6. Match(hs, n)
  BY <1>1, <1>4, <1>5 DEF Match
<1> QED
  BY <1>4, <1>5, <1>6 DEF hs

\* Handles that are sent a state, or marked as removed, keep their workspaces.
LEMMA ChangedMatch ==
    ASSUME NEW hs, NEW n \in 1 .. MaxCount, NEW k \in Nat, Match(hs, k),
           NEW f \in Seq(HandleState), Len(f) = Len(hs),
           \A i \in 1 .. Len(hs) :
              /\ f[i].index = hs[i].index
              /\ ~f[i].removed => ~hs[i].removed /\ f[i].index < n
    PROVE  Match(f, n)
BY DEF Match

\* A client destroys a handle.
LEMMA RemovedMatch ==
    ASSUME NEW hs, NEW n \in 1 .. MaxCount, Match(hs, n), NEW k \in 1 .. Len(hs)
    PROVE  Match(RemoveAt(hs, k), n)
<1> DEFINE r == RemoveAt(hs, k)
           at(i) == IF i < k THEN i ELSE i + 1
<1>1. /\ hs \in Seq(HandleState) /\ Len(hs) \in Nat
  BY LenProperties DEF Match
<1>2. /\ r \in Seq(HandleState) /\ Len(r) = Len(hs) - 1
      /\ \A i \in 1 .. Len(r) : r[i] = hs[at(i)]
  BY <1>1, RemoveAtEntries
<1>3. \A i \in 1 .. Len(r) : at(i) \in 1 .. Len(hs)
  BY <1>1, <1>2
<1>4. \A i, j \in 1 .. Len(r) : at(i) = at(j) => i = j
  BY <1>1, <1>2
<1> HIDE DEF r, at
<1>5. Match(r, n)
  <2>1. \A i \in 1 .. Len(r) : ~r[i].removed => r[i].index < n
    BY <1>2, <1>3 DEF Match
  <2>2. ASSUME NEW i \in 1 .. Len(r), NEW j \in 1 .. Len(r),
               ~r[i].removed, ~r[j].removed, r[i].index = r[j].index
        PROVE  i = j
    <3>1. at(i) = at(j)
      BY <1>2, <1>3, <2>2 DEF Match
    <3> QED
      BY <1>4, <3>1
  <2> QED
    BY <1>2, <2>1, <2>2 DEF Match
<1> QED
  BY <1>5 DEF r

\* What is announced after a reload starts past every workspace that has a handle.
LEMMA NextIndexPast ==
    ASSUME NEW hs, NEW n \in 1 .. MaxCount, Match(hs, n)
    PROVE  /\ NextIndex(hs) \in 0 .. n
           /\ \A i \in 1 .. Len(hs) : ~hs[i].removed => hs[i].index < NextIndex(hs)
<1> DEFINE L == {j \in DOMAIN hs : ~hs[j].removed}
           I == {0} \cup {hs[i].index + 1 : i \in L}
<1>1. /\ DOMAIN hs = 1 .. Len(hs) /\ n \in Nat
      /\ \A i \in 1 .. Len(hs) : hs[i].index \in Nat
  <2>1. hs \in Seq(HandleState)
    BY DEF Match
  <2>2. \A i \in 1 .. Len(hs) : hs[i] \in HandleState
    BY <2>1, ElementOfSeq
  <2> QED
    BY <2>1, <2>2, LenProperties, ExtAssumption DEF HandleState, Index
<1>2. I \in SUBSET Nat /\ I # {}
  BY <1>1
<1>3. \A i \in I : i <= n
  BY <1>1 DEF Match
<1>4. NextIndex(hs) = Max(I)
  BY DEF NextIndex
<1>5. \A i \in 1 .. Len(hs) : ~hs[i].removed => hs[i].index + 1 \in I
  BY <1>1
<1> HIDE DEF I
<1>6. Max(I) \in I /\ \A i \in I : i <= Max(I)
  BY <1>1, <1>2, <1>3, MaxIsGreatest
<1>7. Max(I) \in 0 .. n
  <2>1. Max(I) \in Nat /\ Max(I) <= n
    BY <1>2, <1>3, <1>6
  <2> QED
    BY <1>1, <2>1
<1>8. ASSUME NEW i \in 1 .. Len(hs), ~hs[i].removed
      PROVE  hs[i].index < Max(I)
  <2>1. hs[i].index + 1 <= Max(I)
    BY <1>5, <1>6, <1>8
  <2> QED
    BY <1>1, <1>7, <2>1
<1> QED
  BY <1>4, <1>7, <1>8

\* A reload leaves one handle for each workspace there is now.
LEMMA RebuiltMatch ==
    ASSUME NEW hs, NEW k \in 1 .. MaxCount, Match(hs, k),
           NEW n \in 1 .. MaxCount, NEW active
    PROVE  Match(Rebuilt(hs, n, active), n)
<1> DEFINE kept == [i \in DOMAIN hs |-> Marked(hs[i], n)]
           new == Announced(NextIndex(kept), n, active)
           p == Len(hs)
<1>1. /\ hs \in Seq(HandleState) /\ DOMAIN hs = 1 .. p /\ p \in Nat
      /\ n \in Nat /\ k \in Nat
  BY LenProperties, ExtAssumption DEF Match
<1>2. \A i \in 1 .. p : /\ Marked(hs[i], n) \in HandleState
                        /\ Marked(hs[i], n).index = hs[i].index
                        /\ ~Marked(hs[i], n).removed =>
                              ~hs[i].removed /\ Marked(hs[i], n).index < n
  <2> SUFFICES ASSUME NEW h \in HandleState
               PROVE  /\ Marked(h, n) \in HandleState
                      /\ Marked(h, n).index = h.index
                      /\ ~Marked(h, n).removed => ~h.removed /\ Marked(h, n).index < n
    BY <1>1, ElementOfSeq
  <2>1. h.index \in Nat
    BY DEF HandleState, Index
  <2>2. CASE h.index >= n
    <3>1. Marked(h, n) = [h EXCEPT !.removed = TRUE]
      BY <2>2 DEF Marked
    <3> QED
      BY <3>1 DEF HandleState
  <2>3. CASE ~(h.index >= n)
    BY <1>1, <2>1, <2>3 DEF Marked
  <2> QED
    BY <2>2, <2>3
<1>3. /\ kept \in Seq(HandleState) /\ Len(kept) = p
      /\ \A i \in 1 .. p : kept[i] = Marked(hs[i], n)
  BY <1>1, <1>2
<1> HIDE DEF kept
<1>4. Match(kept, n)
  BY <1>1, <1>2, <1>3, ChangedMatch
<1> DEFINE from == NextIndex(kept)
<1>5. from \in 0 .. n /\ \A i \in 1 .. p : ~kept[i].removed => kept[i].index < from
  BY <1>3, <1>4, NextIndexPast
<1> HIDE DEF from
<1>6. /\ Match(new, n) /\ Len(new) = n - from
      /\ \A j \in 1 .. n - from : new[j].index = from + j - 1 /\ ~new[j].removed
  <2>1. new = Announced(from, n, active)
    BY DEF from
  <2> HIDE DEF new
  <2> QED
    BY <1>5, <2>1, AnnouncedMatch
<1>7. Rebuilt(hs, n, active) = kept \o new
  BY DEF Rebuilt, kept
<1> HIDE DEF new
<1> DEFINE c == kept \o new
<1>8. /\ c \in Seq(HandleState) /\ Len(c) = p + (n - from)
      /\ \A i \in 1 .. p + (n - from) : c[i] = IF i <= p THEN kept[i] ELSE new[i - p]
  <2>1. new \in Seq(HandleState) /\ Len(new) = n - from
    BY <1>6 DEF Match
  <2>2. /\ c \in Seq(HandleState) /\ Len(c) = Len(kept) + Len(new)
        /\ \A i \in 1 .. Len(kept) + Len(new) :
              c[i] = IF i <= Len(kept) THEN kept[i] ELSE new[i - Len(kept)]
    <3>1. kept \in Seq(HandleState)
      BY <1>3
    <3> QED
      BY <2>1, <3>1, ConcatProperties, Zenon
  <2> QED
    BY <1>3, <2>1, <2>2
<1> HIDE DEF c
<1>9. ASSUME NEW i \in 1 .. p + (n - from)
      PROVE  \/ i \in 1 .. p /\ c[i] = kept[i]
             \/ /\ i - p \in 1 .. n - from /\ c[i] = new[i - p]
                /\ c[i].index = from + (i - p) - 1
  BY <1>1, <1>5, <1>6, <1>8
<1>10. \A i \in 1 .. p : kept[i].index \in Nat
  <2>1. \A i \in 1 .. p : kept[i] \in HandleState
    BY <1>3, ElementOfSeq
  <2> QED
    BY <2>1 DEF HandleState, Index
<1>11. \A i \in 1 .. Len(c) : ~c[i].removed => c[i].index < n
  BY <1>3, <1>4, <1>5, <1>6, <1>8, <1>9 DEF Match
<1>12. ASSUME NEW i \in 1 .. Len(c), NEW j \in 1 .. Len(c),
              ~c[i].removed, ~c[j].removed, c[i].index = c[j].index
       PROVE  i = j
  <2>1. /\ i \in 1 .. p + (n - from) /\ j \in 1 .. p + (n - from)
        /\ from \in Nat /\ n - from \in Nat
    BY <1>1, <1>5, <1>8
  <2>2. CASE i \in 1 .. p /\ c[i] = kept[i] /\ j \in 1 .. p /\ c[j] = kept[j]
    BY <1>3, <1>4, <1>12, <2>2 DEF Match
  <2>3. ASSUME NEW a \in 1 .. p, c[a] = kept[a], ~c[a].removed,
               NEW b \in 1 .. p + (n - from), c[b].index = from + (b - p) - 1,
               b - p \in 1 .. n - from
        PROVE  c[a].index # c[b].index
    <3>1. c[a].index < from /\ c[a].index \in Nat
      BY <1>5, <1>10, <2>3
    <3>2. from + (b - p) - 1 >= from /\ from + (b - p) - 1 \in Int
      BY <1>1, <2>1, <2>3
    <3>3. c[b].index >= from /\ c[b].index \in Int
      BY <2>3, <3>2, Zenon
    <3> QED
      BY <2>1, <3>1, <3>3
  <2>4. CASE /\ i - p \in 1 .. n - from /\ c[i].index = from + (i - p) - 1
             /\ j - p \in 1 .. n - from /\ c[j].index = from + (j - p) - 1
    <3>1. from + (i - p) - 1 = from + (j - p) - 1
      BY <1>12, <2>4
    <3>2. i \in Int /\ j \in Int /\ p \in Int /\ from \in Int
      BY <1>1, <2>1
    <3> QED
      BY <3>1, <3>2
  <2> QED
    BY <1>9, <1>12, <2>1, <2>2, <2>3, <2>4
<1>13. Match(c, n)
  BY <1>8, <1>11, <1>12 DEF Match
<1> QED
  BY <1>7, <1>13 DEF c

\* A group without handles.
LEMMA NoneMatch == \A n \in Nat : Match(<<>>, n)
BY DEF Match

\* The handles of a group after a notification: the one of the active workspace, and
\* no other, is active, but for removed ones.
LEMMA SentMatch ==
    ASSUME NEW hs, NEW n \in 1 .. MaxCount, Match(hs, n), NEW w
    PROVE  LET f == [i \in DOMAIN hs |-> SentState(hs[i], w)]
           IN  /\ Match(f, n) /\ DOMAIN f = DOMAIN hs
               /\ \A i \in DOMAIN f : ~f[i].removed => f[i].active = (f[i].index = w)
<1> DEFINE f == [i \in DOMAIN hs |-> SentState(hs[i], w)]
<1>1. /\ hs \in Seq(HandleState) /\ DOMAIN hs = 1 .. Len(hs) /\ Len(hs) \in Nat
  BY LenProperties DEF Match
<1>2. ASSUME NEW h \in HandleState
      PROVE  /\ SentState(h, w) \in HandleState
             /\ SentState(h, w).index = h.index
             /\ SentState(h, w).removed = h.removed
             /\ ~h.removed => SentState(h, w).active = (h.index = w)
  <2> DEFINE e == (h.index = w)
             g == [h EXCEPT !.active = e]
  <2>1. e \in BOOLEAN
    OBVIOUS
  <2>2. SentState(h, w) = IF h.removed THEN h ELSE g
    BY DEF SentState
  <2> HIDE DEF e
  <2>3. /\ g \in HandleState /\ g.index = h.index /\ g.removed = h.removed
        /\ g.active = e
    BY <2>1 DEF HandleState
  <2> HIDE DEF g
  <2>4. h.removed => SentState(h, w) = h
    BY <2>2
  <2>5. ~h.removed => SentState(h, w) = g
    BY <2>2
  <2> QED
    BY <2>3, <2>4, <2>5 DEF e
<1>3. \A i \in 1 .. Len(hs) :
         /\ f[i] \in HandleState /\ f[i].index = hs[i].index
         /\ f[i].removed = hs[i].removed
         /\ ~f[i].removed => f[i].active = (f[i].index = w)
  <2> SUFFICES ASSUME NEW i \in 1 .. Len(hs)
               PROVE  /\ f[i] \in HandleState /\ f[i].index = hs[i].index
                      /\ f[i].removed = hs[i].removed
                      /\ ~f[i].removed => f[i].active = (f[i].index = w)
    OBVIOUS
  <2>1. hs[i] \in HandleState
    BY <1>1, ElementOfSeq
  <2>2. f[i] = SentState(hs[i], w)
    BY <1>1
  <2> HIDE DEF f
  <2> QED
    BY <1>2, <2>1, <2>2
<1>4. /\ f \in Seq(HandleState) /\ Len(f) = Len(hs) /\ DOMAIN f = 1 .. Len(hs)
  BY <1>1, <1>3
<1> HIDE DEF f
<1>5. n \in Nat
  BY ExtAssumption
<1>6. Match(f, n)
  BY <1>3, <1>4 DEF Match
<1> QED
  BY <1>1, <1>3, <1>4, <1>6 DEF f

\* ext_workspace_notify
LEMMA NotifyShows ==
    ASSUME Valid, AllMatch, NEW active, NEW m \in Manager, NEW o \in Monitor
    PROVE  LET hs == Notified(active)[m][o]
           IN  /\ Match(hs, count)
               /\ \A i \in DOMAIN hs :
                     ~hs[i].removed => hs[i].active = (hs[i].index = active[o])
<1>1. Notified(active)[m][o] =
         [i \in DOMAIN handles[m][o] |-> SentState(handles[m][o][i], active[o])]
  BY DEF Notified
<1> QED
  BY <1>1, SentMatch DEF Valid, AllMatch

\* Every walk over the groups of all managers leaves the handles as they should be.
LEMMA NotifyMatch ==
    ASSUME Valid, AllMatch, Related', count' = count, handles' = Notified(current')
    PROVE  AllMatch' /\ ViewCurrent'
<1>1. \A m \in Manager, o \in Monitor :
         /\ Match(handles'[m][o], count)
         /\ \A i \in DOMAIN handles'[m][o] :
               ~handles'[m][o][i].removed =>
                   handles'[m][o][i].active = (handles'[m][o][i].index = current'[o])
  BY NotifyShows
<1>2. handles' = [m \in Manager |-> [o \in Monitor |-> handles'[m][o]]]
  BY DEF Notified
<1>3. AllMatch'
  BY <1>1, <1>2 DEF AllMatch, Match
<1>4. bound' \subseteq Manager /\ \A m \in bound' : groups'[m] \subseteq Monitor
  BY DEF Related
<1>5. ASSUME NEW m \in bound', NEW o \in groups'[m], NEW i \in DOMAIN handles'[m][o],
             ~handles'[m][o][i].removed
      PROVE  handles'[m][o][i].active = (current'[o] = handles'[m][o][i].index)
  <2>1. (current'[o] = handles'[m][o][i].index) = (handles'[m][o][i].index = current'[o])
    OBVIOUS
  <2> QED
    BY <1>1, <1>4, <1>5, <2>1
<1> QED
  BY <1>3, <1>5 DEF ViewCurrent

\* A switch to a workspace there is, by any of the three ways.
LEMMA ShowKeeps ==
    ASSUME ExtInv, Related', NEW o \in Monitor, NEW w \in 0 .. count - 1,
           \/ /\ current' = [current EXCEPT ![o] = w]
              /\ previous' \in {previous, [previous EXCEPT ![o] = current[o]]}
              /\ count' = count /\ handles' = Notified(current')
           \/ UNCHANGED <<count, current, previous, handles>>
    PROVE  Valid' /\ AllMatch' /\ (current' # current => ViewCurrent')
<1>1. CASE UNCHANGED <<count, current, previous, handles>>
  BY <1>1 DEF ExtInv, Valid, AllMatch
<1>2. CASE /\ current' = [current EXCEPT ![o] = w]
           /\ previous' \in {previous, [previous EXCEPT ![o] = current[o]]}
           /\ count' = count /\ handles' = Notified(current')
  <2>1. Valid'
    BY <1>2 DEF ExtInv, Valid
  <2>2. AllMatch' /\ ViewCurrent'
    BY <1>2, NotifyMatch DEF ExtInv
  <2> QED
    BY <2>1, <2>2
<1> QED
  BY <1>1, <1>2

\* workspace::switch_to
LEMMA SwitchToKeeps ==
    ASSUME ExtInv, Related', NEW o \in Monitor, NEW w \in Index, SwitchTo(o, w)
    PROVE  Valid' /\ AllMatch' /\ (current' # current => ViewCurrent')
<1>1. w \in Nat /\ count \in Nat /\ current[o] \in 0 .. count - 1
      /\ previous[o] \in 0 .. count - 1
  BY ExtAssumption DEF ExtInv, Valid, Index
<1>2. w \in 0 .. count - 1
  BY <1>1 DEF SwitchTo
<1>3. CASE Show(o, w)
  BY <1>2, <1>3, ShowKeeps DEF Show, Notify
<1>4. CASE Show(o, previous[o])
  BY <1>1, <1>4, ShowKeeps DEF Show, Notify
<1>5. CASE UNCHANGED <<count, current, previous, handles>>
  BY <1>2, <1>5, ShowKeeps
<1> QED
  BY <1>3, <1>4, <1>5 DEF SwitchTo

\* What a switch does not touch.
LEMMA SwitchToRelated ==
    ASSUME ExtInv, NEW o \in Monitor, NEW w, SwitchTo(o, w), target' \in Monitor,
           UNCHANGED monitors
    PROVE  Related'
BY DEF ExtInv, Related, SwitchTo, Show, Notify

\* ext_workspace_rebuild, after a reload
LEMMA ReloadKeeps ==
    ASSUME ExtInv, NEW n \in 1 .. MaxCount, ReloadCount(n)
    PROVE  ExtInv' /\ (count' = count => current' = current)
<1>1. n \in Nat /\ count \in Nat /\ MaxCount \in Nat
  BY ExtAssumption DEF ExtInv, Valid
<1>2. ASSUME NEW ws \in [Monitor -> 0 .. count - 1]
      PROVE  /\ Clamped(ws, n) \in [Monitor -> 0 .. n - 1]
             /\ n = count => Clamped(ws, n) = ws
  <2>1. \A o \in Monitor : ws[o] \in Nat /\ ws[o] < count
    BY <1>1
  <2>2. \A o \in Monitor : /\ Clamped(ws, n)[o] \in 0 .. n - 1
                           /\ n = count => Clamped(ws, n)[o] = ws[o]
    BY <1>1, <2>1 DEF Clamped
  <2> QED
    BY <2>2 DEF Clamped
<1>3. Valid' /\ (count' = count => current' = current)
  BY <1>2 DEF ExtInv, Valid, ReloadCount
<1>4. ASSUME NEW m \in Manager, NEW o \in Monitor
      PROVE  Match(handles'[m][o], n)
  <2>1. CASE o \in groups[m]
    <3>1. handles'[m][o] = Rebuilt(handles[m][o], n, current'[o])
      BY <1>4, <2>1 DEF ReloadCount
    <3> QED
      BY <3>1, RebuiltMatch DEF ExtInv, Valid, AllMatch
  <2>2. CASE o \notin groups[m]
    <3>1. handles'[m][o] = <<>>
      BY <1>4, <2>2 DEF ReloadCount
    <3> QED
      BY <1>1, <3>1, NoneMatch
  <2> QED
    BY <2>1, <2>2
<1>5. AllMatch'
  <2>1. handles' = [m \in Manager |-> [o \in Monitor |-> handles'[m][o]]]
    BY DEF ReloadCount
  <2>2. handles' \in [Manager -> [Monitor -> Seq(HandleState)]]
    BY <1>4, <2>1 DEF Match
  <2>3. count' = n
    BY DEF ReloadCount
  <2> QED
    BY <1>4, <2>2, <2>3 DEF AllMatch
<1>6. Related'
  BY DEF ExtInv, Related, ReloadCount
<1> QED
  BY <1>3, <1>5, <1>6 DEF ExtInv

\* Clients bind the manager, and destroy handles, groups and managers.
LEMMA ObjectsKeep ==
    ASSUME ExtInv, NEW m \in Manager,
           \/ Bind(m) \/ ManagerDestroy(m)
           \/ \E o \in Monitor : \/ GroupDestroy(m, o)
                                 \/ \E i \in DOMAIN handles[m][o] : HandleDestroy(m, o, i)
    PROVE  ExtInv' /\ UNCHANGED current
<1>1. /\ handles \in [Manager -> [Monitor -> Seq(HandleState)]]
      /\ \A v \in Manager, o \in Monitor : Match(handles[v][o], count)
      /\ count \in 1 .. MaxCount /\ count \in Nat
  BY ExtAssumption DEF ExtInv, AllMatch, Valid
<1>2. ASSUME NEW g \in [Monitor -> Seq(HandleState)],
             \A o \in Monitor : Match(g[o], count),
             handles' = [handles EXCEPT ![m] = g], count' = count
      PROVE  AllMatch'
  BY <1>1, <1>2 DEF AllMatch
<1>3. ASSUME NEW o \in Monitor, NEW hs, Match(hs, count),
             handles' = [handles EXCEPT ![m][o] = hs], count' = count
      PROVE  AllMatch'
  <2>1. hs \in Seq(HandleState)
    BY <1>3 DEF Match
  <2> QED
    BY <1>1, <1>3, <2>1 DEF AllMatch
<1>4. <<>> \in Seq(HandleState) /\ Match(<<>>, count)
  BY <1>1, NoneMatch
<1>5. CASE Bind(m)
  <2> DEFINE g == [o \in Monitor |-> IF o \in monitors THEN Announced(0, count, current[o])
                                     ELSE <<>>]
  <2>1. 0 \in 0 .. count
    BY <1>1
  <2>2. \A o \in Monitor : Match(g[o], count)
    BY <1>1, <1>4, <2>1, AnnouncedMatch
  <2>3. g \in [Monitor -> Seq(HandleState)]
    BY <2>2 DEF Match
  <2>4. handles' = [handles EXCEPT ![m] = g] /\ count' = count
    BY <1>5 DEF Bind
  <2> HIDE DEF g
  <2>5. AllMatch'
    BY <1>2, <2>2, <2>3, <2>4
  <2> QED
    BY <1>5, <2>5 DEF ExtInv, Valid, Related, Bind
<1>6. CASE ManagerDestroy(m)
  <2> DEFINE g == [o \in Monitor |-> <<>>]
  <2>1. g \in [Monitor -> Seq(HandleState)] /\ \A o \in Monitor : Match(g[o], count)
    BY <1>4
  <2>2. handles' = [handles EXCEPT ![m] = g] /\ count' = count
    BY <1>6 DEF ManagerDestroy
  <2> HIDE DEF g
  <2>3. AllMatch'
    BY <1>2, <2>1, <2>2
  <2> QED
    BY <1>6, <2>3 DEF ExtInv, Valid, Related, ManagerDestroy
<1>7. ASSUME NEW o \in Monitor, GroupDestroy(m, o)
      PROVE  ExtInv' /\ UNCHANGED current
  <2>1. AllMatch'
    BY <1>3, <1>4, <1>7 DEF GroupDestroy
  <2> QED
    BY <1>7, <2>1 DEF ExtInv, Valid, Related, GroupDestroy
<1>8. ASSUME NEW o \in Monitor, NEW i \in DOMAIN handles[m][o], HandleDestroy(m, o, i)
      PROVE  ExtInv' /\ UNCHANGED current
  <2> DEFINE hs == RemoveAt(handles[m][o], i)
  <2>1. i \in 1 .. Len(handles[m][o])
    BY <1>1, LenProperties
  <2>2. Match(hs, count)
    BY <1>1, <2>1, RemovedMatch
  <2>3. handles' = [handles EXCEPT ![m][o] = hs] /\ count' = count
    BY <1>1, <1>8 DEF HandleDestroy
  <2> HIDE DEF hs
  <2>4. AllMatch'
    BY <1>3, <2>2, <2>3
  <2> QED
    BY <1>8, <2>4 DEF ExtInv, Valid, Related, HandleDestroy
<1> QED
  BY <1>5, <1>6, <1>7, <1>8

\* Every step keeps the invariant, and one that switches a workspace is seen.
LEMMA ExtStep ==
    ASSUME ExtInv, ExtNext
    PROVE  /\ ExtInv'
           /\ current' # current /\ <<count, monitors>>' = <<count, monitors>>
                => ViewCurrent'
<1>1. ASSUME NEW m \in Manager, NEW o \in Monitor, NEW i \in DOMAIN handles[m][o],
             Activate(m, o, i)
      PROVE  ExtInv' /\ (current' # current => ViewCurrent')
  <2>1. CASE SwitchTo(o, handles[m][o][i].index)
    <3>1. Related'
      BY <1>1, <2>1, SwitchToRelated DEF Activate, SwitchTo, Show
    <3>2. handles[m][o][i].index \in Index
      <4>1. handles[m][o] \in Seq(HandleState) /\ i \in 1 .. Len(handles[m][o])
        BY <1>1, LenProperties DEF ExtInv, AllMatch
      <4>2. handles[m][o][i] \in HandleState
        BY <4>1, ElementOfSeq
      <4> QED
        BY <4>2 DEF HandleState
    <3> QED
      BY <2>1, <3>1, <3>2, SwitchToKeeps DEF ExtInv
  <2>2. CASE UNCHANGED <<count, monitors, current, previous, bound, groups, handles>>
             /\ misused' = TRUE
    BY <1>1, <2>2 DEF ExtInv, Valid, AllMatch, Related, Activate
  <2> QED
    BY <1>1, <2>1, <2>2 DEF Activate
<1>2. ASSUME NEW w \in Index, UserSwitch(w)
      PROVE  ExtInv' /\ (current' # current => ViewCurrent')
  <2>1. target \in Monitor /\ SwitchTo(target, w) /\ target' \in Monitor
    BY <1>2 DEF UserSwitch, ExtInv, Related
  <2>2. Related'
    BY <1>2, <2>1, SwitchToRelated DEF UserSwitch, SwitchTo, Show
  <2> QED
    BY <2>1, <2>2, SwitchToKeeps DEF ExtInv
<1>3. ASSUME NEW w \in Index, NEW o \in Monitor, OverviewSwitch(o, w)
      PROVE  ExtInv' /\ (current' # current => ViewCurrent')
  <2>1. w \in 0 .. count - 1
    BY <1>3, ExtAssumption DEF OverviewSwitch, ExtInv, Valid, Index
  <2>2. Related'
    BY <1>3 DEF OverviewSwitch, Notify, ExtInv, Related
  <2> QED
    BY <1>3, <2>1, <2>2, ShowKeeps DEF OverviewSwitch, Notify, ExtInv
<1>4. ASSUME NEW o \in Monitor, Focus(o)
      PROVE  ExtInv' /\ UNCHANGED current
  BY <1>4 DEF Focus, ExtInv, Valid, AllMatch, Related
<1>5. ASSUME NEW o \in Monitor, Plug(o)
      PROVE  ExtInv' /\ monitors' # monitors
  <2>1. 0 \in 0 .. count - 1
    BY ExtAssumption DEF ExtInv, Valid
  <2> QED
    BY <1>5, <2>1 DEF Plug, ExtInv, Valid, AllMatch, Related
<1>6. ASSUME NEW o \in Monitor, Unplug(o)
      PROVE  ExtInv' /\ UNCHANGED current
  BY <1>6 DEF Unplug, ExtInv, Valid, AllMatch, Related
<1> QED
  BY <1>1, <1>2, <1>3, <1>4, <1>5, <1>6, ObjectsKeep, ReloadKeeps DEF ExtNext

\* The first state.
LEMMA ExtInitInv == ExtInit => ExtInv
<1> SUFFICES ASSUME ExtInit
             PROVE  ExtInv
  OBVIOUS
<1>1. count \in 1 .. MaxCount /\ count \in Nat
  BY ExtAssumption DEF ExtInit
<1>2. <<>> \in Seq(HandleState) /\ Match(<<>>, count)
  BY <1>1, NoneMatch
<1>3. Valid /\ AllMatch
  BY <1>1, <1>2 DEF ExtInit, Valid, AllMatch
<1> QED
  BY <1>3 DEF ExtInit, ExtInv, Related

\* ExtInv is an invariant, for every number of clients, outputs and workspaces.
LEMMA ExtInvariant == ExtSpec => []ExtInv
<1>1. ExtInv /\ UNCHANGED extVars => ExtInv'
  BY DEF ExtInv, Valid, AllMatch, Related, extVars
<1> QED
  BY <1>1, ExtInitInv, ExtStep, PTL DEF ExtSpec

\* However reloads that add and remove workspaces and the destroy requests of the
\* clients alternate, no group has two handles for a workspace or one past the end.
THEOREM HandlesUnique == ExtSpec => []HandlesMatch
<1>1. ExtInv => HandlesMatch
  <2> SUFFICES ASSUME ExtInv, NEW m \in bound, NEW o \in groups[m]
               PROVE  LET live == {i \in DOMAIN handles[m][o] : ~handles[m][o][i].removed}
                      IN  /\ \A i \in live : handles[m][o][i].index < count
                          /\ \A i, j \in live :
                                handles[m][o][i].index = handles[m][o][j].index => i = j
    BY DEF HandlesMatch
  <2>1. Match(handles[m][o], count)
    BY DEF ExtInv, AllMatch, Related
  <2>2. DOMAIN handles[m][o] = 1 .. Len(handles[m][o])
    BY <2>1, LenProperties DEF Match
  <2> QED
    BY <2>1, <2>2 DEF Match
<1> QED
  BY <1>1, ExtInvariant, PTL

\* Nothing in the protocol's state ever has the wrong type.
THEOREM ExtTypeCorrect == ExtSpec => []ExtTypeOK
<1>1. ExtInv => ExtTypeOK
  <2>1. MaxCount \in Nat
    BY ExtAssumption
  <2> QED
    BY <2>1 DEF ExtInv, Valid, AllMatch, Related, ExtTypeOK, Index
<1> QED
  BY <1>1, ExtInvariant, PTL

\* Whoever switches a workspace, the user, a client or the overview: every client is
\* left showing the workspaces the outputs show.
THEOREM SwitchesShown == ExtSpec => SwitchesSeen
<1>1. ExtInv /\ [ExtNext]_extVars =>
         [current' # current /\ <<count, monitors>>' = <<count, monitors>> => ViewCurrent']_extVars
  BY ExtStep DEF extVars
<1> QED
  BY <1>1, ExtInvariant, PTL DEF ExtSpec, SwitchesSeen

----------------------------------------------------------------------------
(* Animations *)

WinState ==
    [life : {"new", "mapped", "unmapped"}, ws : Desk, node : BOOLEAN,
     geo : BOOLEAN, hide : BOOLEAN, from : Position, to : Position,
     cur : Position, fade : BOOLEAN, dying : BOOLEAN]

\* A window r on its way to where the layout wants it: it is animated to there, or
\* it is there.
Homing(r) ==
    /\ r.geo = TRUE => r.hide = FALSE /\ r.to = "home"
    /\ r.geo = FALSE => r.cur = "home"

\* A fade between workspaces leaves the old windows on the screen, so the effects are
\* those that the runs check.
NoFadingSwitch == \A e \in Effects : e.switch # "fade"

\* What is on the screen of a mapped window r while workspace s is active: it is shown
\* if it is on s, and hidden if it is not, unless it is still sliding out.
Displayed(r, s) ==
    NoFadingSwitch =>
        /\ r.ws = s => r.node = TRUE
        /\ r.ws # s => (r.node = TRUE => r.geo = TRUE)

\* What holds of it: it does not die, and if it is on s it is on its way home.
Fits(r, s) ==
    /\ r.dying = FALSE
    /\ Displayed(r, s)
    /\ r.ws = s => Homing(r)

\* A window of any kind; F are those that fade out.  One that is not yet mapped is as
\* it was created.
Sane(r, s, fades) ==
    /\ r \in WinState
    /\ r.life = "new" => r = NewWin
    /\ r.life = "mapped" => Fits(r, s)
    /\ fades => r.life = "unmapped" /\ r.dying = TRUE

AnimationInv ==
    /\ DOMAIN wins = Surface /\ wins = [w \in Surface |-> wins[w]]
    /\ shown \in Desk /\ fading \subseteq Surface /\ fx \in Effects
    /\ \A w \in Surface : Sane(wins[w], shown, w \in fading)

\* A new window.
LEMMA NewWinSane == \A s \in Desk : Sane(NewWin, s, FALSE)
BY DEF Sane, NewWin, WinState, Position, Desk

\* The position a window has after it is arranged.
LEMMA SetGeometrySane ==
    ASSUME NEW r \in WinState, NEW moved
    PROVE  LET t == SetGeometry(r, moved)
           IN  /\ t \in WinState /\ Homing(t) /\ t.to = "home"
               /\ t.life = r.life /\ t.ws = r.ws /\ t.node = r.node
               /\ t.fade = r.fade /\ t.dying = r.dying
<1> DEFINE t == SetGeometry(r, moved)
           at == IF r.cur = "none" THEN (IF fx.open \in {"fade", "none"} THEN "home" ELSE "mid")
                 ELSE IF r.cur = "home" THEN "mid" ELSE r.cur
           g == [r EXCEPT !.geo = TRUE, !.hide = FALSE, !.from = at, !.cur = at, !.to = "home"]
           h == [r EXCEPT !.geo = FALSE, !.cur = "home", !.to = "home"]
<1>1. t = g \/ t = h
  BY DEF SetGeometry
<1>2. at \in Position
  BY DEF WinState, Position
<1> HIDE DEF at, t
<1>3. /\ g \in WinState /\ Homing(g) /\ g.to = "home"
      /\ g.life = r.life /\ g.ws = r.ws /\ g.node = r.node
      /\ g.fade = r.fade /\ g.dying = r.dying
  BY <1>2 DEF WinState, Homing, Position
<1>4. /\ h \in WinState /\ Homing(h) /\ h.to = "home"
      /\ h.life = r.life /\ h.ws = r.ws /\ h.node = r.node
      /\ h.fade = r.fade /\ h.dying = r.dying
  BY DEF WinState, Homing, Position
<1> HIDE DEF g, h
<1> QED
  BY <1>1, <1>3, <1>4 DEF t

\* arrange_windows makes the windows of the active workspace fit, if they are shown,
\* and leaves the others as they are.
ArrangedOf(r, a, s) ==
    /\ r.life = "mapped" /\ r.ws = s =>
          /\ a \in WinState /\ Homing(a) /\ a.to = "home"
          /\ a.life = r.life /\ a.ws = r.ws /\ a.node = r.node
          /\ a.fade = r.fade /\ a.dying = r.dying
    /\ ~(r.life = "mapped" /\ r.ws = s) => a = r

\* arrange_windows does so, of each window.
LEMMA ArrangeOf ==
    ASSUME NEW W, NEW s, NEW moved, NEW w \in Surface, W[w] \in WinState
    PROVE  ArrangedOf(W[w], Arrange(W, s, moved)[w], s)
<1>1. CASE w \in OnShown(W, s)
  <2>1. Arrange(W, s, moved)[w] = SetGeometry(W[w], w \in moved)
    BY <1>1 DEF Arrange
  <2>2. W[w].life = "mapped" /\ W[w].ws = s
    BY <1>1 DEF OnShown
  <2> QED
    BY <2>1, <2>2, SetGeometrySane DEF ArrangedOf
<1>2. CASE w \notin OnShown(W, s)
  BY <1>2 DEF Arrange, OnShown, ArrangedOf
<1> QED
  BY <1>1, <1>2

\* A window that is sane but for its position, and is shown when it should be, is sane
\* after it is arranged.
LEMMA ArrangedSane ==
    ASSUME NEW r \in WinState, NEW a, NEW s, NEW fades \in BOOLEAN, ArrangedOf(r, a, s),
           r.life = "new" => r = NewWin,
           r.life = "mapped" => r.dying = FALSE /\ Displayed(r, s),
           fades = TRUE => r.life = "unmapped" /\ r.dying = TRUE
    PROVE  Sane(a, s, fades)
<1>1. CASE r.life = "mapped" /\ r.ws = s
  BY <1>1 DEF ArrangedOf, Sane, Fits, Displayed
<1>2. CASE ~(r.life = "mapped" /\ r.ws = s)
  BY <1>2 DEF ArrangedOf, Sane, Fits, Displayed
<1> QED
  BY <1>1, <1>2

\* In particular if it was sane before.
LEMMA SaneArranged ==
    ASSUME NEW r, NEW a, NEW s, NEW fades \in BOOLEAN, Sane(r, s, fades), ArrangedOf(r, a, s)
    PROVE  Sane(a, s, fades)
<1>1. r \in WinState
  BY DEF Sane
<1>2. /\ r.life = "new" => r = NewWin
      /\ r.life = "mapped" => r.dying = FALSE /\ Displayed(r, s)
      /\ fades = TRUE => r.life = "unmapped" /\ r.dying = TRUE
  BY DEF Sane, Fits
<1> QED
  BY <1>1, <1>2, ArrangedSane

\* The rectangle of a window in a frame.
LEMMA GeoStepFits ==
    ASSUME NEW r \in WinState, NEW ends
    PROVE  LET g == GeoStep(r, ends)
           IN  /\ g \in WinState /\ g.life = r.life /\ g.dying = r.dying
               /\ Fits(r, shown) => Fits(g, shown)
<1> DEFINE cur == IF ends THEN r.to ELSE "mid"
           inside == r.ws = shown /\ cur # "off"
           stays == inside /\ ~(r.dying /\ ~r.fade)
           a == [r EXCEPT !.cur = cur, !.node = inside]
           b == [r EXCEPT !.geo = FALSE, !.node = FALSE, !.cur = r.from]
           c == [r EXCEPT !.geo = FALSE, !.cur = cur, !.node = stays]
           g == GeoStep(r, ends)
<1>1. /\ r.geo \in BOOLEAN /\ r.hide \in BOOLEAN /\ r.dying \in BOOLEAN
      /\ r.cur \in Position /\ r.from \in Position /\ r.to \in Position
      /\ r.node \in BOOLEAN /\ r.fade \in BOOLEAN
  BY DEF WinState
<1>2. /\ r.geo = FALSE => g = r
      /\ r.geo = TRUE /\ ~ends => g = a
      /\ r.geo = TRUE /\ ends /\ r.hide = TRUE => g = b
      /\ r.geo = TRUE /\ ends /\ r.hide = FALSE => g = c
  BY <1>1 DEF GeoStep
<1>3. /\ cur \in Position /\ inside \in BOOLEAN /\ stays \in BOOLEAN
      /\ r.ws # shown => inside = FALSE /\ stays = FALSE
      /\ r.ws = shown /\ ~ends => inside = TRUE
      /\ ends => cur = r.to
  BY <1>1 DEF Position
<1>4. r.dying = FALSE /\ r.ws = shown /\ cur = "home" => stays = TRUE
  OBVIOUS
<1> HIDE DEF cur, inside, stays, g
<1>5. /\ a \in WinState /\ a.life = r.life /\ a.dying = r.dying /\ a.ws = r.ws
      /\ a.node = inside /\ a.geo = r.geo /\ a.hide = r.hide /\ a.to = r.to
  BY <1>3 DEF WinState
<1>6. /\ b \in WinState /\ b.life = r.life /\ b.dying = r.dying /\ b.ws = r.ws
      /\ b.node = FALSE /\ b.geo = FALSE
  BY <1>1 DEF WinState
<1>7. /\ c \in WinState /\ c.life = r.life /\ c.dying = r.dying /\ c.ws = r.ws
      /\ c.node = stays /\ c.geo = FALSE /\ c.cur = cur
  BY <1>3 DEF WinState
<1> HIDE DEF a, b, c
<1>8. CASE r.geo = FALSE
  BY <1>2, <1>8 DEF g
<1>9. CASE r.geo = TRUE /\ ~ends
  <2>1. Fits(r, shown) => Fits(a, shown)
    BY <1>3, <1>5, <1>9 DEF Fits, Displayed, Homing
  <2> QED
    BY <1>2, <1>5, <1>9, <2>1 DEF g
<1>10. CASE r.geo = TRUE /\ ends /\ r.hide = TRUE
  <2>1. Fits(r, shown) => Fits(b, shown)
    BY <1>6, <1>10 DEF Fits, Displayed, Homing
  <2> QED
    BY <1>2, <1>6, <1>10, <2>1 DEF g
<1>11. CASE r.geo = TRUE /\ ends /\ r.hide = FALSE
  <2>1. Fits(r, shown) => Fits(c, shown)
    BY <1>3, <1>4, <1>7, <1>11 DEF Fits, Displayed, Homing
  <2> QED
    BY <1>2, <1>7, <1>11, <2>1 DEF g
<1> QED
  BY <1>1, <1>8, <1>9, <1>10, <1>11

\* Its opacity in a frame.
LEMMA FadeStepFits ==
    ASSUME NEW r \in WinState, NEW ends
    PROVE  LET g == FadeStep(r, ends)
           IN  /\ g \in WinState /\ g.life = r.life /\ g.dying = r.dying
               /\ Fits(r, shown) => Fits(g, shown)
<1> DEFINE n == r.node /\ ~(r.dying /\ ~r.geo)
           a == [r EXCEPT !.fade = FALSE, !.node = n]
           g == FadeStep(r, ends)
<1>1. n \in BOOLEAN /\ (r.dying = FALSE => n = r.node)
  BY DEF WinState
<1>2. g = a \/ g = r
  BY DEF FadeStep
<1> HIDE DEF n, g
<1>3. /\ a \in WinState /\ a.life = r.life /\ a.dying = r.dying /\ a.ws = r.ws
      /\ a.node = n /\ a.geo = r.geo /\ a.hide = r.hide /\ a.to = r.to /\ a.cur = r.cur
  BY <1>1 DEF WinState
<1> HIDE DEF a
<1>4. Fits(r, shown) => Fits(a, shown)
  BY <1>1, <1>3 DEF Fits, Displayed, Homing
<1> QED
  BY <1>2, <1>3, <1>4 DEF g

\* A frame.
LEMMA StepSane ==
    ASSUME NEW r, NEW fades \in BOOLEAN, Sane(r, shown, fades),
           r.life # "new", NEW ends
    PROVE  Sane(Step(r, ends), shown, fades)
<1> DEFINE g == GeoStep(r, "geo" \in ends)
           h == FadeStep(g, "fade" \in ends)
<1>1. r \in WinState
  BY DEF Sane
<1>2. /\ g \in WinState /\ g.life = r.life /\ g.dying = r.dying
      /\ Fits(r, shown) => Fits(g, shown)
  BY <1>1, GeoStepFits
<1> HIDE DEF g
<1>3. /\ h \in WinState /\ h.life = g.life /\ h.dying = g.dying
      /\ Fits(g, shown) => Fits(h, shown)
  BY <1>2, FadeStepFits
<1>4. Step(r, ends) = h
  BY DEF Step, g
<1> HIDE DEF h
<1> QED
  BY <1>2, <1>3, <1>4 DEF Sane

\* tl_open_anim, of a window that was just created.
LEMMA OpenAnimNew ==
    ASSUME NEW s \in Desk
    PROVE  LET r == [OpenAnim(NewWin) EXCEPT !.life = "mapped", !.ws = s]
           IN  /\ r \in WinState /\ r.life = "mapped" /\ r.ws = s
               /\ r.node = TRUE /\ r.dying = FALSE
<1> DEFINE f == NewWin.fade \/ fx.open \notin {"scale", "none"}
           e == NewWin.geo /\ fx.open \notin {"fade", "none"}
           c == IF fx.open \in {"fade", "none"} THEN NewWin.to ELSE NewWin.cur
           o == [NewWin EXCEPT !.fade = f, !.geo = e, !.cur = c]
           r(x) == [x EXCEPT !.life = "mapped", !.ws = s]
<1>1. NewWin \in WinState /\ NewWin.node = TRUE /\ NewWin.dying = FALSE
  BY DEF NewWin, WinState, Position, Desk
<1>2. f \in BOOLEAN /\ e \in BOOLEAN /\ c \in Position
  BY <1>1 DEF WinState
<1>3. OpenAnim(NewWin) \in {NewWin, o}
  BY Zenon DEF OpenAnim
<1> HIDE DEF f, e, c
<1>4. o \in WinState /\ o.node = TRUE /\ o.dying = FALSE
  BY <1>1, <1>2 DEF WinState
<1> HIDE DEF o
<1>5. ASSUME NEW x \in WinState, x.node = TRUE, x.dying = FALSE
      PROVE  /\ r(x) \in WinState /\ r(x).life = "mapped" /\ r(x).ws = s
             /\ r(x).node = TRUE /\ r(x).dying = FALSE
  BY <1>5 DEF WinState
<1> QED
  BY <1>1, <1>3, <1>4, <1>5

\* tl_close_anim
LEMMA CloseAnimState ==
    ASSUME NEW r \in WinState
    PROVE  CloseAnim(r) \in WinState
<1> DEFINE f == r.fade \/ fx.close # "scale"
           a == [r EXCEPT !.dying = FALSE]
           b == [r EXCEPT !.dying = TRUE, !.fade = TRUE, !.geo = TRUE, !.hide = FALSE,
                          !.from = r.cur, !.to = "mid"]
           c == [r EXCEPT !.dying = TRUE, !.fade = f]
<1>1. CloseAnim(r) \in {a, b, c}
  BY Zenon DEF CloseAnim
<1>2. f \in BOOLEAN
  OBVIOUS
<1> HIDE DEF f
<1>3. a \in WinState /\ b \in WinState /\ c \in WinState
  BY <1>2 DEF WinState, Position
<1> QED
  BY <1>1, <1>3

\* The callbacks that arrange the windows and touch one of them, w, before, and leave
\* the active workspace alone.
LEMMA ArrangeKeeps ==
    ASSUME AnimationInv, NEW w \in Surface, NEW x \in WinState, NEW moved,
           wins' = Arrange([wins EXCEPT ![w] = x], shown, moved),
           shown' = shown, fx' = fx, fading' \subseteq Surface,
           \A v \in Surface \ {w} : v \in fading' <=> v \in fading,
           x.life # "new",
           x.life = "mapped" => x.dying = FALSE /\ Displayed(x, shown),
           w \in fading' => x.life = "unmapped" /\ x.dying = TRUE
    PROVE  AnimationInv'
<1> DEFINE W == [wins EXCEPT ![w] = x]
<1>1. /\ W[w] = x
      /\ \A v \in Surface \ {w} : W[v] = wins[v]
  BY DEF AnimationInv
<1>2. wins' = Arrange(W, shown, moved)
  OBVIOUS
<1> HIDE DEF W
<1>3. ASSUME NEW v \in Surface
      PROVE  Sane(wins'[v], shown, v \in fading')
  <2> DEFINE fades == v \in fading'
  <2>1. fades \in BOOLEAN /\ (fades = TRUE <=> v \in fading')
    OBVIOUS
  <2>2. CASE v = w
    <3>1. ArrangedOf(x, wins'[v], shown)
      BY <1>1, <1>2, <2>2, ArrangeOf
    <3> HIDE DEF fades
    <3>2. Sane(wins'[v], shown, fades)
      BY <2>1, <2>2, <3>1, ArrangedSane
    <3> QED
      BY <3>2 DEF fades
  <2>3. CASE v # w
    <3>1. Sane(wins[v], shown, fades)
      BY <2>3 DEF AnimationInv
    <3>2. wins[v] \in WinState
      BY <3>1 DEF Sane
    <3>3. ArrangedOf(wins[v], wins'[v], shown)
      BY <1>1, <1>2, <2>3, <3>2, ArrangeOf
    <3> HIDE DEF fades
    <3>4. Sane(wins'[v], shown, fades)
      BY <2>1, <3>1, <3>3, SaneArranged
    <3> QED
      BY <3>4 DEF fades
  <2> QED
    BY <2>2, <2>3
<1>4. DOMAIN wins' = Surface /\ wins' = [v \in Surface |-> wins'[v]]
  BY <1>2 DEF Arrange
<1> QED
  BY <1>3, <1>4 DEF AnimationInv

\* A new layout, of the windows as they are.
LEMMA RearrangeKeeps ==
    ASSUME AnimationInv, Rearrange
    PROVE  AnimationInv'
<1> USE DEF Rearrange
<1>1. PICK moved : wins' = Arrange(wins, shown, moved)
  OBVIOUS
<1>2. ASSUME NEW v \in Surface
      PROVE  Sane(wins'[v], shown, v \in fading)
  <2> DEFINE fades == v \in fading
  <2>1. fades \in BOOLEAN
    OBVIOUS
  <2>2. Sane(wins[v], shown, fades)
    BY DEF AnimationInv
  <2>3. wins[v] \in WinState
    BY <2>2 DEF Sane
  <2>4. ArrangedOf(wins[v], wins'[v], shown)
    BY <1>1, <2>3, ArrangeOf
  <2> HIDE DEF fades
  <2>5. Sane(wins'[v], shown, fades)
    BY <2>1, <2>2, <2>4, SaneArranged
  <2> QED
    BY <2>5 DEF fades
<1>3. DOMAIN wins' = Surface /\ wins' = [v \in Surface |-> wins'[v]]
  BY <1>1 DEF Arrange
<1> QED
  BY <1>2, <1>3 DEF AnimationInv

\* xdg_toplevel_map, of a window that was not mapped before.
LEMMA MapKeeps ==
    ASSUME AnimationInv, Remaps = FALSE, NEW w \in Surface, Map(w)
    PROVE  AnimationInv'
<1> DEFINE x == [OpenAnim(wins[w]) EXCEPT !.life = "mapped", !.ws = shown]
<1>1. wins[w].life = "new" /\ shown \in Desk
  BY DEF Map, AnimationInv
<1>2. wins[w] = NewWin /\ w \notin fading
  BY <1>1 DEF AnimationInv, Sane
<1>3. PICK moved : wins' = Arrange([wins EXCEPT ![w] = x], shown, moved)
  BY Zenon, <1>2 DEF Map, AnimationInv
<1>4. /\ x \in WinState /\ x.life = "mapped" /\ x.ws = shown
      /\ x.node = TRUE /\ x.dying = FALSE
  BY <1>1, <1>2, OpenAnimNew
<1>5. UNCHANGED <<fading, shown, fx>> /\ fading \subseteq Surface
  BY DEF Map, AnimationInv
<1> HIDE DEF x
<1>6. Displayed(x, shown)
  BY <1>4 DEF Displayed
<1> QED
  BY <1>2, <1>3, <1>4, <1>5, <1>6, ArrangeKeeps

\* xdg_toplevel_unmap
LEMMA UnmapKeeps ==
    ASSUME AnimationInv, NEW w \in Surface, Unmap(w)
    PROVE  AnimationInv'
<1> DEFINE c == CloseAnim(wins[w])
           x == [c EXCEPT !.life = "unmapped"]
<1>1. wins[w] \in WinState /\ wins[w].life = "mapped" /\ w \notin fading
  BY DEF Unmap, Mapped, AnimationInv, Sane
<1>2. c \in WinState
  BY <1>1, CloseAnimState
<1>3. /\ \E moved : wins' = Arrange([wins EXCEPT ![w] = x], shown, moved)
      /\ fading' = IF x.dying THEN fading \cup {w} ELSE fading
  BY Zenon DEF Unmap
<1> HIDE DEF c
<1>4. x \in WinState /\ x.life = "unmapped"
  BY <1>2 DEF WinState
<1>5. UNCHANGED <<shown, fx>> /\ fading \subseteq Surface
  BY DEF Unmap, AnimationInv
<1> HIDE DEF x
<1>6. x.dying \in BOOLEAN
  BY <1>4 DEF WinState
<1>7. w \in fading' => x.dying = TRUE
  BY <1>1, <1>3, <1>6
<1>8. /\ fading' \subseteq Surface
      /\ \A v \in Surface \ {w} : v \in fading' <=> v \in fading
  BY <1>3, <1>5
<1>9. PICK moved : wins' = Arrange([wins EXCEPT ![w] = x], shown, moved)
  BY <1>3
<1> QED
  BY <1>4, <1>5, <1>7, <1>8, <1>9, ArrangeKeeps

\* handle_xdg_toplevel_destroy: a window that dies leaves the fading ones.
LEMMA DestroyWinKeeps ==
    ASSUME AnimationInv, NEW w \in Surface, Destroy(w)
    PROVE  AnimationInv'
<1> USE DEF Destroy
<1>1. w \notin fading'
  BY DEF AnimationInv, Sane
<1>2. /\ fading' \subseteq Surface
      /\ \A v \in Surface \ {w} : v \in fading' <=> v \in fading
  BY DEF AnimationInv
<1>3. /\ wins'[w] = NewWin
      /\ \A v \in Surface \ {w} : wins'[v] = wins[v]
      /\ DOMAIN wins' = Surface /\ wins' = [v \in Surface |-> wins'[v]]
  BY DEF AnimationInv
<1>4. Sane(wins'[w], shown, FALSE)
  BY <1>3, NewWinSane DEF AnimationInv
<1>5. \A v \in Surface : Sane(wins'[v], shown', v \in fading')
  BY <1>1, <1>2, <1>3, <1>4 DEF AnimationInv, Sane
<1> QED
  BY <1>2, <1>3, <1>5 DEF AnimationInv

\* workspace::move_to: the window is hidden.
LEMMA MoveWinKeeps ==
    ASSUME AnimationInv, NEW w \in Surface, NEW s \in Desk, MoveWin(w, s)
    PROVE  AnimationInv'
<1> DEFINE x == [wins[w] EXCEPT !.ws = s, !.node = FALSE]
<1>1. wins[w] \in WinState /\ wins[w].life = "mapped" /\ s # shown
      /\ wins[w].dying = FALSE /\ w \notin fading
  BY DEF MoveWin, MappedOn, OnShown, AnimationInv, Sane, Fits
<1>2. PICK moved :
        wins' = Arrange([wins EXCEPT ![w].ws = s, ![w].node = FALSE], shown, moved)
  BY DEF MoveWin
<1>3. [wins EXCEPT ![w].ws = s, ![w].node = FALSE] = [wins EXCEPT ![w] = x]
  BY DEF AnimationInv
<1>4. /\ x \in WinState /\ x.life = "mapped" /\ x.ws = s
      /\ x.node = FALSE /\ x.dying = FALSE
  BY <1>1 DEF WinState
<1> HIDE DEF x
<1>5. Displayed(x, shown)
  BY <1>1, <1>4 DEF Displayed
<1>6. wins' = Arrange([wins EXCEPT ![w] = x], shown, moved)
  BY <1>2, <1>3
<1>7. UNCHANGED <<fading, shown, fx>> /\ fading \subseteq Surface
  BY DEF MoveWin, AnimationInv
<1> QED
  BY <1>1, <1>4, <1>5, <1>6, <1>7, ArrangeKeeps

\* animate_step of every window that the frame looks at.
LEMMA FrameKeeps ==
    ASSUME AnimationInv, AnimationFrame
    PROVE  AnimationInv'
<1> USE DEF AnimationFrame
<1>1. PICK ends \in [Surface -> SUBSET {"geo", "fade"}] :
        wins' = [w \in Surface |-> IF Mapped(w) \/ w \in fading THEN Step(wins[w], ends[w])
                                                                ELSE wins[w]]
  OBVIOUS
<1>2. ASSUME NEW w \in Surface
      PROVE  Sane(wins'[w], shown, w \in fading)
  <2> DEFINE fades == w \in fading
  <2>1. fades \in BOOLEAN /\ Sane(wins[w], shown, fades)
    BY DEF AnimationInv
  <2>2. CASE Mapped(w) \/ w \in fading
    <3>1. wins[w].life # "new"
      BY <2>1, <2>2 DEF Mapped, Sane
    <3>2. wins'[w] = Step(wins[w], ends[w])
      BY <1>1, <2>2
    <3> HIDE DEF fades
    <3>3. Sane(wins'[w], shown, fades)
      BY <2>1, <3>1, <3>2, StepSane
    <3> QED
      BY <3>3 DEF fades
  <2>3. CASE ~(Mapped(w) \/ w \in fading)
    BY <1>1, <2>1, <2>3
  <2> QED
    BY <2>2, <2>3
<1>3. DOMAIN wins' = Surface /\ wins' = [w \in Surface |-> wins'[w]]
  BY <1>1
<1> QED
  BY <1>2, <1>3 DEF AnimationInv

\* workspace::switch_to: the sweep shows what is on s and hides the others, the
\* arrangement places the first and the animation moves both.
LEMMA SwitchKeepsSane ==
    ASSUME AnimationInv, NEW s \in Desk, SwitchDesk(s)
    PROVE  AnimationInv'
<1> DEFINE S == Swept(wins, s)
           W == Arrange(S, s, {})
           A == Animated(W, shown, s)
<1>1. /\ s # shown /\ shown' = s /\ fading' = fading /\ fx' = fx
      /\ wins' = IF fx.on THEN A ELSE W
  BY Zenon DEF SwitchDesk
<1>2. ASSUME NEW v \in Surface, NEW fades, fades = (v \in fading)
      PROVE  /\ Sane(W[v], s, fades)
             /\ W[v].life = "mapped" /\ W[v].ws = s => W[v].to = "home"
  <2> DEFINE r == wins[v]
             x == [r EXCEPT !.node = (r.ws = s)]
  <2>1. Sane(r, shown, fades) /\ r \in WinState /\ fades \in BOOLEAN
    <3>1. Sane(r, shown, fades)
      BY <1>2 DEF AnimationInv
    <3>2. fades \in BOOLEAN
      BY <1>2
    <3> HIDE DEF r
    <3> QED
      BY <3>1, <3>2 DEF Sane
  <2>2. /\ r.life = "mapped" => S[v] = x
        /\ r.life # "mapped" => S[v] = r
    BY DEF Swept
  <2> HIDE DEF S, r
  <2>3. ArrangedOf(S[v], W[v], s)
    <3>1. x \in WinState
      BY <2>1 DEF WinState
    <3> QED
      BY <2>1, <2>2, <3>1, ArrangeOf
  <2> HIDE DEF W
  <2>4. CASE r.life = "mapped"
    <3>1. /\ x \in WinState /\ x.life = "mapped" /\ x.dying = r.dying
          /\ x.node = (x.ws = s) /\ x.ws = r.ws
      BY <2>1, <2>4 DEF WinState
    <3>2. r.dying = FALSE /\ fades = FALSE
      BY <2>1, <2>4 DEF Sane, Fits
    <3> HIDE DEF x
    <3>3. Displayed(x, s)
      BY <3>1 DEF Displayed
    <3>4. ArrangedOf(x, W[v], s)
      BY <2>2, <2>3, <2>4
    <3>5. Sane(W[v], s, fades)
      BY <2>1, <3>1, <3>2, <3>3, <3>4, ArrangedSane
    <3> QED
      BY <3>1, <3>4, <3>5 DEF ArrangedOf
  <2>5. CASE r.life # "mapped"
    <3>1. W[v] = r
      BY <2>2, <2>3, <2>5 DEF ArrangedOf
    <3> QED
      BY <2>1, <2>5, <3>1 DEF Sane
  <2> QED
    BY <2>4, <2>5
<1> HIDE DEF S, W
<1>3. ASSUME NEW v \in Surface, NEW fades, fades = (v \in fading)
      PROVE  Sane(A[v], s, fades)
  <2>1. Sane(W[v], s, fades) /\ fades \in BOOLEAN
    BY <1>2, <1>3
  <2>2. CASE W[v].life = "mapped" /\ W[v].ws \in {shown, s} /\ fx.switch \in {"slide", "fade"}
    <3>1. A[v] \in {SlideOut(W[v]), SlideIn(W[v]), FadeOut(W[v]), FadeIn(W[v])}
      BY <2>2 DEF Animated, OnShown
    <3>2. CASE W[v].ws = shown /\ fx.switch = "slide"
      <4>1. A[v] = SlideOut(W[v])
        <5>1. v \in OnShown(W, shown)
          BY <2>2, <3>2 DEF OnShown
        <5>2. v \notin OnShown(W, s)
          BY <1>1, <3>2 DEF OnShown
        <5> QED
          BY <3>2, <5>1, <5>2 DEF Animated
      <4> QED
        <5>1. W[v].ws # s /\ W[v].life = "mapped"
          BY <1>1, <2>2, <3>2
        <5>2. SlideOut(W[v]) \in WinState /\ SlideOut(W[v]).geo = TRUE
              /\ SlideOut(W[v]).ws = W[v].ws /\ SlideOut(W[v]).life = W[v].life
              /\ SlideOut(W[v]).dying = W[v].dying
          BY <2>1 DEF SlideOut, WinState, Position, Sane
        <5> QED
          BY <2>1, <4>1, <5>1, <5>2 DEF Sane, Fits, Displayed
    <3>3. CASE W[v].ws = s /\ fx.switch = "slide"
      <4>1. A[v] = SlideIn(W[v])
        BY <1>1, <2>2, <3>3 DEF Animated, OnShown
      <4>2. W[v].to = "home"
        BY <1>2, <1>3, <2>2, <3>3
      <4>3. /\ SlideIn(W[v]) \in WinState /\ SlideIn(W[v]).life = W[v].life
            /\ SlideIn(W[v]).ws = W[v].ws /\ SlideIn(W[v]).dying = W[v].dying
            /\ SlideIn(W[v]).geo = TRUE /\ SlideIn(W[v]).hide = FALSE
            /\ SlideIn(W[v]).to = W[v].to /\ SlideIn(W[v]).node = W[v].node
        BY <2>1 DEF SlideIn, WinState, Position, Sane
      <4> QED
        BY <2>1, <2>2, <3>3, <4>1, <4>2, <4>3 DEF Sane, Fits, Displayed, Homing
    <3>4. CASE W[v].ws = shown /\ fx.switch = "fade"
      <4>1. A[v] = FadeOut(W[v])
        BY <1>1, <2>2, <3>4 DEF Animated, OnShown
      <4>2. ~NoFadingSwitch /\ W[v].ws # s
        BY <1>1, <3>4 DEF NoFadingSwitch, AnimationInv
      <4>3. /\ FadeOut(W[v]) \in WinState /\ FadeOut(W[v]).life = W[v].life
            /\ FadeOut(W[v]).ws = W[v].ws /\ FadeOut(W[v]).dying = W[v].dying
        BY <2>1 DEF FadeOut, WinState, Sane
      <4> QED
        BY <2>1, <2>2, <4>1, <4>2, <4>3 DEF Sane, Fits, Displayed
    <3>5. CASE W[v].ws = s /\ fx.switch = "fade"
      <4>1. A[v] = FadeIn(W[v])
        BY <1>1, <2>2, <3>5 DEF Animated, OnShown
      <4>3. W[v] \in WinState
        BY <2>1 DEF Sane
      <4>2. /\ FadeIn(W[v]) \in WinState /\ FadeIn(W[v]).life = W[v].life
            /\ FadeIn(W[v]).ws = W[v].ws /\ FadeIn(W[v]).dying = W[v].dying
            /\ FadeIn(W[v]).geo = W[v].geo /\ FadeIn(W[v]).hide = W[v].hide
            /\ FadeIn(W[v]).to = W[v].to /\ FadeIn(W[v]).node = W[v].node
            /\ FadeIn(W[v]).cur = W[v].cur
        BY <4>3 DEF FadeIn, WinState
      <4> DEFINE t == FadeIn(W[v])
                 u == W[v]
      <4>4. /\ t \in WinState /\ t.life = u.life /\ t.ws = u.ws /\ t.dying = u.dying
            /\ t.geo = u.geo /\ t.hide = u.hide /\ t.to = u.to /\ t.node = u.node
            /\ t.cur = u.cur /\ A[v] = t /\ Sane(u, s, fades) /\ u.life = "mapped"
        BY <2>1, <2>2, <4>1, <4>2
      <4> HIDE DEF t, u
      <4>5. Fits(u, s) /\ fades = FALSE
        BY <2>1, <4>4 DEF Sane
      <4>6. Fits(t, s)
        BY <4>4, <4>5 DEF Fits, Displayed, Homing
      <4> QED
        BY <2>1, <4>4, <4>5, <4>6 DEF Sane
    <3> QED
      BY <2>2, <3>2, <3>3, <3>4, <3>5
  <2>3. CASE ~(W[v].life = "mapped" /\ W[v].ws \in {shown, s} /\ fx.switch \in {"slide", "fade"})
    <3>1. A[v] = W[v]
      BY <2>3 DEF Animated, OnShown
    <3> QED
      BY <2>1, <3>1
  <2> QED
    BY <2>2, <2>3
<1>4. /\ DOMAIN W = Surface /\ W = [v \in Surface |-> W[v]]
      /\ DOMAIN A = Surface /\ A = [v \in Surface |-> A[v]]
  BY DEF W, Arrange, Animated
<1> HIDE DEF A
<1>5. DOMAIN wins' = Surface /\ wins' = [v \in Surface |-> wins'[v]]
  BY <1>1, <1>4
<1>6. ASSUME NEW v \in Surface
      PROVE  Sane(wins'[v], s, v \in fading)
  <2> DEFINE fades == v \in fading
  <2>1. fades = (v \in fading)
    OBVIOUS
  <2> HIDE DEF fades
  <2>2. Sane(wins'[v], s, fades)
    BY <1>1, <1>2, <1>3, <2>1
  <2> QED
    BY <2>2 DEF fades
<1> QED
  BY <1>1, <1>5, <1>6 DEF AnimationInv

\* A reload of the configuration.
LEMMA ConfigureKeeps ==
    ASSUME AnimationInv, Configure
    PROVE  AnimationInv'
BY DEF Configure, AnimationInv

\* Nothing is animated at the start.
LEMMA AnimationInitInv == AnimationInit => AnimationInv
<1> SUFFICES ASSUME AnimationInit PROVE AnimationInv
  OBVIOUS
<1>1. wins = [w \in Surface |-> NewWin] /\ fading = {} /\ shown = 1 /\ fx \in Effects
  BY DEF AnimationInit
<1>2. \A w \in Surface : wins[w] = NewWin /\ Sane(wins[w], shown, FALSE)
  BY <1>1, NewWinSane DEF Desk
<1>3. \A w \in Surface : Sane(wins[w], shown, w \in fading)
  BY <1>1, <1>2 DEF Sane
<1> QED
  BY <1>1, <1>3 DEF AnimationInv, Desk

\* Every step keeps the invariant.
LEMMA AnimationStep ==
    ASSUME Remaps = FALSE, AnimationInv, [AnimationNext]_animationVars
    PROVE  AnimationInv'
<1>1. ASSUME NEW w \in Surface, Map(w) PROVE AnimationInv'
  BY <1>1, MapKeeps
<1>2. ASSUME NEW w \in Surface, Unmap(w) PROVE AnimationInv'
  BY <1>2, UnmapKeeps
<1>3. ASSUME NEW w \in Surface, Destroy(w) PROVE AnimationInv'
  BY <1>3, DestroyWinKeeps
<1>4. ASSUME NEW w \in Surface, NEW s \in Desk, MoveWin(w, s) PROVE AnimationInv'
  BY <1>4, MoveWinKeeps
<1>5. ASSUME NEW s \in Desk, SwitchDesk(s) PROVE AnimationInv'
  BY <1>5, SwitchKeepsSane
<1>6. CASE Rearrange
  BY <1>6, RearrangeKeeps
<1>7. CASE AnimationFrame
  BY <1>7, FrameKeeps
<1>8. CASE Configure
  BY <1>8, ConfigureKeeps
<1>9. CASE UNCHANGED animationVars
  BY <1>9 DEF animationVars, AnimationInv
<1> QED
  BY <1>1, <1>2, <1>3, <1>4, <1>5, <1>6, <1>7, <1>8, <1>9 DEF AnimationNext

\* The animations by themselves.
AnimationSpec == AnimationInit /\ [][AnimationNext]_animationVars

\* So it always holds.
LEMMA AnimationInvariant ==
    ASSUME Remaps = FALSE
    PROVE  AnimationSpec => []AnimationInv
<1>1. AnimationInv /\ [AnimationNext]_animationVars => AnimationInv'
  BY AnimationStep
<1> QED
  BY <1>1, AnimationInitInv, PTL DEF AnimationSpec

\* The record of every window keeps its type (nnwm_toplevel, dying_toplevels).
THEOREM AnimationTypeCorrect ==
    ASSUME Remaps = FALSE
    PROVE  AnimationSpec => []AnimationTypeOK
<1>1. AnimationInv => AnimationTypeOK
  <2> SUFFICES ASSUME AnimationInv PROVE AnimationTypeOK
    OBVIOUS
  <2>1. \A w \in Surface : wins[w] \in WinState
    BY DEF AnimationInv, Sane
  <2>2. wins \in [Surface -> WinState]
    BY <2>1 DEF AnimationInv
  <2> QED
    BY <2>2 DEF AnimationInv, AnimationTypeOK, WinState
<1> QED
  BY <1>1, AnimationInvariant, PTL

\* If no window is mapped twice, the windows that fade out are unmapped and were not
\* destroyed, with any effects (dying_toplevels, handle_xdg_toplevel_destroy).
THEOREM FadesAreUnmapped ==
    ASSUME Remaps = FALSE
    PROVE  AnimationSpec => []FadingUnmapped
<1>1. AnimationInv => FadingUnmapped
  BY DEF AnimationInv, Sane, FadingUnmapped
<1> QED
  BY <1>1, AnimationInvariant, PTL

\* If no window is mapped twice and workspaces do not fade into each other, animations
\* that are over leave every mapped window where the layout and the workspaces want it,
\* for any number of windows (animate_step_one, switch_to, tl_set_geometry).
THEOREM AnimationsSettle ==
    ASSUME Remaps = FALSE, NoFadingSwitch
    PROVE  AnimationSpec => []Settled
<1>1. AnimationInv => Settled
  <2> SUFFICES ASSUME AnimationInv, NEW w \in Surface, Mapped(w), AtRest(w)
               PROVE  /\ wins[w].node <=> wins[w].ws = shown
                      /\ wins[w].ws = shown => wins[w].cur = "home"
    BY DEF Settled
  <2>1. wins[w] \in WinState /\ Fits(wins[w], shown)
    BY DEF AnimationInv, Sane, Mapped
  <2>2. wins[w].geo \in BOOLEAN /\ wins[w].node \in BOOLEAN
    BY <2>1 DEF WinState
  <2>3. wins[w].geo = FALSE
    BY <2>2 DEF AtRest
  <2>4. /\ wins[w].ws = shown => wins[w].node = TRUE /\ wins[w].cur = "home"
        /\ wins[w].ws # shown => wins[w].node # TRUE
    BY <2>1, <2>3 DEF Fits, Displayed, Homing
  <2> QED
    BY <2>2, <2>4
<1> QED
  BY <1>1, AnimationInvariant, PTL

----------------------------------------------------------------------------
(* The status bars *)

Homes == [out : Display \cup {Nothing}, ws : Space]
Fronts == [Display -> [Space -> Client \cup {Nothing}]]
Desktops ==
    [lit : SUBSET Display, active : [Display -> Space], home : [Client -> Homes],
     front : Fronts]
BarShown == [active : Space, occupied : SUBSET Space, title : Client \cup {Nothing}]
BarState == [target : Display \cup {Nothing}, dirty : BOOLEAN, shown : BarShown]

\* The last focused window of a workspace is on it.
Owned(d) ==
    \A o \in Display, s \in Space :
        d.front[o][s] # Nothing => d.home[d.front[o][s]] = [out |-> o, ws |-> s]

\* Only the global bar hangs on an output that is not its own.
Hung(b) == \A p \in Display : b[p].target \in {p, Nothing}

BarInv ==
    /\ desktop \in Desktops /\ Owned(desktop)
    /\ bars \in [Place -> BarState] /\ Hung(bars)
    /\ bar_config \in BarConfig

\* The pill that was clicked is one of those there are.
LEMMA NthPillIsPill ==
    ASSUME NEW pills \in SUBSET Space, NEW n \in Nat, n < Cardinality(pills)
    PROVE  NthPill(pills, n) \in pills
<1> DEFINE Upto(k) == { r \in pills : r <= k }
           I == { k \in Nat : n < Cardinality(Upto(k)) }
<1>1. NumSpaces \in Nat /\ IsFiniteSet(pills) /\ \A r \in pills : r \in 1 .. NumSpaces
  <2>1. NumSpaces \in Nat /\ 1 \in Int /\ NumSpaces \in Int /\ pills \subseteq 1 .. NumSpaces
    BY BarAssumption DEF Space
  <2>2. IsFiniteSet(1 .. NumSpaces)
    BY <2>1, FS_Interval
  <2>3. IsFiniteSet(pills)
    BY <2>1, <2>2, FS_Subset
  <2> QED
    BY <2>1, <2>3
<1>2. ASSUME NEW k \in Nat
      PROVE  IsFiniteSet(Upto(k)) /\ Cardinality(Upto(k)) \in Nat
  BY <1>1, FS_Subset, FS_CardinalityType
<1>3. NumSpaces \in I
  <2>1. Upto(NumSpaces) = pills
    BY <1>1
  <2> QED
    BY <1>1, <2>1
<1>4. PICK k \in I : \A j \in I : k <= j
  BY <1>3, LeastNatural
<1>5. k # 0
  <2>1. Upto(0) = {}
    BY <1>1
  <2>2. Cardinality(Upto(0)) = 0
    BY <2>1, FS_EmptySet
  <2> QED
    BY <2>2
<1>6. k - 1 \in Nat /\ k - 1 \notin I
  BY <1>4, <1>5
<1>7. ~(n < Cardinality(Upto(k - 1))) /\ n < Cardinality(Upto(k))
  BY <1>6
<1>8. k \in pills
  <2> SUFFICES ASSUME k \notin pills PROVE FALSE
    OBVIOUS
  <2>1. Upto(k) = Upto(k - 1)
    BY <1>1, <1>6
  <2> QED
    BY <1>7, <2>1
<1>9. Upto(k) = Upto(k - 1) \cup {k} /\ k \notin Upto(k - 1)
  <2>1. \A r \in pills : r \in Int
    BY <1>1
  <2>2. \A r \in pills : r <= k <=> r <= k - 1 \/ r = k
    BY <1>4, <2>1
  <2>3. ~(k <= k - 1)
    BY <1>4
  <2> QED
    BY <1>8, <2>2, <2>3
<1>10. Cardinality(Upto(k)) = Cardinality(Upto(k - 1)) + 1
  BY <1>2, <1>6, <1>9, FS_AddElement
<1>11. Cardinality(Upto(k - 1)) = n
  <2> DEFINE m == Cardinality(Upto(k - 1))
  <2>1. m \in Nat
    BY <1>2, <1>6
  <2>2. ~(n < m) /\ n < m + 1
    BY <1>7, <1>10
  <2> HIDE DEF m
  <2>3. m = n
    BY <2>1, <2>2
  <2> QED
    BY <2>3 DEF m
<1>12. { r \in pills : r < k } = Upto(k - 1)
  BY <1>1, <1>6
<1> QED
  BY <1>8, <1>11, <1>12 DEF NthPill

\* focus_toplevel: the window is remembered on its workspace, and nothing else changes.
LEMMA FrontedKeeps ==
    ASSUME NEW d \in Desktops, Owned(d), NEW c \in Client \cup {Nothing},
           c # Nothing => d.home[c].out \in Display
    PROVE  LET e == Fronted(d, c)
           IN  /\ e \in Desktops /\ Owned(e)
               /\ e.lit = d.lit /\ e.active = d.active /\ e.home = d.home
               /\ \A o \in Display : c = Nothing \/ d.home[c].out # o => e.front[o] = d.front[o]
<1>1. CASE c = Nothing
  BY <1>1 DEF Fronted
<1>2. CASE c # Nothing
  <2> DEFINE o == d.home[c].out
             s == d.home[c].ws
             f == [d.front EXCEPT ![o][s] = c]
             e == Fronted(d, c)
  <2>1. /\ d.front \in Fronts /\ d.home \in [Client -> Homes] /\ c \in Client
        /\ d.lit \in SUBSET Display /\ d.active \in [Display -> Space]
    BY <1>2 DEF Desktops
  <2>2. o \in Display /\ s \in Space /\ d.home[c] = [out |-> o, ws |-> s]
    BY <1>2, <2>1 DEF Homes
  <2>3. e = [d EXCEPT !.front = f]
    BY <1>2 DEF Fronted
  <2> HIDE DEF o, s, e
  <2>4. /\ f \in Fronts /\ f[o][s] = c
        /\ \A t \in Space : t # s => f[o][t] = d.front[o][t]
        /\ \A p \in Display : p # o => f[p] = d.front[p]
    BY <2>1, <2>2 DEF Fronts
  <2> HIDE DEF f
  <2>5. /\ e \in Desktops /\ e.lit = d.lit /\ e.active = d.active /\ e.home = d.home
        /\ e.front = f
    BY <2>1, <2>3, <2>4 DEF Desktops
  <2>6. Owned(e)
    BY <2>2, <2>4, <2>5 DEF Owned
  <2>7. \A p \in Display : c = Nothing \/ o # p => e.front[p] = d.front[p]
    BY <1>2, <2>4, <2>5
  <2> HIDE DEF e
  <2> QED
    BY <2>5, <2>6, <2>7 DEF e, o
<1> QED
  BY <1>1, <1>2

\* A window that leaves is remembered nowhere.
LEMMA UnfrontedKeeps ==
    ASSUME NEW d \in Desktops, Owned(d), NEW c \in Client
    PROVE  LET e == Unfronted(d, c)
           IN  /\ e \in Desktops /\ Owned(e)
               /\ e.lit = d.lit /\ e.active = d.active /\ e.home = d.home
               /\ \A o \in Display, s \in Space : e.front[o][s] # c
<1> DEFINE f == [o \in Display |-> [s \in Space |-> IF d.front[o][s] = c THEN Nothing
                                                                        ELSE d.front[o][s]]]
           e == Unfronted(d, c)
<1>1. d.front \in Fronts /\ Nothing \notin Client
  BY BarAssumption DEF Desktops
<1>2. e = [d EXCEPT !.front = f]
  BY DEF Unfronted
<1>3. /\ f \in Fronts
      /\ \A o \in Display, s \in Space :
            f[o][s] # c /\ (f[o][s] # Nothing => f[o][s] = d.front[o][s])
  BY <1>1 DEF Fronts
<1> HIDE DEF f, e
<1>4. /\ e \in Desktops /\ e.lit = d.lit /\ e.active = d.active /\ e.home = d.home
      /\ e.front = f
  BY <1>2, <1>3 DEF Desktops
<1>5. Owned(e)
  BY <1>3, <1>4 DEF Owned
<1> QED
  BY <1>3, <1>4, <1>5 DEF e

\* A window that is remembered nowhere goes anywhere.
LEMMA HousedKeeps ==
    ASSUME NEW d \in Desktops, Owned(d), NEW c \in Client, NEW h \in Homes,
           \A o \in Display, s \in Space : d.front[o][s] # c
    PROVE  LET e == [d EXCEPT !.home[c] = h]
           IN  /\ e \in Desktops /\ Owned(e)
               /\ e.lit = d.lit /\ e.active = d.active /\ e.front = d.front /\ e.home[c] = h
<1> DEFINE g == [d.home EXCEPT ![c] = h]
           e == [d EXCEPT !.home[c] = h]
<1>1. d.home \in [Client -> Homes] /\ d.front \in Fronts
  BY DEF Desktops
<1>2. e = [d EXCEPT !.home = g]
  OBVIOUS
<1>3. /\ g \in [Client -> Homes] /\ g[c] = h
      /\ \A x \in Client : x # c => g[x] = d.home[x]
  BY <1>1
<1> HIDE DEF g, e
<1>4. /\ e \in Desktops /\ e.lit = d.lit /\ e.active = d.active /\ e.front = d.front
      /\ e.home = g
  BY <1>2, <1>3 DEF Desktops
<1>5. \A o \in Display, s \in Space : d.front[o][s] # Nothing => d.front[o][s] \in Client
  BY <1>1 DEF Fronts
<1>6. Owned(e)
  BY <1>3, <1>4, <1>5 DEF Owned
<1> QED
  BY <1>3, <1>4, <1>6 DEF e

\* What gets the focus on an output is on its active workspace.
LEMMA NextsThere ==
    ASSUME NEW d \in Desktops, Owned(d), NEW o \in Display, NEW n \in Nexts(d, o)
    PROVE  /\ n \in Client \cup {Nothing}
           /\ n # Nothing => d.home[n] = [out |-> o, ws |-> d.active[o]]
<1>1. d.active[o] \in Space /\ d.front[o][d.active[o]] \in Client \cup {Nothing}
  BY DEF Desktops, Fronts
<1>2. CASE d.front[o][d.active[o]] # Nothing
  BY <1>1, <1>2 DEF Nexts, Owned
<1>3. CASE d.front[o][d.active[o]] = Nothing
  BY <1>3 DEF Nexts, Clients
<1> QED
  BY <1>2, <1>3

\* What a bar is drawn with.
LEMMA DrawnIsBar ==
    ASSUME NEW d \in Desktops, NEW config, NEW o \in Display
    PROVE  /\ Drawn(d, config, o) \in BarState
           /\ Drawn(d, config, o).target = o /\ Drawn(d, config, o).dirty = FALSE
           /\ Drawn(d, config, o).shown = Facts(d, config, o)
<1>1. /\ d.active[o] \in Space /\ d.front[o][d.active[o]] \in Client \cup {Nothing}
      /\ 1 \in Space
  BY BarAssumption DEF Desktops, Fronts, Space
<1>2. Facts(d, config, o) \in BarShown
  BY <1>1 DEF Facts, BarShown
<1> QED
  BY <1>2 DEF Drawn, BarState

\* Where there is no bar.
LEMMA NoBarIsBar == NoBar \in BarState /\ NoBar.target = Nothing
BY BarAssumption DEF NoBar, Blank, BarState, BarShown, Space

\* bar_apply_config: every bar there is after it shows what there is.
LEMMA RecreatedBars ==
    ASSUME NEW d \in Desktops, NEW config, NEW b \in Recreated(d, config)
    PROVE  /\ b \in [Place -> BarState] /\ Hung(b)
           /\ \A p \in Place : b[p].target # Nothing =>
                  b[p].shown = Facts(d, config, b[p].target)
<1>1. d.lit \subseteq Display
  BY DEF Desktops
<1>2. CASE config.per_output
  <2>1. b = [p \in Place |-> IF p \in d.lit THEN Drawn(d, config, p) ELSE NoBar]
    BY <1>2 DEF Recreated
  <2>2. \A p \in Place : p \in d.lit =>
           /\ p \in Display /\ b[p] = Drawn(d, config, p) /\ b[p].target = p
           /\ b[p].shown = Facts(d, config, b[p].target)
    <3> SUFFICES ASSUME NEW p \in Place, p \in d.lit
                 PROVE  /\ p \in Display /\ b[p] = Drawn(d, config, p) /\ b[p].target = p
                        /\ b[p].shown = Facts(d, config, b[p].target)
      OBVIOUS
    <3>1. p \in Display /\ b[p] = Drawn(d, config, p)
      BY <1>1, <2>1
    <3>2. /\ Drawn(d, config, p).target = p
          /\ Drawn(d, config, p).shown = Facts(d, config, p)
      BY <3>1, DrawnIsBar
    <3> QED
      BY <3>1, <3>2
  <2>3. \A p \in Place : p \notin d.lit => b[p] = NoBar /\ b[p].target = Nothing
    BY <2>1, NoBarIsBar
  <2>4. b = [p \in Place |-> b[p]] /\ \A p \in Place : b[p] \in BarState
    BY <2>1, <2>2, <2>3, DrawnIsBar, NoBarIsBar
  <2>5. b \in [Place -> BarState]
    BY <2>4
  <2>6. Hung(b)
    BY <2>2, <2>3 DEF Hung, Place
  <2> QED
    BY <2>2, <2>3, <2>5, <2>6
<1>3. CASE ~config.per_output
  <2>1. PICK o \in d.lit \cup {Nothing} :
          b = [p \in Place |-> IF p = Global /\ o # Nothing THEN Drawn(d, config, o) ELSE NoBar]
    BY <1>3 DEF Recreated
  <2>2. \A p \in Place :
           \/ b[p] = NoBar /\ b[p].target = Nothing
           \/ /\ p = Global /\ o \in Display /\ b[p] = Drawn(d, config, o)
              /\ b[p].shown = Facts(d, config, b[p].target)
    <3>1. ASSUME NEW p \in Place, p = Global, o # Nothing
          PROVE  /\ o \in Display /\ b[p] = Drawn(d, config, o)
                 /\ b[p].shown = Facts(d, config, b[p].target)
      <4>1. o \in Display /\ b[p] = Drawn(d, config, o)
        BY <1>1, <2>1, <3>1
      <4>2. /\ Drawn(d, config, o).target = o
            /\ Drawn(d, config, o).shown = Facts(d, config, o)
        BY <4>1, DrawnIsBar
      <4> QED
        BY <4>1, <4>2
    <3>2. ASSUME NEW p \in Place, ~(p = Global /\ o # Nothing)
          PROVE  b[p] = NoBar /\ b[p].target = Nothing
      BY <2>1, <3>2, NoBarIsBar
    <3> QED
      BY <3>1, <3>2
  <2>3. b = [p \in Place |-> b[p]] /\ \A p \in Place : b[p] \in BarState
    BY <2>1, <2>2, DrawnIsBar, NoBarIsBar
  <2>4. b \in [Place -> BarState]
    BY <2>3
  <2>5. Hung(b)
    BY <2>2, BarAssumption DEF Hung, Place
  <2> QED
    BY <2>2, <2>4, <2>5
<1> QED
  BY <1>2, <1>3

\* redraw_if_cares: what it leaves clean it does not touch.
LEMMA ToldBars ==
    ASSUME BarInv, NEW places, NEW modules
    PROVE  LET b == Told(places, modules)
           IN  /\ b \in [Place -> BarState] /\ Hung(b)
               /\ \A p \in Place :
                     /\ b[p].target = bars[p].target
                     /\ ~b[p].dirty /\ bars[p].target # Nothing =>
                            /\ b[p] = bars[p]
                            /\ p \notin places \/ modules \cap Modules = {}
<1> DEFINE b == Told(places, modules)
           t(p) == [bars[p] EXCEPT !.dirty = TRUE]
<1>1. ASSUME NEW p \in Place
      PROVE  /\ bars[p] \in BarState
             /\ t(p) \in BarState /\ t(p).target = bars[p].target /\ t(p).dirty = TRUE
  BY DEF BarInv, BarState
<1>2. \A p \in Place :
         b[p] = IF p \in places /\ bars[p].target # Nothing /\ modules \cap Modules # {}
                THEN t(p) ELSE bars[p]
  BY DEF Told
<1>3. b = [p \in Place |-> b[p]]
  BY DEF Told
<1> HIDE DEF b, t
<1>4. \A p \in Place : b[p] \in BarState /\ b[p].target = bars[p].target
  BY <1>1, <1>2
<1>5. b \in [Place -> BarState]
  BY <1>3, <1>4
<1>6. Hung(b)
  BY <1>4 DEF Hung, BarInv, Place
<1>7. \A p \in Place : ~b[p].dirty /\ bars[p].target # Nothing =>
           b[p] = bars[p] /\ (p \notin places \/ modules \cap Modules = {})
  BY <1>1, <1>2
<1> QED
  BY <1>4, <1>5, <1>6, <1>7 DEF b

\* What changes nothing that a bar shows.
LEMMA SameFacts ==
    ASSUME NEW d, NEW e, NEW config, NEW o,
           \/ {"workspaces", "window_title"} \cap config.modules = {}
           \/ /\ {"window_title"} \cap config.modules = {}
              /\ d.active = e.active /\ d.home = e.home
           \/ /\ d.active[o] = e.active[o] /\ d.home = e.home /\ d.front[o] = e.front[o]
    PROVE  Facts(d, config, o) = Facts(e, config, o)
<1>1. CASE {"workspaces", "window_title"} \cap config.modules = {}
  <2>1. "workspaces" \notin config.modules /\ "window_title" \notin config.modules
    BY <1>1
  <2> QED
    BY <2>1 DEF Facts
<1>2. CASE /\ {"window_title"} \cap config.modules = {}
           /\ d.active = e.active /\ d.home = e.home
  <2>1. "window_title" \notin config.modules
    BY <1>2
  <2> QED
    BY <1>2, <2>1 DEF Facts, Clients
<1>3. CASE d.active[o] = e.active[o] /\ d.home = e.home /\ d.front[o] = e.front[o]
  BY <1>3 DEF Facts, Clients
<1> QED
  BY <1>1, <1>2, <1>3

\* No bar is outdated and clean after a step, unless it was so before.
BarsNotified ==
    \A p \in Place : Outdated(p)' /\ ~bars'[p].dirty => Outdated(p) /\ ~bars[p].dirty

\* The operations that tell bars about the desktop they leave behind.
LEMMA ToldNotifies ==
    ASSUME BarInv, NEW places, NEW modules,
           bars' = Told(places, modules), bar_config' = bar_config,
           \A p \in Place :
              bars[p].target # Nothing /\ (p \notin places \/ modules \cap Modules = {}) =>
                 Facts(desktop', bar_config, bars[p].target)
                    = Facts(desktop, bar_config, bars[p].target)
    PROVE  BarsNotified
<1> SUFFICES ASSUME NEW p \in Place, Outdated(p)', ~bars'[p].dirty
             PROVE  Outdated(p) /\ ~bars[p].dirty
  BY DEF BarsNotified
<1> DEFINE b == Told(places, modules)
<1>1. /\ b[p].target = bars[p].target
      /\ ~b[p].dirty /\ bars[p].target # Nothing =>
             /\ b[p] = bars[p]
             /\ p \notin places \/ modules \cap Modules = {}
  BY ToldBars
<1> HIDE DEF b
<1>2. bars' = b
  BY DEF b
<1>3. bars[p].target # Nothing /\ bars'[p] = bars[p]
  BY <1>1, <1>2 DEF Outdated
<1>4. Facts(desktop', bar_config, bars[p].target) = Facts(desktop, bar_config, bars[p].target)
  BY <1>1, <1>2, <1>3
<1> QED
  BY <1>3, <1>4 DEF Outdated

\* A window opens: every bar is told.
LEMMA OpenTells ==
    ASSUME BarInv, NEW c \in Client, NEW o \in Display, NEW s \in Space, OpenClient(c, o, s)
    PROVE  BarInv' /\ BarsNotified
<1> DEFINE h == [out |-> o, ws |-> s]
           d == Housed(desktop, c, o, s)
<1>1. /\ desktop.home[c] = Anywhere /\ bars' = WindowsChanged /\ bar_config' = bar_config
      /\ desktop' = IF s = desktop.active[o] THEN Fronted(d, c) ELSE d
  BY DEF OpenClient
<1>2. \A p \in Display, t \in Space : desktop.front[p][t] # c
  <2> SUFFICES ASSUME NEW p \in Display, NEW t \in Space, desktop.front[p][t] = c
               PROVE  FALSE
    OBVIOUS
  <2>1. desktop.home[c] = [out |-> p, ws |-> t]
    BY BarAssumption DEF BarInv, Owned
  <2>2. Anywhere.out = p
    BY <1>1, <2>1
  <2> QED
    BY <2>2, BarAssumption DEF Anywhere
<1>3. h \in Homes
  BY DEF Homes
<1>4. d \in Desktops /\ Owned(d) /\ d.home[c] = h
  BY <1>2, <1>3, HousedKeeps DEF Housed, BarInv
<1> HIDE DEF d
<1>5. desktop' \in Desktops /\ Owned(desktop')
  BY <1>1, <1>4, FrontedKeeps, BarAssumption
<1>6. bars' \in [Place -> BarState] /\ Hung(bars')
  BY <1>1, ToldBars DEF WindowsChanged
<1>7. BarsNotified
  <2>1. \A p \in Place :
           bars[p].target # Nothing
           /\ (p \notin Place \/ {"workspaces", "window_title"} \cap Modules = {}) =>
              Facts(desktop', bar_config, bars[p].target)
                 = Facts(desktop, bar_config, bars[p].target)
    BY SameFacts DEF Modules
  <2> QED
    BY <1>1, <2>1, ToldNotifies DEF WindowsChanged
<1> QED
  BY <1>1, <1>5, <1>6, <1>7 DEF BarInv

\* A window closes: every bar is told.
LEMMA CloseTells ==
    ASSUME BarInv, NEW c \in Client, CloseClient(c)
    PROVE  BarInv' /\ BarsNotified
<1> DEFINE o == desktop.home[c].out
           u == Unfronted(desktop, c)
           d == [u EXCEPT !.home[c] = Anywhere]
<1>1. /\ bars' = WindowsChanged /\ bar_config' = bar_config
      /\ \E n \in {Nothing} \cup IF o = Nothing THEN {} ELSE Nexts(d, o) : desktop' = Fronted(d, n)
  BY Zenon DEF CloseClient
<1>2. u \in Desktops /\ Owned(u) /\ \A p \in Display, t \in Space : u.front[p][t] # c
  BY UnfrontedKeeps DEF BarInv
<1>3. Anywhere \in Homes
  BY BarAssumption DEF Anywhere, Homes, Space
<1> HIDE DEF u
<1>4. d \in Desktops /\ Owned(d)
  BY <1>2, <1>3, HousedKeeps
<1>5. o \in Display \cup {Nothing}
  BY DEF BarInv, Desktops, Homes
<1> HIDE DEF d, o
<1>6. desktop' \in Desktops /\ Owned(desktop')
  <2>1. PICK n \in {Nothing} \cup IF o = Nothing THEN {} ELSE Nexts(d, o) :
          desktop' = Fronted(d, n)
    BY <1>1
  <2>2. CASE n = Nothing
    BY <1>4, <2>1, <2>2, FrontedKeeps
  <2>3. CASE n # Nothing
    <3>1. o \in Display /\ n \in Nexts(d, o)
      BY <1>5, <2>1, <2>3
    <3>2. n \in Client \cup {Nothing} /\ d.home[n] = [out |-> o, ws |-> d.active[o]]
      BY <1>4, <2>3, <3>1, NextsThere
    <3>3. d.home[n].out \in Display
      BY <3>1, <3>2
    <3> QED
      BY <1>4, <2>1, <3>2, <3>3, FrontedKeeps
  <2> QED
    BY <2>2, <2>3
<1>7. bars' \in [Place -> BarState] /\ Hung(bars')
  BY <1>1, ToldBars DEF WindowsChanged
<1>8. BarsNotified
  <2>1. \A p \in Place :
           bars[p].target # Nothing
           /\ (p \notin Place \/ {"workspaces", "window_title"} \cap Modules = {}) =>
              Facts(desktop', bar_config, bars[p].target)
                 = Facts(desktop, bar_config, bars[p].target)
    BY SameFacts DEF Modules
  <2> QED
    BY <1>1, <2>1, ToldNotifies DEF WindowsChanged
<1> QED
  BY <1>1, <1>6, <1>7, <1>8 DEF BarInv

\* Another window gets the focus: the bars that show a title are told.
LEMMA FocusTells ==
    ASSUME BarInv, NEW c \in Client, FocusClient(c)
    PROVE  BarInv' /\ BarsNotified
<1>1. /\ desktop' = Fronted(desktop, c) /\ bars' = FocusChanged /\ bar_config' = bar_config
      /\ desktop.home[c].out \in Display
  BY DEF FocusClient, BarInv, Desktops
<1>2. /\ desktop' \in Desktops /\ Owned(desktop')
      /\ desktop'.active = desktop.active /\ desktop'.home = desktop.home
  BY <1>1, FrontedKeeps DEF BarInv
<1>3. bars' \in [Place -> BarState] /\ Hung(bars')
  BY <1>1, ToldBars DEF FocusChanged
<1>4. \A p \in Place :
         bars[p].target # Nothing /\ (p \notin Place \/ {"window_title"} \cap Modules = {}) =>
            Facts(desktop', bar_config, bars[p].target)
               = Facts(desktop, bar_config, bars[p].target)
  BY <1>2, SameFacts DEF Modules
<1>5. BarsNotified
  BY <1>1, <1>4, ToldNotifies DEF FocusChanged
<1> QED
  BY <1>1, <1>2, <1>3, <1>5 DEF BarInv

\* workspace::switch_to tells the bar of the output and the global one.  No other bar
\* shows anything of the output, for the window that gets the focus is on it.
LEMMA SwitchTells ==
    ASSUME BarInv, NEW o \in Display, NEW s \in Space, SwitchSpace(o, s)
    PROVE  BarInv' /\ BarsNotified
<1> DEFINE a == [desktop.active EXCEPT ![o] = s]
           d == [desktop EXCEPT !.active[o] = s]
<1>1. /\ bars' = WorkspaceChanged(o) /\ bar_config' = bar_config
      /\ \E n \in Nexts(d, o) : desktop' = Fronted(d, n)
  BY Zenon DEF SwitchSpace
<1>2. /\ a \in [Display -> Space] /\ d = [desktop EXCEPT !.active = a]
      /\ \A p \in Display : p # o => a[p] = desktop.active[p]
  BY DEF BarInv, Desktops
<1> HIDE DEF a, d
<1>3. /\ d \in Desktops /\ d.active = a /\ d.home = desktop.home
      /\ d.front = desktop.front
  BY <1>2 DEF BarInv, Desktops
<1>4. Owned(d)
  BY <1>3 DEF BarInv, Owned
<1>5. PICK n \in Nexts(d, o) : desktop' = Fronted(d, n)
  BY <1>1
<1>6. n \in Client \cup {Nothing} /\ (n # Nothing => d.home[n].out = o)
  <2>1. /\ n \in Client \cup {Nothing}
        /\ n # Nothing => d.home[n] = [out |-> o, ws |-> d.active[o]]
    BY <1>3, <1>4, <1>5, NextsThere
  <2> QED
    BY <2>1
<1>7. /\ desktop' \in Desktops /\ Owned(desktop')
      /\ desktop'.active = a /\ desktop'.home = desktop.home
      /\ \A p \in Display : p # o => desktop'.front[p] = desktop.front[p]
  BY <1>3, <1>4, <1>5, <1>6, FrontedKeeps
<1>8. bars' \in [Place -> BarState] /\ Hung(bars')
  BY <1>1, ToldBars DEF WorkspaceChanged
<1>9. ASSUME NEW p \in Place, bars[p].target # Nothing,
             p \notin {o, Global} \/ {"workspaces", "window_title"} \cap Modules = {}
      PROVE  Facts(desktop', bar_config, bars[p].target)
                = Facts(desktop, bar_config, bars[p].target)
  <2>1. CASE p \notin {o, Global}
    <3>1. p \in Display /\ p # o
      BY <2>1 DEF Place
    <3>2. bars[p].target = p
      BY <1>9, <3>1 DEF BarInv, Hung
    <3> QED
      BY <1>2, <1>7, <3>1, <3>2, SameFacts
  <2>2. CASE {"workspaces", "window_title"} \cap Modules = {}
    BY <2>2, SameFacts DEF Modules
  <2> QED
    BY <1>9, <2>1, <2>2
<1>10. BarsNotified
  BY <1>1, <1>9, ToldNotifies DEF WorkspaceChanged
<1> QED
  BY <1>1, <1>7, <1>8, <1>10 DEF BarInv

\* bar_handle_button switches to a workspace there is.
LEMMA PillTells ==
    ASSUME BarInv, NEW p \in Place, NEW s \in Space, ClickPill(p, s)
    PROVE  BarInv' /\ BarsNotified
<1> DEFINE o == bars[p].target
           now == Pills(Facts(desktop, bar_config, o))
           before == { r \in Pills(bars[p].shown) : r < s }
           n == Cardinality(before)
<1>1. o # Nothing /\ n < Cardinality(now) /\ SwitchSpace(o, NthPill(now, n))
  BY Zenon DEF ClickPill
<1>2. o \in Display
  BY <1>1 DEF BarInv, BarState
<1>3. n \in Nat
  <2>1. IsFiniteSet(Space) /\ before \subseteq Space
    BY BarAssumption, FS_Interval DEF Space, Pills
  <2> QED
    BY <2>1, FS_Subset, FS_CardinalityType
<1>4. now \in SUBSET Space
  BY DEF Pills
<1> HIDE DEF now, n, o
<1>5. NthPill(now, n) \in Space
  BY <1>1, <1>3, <1>4, NthPillIsPill
<1> QED
  BY <1>1, <1>2, <1>5, SwitchTells

\* The focus moves on to a window of the workspace that is active on an output.
LEMMA FrontedNext ==
    ASSUME NEW d \in Desktops, Owned(d), NEW o \in Display, NEW n \in Nexts(d, o)
    PROVE  /\ Fronted(d, n) \in Desktops /\ Owned(Fronted(d, n))
           /\ Fronted(d, n).home = d.home
<1>1. /\ n \in Client \cup {Nothing}
      /\ n # Nothing => d.home[n] = [out |-> o, ws |-> d.active[o]]
  BY NextsThere
<1>2. n # Nothing => d.home[n].out \in Display
  BY <1>1
<1> QED
  BY <1>1, <1>2, FrontedKeeps

\* workspace::move_to
LEMMA MoveClientKeeps ==
    ASSUME BarInv, NEW c \in Client, NEW s \in Space, MoveClient(c, s)
    PROVE  BarInv'
<1> DEFINE o == desktop.home[c].out
           h == [out |-> o, ws |-> s]
           u == Unfronted(desktop, c)
           d == Housed(u, c, o, s)
<1>1. /\ o \in desktop.lit /\ bar_config' = bar_config
      /\ \E n \in Nexts(d, o) :
            desktop' = Fronted(d, n) /\ bars' = IF n = Nothing THEN bars ELSE FocusChanged
  BY Zenon DEF MoveClient
<1>2. o \in Display /\ h \in Homes
  BY <1>1 DEF BarInv, Desktops, Homes
<1>3. u \in Desktops /\ Owned(u) /\ \A p \in Display, t \in Space : u.front[p][t] # c
  BY UnfrontedKeeps DEF BarInv
<1> HIDE DEF u
<1>4. d \in Desktops /\ Owned(d)
  BY <1>2, <1>3, HousedKeeps DEF Housed
<1> HIDE DEF d, o
<1>5. desktop' \in Desktops /\ Owned(desktop')
  BY <1>1, <1>2, <1>4, FrontedNext
<1>6. bars' \in [Place -> BarState] /\ Hung(bars')
  BY <1>1, ToldBars DEF FocusChanged, BarInv
<1> QED
  BY <1>1, <1>5, <1>6 DEF BarInv

\* move_to_monitor
LEMMA SendClientKeeps ==
    ASSUME BarInv, NEW c \in Client, NEW o \in Display, SendClient(c, o)
    PROVE  BarInv'
<1> DEFINE old == desktop.home[c].out
           s == desktop.active[o]
           h == [out |-> o, ws |-> s]
           u == Unfronted(desktop, c)
           d == Housed(u, c, o, s)
<1>1. /\ old \in desktop.lit /\ bar_config' = bar_config /\ bars' = FocusChanged
      /\ \E n \in Nexts(d, old) : desktop' = Fronted(Fronted(d, n), c)
  BY Zenon DEF SendClient
<1>2. old \in Display /\ s \in Space /\ h \in Homes
  BY <1>1 DEF BarInv, Desktops, Homes
<1>3. u \in Desktops /\ Owned(u) /\ \A p \in Display, t \in Space : u.front[p][t] # c
  BY UnfrontedKeeps DEF BarInv
<1> HIDE DEF u
<1>4. d \in Desktops /\ Owned(d) /\ d.home[c] = h
  BY <1>2, <1>3, HousedKeeps DEF Housed
<1> HIDE DEF d, old
<1>5. PICK n \in Nexts(d, old) : desktop' = Fronted(Fronted(d, n), c)
  BY <1>1
<1> DEFINE e == Fronted(d, n)
<1>6. e \in Desktops /\ Owned(e) /\ e.home = d.home
  BY <1>2, <1>4, FrontedNext
<1> HIDE DEF e
<1>7. e.home[c].out \in Display
  BY <1>4, <1>6
<1>8. Fronted(e, c) \in Desktops /\ Owned(Fronted(e, c))
  BY <1>6, <1>7, FrontedKeeps
<1>9. desktop' \in Desktops /\ Owned(desktop')
  BY <1>5, <1>8 DEF e
<1>10. bars' \in [Place -> BarState] /\ Hung(bars')
  BY <1>1, ToldBars DEF FocusChanged
<1> QED
  BY <1>1, <1>9, <1>10 DEF BarInv

\* output_destroy: the windows of the output go to another one and are remembered nowhere.
LEMMA UnplugDisplayKeeps ==
    ASSUME BarInv, NEW o \in Display, UnplugDisplay(o)
    PROVE  BarInv'
<1> DEFINE there == { c \in Client : desktop.home[c].out = o }
           f == [desktop.front EXCEPT ![o] = [s \in Space |-> Nothing]]
           a == [desktop.active EXCEPT ![o] = 1]
           g(r) == [c \in Client |-> IF c \in there THEN [desktop.home[c] EXCEPT !.out = r]
                                                     ELSE desktop.home[c]]
           d(r) == [desktop EXCEPT !.lit = @ \ {o}, !.front[o] = [s \in Space |-> Nothing],
                                   !.active[o] = 1, !.home = g(r)]
<1>1. PICK r \in IF desktop.lit = {o} THEN {Nothing} ELSE desktop.lit \ {o} :
        /\ desktop' = d(r)
        /\ IF bars[Global].target = o
           THEN bars' \in Recreated([d(r) EXCEPT !.home = desktop.home], bar_config)
           ELSE bars' = [bars EXCEPT ![o] = NoBar]
  BY Zenon DEF UnplugDisplay
<1>2. /\ desktop.lit \subseteq Display /\ desktop.front \in Fronts
      /\ desktop.active \in [Display -> Space] /\ desktop.home \in [Client -> Homes]
      /\ bar_config' = bar_config
  BY DEF BarInv, Desktops, UnplugDisplay
<1>3. r \in Display \cup {Nothing}
  BY <1>1, <1>2
<1>4. /\ f \in Fronts /\ a \in [Display -> Space]
      /\ \A s \in Space : f[o][s] = Nothing
      /\ \A p \in Display : p # o => f[p] = desktop.front[p]
  BY <1>2, BarAssumption DEF Fronts, Space
<1>5. /\ g(r) \in [Client -> Homes]
      /\ \A c \in Client : desktop.home[c].out # o => g(r)[c] = desktop.home[c]
  BY <1>2, <1>3 DEF Homes
<1>6. d(r) = [desktop EXCEPT !.lit = desktop.lit \ {o}, !.front = f, !.active = a, !.home = g(r)]
  BY <1>2 DEF BarInv, Desktops
<1> DEFINE e == d(r)
<1>7. e = [desktop EXCEPT !.lit = desktop.lit \ {o}, !.front = f, !.active = a, !.home = g(r)]
  BY <1>6
<1> DEFINE k == g(r)
<1>8. k \in [Client -> Homes] /\ \A c \in Client : desktop.home[c].out # o => k[c] = desktop.home[c]
  BY <1>5
<1>9. e = [desktop EXCEPT !.lit = desktop.lit \ {o}, !.front = f, !.active = a, !.home = k]
  BY <1>7
<1>10. desktop' = e /\ IF bars[Global].target = o
                       THEN bars' \in Recreated([e EXCEPT !.home = desktop.home], bar_config)
                       ELSE bars' = [bars EXCEPT ![o] = NoBar]
  BY <1>1
<1> HIDE DEF f, a, k, d, g, e
<1>11. /\ e \in Desktops /\ e.home = k /\ e.front = f
       /\ [e EXCEPT !.home = desktop.home] \in Desktops
  BY <1>2, <1>4, <1>8, <1>9 DEF BarInv, Desktops
<1>12. Owned(e)
  <2> SUFFICES ASSUME NEW p \in Display, NEW s \in Space, f[p][s] # Nothing
               PROVE  k[f[p][s]] = [out |-> p, ws |-> s]
    BY <1>11 DEF Owned
  <2>1. p # o /\ f[p][s] = desktop.front[p][s] /\ f[p][s] \in Client
    BY <1>4 DEF Fronts
  <2>2. desktop.home[f[p][s]] = [out |-> p, ws |-> s]
    BY <2>1 DEF BarInv, Owned
  <2> QED
    BY <1>8, <2>1, <2>2
<1>13. bars' \in [Place -> BarState] /\ Hung(bars')
  <2>1. CASE bars[Global].target = o
    BY <1>10, <1>11, <2>1, RecreatedBars
  <2>2. CASE bars[Global].target # o
    <3>1. bars' = [bars EXCEPT ![o] = NoBar]
      BY <1>10, <2>2
    <3> QED
      BY <3>1, NoBarIsBar DEF BarInv, Hung, Place
  <2> QED
    BY <2>1, <2>2
<1> QED
  BY <1>2, <1>10, <1>11, <1>12, <1>13 DEF BarInv

\* server_new_output: the windows it adopts are on no output, so no workspace
\* remembers them.
LEMMA PlugDisplayKeeps ==
    ASSUME BarInv, NEW o \in Display, PlugDisplay(o)
    PROVE  BarInv'
<1> DEFINE orphans == { c \in Client : desktop.home[c] # Anywhere /\ desktop.home[c].out = Nothing }
           k == [c \in Client |-> IF c \in orphans THEN [desktop.home[c] EXCEPT !.out = o]
                                                   ELSE desktop.home[c]]
           d == [desktop EXCEPT !.lit = desktop.lit \cup {o}]
           e == [d EXCEPT !.home = k]
<1>1. /\ desktop.lit \subseteq Display /\ desktop.front \in Fronts
      /\ desktop.active \in [Display -> Space] /\ desktop.home \in [Client -> Homes]
  BY DEF BarInv, Desktops
<1>2. d \in Desktops /\ d.home = desktop.home /\ d.front = desktop.front
  BY <1>1 DEF BarInv, Desktops
<1>3. d = [desktop EXCEPT !.lit = @ \cup {o}]
  OBVIOUS
<1>4. k = [c \in Client |-> IF c \in orphans THEN [d.home[c] EXCEPT !.out = o] ELSE d.home[c]]
  BY <1>2
<1>5. desktop' = e /\ bars' \in Recreated(d, bar_config) /\ bar_config' = bar_config
  BY <1>3, <1>4 DEF PlugDisplay
<1>6. /\ k \in [Client -> Homes]
      /\ \A c \in Client : desktop.home[c].out # Nothing => k[c] = desktop.home[c]
  BY <1>1 DEF Homes
<1> HIDE DEF k, d
<1>7. e \in Desktops /\ e.home = k /\ e.front = desktop.front
  BY <1>2, <1>6 DEF Desktops
<1> HIDE DEF e
<1>8. Owned(e)
  <2> SUFFICES ASSUME NEW p \in Display, NEW s \in Space, desktop.front[p][s] # Nothing
               PROVE  k[desktop.front[p][s]] = [out |-> p, ws |-> s]
    BY <1>7 DEF Owned
  <2>1. /\ desktop.front[p][s] \in Client
        /\ desktop.home[desktop.front[p][s]] = [out |-> p, ws |-> s]
    BY <1>1 DEF Fronts, BarInv, Owned
  <2> QED
    BY <1>6, <2>1, BarAssumption
<1>9. bars' \in [Place -> BarState] /\ Hung(bars')
  BY <1>2, <1>5, RecreatedBars
<1> QED
  BY <1>5, <1>7, <1>8, <1>9 DEF BarInv

\* What only draws: every bar is as it was, or shows what there is.
LEMMA DrawnTells ==
    ASSUME BarInv, UNCHANGED <<desktop, bar_config>>,
           bars' = [p \in Place |-> bars'[p]],
           \A p \in Place :
              \/ bars'[p] = bars[p]
              \/ bars'[p] = NoBar
              \/ /\ bars[p].target \in Display
                 /\ bars'[p] = Drawn(desktop, bar_config, bars[p].target)
    PROVE  BarInv' /\ BarsNotified
<1>1. ASSUME NEW p \in Place
      PROVE  /\ bars'[p] \in BarState
             /\ bars'[p].target \in {bars[p].target, Nothing}
             /\ Outdated(p)' => bars'[p] = bars[p]
  <2>1. CASE bars'[p] = bars[p]
    BY <2>1 DEF BarInv
  <2>2. CASE bars'[p] = NoBar
    BY <2>2, NoBarIsBar DEF Outdated
  <2>3. CASE /\ bars[p].target \in Display
             /\ bars'[p] = Drawn(desktop, bar_config, bars[p].target)
    <3> DEFINE t == bars[p].target
               b == Drawn(desktop, bar_config, t)
    <3>1. b \in BarState /\ b.target = t /\ b.shown = Facts(desktop, bar_config, t)
      <4>1. desktop \in Desktops /\ t \in Display
        BY <2>3 DEF BarInv
      <4> HIDE DEF t
      <4> QED
        BY <4>1, DrawnIsBar
    <3>2. bars'[p] = b
      BY <2>3
    <3> HIDE DEF b, t
    <3>3. ~Outdated(p)'
      BY <3>1, <3>2 DEF Outdated
    <3> QED
      BY <3>1, <3>2, <3>3 DEF t
  <2> QED
    BY <2>1, <2>2, <2>3
<1>2. bars' \in [Place -> BarState]
  BY <1>1
<1>3. Hung(bars')
  BY <1>1 DEF Hung, BarInv, Place
<1>4. BarsNotified
  BY <1>1 DEF BarsNotified, Outdated
<1> QED
  BY <1>2, <1>3, <1>4 DEF BarInv

\* A frame, a tick and an update of a module draw some of the bars there are.
LEMMA DrawingTells ==
    ASSUME BarInv,
           (\E o \in Display : Frame(o)) \/ (\E p \in Place : TickBar(p)) \/ UpdateModule
    PROVE  BarInv' /\ BarsNotified
<1>1. /\ bars \in [Place -> BarState]
      /\ \A p \in Place : bars[p].target # Nothing => bars[p].target \in Display
  BY DEF BarInv, BarState
<1>2. ASSUME NEW o \in Display, Frame(o) PROVE BarInv' /\ BarsNotified
  <2>1. /\ UNCHANGED <<desktop, bar_config>>
        /\ bars' = [p \in Place |-> bars'[p]]
        /\ \A p \in Place :
              \/ bars'[p] = bars[p]
              \/ bars[p].target = o /\ bars'[p] = Drawn(desktop, bar_config, bars[p].target)
    BY <1>2 DEF Frame
  <2> QED
    BY <2>1, DrawnTells
<1>3. ASSUME NEW p \in Place, TickBar(p) PROVE BarInv' /\ BarsNotified
  <2>1. /\ UNCHANGED <<desktop, bar_config>>
        /\ bars' = [q \in Place |-> bars'[q]]
        /\ \A q \in Place :
              \/ bars'[q] = bars[q]
              \/ bars[q].target \in Display /\ bars'[q] = Drawn(desktop, bar_config, bars[q].target)
    BY <1>1, <1>3 DEF TickBar
  <2> QED
    BY <2>1, DrawnTells
<1>4. ASSUME UpdateModule PROVE BarInv' /\ BarsNotified
  <2>1. /\ UNCHANGED <<desktop, bar_config>>
        /\ bars' = [q \in Place |-> bars'[q]]
        /\ \A q \in Place :
              \/ bars'[q] = NoBar
              \/ bars[q].target \in Display /\ bars'[q] = Drawn(desktop, bar_config, bars[q].target)
    BY <1>1, <1>4 DEF UpdateModule
  <2> QED
    BY <2>1, DrawnTells
<1> QED
  BY <1>2, <1>3, <1>4

\* A reload draws every bar there is after it.
LEMMA ReloadTells ==
    ASSUME BarInv, ReloadBars
    PROVE  BarInv' /\ BarsNotified
<1>1. /\ bar_config' \in BarConfig /\ desktop' = desktop
      /\ bars' \in Recreated(desktop, bar_config') /\ desktop \in Desktops
  BY DEF ReloadBars, BarInv
<1>2. /\ bars' \in [Place -> BarState] /\ Hung(bars')
      /\ \A p \in Place : bars'[p].target # Nothing =>
             bars'[p].shown = Facts(desktop, bar_config', bars'[p].target)
  BY <1>1, RecreatedBars
<1>3. BarsNotified
  BY <1>1, <1>2 DEF BarsNotified, Outdated
<1> QED
  BY <1>1, <1>2, <1>3 DEF BarInv

\* Every step keeps the invariant, and tells the bars unless it is silent.
LEMMA BarStep ==
    ASSUME BarInv, BarNext
    PROVE  BarInv' /\ (BarsNotified \/ Silent)
<1>1. ASSUME NEW c \in Client, NEW o \in Display, SendClient(c, o) PROVE BarInv' /\ Silent
  BY <1>1, SendClientKeeps DEF Silent
<1>2. ASSUME NEW c \in Client, NEW o \in Display, NEW s \in Space, OpenClient(c, o, s)
      PROVE  BarInv' /\ BarsNotified
  BY <1>2, OpenTells
<1>3. ASSUME NEW c \in Client, CloseClient(c) \/ FocusClient(c) PROVE BarInv' /\ BarsNotified
  BY <1>3, CloseTells, FocusTells
<1>4. ASSUME NEW c \in Client, NEW s \in Space, MoveClient(c, s) PROVE BarInv' /\ Silent
  BY <1>4, MoveClientKeeps DEF Silent
<1>5. ASSUME NEW s \in Space, NEW o \in Display, SwitchSpace(o, s) PROVE BarInv' /\ BarsNotified
  BY <1>5, SwitchTells
<1>6. ASSUME NEW s \in Space, NEW p \in Place, ClickPill(p, s) PROVE BarInv' /\ BarsNotified
  BY <1>6, PillTells
<1>7. ASSUME NEW o \in Display, UnplugDisplay(o) \/ PlugDisplay(o) PROVE BarInv' /\ Silent
  BY <1>7, UnplugDisplayKeeps, PlugDisplayKeeps DEF Silent
<1>8. ASSUME (\E o \in Display : Frame(o)) \/ (\E p \in Place : TickBar(p)) \/ UpdateModule
      PROVE  BarInv' /\ BarsNotified
  BY <1>8, DrawingTells
<1>9. CASE ReloadBars
  BY <1>9, ReloadTells
<1> QED
  BY <1>1, <1>2, <1>3, <1>4, <1>5, <1>6, <1>7, <1>8, <1>9 DEF BarNext

\* The first bars show what there is.
LEMMA BarInitInv == BarInit => BarInv
<1> SUFFICES ASSUME BarInit PROVE BarInv
  OBVIOUS
<1>1. 1 \in Space /\ Anywhere \in Homes
  BY BarAssumption DEF Space, Anywhere, Homes
<1>2. desktop = [lit |-> Display, active |-> [o \in Display |-> 1],
                 home |-> [c \in Client |-> Anywhere],
                 front |-> [o \in Display |-> [s \in Space |-> Nothing]]]
  BY DEF BarInit
<1>3. desktop \in Desktops
  BY <1>1, <1>2 DEF Desktops, Fronts
<1>4. Owned(desktop)
  BY <1>2 DEF Owned
<1>5. bar_config \in BarConfig /\ bars \in Recreated(desktop, bar_config)
  BY DEF BarInit
<1>6. bars \in [Place -> BarState] /\ Hung(bars)
  BY <1>3, <1>5, RecreatedBars
<1> QED
  BY <1>3, <1>4, <1>5, <1>6 DEF BarInv

\* The bars by themselves.
BarSpec == BarInit /\ [][BarNext]_barVars

\* The invariant always holds.
LEMMA BarInvariant == BarSpec => []BarInv
<1>1. BarInv /\ [BarNext]_barVars => BarInv'
  <2>1. BarInv /\ UNCHANGED barVars => BarInv'
    BY DEF barVars, BarInv
  <2> QED
    BY <2>1, BarStep
<1> QED
  BY <1>1, BarInitInv, PTL DEF BarSpec

\* Bars and desktop keep their types: a clicked pill is always a workspace there is (the
\* pill of the same rank), and every bar that is built hangs on an output
\* (bar_handle_button, bar_apply_config).
THEOREM BarTypeCorrect == BarSpec => []BarTypeOK
<1>1. BarInv => BarTypeOK
  BY DEF BarInv, BarTypeOK, Desktops, Homes, Fronts, BarState, BarShown
<1> QED
  BY <1>1, BarInvariant, PTL

\* Whatever changes what a bar shows tells that bar, unless it is one of the operations
\* that tell none: for any outputs, windows, workspaces and modules of the bars
\* (bar_notify_windows_changed, bar_notify_focus_change, bar_notify_workspace_change).
THEOREM BarsAreTold == BarSpec => BarsTold
<1>1. BarInv /\ [BarNext]_barVars =>
        [\/ desktop' = desktop /\ bars' = bars
         \/ \A p \in Place :
              Outdated(p)' /\ ~bars'[p].dirty => Outdated(p) /\ ~bars[p].dirty
         \/ Silent]_barVars
  BY BarStep DEF BarsNotified
<1> QED
  BY <1>1, BarInvariant, PTL DEF BarSpec, BarsTold


----------------------------------------------------------------------------
(* The system tray *)

AppState == [name : BOOLEAN, kept : BOOLEAN, look : Look, calls : Seq(Address \cup {Nobody}),
             late : BOOLEAN]
Item == [service : App, at : Address, look : Looks, x : Nat]

\* TrayTypeOK, with what it says of addresses item by item.
TrayTypes ==
    /\ apps \in [App -> AppState]
    /\ inbox \in Seq(Message) /\ Len(inbox) <= MaxInbox
    /\ items \in Seq(Item)
    /\ \A i, j \in 1 .. Len(items) : items[i].at = items[j].at => i = j
    /\ icons \in [TrayBar -> Seq(App)] /\ tray_dirty \subseteq TrayBar
    /\ starts \in [TrayBar -> Nat] /\ last_drawn \in TrayBar

\* What a message is about.
LEMMA MessageFields ==
    \A m \in Message :
        /\ m.from \in App /\ m.kind \in {"register", "changed", "vanished", "reply"}
        /\ m.kind = "reply" => m.at \in Address /\ m.look \in Look
  BY DEF Message

\* The tail of a sequence is the sequence one place earlier.
LEMMA TailEntries ==
    ASSUME NEW S, NEW seq \in Seq(S), seq # <<>>
    PROVE  /\ Len(seq) \in Nat /\ Len(seq) >= 1 /\ Head(seq) = seq[1] /\ seq[1] \in S
           /\ Tail(seq) \in Seq(S) /\ Len(Tail(seq)) = Len(seq) - 1
           /\ \A i \in 1 .. Len(seq) - 1 : Tail(seq)[i] = seq[i + 1]
<1>1. Len(seq) \in Nat /\ Len(seq) >= 1
  BY EmptySeq, LenProperties
<1>2. /\ Head(seq) \in S /\ Tail(seq) \in Seq(S) /\ Len(Tail(seq)) = Len(seq) - 1
      /\ Head(seq) = seq[1]
      /\ \A i \in 1 .. Len(Tail(seq)) : Tail(seq)[i] = seq[i + 1]
  BY HeadTailProperties
<1> QED
  BY <1>1, <1>2

\* What a sequence holds after something is appended.
LEMMA AppendEntries ==
    ASSUME NEW S, NEW seq \in Seq(S), NEW e \in S
    PROVE  /\ Len(seq) \in Nat
           /\ Append(seq, e) \in Seq(S) /\ Len(Append(seq, e)) = Len(seq) + 1
           /\ \A i \in 1 .. Len(seq) : Append(seq, e)[i] = seq[i]
           /\ Append(seq, e)[Len(seq) + 1] = e
  BY AppendProperties, LenProperties

\* The bus appends a message.
LEMMA SentEntries ==
    ASSUME TrayTypes, NEW m \in Message, Room(1), inbox' = Sent(<<m>>)
    PROVE  /\ Len(inbox) \in Nat
           /\ inbox' \in Seq(Message) /\ Len(inbox') <= MaxInbox
           /\ Len(inbox') = Len(inbox) + 1
           /\ \A i \in 1 .. Len(inbox) : inbox'[i] = inbox[i]
           /\ inbox'[Len(inbox) + 1] = m
<1> DEFINE one == <<m>>
<1>1. inbox \in Seq(Message) /\ one \in Seq(Message) /\ Len(one) = 1 /\ one[1] = m
  BY DEF TrayTypes
<1>2. Len(inbox) \in Nat /\ Len(inbox) + 1 <= MaxInbox
  BY <1>1, LenProperties DEF Room
<1>3. inbox' = inbox \o one
  BY DEF Sent
<1> HIDE DEF one
<1>4. /\ inbox \o one \in Seq(Message) /\ Len(inbox \o one) = Len(inbox) + 1
      /\ \A i \in 1 .. Len(inbox) + 1 :
            (inbox \o one)[i] = IF i <= Len(inbox) THEN inbox[i] ELSE one[i - Len(inbox)]
  BY <1>1, ConcatProperties
<1>5. Len(inbox) + 1 \in 1 .. Len(inbox) + 1 /\ Len(inbox) + 1 - Len(inbox) = 1
      /\ ~(Len(inbox) + 1 <= Len(inbox))
  BY <1>2
<1>6. inbox'[Len(inbox) + 1] = m
  BY <1>1, <1>3, <1>4, <1>5
<1>7. \A i \in 1 .. Len(inbox) : inbox'[i] = inbox[i]
  BY <1>2, <1>3, <1>4
<1> QED
  BY <1>2, <1>3, <1>4, <1>6, <1>7

\* The tray takes the oldest message.
LEMMA ReceivedEntries ==
    ASSUME TrayTypes, NEW kind, Received(kind)
    PROVE  /\ Len(inbox) \in Nat /\ Len(inbox) >= 1
           /\ Head(inbox) = inbox[1] /\ inbox[1] \in Message /\ inbox[1].kind = kind
           /\ inbox' \in Seq(Message) /\ Len(inbox') <= MaxInbox
           /\ Len(inbox') = Len(inbox) - 1
           /\ \A i \in 1 .. Len(inbox) - 1 : inbox'[i] = inbox[i + 1]
<1>1. inbox \in Seq(Message) /\ Len(inbox) <= MaxInbox /\ MaxInbox \in Nat
  BY TrayConstants DEF TrayTypes
<1>2. inbox # <<>> /\ Head(inbox).kind = kind /\ inbox' = Tail(inbox)
  BY DEF Received
<1>3. /\ Len(inbox) \in Nat /\ Len(inbox) >= 1 /\ Head(inbox) = inbox[1] /\ inbox[1] \in Message
      /\ Tail(inbox) \in Seq(Message) /\ Len(Tail(inbox)) = Len(inbox) - 1
      /\ \A i \in 1 .. Len(inbox) - 1 : Tail(inbox)[i] = inbox[i + 1]
  BY <1>1, <1>2, TailEntries
<1> QED
  BY <1>1, <1>2, <1>3

\* The fields of an application and of an item.
LEMMA TrayFields ==
    ASSUME TrayTypes
    PROVE  /\ \A a \in App :
                 /\ apps[a] \in AppState /\ apps[a].name \in BOOLEAN /\ apps[a].kept \in BOOLEAN
                 /\ apps[a].look \in Look
                 /\ apps[a].calls \in Seq(Address \cup {Nobody}) /\ apps[a].late \in BOOLEAN
           /\ Len(items) \in Nat /\ DOMAIN items = 1 .. Len(items)
           /\ Len(inbox) \in Nat /\ DOMAIN inbox = 1 .. Len(inbox)
           /\ \A i \in 1 .. Len(items) :
                 /\ items[i] \in Item /\ items[i].service \in App /\ items[i].at \in Address
                 /\ items[i].look \in Looks /\ items[i].x \in Nat
           /\ \A i \in 1 .. Len(inbox) : inbox[i] \in Message
<1>1. apps \in [App -> AppState] /\ inbox \in Seq(Message) /\ items \in Seq(Item)
  BY DEF TrayTypes
<1>2. \A a \in App :
          /\ apps[a] \in AppState /\ apps[a].name \in BOOLEAN /\ apps[a].kept \in BOOLEAN
          /\ apps[a].look \in Look
          /\ apps[a].calls \in Seq(Address \cup {Nobody}) /\ apps[a].late \in BOOLEAN
  BY <1>1 DEF AppState
<1>3. /\ Len(items) \in Nat /\ DOMAIN items = 1 .. Len(items)
      /\ Len(inbox) \in Nat /\ DOMAIN inbox = 1 .. Len(inbox)
      /\ \A i \in 1 .. Len(inbox) : inbox[i] \in Message
      /\ \A i \in 1 .. Len(items) : items[i] \in Item
  BY <1>1, LenProperties, ElementOfSeq
<1>4. \A i \in 1 .. Len(items) :
          /\ items[i].service \in App /\ items[i].at \in Address
          /\ items[i].look \in Looks /\ items[i].x \in Nat
  BY <1>3 DEF Item
<1> QED
  BY <1>2, <1>3, <1>4

\* What a step does to the inbox and to the applications, entry by entry.
Says(m) ==
    /\ Len(inbox') = Len(inbox) + 1
    /\ \A i \in 1 .. Len(inbox) : inbox'[i] = inbox[i]
    /\ inbox'[Len(inbox) + 1] = m

Consumes ==
    /\ Len(inbox) >= 1 /\ Len(inbox') = Len(inbox) - 1
    /\ \A i \in 1 .. Len(inbox) - 1 : inbox'[i] = inbox[i + 1]

Only(a) == \A b \in App \ {a} : apps'[b] = apps[b]

Asks(a, at) ==
    /\ Only(a)
    /\ apps'[a].name = apps[a].name /\ apps'[a].kept = apps[a].kept
    /\ apps'[a].look = apps[a].look
    /\ apps'[a].late = FALSE /\ apps'[a].calls = Append(apps[a].calls, at)

\* The items keep their services and their addresses.
Stays ==
    /\ Len(items') = Len(items)
    /\ \A i \in 1 .. Len(items) : items'[i].service = items[i].service /\ items'[i].at = items[i].at

Unread == UNCHANGED <<items, icons, starts, last_drawn, tray_dirty>>

\* What only concerns applications and the bus keeps the types.
LEMMA UnreadTypes ==
    ASSUME TrayTypes, Unread, apps' \in [App -> AppState],
           inbox' \in Seq(Message), Len(inbox') <= MaxInbox
    PROVE  TrayTypes'
  BY DEF TrayTypes, Unread

\* An application takes its name, or has it, and registers: one message more.
LEMMA RegisterEffect ==
    ASSUME TrayTypes, NEW a \in App, Register(a)
    PROVE  /\ TrayTypes' /\ Unread /\ Only(a) /\ Says([kind |-> "register", from |-> a])
           /\ apps'[a].name = TRUE /\ apps'[a].kept = TRUE /\ apps'[a].look = apps[a].look
           /\ apps'[a].calls = apps[a].calls /\ apps'[a].late = apps[a].late
           /\ LateReleases \/ apps[a].name = TRUE
                \/ \A j \in 1 .. Len(inbox) : inbox[j].from # a
<1>1. apps \in [App -> AppState] /\ [kind |-> "register", from |-> a] \in Message
  BY DEF TrayTypes, Message
<1>2. /\ inbox' \in Seq(Message) /\ Len(inbox') <= MaxInbox
      /\ Says([kind |-> "register", from |-> a])
  BY <1>1, SentEntries DEF Register, Says
<1>3. apps' = [apps EXCEPT ![a].name = TRUE, ![a].kept = TRUE]
  BY DEF Register
<1>4. /\ apps' \in [App -> AppState] /\ Only(a)
      /\ apps'[a].name = TRUE /\ apps'[a].kept = TRUE /\ apps'[a].look = apps[a].look
      /\ apps'[a].calls = apps[a].calls /\ apps'[a].late = apps[a].late
  BY <1>1, <1>3 DEF AppState, Only
<1>5. Unread
  BY DEF Register, Unread, shownVars
<1>6. LateReleases \/ apps[a].name = TRUE \/ \A j \in 1 .. Len(inbox) : inbox[j].from # a
  BY TrayFields DEF Register, Quiet
<1> QED
  BY <1>2, <1>4, <1>5, <1>6, UnreadTypes

\* An application changes its look and says so.
LEMMA ChangeLookEffect ==
    ASSUME TrayTypes, NEW a \in App, ChangeLook(a)
    PROVE  /\ TrayTypes' /\ Unread /\ Only(a) /\ Says([kind |-> "changed", from |-> a])
           /\ apps[a].name = TRUE /\ apps'[a].name = TRUE /\ apps'[a].kept = apps[a].kept
           /\ apps'[a].calls = apps[a].calls /\ apps'[a].late = apps[a].late
<1>1. apps \in [App -> AppState] /\ [kind |-> "changed", from |-> a] \in Message
  BY DEF TrayTypes, Message
<1>2. /\ inbox' \in Seq(Message) /\ Len(inbox') <= MaxInbox
      /\ Says([kind |-> "changed", from |-> a])
  BY <1>1, SentEntries DEF ChangeLook, Says
<1>3. PICK look \in Look : apps' = [apps EXCEPT ![a].look = look]
  BY DEF ChangeLook
<1>4. apps[a].name = TRUE
  <2>1. apps[a].name \in BOOLEAN
    BY <1>1 DEF AppState
  <2> QED
    BY <2>1 DEF ChangeLook
<1>5. /\ apps' \in [App -> AppState] /\ Only(a) /\ apps'[a].name = apps[a].name
      /\ apps'[a].kept = apps[a].kept
      /\ apps'[a].calls = apps[a].calls /\ apps'[a].late = apps[a].late
  BY <1>1, <1>3 DEF AppState, Only
<1>6. Unread
  BY DEF ChangeLook, Unread, shownVars
<1> QED
  BY <1>2, <1>4, <1>5, <1>6, UnreadTypes

\* The name of an application that quits vanishes, and its calls are never answered.
LEMMA QuitEffect ==
    ASSUME TrayTypes, NEW a \in App, Quit(a)
    PROVE  /\ TrayTypes' /\ Unread /\ Only(a) /\ Says([kind |-> "vanished", from |-> a])
           /\ apps[a].name = TRUE /\ apps'[a].name = FALSE /\ apps'[a].calls = <<>>
<1>1. apps \in [App -> AppState] /\ [kind |-> "vanished", from |-> a] \in Message
  BY DEF TrayTypes, Message
<1>2. /\ inbox' \in Seq(Message) /\ Len(inbox') <= MaxInbox
      /\ Says([kind |-> "vanished", from |-> a])
  BY <1>1, SentEntries DEF Quit, Says
<1>3. apps' = [apps EXCEPT ![a].name = FALSE, ![a].calls = <<>>, ![a].late = FALSE]
  BY DEF Quit
<1>4. apps[a].name = TRUE
  <2>1. apps[a].name \in BOOLEAN
    BY <1>1 DEF AppState
  <2> QED
    BY <2>1 DEF Quit
<1>5. <<>> \in Seq(Address \cup {Nobody})
  BY EmptySeq
<1>6. /\ apps' \in [App -> AppState] /\ Only(a)
      /\ apps'[a].name = FALSE /\ apps'[a].calls = <<>>
  BY <1>1, <1>3, <1>5 DEF AppState, Only
<1>7. Unread
  BY DEF Quit, Unread, shownVars
<1> QED
  BY <1>2, <1>4, <1>6, <1>7, UnreadTypes

\* An application gives its name up, or another, and lives on: with LateReleases at any
\* time, else only if nothing of it is on its way and no call to it is open.
LEMMA ReleaseEffect ==
    ASSUME TrayTypes, NEW a \in App, Release(a)
    PROVE  /\ TrayTypes' /\ Unread /\ Only(a) /\ Says([kind |-> "vanished", from |-> a])
           /\ apps[a].name = TRUE /\ (apps'[a].name = FALSE \/ apps'[a].kept = FALSE)
           /\ apps'[a].calls = apps[a].calls
           /\ \/ LateReleases
              \/ apps[a].calls = <<>> /\ \A j \in 1 .. Len(inbox) : inbox[j].from # a
<1>1. apps \in [App -> AppState] /\ [kind |-> "vanished", from |-> a] \in Message
  BY DEF TrayTypes, Message
<1>2. /\ inbox' \in Seq(Message) /\ Len(inbox') <= MaxInbox
      /\ Says([kind |-> "vanished", from |-> a])
  BY <1>1, SentEntries DEF Release, Says
<1>3. \/ apps' = [apps EXCEPT ![a].name = FALSE]
      \/ apps' = [apps EXCEPT ![a].kept = FALSE]
  BY DEF Release
<1>4. apps[a].name = TRUE
  <2>1. apps[a].name \in BOOLEAN
    BY <1>1 DEF AppState
  <2> QED
    BY <2>1 DEF Release
<1>5. /\ apps' \in [App -> AppState] /\ Only(a) /\ apps'[a].calls = apps[a].calls
      /\ apps'[a].name = FALSE \/ apps'[a].kept = FALSE
  <2>1. CASE apps' = [apps EXCEPT ![a].name = FALSE]
    <3>1. apps' \in [App -> AppState] /\ apps'[a].name = FALSE
      BY <1>1, <2>1 DEF AppState
    <3> QED
      BY <1>1, <2>1, <3>1 DEF AppState, Only
  <2>2. CASE apps' = [apps EXCEPT ![a].kept = FALSE]
    <3>1. apps' \in [App -> AppState] /\ apps'[a].kept = FALSE
      BY <1>1, <2>2 DEF AppState
    <3> QED
      BY <1>1, <2>2, <3>1 DEF AppState, Only
  <2> QED
    BY <1>3, <2>1, <2>2
<1>6. Unread
  BY DEF Release, Unread, shownVars
<1>7. LateReleases \/ (apps[a].calls = <<>> /\ \A j \in 1 .. Len(inbox) : inbox[j].from # a)
  BY TrayFields DEF Release, Quiet
<1> QED
  BY <1>2, <1>4, <1>5, <1>6, <1>7, UnreadTypes

\* An answer goes to the oldest call, and says how the application looks now.
LEMMA AnswerEffect ==
    ASSUME TrayTypes, NEW a \in App, Answer(a)
    PROVE  LET calls == apps[a].calls
           IN  /\ TrayTypes' /\ Unread /\ Only(a)
               /\ calls \in Seq(Address \cup {Nobody}) /\ calls # <<>>
               /\ apps'[a].name = apps[a].name /\ apps'[a].kept = apps[a].kept
               /\ apps'[a].look = apps[a].look
               /\ apps'[a].calls = Tail(calls) /\ apps'[a].late = apps[a].late
               /\ \/ calls[1] = Nobody /\ inbox' = inbox
                  \/ /\ calls[1] \in Address
                     /\ Says([kind |-> "reply", from |-> a, at |-> calls[1], look |-> apps[a].look])
<1> DEFINE calls == apps[a].calls
           m == [kind |-> "reply", from |-> a, at |-> calls[1], look |-> apps[a].look]
<1>1. /\ apps \in [App -> AppState] /\ calls \in Seq(Address \cup {Nobody}) /\ calls # <<>>
      /\ apps[a].look \in Look
  BY TrayFields DEF TrayTypes, Answer
<1>2. /\ Head(calls) = calls[1] /\ calls[1] \in Address \cup {Nobody}
      /\ Tail(calls) \in Seq(Address \cup {Nobody})
  BY <1>1, TailEntries
<1>3. apps' = [apps EXCEPT ![a].calls = Tail(@)]
  BY DEF Answer
<1>4. /\ apps' \in [App -> AppState] /\ Only(a)
      /\ apps'[a].name = apps[a].name /\ apps'[a].kept = apps[a].kept
      /\ apps'[a].look = apps[a].look
      /\ apps'[a].calls = Tail(calls) /\ apps'[a].late = apps[a].late
  BY <1>1, <1>2, <1>3 DEF AppState, Only
<1>5. Unread
  BY DEF Answer, Unread, shownVars
<1>6. inbox' = IF calls[1] = Nobody THEN inbox ELSE Sent(<<m>>)
  BY <1>2 DEF Answer
<1>7. CASE calls[1] = Nobody
  <2>1. inbox' = inbox
    BY <1>6, <1>7
  <2>2. TrayTypes'
    BY <1>4, <1>5, <2>1, UnreadTypes DEF TrayTypes
  <2> QED
    BY <1>1, <1>4, <1>5, <1>7, <2>1, <2>2
<1>8. CASE calls[1] # Nobody
  <2>1. calls[1] \in Address /\ inbox' = Sent(<<m>>) /\ Room(1)
    BY <1>2, <1>6, <1>8 DEF Answer
  <2>2. m \in Message
    BY <1>1, <2>1 DEF Message
  <2> HIDE DEF m
  <2>3. inbox' \in Seq(Message) /\ Len(inbox') <= MaxInbox /\ Says(m)
    BY <2>1, <2>2, SentEntries DEF Says
  <2>4. TrayTypes'
    BY <1>4, <1>5, <2>3, UnreadTypes
  <2> QED
    BY <1>1, <1>4, <1>5, <2>1, <2>3, <2>4 DEF m
<1> QED
  BY <1>7, <1>8

\* The tray gives up one of its calls, which stays to be answered late.
LEMMA TimeOutEffect ==
    ASSUME TrayTypes, NEW a \in App, TimeOut(a)
    PROVE  /\ TrayTypes' /\ Unread /\ Only(a) /\ inbox' = inbox
           /\ apps'[a].name = apps[a].name /\ apps'[a].kept = apps[a].kept
           /\ apps'[a].look = apps[a].look
           /\ apps'[a].late = TRUE
           /\ Len(apps[a].calls) \in Nat \ {0} /\ Len(apps'[a].calls) = Len(apps[a].calls)
           /\ \A j \in 1 .. Len(apps[a].calls) :
                 apps'[a].calls[j] \in {apps[a].calls[j], Nobody}
<1> DEFINE calls == apps[a].calls
<1>1. apps \in [App -> AppState] /\ calls \in Seq(Address \cup {Nobody})
  BY TrayFields DEF TrayTypes
<1>2. Len(calls) \in Nat /\ DOMAIN calls = 1 .. Len(calls)
  BY <1>1, LenProperties
<1>3. PICK i \in 1 .. Len(calls) :
          apps' = [apps EXCEPT ![a].calls[i] = Nobody, ![a].late = TRUE]
  BY <1>2 DEF TimeOut
<1> DEFINE late == [calls EXCEPT ![i] = Nobody]
<1>4. late \in Seq(Address \cup {Nobody}) /\ Len(late) = Len(calls)
  BY <1>1, <1>2, <1>3
<1>5. \A j \in 1 .. Len(calls) : late[j] \in {calls[j], Nobody}
  BY <1>1, <1>2, <1>3
<1>6. apps' = [apps EXCEPT ![a] = [apps[a] EXCEPT !.calls = late, !.late = TRUE]]
  BY <1>1, <1>3 DEF AppState
<1> HIDE DEF late
<1>7. /\ apps' \in [App -> AppState] /\ Only(a)
      /\ apps'[a].name = apps[a].name /\ apps'[a].kept = apps[a].kept
      /\ apps'[a].look = apps[a].look
      /\ apps'[a].calls = late /\ apps'[a].late = TRUE
  BY <1>1, <1>4, <1>6 DEF AppState, Only
<1>8. Unread /\ inbox' = inbox
  BY DEF TimeOut, Unread, shownVars
<1>9. TrayTypes'
  BY <1>7, <1>8, UnreadTypes DEF TrayTypes
<1> QED
  BY <1>2, <1>3, <1>4, <1>5, <1>7, <1>8, <1>9

\* request_item_properties keeps the types.
LEMMA RequestAsks ==
    ASSUME TrayTypes, NEW a \in App, NEW at \in Address, Request(a, at)
    PROVE  apps' \in [App -> AppState] /\ Asks(a, at)
<1>1. apps \in [App -> AppState] /\ apps[a].calls \in Seq(Address \cup {Nobody})
  BY TrayFields DEF TrayTypes
<1>2. Append(apps[a].calls, at) \in Seq(Address \cup {Nobody})
  BY <1>1, AppendEntries
<1>3. apps' = [apps EXCEPT ![a].calls = Append(@, at), ![a].late = FALSE]
  BY DEF Request
<1> QED
  BY <1>1, <1>2, <1>3 DEF AppState, Asks, Only

\* A message is read that is from a.
Heard(a, kind) == a \in App /\ Consumes /\ inbox[1].from = a /\ inbox[1].kind = kind

\* What the tray reads is the first message, and an application sent it.
LEMMA HeardTypes ==
    ASSUME TrayTypes, NEW kind, Received(kind)
    PROVE  /\ Head(inbox) = inbox[1] /\ Heard(inbox[1].from, kind)
           /\ inbox[1] \in Message
           /\ inbox' \in Seq(Message) /\ Len(inbox') <= MaxInbox
<1>1. /\ Head(inbox) = inbox[1] /\ inbox[1] \in Message /\ inbox[1].kind = kind
      /\ inbox' \in Seq(Message) /\ Len(inbox') <= MaxInbox
      /\ Consumes
  BY ReceivedEntries DEF Consumes
<1>2. inbox[1].from \in App
  BY <1>1, MessageFields
<1> QED
  BY <1>1, <1>2 DEF Heard

\* A message is read and no item changes.
LEMMA HeardOnly ==
    ASSUME TrayTypes, NEW kind, Received(kind), Unread, apps' \in [App -> AppState]
    PROVE  TrayTypes'
  BY HeardTypes, UnreadTypes

\* An item is new.
Adds(a, at) ==
    /\ a \in App /\ at \in Address
    /\ \A i \in 1 .. Len(items) : items[i].service # a /\ items[i].at # at
    /\ Len(items') = Len(items) + 1
    /\ \A i \in 1 .. Len(items) : items'[i] = items[i]
    /\ items'[Len(items) + 1] = [service |-> a, at |-> at, look |-> Unknown, x |-> 0]

\* The items of an application, by their indices.
LEMMA FoundItems ==
    ASSUME TrayTypes, NEW a
    PROVE  Found(a) = {i \in 1 .. Len(items) : items[i].service = a}
  BY TrayFields DEF Found

\* The item is there already, or it is added and asked for its properties.
LEMMA RegisterItemEffect ==
    ASSUME TrayTypes, RegisterItem
    PROVE  /\ TrayTypes'
           /\ \E a \in App :
                 /\ Heard(a, "register")
                 /\ \/ Unread /\ apps' = apps /\ \E i \in 1 .. Len(items) : items[i].service = a
                    \/ /\ tray_dirty' = TrayBar /\ UNCHANGED shownVars
                       /\ \E at \in Address :
                             /\ Adds(a, at)
                             /\ \/ apps[a].name = TRUE /\ Asks(a, at)
                                \/ apps[a].name = FALSE /\ apps' = apps
<1> DEFINE a == inbox[1].from
<1>1. /\ Received("register") /\ UNCHANGED shownVars
      /\ Head(inbox) = inbox[1] /\ Heard(a, "register")
      /\ inbox' \in Seq(Message) /\ Len(inbox') <= MaxInbox
  BY HeardTypes DEF RegisterItem
<1>2. a \in App /\ apps[a].name \in BOOLEAN /\ apps \in [App -> AppState]
  BY <1>1, TrayFields DEF Heard, TrayTypes
<1>3. Len(items) \in Nat /\ DOMAIN items = 1 .. Len(items) /\ items \in Seq(Item)
  BY TrayFields DEF TrayTypes
<1>4. CASE Found(a) # {}
  <2>1. Unread /\ apps' = apps
    BY <1>1, <1>4 DEF RegisterItem, Unread, shownVars
  <2>2. TrayTypes'
    BY <1>1, <1>2, <2>1, HeardOnly
  <2>3. \E i \in 1 .. Len(items) : items[i].service = a
    BY <1>4, FoundItems
  <2> QED
    BY <1>1, <1>2, <2>1, <2>2, <2>3
<1>5. CASE Found(a) = {}
  <2>1. PICK at \in Address \ { items[i].at : i \in DOMAIN items } :
            /\ items' = Append(items, [service |-> a, at |-> at, look |-> Unknown, x |-> 0])
            /\ tray_dirty' = TrayBar
            /\ IF apps[a].name THEN Request(a, at) ELSE UNCHANGED apps
    BY <1>1, <1>5 DEF RegisterItem
  <2> DEFINE e == [service |-> a, at |-> at, look |-> Unknown, x |-> 0]
  <2>2. e \in Item
    BY <1>2 DEF Item, Looks
  <2>3. \A i \in 1 .. Len(items) : items[i].service # a /\ items[i].at # at
    BY <1>3, <1>5, <2>1, FoundItems
  <2>4. e.at = at
    OBVIOUS
  <2> HIDE DEF e
  <2>5. /\ items' \in Seq(Item) /\ Len(items') = Len(items) + 1
        /\ \A i \in 1 .. Len(items) : items'[i] = items[i]
        /\ items'[Len(items) + 1] = e
    <3>1. items' = Append(items, e)
      BY <2>1 DEF e
    <3> QED
      BY <1>3, <2>2, <3>1, AppendEntries
  <2>6. Adds(a, at)
    BY <1>2, <2>1, <2>3, <2>5 DEF Adds, e
  <2>7. \/ apps[a].name = TRUE /\ Asks(a, at) /\ apps' \in [App -> AppState]
        \/ apps[a].name = FALSE /\ apps' = apps /\ apps' \in [App -> AppState]
    <3>1. CASE apps[a].name = TRUE
      <4>1. Request(a, at)
        BY <2>1, <3>1
      <4> QED
        BY <1>2, <2>1, <3>1, <4>1, RequestAsks
    <3>2. CASE apps[a].name = FALSE
      BY <1>2, <2>1, <3>2
    <3> QED
      BY <1>2, <3>1, <3>2
  <2>8. \A i, j \in 1 .. Len(items') : items'[i].at = items'[j].at => i = j
    <3>1. \A i \in 1 .. Len(items') : i \in 1 .. Len(items) \/ i = Len(items) + 1
      BY <1>3, <2>5
    <3>2. \A i, j \in 1 .. Len(items) : items[i].at = items[j].at => i = j
      BY DEF TrayTypes
    <3> QED
      BY <2>3, <2>4, <2>5, <3>1, <3>2
  <2>9. TrayTypes'
    BY <1>1, <2>1, <2>5, <2>7, <2>8 DEF TrayTypes, shownVars
  <2> QED
    BY <1>1, <1>2, <2>1, <2>6, <2>7, <2>9
<1> QED
  BY <1>4, <1>5

\* The item is asked again, unless its service is none that can be matched.
LEMMA PropertiesChangedEffect ==
    ASSUME TrayTypes, PropertiesChanged
    PROVE  /\ TrayTypes' /\ Unread
           /\ \E a \in App :
                 /\ Heard(a, "changed")
                 /\ \/ /\ apps' = apps
                       /\ \/ apps[a].name = FALSE \/ a \in WellKnown
                          \/ \A i \in 1 .. Len(items) : items[i].service # a
                    \/ /\ apps[a].name = TRUE
                       /\ \E i \in 1 .. Len(items) : items[i].service = a /\ Asks(a, items[i].at)
<1> DEFINE a == inbox[1].from
<1>1. /\ Received("changed") /\ Unread
      /\ Head(inbox) = inbox[1] /\ Heard(a, "changed")
  BY HeardTypes DEF PropertiesChanged, Unread, shownVars
<1>2. a \in App /\ apps[a].name \in BOOLEAN /\ apps \in [App -> AppState]
  BY <1>1, TrayFields DEF Heard, TrayTypes
<1>3. CASE Refreshed(a) = {} \/ apps[a].name = FALSE
  <2>1. apps' = apps
    BY <1>1, <1>3 DEF PropertiesChanged
  <2>2. TrayTypes'
    BY <1>1, <1>2, <2>1, HeardOnly
  <2>3. \/ apps[a].name = FALSE \/ a \in WellKnown
        \/ \A i \in 1 .. Len(items) : items[i].service # a
    BY <1>3, FoundItems DEF Refreshed
  <2> QED
    BY <1>1, <1>2, <2>1, <2>2, <2>3
<1>4. CASE Refreshed(a) # {} /\ apps[a].name = TRUE
  <2>1. PICK i \in Refreshed(a) : Request(a, items[i].at)
    BY <1>1, <1>4 DEF PropertiesChanged
  <2>2. i \in 1 .. Len(items) /\ items[i].service = a /\ items[i].at \in Address
    BY <2>1, FoundItems, TrayFields DEF Refreshed
  <2>3. Asks(a, items[i].at) /\ apps' \in [App -> AppState]
    BY <1>2, <2>1, <2>2, RequestAsks
  <2>4. TrayTypes'
    BY <1>1, <2>3, HeardOnly
  <2> QED
    BY <1>1, <1>2, <1>4, <2>2, <2>3, <2>4
<1> QED
  BY <1>2, <1>3, <1>4

\* The k-th item is gone.
Drops(k) ==
    /\ Len(items') = Len(items) - 1
    /\ \A i \in 1 .. Len(items) - 1 : items'[i] = items[IF i < k THEN i ELSE i + 1]

\* The item of the name is dropped, if there is one.
LEMMA NameVanishedEffect ==
    ASSUME TrayTypes, NameVanished
    PROVE  /\ TrayTypes' /\ apps' = apps /\ UNCHANGED shownVars
           /\ \E a \in App :
                 /\ Heard(a, "vanished")
                 /\ \/ Unread /\ \A i \in 1 .. Len(items) : items[i].service # a
                    \/ /\ tray_dirty' = TrayBar
                       /\ \E k \in 1 .. Len(items) : items[k].service = a /\ Drops(k)
<1> DEFINE a == inbox[1].from
<1>1. /\ Received("vanished") /\ UNCHANGED <<apps, shownVars>>
      /\ Head(inbox) = inbox[1] /\ Heard(a, "vanished")
      /\ inbox' \in Seq(Message) /\ Len(inbox') <= MaxInbox
  BY HeardTypes DEF NameVanished
<1>2. a \in App /\ apps' \in [App -> AppState]
  BY <1>1, TrayFields DEF Heard, TrayTypes
<1>3. Len(items) \in Nat /\ items \in Seq(Item)
  BY TrayFields DEF TrayTypes
<1>4. CASE Found(a) = {}
  <2>1. Unread
    BY <1>1, <1>4 DEF NameVanished, Unread, shownVars
  <2>2. \A i \in 1 .. Len(items) : items[i].service # a
    BY <1>4, FoundItems
  <2>3. TrayTypes'
    BY <1>1, <1>2, <2>1, HeardOnly
  <2> QED
    BY <1>1, <1>2, <2>1, <2>2, <2>3
<1>5. CASE Found(a) # {}
  <2>1. PICK k \in Found(a) : items' = RemoveAt(items, k) /\ tray_dirty' = TrayBar
    BY <1>1, <1>5 DEF NameVanished
  <2>2. k \in 1 .. Len(items) /\ items[k].service = a
    BY <2>1, FoundItems
  <2>3. items' \in Seq(Item) /\ Drops(k)
    BY <1>3, <2>1, <2>2, RemoveAtEntries DEF Drops
  <2>4. \A i, j \in 1 .. Len(items') : items'[i].at = items'[j].at => i = j
    <3>1. \A i, j \in 1 .. Len(items) : items[i].at = items[j].at => i = j
      BY DEF TrayTypes
    <3> DEFINE old(i) == IF i < k THEN i ELSE i + 1
    <3>2. \A i \in 1 .. Len(items') : old(i) \in 1 .. Len(items) /\ items'[i] = items[old(i)]
      BY <1>3, <2>2, <2>3 DEF Drops
    <3>3. \A i, j \in 1 .. Len(items') : old(i) = old(j) => i = j
      BY <1>3, <2>2, <2>3 DEF Drops
    <3> HIDE DEF old
    <3> QED
      BY <3>1, <3>2, <3>3
  <2>5. TrayTypes'
    BY <1>1, <1>2, <2>1, <2>3, <2>4 DEF TrayTypes, shownVars
  <2> QED
    BY <1>1, <1>2, <2>1, <2>2, <2>3, <2>5
<1> QED
  BY <1>4, <1>5

\* Items that are changed in place keep the types if what changes has its type.
LEMMA StaysTypes ==
    ASSUME TrayTypes, NEW f \in [1 .. Len(items) -> Item], items' = f,
           \A i \in 1 .. Len(items) : f[i].service = items[i].service /\ f[i].at = items[i].at
    PROVE  /\ items' \in Seq(Item) /\ Stays
           /\ \A i, j \in 1 .. Len(items') : items'[i].at = items'[j].at => i = j
<1>1. Len(items) \in Nat /\ DOMAIN items = 1 .. Len(items)
  BY TrayFields
<1>2. items' \in Seq(Item) /\ Len(items') = Len(items)
  BY <1>1
<1>3. Stays
  BY <1>2 DEF Stays
<1>4. \A i, j \in 1 .. Len(items) : items[i].at = items[j].at => i = j
  BY DEF TrayTypes
<1> QED
  BY <1>2, <1>3, <1>4

\* The items at the address of the call take the look of the one who answers.
LEMMA PropsReplyEffect ==
    ASSUME TrayTypes, PropsReply
    PROVE  /\ TrayTypes' /\ Stays /\ apps' = apps /\ UNCHANGED shownVars
           /\ inbox[1].at \in Address /\ inbox[1].look \in Look
           /\ \E a \in App :
                 /\ Heard(a, "reply")
                 /\ \A i \in 1 .. Len(items) :
                       items'[i].look = IF items[i].at = inbox[1].at
                                        THEN [of |-> a, look |-> inbox[1].look] ELSE items[i].look
           /\ tray_dirty' = TrayBar \/ Unread
<1> DEFINE a == inbox[1].from
           look == [of |-> a, look |-> inbox[1].look]
           upd(i) == IF i \in Asked(inbox[1].at) THEN [items[i] EXCEPT !.look = look] ELSE items[i]
           f == [i \in 1 .. Len(items) |-> upd(i)]
<1>1. /\ Received("reply") /\ UNCHANGED <<apps, shownVars>>
      /\ Head(inbox) = inbox[1] /\ Heard(a, "reply") /\ inbox[1] \in Message
      /\ inbox' \in Seq(Message) /\ Len(inbox') <= MaxInbox
  BY HeardTypes DEF PropsReply
<1>2. /\ a \in App /\ apps' \in [App -> AppState]
      /\ inbox[1].at \in Address /\ inbox[1].look \in Look
  BY <1>1, TrayFields, MessageFields DEF Heard, TrayTypes
<1>3. /\ items' = [i \in DOMAIN items |-> upd(i)]
      /\ tray_dirty' = IF Asked(inbox[1].at) = {} THEN tray_dirty ELSE TrayBar
  BY <1>1 DEF PropsReply
<1>4. /\ Len(items) \in Nat /\ DOMAIN items = 1 .. Len(items)
      /\ \A i \in 1 .. Len(items) : items[i] \in Item
      /\ tray_dirty \subseteq TrayBar /\ items \in Seq(Item)
  BY TrayFields DEF TrayTypes
<1>5. look \in Looks
  BY <1>2 DEF Looks
<1>6. \A i : i \in Asked(inbox[1].at) <=> i \in 1 .. Len(items) /\ items[i].at = inbox[1].at
  BY <1>4 DEF Asked
<1>7. ASSUME NEW i \in 1 .. Len(items)
      PROVE  /\ upd(i) \in Item /\ upd(i).service = items[i].service /\ upd(i).at = items[i].at
             /\ upd(i).look = IF items[i].at = inbox[1].at THEN look ELSE items[i].look
  <2> HIDE DEF look
  <2> QED
    BY <1>4, <1>5, <1>6 DEF Item
<1>8. tray_dirty' = TrayBar \/ Unread
  <2>1. CASE Asked(inbox[1].at) # {}
    BY <1>3, <2>1
  <2>2. CASE Asked(inbox[1].at) = {}
    <3>1. \A i \in 1 .. Len(items) : upd(i) = items[i]
      BY <1>4, <2>2
    <3>2. items' = items
      <4> HIDE DEF upd
      <4>1. items \in [1 .. Len(items) -> Item]
        BY <1>4
      <4> QED
        BY <1>3, <1>4, <3>1, <4>1
    <3>3. tray_dirty' = tray_dirty
      BY <1>3, <2>2
    <3> QED
      BY <1>1, <3>2, <3>3 DEF Unread, shownVars
  <2> QED
    BY <2>1, <2>2
<1> HIDE DEF upd
<1>9. /\ f \in [1 .. Len(items) -> Item] /\ items' = f
       /\ \A i \in 1 .. Len(items) : f[i] = upd(i)
  BY <1>3, <1>4, <1>7
<1> HIDE DEF f
<1>10. /\ items' \in Seq(Item) /\ Stays
      /\ \A i, j \in 1 .. Len(items') : items'[i].at = items'[j].at => i = j
  BY <1>7, <1>9, StaysTypes
<1>11. \A i \in 1 .. Len(items) :
          items'[i].look = IF items[i].at = inbox[1].at THEN look ELSE items[i].look
  BY <1>7, <1>9
<1>12. tray_dirty' \subseteq TrayBar
  BY <1>3, <1>4
<1>13. TrayTypes'
  BY <1>1, <1>2, <1>10, <1>12 DEF TrayTypes, shownVars
<1> QED
  BY <1>1, <1>2, <1>8, <1>10, <1>13, <1>11

\* The icons up to the i-th item.
UpTo(i) == { j \in Visible : j <= i }

\* The items that are shown are numbered from left to right, without gaps.
LEMMA NthVisible ==
    ASSUME TrayTypes
    PROVE  /\ Cardinality(Visible) \in Nat /\ Visible \subseteq 1 .. Len(items)
           /\ \A i \in 1 .. Len(items) :
                 RenderedX(i) = Cardinality(UpTo(i)) /\ Cardinality(UpTo(i)) \in Nat
           /\ \A i \in Visible : Cardinality(UpTo(i)) \in 1 .. Cardinality(Visible)
           /\ \A i, k \in Visible : Cardinality(UpTo(i)) = Cardinality(UpTo(k)) => i = k
           /\ \A n \in 1 .. Cardinality(Visible) : \E i \in Visible : Cardinality(UpTo(i)) = n
<1> DEFINE total == Cardinality(Visible)
           rank == [i \in Visible |-> Cardinality(UpTo(i))]
<1>1. Len(items) \in Nat /\ Visible \subseteq 1 .. Len(items)
  BY TrayFields DEF Visible
<1>2. IsFiniteSet(Visible) /\ total \in Nat
  <2>1. IsFiniteSet(1 .. Len(items))
    BY <1>1, FS_Interval
  <2> QED
    BY <1>1, <2>1, FS_Subset, FS_CardinalityType
<1>3. \A i : /\ UpTo(i) \subseteq Visible /\ IsFiniteSet(UpTo(i))
             /\ Cardinality(UpTo(i)) \in Nat /\ Cardinality(UpTo(i)) <= total
  <2>1. \A i : UpTo(i) \in SUBSET Visible
    BY DEF UpTo
  <2> QED
    BY <1>2, <2>1, FS_Subset, FS_CardinalityType
<1>4. \A i \in Visible : Cardinality(UpTo(i)) \in 1 .. total
  <2> SUFFICES ASSUME NEW i \in Visible
               PROVE  Cardinality(UpTo(i)) >= 1
    BY <1>2, <1>3
  <2>1. i \in UpTo(i)
    BY <1>1 DEF UpTo
  <2>2. Cardinality(UpTo(i)) # 0
    BY <1>3, <2>1, FS_EmptySet
  <2> QED
    BY <1>3, <2>2
<1>5. ASSUME NEW i \in Visible, NEW k \in Visible, i < k
      PROVE  Cardinality(UpTo(i)) # Cardinality(UpTo(k))
  <2>1. UpTo(i) \in SUBSET UpTo(k) /\ k \in UpTo(k) /\ k \notin UpTo(i)
    <3>1. /\ i \in Nat /\ k \in Nat /\ k <= k /\ ~(k <= i)
          /\ \A j \in Visible : j \in Nat /\ (j <= i => j <= k)
      BY <1>1, <1>5
    <3> QED
      BY <3>1 DEF UpTo
  <2>2. IsFiniteSet(UpTo(k))
    BY <1>3
  <2>3. Cardinality(UpTo(k)) = Cardinality(UpTo(i)) => UpTo(k) = UpTo(i)
    BY <2>1, <2>2, FS_Subset
  <2> QED
    BY <2>1, <2>3
<1>6. \A i, k \in Visible : Cardinality(UpTo(i)) = Cardinality(UpTo(k)) => i = k
  <2>1. \A i, k \in Visible : i < k \/ k < i \/ i = k
    BY <1>1
  <2> QED
    BY <1>5, <2>1
<1>7. \A n \in 1 .. total : \E i \in Visible : Cardinality(UpTo(i)) = n
  <2>1. rank \in Injection(Visible, 1 .. total)
    <3>1. rank \in [Visible -> 1 .. total]
      BY <1>4
    <3>2. IsInjective(rank)
      BY <1>6 DEF IsInjective
    <3> QED
      BY <3>1, <3>2 DEF Injection
  <2>2. IsFiniteSet(1 .. total) /\ Cardinality(1 .. total) = total
    BY <1>2, FS_Interval
  <2>3. rank \in Surjection(Visible, 1 .. total)
    <3> HIDE DEF rank
    <3> QED
      BY <2>1, <2>2, FS_Injection
  <2> QED
    BY <2>3 DEF Surjection
<1>8. \A i \in 1 .. Len(items) : RenderedX(i) = Cardinality(UpTo(i))
  <2> SUFFICES ASSUME NEW i \in 1 .. Len(items)
               PROVE  { j \in 1 .. i : items[j].look.look # "passive" } = UpTo(i)
    BY DEF RenderedX
  <2>1. DOMAIN items = 1 .. Len(items)
    BY TrayFields
  <2> QED
    BY <1>1, <2>1 DEF UpTo, Visible
<1> QED
  BY <1>1, <1>2, <1>3, <1>4, <1>6, <1>7, <1>8

\* What is drawn at each place is one of the items that are shown.
LEMMA TrayIconsNth ==
    ASSUME TrayTypes
    PROVE  /\ TrayIcons \in Seq(App) /\ Len(TrayIcons) = Cardinality(Visible)
           /\ \A n \in 1 .. Cardinality(Visible) :
                 \E i \in Visible : Cardinality(UpTo(i)) = n /\ TrayIcons[n] = items[i].service
<1> DEFINE nth(n) == CHOOSE i \in Visible : Cardinality({ j \in Visible : j <= i }) = n
           total == Cardinality(Visible)
<1>1. \A n \in 1 .. total : nth(n) \in Visible /\ Cardinality(UpTo(nth(n))) = n
  BY NthVisible DEF UpTo
<1>2. /\ total \in Nat /\ \A i \in Visible : items[i].service \in App
  BY NthVisible, TrayFields
<1>3. TrayIcons = [n \in 1 .. total |-> items[nth(n)].service]
  BY DEF TrayIcons
<1> HIDE DEF nth, total
<1>4. /\ TrayIcons \in [1 .. total -> App]
      /\ \A n \in 1 .. total : TrayIcons[n] = items[nth(n)].service
  BY <1>1, <1>2, <1>3
<1>5. TrayIcons \in Seq(App) /\ Len(TrayIcons) = total
  BY <1>2, <1>4
<1> QED
  BY <1>1, <1>4, <1>5 DEF total

\* A frame of a bar gives every shown item its place in that bar and leaves nothing
\* to draw there.
LEMMA DrawTrayEffect ==
    ASSUME TrayTypes, NEW b \in TrayBar, DrawTray(b)
    PROVE  /\ TrayTypes' /\ Stays /\ UNCHANGED <<apps, inbox>>
           /\ icons' = [icons EXCEPT ![b] = TrayIcons] /\ TrayIcons \in Seq(App)
           /\ tray_dirty' = tray_dirty \ {b} /\ last_drawn' = b
           /\ \A i \in 1 .. Len(items) :
                 /\ items'[i].look = items[i].look
                 /\ i \in Visible => items'[i].x = starts'[b] + RenderedX(i)
<1>0. PICK start \in TrayStart[b] :
          /\ starts' = [starts EXCEPT ![b] = start]
          /\ items' = [i \in DOMAIN items |->
                          IF i \in Visible THEN [items[i] EXCEPT !.x = start + RenderedX(i)]
                          ELSE items[i]]
  BY DEF DrawTray
<1> DEFINE upd(i) == IF i \in Visible THEN [items[i] EXCEPT !.x = start + RenderedX(i)] ELSE items[i]
           f == [i \in 1 .. Len(items) |-> upd(i)]
<1>1. /\ Len(items) \in Nat /\ DOMAIN items = 1 .. Len(items)
      /\ \A i \in 1 .. Len(items) : items[i] \in Item
  BY TrayFields
<1>2. start \in Nat /\ \A i \in 1 .. Len(items) : start + RenderedX(i) \in Nat
  <2>1. start \in Nat
    BY TrayConstants
  <2>2. \A i \in 1 .. Len(items) : RenderedX(i) \in Nat
    BY NthVisible
  <2> QED
    BY <2>1, <2>2
<1>3. \A i \in 1 .. Len(items) :
          /\ upd(i) \in Item /\ upd(i).service = items[i].service /\ upd(i).at = items[i].at
          /\ upd(i).look = items[i].look
          /\ i \in Visible => upd(i).x = start + RenderedX(i)
  BY <1>1, <1>2 DEF Item
<1>4. /\ f \in [1 .. Len(items) -> Item] /\ items' = f
      /\ \A i \in 1 .. Len(items) : f[i] = upd(i)
  BY <1>0, <1>1, <1>3
<1> HIDE DEF f, upd
<1>5. \A i \in 1 .. Len(items) : f[i].service = items[i].service /\ f[i].at = items[i].at
  BY <1>3, <1>4
<1>6. /\ items' \in Seq(Item) /\ Stays
      /\ \A i, j \in 1 .. Len(items') : items'[i].at = items'[j].at => i = j
  BY <1>4, <1>5, StaysTypes
<1>7. /\ UNCHANGED <<apps, inbox>> /\ icons' = [icons EXCEPT ![b] = TrayIcons]
      /\ tray_dirty' = tray_dirty \ {b} /\ last_drawn' = b /\ TrayIcons \in Seq(App)
  BY TrayIconsNth DEF DrawTray
<1>8. starts' \in [TrayBar -> Nat] /\ starts'[b] = start
  BY <1>0, <1>2 DEF TrayTypes
<1>9. TrayTypes'
  BY <1>6, <1>7, <1>8 DEF TrayTypes
<1>10. \A i \in 1 .. Len(items) :
          /\ items'[i].look = items[i].look
          /\ i \in Visible => items'[i].x = starts'[b] + RenderedX(i)
  BY <1>3, <1>4, <1>8
<1> QED
  BY <1>6, <1>7, <1>9, <1>10

TraySpec == TrayInit /\ [][TrayNext]_trayVars

\* Initially there is nothing.
LEMMA TrayInitTypes == TrayInit => TrayTypes
<1> SUFFICES ASSUME TrayInit
             PROVE  TrayTypes
  OBVIOUS
<1>1. /\ <<>> \in Seq(Address \cup {Nobody}) /\ <<>> \in Seq(Message)
      /\ <<>> \in Seq(Item) /\ <<>> \in Seq(App)
  BY EmptySeq
<1>2. apps \in [App -> AppState]
  BY <1>1 DEF TrayInit, AppState, Look
<1>3. /\ inbox \in Seq(Message) /\ Len(inbox) <= MaxInbox
      /\ items \in Seq(Item) /\ tray_dirty \subseteq TrayBar
      /\ Len(items) = 0
  <2>1. inbox = <<>> /\ items = <<>> /\ tray_dirty = {}
    BY DEF TrayInit
  <2>2. Len(inbox) = 0 /\ Len(items) = 0 /\ 0 <= MaxInbox
    BY <2>1, TrayConstants
  <2> QED
    BY <1>1, <2>1, <2>2
<1>4. icons \in [TrayBar -> Seq(App)] /\ last_drawn \in TrayBar
  BY <1>1 DEF TrayInit
<1>5. starts \in [TrayBar -> Nat]
  BY TrayConstants DEF TrayInit
<1> QED
  BY <1>2, <1>3, <1>4, <1>5 DEF TrayTypes

\* What is shown depends on the looks alone, what is drawn on the services as well.
LEMMA SameDrawing ==
    ASSUME TrayTypes, TrayTypes', Stays,
           \A i \in 1 .. Len(items) : items'[i].look = items[i].look
    PROVE  /\ Visible' = Visible /\ TrayIcons' = TrayIcons
           /\ \A i \in 1 .. Len(items) : RenderedX(i)' = RenderedX(i)
<1>1. /\ Len(items) \in Nat /\ DOMAIN items = 1 .. Len(items)
      /\ DOMAIN items' = 1 .. Len(items') /\ Len(items') = Len(items)
  BY LenProperties DEF TrayTypes, Stays
<1>2. Visible' = Visible
  BY <1>1 DEF Visible
<1>3. \A i \in 1 .. Len(items) : RenderedX(i)' = RenderedX(i)
  <2> SUFFICES ASSUME NEW i \in 1 .. Len(items)
               PROVE  { j \in 1 .. i : items'[j].look.look # "passive" }
                        = { j \in 1 .. i : items[j].look.look # "passive" }
    BY DEF RenderedX
  <2> QED
    BY <1>1
<1> DEFINE nth(n) == CHOOSE i \in Visible : Cardinality({ j \in Visible : j <= i }) = n
           total == Cardinality(Visible)
<1>4. \A n \in 1 .. total : nth(n) \in 1 .. Len(items)
  <2>1. \A n \in 1 .. total : nth(n) \in Visible
    BY NthVisible DEF UpTo
  <2> QED
    BY <2>1, NthVisible
<1>5. /\ TrayIcons = [n \in 1 .. total |-> items[nth(n)].service]
      /\ TrayIcons' = [n \in 1 .. total |-> items'[nth(n)].service]
  BY <1>2 DEF TrayIcons
<1> HIDE DEF nth, total
<1>6. TrayIcons' = TrayIcons
  BY <1>4, <1>5 DEF Stays
<1> QED
  BY <1>2, <1>3, <1>6

\* Every icon is where the last drawing put it, in whichever bar that was.
Placed == \A i \in Visible : items[i].x = starts[last_drawn] + RenderedX(i)

\* Unless a frame is due in all bars, the icons are placed, and the bars for which none
\* is due show those of the items.
ClicksInv ==
    /\ TrayTypes
    /\ \A b \in TrayBar \ tray_dirty : icons[b] = TrayIcons /\ Placed

\* Every step of the tray keeps the icons those of the items, or asks for a frame.
LEMMA ClicksStep ==
    ASSUME ClicksInv, [TrayNext]_trayVars
    PROVE  ClicksInv'
<1>1. TrayTypes
  BY DEF ClicksInv
<1>2. ASSUME Unread, TrayTypes'
      PROVE  ClicksInv'
  <2>1. /\ items' = items /\ icons' = icons /\ starts' = starts /\ last_drawn' = last_drawn
        /\ tray_dirty' = tray_dirty
    BY <1>2 DEF Unread
  <2>2. Stays /\ \A i \in 1 .. Len(items) : items'[i].look = items[i].look
    BY <2>1 DEF Stays
  <2>3. /\ Visible' = Visible /\ TrayIcons' = TrayIcons
        /\ \A i \in Visible : RenderedX(i)' = RenderedX(i)
    BY <1>1, <1>2, <2>2, SameDrawing, NthVisible
  <2>4. Placed => Placed'
    BY <2>1, <2>3 DEF Placed
  <2> QED
    BY <1>2, <2>1, <2>3, <2>4 DEF ClicksInv
<1>3. ASSUME TrayTypes', tray_dirty' = TrayBar
      PROVE  ClicksInv'
  BY <1>3 DEF ClicksInv
<1>4. ASSUME NEW a \in App,
             Register(a) \/ ChangeLook(a) \/ Answer(a) \/ Quit(a) \/ Release(a) \/ TimeOut(a)
      PROVE  ClicksInv'
  <2>1. TrayTypes' /\ Unread
    BY <1>1, <1>4, RegisterEffect, ChangeLookEffect, AnswerEffect, QuitEffect, ReleaseEffect,
       TimeOutEffect
  <2> QED
    BY <1>2, <2>1
<1>5. CASE RegisterItem \/ NameVanished \/ PropsReply
  <2>1. TrayTypes' /\ (tray_dirty' = TrayBar \/ Unread)
    BY <1>1, <1>5, RegisterItemEffect, NameVanishedEffect, PropsReplyEffect
  <2> QED
    BY <1>2, <1>3, <2>1
<1>6. CASE PropertiesChanged
  BY <1>1, <1>2, <1>6, PropertiesChangedEffect
<1>7. ASSUME NEW b \in TrayBar, DrawTray(b)
      PROVE  ClicksInv'
  <2>1. /\ TrayTypes' /\ Stays /\ icons' = [icons EXCEPT ![b] = TrayIcons]
        /\ tray_dirty' = tray_dirty \ {b} /\ last_drawn' = b
        /\ \A i \in 1 .. Len(items) :
              /\ items'[i].look = items[i].look
              /\ i \in Visible => items'[i].x = starts'[b] + RenderedX(i)
    BY <1>1, <1>7, DrawTrayEffect
  <2>2. /\ Visible' = Visible /\ TrayIcons' = TrayIcons
        /\ \A i \in 1 .. Len(items) : RenderedX(i)' = RenderedX(i)
    BY <1>1, <2>1, SameDrawing
  <2>3. Visible \subseteq 1 .. Len(items)
    BY <1>1, NthVisible
  <2>4. Placed'
    BY <2>1, <2>2, <2>3 DEF Placed
  <2>5. ASSUME NEW c \in TrayBar \ tray_dirty'
        PROVE  icons'[c] = TrayIcons
    <3>1. icons \in [TrayBar -> Seq(App)]
      BY <1>1 DEF TrayTypes
    <3>2. CASE c = b
      BY <2>1, <3>1, <3>2
    <3>3. CASE c # b
      <4>1. icons[c] = TrayIcons /\ icons'[c] = icons[c]
        BY <2>1, <2>5, <3>1, <3>3 DEF ClicksInv
      <4> QED
        BY <4>1
    <3> QED
      BY <3>2, <3>3
  <2> QED
    BY <2>1, <2>2, <2>4, <2>5 DEF ClicksInv
<1>8. CASE UNCHANGED trayVars
  BY <1>1, <1>2, <1>8 DEF trayVars, shownVars, Unread, TrayTypes
<1> QED
  BY <1>4, <1>5, <1>6, <1>7, <1>8 DEF TrayNext

\* The bars draw what the tray shows, always.
LEMMA ClicksInvariant == TraySpec => []ClicksInv
<1>1. TrayInit => ClicksInv
  <2> SUFFICES ASSUME TrayInit
               PROVE  ClicksInv
    OBVIOUS
  <2>1. TrayTypes /\ items = <<>> /\ icons = [b \in TrayBar |-> <<>>]
    BY TrayInitTypes DEF TrayInit
  <2>2. Visible = {} /\ Cardinality({}) = 0
    BY <2>1, FS_EmptySet DEF Visible
  <2>3. TrayIcons \in Seq(App) /\ Len(TrayIcons) = 0
    BY <2>1, <2>2, TrayIconsNth
  <2>4. TrayIcons = <<>>
    BY <2>3, EmptySeq
  <2>5. Placed
    BY <2>2 DEF Placed
  <2> QED
    BY <2>1, <2>4, <2>5 DEF ClicksInv
<1> QED
  BY <1>1, ClicksStep, PTL DEF TraySpec

\* No step of the tray stores a value of the wrong type, and no two items are at one
\* address.
THEOREM TrayTypeCorrect == TraySpec => []TrayTypeOK
<1>1. ClicksInv => TrayTypeOK
  <2> SUFFICES ASSUME TrayTypes
               PROVE  TrayTypeOK
    BY DEF ClicksInv
  <2>1. DOMAIN items = 1 .. Len(items)
    BY TrayFields
  <2>2. IsInjective([i \in DOMAIN items |-> items[i].at])
    BY <2>1 DEF TrayTypes, IsInjective
  <2> QED
    BY <2>2 DEF TrayTypes, TrayTypeOK, AppState, Item
<1> QED
  BY <1>1, ClicksInvariant, PTL

\* A bar for which no frame is due shows every item that is not passive, and a click
\* on an icon there calls the application whose icon it is, if the tray starts in this
\* bar where it started in the last drawing of any (tray_draw, tray_handle_click).
THEOREM ClicksReachTheirIcon == TraySpec => []IconClicks
<1>1. ClicksInv => IconClicks
  <2> SUFFICES ASSUME ClicksInv, NEW b \in TrayBar \ tray_dirty
               PROVE  /\ icons[b] = TrayIcons
                      /\ starts[b] = starts[last_drawn] =>
                             \A n \in DOMAIN icons[b] : Clicked(starts[b] + n) = icons[b][n]
    BY DEF IconClicks
  <2>1. TrayTypes /\ icons[b] = TrayIcons /\ Placed
    BY DEF ClicksInv
  <2> SUFFICES ASSUME starts[b] = starts[last_drawn], NEW n \in DOMAIN TrayIcons
               PROVE  Clicked(starts[b] + n) = TrayIcons[n]
    BY <2>1
  <2>2. n \in 1 .. Cardinality(Visible)
    BY <2>1, TrayIconsNth, LenProperties
  <2>3. PICK i \in Visible : Cardinality(UpTo(i)) = n /\ TrayIcons[n] = items[i].service
    BY <2>1, <2>2, TrayIconsNth
  <2>4. starts[b] \in Nat /\ n \in Nat
    BY <2>1, <2>2 DEF TrayTypes
  <2>5. \A k \in Visible :
            /\ items[k].x = starts[b] + Cardinality(UpTo(k))
            /\ Cardinality(UpTo(k)) \in Nat /\ k \in Nat
    BY <2>1, NthVisible DEF Placed
  <2>6. \A k \in Visible : items[k].x = starts[b] + n <=> Cardinality(UpTo(k)) = n
    <3> SUFFICES ASSUME NEW k \in Visible
                 PROVE  items[k].x = starts[b] + n <=> Cardinality(UpTo(k)) = n
      OBVIOUS
    <3> DEFINE c == Cardinality(UpTo(k))
               s == starts[b]
    <3>1. s \in Nat /\ n \in Nat /\ c \in Nat /\ items[k].x = s + c
      BY <2>4, <2>5
    <3> HIDE DEF c, s
    <3>2. s + c = s + n <=> c = n
      BY <3>1
    <3> QED
      BY <3>1, <3>2 DEF c, s
  <2>7. { k \in Visible : items[k].x = starts[b] + n } = {i}
    BY <2>1, <2>3, <2>6, NthVisible
  <2>8. (CHOOSE k \in {i} : \A j \in {i} : k <= j) = i
    BY <2>5
  <2>9. Clicked(starts[b] + n) = items[i].service
    BY <2>7, <2>8 DEF Clicked
  <2> QED
    BY <2>3, <2>9
<1> QED
  BY <1>1, ClicksInvariant, PTL

There(a) == \E i \in 1 .. Len(items) : items[i].service = a

\* a holds the name it registered and gave up no other since.
Enrolled(a) == apps[a].name = TRUE /\ apps[a].kept = TRUE

\* A message that registers the name of a, or says that it or another vanished.
Naming(m, a) == m.from = a /\ m.kind \in {"register", "vanished"}

\* What the messages on their way will make of the item of a: the last of them
\* agrees with the bus, and so does the list if there is none.
Foretold(a) ==
    /\ (\A j \in 1 .. Len(inbox) : ~Naming(inbox[j], a)) => (There(a) <=> Enrolled(a))
    /\ \A j \in 1 .. Len(inbox) :
          Naming(inbox[j], a) /\ (\A k \in 1 .. Len(inbox) : k > j => ~Naming(inbox[k], a))
            => (inbox[j].kind = "register" <=> Enrolled(a))

\* A message more foretells right if it agrees with the bus.
LEMMA ForetoldSays ==
    ASSUME TrayTypes, NEW a \in App, Foretold(a), NEW m, Says(m), There(a)' <=> There(a),
           \/ ~Naming(m, a) /\ (Enrolled(a)' <=> Enrolled(a))
           \/ Naming(m, a) /\ (Enrolled(a)' <=> m.kind = "register")
    PROVE  Foretold(a)'
<1> DEFINE n == Len(inbox)
<1>1. /\ n \in Nat /\ Len(inbox') = n + 1 /\ inbox'[n + 1] = m
      /\ \A j \in 1 .. n : inbox'[j] = inbox[j]
  BY TrayFields DEF Says
<1>2. \A j \in 1 .. n + 1 : j \in 1 .. n \/ j = n + 1
  BY <1>1
<1>3. \A j \in 1 .. n : n + 1 > j /\ j \in 1 .. n + 1
  BY <1>1
<1>4. n + 1 \in 1 .. n + 1 /\ \A k \in 1 .. n + 1 : ~(k > n + 1)
  BY <1>1
<1>5. CASE ~Naming(m, a) /\ (Enrolled(a)' <=> Enrolled(a))
  BY <1>1, <1>2, <1>3, <1>4, <1>5 DEF Foretold
<1>6. CASE Naming(m, a) /\ (Enrolled(a)' <=> m.kind = "register")
  BY <1>1, <1>2, <1>3, <1>4, <1>6 DEF Foretold
<1> QED
  BY <1>5, <1>6

\* A message less does if the tray did what it says.
LEMMA ForetoldReads ==
    ASSUME TrayTypes, NEW a \in App, Foretold(a), Consumes,
           Enrolled(a)' <=> Enrolled(a),
           \/ ~Naming(inbox[1], a) /\ (There(a)' <=> There(a))
           \/ Naming(inbox[1], a) /\ (There(a)' <=> inbox[1].kind = "register")
    PROVE  Foretold(a)'
<1> DEFINE n == Len(inbox)
<1>1. /\ n \in Nat /\ n >= 1 /\ Len(inbox') = n - 1
      /\ \A j \in 1 .. n - 1 : inbox'[j] = inbox[j + 1]
  BY TrayFields DEF Consumes
<1>2. \A j \in 1 .. n - 1 : j + 1 \in 1 .. n
  BY <1>1
<1>3. \A j \in 1 .. n : j = 1 \/ \E i \in 1 .. n - 1 : j = i + 1
  <2> SUFFICES ASSUME NEW j \in 1 .. n, j # 1
               PROVE  \E i \in 1 .. n - 1 : j = i + 1
    OBVIOUS
  <2>1. j - 1 \in 1 .. n - 1 /\ j = (j - 1) + 1
    BY <1>1
  <2> QED
    BY <2>1
<1>4. \A i, j \in 1 .. n - 1 : i + 1 > j + 1 <=> i > j
  BY <1>1
<1>5. 1 \in 1 .. n /\ \A j \in 1 .. n - 1 : ~(1 > j + 1)
  BY <1>1
<1>6. (\A j \in 1 .. n - 1 : ~Naming(inbox'[j], a)) => (There(a)' <=> Enrolled(a)')
  <2> SUFFICES ASSUME \A j \in 1 .. n - 1 : ~Naming(inbox'[j], a)
               PROVE  There(a)' <=> Enrolled(a)'
    OBVIOUS
  <2>1. ASSUME NEW k \in 1 .. n, k > 1
        PROVE  ~Naming(inbox[k], a)
    <3>1. PICK i \in 1 .. n - 1 : k = i + 1
      BY <1>3, <2>1
    <3> QED
      BY <1>1, <3>1
  <2>2. \A k \in 1 .. n : k = 1 \/ k > 1
    BY <1>1
  <2> QED
    BY <1>5, <2>1, <2>2 DEF Foretold
<1>7. ASSUME NEW j \in 1 .. n - 1, Naming(inbox'[j], a),
             \A k \in 1 .. n - 1 : k > j => ~Naming(inbox'[k], a)
      PROVE  inbox'[j].kind = "register" <=> Enrolled(a)'
  <2>1. Naming(inbox[j + 1], a) /\ j + 1 \in 1 .. n
    BY <1>1, <1>2, <1>7
  <2>2. ASSUME NEW k \in 1 .. n, k > j + 1
        PROVE  ~Naming(inbox[k], a)
    <3>1. PICK i \in 1 .. n - 1 : k = i + 1
      BY <1>3, <1>5, <2>2
    <3>2. i > j
      BY <1>4, <2>2, <3>1
    <3> QED
      BY <1>1, <1>7, <3>1, <3>2
  <2> QED
    BY <1>1, <2>1, <2>2 DEF Foretold
<1> QED
  BY <1>1, <1>6, <1>7 DEF Foretold

\* Nothing is foretold anew if neither messages nor items change.
LEMMA ForetoldSame ==
    ASSUME NEW a \in App, Foretold(a), inbox' = inbox, There(a)' <=> There(a),
           Enrolled(a)' <=> Enrolled(a)
    PROVE  Foretold(a)'
  BY DEF Foretold

\* An application has at most one item.
OneEach == \A i, j \in 1 .. Len(items) : items[i].service = items[j].service => i = j

Registry == OneEach /\ \A a \in App : Foretold(a)

\* The items that an application has, after each kind of change.
LEMMA StaysThere ==
    ASSUME TrayTypes, OneEach, Stays
    PROVE  OneEach' /\ \A a \in App : There(a)' <=> There(a)
  BY DEF OneEach, Stays, There

\* An item that is added is the one of its application.
LEMMA AddsThere ==
    ASSUME TrayTypes, OneEach, NEW a, NEW at, Adds(a, at)
    PROVE  OneEach' /\ There(a)' /\ \A b \in App \ {a} : There(b)' <=> There(b)
<1> DEFINE n == Len(items)
<1>1. /\ n \in Nat /\ Len(items') = n + 1
      /\ \A i \in 1 .. n : items'[i] = items[i] /\ items[i].service # a
      /\ items'[n + 1].service = a
  BY TrayFields DEF Adds
<1>2. /\ n + 1 \in 1 .. n + 1 /\ \A i \in 1 .. n + 1 : i \in 1 .. n \/ i = n + 1
      /\ \A i \in 1 .. n : i \in 1 .. n + 1
  BY <1>1
<1>3. OneEach'
  BY <1>1, <1>2 DEF OneEach
<1>4. There(a)' /\ \A b \in App \ {a} : There(b)' <=> There(b)
  BY <1>1, <1>2 DEF There
<1> QED
  BY <1>3, <1>4

\* Where the items that stay were, and where they are.
LEMMA DropsItems ==
    ASSUME TrayTypes, OneEach, NEW k \in 1 .. Len(items), Drops(k)
    PROVE  /\ \A i \in 1 .. Len(items') :
                 \E j \in 1 .. Len(items) \ {k} : items'[i] = items[j]
           /\ \A j \in 1 .. Len(items) \ {k} : \E i \in 1 .. Len(items') : items'[i] = items[j]
<1> DEFINE n == Len(items)
           old(i) == IF i < k THEN i ELSE i + 1
<1>1. /\ n \in Nat /\ Len(items') = n - 1
      /\ \A i \in 1 .. n - 1 : items'[i] = items[old(i)]
  BY TrayFields DEF Drops
<1>2. \A i \in 1 .. n - 1 : old(i) \in 1 .. n \ {k}
  BY <1>1
<1>3. \A j \in 1 .. n \ {k} : \E i \in 1 .. n - 1 : old(i) = j
  <2> SUFFICES ASSUME NEW j \in 1 .. n, j # k
               PROVE  \E i \in 1 .. n - 1 : old(i) = j
    OBVIOUS
  <2>1. CASE j < k
    <3>1. j \in 1 .. n - 1 /\ old(j) = j
      BY <1>1, <2>1
    <3> QED
      BY <3>1
  <2>2. CASE j > k
    <3>1. j - 1 \in 1 .. n - 1 /\ old(j - 1) = j
      BY <1>1, <2>2
    <3> QED
      BY <3>1
  <2>3. j < k \/ j > k
    BY <1>1
  <2> QED
    BY <2>1, <2>2, <2>3
<1> HIDE DEF old
<1> QED
  BY <1>1, <1>2, <1>3

\* An item that is dropped was the only one of its application.
LEMMA DropsThere ==
    ASSUME TrayTypes, TrayTypes', OneEach, NEW k \in 1 .. Len(items), Drops(k),
           NEW a \in App, items[k].service = a
    PROVE  /\ OneEach' /\ ~There(a)'
           /\ \A b \in App \ {a} : There(b)' <=> There(b)
<1> DEFINE n == Len(items)
           old(i) == IF i < k THEN i ELSE i + 1
<1>1. /\ n \in Nat /\ Len(items') = n - 1
      /\ \A i \in 1 .. n - 1 : items'[i] = items[old(i)]
  BY TrayFields DEF Drops
<1>2. /\ \A i \in 1 .. n - 1 : old(i) \in 1 .. n
      /\ \A i, j \in 1 .. n - 1 : old(i) = old(j) => i = j
  BY <1>1
<1> HIDE DEF old
<1>3. OneEach'
  BY <1>1, <1>2 DEF OneEach
<1>4. /\ \A i \in 1 .. Len(items') : \E j \in 1 .. Len(items) \ {k} : items'[i] = items[j]
      /\ \A j \in 1 .. Len(items) \ {k} : \E i \in 1 .. Len(items') : items'[i] = items[j]
  BY DropsItems
<1>5. ~There(a)'
  <2>1. \A j \in 1 .. Len(items) \ {k} : items[j].service # a
    BY DEF OneEach
  <2> QED
    BY <1>4, <2>1 DEF There
<1>6. ASSUME NEW b \in App \ {a}
      PROVE  There(b)' <=> There(b)
  <2>1. There(b) => There(b)'
    BY <1>4 DEF There
  <2>2. There(b)' => There(b)
    BY <1>4 DEF There
  <2> QED
    BY <2>1, <2>2
<1> QED
  BY <1>3, <1>5, <1>6

\* An application speaks: for the others nothing changes.
LEMMA UnreadThere ==
    ASSUME Unread
    PROVE  (OneEach <=> OneEach') /\ \A a \in App : There(a)' <=> There(a)
<1>1. items' = items
  BY DEF Unread
<1> QED
  BY <1>1 DEF OneEach, There

\* An application speaks: the registry is right after it.
LEMMA RegistrySays ==
    ASSUME TrayTypes, Registry, Unread, NEW a \in App, Only(a), NEW m, Says(m), m.from = a,
           \/ /\ m.kind \notin {"register", "vanished"}
              /\ Enrolled(a)' <=> Enrolled(a)
           \/ m.kind \in {"register", "vanished"} /\ (Enrolled(a)' <=> m.kind = "register")
    PROVE  Registry'
<1>1. OneEach' /\ \A b \in App : Foretold(b) /\ (There(b)' <=> There(b))
  BY UnreadThere DEF Registry
<1>2. ASSUME NEW b \in App
      PROVE  Foretold(b)'
  <2>1. CASE b = a
    <3>1. \/ ~Naming(m, a) /\ (Enrolled(a)' <=> Enrolled(a))
          \/ Naming(m, a) /\ (Enrolled(a)' <=> m.kind = "register")
      BY DEF Naming
    <3> QED
      BY <1>1, <2>1, <3>1, ForetoldSays
  <2>2. CASE b # a
    <3>1. ~Naming(m, b) /\ (Enrolled(b)' <=> Enrolled(b))
      BY <2>2 DEF Naming, Only, Enrolled
    <3> QED
      BY <1>1, <3>1, ForetoldSays
  <2> QED
    BY <2>1, <2>2
<1> QED
  BY <1>1, <1>2 DEF Registry

\* The tray reads a message and does what it says.
LEMMA RegistryReads ==
    ASSUME TrayTypes, Registry, OneEach', NEW a \in App, NEW kind, Heard(a, kind),
           \A b \in App : Enrolled(b)' <=> Enrolled(b),
           \A b \in App \ {a} : There(b)' <=> There(b),
           \/ kind \notin {"register", "vanished"} /\ (There(a)' <=> There(a))
           \/ kind \in {"register", "vanished"} /\ (There(a)' <=> kind = "register")
    PROVE  Registry'
<1>1. /\ Consumes /\ inbox[1].from = a /\ inbox[1].kind = kind
      /\ \A b \in App : Foretold(b)
  BY DEF Heard, Registry
<1>2. ASSUME NEW b \in App
      PROVE  Foretold(b)'
  <2>1. CASE b = a
    <3>1. \/ ~Naming(inbox[1], a) /\ (There(a)' <=> There(a))
          \/ Naming(inbox[1], a) /\ (There(a)' <=> inbox[1].kind = "register")
      BY <1>1 DEF Naming
    <3> QED
      BY <1>1, <2>1, <3>1, ForetoldReads
  <2>2. CASE b # a
    <3>1. ~Naming(inbox[1], b) /\ (There(b)' <=> There(b))
      BY <1>1, <2>2 DEF Naming
    <3> QED
      BY <1>1, <3>1, ForetoldReads
  <2> QED
    BY <2>1, <2>2
<1> QED
  BY <1>2 DEF Registry

\* A step that is about neither keeps the registry.
LEMMA RegistrySame ==
    ASSUME Registry, inbox' = inbox, OneEach', \A b \in App : There(b)' <=> There(b),
           \A b \in App : Enrolled(b)' <=> Enrolled(b)
    PROVE  Registry'
  BY ForetoldSame DEF Registry

\* An application that is asked for its properties keeps its names.
LEMMA AsksNames ==
    ASSUME NEW a \in App, NEW at, Asks(a, at)
    PROVE  \A b \in App : Enrolled(b)' <=> Enrolled(b)
  BY DEF Asks, Only, Enrolled

\* Every step of the tray keeps the registry right.
LEMMA RegistryStep ==
    ASSUME TrayTypes, Registry, [TrayNext]_trayVars
    PROVE  TrayTypes' /\ Registry'
<1>1. OneEach
  BY DEF Registry
<1>2. ASSUME NEW a \in App, Register(a)
      PROVE  TrayTypes' /\ Registry'
  <2> DEFINE m == [kind |-> "register", from |-> a]
  <2>1. TrayTypes' /\ Unread /\ Only(a) /\ Says(m) /\ Enrolled(a)'
    BY <1>2, RegisterEffect DEF Enrolled
  <2>2. m.from = a /\ m.kind = "register"
    OBVIOUS
  <2> HIDE DEF m
  <2> QED
    BY <2>1, <2>2, RegistrySays
<1>3. ASSUME NEW a \in App, ChangeLook(a)
      PROVE  TrayTypes' /\ Registry'
  <2> DEFINE m == [kind |-> "changed", from |-> a]
  <2>1. TrayTypes' /\ Unread /\ Only(a) /\ Says(m) /\ (Enrolled(a)' <=> Enrolled(a))
    BY <1>3, ChangeLookEffect DEF Enrolled
  <2>2. m.from = a /\ m.kind = "changed"
    OBVIOUS
  <2> HIDE DEF m
  <2> QED
    BY <2>1, <2>2, RegistrySays
<1>4. ASSUME NEW a \in App, Quit(a) \/ Release(a)
      PROVE  TrayTypes' /\ Registry'
  <2> DEFINE m == [kind |-> "vanished", from |-> a]
  <2>1. TrayTypes' /\ Unread /\ Only(a) /\ Says(m) /\ ~Enrolled(a)'
    BY <1>4, QuitEffect, ReleaseEffect DEF Enrolled
  <2>2. m.from = a /\ m.kind = "vanished"
    OBVIOUS
  <2> HIDE DEF m
  <2> QED
    BY <2>1, <2>2, RegistrySays
<1>5. ASSUME NEW a \in App, Answer(a)
      PROVE  TrayTypes' /\ Registry'
  <2> DEFINE c == apps[a].calls[1]
             m == [kind |-> "reply", from |-> a, at |-> c, look |-> apps[a].look]
  <2>1. /\ TrayTypes' /\ Unread /\ Only(a) /\ (Enrolled(a)' <=> Enrolled(a))
        /\ (inbox' = inbox \/ Says(m))
    BY <1>5, AnswerEffect DEF Enrolled
  <2>2. m.from = a /\ m.kind = "reply"
    OBVIOUS
  <2> HIDE DEF m
  <2>3. CASE Says(m)
    BY <2>1, <2>2, <2>3, RegistrySays
  <2>4. CASE inbox' = inbox
    BY <1>1, <2>1, <2>4, UnreadThere, RegistrySame DEF Only, Enrolled
  <2> QED
    BY <2>1, <2>3, <2>4
<1>6. ASSUME NEW a \in App, TimeOut(a)
      PROVE  TrayTypes' /\ Registry'
  <2>1. /\ TrayTypes' /\ Unread /\ Only(a) /\ (Enrolled(a)' <=> Enrolled(a)) /\ inbox' = inbox
    BY <1>6, TimeOutEffect DEF Enrolled
  <2> QED
    BY <1>1, <2>1, UnreadThere, RegistrySame DEF Only, Enrolled
<1>7. CASE RegisterItem
  <2>1. TrayTypes'
    BY <1>7, RegisterItemEffect
  <2>2. PICK a \in App :
            /\ Heard(a, "register")
            /\ \/ Unread /\ apps' = apps /\ \E i \in 1 .. Len(items) : items[i].service = a
               \/ \E at \in Address :
                     /\ Adds(a, at)
                     /\ \/ apps[a].name = TRUE /\ Asks(a, at)
                        \/ apps[a].name = FALSE /\ apps' = apps
    BY <1>7, RegisterItemEffect
  <2>3. \A b \in App : Enrolled(b)' <=> Enrolled(b)
    BY <2>2, AsksNames DEF Enrolled
  <2>4. OneEach' /\ There(a)' /\ \A b \in App \ {a} : There(b)' <=> There(b)
    <3>1. CASE Unread /\ There(a)
      BY <1>1, <3>1, UnreadThere
    <3>2. CASE \E at \in Address : Adds(a, at)
      BY <1>1, <3>2, AddsThere
    <3> QED
      BY <2>2, <3>1, <3>2 DEF There
  <2>5. Registry'
    BY <2>2, <2>3, <2>4, RegistryReads
  <2> QED
    BY <2>1, <2>5
<1>8. CASE PropertiesChanged
  <2>1. TrayTypes' /\ Unread
    BY <1>8, PropertiesChangedEffect
  <2>2. PICK a \in App :
            /\ Heard(a, "changed")
            /\ apps' = apps \/ \E i \in 1 .. Len(items) : Asks(a, items[i].at)
    BY <1>8, PropertiesChangedEffect
  <2>3. \A b \in App : Enrolled(b)' <=> Enrolled(b)
    BY <2>2, AsksNames DEF Enrolled
  <2>4. Registry'
    BY <1>1, <2>1, <2>2, <2>3, UnreadThere, RegistryReads
  <2> QED
    BY <2>1, <2>4
<1>9. CASE NameVanished
  <2>1. TrayTypes' /\ \A b \in App : Enrolled(b)' <=> Enrolled(b)
    BY <1>9, NameVanishedEffect DEF Enrolled
  <2>2. PICK a \in App :
            /\ Heard(a, "vanished")
            /\ \/ Unread /\ \A i \in 1 .. Len(items) : items[i].service # a
               \/ \E k \in 1 .. Len(items) : items[k].service = a /\ Drops(k)
    BY <1>9, NameVanishedEffect
  <2>3. OneEach' /\ ~There(a)' /\ \A b \in App \ {a} : There(b)' <=> There(b)
    <3>1. CASE Unread /\ ~There(a)
      BY <1>1, <3>1, UnreadThere
    <3>2. CASE \E k \in 1 .. Len(items) : items[k].service = a /\ Drops(k)
      BY <1>1, <2>1, <3>2, DropsThere
    <3> QED
      BY <2>2, <3>1, <3>2 DEF There
  <2>4. Registry'
    BY <2>1, <2>2, <2>3, RegistryReads
  <2> QED
    BY <2>1, <2>4
<1>10. CASE PropsReply
  <2>1. TrayTypes' /\ Stays /\ \A b \in App : Enrolled(b)' <=> Enrolled(b)
    BY <1>10, PropsReplyEffect DEF Enrolled
  <2>2. PICK a \in App : Heard(a, "reply")
    BY <1>10, PropsReplyEffect
  <2>3. OneEach' /\ \A b \in App : There(b)' <=> There(b)
    BY <1>1, <2>1, StaysThere
  <2>4. Registry'
    BY <2>1, <2>2, <2>3, RegistryReads
  <2> QED
    BY <2>1, <2>4
<1>11. ASSUME NEW bar \in TrayBar, DrawTray(bar)
       PROVE  TrayTypes' /\ Registry'
  <2>1. /\ TrayTypes' /\ Stays /\ inbox' = inbox
        /\ \A b \in App : Enrolled(b)' <=> Enrolled(b)
    BY <1>11, DrawTrayEffect DEF Enrolled
  <2> QED
    BY <1>1, <2>1, StaysThere, RegistrySame
<1>12. CASE UNCHANGED trayVars
  <2>1. /\ inbox' = inbox /\ Unread /\ TrayTypes'
        /\ \A b \in App : Enrolled(b)' <=> Enrolled(b)
    BY <1>12 DEF trayVars, shownVars, Unread, TrayTypes, Enrolled
  <2> QED
    BY <1>1, <2>1, UnreadThere, RegistrySame
<1> QED
  BY <1>2, <1>3, <1>4, <1>5, <1>6, <1>7, <1>8, <1>9, <1>10, <1>11, <1>12 DEF TrayNext

\* The registry is right, always.
LEMMA RegistryInvariant == TraySpec => [](TrayTypes /\ Registry)
<1>1. TrayInit => TrayTypes /\ Registry
  <2> SUFFICES ASSUME TrayInit
               PROVE  Registry
    BY TrayInitTypes
  <2>1. Len(items) = 0 /\ Len(inbox) = 0 /\ \A a \in App : apps[a].name = FALSE
    BY DEF TrayInit
  <2> QED
    BY <2>1 DEF Registry, OneEach, Foretold, There, Enrolled
<1> QED
  BY <1>1, RegistryStep, PTL DEF TraySpec

\* An application has at most one item, and once its messages are read it has one if and
\* only if it holds the name it registered and gave up no other since (register_item,
\* unregister_item, message_filter).  This needs no assumption on late releases.
THEOREM OnlyHeldNamesListed == TraySpec => []ItemsMatch
<1>1. TrayTypes /\ Registry => ItemsMatch
  <2> SUFFICES ASSUME TrayTypes, Registry, NEW a \in App
               PROVE  /\ Cardinality({ i \in DOMAIN items : items[i].service = a }) <= 1
                      /\ Coming(a, "register") = {} /\ Coming(a, "vanished") = {} =>
                             (a \in Services <=> apps[a].name /\ apps[a].kept)
    BY DEF ItemsMatch
  <2>1. /\ Len(items) \in Nat /\ DOMAIN items = 1 .. Len(items)
        /\ DOMAIN inbox = 1 .. Len(inbox)
        /\ apps[a].name \in BOOLEAN /\ apps[a].kept \in BOOLEAN
    BY TrayFields
  <2>2. Cardinality({ i \in DOMAIN items : items[i].service = a }) <= 1
    <3> DEFINE own == { i \in DOMAIN items : items[i].service = a }
    <3>1. \A i, j \in own : i = j
      BY <2>1 DEF Registry, OneEach
    <3> HIDE DEF own
    <3>2. own = {} \/ \E i : own = {i}
      BY <3>1
    <3>3. Cardinality(own) = 0 \/ Cardinality(own) = 1
      BY <3>2, FS_EmptySet, FS_Singleton
    <3>4. Cardinality(own) <= 1
      BY <3>3
    <3> QED
      BY <3>4 DEF own
  <2>3. ASSUME Coming(a, "register") = {}, Coming(a, "vanished") = {}
        PROVE  a \in Services <=> apps[a].name /\ apps[a].kept
    <3>1. \A j \in 1 .. Len(inbox) : ~Naming(inbox[j], a)
      BY <2>1, <2>3 DEF Coming, Naming
    <3>2. There(a) <=> Enrolled(a)
      BY <3>1 DEF Registry, Foretold
    <3>3. There(a) <=> a \in Services
      BY <2>1 DEF There, Services
    <3>4. Enrolled(a) <=> apps[a].name /\ apps[a].kept
      BY <2>1, Zenon DEF Enrolled
    <3> QED
      BY <3>2, <3>3, <3>4
  <2> QED
    BY <2>2, <2>3
<1> QED
  BY <1>1, RegistryInvariant, PTL

\* a has an item at c; it will have one.
HasItem(a, c) == \E i \in 1 .. Len(items) : items[i].service = a /\ items[i].at = c
NextItem(a, c) == \E i \in 1 .. Len(items') : items'[i].service = a /\ items'[i].at = c
Outlasts(a) == \A c : HasItem(a, c) => NextItem(a, c)

NoVanish(a) == \A j \in 1 .. Len(inbox) : ~(inbox[j].from = a /\ inbox[j].kind = "vanished")

\* What a still owes the tray is about its item: calls that are pending, if it holds
\* its name, and answers on their way.  When it says that a name vanished, no call is
\* pending, and no answer comes after that; if it lives on, nothing comes before.
Pending(a) ==
    /\ apps[a].name # TRUE => apps[a].calls = <<>>
    /\ \A k \in 1 .. Len(apps[a].calls) :
          apps[a].calls[k] # Nobody => HasItem(a, apps[a].calls[k])
Leaving(a) ==
    \A j \in 1 .. Len(inbox) :
        inbox[j].from = a /\ inbox[j].kind = "vanished" =>
            /\ apps[a].calls = <<>>
            /\ \A k \in 1 .. Len(inbox) : k > j /\ inbox[k].from = a => inbox[k].kind # "reply"
            /\ apps[a].name = TRUE => \A k \in 1 .. Len(inbox) : k < j => inbox[k].from # a
Replying(a) ==
    \A j \in 1 .. Len(inbox) :
        inbox[j].from = a /\ inbox[j].kind = "reply" => HasItem(a, inbox[j].at)

Owed(a) == Pending(a) /\ Leaving(a) /\ Replying(a)

\* The messages after one was said, or read, and the order they are in.
LEMMA SaysOrder ==
    ASSUME TrayTypes, NEW m, Says(m)
    PROVE  LET n == Len(inbox)
           IN  /\ n \in Nat /\ Len(inbox') = n + 1 /\ n + 1 \in 1 .. n + 1
               /\ inbox'[n + 1] = m
               /\ \A j \in 1 .. n : inbox'[j] = inbox[j] /\ j \in 1 .. n + 1 /\ n + 1 > j
               /\ \A j \in 1 .. n + 1 : j \in 1 .. n \/ j = n + 1
               /\ \A k \in 1 .. n + 1 : ~(k > n + 1)
<1>1. /\ Len(inbox) \in Nat /\ Len(inbox') = Len(inbox) + 1
      /\ \A i \in 1 .. Len(inbox) : inbox'[i] = inbox[i]
      /\ inbox'[Len(inbox) + 1] = m
  BY TrayFields DEF Says
<1> QED
  BY <1>1

\* Where the messages are when the first is read.
LEMMA ConsumesOrder ==
    ASSUME TrayTypes, Consumes
    PROVE  LET n == Len(inbox)
               left == Len(inbox')
           IN  /\ n \in Nat /\ left = n - 1 /\ left \in Nat /\ 1 \in 1 .. n
               /\ \A j \in 1 .. left : inbox'[j] = inbox[j + 1] /\ j + 1 \in 1 .. n /\ j + 1 > 1
               /\ \A j \in 1 .. n : j # 1 => \E i \in 1 .. left : j = i + 1 /\ inbox'[i] = inbox[j]
               /\ \A i, j \in 1 .. left : i + 1 > j + 1 <=> i > j
               /\ \A j \in 1 .. left : ~(1 > j + 1)
<1> DEFINE n == Len(inbox)
           left == Len(inbox')
<1>1. /\ n \in Nat /\ n >= 1 /\ left = n - 1
      /\ \A i \in 1 .. n - 1 : inbox'[i] = inbox[i + 1]
  BY TrayFields DEF Consumes
<1>2. \A j \in 1 .. n : j # 1 => \E i \in 1 .. left : j = i + 1 /\ inbox'[i] = inbox[j]
  <2> SUFFICES ASSUME NEW j \in 1 .. n, j # 1
               PROVE  \E i \in 1 .. left : j = i + 1 /\ inbox'[i] = inbox[j]
    OBVIOUS
  <2>1. j - 1 \in 1 .. left /\ j = (j - 1) + 1 /\ inbox'[j - 1] = inbox[j]
    BY <1>1
  <2> QED
    BY <2>1
<1> QED
  BY <1>1, <1>2

\* No name of one that has a call to answer, or holds its name and has a message before
\* that one, is said to have vanished.
LEMMA BusyStays ==
    ASSUME NEW a \in App, Owed(a),
           \/ apps[a].calls # <<>>
           \/ /\ TrayTypes /\ Consumes /\ apps[a].name = TRUE
              /\ inbox[1].from = a /\ inbox[1].kind # "vanished"
    PROVE  NoVanish(a)
<1>1. CASE apps[a].calls # <<>>
  BY <1>1 DEF Owed, Leaving, NoVanish
<1>2. CASE /\ TrayTypes /\ Consumes /\ apps[a].name = TRUE
           /\ inbox[1].from = a /\ inbox[1].kind # "vanished"
  <2> SUFFICES ASSUME NEW j \in 1 .. Len(inbox), inbox[j].from = a, inbox[j].kind = "vanished"
               PROVE  FALSE
    BY DEF NoVanish
  <2>1. 1 \in 1 .. Len(inbox) /\ 1 < j
    BY <1>2, ConsumesOrder
  <2> QED
    BY <1>2, <2>1 DEF Owed, Leaving
<1> QED
  BY <1>1, <1>2

\* A message is read, and a neither takes its name nor is asked for anything.
LEMMA LeavingReads ==
    ASSUME TrayTypes, NEW a \in App, Leaving(a), Consumes, apps'[a] = apps[a]
    PROVE  Leaving(a)'
<1> SUFFICES ASSUME NEW j \in 1 .. Len(inbox'), inbox'[j].from = a, inbox'[j].kind = "vanished"
             PROVE  /\ apps[a].calls = <<>>
                    /\ \A k \in 1 .. Len(inbox') :
                          k > j /\ inbox'[k].from = a => inbox'[k].kind # "reply"
                    /\ apps[a].name = TRUE =>
                          \A k \in 1 .. Len(inbox') : k < j => inbox'[k].from # a
  BY DEF Leaving
<1>1. j + 1 \in 1 .. Len(inbox) /\ inbox'[j] = inbox[j + 1]
  BY ConsumesOrder
<1>2. /\ apps[a].calls = <<>>
      /\ \A k \in 1 .. Len(inbox) : k > j + 1 /\ inbox[k].from = a => inbox[k].kind # "reply"
      /\ apps[a].name = TRUE => \A k \in 1 .. Len(inbox) : k < j + 1 => inbox[k].from # a
  BY <1>1 DEF Leaving
<1>3. \A k \in 1 .. Len(inbox') :
          /\ k + 1 \in 1 .. Len(inbox) /\ inbox'[k] = inbox[k + 1]
          /\ k > j <=> k + 1 > j + 1
          /\ k < j <=> k + 1 < j + 1
  BY ConsumesOrder
<1> QED
  BY <1>2, <1>3

\* What does not concern a.
LEMMA OwedOther ==
    ASSUME TrayTypes, NEW a \in App, Owed(a), apps'[a] = apps[a], Outlasts(a),
           \/ inbox' = inbox
           \/ \E m : Says(m) /\ m.from # a
           \/ Consumes
    PROVE  Owed(a)'
<1>1. Pending(a)'
  <2>1. \A k \in 1 .. Len(apps[a].calls) :
           apps[a].calls[k] # Nobody => NextItem(a, apps[a].calls[k])
    BY DEF Owed, Pending, Outlasts
  <2> QED
    BY <2>1 DEF Owed, Pending, HasItem, NextItem
<1>2. Leaving(a)' /\ Replying(a)'
  <2>1. CASE inbox' = inbox
    <3>1. Leaving(a)'
      BY <2>1 DEF Owed, Leaving
    <3>2. Replying(a)'
      <4> SUFFICES ASSUME NEW j \in 1 .. Len(inbox'), inbox'[j].from = a, inbox'[j].kind = "reply"
                   PROVE  NextItem(a, inbox'[j].at)
        BY DEF Replying, HasItem, NextItem
      <4> QED
        BY <2>1 DEF Owed, Replying, Outlasts
    <3> QED
      BY <3>1, <3>2
  <2>2. CASE \E m : Says(m) /\ m.from # a
    <3>1. PICK m : Says(m) /\ m.from # a
      BY <2>2
    <3>2. Leaving(a)'
      <4> SUFFICES ASSUME NEW j \in 1 .. Len(inbox'),
                          inbox'[j].from = a, inbox'[j].kind = "vanished"
                   PROVE  /\ apps'[a].calls = <<>>
                          /\ \A k \in 1 .. Len(inbox') :
                                k > j /\ inbox'[k].from = a => inbox'[k].kind # "reply"
                          /\ apps'[a].name = TRUE =>
                                \A k \in 1 .. Len(inbox') : k < j => inbox'[k].from # a
        BY DEF Leaving
      <4>1. j \in 1 .. Len(inbox) /\ inbox'[j] = inbox[j]
        BY <3>1, SaysOrder
      <4>2. /\ apps[a].calls = <<>>
            /\ \A k \in 1 .. Len(inbox) : k > j /\ inbox[k].from = a => inbox[k].kind # "reply"
            /\ apps[a].name = TRUE => \A k \in 1 .. Len(inbox) : k < j => inbox[k].from # a
        BY <4>1 DEF Owed, Leaving
      <4> QED
        BY <3>1, <4>2, SaysOrder
    <3>3. Replying(a)'
      <4> SUFFICES ASSUME NEW j \in 1 .. Len(inbox'), inbox'[j].from = a, inbox'[j].kind = "reply"
                   PROVE  NextItem(a, inbox'[j].at)
        BY DEF Replying, HasItem, NextItem
      <4>1. j \in 1 .. Len(inbox) /\ inbox'[j] = inbox[j]
        BY <3>1, SaysOrder
      <4> QED
        BY <4>1 DEF Owed, Replying, Outlasts
    <3> QED
      BY <3>2, <3>3
  <2>3. CASE Consumes
    <3>1. Leaving(a)'
      BY <2>3, LeavingReads DEF Owed
    <3>2. Replying(a)'
      <4> SUFFICES ASSUME NEW j \in 1 .. Len(inbox'), inbox'[j].from = a, inbox'[j].kind = "reply"
                   PROVE  NextItem(a, inbox'[j].at)
        BY DEF Replying, HasItem, NextItem
      <4>1. j + 1 \in 1 .. Len(inbox) /\ inbox'[j] = inbox[j + 1]
        BY <2>3, ConsumesOrder
      <4> QED
        BY <4>1 DEF Owed, Replying, Outlasts
    <3> QED
      BY <3>1, <3>2
  <2> QED
    BY <2>1, <2>2, <2>3
<1> QED
  BY <1>1, <1>2 DEF Owed

\* a speaks, and it is the last of its messages.
LEMMA OwedSpeaks ==
    ASSUME TrayTypes, NEW a \in App, Owed(a), Outlasts(a), NEW m, Says(m),
           NoVanish(a) \/ (m.kind # "reply" /\ apps'[a].calls = <<>>),
           m.kind = "vanished" =>
               /\ apps'[a].calls = <<>>
               /\ apps'[a].name # TRUE \/ \A j \in 1 .. Len(inbox) : inbox[j].from # a,
           apps'[a].name = TRUE =>
               apps[a].name = TRUE \/ \A j \in 1 .. Len(inbox) : inbox[j].from # a,
           m.kind = "reply" => NextItem(a, m.at),
           Pending(a)'
    PROVE  Owed(a)'
<1>1. Leaving(a)'
  <2> SUFFICES ASSUME NEW j \in 1 .. Len(inbox'), inbox'[j].from = a, inbox'[j].kind = "vanished"
               PROVE  /\ apps'[a].calls = <<>>
                      /\ \A k \in 1 .. Len(inbox') :
                            k > j /\ inbox'[k].from = a => inbox'[k].kind # "reply"
                      /\ apps'[a].name = TRUE =>
                            \A k \in 1 .. Len(inbox') : k < j => inbox'[k].from # a
    BY DEF Leaving
  <2>1. CASE j \in 1 .. Len(inbox) /\ inbox'[j] = inbox[j]
    <3>1. ~NoVanish(a)
      BY <2>1 DEF NoVanish
    <3>2. /\ \A k \in 1 .. Len(inbox) : k > j /\ inbox[k].from = a => inbox[k].kind # "reply"
          /\ apps[a].name = TRUE => \A k \in 1 .. Len(inbox) : k < j => inbox[k].from # a
      BY <2>1 DEF Owed, Leaving
    <3>3. m.kind # "reply" /\ apps'[a].calls = <<>>
      BY <3>1
    <3>4. \A k \in 1 .. Len(inbox') :
              k > j /\ inbox'[k].from = a => inbox'[k].kind # "reply"
      BY <3>2, <3>3, SaysOrder
    <3>5. ASSUME apps'[a].name = TRUE
          PROVE  \A k \in 1 .. Len(inbox') : k < j => inbox'[k].from # a
      <4>1. \A k \in 1 .. Len(inbox) : k < j => inbox[k].from # a
        BY <2>1, <3>2, <3>5
      <4>2. \A k \in 1 .. Len(inbox') : k < j => k \in 1 .. Len(inbox) /\ inbox'[k] = inbox[k]
        BY <2>1, SaysOrder
      <4> QED
        BY <4>1, <4>2
    <3> QED
      BY <3>3, <3>4, <3>5
  <2>2. CASE j = Len(inbox) + 1 /\ inbox'[j] = m
    <3>1. \A k \in 1 .. Len(inbox') : ~(k > j)
      BY <2>2, SaysOrder
    <3>2. \A k \in 1 .. Len(inbox') : k < j => k \in 1 .. Len(inbox) /\ inbox'[k] = inbox[k]
      BY <2>2, SaysOrder
    <3> QED
      BY <2>2, <3>1, <3>2
  <2> QED
    BY <2>1, <2>2, SaysOrder
<1>2. Replying(a)'
  <2> SUFFICES ASSUME NEW j \in 1 .. Len(inbox'), inbox'[j].from = a, inbox'[j].kind = "reply"
               PROVE  NextItem(a, inbox'[j].at)
    BY DEF Replying, HasItem, NextItem
  <2>1. CASE j \in 1 .. Len(inbox) /\ inbox'[j] = inbox[j]
    BY <2>1 DEF Owed, Replying, Outlasts
  <2>2. CASE inbox'[j] = m
    BY <2>2
  <2> QED
    BY <2>1, <2>2, SaysOrder
<1> QED
  BY <1>1, <1>2 DEF Owed

\* a is asked for its properties.
LEMMA OwedAsks ==
    ASSUME TrayTypes, NEW a \in App, Owed(a), Outlasts(a), Consumes,
           NEW c, Asks(a, c), NextItem(a, c), apps[a].name = TRUE, c \in Address,
           inbox[1].from = a, inbox[1].kind # "vanished"
    PROVE  Owed(a)'
<1>1. apps[a].calls \in Seq(Address \cup {Nobody}) /\ c \in Address \cup {Nobody}
  BY TrayFields
<1>2. /\ Len(apps[a].calls) \in Nat
      /\ Len(apps'[a].calls) = Len(apps[a].calls) + 1
      /\ \A k \in 1 .. Len(apps[a].calls) : apps'[a].calls[k] = apps[a].calls[k]
      /\ apps'[a].calls[Len(apps[a].calls) + 1] = c
      /\ apps'[a].name = TRUE
  <2> DEFINE calls == apps[a].calls
             more == Append(calls, c)
  <2>1. apps'[a].calls = more /\ apps'[a].name = apps[a].name
    BY DEF Asks
  <2>2. /\ Len(calls) \in Nat /\ Len(more) = Len(calls) + 1
        /\ \A k \in 1 .. Len(calls) : more[k] = calls[k]
        /\ more[Len(calls) + 1] = c
    <3> HIDE DEF calls
    <3> QED
      BY <1>1, AppendEntries DEF calls
  <2> QED
    BY <2>1, <2>2
<1>3. \A k \in 1 .. Len(apps[a].calls) + 1 :
          k \in 1 .. Len(apps[a].calls) \/ k = Len(apps[a].calls) + 1
  BY <1>2
<1>4. Pending(a)'
  <2> SUFFICES ASSUME NEW k \in 1 .. Len(apps'[a].calls), apps'[a].calls[k] # Nobody
               PROVE  NextItem(a, apps'[a].calls[k])
    BY <1>2 DEF Pending, HasItem, NextItem
  <2>1. CASE k \in 1 .. Len(apps[a].calls)
    BY <1>2, <2>1 DEF Owed, Pending, Outlasts
  <2>2. CASE k = Len(apps[a].calls) + 1
    BY <1>2, <2>2
  <2> QED
    BY <1>2, <1>3, <2>1, <2>2
<1>5. Leaving(a)'
  <2>1. NoVanish(a)
    BY BusyStays
  <2>2. NoVanish(a)'
    BY <2>1, ConsumesOrder DEF NoVanish
  <2> QED
    BY <2>2 DEF NoVanish, Leaving
<1>6. Replying(a)'
  <2> SUFFICES ASSUME NEW j \in 1 .. Len(inbox'), inbox'[j].from = a, inbox'[j].kind = "reply"
               PROVE  NextItem(a, inbox'[j].at)
    BY DEF Replying, HasItem, NextItem
  <2>1. j + 1 \in 1 .. Len(inbox) /\ inbox'[j] = inbox[j + 1]
    BY ConsumesOrder
  <2> QED
    BY <2>1 DEF Owed, Replying, Outlasts
<1> QED
  BY <1>4, <1>5, <1>6 DEF Owed

\* That a name of a vanished is read.
LEMMA OwedGone ==
    ASSUME TrayTypes, NEW a \in App, Owed(a), Heard(a, "vanished"), apps' = apps
    PROVE  Owed(a)'
<1>1. Consumes /\ inbox[1].from = a /\ inbox[1].kind = "vanished"
  BY DEF Heard
<1>2. /\ apps[a].calls = <<>>
      /\ \A k \in 1 .. Len(inbox) : k > 1 /\ inbox[k].from = a => inbox[k].kind # "reply"
  BY <1>1, ConsumesOrder DEF Owed, Leaving
<1>3. Pending(a)'
  <2> DEFINE calls == apps[a].calls
  <2>1. \A k \in 1 .. Len(calls) : FALSE
    <3>1. calls = <<>> /\ Len(calls) = 0
      BY <1>2
    <3> HIDE DEF calls
    <3> QED
      BY <3>1
  <2> QED
    BY <1>2, <2>1 DEF Pending
<1>4. Leaving(a)'
  BY <1>1, LeavingReads DEF Owed
<1>5. \A j \in 1 .. Len(inbox') : inbox'[j].from = a => inbox'[j].kind # "reply"
  BY <1>1, <1>2, ConsumesOrder
<1> QED
  BY <1>3, <1>4, <1>5 DEF Owed, Replying

ReplyAt(m, a, c) == m.kind = "reply" /\ m.from = a /\ m.at = c
Called(a, c) == \E k \in 1 .. Len(apps[a].calls) : apps[a].calls[k] = c
Changed(a) == \E j \in 1 .. Len(inbox) : inbox[j].from = a /\ inbox[j].kind = "changed"

\* The answer that is to come last for the item at c tells how a looks.
LastReply(a, c) ==
    \E j \in 1 .. Len(inbox) :
        /\ ReplyAt(inbox[j], a, c)
        /\ a \notin WellKnown => inbox[j].look = apps[a].look
        /\ \A k \in 1 .. Len(inbox) : k > j => ~ReplyAt(inbox[k], a, c)
NoReply(a, c) == \A j \in 1 .. Len(inbox) : ~ReplyAt(inbox[j], a, c)

\* The item of a at c, which shows a look, is right or will be told: by an answer to a
\* call, because a says that it changed, or by an answer that is on its way.  One that
\* has a well-known name need only be told once.
Informed(a, c, look) ==
    \/ Called(a, c)
    \/ a \notin WellKnown /\ Changed(a)
    \/ LastReply(a, c)
    \/ /\ NoReply(a, c)
       /\ a \in WellKnown => look # Unknown
       /\ a \notin WellKnown => look = [of |-> a, look |-> apps[a].look]

\* Nothing comes or goes, but calls that are not for the item.
LEMMA InformedSame ==
    ASSUME NEW a, NEW c, NEW look, Informed(a, c, look), inbox' = inbox,
           Called(a, c) => Called(a, c)', apps'[a].look = apps[a].look
    PROVE  Informed(a, c, look)'
  BY DEF Informed, Changed, LastReply, NoReply

\* What is said is no answer at c.
LEMMA InformedSays ==
    ASSUME TrayTypes, NEW a, NEW c, NEW look, NEW m, Says(m), ~ReplyAt(m, a, c),
           Informed(a, c, look), Called(a, c) => Called(a, c)',
           a \in WellKnown \/ apps'[a].look = apps[a].look
    PROVE  Informed(a, c, look)'
<1>1. Changed(a) => Changed(a)'
  BY SaysOrder DEF Changed
<1>2. LastReply(a, c) => LastReply(a, c)'
  <2> SUFFICES ASSUME LastReply(a, c)
               PROVE  LastReply(a, c)'
    OBVIOUS
  <2>1. PICK j \in 1 .. Len(inbox) :
            /\ ReplyAt(inbox[j], a, c)
            /\ a \notin WellKnown => inbox[j].look = apps[a].look
            /\ \A k \in 1 .. Len(inbox) : k > j => ~ReplyAt(inbox[k], a, c)
    BY DEF LastReply
  <2>2. j \in 1 .. Len(inbox') /\ inbox'[j] = inbox[j]
    BY SaysOrder
  <2>3. \A k \in 1 .. Len(inbox') : k > j => ~ReplyAt(inbox'[k], a, c)
    BY <2>1, SaysOrder
  <2> QED
    BY <2>1, <2>2, <2>3 DEF LastReply, ReplyAt
<1>3. NoReply(a, c) => NoReply(a, c)'
  <2> SUFFICES ASSUME NoReply(a, c)
               PROVE  \A j \in 1 .. Len(inbox') : ~ReplyAt(inbox'[j], a, c)
    BY DEF NoReply, ReplyAt
  <2> QED
    BY SaysOrder DEF NoReply
<1> QED
  BY <1>1, <1>2, <1>3 DEF Informed

\* a answers the oldest call.
LEMMA InformedAnswer ==
    ASSUME TrayTypes, NEW a \in App, NEW c \in Address, NEW look, NEW m, Says(m),
           Informed(a, c, look), apps[a].calls # <<>>, apps'[a].calls = Tail(apps[a].calls),
           apps'[a].look = apps[a].look, NEW d \in Address, d = apps[a].calls[1],
           m.kind = "reply", m.from = a, m.at = d, m.look = apps[a].look
    PROVE  Informed(a, c, look)'
<1>1. CASE d = c
  <2>1. /\ Len(inbox') \in 1 .. Len(inbox') /\ inbox'[Len(inbox')] = m
        /\ \A k \in 1 .. Len(inbox') : ~(k > Len(inbox'))
    BY SaysOrder
  <2>2. ReplyAt(m, a, c) /\ m.look = apps'[a].look
    BY <1>1 DEF ReplyAt
  <2>3. LastReply(a, c)'
    BY <2>1, <2>2 DEF LastReply, ReplyAt
  <2> QED
    BY <2>3 DEF Informed
<1>2. CASE d # c
  <2> DEFINE calls == apps[a].calls
  <2>1. calls \in Seq(Address \cup {Nobody}) /\ calls # <<>>
    BY TrayFields
  <2> HIDE DEF calls
  <2>2. /\ Len(calls) \in Nat /\ Len(Tail(calls)) = Len(calls) - 1
        /\ \A k \in 1 .. Len(calls) - 1 : Tail(calls)[k] = calls[k + 1]
    BY <2>1, TailEntries
  <2>3. Called(a, c) => Called(a, c)'
    <3> SUFFICES ASSUME NEW k \in 1 .. Len(calls), calls[k] = c
                 PROVE  \E l \in 1 .. Len(Tail(calls)) : Tail(calls)[l] = c
      BY DEF Called, calls
    <3>1. k # 1
      BY <1>2 DEF calls
    <3>2. k - 1 \in 1 .. Len(calls) - 1 /\ (k - 1) + 1 = k
      BY <2>2, <3>1
    <3> QED
      BY <2>2, <3>2
  <2>4. ~ReplyAt(m, a, c)
    BY <1>2 DEF ReplyAt
  <2> QED
    BY <2>3, <2>4, InformedSays
<1> QED
  BY <1>1, <1>2

\* A message is read that does not concern the item.
LEMMA InformedReads ==
    ASSUME TrayTypes, NEW a, NEW c, NEW look, Consumes, ~ReplyAt(inbox[1], a, c),
           a \in WellKnown \/ ~(inbox[1].from = a /\ inbox[1].kind = "changed"),
           Informed(a, c, look), Called(a, c) => Called(a, c)', apps'[a].look = apps[a].look
    PROVE  Informed(a, c, look)'
<1>1. a \notin WellKnown /\ Changed(a) => Changed(a)'
  <2> SUFFICES ASSUME a \notin WellKnown, NEW j \in 1 .. Len(inbox),
                      inbox[j].from = a, inbox[j].kind = "changed"
               PROVE  \E i \in 1 .. Len(inbox') : inbox'[i].from = a /\ inbox'[i].kind = "changed"
    BY DEF Changed
  <2>1. PICK i \in 1 .. Len(inbox') : j = i + 1 /\ inbox'[i] = inbox[j]
    BY ConsumesOrder
  <2> QED
    BY <2>1
<1>2. LastReply(a, c) => LastReply(a, c)'
  <2> SUFFICES ASSUME LastReply(a, c)
               PROVE  LastReply(a, c)'
    OBVIOUS
  <2>1. PICK j \in 1 .. Len(inbox) :
            /\ ReplyAt(inbox[j], a, c)
            /\ a \notin WellKnown => inbox[j].look = apps[a].look
            /\ \A k \in 1 .. Len(inbox) : k > j => ~ReplyAt(inbox[k], a, c)
    BY DEF LastReply
  <2>2. j # 1
    BY <2>1
  <2>3. PICK i \in 1 .. Len(inbox') : j = i + 1 /\ inbox'[i] = inbox[j]
    BY <2>2, ConsumesOrder
  <2>4. \A k \in 1 .. Len(inbox') : k > i => ~ReplyAt(inbox'[k], a, c)
    BY <2>1, <2>3, ConsumesOrder
  <2> QED
    BY <2>1, <2>3, <2>4 DEF LastReply, ReplyAt
<1>3. NoReply(a, c) => NoReply(a, c)'
  <2> SUFFICES ASSUME NoReply(a, c)
               PROVE  \A j \in 1 .. Len(inbox') : ~ReplyAt(inbox'[j], a, c)
    BY DEF NoReply, ReplyAt
  <2> QED
    BY ConsumesOrder DEF NoReply
<1> QED
  BY <1>1, <1>2, <1>3 DEF Informed

\* The answer is read.
LEMMA InformedReply ==
    ASSUME TrayTypes, NEW a \in App, NEW c, NEW look, NEW new, Consumes, ReplyAt(inbox[1], a, c),
           Informed(a, c, look), apps' = apps, new = [of |-> a, look |-> inbox[1].look]
    PROVE  Informed(a, c, new)'
<1>1. Called(a, c) => Called(a, c)'
  BY DEF Called
<1>2. Changed(a) => Changed(a)'
  <2> SUFFICES ASSUME NEW j \in 1 .. Len(inbox), inbox[j].from = a, inbox[j].kind = "changed"
               PROVE  \E i \in 1 .. Len(inbox') : inbox'[i].from = a /\ inbox'[i].kind = "changed"
    BY DEF Changed
  <2>1. j # 1
    BY DEF ReplyAt
  <2>2. PICK i \in 1 .. Len(inbox') : j = i + 1 /\ inbox'[i] = inbox[j]
    BY <2>1, ConsumesOrder
  <2> QED
    BY <2>2
<1>3. ~NoReply(a, c)
  BY ConsumesOrder DEF NoReply
<1>4. LastReply(a, c) => Informed(a, c, new)'
  <2> SUFFICES ASSUME LastReply(a, c)
               PROVE  Informed(a, c, new)'
    OBVIOUS
  <2>1. PICK j \in 1 .. Len(inbox) :
            /\ ReplyAt(inbox[j], a, c)
            /\ a \notin WellKnown => inbox[j].look = apps[a].look
            /\ \A k \in 1 .. Len(inbox) : k > j => ~ReplyAt(inbox[k], a, c)
    BY DEF LastReply
  <2>2. CASE j = 1
    <3>1. NoReply(a, c)'
      <4> SUFFICES ASSUME NEW k \in 1 .. Len(inbox')
                   PROVE  ~ReplyAt(inbox'[k], a, c)
        BY DEF NoReply, ReplyAt
      <4> QED
        BY <2>1, <2>2, ConsumesOrder
    <3>2. new # Unknown
      BY TrayConstants DEF Unknown
    <3>3. a \notin WellKnown => new = [of |-> a, look |-> apps'[a].look]
      BY <2>1, <2>2
    <3> QED
      BY <3>1, <3>2, <3>3 DEF Informed, Unknown
  <2>3. CASE j # 1
    <3>1. PICK i \in 1 .. Len(inbox') : j = i + 1 /\ inbox'[i] = inbox[j]
      BY <2>3, ConsumesOrder
    <3>2. \A k \in 1 .. Len(inbox') : k > i => ~ReplyAt(inbox'[k], a, c)
      BY <2>1, <3>1, ConsumesOrder
    <3>3. LastReply(a, c)'
      BY <2>1, <3>1, <3>2 DEF LastReply, ReplyAt
    <3> QED
      BY <3>3 DEF Informed
  <2> QED
    BY <2>2, <2>3
<1> QED
  BY <1>1, <1>2, <1>3, <1>4 DEF Informed

\* The item of a is at c and shows a look.
Listed(a, c, look) ==
    \E i \in 1 .. Len(items) :
        items[i].service = a /\ items[i].at = c /\ items[i].look = look
NextListed(a, c, look) ==
    \E i \in 1 .. Len(items') :
        items'[i].service = a /\ items'[i].at = c /\ items'[i].look = look

OwnLooks ==
    \A a \in App, c \in Address, look \in Looks : Listed(a, c, look) => look.of \in {Nobody, a}

\* Its name is held and nothing of it is lost.
Reachable(a) == apps[a].name = TRUE /\ apps[a].late = FALSE /\ NoVanish(a)

AllInformed ==
    \A a \in App, c \in Address, look \in Looks :
        Listed(a, c, look) /\ Reachable(a) => Informed(a, c, look)

LooksInv ==
    /\ TrayTypes /\ Registry
    /\ \A a \in App : Owed(a)
    /\ OwnLooks /\ AllInformed

\* A name whose end is not announced after a step was not announced before it.
LEMMA NoVanishBack ==
    ASSUME TrayTypes, NEW a \in App, NoVanish(a)',
           \/ inbox' = inbox
           \/ \E m : Says(m)
           \/ Consumes /\ ~(inbox[1].from = a /\ inbox[1].kind = "vanished")
    PROVE  NoVanish(a)
<1>1. CASE inbox' = inbox
  BY <1>1 DEF NoVanish
<1>2. CASE \E m : Says(m)
  <2>1. PICK m : Says(m)
    BY <1>2
  <2> QED
    BY <2>1, SaysOrder DEF NoVanish
<1>3. CASE Consumes /\ ~(inbox[1].from = a /\ inbox[1].kind = "vanished")
  <2> SUFFICES ASSUME NEW j \in 1 .. Len(inbox), inbox[j].from = a, inbox[j].kind = "vanished"
               PROVE  FALSE
    BY DEF NoVanish
  <2>1. j # 1
    BY <1>3
  <2>2. PICK i \in 1 .. Len(inbox') : j = i + 1 /\ inbox'[i] = inbox[j]
    BY <1>3, <2>1, ConsumesOrder
  <2> QED
    BY <2>2 DEF NoVanish
<1> QED
  BY <1>1, <1>2, <1>3

\* What an application is asked is called, and so is what it was asked before.
LEMMA AsksCalled ==
    ASSUME TrayTypes, NEW a \in App, NEW at \in Address, Asks(a, at)
    PROVE  Called(a, at)' /\ \A c : Called(a, c) => Called(a, c)'
<1> DEFINE calls == apps[a].calls
           more == Append(calls, at)
<1>1. calls \in Seq(Address \cup {Nobody}) /\ at \in Address \cup {Nobody} /\ apps'[a].calls = more
  BY TrayFields DEF Asks
<1>2. /\ Len(calls) \in Nat /\ Len(more) = Len(calls) + 1
      /\ \A k \in 1 .. Len(calls) : more[k] = calls[k]
      /\ more[Len(calls) + 1] = at
  <2> HIDE DEF calls
  <2> QED
    BY <1>1, AppendEntries DEF calls
<1> HIDE DEF more
<1>3. Called(a, at)'
  BY <1>1, <1>2 DEF Called
<1>4. \A c : Called(a, c) => Called(a, c)'
  BY <1>1, <1>2 DEF Called
<1> QED
  BY <1>3, <1>4

\* The items are the same.
LEMMA UnreadListed ==
    ASSUME Unread \/ items' = items
    PROVE  /\ \A a : Outlasts(a)
           /\ \A a, c, look : NextListed(a, c, look) <=> Listed(a, c, look)
<1>1. items' = items
  BY DEF Unread
<1> QED
  BY <1>1 DEF Outlasts, HasItem, NextItem, Listed, NextListed

\* The looks, as they are after a step.
LEMMA NextLooks ==
    ASSUME \A a \in App, c \in Address, look \in Looks :
              NextListed(a, c, look) =>
                 look.of \in {Nobody, a} /\ (Reachable(a)' => Informed(a, c, look)')
    PROVE  OwnLooks' /\ AllInformed'
<1>1. \A a, c, look : Listed(a, c, look)' <=> NextListed(a, c, look)
  BY DEF Listed, NextListed
<1> QED
  BY <1>1 DEF OwnLooks, AllInformed

\* An application speaks, or loses a call.
LEMMA LooksSays ==
    ASSUME LooksInv, TrayTypes', Registry', Unread, NEW a \in App, Only(a), NEW m,
           inbox' = inbox \/ (Says(m) /\ m.from = a),
           Owed(a)',
           \A c \in Address, look \in Looks :
              Listed(a, c, look) /\ Reachable(a)' => Informed(a, c, look)'
    PROVE  LooksInv'
<1>1. TrayTypes /\ OwnLooks /\ AllInformed /\ \A b \in App : Owed(b)
  BY DEF LooksInv
<1>2. \A b \in App \ {a} : Owed(b)'
  <2> SUFFICES ASSUME NEW b \in App \ {a}
               PROVE  Owed(b)'
    OBVIOUS
  <2>1. apps'[b] = apps[b] /\ Outlasts(b)
    BY UnreadListed DEF Only
  <2>2. inbox' = inbox \/ \E n : Says(n) /\ n.from # b
    OBVIOUS
  <2> QED
    BY <1>1, <2>1, <2>2, OwedOther
<1>3. ASSUME NEW b \in App \ {a}, NEW c \in Address, NEW look \in Looks,
             Listed(b, c, look), Reachable(b)'
      PROVE  Informed(b, c, look)'
  <2>1. apps'[b] = apps[b] /\ NoVanish(b)
    BY <1>1, <1>3, NoVanishBack DEF Only, Reachable
  <2>2. Informed(b, c, look)
    BY <1>1, <1>3, <2>1 DEF AllInformed, Reachable
  <2>3. Called(b, c) => Called(b, c)'
    BY <2>1 DEF Called
  <2>4. CASE inbox' = inbox
    BY <2>1, <2>2, <2>3, <2>4, InformedSame
  <2>5. CASE Says(m) /\ m.from = a
    <3>1. ~ReplyAt(m, b, c)
      BY <2>5 DEF ReplyAt
    <3> QED
      BY <1>1, <2>1, <2>2, <2>3, <2>5, <3>1, InformedSays
  <2> QED
    BY <2>4, <2>5
<1>4. ASSUME NEW b \in App, NEW c \in Address, NEW look \in Looks, NextListed(b, c, look)
      PROVE  look.of \in {Nobody, b} /\ (Reachable(b)' => Informed(b, c, look)')
  <2>1. Listed(b, c, look)
    BY <1>4, UnreadListed
  <2>2. look.of \in {Nobody, b}
    BY <1>1, <2>1 DEF OwnLooks
  <2>3. CASE b = a
    BY <2>1, <2>2, <2>3
  <2>4. CASE b # a
    BY <1>3, <2>1, <2>2, <2>4
  <2> QED
    BY <2>3, <2>4
<1>5. OwnLooks' /\ AllInformed'
  BY <1>4, NextLooks
<1> QED
  BY <1>2, <1>5 DEF LooksInv

\* The tray reads a message of a.
LEMMA LooksReads ==
    ASSUME LooksInv, TrayTypes', Registry', NEW a \in App, NEW kind, Heard(a, kind),
           Only(a), Owed(a)',
           \A b \in App \ {a} : Outlasts(b),
           \A b \in App \ {a}, c \in Address, look \in Looks :
              NextListed(b, c, look) => Listed(b, c, look),
           \A c \in Address, look \in Looks :
              NextListed(a, c, look) =>
                 look.of \in {Nobody, a} /\ (Reachable(a)' => Informed(a, c, look)')
    PROVE  LooksInv'
<1>1. TrayTypes /\ OwnLooks /\ AllInformed /\ \A b \in App : Owed(b)
  BY DEF LooksInv
<1>2. Consumes /\ inbox[1].from = a
  BY DEF Heard
<1>3. \A b \in App \ {a} : Owed(b)'
  <2> SUFFICES ASSUME NEW b \in App \ {a}
               PROVE  Owed(b)'
    OBVIOUS
  <2>1. apps'[b] = apps[b] /\ Outlasts(b)
    BY DEF Only
  <2> QED
    BY <1>1, <1>2, <2>1, OwedOther
<1>4. ASSUME NEW b \in App \ {a}, NEW c \in Address, NEW look \in Looks,
             NextListed(b, c, look)
      PROVE  look.of \in {Nobody, b} /\ (Reachable(b)' => Informed(b, c, look)')
  <2>1. Listed(b, c, look)
    BY <1>4
  <2>2. look.of \in {Nobody, b}
    BY <1>1, <2>1 DEF OwnLooks
  <2>3. ASSUME Reachable(b)'
        PROVE  Informed(b, c, look)'
    <3>1. apps'[b] = apps[b] /\ NoVanish(b)
      BY <1>1, <1>2, <2>3, NoVanishBack DEF Only, Reachable
    <3>2. Informed(b, c, look)
      BY <1>1, <2>1, <2>3, <3>1 DEF AllInformed, Reachable
    <3>3. Called(b, c) => Called(b, c)'
      BY <3>1 DEF Called
    <3>4. ~ReplyAt(inbox[1], b, c) /\ inbox[1].from # b
      BY <1>2 DEF ReplyAt
    <3> QED
      BY <1>1, <1>2, <3>1, <3>2, <3>3, <3>4, InformedReads
  <2> QED
    BY <2>2, <2>3
<1>5. \A b \in App, c \in Address, look \in Looks :
          NextListed(b, c, look) =>
             look.of \in {Nobody, b} /\ (Reachable(b)' => Informed(b, c, look)')
  <2> SUFFICES ASSUME NEW b \in App, NEW c \in Address, NEW look \in Looks, NextListed(b, c, look)
               PROVE  look.of \in {Nobody, b} /\ (Reachable(b)' => Informed(b, c, look)')
    OBVIOUS
  <2>1. CASE b = a
    BY <2>1
  <2>2. CASE b # a
    BY <1>4, <2>2
  <2> QED
    BY <2>1, <2>2
<1>6. OwnLooks' /\ AllInformed'
  BY <1>5, NextLooks
<1> QED
  BY <1>3, <1>6 DEF LooksInv

\* Answers and calls of a that holds its name, with the same items.
LEMMA PendingCalls ==
    ASSUME NEW a \in App, Unread, apps'[a].name = TRUE,
           \A k \in 1 .. Len(apps'[a].calls) :
              apps'[a].calls[k] # Nobody => HasItem(a, apps'[a].calls[k])
    PROVE  Pending(a)'
<1>1. items' = items
  BY DEF Unread
<1> QED
  BY <1>1 DEF Pending, HasItem

\* Registering keeps the looks right.
LEMMA RegisterLooks ==
    ASSUME ~LateReleases, LooksInv, TrayTypes', Registry', NEW a \in App, Register(a)
    PROVE  LooksInv'
<1> DEFINE m == [kind |-> "register", from |-> a]
<1>1. TrayTypes /\ Owed(a) /\ Foretold(a) /\ AllInformed
  BY DEF LooksInv, Registry
<1>2. /\ Unread /\ Only(a) /\ Says(m) /\ apps'[a].name = TRUE
      /\ apps'[a].look = apps[a].look /\ apps'[a].calls = apps[a].calls
      /\ apps'[a].late = apps[a].late
  BY <1>1, RegisterEffect
<1>3. apps[a].name = TRUE \/ \A j \in 1 .. Len(inbox) : inbox[j].from # a
  BY <1>1, RegisterEffect
<1>4. Outlasts(a) /\ (NoVanish(a) \/ apps'[a].calls = <<>>)
  BY <1>1, <1>2, BusyStays, UnreadListed
<1>5. m.from = a /\ m.kind = "register"
  OBVIOUS
<1> HIDE DEF m
<1>6. Owed(a)'
  <2>1. Pending(a)'
    BY <1>1, <1>2, PendingCalls DEF Owed, Pending
  <2> QED
    BY <1>1, <1>2, <1>3, <1>4, <1>5, <2>1, OwedSpeaks
<1>7. ASSUME NEW c \in Address, NEW look \in Looks, Listed(a, c, look), Reachable(a)'
      PROVE  Informed(a, c, look)'
  <2>1. CASE apps[a].name = TRUE
    <3>1. Informed(a, c, look)
      BY <1>1, <1>2, <1>7, <2>1, NoVanishBack DEF AllInformed, Reachable
    <3>2. (Called(a, c) => Called(a, c)') /\ ~ReplyAt(m, a, c)
      BY <1>2, <1>5 DEF Called, ReplyAt
    <3> QED
      BY <1>1, <1>2, <3>1, <3>2, InformedSays
  <2>2. CASE apps[a].name # TRUE
    <3>1. \A j \in 1 .. Len(inbox) : ~Naming(inbox[j], a)
      BY <1>3, <2>2 DEF Naming
    <3>2. ~There(a)
      BY <1>1, <2>2, <3>1 DEF Foretold, Enrolled
    <3> QED
      BY <1>7, <3>2 DEF There, Listed
  <2> QED
    BY <2>1, <2>2
<1> QED
  BY <1>2, <1>5, <1>6, <1>7, LooksSays

\* So does a change of the look,
LEMMA ChangeLookLooks ==
    ASSUME LooksInv, TrayTypes', Registry', NEW a \in App, ChangeLook(a)
    PROVE  LooksInv'
<1> DEFINE m == [kind |-> "changed", from |-> a]
<1>1. TrayTypes /\ Owed(a) /\ AllInformed
  BY DEF LooksInv
<1>2. /\ Unread /\ Only(a) /\ Says(m) /\ apps[a].name = TRUE /\ apps'[a].name = TRUE
      /\ apps'[a].calls = apps[a].calls /\ apps'[a].late = apps[a].late
  BY <1>1, ChangeLookEffect
<1>3. Outlasts(a) /\ (NoVanish(a) \/ apps'[a].calls = <<>>)
  BY <1>1, <1>2, BusyStays, UnreadListed
<1>4. m.from = a /\ m.kind = "changed"
  OBVIOUS
<1> HIDE DEF m
<1>5. Owed(a)'
  <2>1. Pending(a)'
    BY <1>1, <1>2, PendingCalls DEF Owed, Pending
  <2> QED
    BY <1>1, <1>2, <1>3, <1>4, <2>1, OwedSpeaks
<1>6. ASSUME NEW c \in Address, NEW look \in Looks, Listed(a, c, look), Reachable(a)'
      PROVE  Informed(a, c, look)'
  <2>1. CASE a \notin WellKnown
    <3>1. Changed(a)'
      BY <1>1, <1>2, <1>4, SaysOrder DEF Changed
    <3> QED
      BY <2>1, <3>1 DEF Informed
  <2>2. CASE a \in WellKnown
    <3>1. Informed(a, c, look)
      BY <1>1, <1>2, <1>6, NoVanishBack DEF AllInformed, Reachable
    <3>2. (Called(a, c) => Called(a, c)') /\ ~ReplyAt(m, a, c)
      BY <1>2, <1>4 DEF Called, ReplyAt
    <3> QED
      BY <1>1, <1>2, <2>2, <3>1, <3>2, InformedSays
  <2> QED
    BY <2>1, <2>2
<1> QED
  BY <1>2, <1>4, <1>5, <1>6, LooksSays

\* the end of the application,
LEMMA QuitLooks ==
    ASSUME LooksInv, TrayTypes', Registry', NEW a \in App, Quit(a)
    PROVE  LooksInv'
<1> DEFINE m == [kind |-> "vanished", from |-> a]
<1>1. TrayTypes /\ Owed(a)
  BY DEF LooksInv
<1>2. /\ Unread /\ Only(a) /\ Says(m) /\ apps[a].name = TRUE
      /\ apps'[a].name = FALSE /\ apps'[a].calls = <<>>
  BY <1>1, QuitEffect
<1>3. Outlasts(a)
  BY <1>2, UnreadListed
<1>4. m.from = a /\ m.kind = "vanished"
  OBVIOUS
<1> HIDE DEF m
<1>5. Owed(a)'
  <2>1. Pending(a)'
    BY <1>2 DEF Pending
  <2> QED
    BY <1>1, <1>2, <1>3, <1>4, <2>1, OwedSpeaks
<1>6. ~Reachable(a)'
  BY <1>2 DEF Reachable
<1> QED
  BY <1>2, <1>4, <1>5, <1>6, LooksSays

\* a name given up by one that has nothing else to say,
LEMMA ReleaseLooks ==
    ASSUME ~LateReleases, LooksInv, TrayTypes', Registry', NEW a \in App, Release(a)
    PROVE  LooksInv'
<1> DEFINE m == [kind |-> "vanished", from |-> a]
<1>1. TrayTypes /\ Owed(a)
  BY DEF LooksInv
<1>2. /\ Unread /\ Only(a) /\ Says(m) /\ apps[a].name = TRUE
      /\ apps[a].calls = <<>> /\ apps'[a].calls = <<>>
      /\ \A j \in 1 .. Len(inbox) : inbox[j].from # a
  BY <1>1, ReleaseEffect
<1>3. Outlasts(a)
  BY <1>2, UnreadListed
<1>4. m.from = a /\ m.kind = "vanished"
  OBVIOUS
<1> HIDE DEF m
<1>5. Owed(a)'
  <2>1. Pending(a)'
    <3> DEFINE calls == apps'[a].calls
    <3>1. calls = <<>> /\ Len(calls) = 0
      BY <1>2
    <3> HIDE DEF calls
    <3>2. \A k \in 1 .. Len(calls) : FALSE
      BY <3>1
    <3> QED
      BY <3>1, <3>2 DEF Pending, calls
  <2> QED
    BY <1>1, <1>2, <1>3, <1>4, <2>1, OwedSpeaks
<1>6. ~Reachable(a)'
  BY <1>1, <1>2, <1>4, SaysOrder DEF Reachable, NoVanish
<1> QED
  BY <1>2, <1>4, <1>5, <1>6, LooksSays

\* an answer,
LEMMA AnswerLooks ==
    ASSUME LooksInv, TrayTypes', Registry', NEW a \in App, Answer(a)
    PROVE  LooksInv'
<1> DEFINE calls == apps[a].calls
           d == calls[1]
           m == [kind |-> "reply", from |-> a, at |-> d, look |-> apps[a].look]
<1>1. TrayTypes /\ Owed(a) /\ AllInformed
  BY DEF LooksInv
<1>2. /\ Unread /\ Only(a)
      /\ calls \in Seq(Address \cup {Nobody}) /\ calls # <<>>
      /\ apps'[a].name = apps[a].name /\ apps'[a].look = apps[a].look
      /\ apps'[a].calls = Tail(calls) /\ apps'[a].late = apps[a].late
      /\ \/ d = Nobody /\ inbox' = inbox
         \/ d \in Address /\ Says(m)
  BY <1>1, AnswerEffect
<1>3. apps[a].name = TRUE
  BY <1>1, <1>2 DEF Owed, Pending
<1>4. NoVanish(a) /\ Outlasts(a)
  BY <1>1, <1>2, BusyStays, UnreadListed
<1>5. m.from = a /\ m.kind = "reply" /\ m.at = d /\ m.look = apps[a].look
  OBVIOUS
<1>6. /\ Len(calls) \in Nat /\ Len(calls) >= 1 /\ Len(Tail(calls)) = Len(calls) - 1
      /\ \A k \in 1 .. Len(calls) - 1 : Tail(calls)[k] = calls[k + 1]
  <2> HIDE DEF calls
  <2> QED
    BY <1>2, TailEntries
<1>7. \A k \in 1 .. Len(calls) : calls[k] # Nobody => HasItem(a, calls[k])
  BY <1>1 DEF Owed, Pending
<1> HIDE DEF m
<1>8. Owed(a)'
  <2>1. Pending(a)'
    <3>1. \A k \in 1 .. Len(Tail(calls)) : Tail(calls)[k] # Nobody => HasItem(a, Tail(calls)[k])
      <4> HIDE DEF calls, d
      <4> QED
        BY <1>6, <1>7
    <3> QED
      BY <1>2, <1>3, <3>1, PendingCalls
  <2>2. CASE Says(m) /\ d \in Address
    <3>1. HasItem(a, d) /\ 1 \in 1 .. Len(calls)
      BY <1>6, <1>7, <2>2, TrayConstants
    <3>2. NextItem(a, m.at)
      BY <1>4, <1>5, <3>1 DEF Outlasts
    <3> QED
      BY <1>1, <1>2, <1>3, <1>4, <1>5, <2>1, <2>2, <3>2, OwedSpeaks
  <2>3. CASE inbox' = inbox
    <3>1. Leaving(a)'
      BY <1>2, <1>4, <2>3 DEF Leaving, NoVanish
    <3>2. Replying(a)'
      <4>1. items' = items
        BY <1>2 DEF Unread
      <4> QED
        BY <1>1, <2>3, <4>1 DEF Owed, Replying, HasItem
    <3> QED
      BY <2>1, <3>1, <3>2 DEF Owed
  <2> QED
    BY <1>2, <2>2, <2>3
<1>9. ASSUME NEW c \in Address, NEW look \in Looks, Listed(a, c, look), Reachable(a)'
      PROVE  Informed(a, c, look)'
  <2>1. Informed(a, c, look)
    BY <1>1, <1>2, <1>3, <1>4, <1>9 DEF AllInformed, Reachable
  <2>2. CASE Says(m) /\ d \in Address
    <3> HIDE DEF d, calls
    <3> QED
      BY <1>1, <1>2, <1>5, <2>1, <2>2, InformedAnswer DEF d, calls
  <2>3. CASE inbox' = inbox /\ d = Nobody
    <3>1. Called(a, c) => Called(a, c)'
      <4> SUFFICES ASSUME NEW k \in 1 .. Len(calls), calls[k] = c
                   PROVE  \E l \in 1 .. Len(Tail(calls)) : Tail(calls)[l] = c
        BY <1>2 DEF Called
      <4>1. k # 1
        BY <2>3, TrayConstants
      <4> HIDE DEF calls, d
      <4>2. k - 1 \in 1 .. Len(calls) - 1 /\ (k - 1) + 1 = k
        BY <1>6, <4>1
      <4> QED
        BY <1>6, <4>2
    <3> QED
      BY <1>2, <2>1, <2>3, <3>1, InformedSame
  <2> QED
    BY <1>2, <2>2, <2>3
<1>10. inbox' = inbox \/ (Says(m) /\ m.from = a)
  BY <1>2, <1>5
<1> QED
  BY <1>2, <1>8, <1>9, <1>10, LooksSays

\* a call given up,
LEMMA TimeOutLooks ==
    ASSUME LooksInv, TrayTypes', Registry', NEW a \in App, TimeOut(a)
    PROVE  LooksInv'
<1>1. TrayTypes /\ Owed(a)
  BY DEF LooksInv
<1>2. /\ Unread /\ Only(a) /\ inbox' = inbox
      /\ apps'[a].name = apps[a].name /\ apps'[a].late = TRUE
      /\ Len(apps[a].calls) \in Nat \ {0} /\ Len(apps'[a].calls) = Len(apps[a].calls)
      /\ \A j \in 1 .. Len(apps[a].calls) : apps'[a].calls[j] \in {apps[a].calls[j], Nobody}
  BY <1>1, TimeOutEffect
<1>3. apps[a].name = TRUE /\ apps[a].calls # <<>>
  <2>1. apps[a].calls # <<>>
    BY <1>2
  <2> QED
    BY <1>1, <2>1 DEF Owed, Pending
<1>4. Owed(a)'
  <2>1. Pending(a)'
    BY <1>1, <1>2, <1>3, PendingCalls DEF Owed, Pending
  <2>2. Leaving(a)'
    BY <1>1, <1>2, <1>3, BusyStays DEF Leaving, NoVanish
  <2>3. Replying(a)'
    <3>1. items' = items
      BY <1>2 DEF Unread
    <3> QED
      BY <1>1, <1>2, <3>1 DEF Owed, Replying, HasItem
  <2> QED
    BY <2>1, <2>2, <2>3 DEF Owed
<1>5. ~Reachable(a)'
  BY <1>2 DEF Reachable
<1> QED
  BY <1>2, <1>4, <1>5, LooksSays

\* A message is read that tells nothing of looks.
LEMMA InformedHeard ==
    ASSUME LooksInv, NEW a \in App, NEW kind, Heard(a, kind), kind # "reply",
           kind # "changed" \/ a \in WellKnown, kind # "vanished",
           apps' = apps, NEW c \in Address, NEW look \in Looks, Listed(a, c, look), Reachable(a)'
    PROVE  Informed(a, c, look)'
<1>1. TrayTypes /\ AllInformed /\ Consumes /\ inbox[1].from = a /\ inbox[1].kind = kind
  BY DEF LooksInv, Heard
<1>2. Reachable(a)
  BY <1>1, NoVanishBack DEF Reachable
<1>3. Informed(a, c, look) /\ (Called(a, c) => Called(a, c)') /\ ~ReplyAt(inbox[1], a, c)
  BY <1>1, <1>2 DEF AllInformed, Called, ReplyAt
<1> QED
  BY <1>1, <1>3, InformedReads

\* a new item,
LEMMA RegisterItemLooks ==
    ASSUME LooksInv, TrayTypes', Registry', RegisterItem
    PROVE  LooksInv'
<1>1. TrayTypes /\ OwnLooks /\ \A b \in App : Owed(b)
  BY DEF LooksInv
<1>2. PICK a \in App :
          /\ Heard(a, "register")
          /\ \/ Unread /\ apps' = apps
             \/ \E at \in Address :
                   /\ Adds(a, at)
                   /\ \/ apps[a].name = TRUE /\ Asks(a, at)
                      \/ apps[a].name = FALSE /\ apps' = apps
  BY <1>1, RegisterItemEffect
<1>3. Consumes /\ inbox[1].from = a /\ inbox[1].kind # "vanished"
  BY <1>2 DEF Heard
<1>4. CASE Unread /\ apps' = apps
  <2>1. /\ \A b : Outlasts(b)
        /\ \A b, c, look : NextListed(b, c, look) <=> Listed(b, c, look)
    BY <1>4, UnreadListed
  <2>2. Owed(a)'
    BY <1>1, <1>3, <1>4, <2>1, OwedOther
  <2>3. ASSUME NEW c \in Address, NEW look \in Looks, NextListed(a, c, look)
        PROVE  look.of \in {Nobody, a} /\ (Reachable(a)' => Informed(a, c, look)')
    <3>1. Listed(a, c, look)
      BY <2>1, <2>3
    <3> QED
      BY <1>1, <1>2, <1>4, <3>1, InformedHeard DEF OwnLooks
  <2>4. Only(a)
    BY <1>4 DEF Only
  <2> QED
    BY <1>2, <2>1, <2>2, <2>3, <2>4, LooksReads
<1>5. ASSUME NEW at \in Address, Adds(a, at),
             \/ apps[a].name = TRUE /\ Asks(a, at)
             \/ apps[a].name = FALSE /\ apps' = apps
      PROVE  LooksInv'
  <2>1. /\ Len(items) \in Nat /\ Len(items') = Len(items) + 1
        /\ \A i \in 1 .. Len(items) : items'[i] = items[i] /\ items[i].service # a
        /\ items'[Len(items) + 1] = [service |-> a, at |-> at, look |-> Unknown, x |-> 0]
    BY <1>1, <1>5, TrayFields DEF Adds
  <2>2. /\ \A i \in 1 .. Len(items) : i \in 1 .. Len(items')
        /\ \A i \in 1 .. Len(items') : i \in 1 .. Len(items) \/ i = Len(items) + 1
        /\ Len(items) + 1 \in 1 .. Len(items')
    BY <2>1
  <2>3. \A b : Outlasts(b)
    BY <2>1, <2>2 DEF Outlasts, HasItem, NextItem
  <2>4. NextItem(a, at)
    BY <2>1, <2>2 DEF NextItem
  <2>5. \A b \in App \ {a} : \A c, look : NextListed(b, c, look) => Listed(b, c, look)
    BY <2>1, <2>2 DEF NextListed, Listed
  <2>6. \A c, look : NextListed(a, c, look) => c = at /\ look = Unknown
    BY <2>1, <2>2 DEF NextListed
  <2>7. Owed(a)'
    <3>1. CASE apps[a].name = TRUE /\ Asks(a, at)
      BY <1>1, <1>3, <2>3, <2>4, <3>1, OwedAsks
    <3>2. CASE apps' = apps
      BY <1>1, <1>3, <2>3, <3>2, OwedOther
    <3> QED
      BY <1>5, <3>1, <3>2
  <2>8. ASSUME NEW c \in Address, NEW look \in Looks, NextListed(a, c, look)
        PROVE  look.of \in {Nobody, a} /\ (Reachable(a)' => Informed(a, c, look)')
    <3>1. c = at /\ look = Unknown /\ look.of = Nobody
      BY <2>6, <2>8 DEF Unknown
    <3>2. CASE apps[a].name = TRUE /\ Asks(a, at)
      BY <1>1, <3>1, <3>2, AsksCalled DEF Informed
    <3>3. CASE apps[a].name = FALSE /\ apps' = apps
      <4>1. ~Reachable(a)'
        BY <3>3 DEF Reachable
      <4> QED
        BY <3>1, <4>1
    <3> QED
      BY <1>5, <3>2, <3>3
  <2>9. Only(a)
    BY <1>5 DEF Only, Asks
  <2> QED
    BY <1>2, <2>3, <2>5, <2>7, <2>8, <2>9, LooksReads
<1> QED
  BY <1>2, <1>4, <1>5

\* a new question,
LEMMA PropertiesChangedLooks ==
    ASSUME LooksInv, TrayTypes', Registry', PropertiesChanged
    PROVE  LooksInv'
<1>1. TrayTypes /\ OwnLooks /\ OneEach /\ \A b \in App : Owed(b)
  BY DEF LooksInv, Registry
<1>2. PICK a \in App :
          /\ Heard(a, "changed")
          /\ \/ /\ apps' = apps
                /\ \/ apps[a].name = FALSE \/ a \in WellKnown
                   \/ \A i \in 1 .. Len(items) : items[i].service # a
             \/ /\ apps[a].name = TRUE
                /\ \E i \in 1 .. Len(items) : items[i].service = a /\ Asks(a, items[i].at)
  BY <1>1, PropertiesChangedEffect
<1>3. Consumes /\ inbox[1].from = a /\ inbox[1].kind # "vanished" /\ Unread
  BY <1>1, <1>2, PropertiesChangedEffect DEF Heard
<1>4. /\ \A b : Outlasts(b)
      /\ \A b, c, look : NextListed(b, c, look) <=> Listed(b, c, look)
  BY <1>3, UnreadListed
<1>5. CASE /\ apps' = apps
           /\ \/ apps[a].name = FALSE \/ a \in WellKnown
              \/ \A i \in 1 .. Len(items) : items[i].service # a
  <2>1. Owed(a)'
    BY <1>1, <1>3, <1>4, <1>5, OwedOther
  <2>2. ASSUME NEW c \in Address, NEW look \in Looks, NextListed(a, c, look)
        PROVE  look.of \in {Nobody, a} /\ (Reachable(a)' => Informed(a, c, look)')
    <3>1. Listed(a, c, look)
      BY <1>4, <2>2
    <3>2. look.of \in {Nobody, a}
      BY <1>1, <3>1 DEF OwnLooks
    <3>3. CASE apps[a].name = FALSE
      <4>1. ~Reachable(a)'
        BY <1>5, <3>3 DEF Reachable
      <4> QED
        BY <3>2, <4>1
    <3>4. CASE a \in WellKnown
      BY <1>2, <1>5, <3>1, <3>2, <3>4, InformedHeard
    <3>5. CASE \A i \in 1 .. Len(items) : items[i].service # a
      BY <3>1, <3>5 DEF Listed
    <3> QED
      BY <1>5, <3>3, <3>4, <3>5
  <2>3. Only(a)
    BY <1>5 DEF Only
  <2> QED
    BY <1>2, <1>4, <2>1, <2>2, <2>3, LooksReads
<1>6. ASSUME NEW i \in 1 .. Len(items), items[i].service = a, apps[a].name = TRUE,
             NEW at, at = items[i].at, Asks(a, at)
      PROVE  LooksInv'
  <2>1. at \in Address /\ HasItem(a, at)
    BY <1>1, <1>6, TrayFields DEF HasItem
  <2>2. Owed(a)'
    BY <1>1, <1>3, <1>4, <1>6, <2>1, OwedAsks DEF Outlasts
  <2>3. ASSUME NEW c \in Address, NEW look \in Looks, NextListed(a, c, look)
        PROVE  look.of \in {Nobody, a} /\ (Reachable(a)' => Informed(a, c, look)')
    <3>1. Listed(a, c, look)
      BY <1>4, <2>3
    <3>2. c = at
      BY <1>1, <1>6, <3>1 DEF Listed, OneEach
    <3> QED
      BY <1>1, <1>6, <2>1, <3>1, <3>2, AsksCalled DEF OwnLooks, Informed
  <2>4. Only(a)
    BY <1>6 DEF Asks
  <2> QED
    BY <1>2, <1>4, <2>2, <2>3, <2>4, LooksReads
<1> QED
  BY <1>2, <1>5, <1>6

\* an item that goes,
LEMMA NameVanishedLooks ==
    ASSUME LooksInv, TrayTypes', Registry', NameVanished
    PROVE  LooksInv'
<1>1. TrayTypes /\ OneEach /\ \A b \in App : Owed(b)
  BY DEF LooksInv, Registry
<1>2. PICK a \in App :
          /\ Heard(a, "vanished")
          /\ \/ Unread /\ \A i \in 1 .. Len(items) : items[i].service # a
             \/ \E k \in 1 .. Len(items) : items[k].service = a /\ Drops(k)
  BY <1>1, NameVanishedEffect
<1>3. apps' = apps /\ Only(a)
  BY <1>1, NameVanishedEffect DEF Only
<1>4. Owed(a)'
  BY <1>1, <1>2, <1>3, OwedGone
<1> DEFINE Others == /\ \A b \in App \ {a} : Outlasts(b)
                     /\ \A b \in App : \A c, look :
                           NextListed(b, c, look) => b # a /\ Listed(b, c, look)
<1>5. Others
  <2>1. CASE Unread /\ \A i \in 1 .. Len(items) : items[i].service # a
    BY <2>1, UnreadListed DEF Listed
  <2>2. ASSUME NEW k \in 1 .. Len(items), items[k].service = a, Drops(k)
        PROVE  Others
    <3>1. /\ \A i \in 1 .. Len(items') :
                \E j \in 1 .. Len(items) \ {k} : items'[i] = items[j]
          /\ \A j \in 1 .. Len(items) \ {k} : \E i \in 1 .. Len(items') : items'[i] = items[j]
          /\ \A j \in 1 .. Len(items) \ {k} : items[j].service # a
      BY <1>1, <2>2, DropsItems DEF OneEach
    <3>2. ASSUME NEW b \in App \ {a}, NEW c, HasItem(b, c)
          PROVE  NextItem(b, c)
      <4>1. PICK j \in 1 .. Len(items) : items[j].service = b /\ items[j].at = c
        BY <3>2 DEF HasItem
      <4>2. PICK i \in 1 .. Len(items') : items'[i] = items[j]
        BY <2>2, <3>1, <4>1
      <4> QED
        BY <4>1, <4>2 DEF NextItem
    <3>3. ASSUME NEW b \in App, NEW c, NEW look, NextListed(b, c, look)
          PROVE  b # a /\ Listed(b, c, look)
      <4>1. PICK i \in 1 .. Len(items') :
                items'[i].service = b /\ items'[i].at = c /\ items'[i].look = look
        BY <3>3 DEF NextListed
      <4>2. PICK j \in 1 .. Len(items) \ {k} : items'[i] = items[j]
        BY <3>1
      <4> QED
        BY <3>1, <4>1, <4>2 DEF Listed
    <3> QED
      BY <3>2, <3>3 DEF Outlasts
  <2> QED
    BY <1>2, <2>1, <2>2
<1> QED
  BY <1>2, <1>3, <1>4, <1>5, LooksReads

\* and an answer that arrives.
LEMMA PropsReplyLooks ==
    ASSUME LooksInv, TrayTypes', Registry', PropsReply
    PROVE  LooksInv'
<1>1. TrayTypes /\ OwnLooks /\ AllInformed /\ \A b \in App : Owed(b)
  BY DEF LooksInv
<1>2. /\ Stays /\ apps' = apps
      /\ inbox[1].at \in Address /\ inbox[1].look \in Look
  BY <1>1, PropsReplyEffect
<1>3. PICK a \in App :
          /\ Heard(a, "reply")
          /\ \A i \in 1 .. Len(items) :
                items'[i].look = IF items[i].at = inbox[1].at
                                 THEN [of |-> a, look |-> inbox[1].look] ELSE items[i].look
  BY <1>1, PropsReplyEffect
<1>4. Consumes /\ inbox[1].from = a /\ inbox[1].kind = "reply" /\ Only(a)
  BY <1>2, <1>3 DEF Heard, Only
<1>5. PICK k \in 1 .. Len(items) : items[k].service = a /\ items[k].at = inbox[1].at
  BY <1>1, <1>4, ConsumesOrder DEF Owed, Replying, HasItem
<1>6. \A i \in 1 .. Len(items) : items[i].at = inbox[1].at => i = k
  BY <1>1, <1>5 DEF TrayTypes
<1>7. /\ Len(items') = Len(items)
      /\ \A i \in 1 .. Len(items) :
            items'[i].service = items[i].service /\ items'[i].at = items[i].at
  BY <1>2 DEF Stays
<1>8. \A b : Outlasts(b)
  BY <1>7 DEF Outlasts, HasItem, NextItem
<1>9. Owed(a)'
  BY <1>1, <1>2, <1>4, <1>8, OwedOther
<1>10. \A b \in App \ {a}, c \in Address, look \in Looks :
          NextListed(b, c, look) => Listed(b, c, look)
  <2> SUFFICES ASSUME NEW b \in App \ {a}, NEW c \in Address, NEW look \in Looks,
                      NEW i \in 1 .. Len(items'),
                      items'[i].service = b, items'[i].at = c, items'[i].look = look
               PROVE  Listed(b, c, look)
    BY DEF NextListed
  <2>1. i \in 1 .. Len(items) /\ items[i].service = b /\ items[i].at = c
    BY <1>7
  <2>2. items[i].at # inbox[1].at
    BY <1>5, <1>6, <2>1
  <2>3. items[i].look = look
    BY <1>3, <2>1, <2>2
  <2> QED
    BY <2>1, <2>3 DEF Listed
<1>11. ASSUME NEW c \in Address, NEW new \in Looks, NextListed(a, c, new)
       PROVE  new.of \in {Nobody, a} /\ (Reachable(a)' => Informed(a, c, new)')
  <2>1. PICK i \in 1 .. Len(items') :
            items'[i].service = a /\ items'[i].at = c /\ items'[i].look = new
    BY <1>11 DEF NextListed
  <2>2. i \in 1 .. Len(items) /\ items[i].service = a /\ items[i].at = c
    BY <1>7, <2>1
  <2>3. PICK look \in Looks : look = items[i].look
    BY <1>1, <2>2, TrayFields
  <2>4. Listed(a, c, look)
    BY <2>2, <2>3 DEF Listed
  <2>5. Reachable(a)' => Informed(a, c, look)
    <3>1. Reachable(a)' => Reachable(a)
      BY <1>1, <1>2, <1>4, NoVanishBack DEF Reachable
    <3> QED
      BY <1>1, <2>4, <3>1 DEF AllInformed
  <2>6. CASE c = inbox[1].at
    <3>1. new = [of |-> a, look |-> inbox[1].look]
      BY <1>3, <2>1, <2>2, <2>6
    <3>2. ReplyAt(inbox[1], a, c)
      BY <1>4, <2>6 DEF ReplyAt
    <3>3. new.of = a
      BY <3>1
    <3> QED
      BY <1>1, <1>2, <1>4, <2>5, <3>1, <3>2, <3>3, InformedReply
  <2>7. CASE c # inbox[1].at
    <3>1. new = look
      BY <1>3, <2>1, <2>2, <2>3, <2>7
    <3>2. look.of \in {Nobody, a}
      BY <1>1, <2>4 DEF OwnLooks
    <3>3. ~ReplyAt(inbox[1], a, c) /\ (Called(a, c) => Called(a, c)')
      BY <1>2, <2>7 DEF ReplyAt, Called
    <3>4. Reachable(a)' => Informed(a, c, look)'
      BY <1>1, <1>2, <1>4, <2>5, <3>3, InformedReads
    <3> QED
      BY <3>1, <3>2, <3>4
  <2> QED
    BY <2>6, <2>7
<1> QED
  BY <1>3, <1>4, <1>8, <1>9, <1>10, <1>11, LooksReads

\* Nothing happens, or the items are drawn.
LEMMA IdleLooks ==
    ASSUME LooksInv, TrayTypes', Registry', UNCHANGED <<apps, inbox>>, Stays,
           \A i \in 1 .. Len(items) : items'[i].look = items[i].look
    PROVE  LooksInv'
<1>1. TrayTypes /\ OwnLooks /\ AllInformed /\ \A b \in App : Owed(b)
  BY DEF LooksInv
<1>2. /\ Len(items') = Len(items)
      /\ \A i \in 1 .. Len(items) :
            /\ items'[i].service = items[i].service /\ items'[i].at = items[i].at
            /\ items'[i].look = items[i].look
  BY DEF Stays
<1>3. /\ \A b : Outlasts(b)
      /\ \A b, c, look : NextListed(b, c, look) => Listed(b, c, look)
  BY <1>2 DEF Outlasts, HasItem, NextItem, Listed, NextListed
<1>4. \A b \in App : Owed(b)'
  BY <1>1, <1>3, OwedOther
<1>5. ASSUME NEW b \in App, NEW c \in Address, NEW look \in Looks, NextListed(b, c, look)
      PROVE  look.of \in {Nobody, b} /\ (Reachable(b)' => Informed(b, c, look)')
  <2>1. Listed(b, c, look) /\ look.of \in {Nobody, b}
    BY <1>1, <1>3, <1>5 DEF OwnLooks
  <2>2. ASSUME Reachable(b)'
        PROVE  Informed(b, c, look)'
    <3>1. Informed(b, c, look) /\ (Called(b, c) => Called(b, c)')
      BY <1>1, <2>1, <2>2 DEF AllInformed, Reachable, NoVanish, Called
    <3> QED
      BY <3>1, InformedSame
  <2> QED
    BY <2>1, <2>2
<1> QED
  BY <1>4, <1>5, NextLooks DEF LooksInv

\* Every step of the tray does.
LEMMA LooksStep ==
    ASSUME ~LateReleases, LooksInv, [TrayNext]_trayVars
    PROVE  LooksInv'
<1>1. TrayTypes' /\ Registry' /\ TrayTypes
  BY RegistryStep DEF LooksInv
<1>2. ASSUME NEW a \in App,
             Register(a) \/ ChangeLook(a) \/ Answer(a) \/ Quit(a) \/ Release(a) \/ TimeOut(a)
      PROVE  LooksInv'
  BY <1>1, <1>2, RegisterLooks, ChangeLookLooks, AnswerLooks, QuitLooks, ReleaseLooks,
     TimeOutLooks
<1>3. CASE RegisterItem \/ PropertiesChanged \/ NameVanished \/ PropsReply
  BY <1>1, <1>3, RegisterItemLooks, PropertiesChangedLooks, NameVanishedLooks, PropsReplyLooks
<1>4. ASSUME NEW b \in TrayBar, DrawTray(b)
      PROVE  LooksInv'
  BY <1>1, <1>4, DrawTrayEffect, IdleLooks
<1>5. CASE UNCHANGED trayVars
  BY <1>1, <1>5, IdleLooks DEF trayVars, Stays
<1> QED
  BY <1>2, <1>3, <1>4, <1>5 DEF TrayNext

\* The looks are right, always.
LEMMA LooksInvariant ==
    ASSUME ~LateReleases
    PROVE  TraySpec => []LooksInv
<1>1. TrayInit => LooksInv
  <2> SUFFICES ASSUME TrayInit
               PROVE  LooksInv
    OBVIOUS
  <2>1. Len(items) = 0 /\ Len(inbox) = 0
    BY DEF TrayInit
  <2>2. \A a \in App :
            apps[a].name = FALSE /\ apps[a].calls = <<>> /\ Len(apps[a].calls) = 0
    BY DEF TrayInit
  <2>3. TrayTypes /\ Registry
    BY <2>1, <2>2, TrayInitTypes DEF Registry, OneEach, Foretold, There, Enrolled
  <2>4. ASSUME NEW a \in App
        PROVE  Owed(a)
    <3>1. Pending(a)
      <4> DEFINE calls == apps[a].calls
      <4>1. calls = <<>> /\ Len(calls) = 0
        BY <2>2
      <4> HIDE DEF calls
      <4>2. \A k \in 1 .. Len(calls) : FALSE
        BY <4>1
      <4> QED
        BY <4>1, <4>2 DEF Pending, calls
    <3>2. Leaving(a) /\ Replying(a)
      BY <2>1 DEF Leaving, Replying
    <3> QED
      BY <3>1, <3>2 DEF Owed
  <2> QED
    BY <2>1, <2>3, <2>4 DEF LooksInv, OwnLooks, AllInformed, Listed
<1>2. LooksInv /\ [TrayNext]_trayVars => LooksInv'
  BY LooksStep
<1> QED
  BY <1>1, <1>2, PTL DEF TraySpec

\* No item ever shows the look of another application, however items come and go, those
\* of applications that live on and gave a name up included, if they do that only when
\* they have nothing to say or to answer, and if a name that was given up is only taken
\* again when the tray has read what its last owner sent: an answer finds the item it
\* was asked for, or none, by its address (on_props_reply).
THEOREM RepliesFindTheirItem ==
    ASSUME ~LateReleases
    PROVE  TraySpec => []OwnLook
<1>1. LooksInv => OwnLook
  <2> SUFFICES ASSUME LooksInv, NEW i \in DOMAIN items
               PROVE  items[i].look.of \in {Nobody, items[i].service}
    BY DEF OwnLook
  <2>1. TrayTypes
    BY DEF LooksInv
  <2>2. /\ i \in 1 .. Len(items) /\ items[i].service \in App /\ items[i].at \in Address
        /\ items[i].look \in Looks
    BY <2>1, TrayFields
  <2>3. Listed(items[i].service, items[i].at, items[i].look)
    BY <2>2 DEF Listed
  <2> QED
    BY <2>2, <2>3 DEF LooksInv, OwnLooks
<1> QED
  BY <1>1, LooksInvariant, PTL

\* An item that shows an old look will be told the new one (request_item_properties by
\* PropertiesChanged), under the same assumption.
THEOREM OldLooksAreRenewed ==
    ASSUME ~LateReleases
    PROVE  TraySpec => []Current
<1>1. LooksInv => Current
  <2> SUFFICES ASSUME LooksInv, NEW i \in DOMAIN items, NEW a, a = items[i].service,
                      apps[a].name, ~apps[a].late, Coming(a, "vanished") = {},
                      a \in WellKnown => items[i].look = Unknown,
                      items[i].look # [of |-> a, look |-> apps[a].look]
               PROVE  \/ items[i].at \in Range(apps[a].calls)
                      \/ \E j \in Coming(a, "reply") : inbox[j].at = items[i].at
                      \/ Coming(a, "changed") # {}
    BY DEF Current
  <2>1. TrayTypes
    BY DEF LooksInv
  <2>2. /\ i \in 1 .. Len(items) /\ items[i].service \in App /\ items[i].at \in Address
        /\ items[i].look \in Looks /\ DOMAIN inbox = 1 .. Len(inbox)
        /\ apps[a].calls \in Seq(Address \cup {Nobody})
        /\ apps[a].name = TRUE /\ apps[a].late = FALSE
    BY <2>1, TrayFields
  <2> DEFINE c == items[i].at
             look == items[i].look
  <2>3. Listed(a, c, look)
    BY <2>2 DEF Listed
  <2>4. Reachable(a)
    BY <2>2 DEF Reachable, NoVanish, Coming
  <2>5. Informed(a, c, look)
    BY <2>2, <2>3, <2>4 DEF LooksInv, AllInformed
  <2>6. Called(a, c) => c \in Range(apps[a].calls)
    <3>1. DOMAIN apps[a].calls = 1 .. Len(apps[a].calls)
      BY <2>2, LenProperties
    <3> QED
      BY <3>1 DEF Called, Range
  <2>7. LastReply(a, c) => \E j \in Coming(a, "reply") : inbox[j].at = c
    BY <2>2 DEF LastReply, ReplyAt, Coming
  <2>8. Changed(a) => Coming(a, "changed") # {}
    BY <2>2 DEF Changed, Coming
  <2> QED
    BY <2>5, <2>6, <2>7, <2>8 DEF Informed
<1> QED
  BY <1>1, LooksInvariant, PTL

----------------------------------------------------------------------------
(* All that is on the screen *)

\* A behaviour of the instances is one of each of the components.
LEMMA EachComponent ==
    Spec => AnimationSpec /\ BarSpec /\ TraySpec /\ ExtSpec
<1>1. Init => AnimationInit /\ BarInit /\ TrayInit /\ ExtInit
  BY DEF Init
<1> DEFINE allVars == <<part, desk, animationVars, barVars, trayVars, extVars>>
<1>2. [Next]_allVars => [AnimationNext]_animationVars
  BY DEF Next
<1>3. [Next]_allVars => [BarNext]_barVars
  BY DEF Next
<1>4. [Next]_allVars => [TrayNext]_trayVars
  BY DEF Next
<1>5. [Next]_allVars => [ExtNext]_extVars
  BY DEF Next
<1> QED
  BY <1>1, <1>2, <1>3, <1>4, <1>5, PTL DEF Spec, AnimationSpec, BarSpec, TraySpec, ExtSpec

\* No step of the animations, the bars, the tray or the workspace protocol stores a
\* value of the wrong type, if no window maps twice.
THEOREM ScreenTypesCorrect ==
    ASSUME Remaps = FALSE
    PROVE  Spec => []TypesOK
<1>1. AnimationTypeOK /\ BarTypeOK /\ TrayTypeOK /\ ExtTypeOK => TypesOK
  BY DEF TypesOK
<1>2. AnimationSpec => []AnimationTypeOK
  BY AnimationTypeCorrect
<1> QED
  BY <1>1, <1>2, EachComponent, BarTypeCorrect, TrayTypeCorrect, ExtTypeCorrect, PTL
=============================================================================
