---------------------------- MODULE DiagramProofs ---------------------------
(***************************************************************************)
(* Theorems about what the vendored diagram tool draws: the layout of a    *)
(* sequence, the frames and the legend of an architecture, and the         *)
(* comparison of two architectures, for every diagram it may be given.     *)
(* Each part is proved by itself; the last part carries the results to the *)
(* behaviours of Archify.                                                  *)
(***************************************************************************)
EXTENDS ArchifyProofs

-----------------------------------------------------------------------------
(* The layout of a sequence diagram.                                       *)

(* What a sequence that may be given is.                                   *)
Given(q) ==
  /\ q.participants \in Nat \ {0} /\ q.view \in Nat \X Nat
  /\ q.messages \in Seq(Lifelines!Message(q.participants)) /\ q.segments \in Seq(Lifelines!Segment)

(* The instance counts as the library does.                                *)
LEMMA LifelinesCount == \A S : Lifelines!Cardinality(S) = Cardinality(S)
  BY DEF Lifelines!Cardinality, Cardinality

(* Numbers from 1 to n, all different, are all the numbers from 1 to n.    *)
LEMMA RanksAreAll ==
  ASSUME NEW n \in Nat, NEW r \in [1 .. n -> 1 .. n],
         \A i, j \in 1 .. n : i # j => r[i] # r[j]
  PROVE  \A k \in 1 .. n : \E i \in 1 .. n : r[i] = k
<1>1. IsFiniteSet(1 .. n)
  BY FS_Interval
<1>2. r \in Injection(1 .. n, 1 .. n)
  BY DEF Injection, IsInjective
<1>3. r \in Surjection(1 .. n, 1 .. n)
  BY <1>1, <1>2, FS_Injection
<1> QED BY <1>3 DEF Surjection

(* The messages by number, of whole coordinates.                           *)
LEMMA MessagesAre ==
  ASSUME NEW q, Given(q)
  PROVE  /\ Len(q.messages) \in Nat /\ DOMAIN q.messages = 1 .. Len(q.messages)
         /\ \A i \in DOMAIN q.messages : q.messages[i] \in Lifelines!Message(q.participants)
         /\ \A m \in Lifelines!Range(q.messages) : m \in Lifelines!Message(q.participants)
<1>1. Len(q.messages) \in Nat /\ DOMAIN q.messages = 1 .. Len(q.messages)
      /\ \A i \in DOMAIN q.messages : q.messages[i] \in Lifelines!Message(q.participants)
  BY LenProperties, ElementOfSeq DEF Given
<1> QED BY <1>1 DEF Lifelines!Range

(* The places of the messages are the numbers, and in their order the      *)
(* messages do not go up.                                                  *)
LEMMA EarlierIs ==
  ASSUME NEW q, Given(q), NEW i \in DOMAIN q.messages
  PROVE  Cardinality(Lifelines!Earlier(q, i)) \in 1 .. Len(q.messages)
         /\ IsFiniteSet(Lifelines!Earlier(q, i))
<1> DEFINE n == Len(q.messages)
           E == Lifelines!Earlier(q, i)
<1>1. n \in Nat /\ DOMAIN q.messages = 1 .. n
  BY MessagesAre
<1>2. IsFiniteSet(1 .. n) /\ Cardinality(1 .. n) = n
  BY <1>1, FS_Interval
<1>3. E \subseteq 1 .. n /\ i \in E
  BY <1>1 DEF Lifelines!Earlier
<1>4. IsFiniteSet(E) /\ Cardinality(E) <= n
  BY <1>2, <1>3, FS_Subset
<1>5. Cardinality(E) \in Nat /\ Cardinality(E) # 0
  BY <1>3, <1>4, FS_CardinalityType, FS_EmptySet
<1> QED BY <1>1, <1>4, <1>5

(* What is not earlier than a message has more before it.                  *)
LEMMA EarlierMeansFewer ==
  ASSUME NEW q, Given(q), NEW i \in DOMAIN q.messages, NEW j \in DOMAIN q.messages,
         j \notin Lifelines!Earlier(q, i)
  PROVE  Cardinality(Lifelines!Earlier(q, i)) < Cardinality(Lifelines!Earlier(q, j))
<1> DEFINE A == Lifelines!Earlier(q, i)
           B == Lifelines!Earlier(q, j)
<1>1. DOMAIN q.messages \subseteq Nat /\ \A k \in DOMAIN q.messages : q.messages[k].y \in Int
  <2>1. \A k \in DOMAIN q.messages : q.messages[k].y \in Int
    BY MessagesAre DEF Lifelines!Message
  <2> QED BY <2>1, MessagesAre
<1>2. A \subseteq B /\ j \in B
  BY <1>1 DEF Lifelines!Earlier
<1>3. IsFiniteSet(A) /\ IsFiniteSet(B) /\ Cardinality(A) \in Nat /\ Cardinality(B) \in Nat
  BY EarlierIs
<1>4. Cardinality(A) <= Cardinality(B) /\ (Cardinality(A) = Cardinality(B) => A = B)
  BY <1>2, <1>3, FS_Subset
<1> QED BY <1>2, <1>3, <1>4

(* A message is placed where so many are not later.                        *)
LEMMA PlacedIs ==
  ASSUME NEW q, Given(q)
  PROVE  /\ DOMAIN Lifelines!Placed(q) = 1 .. Len(q.messages)
         /\ \A i \in DOMAIN q.messages :
              Lifelines!Placed(q)[Cardinality(Lifelines!Earlier(q, i))] = q.messages[i]
         /\ \A k \in 1 .. Len(q.messages) : \E i \in DOMAIN q.messages : k = Cardinality(Lifelines!Earlier(q, i))
         /\ \A k, l \in 1 .. Len(q.messages) : k <= l => Lifelines!Placed(q)[k].y <= Lifelines!Placed(q)[l].y
<1> DEFINE n == Len(q.messages)
           c(i) == Cardinality(Lifelines!Earlier(q, i))
           r == [i \in 1 .. n |-> c(i)]
           P == Lifelines!Placed(q)
<1>1. n \in Nat /\ DOMAIN q.messages = 1 .. n /\ \A i \in 1 .. n : q.messages[i].y \in Int
  BY MessagesAre DEF Lifelines!Message
<1>2. \A i \in 1 .. n : c(i) \in 1 .. n
  BY <1>1, EarlierIs
<1>3. \A i, j \in 1 .. n : j \notin Lifelines!Earlier(q, i) => c(i) < c(j)
  BY <1>1, EarlierMeansFewer
<1>4. \A i, j \in 1 .. n : j \notin Lifelines!Earlier(q, i) \/ i \notin Lifelines!Earlier(q, j) \/ i = j
  BY <1>1 DEF Lifelines!Earlier
<1>5. \A i, j \in 1 .. n : i # j => c(i) # c(j)
  BY <1>2, <1>3, <1>4
<1>6. r \in [1 .. n -> 1 .. n] /\ \A i, j \in 1 .. n : i # j => r[i] # r[j]
  BY <1>2, <1>5
<1>7. \A k \in 1 .. n : \E i \in 1 .. n : r[i] = k
  <2> HIDE DEF r
  <2> QED BY <1>1, <1>6, RanksAreAll
<1>8. \A k \in 1 .. n : \E i \in 1 .. n : k = c(i)
  BY <1>7
<1>9. DOMAIN P = 1 .. n
  BY <1>1 DEF Lifelines!Placed
<1>10. ASSUME NEW i \in 1 .. n PROVE P[c(i)] = q.messages[i]
  <2> DEFINE placeAt(k) == CHOOSE h \in DOMAIN q.messages : Lifelines!Cardinality(Lifelines!Earlier(q, h)) = k
  <2>1. P = [k \in DOMAIN q.messages |-> q.messages[placeAt(k)]]
    BY DEF Lifelines!Placed
  <2>2. placeAt(c(i)) \in 1 .. n /\ c(placeAt(c(i))) = c(i)
    BY <1>1, LifelinesCount
  <2> HIDE DEF placeAt
  <2>3. placeAt(c(i)) = i
    BY <2>2, <1>5
  <2> QED BY <2>1, <2>3, <1>1, <1>2
<1>11. ASSUME NEW k \in 1 .. n, NEW l \in 1 .. n, k <= l PROVE P[k].y <= P[l].y
  <2>1. PICK i \in 1 .. n : k = c(i)
    BY <1>8
  <2>2. PICK j \in 1 .. n : l = c(j)
    BY <1>8
  <2>3. P[k] = q.messages[i] /\ P[l] = q.messages[j]
    BY <2>1, <2>2, <1>10
  <2>4. i \in Lifelines!Earlier(q, j)
    <3> SUFFICES ASSUME i \notin Lifelines!Earlier(q, j) PROVE FALSE
      OBVIOUS
    <3>1. c(j) < c(i)
      BY <1>3
    <3> HIDE DEF c
    <3> QED BY <3>1, <2>1, <2>2, <1>2, <1>11
  <2> QED BY <1>1, <2>3, <2>4 DEF Lifelines!Earlier
<1> QED BY <1>1, <1>8, <1>9, <1>10, <1>11

(* Messages that are not crowded are far apart where they share columns.   *)
LEMMA FarApart ==
  ASSUME NEW q, Given(q), ~Lifelines!Crowded(q), NEW i \in DOMAIN q.messages, NEW j \in DOMAIN q.messages, i # j,
         Lifelines!SharesColumns(q, q.messages[i], q.messages[j])
  PROVE  Lifelines!Abs(q.messages[i].y - q.messages[j].y) >= 28
<1> DEFINE n == Len(q.messages)
           P == Lifelines!Placed(q)
           k == Cardinality(Lifelines!Earlier(q, i))
           l == Cardinality(Lifelines!Earlier(q, j))
<1>1. n \in Nat /\ DOMAIN q.messages = 1 .. n /\ \A h \in 1 .. n : q.messages[h].y \in Int
  BY MessagesAre DEF Lifelines!Message
<1>2. k \in 1 .. n /\ l \in 1 .. n
  BY EarlierIs
<1>3. k # l
  <2>1. j \notin Lifelines!Earlier(q, i) \/ i \notin Lifelines!Earlier(q, j)
    BY <1>1 DEF Lifelines!Earlier
  <2>2. k < l \/ l < k
    BY <2>1, EarlierMeansFewer
  <2> QED BY <2>2, <1>2
<1>4. P[k] = q.messages[i] /\ P[l] = q.messages[j] /\ DOMAIN P = 1 .. n
  BY PlacedIs
<1>5. Lifelines!SharesColumns(q, P[k], P[l]) /\ Lifelines!SharesColumns(q, P[l], P[k])
  BY <1>4 DEF Lifelines!SharesColumns
<1>6. \A h \in 1 .. n : P[h].y \in Int
  <2> TAKE h \in 1 .. n
  <2>1. PICK g \in DOMAIN q.messages : h = Cardinality(Lifelines!Earlier(q, g))
    BY PlacedIs
  <2> QED BY <2>1, <1>1, PlacedIs
<1>7. ASSUME NEW a \in 1 .. n, NEW b \in 1 .. n, a < b, Lifelines!SharesColumns(q, P[a], P[b])
      PROVE  P[b].y - P[a].y >= 28
  <2>1. \A h \in (a + 1) .. b : h \in 1 .. n /\ P[h].y <= P[b].y
    BY <1>7, <1>1, PlacedIs
  <2>2. ~\A h \in (a + 1) .. b : P[h].y - P[a].y < 28
    BY <1>4, <1>7 DEF Lifelines!Crowded
  <2> HIDE DEF P
  <2> QED BY <2>1, <2>2, <1>6
<1>8. P[l].y - P[k].y >= 28 \/ P[k].y - P[l].y >= 28
  <2> HIDE DEF P, k, l
  <2> QED BY <1>2, <1>3, <1>5, <1>7
<1> QED BY <1>1, <1>4, <1>8 DEF Lifelines!Abs

(* Columns are at whole numbers.                                           *)
LEMMA ColumnIs ==
  ASSUME NEW q, Given(q), NEW i \in 1 .. q.participants
  PROVE  Lifelines!ColumnX(q, i) \in Int
<1> DEFINE p == q.participants
           v == q.view[1]
<1>1. p \in Nat /\ p >= 1 /\ v \in Int /\ i \in Int
  BY DEF Given
<1>2. Lifelines!ColumnWidth(q) \in Int
  <2>1. 2 * p \in Int /\ 2 * p > 0 /\ 2 * (v - 124) + p \in Int
    BY <1>1
  <2> DEFINE d == (2 * (v - 124) + p) \div (2 * p)
  <2>2. d \in Int
    BY <2>1
  <2>3. Lifelines!ColumnWidth(q) = IF q.spread THEN Lifelines!Most(86, Lifelines!Least(190, d - 24)) ELSE 86
    BY DEF Lifelines!ColumnWidth
  <2> HIDE DEF d
  <2> QED BY <2>2, <2>3 DEF Lifelines!Most, Lifelines!Least
<1>3. Lifelines!ColumnGap(q) \in Int
  <2> DEFINE g == v - 102 - Lifelines!ColumnWidth(q)
             d == g \div (p - 1)
  <2>1. g \in Int
    BY <1>1, <1>2
  <2>2. CASE q.spread /\ p > 1
    <3>1. p - 1 \in Int /\ p - 1 > 0
      BY <1>1, <2>2
    <3>2. d \in Int
      <4> HIDE DEF g
      <4> QED BY <2>1, <3>1
    <3>3. Lifelines!ColumnGap(q) = Lifelines!Most(108, d)
      BY <2>2 DEF Lifelines!ColumnGap
    <3> HIDE DEF d
    <3> QED BY <3>2, <3>3 DEF Lifelines!Most
  <2>3. CASE ~(q.spread /\ p > 1)
    BY <2>3 DEF Lifelines!ColumnGap
  <2> QED BY <2>2, <2>3
<1> DEFINE w == Lifelines!ColumnWidth(q)
           g == Lifelines!ColumnGap(q)
<1>4. Lifelines!ColumnX(q, i) = (IF q.spread THEN 62 + w \div 2 ELSE 62) + (i - 1) * g
  BY DEF Lifelines!ColumnX
<1>5. w \div 2 \in Int /\ (i - 1) * g \in Int
  <2> HIDE DEF w, g
  <2> QED BY <1>1, <1>2, <1>3 DEF w, g
<1> QED BY <1>4, <1>5

(* Where the arrow of a message and its label are.                         *)
LEMMA BoxesAre ==
  ASSUME NEW q, Given(q), NEW m \in Lifelines!Message(q.participants)
  PROVE  /\ m.y \in Int /\ m.label \in Nat
         /\ Lifelines!ColumnX(q, m.from) \in Int /\ Lifelines!ColumnX(q, m.to) \in Int
         /\ Lifelines!MessageLabel(q, m).x \in Int /\ Lifelines!MessageLabel(q, m).y = m.y - 20
         /\ Lifelines!MessageLabel(q, m).width = m.label /\ Lifelines!MessageLabel(q, m).height = 16
         /\ Lifelines!MessageRoute(q, m).x \in Int /\ Lifelines!MessageRoute(q, m).y = m.y - 2
         /\ Lifelines!MessageRoute(q, m).width \in Int /\ Lifelines!MessageRoute(q, m).height = 4
<1> DEFINE a == Lifelines!ColumnX(q, m.from)
           b == Lifelines!ColumnX(q, m.to)
           h == IF b > a THEN 1 ELSE -1
<1>1. m.from \in 1 .. q.participants /\ m.to \in 1 .. q.participants /\ m.y \in Int /\ m.label \in Nat
  BY DEF Lifelines!Message
<1>2. a \in Int /\ b \in Int
  BY <1>1, ColumnIs
<1>3. Lifelines!Arrow(q, m) = <<<<a + 7 * h, m.y>>, <<b - 7 * h, m.y>>>>
  BY DEF Lifelines!Arrow
<1> HIDE DEF a, b
<1>4. a + 7 * h \in Int /\ b - 7 * h \in Int
  BY <1>2
<1> DEFINE c == a + 7 * h
           d == b - 7 * h
<1>5. Lifelines!MessageLabel(q, m) = [x |-> (c + d - m.label) \div 2, y |-> m.y - 20, width |-> m.label, height |-> 16]
  BY <1>3 DEF Lifelines!MessageLabel
<1>6. Lifelines!SegmentBox(Lifelines!Arrow(q, m)) =
        [x |-> Lifelines!Least(c, d), y |-> Lifelines!Least(m.y, m.y), width |-> Lifelines!Abs(c - d),
         height |-> Lifelines!Abs(m.y - m.y)]
  BY <1>3 DEF Lifelines!SegmentBox
<1> HIDE DEF c, d
<1>7. Lifelines!MessageRoute(q, m).x = Lifelines!Least(c, d) /\ Lifelines!MessageRoute(q, m).y = Lifelines!Least(m.y, m.y) - 2
      /\ Lifelines!MessageRoute(q, m).width = Lifelines!Abs(c - d) /\ Lifelines!MessageRoute(q, m).height = 4
  BY <1>6 DEF Lifelines!MessageRoute
<1>8. c \in Int /\ d \in Int
  BY <1>4 DEF c, d
<1>9. (c + d - m.label) \div 2 \in Int
  BY <1>1, <1>8
<1>10. Lifelines!Least(c, d) \in Int /\ Lifelines!Least(m.y, m.y) = m.y /\ Lifelines!Abs(c - d) \in Int
  BY <1>1, <1>8 DEF Lifelines!Least, Lifelines!Abs
<1> QED BY <1>1, <1>2, <1>5, <1>7, <1>9, <1>10 DEF a, b

(* The label of a segment at a height.                                     *)
TagAt(s, y) == [x |-> 56, y |-> y, width |-> s.label, height |-> 18]

Boxes(q, m) == {Lifelines!MessageLabel(q, m), Lifelines!MessageRoute(q, m)}

(* A message is in the way of the label at a height.                       *)
InTheWay(q, s, m, y) == \E box \in Boxes(q, m) : Lifelines!RectsOverlap(TagAt(s, y), box, 2)

(* A box of the message is in the columns of the label.                    *)
InColumns(q, s, m) ==
  \E box \in Boxes(q, m) : box.x < 56 + s.label + 2 /\ Lifelines!Right(box) + 2 > 56

(* A label moves up from a message that is in the way.                     *)
LEMMA MovedIs ==
  ASSUME NEW q, NEW s, NEW y \in Int
  PROVE  Lifelines!Moved(q, TagAt(s, y)) =
           IF \E m \in Lifelines!Range(q.messages) : InTheWay(q, s, m, y) THEN TagAt(s, y - 22) ELSE TagAt(s, y)
<1>1. (\E box \in Lifelines!Occupied(q) : Lifelines!RectsOverlap(TagAt(s, y), box, 2))
        <=> \E m \in Lifelines!Range(q.messages) : InTheWay(q, s, m, y)
  BY DEF Lifelines!Occupied, InTheWay, Boxes
<1>2. [TagAt(s, y) EXCEPT !.y = @ - 22] = TagAt(s, y - 22)
  BY DEF TagAt
<1> QED BY <1>1, <1>2 DEF Lifelines!Moved

(* The label of a segment is where it is after four tries.                 *)
LEMMA TagIs ==
  ASSUME NEW q, NEW s
  PROVE  \E t : /\ t[0] = TagAt(s, s.from - 22) /\ t[4] = Lifelines!SegmentTag(q, s)
                /\ \A n \in 1 .. 4 : t[n] = Lifelines!Moved(q, t[n - 1])
<1> DEFINE M(t) == Lifelines!Moved(q, t)
           first == TagAt(s, s.from - 22)
           Eq(t) == t = [n \in 0 .. 4 |-> IF n = 0 THEN first ELSE M(t[n - 1])]
           one == M(first)
           two == M(one)
           three == M(two)
           four == M(three)
           a == [n \in 0 .. 4 |-> IF n = 0 THEN first ELSE IF n = 1 THEN one ELSE IF n = 2 THEN two
                                  ELSE IF n = 3 THEN three ELSE four]
           b == CHOOSE t : Eq(t)
<1>1. Lifelines!SegmentTag(q, s) = b[4]
  BY DEF Lifelines!SegmentTag, Lifelines!Tries, TagAt
<1>2. Eq(a)
  <2>1. \A n \in 0 .. 4 : n = 0 \/ n = 1 \/ n = 2 \/ n = 3 \/ n = 4
    OBVIOUS
  <2>2. a[0] = first /\ a[1] = one /\ a[2] = two /\ a[3] = three /\ a[4] = four /\ DOMAIN a = 0 .. 4
    OBVIOUS
  <2>3. \A n \in 0 .. 4 : a[n] = IF n = 0 THEN first ELSE M(a[n - 1])
    <3> HIDE DEF a, M
    <3> USE DEF one, two, three, four
    <3> QED BY <2>1, <2>2
  <2>4. a = [n \in 0 .. 4 |-> a[n]]
    OBVIOUS
  <2> HIDE DEF a, M, first
  <2> QED BY <2>3, <2>4
<1>3. Eq(b)
  <2> HIDE DEF a, Eq
  <2> QED BY <1>2
<1> HIDE DEF b
<1>4. b[0] = first /\ \A n \in 1 .. 4 : b[n] = M(b[n - 1])
  <2> HIDE DEF M, first
  <2>1. \A n \in 1 .. 4 : n \in 0 .. 4 /\ n # 0
    OBVIOUS
  <2> QED BY <1>3, <2>1
<1> QED BY <1>1, <1>4

(* Only a message of these heights is in the way, and only in its columns. *)
LEMMA InTheWayMeans ==
  ASSUME NEW q, Given(q), NEW s \in Lifelines!Segment, NEW m \in Lifelines!Message(q.participants), NEW y \in Int,
         InTheWay(q, s, m, y)
  PROVE  m.y - 40 < y /\ y < m.y + 4 /\ InColumns(q, s, m)
<1>1. PICK box \in Boxes(q, m) : Lifelines!RectsOverlap(TagAt(s, y), box, 2)
  BY DEF InTheWay
<1>2. s.label \in Nat /\ m.y \in Int
  BY DEF Lifelines!Segment, Lifelines!Message
<1>3. box.x \in Int /\ box.width \in Int
      /\ ((box.y = m.y - 20 /\ box.height = 16) \/ (box.y = m.y - 2 /\ box.height = 4))
  <2>1. box = Lifelines!MessageLabel(q, m) \/ box = Lifelines!MessageRoute(q, m)
    BY DEF Boxes
  <2>2. CASE box = Lifelines!MessageLabel(q, m)
    BY <1>2, <2>2, BoxesAre
  <2>3. CASE box = Lifelines!MessageRoute(q, m)
    BY <2>3, BoxesAre
  <2> QED BY <2>1, <2>2, <2>3
<1>4. /\ 56 + s.label + 2 > box.x /\ box.x + box.width + 2 > 56
      /\ y + 18 + 2 > box.y /\ box.y + box.height + 2 > y
  BY <1>1 DEF Lifelines!RectsOverlap, Lifelines!Right, Lifelines!Bottom, TagAt
<1>5. InColumns(q, s, m)
  BY <1>2, <1>3, <1>4 DEF InColumns, Lifelines!Right
<1>6. m.y - 40 < y /\ y < m.y + 4
  BY <1>2, <1>3, <1>4
<1> QED BY <1>5, <1>6

(* What overlaps overlaps within a margin.                                 *)
LEMMA OverlapIsInTheWay ==
  ASSUME NEW q, Given(q), NEW s \in Lifelines!Segment, NEW m \in Lifelines!Message(q.participants), NEW y \in Int,
         NEW box \in Boxes(q, m), Lifelines!RectsOverlap(TagAt(s, y), box, 0)
  PROVE  InTheWay(q, s, m, y)
<1>1. s.label \in Nat /\ m.y \in Int
  BY DEF Lifelines!Segment, Lifelines!Message
<1>2. box.x \in Int /\ box.width \in Int /\ box.y \in Int /\ box.height \in Int
  BY <1>1, BoxesAre DEF Boxes
<1>3. Lifelines!RectsOverlap(TagAt(s, y), box, 2)
  BY <1>1, <1>2 DEF Lifelines!RectsOverlap, Lifelines!Right, Lifelines!Bottom, TagAt
<1> QED BY <1>3 DEF InTheWay

(* At most two things are one or the other.                                *)
LEMMA AtMostTwo ==
  ASSUME NEW S, IsFiniteSet(S), Cardinality(S) <= 2
  PROVE  \E a, b : \A x \in S : x = a \/ x = b
<1>1. SUFFICES ASSUME \A a, b : \E x \in S : x # a /\ x # b PROVE FALSE
  OBVIOUS
<1>2. PICK a \in S : TRUE
  BY <1>1
<1>3. PICK b \in S : b # a
  BY <1>1
<1>4. PICK c \in S : c # a /\ c # b
  BY <1>1
<1>5. IsFiniteSet({a}) /\ Cardinality({a}) = 1
  BY FS_Singleton
<1>6. IsFiniteSet({a} \cup {b}) /\ Cardinality({a} \cup {b}) = 2
  <2> DEFINE T == {a}
  <2>1. b \notin T
    BY <1>3
  <2>2. IsFiniteSet(T) /\ Cardinality(T) = 1
    BY <1>5
  <2> HIDE DEF T
  <2>3. IsFiniteSet(T \cup {b}) /\ Cardinality(T \cup {b}) = Cardinality(T) + 1
    BY <2>1, <2>2, FS_AddElement
  <2>4. Cardinality(T \cup {b}) = 2
    BY <2>2, <2>3
  <2> QED BY <2>3, <2>4 DEF T
<1>7. IsFiniteSet(({a} \cup {b}) \cup {c}) /\ Cardinality(({a} \cup {b}) \cup {c}) = 3
  <2> DEFINE T == {a} \cup {b}
  <2>1. c \notin T
    BY <1>4
  <2>2. IsFiniteSet(T) /\ Cardinality(T) = 2
    BY <1>6
  <2> HIDE DEF T
  <2>3. IsFiniteSet(T \cup {c}) /\ Cardinality(T \cup {c}) = Cardinality(T) + 1
    BY <2>1, <2>2, FS_AddElement
  <2>4. Cardinality(T \cup {c}) = 3
    BY <2>2, <2>3
  <2> QED BY <2>3, <2>4 DEF T
<1>8. ({a} \cup {b}) \cup {c} \in SUBSET S
  BY <1>2, <1>3, <1>4
<1>9. 3 <= Cardinality(S)
  BY <1>7, <1>8, FS_Subset
<1>10. Cardinality(S) \in Nat
  BY FS_CardinalityType
<1> QED BY <1>9, <1>10

(* Each of two messages is in the way of at most two of five heights that  *)
(* are 22 apart.                                                           *)
LEMMA FourMovesGetPastTwo ==
  ASSUME NEW h \in Int, NEW a \in Int, NEW b \in Int
  PROVE  \E n \in 0 .. 4 : \A c \in {a, b} : ~(c - 40 < h - 22 * n /\ h - 22 * n < c + 4)
<1>1. SUFFICES ASSUME \A n \in 0 .. 4 : \E c \in {a, b} : c - 40 < h - 22 * n /\ h - 22 * n < c + 4
               PROVE  FALSE
  OBVIOUS
<1> DEFINE Hit(n) == \/ a - 40 < h - 22 * n /\ h - 22 * n < a + 4
                     \/ b - 40 < h - 22 * n /\ h - 22 * n < b + 4
<1>2. \A n \in 0 .. 4 : Hit(n)
  BY <1>1
<1>3. Hit(0) /\ Hit(1) /\ Hit(2) /\ Hit(3) /\ Hit(4)
  BY <1>2
<1> QED BY <1>3

(* The label of a segment ends where it is free, when at most two messages *)
(* are in its columns above the segment.                                   *)
LEMMA TagEndsFree ==
  ASSUME NEW q, Given(q), NEW s \in Lifelines!Segment, NEW a \in Int, NEW b \in Int,
         \A m \in Lifelines!Range(q.messages) :
           (m.y < s.from + 30 /\ InColumns(q, s, m)) => (m.y = a \/ m.y = b)
  PROVE  \E y \in Int : /\ Lifelines!SegmentTag(q, s) = TagAt(s, y)
                        /\ \A m \in Lifelines!Range(q.messages) : ~InTheWay(q, s, m, y)
<1> DEFINE h == s.from - 22
           Way(y) == \E m \in Lifelines!Range(q.messages) : InTheWay(q, s, m, y)
<1>1. h \in Int /\ s.from \in Int
  BY DEF Lifelines!Segment
<1>2. \A m \in Lifelines!Range(q.messages) : m \in Lifelines!Message(q.participants) /\ m.y \in Int
  BY MessagesAre DEF Lifelines!Message
<1>3. ASSUME NEW y \in Int, y <= h, Way(y)
      PROVE  (a - 40 < y /\ y < a + 4) \/ (b - 40 < y /\ y < b + 4)
  <2>1. PICK m \in Lifelines!Range(q.messages) : InTheWay(q, s, m, y)
    BY <1>3
  <2>2. m.y \in Int /\ m.y - 40 < y /\ y < m.y + 4 /\ InColumns(q, s, m)
    BY <1>2, <2>1, InTheWayMeans
  <2>3. m.y < s.from + 30
    BY <1>1, <1>3, <2>2
  <2>4. m.y = a \/ m.y = b
    BY <2>2, <2>3
  <2>5. CASE m.y = a
    <3> HIDE DEF Way
    <3> QED BY <2>2, <2>5
  <2>6. CASE m.y = b
    <3> HIDE DEF Way
    <3> QED BY <2>2, <2>6
  <2> QED BY <2>4, <2>5, <2>6
<1>4. PICK n \in 0 .. 4 : \A c \in {a, b} : ~(c - 40 < h - 22 * n /\ h - 22 * n < c + 4)
  <2> HIDE DEF h
  <2> QED BY <1>1, FourMovesGetPastTwo
<1>5. ~Way(h - 22 * n)
  <2>1. h - 22 * n \in Int /\ h - 22 * n <= h
    BY <1>1
  <2> HIDE DEF Way, h
  <2> QED BY <2>1, <1>3, <1>4
<1>6. PICK t : /\ t[0] = TagAt(s, h) /\ t[4] = Lifelines!SegmentTag(q, s)
               /\ \A k \in 1 .. 4 : t[k] = Lifelines!Moved(q, t[k - 1])
  BY TagIs
<1> DEFINE At(k, y) == y \in Int /\ t[k] = TagAt(s, y) /\ (~Way(y) \/ (y = h - 22 * k /\ k < n))
<1>7. \E y : At(0, y)
  <2>1. h = h - 22 * 0
    BY <1>1
  <2>2. ~Way(h) \/ 0 < n
    <3>1. CASE n = 0
      BY <3>1, <1>5, <1>1
    <3>2. CASE n # 0
      BY <3>2
    <3> QED BY <3>1, <3>2
  <2>3. t[0] = TagAt(s, h)
    BY <1>6
  <2>4. At(0, h)
    <3> HIDE DEF Way, h
    <3> QED BY <1>1, <2>1, <2>2, <2>3
  <2> HIDE DEF At
  <2> QED BY <2>4
<1>8. ASSUME NEW k \in 0 .. 3, \E y : At(k, y) PROVE \E y : At(k + 1, y)
  <2>1. PICK y \in Int : t[k] = TagAt(s, y) /\ (~Way(y) \/ (y = h - 22 * k /\ k < n))
    BY <1>8
  <2>2. k + 1 \in 1 .. 4 /\ (k + 1) - 1 = k
    OBVIOUS
  <2>3. t[k + 1] = Lifelines!Moved(q, t[k])
    BY <1>6, <2>2
  <2>4. t[k + 1] = IF Way(y) THEN TagAt(s, y - 22) ELSE TagAt(s, y)
    BY <2>1, <2>3, MovedIs
  <2>5. CASE ~Way(y)
    <3>1. At(k + 1, y)
      <4> HIDE DEF Way, h
      <4> QED BY <2>1, <2>4, <2>5
    <3> HIDE DEF At
    <3> QED BY <3>1
  <2>6. CASE Way(y)
    <3>1. y - 22 = h - 22 * (k + 1) /\ y - 22 \in Int /\ k < n
      BY <1>1, <2>1, <2>6
    <3>2. k + 1 < n \/ ~Way(y - 22)
      <4>1. CASE k + 1 = n
        BY <4>1, <3>1, <1>5
      <4>2. CASE k + 1 # n
        <5> HIDE DEF Way, h
        <5> QED BY <3>1, <4>2
      <4> QED BY <4>1, <4>2
    <3>3. t[k + 1] = TagAt(s, y - 22)
      BY <2>4, <2>6
    <3>4. At(k + 1, y - 22)
      <4> HIDE DEF Way, h
      <4> QED BY <3>1, <3>2, <3>3
    <3> HIDE DEF At
    <3> QED BY <3>4
  <2> QED BY <2>5, <2>6
<1>9. \E y : At(4, y)
  <2> HIDE DEF At
  <2>1. \E y : At(0 + 1, y)
    BY <1>7, <1>8
  <2>2. \E y : At(1 + 1, y)
    BY <2>1, <1>8
  <2>3. \E y : At(2 + 1, y)
    BY <2>2, <1>8
  <2>4. \E y : At(3 + 1, y)
    BY <2>3, <1>8
  <2> QED BY <2>4
<1>10. PICK y : At(4, y)
  BY <1>9
<1>11. ~(4 < n)
  OBVIOUS
<1> QED BY <1>6, <1>10, <1>11

(* What an accepted sequence is free of.                                   *)
LEMMA AcceptedMeans ==
  ASSUME NEW q, Lifelines!Faults(q) = {}
  PROVE  /\ \A m \in Lifelines!Range(q.messages) :
              /\ ~(m.y < Lifelines!LifelineTop + 18)
              /\ ~(Lifelines!Abs(Lifelines!ColumnX(q, m.to) - Lifelines!ColumnX(q, m.from)) < 60)
         /\ ~Lifelines!Crowded(q)
         /\ q.profile = "showcase" => \A p \in Lifelines!Pairs(q) : ~Lifelines!OnLabel(q, p[1], p[2])
         /\ q.profile # "none" => ~Lifelines!Ruled(q)
<1>1. \A f \in {"outside-timeline", "short-message", "crowded", "label-route", "border-run"} : f \notin Lifelines!Faults(q)
  OBVIOUS
<1>2. "outside-timeline" \notin Lifelines!Faults(q) => \A m \in Lifelines!Range(q.messages) : ~(m.y < Lifelines!LifelineTop + 18)
  BY DEF Lifelines!Faults
<1>3. "short-message" \notin Lifelines!Faults(q) =>
        \A m \in Lifelines!Range(q.messages) :
          ~(Lifelines!Abs(Lifelines!ColumnX(q, m.to) - Lifelines!ColumnX(q, m.from)) < 60)
  BY DEF Lifelines!Faults
<1>4. "crowded" \notin Lifelines!Faults(q) => ~Lifelines!Crowded(q)
  BY DEF Lifelines!Faults
<1>5. "label-route" \notin Lifelines!Faults(q) /\ q.profile = "showcase" =>
        \A p \in Lifelines!Pairs(q) : ~Lifelines!OnLabel(q, p[1], p[2])
  BY DEF Lifelines!Faults
<1>6. "border-run" \notin Lifelines!Faults(q) /\ q.profile # "none" => ~Lifelines!Ruled(q)
  BY DEF Lifelines!Faults
<1> QED BY <1>1, <1>2, <1>3, <1>4, <1>5, <1>6

(* A segment along the x axis that goes all through a box crosses its left *)
(* side.                                                                   *)
LEMMA CrossesLeftSide ==
  ASSUME NEW a \in Int, NEW b \in Int, NEW y \in Int, NEW x \in Int, NEW top \in Int, NEW bottom \in Int,
         (a < x /\ x < b) \/ (b < x /\ x < a), top < y, y < bottom
  PROVE  Lifelines!SegmentsIntersect(<<a, y>>, <<b, y>>, <<x, bottom>>, <<x, top>>)
<1> DEFINE p == <<a, y>>
           r == <<b, y>>
           c == <<x, bottom>>
           d == <<x, top>>
<1>1. /\ Lifelines!CrossProduct(p, r, c) = (b - a) * (bottom - y)
      /\ Lifelines!CrossProduct(p, r, d) = (b - a) * (top - y)
      /\ Lifelines!CrossProduct(c, d, p) = (bottom - top) * (a - x)
      /\ Lifelines!CrossProduct(c, d, r) = (bottom - top) * (b - x)
  BY DEF Lifelines!CrossProduct
<1>2. ASSUME NEW u \in Int, NEW v \in Int, NEW w \in Int, (u > 0 \/ u < 0), v > 0, w < 0
      PROVE  Lifelines!Sign(u * v) # Lifelines!Sign(u * w)
  <2>1. (u > 0 => u * v > 0 /\ u * w < 0) /\ (u < 0 => u * v < 0 /\ u * w > 0)
    BY <1>2
  <2> QED BY <1>2, <2>1 DEF Lifelines!Sign
<1>3. Lifelines!Sign((b - a) * (bottom - y)) # Lifelines!Sign((b - a) * (top - y))
  <2>1. b - a \in Int /\ bottom - y \in Int /\ top - y \in Int /\ (b - a > 0 \/ b - a < 0) /\ bottom - y > 0 /\ top - y < 0
    OBVIOUS
  <2> QED BY <2>1, <1>2
<1>4. Lifelines!Sign((bottom - top) * (a - x)) # Lifelines!Sign((bottom - top) * (b - x))
  <2>1. bottom - top \in Int /\ a - x \in Int /\ b - x \in Int /\ bottom - top > 0
        /\ ((a - x > 0 /\ b - x < 0) \/ (a - x < 0 /\ b - x > 0))
    OBVIOUS
  <2> QED BY <2>1, <1>2
<1>5. Lifelines!Turn(p, r, c) # Lifelines!Turn(p, r, d) /\ Lifelines!Turn(c, d, p) # Lifelines!Turn(c, d, r)
  BY <1>1, <1>3, <1>4 DEF Lifelines!Turn
<1> QED BY <1>5 DEF Lifelines!SegmentsIntersect

(* What an accepted message's label would hide of another's arrow in the   *)
(* same rows, the gate for labels sees.                                    *)
LEMMA HiddenIsOnLabel ==
  ASSUME NEW q, Given(q), NEW i \in DOMAIN q.messages, NEW j \in DOMAIN q.messages,
         Lifelines!Hides(q, Lifelines!MessageLabel(q, q.messages[i]), q.messages[j]),
         ~(Lifelines!Abs(Lifelines!ColumnX(q, q.messages[j].to) - Lifelines!ColumnX(q, q.messages[j].from)) < 60)
  PROVE  Lifelines!OnLabel(q, i, j)
<1> DEFINE m == q.messages[i]
           n == q.messages[j]
           box == Lifelines!MessageLabel(q, m)
           route == Lifelines!MessageRoute(q, n)
           a == Lifelines!ColumnX(q, n.from)
           b == Lifelines!ColumnX(q, n.to)
           grown == Lifelines!Grown(box, 0)
<1>1. m \in Lifelines!Message(q.participants) /\ n \in Lifelines!Message(q.participants)
  BY MessagesAre
<1>2. /\ m.y \in Int /\ m.label \in Nat /\ n.y \in Int
      /\ box.x \in Int /\ box.y = m.y - 20 /\ box.width = m.label /\ box.height = 16
      /\ route.x \in Int /\ route.y = n.y - 2 /\ route.width \in Int /\ route.height = 4
      /\ a \in Int /\ b \in Int
  BY <1>1, BoxesAre
<1>3. /\ box.x + box.width - 2 > route.x /\ route.x + route.width - 2 > box.x
      /\ box.y + box.height - 2 > route.y /\ route.y + route.height - 2 > box.y
  <2>1. Lifelines!RectsOverlap(box, route, -2)
    BY DEF Lifelines!Hides
  <2> HIDE DEF box, route
  <2> QED BY <1>2, <2>1 DEF Lifelines!RectsOverlap, Lifelines!Right, Lifelines!Bottom
<1>4. m.y - 20 < n.y /\ n.y < m.y - 4
  <2> HIDE DEF box, route, m, n
  <2> QED BY <1>2, <1>3
<1>5. route.x = Lifelines!Least(a, b) + 7 /\ route.width = Lifelines!Abs(a - b) - 14
      /\ (b - a >= 60 \/ a - b >= 60)
  <2> DEFINE h == IF b > a THEN 1 ELSE -1
             c == a + 7 * h
             d == b - 7 * h
  <2>1. Lifelines!Arrow(q, n) = <<<<c, n.y>>, <<d, n.y>>>>
    BY DEF Lifelines!Arrow
  <2>2. b - a >= 60 \/ a - b >= 60
    <3> HIDE DEF m, n
    <3>1. ~(Lifelines!Abs(b - a) < 60)
      BY DEF m, n
    <3> HIDE DEF a, b
    <3> QED BY <1>2, <3>1 DEF Lifelines!Abs
  <2>3. route.x = Lifelines!Least(c, d) /\ route.width = Lifelines!Abs(c - d)
    <3>1. Lifelines!SegmentBox(Lifelines!Arrow(q, n)) =
            [x |-> Lifelines!Least(c, d), y |-> Lifelines!Least(n.y, n.y), width |-> Lifelines!Abs(c - d),
             height |-> Lifelines!Abs(n.y - n.y)]
      <4> HIDE DEF c, d, n
      <4> QED BY <2>1 DEF Lifelines!SegmentBox
    <3> HIDE DEF c, d, n
    <3> QED BY <3>1 DEF Lifelines!MessageRoute
  <2> HIDE DEF a, b, route, n
  <2> QED BY <1>2, <2>2, <2>3 DEF Lifelines!Least, Lifelines!Abs
<1>6. Lifelines!MessagePath(q, n) = <<<<a, n.y>>, <<b, n.y>>>>
  BY DEF Lifelines!MessagePath
<1>7. grown = [x |-> box.x - 0, y |-> box.y - 0, width |-> box.width + 2 * 0, height |-> box.height + 2 * 0]
  BY DEF Lifelines!Grown
<1>8. grown.x = box.x /\ grown.y = m.y - 20 /\ Lifelines!Right(grown) = box.x + m.label /\ Lifelines!Bottom(grown) = m.y - 4
  <2> HIDE DEF box, m, grown
  <2> QED BY <1>2, <1>7 DEF Lifelines!Right, Lifelines!Bottom
<1>9. Lifelines!SegmentIntersectsRect(Lifelines!MessagePath(q, n), box, 0)
  <2> DEFINE Inside(x) == box.x <= x /\ x <= box.x + m.label
  <2>1. Inside(a) \/ Inside(b) \/ (a < box.x /\ box.x < b) \/ (b < box.x /\ box.x < a)
    <3> HIDE DEF a, b, box, route, m, n
    <3> QED BY <1>2, <1>3, <1>5 DEF Lifelines!Least, Lifelines!Abs
  <2>2. \A x \in Int : Inside(x) => Lifelines!PointInBox(<<x, n.y>>, grown)
    <3> HIDE DEF box, m, n, grown
    <3> QED BY <1>2, <1>4, <1>8 DEF Lifelines!PointInBox
  <2>3. CASE Inside(a) \/ Inside(b)
    BY <1>2, <1>6, <2>2, <2>3 DEF Lifelines!SegmentIntersectsRect
  <2>4. CASE (a < box.x /\ box.x < b) \/ (b < box.x /\ box.x < a)
    <3> DEFINE c == Lifelines!Corners(grown)
    <3>1. c[4] = <<box.x, m.y - 4>> /\ c[1] = <<box.x, m.y - 20>>
      BY <1>8 DEF Lifelines!Corners
    <3>2. Lifelines!SegmentsIntersect(<<a, n.y>>, <<b, n.y>>, <<box.x, m.y - 4>>, <<box.x, m.y - 20>>)
      <4>1. m.y - 4 \in Int /\ m.y - 20 \in Int /\ m.y - 20 < n.y /\ n.y < m.y - 4
        BY <1>2, <1>4
      <4> HIDE DEF a, b, box, m, n
      <4> QED BY <1>2, <2>4, <4>1, CrossesLeftSide
    <3>3. 4 \in 1 .. 4 /\ (4 % 4) + 1 = 1
      OBVIOUS
    <3>4. Lifelines!SegmentsIntersect(<<a, n.y>>, <<b, n.y>>, c[4], c[(4 % 4) + 1])
      BY <3>1, <3>2, <3>3
    <3> HIDE DEF a, b, c
    <3> QED BY <1>6, <3>3, <3>4 DEF Lifelines!SegmentIntersectsRect, c
  <2> QED BY <2>1, <2>3, <2>4
<1>10. Lifelines!Clearance2(Lifelines!MessagePath(q, n), box) = 0
  BY <1>9 DEF Lifelines!Clearance2
<1> QED BY <1>10 DEF Lifelines!OnLabel

(* A sequence whose validation found nothing can be read.                  *)
LEMMA AcceptedIsReadable ==
  ASSUME Given(sequence), faults = Lifelines!Faults(sequence)
  PROVE  Lifelines!MessagesReadable
<1> DEFINE q == sequence
<1>1. SUFFICES ASSUME Lifelines!Faults(q) = {}
      PROVE  /\ \A p \in Lifelines!Pairs(q) :
                   /\ Lifelines!SharesColumns(q, q.messages[p[1]], q.messages[p[2]])
                        => Lifelines!Abs(q.messages[p[1]].y - q.messages[p[2]].y) >= 28
                   /\ Lifelines!Hides(q, Lifelines!MessageLabel(q, q.messages[p[1]]), q.messages[p[2]])
                        => q.profile # "showcase" /\ ~Lifelines!SharesColumns(q, q.messages[p[1]], q.messages[p[2]])
             /\ \A m \in Lifelines!Range(q.messages), i \in 1 .. q.participants :
                   /\ ~Lifelines!RectsOverlap(Lifelines!MessageLabel(q, m), Lifelines!Header(q, i), 0)
                   /\ ~Lifelines!RectsOverlap(Lifelines!MessageRoute(q, m), Lifelines!Header(q, i), 0)
             /\ q.profile # "none" => ~Lifelines!Ruled(q)
  BY DEF Lifelines!MessagesReadable
<1>2. ASSUME NEW p \in Lifelines!Pairs(q)
      PROVE  /\ Lifelines!SharesColumns(q, q.messages[p[1]], q.messages[p[2]])
                  => Lifelines!Abs(q.messages[p[1]].y - q.messages[p[2]].y) >= 28
             /\ Lifelines!Hides(q, Lifelines!MessageLabel(q, q.messages[p[1]]), q.messages[p[2]])
                  => q.profile # "showcase" /\ ~Lifelines!SharesColumns(q, q.messages[p[1]], q.messages[p[2]])
  <2> DEFINE i == p[1]
             j == p[2]
             m == q.messages[i]
             n == q.messages[j]
  <2>1. i \in DOMAIN q.messages /\ j \in DOMAIN q.messages /\ i # j
    BY DEF Lifelines!Pairs
  <2>2. m \in Lifelines!Range(q.messages) /\ n \in Lifelines!Range(q.messages)
        /\ m \in Lifelines!Message(q.participants) /\ n \in Lifelines!Message(q.participants)
    BY <2>1, MessagesAre DEF Lifelines!Range
  <2>3. Lifelines!SharesColumns(q, m, n) => Lifelines!Abs(m.y - n.y) >= 28
    BY <1>1, <2>1, AcceptedMeans, FarApart
  <2>4. ASSUME Lifelines!Hides(q, Lifelines!MessageLabel(q, m), n) PROVE q.profile # "showcase"
    <3>1. ~(Lifelines!Abs(Lifelines!ColumnX(q, n.to) - Lifelines!ColumnX(q, n.from)) < 60)
      BY <1>1, <2>2, AcceptedMeans
    <3>2. Lifelines!OnLabel(q, i, j)
      BY <2>1, <2>4, <3>1, HiddenIsOnLabel
    <3> QED BY <1>1, <3>2, AcceptedMeans
  <2>5. ASSUME Lifelines!Hides(q, Lifelines!MessageLabel(q, m), n), Lifelines!SharesColumns(q, m, n) PROVE FALSE
    <3> DEFINE box == Lifelines!MessageLabel(q, m)
               route == Lifelines!MessageRoute(q, n)
    <3>1. Lifelines!Abs(m.y - n.y) >= 28
      BY <2>3, <2>5
    <3>2. m.y \in Int /\ n.y \in Int /\ box.y = m.y - 20 /\ box.height = 16 /\ route.y = n.y - 2 /\ route.height = 4
      BY <2>2, BoxesAre
    <3>3. Lifelines!RectsOverlap(box, route, -2)
      BY <2>5 DEF Lifelines!Hides
    <3>4. box.y + box.height - 2 > route.y /\ route.y + route.height - 2 > box.y
      <4> HIDE DEF box, route
      <4> QED BY <3>2, <3>3 DEF Lifelines!RectsOverlap, Lifelines!Bottom
    <3> HIDE DEF box, route, m, n
    <3> QED BY <3>1, <3>2, <3>4 DEF Lifelines!Abs
  <2> QED BY <2>3, <2>4, <2>5
<1>3. ASSUME NEW m \in Lifelines!Range(q.messages), NEW i \in 1 .. q.participants
      PROVE  /\ ~Lifelines!RectsOverlap(Lifelines!MessageLabel(q, m), Lifelines!Header(q, i), 0)
             /\ ~Lifelines!RectsOverlap(Lifelines!MessageRoute(q, m), Lifelines!Header(q, i), 0)
  <2> DEFINE box == Lifelines!MessageLabel(q, m)
             route == Lifelines!MessageRoute(q, m)
             top == Lifelines!Header(q, i)
  <2>1. m.y \in Int /\ box.y = m.y - 20 /\ route.y = m.y - 2
    BY <1>3, MessagesAre, BoxesAre
  <2>2. top.y = 72 /\ top.height = 54
    BY DEF Lifelines!Header, Lifelines!TopY, Lifelines!HeaderHeight
  <2>3. m.y >= 160
    BY <1>1, <2>1, AcceptedMeans DEF Lifelines!LifelineTop
  <2>4. Lifelines!Bottom(top) = 126
    BY <2>2 DEF Lifelines!Bottom
  <2>5. ASSUME NEW r, r.y \in Int, r.y > 126, Lifelines!RectsOverlap(r, top, 0) PROVE FALSE
    <3> HIDE DEF top
    <3>1. Lifelines!Bottom(top) + 0 > r.y
      BY <2>5 DEF Lifelines!RectsOverlap
    <3> QED BY <2>4, <2>5, <3>1
  <2>6. box.y \in Int /\ box.y > 126 /\ route.y \in Int /\ route.y > 126
    <3> HIDE DEF box, route
    <3> QED BY <2>1, <2>3
  <2> QED BY <2>5, <2>6
<1>4. q.profile # "none" => ~Lifelines!Ruled(q)
  BY <1>1, AcceptedMeans
<1> QED BY <1>2, <1>3, <1>4

(* A label that moved is a label of the segment.                           *)
LEMMA TagIsAt ==
  ASSUME NEW q, NEW s \in Lifelines!Segment
  PROVE  \E y \in Int : Lifelines!SegmentTag(q, s) = TagAt(s, y)
<1>1. PICK t : /\ t[0] = TagAt(s, s.from - 22) /\ t[4] = Lifelines!SegmentTag(q, s)
               /\ \A n \in 1 .. 4 : t[n] = Lifelines!Moved(q, t[n - 1])
  BY TagIs
<1> DEFINE At(k) == \E y \in Int : t[k] = TagAt(s, y)
<1>2. At(0)
  <2>1. s.from - 22 \in Int
    BY DEF Lifelines!Segment
  <2> QED BY <1>1, <2>1
<1>3. ASSUME NEW k \in 0 .. 3, At(k) PROVE At(k + 1)
  <2>1. PICK y \in Int : t[k] = TagAt(s, y)
    BY <1>3
  <2>2. k + 1 \in 1 .. 4 /\ (k + 1) - 1 = k
    OBVIOUS
  <2>3. t[k + 1] = Lifelines!Moved(q, TagAt(s, y))
    BY <1>1, <2>1, <2>2
  <2>4. t[k + 1] = TagAt(s, y - 22) \/ t[k + 1] = TagAt(s, y)
    BY <2>3, MovedIs
  <2> QED BY <2>4
<1>4. At(4)
  <2> HIDE DEF At
  <2>1. At(0 + 1)
    BY <1>2, <1>3
  <2>2. At(1 + 1)
    BY <2>1, <1>3
  <2>3. At(2 + 1)
    BY <2>2, <1>3
  <2>4. At(3 + 1)
    BY <2>3, <1>3
  <2> QED BY <2>4
<1> QED BY <1>1, <1>4

(* The labels of segments hide nothing, where at most two messages are     *)
(* above.                                                                  *)
LEMMA TagsHideNone ==
  ASSUME Given(sequence),
         tags = <<>> \/ tags = [i \in DOMAIN sequence.segments |-> Lifelines!SegmentTag(sequence, sequence.segments[i])]
  PROVE  Lifelines!TagsHideNothing
<1> DEFINE q == sequence
           above(i) == {j \in DOMAIN q.messages :
                          /\ q.messages[j].y < q.segments[i].from + 30
                          /\ \E box \in {Lifelines!MessageLabel(q, q.messages[j]), Lifelines!MessageRoute(q, q.messages[j])} :
                               box.x < Lifelines!Right(tags[i]) + 2 /\ Lifelines!Right(box) + 2 > tags[i].x}
<1>1. SUFFICES ASSUME NEW i \in DOMAIN tags, Lifelines!Cardinality(above(i)) <= 2, NEW m \in Lifelines!Range(q.messages)
               PROVE  /\ ~Lifelines!RectsOverlap(tags[i], Lifelines!MessageLabel(q, m), 0)
                      /\ ~Lifelines!RectsOverlap(tags[i], Lifelines!MessageRoute(q, m), 0)
  BY DEF Lifelines!TagsHideNothing
<1> DEFINE s == q.segments[i]
           A == above(i)
<1>2. tags # <<>>
  BY <1>1
<1>3. i \in DOMAIN q.segments /\ tags[i] = Lifelines!SegmentTag(q, s)
  BY <1>1, <1>2
<1>4. s \in Lifelines!Segment
  BY <1>3, LenProperties, ElementOfSeq DEF Given
<1>5. s.label \in Nat /\ s.from \in Int
  BY <1>4 DEF Lifelines!Segment
<1>6. IsFiniteSet(A) /\ Cardinality(A) <= 2
  <2>1. IsFiniteSet(DOMAIN q.messages)
    <3>1. Len(q.messages) \in Nat /\ DOMAIN q.messages = 1 .. Len(q.messages)
      BY MessagesAre
    <3>2. IsFiniteSet(1 .. Len(q.messages))
      BY <3>1, FS_Interval
    <3> QED BY <3>1, <3>2
  <2>2. A \in SUBSET DOMAIN q.messages
    OBVIOUS
  <2> HIDE DEF A
  <2>3. IsFiniteSet(A)
    BY <2>1, <2>2, FS_Subset
  <2> QED BY <1>1, <2>3, LifelinesCount DEF A
<1>7. \E c, d : \A j \in A : j = c \/ j = d
  <2> HIDE DEF A
  <2> QED BY <1>6, AtMostTwo
<1>8. PICK c, d : \A j \in A : j = c \/ j = d
  BY <1>7
<1>9. PICK y0 \in Int : tags[i] = TagAt(s, y0)
  BY <1>3, <1>4, TagIsAt
<1>10. tags[i].x = 56 /\ Lifelines!Right(tags[i]) = 56 + s.label
  BY <1>9 DEF TagAt, Lifelines!Right
<1>11. \A j \in DOMAIN q.messages :
         q.messages[j].y < s.from + 30 /\ InColumns(q, s, q.messages[j]) => j \in A
  <2> TAKE j \in DOMAIN q.messages
  <2>1. SUFFICES ASSUME q.messages[j].y < s.from + 30, InColumns(q, s, q.messages[j]) PROVE j \in A
    OBVIOUS
  <2>2. PICK box \in Boxes(q, q.messages[j]) : box.x < 56 + s.label + 2 /\ Lifelines!Right(box) + 2 > 56
    BY <2>1 DEF InColumns
  <2>3. /\ box \in {Lifelines!MessageLabel(q, q.messages[j]), Lifelines!MessageRoute(q, q.messages[j])}
        /\ box.x < Lifelines!Right(tags[i]) + 2 /\ Lifelines!Right(box) + 2 > tags[i].x
    BY <1>10, <2>2 DEF Boxes
  <2> QED BY <2>1, <2>3
<1> DEFINE a == IF c \in DOMAIN q.messages THEN q.messages[c].y ELSE 0
           b == IF d \in DOMAIN q.messages THEN q.messages[d].y ELSE 0
<1>12. a \in Int /\ b \in Int
  <2>1. \A j \in DOMAIN q.messages : q.messages[j].y \in Int
    BY MessagesAre DEF Lifelines!Message
  <2> QED BY <2>1
<1>13. ASSUME NEW n \in Lifelines!Range(q.messages), n.y < s.from + 30, InColumns(q, s, n)
       PROVE  n.y = a \/ n.y = b
  <2>1. PICK j \in DOMAIN q.messages : n = q.messages[j]
    BY <1>13 DEF Lifelines!Range
  <2>2. j \in A
    <3> HIDE DEF A
    <3> QED BY <1>11, <1>13, <2>1
  <2>3. j = c \/ j = d
    <3> HIDE DEF A
    <3> QED BY <1>8, <2>2
  <2> QED BY <2>1, <2>3
<1>14. PICK y \in Int : /\ Lifelines!SegmentTag(q, s) = TagAt(s, y)
                        /\ \A n \in Lifelines!Range(q.messages) : ~InTheWay(q, s, n, y)
  <2> HIDE DEF a, b, s, A
  <2> QED BY <1>4, <1>12, <1>13, TagEndsFree
<1>15. m \in Lifelines!Message(q.participants) /\ ~InTheWay(q, s, m, y)
  BY <1>1, <1>14, MessagesAre
<1>16. \A box \in Boxes(q, m) : ~Lifelines!RectsOverlap(TagAt(s, y), box, 0)
  <2> HIDE DEF s
  <2> QED BY <1>4, <1>15, OverlapIsInTheWay
<1> QED BY <1>3, <1>14, <1>16 DEF Boxes

(* What a sequence, its labels and its faults are.                         *)
LifelinesInv ==
  /\ Given(sequence)
  /\ faults = Lifelines!Pending \/ faults = Lifelines!Faults(sequence)
  /\ \/ tags = <<>>
     \/ tags = [i \in DOMAIN sequence.segments |-> Lifelines!SegmentTag(sequence, sequence.segments[i])]

(* The messages of an accepted sequence can be told apart, and the labels  *)
(* of its segments hide none (validateSequence, segmentLabelBox).          *)
THEOREM LifelinesHold ==
  Lifelines!LayoutAssumption /\ Lifelines!Spec => [](Lifelines!MessagesReadable /\ Lifelines!TagsHideNothing)
<1> SUFFICES ASSUME Lifelines!LayoutAssumption PROVE Lifelines!Spec => [](Lifelines!MessagesReadable /\ Lifelines!TagsHideNothing)
  OBVIOUS
<1>1. Lifelines!Init => LifelinesInv
  BY DEF Lifelines!Init, LifelinesInv, Lifelines!LayoutAssumption, Given
<1>2. LifelinesInv /\ [Lifelines!Next]_Lifelines!vars => LifelinesInv'
  <2> SUFFICES ASSUME LifelinesInv, [Lifelines!Next]_Lifelines!vars PROVE LifelinesInv'
    OBVIOUS
  <2>1. CASE Lifelines!Render
    BY <2>1 DEF LifelinesInv, Lifelines!Render, Given
  <2>2. CASE Lifelines!Done
    BY <2>2 DEF LifelinesInv, Lifelines!Done, Lifelines!vars, Given
  <2>3. CASE UNCHANGED Lifelines!vars
    BY <2>3 DEF LifelinesInv, Lifelines!vars, Given
  <2> QED BY <2>1, <2>2, <2>3 DEF Lifelines!Next
<1>3. LifelinesInv => Lifelines!MessagesReadable /\ Lifelines!TagsHideNothing
  <2> SUFFICES ASSUME LifelinesInv PROVE Lifelines!MessagesReadable /\ Lifelines!TagsHideNothing
    OBVIOUS
  <2>1. Given(sequence)
    BY DEF LifelinesInv
  <2>2. CASE faults = Lifelines!Pending
    <3>1. faults # {}
      BY <2>2 DEF Lifelines!Pending
    <3>2. Lifelines!MessagesReadable
      BY <3>1 DEF Lifelines!MessagesReadable
    <3> QED BY <2>1, <3>2, TagsHideNone DEF LifelinesInv
  <2>3. CASE faults = Lifelines!Faults(sequence)
    BY <2>1, <2>3, AcceptedIsReadable, TagsHideNone DEF LifelinesInv
  <2> QED BY <2>2, <2>3 DEF LifelinesInv
<1> QED BY <1>1, <1>2, <1>3, PTL DEF Lifelines!Spec
-----------------------------------------------------------------------------
(* The frames of an architecture diagram: the smallest and the greatest of *)
(* finitely many numbers, and functions by recursion over a rank.          *)

(* The instance counts as the library does.                                *)
LEMMA FramesCount == \A S : Frames!Cardinality(S) = Cardinality(S)
  BY DEF Frames!Cardinality, Cardinality

(* What it calls finite is what the library calls so.                      *)
LEMMA FramesFinite == \A S : Frames!IsFiniteSet(S) <=> IsFiniteSet(S)
  BY DEF Frames!IsFiniteSet, IsFiniteSet

(* The values of a function on a finite set are finitely many.             *)
LEMMA ValuesAreFinite ==
  ASSUME NEW S, IsFiniteSet(S), NEW f, DOMAIN f = S, NEW T, \A y \in T : \E x \in S : y = f[x], \A x \in S : f[x] \in T
  PROVE  IsFiniteSet(T) /\ Cardinality(T) <= Cardinality(S)
<1> DEFINE g == [x \in S |-> f[x]]
<1>1. g \in Surjection(S, T)
  BY DEF Surjection
<1> QED BY <1>1, FS_Surjection

(* A finite set of whole numbers has a least and a greatest.               *)
LEMMA ExtremesExist ==
  ASSUME NEW S \in SUBSET Int, IsFiniteSet(S), S # {}
  PROVE  /\ \E m \in S : \A x \in S : m <= x
         /\ \E m \in S : \A x \in S : m >= x
<1> DEFINE J == {n \in Nat : \A T \in SUBSET Int : IsFiniteSet(T) /\ Cardinality(T) = n + 1 =>
                   (\E m \in T : \A x \in T : m <= x) /\ (\E m \in T : \A x \in T : m >= x)}
<1>1. 0 \in J
  <2> SUFFICES ASSUME NEW T \in SUBSET Int, IsFiniteSet(T), Cardinality(T) = 1
      PROVE  (\E m \in T : \A x \in T : m <= x) /\ (\E m \in T : \A x \in T : m >= x)
    OBVIOUS
  <2>1. PICK t : T = {t}
    BY FS_Singleton
  <2> QED BY <2>1
<1>2. ASSUME NEW n \in Nat, n \in J PROVE n + 1 \in J
  <2> SUFFICES ASSUME NEW T \in SUBSET Int, IsFiniteSet(T), Cardinality(T) = (n + 1) + 1
      PROVE  (\E m \in T : \A x \in T : m <= x) /\ (\E m \in T : \A x \in T : m >= x)
    OBVIOUS
  <2>0. T # {}
    <3>1. Cardinality({}) = 0 /\ (n + 1) + 1 # 0
      BY FS_EmptySet
    <3> QED BY <3>1
  <2>1. PICK t \in T : TRUE
    BY <2>0
  <2>2. IsFiniteSet(T \ {t}) /\ Cardinality(T \ {t}) = n + 1
    BY FS_RemoveElement
  <2>3. PICK low \in T \ {t} : \A x \in T \ {t} : low <= x
    BY <1>2, <2>2
  <2>4. PICK high \in T \ {t} : \A x \in T \ {t} : high >= x
    BY <1>2, <2>2
  <2>5. (IF t <= low THEN t ELSE low) \in T /\ \A x \in T : (IF t <= low THEN t ELSE low) <= x
    BY <2>3
  <2>6. (IF t >= high THEN t ELSE high) \in T /\ \A x \in T : (IF t >= high THEN t ELSE high) >= x
    BY <2>4
  <2> QED BY <2>5, <2>6
<1> HIDE DEF J
<1>3. Nat \subseteq J
  BY <1>1, <1>2, NatInd
<1>4. Cardinality(S) \in Nat /\ Cardinality(S) # 0
  BY FS_CardinalityType, FS_EmptySet
<1>5. Cardinality(S) - 1 \in J /\ Cardinality(S) = (Cardinality(S) - 1) + 1
  BY <1>3, <1>4
<1> QED BY <1>5 DEF J

(* They are what Min and Max choose.                                       *)
LEMMA ExtremesAre ==
  ASSUME NEW S \in SUBSET Int, IsFiniteSet(S), S # {}
  PROVE  /\ Frames!Min(S) \in S /\ \A x \in S : Frames!Min(S) <= x
         /\ Frames!Max(S) \in S /\ \A x \in S : Frames!Max(S) >= x
  BY ExtremesExist DEF Frames!Min, Frames!Max

(* The arguments of smaller rank, and a function on some of its arguments. *)
Lower(r, i) == {j \in DOMAIN r : r[j] < r[i]}
Restricted(f, S) == [j \in S |-> f[j]]

(* The values at smaller ranks determine the next one, and f is the        *)
(* function that comes of it.                                              *)
Determines(h, D, r, T) == \A i \in D : \A g \in [Lower(r, i) -> T] : h[i][g] \in T
FollowsBelow(f, h, D, r, T) == f \in [D -> T] /\ \A i \in D : f[i] = h[i][Restricted(f, Lower(r, i))]

(* A function on ranked arguments by recursion over the rank.              *)
LEMMA RankedRecursion ==
  ASSUME NEW D, NEW r \in [D -> Nat], NEW m \in Nat, \A i \in D : r[i] < m, NEW T, NEW h, Determines(h, D, r, T)
  PROVE  \E f : FollowsBelow(f, h, D, r, T)
<1> USE DEF Determines
<1> DEFINE B(n) == {i \in D : r[i] < n}
           J == {n \in Nat : \E f \in [B(n) -> T] : \A i \in B(n) : f[i] = h[i][Restricted(f, Lower(r, i))]}
<1>1. 0 \in J
  <2> DEFINE f == [i \in B(0) |-> {}]
  <2>1. B(0) = {}
    OBVIOUS
  <2>2. f \in [B(0) -> T] /\ \A i \in B(0) : f[i] = h[i][Restricted(f, Lower(r, i))]
    BY <2>1
  <2> HIDE DEF f
  <2> QED BY <2>2
<1>2. ASSUME NEW n \in Nat, n \in J PROVE n + 1 \in J
  <2>1. PICK f \in [B(n) -> T] : \A i \in B(n) : f[i] = h[i][Restricted(f, Lower(r, i))]
    BY <1>2
  <2> DEFINE g == [i \in B(n + 1) |-> IF r[i] < n THEN f[i] ELSE h[i][Restricted(f, Lower(r, i))]]
  <2>2. \A i \in B(n + 1) : Lower(r, i) \subseteq B(n)
    BY DEF Lower
  <2>3. \A i \in B(n + 1) : Restricted(f, Lower(r, i)) \in [Lower(r, i) -> T]
    BY <2>2 DEF Restricted
  <2>4. g \in [B(n + 1) -> T]
    <3> SUFFICES ASSUME NEW i \in B(n + 1) PROVE g[i] \in T
      OBVIOUS
    <3>1. CASE r[i] < n
      BY <3>1
    <3>2. CASE ~(r[i] < n)
      BY <2>3, <3>2
    <3> QED BY <3>1, <3>2
  <2>5. \A i \in B(n) : i \in B(n + 1) /\ g[i] = f[i]
    OBVIOUS
  <2>6. \A i \in B(n + 1) : g[i] = h[i][Restricted(f, Lower(r, i))]
    BY <2>1
  <2> HIDE DEF g
  <2>7. \A i \in B(n + 1) : Restricted(f, Lower(r, i)) = Restricted(g, Lower(r, i))
    BY <2>2, <2>5 DEF Restricted
  <2>8. \A i \in B(n + 1) : g[i] = h[i][Restricted(g, Lower(r, i))]
    BY <2>6, <2>7
  <2> HIDE DEF B
  <2> QED BY <2>4, <2>8
<1> HIDE DEF J
<1>3. m \in J
  BY <1>1, <1>2, NatInd
<1>4. B(m) = D
  OBVIOUS
<1> HIDE DEF B
<1> QED BY <1>3, <1>4 DEF J, FollowsBelow

(* What a diagram that may be drawn is.                                    *)
Drawing(d) ==
  /\ IsFiniteSet(DOMAIN d.components) /\ \A id \in DOMAIN d.components : d.components[id] \in Frames!Component
  /\ d.boundaries \in Seq(Frames!Boundary) /\ d.legend \in Frames!Legend
  /\ d.grid \in [x : Int, y : Int, cols : Int, gapX : Int, gapY : Int, cellW : Int, cellH : Int]
  /\ d.view \in {<<>>} \cup (Int \X Int) /\ d.titleHeight \in Nat
  /\ \A id \in DOMAIN d.components : \E i \in DOMAIN d.legend.catalog :
       d.legend.catalog[i].kind = d.components[id].type

(* A box of whole coordinates, and one with something in it.               *)
Box == [x : Int, y : Int, width : Nat, height : Nat]
Solid == [x : Int, y : Int, width : Nat \ {0}, height : Nat \ {0}]

(* Sums and products of whole numbers are whole numbers.                   *)
LEMMA ProductIsInt == \A a, b \in Int : a * b \in Int
  OBVIOUS

(* Components are measured.                                                *)
LEMMA BoxesAreSolid ==
  ASSUME NEW d, Drawing(d)
  PROVE  \A id \in DOMAIN d.components : Frames!Measured(d, id) \in Solid
<1> SUFFICES ASSUME NEW id \in DOMAIN d.components PROVE Frames!Measured(d, id) \in Solid
  OBVIOUS
<1> DEFINE c == d.components[id]
           p == Frames!Position(d, c)
<1>1. c.pos \in {<<>>} \cup (Int \X Int) /\ c.cell \in Nat \X Nat
      /\ c.size \in (Nat \ {0}) \X (Nat \ {0})
  BY DEF Drawing, Frames!Component, Frames!Positive
<1>2. d.grid.x \in Int /\ d.grid.y \in Int /\ d.grid.gapX \in Int /\ d.grid.gapY \in Int
      /\ d.grid.cellW \in Int /\ d.grid.cellH \in Int
  BY DEF Drawing
<1> HIDE DEF c
<1>3. p[1] \in Int /\ p[2] \in Int
  <2>1. CASE c.pos # <<>>
    BY <1>1, <2>1 DEF Frames!Position
  <2>2. CASE c.pos = <<>>
    <3>1. p = <<d.grid.x + c.cell[2] * (d.grid.cellW + d.grid.gapX), d.grid.y + c.cell[1] * (d.grid.cellH + d.grid.gapY)>>
      BY <2>2 DEF Frames!Position
    <3> HIDE DEF p
    <3>2. c.cell[2] * (d.grid.cellW + d.grid.gapX) \in Int /\ c.cell[1] * (d.grid.cellH + d.grid.gapY) \in Int
      <4>1. c.cell[1] \in Int /\ c.cell[2] \in Int
        BY <1>1
      <4>2. d.grid.cellW + d.grid.gapX \in Int /\ d.grid.cellH + d.grid.gapY \in Int
        BY <1>2
      <4> QED BY <4>1, <4>2, ProductIsInt
    <3> QED BY <1>2, <3>1, <3>2
  <2> QED BY <2>1, <2>2
<1>4. Frames!Measured(d, id) = [x |-> p[1], y |-> p[2], width |-> c.size[1], height |-> c.size[2]]
  BY DEF Frames!Measured, c
<1> HIDE DEF p
<1>5. Frames!Measured(d, id) \in Solid
  BY <1>1, <1>3, <1>4 DEF Solid
<1> QED BY <1>5

(* A boundary by number.                                                   *)
LEMMA BoundariesAre ==
  ASSUME NEW d, Drawing(d)
  PROVE  /\ Len(d.boundaries) \in Nat /\ DOMAIN d.boundaries = 1 .. Len(d.boundaries)
         /\ \A i \in DOMAIN d.boundaries : d.boundaries[i] \in Frames!Boundary
         /\ \A b \in Frames!Range(d.boundaries) : \E i \in DOMAIN d.boundaries : b = d.boundaries[i]
         /\ \A i \in DOMAIN d.boundaries : d.boundaries[i] \in Frames!Range(d.boundaries)
         /\ Frames!Drawable(d) \subseteq DOMAIN d.boundaries
         /\ IsFiniteSet(DOMAIN d.boundaries) /\ IsFiniteSet(Frames!Drawable(d))
<1>1. Len(d.boundaries) \in Nat /\ DOMAIN d.boundaries = 1 .. Len(d.boundaries)
      /\ \A i \in DOMAIN d.boundaries : d.boundaries[i] \in Frames!Boundary
  BY LenProperties, ElementOfSeq DEF Drawing
<1>2. IsFiniteSet(DOMAIN d.boundaries)
  BY <1>1, FS_Interval
<1>3. Frames!Drawable(d) \subseteq DOMAIN d.boundaries
  BY DEF Frames!Drawable
<1>4. IsFiniteSet(Frames!Drawable(d))
  BY <1>2, <1>3, FS_Subset
<1> QED BY <1>1, <1>2, <1>3, <1>4 DEF Frames!Range

(* The box around the members of a boundary encloses each of them.         *)
LEMMA RectIs ==
  ASSUME NEW d, Drawing(d), NEW i \in Frames!Drawable(d)
  PROVE  LET b == d.boundaries[i]
             r == Frames!BoundaryRect(d, b)
         IN /\ b \in Frames!Boundary /\ r \in Box
            /\ Frames!MemberTop(d, b) \in Int
            /\ \A id \in Frames!Members(d, b) :
                 r.x <= Frames!Measured(d, id).x /\ r.y <= Frames!Measured(d, id).y
                 /\ r.x + r.width >= Frames!Measured(d, id).x + Frames!Measured(d, id).width
                 /\ r.y + r.height >= Frames!Measured(d, id).y + Frames!Measured(d, id).height
<1> DEFINE b == d.boundaries[i]
           M == Frames!Members(d, b)
           R == {Frames!Measured(d, id) : id \in M}
           xs == {r.x : r \in R}
           ys == {r.y : r \in R}
           rs == {Frames!Right(r) : r \in R}
           bs == {Frames!Bottom(r) : r \in R}
           left == Frames!Min(xs)
           top == Frames!Min(ys)
           right == Frames!Max(rs)
           bottom == Frames!Max(bs)
           pad == Frames!Most(b.pad, 22)
<1>1. b \in Frames!Boundary
  BY BoundariesAre
<1>2. M # {} /\ M \subseteq DOMAIN d.components
  BY DEF Frames!Drawable, Frames!Members
<1>3. IsFiniteSet(M)
  BY <1>2, FS_Subset DEF Drawing
<1>4. \A id \in M : Frames!Measured(d, id) \in Solid
  BY <1>2, BoxesAreSolid
<1>5. \A id \in M : Frames!Measured(d, id).x \in Int /\ Frames!Measured(d, id).y \in Int /\ Frames!Measured(d, id).width \in Nat \ {0} /\ Frames!Measured(d, id).height \in Nat \ {0}
  BY <1>4 DEF Solid
<1> HIDE DEF M
<1>6. IsFiniteSet(xs) /\ xs \in SUBSET Int /\ xs # {}
  <2> DEFINE f == [id \in M |-> Frames!Measured(d, id).x]
  <2>1. DOMAIN f = M /\ (\A y \in xs : \E id \in M : y = f[id]) /\ \A id \in M : f[id] \in xs
    OBVIOUS
  <2>2. xs \in SUBSET Int /\ xs # {}
    BY <1>2, <1>5
  <2> HIDE DEF f, xs
  <2>3. IsFiniteSet(xs)
    BY <2>1, <1>3, ValuesAreFinite
  <2> QED BY <2>2, <2>3
<1>7. IsFiniteSet(ys) /\ ys \in SUBSET Int /\ ys # {}
  <2> DEFINE f == [id \in M |-> Frames!Measured(d, id).y]
  <2>1. DOMAIN f = M /\ (\A y \in ys : \E id \in M : y = f[id]) /\ \A id \in M : f[id] \in ys
    OBVIOUS
  <2>2. ys \in SUBSET Int /\ ys # {}
    BY <1>2, <1>5
  <2> HIDE DEF f, ys
  <2>3. IsFiniteSet(ys)
    BY <2>1, <1>3, ValuesAreFinite
  <2> QED BY <2>2, <2>3
<1>8. IsFiniteSet(rs) /\ rs \in SUBSET Int /\ rs # {} /\ \A id \in M : Frames!Measured(d, id).x + Frames!Measured(d, id).width \in rs
  <2> DEFINE f == [id \in M |-> Frames!Right(Frames!Measured(d, id))]
  <2>1. DOMAIN f = M /\ (\A y \in rs : \E id \in M : y = f[id]) /\ \A id \in M : f[id] \in rs
    OBVIOUS
  <2>2. rs \in SUBSET Int /\ rs # {} /\ \A id \in M : Frames!Measured(d, id).x + Frames!Measured(d, id).width \in rs
    BY <1>2, <1>5 DEF Frames!Right
  <2> HIDE DEF f, rs
  <2>3. IsFiniteSet(rs)
    BY <2>1, <1>3, ValuesAreFinite
  <2> QED BY <2>2, <2>3
<1>9. IsFiniteSet(bs) /\ bs \in SUBSET Int /\ bs # {} /\ \A id \in M : Frames!Measured(d, id).y + Frames!Measured(d, id).height \in bs
  <2> DEFINE f == [id \in M |-> Frames!Bottom(Frames!Measured(d, id))]
  <2>1. DOMAIN f = M /\ (\A y \in bs : \E id \in M : y = f[id]) /\ \A id \in M : f[id] \in bs
    OBVIOUS
  <2>2. bs \in SUBSET Int /\ bs # {} /\ \A id \in M : Frames!Measured(d, id).y + Frames!Measured(d, id).height \in bs
    BY <1>2, <1>5 DEF Frames!Bottom
  <2> HIDE DEF f, bs
  <2>3. IsFiniteSet(bs)
    BY <2>1, <1>3, ValuesAreFinite
  <2> QED BY <2>2, <2>3
<1>10. (\A id \in M : Frames!Measured(d, id).x \in xs) /\ \A id \in M : Frames!Measured(d, id).y \in ys
  OBVIOUS
<1>11. Frames!MemberTop(d, b) = top
  <2>1. ys = {Frames!Measured(d, id).y : id \in M}
    OBVIOUS
  <2> QED BY <2>1 DEF Frames!MemberTop, M
<1>12. Frames!BoundaryRect(d, b) = [x |-> left - b.pad, y |-> top - pad, width |-> right - left + 2 * b.pad,
                                   height |-> bottom - top + pad + 20]
  BY DEF Frames!BoundaryRect, M
<1> HIDE DEF xs, ys, rs, bs
<1>13. /\ left \in Int /\ \A id \in M : left <= Frames!Measured(d, id).x
       /\ top \in Int /\ \A id \in M : top <= Frames!Measured(d, id).y
       /\ right \in Int /\ \A id \in M : right >= Frames!Measured(d, id).x + Frames!Measured(d, id).width
       /\ bottom \in Int /\ \A id \in M : bottom >= Frames!Measured(d, id).y + Frames!Measured(d, id).height
  <2>1. left \in Int /\ \A id \in M : left <= Frames!Measured(d, id).x
    BY <1>6, <1>10, ExtremesAre
  <2>2. top \in Int /\ \A id \in M : top <= Frames!Measured(d, id).y
    BY <1>7, <1>10, ExtremesAre
  <2>3. right \in Int /\ \A id \in M : right >= Frames!Measured(d, id).x + Frames!Measured(d, id).width
    BY <1>8, ExtremesAre
  <2>4. bottom \in Int /\ \A id \in M : bottom >= Frames!Measured(d, id).y + Frames!Measured(d, id).height
    BY <1>9, ExtremesAre
  <2> QED BY <2>1, <2>2, <2>3, <2>4
<1>14. b.pad \in Nat /\ pad \in Nat
  BY <1>1 DEF Frames!Boundary, Frames!Most
<1> HIDE DEF left, top, right, bottom, pad, b
<1>15. right - left \in Nat /\ bottom - top \in Nat
  <2>1. PICK id \in M : TRUE
    BY <1>2
  <2> QED BY <2>1, <1>5, <1>13
<1> DEFINE r == Frames!BoundaryRect(d, b)
<1>16. /\ r.x = left - b.pad /\ r.y = top - pad /\ r.x + r.width = right + b.pad
       /\ r.y + r.height = bottom + 20 /\ r \in Box
  BY <1>12, <1>13, <1>14, <1>15 DEF Box
<1> HIDE DEF r
<1>17. \A id \in M : r.x <= Frames!Measured(d, id).x /\ r.y <= Frames!Measured(d, id).y
                 /\ r.x + r.width >= Frames!Measured(d, id).x + Frames!Measured(d, id).width
                 /\ r.y + r.height >= Frames!Measured(d, id).y + Frames!Measured(d, id).height
  <2> TAKE id \in M
  <2> QED BY <1>5, <1>13, <1>14, <1>16
<1> QED BY <1>1, <1>11, <1>13, <1>16, <1>17 DEF r, b, M

(* So does the box that a long title has widened.                          *)
LEMMA ExpandedIs ==
  ASSUME NEW d, Drawing(d), NEW i \in Frames!Drawable(d)
  PROVE  LET b == d.boundaries[i]
             r == Frames!Expanded(d, b)
         IN /\ r \in Box
            /\ \A id \in Frames!Members(d, b) :
                 r.x <= Frames!Measured(d, id).x /\ r.y <= Frames!Measured(d, id).y
                 /\ r.x + r.width >= Frames!Measured(d, id).x + Frames!Measured(d, id).width
                 /\ r.y + r.height >= Frames!Measured(d, id).y + Frames!Measured(d, id).height
<1> DEFINE b == d.boundaries[i]
           q == Frames!BoundaryRect(d, b)
           r == Frames!Expanded(d, b)
           extra == Frames!Most(0, b.title.least + 2 * Frames!Inset - q.width)
<1>1. b \in Frames!Boundary /\ q \in Box
  BY RectIs
<1>2. \A id \in Frames!Members(d, b) :
                 q.x <= Frames!Measured(d, id).x /\ q.y <= Frames!Measured(d, id).y
                 /\ q.x + q.width >= Frames!Measured(d, id).x + Frames!Measured(d, id).width
                 /\ q.y + q.height >= Frames!Measured(d, id).y + Frames!Measured(d, id).height
  BY RectIs
<1>3. \A id \in Frames!Members(d, b) : Frames!Measured(d, id).x \in Int /\ Frames!Measured(d, id).width \in Nat
  BY BoxesAreSolid DEF Frames!Members, Solid
<1>4. extra \in Nat /\ q.x \in Int /\ q.width \in Nat
  BY <1>1 DEF Frames!Most, Frames!Inset, Frames!Boundary, Box
<1>5. r = IF d.enforced THEN [q EXCEPT !.x = q.x - extra \div 2, !.width = q.width + extra] ELSE q
  BY DEF Frames!Expanded
<1> HIDE DEF b, q, r, extra
<1>6. CASE d.enforced
  <2>1. extra \div 2 \in Nat /\ extra \div 2 <= extra
    BY <1>4
  <2> DEFINE half == extra \div 2
  <2> HIDE DEF half
  <2>4. r = [q EXCEPT !.x = q.x - half, !.width = q.width + extra] /\ half \in Nat
    BY <1>5, <1>6, <2>1 DEF half
  <2>5. r.y = q.y /\ r.height = q.height /\ r.x = q.x - half /\ r.width = q.width + extra
    BY <1>1, <2>4 DEF Box
  <2>6. q.x - half \in Int /\ q.width + extra \in Nat
    BY <1>4, <2>4
  <2>7. r \in Box
    BY <1>1, <2>4, <2>6 DEF Box
  <2>2. r \in Box /\ r.y = q.y /\ r.height = q.height /\ r.x = q.x - extra \div 2 /\ r.width = q.width + extra
    BY <2>5, <2>7 DEF half
  <2>3. \A id \in Frames!Members(d, b) : r.x <= Frames!Measured(d, id).x /\ r.x + r.width >= Frames!Measured(d, id).x + Frames!Measured(d, id).width
    <3> TAKE id \in Frames!Members(d, b)
    <3> QED BY <1>2, <1>3, <1>4, <2>1, <2>2
  <2> QED BY <1>2, <2>2, <2>3 DEF b, r
<1>7. CASE ~d.enforced
  BY <1>1, <1>2, <1>5, <1>7 DEF b, r
<1> QED BY <1>6, <1>7

(* A title that covers something moves up, past all that it covered.       *)
LEMMA RaiseIs ==
  ASSUME NEW O, IsFiniteSet(O), \A o \in O : o \in Box, NEW t \in Box
  PROVE  LET u == Frames!Raise(t, O)
         IN /\ u \in Box /\ u.height = t.height /\ u.y <= t.y
            /\ Frames!Covered(t, O) = {} => u = t
            /\ \A o \in Frames!Covered(t, O) : u.y + u.height <= o.y
<1> DEFINE C == Frames!Covered(t, O)
           u == Frames!Raise(t, O)
           Y == {o.y - Frames!TitleGap - t.height : o \in C}
<1>1. CASE C = {}
  <2>1. u = t
    BY <1>1 DEF Frames!Raise
  <2> QED BY <1>1, <2>1 DEF Box
<1>2. CASE C # {}
  <2>1. u = [t EXCEPT !.y = Frames!Min(Y)]
    BY <1>2 DEF Frames!Raise
  <2>2. \A o \in C : o \in O /\ o.y \in Int /\ t.y + t.height > o.y
    BY DEF Frames!Covered, Frames!RectsOverlap, Frames!Bottom, Box
  <2>3. C \subseteq O /\ IsFiniteSet(C)
    <3>1. C \subseteq O
      BY DEF Frames!Covered
    <3> QED BY <3>1, FS_Subset
  <2>4. t.y \in Int /\ t.height \in Nat
    BY DEF Box
  <2> HIDE DEF C
  <2>5. Y \in SUBSET Int /\ Y # {} /\ \A o \in C : o.y - 2 - t.height \in Y
    BY <1>2, <2>2, <2>4 DEF Frames!TitleGap
  <2>6. IsFiniteSet(Y)
    <3> DEFINE f == [o \in C |-> o.y - Frames!TitleGap - t.height]
    <3>1. DOMAIN f = C /\ (\A y \in Y : \E o \in C : y = f[o]) /\ \A o \in C : f[o] \in Y
      OBVIOUS
    <3> HIDE DEF f, Y
    <3> QED BY <2>3, <3>1, ValuesAreFinite
  <2>7. \E o \in C : TRUE
    BY <1>2
  <2> HIDE DEF Y, u
  <2>8. Frames!Min(Y) \in Int /\ \A y \in Y : Frames!Min(Y) <= y
    BY <2>5, <2>6, ExtremesAre
  <2>9. u \in Box /\ u.height = t.height /\ u.y = Frames!Min(Y)
    BY <2>1, <2>8 DEF Box
  <2>10. \A o \in C : u.y + u.height <= o.y - 2
    <3> TAKE o \in C
    <3>1. u.y <= o.y - 2 - t.height
      BY <2>5, <2>8, <2>9
    <3> QED BY <2>2, <2>4, <2>8, <2>9, <3>1
  <2>11. u.y <= t.y
    <3>1. PICK o \in C : TRUE
      BY <2>7
    <3>2. u.y + u.height <= o.y - 2 /\ o.y \in Int /\ t.y + t.height > o.y
      BY <2>2, <2>10
    <3> QED BY <2>4, <2>8, <2>9, <3>2
  <2>12. \A o \in C : u.y + u.height <= o.y
    <3> TAKE o \in C
    <3> QED BY <2>2, <2>4, <2>8, <2>9, <2>10
  <2> QED BY <1>2, <2>9, <2>11, <2>12 DEF C, u
<1> QED BY <1>1, <1>2

(* After as many moves as there are obstacles a title covers none: each    *)
(* move takes it past one for good.                                        *)
LEMMA RaisedIs ==
  ASSUME NEW O, IsFiniteSet(O), \A o \in O : o \in Box, NEW t \in Box, NEW n \in Nat, Cardinality(O) <= n
  PROVE  Frames!Raised(t, O, n) \in Box /\ Frames!Covered(Frames!Raised(t, O, n), O) = {}
<1> DEFINE Eq(f) == f = [k \in 0 .. n |-> IF k = 0 THEN t ELSE Frames!Raise(f[k - 1], O)]
           h == [x \in Box \X (1 .. n) |-> Frames!Raise(x[1], O)]
<1>1. Frames!Raised(t, O, n) = (CHOOSE f : Eq(f))[n]
  BY DEF Frames!Raised
<1>2. h \in [Box \X (1 .. n) -> Box]
  <2>1. \A u \in Box : Frames!Raise(u, O) \in Box
    BY RaiseIs
  <2> QED BY <2>1
<1>3. ASSUME NEW u \in Box, NEW k \in 1 .. n PROVE h[<<u, k>>] = Frames!Raise(u, O)
  OBVIOUS
<1> HIDE DEF h
<1>4. PICK f \in [0 .. n -> Box] : f[0] = t /\ \A k \in 1 .. n : f[k] = h[<<f[k - 1], k>>]
  <2>1. \E f : Recurs(f, n, Box, t, h)
    BY <1>2, RecursionExists
  <2> QED BY <2>1 DEF Recurs
<1>5. \A k \in 1 .. n : f[k] = Frames!Raise(f[k - 1], O)
  <2> TAKE k \in 1 .. n
  <2>1. f[k - 1] \in Box
    BY <1>4
  <2> QED BY <1>3, <1>4, <2>1
<1>6. Eq(f)
  BY <1>4, <1>5
<1> DEFINE F == CHOOSE g : Eq(g)
<1>7. Eq(F)
  BY <1>6
<1> HIDE DEF F
<1>8. F[0] = t /\ \A k \in 1 .. n : F[k] = Frames!Raise(F[k - 1], O)
  <2> 0 \in 0 .. n /\ \A k \in 1 .. n : k \in 0 .. n /\ k # 0
    OBVIOUS
  <2> QED BY <1>7
<1> HIDE DEF Eq
<1> DEFINE Past(u) == {o \in O : u.y + u.height <= o.y}
           J == {k \in Nat : k <= n => /\ F[k] \in Box /\ F[k].height = t.height
                                       /\ \/ Frames!Covered(F[k], O) = {}
                                          \/ Cardinality(Past(F[k])) >= k}
<1>9. \A u : IsFiniteSet(Past(u)) /\ Past(u) \subseteq O /\ Cardinality(Past(u)) \in Nat /\ Cardinality(Past(u)) <= Cardinality(O)
             /\ (Cardinality(Past(u)) = Cardinality(O) => Past(u) = O)
  <2> TAKE u
  <2>1. Past(u) \subseteq O
    OBVIOUS
  <2> HIDE DEF Past
  <2> QED BY <2>1, FS_Subset, FS_CardinalityType
<1>10. 0 \in J
  <2> HIDE DEF Past
  <2>1. Cardinality(Past(t)) \in Nat
    BY <1>9
  <2> QED BY <1>8, <2>1
<1>11. ASSUME NEW k \in Nat, k \in J PROVE k + 1 \in J
  <2> DEFINE v == F[k]
             w == F[k + 1]
  <2> SUFFICES ASSUME k + 1 <= n
      PROVE  /\ w \in Box /\ w.height = t.height
             /\ Frames!Covered(w, O) = {} \/ Cardinality(Past(w)) >= k + 1
    OBVIOUS
  <2>1. v \in Box /\ v.height = t.height /\ (Frames!Covered(v, O) = {} \/ Cardinality(Past(v)) >= k)
    BY <1>11
  <2>2. w = Frames!Raise(v, O)
    <3>1. k + 1 \in 1 .. n /\ (k + 1) - 1 = k
      OBVIOUS
    <3> QED BY <1>8, <3>1
  <2> HIDE DEF v, w
  <2>3. w \in Box /\ w.height = v.height /\ w.y <= v.y /\ (Frames!Covered(v, O) = {} => w = v)
        /\ \A o \in Frames!Covered(v, O) : w.y + w.height <= o.y
    BY <2>1, <2>2, RaiseIs
  <2>4. CASE Frames!Covered(v, O) = {}
    BY <2>1, <2>3, <2>4
  <2>5. CASE Frames!Covered(v, O) # {}
    <3>1. PICK o \in Frames!Covered(v, O) : TRUE
      BY <2>5
    <3>2. o \in O /\ v.y + v.height > o.y
      BY <2>1 DEF Frames!Covered, Frames!RectsOverlap, Frames!Bottom, Box
    <3>3. o \notin Past(v) /\ o \in Past(w)
      <4>1. v.y \in Int /\ v.height \in Nat /\ o.y \in Int
        BY <2>1, <3>2 DEF Box
      <4> QED BY <2>3, <3>2, <4>1
    <3>4. Past(v) \subseteq Past(w)
      <4>1. v.y \in Int /\ v.height \in Nat /\ w.y \in Int /\ w.height = v.height
        BY <2>1, <2>3 DEF Box
      <4>2. \A p \in O : p.y \in Int
        BY DEF Box
      <4> QED BY <2>3, <4>1, <4>2
    <3>5. IsFiniteSet(Past(v)) /\ IsFiniteSet(Past(w)) /\ Cardinality(Past(v)) \in Nat /\ Cardinality(Past(w)) \in Nat
      BY <1>9
    <3>6. Cardinality(Past(v)) >= k
      BY <2>1, <2>5
    <3> HIDE DEF Past
    <3>7. Cardinality(Past(v)) <= Cardinality(Past(w)) /\ (Cardinality(Past(w)) = Cardinality(Past(v)) => Past(w) = Past(v))
      BY <3>4, <3>5, FS_Subset
    <3>8. Cardinality(Past(w)) >= k + 1
      BY <3>3, <3>5, <3>6, <3>7
    <3> QED BY <2>1, <2>3, <3>8
  <2> QED BY <2>4, <2>5
<1> HIDE DEF J, Past
<1>12. n \in J
  BY <1>10, <1>11, NatInd
<1>13. F[n] \in Box /\ (Frames!Covered(F[n], O) = {} \/ Cardinality(Past(F[n])) >= n)
  BY <1>12 DEF J
<1>14. CASE Cardinality(Past(F[n])) >= n
  <2>1. Cardinality(O) \in Nat
    BY FS_CardinalityType
  <2>2. Past(F[n]) = O
    BY <1>9, <1>14, <2>1
  <2>3. \A o \in O : F[n].y + F[n].height <= o.y
    BY <2>2 DEF Past
  <2>4. \A o \in O : ~Frames!RectsOverlap(F[n], o, 0)
    <3> TAKE o \in O
    <3>1. F[n].y + F[n].height <= o.y /\ F[n].y \in Int /\ F[n].height \in Nat /\ o.y \in Int
      BY <1>13, <2>3 DEF Box
    <3> QED BY <3>1 DEF Frames!RectsOverlap, Frames!Bottom
  <2>5. Frames!Covered(F[n], O) = {}
    BY <2>4 DEF Frames!Covered
  <2> QED BY <1>1, <1>13, <2>5 DEF F
<1> QED BY <1>1, <1>13, <1>14 DEF F

(* Titles are laid out in an order in which each comes after fewer.        *)
LEMMA BeforeIs ==
  ASSUME NEW d, Drawing(d)
  PROVE  /\ \A i \in Frames!Drawable(d) : /\ Frames!Before(d, i) \subseteq Frames!Drawable(d)
                                          /\ IsFiniteSet(Frames!Before(d, i))
                                          /\ Cardinality(Frames!Before(d, i)) \in Nat
                                          /\ Cardinality(Frames!Before(d, i)) <= Cardinality(Frames!Drawable(d))
         /\ \A i, j \in Frames!Drawable(d) :
              /\ j \in Frames!Before(d, i) => Cardinality(Frames!Before(d, j)) < Cardinality(Frames!Before(d, i))
              /\ i = j \/ i \in Frames!Before(d, j) \/ j \in Frames!Before(d, i)
<1> DEFINE D == Frames!Drawable(d)
           a(i) == Frames!Area(d, i)
           B(i) == Frames!Before(d, i)
<1>1. D \subseteq Nat /\ IsFiniteSet(D)
  BY BoundariesAre
<1>2. \A i \in D : a(i) \in Int
  <2> TAKE i \in D
  <2> DEFINE r == Frames!BoundaryRect(d, d.boundaries[i])
  <2>1. r \in Box
    BY RectIs
  <2>2. a(i) = r.width * r.height
    BY DEF Frames!Area
  <2> HIDE DEF r
  <2>3. r.width \in Int /\ r.height \in Int
    BY <2>1 DEF Box
  <2> QED BY <2>2, <2>3, ProductIsInt
<1>3. \A i, j : j \in B(i) <=> j \in D /\ (a(j) < a(i) \/ (a(j) = a(i) /\ j < i))
  BY DEF Frames!Before
<1> HIDE DEF D, a, B
<1>4. \A i \in D : B(i) \subseteq D /\ IsFiniteSet(B(i)) /\ Cardinality(B(i)) \in Nat /\ Cardinality(B(i)) <= Cardinality(D)
  <2> TAKE i \in D
  <2>1. B(i) \subseteq D
    BY <1>3
  <2> QED BY <1>1, <2>1, FS_Subset, FS_CardinalityType
<1>5. ASSUME NEW i \in D, NEW j \in D, j \in B(i) PROVE Cardinality(B(j)) < Cardinality(B(i))
  <2>1. B(j) \subseteq B(i) /\ j \notin B(j)
    <3>1. j \notin B(j)
      BY <1>1, <1>2, <1>3
    <3>2. ASSUME NEW k \in B(j) PROVE k \in B(i)
      <4>0. k \in D
        BY <1>3, <3>2
      <4>1. k \in D /\ k \in Int /\ j \in Int /\ i \in Int /\ a(i) \in Int /\ a(j) \in Int /\ a(k) \in Int
        BY <1>1, <1>2, <4>0
      <4>2. a(k) < a(j) \/ (a(k) = a(j) /\ k < j)
        BY <1>3, <3>2
      <4>3. a(j) < a(i) \/ (a(j) = a(i) /\ j < i)
        BY <1>3, <1>5
      <4>4. a(k) < a(i) \/ (a(k) = a(i) /\ k < i)
        BY <4>1, <4>2, <4>3
      <4> QED BY <1>3, <4>1, <4>4
    <3> QED BY <3>1, <3>2
  <2>2. Cardinality(B(j)) <= Cardinality(B(i)) /\ (Cardinality(B(i)) = Cardinality(B(j)) => B(i) = B(j))
    BY <1>4, <2>1, FS_Subset
  <2> QED BY <1>4, <1>5, <2>1, <2>2
<1>6. \A i, j \in D : i = j \/ i \in B(j) \/ j \in B(i)
  <2> TAKE i, j \in D
  <2>1. i \in Int /\ j \in Int /\ a(i) \in Int /\ a(j) \in Int
    BY <1>1, <1>2
  <2>2. i = j \/ (a(j) < a(i) \/ (a(j) = a(i) /\ j < i)) \/ (a(i) < a(j) \/ (a(i) = a(j) /\ i < j))
    BY <2>1
  <2> QED BY <1>3, <2>2
<1> QED BY <1>4, <1>5, <1>6 DEF D, B

(* What a title has to give way to is no more than the moves it may make.  *)
LEMMA ObstaclesAre ==
  ASSUME NEW d, Drawing(d), NEW i \in Frames!Drawable(d),
         NEW g, \A j \in Frames!Before(d, i) : g[j] \in Box
  PROVE  LET O == Frames!Obstacles(d, {g[j] : j \in Frames!Before(d, i)})
         IN IsFiniteSet(O) /\ (\A o \in O : o \in Box) /\ Cardinality(O) <= Frames!Tries(d) /\ Frames!Tries(d) \in Nat
<1> DEFINE P == {Frames!Measured(d, id) : id \in DOMAIN d.components}
           Q == {g[j] : j \in Frames!Before(d, i)}
           D == Frames!Drawable(d)
<1>1. IsFiniteSet(P) /\ Cardinality(P) <= Cardinality(DOMAIN d.components) /\ \A o \in P : o \in Box
  <2>1. \A id \in DOMAIN d.components : Frames!Measured(d, id) \in Solid
    BY BoxesAreSolid
  <2>2. \A o \in P : o \in Box
    BY <2>1 DEF Solid, Box
  <2> DEFINE f == [id \in DOMAIN d.components |-> Frames!Measured(d, id)]
  <2>3. DOMAIN f = DOMAIN d.components
    OBVIOUS
  <2>4. IsFiniteSet(DOMAIN d.components)
    BY DEF Drawing
  <2>5. (\A y \in P : \E x \in DOMAIN d.components : y = f[x]) /\ \A x \in DOMAIN d.components : f[x] \in P
    OBVIOUS
  <2> HIDE DEF P, f
  <2>6. IsFiniteSet(P) /\ Cardinality(P) <= Cardinality(DOMAIN d.components)
    BY <2>3, <2>4, <2>5, ValuesAreFinite
  <2> QED BY <2>2, <2>6
<1>2. IsFiniteSet(Frames!Before(d, i)) /\ Cardinality(Frames!Before(d, i)) \in Nat
      /\ Cardinality(Frames!Before(d, i)) <= Cardinality(D)
  BY BeforeIs
<1>3. IsFiniteSet(Q) /\ Cardinality(Q) <= Cardinality(Frames!Before(d, i)) /\ \A o \in Q : o \in Box
  <2> DEFINE f == [j \in Frames!Before(d, i) |-> g[j]]
  <2>1. DOMAIN f = Frames!Before(d, i) /\ (\A y \in Q : \E x \in Frames!Before(d, i) : y = f[x])
        /\ \A x \in Frames!Before(d, i) : f[x] \in Q
    OBVIOUS
  <2>2. \A o \in Q : o \in Box
    OBVIOUS
  <2> HIDE DEF f, Q
  <2>3. IsFiniteSet(Q) /\ Cardinality(Q) <= Cardinality(Frames!Before(d, i))
    BY <1>2, <2>1, ValuesAreFinite
  <2> QED BY <2>2, <2>3
<1>4. Frames!Obstacles(d, Q) = P \cup Q
  BY DEF Frames!Obstacles
<1>5. Frames!Tries(d) = Cardinality(D) + Cardinality(DOMAIN d.components) + 1
  BY FramesCount DEF Frames!Tries
<1>6. Cardinality(D) \in Nat /\ Cardinality(DOMAIN d.components) \in Nat
  BY BoundariesAre, FS_CardinalityType DEF Drawing
<1> HIDE DEF P, Q, D
<1>7. Cardinality(P) \in Nat /\ Cardinality(Q) \in Nat /\ IsFiniteSet(P \cap Q)
  <2>1. P \cap Q \in SUBSET P
    OBVIOUS
  <2> QED BY <1>1, <1>3, <2>1, FS_CardinalityType, FS_Subset
<1>8. IsFiniteSet(P \cup Q) /\ Cardinality(P \cup Q) = Cardinality(P) + Cardinality(Q) - Cardinality(P \cap Q)
  BY <1>1, <1>3, FS_Union
<1>9. Cardinality(P \cap Q) \in Nat
  BY <1>7, FS_CardinalityType
<1>10. Cardinality(P \cup Q) <= Frames!Tries(d) /\ Frames!Tries(d) \in Nat
  BY <1>1, <1>2, <1>3, <1>5, <1>6, <1>7, <1>8, <1>9
<1> QED BY <1>1, <1>3, <1>4, <1>8, <1>10 DEF Q

(* A title as it would be without anything in its way.                     *)
LEMMA TitleOfIsBox ==
  ASSUME NEW d, Drawing(d), NEW i \in Frames!Drawable(d)
  PROVE  Frames!TitleOf(d, d.boundaries[i]) \in Box
<1> DEFINE b == d.boundaries[i]
           r == Frames!Expanded(d, b)
<1>1. r \in Box
  BY ExpandedIs
<1>2. b \in Frames!Boundary /\ Frames!MemberTop(d, b) \in Int
  BY RectIs
<1>3. d.titleHeight \in Nat
  BY DEF Drawing
<1>4. r.x \in Int /\ r.width \in Nat
  BY <1>1 DEF Box
<1>5. b.title.preferred \in Nat
  BY <1>2 DEF Frames!Boundary
<1>6. Frames!TitleOf(d, b) = [x |-> r.x + Frames!Inset, y |-> Frames!MemberTop(d, b) - 4 - d.titleHeight,
           width |-> Frames!Most(0, Frames!Least(r.width - 2 * Frames!Inset, b.title.preferred)), height |-> d.titleHeight]
  BY DEF Frames!TitleOf
<1> HIDE DEF r, b
<1>7. Frames!Most(0, Frames!Least(r.width - 2 * Frames!Inset, b.title.preferred)) \in Nat /\ r.x + Frames!Inset \in Int
  BY <1>4, <1>5 DEF Frames!Most, Frames!Least, Frames!Inset
<1>8. Frames!TitleOf(d, b) \in Box
  BY <1>2, <1>3, <1>6, <1>7 DEF Box
<1> QED BY <1>8 DEF b

(* The title of each frame is where the titles before it leave room.       *)
LEMMA TitlesAre ==
  ASSUME NEW d, Drawing(d)
  PROVE  /\ DOMAIN Frames!Titles(d) = Frames!Drawable(d)
         /\ \A i \in Frames!Drawable(d) :
              LET O == Frames!Obstacles(d, {Frames!Titles(d)[j] : j \in Frames!Before(d, i)})
              IN Frames!Titles(d)[i] \in Box /\ Frames!Covered(Frames!Titles(d)[i], O) = {}
<1> DEFINE D == Frames!Drawable(d)
           B(i) == Frames!Before(d, i)
           titleAt(i, g) == Frames!Raised(Frames!TitleOf(d, d.boundaries[i]), Frames!Obstacles(d, {g[j] : j \in B(i)}), Frames!Tries(d))
           r == [i \in D |-> Cardinality(B(i))]
           m == Cardinality(D) + 1
           h == [i \in D |-> [g \in [Lower(r, i) -> Box] |-> titleAt(i, g)]]
           Eq(f) == f = [i \in D |-> titleAt(i, f)]
<1>1. IsFiniteSet(D) /\ Cardinality(D) \in Nat
  BY BoundariesAre, FS_CardinalityType
<1>2. r \in [D -> Nat] /\ m \in Nat /\ (\A i \in D : r[i] < m) /\ DOMAIN r = D
  BY <1>1, BeforeIs
<1>3. \A i \in D : B(i) \subseteq Lower(r, i)
  BY BeforeIs DEF Lower
<1>4. ASSUME NEW i \in D, NEW g, \A j \in B(i) : g[j] \in Box
      PROVE  LET O == Frames!Obstacles(d, {g[j] : j \in B(i)})
             IN titleAt(i, g) \in Box /\ Frames!Covered(titleAt(i, g), O) = {}
  BY <1>4, ObstaclesAre, TitleOfIsBox, RaisedIs
<1> HIDE DEF r, m
<1>5. \A i \in D : \A g \in [Lower(r, i) -> Box] : h[i][g] = titleAt(i, g) /\ h[i][g] \in Box
  <2> TAKE i \in D
  <2> TAKE g \in [Lower(r, i) -> Box]
  <2>1. h[i][g] = titleAt(i, g)
    OBVIOUS
  <2>2. \A j \in B(i) : g[j] \in Box
    BY <1>3
  <2>3. titleAt(i, g) \in Box
    BY <1>4, <2>2
  <2> HIDE DEF h, titleAt
  <2> QED BY <2>1, <2>3
<1> HIDE DEF h
<1>6. PICK f \in [D -> Box] : \A i \in D : f[i] = h[i][Restricted(f, Lower(r, i))]
  <2>1. Determines(h, D, r, Box)
    BY <1>5 DEF Determines
  <2> HIDE DEF D, titleAt
  <2>2. \E f : FollowsBelow(f, h, D, r, Box)
    BY <1>2, <2>1, RankedRecursion
  <2> QED BY <2>2 DEF FollowsBelow
<1>7. ASSUME NEW i \in D PROVE f[i] = titleAt(i, f)
  <2> DEFINE g == Restricted(f, Lower(r, i))
  <2>1. Lower(r, i) \subseteq D
    BY <1>2 DEF Lower
  <2>2. g \in [Lower(r, i) -> Box] /\ \A j \in Lower(r, i) : g[j] = f[j]
    BY <1>6, <2>1 DEF Restricted
  <2> HIDE DEF g
  <2>3. f[i] = titleAt(i, g)
    BY <1>5, <1>6, <2>2 DEF g
  <2>4. {g[j] : j \in B(i)} = {f[j] : j \in B(i)}
    BY <1>3, <2>2
  <2> QED BY <2>3, <2>4
<1>8. Eq(f)
  BY <1>6, <1>7
<1> DEFINE F == CHOOSE g : Eq(g)
<1>9. Eq(F)
  BY <1>8
<1>10. Frames!Titles(d) = F
  BY DEF Frames!Titles
<1> HIDE DEF F
<1>11. DOMAIN F = D /\ \A i \in D : F[i] = titleAt(i, F)
  BY <1>9
<1> HIDE DEF Eq
<1> DEFINE J == {n \in Nat : \A i \in D : r[i] < n => F[i] \in Box}
<1>12. 0 \in J
  BY <1>2
<1>13. ASSUME NEW n \in Nat, n \in J PROVE n + 1 \in J
  <2> SUFFICES ASSUME NEW i \in D, r[i] < n + 1 PROVE F[i] \in Box
    OBVIOUS
  <2>1. \A j \in B(i) : j \in D /\ r[j] < n
    <3> TAKE j \in B(i)
    <3>1. j \in D /\ r[j] < r[i]
      BY <1>2, <1>3 DEF Lower
    <3> QED BY <1>2, <3>1
  <2>2. \A j \in B(i) : F[j] \in Box
    BY <1>13, <2>1
  <2> HIDE DEF titleAt, D, B
  <2>3. titleAt(i, F) \in Box
    BY <1>4, <2>2
  <2> QED BY <1>11, <2>3
<1> HIDE DEF J
<1>14. m \in J
  BY <1>2, <1>12, <1>13, NatInd
<1>15. \A i \in D : F[i] \in Box
  BY <1>2, <1>14 DEF J
<1>16. ASSUME NEW i \in D
       PROVE  LET O == Frames!Obstacles(d, {F[j] : j \in B(i)}) IN F[i] \in Box /\ Frames!Covered(F[i], O) = {}
  <2>1. \A j \in B(i) : F[j] \in Box
    BY <1>15, BeforeIs
  <2> HIDE DEF titleAt, D, B
  <2>2. F[i] = titleAt(i, F)
    BY <1>11
  <2> QED BY <1>4, <2>1, <2>2
<1> QED BY <1>10, <1>11, <1>16

(* So no title covers another, or a component.                             *)
LEMMA TitlesAreApart ==
  ASSUME NEW d, Drawing(d), NEW i \in Frames!Drawable(d)
  PROVE  /\ Frames!Titles(d)[i] \in Box
         /\ \A id \in DOMAIN d.components : ~Frames!RectsOverlap(Frames!Titles(d)[i], Frames!Measured(d, id), 0)
         /\ \A j \in Frames!Drawable(d) : i # j => ~Frames!RectsOverlap(Frames!Titles(d)[i], Frames!Titles(d)[j], 0)
<1> DEFINE F == Frames!Titles(d)
           D == Frames!Drawable(d)
<1>1. ASSUME NEW k \in D
      PROVE  /\ F[k] \in Box
             /\ \A id \in DOMAIN d.components : ~Frames!RectsOverlap(F[k], Frames!Measured(d, id), 0)
             /\ \A j \in Frames!Before(d, k) : ~Frames!RectsOverlap(F[k], F[j], 0)
  BY TitlesAre DEF Frames!Covered, Frames!Obstacles
<1>2. ASSUME NEW j \in D, i # j PROVE ~Frames!RectsOverlap(F[i], F[j], 0)
  <2>1. CASE j \in Frames!Before(d, i)
    BY <1>1, <2>1
  <2>2. CASE i \in Frames!Before(d, j)
    <3>1. ~Frames!RectsOverlap(F[j], F[i], 0)
      BY <1>1, <2>2
    <3> HIDE DEF F
    <3> QED BY <3>1 DEF Frames!RectsOverlap
  <2> QED BY <1>2, <2>1, <2>2, BeforeIs
<1> QED BY <1>1, <1>2

(* A frame holds the boxes of its members, however far its title went up.  *)
LEMMA FrameIs ==
  ASSUME NEW d, Drawing(d), NEW i \in Frames!Drawable(d)
  PROVE  LET f == Frames!FramesOf(d)[i]
         IN /\ f.of = d.boundaries[i] /\ f.title = Frames!Titles(d)[i]
            /\ f.rect.x \in Int /\ f.rect.y \in Int /\ f.rect.width \in Int /\ f.rect.height \in Int
            /\ \A id \in Frames!Members(d, d.boundaries[i]) : Frames!Encloses(f.rect, Frames!Measured(d, id))
<1> DEFINE b == d.boundaries[i]
           t == Frames!Titles(d)[i]
           r == Frames!Expanded(d, b)
           f == Frames!FramesOf(d)[i]
           high == IF d.enforced THEN Frames!Least(r.y, t.y - Frames!Inset) ELSE r.y
<1>1. r \in Box /\ \A id \in Frames!Members(d, b) :
                 r.x <= Frames!Measured(d, id).x /\ r.y <= Frames!Measured(d, id).y
                 /\ r.x + r.width >= Frames!Measured(d, id).x + Frames!Measured(d, id).width
                 /\ r.y + r.height >= Frames!Measured(d, id).y + Frames!Measured(d, id).height
  BY ExpandedIs
<1>2. t \in Box
  BY TitlesAreApart
<1>3. \A id \in Frames!Members(d, b) : Frames!Measured(d, id).x \in Int /\ Frames!Measured(d, id).y \in Int /\ Frames!Measured(d, id).width \in Int /\ Frames!Measured(d, id).height \in Int
  BY BoxesAreSolid DEF Frames!Members, Solid
<1>4. f = [of |-> b, title |-> t, rect |-> [r EXCEPT !.y = high, !.height = Frames!Bottom(r) - high]]
  <2>1. f = Frames!Frame(d, b, t)
    BY DEF Frames!FramesOf
  <2>2. Frames!Frame(d, b, t) = [of |-> b, title |-> t, rect |-> [r EXCEPT !.y = high, !.height = Frames!Bottom(r) - high]]
    BY DEF Frames!Frame
  <2> HIDE DEF b, t, r, f, high
  <2> QED BY <2>1, <2>2
<1>5. r.x \in Int /\ r.y \in Int /\ r.width \in Int /\ r.height \in Int /\ high \in Int /\ high <= r.y
  <2>1. r.x \in Int /\ r.y \in Int /\ r.width \in Int /\ r.height \in Int /\ t.y \in Int
    BY <1>1, <1>2 DEF Box
  <2> HIDE DEF r, t
  <2> QED BY <2>1 DEF Frames!Least, Frames!Inset
<1> HIDE DEF b, t, r, f, high
<1>6. f.rect.x = r.x /\ f.rect.y = high /\ f.rect.width = r.width /\ f.rect.height = r.y + r.height - high
  <2>1. f.rect = [r EXCEPT !.y = high, !.height = Frames!Bottom(r) - high]
    BY <1>4
  <2>2. r = [x |-> r.x, y |-> r.y, width |-> r.width, height |-> r.height]
    BY <1>1 DEF Box
  <2>3. f.rect = [x |-> r.x, y |-> high, width |-> r.width, height |-> Frames!Bottom(r) - high]
    BY <2>1, <2>2
  <2>4. f.rect.x = r.x /\ f.rect.y = high /\ f.rect.width = r.width /\ f.rect.height = Frames!Bottom(r) - high
    BY <2>3
  <2>5. Frames!Bottom(r) = r.y + r.height
    BY DEF Frames!Bottom
  <2> QED BY <1>5, <2>4, <2>5
<1>7. ASSUME NEW id \in Frames!Members(d, b) PROVE Frames!Encloses(f.rect, Frames!Measured(d, id))
  <2>1. r.x <= Frames!Measured(d, id).x /\ high <= Frames!Measured(d, id).y /\ r.x + r.width >= Frames!Measured(d, id).x + Frames!Measured(d, id).width
        /\ high + (r.y + r.height - high) >= Frames!Measured(d, id).y + Frames!Measured(d, id).height
    BY <1>1, <1>3, <1>5
  <2> QED BY <1>6, <2>1 DEF Frames!Encloses, Frames!Right, Frames!Bottom
<1>8. f.of = b /\ f.title = t
  BY <1>4
<1>9. f.rect.x \in Int /\ f.rect.y \in Int /\ f.rect.width \in Int /\ f.rect.height \in Int
  BY <1>5, <1>6
<1> QED BY <1>7, <1>8, <1>9 DEF b, t, f

(* Spans that hold the same span, which is not empty, meet.                *)
LEMMA SpansMeet ==
  ASSUME NEW a \in Int, NEW v \in Int, NEW b \in Int, NEW w \in Int, NEW x \in Int, NEW l \in Nat \ {0},
         a <= x, x + l <= a + v, b <= x, x + l <= b + w
  PROVE  a + v > b /\ b + w > a
  OBVIOUS

(* Frames that hold the same box overlap.                                  *)
LEMMA HoldersOverlap ==
  ASSUME NEW p, NEW q, NEW box \in Solid,
         p.x \in Int, p.y \in Int, p.width \in Int, p.height \in Int,
         q.x \in Int, q.y \in Int, q.width \in Int, q.height \in Int,
         Frames!Encloses(p, box), Frames!Encloses(q, box)
  PROVE  Frames!RectsOverlap(p, q, 0)
<1>1. box.x \in Int /\ box.y \in Int /\ box.width \in Nat \ {0} /\ box.height \in Nat \ {0}
  BY DEF Solid
<1>2. /\ p.x <= box.x /\ box.x + box.width <= p.x + p.width /\ p.y <= box.y /\ box.y + box.height <= p.y + p.height
      /\ q.x <= box.x /\ box.x + box.width <= q.x + q.width /\ q.y <= box.y /\ box.y + box.height <= q.y + q.height
  BY <1>1 DEF Frames!Encloses, Frames!Right, Frames!Bottom
<1>3. p.x + p.width > q.x /\ q.x + q.width > p.x /\ p.y + p.height > q.y /\ q.y + q.height > p.y
  BY <1>1, <1>2, SpansMeet
<1> QED BY <1>3 DEF Frames!RectsOverlap, Frames!Right, Frames!Bottom

(* Frames without a problem that overlap are nested as their members are.  *)
LEMMA NestedAlike ==
  ASSUME NEW f, NEW g, Frames!PairProblem(f, g) = "none", Frames!RectsOverlap(f.rect, g.rect, 0)
  PROVE  \/ f.of.wraps \subseteq g.of.wraps /\ Frames!Encloses(g.rect, f.rect)
         \/ g.of.wraps \subseteq f.of.wraps /\ Frames!Encloses(f.rect, g.rect)
  BY DEF Frames!PairProblem

(* Among the frames of a diagram so are any two, in either order.          *)
LEMMA PairsAgree ==
  ASSUME NEW fr, DOMAIN fr \subseteq Nat, Frames!PairProblems(fr) = {}, NEW i \in DOMAIN fr, NEW j \in DOMAIN fr, i # j,
         Frames!RectsOverlap(fr[i].rect, fr[j].rect, 0)
  PROVE  \/ fr[i].of.wraps \subseteq fr[j].of.wraps /\ Frames!Encloses(fr[j].rect, fr[i].rect)
         \/ fr[j].of.wraps \subseteq fr[i].of.wraps /\ Frames!Encloses(fr[i].rect, fr[j].rect)
<1>1. ASSUME NEW k \in DOMAIN fr, NEW l \in DOMAIN fr, k < l PROVE Frames!PairProblem(fr[k], fr[l]) = "none"
  <2>1. <<k, l>> \in {q \in (DOMAIN fr) \X (DOMAIN fr) : q[1] < q[2]}
    BY <1>1
  <2>2. Frames!PairProblem(fr[<<k, l>>[1]], fr[<<k, l>>[2]]) \in
          {Frames!PairProblem(fr[p[1]], fr[p[2]]) : p \in {q \in (DOMAIN fr) \X (DOMAIN fr) : q[1] < q[2]}}
    BY <2>1
  <2>3. {Frames!PairProblem(fr[p[1]], fr[p[2]]) : p \in {q \in (DOMAIN fr) \X (DOMAIN fr) : q[1] < q[2]}} \subseteq {"none"}
    BY DEF Frames!PairProblems
  <2> QED BY <2>2, <2>3
<1>2. Frames!RectsOverlap(fr[j].rect, fr[i].rect, 0)
  BY DEF Frames!RectsOverlap
<1>3. i < j \/ j < i
  OBVIOUS
<1>4. CASE i < j
  BY <1>1, <1>4, NestedAlike
<1>5. CASE j < i
  BY <1>1, <1>2, <1>5, NestedAlike
<1> QED BY <1>3, <1>4, <1>5

(* What the check of the engineering profile demands.                      *)
LEMMA OwnershipMeans ==
  ASSUME NEW d, Drawing(d), Frames!OwnershipProblems(d) = {}
  PROVE  /\ \A id \in Frames!Internal(d) : \E i \in DOMAIN d.boundaries : Frames!Scopes(d, id, "region") = {i}
         /\ \A id \in Frames!Internal(d) : d.components[id].type = "database" => Frames!Scopes(d, id, "security-group") # {}
         /\ \A j \in DOMAIN d.boundaries : d.boundaries[j].kind = "security-group" => Frames!SharedRegion(d, d.boundaries[j])
<1> DEFINE S(id) == Frames!Scopes(d, id, "region")
<1>1. ASSUME NEW id \in Frames!Internal(d) PROVE S(id) # {}
  <2> SUFFICES ASSUME S(id) = {} PROVE "region-scope" \in Frames!OwnershipProblems(d)
    OBVIOUS
  <2> QED BY DEF Frames!OwnershipProblems
<1>2. ASSUME NEW id \in Frames!Internal(d) PROVE ~(Cardinality(S(id)) > 1)
  <2> SUFFICES ASSUME Frames!Cardinality(S(id)) > 1 PROVE "region-ambiguous" \in Frames!OwnershipProblems(d)
    BY FramesCount
  <2> QED BY DEF Frames!OwnershipProblems
<1>3. ASSUME NEW id \in Frames!Internal(d), d.components[id].type = "database"
      PROVE  Frames!Scopes(d, id, "security-group") # {}
  <2> SUFFICES ASSUME Frames!Scopes(d, id, "security-group") = {} PROVE "private-state" \in Frames!OwnershipProblems(d)
    OBVIOUS
  <2> QED BY <1>3 DEF Frames!OwnershipProblems
<1>4. ASSUME NEW j \in DOMAIN d.boundaries, d.boundaries[j].kind = "security-group"
      PROVE  Frames!SharedRegion(d, d.boundaries[j])
  <2> SUFFICES ASSUME ~Frames!SharedRegion(d, d.boundaries[j]) PROVE "private-region-consistency" \in Frames!OwnershipProblems(d)
    OBVIOUS
  <2>1. d.boundaries[j] \in Frames!Range(d.boundaries)
    BY BoundariesAre
  <2> QED BY <1>4, <2>1 DEF Frames!OwnershipProblems
<1>5. ASSUME NEW id \in Frames!Internal(d) PROVE \E i \in DOMAIN d.boundaries : S(id) = {i}
  <2>1. S(id) \subseteq DOMAIN d.boundaries
    BY DEF Frames!Scopes
  <2>2. IsFiniteSet(S(id))
    BY <2>1, BoundariesAre, FS_Subset
  <2>3. S(id) # {} /\ ~(Cardinality(S(id)) > 1)
    BY <1>1, <1>2
  <2> HIDE DEF S
  <2>4. Cardinality(S(id)) \in Nat /\ Cardinality(S(id)) # 0
    BY <2>2, <2>3, FS_CardinalityType, FS_EmptySet
  <2>5. Cardinality(S(id)) = 1
    BY <2>3, <2>4
  <2>6. PICK i : S(id) = {i}
    BY <2>2, <2>5, FS_Singleton
  <2> QED BY <2>1, <2>6
<1> QED BY <1>3, <1>4, <1>5

(* The members of a private group have one region, and the same.           *)
LEMMA SharedMeans ==
  ASSUME NEW d, Drawing(d), NEW j \in DOMAIN d.boundaries, Frames!SharedRegion(d, d.boundaries[j])
  PROVE  \E i \in DOMAIN d.boundaries : /\ d.boundaries[i].kind = "region"
                                        /\ d.boundaries[j].wraps \subseteq d.boundaries[i].wraps
<1> DEFINE b == d.boundaries[j]
           S(id) == Frames!Scopes(d, id, "region")
           U == UNION {S(id) : id \in b.wraps}
<1>1. b.wraps # {} /\ (\A id \in b.wraps : Cardinality(S(id)) = 1) /\ Cardinality(U) = 1
  BY FramesCount DEF Frames!SharedRegion
<1>2. \A id : S(id) \subseteq DOMAIN d.boundaries
  BY DEF Frames!Scopes
<1>3. IsFiniteSet(U) /\ \A id : IsFiniteSet(S(id))
  <2>1. U \subseteq DOMAIN d.boundaries
    BY <1>2
  <2>2. IsFiniteSet(DOMAIN d.boundaries)
    BY BoundariesAre
  <2> HIDE DEF U, S
  <2> QED BY <1>2, <2>1, <2>2, FS_Subset
<1>4. \A id \in b.wraps : S(id) # {}
  <2> HIDE DEF S
  <2> TAKE id \in b.wraps
  <2>1. Cardinality({}) = 0
    BY FS_EmptySet
  <2> QED BY <1>1, <2>1
<1>5. PICK i : U = {i}
  <2> HIDE DEF U
  <2> QED BY <1>1, <1>3, FS_Singleton
<1>6. \A id \in b.wraps : i \in S(id)
  <2> HIDE DEF S
  <2> QED BY <1>4, <1>5
<1>7. \A id \in b.wraps : i \in DOMAIN d.boundaries /\ d.boundaries[i].kind = "region" /\ id \in d.boundaries[i].wraps
  BY <1>6 DEF Frames!Scopes
<1> QED BY <1>1, <1>7

(* So an accepted deployment can be read off its frames.                   *)
LEMMA OwnershipHolds ==
  ASSUME NEW d, Drawing(d), d.deployment, Frames!OwnershipProblems(d) = {},
         Frames!LayoutProblems(d, Frames!FramesOf(d)) = {}
  PROVE  LET fr == Frames!FramesOf(d)
         IN /\ \A i \in DOMAIN fr, id \in Frames!Internal(d) :
                 /\ fr[i].of.kind = "region"
                 /\ fr[i].of.wraps \cap Frames!Internal(d) # {}
                 /\ Frames!Encloses(fr[i].rect, Frames!Measured(d, id))
                 => id \in fr[i].of.wraps
            /\ \A id \in DOMAIN d.components : d.components[id].type = "database" =>
                 \E i, j \in DOMAIN fr :
                   /\ fr[i].of.kind = "region" /\ fr[j].of.kind = "security-group"
                   /\ id \in fr[j].of.wraps /\ fr[j].of.wraps \subseteq fr[i].of.wraps
                   /\ ~(fr[i].of.wraps \subseteq fr[j].of.wraps) => Frames!Encloses(fr[i].rect, fr[j].rect)
<1> DEFINE fr == Frames!FramesOf(d)
           D == Frames!Drawable(d)
<1>1. DOMAIN fr = D /\ D \subseteq Nat /\ D \subseteq DOMAIN d.boundaries
  BY BoundariesAre DEF Frames!FramesOf
<1>2. Frames!PairProblems(fr) = {}
  BY DEF Frames!LayoutProblems
<1>3. \A id \in DOMAIN d.components : Frames!Measured(d, id) \in Solid
  BY BoxesAreSolid
<1>4. \A i \in D : /\ fr[i].of = d.boundaries[i]
                   /\ fr[i].rect.x \in Int /\ fr[i].rect.y \in Int /\ fr[i].rect.width \in Int /\ fr[i].rect.height \in Int
                   /\ \A id \in DOMAIN d.components : id \in fr[i].of.wraps => Frames!Encloses(fr[i].rect, Frames!Measured(d, id))
  BY FrameIs DEF Frames!Members
<1>5. \A i \in DOMAIN d.boundaries : \A id \in DOMAIN d.components : id \in d.boundaries[i].wraps => i \in D
  BY DEF Frames!Drawable, Frames!Members
<1> HIDE DEF fr, D
<1>6. ASSUME NEW i \in D, NEW j \in D, i # j, NEW id \in DOMAIN d.components,
             Frames!Encloses(fr[i].rect, Frames!Measured(d, id)), id \in fr[j].of.wraps
      PROVE  \/ fr[i].of.wraps \subseteq fr[j].of.wraps /\ Frames!Encloses(fr[j].rect, fr[i].rect)
             \/ fr[j].of.wraps \subseteq fr[i].of.wraps /\ Frames!Encloses(fr[i].rect, fr[j].rect)
  <2>1. Frames!RectsOverlap(fr[i].rect, fr[j].rect, 0)
    BY <1>3, <1>4, <1>6, HoldersOverlap
  <2> QED BY <1>1, <1>2, <1>6, <2>1, PairsAgree
<1>7. Frames!Internal(d) \subseteq DOMAIN d.components
  BY DEF Frames!Internal
<1>8. ASSUME NEW i \in D, NEW id \in Frames!Internal(d), fr[i].of.kind = "region",
             fr[i].of.wraps \cap Frames!Internal(d) # {}, Frames!Encloses(fr[i].rect, Frames!Measured(d, id))
      PROVE  id \in fr[i].of.wraps
  <2>1. PICK j \in DOMAIN d.boundaries : Frames!Scopes(d, id, "region") = {j}
    BY OwnershipMeans
  <2>2. d.boundaries[j].kind = "region" /\ id \in d.boundaries[j].wraps
    BY <2>1 DEF Frames!Scopes
  <2>3. j \in D
    BY <1>5, <1>7, <2>2
  <2>4. CASE i = j
    BY <1>4, <2>2, <2>4
  <2>5. CASE i # j
    <3>1. id \in DOMAIN d.components /\ id \in fr[j].of.wraps
      BY <1>4, <1>7, <2>2, <2>3
    <3>2. fr[i].of.wraps \subseteq fr[j].of.wraps \/ fr[j].of.wraps \subseteq fr[i].of.wraps
      BY <1>6, <1>8, <2>3, <2>5, <3>1
    <3>3. ASSUME fr[i].of.wraps \subseteq fr[j].of.wraps PROVE FALSE
      <4>1. PICK m \in Frames!Internal(d) : m \in fr[i].of.wraps
        BY <1>8
      <4>2. m \in d.boundaries[i].wraps /\ m \in d.boundaries[j].wraps /\ d.boundaries[i].kind = "region"
        BY <1>4, <1>8, <2>3, <3>3, <4>1
      <4>3. i \in Frames!Scopes(d, m, "region") /\ j \in Frames!Scopes(d, m, "region")
        BY <1>1, <2>2, <2>3, <4>2 DEF Frames!Scopes
      <4>4. PICK k \in DOMAIN d.boundaries : Frames!Scopes(d, m, "region") = {k}
        BY OwnershipMeans
      <4> QED BY <2>5, <4>3, <4>4
    <3> QED BY <3>1, <3>2, <3>3
  <2> QED BY <1>5, <2>4, <2>5
<1>9. ASSUME NEW id \in DOMAIN d.components, d.components[id].type = "database"
      PROVE  \E i, j \in D :
                   /\ fr[i].of.kind = "region" /\ fr[j].of.kind = "security-group"
                   /\ id \in fr[j].of.wraps /\ fr[j].of.wraps \subseteq fr[i].of.wraps
                   /\ ~(fr[i].of.wraps \subseteq fr[j].of.wraps) => Frames!Encloses(fr[i].rect, fr[j].rect)
  <2>1. id \in Frames!Internal(d)
    BY <1>9 DEF Frames!Internal
  <2>2. PICK j \in DOMAIN d.boundaries : d.boundaries[j].kind = "security-group" /\ id \in d.boundaries[j].wraps
    <3>1. Frames!Scopes(d, id, "security-group") # {}
      BY <1>9, <2>1, OwnershipMeans
    <3> QED BY <3>1 DEF Frames!Scopes
  <2>3. Frames!SharedRegion(d, d.boundaries[j])
    BY <2>2, OwnershipMeans
  <2>4. PICK i \in DOMAIN d.boundaries : d.boundaries[i].kind = "region" /\ d.boundaries[j].wraps \subseteq d.boundaries[i].wraps
    BY <2>3, SharedMeans
  <2>5. i \in D /\ j \in D /\ i # j
    BY <1>5, <2>2, <2>4
  <2>6. fr[i].of = d.boundaries[i] /\ fr[j].of = d.boundaries[j]
    BY <1>4, <2>5
  <2>7. ~(fr[i].of.wraps \subseteq fr[j].of.wraps) => Frames!Encloses(fr[i].rect, fr[j].rect)
    <3>1. id \in fr[i].of.wraps /\ id \in fr[j].of.wraps
      BY <2>2, <2>4, <2>6
    <3>2. Frames!Encloses(fr[i].rect, Frames!Measured(d, id))
      BY <1>4, <2>5, <3>1
    <3> QED BY <1>6, <2>5, <3>1, <3>2
  <2> QED BY <2>2, <2>4, <2>5, <2>6, <2>7
<1> QED BY <1>1, <1>8, <1>9 DEF fr

(* What the entries of a legend are.                                       *)
Listing(E) ==
  /\ DOMAIN E \subseteq Nat \ {0} /\ IsFiniteSet(DOMAIN E)
  /\ \A i \in DOMAIN E : E[i].width \in Nat

(* A number of things has a greatest, with one to begin with.              *)
LEMMA GreatestIs ==
  ASSUME NEW D, IsFiniteSet(D), NEW f, DOMAIN f = D, NEW T, NEW base \in Int, \A i \in D : f[i] \in Int /\ f[i] \in T,
         \A y \in T : y = base \/ \E i \in D : y = f[i], base \in T
  PROVE  /\ Frames!Max(T) \in Int /\ Frames!Max(T) >= base /\ \A i \in D : Frames!Max(T) >= f[i]
         /\ Frames!Max(T) \in T /\ IsFiniteSet(T) /\ T \subseteq Int /\ \A y \in T : Frames!Max(T) >= y
<1> DEFINE V == {f[i] : i \in D}
<1>1. (\A y \in V : \E x \in D : y = f[x]) /\ \A x \in D : f[x] \in V
  OBVIOUS
<1>2. V \cup {base} = T
  OBVIOUS
<1> HIDE DEF V
<1>3. IsFiniteSet(V)
  BY <1>1, ValuesAreFinite
<1>4. IsFiniteSet(T)
  BY <1>2, <1>3, FS_AddElement
<1>5. T \in SUBSET Int /\ T # {}
  OBVIOUS
<1>6. Frames!Max(T) \in T /\ \A y \in T : Frames!Max(T) >= y
  BY <1>4, <1>5, ExtremesAre
<1> QED BY <1>4, <1>5, <1>6

(* Where an entry goes after the one before it.                            *)
LEMMA FollowsIn ==
  ASSUME NEW last \in [row : Nat \ {0}, end : Nat], NEW e, e.width \in Nat, NEW W \in Int
  PROVE  LET p == Frames!Follow(last, e, W)
         IN /\ p \in [row : Nat \ {0}, end : Nat] /\ e.width <= p.end
            /\ e.width <= W => p.end <= W
            /\ last.row < p.row \/ (last.row = p.row /\ last.end + 22 + e.width <= p.end)
<1> DEFINE p == Frames!Follow(last, e, W)
           end == last.end + 22 + e.width
<1>1. last.row \in Nat \ {0} /\ last.end \in Nat
  OBVIOUS
<1>2. p = IF end > W THEN [row |-> last.row + 1, end |-> e.width] ELSE [row |-> last.row, end |-> end]
  BY DEF Frames!Follow, Frames!ItemGap
<1>3. CASE end > W
  <2>1. p.row = last.row + 1 /\ p.end = e.width /\ p = [row |-> last.row + 1, end |-> e.width]
    BY <1>2, <1>3
  <2> HIDE DEF p
  <2>2. p \in [row : Nat \ {0}, end : Nat]
    BY <1>1, <2>1
  <2> QED BY <1>1, <2>1, <2>2 DEF p
<1>4. CASE ~(end > W)
  <2>1. p.row = last.row /\ p.end = end /\ p = [row |-> last.row, end |-> end]
    BY <1>2, <1>4
  <2>2. end \in Nat /\ end <= W /\ e.width <= end
    BY <1>1, <1>4
  <2> HIDE DEF p
  <2>3. p \in [row : Nat \ {0}, end : Nat]
    BY <1>1, <2>1, <2>2
  <2> QED BY <1>1, <2>1, <2>2, <2>3 DEF p
<1> QED BY <1>3, <1>4

(* Place p is in a row above q, or before an entry of that width that ends *)
(* at q, with a gap between them.                                          *)
Behind(p, q, width) == p.row < q.row \/ (p.row = q.row /\ p.end + 22 + width <= q.end)

(* Entries fill the rows in their order, one behind another.               *)
LEMMA PlacesAre ==
  ASSUME NEW E, Listing(E), NEW W \in Int
  PROVE  LET place == Frames!Places(E, W)
         IN /\ DOMAIN place = DOMAIN E
            /\ \A i \in DOMAIN E : /\ place[i].row \in Nat \ {0} /\ place[i].end \in Nat /\ E[i].width <= place[i].end
                                   /\ E[i].width <= W => place[i].end <= W
            /\ \A i, j \in DOMAIN E : i < j => Behind(place[i], place[j], E[j].width)
<1> DEFINE D == DOMAIN E
           Place == [row : Nat \ {0}, end : Nat]
           B(i) == Frames!Earlier(E, i)
           placeAt(i, g) == IF B(i) = {} THEN [row |-> 1, end |-> E[i].width] ELSE Frames!Follow(g[Frames!Max(B(i))], E[i], W)
           r == [i \in D |-> i]
           h == [i \in D |-> [g \in [Lower(r, i) -> Place] |-> placeAt(i, g)]]
           Eq(f) == f = [i \in D |-> placeAt(i, f)]
<1>1. D \subseteq Nat \ {0} /\ IsFiniteSet(D) /\ \A i \in D : E[i].width \in Nat
  BY DEF Listing
<1>2. PICK m \in Nat : \A i \in D : i < m
  <2>1. CASE D = {}
    BY <2>1
  <2>2. CASE D # {}
    <3>1. D \in SUBSET Int
      BY <1>1
    <3> HIDE DEF D
    <3>2. PICK n \in D : \A i \in D : n >= i
      BY <1>1, <2>2, <3>1, ExtremesExist
    <3>3. n + 1 \in Nat /\ \A i \in D : i < n + 1
      BY <1>1, <3>2
    <3> QED BY <3>3
  <2> QED BY <2>1, <2>2
<1>3. r \in [D -> Nat] /\ DOMAIN r = D /\ (\A i \in D : r[i] < m) /\ \A i \in D : Lower(r, i) = B(i)
  <2>1. r \in [D -> Nat] /\ DOMAIN r = D /\ \A i \in D : r[i] = i
    BY <1>1
  <2> HIDE DEF r
  <2>2. \A i \in D : Lower(r, i) = B(i)
    BY <2>1 DEF Lower, Frames!Earlier
  <2> QED BY <1>2, <2>1, <2>2
<1>4. \A i \in D : B(i) \subseteq D /\ (B(i) # {} => Frames!Max(B(i)) \in B(i) /\ \A j \in B(i) : Frames!Max(B(i)) >= j)
  <2> TAKE i \in D
  <2>1. B(i) \subseteq D
    BY DEF Frames!Earlier
  <2> HIDE DEF B, D
  <2>2. B(i) \in SUBSET Int
    <3>1. \A j \in D : j \in Int
      BY <1>1
    <3> QED BY <2>1, <3>1
  <2>3. IsFiniteSet(B(i))
    BY <1>1, <2>1, FS_Subset
  <2> QED BY <2>1, <2>2, <2>3, ExtremesAre
<1> HIDE DEF r, B
<1>5. ASSUME NEW i \in D, NEW g, \A j \in B(i) : g[j] \in Place
      PROVE  /\ placeAt(i, g) \in Place /\ E[i].width <= placeAt(i, g).end
             /\ E[i].width <= W => placeAt(i, g).end <= W
             /\ B(i) # {} => Behind(g[Frames!Max(B(i))], placeAt(i, g), E[i].width)
  <2>1. CASE B(i) = {}
    <3>1. placeAt(i, g) = [row |-> 1, end |-> E[i].width]
      BY <2>1
    <3> QED BY <1>1, <2>1, <3>1
  <2>2. CASE B(i) # {}
    <3>1. g[Frames!Max(B(i))] \in Place
      BY <1>4, <1>5, <2>2
    <3>2. placeAt(i, g) = Frames!Follow(g[Frames!Max(B(i))], E[i], W)
      BY <2>2
    <3>3. E[i].width \in Nat
      BY <1>1
    <3> DEFINE last == g[Frames!Max(B(i))]
               p == Frames!Follow(last, E[i], W)
    <3> HIDE DEF placeAt, last
    <3>4. last \in [row : Nat \ {0}, end : Nat]
      BY <3>1 DEF last
    <3>5. /\ p \in Place /\ E[i].width <= p.end
          /\ E[i].width <= W => p.end <= W
          /\ last.row < p.row \/ (last.row = p.row /\ last.end + 22 + E[i].width <= p.end)
      BY <3>3, <3>4, FollowsIn
    <3> HIDE DEF p
    <3> QED BY <3>2, <3>5 DEF Behind, last, p
  <2> QED BY <2>1, <2>2
<1>6. \A i \in D : \A g \in [Lower(r, i) -> Place] : h[i][g] = placeAt(i, g) /\ h[i][g] \in Place
  <2> TAKE i \in D
  <2> TAKE g \in [Lower(r, i) -> Place]
  <2>1. h[i][g] = placeAt(i, g)
    OBVIOUS
  <2>2. \A j \in B(i) : g[j] \in Place
    BY <1>3
  <2> HIDE DEF h, placeAt, D, Place
  <2>3. placeAt(i, g) \in Place
    BY <1>5, <2>2
  <2> QED BY <2>1, <2>3
<1> HIDE DEF h
<1>7. PICK f \in [D -> Place] : \A i \in D : f[i] = h[i][Restricted(f, Lower(r, i))]
  <2>1. Determines(h, D, r, Place)
    BY <1>6 DEF Determines
  <2> HIDE DEF D, placeAt, Place
  <2>2. \E f : FollowsBelow(f, h, D, r, Place)
    BY <1>2, <1>3, <2>1, RankedRecursion
  <2> QED BY <2>2 DEF FollowsBelow
<1>8. ASSUME NEW i \in D PROVE f[i] = placeAt(i, f)
  <2> DEFINE g == Restricted(f, Lower(r, i))
  <2>1. Lower(r, i) \subseteq D
    BY <1>3 DEF Lower
  <2>2. g \in [Lower(r, i) -> Place] /\ \A j \in Lower(r, i) : g[j] = f[j]
    BY <1>7, <2>1 DEF Restricted
  <2> HIDE DEF g
  <2>3. f[i] = placeAt(i, g)
    BY <1>6, <1>7, <2>2 DEF g
  <2>4. B(i) # {} => g[Frames!Max(B(i))] = f[Frames!Max(B(i))]
    BY <1>3, <1>4, <2>2
  <2> QED BY <2>3, <2>4
<1>9. Eq(f)
  BY <1>7, <1>8
<1> DEFINE F == CHOOSE g : Eq(g)
<1>10. Eq(F)
  BY <1>9
<1>11. Frames!Places(E, W) = F
  BY DEF Frames!Places, B
<1> HIDE DEF F
<1>12. DOMAIN F = D /\ \A i \in D : F[i] = placeAt(i, F)
  BY <1>10
<1> HIDE DEF Eq, placeAt, Place
<1> DEFINE J == {n \in Nat : \A j \in D : j < n => F[j] \in Place /\ \A i \in B(j) : Behind(F[i], F[j], E[j].width)}
<1>13. 0 \in J
  BY <1>1
<1>14. ASSUME NEW n \in Nat, n \in J PROVE n + 1 \in J
  <2> SUFFICES ASSUME NEW j \in D, j < n + 1
      PROVE  F[j] \in Place /\ \A i \in B(j) : Behind(F[i], F[j], E[j].width)
    OBVIOUS
  <2>1. \A k \in B(j) : k \in D /\ k < n
    <3> TAKE k \in B(j)
    <3>1. k \in D /\ k < j
      BY DEF B, Frames!Earlier
    <3> QED BY <1>1, <3>1
  <2>2. \A k \in B(j) : F[k] \in Place
    BY <1>14, <2>1
  <2>3. F[j] \in Place /\ (B(j) # {} => Behind(F[Frames!Max(B(j))], F[j], E[j].width))
    <3>1. placeAt(j, F) \in Place /\ (B(j) # {} => Behind(F[Frames!Max(B(j))], placeAt(j, F), E[j].width))
      BY <1>5, <2>2
    <3> QED BY <1>12, <3>1
  <2>4. ASSUME NEW i \in B(j) PROVE Behind(F[i], F[j], E[j].width)
    <3> DEFINE p == Frames!Max(B(j))
    <3>1. p \in B(j) /\ i <= p
      BY <1>4, <2>4
    <3> HIDE DEF p
    <3>2. Behind(F[p], F[j], E[j].width)
      BY <2>3, <2>4 DEF p
    <3>3. CASE i = p
      BY <3>2, <3>3
    <3>4. CASE i # p
      <4>1. i \in D /\ p \in D /\ p < n /\ i < p
        BY <1>1, <2>1, <3>1, <3>4
      <4>2. i \in B(p)
        BY <4>1 DEF B, Frames!Earlier
      <4>3. Behind(F[i], F[p], E[p].width)
        BY <1>14, <4>1, <4>2
      <4>4. F[i] \in Place /\ F[p] \in Place /\ F[j] \in Place
        BY <2>2, <2>3, <3>1
      <4>5. /\ F[i].row \in Nat /\ F[p].row \in Nat /\ F[j].row \in Nat /\ F[i].end \in Nat /\ F[p].end \in Nat /\ F[j].end \in Nat
            /\ E[p].width \in Nat /\ E[j].width \in Nat
        BY <1>1, <4>1, <4>4 DEF Place
      <4> QED BY <3>2, <4>3, <4>5 DEF Behind
    <3> QED BY <3>3, <3>4
  <2> QED BY <2>3, <2>4
<1> HIDE DEF J
<1>15. m \in J
  BY <1>13, <1>14, NatInd
<1>16. \A j \in D : F[j] \in Place /\ \A i \in B(j) : Behind(F[i], F[j], E[j].width)
  BY <1>2, <1>15 DEF J
<1>17. ASSUME NEW i \in D
       PROVE  /\ F[i].row \in Nat \ {0} /\ F[i].end \in Nat /\ E[i].width <= F[i].end
              /\ E[i].width <= W => F[i].end <= W
  <2>1. \A j \in B(i) : F[j] \in Place
    BY <1>4, <1>16
  <2>2. E[i].width <= placeAt(i, F).end /\ (E[i].width <= W => placeAt(i, F).end <= W)
    BY <1>5, <2>1
  <2>3. F[i] \in Place /\ F[i] = placeAt(i, F)
    BY <1>12, <1>16
  <2> QED BY <2>2, <2>3 DEF Place
<1>18. \A i, j \in D : i < j => Behind(F[i], F[j], E[j].width)
  BY <1>16 DEF B, Frames!Earlier
<1> QED BY <1>11, <1>12, <1>17, <1>18

(* How many rows a legend has, and how wide it is.                         *)
LEMMA RowsAre ==
  ASSUME NEW E, Listing(E), NEW W \in Int
  PROVE  /\ Frames!RowCount(E, W) \in Nat \ {0} /\ \A i \in DOMAIN E : Frames!Places(E, W)[i].row <= Frames!RowCount(E, W)
         /\ Frames!LegendMinWidth(E) \in Nat /\ \A i \in DOMAIN E : E[i].width <= Frames!LegendMinWidth(E)
<1> DEFINE D == DOMAIN E
           place == Frames!Places(E, W)
           T == {1} \cup {place[i].row : i \in D}
           V == {0} \cup {E[i].width : i \in D}
           f == [i \in D |-> place[i].row]
           g == [i \in D |-> E[i].width]
<1>1. IsFiniteSet(D) /\ \A i \in D : E[i].width \in Nat
  BY DEF Listing
<1>2. \A i \in D : place[i].row \in Nat \ {0}
  BY PlacesAre
<1> HIDE DEF place
<1>3. DOMAIN f = D /\ (\A i \in D : f[i] = place[i].row /\ f[i] \in Int /\ f[i] \in T) /\ (\A y \in T : y = 1 \/ \E i \in D : y = f[i]) /\ 1 \in T
  BY <1>2
<1>4. DOMAIN g = D /\ (\A i \in D : g[i] = E[i].width /\ g[i] \in Int /\ g[i] \in V) /\ (\A y \in V : y = 0 \/ \E i \in D : y = g[i]) /\ 0 \in V
  BY <1>1
<1>5. Frames!RowCount(E, W) = Frames!Max(T) /\ Frames!LegendMinWidth(E) = Frames!Max(V)
  BY DEF Frames!RowCount, Frames!LegendMinWidth, place
<1> HIDE DEF T, V, f, g, D
<1>6. Frames!Max(T) \in Int /\ Frames!Max(T) >= 1 /\ \A i \in D : Frames!Max(T) >= f[i]
  <2>1. 1 \in Int
    OBVIOUS
  <2> QED BY <1>1, <1>3, <2>1, GreatestIs
<1>7. Frames!Max(V) \in Int /\ Frames!Max(V) >= 0 /\ \A i \in D : Frames!Max(V) >= g[i]
  <2>1. 0 \in Int
    OBVIOUS
  <2> QED BY <1>1, <1>4, <2>1, GreatestIs
<1>8. Frames!Max(T) \in Nat \ {0} /\ \A i \in D : place[i].row <= Frames!Max(T)
  BY <1>2, <1>3, <1>6
<1>9. Frames!Max(V) \in Nat /\ \A i \in D : E[i].width <= Frames!Max(V)
  BY <1>1, <1>4, <1>7
<1> QED BY <1>5, <1>8, <1>9 DEF D, place

(* Two boxes, one above or before the other.                               *)
LEMMA ApartIs ==
  ASSUME NEW p, NEW q, p.x \in Int, p.y \in Int, p.width \in Int, p.height \in Int,
         q.x \in Int, q.y \in Int, q.width \in Int, q.height \in Int,
         p.y + p.height <= q.y \/ p.x + p.width <= q.x
  PROVE  ~Frames!RectsOverlap(p, q, 0) /\ ~Frames!RectsOverlap(q, p, 0)
  BY DEF Frames!RectsOverlap, Frames!Right, Frames!Bottom

(* The boxes of a legend that is wide enough: its entries are apart, and   *)
(* below its title.                                                        *)
LEMMA LegendIsApart ==
  ASSUME NEW E, Listing(E), NEW lp, lp.x \in Int, lp.baseline \in Int, lp.width \in Int,
         Frames!LegendMinWidth(E) <= lp.width
  PROVE  LET box == Frames!LegendBoxes(E, lp)
         IN /\ DOMAIN box = {0} \cup DOMAIN E /\ DOMAIN box \subseteq Nat
            /\ \A i, j \in DOMAIN box : i # j => ~Frames!RectsOverlap(box[i], box[j], 0)
            /\ \A i \in DOMAIN E : box[i].x + box[i].width <= lp.x + lp.width /\ box[i].kind = E[i].kind
<1> DEFINE D == DOMAIN E
           place == Frames!Places(E, lp.width)
           R == Frames!RowCount(E, lp.width)
           box == Frames!LegendBoxes(E, lp)
<1>1. D \subseteq Nat \ {0} /\ \A i \in D : E[i].width \in Nat
  BY DEF Listing
<1>2. R \in Nat \ {0} /\ (\A i \in D : place[i].row <= R) /\ Frames!LegendMinWidth(E) \in Nat
      /\ \A i \in D : E[i].width <= Frames!LegendMinWidth(E)
  BY RowsAre
<1>3. \A i \in D : E[i].width <= lp.width
  BY <1>1, <1>2
<1>4. \A i \in D : place[i].row \in Nat \ {0} /\ place[i].end \in Nat /\ E[i].width <= place[i].end
                   /\ (E[i].width <= lp.width => place[i].end <= lp.width)
  BY PlacesAre
<1>5. \A i, j \in D : i < j => Behind(place[i], place[j], E[j].width)
  BY PlacesAre
<1>6. DOMAIN box = {0} \cup D /\ 0 \notin D
  BY <1>1 DEF Frames!LegendBoxes
<1>7. \A i \in D : box[i] = [kind |-> E[i].kind, interactive |-> E[i].interactive,
                             x |-> lp.x + place[i].end - E[i].width, y |-> lp.baseline - (R - place[i].row) * 22 - 10,
                             width |-> E[i].width, height |-> 14]
  BY <1>6 DEF Frames!LegendBoxes, Frames!EntryBox, Frames!LineGap
<1>8. box[0] = [kind |-> "title", interactive |-> FALSE, x |-> lp.x, y |-> lp.baseline - (R - 1) * 22 - 30, width |-> 48, height |-> 14]
  BY <1>6 DEF Frames!LegendBoxes, Frames!TitleBox, Frames!LegendTop, Frames!ExtraHeight, Frames!LineGap
<1> HIDE DEF D, place, R, box
<1>9. \A i \in D : /\ box[i].x \in Int /\ box[i].y \in Int /\ box[i].width \in Nat /\ box[i].height = 14 /\ box[i].kind = E[i].kind
                   /\ box[i].x + box[i].width <= lp.x + lp.width
                   /\ box[i].x = lp.x + place[i].end - E[i].width /\ box[i].width = E[i].width
                   /\ box[i].y = lp.baseline - (R - place[i].row) * 22 - 10
  <2> TAKE i \in D
  <2>1. /\ box[i].x = lp.x + place[i].end - E[i].width /\ box[i].y = lp.baseline - (R - place[i].row) * 22 - 10
        /\ box[i].width = E[i].width /\ box[i].height = 14 /\ box[i].kind = E[i].kind
    <3> DEFINE v == lp.baseline - (R - place[i].row) * 22 - 10
               u == lp.x + place[i].end - E[i].width
    <3> HIDE DEF v, u
    <3>1. box[i] = [kind |-> E[i].kind, interactive |-> E[i].interactive, x |-> u, y |-> v, width |-> E[i].width, height |-> 14]
      BY <1>7 DEF u, v
    <3>2. box[i].x = u /\ box[i].y = v /\ box[i].width = E[i].width /\ box[i].height = 14 /\ box[i].kind = E[i].kind
      BY <3>1
    <3> QED BY <3>2 DEF u, v
  <2>2. place[i].row \in Nat /\ place[i].end \in Nat /\ E[i].width \in Nat /\ place[i].end <= lp.width
    BY <1>1, <1>3, <1>4
  <2> QED BY <1>2, <2>1, <2>2
<1>10. box[0].x \in Int /\ box[0].y = lp.baseline - (R - 1) * 22 - 30 /\ box[0].y \in Int /\ box[0].width = 48 /\ box[0].height = 14
  BY <1>2, <1>8
<1>11. ASSUME NEW i \in D PROVE ~Frames!RectsOverlap(box[0], box[i], 0) /\ ~Frames!RectsOverlap(box[i], box[0], 0)
  <2>1. place[i].row \in Nat \ {0} /\ place[i].row <= R
    BY <1>2, <1>4
  <2>2. box[0].y + box[0].height <= box[i].y
    <3>1. box[0].y + box[0].height = lp.baseline - (R - 1) * 22 - 30 + 14
      BY <1>10
    <3>2. box[i].y = lp.baseline - (R - place[i].row) * 22 - 10
      BY <1>9
    <3> HIDE DEF box
    <3>3. lp.baseline - (R - 1) * 22 - 30 + 14 <= lp.baseline - (R - place[i].row) * 22 - 10
      BY <1>2, <2>1
    <3> QED BY <3>1, <3>2, <3>3
  <2> QED BY <1>9, <1>10, <2>2, ApartIs
<1>12. ASSUME NEW i \in D, NEW j \in D, i < j
       PROVE  ~Frames!RectsOverlap(box[i], box[j], 0) /\ ~Frames!RectsOverlap(box[j], box[i], 0)
  <2>1. place[i].row < place[j].row \/ (place[i].row = place[j].row /\ place[i].end + 22 + E[j].width <= place[j].end)
    BY <1>5, <1>12 DEF Behind
  <2>2. /\ place[i].row \in Nat /\ place[j].row \in Nat /\ place[i].end \in Nat /\ place[j].end \in Nat
        /\ E[i].width \in Nat /\ E[j].width \in Nat
    BY <1>1, <1>4
  <2>3. CASE place[i].row < place[j].row
    <3>1. box[i].y + 14 <= box[j].y
      BY <1>2, <1>9, <2>2, <2>3
    <3> QED BY <1>9, <3>1, ApartIs
  <2>4. CASE place[i].end + 22 + E[j].width <= place[j].end
    <3>1. box[i].x + box[i].width <= box[j].x
      BY <1>9, <2>2, <2>4
    <3> QED BY <1>9, <3>1, ApartIs
  <2> QED BY <2>1, <2>3, <2>4
<1>13. ASSUME NEW i \in {0} \cup D, NEW j \in {0} \cup D, i # j PROVE ~Frames!RectsOverlap(box[i], box[j], 0)
  <2>1. CASE i = 0
    BY <1>11, <1>13, <2>1
  <2>2. CASE j = 0
    BY <1>11, <1>13, <2>2
  <2>3. CASE i \in D /\ j \in D
    <3>1. i < j \/ j < i
      BY <1>1, <1>13, <2>3
    <3> QED BY <1>12, <2>3, <3>1
  <2> QED BY <1>13, <2>1, <2>2, <2>3
<1>14. {0} \cup D \subseteq Nat
  BY <1>1
<1> QED BY <1>6, <1>9, <1>13, <1>14 DEF D, box

(* The entries of a legend, by their number in the catalogue; if any are   *)
(* listed, so is every kind of the diagram that is not hidden.             *)
LEMMA EntriesAre ==
  ASSUME NEW d, Drawing(d)
  PROVE  LET E == Frames!Entries(d)
         IN /\ Listing(E)
            /\ DOMAIN E # {} => \A id \in DOMAIN d.components : d.components[id].type \notin d.legend.hidden =>
                                  \E i \in DOMAIN E : E[i].kind = d.components[id].type
<1> DEFINE L == d.legend
           typesIn == {d.components[id].type : id \in DOMAIN d.components}
           listed == Frames!Listed(L, typesIn)
           E == Frames!Entries(d)
<1>1. L.catalog \in Seq([kind : STRING, width : Nat])
  BY DEF Drawing, Frames!Legend
<1>2. Len(L.catalog) \in Nat /\ DOMAIN L.catalog = 1 .. Len(L.catalog)
      /\ \A i \in DOMAIN L.catalog : L.catalog[i] \in [kind : STRING, width : Nat]
  <2> HIDE DEF L
  <2> QED BY <1>1, LenProperties, ElementOfSeq
<1>3. IsFiniteSet(DOMAIN L.catalog) /\ DOMAIN L.catalog \subseteq Nat \ {0}
  <2> HIDE DEF L
  <2>1. IsFiniteSet(1 .. Len(L.catalog))
    BY <1>2, FS_Interval
  <2>2. 1 .. Len(L.catalog) \subseteq Nat \ {0}
    BY <1>2
  <2> QED BY <1>2, <2>1, <2>2
<1>4. listed \subseteq DOMAIN L.catalog
  BY DEF Frames!Listed
<1>5. IsFiniteSet(listed)
  <2> HIDE DEF listed, L
  <2> QED BY <1>3, <1>4, FS_Subset
<1>6. E = Frames!ResolveLegend(L, typesIn)
  BY DEF Frames!Entries
<1> HIDE DEF L, typesIn, E
<1>7. DOMAIN E = listed
      /\ \A i \in listed : /\ E[i].kind = L.catalog[i].kind
                           /\ E[i].width = L.catalog[i].width + (IF L.catalog[i].kind \in typesIn THEN 21 ELSE 0)
  BY <1>6 DEF Frames!ResolveLegend, Frames!Badge
<1>8. \A i \in listed : E[i].width \in Nat
  <2> TAKE i \in listed
  <2>1. L.catalog[i].width \in Nat
    BY <1>2, <1>4
  <2> QED BY <1>7, <2>1
<1>9. Listing(E)
  <2> HIDE DEF listed
  <2> QED BY <1>3, <1>4, <1>5, <1>7, <1>8 DEF Listing
<1>10. ASSUME listed # {}, NEW id \in DOMAIN d.components, d.components[id].type \notin L.hidden
       PROVE  \E i \in listed : E[i].kind = d.components[id].type
  <2>1. L.mode # "hidden"
    BY <1>10 DEF Frames!Listed
  <2>2. PICK i \in DOMAIN L.catalog : L.catalog[i].kind = d.components[id].type
    BY DEF Drawing, L
  <2>3. d.components[id].type \in typesIn
    BY DEF typesIn
  <2>4. i \in listed
    BY <1>10, <2>1, <2>2, <2>3 DEF Frames!Listed
  <2> QED BY <1>7, <2>2, <2>4
<1> QED BY <1>7, <1>9, <1>10 DEF E, L

(* How far down and to the right anything is drawn.                        *)
LEMMA ReachIs ==
  ASSUME NEW d, Drawing(d)
  PROVE  LET fr == Frames!FramesOf(d)
             rects == {Frames!Measured(d, id) : id \in DOMAIN d.components} \cup {fr[i].rect : i \in DOMAIN fr}
         IN Frames!Max({0} \cup {Frames!Right(r) : r \in rects}) \in Int /\ Frames!Max({0} \cup {Frames!Bottom(r) : r \in rects}) \in Int
<1> DEFINE fr == Frames!FramesOf(d)
           P == {Frames!Measured(d, id) : id \in DOMAIN d.components}
           Q == {fr[i].rect : i \in DOMAIN fr}
           rects == P \cup Q
           f == [r \in rects |-> Frames!Right(r)]
           g == [r \in rects |-> Frames!Bottom(r)]
           T == {0} \cup {Frames!Right(r) : r \in rects}
           V == {0} \cup {Frames!Bottom(r) : r \in rects}
<1>1. IsFiniteSet(P)
  <2> DEFINE k == [id \in DOMAIN d.components |-> Frames!Measured(d, id)]
  <2>1. DOMAIN k = DOMAIN d.components /\ IsFiniteSet(DOMAIN d.components)
    BY DEF Drawing
  <2>2. (\A y \in P : \E x \in DOMAIN d.components : y = k[x]) /\ \A x \in DOMAIN d.components : k[x] \in P
    OBVIOUS
  <2> HIDE DEF P, k
  <2> QED BY <2>1, <2>2, ValuesAreFinite
<1>2. DOMAIN fr = Frames!Drawable(d) /\ IsFiniteSet(DOMAIN fr)
  BY BoundariesAre DEF Frames!FramesOf
<1>3. IsFiniteSet(Q)
  <2> DEFINE k == [i \in DOMAIN fr |-> fr[i].rect]
  <2>1. DOMAIN k = DOMAIN fr /\ (\A y \in Q : \E x \in DOMAIN fr : y = k[x]) /\ \A x \in DOMAIN fr : k[x] \in Q
    OBVIOUS
  <2> HIDE DEF k, Q, fr
  <2> QED BY <1>2, <2>1, ValuesAreFinite
<1>4. IsFiniteSet(rects)
  <2> HIDE DEF P, Q
  <2> QED BY <1>1, <1>3, FS_Union
<1>5. \A r \in rects : Frames!Right(r) \in Int /\ Frames!Bottom(r) \in Int
  <2>1. \A r \in P : r.x \in Int /\ r.y \in Int /\ r.width \in Int /\ r.height \in Int
    BY BoxesAreSolid DEF Solid
  <2>2. \A r \in Q : r.x \in Int /\ r.y \in Int /\ r.width \in Int /\ r.height \in Int
    BY <1>2, FrameIs
  <2> HIDE DEF P, Q
  <2>3. \A r \in rects : r.x \in Int /\ r.y \in Int /\ r.width \in Int /\ r.height \in Int
    BY <2>1, <2>2
  <2> QED BY <2>3 DEF Frames!Right, Frames!Bottom
<1> HIDE DEF rects
<1>6. DOMAIN f = rects /\ (\A r \in rects : f[r] \in Int /\ f[r] \in T) /\ (\A y \in T : y = 0 \/ \E r \in rects : y = f[r]) /\ 0 \in T
  BY <1>5
<1>7. DOMAIN g = rects /\ (\A r \in rects : g[r] \in Int /\ g[r] \in V) /\ (\A y \in V : y = 0 \/ \E r \in rects : y = g[r]) /\ 0 \in V
  BY <1>5
<1> HIDE DEF f, g, T, V
<1>8. 0 \in Int
  OBVIOUS
<1>9. Frames!Max(T) \in Int
  BY <1>4, <1>6, <1>8, GreatestIs
<1>10. Frames!Max(V) \in Int
  BY <1>4, <1>7, <1>8, GreatestIs
<1> QED BY <1>9, <1>10 DEF T, V, rects, P, Q, fr

(* The canvas; an automatic one has room for the legend.                   *)
LEMMA CanvasIs ==
  ASSUME NEW d, Drawing(d)
  PROVE  LET fr == Frames!FramesOf(d)
             lp == Frames!LegendPlace(d, fr)
         IN /\ lp.x = 40 /\ lp.baseline \in Int /\ lp.width \in Int /\ Frames!ViewBox(d, fr)[1] = lp.width + 80
            /\ lp.obstacles = d.obstacles
            /\ d.view = <<>> => Frames!LegendTrouble(Frames!Entries(d), lp) \in {"none", "content-overlap"}
<1> DEFINE fr == Frames!FramesOf(d)
           lp == Frames!LegendPlace(d, fr)
           v == Frames!ViewBox(d, fr)
           E == Frames!Entries(d)
           rects == {Frames!Measured(d, id) : id \in DOMAIN d.components} \cup {fr[i].rect : i \in DOMAIN fr}
           right == Frames!Max({0} \cup {Frames!Right(r) : r \in rects})
           bottom == Frames!Max({0} \cup {Frames!Bottom(r) : r \in rects})
           wide == Frames!Most(right + 40, Frames!LegendMinWidth(E) + 2 * 40)
           extra == Frames!ExtraHeight(E, wide - 2 * 40)
           low == Frames!Max({0} \cup {Frames!Bottom(Frames!Measured(d, id)) : id \in DOMAIN d.components}
                             \cup {Frames!Bottom(fr[i].rect) : i \in DOMAIN fr})
<1>1. right \in Int /\ bottom \in Int
  BY ReachIs
<1>2. low = bottom
  <2>1. {0} \cup {Frames!Bottom(Frames!Measured(d, id)) : id \in DOMAIN d.components} \cup {Frames!Bottom(fr[i].rect) : i \in DOMAIN fr}
          = {0} \cup {Frames!Bottom(r) : r \in rects}
    <3> HIDE DEF fr
    <3> QED OBVIOUS
  <2> QED BY <2>1
<1>3. Listing(E)
  BY EntriesAre
<1>4. lp = [x |-> 40, baseline |-> v[2] - 16, width |-> v[1] - 2 * 40, minTop |-> 8 + low, obstacles |-> d.obstacles]
  BY DEF Frames!LegendPlace, Frames!Margin
<1>5. d.view = <<>> => v = <<wide, bottom + 40 + 28 + extra>>
  BY DEF Frames!ViewBox, Frames!AutoViewBox, Frames!Margin
<1>6. d.view # <<>> => v = d.view /\ d.view \in Int \X Int
  BY DEF Frames!ViewBox, Drawing
<1> HIDE DEF fr, lp, v, E, right, bottom, low
<1>7. wide \in Int /\ Frames!LegendMinWidth(E) \in Nat /\ Frames!LegendMinWidth(E) + 80 <= wide
  <2>1. Frames!LegendMinWidth(E) \in Nat
    BY <1>3, RowsAre
  <2> QED BY <1>1, <2>1 DEF Frames!Most
<1> HIDE DEF wide
<1>8. extra \in Int
  <2>1. wide - 2 * 40 \in Int
    BY <1>7
  <2>2. Frames!RowCount(E, wide - 2 * 40) \in Nat
    BY <1>3, <2>1, RowsAre
  <2> QED BY <2>2 DEF Frames!ExtraHeight, Frames!LineGap
<1> HIDE DEF extra
<1>9. v[1] \in Int /\ v[2] \in Int
  <2>1. CASE d.view = <<>>
    BY <1>1, <1>5, <1>7, <1>8, <2>1
  <2>2. CASE d.view # <<>>
    BY <1>6, <2>2
  <2> QED BY <2>1, <2>2
<1>10. lp.x = 40 /\ lp.baseline = v[2] - 16 /\ lp.width = v[1] - 80 /\ lp.minTop = 8 + low /\ lp.obstacles = d.obstacles
  <2> DEFINE top == 8 + low
             w == v[1] - 2 * 40
             y == v[2] - 16
  <2> HIDE DEF top, w, y
  <2>1. lp = [x |-> 40, baseline |-> y, width |-> w, minTop |-> top, obstacles |-> d.obstacles]
    BY <1>4 DEF top, w, y
  <2>2. lp.x = 40 /\ lp.baseline = y /\ lp.width = w /\ lp.minTop = top /\ lp.obstacles = d.obstacles
    BY <2>1
  <2>3. w = v[1] - 80
    BY <1>9 DEF w
  <2> QED BY <2>2, <2>3 DEF top, y
<1>11. ASSUME d.view = <<>> PROVE Frames!LegendTrouble(E, lp) \in {"none", "content-overlap"}
  <2>1. v[1] = wide /\ v[2] = bottom + 40 + 28 + extra
    BY <1>5, <1>11
  <2>2. lp.width = wide - 2 * 40 /\ lp.baseline = bottom + 40 + 28 + extra - 16
    <3>1. lp.width = v[1] - 80 /\ lp.baseline = v[2] - 16
      BY <1>10
    <3>2. wide - 80 = wide - 2 * 40
      BY <1>7
    <3> QED BY <1>1, <1>7, <1>8, <1>9, <2>1, <3>1, <3>2
  <2>3. ~(Frames!LegendMinWidth(E) > lp.width)
    BY <1>7, <2>2
  <2>4. Frames!LegendTop(E, lp) = lp.baseline - extra - 30
    BY <2>2 DEF Frames!LegendTop, extra
  <2>5. ~(Frames!LegendTop(E, lp) < lp.minTop)
    BY <1>1, <1>2, <1>8, <1>10, <2>2, <2>4
  <2> QED BY <2>3, <2>5 DEF Frames!LegendTrouble
<1>12. lp.baseline \in Int /\ lp.width \in Int /\ v[1] = lp.width + 80
  BY <1>9, <1>10
<1> QED BY <1>10, <1>11, <1>12 DEF fr, lp, v, E

(* A legend that is drawn can be read and is complete.                     *)
LEMMA LegendHolds ==
  ASSUME NEW d, Drawing(d)
  PROVE  LET fr == Frames!FramesOf(d)
             box == Frames!DrawnLegend(Frames!Entries(d), Frames!LegendPlace(d, fr))
         IN box # <<>> =>
              /\ \A i, j \in DOMAIN box : i # j => ~Frames!RectsOverlap(box[i], box[j], 0)
              /\ \A i \in DOMAIN box \ {0} : Frames!Right(box[i]) <= Frames!ViewBox(d, fr)[1] - Frames!Margin
              /\ \A i \in DOMAIN box, o \in d.obstacles : ~Frames!InTheWay(o, box[i])
              /\ {d.components[id].type : id \in DOMAIN d.components} \ d.legend.hidden
                   \subseteq {box[i].kind : i \in DOMAIN box}
<1> DEFINE fr == Frames!FramesOf(d)
           lp == Frames!LegendPlace(d, fr)
           E == Frames!Entries(d)
           box == Frames!DrawnLegend(E, lp)
           w == Frames!ViewBox(d, fr)[1]
<1> SUFFICES ASSUME box # <<>>
    PROVE  /\ \A i, j \in DOMAIN box : i # j => ~Frames!RectsOverlap(box[i], box[j], 0)
           /\ \A i \in DOMAIN box \ {0} : Frames!Right(box[i]) <= w - Frames!Margin
           /\ \A i \in DOMAIN box, o \in d.obstacles : ~Frames!InTheWay(o, box[i])
           /\ \A id \in DOMAIN d.components : d.components[id].type \notin d.legend.hidden =>
                \E i \in DOMAIN box : d.components[id].type = box[i].kind
  BY Zenon
<1>1. box = Frames!LegendBoxes(E, lp) /\ DOMAIN E # {} /\ Frames!LegendTrouble(E, lp) = "none"
  BY DEF Frames!DrawnLegend
<1>2. /\ lp.x = 40 /\ lp.baseline \in Int /\ lp.width \in Int /\ w = lp.width + 80 /\ lp.obstacles = d.obstacles
  BY CanvasIs
<1>3. Listing(E) /\ \A id \in DOMAIN d.components : d.components[id].type \notin d.legend.hidden =>
                      \E i \in DOMAIN E : E[i].kind = d.components[id].type
  BY <1>1, EntriesAre
<1> HIDE DEF lp, E, box, w, fr
<1>4. ~(Frames!LegendMinWidth(E) > lp.width)
      /\ \A o \in lp.obstacles, i \in {0} \cup DOMAIN E : ~Frames!InTheWay(o, Frames!LegendBoxes(E, lp)[i])
  BY <1>1 DEF Frames!LegendTrouble
<1>5. Frames!LegendMinWidth(E) <= lp.width
  <2>1. Frames!LegendMinWidth(E) \in Nat
    BY <1>2, <1>3, RowsAre
  <2> QED BY <1>2, <1>4, <2>1
<1>6. /\ DOMAIN box = {0} \cup DOMAIN E /\ DOMAIN box \subseteq Nat
      /\ \A i, j \in DOMAIN box : i # j => ~Frames!RectsOverlap(box[i], box[j], 0)
      /\ \A i \in DOMAIN E : box[i].x + box[i].width <= lp.x + lp.width /\ box[i].kind = E[i].kind
  <2>1. lp.x \in Int
    BY <1>2
  <2>2. LET lb == Frames!LegendBoxes(E, lp)
        IN /\ DOMAIN lb = {0} \cup DOMAIN E /\ DOMAIN lb \subseteq Nat
           /\ \A i, j \in DOMAIN lb : i # j => ~Frames!RectsOverlap(lb[i], lb[j], 0)
           /\ \A i \in DOMAIN E : lb[i].x + lb[i].width <= lp.x + lp.width /\ lb[i].kind = E[i].kind
    BY <1>2, <1>3, <1>5, <2>1, LegendIsApart
  <2> QED BY <1>1, <2>2
<1>7. \A i \in DOMAIN box \ {0} : Frames!Right(box[i]) <= w - Frames!Margin
  <2> TAKE i \in DOMAIN box \ {0}
  <2>1. box[i].x + box[i].width <= lp.x + lp.width
    BY <1>6
  <2>2. lp.x + lp.width = w - 40
    BY <1>2
  <2> QED BY <2>1, <2>2 DEF Frames!Right, Frames!Margin
<1>8. \A i \in DOMAIN box, o \in d.obstacles : ~Frames!InTheWay(o, box[i])
  BY <1>1, <1>2, <1>4, <1>6
<1>9. \A id \in DOMAIN d.components : d.components[id].type \notin d.legend.hidden =>
        \E i \in DOMAIN box : d.components[id].type = box[i].kind
  BY <1>3, <1>6
<1> QED BY <1>6, <1>7, <1>8, <1>9

(* A layout has no problem of titles on titles or components, and is not   *)
(* taken for one that is to come.                                          *)
LEMMA NoTitleProblem ==
  ASSUME NEW d, Drawing(d)
  PROVE  Frames!LayoutProblems(d, Frames!FramesOf(d)) \cap {"title-on-component", "titles-overlap", "unchecked"} = {}
<1> DEFINE fr == Frames!FramesOf(d)
           bad == {"title-on-component", "titles-overlap", "unchecked"}
<1>1. DOMAIN fr = Frames!Drawable(d) /\ \A i \in Frames!Drawable(d) : fr[i].title = Frames!Titles(d)[i]
  <2>1. DOMAIN fr = Frames!Drawable(d)
    BY DEF Frames!FramesOf
  <2> QED BY <2>1, FrameIs
<1>2. \A i \in DOMAIN fr : /\ \A id \in DOMAIN d.components : ~Frames!RectsOverlap(fr[i].title, Frames!Measured(d, id), 0)
                           /\ \A j \in DOMAIN fr : i # j => ~Frames!RectsOverlap(fr[i].title, fr[j].title, 0)
  BY <1>1, TitlesAreApart
<1> HIDE DEF fr
<1>3. Frames!TitleProblems(d, fr) \cap bad = {}
  <2>1. "title-on-component" \notin Frames!TitleProblems(d, fr)
    BY <1>2 DEF Frames!TitleProblems
  <2>2. "titles-overlap" \notin Frames!TitleProblems(d, fr)
    BY <1>2 DEF Frames!TitleProblems
  <2>3. "unchecked" \notin Frames!TitleProblems(d, fr)
    BY DEF Frames!TitleProblems
  <2> QED BY <2>1, <2>2, <2>3
<1>4. Frames!PairProblems(fr) \cap bad = {}
  <2>1. \A f, g : Frames!PairProblem(f, g) \notin bad
    BY DEF Frames!PairProblem
  <2>2. \A p \in Frames!PairProblems(fr) : \E f, g : p = Frames!PairProblem(f, g)
    BY DEF Frames!PairProblems
  <2> QED BY <2>1, <2>2
<1>5. Frames!GridProblems(d) \cap bad = {}
  BY DEF Frames!GridProblems
<1> QED BY <1>3, <1>4, <1>5 DEF Frames!LayoutProblems, fr

(* What was rendered.                                                      *)
Rendered ==
  LET found == Frames!LayoutProblems(diagram, frames)
      lp == Frames!LegendPlace(diagram, frames)
  IN /\ diagram.deployment => Frames!OwnershipProblems(diagram) = {}
     /\ frames = Frames!FramesOf(diagram)
     /\ found \subseteq problems /\ problems \subseteq found \cup {"legend"}
     /\ legend = <<>> \/ legend = Frames!DrawnLegend(Frames!Entries(diagram), lp)

(* What a diagram, its frames and its problems are.                        *)
FramesInv ==
  /\ Drawing(diagram) /\ boxes = Frames!Boxes(diagram)
  /\ \/ problems = Frames!Unchecked /\ frames = <<>> /\ legend = <<>>
     \/ problems = Frames!OwnershipProblems(diagram) /\ problems # {} /\ frames = <<>> /\ legend = <<>>
     \/ Rendered

(* Titles do not meet, an accepted deployment can be read off its frames,  *)
(* and the legend can be read and is complete (layoutBoundaryTitles,       *)
(* validateArchitecture, measureLegend).                                   *)
THEOREM FramesHold ==
  Frames!FramesAssumption /\ Frames!Spec => [](Frames!TitlesApart /\ Frames!OwnershipIsDrawn /\ Frames!LegendReads)
<1> SUFFICES ASSUME Frames!FramesAssumption
             PROVE  Frames!Spec => [](Frames!TitlesApart /\ Frames!OwnershipIsDrawn /\ Frames!LegendReads)
  OBVIOUS
<1>1. Frames!Init => FramesInv
  <2> SUFFICES ASSUME Frames!Init PROVE FramesInv
    OBVIOUS
  <2>1. PICK family \in DOMAIN Diagrams : diagram \in Diagrams[family]
    BY DEF Frames!Init
  <2>2. Drawing(diagram)
    BY <2>1, FramesFinite DEF Frames!FramesAssumption, Drawing
  <2> QED BY <2>2 DEF Frames!Init, FramesInv
<1>2. FramesInv /\ [Frames!Next]_Frames!vars => FramesInv'
  <2> SUFFICES ASSUME FramesInv, [Frames!Next]_Frames!vars PROVE FramesInv'
    OBVIOUS
  <2>1. CASE Frames!Profile
    <3>1. diagram' = diagram /\ boxes' = boxes /\ frames' = frames /\ legend' = legend
          /\ problems' = Frames!OwnershipProblems(diagram) /\ problems' # {} /\ problems = Frames!Unchecked
      BY <2>1 DEF Frames!Profile
    <3>2. frames = <<>> /\ legend = <<>>
      <4>1. ASSUME Rendered PROVE FALSE
        <5>1. "unchecked" \in Frames!LayoutProblems(diagram, Frames!FramesOf(diagram))
          BY <3>1, <4>1 DEF Rendered, Frames!Unchecked
        <5>2. Drawing(diagram)
          BY DEF FramesInv
        <5> QED BY <5>1, <5>2, NoTitleProblem
      <4> QED BY <4>1 DEF FramesInv
    <3> QED BY <3>1, <3>2 DEF FramesInv
  <2>2. CASE Frames!Render
    <3> DEFINE fr == Frames!FramesOf(diagram)
               found == Frames!LayoutProblems(diagram, fr)
               lp == Frames!LegendPlace(diagram, fr)
    <3>1. diagram' = diagram /\ boxes' = boxes /\ frames' = fr
          /\ (diagram.deployment => Frames!OwnershipProblems(diagram) = {})
      BY <2>2 DEF Frames!Render
    <3>2. legend' = <<>> \/ legend' = Frames!DrawnLegend(Frames!Entries(diagram), lp)
      BY <2>2 DEF Frames!Render
    <3>3. found \subseteq problems' /\ problems' \subseteq found \cup {"legend"}
      <4> HIDE DEF fr
      <4>1. PICK refused \in BOOLEAN : problems' = found \cup (IF found = {} /\ refused THEN {"legend"} ELSE {})
        BY <2>2 DEF Frames!Render, fr
      <4> HIDE DEF found
      <4> QED BY <4>1
    <3> HIDE DEF fr
    <3>4. Rendered'
      BY <3>1, <3>2, <3>3 DEF Rendered, fr
    <3> QED BY <3>1, <3>4 DEF FramesInv
  <2>3. CASE UNCHANGED Frames!vars
    BY <2>3 DEF FramesInv, Rendered, Frames!vars
  <2> QED BY <2>1, <2>2, <2>3 DEF Frames!Next, Frames!Done
<1>3. FramesInv => Frames!TitlesApart /\ Frames!OwnershipIsDrawn /\ Frames!LegendReads
  <2> SUFFICES ASSUME FramesInv PROVE Frames!TitlesApart /\ Frames!OwnershipIsDrawn /\ Frames!LegendReads
    OBVIOUS
  <2>1. Drawing(diagram) /\ DOMAIN diagram.components = DOMAIN boxes
        /\ \A id \in DOMAIN diagram.components : boxes[id] = Frames!Measured(diagram, id)
    BY DEF FramesInv, Frames!Boxes
  <2>2. CASE frames = <<>> /\ legend = <<>> /\ problems # {} /\ problems \cap {"title-on-component", "titles-overlap"} = {}
    <3>1. DOMAIN frames = {}
      BY <2>2
    <3> QED BY <2>2, <3>1 DEF Frames!TitlesApart, Frames!OwnershipIsDrawn, Frames!LegendReads, Frames!Accepted
  <2>3. CASE Rendered
    <3>1. frames = Frames!FramesOf(diagram)
          /\ Frames!LayoutProblems(diagram, frames) \subseteq problems
          /\ problems \subseteq Frames!LayoutProblems(diagram, frames) \cup {"legend"}
          /\ (legend = <<>> \/ legend = Frames!DrawnLegend(Frames!Entries(diagram), Frames!LegendPlace(diagram, frames)))
          /\ (diagram.deployment => Frames!OwnershipProblems(diagram) = {})
      BY <2>3 DEF Rendered
    <3>2. Frames!TitlesApart
      <4>1. problems \cap {"title-on-component", "titles-overlap"} = {}
        BY <2>1, <3>1, NoTitleProblem
      <4>2. DOMAIN frames = Frames!Drawable(diagram) /\ \A i \in Frames!Drawable(diagram) : frames[i].title = Frames!Titles(diagram)[i]
        <5>1. DOMAIN frames = Frames!Drawable(diagram)
          BY <3>1 DEF Frames!FramesOf
        <5> QED BY <2>1, <3>1, <5>1, FrameIs
      <4>3. \A i \in Frames!Drawable(diagram) :
              /\ \A id \in DOMAIN diagram.components : ~Frames!RectsOverlap(Frames!Titles(diagram)[i], Frames!Measured(diagram, id), 0)
              /\ \A j \in Frames!Drawable(diagram) : i # j =>
                   ~Frames!RectsOverlap(Frames!Titles(diagram)[i], Frames!Titles(diagram)[j], 0)
        BY <2>1, TitlesAreApart
      <4> QED BY <2>1, <4>1, <4>2, <4>3 DEF Frames!TitlesApart
    <3>3. Frames!OwnershipIsDrawn
      <4> SUFFICES ASSUME problems = {}, diagram.deployment PROVE Frames!OwnershipIsDrawn
        BY DEF Frames!OwnershipIsDrawn, Frames!Accepted
      <4>1. Frames!LayoutProblems(diagram, Frames!FramesOf(diagram)) = {} /\ Frames!OwnershipProblems(diagram) = {}
        BY <3>1
      <4>2. /\ \A i \in DOMAIN frames, id \in Frames!Internal(diagram) :
                 /\ frames[i].of.kind = "region"
                 /\ frames[i].of.wraps \cap Frames!Internal(diagram) # {}
                 /\ Frames!Encloses(frames[i].rect, Frames!Measured(diagram, id))
                 => id \in frames[i].of.wraps
            /\ \A id \in DOMAIN diagram.components : diagram.components[id].type = "database" =>
                 \E i, j \in DOMAIN frames :
                   /\ frames[i].of.kind = "region" /\ frames[j].of.kind = "security-group"
                   /\ id \in frames[j].of.wraps /\ frames[j].of.wraps \subseteq frames[i].of.wraps
                   /\ ~(frames[i].of.wraps \subseteq frames[j].of.wraps) => Frames!Encloses(frames[i].rect, frames[j].rect)
        BY <2>1, <3>1, <4>1, OwnershipHolds
      <4>3. \A id \in Frames!Internal(diagram) : boxes[id] = Frames!Measured(diagram, id)
        BY <2>1 DEF Frames!Internal
      <4> QED BY <4>2, <4>3 DEF Frames!OwnershipIsDrawn
    <3>4. Frames!LegendReads
      <4>1. legend # <<>> =>
              /\ \A i, j \in DOMAIN legend : i # j => ~Frames!RectsOverlap(legend[i], legend[j], 0)
              /\ \A i \in DOMAIN legend \ {0} : Frames!Right(legend[i]) <= Frames!ViewBox(diagram, frames)[1] - Frames!Margin
              /\ \A i \in DOMAIN legend, o \in diagram.obstacles : ~Frames!InTheWay(o, legend[i])
              /\ {diagram.components[id].type : id \in DOMAIN diagram.components} \ diagram.legend.hidden
                   \subseteq {legend[i].kind : i \in DOMAIN legend}
        BY <2>1, <3>1, LegendHolds
      <4>2. diagram.view = <<>> =>
              Frames!LegendTrouble(Frames!Entries(diagram), Frames!LegendPlace(diagram, frames)) \in {"none", "content-overlap"}
        BY <2>1, <3>1, CanvasIs
      <4> QED BY <4>1, <4>2 DEF Frames!LegendReads
    <3> QED BY <3>2, <3>3, <3>4
  <2>4. Frames!Unchecked \cap {"title-on-component", "titles-overlap"} = {} /\ Frames!Unchecked # {}
    BY DEF Frames!Unchecked
  <2>5. Frames!OwnershipProblems(diagram) \cap {"title-on-component", "titles-overlap"} = {}
    BY DEF Frames!OwnershipProblems
  <2> QED BY <2>2, <2>3, <2>4, <2>5 DEF FramesInv
<1> QED BY <1>1, <1>2, <1>3, PTL DEF Frames!Spec
-----------------------------------------------------------------------------
(* The comparison of two diagrams: lists whose order means nothing.        *)

(* The instance counts as the library does.                                *)
LEMMA DeltaCount == \A S : Delta!Cardinality(S) = Cardinality(S)
  BY DEF Delta!Cardinality, Cardinality

(* What can be paired off is equally many.                                 *)
LEMMA PairedOff ==
  ASSUME NEW S, NEW T, IsFiniteSet(S), NEW f \in [S -> T],
         \A x, y \in S : f[x] = f[y] => x = y,
         \A y \in T : \E x \in S : f[x] = y
  PROVE  IsFiniteSet(T) /\ Cardinality(T) = Cardinality(S)
<1>1. f \in Injection(S, T)
  BY DEF Injection, IsInjective
<1>2. f \in Surjection(S, T)
  BY DEF Surjection
<1>3. ExistsBijection(S, T)
  BY <1>1, <1>2 DEF ExistsBijection, Bijection
<1> QED BY <1>3, FS_Bijection

(* A list of numbers by place.                                             *)
LEMMA ListIs ==
  ASSUME NEW s \in Seq(Nat)
  PROVE  /\ Len(s) \in Nat /\ DOMAIN s = 1 .. Len(s) /\ s \in [1 .. Len(s) -> Nat]
         /\ IsFiniteSet(1 .. Len(s)) /\ Cardinality(1 .. Len(s)) = Len(s)
         /\ \A i \in DOMAIN s : s[i] \in Nat
<1>1. Len(s) \in Nat /\ DOMAIN s = 1 .. Len(s) /\ s \in [1 .. Len(s) -> Nat]
  OBVIOUS
<1>2. \A n \in Nat : IsFiniteSet(1 .. n) /\ Cardinality(1 .. n) = n
  <2> TAKE n \in Nat
  <2> QED BY FS_Interval
<1> QED BY <1>1, <1>2

(* The place of an element is the number of those not after it.            *)
LEMMA RankIs ==
  ASSUME NEW s \in Seq(Nat), NEW i \in DOMAIN s
  PROVE  /\ IsFiniteSet(Delta!Earlier(s, i))
         /\ Cardinality(Delta!Earlier(s, i)) \in 1 .. Len(s)
<1> DEFINE n == Len(s)
           E == Delta!Earlier(s, i)
<1>1. n \in Nat /\ DOMAIN s = 1 .. n /\ IsFiniteSet(1 .. n) /\ Cardinality(1 .. n) = n
  BY ListIs
<1>2. E \subseteq 1 .. n /\ i \in E
  BY <1>1 DEF Delta!Earlier
<1>3. IsFiniteSet(E) /\ Cardinality(E) <= n
  BY <1>1, <1>2, FS_Subset
<1>4. Cardinality(E) \in Nat /\ Cardinality(E) # 0
  BY <1>2, <1>3, FS_CardinalityType, FS_EmptySet
<1> QED BY <1>1, <1>3, <1>4

(* What is later has more before it.                                       *)
LEMMA LaterHasMore ==
  ASSUME NEW s \in Seq(Nat), NEW i \in DOMAIN s, NEW j \in DOMAIN s, j \notin Delta!Earlier(s, i)
  PROVE  Cardinality(Delta!Earlier(s, i)) < Cardinality(Delta!Earlier(s, j))
<1> DEFINE A == Delta!Earlier(s, i)
           B == Delta!Earlier(s, j)
<1>1. DOMAIN s \subseteq Nat /\ \A k \in DOMAIN s : s[k] \in Nat
  BY ListIs
<1>2. A \subseteq B /\ j \in B
  BY <1>1 DEF Delta!Earlier
<1>3. IsFiniteSet(A) /\ IsFiniteSet(B) /\ Cardinality(A) \in Nat /\ Cardinality(B) \in Nat
  BY RankIs
<1>4. Cardinality(A) <= Cardinality(B) /\ (Cardinality(A) = Cardinality(B) => A = B)
  BY <1>2, <1>3, FS_Subset
<1> QED BY <1>2, <1>3, <1>4

(* To sort a list is to read it in another order, by place.                *)
LEMMA SortedIs ==
  ASSUME NEW s \in Seq(Nat)
  PROVE  \E p \in [1 .. Len(s) -> 1 .. Len(s)] :
           /\ \A k, l \in 1 .. Len(s) : p[k] = p[l] => k = l
           /\ \A i \in 1 .. Len(s) : \E k \in 1 .. Len(s) : p[k] = i
           /\ \A k \in 1 .. Len(s) : Cardinality(Delta!Earlier(s, p[k])) = k
           /\ Delta!Normal(s) = [k \in 1 .. Len(s) |-> s[p[k]]]
<1> DEFINE n == Len(s)
           c(i) == Cardinality(Delta!Earlier(s, i))
           r == [i \in 1 .. n |-> c(i)]
           placeAt(k) == CHOOSE i \in DOMAIN s : Delta!Cardinality(Delta!Earlier(s, i)) = k
           p == [k \in 1 .. n |-> placeAt(k)]
<1>1. n \in Nat /\ DOMAIN s = 1 .. n /\ \A i \in 1 .. n : s[i] \in Nat
  BY ListIs
<1>2. \A i \in 1 .. n : c(i) \in 1 .. n
  BY <1>1, RankIs
<1>3. \A i, j \in 1 .. n : j \notin Delta!Earlier(s, i) => c(i) < c(j)
  BY <1>1, LaterHasMore
<1>4. \A i, j \in 1 .. n : j \notin Delta!Earlier(s, i) \/ i \notin Delta!Earlier(s, j) \/ i = j
  BY <1>1 DEF Delta!Earlier
<1>5. \A i, j \in 1 .. n : i # j => c(i) # c(j)
  <2> HIDE DEF c
  <2> QED BY <1>2, <1>3, <1>4
<1>6. r \in [1 .. n -> 1 .. n] /\ \A i, j \in 1 .. n : i # j => r[i] # r[j]
  BY <1>2, <1>5
<1>7. \A k \in 1 .. n : \E i \in 1 .. n : r[i] = k
  <2> HIDE DEF r
  <2> QED BY <1>1, <1>6, RanksAreAll
<1>8. ASSUME NEW k \in 1 .. n PROVE placeAt(k) \in 1 .. n /\ c(placeAt(k)) = k
  <2>1. \E i \in DOMAIN s : Delta!Cardinality(Delta!Earlier(s, i)) = k
    BY <1>1, <1>7, DeltaCount
  <2>2. placeAt(k) \in DOMAIN s /\ Delta!Cardinality(Delta!Earlier(s, placeAt(k))) = k
    BY <2>1
  <2> HIDE DEF placeAt
  <2> QED BY <2>2, <1>1, DeltaCount
<1>9. Delta!Normal(s) = [k \in 1 .. n |-> s[p[k]]]
  <2>1. Delta!Normal(s) = [k \in DOMAIN s |-> s[placeAt(k)]]
    BY DEF Delta!Normal
  <2> HIDE DEF placeAt
  <2> QED BY <2>1, <1>1
<1> HIDE DEF placeAt
<1>10. p \in [1 .. n -> 1 .. n] /\ \A k \in 1 .. n : c(p[k]) = k
  BY <1>8
<1>11. \A i \in 1 .. n : p[c(i)] = i
  BY <1>2, <1>5, <1>10
<1> HIDE DEF p
<1>12. \A k, l \in 1 .. n : p[k] = p[l] => k = l
  BY <1>10
<1>13. \A i \in 1 .. n : \E k \in 1 .. n : p[k] = i
  BY <1>2, <1>11
<1> QED BY <1>9, <1>10, <1>12, <1>13

(* How often a value occurs, and how many are less.                        *)
Of(s, d) == {i \in DOMAIN s : s[i] = d}
Under(s, v) == {i \in DOMAIN s : s[i] < v}

(* A bag tells the values and how often each of them occurs.               *)
LEMMA BagIs ==
  ASSUME NEW s, NEW t
  PROVE  Delta!Bag(s) = Delta!Bag(t) <=>
           /\ {s[i] : i \in DOMAIN s} = {t[i] : i \in DOMAIN t}
           /\ \A d \in {s[i] : i \in DOMAIN s} : Cardinality(Of(s, d)) = Cardinality(Of(t, d))
<1> DEFINE U == {s[i] : i \in DOMAIN s}
           W == {t[i] : i \in DOMAIN t}
           cs(d) == Cardinality(Of(s, d))
           ct(d) == Cardinality(Of(t, d))
<1>1. Delta!Bag(s) = [d \in U |-> cs(d)] /\ Delta!Bag(t) = [d \in W |-> ct(d)]
  <2>1. \A d : Delta!Cardinality({i \in DOMAIN s : s[i] = d}) = cs(d)
    BY DeltaCount DEF Of
  <2>2. \A d : Delta!Cardinality({i \in DOMAIN t : t[i] = d}) = ct(d)
    BY DeltaCount DEF Of
  <2> HIDE DEF cs, ct
  <2> QED BY <2>1, <2>2 DEF Delta!Bag
<1> HIDE DEF U, W, cs, ct
<1>2. [d \in U |-> cs(d)] = [d \in W |-> ct(d)] <=> U = W /\ \A d \in U : cs(d) = ct(d)
  <2>1. ASSUME [d \in U |-> cs(d)] = [d \in W |-> ct(d)] PROVE U = W /\ \A d \in U : cs(d) = ct(d)
    <3>1. DOMAIN [d \in U |-> cs(d)] = DOMAIN [d \in W |-> ct(d)]
      BY <2>1
    <3>2. U = W
      BY <3>1
    <3>3. \A d \in U : [e \in U |-> cs(e)][d] = [e \in W |-> ct(e)][d]
      BY <2>1
    <3> QED BY <3>2, <3>3
  <2>2. ASSUME U = W, \A d \in U : cs(d) = ct(d) PROVE [d \in U |-> cs(d)] = [d \in W |-> ct(d)]
    BY <2>2
  <2> QED BY <2>1, <2>2
<1> QED BY <1>1, <1>2 DEF U, W, cs, ct

(* Sorting a list keeps its bag.                                           *)
LEMMA SortedHasBag ==
  ASSUME NEW s \in Seq(Nat)
  PROVE  /\ DOMAIN Delta!Normal(s) = DOMAIN s
         /\ Delta!Bag(Delta!Normal(s)) = Delta!Bag(s)
<1> DEFINE n == Len(s)
           N == Delta!Normal(s)
<1>1. n \in Nat /\ DOMAIN s = 1 .. n /\ IsFiniteSet(1 .. n)
  BY ListIs
<1>2. PICK p \in [1 .. n -> 1 .. n] :
           /\ \A k, l \in 1 .. n : p[k] = p[l] => k = l
           /\ \A i \in 1 .. n : \E k \in 1 .. n : p[k] = i
           /\ N = [k \in 1 .. n |-> s[p[k]]]
  <2> HIDE DEF N
  <2> QED BY SortedIs DEF N
<1> HIDE DEF N, n
<1>3. DOMAIN N = 1 .. n /\ \A k \in 1 .. n : N[k] = s[p[k]]
  BY <1>2
<1>4. {N[k] : k \in DOMAIN N} = {s[i] : i \in DOMAIN s}
  <2>1. \A k \in DOMAIN N : \E i \in DOMAIN s : N[k] = s[i]
    BY <1>1, <1>2, <1>3
  <2>2. \A i \in DOMAIN s : \E k \in DOMAIN N : N[k] = s[i]
    BY <1>1, <1>2, <1>3
  <2> QED BY <2>1, <2>2
<1>5. ASSUME NEW d PROVE Cardinality(Of(N, d)) = Cardinality(Of(s, d))
  <2> DEFINE A == Of(N, d)
             B == Of(s, d)
             f == [k \in A |-> p[k]]
  <2>1. A \subseteq 1 .. n /\ B \subseteq 1 .. n
    BY <1>1, <1>3 DEF Of
  <2>2. IsFiniteSet(A)
    BY <1>1, <2>1, FS_Subset
  <2>3. \A k \in A : p[k] \in B
    BY <1>1, <1>2, <1>3 DEF Of
  <2>4. \A i \in B : \E k \in A : p[k] = i
    BY <1>1, <1>2, <1>3 DEF Of
  <2>5. \A k, l \in A : p[k] = p[l] => k = l
    BY <1>2, <2>1
  <2> HIDE DEF A, B
  <2>6. f \in [A -> B] /\ (\A k, l \in A : f[k] = f[l] => k = l) /\ (\A i \in B : \E k \in A : f[k] = i)
    BY <2>3, <2>4, <2>5
  <2> HIDE DEF f
  <2>7. Cardinality(B) = Cardinality(A)
    BY <2>2, <2>6, PairedOff
  <2> QED BY <2>7 DEF A, B
<1>6. Delta!Bag(N) = Delta!Bag(s)
  BY <1>4, <1>5, BagIs
<1> QED BY <1>1, <1>3, <1>6 DEF N

(* Lists with the same bag are read off each other in another order.       *)
LEMMA SameBagsPair ==
  ASSUME NEW s \in Seq(Nat), NEW t \in Seq(Nat), Delta!Bag(s) = Delta!Bag(t)
  PROVE  \E f \in [DOMAIN s -> DOMAIN t] :
           /\ \A i, j \in DOMAIN s : f[i] = f[j] => i = j
           /\ \A j \in DOMAIN t : \E i \in DOMAIN s : f[i] = j
           /\ \A i \in DOMAIN s : t[f[i]] = s[i]
<1> DEFINE V == {s[i] : i \in DOMAIN s}
           g == [d \in V |-> CHOOSE h : h \in Bijection(Of(s, d), Of(t, d))]
           f == [i \in DOMAIN s |-> g[s[i]][i]]
<1>1. V = {t[j] : j \in DOMAIN t} /\ \A d \in V : Cardinality(Of(s, d)) = Cardinality(Of(t, d))
  BY BagIs
<1>2. \A d : IsFiniteSet(Of(s, d)) /\ IsFiniteSet(Of(t, d))
  <2> TAKE d
  <2>1. Of(s, d) \subseteq 1 .. Len(s) /\ Of(t, d) \subseteq 1 .. Len(t)
    BY ListIs DEF Of
  <2>2. IsFiniteSet(1 .. Len(s)) /\ IsFiniteSet(1 .. Len(t))
    BY ListIs
  <2> QED BY <2>1, <2>2, FS_Subset
<1>3. ASSUME NEW d \in V
      PROVE  /\ g[d] \in [Of(s, d) -> Of(t, d)]
             /\ \A i, j \in Of(s, d) : g[d][i] = g[d][j] => i = j
             /\ \A j \in Of(t, d) : \E i \in Of(s, d) : g[d][i] = j
  <2>1. ExistsBijection(Of(s, d), Of(t, d))
    BY <1>1, <1>2, FS_SameCardinalityBij
  <2>2. \E h : h \in Bijection(Of(s, d), Of(t, d))
    BY <2>1 DEF ExistsBijection
  <2>3. g[d] \in Bijection(Of(s, d), Of(t, d))
    BY <2>2
  <2> HIDE DEF g
  <2> QED BY <2>3 DEF Bijection, Injection, Surjection, IsInjective
<1> HIDE DEF g
<1>4. ASSUME NEW i \in DOMAIN s PROVE s[i] \in V /\ i \in Of(s, s[i]) /\ f[i] = g[s[i]][i] /\ f[i] \in Of(t, s[i])
  <2>1. s[i] \in V /\ i \in Of(s, s[i]) /\ f[i] = g[s[i]][i]
    BY DEF Of
  <2> HIDE DEF f, V
  <2> QED BY <2>1, <1>3
<1>5. \A i \in DOMAIN s : f[i] \in DOMAIN t /\ t[f[i]] = s[i]
  <2> HIDE DEF f, V
  <2> QED BY <1>4 DEF Of
<1>6. f \in [DOMAIN s -> DOMAIN t]
  <2>1. f = [i \in DOMAIN s |-> f[i]]
    OBVIOUS
  <2> HIDE DEF f
  <2> QED BY <1>5, <2>1
<1>7. ASSUME NEW i \in DOMAIN s, NEW j \in DOMAIN s, f[i] = f[j] PROVE i = j
  <2> HIDE DEF f, V
  <2>1. s[i] = s[j]
    BY <1>5, <1>7
  <2>2. i \in Of(s, s[i]) /\ j \in Of(s, s[i]) /\ g[s[i]][i] = g[s[i]][j] /\ s[i] \in V
    BY <1>4, <1>7, <2>1
  <2> QED BY <1>3, <2>2
<1>8. ASSUME NEW j \in DOMAIN t PROVE \E i \in DOMAIN s : f[i] = j
  <2>1. t[j] \in V /\ j \in Of(t, t[j])
    BY <1>1 DEF Of
  <2> HIDE DEF V
  <2>2. PICK i \in Of(s, t[j]) : g[t[j]][i] = j
    BY <1>3, <2>1
  <2>3. i \in DOMAIN s /\ s[i] = t[j]
    BY <2>2 DEF Of
  <2> HIDE DEF f
  <2> QED BY <1>4, <2>2, <2>3
<1> HIDE DEF f
<1> QED BY <1>5, <1>6, <1>7, <1>8

(* What comes to a place has fewer below it, and nothing greater has.      *)
LEMMA BelowThePlace ==
  ASSUME NEW s \in Seq(Nat), NEW k \in 1 .. Len(s)
  PROVE  /\ Delta!Normal(s)[k] \in Nat
         /\ Cardinality(Under(s, Delta!Normal(s)[k])) < k
         /\ \A w \in Nat : Delta!Normal(s)[k] < w => k <= Cardinality(Under(s, w))
         /\ \A w : Cardinality(Under(s, w)) \in Nat
<1> DEFINE n == Len(s)
<1>1. n \in Nat /\ DOMAIN s = 1 .. n /\ IsFiniteSet(1 .. n) /\ \A j \in 1 .. n : s[j] \in Nat
  BY ListIs
<1>2. PICK i \in 1 .. n : Cardinality(Delta!Earlier(s, i)) = k /\ Delta!Normal(s)[k] = s[i]
  <2>1. PICK p \in [1 .. n -> 1 .. n] :
           /\ \A l \in 1 .. n : Cardinality(Delta!Earlier(s, p[l])) = l
           /\ Delta!Normal(s) = [l \in 1 .. n |-> s[p[l]]]
    BY SortedIs
  <2>2. p[k] \in 1 .. n /\ Cardinality(Delta!Earlier(s, p[k])) = k /\ Delta!Normal(s)[k] = s[p[k]]
    BY <2>1
  <2> QED BY <2>2
<1>3. \A w : IsFiniteSet(Under(s, w)) /\ Cardinality(Under(s, w)) \in Nat
  <2> TAKE w
  <2>1. Under(s, w) \subseteq 1 .. n
    BY <1>1 DEF Under
  <2> QED BY <1>1, <2>1, FS_Subset, FS_CardinalityType
<1>4. IsFiniteSet(Delta!Earlier(s, i))
  BY <1>1, RankIs
<1>5. Cardinality(Under(s, s[i])) < k
  <2> DEFINE A == Under(s, s[i])
             B == Delta!Earlier(s, i)
  <2>1. A \subseteq B /\ i \in B /\ i \notin A
    BY <1>1 DEF Under, Delta!Earlier
  <2>2. Cardinality(A) <= Cardinality(B) /\ (Cardinality(A) = Cardinality(B) => A = B)
    BY <1>4, <2>1, FS_Subset
  <2>3. Cardinality(A) \in Nat /\ Cardinality(B) = k
    BY <1>2, <1>3
  <2> HIDE DEF A, B
  <2>4. Cardinality(A) < k
    BY <2>1, <2>2, <2>3
  <2> QED BY <2>4 DEF A
<1>6. ASSUME NEW w \in Nat, s[i] < w PROVE k <= Cardinality(Under(s, w))
  <2>1. Delta!Earlier(s, i) \subseteq Under(s, w)
    BY <1>1, <1>6 DEF Under, Delta!Earlier
  <2> QED BY <1>2, <1>3, <2>1, FS_Subset
<1> QED BY <1>1, <1>2, <1>3, <1>5, <1>6

(* Two lists are the same when sorted exactly if they have the same bag.   *)
LEMMA NormalIsBag ==
  ASSUME NEW s \in Seq(Nat), NEW t \in Seq(Nat)
  PROVE  Delta!Normal(s) = Delta!Normal(t) <=> Delta!Bag(s) = Delta!Bag(t)
<1>1. ASSUME Delta!Normal(s) = Delta!Normal(t) PROVE Delta!Bag(s) = Delta!Bag(t)
  <2>1. Delta!Bag(Delta!Normal(s)) = Delta!Bag(s) /\ Delta!Bag(Delta!Normal(t)) = Delta!Bag(t)
    BY SortedHasBag
  <2> QED BY <1>1, <2>1
<1>2. ASSUME Delta!Bag(s) = Delta!Bag(t) PROVE Delta!Normal(s) = Delta!Normal(t)
  <2>1. PICK f \in [DOMAIN s -> DOMAIN t] :
           /\ \A i, j \in DOMAIN s : f[i] = f[j] => i = j
           /\ \A j \in DOMAIN t : \E i \in DOMAIN s : f[i] = j
           /\ \A i \in DOMAIN s : t[f[i]] = s[i]
    BY <1>2, SameBagsPair
  <2>2. /\ Len(s) \in Nat /\ DOMAIN s = 1 .. Len(s) /\ IsFiniteSet(DOMAIN s) /\ Cardinality(DOMAIN s) = Len(s)
        /\ Len(t) \in Nat /\ DOMAIN t = 1 .. Len(t) /\ Cardinality(DOMAIN t) = Len(t)
    BY ListIs
  <2>3. Len(s) = Len(t)
    <3>1. Cardinality(DOMAIN t) = Cardinality(DOMAIN s)
      BY <2>1, <2>2, PairedOff
    <3> QED BY <2>2, <3>1
  <2>4. ASSUME NEW v \in Nat PROVE Cardinality(Under(s, v)) = Cardinality(Under(t, v))
    <3> DEFINE A == Under(s, v)
               B == Under(t, v)
               h == [i \in A |-> f[i]]
    <3>1. A \subseteq DOMAIN s /\ IsFiniteSet(A)
      BY <2>2, FS_Subset DEF Under
    <3>2. \A i \in A : f[i] \in B
      BY <2>1 DEF Under
    <3>3. \A j \in B : \E i \in A : f[i] = j
      BY <2>1 DEF Under
    <3>4. \A i, j \in A : f[i] = f[j] => i = j
      BY <2>1, <3>1
    <3> HIDE DEF A, B
    <3>5. h \in [A -> B] /\ (\A i, j \in A : h[i] = h[j] => i = j) /\ (\A j \in B : \E i \in A : h[i] = j)
      BY <3>2, <3>3, <3>4
    <3> HIDE DEF h
    <3>6. Cardinality(B) = Cardinality(A)
      BY <3>1, <3>5, PairedOff
    <3> QED BY <3>6 DEF A, B
  <2>5. ASSUME NEW k \in 1 .. Len(s) PROVE Delta!Normal(s)[k] = Delta!Normal(t)[k]
    <3> DEFINE v == Delta!Normal(s)[k]
               w == Delta!Normal(t)[k]
               a(x) == Cardinality(Under(s, x))
    <3>1. v \in Nat /\ a(v) < k /\ \A x \in Nat : v < x => k <= a(x)
      BY BelowThePlace
    <3>2. w \in Nat /\ Cardinality(Under(t, w)) < k /\ \A x \in Nat : w < x => k <= Cardinality(Under(t, x))
      BY <2>3, BelowThePlace
    <3>3. a(w) < k /\ \A x \in Nat : w < x => k <= a(x)
      BY <2>4, <3>2
    <3>4. a(v) \in Nat /\ a(w) \in Nat
      BY BelowThePlace
    <3> HIDE DEF v, w, a
    <3>5. ~(v < w) /\ ~(w < v)
      BY <3>1, <3>2, <3>3, <3>4
    <3>6. v = w
      BY <3>1, <3>2, <3>5
    <3> QED BY <3>6 DEF v, w
  <2>6. ASSUME NEW u \in Seq(Nat) PROVE Delta!Normal(u) = [k \in 1 .. Len(u) |-> Delta!Normal(u)[k]]
    <3>1. DOMAIN u = 1 .. Len(u)
      BY ListIs
    <3> QED BY <3>1 DEF Delta!Normal
  <2>7. /\ Delta!Normal(s) = [k \in 1 .. Len(s) |-> Delta!Normal(s)[k]]
        /\ Delta!Normal(t) = [k \in 1 .. Len(t) |-> Delta!Normal(t)[k]]
    BY <2>6
  <2> QED BY <2>3, <2>5, <2>7
<1> QED BY <1>1, <1>2

(* The items of a diagram of each kind, and what an item of a kind is.     *)
Kinds == {"component", "relationship", "boundary"}
ItemsOf(kind, d) ==
  CASE kind = "component" -> d.components [] kind = "relationship" -> d.connections [] OTHER -> d.boundaries
Things(kind) ==
  CASE kind = "component" -> Delta!Component [] kind = "relationship" -> Delta!Connection [] OTHER -> Delta!Boundary

(* No two items have the same id.                                          *)
Unique(items) == \A i, j \in DOMAIN items : items[i].id = items[j].id => i = j

(* Two diagrams that may be compared.                                      *)
Comparable(b, h) ==
  /\ \A kind \in Kinds : Unique(ItemsOf(kind, b)) /\ Unique(ItemsOf(kind, h))
  /\ \A kind \in Kinds : "" \notin Delta!Ids(ItemsOf(kind, b)) /\ "" \notin Delta!Ids(ItemsOf(kind, h))
  /\ Delta!Ids(b.components) \cap Delta!Ids(h.components) # {}
  /\ ~(b.repository.given /\ h.repository.given /\ b.repository.name # h.repository.name)

(* The items of a diagram are a list of things of their kind.              *)
LEMMA ItemsAre ==
  ASSUME NEW d \in Delta!Diagram, NEW kind \in Kinds
  PROVE  /\ ItemsOf(kind, d) \in Seq(Things(kind))
         /\ DOMAIN ItemsOf(kind, d) = 1 .. Len(ItemsOf(kind, d)) /\ Len(ItemsOf(kind, d)) \in Nat
         /\ \A i \in DOMAIN ItemsOf(kind, d) : ItemsOf(kind, d)[i] \in Things(kind)
<1>1. ItemsOf(kind, d) \in Seq(Things(kind))
  BY DEF Kinds, ItemsOf, Things, Delta!Diagram
<1> DEFINE items == ItemsOf(kind, d)
           T == Things(kind)
<1>2. items \in Seq(T)
  BY <1>1
<1> HIDE DEF items, T
<1>3. DOMAIN items = 1 .. Len(items) /\ Len(items) \in Nat /\ \A i \in DOMAIN items : items[i] \in T
  BY <1>2, LenProperties, ElementOfSeq
<1> QED BY <1>2, <1>3 DEF items, T

(* A list has no fault exactly if its ids are there and differ.            *)
LEMMA FaultlessMeans ==
  ASSUME NEW items, NEW n \in Nat, DOMAIN items = 1 .. n,
         NEW missing \in {"stable-id-required", "relationship-id-required"}
  PROVE  /\ Delta!IdFault(items, missing) = "" <=> "" \notin Delta!Ids(items) /\ Unique(items)
         /\ "" \notin Delta!Ids(items) => (~Delta!DuplicateId(items) <=> Unique(items))
<1>1. ASSUME "" \notin Delta!Ids(items) PROVE ~Delta!DuplicateId(items) <=> Unique(items)
  <2>1. \A i \in 1 .. n : items[i].id # ""
    BY <1>1 DEF Delta!Ids
  <2>2. ~Delta!DuplicateId(items) <=> \A i, j \in 1 .. n : i < j => items[i].id # items[j].id
    BY <2>1 DEF Delta!DuplicateId, Delta!NoId
  <2>3. ASSUME NEW i \in 1 .. n, NEW j \in 1 .. n, i # j, \A k, l \in 1 .. n : k < l => items[k].id # items[l].id
        PROVE  items[i].id # items[j].id
    <3>1. i \in Nat /\ j \in Nat
      OBVIOUS
    <3>2. i < j \/ j < i
      BY <2>3, <3>1
    <3> QED BY <2>3, <3>2
  <2>4. Unique(items) <=> \A i, j \in 1 .. n : items[i].id = items[j].id => i = j
    BY DEF Unique
  <2>5. \A i \in 1 .. n : ~(i < i)
    OBVIOUS
  <2> QED BY <2>2, <2>3, <2>4, <2>5
<1>2. Delta!IdFault(items, missing) = "" <=> "" \notin Delta!Ids(items) /\ ~Delta!DuplicateId(items)
  BY DEF Delta!IdFault, Delta!MissingId, Delta!NoId
<1> QED BY <1>1, <1>2

(* A boundary always has an id.                                            *)
LEMMA BoundariesHaveIds ==
  ASSUME NEW d \in Delta!Diagram
  PROVE  "" \notin Delta!Ids(d.boundaries)
<1>1. ItemsOf("boundary", d) = d.boundaries /\ Things("boundary") = Delta!Boundary /\ "boundary" \in Kinds
  BY DEF ItemsOf, Things, Kinds
<1>2. \A i \in DOMAIN d.boundaries : d.boundaries[i] \in Delta!Boundary
  BY <1>1, ItemsAre
<1> QED BY <1>2 DEF Delta!Ids, Delta!Boundary, Delta!NoId

(* A comparison is refused for the first of the seven reasons there is.    *)
LEMMA RefusalMeans ==
  ASSUME NEW b \in Delta!Diagram, NEW h \in Delta!Diagram
  PROVE  Delta!Refusal(b, h) = "" <=> Comparable(b, h)
<1>0. 1 .. 7 \subseteq Nat
  OBVIOUS
<1> DEFINE shared == IF Delta!Ids(b.components) \cap Delta!Ids(h.components) = {} THEN "no-shared-component-id" ELSE ""
           keys == IF Delta!DuplicateId(b.boundaries) \/ Delta!DuplicateId(h.boundaries)
                   THEN "boundary-key-ambiguous" ELSE ""
           names == IF b.repository.given /\ h.repository.given /\ b.repository.name # h.repository.name
                    THEN "repository-mismatch" ELSE ""
           r1 == Delta!IdFault(b.components, "stable-id-required")
           r2 == Delta!IdFault(h.components, "stable-id-required")
           r4 == Delta!IdFault(b.connections, "relationship-id-required")
           r5 == Delta!IdFault(h.connections, "relationship-id-required")
           R == <<r1, r2, shared, r4, r5, keys, names>>
           G == {i \in DOMAIN R : R[i] # ""}
           m == CHOOSE i \in G : \A j \in G : i <= j
<1>1. Delta!Refusal(b, h) = IF G = {} THEN "" ELSE R[m]
  BY DEF Delta!Refusal
<1>2. DOMAIN R = 1 .. 7 /\ R[1] = r1 /\ R[2] = r2 /\ R[3] = shared /\ R[4] = r4 /\ R[5] = r5 /\ R[6] = keys /\ R[7] = names
  OBVIOUS
<1>3. G # {} => R[m] # ""
  <2> SUFFICES ASSUME G # {} PROVE m \in G
    OBVIOUS
  <2>1. G \in SUBSET Nat
    <3> HIDE DEF R
    <3> QED BY <1>0, <1>2
  <2> HIDE DEF G
  <2>2. \E i \in G : \A j \in G : i <= j
    BY <2>1, NatMin
  <2> QED BY <2>2
<1>4. G = {} <=> \A i \in 1 .. 7 : R[i] = ""
  <2> HIDE DEF R
  <2> QED BY <1>2
<1>5. Delta!Refusal(b, h) = "" <=> r1 = "" /\ r2 = "" /\ shared = "" /\ r4 = "" /\ r5 = "" /\ keys = "" /\ names = ""
  <2> HIDE DEF R, G, m, r1, r2, r4, r5, shared, keys, names
  <2>1. (\A i \in 1 .. 7 : R[i] = "") <=> R[1] = "" /\ R[2] = "" /\ R[3] = "" /\ R[4] = "" /\ R[5] = "" /\ R[6] = "" /\ R[7] = ""
    OBVIOUS
  <2>2. Delta!Refusal(b, h) = "" <=> G = {}
    BY <1>1, <1>3
  <2> QED BY <1>2, <1>4, <2>1, <2>2
<1>6. \A d \in {b, h} : /\ DOMAIN d.components = 1 .. Len(d.components) /\ Len(d.components) \in Nat
                        /\ DOMAIN d.connections = 1 .. Len(d.connections) /\ Len(d.connections) \in Nat
                        /\ DOMAIN d.boundaries = 1 .. Len(d.boundaries) /\ Len(d.boundaries) \in Nat
  BY ItemsAre DEF Kinds, ItemsOf
<1>7. \A d \in {b, h} :
         /\ Delta!IdFault(d.components, "stable-id-required") = "" <=> "" \notin Delta!Ids(d.components) /\ Unique(d.components)
         /\ Delta!IdFault(d.connections, "relationship-id-required") = ""
              <=> "" \notin Delta!Ids(d.connections) /\ Unique(d.connections)
         /\ ~Delta!DuplicateId(d.boundaries) <=> Unique(d.boundaries)
         /\ "" \notin Delta!Ids(d.boundaries)
  <2> TAKE d \in {b, h}
  <2>1. "" \notin Delta!Ids(d.boundaries)
    BY BoundariesHaveIds
  <2>3. Delta!IdFault(d.components, "stable-id-required") = "" <=> "" \notin Delta!Ids(d.components) /\ Unique(d.components)
    BY <1>6, FaultlessMeans
  <2>4. Delta!IdFault(d.connections, "relationship-id-required") = ""
              <=> "" \notin Delta!Ids(d.connections) /\ Unique(d.connections)
    BY <1>6, FaultlessMeans
  <2>5. ~Delta!DuplicateId(d.boundaries) <=> Unique(d.boundaries)
    BY <1>6, <2>1, FaultlessMeans
  <2> QED BY <2>1, <2>3, <2>4, <2>5
<1>8. Comparable(b, h) <=>
         /\ \A d \in {b, h} : /\ "" \notin Delta!Ids(d.components) /\ Unique(d.components)
                              /\ "" \notin Delta!Ids(d.connections) /\ Unique(d.connections)
                              /\ "" \notin Delta!Ids(d.boundaries) /\ Unique(d.boundaries)
         /\ Delta!Ids(b.components) \cap Delta!Ids(h.components) # {}
         /\ ~(b.repository.given /\ h.repository.given /\ b.repository.name # h.repository.name)
  BY DEF Comparable, Kinds, ItemsOf
<1>9. /\ shared = "" <=> Delta!Ids(b.components) \cap Delta!Ids(h.components) # {}
      /\ keys = "" <=> ~Delta!DuplicateId(b.boundaries) /\ ~Delta!DuplicateId(h.boundaries)
      /\ names = "" <=> ~(b.repository.given /\ h.repository.given /\ b.repository.name # h.repository.name)
  OBVIOUS
<1> HIDE DEF shared, keys, names
<1> QED BY <1>5, <1>7, <1>8, <1>9

(* What is found by an id is the item that has it.                         *)
LEMMA FoundById ==
  ASSUME NEW items, Unique(items)
  PROVE  /\ \A i \in DOMAIN items : items[i].id \in Delta!Ids(items) /\ Delta!ById(items, items[i].id) = items[i]
         /\ \A id \in Delta!Ids(items) : \E i \in DOMAIN items : items[i].id = id /\ Delta!ById(items, id) = items[i]
<1>1. ASSUME NEW i \in DOMAIN items PROVE Delta!ById(items, items[i].id) = items[i]
  <2> DEFINE j == CHOOSE j \in DOMAIN items : items[j].id = items[i].id
  <2>1. j \in DOMAIN items /\ items[j].id = items[i].id
    OBVIOUS
  <2>2. Delta!ById(items, items[i].id) = items[j]
    BY DEF Delta!ById
  <2> HIDE DEF j
  <2> QED BY <2>1, <2>2 DEF Unique
<1> QED BY <1>1 DEF Delta!Ids

(* The classes that a kind of item has, and how they decide its status.    *)
ClassesOf(kind) ==
  CASE kind = "component" -> {"semantic", "evidence", "geometry"}
    [] kind = "relationship" -> {"topology", "semantic", "geometry"}
    [] OTHER -> {"scope", "geometry"}

(* Which classes differ does not depend on which item comes first.         *)
LEMMA ClassesAre ==
  ASSUME NEW kind \in Kinds, NEW x, NEW y
  PROVE  /\ Delta!Classes(kind, x, y) = Delta!Classes(kind, y, x)
         /\ Delta!Classes(kind, x, y) \in SUBSET ClassesOf(kind)
<1>1. CASE kind = "component"
  <2>1. Delta!Classes(kind, x, y) = Delta!ComponentClasses(x, y) /\ Delta!Classes(kind, y, x) = Delta!ComponentClasses(y, x)
    BY <1>1 DEF Delta!Classes
  <2>2. Delta!ComponentClasses(x, y) = Delta!ComponentClasses(y, x)
    BY DEF Delta!ComponentClasses
  <2>3. Delta!ComponentClasses(x, y) \subseteq {"semantic", "evidence", "geometry"}
    BY DEF Delta!ComponentClasses
  <2> QED BY <1>1, <2>1, <2>2, <2>3 DEF ClassesOf
<1>2. CASE kind = "relationship"
  <2>1. Delta!Classes(kind, x, y) = Delta!ConnectionClasses(x, y) /\ Delta!Classes(kind, y, x) = Delta!ConnectionClasses(y, x)
    BY <1>2 DEF Delta!Classes
  <2>2. Delta!ConnectionClasses(x, y) = Delta!ConnectionClasses(y, x)
    BY DEF Delta!ConnectionClasses
  <2>3. Delta!ConnectionClasses(x, y) \subseteq {"topology", "semantic", "geometry"}
    BY DEF Delta!ConnectionClasses
  <2> QED BY <1>2, <2>1, <2>2, <2>3 DEF ClassesOf
<1>3. CASE kind = "boundary"
  <2>1. Delta!Classes(kind, x, y) = Delta!BoundaryClasses(x, y) /\ Delta!Classes(kind, y, x) = Delta!BoundaryClasses(y, x)
    BY <1>3 DEF Delta!Classes
  <2>2. Delta!BoundaryClasses(x, y) = Delta!BoundaryClasses(y, x)
    BY DEF Delta!BoundaryClasses
  <2>3. Delta!BoundaryClasses(x, y) \subseteq {"scope", "geometry"}
    BY DEF Delta!BoundaryClasses
  <2> QED BY <1>3, <2>1, <2>2, <2>3 DEF ClassesOf
<1> QED BY <1>1, <1>2, <1>3 DEF Kinds

(* Every class makes a status of its own: an item is the same exactly if   *)
(* it has none.                                                            *)
LEMMA StatusIs ==
  ASSUME NEW kind \in Kinds, NEW classes \in SUBSET ClassesOf(kind)
  PROVE  /\ Delta!StatusFor(classes, kind) = "same" <=> classes = {}
         /\ Delta!StatusFor(classes, kind) \notin {"added", "removed"}
<1>1. \A k \in classes : k \in {"topology", "semantic", "scope", "evidence", "geometry"}
  BY DEF Kinds, ClassesOf
<1>2. classes = {} <=> classes \cap {"topology", "semantic", "scope"} = {} /\ "evidence" \notin classes /\ "geometry" \notin classes
  BY <1>1
<1> QED BY <1>2 DEF Delta!StatusFor, Kinds

(* The change of an item, if it is in one of the diagrams.                 *)
ChangeIs(c) ==
  /\ c.kind \in Kinds
  /\ \/ c.status = "added" /\ c.classes = {Delta!IdentityClass(c.kind)} /\ ~c.baseLabel
     \/ c.status = "removed" /\ c.classes = {Delta!IdentityClass(c.kind)} /\ ~c.headLabel
     \/ /\ c.classes \in SUBSET ClassesOf(c.kind) /\ c.classes # {}
        /\ c.status = Delta!StatusFor(c.classes, c.kind)
  /\ c.kind # "relationship" => ~c.baseLabel /\ ~c.headLabel

(* What a change that is listed is.                                        *)
LEMMA ChangesAre ==
  ASSUME NEW kind \in Kinds, NEW b, NEW h, NEW c \in Delta!Changes(kind, b, h)
  PROVE  /\ c.kind = kind /\ c.id \in Delta!Ids(b) \cup Delta!Ids(h)
         /\ c = Delta!Change(kind, c.id, b, h) /\ c.status # "same" /\ ChangeIs(c)
<1>1. PICK id \in Delta!Ids(b) \cup Delta!Ids(h) : c = Delta!Change(kind, id, b, h) /\ c.status # "same"
  BY DEF Delta!Changes
<1>2. c.kind = kind /\ c.id = id
  BY <1>1 DEF Delta!Change
<1> DEFINE x == Delta!ById(b, id)
           y == Delta!ById(h, id)
<1>3. kind # "relationship" => ~c.baseLabel /\ ~c.headLabel
  BY <1>1 DEF Delta!Change, Delta!Label
<1>4. CASE id \notin Delta!Ids(b)
  <2>1. c.status = "added" /\ c.classes = {Delta!IdentityClass(kind)} /\ ~c.baseLabel
    BY <1>1, <1>4 DEF Delta!Change
  <2> QED BY <1>1, <1>2, <1>3, <2>1 DEF ChangeIs
<1>5. CASE id \in Delta!Ids(b) /\ id \notin Delta!Ids(h)
  <2>1. c.status = "removed" /\ c.classes = {Delta!IdentityClass(kind)} /\ ~c.headLabel
    BY <1>1, <1>5 DEF Delta!Change
  <2> QED BY <1>1, <1>2, <1>3, <2>1 DEF ChangeIs
<1>6. CASE id \in Delta!Ids(b) /\ id \in Delta!Ids(h)
  <2>1. c.classes = Delta!Classes(kind, x, y) /\ c.status = Delta!StatusFor(c.classes, kind)
    BY <1>1, <1>6 DEF Delta!Change
  <2>2. c.classes \in SUBSET ClassesOf(kind)
    BY <2>1, ClassesAre
  <2>3. c.classes # {}
    BY <1>1, <2>1, <2>2, StatusIs
  <2> QED BY <1>1, <1>2, <1>3, <2>1, <2>2, <2>3 DEF ChangeIs
<1> QED BY <1>4, <1>5, <1>6

(* Read backwards, a change is the change the other way round.             *)
LEMMA ChangeTurns ==
  ASSUME NEW kind \in Kinds, NEW b, NEW h, NEW id \in Delta!Ids(b) \cup Delta!Ids(h)
  PROVE  /\ Delta!Change(kind, id, h, b) = Delta!Backwards(Delta!Change(kind, id, b, h))
         /\ Delta!Change(kind, id, h, b).status = "same" <=> Delta!Change(kind, id, b, h).status = "same"
<1> DEFINE x == Delta!ById(b, id)
           y == Delta!ById(h, id)
           c == Delta!Change(kind, id, b, h)
           d == Delta!Change(kind, id, h, b)
<1>2. c = [kind |-> kind, id |-> id, classes |-> c.classes, status |-> c.status,
           baseLabel |-> c.baseLabel, headLabel |-> c.headLabel]
  BY DEF Delta!Change
<1>3. d = [kind |-> kind, id |-> id, classes |-> d.classes, status |-> d.status,
           baseLabel |-> d.baseLabel, headLabel |-> d.headLabel]
  BY DEF Delta!Change
<1>4. d.baseLabel = c.headLabel /\ d.headLabel = c.baseLabel
  BY DEF Delta!Change
<1>5. /\ d.classes = c.classes
      /\ d.status = CASE c.status = "added" -> "removed" [] c.status = "removed" -> "added" [] OTHER -> c.status
      /\ d.status = "same" <=> c.status = "same"
  <2>1. CASE id \notin Delta!Ids(b)
    BY <2>1 DEF Delta!Change
  <2>2. CASE id \in Delta!Ids(b) /\ id \notin Delta!Ids(h)
    BY <2>2 DEF Delta!Change
  <2>3. CASE id \in Delta!Ids(b) /\ id \in Delta!Ids(h)
    <3>1. /\ c.classes = Delta!Classes(kind, x, y) /\ c.status = Delta!StatusFor(c.classes, kind)
          /\ d.classes = Delta!Classes(kind, y, x) /\ d.status = Delta!StatusFor(d.classes, kind)
      BY <2>3 DEF Delta!Change
    <3>2. d.classes = c.classes /\ c.classes \in SUBSET ClassesOf(kind)
      BY <3>1, ClassesAre
    <3>3. c.status \notin {"added", "removed"}
      BY <3>1, <3>2, StatusIs
    <3> QED BY <3>1, <3>2, <3>3
  <2> QED BY <2>1, <2>2, <2>3
<1> HIDE DEF c, d
<1>6. Delta!Backwards(c) =
         [kind |-> kind, id |-> id, classes |-> c.classes,
          status |-> CASE c.status = "added" -> "removed" [] c.status = "removed" -> "added" [] OTHER -> c.status,
          baseLabel |-> c.headLabel, headLabel |-> c.baseLabel]
  <2>1. c.kind = kind /\ c.id = id
    BY DEF Delta!Change, c
  <2> QED BY <2>1 DEF Delta!Backwards
<1>7. Delta!Backwards(c) = d
  BY <1>3, <1>4, <1>5, <1>6
<1> QED BY <1>5, <1>7 DEF c, d

(* The changes of two diagrams by kind.                                    *)
LEMMA ChangesByKind ==
  ASSUME NEW b, NEW h
  PROVE  Delta!AllChanges(b, h) = UNION {Delta!Changes(kind, ItemsOf(kind, b), ItemsOf(kind, h)) : kind \in Kinds}
<1> DEFINE C(kind) == Delta!Changes(kind, ItemsOf(kind, b), ItemsOf(kind, h))
<1>1. /\ C("component") = Delta!Changes("component", b.components, h.components)
      /\ C("relationship") = Delta!Changes("relationship", b.connections, h.connections)
      /\ C("boundary") = Delta!Changes("boundary", b.boundaries, h.boundaries)
  BY DEF ItemsOf
<1>2. Delta!AllChanges(b, h) = C("component") \cup C("relationship") \cup C("boundary")
  BY <1>1 DEF Delta!AllChanges
<1> HIDE DEF C
<1>3. UNION {C(kind) : kind \in Kinds} = C("component") \cup C("relationship") \cup C("boundary")
  BY DEF Kinds
<1> QED BY <1>2, <1>3 DEF C

(* Two diagrams can be compared one way if they can the other.             *)
LEMMA ComparableBothWays ==
  ASSUME NEW b, NEW h
  PROVE  Comparable(b, h) <=> Comparable(h, b)
  BY DEF Comparable

(* What a comparison returns.                                              *)
LEMMA ComparisonIs ==
  ASSUME NEW b \in Delta!Diagram, NEW h \in Delta!Diagram
  PROVE  LET r == Delta!CompareArchitecture(b, h)
         IN /\ r.ok <=> Comparable(b, h)
            /\ r.ok \in BOOLEAN
            /\ r.changes = IF Comparable(b, h) THEN Delta!AllChanges(b, h) ELSE {}
            /\ Comparable(b, h) => /\ r.presentation <=> b.presentation # h.presentation
                                   /\ r.provenance <=> b.repository # h.repository
<1>1. CASE Comparable(b, h)
  <2>1. Delta!Refusal(b, h) = ""
    BY <1>1, RefusalMeans
  <2> QED BY <1>1, <2>1 DEF Delta!CompareArchitecture, Delta!PresentationChanged, Delta!ProvenanceChanged
<1>2. CASE ~Comparable(b, h)
  <2>1. Delta!Refusal(b, h) # ""
    BY <1>2, RefusalMeans
  <2> QED BY <1>2, <2>1 DEF Delta!CompareArchitecture, Delta!Refused
<1> QED BY <1>1, <1>2

(* The other way round, a comparison lists the same changes backwards.     *)
LEMMA BothWays ==
  ASSUME NEW b \in Delta!Diagram, NEW h \in Delta!Diagram
  PROVE  LET r == Delta!CompareArchitecture(b, h)
             back == Delta!CompareArchitecture(h, b)
         IN back.ok = r.ok /\ back.changes = {Delta!Backwards(c) : c \in r.changes}
<1> DEFINE r == Delta!CompareArchitecture(b, h)
           back == Delta!CompareArchitecture(h, b)
<1>1. back.ok = r.ok
  BY ComparisonIs, ComparableBothWays
<1>2. ASSUME NEW kind \in Kinds, NEW x, NEW y
      PROVE  /\ \A d \in Delta!Changes(kind, y, x) : \E c \in Delta!Changes(kind, x, y) : d = Delta!Backwards(c)
             /\ \A c \in Delta!Changes(kind, x, y) : Delta!Backwards(c) \in Delta!Changes(kind, y, x)
  <2>1. ASSUME NEW d \in Delta!Changes(kind, y, x)
        PROVE  \E c \in Delta!Changes(kind, x, y) : d = Delta!Backwards(c)
    <3>1. PICK id \in Delta!Ids(x) \cup Delta!Ids(y) : d = Delta!Change(kind, id, y, x) /\ d.status # "same"
      BY DEF Delta!Changes
    <3>2. d = Delta!Backwards(Delta!Change(kind, id, x, y)) /\ Delta!Change(kind, id, x, y).status # "same"
      BY <3>1, ChangeTurns
    <3>3. Delta!Change(kind, id, x, y) \in Delta!Changes(kind, x, y)
      BY <3>2 DEF Delta!Changes
    <3> QED BY <3>2, <3>3
  <2>2. ASSUME NEW c \in Delta!Changes(kind, x, y)
        PROVE  Delta!Backwards(c) \in Delta!Changes(kind, y, x)
    <3>1. PICK id \in Delta!Ids(x) \cup Delta!Ids(y) : c = Delta!Change(kind, id, x, y) /\ c.status # "same"
      BY DEF Delta!Changes
    <3>2. Delta!Backwards(c) = Delta!Change(kind, id, y, x) /\ Delta!Change(kind, id, y, x).status # "same"
      BY <3>1, ChangeTurns
    <3> QED BY <3>2 DEF Delta!Changes
  <2> QED BY <2>1, <2>2
<1>3. CASE Comparable(b, h)
  <2> DEFINE C(kind) == Delta!Changes(kind, ItemsOf(kind, b), ItemsOf(kind, h))
             D(kind) == Delta!Changes(kind, ItemsOf(kind, h), ItemsOf(kind, b))
  <2>1. r.changes = UNION {C(kind) : kind \in Kinds}
    BY <1>3, ComparisonIs, ChangesByKind
  <2>2. back.changes = UNION {D(kind) : kind \in Kinds}
    BY <1>3, ComparisonIs, ChangesByKind, ComparableBothWays
  <2>3. \A kind \in Kinds : /\ \A d \in D(kind) : \E c \in C(kind) : d = Delta!Backwards(c)
                            /\ \A c \in C(kind) : Delta!Backwards(c) \in D(kind)
    BY <1>2
  <2> HIDE DEF C, D, r, back
  <2>4. \A d \in back.changes : \E c \in r.changes : d = Delta!Backwards(c)
    BY <2>1, <2>2, <2>3
  <2>5. \A c \in r.changes : Delta!Backwards(c) \in back.changes
    BY <2>1, <2>2, <2>3
  <2>6. back.changes = {Delta!Backwards(c) : c \in r.changes}
    BY <2>4, <2>5
  <2> QED BY <1>1, <2>6 DEF r, back
<1>4. CASE ~Comparable(b, h)
  <2>1. r.changes = {} /\ back.changes = {}
    BY <1>4, ComparisonIs, ComparableBothWays
  <2> QED BY <1>1, <2>1
<1> QED BY <1>3, <1>4

(* What is compared of an item.                                            *)
View(kind, x) ==
  CASE kind = "component" -> <<x.id, x.semantic, Delta!Bag(x.sources), x.geometry>>
    [] kind = "relationship" -> x
    [] OTHER -> <<x.id, Delta!Bag(x.wraps), x.pad>>

(* Two items differ in no class exactly if all that is compared is equal.  *)
LEMMA NoClassMeans ==
  ASSUME NEW kind \in Kinds, NEW x \in Things(kind), NEW y \in Things(kind)
  PROVE  /\ View(kind, x) = View(kind, y) => x.id = y.id
         /\ x.id = y.id => (Delta!Classes(kind, x, y) = {} <=> View(kind, x) = View(kind, y))
<1>1. CASE kind = "component"
  <2>1. x.sources \in Seq(Nat) /\ y.sources \in Seq(Nat)
    BY <1>1 DEF Things, Delta!Component
  <2>2. Delta!Normal(x.sources) = Delta!Normal(y.sources) <=> Delta!Bag(x.sources) = Delta!Bag(y.sources)
    BY <2>1, NormalIsBag
  <2>3. Delta!Classes(kind, x, y) = {} <=>
          x.semantic = y.semantic /\ Delta!Normal(x.sources) = Delta!Normal(y.sources) /\ x.geometry = y.geometry
    BY <1>1 DEF Delta!Classes, Delta!ComponentClasses
  <2>4. View(kind, x) = View(kind, y) <=>
          /\ x.id = y.id /\ x.semantic = y.semantic
          /\ Delta!Bag(x.sources) = Delta!Bag(y.sources) /\ x.geometry = y.geometry
    BY <1>1 DEF View
  <2> QED BY <2>2, <2>3, <2>4
<1>2. CASE kind = "relationship"
  <2>1. x \in Delta!Connection /\ y \in Delta!Connection
    BY <1>2 DEF Things
  <2>2. Delta!Classes(kind, x, y) = {} <=>
          x.from = y.from /\ x.to = y.to /\ x.label = y.label /\ x.variant = y.variant /\ x.geometry = y.geometry
    BY <1>2 DEF Delta!Classes, Delta!ConnectionClasses
  <2>3. x = y <=> /\ x.id = y.id /\ x.from = y.from /\ x.to = y.to /\ x.label = y.label /\ x.variant = y.variant
                  /\ x.geometry = y.geometry
    BY <2>1 DEF Delta!Connection
  <2> QED BY <1>2, <2>2, <2>3 DEF View
<1>3. CASE kind = "boundary"
  <2>1. x.wraps \in Seq(Nat) /\ y.wraps \in Seq(Nat)
    BY <1>3 DEF Things, Delta!Boundary
  <2>2. Delta!Normal(x.wraps) = Delta!Normal(y.wraps) <=> Delta!Bag(x.wraps) = Delta!Bag(y.wraps)
    BY <2>1, NormalIsBag
  <2>3. Delta!Classes(kind, x, y) = {} <=> Delta!Normal(x.wraps) = Delta!Normal(y.wraps) /\ x.pad = y.pad
    BY <1>3 DEF Delta!Classes, Delta!BoundaryClasses
  <2>4. View(kind, x) = View(kind, y) <=> x.id = y.id /\ Delta!Bag(x.wraps) = Delta!Bag(y.wraps) /\ x.pad = y.pad
    BY <1>3 DEF View
  <2> QED BY <2>2, <2>3, <2>4
<1> QED BY <1>1, <1>2, <1>3 DEF Kinds

(* Nothing of a kind changed exactly if all that is compared of the items  *)
(* of that kind is equal.                                                  *)
LEMMA NoChangeMeans ==
  ASSUME NEW b \in Delta!Diagram, NEW h \in Delta!Diagram, Comparable(b, h), NEW kind \in Kinds
  PROVE  LET x == ItemsOf(kind, b)
             y == ItemsOf(kind, h)
         IN Delta!Changes(kind, x, y) = {} <=>
              {View(kind, x[i]) : i \in DOMAIN x} = {View(kind, y[i]) : i \in DOMAIN y}
<1> DEFINE x == ItemsOf(kind, b)
           y == ItemsOf(kind, h)
           T == Things(kind)
           C(id) == Delta!Change(kind, id, x, y)
<1>1. /\ Unique(x) /\ Unique(y)
      /\ \A i \in DOMAIN x : x[i] \in T
      /\ \A i \in DOMAIN y : y[i] \in T
  BY ItemsAre DEF Comparable
<1>2. Delta!Changes(kind, x, y) = {} <=> \A id \in Delta!Ids(x) \cup Delta!Ids(y) : C(id).status = "same"
  BY DEF Delta!Changes
<1>3. ASSUME NEW id PROVE C(id).status = "same" /\ id \in Delta!Ids(x) \cup Delta!Ids(y) <=>
                             /\ id \in Delta!Ids(x) /\ id \in Delta!Ids(y)
                             /\ View(kind, Delta!ById(x, id)) = View(kind, Delta!ById(y, id))
  <2>1. CASE id \in Delta!Ids(x) /\ id \in Delta!Ids(y)
    <3> DEFINE p == Delta!ById(x, id)
               q == Delta!ById(y, id)
    <3>1. p \in T /\ q \in T /\ p.id = id /\ q.id = id
      <4> HIDE DEF x, y, T
      <4>1. PICK i \in DOMAIN x : x[i].id = id /\ p = x[i]
        BY <1>1, <2>1, FoundById
      <4>2. PICK j \in DOMAIN y : y[j].id = id /\ q = y[j]
        BY <1>1, <2>1, FoundById
      <4> QED BY <1>1, <4>1, <4>2
    <3>2. C(id).status = Delta!StatusFor(Delta!Classes(kind, p, q), kind)
      BY <2>1 DEF Delta!Change
    <3> HIDE DEF C, p, q
    <3>3. C(id).status = "same" <=> Delta!Classes(kind, p, q) = {}
      BY <3>2, ClassesAre, StatusIs
    <3>4. Delta!Classes(kind, p, q) = {} <=> View(kind, p) = View(kind, q)
      BY <3>1, NoClassMeans
    <3> QED BY <2>1, <3>3, <3>4 DEF p, q
  <2>2. CASE id \in Delta!Ids(x) /\ id \notin Delta!Ids(y)
    <3>1. C(id).status = "removed"
      BY <2>2 DEF Delta!Change
    <3> QED BY <2>2, <3>1
  <2>3. CASE id \notin Delta!Ids(x)
    <3>1. C(id).status = "added"
      BY <2>3 DEF Delta!Change
    <3> QED BY <2>3, <3>1
  <2> QED BY <2>1, <2>2, <2>3
<1> HIDE DEF C, x, y, T
<1>4. ASSUME \A id \in Delta!Ids(x) \cup Delta!Ids(y) : C(id).status = "same"
      PROVE  {View(kind, x[i]) : i \in DOMAIN x} = {View(kind, y[i]) : i \in DOMAIN y}
  <2>1. ASSUME NEW i \in DOMAIN x PROVE \E j \in DOMAIN y : View(kind, x[i]) = View(kind, y[j])
    <3> DEFINE id == x[i].id
    <3>1. id \in Delta!Ids(x) /\ Delta!ById(x, id) = x[i]
      BY <1>1, FoundById
    <3> HIDE DEF id
    <3>2. id \in Delta!Ids(y) /\ View(kind, x[i]) = View(kind, Delta!ById(y, id))
      BY <1>3, <1>4, <3>1
    <3>3. PICK j \in DOMAIN y : Delta!ById(y, id) = y[j]
      BY <1>1, <3>2, FoundById
    <3> QED BY <3>2, <3>3
  <2>2. ASSUME NEW j \in DOMAIN y PROVE \E i \in DOMAIN x : View(kind, x[i]) = View(kind, y[j])
    <3> DEFINE id == y[j].id
    <3>1. id \in Delta!Ids(y) /\ Delta!ById(y, id) = y[j]
      BY <1>1, FoundById
    <3> HIDE DEF id
    <3>2. id \in Delta!Ids(x) /\ View(kind, y[j]) = View(kind, Delta!ById(x, id))
      BY <1>3, <1>4, <3>1
    <3>3. PICK i \in DOMAIN x : Delta!ById(x, id) = x[i]
      BY <1>1, <3>2, FoundById
    <3> QED BY <3>2, <3>3
  <2> QED BY <2>1, <2>2
<1>5. ASSUME {View(kind, x[i]) : i \in DOMAIN x} = {View(kind, y[i]) : i \in DOMAIN y},
             NEW id \in Delta!Ids(x) \cup Delta!Ids(y)
      PROVE  C(id).status = "same"
  <2>0. /\ \A i \in DOMAIN x : \E j \in DOMAIN y : View(kind, x[i]) = View(kind, y[j])
        /\ \A j \in DOMAIN y : \E i \in DOMAIN x : View(kind, x[i]) = View(kind, y[j])
    <3>1. \A i \in DOMAIN x : View(kind, x[i]) \in {View(kind, x[k]) : k \in DOMAIN x}
      OBVIOUS
    <3>2. \A j \in DOMAIN y : View(kind, y[j]) \in {View(kind, y[k]) : k \in DOMAIN y}
      OBVIOUS
    <3>3. \A v \in {View(kind, x[k]) : k \in DOMAIN x} : \E j \in DOMAIN y : v = View(kind, y[j])
      BY <1>5
    <3>4. \A v \in {View(kind, y[k]) : k \in DOMAIN y} : \E i \in DOMAIN x : View(kind, x[i]) = v
      BY <1>5
    <3> QED BY <3>1, <3>2, <3>3, <3>4
  <2>1. \E i \in DOMAIN x, j \in DOMAIN y : View(kind, x[i]) = View(kind, y[j]) /\ (x[i].id = id \/ y[j].id = id)
    <3>1. CASE id \in Delta!Ids(x)
      <4>1. PICK i \in DOMAIN x : x[i].id = id
        BY <3>1 DEF Delta!Ids
      <4> QED BY <2>0, <4>1
    <3>2. CASE id \in Delta!Ids(y)
      <4>1. PICK j \in DOMAIN y : y[j].id = id
        BY <3>2 DEF Delta!Ids
      <4> QED BY <2>0, <4>1
    <3> QED BY <3>1, <3>2
  <2>2. PICK i \in DOMAIN x, j \in DOMAIN y : View(kind, x[i]) = View(kind, y[j]) /\ (x[i].id = id \/ y[j].id = id)
    BY <2>1
  <2>3. x[i].id = id /\ y[j].id = id
    <3>1. x[i] \in T /\ y[j] \in T
      BY <1>1
    <3>2. x[i].id = y[j].id
      BY <2>2, <3>1, NoClassMeans DEF T
    <3> QED BY <2>2, <3>2
  <2>4. id \in Delta!Ids(x) /\ Delta!ById(x, id) = x[i]
    BY <1>1, <2>3, FoundById
  <2>5. id \in Delta!Ids(y) /\ Delta!ById(y, id) = y[j]
    BY <1>1, <2>3, FoundById
  <2> QED BY <1>3, <2>2, <2>4, <2>5
<1>6. Delta!Changes(kind, x, y) = {} <=> {View(kind, x[i]) : i \in DOMAIN x} = {View(kind, y[i]) : i \in DOMAIN y}
  BY <1>2, <1>4, <1>5
<1> QED BY <1>6 DEF x, y

(* A receipt says nothing exactly of diagrams that are equal in all that   *)
(* is compared.                                                            *)
LEMMA SilentIs ==
  ASSUME NEW b \in Delta!Diagram, NEW h \in Delta!Diagram, Comparable(b, h)
  PROVE  LET r == Delta!CompareArchitecture(b, h)
         IN r.changes = {} /\ ~r.presentation /\ ~r.provenance <=> Delta!Compared(b) = Delta!Compared(h)
<1> DEFINE r == Delta!CompareArchitecture(b, h)
           V(kind, d) == {View(kind, ItemsOf(kind, d)[i]) : i \in DOMAIN ItemsOf(kind, d)}
<1>1. r.changes = Delta!AllChanges(b, h) /\ (r.presentation <=> b.presentation # h.presentation)
      /\ (r.provenance <=> b.repository # h.repository)
  BY ComparisonIs
<1>2. Delta!AllChanges(b, h) = {} <=> \A kind \in Kinds : Delta!Changes(kind, ItemsOf(kind, b), ItemsOf(kind, h)) = {}
  BY ChangesByKind
<1>3. \A kind \in Kinds : Delta!Changes(kind, ItemsOf(kind, b), ItemsOf(kind, h)) = {} <=> V(kind, b) = V(kind, h)
  BY NoChangeMeans
<1>4. ASSUME NEW d
      PROVE  Delta!Compared(d) = <<V("component", d), V("relationship", d), V("boundary", d), d.repository, d.presentation>>
  <2>1. V("component", d) =
          {<<x.id, x.semantic, Delta!Bag(x.sources), x.geometry>> : x \in {d.components[i] : i \in DOMAIN d.components}}
    BY DEF View, ItemsOf
  <2>2. V("relationship", d) = {d.connections[i] : i \in DOMAIN d.connections}
    BY DEF View, ItemsOf
  <2>3. V("boundary", d) =
          {<<x.id, Delta!Bag(x.wraps), x.pad>> : x \in {d.boundaries[i] : i \in DOMAIN d.boundaries}}
    BY DEF View, ItemsOf
  <2> HIDE DEF V
  <2> QED BY <2>1, <2>2, <2>3 DEF Delta!Compared
<1> HIDE DEF V, r
<1>5. Delta!Compared(b) = Delta!Compared(h) <=>
         /\ V("component", b) = V("component", h) /\ V("relationship", b) = V("relationship", h)
         /\ V("boundary", b) = V("boundary", h) /\ b.repository = h.repository /\ b.presentation = h.presentation
  BY <1>4
<1>6. (\A kind \in Kinds : V(kind, b) = V(kind, h)) <=>
         /\ V("component", b) = V("component", h) /\ V("relationship", b) = V("relationship", h)
         /\ V("boundary", b) = V("boundary", h)
  BY DEF Kinds
<1>7. r.changes = {} <=> \A kind \in Kinds : V(kind, b) = V(kind, h)
  BY <1>1, <1>2, <1>3
<1> QED BY <1>1, <1>5, <1>6, <1>7 DEF r

(* What differs wherever it is counted is counted once.                    *)
LEMMA ApartSameBag ==
  ASSUME NEW f, NEW g,
         \A x, y \in DOMAIN f : f[x] = f[y] => x = y,
         \A x, y \in DOMAIN g : g[x] = g[y] => x = y,
         \A x \in DOMAIN f : \E y \in DOMAIN g : f[x] = g[y],
         \A y \in DOMAIN g : \E x \in DOMAIN f : f[x] = g[y]
  PROVE  Delta!Bag(f) = Delta!Bag(g)
<1>1. ASSUME NEW e, \A x, y \in DOMAIN e : e[x] = e[y] => x = y, NEW d \in {e[x] : x \in DOMAIN e}
      PROVE  Cardinality(Of(e, d)) = 1
  <2>1. PICK x \in DOMAIN e : e[x] = d
    BY <1>1
  <2>2. Of(e, d) = {x}
    BY <1>1, <2>1 DEF Of
  <2> QED BY <2>2, FS_Singleton
<1>2. \A d \in {f[x] : x \in DOMAIN f} : Cardinality(Of(f, d)) = 1
  BY <1>1
<1>3. \A d \in {g[x] : x \in DOMAIN g} : Cardinality(Of(g, d)) = 1
  BY <1>1
<1>4. {f[x] : x \in DOMAIN f} = {g[x] : x \in DOMAIN g}
  OBVIOUS
<1>5. \A d \in {f[x] : x \in DOMAIN f} : Cardinality(Of(f, d)) = Cardinality(Of(g, d))
  BY <1>2, <1>3, <1>4
<1> QED BY <1>4, <1>5, BagIs

(* What a tag says.                                                        *)
LEMMA TagSays ==
  ASSUME NEW n, NEW c, NEW s, NEW k, NEW f
  PROVE  LET t == Delta!Tag(n, c, s, k, f)
         IN /\ t.name = n /\ t.state = s /\ t.classes = k /\ t.from = f
            /\ t.kind = c.kind /\ t.id = c.id
  BY DEF Delta!Tag

(* All that is drawn of a change.                                          *)
Own(c) == Delta!Annotated(c) \cup Delta!Phantom(c) \cup Delta!Markers(c)

(* A sign for every old path, and one for the new.                         *)
OldPaths(c) == {u \in Delta!Phantom(c) : u.name = "path"}
OldSigns(c) == UNION {Delta!Marker(c, t.state, "oldSign") : t \in OldPaths(c)}
NewSign(c) ==
  IF c.status \in {"added", "changed", "rerouted"}
  THEN Delta!Marker(c, IF c.status = "changed" /\ "topology" \in c.classes THEN "added" ELSE c.status, "newSign")
  ELSE {}

(* The signs of a change are these, and only connections have any.         *)
LEMMA MarkersAre ==
  ASSUME NEW c
  PROVE  /\ c.kind # "relationship" => Delta!Markers(c) = {}
         /\ c.kind = "relationship" =>
              Delta!Markers(c) = OldSigns(c) \cup NewSign(c)
<1>1. c.kind # "relationship" => Delta!Markers(c) = {}
  BY DEF Delta!Markers
<1>2. c.kind = "relationship" => Delta!Markers(c) = OldSigns(c) \cup NewSign(c)
  BY DEF Delta!Markers, OldSigns, OldPaths, NewSign
<1> QED BY <1>1, <1>2

(* An element and the signs say whose they are.                            *)
LEMMA OwnIs ==
  ASSUME NEW c, c.kind \in Kinds, NEW v \in Own(c)
  PROVE  v.kind = c.kind /\ v.id = c.id
<1>1. ASSUME NEW l, NEW s, NEW f, NEW u \in Delta!Element(c, l, s, f)
      PROVE  u.kind = c.kind /\ u.id = c.id
  <2>1. \E n, k : u = Delta!Tag(n, c, s, k, f)
    BY <1>1 DEF Delta!Element, Kinds
  <2> QED BY <2>1, TagSays
<1>2. ASSUME NEW s, NEW f, NEW u \in Delta!Marker(c, s, f)
      PROVE  u.kind = c.kind /\ u.id = c.id
  BY <1>2, TagSays DEF Delta!Marker
<1>3. v \in Delta!Annotated(c) => v.kind = c.kind /\ v.id = c.id
  BY <1>1 DEF Delta!Annotated
<1>4. v \in Delta!Phantom(c) => v.kind = c.kind /\ v.id = c.id
  BY <1>1 DEF Delta!Phantom
<1>5. ASSUME v \in Delta!Markers(c) PROVE \E s, f : v \in Delta!Marker(c, s, f)
  <2>1. v \in NewSign(c) => \E s : v \in Delta!Marker(c, s, "newSign")
    BY DEF NewSign
  <2>2. v \in OldSigns(c) => \E t \in OldPaths(c) : v \in Delta!Marker(c, t.state, "oldSign")
    BY DEF OldSigns
  <2> QED BY <1>5, <2>1, <2>2, MarkersAre
<1> QED BY <1>2, <1>3, <1>4, <1>5 DEF Own

(* A change is known by its kind and id, and what is found by them in the  *)
(* drawing is its own.                                                     *)
LEMMA TargetsAre ==
  ASSUME NEW b, NEW h, NEW c \in Delta!AllChanges(b, h)
  PROVE  Delta!Targets(Delta!DeltaSvg(Delta!AllChanges(b, h)), c) = Own(c) /\ ChangeIs(c)
<1> DEFINE A == Delta!AllChanges(b, h)
<1>1. \A d \in A : /\ d.kind \in Kinds /\ ChangeIs(d)
                   /\ d = Delta!Change(d.kind, d.id, ItemsOf(d.kind, b), ItemsOf(d.kind, h))
  <2> TAKE d \in A
  <2>1. PICK kind \in Kinds : d \in Delta!Changes(kind, ItemsOf(kind, b), ItemsOf(kind, h))
    BY ChangesByKind
  <2> QED BY <2>1, ChangesAre
<1> HIDE DEF A
<1>2. \A d \in A : d.kind = c.kind /\ d.id = c.id => d = c
  BY <1>1 DEF A
<1>3. Delta!DeltaSvg(A) = UNION {Own(d) : d \in A}
  BY DEF Delta!DeltaSvg, Own
<1>4. \A d \in A : \A t \in Own(d) : t.kind = d.kind /\ t.id = d.id
  BY <1>1, OwnIs
<1>5. Delta!Targets(Delta!DeltaSvg(A), c) = Own(c)
  BY <1>2, <1>3, <1>4 DEF Delta!Targets, A
<1> QED BY <1>1, <1>5 DEF A

(* A row is valid if its tags can be listed by what they say, each with a  *)
(* description of its own.                                                 *)
LEMMA RowIs ==
  ASSUME NEW marks, NEW c, NEW g, NEW from, NEW s,
         \A p \in DOMAIN g : g[p] = Delta!Descriptor(g[p][1], g[p][2], g[p][3]),
         \A p, q \in DOMAIN g : g[p] = g[q] => p = q,
         Delta!Targets(marks, c) = {Delta!Tag(g[p][1], c, g[p][2], g[p][3], from[p]) : p \in DOMAIN g},
         Delta!ExpectedSignature(c) = Delta!Bag(g),
         Delta!PrimaryStates(c) = s,
         \A i, j \in DOMAIN s : s[i] = s[j] => i = j,
         \A p \in DOMAIN g : g[p][1] = Delta!PrimaryName(c.kind) =>
           g[p][3] = c.classes /\ \E i \in DOMAIN s : s[i] = g[p][2],
         \A i \in DOMAIN s : \E p \in DOMAIN g : g[p][1] = Delta!PrimaryName(c.kind) /\ g[p][2] = s[i]
  PROVE  Delta!RowValid(marks, c)
<1> DEFINE T == Delta!Targets(marks, c)
           says(t) == Delta!Descriptor(t.name, t.state, t.classes)
           tag(p) == Delta!Tag(g[p][1], c, g[p][2], g[p][3], from[p])
           f == [t \in T |-> says(t)]
           first == Delta!PrimaryFound(marks, c)
           e == [t \in first |-> t.state]
<1>1. \A p \in DOMAIN g : /\ says(tag(p)) = g[p] /\ tag(p).name = g[p][1] /\ tag(p).state = g[p][2]
                          /\ tag(p).classes = g[p][3]
  BY TagSays
<1>2. T = {tag(p) : p \in DOMAIN g}
  OBVIOUS
<1>3. first = {t \in T : t.name = Delta!PrimaryName(c.kind)}
  BY DEF Delta!PrimaryFound
<1>4. DOMAIN f = T /\ \A t \in T : f[t] = says(t)
  OBVIOUS
<1>5. DOMAIN e = first /\ \A t \in first : e[t] = t.state
  OBVIOUS
<1>6. Delta!Signature(marks, c) = Delta!Bag(f)
  BY DEF Delta!Signature
<1>7. Delta!RowValid(marks, c) <=>
         /\ Delta!Bag(f) = Delta!Bag(g) /\ Delta!Bag(e) = Delta!Bag(s)
         /\ \A t \in first : t.classes = c.classes
  BY <1>6 DEF Delta!RowValid
<1> HIDE DEF T, says, tag, f, first, e
<1>8. Delta!Bag(f) = Delta!Bag(g)
  <2>1. \A x, y \in DOMAIN f : f[x] = f[y] => x = y
    BY <1>1, <1>2, <1>4
  <2>2. \A x \in DOMAIN f : \E p \in DOMAIN g : f[x] = g[p]
    BY <1>1, <1>2, <1>4
  <2>3. \A p \in DOMAIN g : \E x \in DOMAIN f : f[x] = g[p]
    BY <1>1, <1>2, <1>4
  <2>4. \A x, y \in DOMAIN g : g[x] = g[y] => x = y
    OBVIOUS
  <2> QED BY <2>1, <2>2, <2>3, <2>4, ApartSameBag
<1>9. \A t \in first : \E p \in DOMAIN g : t = tag(p) /\ g[p][1] = Delta!PrimaryName(c.kind) /\ t.state = g[p][2] /\ t.classes = c.classes
  BY <1>1, <1>2, <1>3
<1>10. Delta!Bag(e) = Delta!Bag(s)
  <2>1. ASSUME NEW x \in first, NEW y \in first, x.state = y.state PROVE x = y
    <3>1. PICK p \in DOMAIN g : x = tag(p) /\ g[p][1] = Delta!PrimaryName(c.kind) /\ x.state = g[p][2] /\ g[p][3] = c.classes
      BY <1>9
    <3>2. PICK q \in DOMAIN g : y = tag(q) /\ g[q][1] = Delta!PrimaryName(c.kind) /\ y.state = g[q][2] /\ g[q][3] = c.classes
      BY <1>9
    <3>3. Delta!Descriptor(g[p][1], g[p][2], g[p][3]) = Delta!Descriptor(g[q][1], g[q][2], g[q][3])
      BY <2>1, <3>1, <3>2
    <3>4. g[p] = g[q]
      BY <3>3
    <3> QED BY <3>1, <3>2, <3>4
  <2>2. \A x \in first : \E i \in DOMAIN s : s[i] = x.state
    BY <1>9
  <2>3. ASSUME NEW i \in DOMAIN s PROVE \E x \in first : x.state = s[i]
    <3>1. PICK p \in DOMAIN g : g[p][1] = Delta!PrimaryName(c.kind) /\ g[p][2] = s[i]
      OBVIOUS
    <3>2. tag(p) \in first /\ tag(p).state = s[i]
      BY <1>1, <1>2, <1>3, <3>1
    <3> QED BY <3>2
  <2>4. \A x, y \in DOMAIN e : e[x] = e[y] => x = y
    BY <1>5, <2>1
  <2>5. \A x, y \in DOMAIN s : s[x] = s[y] => x = y
    OBVIOUS
  <2>6. \A x \in DOMAIN e : \E i \in DOMAIN s : e[x] = s[i]
    BY <1>5, <2>2
  <2>7. \A i \in DOMAIN s : \E x \in DOMAIN e : e[x] = s[i]
    BY <1>5, <2>3
  <2> QED BY <2>4, <2>5, <2>6, <2>7, ApartSameBag
<1> QED BY <1>7, <1>8, <1>9, <1>10

(* What is left of the base is drawn from the base.                        *)
Where(state) == IF state \in {"removed", "moved-from"} THEN "base" ELSE "head"

(* A component or boundary has one state, or two of which one is where it  *)
(* was.                                                                    *)
LEMMA StatesAre ==
  ASSUME NEW c, ChangeIs(c), c.kind \in {"component", "boundary"}
  PROVE  LET S == Delta!PrimaryStates(c)
             moved == \/ c.kind = "component" /\ "geometry" \in c.classes
                      \/ c.kind = "boundary" /\ c.status \in {"changed", "geometry-changed"}
         IN /\ c.status # "moved-from"
            /\ c.status = "removed" => ~moved
            /\ S = IF moved THEN <<c.status, "moved-from">> ELSE <<c.status>>
<1>1. c.status \in {"added", "removed", "changed", "evidence-changed", "moved", "geometry-changed", "same"}
  BY DEF ChangeIs, Kinds, Delta!StatusFor
<1>2. CASE c.kind = "component"
  <2>1. c.status = "removed" => c.classes = {"semantic"}
    <3>1. c.classes \in SUBSET ClassesOf(c.kind) => Delta!StatusFor(c.classes, c.kind) # "removed"
      BY <1>2, StatusIs DEF Kinds
    <3> QED BY <1>2, <3>1 DEF ChangeIs, Delta!IdentityClass
  <2>2. Delta!PrimaryStates(c) = IF "geometry" \in c.classes THEN <<c.status, "moved-from">> ELSE <<c.status>>
    BY <1>2 DEF Delta!PrimaryStates
  <2> QED BY <1>1, <1>2, <2>1, <2>2
<1>3. CASE c.kind = "boundary"
  <2>1. Delta!PrimaryStates(c) = IF c.status \in {"changed", "geometry-changed"} THEN <<c.status, "moved-from">> ELSE <<c.status>>
    BY <1>3 DEF Delta!PrimaryStates
  <2> QED BY <1>1, <1>3, <2>1
<1> QED BY <1>2, <1>3

(* The tags of a component: one for each of its states.                    *)
LEMMA ComponentRow ==
  ASSUME NEW c, ChangeIs(c), c.kind = "component", NEW marks, Delta!Targets(marks, c) = Own(c)
  PROVE  Delta!RowValid(marks, c)
<1> DEFINE S == Delta!PrimaryStates(c)
           g == [i \in DOMAIN S |-> Delta!Descriptor("g", S[i], c.classes)]
           from == [i \in DOMAIN S |-> Where(S[i])]
           moved == "geometry" \in c.classes
<1>1. /\ c.status # "moved-from"
      /\ c.status = "removed" => ~moved
      /\ S = IF moved THEN <<c.status, "moved-from">> ELSE <<c.status>>
  BY StatesAre
<1>2. \A i, j \in DOMAIN S : S[i] = S[j] => i = j
  <2> HIDE DEF S
  <2>1. CASE moved
    <3>1. DOMAIN S = {1, 2} /\ S[1] = c.status /\ S[2] = "moved-from"
      BY <1>1, <2>1
    <3> QED BY <1>1, <3>1
  <2>2. CASE ~moved
    <3>1. DOMAIN S = {1}
      BY <1>1, <2>2
    <3> QED BY <3>1
  <2> QED BY <2>1, <2>2
<1>3. Delta!ExpectedSignature(c) = Delta!Bag(g)
  BY DEF Delta!ExpectedSignature
<1>4. Own(c) = {Delta!Tag("g", c, S[i], c.classes, Where(S[i])) : i \in DOMAIN S}
  <2>1. Delta!Annotated(c) = IF c.status = "removed" THEN {} ELSE {Delta!Tag("g", c, c.status, c.classes, "head")}
    BY DEF Delta!Annotated, Delta!Element
  <2>2. Delta!Phantom(c) = IF c.status = "removed" THEN {Delta!Tag("g", c, "removed", c.classes, "base")}
                           ELSE IF moved THEN {Delta!Tag("g", c, "moved-from", c.classes, "base")} ELSE {}
    BY DEF Delta!Phantom, Delta!Element
  <2>3. Delta!Markers(c) = {}
    BY DEF Delta!Markers
  <2> HIDE DEF S
  <2>4. CASE moved
    <3>1. DOMAIN S = {1, 2} /\ S[1] = c.status /\ S[2] = "moved-from"
      BY <1>1, <2>4
    <3>2. Where(c.status) = "head" /\ Where("moved-from") = "base"
      BY <1>1, <2>4 DEF Where
    <3>3. {Delta!Tag("g", c, S[i], c.classes, Where(S[i])) : i \in DOMAIN S} =
            {Delta!Tag("g", c, c.status, c.classes, "head"), Delta!Tag("g", c, "moved-from", c.classes, "base")}
      BY <3>1, <3>2
    <3> QED BY <1>1, <2>1, <2>2, <2>3, <2>4, <3>3 DEF Own
  <2>5. CASE ~moved
    <3>1. DOMAIN S = {1} /\ S[1] = c.status
      BY <1>1, <2>5
    <3>2. Where(c.status) = IF c.status = "removed" THEN "base" ELSE "head"
      BY <1>1 DEF Where
    <3>3. {Delta!Tag("g", c, S[i], c.classes, Where(S[i])) : i \in DOMAIN S} =
            {Delta!Tag("g", c, c.status, c.classes, Where(c.status))}
      BY <3>1
    <3> QED BY <1>1, <2>1, <2>2, <2>3, <2>5, <3>2, <3>3 DEF Own
  <2> QED BY <2>4, <2>5
<1> HIDE DEF S
<1>5. \A i \in DOMAIN S : g[i][1] = "g" /\ g[i][2] = S[i] /\ g[i][3] = c.classes /\ from[i] = Where(S[i])
  BY DEF Delta!Descriptor
<1>6. DOMAIN g = DOMAIN S /\ \A i \in DOMAIN S : g[i] = Delta!Descriptor(g[i][1], g[i][2], g[i][3])
  BY <1>5
<1> HIDE DEF g, from
<1>7. \A p, q \in DOMAIN g : g[p] = g[q] => p = q
  BY <1>2, <1>5, <1>6
<1>8. Delta!Targets(marks, c) = {Delta!Tag(g[p][1], c, g[p][2], g[p][3], from[p]) : p \in DOMAIN g}
  BY <1>4, <1>5, <1>6
<1>9. Delta!PrimaryName(c.kind) = "g"
  BY DEF Delta!PrimaryName
<1>10. S = Delta!PrimaryStates(c)
  BY DEF S
<1> QED BY <1>2, <1>3, <1>5, <1>6, <1>7, <1>8, <1>9, <1>10, RowIs

(* The tags of a boundary: a frame and a label for each of its states.     *)
LEMMA BoundaryRow ==
  ASSUME NEW c, ChangeIs(c), c.kind = "boundary", NEW marks, Delta!Targets(marks, c) = Own(c)
  PROVE  Delta!RowValid(marks, c)
<1> DEFINE S == Delta!PrimaryStates(c)
           P == (DOMAIN S) \X {"rect", "text"}
           says(p) == IF p[2] = "text" THEN {} ELSE c.classes
           g == [p \in P |-> Delta!Descriptor(p[2], S[p[1]], says(p))]
           from == [p \in P |-> Where(S[p[1]])]
           moved == c.status \in {"changed", "geometry-changed"}
           both(s, f) == {Delta!Tag("rect", c, s, c.classes, f), Delta!Tag("text", c, s, {}, f)}
<1>1. /\ c.status # "moved-from"
      /\ S = IF moved THEN <<c.status, "moved-from">> ELSE <<c.status>>
  BY StatesAre
<1>2. \A i, j \in DOMAIN S : S[i] = S[j] => i = j
  <2> HIDE DEF S
  <2>1. CASE moved
    <3>1. DOMAIN S = {1, 2} /\ S[1] = c.status /\ S[2] = "moved-from"
      BY <1>1, <2>1
    <3> QED BY <1>1, <3>1
  <2>2. CASE ~moved
    <3>1. DOMAIN S = {1}
      BY <1>1, <2>2
    <3> QED BY <3>1
  <2> QED BY <2>1, <2>2
<1>3. Delta!ExpectedSignature(c) = Delta!Bag(g)
  BY DEF Delta!ExpectedSignature
<1>4. Own(c) = UNION {both(S[i], Where(S[i])) : i \in DOMAIN S}
  <2>1. Delta!Annotated(c) = IF c.status = "removed" THEN {} ELSE both(c.status, "head")
    BY DEF Delta!Annotated, Delta!Element
  <2>2. Delta!Phantom(c) = IF c.status = "removed" THEN both("removed", "base")
                           ELSE IF moved THEN both("moved-from", "base") ELSE {}
    BY DEF Delta!Phantom, Delta!Element
  <2>3. Delta!Markers(c) = {}
    BY DEF Delta!Markers
  <2> HIDE DEF S, both
  <2>4. CASE moved
    <3>1. DOMAIN S = {1, 2} /\ S[1] = c.status /\ S[2] = "moved-from"
      BY <1>1, <2>4
    <3>2. Where(c.status) = "head" /\ Where("moved-from") = "base"
      BY <1>1, <2>4 DEF Where
    <3>3. {both(S[i], Where(S[i])) : i \in DOMAIN S} = {both(c.status, "head"), both("moved-from", "base")}
      BY <3>1, <3>2
    <3>4. UNION {both(S[i], Where(S[i])) : i \in DOMAIN S} = both(c.status, "head") \cup both("moved-from", "base")
      BY <3>3
    <3> QED BY <1>1, <2>1, <2>2, <2>3, <2>4, <3>4 DEF Own
  <2>5. CASE ~moved
    <3>1. DOMAIN S = {1} /\ S[1] = c.status
      BY <1>1, <2>5
    <3>2. Where(c.status) = IF c.status = "removed" THEN "base" ELSE "head"
      BY <1>1 DEF Where
    <3>3. {both(S[i], Where(S[i])) : i \in DOMAIN S} = {both(c.status, Where(c.status))}
      BY <3>1
    <3>4. UNION {both(S[i], Where(S[i])) : i \in DOMAIN S} = both(c.status, Where(c.status))
      BY <3>3
    <3> QED BY <1>1, <2>1, <2>2, <2>3, <2>5, <3>2, <3>4 DEF Own
  <2> QED BY <2>4, <2>5
<1> HIDE DEF S
<1>5. \A p \in P : /\ g[p][1] = p[2] /\ g[p][2] = S[p[1]] /\ g[p][3] = says(p) /\ from[p] = Where(S[p[1]])
                   /\ g[p] = Delta!Descriptor(g[p][1], g[p][2], g[p][3])
                   /\ p = <<p[1], p[2]>> /\ p[1] \in DOMAIN S /\ p[2] \in {"rect", "text"}
  BY DEF Delta!Descriptor
<1>6. DOMAIN g = P /\ \A i \in DOMAIN S : /\ <<i, "rect">> \in P /\ says(<<i, "rect">>) = c.classes
                                          /\ <<i, "text">> \in P /\ says(<<i, "text">>) = {}
  OBVIOUS
<1>7. \A p \in P : says(p) = IF p[2] = "text" THEN {} ELSE c.classes
  OBVIOUS
<1> HIDE DEF g, from, P, says
<1>8. \A p, q \in DOMAIN g : g[p] = g[q] => p = q
  BY <1>2, <1>5, <1>6
<1>9. Delta!Targets(marks, c) = {Delta!Tag(g[p][1], c, g[p][2], g[p][3], from[p]) : p \in DOMAIN g}
  <2> DEFINE tag(p) == Delta!Tag(g[p][1], c, g[p][2], g[p][3], from[p])
  <2>1. \A p \in P : tag(p) = Delta!Tag(p[2], c, S[p[1]], says(p), Where(S[p[1]]))
    BY <1>5
  <2>2. ASSUME NEW i \in DOMAIN S
        PROVE  both(S[i], Where(S[i])) = {tag(<<i, "rect">>), tag(<<i, "text">>)}
    <3>1. /\ tag(<<i, "rect">>) = Delta!Tag("rect", c, S[i], says(<<i, "rect">>), Where(S[i]))
          /\ tag(<<i, "text">>) = Delta!Tag("text", c, S[i], says(<<i, "text">>), Where(S[i]))
      <4> HIDE DEF tag
      <4> QED BY <1>6, <2>1
    <3> HIDE DEF tag
    <3> QED BY <1>6, <3>1
  <2>3. \A p \in P : tag(p) \in both(S[p[1]], Where(S[p[1]]))
    BY <1>5, <1>7, <2>1
  <2> HIDE DEF tag, both
  <2>4. ASSUME NEW t \in Own(c) PROVE \E p \in P : t = tag(p)
    <3>1. PICK i \in DOMAIN S : t \in both(S[i], Where(S[i]))
      BY <1>4
    <3> QED BY <1>6, <2>2, <3>1
  <2>5. \A p \in P : tag(p) \in Own(c)
    BY <1>4, <1>5, <2>3
  <2>6. Own(c) = {tag(p) : p \in P}
    BY <2>4, <2>5
  <2> QED BY <1>6, <2>6 DEF tag
<1>10. Delta!PrimaryName(c.kind) = "rect"
  BY DEF Delta!PrimaryName
<1>11. S = Delta!PrimaryStates(c)
  BY DEF S
<1>12. \A p \in DOMAIN g : g[p][1] = Delta!PrimaryName(c.kind) =>
         g[p][3] = c.classes /\ \E i \in DOMAIN S : S[i] = g[p][2]
  BY <1>5, <1>6, <1>7, <1>10
<1>13. \A i \in DOMAIN S : \E p \in DOMAIN g : g[p][1] = Delta!PrimaryName(c.kind) /\ g[p][2] = S[i]
  <2> TAKE i \in DOMAIN S
  <2>1. <<i, "rect">> \in P /\ g[<<i, "rect">>][1] = "rect" /\ g[<<i, "rect">>][2] = S[i]
    BY <1>5, <1>6
  <2> QED BY <1>6, <1>10, <2>1
<1>14. \A p \in DOMAIN g : g[p] = Delta!Descriptor(g[p][1], g[p][2], g[p][3])
  BY <1>5, <1>6
<1> QED BY <1>2, <1>3, <1>8, <1>9, <1>11, <1>12, <1>13, <1>14, RowIs

(* A connection is drawn in one form, or in two when it was elsewhere.     *)
Old(c) == Delta!Form("removed", "removed", c.baseLabel)
Gone(c) == Delta!Form("moved-from", "moved-from", c.baseLabel)
Now(c) == Delta!Form(c.status, c.status, c.headLabel)
Anew(c) == Delta!Form("changed", "added", c.headLabel)

(* The five ways a connection changes.                                     *)
LEMMA WaysAre ==
  ASSUME NEW c, ChangeIs(c), c.kind = "relationship"
  PROVE  \/ /\ c.status = "added" /\ c.classes = {"topology"}
            /\ Delta!Forms(c) = <<Now(c)>> /\ Delta!PrimaryStates(c) = <<"added">>
         \/ /\ c.status = "removed" /\ c.classes = {"topology"}
            /\ Delta!Forms(c) = <<Old(c)>> /\ Delta!PrimaryStates(c) = <<"removed">>
         \/ /\ c.status = "changed" /\ "topology" \in c.classes
            /\ Delta!Forms(c) = <<Old(c), Anew(c)>> /\ Delta!PrimaryStates(c) = <<"changed", "removed">>
         \/ /\ c.status \in {"changed", "rerouted"} /\ "topology" \notin c.classes /\ "geometry" \in c.classes
            /\ Delta!Forms(c) = <<Gone(c), Now(c)>> /\ Delta!PrimaryStates(c) = <<"moved-from", c.status>>
         \/ /\ c.status = "changed" /\ "topology" \notin c.classes /\ "geometry" \notin c.classes
            /\ Delta!Forms(c) = <<Now(c)>> /\ Delta!PrimaryStates(c) = <<"changed">>
<1>1. CASE c.status = "added" /\ c.classes = {Delta!IdentityClass(c.kind)}
  <2>1. c.classes = {"topology"}
    BY <1>1 DEF Delta!IdentityClass
  <2>2. Delta!Forms(c) = <<Now(c)>>
    BY <1>1 DEF Delta!Forms, Now
  <2>3. Delta!PrimaryStates(c) = <<"added">>
    BY <1>1, <2>1 DEF Delta!PrimaryStates
  <2> QED BY <1>1, <2>1, <2>2, <2>3
<1>2. CASE c.status = "removed" /\ c.classes = {Delta!IdentityClass(c.kind)}
  <2>1. c.classes = {"topology"}
    BY <1>2 DEF Delta!IdentityClass
  <2>2. Delta!Forms(c) = <<Old(c)>>
    BY <1>2 DEF Delta!Forms, Old
  <2>3. Delta!PrimaryStates(c) = <<"removed">>
    BY <1>2, <2>1 DEF Delta!PrimaryStates
  <2> QED BY <1>2, <2>1, <2>2, <2>3
<1>3. CASE c.classes \in SUBSET ClassesOf(c.kind) /\ c.classes # {} /\ c.status = Delta!StatusFor(c.classes, c.kind)
  <2>1. c.classes \subseteq {"topology", "semantic", "geometry"} /\ c.classes # {}
    BY <1>3 DEF ClassesOf
  <2>2. CASE "topology" \in c.classes
    <3>1. c.status = "changed"
      BY <1>3, <2>2 DEF Delta!StatusFor
    <3>2. Delta!Forms(c) = <<Old(c), Anew(c)>>
      BY <2>2, <3>1 DEF Delta!Forms, Old, Anew
    <3>3. Delta!PrimaryStates(c) = <<"changed", "removed">>
      BY <2>2, <3>1 DEF Delta!PrimaryStates
    <3> QED BY <2>2, <3>1, <3>2, <3>3
  <2>3. CASE "topology" \notin c.classes /\ "geometry" \in c.classes
    <3>1. c.status \in {"changed", "rerouted"}
      BY <1>3, <2>1, <2>3 DEF Delta!StatusFor
    <3>2. Delta!Forms(c) = <<Gone(c), Now(c)>>
      BY <2>3, <3>1 DEF Delta!Forms, Gone, Now
    <3>3. Delta!PrimaryStates(c) = <<"moved-from", c.status>>
      BY <2>3, <3>1 DEF Delta!PrimaryStates
    <3> QED BY <2>3, <3>1, <3>2, <3>3
  <2>4. CASE "topology" \notin c.classes /\ "geometry" \notin c.classes
    <3>1. "semantic" \in c.classes
      BY <2>1, <2>4
    <3>2. c.status = "changed"
      BY <1>3, <3>1 DEF Delta!StatusFor
    <3>3. Delta!Forms(c) = <<Now(c)>>
      BY <2>4, <3>2 DEF Delta!Forms, Now
    <3>4. Delta!PrimaryStates(c) = <<"changed">>
      BY <2>4, <3>2 DEF Delta!PrimaryStates
    <3> QED BY <2>4, <3>2, <3>3, <3>4
  <2> QED BY <2>2, <2>3, <2>4
<1> QED BY <1>1, <1>2, <1>3 DEF ChangeIs

(* What is drawn of a connection in one form.                              *)
Sign(state) == IF state \in {"removed", "moved-from"} THEN "oldSign" ELSE "newSign"
Drawn(c, f) ==
  {Delta!Tag("path", c, f.state, c.classes, Where(f.state)), Delta!Tag("text", c, f.marker, {}, Sign(f.state))}
    \cup (IF f.labelled THEN {Delta!Tag("g", c, f.state, c.classes, Where(f.state))} ELSE {})

(* The old path has one sign.                                              *)
LEMMA OldSignIs ==
  ASSUME NEW c, c.kind = "relationship", NEW l, NEW s, Delta!Phantom(c) = Delta!Element(c, l, s, "base")
  PROVE  Delta!Markers(c) = Delta!Marker(c, s, "oldSign") \cup NewSign(c)
<1>1. OldPaths(c) = {Delta!Tag("path", c, s, c.classes, "base")}
  <2>1. \A u \in OldPaths(c) : u = Delta!Tag("path", c, s, c.classes, "base")
    <3> TAKE u \in OldPaths(c)
    <3>1. u \in Delta!Element(c, l, s, "base") /\ u.name = "path"
      BY DEF OldPaths
    <3>2. u = Delta!Tag("path", c, s, c.classes, "base") \/ u = Delta!Tag("g", c, s, c.classes, "base")
      BY <3>1 DEF Delta!Element
    <3> QED BY <3>1, <3>2, TagSays
  <2>2. Delta!Tag("path", c, s, c.classes, "base") \in OldPaths(c)
    <3>1. Delta!Tag("path", c, s, c.classes, "base") \in Delta!Element(c, l, s, "base")
      BY DEF Delta!Element
    <3> QED BY <3>1, TagSays DEF OldPaths
  <2> QED BY <2>1, <2>2
<1>2. \A t \in OldPaths(c) : t.state = s
  BY <1>1, TagSays
<1>3. OldSigns(c) = Delta!Marker(c, s, "oldSign")
  <2>1. {Delta!Marker(c, t.state, "oldSign") : t \in OldPaths(c)} = {Delta!Marker(c, s, "oldSign")}
    BY <1>1, <1>2
  <2> QED BY <2>1 DEF OldSigns
<1> QED BY <1>3, MarkersAre

(* A connection that is drawn as it was has no old sign.                   *)
LEMMA NoOldSign ==
  ASSUME NEW c, c.kind = "relationship", Delta!Phantom(c) = {}
  PROVE  Delta!Markers(c) = NewSign(c)
<1>1. OldPaths(c) = {}
  BY DEF OldPaths
<1>2. OldSigns(c) = {}
  BY <1>1 DEF OldSigns
<1> QED BY <1>2, MarkersAre

(* What is drawn of a connection is what its forms are drawn as.           *)
LEMMA ConnectionIsDrawn ==
  ASSUME NEW c, ChangeIs(c), c.kind = "relationship"
  PROVE  Own(c) = UNION {Drawn(c, Delta!Forms(c)[i]) : i \in DOMAIN Delta!Forms(c)}
<1>1. ASSUME NEW l, NEW s, NEW m, NEW w, w = Where(s)
      PROVE  Drawn(c, Delta!Form(s, m, l)) = Delta!Element(c, l, s, w) \cup Delta!Marker(c, m, Sign(s))
  <2>1. /\ Delta!Form(s, m, l).state = s /\ Delta!Form(s, m, l).marker = m /\ Delta!Form(s, m, l).labelled = l
    BY DEF Delta!Form
  <2> QED BY <1>1, <2>1 DEF Drawn, Delta!Element, Delta!Marker
<1>2. ASSUME NEW f, Delta!Forms(c) = <<f>>
      PROVE  UNION {Drawn(c, Delta!Forms(c)[i]) : i \in DOMAIN Delta!Forms(c)} = Drawn(c, f)
  <2>1. DOMAIN Delta!Forms(c) = {1} /\ Delta!Forms(c)[1] = f
    BY <1>2
  <2>2. {Drawn(c, Delta!Forms(c)[i]) : i \in DOMAIN Delta!Forms(c)} = {Drawn(c, f)}
    BY <2>1
  <2> QED BY <2>2
<1>3. ASSUME NEW f, NEW g, Delta!Forms(c) = <<f, g>>
      PROVE  UNION {Drawn(c, Delta!Forms(c)[i]) : i \in DOMAIN Delta!Forms(c)} = Drawn(c, f) \cup Drawn(c, g)
  <2>1. DOMAIN Delta!Forms(c) = {1, 2} /\ Delta!Forms(c)[1] = f /\ Delta!Forms(c)[2] = g
    BY <1>3
  <2>2. {Drawn(c, Delta!Forms(c)[i]) : i \in DOMAIN Delta!Forms(c)} = {Drawn(c, f), Drawn(c, g)}
    BY <2>1
  <2> QED BY <2>2
<1>4. CASE c.status = "added" /\ c.classes = {"topology"} /\ Delta!Forms(c) = <<Now(c)>>
  <2>1. Delta!Annotated(c) = Delta!Element(c, c.headLabel, "added", "head") /\ Delta!Phantom(c) = {}
    BY <1>4 DEF Delta!Annotated, Delta!Phantom
  <2>2. Delta!Markers(c) = Delta!Marker(c, "added", "newSign")
    BY <1>4, <2>1, NoOldSign DEF NewSign
  <2>3. Where("added") = "head" /\ Sign("added") = "newSign"
    BY DEF Where, Sign
  <2>4. Drawn(c, Now(c)) = Delta!Element(c, c.headLabel, "added", "head") \cup Delta!Marker(c, "added", "newSign")
    BY <1>1, <1>4, <2>3 DEF Now
  <2> QED BY <1>2, <1>4, <2>1, <2>2, <2>4 DEF Own
<1>5. CASE c.status = "removed" /\ c.classes = {"topology"} /\ Delta!Forms(c) = <<Old(c)>>
  <2>1. Delta!Annotated(c) = {} /\ Delta!Phantom(c) = Delta!Element(c, c.baseLabel, "removed", "base")
    BY <1>5 DEF Delta!Annotated, Delta!Phantom
  <2>2. NewSign(c) = {}
    BY <1>5 DEF NewSign
  <2>3. Delta!Markers(c) = Delta!Marker(c, "removed", "oldSign")
    BY <2>1, <2>2, OldSignIs
  <2>4. Where("removed") = "base" /\ Sign("removed") = "oldSign"
    BY DEF Where, Sign
  <2>5. Drawn(c, Old(c)) = Delta!Element(c, c.baseLabel, "removed", "base") \cup Delta!Marker(c, "removed", "oldSign")
    BY <1>1, <2>4 DEF Old
  <2> QED BY <1>2, <1>5, <2>1, <2>3, <2>5 DEF Own
<1>6. CASE c.status = "changed" /\ "topology" \in c.classes /\ Delta!Forms(c) = <<Old(c), Anew(c)>>
  <2>1. /\ Delta!Annotated(c) = Delta!Element(c, c.headLabel, "changed", "head")
        /\ Delta!Phantom(c) = Delta!Element(c, c.baseLabel, "removed", "base")
    BY <1>6 DEF Delta!Annotated, Delta!Phantom
  <2>2. NewSign(c) = Delta!Marker(c, "added", "newSign")
    BY <1>6 DEF NewSign
  <2>3. Delta!Markers(c) = Delta!Marker(c, "removed", "oldSign") \cup Delta!Marker(c, "added", "newSign")
    BY <2>1, <2>2, OldSignIs
  <2>4. Where("removed") = "base" /\ Sign("removed") = "oldSign" /\ Where("changed") = "head" /\ Sign("changed") = "newSign"
    BY DEF Where, Sign
  <2>5. Drawn(c, Old(c)) = Delta!Element(c, c.baseLabel, "removed", "base") \cup Delta!Marker(c, "removed", "oldSign")
    BY <1>1, <2>4 DEF Old
  <2>6. Drawn(c, Anew(c)) = Delta!Element(c, c.headLabel, "changed", "head") \cup Delta!Marker(c, "added", "newSign")
    BY <1>1, <2>4 DEF Anew
  <2> QED BY <1>3, <1>6, <2>1, <2>3, <2>5, <2>6 DEF Own
<1>7. CASE /\ c.status \in {"changed", "rerouted"} /\ "topology" \notin c.classes /\ "geometry" \in c.classes
           /\ Delta!Forms(c) = <<Gone(c), Now(c)>>
  <2>1. /\ Delta!Annotated(c) = Delta!Element(c, c.headLabel, c.status, "head")
        /\ Delta!Phantom(c) = Delta!Element(c, c.baseLabel, "moved-from", "base")
    BY <1>7 DEF Delta!Annotated, Delta!Phantom
  <2>2. NewSign(c) = Delta!Marker(c, c.status, "newSign")
    BY <1>7 DEF NewSign
  <2>3. Delta!Markers(c) = Delta!Marker(c, "moved-from", "oldSign") \cup Delta!Marker(c, c.status, "newSign")
    BY <2>1, <2>2, OldSignIs
  <2>4. Where("moved-from") = "base" /\ Sign("moved-from") = "oldSign" /\ Where(c.status) = "head" /\ Sign(c.status) = "newSign"
    BY <1>7 DEF Where, Sign
  <2>5. Drawn(c, Gone(c)) = Delta!Element(c, c.baseLabel, "moved-from", "base") \cup Delta!Marker(c, "moved-from", "oldSign")
    BY <1>1, <2>4 DEF Gone
  <2>6. Drawn(c, Now(c)) = Delta!Element(c, c.headLabel, c.status, "head") \cup Delta!Marker(c, c.status, "newSign")
    BY <1>1, <2>4 DEF Now
  <2> QED BY <1>3, <1>7, <2>1, <2>3, <2>5, <2>6 DEF Own
<1>8. CASE c.status = "changed" /\ "topology" \notin c.classes /\ "geometry" \notin c.classes /\ Delta!Forms(c) = <<Now(c)>>
  <2>1. Delta!Annotated(c) = Delta!Element(c, c.headLabel, "changed", "head") /\ Delta!Phantom(c) = {}
    BY <1>8 DEF Delta!Annotated, Delta!Phantom
  <2>2. Delta!Markers(c) = Delta!Marker(c, "changed", "newSign")
    BY <1>8, <2>1, NoOldSign DEF NewSign
  <2>3. Where("changed") = "head" /\ Sign("changed") = "newSign"
    BY DEF Where, Sign
  <2>4. Drawn(c, Now(c)) = Delta!Element(c, c.headLabel, "changed", "head") \cup Delta!Marker(c, "changed", "newSign")
    BY <1>1, <1>8, <2>3 DEF Now
  <2> QED BY <1>2, <1>8, <2>1, <2>2, <2>4 DEF Own
<1> QED BY <1>4, <1>5, <1>6, <1>7, <1>8, WaysAre

(* The tags of a connection: a path and a sign for each of its forms, and  *)
(* a group where the form has a label.                                     *)
LEMMA ConnectionRow ==
  ASSUME NEW c, ChangeIs(c), c.kind = "relationship", NEW marks, Delta!Targets(marks, c) = Own(c)
  PROVE  Delta!RowValid(marks, c)
<1> DEFINE F == Delta!Forms(c)
           S == Delta!PrimaryStates(c)
           P == {p \in (DOMAIN F) \X {"path", "text", "g"} : p[2] = "g" => F[p[1]].labelled}
           g == [p \in P |-> IF p[2] = "text" THEN Delta!Descriptor("text", F[p[1]].marker, {})
                             ELSE Delta!Descriptor(p[2], F[p[1]].state, c.classes)]
           L == {i \in DOMAIN F : F[i].labelled}
           from == [p \in P |-> IF p[2] = "text" THEN Sign(F[p[1]].state) ELSE Where(F[p[1]].state)]
<1>1. /\ \A i, j \in DOMAIN F : F[i].state = F[j].state => i = j
      /\ \A i, j \in DOMAIN F : F[i].marker = F[j].marker => i = j
      /\ \A i, j \in DOMAIN S : S[i] = S[j] => i = j
      /\ \A i \in DOMAIN F : \E j \in DOMAIN S : S[j] = F[i].state
      /\ \A j \in DOMAIN S : \E i \in DOMAIN F : S[j] = F[i].state
  <2> HIDE DEF F, S
  <2>1. ASSUME NEW s, NEW m, NEW l
        PROVE  /\ Delta!Form(s, m, l).state = s /\ Delta!Form(s, m, l).marker = m
    BY DEF Delta!Form
  <2>2. ASSUME NEW f, F = <<f>>, S = <<f.state>>
        PROVE  <1>1!:
    <3>1. DOMAIN F = {1} /\ F[1] = f /\ DOMAIN S = {1} /\ S[1] = f.state
      BY <2>2
    <3> QED BY <3>1
  <2>3. ASSUME NEW f, NEW h, F = <<f, h>>, f.state # h.state, f.marker # h.marker,
               S = <<f.state, h.state>> \/ S = <<h.state, f.state>>
        PROVE  <1>1!:
    <3>1. DOMAIN F = {1, 2} /\ F[1] = f /\ F[2] = h
      BY <2>3
    <3>2. CASE S = <<f.state, h.state>>
      <4>1. DOMAIN S = {1, 2} /\ S[1] = f.state /\ S[2] = h.state
        BY <3>2
      <4> QED BY <2>3, <3>1, <4>1
    <3>3. CASE S = <<h.state, f.state>>
      <4>1. DOMAIN S = {1, 2} /\ S[1] = h.state /\ S[2] = f.state
        BY <3>3
      <4> QED BY <2>3, <3>1, <4>1
    <3> QED BY <2>3, <3>2, <3>3
  <2>4. Now(c).state = c.status /\ Now(c).marker = c.status
    BY <2>1 DEF Now
  <2>5. Old(c).state = "removed" /\ Old(c).marker = "removed"
    BY <2>1 DEF Old
  <2>6. Gone(c).state = "moved-from" /\ Gone(c).marker = "moved-from"
    BY <2>1 DEF Gone
  <2>7. Anew(c).state = "changed" /\ Anew(c).marker = "added"
    BY <2>1 DEF Anew
  <2>8. CASE F = <<Now(c)>> /\ S = <<c.status>>
    BY <2>2, <2>4, <2>8
  <2>9. CASE F = <<Old(c)>> /\ S = <<"removed">>
    BY <2>2, <2>5, <2>9
  <2>10. CASE F = <<Old(c), Anew(c)>> /\ S = <<"changed", "removed">>
    BY <2>3, <2>5, <2>7, <2>10
  <2>11. CASE c.status \in {"changed", "rerouted"} /\ F = <<Gone(c), Now(c)>> /\ S = <<"moved-from", c.status>>
    BY <2>3, <2>4, <2>6, <2>11
  <2> QED BY <2>8, <2>9, <2>10, <2>11, WaysAre DEF F, S
<1>2. Delta!ExpectedSignature(c) = Delta!Bag(g)
  BY DEF Delta!ExpectedSignature
<1>3. Own(c) = UNION {Drawn(c, F[i]) : i \in DOMAIN F}
  BY ConnectionIsDrawn
<1> HIDE DEF F, S
<1>4. \A p \in P : /\ p = <<p[1], p[2]>> /\ p[1] \in DOMAIN F /\ p[2] \in {"path", "text", "g"}
                   /\ p[2] = "g" => p[1] \in L
  OBVIOUS
<1>5. \A i \in DOMAIN F : <<i, "path">> \in P /\ <<i, "text">> \in P /\ (i \in L => <<i, "g">> \in P)
  OBVIOUS
<1>6. DOMAIN g = P /\ \A p \in P :
         /\ p[2] = "text" => /\ g[p] = Delta!Descriptor("text", F[p[1]].marker, {})
                             /\ from[p] = Sign(F[p[1]].state)
         /\ p[2] # "text" => /\ g[p] = Delta!Descriptor(p[2], F[p[1]].state, c.classes)
                             /\ from[p] = Where(F[p[1]].state)
  OBVIOUS
<1> HIDE DEF P, g, from, L
<1>7. \A n, s, k : Delta!Descriptor(n, s, k)[1] = n /\ Delta!Descriptor(n, s, k)[2] = s /\ Delta!Descriptor(n, s, k)[3] = k
  BY DEF Delta!Descriptor
<1>8. \A p \in DOMAIN g : g[p] = Delta!Descriptor(g[p][1], g[p][2], g[p][3]) /\ g[p][1] = p[2]
  BY <1>6, <1>7
<1>9. ASSUME NEW p \in DOMAIN g, NEW q \in DOMAIN g, g[p] = g[q] PROVE p = q
  <2>1. p[2] = q[2]
    BY <1>8, <1>9
  <2>2. p[1] = q[1]
    <3>1. CASE p[2] = "text"
      BY <1>1, <1>4, <1>6, <1>7, <1>9, <2>1, <3>1
    <3>2. CASE p[2] # "text"
      BY <1>1, <1>4, <1>6, <1>7, <1>9, <2>1, <3>2
    <3> QED BY <3>1, <3>2
  <2> QED BY <1>4, <1>6, <2>1, <2>2
<1>10. Delta!Targets(marks, c) = {Delta!Tag(g[p][1], c, g[p][2], g[p][3], from[p]) : p \in DOMAIN g}
  <2> DEFINE tag(p) == Delta!Tag(g[p][1], c, g[p][2], g[p][3], from[p])
  <2>1. ASSUME NEW i \in DOMAIN F
        PROVE  /\ tag(<<i, "path">>) = Delta!Tag("path", c, F[i].state, c.classes, Where(F[i].state))
               /\ tag(<<i, "text">>) = Delta!Tag("text", c, F[i].marker, {}, Sign(F[i].state))
               /\ i \in L => tag(<<i, "g">>) = Delta!Tag("g", c, F[i].state, c.classes, Where(F[i].state))
    <3>1. <<i, "path">>[1] = i /\ <<i, "path">>[2] = "path" /\ <<i, "text">>[1] = i /\ <<i, "text">>[2] = "text"
          /\ <<i, "g">>[1] = i /\ <<i, "g">>[2] = "g"
      OBVIOUS
    <3>2. /\ g[<<i, "path">>] = Delta!Descriptor("path", F[i].state, c.classes)
          /\ from[<<i, "path">>] = Where(F[i].state)
      BY <1>5, <1>6, <3>1
    <3>3. /\ g[<<i, "text">>] = Delta!Descriptor("text", F[i].marker, {})
          /\ from[<<i, "text">>] = Sign(F[i].state)
      BY <1>5, <1>6, <3>1
    <3>4. i \in L => /\ g[<<i, "g">>] = Delta!Descriptor("g", F[i].state, c.classes)
                    /\ from[<<i, "g">>] = Where(F[i].state)
      BY <1>5, <1>6, <3>1
    <3> QED BY <1>7, <3>2, <3>3, <3>4
  <2>2. ASSUME NEW i \in DOMAIN F
        PROVE  Drawn(c, F[i]) = {tag(<<i, "path">>), tag(<<i, "text">>)} \cup (IF i \in L THEN {tag(<<i, "g">>)} ELSE {})
    <3>1. CASE i \in L
      <4>1. F[i].labelled
        BY <3>1 DEF L
      <4> QED BY <2>1, <3>1, <4>1 DEF Drawn
    <3>2. CASE i \notin L
      <4>1. ~F[i].labelled
        BY <3>2 DEF L
      <4> QED BY <2>1, <3>2, <4>1 DEF Drawn
    <3> QED BY <3>1, <3>2
  <2>3. ASSUME NEW t \in Own(c) PROVE \E p \in P : t = tag(p)
    <3>1. PICK i \in DOMAIN F : t \in Drawn(c, F[i])
      BY <1>3
    <3>2. \/ t = tag(<<i, "path">>) \/ t = tag(<<i, "text">>) \/ (i \in L /\ t = tag(<<i, "g">>))
      <4>1. CASE i \in L
        <5>1. t = tag(<<i, "path">>) \/ t = tag(<<i, "text">>) \/ t = tag(<<i, "g">>)
          BY <2>2, <3>1, <4>1
        <5> QED BY <4>1, <5>1
      <4>2. CASE i \notin L
        <5>1. t = tag(<<i, "path">>) \/ t = tag(<<i, "text">>)
          BY <2>2, <3>1, <4>2
        <5> QED BY <5>1
      <4> QED BY <4>1, <4>2
    <3> QED BY <1>5, <3>2
  <2>4. ASSUME NEW p \in P PROVE tag(p) \in Own(c)
    <3> DEFINE i == p[1]
    <3>1. i \in DOMAIN F /\ (p = <<i, "path">> \/ p = <<i, "text">> \/ (i \in L /\ p = <<i, "g">>))
      <4>1. p = <<i, p[2]>> /\ i \in DOMAIN F /\ (p[2] = "g" => i \in L)
        BY <1>4
      <4>2. p[2] = "path" \/ p[2] = "text" \/ p[2] = "g"
        BY <1>4
      <4> HIDE DEF i
      <4>3. p[2] = "path" => p = <<i, "path">>
        BY <4>1
      <4>4. p[2] = "text" => p = <<i, "text">>
        BY <4>1
      <4>5. p[2] = "g" => i \in L /\ p = <<i, "g">>
        BY <4>1
      <4> QED BY <4>1, <4>2, <4>3, <4>4, <4>5
    <3> HIDE DEF i
    <3>2. tag(p) \in Drawn(c, F[i])
      BY <2>2, <3>1
    <3> QED BY <1>3, <3>1, <3>2
  <2>5. Own(c) = {tag(p) : p \in P}
    BY <2>3, <2>4
  <2> QED BY <1>6, <2>5 DEF tag
<1>11. Delta!PrimaryName(c.kind) = "path"
  BY DEF Delta!PrimaryName
<1>12. ASSUME NEW p \in DOMAIN g, g[p][1] = Delta!PrimaryName(c.kind)
       PROVE  g[p][3] = c.classes /\ \E i \in DOMAIN S : S[i] = g[p][2]
  <2>1. p[2] = "path" /\ p[1] \in DOMAIN F
    BY <1>4, <1>6, <1>8, <1>11, <1>12
  <2>2. g[p][2] = F[p[1]].state /\ g[p][3] = c.classes
    BY <1>6, <1>7, <2>1
  <2> QED BY <1>1, <2>1, <2>2
<1>13. ASSUME NEW j \in DOMAIN S
       PROVE  \E p \in DOMAIN g : g[p][1] = Delta!PrimaryName(c.kind) /\ g[p][2] = S[j]
  <2>1. PICK i \in DOMAIN F : S[j] = F[i].state
    BY <1>1
  <2>2. <<i, "path">> \in P /\ g[<<i, "path">>] = Delta!Descriptor("path", F[i].state, c.classes)
    BY <1>5, <1>6
  <2> QED BY <1>6, <1>7, <1>11, <2>1, <2>2
<1>14. S = Delta!PrimaryStates(c)
  BY DEF S
<1> QED BY <1>1, <1>2, <1>8, <1>9, <1>10, <1>12, <1>13, <1>14, RowIs

(* Whatever is drawn of a change is what its row says.                     *)
LEMMA RowsAreValid ==
  ASSUME NEW b, NEW h, NEW c \in Delta!AllChanges(b, h)
  PROVE  Delta!RowValid(Delta!DeltaSvg(Delta!AllChanges(b, h)), c)
<1>1. /\ Delta!Targets(Delta!DeltaSvg(Delta!AllChanges(b, h)), c) = Own(c)
      /\ ChangeIs(c)
  BY TargetsAre
<1>2. c.kind \in {"component", "relationship", "boundary"}
  BY <1>1 DEF ChangeIs, Kinds
<1> QED BY <1>1, <1>2, ComponentRow, ConnectionRow, BoundaryRow

(* Where the comparison stands.                                            *)
DeltaInv ==
  /\ pair \in Delta!Diagram \X Delta!Diagram
  /\ phase \in {"given", "compared", "drawn", "valid"}
  /\ phase # "given" => receipt = Delta!CompareArchitecture(pair[1], pair[2])
  /\ phase = "compared" \/ phase = "given" \/ receipt.ok
  /\ phase = "drawn" => svg = Delta!DeltaSvg(receipt.changes)

(* What a receipt lists can be validated.                                  *)
LEMMA DrawnIsValid ==
  ASSUME NEW b \in Delta!Diagram, NEW h \in Delta!Diagram,
         NEW r, r = Delta!CompareArchitecture(b, h), r.ok, NEW c \in r.changes
  PROVE  Delta!RowValid(Delta!DeltaSvg(r.changes), c)
<1>1. r.changes = Delta!AllChanges(b, h)
  BY ComparisonIs
<1> QED BY <1>1, RowsAreValid

(* A comparison passes its own validation, says the same both ways round,  *)
(* and says nothing only of equal diagrams.                                *)
LEMMA DeltaHolds ==
  ASSUME Delta!DeltaAssumption
  PROVE  Delta!Spec => [](Delta!DrawingMatchesReceipt /\ Delta!ComparesBothWays /\ Delta!SilentMeansEqual)
<1>1. Delta!Init => DeltaInv
  <2> SUFFICES ASSUME Delta!Init PROVE DeltaInv
    OBVIOUS
  <2>1. pair \in Comparisons /\ phase = "given"
    BY Zenon DEF Delta!Init
  <2>2. pair \in Delta!Diagram \X Delta!Diagram
    BY <2>1 DEF Delta!DeltaAssumption
  <2> QED BY <2>1, <2>2 DEF DeltaInv
<1>2. DeltaInv /\ [Delta!Next]_Delta!vars => DeltaInv'
  <2> SUFFICES ASSUME DeltaInv, [Delta!Next]_Delta!vars
               PROVE  DeltaInv'
    OBVIOUS
  <2>1. CASE Delta!Compare
    BY <2>1 DEF DeltaInv, Delta!Compare, Delta!base, Delta!head
  <2>2. CASE Delta!Draw
    BY <2>2 DEF DeltaInv, Delta!Draw
  <2>3. CASE Delta!Validate
    <3>1. phase = "drawn" /\ receipt.ok /\ svg = Delta!DeltaSvg(receipt.changes)
          /\ receipt = Delta!CompareArchitecture(pair[1], pair[2])
          /\ pair[1] \in Delta!Diagram /\ pair[2] \in Delta!Diagram
      BY <2>3 DEF DeltaInv, Delta!Validate
    <3>2. \A c \in receipt.changes : Delta!RowValid(svg, c)
      BY <3>1, DrawnIsValid
    <3> QED BY <2>3, <3>1, <3>2 DEF DeltaInv, Delta!Validate
  <2>4. CASE UNCHANGED Delta!vars
    BY <2>4 DEF DeltaInv, Delta!vars
  <2> QED BY <2>1, <2>2, <2>3, <2>4 DEF Delta!Next
<1>3. DeltaInv => Delta!DrawingMatchesReceipt /\ Delta!ComparesBothWays /\ Delta!SilentMeansEqual
  <2> SUFFICES ASSUME DeltaInv
               PROVE  Delta!DrawingMatchesReceipt /\ Delta!ComparesBothWays /\ Delta!SilentMeansEqual
    OBVIOUS
  <2>1. Delta!DrawingMatchesReceipt
    BY DEF DeltaInv, Delta!DrawingMatchesReceipt
  <2>2. pair[1] \in Delta!Diagram /\ pair[2] \in Delta!Diagram
    BY DEF DeltaInv
  <2>3. CASE phase = "compared"
    <3>1. receipt = Delta!CompareArchitecture(pair[1], pair[2])
      BY <2>3 DEF DeltaInv
    <3>2. Delta!ComparesBothWays
      BY <2>2, <3>1, BothWays DEF Delta!ComparesBothWays, Delta!base, Delta!head
    <3>3. Delta!SilentMeansEqual
      <4> SUFFICES ASSUME receipt.ok PROVE Delta!Silent <=> Delta!Compared(pair[1]) = Delta!Compared(pair[2])
        BY DEF Delta!SilentMeansEqual, Delta!base, Delta!head
      <4>1. Comparable(pair[1], pair[2])
        BY <2>2, <3>1, ComparisonIs
      <4> QED BY <2>2, <3>1, <4>1, SilentIs DEF Delta!Silent
    <3> QED BY <2>1, <3>2, <3>3
  <2>4. CASE phase # "compared"
    BY <2>1, <2>4 DEF Delta!ComparesBothWays, Delta!SilentMeansEqual
  <2> QED BY <2>3, <2>4
<1> QED BY <1>1, <1>2, <1>3, PTL DEF Delta!Spec
-----------------------------------------------------------------------------
(* A behaviour of Archify is one of a single part.                         *)

(* In the world of lifelines a behaviour is one of Lifelines.              *)
LEMMA LifelinesRuns == Spec => Lifelines!Spec \/ []~(world = "lifelines")
<1>1. Init /\ world = "lifelines" => Lifelines!Init
  BY DEF Init
<1>2. world = "lifelines" /\ [Next]_everything => [Lifelines!Next]_Lifelines!vars /\ (world = "lifelines")'
  BY WorldStays DEF Next, everything, lifelineVars, Lifelines!vars, OnlyCache, OnlyOutput, OnlyBrand,
         OnlyRelease, OnlyEvidence, OnlyLifelines, OnlyFrames, OnlyDelta, OnlyReview
<1>3. ~(world = "lifelines") /\ [Next]_everything => ~(world = "lifelines")'
  BY WorldStays
<1> QED BY <1>1, <1>2, <1>3, PTL DEF Spec, Lifelines!Spec

(* In the world of frames a behaviour is one of Frames.                    *)
LEMMA FramesRuns == Spec => Frames!Spec \/ []~(world = "frames")
<1>1. Init /\ world = "frames" => Frames!Init
  BY DEF Init
<1>2. world = "frames" /\ [Next]_everything => [Frames!Next]_Frames!vars /\ (world = "frames")'
  BY WorldStays DEF Next, everything, frameVars, Frames!vars, OnlyCache, OnlyOutput, OnlyBrand,
         OnlyRelease, OnlyEvidence, OnlyLifelines, OnlyFrames, OnlyDelta, OnlyReview
<1>3. ~(world = "frames") /\ [Next]_everything => ~(world = "frames")'
  BY WorldStays
<1> QED BY <1>1, <1>2, <1>3, PTL DEF Spec, Frames!Spec

(* In the world of delta a behaviour is one of Delta.                      *)
LEMMA DeltaRuns == Spec => Delta!Spec \/ []~(world = "delta")
<1>1. Init /\ world = "delta" => Delta!Init
  BY DEF Init
<1>2. world = "delta" /\ [Next]_everything => [Delta!Next]_Delta!vars /\ (world = "delta")'
  BY WorldStays DEF Next, everything, deltaVars, Delta!vars, OnlyCache, OnlyOutput, OnlyBrand,
         OnlyRelease, OnlyEvidence, OnlyLifelines, OnlyFrames, OnlyDelta, OnlyReview
<1>3. ~(world = "delta") /\ [Next]_everything => ~(world = "delta")'
  BY WorldStays
<1> QED BY <1>1, <1>2, <1>3, PTL DEF Spec, Delta!Spec

(* The messages of an accepted sequence can be told apart, and labels of   *)
(* segments hide none (validateSequence, segmentLabelBox).                 *)
THEOREM LifelinesCorrect == Spec => []LifelinesTell
<1>1. LifelinesTell <=> ~(world = "lifelines") \/ (Lifelines!MessagesReadable /\ Lifelines!TagsHideNothing)
  BY DEF LifelinesTell
<1>2. Lifelines!LayoutAssumption
  BY InstancesAreLegal DEF ConstantsAreLegal
<1>3. Lifelines!Spec => [](Lifelines!MessagesReadable /\ Lifelines!TagsHideNothing)
  BY <1>2, LifelinesHold
<1> QED BY <1>1, <1>3, LifelinesRuns, PTL

(* Titles of boundaries cover nothing, an accepted deployment can be read  *)
(* off its frames, and a drawn legend is complete and hides nothing        *)
(* (layoutBoundaryTitles, validateArchitecture, measureLegend).            *)
THEOREM FramesCorrect == Spec => []FramesTell
<1>1. FramesTell <=> ~(world = "frames") \/ (Frames!TitlesApart /\ Frames!OwnershipIsDrawn /\ Frames!LegendReads)
  BY DEF FramesTell
<1>2. Frames!FramesAssumption
  BY InstancesAreLegal DEF ConstantsAreLegal
<1>3. Frames!Spec => [](Frames!TitlesApart /\ Frames!OwnershipIsDrawn /\ Frames!LegendReads)
  BY <1>2, FramesHold
<1> QED BY <1>1, <1>3, FramesRuns, PTL

(* The drawing of a comparison shows what its receipt says, the receipt    *)
(* says the same both ways round, and says nothing only of diagrams that   *)
(* are equal in what is compared (compareArchitecture, buildDeltaSvg,      *)
(* expectedReviewTargetSignature).                                         *)
THEOREM DeltaCorrect == Spec => []DeltaTells
<1>1. DeltaTells <=> ~(world = "delta") \/
        (Delta!DrawingMatchesReceipt /\ Delta!ComparesBothWays /\ Delta!SilentMeansEqual)
  BY DEF DeltaTells
<1>2. Delta!DeltaAssumption
  BY InstancesAreLegal DEF ConstantsAreLegal
<1>3. Delta!Spec => [](Delta!DrawingMatchesReceipt /\ Delta!ComparesBothWays /\ Delta!SilentMeansEqual)
  BY <1>2, DeltaHolds
<1> QED BY <1>1, <1>3, DeltaRuns, PTL
=============================================================================
