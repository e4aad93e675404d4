--------------------------- MODULE SequenceLayout ---------------------------
(***************************************************************************)
(* The layout of a sequence diagram: the columns of the participants, the  *)
(* arrows and labels of the messages, the time segments and their labels,  *)
(* and what validation refuses.  A label is the width of its text and      *)
(* mask; lengths are pixels.                                               *)
(***************************************************************************)
EXTENDS RouteGeometry

CONSTANT Sequences   \* families of sequences a renderer may be given

VARIABLES
  sequence,   \* the sequence as the author wrote it
  tags,       \* the boxes of the segments' labels, <<>> before the layout
  faults      \* what validation found, Pending before it ran

vars == <<sequence, tags, faults>>

(* Pixels are whole numbers here; a message goes between two columns.      *)
Message(participants) ==
  [from : 1..participants, to : 1..participants, y : Int, label : Nat]
Segment == [from : Int, to : Int, label : Nat]

LayoutAssumption ==
  \A family \in DOMAIN Sequences : \A q \in Sequences[family] :
    /\ q.participants \in Nat \ {0} /\ q.view \in Nat \X Nat
    /\ q.messages \in Seq(Message(q.participants)) /\ q.segments \in Seq(Segment)

Pending == {"pending"}
TopY == 72
HeaderHeight == 54
LifelineTop == 142
LifelineBottom(q) == q.view[2] - 65
-----------------------------------------------------------------------------
(* column_fit "spread" widens the columns with the canvas.                 *)
ColumnWidth(q) ==
  IF q.spread
  THEN Most(86, Least(190, (2 * (q.view[1] - 124) + q.participants) \div (2 * q.participants) - 24)) ELSE 86
ColumnGap(q) ==
  IF q.spread /\ q.participants > 1
  THEN Most(108, (q.view[1] - 102 - ColumnWidth(q)) \div (q.participants - 1)) ELSE 108
ColumnX(q, i) == (IF q.spread THEN 62 + ColumnWidth(q) \div 2 ELSE 62) + (i - 1) * ColumnGap(q)
Header(q, i) ==
  [x |-> ColumnX(q, i) - ColumnWidth(q) \div 2, y |-> TopY, width |-> ColumnWidth(q), height |-> HeaderHeight]

(* messageGeometry: the arrow stops 7 px short of both lifelines.          *)
Arrow(q, m) ==
  LET h == IF ColumnX(q, m.to) > ColumnX(q, m.from) THEN 1 ELSE -1
  IN <<<<ColumnX(q, m.from) + 7 * h, m.y>>, <<ColumnX(q, m.to) - 7 * h, m.y>>>>
MessageLabel(q, m) ==
  [x |-> (Arrow(q, m)[1][1] + Arrow(q, m)[2][1] - m.label) \div 2, y |-> m.y - 20, width |-> m.label, height |-> 16]
MessageRoute(q, m) ==
  LET box == SegmentBox(Arrow(q, m)) IN [box EXCEPT !.y = @ - 2, !.height = 4]

(* messagePath: the gates measure from lifeline to lifeline.               *)
MessagePath(q, m) == <<<<ColumnX(q, m.from), m.y>>, <<ColumnX(q, m.to), m.y>>>>

Frame(q, s) == [x |-> 48, y |-> s.from, width |-> q.view[1] - 96, height |-> s.to - s.from, radius |-> 10]

(* segmentLabelBox: a label moves up, at most so often, from messages.     *)
Tries == 4
Occupied(q) ==
  UNION {{MessageLabel(q, m), MessageRoute(q, m)} : m \in Range(q.messages)}

Moved(q, tag) ==
  IF \E box \in Occupied(q) : RectsOverlap(tag, box, 2) THEN [tag EXCEPT !.y = @ - 22] ELSE tag
SegmentTag(q, s) ==
  LET after[n \in 0..Tries] ==
        IF n = 0 THEN [x |-> 56, y |-> s.from - 22, width |-> s.label, height |-> 18]
        ELSE Moved(q, after[n - 1])
  IN after[Tries]
-----------------------------------------------------------------------------
(* validateSequence *)

Left(q, m) == Least(ColumnX(q, m.from), ColumnX(q, m.to))
RightEnd(q, m) == Most(ColumnX(q, m.from), ColumnX(q, m.to))
SharesColumns(q, m, n) == Left(q, m) < RightEnd(q, n) /\ Left(q, n) < RightEnd(q, m)

(* Mutant: the messages are taken in the order they were written in.       *)
PlacedAsWritten(q) == q.messages

(* By y, and as they were written when that is the same.                   *)
Earlier(q, i) ==
  {j \in DOMAIN q.messages : \/ q.messages[j].y < q.messages[i].y
                             \/ q.messages[j].y = q.messages[i].y /\ j <= i}

Placed(q) ==
  [k \in DOMAIN q.messages |->
     q.messages[CHOOSE i \in DOMAIN q.messages : Cardinality(Earlier(q, i)) = k]]

(* A message is compared with the following ones until one is far enough.  *)
Crowded(q) ==
  LET placed == Placed(q)
      near(i, j) == \A k \in (i + 1)..j : placed[k].y - placed[i].y < 28
  IN \E i, j \in DOMAIN placed : i < j /\ near(i, j) /\ SharesColumns(q, placed[i], placed[j])

(* collectLabelRouteClearance, only in a showcase.                         *)
OnLabel(q, i, j) == Clearance2(MessagePath(q, q.messages[j]), MessageLabel(q, q.messages[i])) < 4 * 4
Ruled(q) == \E s \in Range(q.segments), m \in Range(q.messages) : BorderRuns(MessagePath(q, m), Frame(q, s)) # {}

Pairs(q) == {p \in (DOMAIN q.messages) \X (DOMAIN q.messages) : p[1] # p[2]}
Faults(q) ==
  {f \in {"short-timeline", "outside-timeline", "short-message", "crowded", "labels-overlap", "label-route",
          "border-run", "segment-range", "segment-outside", "segment-label", "too-wide"} :
     \/ f = "short-timeline" /\ LifelineBottom(q) - LifelineTop < 120
     \/ /\ f = "outside-timeline"
        /\ \E m \in Range(q.messages) : m.y < LifelineTop + 18 \/ m.y > LifelineBottom(q) - 18
     \/ f = "short-message" /\ \E m \in Range(q.messages) : Abs(ColumnX(q, m.to) - ColumnX(q, m.from)) < 60
     \/ f = "crowded" /\ Crowded(q)
     \/ /\ f = "labels-overlap"
        /\ \E p \in Pairs(q) : RectsOverlap(MessageLabel(q, q.messages[p[1]]), MessageLabel(q, q.messages[p[2]]), -2)
     \/ f = "label-route" /\ q.profile = "showcase" /\ \E p \in Pairs(q) : OnLabel(q, p[1], p[2])
     \/ f = "border-run" /\ q.profile # "none" /\ Ruled(q)
     \/ f = "segment-range" /\ \E s \in Range(q.segments) : s.to <= s.from
     \/ f = "segment-outside" /\ \E s \in Range(q.segments) : s.from < TopY \/ s.to > LifelineBottom(q) + 20
     \/ f = "segment-label" /\ \E s \in Range(q.segments) : Right(SegmentTag(q, s)) > q.view[1] - 48
     \/ f = "too-wide" /\ Right(Header(q, q.participants)) > q.view[1] - 40}
-----------------------------------------------------------------------------
Init == /\ \E family \in DOMAIN Sequences : sequence \in Sequences[family]
        /\ tags = <<>>
        /\ faults = Pending

Render ==
  /\ faults = Pending
  /\ faults' = Faults(sequence)
  /\ tags' = IF Faults(sequence) = {} THEN [i \in DOMAIN sequence.segments |-> SegmentTag(sequence, sequence.segments[i])]
             ELSE <<>>
  /\ UNCHANGED sequence

Done == faults # Pending /\ UNCHANGED vars

Next == Render \/ Done
Spec == Init /\ [][Next]_vars
-----------------------------------------------------------------------------
Hides(q, box, m) == RectsOverlap(box, MessageRoute(q, m), -2)

(* The messages of an accepted sequence can be told apart: two that share  *)
(* columns are 28 px apart wherever the author wrote them down, no arrow   *)
(* or label runs into a participant's header, and a label hides another    *)
(* message's arrow only outside of a showcase, and then only beyond the    *)
(* columns of its own message.                                             *)
MessagesReadable ==
  faults = {} =>
    LET q == sequence
    IN /\ \A p \in Pairs(q) :
            LET m == q.messages[p[1]]
                n == q.messages[p[2]]
            IN /\ SharesColumns(q, m, n) => Abs(m.y - n.y) >= 28
               /\ Hides(q, MessageLabel(q, m), n) => q.profile # "showcase" /\ ~SharesColumns(q, m, n)
       /\ \A m \in Range(q.messages), i \in 1..q.participants :
            /\ ~RectsOverlap(MessageLabel(q, m), Header(q, i), 0)
            /\ ~RectsOverlap(MessageRoute(q, m), Header(q, i), 0)
       /\ q.profile # "none" => ~Ruled(q)

(* The label of a segment, drawn over the messages, hides none of them as  *)
(* long as at most two messages reach its columns above the segment: its   *)
(* four moves are enough to get past two.  Nothing checks the place it     *)
(* ends at when there are more.                                            *)
TagsHideNothing ==
  \A i \in DOMAIN tags :
    LET above == {j \in DOMAIN sequence.messages :
                    /\ sequence.messages[j].y < sequence.segments[i].from + 30
                    /\ \E box \in {MessageLabel(sequence, sequence.messages[j]), MessageRoute(sequence, sequence.messages[j])} :
                         box.x < Right(tags[i]) + 2 /\ Right(box) + 2 > tags[i].x}
    IN Cardinality(above) <= 2 =>
         \A m \in Range(sequence.messages) :
           /\ ~RectsOverlap(tags[i], MessageLabel(sequence, m), 0)
           /\ ~RectsOverlap(tags[i], MessageRoute(sequence, m), 0)
=============================================================================
