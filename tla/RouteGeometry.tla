--------------------------- MODULE RouteGeometry ----------------------------
(***************************************************************************)
(* The measurements the diagram renderers take of routes (polylines),      *)
(* boxes and frames.  The plane is an integer lattice, so the code's       *)
(* tolerances vanish and squared lengths stand for lengths; a route is a   *)
(* sequence of points <<x, y>>.                                            *)
(***************************************************************************)
EXTENDS Integers, Sequences, FiniteSets, SequencesExt, FiniteSetsExt

Least(a, b) == IF a < b THEN a ELSE b
Most(a, b) == IF a < b THEN b ELSE a
Abs(n) == IF n < 0 THEN -n ELSE n
Sign(n) == IF n < 0 THEN -1 ELSE IF n > 0 THEN 1 ELSE 0

Segments(route) == [i \in 1..(Len(route) - 1) |-> <<route[i], route[i + 1]>>]

(* crossProduct; orientation and onSegment look only at its sign.          *)
CrossProduct(a, b, c) ==
  (b[1] - a[1]) * (c[2] - a[2]) - (b[2] - a[2]) * (c[1] - a[1])
Turn(a, b, c) == Sign(CrossProduct(a, b, c))
Onward(a, b, c) == (b[1] - a[1]) * (c[1] - b[1]) + (b[2] - a[2]) * (c[2] - b[2])

InSpan(a, b, c) ==
  \A k \in {1, 2} : Least(a[k], c[k]) <= b[k] /\ b[k] <= Most(a[k], c[k])

SegmentsIntersect(a, b, c, d) ==
  \/ Turn(a, b, c) = 0 /\ InSpan(a, c, b)
  \/ Turn(a, b, d) = 0 /\ InSpan(a, d, b)
  \/ Turn(c, d, a) = 0 /\ InSpan(c, a, d)
  \/ Turn(c, d, b) = 0 /\ InSpan(c, b, d)
  \/ Turn(a, b, c) # Turn(a, b, d) /\ Turn(c, d, a) # Turn(c, d, b)

(* properSegmentIntersection: the inner point both segments pass through   *)
(* only has to exist.                                                      *)
ProperCrossing(a, b, c, d) ==
  Turn(a, b, c) * Turn(a, b, d) = -1 /\ Turn(c, d, a) * Turn(c, d, b) = -1
-----------------------------------------------------------------------------
(* Boxes [x, y, width, height].                                            *)

Right(r) == r.x + r.width
Bottom(r) == r.y + r.height
Grown(r, gap) == [x |-> r.x - gap, y |-> r.y - gap,
                  width |-> r.width + 2 * gap, height |-> r.height + 2 * gap]
Corners(r) == <<<<r.x, r.y>>, <<Right(r), r.y>>, <<Right(r), Bottom(r)>>, <<r.x, Bottom(r)>>>>

RectsOverlap(a, b, gap) ==
  /\ Right(a) + gap > b.x /\ Right(b) + gap > a.x
  /\ Bottom(a) + gap > b.y /\ Bottom(b) + gap > a.y

PointInBox(p, r) == r.x <= p[1] /\ p[1] <= Right(r) /\ r.y <= p[2] /\ p[2] <= Bottom(r)

SegmentIntersectsRect(s, rect, gap) ==
  LET r == Grown(rect, gap)
      c == Corners(r)
  IN \/ PointInBox(s[1], r) \/ PointInBox(s[2], r)
     \/ \E k \in 1..4 : SegmentsIntersect(s[1], s[2], c[k], c[(k % 4) + 1])

(* pointRectDistance, squared *)
PointRect2(p, r) ==
  LET dx == Most(Most(r.x - p[1], 0), p[1] - Right(r))
      dy == Most(Most(r.y - p[2], 0), p[2] - Bottom(r))
  IN dx * dx + dy * dy

(* pointSegmentDistance of a segment along an axis: the projection is      *)
(* clamped to the segment.                                                 *)
SegmentBox(s) == [x |-> Least(s[1][1], s[2][1]), y |-> Least(s[1][2], s[2][2]),
                  width |-> Abs(s[1][1] - s[2][1]), height |-> Abs(s[1][2] - s[2][2])]

(* segmentRectClearance, squared, of a segment along an axis.              *)
Clearance2(s, r) ==
  IF SegmentIntersectsRect(s, r, 0) THEN 0
  ELSE Min({PointRect2(s[1], r), PointRect2(s[2], r)}
             \cup {PointRect2(c, SegmentBox(s)) : c \in Range(Corners(r))})

(* segmentRectIntersectionLength of a segment along an axis: what is left  *)
(* of it between the sides it enters and leaves by.                        *)
HiddenLength(s, r) ==
  LET box == SegmentBox(s)
      wide == Least(Right(box), Right(r)) - Most(box.x, r.x)
      high == Least(Bottom(box), Bottom(r)) - Most(box.y, r.y)
  IN IF wide < 0 \/ high < 0 THEN 0 ELSE Most(0, IF box.height = 0 THEN wide ELSE high)
-----------------------------------------------------------------------------
(* Routes.                                                                 *)

CollinearForward(a, b, c) == CrossProduct(a, b, c) = 0 /\ Onward(a, b, c) >= 0

(* normalizeRoutePoints: repeated points and straight-through waypoints    *)
(* are dropped, reversals stay.  One point at most leaves at a time: what  *)
(* precedes it was merged before.                                          *)
Distinct(route) ==
  FoldLeft(LAMBDA kept, p : IF kept # <<>> /\ Last(kept) = p THEN kept ELSE Append(kept, p),
           <<>>, route)
MergeStep(kept, p) ==
  LET n == Len(kept)
  IN IF n >= 2 /\ CollinearForward(kept[n - 1], kept[n], p)
     THEN Append(Front(kept), p) ELSE Append(kept, p)
Normalized(route) == FoldLeft(MergeStep, <<>>, Distinct(route))

(* forwardCollinearAnalysisSegments, segmentsContinueForward: consecutive  *)
(* segments in one direction count as one.                                 *)
ContinueForward(s, t) ==
  /\ s[2] = t[1] /\ s[1] # s[2] /\ t[1] # t[2]
  /\ CrossProduct(s[1], s[2], t[2]) = 0 /\ Onward(s[1], s[2], t[2]) > 0
ForwardStep(kept, s) ==
  IF kept # <<>> /\ ContinueForward(Last(kept), s)
  THEN Append(Front(kept), <<Last(kept)[1], s[2]>>) ELSE Append(kept, s)
AnalysisSegments(route) == FoldLeft(ForwardStep, <<>>, Segments(route))

(* endpointSideIssue: the first segment must leave the side outwards, the  *)
(* last must enter it.                                                     *)
OutwardOf == [left |-> <<-1, 0>>, right |-> <<1, 0>>, top |-> <<0, -1>>, bottom |-> <<0, 1>>]
Heading(s) == <<Sign(s[2][1] - s[1][1]), Sign(s[2][2] - s[1][2])>>
Leaves(points, end, side) ==
  LET n == Len(points)
  IN \/ n < 2
     \/ end = "from" /\ Heading(<<points[1], points[2]>>) = OutwardOf[side]
     \/ end = "to" /\ Heading(<<points[n], points[n - 1]>>) = OutwardOf[side]
Honors(route, end, side) == Leaves(Normalized(route), end, side)

(* routeHonorsEndpointSides *)
RouteHonorsEndpointSides(route, fromSide, toSide) ==
  Honors(route, "from", fromSide) /\ Honors(route, "to", toSide)

(* collectRouteRhythmIssues *)
RhythmOf(segments, innerFloor, microFloor) ==
  LET size(i) == LET s == segments[i] IN Abs(s[1][1] - s[2][1]) + Abs(s[1][2] - s[2][2])
  IN UNION {IF size(i) < microFloor THEN {"micro-segment"}
            ELSE IF size(i) < innerFloor /\ i \notin {1, Len(segments)} THEN {"short-interior-segment"}
            ELSE {} : i \in DOMAIN segments}
RhythmIssues(route, innerFloor, microFloor) ==
  RhythmOf(Segments(Normalized(route)), innerFloor, microFloor)

(* collinearAxisOverlap: the stretch two segments share on one line, as    *)
(* [axis, fixed, low, high]; Apart when there is none.                     *)
Apart == [axis |-> 0, fixed |-> 0, low |-> 0, high |-> 0]
Along(s, axis) == LET other == 3 - axis IN s[1][other] = s[2][other]
Overlap(s, t) ==
  LET axes == {k \in {1, 2} : Along(s, k) /\ Along(t, k) /\ s[1][3 - k] = t[1][3 - k]}
      axis == Min(axes)
      low == Most(Least(s[1][axis], s[2][axis]), Least(t[1][axis], t[2][axis]))
      high == Least(Most(s[1][axis], s[2][axis]), Most(t[1][axis], t[2][axis]))
  IN IF axes = {} THEN Apart
     ELSE IF high <= low THEN Apart
     ELSE [axis |-> axis, fixed |-> s[1][3 - axis], low |-> low, high |-> high]
SharedLength(s, t) == LET o == Overlap(s, t) IN o.high - o.low

(* frameBorderSegments: the straight parts of a frame's four sides.        *)
FrameSides(f) ==
  LET r == Least(f.radius, Least(f.width \div 2, f.height \div 2))
      sides == {<<<<f.x + r, f.y>>, <<Right(f) - r, f.y>>>>,
                <<<<Right(f), f.y + r>>, <<Right(f), Bottom(f) - r>>>>,
                <<<<Right(f) - r, Bottom(f)>>, <<f.x + r, Bottom(f)>>>>,
                <<<<f.x, Bottom(f) - r>>, <<f.x, f.y + r>>>>}
  IN {s \in sides : s[1] # s[2]}

(* mergeBorderOverlaps: intervals, sorted by their low end, are one when   *)
(* they meet.                                                              *)
MergeInterval(merged, i) ==
  IF merged # <<>> /\ i.low <= Last(merged).high
  THEN Append(Front(merged), [Last(merged) EXCEPT !.high = Most(@, i.high)])
  ELSE Append(merged, i)

MergeOverlaps(overlaps) ==
  FoldLeft(MergeInterval, <<>>, SetToSortSeq(overlaps, LAMBDA a, b : a.low < b.low))

(* collectBorderRuns: how much of one side of a frame a route runs along;  *)
(* 0 when it runs along none of it.                                        *)
RunAlong(segments, side) ==
  LET overlaps == {Overlap(segments[i], side) : i \in DOMAIN segments} \ {Apart}
      merged == MergeOverlaps(overlaps)
  IN FoldLeft(LAMBDA sum, i : sum + i.high - i.low, 0, merged)
BorderRuns(route, frame) ==
  {side \in FrameSides(frame) : RunAlong(Segments(route), side) > 0}
=============================================================================
