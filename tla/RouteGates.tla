----------------------------- MODULE RouteGates -----------------------------
(***************************************************************************)
(* What a renderer demands of the routes of a diagram before it writes the *)
(* page, and what the check of the page says where its gates are advisory. *)
(* Of a showcase page the check measures the drawn, rounded lines and the  *)
(* size of the texts; that is not modelled.                                *)
(***************************************************************************)
EXTENDS RouteGeometry

CONSTANTS
  Drawings,      \* the drawings a renderer may be given, as families of them
  MinOverlap,    \* 8 px: a shared corridor counts from this length
  NodeGap,       \* 2 px around a node that a route must keep
  LabelGap,      \* 4 px between a label and the line of another relation
  InnerFloor,    \* 16 px: shortest inner segment of a route
  MicroFloor     \* 8 px: shortest segment of a route

VARIABLES
  drawing,  \* the relations and their routes, nodes, labels, frames and profile
  gated,    \* the problems the renderer reports, Unknown before it looks
  checked   \* the errors of the check of the page, Unknown before it

vars == <<drawing, gated, checked>>

Unknown == {<<"unknown">>}
NoProfile == "none"
-----------------------------------------------------------------------------
(* svgRootAttrs: the profile written into the page.                        *)
PageProfile(d) == IF d.env # NoProfile THEN d.env ELSE d.meta

(* qualityProfileForGate: the environment outweighs the diagram.           *)
GateProfile(d) == IF d.env # NoProfile THEN d.env ELSE d.meta

Showcase(d) == GateProfile(d) = "showcase"

Unrelated(l, r) == {l.from, l.to} \cap {r.from, r.to} = {}
RelationPairs(d) ==
  {p \in (DOMAIN d.relations) \X (DOMAIN d.relations) :
     p[1] < p[2] /\ Unrelated(d.relations[p[1]], d.relations[p[2]])}

(* cleanEndpointSideProblems: an authored side is checked, an inferred one *)
(* only of a route without authored geometry.                              *)
SideToCheck(r, end) ==
  CASE r.authored[end] # "auto" -> r.authored[end]
    [] r.authored[end] = "auto" /\ ~r.shaped -> r.inferred[end]
    [] OTHER -> "auto"
SideProblems(d) ==
  IF d.env = "standard" THEN {}
  ELSE {<<"endpoint-side-direction", i>> : i \in
          {j \in DOMAIN d.relations : \E end \in {"from", "to"} :
             /\ SideToCheck(d.relations[j], end) # "auto"
             /\ ~Honors(d.relations[j].points, end, SideToCheck(d.relations[j], end))}}

(* cleanFlowProblems: a relation may not touch a node that is not its own. *)
Touches(r, node) ==
  \E i \in DOMAIN Segments(r.points) :
    SegmentIntersectsRect(Segments(r.points)[i], node.rect, NodeGap)
Ids(d) == {n.id : n \in d.nodes}
Covers(d, r) == {n \in d.nodes : n.id \notin {r.from, r.to} /\ Touches(r, n)}
FlowProblems(d) ==
  IF d.env = "standard" THEN {}
  ELSE {<<"edge-through-node", i>> : i \in
          {j \in DOMAIN d.relations :
             /\ {d.relations[j].from, d.relations[j].to} \subseteq Ids(d)
             /\ Covers(d, d.relations[j]) # {}}}

(* Mutant: waypoints on a straight line split it.                          *)
CrossingSegmentsAuthored(d, r) == Segments(r.points)

(* cleanCrossingProblems: workflow layouts of version 2 merge waypoints    *)
(* that a line passes straight through, the other renderers do not.        *)
CrossingSegments(d, r) ==
  IF d.merge THEN AnalysisSegments(r.points) ELSE Segments(r.points)

Crosses(s, t) == ProperCrossing(s[1], s[2], t[1], t[2])
CrossIn(ls, rs) == \E i \in DOMAIN ls, j \in DOMAIN rs : Crosses(ls[i], rs[j])
CrossingProblems(d) ==
  {<<"proper-crossing", p[1], p[2]>> : p \in
     {q \in RelationPairs(d) :
        CrossIn(CrossingSegments(d, d.relations[q[1]]), CrossingSegments(d, d.relations[q[2]]))}}

(* collectAmbiguousCorridors *)
LongestShared(l, r) ==
  LET ls == Segments(Normalized(l.points))
      rs == Segments(Normalized(r.points))
  IN Max({0} \cup {SharedLength(ls[i], rs[j]) : i \in DOMAIN ls, j \in DOMAIN rs})

CorridorProblems(d) ==
  {<<"ambiguous-corridor", p[1], p[2]>> : p \in
     {q \in RelationPairs(d) :
        LongestShared(d.relations[q[1]], d.relations[q[2]]) >= MinOverlap}}

RhythmProblems(d) ==
  UNION {{<<code, i>> : code \in RhythmIssues(d.relations[i].points, InnerFloor, MicroFloor)} : i \in DOMAIN d.relations}

(* collectLabelRouteClearance: the label of one relation against the lines *)
(* of the others.                                                          *)
RouteClearance2(rect, route) ==
  LET s == Segments(Normalized(route))
  IN Min({Clearance2(s[i], rect) : i \in DOMAIN s})
TooNear(l, r) ==
  /\ Len(Normalized(r.points)) >= 2
  /\ RouteClearance2(l.rect, r.points) < LabelGap * LabelGap
LabelProblems(d) ==
  UNION {{<<"label-route-clearance", l.of, i>> :
            i \in {j \in DOMAIN d.relations : j # l.of /\ TooNear(l, d.relations[j])}} : l \in d.labels}

(* collectBorderRuns *)
BorderProblems(d) ==
  UNION {{<<"container-border-run", i>> :
            i \in {j \in DOMAIN d.relations : BorderRuns(d.relations[j].points, f) # {}}} : f \in d.frames}

(* The composition rules of a renderer.                                    *)
Composition(d) ==
  CrossingProblems(d) \cup CorridorProblems(d) \cup RhythmProblems(d) \cup LabelProblems(d)
-----------------------------------------------------------------------------
Init == /\ \E family \in DOMAIN Drawings : drawing \in Drawings[family]
        /\ gated = Unknown
        /\ checked = Unknown

(* validate* of a renderer: all gates, then the page is written when none  *)
(* of them speaks.                                                         *)
Gate ==
  /\ gated = Unknown
  /\ gated' = SideProblems(drawing) \cup FlowProblems(drawing)
                \cup (IF Showcase(drawing) THEN Composition(drawing) ELSE {})
                \cup (IF GateProfile(drawing) # NoProfile THEN BorderProblems(drawing) ELSE {})
  /\ UNCHANGED <<drawing, checked>>

(* check-render-output of a page without the showcase profile: svgRootAttrs *)
(* has marked its gates as advisory, so that crossings, shared tracks, runs *)
(* along frames, near labels, short segments and slanted lines are warnings *)
(* or nothing; it has no test of lines and nodes.                          *)
Advisory(d) == PageProfile(d) # "showcase"
Check ==
  /\ gated = {}
  /\ checked = Unknown
  /\ Advisory(drawing)
  /\ checked' = {}
  /\ UNCHANGED <<drawing, gated>>

Done ==
  /\ gated # Unknown
  /\ gated # {} \/ checked # Unknown \/ ~Advisory(drawing)
  /\ UNCHANGED vars

Next == Gate \/ Check \/ Done
Spec == Init /\ [][Next]_vars
-----------------------------------------------------------------------------
(* The reference: routes along the axes as walks of unit steps.            *)

UnitSteps(s) ==
  LET h == Heading(s)
      n == Most(Abs(s[1][1] - s[2][1]), Abs(s[1][2] - s[2][2]))
  IN [k \in 1..n |-> <<<<s[1][1] + (k - 1) * h[1], s[1][2] + (k - 1) * h[2]>>,
                       <<s[1][1] + k * h[1], s[1][2] + k * h[2]>>>>]
Walk(route) == FlattenSeq([i \in DOMAIN Segments(route) |-> UnitSteps(Segments(route)[i])])
Places(route) == {route[1]} \cup {w[2] : w \in Range(Walk(route))}
Units(route) == {{w[1], w[2]} : w \in Range(Walk(route))}
StraightThrough(route, p, h) ==
  LET w == Walk(route)
  IN \E k \in 1..(Len(w) - 1) : w[k][2] = p /\ Heading(w[k]) = h /\ Heading(w[k + 1]) = h

CrossesSeen(l, r) ==
  \E p \in Places(l.points) \cap Places(r.points), h, g \in {<<1, 0>>, <<-1, 0>>, <<0, 1>>, <<0, -1>>} :
    /\ h[1] * g[1] + h[2] * g[2] = 0
    /\ StraightThrough(l.points, p, h) /\ StraightThrough(r.points, p, g)

UnitRun(p, axis, n) ==
  {IF axis = 1 THEN {<<p[1] + k, p[2]>>, <<p[1] + k + 1, p[2]>>}
   ELSE {<<p[1], p[2] + k>>, <<p[1], p[2] + k + 1>>} : k \in 0..(n - 1)}
SharesRun(l, r) ==
  \E p \in Places(l.points), axis \in {1, 2} :
    UnitRun(p, axis, MinOverlap) \subseteq Units(l.points) \cap Units(r.points)

UnitsAlong(route, side) == Cardinality(Units(route) \cap Units(side))

BoxPlaces(r) == (r.x .. Right(r)) \X (r.y .. Bottom(r))
Near2(route, r) ==
  Min({(p[1] - q[1]) * (p[1] - q[1]) + (p[2] - q[2]) * (p[2] - q[2]) :
         p \in Places(route), q \in BoxPlaces(r)})

(* A segment misses a box iff a side of the box or the segment's own line  *)
(* separates them.                                                         *)
Separated(s, r) ==
  \/ \A k \in {1, 2} : s[k][1] < r.x
  \/ \A k \in {1, 2} : s[k][1] > Right(r)
  \/ \A k \in {1, 2} : s[k][2] < r.y
  \/ \A k \in {1, 2} : s[k][2] > Bottom(r)
  \/ \E side \in {-1, 1} : \A k \in 1..4 : Turn(s[1], s[2], Corners(r)[k]) = side
-----------------------------------------------------------------------------
Written == gated # Unknown

(* No line is hidden and no crossing overlooked: outside the environment's *)
(* standard mode a route that touches a foreign node is refused; in a      *)
(* showcase of a merging renderer two unrelated lines that run straight    *)
(* through one point are refused wherever their waypoints lie              *)
(* (cleanFlowProblems, forwardCollinearAnalysisSegments).                  *)
HiddenLinesSeen ==
  Written =>
    /\ drawing.env # "standard" =>
         \A i \in DOMAIN drawing.relations, n \in drawing.nodes :
           /\ {drawing.relations[i].from, drawing.relations[i].to} \subseteq Ids(drawing) \ {n.id}
           /\ \E k \in DOMAIN Segments(drawing.relations[i].points) :
                ~Separated(Segments(drawing.relations[i].points)[k], Grown(n.rect, NodeGap))
           => <<"edge-through-node", i>> \in gated
    /\ Showcase(drawing) /\ drawing.merge =>
         \A p \in RelationPairs(drawing) :
           CrossesSeen(drawing.relations[p[1]], drawing.relations[p[2]])
             <=> <<"proper-crossing", p[1], p[2]>> \in gated

(* A line may not borrow the track of another or of a frame: a showcase    *)
(* refuses two unrelated lines exactly when they share MinOverlap          *)
(* consecutive units of a straight line, and the length along a frame's    *)
(* side counts every unit of it once, however often the route returns.     *)
SharedTracksSeen ==
  Written /\ Showcase(drawing) =>
    /\ \A p \in RelationPairs(drawing) :
         SharesRun(drawing.relations[p[1]], drawing.relations[p[2]])
           <=> <<"ambiguous-corridor", p[1], p[2]>> \in gated
    /\ \A i \in DOMAIN drawing.relations, f \in drawing.frames : \A side \in FrameSides(f) :
         RunAlong(Segments(drawing.relations[i].points), side)
           = UnitsAlong(drawing.relations[i].points, side)

(* A label keeps its distance: a showcase refuses a label exactly when     *)
(* some point of another relation's line is nearer than LabelGap.          *)
LabelsClear ==
  Written /\ Showcase(drawing) =>
    \A l \in drawing.labels, i \in DOMAIN drawing.relations :
      i # l.of =>
        (Near2(drawing.relations[i].points, l.rect) < LabelGap * LabelGap
           <=> <<"label-route-clearance", l.of, i>> \in gated)

(* references/authoring-contract.md: "An edge crossing an unrelated opaque *)
(* node is always a hard failure, independent of quality profile.": no     *)
(* drawing that was rendered and passed the check of the page has a line   *)
(* that runs through the inside of a node it does not join.                *)
HiddenAlwaysFails ==
  gated = {} /\ checked = {} =>
    \A i \in DOMAIN drawing.relations, n \in drawing.nodes :
      {drawing.relations[i].from, drawing.relations[i].to} \subseteq Ids(drawing) \ {n.id}
        => \A k \in DOMAIN Segments(drawing.relations[i].points) :
             Separated(Segments(drawing.relations[i].points)[k], Grown(n.rect, -1))
=============================================================================
