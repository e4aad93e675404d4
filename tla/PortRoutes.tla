----------------------------- MODULE PortRoutes -----------------------------
(***************************************************************************)
(* How the automatic routers of three diagram types (architecture, data    *)
(* flow, lifecycle) join two boxes: the sides, the ports on the sides when *)
(* several relations share one, and the points between the ports.          *)
(* Coordinates are in half pixels, so that midpoints stay integers.        *)
(***************************************************************************)
EXTENDS RouteGeometry

CONSTANT Plans   \* families of [kind, boxes, relations] a renderer may be given

VARIABLES
  plan,    \* the boxes and the relations, in order
  routes   \* the routes drawn, <<>> before the router ran

vars == <<plan, routes>>

Px(n) == 2 * n
Half(n) == n \div 2
Vertical(side) == side \in {"top", "bottom"}
Cx(b) == b.x + Half(b.width)
Cy(b) == b.y + Half(b.height)
-----------------------------------------------------------------------------
(* Sides and ports.                                                        *)

Anchor(b, side) ==
  CASE side = "left" -> <<b.x, Cy(b)>>
    [] side = "top" -> <<Cx(b), b.y>>
    [] side = "bottom" -> <<Cx(b), Bottom(b)>>
    [] OTHER -> <<Right(b), Cy(b)>>

(* defaultFromSide; defaultToSide is the opposite one.                     *)
DefaultFromSide(f, t) ==
  IF Cx(t) < Cx(f) THEN "left" ELSE IF Cx(t) > Cx(f) THEN "right"
  ELSE IF Cy(t) > Cy(f) THEN "bottom" ELSE "top"
Opposite == [left |-> "right", right |-> "left", top |-> "bottom", bottom |-> "top"]

Box(p, id) == p.boxes[id]
SideOf(p, r, end) ==
  LET default == DefaultFromSide(Box(p, r.from), Box(p, r.to))
      given == IF end = "from" THEN r.fromSide ELSE r.toSide
  IN IF given # "auto" THEN given ELSE IF end = "from" THEN default ELSE Opposite[default]

(* automaticPortSpread: the ends of automatic relations at one side of one *)
(* box are a group, ordered by where the other ends are.                   *)
Automatic(r) == r.route = "auto" /\ ~r.pinned
Ends(p) == {<<i, e>> : i \in {j \in DOMAIN p.relations : Automatic(p.relations[j])}, e \in {"from", "to"}}
Here(p, x) == IF x[2] = "from" THEN p.relations[x[1]].from ELSE p.relations[x[1]].to
There(p, x) == IF x[2] = "from" THEN p.relations[x[1]].to ELSE p.relations[x[1]].from
SideAt(p, x) == SideOf(p, p.relations[x[1]], x[2])
Group(p, x) == {y \in Ends(p) : Here(p, y) = Here(p, x) /\ SideAt(p, y) = SideAt(p, x)}
Coordinate(p, x) ==
  IF Vertical(SideAt(p, x)) THEN Cx(Box(p, There(p, x))) ELSE Cy(Box(p, There(p, x)))

(* Mutant: ends at the same place are ordered by the direction they have.  *)
BeforeByDirection(p, x, y) ==
  \/ Coordinate(p, x) < Coordinate(p, y)
  \/ /\ Coordinate(p, x) = Coordinate(p, y)
     /\ \/ x[2] = "from" /\ y[2] = "to"
        \/ x[2] = y[2] /\ x[1] < y[1]

(* Relations are listed in the order of their keys, which decides a tie.   *)
Before(p, x, y) ==
  \/ Coordinate(p, x) < Coordinate(p, y)
  \/ Coordinate(p, x) = Coordinate(p, y) /\ x[1] < y[1]

Spacing(p, x) ==
  LET b == Box(p, Here(p, x))
      extent == IF Vertical(SideAt(p, x)) THEN b.width ELSE b.height
      n == Cardinality(Group(p, x))
  IN IF n < 2 THEN 0 ELSE Least(Px(14), Most(0, extent - 2 * Px(16)) \div (n - 1))
Spread(p, x) == x \in Ends(p) /\ Spacing(p, x) > 0
Port(p, x) ==
  LET at == Anchor(Box(p, Here(p, x)), SideAt(p, x))
      n == Cardinality(Group(p, x))
      rank == Cardinality({y \in Group(p, x) : Before(p, y, x)})
      offset == Half((2 * rank - (n - 1)) * Spacing(p, x))
  IN IF ~Spread(p, x) THEN at
     ELSE IF Vertical(SideAt(p, x)) THEN <<at[1] + offset, at[2]>> ELSE <<at[1], at[2] + offset>>
-----------------------------------------------------------------------------
(* What a route must keep clear of.                                        *)

Clears(p, r, route) ==
  \A id \in (DOMAIN p.boxes) \ {r.from, r.to}, i \in DOMAIN Segments(route) :
    ~SegmentIntersectsRect(Segments(route)[i], Box(p, id), Px(2))

(* routeClearsEndpointComponents: only the first segment may touch the     *)
(* source, only the last the target.                                       *)
ClearsEnds(p, r, route) ==
  \A i \in DOMAIN Segments(route) :
    /\ i > 1 => ~SegmentIntersectsRect(Segments(route)[i], Box(p, r.from), 0)
    /\ i < Len(route) - 1 => ~SegmentIntersectsRect(Segments(route)[i], Box(p, r.to), 0)

Free(p, r, route) == ClearsEnds(p, r, route) /\ Clears(p, r, route)
Honored(route, s) == RouteHonorsEndpointSides(route, s.from, s.to)

Joined(a, via, b) == <<a>> \o via \o <<b>>
HorizontalFirst(a, b) == LET m == Half(a[1] + b[1]) IN <<<<m, a[2]>>, <<m, b[2]>>>>
VerticalFirst(a, b) == LET m == Half(a[2] + b[2]) IN <<<<a[1], m>>, <<b[1], m>>>>
Inner(route) == SubSeq(route, 2, Len(route) - 1)
FirstOf(candidates, otherwise) == IF candidates = <<>> THEN otherwise ELSE candidates[1]

(* outwardStub *)
Stub(a, side) == LET h == OutwardOf[side] IN <<a[1] + Px(24) * h[1], a[2] + Px(24) * h[2]>>

(* automaticPortRhythmBridge, sideAwareBridgeCandidates: nearly parallel   *)
(* ports are joined outside of the straight channel between them.          *)
NearParallel(a, b, s) ==
  \/ Vertical(s.from) /\ Vertical(s.to) /\ Abs(a[1] - b[1]) < Px(16)
  \/ ~Vertical(s.from) /\ ~Vertical(s.to) /\ Abs(a[2] - b[2]) < Px(16)
Bridge(a, f, t, b, k, c) ==
  LET out == IF k = 1 THEN <<<<c, f[2]>>, <<c, t[2]>>>> ELSE <<<<f[1], c>>, <<t[1], c>>>>
  IN Normalized(Joined(a, Joined(f, out, t), b))
Bridges(a, b, s) ==
  IF ~NearParallel(a, b, s) THEN <<>>
  ELSE LET k == IF Vertical(s.from) THEN 1 ELSE 2
           beside(c) == Bridge(a, Stub(a, s.from), Stub(b, s.to), b, k, c)
       IN <<beside(Most(a[k], b[k]) + Px(16)), beside(Least(a[k], b[k]) - Px(16))>>
RhythmBridges(p, r, a, b, s) ==
  SelectSeq(Bridges(a, b, s), LAMBDA route :
    Honored(route, s) /\ RhythmIssues(route, Px(16), Px(8)) = {} /\ Free(p, r, route))

Backtrack(a, b, c) == CrossProduct(a, b, c) = 0 /\ Onward(a, b, c) < 0
Bends(a, f, t, b) ==
  <<Normalized(Joined(a, <<f, <<t[1], f[2]>>, t>>, b)), Normalized(Joined(a, <<f, <<f[1], t[2]>>, t>>, b))>>
KeepsDirection(route) ==
  LET n == Len(route)
  IN n = 2 \/ (/\ ~Backtrack(route[1], route[2], route[3])
               /\ ~Backtrack(route[n - 2], route[n - 1], route[n]))
InnerOf(candidates) == [i \in DOMAIN candidates |-> Inner(candidates[i])]
SideAware(a, b, s) ==
  InnerOf(SelectSeq(Bridges(a, b, s) \o Bends(a, Stub(a, s.from), Stub(b, s.to), b),
                    LAMBDA route : Len(route) >= 2 /\ KeepsDirection(route) /\ Honored(route, s)))
-----------------------------------------------------------------------------
(* Architecture: routeVia of an automatic connection.                      *)

Ranked(near, safe, aware, unsafe) ==
  [safe |-> safe, aware |-> aware, ordered |-> (IF near THEN aware \o safe ELSE safe \o aware) \o unsafe]
Candidates(a, b, s) ==
  LET plain == <<HorizontalFirst(a, b), VerticalFirst(a, b)>>
      honored(via) == Honored(Joined(a, via, b), s)
  IN Ranked(NearParallel(a, b, s), SelectSeq(plain, honored), SideAware(a, b, s),
            SelectSeq(plain, LAMBDA via : ~honored(via)))

Direct(a, b, s) ==
  (Abs(a[1] - b[1]) < Px(4) \/ Abs(a[2] - b[2]) < Px(4)) /\ Honored(<<a, b>>, s)

(* The channels beside parallel sides never honor the sides they start     *)
(* from (their first segment runs along the side), so they are left out.   *)
Chosen(p, r, a, b, bridges, c) ==
  IF bridges # <<>> THEN Inner(bridges[1])
  ELSE FirstOf(SelectSeq(c.ordered, LAMBDA via : Free(p, r, Joined(a, via, b))),
               FirstOf(c.safe, FirstOf(c.aware, HorizontalFirst(a, b))))
ArchitectureVia(p, r, a, b, s) ==
  IF Direct(a, b, s) THEN <<>>
  ELSE Chosen(p, r, a, b, RhythmBridges(p, r, a, b, s), Candidates(a, b, s))

(* portHasCornerClearance *)
CornerClear(b, side, at) ==
  LET k == IF Vertical(side) THEN 1 ELSE 2
      low == IF k = 1 THEN b.x ELSE b.y
      extent == IF k = 1 THEN b.width ELSE b.height
      inset == Least(Px(16), Half(extent))
  IN low + inset <= at[k] /\ at[k] <= low + extent - inset

(* alignFacingPorts: nearly aligned ports are moved onto one axis, unless  *)
(* both of them are spread.                                                *)
Aligned(p, i, a, b, s) ==
  LET r == p.relations[i]
      k == IF Vertical(s.from) THEN 1 ELSE 2
      moved(from, to) == IF k = 1 THEN <<to[1], from[2]>> ELSE <<from[1], to[2]>>
      fromSpread == Spread(p, <<i, "from">>)
      toSpread == Spread(p, <<i, "to">>)
      endToStart == <<a, moved(b, a)>>
      startToEnd == <<moved(a, b), b>>
      choices == IF fromSpread THEN <<endToStart>> ELSE IF toSpread THEN <<startToEnd>>
                 ELSE <<endToStart, startToEnd>>
      good == SelectSeq(choices, LAMBDA c :
                /\ CornerClear(Box(p, r.from), s.from, c[1]) /\ CornerClear(Box(p, r.to), s.to, c[2])
                /\ Honored(c, s) /\ Free(p, r, c))
      tried == /\ Automatic(r) /\ s.to = Opposite[s.from] /\ ~(fromSpread /\ toSpread)
               /\ (fromSpread \/ toSpread \/ (r.fromSide = "auto" /\ r.toSide = "auto"))
               /\ Abs(a[k] - b[k]) < Px(16)
  IN IF tried THEN FirstOf(good, <<a, b>>) ELSE <<a, b>>
-----------------------------------------------------------------------------
(* Data flow and lifecycle.                                                *)

DataflowVia(p, r, a, b) ==
  LET f == Box(p, r.from)
      t == Box(p, r.to)
      y == IF r.route = "bottom-channel" THEN Most(Bottom(f), Bottom(t)) + Px(26) ELSE Least(f.y, t.y) - Px(24)
      x == a[1] + (IF b[1] > a[1] THEN Px(44) ELSE -Px(44))
  IN CASE r.route = "straight" -> <<>>
       [] r.route = "vertical-channel" -> <<<<x, a[2]>>, <<x, b[2]>>>>
       [] r.route \in {"bottom-channel", "top-channel"} -> <<<<a[1], y>>, <<b[1], y>>>>
       [] OTHER -> IF Abs(a[2] - b[2]) < Px(4) THEN <<>> ELSE HorizontalFirst(a, b)

LifecycleVia(p, r, a, b, s) ==
  LET f == Box(p, r.from)
      t == Box(p, r.to)
      y == IF r.route = "bottom-channel" THEN Most(Bottom(f), Bottom(t)) + Px(34) ELSE Least(f.y, t.y) - Px(28)
      x == IF r.route = "right-channel" THEN Most(Right(f), Right(t)) + Px(36) ELSE Least(f.x, t.x) - Px(36)
  IN CASE r.route = "straight" -> <<>>
       [] r.route = "drop" -> VerticalFirst(a, b)
       [] r.route \in {"bottom-channel", "top-channel"} -> <<<<a[1], y>>, <<b[1], y>>>>
       [] r.route \in {"right-channel", "left-channel"} -> <<<<x, a[2]>>, <<x, b[2]>>>>
       [] OTHER -> IF a[1] = b[1] \/ a[2] = b[2] THEN <<>>
                   ELSE IF Vertical(s.from) # Vertical(s.to)
                   THEN <<IF Vertical(s.from) THEN <<a[1], b[2]>> ELSE <<b[1], a[2]>>>>
                   ELSE IF Vertical(s.from) THEN VerticalFirst(a, b) ELSE HorizontalFirst(a, b)

(* pathFor *)
ArchitecturePath(p, r, ends, s) ==
  Joined(ends[1], ArchitectureVia(p, r, ends[1], ends[2], s), ends[2])
PathBetween(p, i, a, b, s) ==
  LET r == p.relations[i]
  IN CASE p.kind = "architecture" -> ArchitecturePath(p, r, Aligned(p, i, a, b, s), s)
       [] p.kind = "dataflow" -> Distinct(Joined(a, DataflowVia(p, r, a, b), b))
       [] p.kind = "lifecycle" -> Joined(a, LifecycleVia(p, r, a, b, s), b)
Sides(p, r) == [from |-> SideOf(p, r, "from"), to |-> SideOf(p, r, "to")]
PathFor(p, i) ==
  PathBetween(p, i, Port(p, <<i, "from">>), Port(p, <<i, "to">>), Sides(p, p.relations[i]))
-----------------------------------------------------------------------------
Init == /\ \E family \in DOMAIN Plans : plan \in Plans[family]
        /\ routes = <<>>

Draw == /\ routes = <<>>
        /\ routes' = [i \in DOMAIN plan.relations |-> PathFor(plan, i)]
        /\ UNCHANGED plan

Done == routes # <<>> /\ UNCHANGED vars

Next == Draw \/ Done
Spec == Init /\ [][Next]_vars
-----------------------------------------------------------------------------
Drawn == routes # <<>>
Orthogonal(route) == \A i \in DOMAIN Segments(route) : \E k \in {1, 2} : Along(Segments(route)[i], k)
PortAt(x) == IF x[2] = "from" THEN routes[x[1]][1] ELSE Last(routes[x[1]])
Place(x) == IF Vertical(SideAt(plan, x)) THEN PortAt(x)[1] ELSE PortAt(x)[2]

(* Relations that share a side of a box end apart on it, clear of its      *)
(* corners and in the order of the boxes they come from, whichever router  *)
(* moved a port afterwards (automaticPortSpread, alignFacingPorts); only a *)
(* side with no room between its gutters is left as it is.                 *)
PortsApart ==
  Drawn => \A x, y \in Ends(plan) :
    /\ CornerClear(Box(plan, Here(plan, x)), SideAt(plan, x), PortAt(x))
    /\ y \in Group(plan, x) /\ Spread(plan, x) /\ Coordinate(plan, x) < Coordinate(plan, y)
         => Place(x) < Place(y)
    /\ y \in Group(plan, x) \ {x} /\ Spread(plan, x) => Place(x) # Place(y)

(* Two automatic relations between the same sides of two boxes never cross *)
(* in a data flow or a lifecycle: nothing else would notice, for every     *)
(* gate leaves relations with a common box out of its comparison.  The     *)
(* bridges of the architecture router may cross a sibling.                 *)
SiblingsDoNotCross ==
  Drawn /\ plan.kind # "architecture" => \A i, j \in DOMAIN routes :
    /\ Automatic(plan.relations[i]) /\ Automatic(plan.relations[j])
    /\ {plan.relations[i].from, plan.relations[i].to} = {plan.relations[j].from, plan.relations[j].to}
    /\ Sides(plan, plan.relations[i]) \in {Sides(plan, plan.relations[j]), [from |-> Sides(plan, plan.relations[j]).to, to |-> Sides(plan, plan.relations[j]).from]}
    => \A k \in DOMAIN Segments(routes[i]), l \in DOMAIN Segments(routes[j]) :
         LET s == Segments(routes[i])[k]
             t == Segments(routes[j])[l]
         IN ~ProperCrossing(s[1], s[2], t[1], t[2])

(* An automatic route that the endpoint gate accepts runs along the axes:  *)
(* the page check's orthogonal_arrows can only fail for authored geometry. *)
AcceptedIsOrthogonal ==
  Drawn => \A i \in DOMAIN routes :
    Automatic(plan.relations[i]) /\ Honored(routes[i], Sides(plan, plan.relations[i])) => Orthogonal(routes[i])

(* The architecture router leaves the gates nothing to refuse that it could *)
(* have avoided: a refused automatic route is a direct line, or no          *)
(* candidate was free (routeVia 880-903, cleanFlowProblems).                *)
RouterServesGate ==
  Drawn /\ plan.kind = "architecture" =>
    \A i \in DOMAIN routes :
      LET r == plan.relations[i]
          s == Sides(plan, plan.relations[i])
          a == routes[i][1]
          b == Last(routes[i])
          accepted(route) == Honored(route, s) /\ Clears(plan, r, route)
      IN Automatic(r) /\ ~accepted(routes[i]) =>
           \/ Direct(a, b, s)
           \/ \A via \in Range(Candidates(a, b, s).ordered) :
                ~(accepted(Joined(a, via, b)) /\ ClearsEnds(plan, r, Joined(a, via, b)))
=============================================================================
