------------------------- MODULE ArchitectureFrames -------------------------
(***************************************************************************)
(* The frames of an architecture diagram: where components are placed,     *)
(* the box drawn around the members of a boundary, the place of its title, *)
(* the automatic canvas with its legend, and what the deployment profile   *)
(* demands of boundaries and of their frames.  A label is the widths its   *)
(* text needs at the smallest and at the preferred font.                   *)
(***************************************************************************)
EXTENDS RouteGeometry

CONSTANT Diagrams   \* families of diagrams a renderer may be given

VARIABLES
  diagram,   \* the diagram as the author wrote it
  boxes,     \* its components, measured
  frames,    \* the frames with their titles, <<>> before the layout
  legend,    \* the boxes of the drawn legend
  problems   \* what validation found, Unchecked before it ran

vars == <<diagram, boxes, frames, legend, problems>>

Positive == Nat \ {0}
Component ==
  [type : STRING, pos : {<<>>} \cup (Int \X Int), cell : Nat \X Nat, size : Positive \X Positive, owned : BOOLEAN]
Boundary ==
  [kind : STRING, wraps : SUBSET STRING, pad : Nat, title : [least : Nat, preferred : Nat]]
Legend ==
  [mode : {"auto", "all", "hidden"}, shown : SUBSET STRING, hidden : SUBSET STRING,
   catalog : Seq([kind : STRING, width : Nat])]

(* Pixels are whole numbers here; the catalogue has all types.             *)
FramesAssumption ==
  \A family \in DOMAIN Diagrams : \A d \in Diagrams[family] :
    /\ IsFiniteSet(DOMAIN d.components) /\ \A id \in DOMAIN d.components : d.components[id] \in Component
    /\ d.boundaries \in Seq(Boundary) /\ d.legend \in Legend
    /\ d.grid \in [x : Int, y : Int, cols : Int, gapX : Int, gapY : Int, cellW : Int, cellH : Int]
    /\ d.view \in {<<>>} \cup (Int \X Int) /\ d.titleHeight \in Nat /\ d.deployment \in BOOLEAN
    /\ \A id \in DOMAIN d.components : \E i \in DOMAIN d.legend.catalog :
         d.legend.catalog[i].kind = d.components[id].type

Unchecked == {"unchecked"}
Margin == 40
Inset == 4       \* of a title in its frame
TitleGap == 2
-----------------------------------------------------------------------------
(* The legend: which kinds it lists, how the entries are packed into rows, *)
(* and when it is left out or refused.  An entry's width is that of its    *)
(* swatch and text; lengths are pixels.                                    *)

ItemGap == 22
LineGap == 22
Badge == 21    \* what an interactive entry is wider

(* resolveLegend: a kind is listed because it is in the diagram, because   *)
(* the mode asks for all or because the author shows it; the author may    *)
(* hide it.  Entries keep their number in the catalogue.                   *)
Listed(wanted, present) ==
  {i \in DOMAIN wanted.catalog :
     LET kind == wanted.catalog[i].kind
     IN /\ wanted.mode # "hidden"
        /\ \/ kind \in wanted.shown
           \/ (wanted.mode = "all" \/ kind \in present) /\ kind \notin wanted.hidden}
ResolveLegend(wanted, present) ==
  [i \in Listed(wanted, present) |->
     LET e == wanted.catalog[i]
     IN [kind |-> e.kind, interactive |-> e.kind \in present,
         width |-> e.width + (IF e.kind \in present THEN Badge ELSE 0)]]

(* legendFootprint: an entry that no longer fits starts a new row; where   *)
(* every entry ends in its row.                                            *)
Follow(last, e, width) ==
  LET end == last.end + ItemGap + e.width
  IN IF end > width THEN [row |-> last.row + 1, end |-> e.width] ELSE [row |-> last.row, end |-> end]
Earlier(entries, i) == {j \in DOMAIN entries : j < i}
Places(entries, width) ==
  LET place[i \in DOMAIN entries] ==
        IF Earlier(entries, i) = {} THEN [row |-> 1, end |-> entries[i].width]
        ELSE Follow(place[Max(Earlier(entries, i))], entries[i], width)
  IN place
RowCount(entries, width) == Max({1} \cup {Places(entries, width)[i].row : i \in DOMAIN entries})
ExtraHeight(entries, width) == (RowCount(entries, width) - 1) * LineGap
LegendMinWidth(entries) == Max({0} \cup {entries[i].width : i \in DOMAIN entries})

(* measureLegend: the boxes of the entries, and 0 for the title.           *)
LegendTop(entries, at) == at.baseline - ExtraHeight(entries, at.width) - 30
TitleBox(entries, at) ==
  [kind |-> "title", interactive |-> FALSE, x |-> at.x, y |-> LegendTop(entries, at), width |-> 48, height |-> 14]
EntryBox(entries, at, i) ==
  LET place == Places(entries, at.width)[i]
  IN [kind |-> entries[i].kind, interactive |-> entries[i].interactive,
      x |-> at.x + place.end - entries[i].width,
      y |-> at.baseline - (RowCount(entries, at.width) - place.row) * LineGap - 10,
      width |-> entries[i].width, height |-> 14]
LegendBoxes(entries, at) ==
  [i \in {0} \cup DOMAIN entries |-> IF i = 0 THEN TitleBox(entries, at) ELSE EntryBox(entries, at, i)]

(* An obstacle is the box of a label or a segment of a route.              *)
InTheWay(obstacle, box) ==
  \/ "label" \in DOMAIN obstacle /\ RectsOverlap(obstacle.label, box, 0)
  \/ "segment" \in DOMAIN obstacle /\ SegmentIntersectsRect(obstacle.segment, box, 0)

(* Why the legend cannot be drawn: the code of the first reason; it is     *)
(* left out then, or refused when the author configured it.                *)
LegendTrouble(entries, at) ==
  IF LegendMinWidth(entries) > at.width THEN "label-too-wide"
  ELSE IF LegendTop(entries, at) < at.minTop THEN "vertical-overflow"
  ELSE IF \E o \in at.obstacles, i \in {0} \cup DOMAIN entries : InTheWay(o, LegendBoxes(entries, at)[i])
       THEN "content-overlap"
  ELSE "none"
DrawnLegend(entries, at) ==
  IF DOMAIN entries = {} \/ LegendTrouble(entries, at) # "none" THEN <<>> ELSE LegendBoxes(entries, at)
-----------------------------------------------------------------------------
(* resolveComponentPos: an authored position wins over a grid cell.        *)
Position(d, c) ==
  IF c.pos # <<>> THEN c.pos
  ELSE <<d.grid.x + c.cell[2] * (d.grid.cellW + d.grid.gapX), d.grid.y + c.cell[1] * (d.grid.cellH + d.grid.gapY)>>
Measured(d, id) ==
  LET c == d.components[id]
      p == Position(d, c)
  IN [x |-> p[1], y |-> p[2], width |-> c.size[1], height |-> c.size[2]]
Boxes(d) == [id \in DOMAIN d.components |-> Measured(d, id)]
GridProblems(d) ==
  LET gridded == {id \in DOMAIN d.components : d.components[id].pos = <<>>}
  IN IF \E a \in gridded : d.components[a].cell[2] >= d.grid.cols
          \/ \E b \in gridded \ {a} : d.components[a].cell = d.components[b].cell
     THEN {"grid-cell"} ELSE {}

(* boundaryRect: the members' box and its padding.                         *)
Members(d, b) == b.wraps \cap DOMAIN d.components
BoundaryRect(d, b) ==
  LET members == {Measured(d, id) : id \in Members(d, b)}
      left == Min({r.x : r \in members})
      top == Min({r.y : r \in members})
      topPad == Most(b.pad, 22)
  IN [x |-> left - b.pad, y |-> top - topPad,
      width |-> Max({Right(r) : r \in members}) - left + 2 * b.pad,
      height |-> Max({Bottom(r) : r \in members}) - top + topPad + 20]
MemberTop(d, b) == Min({Measured(d, id).y : id \in Members(d, b)})
Drawable(d) == {i \in DOMAIN d.boundaries : Members(d, d.boundaries[i]) # {}}

(* expandBoundaryForReadableTitle *)
Expanded(d, b) ==
  LET r == BoundaryRect(d, b)
      extra == Most(0, b.title.least + 2 * Inset - r.width)
  IN IF d.enforced THEN [r EXCEPT !.x = @ - extra \div 2, !.width = @ + extra] ELSE r

(* measureBoundaryTitle: the text shrinks to the width that is there.      *)
TitleOf(d, b) ==
  LET r == Expanded(d, b)
  IN [x |-> r.x + Inset, y |-> MemberTop(d, b) - 4 - d.titleHeight,
      width |-> Most(0, Least(r.width - 2 * Inset, b.title.preferred)), height |-> d.titleHeight]

(* Mutant: titles give way to components only.                             *)
ObstaclesOfMembers(d, placed) == {Measured(d, id) : id \in DOMAIN d.components}

(* A title moves above whatever it covers, at most so many times.          *)
Obstacles(d, placed) == {Measured(d, id) : id \in DOMAIN d.components} \cup placed
Covered(title, obstacles) == {o \in obstacles : RectsOverlap(title, o, 0)}
Raise(title, obstacles) ==
  IF Covered(title, obstacles) = {} THEN title
  ELSE [title EXCEPT !.y = Min({o.y - TitleGap - title.height : o \in Covered(title, obstacles)})]
Raised(title, obstacles, tries) ==
  LET moved[k \in 0..tries] == IF k = 0 THEN title ELSE Raise(moved[k - 1], obstacles)
  IN moved[tries]
Tries(d) == Cardinality(Drawable(d)) + Cardinality(DOMAIN d.components) + 1

(* layoutBoundaryTitles: the smallest frame first; a frame grows upwards   *)
(* with its title when a quality profile asks for it.                      *)
Area(d, i) == LET r == BoundaryRect(d, d.boundaries[i]) IN r.width * r.height
Before(d, i) ==
  {j \in Drawable(d) : Area(d, j) < Area(d, i) \/ (Area(d, j) = Area(d, i) /\ j < i)}
Titles(d) ==
  LET title[i \in Drawable(d)] ==
        Raised(TitleOf(d, d.boundaries[i]), Obstacles(d, {title[j] : j \in Before(d, i)}), Tries(d))
  IN title
Frame(d, b, title) ==
  LET r == Expanded(d, b)
      y == IF d.enforced THEN Least(r.y, title.y - Inset) ELSE r.y
  IN [of |-> b, title |-> title, rect |-> [r EXCEPT !.y = y, !.height = Bottom(r) - y]]
FramesOf(d) ==
  LET titles == Titles(d)
  IN [i \in Drawable(d) |-> Frame(d, d.boundaries[i], titles[i])]

(* autoViewBoxFor: wide enough for the longest legend entry, high enough   *)
(* for the rows the legend takes at that width.                            *)
Entries(d) == ResolveLegend(d.legend, {d.components[id].type : id \in DOMAIN d.components})
AutoViewBox(d, fs) ==
  LET rects == {Measured(d, id) : id \in DOMAIN d.components} \cup {fs[i].rect : i \in DOMAIN fs}
      wide == Most(Max({0} \cup {Right(r) : r \in rects}) + Margin, LegendMinWidth(Entries(d)) + 2 * Margin)
  IN <<wide, Max({0} \cup {Bottom(r) : r \in rects}) + Margin + 28 + ExtraHeight(Entries(d), wide - 2 * Margin)>>
ViewBox(d, fs) == IF d.view # <<>> THEN d.view ELSE AutoViewBox(d, fs)

LegendPlace(d, fs) ==
  LET v == ViewBox(d, fs)
  IN [x |-> Margin, baseline |-> v[2] - 16, width |-> v[1] - 2 * Margin,
      minTop |-> 8 + Max({0} \cup {Bottom(Measured(d, id)) : id \in DOMAIN d.components}
                             \cup {Bottom(fs[i].rect) : i \in DOMAIN fs}),
      obstacles |-> d.obstacles]
-----------------------------------------------------------------------------
(* deploymentOwnershipDiagnostics *)

Scopes(d, id, kind) == {i \in DOMAIN d.boundaries : d.boundaries[i].kind = kind /\ id \in d.boundaries[i].wraps}
Internal(d) == {id \in DOMAIN d.components : d.components[id].type # "external"}

SharedRegion(d, b) ==
  /\ b.wraps # {}
  /\ \A id \in b.wraps : Cardinality(Scopes(d, id, "region")) = 1
  /\ Cardinality(UNION {Scopes(d, id, "region") : id \in b.wraps}) = 1

Crossing(d, r) ==
  \E b \in Range(d.boundaries) : b.kind \in {"region", "security-group"} /\ (r.from \in b.wraps) # (r.to \in b.wraps)
OwnershipProblems(d) ==
  {p \in {"boundary-kind", "owner-missing", "region-scope", "region-ambiguous", "private-state",
          "private-region-consistency", "crossing-mechanism"} :
     \/ p = "boundary-kind" /\ ~({"region", "security-group"} \subseteq {b.kind : b \in Range(d.boundaries)})
     \/ p = "owner-missing" /\ \E id \in Internal(d) : ~d.components[id].owned
     \/ p = "region-scope" /\ \E id \in Internal(d) : Scopes(d, id, "region") = {}
     \/ p = "region-ambiguous" /\ \E id \in Internal(d) : Cardinality(Scopes(d, id, "region")) > 1
     \/ /\ p = "private-state"
        /\ \E id \in Internal(d) : d.components[id].type = "database" /\ Scopes(d, id, "security-group") = {}
     \/ /\ p = "private-region-consistency"
        /\ \E b \in Range(d.boundaries) : b.kind = "security-group" /\ ~SharedRegion(d, b)
     \/ p = "crossing-mechanism" /\ \E r \in d.connections : Crossing(d, r) /\ ~r.labelled}

(* validateArchitecture: membership and frames must tell the same story.   *)
Encloses(outer, inner) ==
  /\ outer.x <= inner.x /\ outer.y <= inner.y
  /\ Right(outer) >= Right(inner) /\ Bottom(outer) >= Bottom(inner)

PairProblem(f, g) ==
  LET shared == f.of.wraps \cap g.of.wraps
      fNested == f.of.wraps \subseteq g.of.wraps
      gNested == g.of.wraps \subseteq f.of.wraps
  IN IF shared # {} /\ ~fNested /\ ~gNested THEN "partial-membership"
     ELSE IF ~RectsOverlap(f.rect, g.rect, 0) THEN "none"
     ELSE IF ~Encloses(f.rect, g.rect) /\ ~Encloses(g.rect, f.rect) THEN "partial-frames"
     ELSE IF shared = {} THEN "disjoint-members"
     ELSE IF ~(fNested /\ Encloses(g.rect, f.rect)) /\ ~(gNested /\ Encloses(f.rect, g.rect)) THEN "containment"
     ELSE "none"
PairProblems(fs) == {PairProblem(fs[p[1]], fs[p[2]]) : p \in {q \in (DOMAIN fs) \X (DOMAIN fs) : q[1] < q[2]}} \ {"none"}

Canvas(d, fs) == [x |-> 0, y |-> 0, width |-> ViewBox(d, fs)[1], height |-> ViewBox(d, fs)[2]]
TitleProblems(d, fs) ==
  {p \in {"title-too-wide", "title-outside-frame", "title-outside-canvas", "title-on-component", "titles-overlap"} :
     \E i \in DOMAIN fs :
       \/ p = "title-too-wide" /\ fs[i].of.title.least > Expanded(d, fs[i].of).width - 2 * Inset
       \/ p = "title-outside-frame" /\ ~Encloses(fs[i].rect, fs[i].title)
       \/ p = "title-outside-canvas" /\ ~Encloses(Canvas(d, fs), fs[i].title)
       \/ p = "title-on-component" /\ \E id \in DOMAIN d.components : RectsOverlap(fs[i].title, Measured(d, id), 0)
       \/ p = "titles-overlap" /\ \E j \in DOMAIN fs \ {i} : RectsOverlap(fs[i].title, fs[j].title, 0)}
LayoutProblems(d, fs) ==
  GridProblems(d)
    \cup (IF \A id \in DOMAIN d.components : Encloses(Canvas(d, fs), Measured(d, id)) THEN {} ELSE {"component-outside"})
    \cup (IF \E a \in DOMAIN d.components : \E b \in DOMAIN d.components \ {a} : RectsOverlap(Measured(d, a), Measured(d, b), 8)
          THEN {"components-too-close"} ELSE {})
    \cup (IF \A b \in Range(d.boundaries) : b.wraps \subseteq DOMAIN d.components THEN {} ELSE {"unknown-member"})
    \cup (IF d.enforced THEN TitleProblems(d, fs) ELSE {})
    \cup (IF d.deployment THEN PairProblems(fs) ELSE {})
    \cup (IF \A i \in DOMAIN fs : Encloses(Canvas(d, fs), fs[i].rect) THEN {} ELSE {"frame-outside"})
-----------------------------------------------------------------------------
Init == /\ \E family \in DOMAIN Diagrams : diagram \in Diagrams[family]
        /\ boxes = Boxes(diagram)
        /\ frames = <<>>
        /\ legend = <<>>
        /\ problems = Unchecked

(* loadDiagram checks the engineering profile before anything is measured. *)
Profile ==
  /\ problems = Unchecked
  /\ diagram.deployment /\ OwnershipProblems(diagram) # {}
  /\ problems' = OwnershipProblems(diagram)
  /\ UNCHANGED <<diagram, boxes, frames, legend>>

Render ==
  /\ problems = Unchecked
  /\ diagram.deployment => OwnershipProblems(diagram) = {}
  /\ \E fs \in {FramesOf(diagram)} :
       LET found == LayoutProblems(diagram, fs)
           at == LegendPlace(diagram, fs)
           refused == diagram.configured /\ DOMAIN Entries(diagram) # {} /\ LegendTrouble(Entries(diagram), at) # "none"
       IN /\ frames' = fs
          /\ problems' = found \cup (IF found = {} /\ refused THEN {"legend"} ELSE {})
          /\ legend' = IF found = {} THEN DrawnLegend(Entries(diagram), at) ELSE <<>>
  /\ UNCHANGED <<diagram, boxes>>

Done == problems # Unchecked /\ UNCHANGED vars

Next == Profile \/ Render \/ Done
Spec == Init /\ [][Next]_vars
-----------------------------------------------------------------------------
Accepted == problems = {}

(* A title never covers another title or a component, in a diagram with or *)
(* without a quality profile: the bound on the moves of a title is enough, *)
(* and the checks of validateArchitecture for it never have to speak.      *)
TitlesApart ==
  /\ problems \cap {"title-on-component", "titles-overlap"} = {}
  /\ \A i, j \in DOMAIN frames :
       /\ i # j => ~RectsOverlap(frames[i].title, frames[j].title, 0)
       /\ \A id \in DOMAIN diagram.components : ~RectsOverlap(frames[i].title, boxes[id], 0)

(* An accepted deployment can be read off its frames: what is drawn inside *)
(* a region with members of its own belongs to it, and every database is   *)
(* in a private group whose members, and whose frame unless it wraps the   *)
(* same components, lie in the database's one region.                      *)
OwnershipIsDrawn ==
  Accepted /\ diagram.deployment =>
    /\ \A i \in DOMAIN frames, id \in Internal(diagram) :
         /\ frames[i].of.kind = "region"
         /\ frames[i].of.wraps \cap Internal(diagram) # {}
         /\ Encloses(frames[i].rect, boxes[id])
         => id \in frames[i].of.wraps
    /\ \A id \in DOMAIN diagram.components : diagram.components[id].type = "database" =>
         \E i, j \in DOMAIN frames :
           /\ frames[i].of.kind = "region" /\ frames[j].of.kind = "security-group"
           /\ id \in frames[j].of.wraps /\ frames[j].of.wraps \subseteq frames[i].of.wraps
           /\ ~(frames[i].of.wraps \subseteq frames[j].of.wraps) => Encloses(frames[i].rect, frames[j].rect)

(* A drawn legend can be read and is complete: its boxes are apart, within *)
(* its width and clear of the routes, every kind of the diagram is in it   *)
(* unless the author hid it; and on an automatic canvas it is only ever    *)
(* left out for a route in its way (autoViewBoxFor, measureLegend).        *)
LegendReads ==
  /\ legend # <<>> =>
       /\ \A i, j \in DOMAIN legend : i # j => ~RectsOverlap(legend[i], legend[j], 0)
       /\ \A i \in DOMAIN legend \ {0} : Right(legend[i]) <= ViewBox(diagram, frames)[1] - Margin
       /\ \A i \in DOMAIN legend, o \in diagram.obstacles : ~InTheWay(o, legend[i])
       /\ {diagram.components[id].type : id \in DOMAIN diagram.components} \ diagram.legend.hidden
            \subseteq {legend[i].kind : i \in DOMAIN legend}
  /\ frames # <<>> /\ diagram.view = <<>> =>
       LegendTrouble(Entries(diagram), LegendPlace(diagram, frames)) \in {"none", "content-overlap"}
=============================================================================
