------------------------------ MODULE MCArchify ------------------------------
(***************************************************************************)
(* Small instances of the vendored diagram tool: of Archify, and of what   *)
(* TLC alone looks at: how the tool learns of updates, and how relations   *)
(* are routed and gated.  They have no state in common.  The latter are    *)
(* worlds like those of Archify, but share the slots below for their       *)
(* variables, and a slot a world does not need stays empty.                *)
(***************************************************************************)
EXTENDS Archify, RouteGeometry

CONSTANTS
  p1, p2, u1, u2, d1, d2, old, new,
  Drawings  \* the families of drawings RouteGates is given

VARIABLES s1, s2, s3, s4, s5, s6, s7, s8, s9, s10, s11

slots == <<s1, s2, s3, s4, s5, s6, s7, s8, s9, s10, s11>>
From4 == <<s4, s5, s6, s7, s8, s9, s10, s11>>

Empty5 == s5 = None /\ s6 = None /\ s7 = None /\ s8 = None /\ s9 = None /\ s10 = None /\ s11 = None
Empty4 == s4 = None /\ Empty5
Empty1 == s1 = None /\ s2 = None /\ s3 = None /\ Empty4
-----------------------------------------------------------------------------
(* Every pair of operations on the cache after its preparation.            *)
PairsOfOperations == {<<"prepare", a, b>> : a, b \in {"mkdir", "write", "rename", "remove", "read"}}

(* Two pages, one of them named twice, and a preset.                       *)
Page(u, d) == [kind |-> "pinned", url |-> u, digest |-> d]
FourBrands == <<Page(u1, d1), Page(u2, d2), [kind |-> "preset"], Page(u1, d1)>>

(* Two commits, a file that differs between them, a directory and a path   *)
(* out of the repository.                                                  *)
TheFile == <<"src", "a">>
TwoCommits ==
  LET rest == <<"src">> :> Directory @@ <<"..", "x">> :> Missing
  IN  old :> (TheFile :> <<"w", "lf", "w", "crlf">> @@ rest) @@ new :> (TheFile :> <<"w", "lf", "lf", "w">> @@ rest)
Remote(form, host) ==
  [form |-> form, host |-> host, port |-> "default", path |-> <<"team", "app">>, dotGit |-> FALSE, user |-> FALSE]
Lines(path, line, end) == [path |-> path, line |-> line, end |-> end]
Cited == {Lines(p, l, e) : p \in {TheFile, <<"src">>, <<"..", "x">>}, l \in {0, 2, 3}, e \in {0, 2, 3}}
Claims ==
  {[revision |-> old, fullSha |-> TRUE, remote |-> r, link |-> k, root |-> TRUE, sources |-> s] :
     r \in {Remote("https", "github"), Remote("scp", "other")}, k \in {"web", "local-only"},
     s \in {<<>>} \cup {<<x>> : x \in Cited}
             \cup {<<x, y>> : x \in Cited, y \in {Lines(TheFile, 3, 0), Lines(TheFile, 1, 2)}}}
SomeOrigins ==
  {Remote("https", "github"), [Remote("scp", "github") EXCEPT !.dotGit = TRUE],
   Remote("ssh", "other"), Remote("https", "gitee")}
-----------------------------------------------------------------------------
(* File systems in which names differ in case only and links lead astray.  *)
NoEntry == [kind |-> "none"]
Dir == [kind |-> "dir"]
File(n) == [kind |-> "file", ino |-> n]
Link(to) == [kind |-> "link", to |-> to]

MCFold ==
  [n \in {"w", "d", "x", "i.json", "I.json", "o.html", "O.html"} |->
     CASE n = "I.json" -> "i.json" [] n = "O.html" -> "o.html" [] OTHER -> n]
MCHtml == {"o.html", "O.html"}
MCCwd == <<"w">>
MCInput == <<"w", "i.json">>
MCOutputs == {<<"w", "o.html">>, <<"w", "I.json">>, <<"w", "d", "O.html">>, <<"x", "o.html">>}

(* What there may be in the working directory beside the diagram.          *)
MCSystems ==
  LET i == {File(1), Link(<<"w", "o.html">>), Link(<<"x", "O.html">>)}
      o == {NoEntry, File(1), File(2), Link(<<"w", "i.json">>), Link(<<"x", "o.html">>),
            Link(<<"w", "o.html">>)}
      d == {NoEntry, Dir, Link(<<"x">>), Link(<<"w">>)}
      x == {NoEntry, File(1), File(0)}
      entry(p, a, b, c, e) ==
        CASE p = <<"w", "i.json">> -> a [] p = <<"w", "o.html">> -> b [] p = <<"w", "d">> -> c
          [] p = <<"x", "O.html">> -> e [] OTHER -> Dir
      paths == {<<"w">>, <<"x">>, <<"w", "i.json">>, <<"w", "o.html">>, <<"w", "d">>,
                <<"x", "O.html">>}
  IN {[p \in {q \in paths : entry(q, a, b, c, e) # NoEntry} |-> entry(p, a, b, c, e)] :
        a \in i, b \in o, c \in d, e \in x}

MCChanges ==
  {[at |-> <<"w", "o.html">>, entry |-> e] :
     e \in {NoEntry, File(1), Link(<<"w", "i.json">>), Link(<<"x", "O.html">>)}}
  \cup {[at |-> <<"w", "d">>, entry |-> e] : e \in {Link(<<"x">>), Link(<<"w">>)}}
  \cup {[at |-> <<"w", "i.json">>, entry |-> Link(<<"w", "o.html">>)]}

(* Versions whose order as text is not their order.                        *)
Number(n) == IF n < 10 THEN <<n>> ELSE <<n \div 10, n % 10>>
Version(minor, pre) == [core |-> <<Number(1), Number(minor), Number(0)>>, pre |-> pre, build |-> FALSE]
TwoMinors ==
  {Version(9, None), Version(9, <<[word |-> 1]>>), [Version(9, None) EXCEPT !.build = TRUE]}
    \cup {Version(10, p) : p \in {None, <<[digits |-> Number(2)]>>, <<[digits |-> Number(11)]>>,
                                 <<[word |-> 1]>>, <<[word |-> 1], [digits |-> Number(9)]>>}}
-----------------------------------------------------------------------------
(* Small pictures: plans for PortRoutes, whose router counts in half       *)
(* pixels, diagrams for ArchitectureFrames, sequences for SequenceLayout,  *)
(* drawings for RouteGates.                                                *)

At(x, y, w, h) == [x |-> 2 * x, y |-> 2 * y, width |-> 2 * w, height |-> 2 * h]
Families == {"architecture", "dataflow", "lifecycle"}
Rel(from, to, out, in, route) ==
  [from |-> from, to |-> to, fromSide |-> out, toSide |-> in, route |-> route, pinned |-> FALSE]
Auto(from, to) == Rel(from, to, "auto", "auto", "auto")

(* Two boxes joined twice; the second box anywhere around the first.       *)
Twice(k, x, y, h, r) ==
  [kind |-> k, boxes |-> [a |-> At(0, 0, 100, 60), b |-> At(x, y, 100, h)],
   relations |-> <<Auto("a", "b"), r>>]
Positions == ({-160, 0, 4, 150, 190} \X {-90, 2, 12, 90, 140}) \ ({0, 4} \X {2, 12})
TwicePlans ==
  {Twice(k, p[1], p[2], h, r) : k \in Families, p \in Positions, h \in {32, 60},
     r \in {Auto("b", "a"), Auto("a", "b"), Rel("a", "b", "bottom", "auto", "auto"),
            Rel("b", "a", "top", "right", "auto"), Rel("a", "b", "auto", "auto", "drop"),
            Rel("a", "b", "auto", "auto", "right-channel"), Rel("a", "b", "auto", "auto", "bottom-channel"),
            Rel("a", "b", "auto", "auto", "vertical-channel"), Rel("a", "b", "auto", "auto", "straight")}}

(* A third box, related or in the way.                                     *)
ThirdPlans ==
  {[kind |-> k,
    boxes |-> [a |-> At(0, 0, 100, 60), b |-> At(p[1], p[2], 80, 60), c |-> At(q[1], q[2], 40, 40)],
    relations |-> r] :
     k \in Families, p \in {<<160, 5>>, <<220, 70>>, <<10, 140>>, <<220, -100>>},
     q \in {<<111, 52>>, <<140, -60>>, <<40, 80>>, <<111, 90>>, <<-100, 70>>, <<149, 61>>, <<60, 86>>, <<161, 40>>},
     r \in {<<Auto("a", "b"), Auto("a", "c")>>, <<Auto("b", "a"), Auto("a", "c"), Auto("c", "a")>>,
            <<Auto("a", "b")>>, <<Rel("a", "b", "bottom", "left", "auto"), Auto("c", "b")>>}}
MCPlans == <<TwicePlans, ThirdPlans>>
-----------------------------------------------------------------------------
Catalog(w) == <<[kind |-> "backend", width |-> w], [kind |-> "database", width |-> 90], [kind |-> "external", width |-> 60]>>
NoLegend == [mode |-> "hidden", shown |-> {}, hidden |-> {}, catalog |-> Catalog(80)]
AtPos(type, x, y) ==
  [type |-> type, pos |-> <<x, y>>, cell |-> <<0, 0>>, size |-> <<60, 40>>, owned |-> TRUE]
Boundary(kind, wraps, pad, least, preferred) ==
  [kind |-> kind, wraps |-> wraps, pad |-> pad, title |-> [least |-> least, preferred |-> preferred]]
Default == [x |-> 40, y |-> 80, cols |-> 2, gapX |-> 30, gapY |-> 40, cellW |-> 130, cellH |-> 64]
Diagram(components, boundaries) ==
  [components |-> components, boundaries |-> boundaries, connections |-> {}, grid |-> Default,
   deployment |-> FALSE, enforced |-> TRUE, view |-> <<900, 600>>, titleHeight |-> 16,
   legend |-> NoLegend, configured |-> FALSE, obstacles |-> {}]

(* Two regions and a private group around three components: every          *)
(* membership, the third component between, beside or below the others.    *)
Ids == {"a", "b", "c"}
Deployments ==
  {[Diagram([a |-> AtPos("backend", 100, 100), b |-> AtPos("database", 300, 100), c |-> AtPos(t, p[1], p[2])],
            <<Boundary("region", r, 30, 30, 40), Boundary("region", s, pad, 30, 40),
              Boundary("security-group", g, 8, 30, 40)>>)
      EXCEPT !.deployment = TRUE, !.connections = {[from |-> "a", to |-> "b", labelled |-> l]}] :
     t \in {"backend", "external"}, p \in {<<200, 100>>, <<500, 100>>, <<300, 240>>}, l \in BOOLEAN,
     pad \in {4, 30}, r \in SUBSET Ids, s \in SUBSET {"b", "c"}, g \in SUBSET Ids}

(* Titles of one to three boundaries that meet each other and components.  *)
Labels == {<<30, 40>>, <<100, 150>>, <<200, 260>>}
Titled ==
  {[Diagram([a |-> AtPos("backend", 200, 200), b |-> AtPos("backend", p[1], p[2]), c |-> AtPos("backend", 200, q)],
            <<Boundary("region", {"a"}, 30, l[1], l[2]), Boundary("security-group", {"a", "b"}, pad, m[1], m[2]),
              Boundary("security-group", w, 30, l[1], m[2])>>)
      EXCEPT !.enforced = e] :
     p \in {<<270, 200>>, <<270, 176>>, <<130, 188>>, <<200, 300>>}, q \in {140, 124, 340}, pad \in {4, 30},
     l \in Labels, m \in Labels, w \in {{"a"}, {"b"}, {"a", "c"}, {"d"}}, e \in BOOLEAN}

(* Legends of one to three kinds on automatic and authored canvases.       *)
Cell(type, cell) == [type |-> type, pos |-> <<>>, cell |-> cell, size |-> <<120, 60>>, owned |-> FALSE]
Legends ==
  {[Diagram([a |-> Cell("backend", <<0, 0>>), b |-> Cell(t, c)], <<Boundary("region", {"b"}, 30, 40, 60)>>)
      EXCEPT !.view = v, !.enforced = e, !.configured = conf, !.obstacles = o,
             !.legend = [mode |-> mode, shown |-> s, hidden |-> h, catalog |-> Catalog(w)]] :
     t \in {"backend", "database"}, c \in {<<0, 0>>, <<0, 1>>, <<1, 0>>, <<0, 2>>}, v \in {<<>>, <<420, 360>>, <<300, 400>>},
     e \in BOOLEAN, conf \in BOOLEAN, mode \in {"auto", "all", "hidden"}, s \in {{}, {"external"}},
     h \in {{}, {"database"}}, w \in {80, 118, 150, 430},
     o \in {{}, {[segment |-> <<<<60, 200>>, <<60, 330>>>>]}, {[label |-> [x |-> 150, y |-> 330, width |-> 30, height |-> 14]]}}}

MCDiagrams == <<Deployments, Titled, Legends>>
-----------------------------------------------------------------------------
Message(from, to, y, label) == [from |-> from, to |-> to, y |-> y, label |-> label]
Sequence(messages, segments, profile) ==
  [participants |-> 3, spread |-> FALSE, view |-> <<600, 420>>, messages |-> messages, segments |-> segments,
   profile |-> profile]
Ends == {<<1, 2>>, <<2, 1>>, <<2, 3>>, <<3, 1>>}

(* Three messages in any order of writing, close to each other.            *)
Triples ==
  {[Sequence(<<Message(d[1], d[2], 200, w), Message(e[1], e[2], y, v), Message(f[1], f[2], z, 34)>>, <<>>, p)
      EXCEPT !.spread = s] :
     d \in {<<1, 2>>, <<3, 1>>}, e \in Ends, f \in Ends, y \in {172, 190, 226, 228}, z \in {160, 214, 256},
     w \in {34, 240}, v \in {34, 160}, p \in {"none", "showcase"}, s \in BOOLEAN}

(* A segment below up to three messages.                                   *)
Segmented ==
  {Sequence(<<Message(1, 2, y, 60), Message(d[1], d[2], y + a, 60), Message(e[1], e[2], y + a + b, w)>>,
            <<[from |-> from, to |-> to, label |-> l]>>, p) :
     y \in {160, 170}, a \in {-10, 28, 34, 44}, b \in {10, 28, 40}, d \in {<<1, 2>>, <<2, 3>>}, e \in {<<2, 1>>, <<3, 1>>}, w \in {40, 160},
     from \in {60, 200, 212, 220, 240, 256}, to \in {250, 300}, l \in {42, 140, 500}, p \in {"none", "standard"}}

(* Columns that follow the canvas.                                         *)
Spread ==
  {[Sequence(<<Message(1, n, 200, 60)>>, <<>>, "standard") EXCEPT !.participants = n, !.spread = s, !.view = <<w, h>>] :
     n \in 1..6, s \in BOOLEAN, w \in {300, 430, 600, 900}, h \in {300, 330, 500}}
MCSequences == <<Triples, Segmented, Spread>>
-----------------------------------------------------------------------------
(* Small drawings.                                                         *)
NoProfile == "none"

Grid(n) == (0..n) \X (0..n)
Hops(p, n) == {q \in Grid(n) : q # p /\ (q[1] = p[1] \/ q[2] = p[2])}
Polylines3(n) == UNION {{<<p, q, r>> : r \in Hops(q, n)} : <<p, q>> \in UNION {{<<a, b>> : b \in Hops(a, n)} : a \in Grid(n)}}
Polylines4(n) == UNION {{Append(l, p) : p \in Hops(l[3], n)} : l \in Polylines3(n)}
Leaving(routes, heading) == {l \in routes : Heading(<<l[1], l[2]>>) = heading}

Free == [from |-> "auto", to |-> "auto"]
Relation(l, from, to) ==
  [points |-> l, from |-> from, to |-> to, shaped |-> TRUE, authored |-> Free, inferred |-> Free]
Drawing(relations) ==
  [relations |-> relations, nodes |-> {}, labels |-> {}, frames |-> {},
   merge |-> FALSE, env |-> NoProfile, meta |-> "showcase"]
Box(x, y, w, h) == [x |-> x, y |-> y, width |-> w, height |-> h]

(* Two routes of three points; the first starts to the right.              *)
PairDrawings ==
  {[Drawing(<<Relation(l, "a", "b"), Relation(r, to, "d")>>) EXCEPT !.merge = m] :
     l \in Leaving(Polylines3(2), <<1, 0>>), r \in Polylines3(2), to \in {"c"}, m \in BOOLEAN}

(* A route of four points and a frame.                                     *)
FrameDrawings ==
  {[Drawing(<<Relation(l, "a", "b")>>) EXCEPT !.frames = {f}, !.env = p[1], !.meta = p[2]] :
     l \in Leaving(Polylines4(3), <<1, 0>>),
     p \in {<<NoProfile, "showcase">>, <<"showcase", "standard">>, <<NoProfile, NoProfile>>},
     f \in {[x |-> 0, y |-> 1, width |-> 3, height |-> 2, radius |-> 0],
            [x |-> 0, y |-> 0, width |-> 3, height |-> 3, radius |-> 1]}}

(* A label and a route of three points.                                    *)
LabelDrawings ==
  {[Drawing(<<Relation(<<<<9, 9>>, <<9, 8>>>>, "a", "b"), Relation(l, "c", "d")>>)
      EXCEPT !.labels = {[of |-> 1, rect |-> Box(x, y, w, h)]}] :
     l \in Polylines3(4), x \in {0}, y \in {2}, w \in 0..1, h \in 0..1}

(* A straight line in any direction between two nodes, a third node behind *)
(* it or beside it.                                                        *)
Beyond(p, h) ==
  Box(p[1] - (IF h[1] = 1 THEN 0 ELSE 1), p[2] - (IF h[2] = 1 THEN 0 ELSE 1),
      IF h[1] = 0 THEN 2 ELSE 1, IF h[2] = 0 THEN 2 ELSE 1)
Ahead(p, q) ==
  IF p[1] # q[1] THEN <<IF p[1] < q[1] THEN 1 ELSE -1, 0>> ELSE <<0, IF p[2] < q[2] THEN 1 ELSE -1>>

NodeDrawing(p, q, w, profiles) ==
  [Drawing(<<Relation(<<p, q>>, "a", "b")>>)
     EXCEPT !.nodes = {[id |-> "a", rect |-> Beyond(p, Ahead(q, p))], [id |-> "b", rect |-> Beyond(q, Ahead(p, q))],
                       [id |-> "c", rect |-> Box(3, 3, w, 2)]},
            !.env = profiles[1], !.meta = profiles[2]]
Spots == (1..6) \X (1..6)
NodeDrawings ==
  {d \in {NodeDrawing(p, q, w, e) :
            p \in Spots, q \in Spots, w \in {2, 3},
            e \in {<<NoProfile, "standard">>, <<NoProfile, "showcase">>, <<"standard", "showcase">>}} :
     /\ d.relations[1].points[1] # d.relations[1].points[2]
     /\ \A n, o \in d.nodes : n = o \/ ~RectsOverlap(n.rect, o.rect, 1)}

(* Those whose line runs along an axis, as a router draws it.              *)
AxisDrawings ==
  {d \in NodeDrawings : LET l == d.relations[1].points IN l[1][1] = l[2][1] \/ l[1][2] = l[2][2]}

SidedDrawings ==
  {[Drawing(<<[Relation(l, "a", "b") EXCEPT !.shaped = s, !.authored = [from |-> f, to |-> "auto"],
                                            !.inferred = [from |-> "right", to |-> t]]>>) EXCEPT !.env = e] :
     l \in Polylines3(2), s \in BOOLEAN, f \in {"auto", "top"}, t \in {"left", "bottom"},
     e \in {NoProfile, "standard"}}

AllDrawings == <<PairDrawings, FrameDrawings, LabelDrawings, NodeDrawings, SidedDrawings>>
StraightDrawings == <<AxisDrawings>>
-----------------------------------------------------------------------------
(* Small pairs of diagrams for ArchitectureDelta.                          *)
Component(id, s, e, g, b) ==
  [id |-> id, semantic |-> s, sources |-> e, geometry |-> g, brand |-> b]
Connection(id, f, t, l, v, g) ==
  [id |-> id, from |-> f, to |-> t, label |-> l, variant |-> v, geometry |-> g]
Wrapping(id, w, p) == [id |-> id, wraps |-> w, pad |-> p]
NoId == ""
Unnamed == [given |-> FALSE, name |-> 0, pinned |-> FALSE]

Source(cs, es, bs) ==
  [components |-> cs, connections |-> es, boundaries |-> bs,
   repository |-> Unnamed, presentation |-> 0, locale |-> 0]

First == Component("a", 0, <<>>, 0, 0)
Plain == Source(<<First>>, <<>>, <<>>)
Lists == {<<>>, <<1, 2>>, <<2, 1>>}

(* One family of diagrams for every kind of item, one for what is not an   *)
(* item, one for ids that are missing or doubled.                          *)
OfComponents ==
  LET b == {Component("b", s, e, g, m) : s \in 0..1, e \in Lists, g \in 0..1, m \in 0..1}
  IN {Plain} \cup {Source(<<First, x>>, <<>>, <<>>) : x \in b}
       \cup {Source(<<x, First>>, <<>>, <<>>) : x \in b}

OfConnections ==
  {Plain} \cup {Source(<<First>>, <<Connection("e", f, "a", l, v, g)>>, <<>>) :
                  f \in {"a", "b"}, l \in {"", "x"}, v \in 0..1, g \in 0..1}

OfBoundaries ==
  {Plain} \cup {Source(<<First>>, <<>>, <<Wrapping("z", w, p)>>) : w \in Lists, p \in 0..1}

OfMeta ==
  {[Plain EXCEPT !.repository = r, !.presentation = p, !.locale = l] :
     p \in 0..1, l \in 0..1,
     r \in {Unnamed} \cup [given : {TRUE}, name : 0..1, pinned : BOOLEAN]}

OfIds ==
  {Source(cs, es, bs) :
     cs \in {<<First>>, <<First, First>>, <<[First EXCEPT !.id = NoId]>>, <<[First EXCEPT !.id = "b"]>>},
     es \in {<<>>, <<Connection(NoId, "a", "a", "", 0, 0)>>,
             <<Connection("e", "a", "a", "", 0, 0), Connection("e", "a", "a", "", 0, 0)>>},
     bs \in {<<>>, <<Wrapping("z", <<>>, 0), Wrapping("z", <<>>, 0)>>}}

MCComparisons ==
  UNION {F \X F : F \in {OfComponents, OfConnections, OfBoundaries, OfMeta, OfIds}}
-----------------------------------------------------------------------------
(* One check and the acknowledgement of the release it may announce.       *)
Update == INSTANCE UpdateCheck WITH
  Processes <- {p1, p2}, Digests <- {d1, d2}, Newer <- {d1}, Capacity <- 2, MaxGeneration <- 3,
  MaxAttempts <- 2, Role <- p1 :> "check" @@ p2 :> d1,
  kind <- s1, body <- s2, claim <- s3, pc <- s4, op <- s5, seen <- s6, todo <- s7, tries <- s8,
  found <- s9, view <- s10, result <- s11

Gates == INSTANCE RouteGates WITH
  Drawings <- Drawings, MinOverlap <- 2, NodeGap <- 1, LabelGap <- 2, InnerFloor <- 2, MicroFloor <- 1,
  drawing <- s1, gated <- s2, checked <- s3

Ports == INSTANCE PortRoutes WITH Plans <- MCPlans, plan <- s1, routes <- s2
-----------------------------------------------------------------------------
(* The worlds of Archify, and the others.                                  *)
AllInit ==
  /\ Init
  /\ \/ /\ world \in {"cache", "output", "brand", "release", "evidence", "lifelines", "frames", "delta", "review"}
        /\ Empty1
     \/ world = "update" /\ Update!Init
     \/ world = "gates" /\ Gates!Init /\ Empty4
     \/ world = "ports" /\ Ports!Init /\ s3 = None /\ Empty4

AllNext ==
  \/ Next /\ UNCHANGED slots
  \/ world = "update" /\ Update!Next /\ UNCHANGED everything
  \/ world = "gates" /\ Gates!Next /\ UNCHANGED <<everything, From4>>
  \/ world = "ports" /\ Ports!Next /\ UNCHANGED <<everything, s3, From4>>

(* The fairness of each world is that of its module.                       *)
Fairness ==
  /\ \A p \in {p1, p2} :
       /\ WF_slots(world = "update" /\ Update!Step(p) /\ UNCHANGED everything)
       /\ SF_slots(world = "update" /\ Update!Expire(p) /\ UNCHANGED everything)
  /\ WF_brandVars(world = "brand" /\ (Brand!Tick \/ Brand!Finish) /\ OnlyBrand /\ UNCHANGED slots)
  /\ \A w \in Workers :
       WF_brandVars(world = "brand" /\ (Brand!Take(w) \/ Brand!Resume(w)) /\ OnlyBrand /\ UNCHANGED slots)
  /\ \A u \in Urls : WF_brandVars(world = "brand" /\ Brand!GiveUp(u) /\ OnlyBrand /\ UNCHANGED slots)
  /\ WF_reviewVars(world = "review" /\ Review!Tick /\ OnlyReview /\ UNCHANGED slots)

AllSpec == AllInit /\ [][AllNext]_<<everything, slots>>
FairSpec == AllSpec /\ Fairness
-----------------------------------------------------------------------------
(* Properties of the other worlds.                                         *)

(* No renderer lets through what its gates are there for (geometry.mjs).   *)
GatesSeeTrouble ==
  world = "gates" =>
    /\ Gates!HiddenLinesSeen /\ Gates!SharedTracksSeen
    /\ Gates!LabelsClear

(* An edge through an unrelated node fails whatever the profile, as the    *)
(* authoring contract says.                                                *)
HiddenAlwaysFails == world = "gates" => Gates!HiddenAlwaysFails

(* Relations between the same boxes leave and arrive at places of their    *)
(* own, do not cross, and what the router makes its gates accept           *)
(* (automaticPortSpread, routeVia).                                        *)
PortsKeepApart ==
  world = "ports" =>
    /\ Ports!PortsApart /\ Ports!SiblingsDoNotCross
    /\ Ports!AcceptedIsOrthogonal /\ Ports!RouterServesGate

(* A command that looks for updates ends, the marks of a diagram are       *)
(* resolved or given up, and a playback comes to its end.                  *)
Settled ==
  /\ world = "update" => \A p \in {p1, p2} : s4[p] = "ended"
  /\ world = "brand" => outcome # ""
  /\ world = "review" => ~playing

AllSettles == []<>Settled
=============================================================================
