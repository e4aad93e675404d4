------------------------- MODULE ArchitectureDelta --------------------------
(***************************************************************************)
(* The comparison of two architecture diagrams: a receipt that lists what  *)
(* changed, a drawing of the head with what the base had instead, and for  *)
(* every change the tags the drawing must contain.  Receipt, drawing and   *)
(* expectation are computed by different code, and a page is delivered     *)
(* only when they agree.  Field values are small numbers: only whether     *)
(* they are equal is looked at.                                            *)
(***************************************************************************)
EXTENDS Naturals, Sequences, FiniteSets

CONSTANT Comparisons   \* the pairs of diagrams that may be compared

VARIABLES
  input,    \* the two diagrams
  stage,    \* "given", "compared", "drawn", "validated"
  receipt,  \* what compareArchitecture returned
  drawing   \* the tags of the delta drawing

vars == <<input, stage, receipt, drawing>>
base == input[1]
head == input[2]

NoId == ""

(* A boundary has no id of its own: its kind and label are one.            *)
Component == [id : STRING, semantic : Nat, sources : Seq(Nat), geometry : Nat, brand : Nat]
Connection == [id : STRING, from : STRING, to : STRING, label : STRING, variant : Nat, geometry : Nat]
Boundary == [id : STRING \ {NoId}, wraps : Seq(Nat), pad : Nat]
Repository == [given : BOOLEAN, name : Nat, pinned : BOOLEAN]
Diagram ==
  [components : Seq(Component), connections : Seq(Connection), boundaries : Seq(Boundary),
   repository : Repository, presentation : Nat, locale : Nat]

DeltaAssumption == Comparisons \subseteq Diagram \X Diagram
-----------------------------------------------------------------------------
(* Items that are found by a stable id.                                    *)

Ids(items) == {items[i].id : i \in DOMAIN items}
ById(items, id) == items[CHOOSE i \in DOMAIN items : items[i].id = id]

MissingId(items) == NoId \in Ids(items)
DuplicateId(items) ==
  \E i, j \in DOMAIN items : i < j /\ items[i].id = items[j].id /\ items[i].id # NoId

(* canonical, sortedObjects: lists whose order means nothing are sorted.   *)
Earlier(list, i) ==
  {j \in DOMAIN list : list[j] < list[i] \/ (list[j] = list[i] /\ j <= i)}

Normal(list) ==
  [k \in DOMAIN list |-> list[CHOOSE i \in DOMAIN list : Cardinality(Earlier(list, i)) = k]]

(* stableIndex, boundaryIndex *)
IdFault(items, missing) ==
  IF MissingId(items) THEN missing
  ELSE IF DuplicateId(items) THEN "duplicate-stable-id" ELSE ""

(* compareArchitecture: why two diagrams are not comparable, the first     *)
(* reason in the order of the code; "" when they are.                      *)
Refusal(b, h) ==
  LET reasons ==
        <<IdFault(b.components, "stable-id-required"),
          IdFault(h.components, "stable-id-required"),
          IF Ids(b.components) \cap Ids(h.components) = {} THEN "no-shared-component-id" ELSE "",
          IdFault(b.connections, "relationship-id-required"),
          IdFault(h.connections, "relationship-id-required"),
          IF DuplicateId(b.boundaries) \/ DuplicateId(h.boundaries)
          THEN "boundary-key-ambiguous" ELSE "",
          IF /\ b.repository.given /\ h.repository.given
             /\ b.repository.name # h.repository.name THEN "repository-mismatch" ELSE "">>
      given == {i \in DOMAIN reasons : reasons[i] # ""}
  IN IF given = {} THEN "" ELSE reasons[CHOOSE i \in given : \A j \in given : i <= j]
-----------------------------------------------------------------------------
(* fieldChanges: the groups of fields in which two items differ.           *)

ComponentClasses(x, y) ==
  (IF x.semantic # y.semantic THEN {"semantic"} ELSE {})
    \cup (IF Normal(x.sources) # Normal(y.sources) THEN {"evidence"} ELSE {})
    \cup (IF x.geometry # y.geometry THEN {"geometry"} ELSE {})

ConnectionClasses(x, y) ==
  (IF <<x.from, x.to>> # <<y.from, y.to>> THEN {"topology"} ELSE {})
    \cup (IF <<x.label, x.variant>> # <<y.label, y.variant>> THEN {"semantic"} ELSE {})
    \cup (IF x.geometry # y.geometry THEN {"geometry"} ELSE {})

BoundaryClasses(x, y) ==
  (IF Normal(x.wraps) # Normal(y.wraps) THEN {"scope"} ELSE {})
    \cup (IF x.pad # y.pad THEN {"geometry"} ELSE {})

Classes(kind, x, y) ==
  CASE kind = "component" -> ComponentClasses(x, y)
    [] kind = "relationship" -> ConnectionClasses(x, y)
    [] kind = "boundary" -> BoundaryClasses(x, y)

StatusFor(classes, kind) ==
  IF classes \cap {"topology", "semantic", "scope"} # {} THEN "changed"
  ELSE IF "evidence" \in classes THEN "evidence-changed"
  ELSE IF "geometry" \in classes
  THEN CASE kind = "relationship" -> "rerouted" [] kind = "component" -> "moved"
         [] OTHER -> "geometry-changed"
  ELSE "same"

(* The class of an item that appears or disappears.                        *)
IdentityClass(kind) ==
  CASE kind = "component" -> "semantic" [] kind = "relationship" -> "topology"
    [] kind = "boundary" -> "scope"

Label(kind, x) == kind = "relationship" /\ x.label # ""

Change(kind, id, b, h) ==
  LET inBase == id \in Ids(b)
      inHead == id \in Ids(h)
      classes == IF inBase /\ inHead THEN Classes(kind, ById(b, id), ById(h, id))
                 ELSE {IdentityClass(kind)}
  IN [kind |-> kind, id |-> id, classes |-> classes,
      status |-> IF ~inBase THEN "added" ELSE IF ~inHead THEN "removed"
                 ELSE StatusFor(classes, kind),
      baseLabel |-> inBase /\ Label(kind, ById(b, id)),
      headLabel |-> inHead /\ Label(kind, ById(h, id))]

(* Mutant: what the base has and the head has not is left out.             *)
ChangesOfHead(kind, b, h) ==
  {c \in {Change(kind, id, b, h) : id \in Ids(h)} : c.status # "same"}

(* compareEntities *)
Changes(kind, b, h) ==
  {c \in {Change(kind, id, b, h) : id \in Ids(b) \cup Ids(h)} : c.status # "same"}

AllChanges(b, h) ==
  Changes("component", b.components, h.components)
    \cup Changes("relationship", b.connections, h.connections)
    \cup Changes("boundary", b.boundaries, h.boundaries)

(* presentationChanged names the fields of meta it compares, and not the   *)
(* locale among them.                                                      *)
PresentationChanged(b, h) == b.presentation # h.presentation

ProvenanceChanged(b, h) == b.repository # h.repository

(* Both repositories were verified at a revision that is a full hash.      *)
ProofLevel(b, h) ==
  IF \A d \in {b, h} : d.repository.given /\ d.repository.pinned
  THEN "revision-pinned" ELSE "authored"

Refused(code) ==
  [ok |-> FALSE, code |-> code, changes |-> {}, presentation |-> FALSE,
   provenance |-> FALSE, proof |-> "authored"]

(* compareArchitecture *)
CompareArchitecture(b, h) ==
  IF Refusal(b, h) # "" THEN Refused(Refusal(b, h))
  ELSE [ok |-> TRUE, code |-> "", changes |-> AllChanges(b, h),
        presentation |-> PresentationChanged(b, h),
        provenance |-> ProvenanceChanged(b, h), proof |-> ProofLevel(b, h)]
-----------------------------------------------------------------------------
(* The drawing: its tags, each with the kind and id it stands for, the     *)
(* state and the classes written into it, and where it comes from.         *)

Tag(name, c, state, classes, from) ==
  [name |-> name, kind |-> c.kind, id |-> c.id, state |-> state, classes |-> classes,
   from |-> from]

(* What a drawing of one diagram has for an item: a group for a component; *)
(* a path for a connection, and a group when it has a label; a frame and a *)
(* label, without classes, for a boundary.                                 *)
Element(c, labelled, state, from) ==
  CASE c.kind = "component" -> {Tag("g", c, state, c.classes, from)}
    [] c.kind = "relationship" ->
         {Tag("path", c, state, c.classes, from)}
           \cup (IF labelled THEN {Tag("g", c, state, c.classes, from)} ELSE {})
    [] c.kind = "boundary" ->
         {Tag("rect", c, state, c.classes, from), Tag("text", c, state, {}, from)}

(* annotateArchitectureSideSvg: what the head has of a change.             *)
Annotated(c) ==
  IF c.status = "removed" THEN {} ELSE Element(c, c.headLabel, c.status, "head")

(* buildDeltaSvg: what the base had in its place.                          *)
Phantom(c) ==
  IF c.status = "removed" \/ (c.kind = "relationship" /\ "topology" \in c.classes /\ c.status # "added")
  THEN Element(c, c.baseLabel, "removed", "base")
  ELSE IF (c.kind # "boundary" /\ "geometry" \in c.classes)
          \/ (c.kind = "boundary" /\ c.status \in {"changed", "geometry-changed"})
  THEN Element(c, c.baseLabel, "moved-from", "base")
  ELSE {}

(* edgeSymbolMarkup: a sign on the old path and one on the new.            *)
Marker(c, state, from) == {Tag("text", c, state, {}, from)}

Markers(c) ==
  IF c.kind # "relationship" THEN {}
  ELSE (UNION {Marker(c, t.state, "oldSign") : t \in {u \in Phantom(c) : u.name = "path"}})
       \cup (IF c.status \in {"added", "changed", "rerouted"}
             THEN Marker(c, IF c.status = "changed" /\ "topology" \in c.classes
                            THEN "added" ELSE c.status, "newSign")
             ELSE {})

DeltaSvg(changes) == UNION {Annotated(c) \cup Phantom(c) \cup Markers(c) : c \in changes}
-----------------------------------------------------------------------------
(* What the page promises of each change, written into its row.            *)

(* The values of a function, each as often as it occurs.                   *)
Bag(f) ==
  [d \in {f[i] : i \in DOMAIN f} |-> Cardinality({i \in DOMAIN f : f[i] = d})]

(* reviewPrimaryStates *)
PrimaryStates(c) ==
  CASE c.kind = "component" /\ "geometry" \in c.classes -> <<c.status, "moved-from">>
    [] c.kind = "relationship" /\ c.status = "changed" /\ "topology" \in c.classes ->
         <<"changed", "removed">>
    [] c.kind = "relationship" /\ ~(c.status = "changed" /\ "topology" \in c.classes)
         /\ "geometry" \in c.classes -> <<"moved-from", c.status>>
    [] c.kind = "boundary" /\ c.status \in {"changed", "geometry-changed"} ->
         <<c.status, "moved-from">>
    [] OTHER -> <<c.status>>

Form(state, marker, labelled) == [state |-> state, marker |-> marker, labelled |-> labelled]

Forms(c) ==
  CASE c.status = "added" -> <<Form("added", "added", c.headLabel)>>
    [] c.status = "removed" -> <<Form("removed", "removed", c.baseLabel)>>
    [] c.status \notin {"added", "removed"} /\ "topology" \in c.classes ->
         <<Form("removed", "removed", c.baseLabel), Form("changed", "added", c.headLabel)>>
    [] c.status \notin {"added", "removed"} /\ "topology" \notin c.classes
         /\ "geometry" \in c.classes ->
         <<Form("moved-from", "moved-from", c.baseLabel),
           Form(c.status, c.status, c.headLabel)>>
    [] OTHER -> <<Form("changed", "changed", c.headLabel)>>

Descriptor(name, state, classes) == <<name, state, classes>>

(* expectedReviewTargetSignature *)
ExpectedSignature(c) ==
  CASE c.kind = "component" ->
         Bag([i \in DOMAIN PrimaryStates(c) |-> Descriptor("g", PrimaryStates(c)[i], c.classes)])
    [] c.kind = "boundary" ->
         Bag([p \in (DOMAIN PrimaryStates(c)) \X {"rect", "text"} |->
                Descriptor(p[2], PrimaryStates(c)[p[1]], IF p[2] = "text" THEN {} ELSE c.classes)])
    [] c.kind = "relationship" ->
         LET forms == Forms(c)
         IN Bag([p \in {p \in (DOMAIN forms) \X {"path", "text", "g"} : p[2] = "g" => forms[p[1]].labelled} |->
                   IF p[2] = "text" THEN Descriptor("text", forms[p[1]].marker, {})
                   ELSE Descriptor(p[2], forms[p[1]].state, c.classes)])

(* reviewTargetTags, reviewTargetSignature: what is found by kind and id.  *)
Targets(tags, c) == {t \in tags : t.kind = c.kind /\ t.id = c.id}

Signature(tags, c) ==
  Bag([t \in Targets(tags, c) |-> Descriptor(t.name, t.state, t.classes)])

PrimaryName(kind) ==
  CASE kind = "component" -> "g" [] kind = "relationship" -> "path" [] kind = "boundary" -> "rect"

PrimaryFound(tags, c) == {t \in Targets(tags, c) : t.name = PrimaryName(c.kind)}

(* validateArchitectureDeltaHtml, of one row.                              *)
RowValid(tags, c) ==
  LET primary == PrimaryFound(tags, c)
  IN /\ Signature(tags, c) = ExpectedSignature(c)
     /\ Bag([t \in primary |-> t.state]) = Bag(PrimaryStates(c))
     /\ \A t \in primary : t.classes = c.classes
-----------------------------------------------------------------------------
Init ==
  /\ input \in Comparisons
  /\ stage = "given"
  /\ receipt = Refused("")
  /\ drawing = {}

Compare ==
  /\ stage = "given"
  /\ receipt' = CompareArchitecture(base, head)
  /\ stage' = "compared"
  /\ UNCHANGED <<input, drawing>>

Draw ==
  /\ stage = "compared" /\ receipt.ok
  /\ drawing' = DeltaSvg(receipt.changes)
  /\ stage' = "drawn"
  /\ UNCHANGED <<input, receipt>>

Validate ==
  /\ stage = "drawn"
  /\ stage' = IF \A c \in receipt.changes : RowValid(drawing, c) THEN "valid" ELSE "invalid"
  /\ UNCHANGED <<input, receipt, drawing>>

Next == Compare \/ Draw \/ Validate

Spec == Init /\ [][Next]_vars
-----------------------------------------------------------------------------
(* The comparison and its drawing never fail their own validation: for any *)
(* two diagrams, what is drawn of a change is what its row says            *)
(* (buildDeltaSvg against expectedReviewTargetSignature and                *)
(* reviewPrimaryStates).                                                   *)
DrawingMatchesReceipt == stage # "invalid"

(* Reading a comparison backwards: what was added is removed, and every    *)
(* other change stays one of the same classes and status.                  *)
Backwards(c) ==
  [kind |-> c.kind, id |-> c.id, classes |-> c.classes,
   status |-> CASE c.status = "added" -> "removed" [] c.status = "removed" -> "added" [] OTHER -> c.status,
   baseLabel |-> c.headLabel, headLabel |-> c.baseLabel]

ComparesBothWays ==
  stage = "compared" =>
    LET back == CompareArchitecture(head, base)
    IN /\ back.ok = receipt.ok
       /\ back.changes = {Backwards(c) : c \in receipt.changes}

(* What the receipt compares: not the output path, the locale and the      *)
(* brands of components, nor the orders that mean nothing.                 *)
Compared(d) ==
  <<{<<x.id, x.semantic, Bag(x.sources), x.geometry>> : x \in {d.components[i] : i \in DOMAIN d.components}},
    {d.connections[i] : i \in DOMAIN d.connections},
    {<<x.id, Bag(x.wraps), x.pad>> : x \in {d.boundaries[i] : i \in DOMAIN d.boundaries}},
    d.repository, d.presentation>>

Silent == receipt.changes = {} /\ ~receipt.presentation /\ ~receipt.provenance

(* A receipt that reports nothing means that the two diagrams are the same *)
(* in all that the receipt compares; and equal diagrams have an empty one. *)
SilentMeansEqual ==
  stage = "compared" /\ receipt.ok => (Silent <=> Compared(base) = Compared(head))
=============================================================================
