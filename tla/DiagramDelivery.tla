--------------------------- MODULE DiagramDelivery ---------------------------
(***************************************************************************)
(* A diagram requested in the browser: an AI writes a specification of it, *)
(* Archify checks and renders it, and what it objects to is repaired, by   *)
(* rule where the server knows one and by the AI otherwise, until it       *)
(* passes or the rounds are used up.  A repair by the AI counts only if    *)
(* no node and no relation of the first specification got lost.            *)
(***************************************************************************)
EXTENDS Naturals, FiniteSets

CONSTANTS
  Nodes,
  Edges,           \* the edges an AI may draw
  Ends,            \* Ends[e]: the nodes an edge joins
  MaximumRepairs

DeliveryAssumption ==
  /\ Ends \in [Edges -> Nodes \X Nodes]
  /\ MaximumRepairs \in Nat

VARIABLES
  at,      \* where the request is
  rounds,  \* repairCount
  first,   \* the semantics of the first specification: DiagramSemantics
  origin,  \* history: the first specification itself
  spec,    \* the specification file
  button   \* can the user ask for a diagram?

vars == <<at, rounds, first, origin, spec, button>>

(* A specification: its nodes and edges, the edges whose route it fixes,   *)
(* whether its components have sublabels, and what else is wrong with it:  *)
(* nothing, its layout, or more than any quality profile lets pass.        *)
Specs ==
  {s \in [nodes : SUBSET Nodes, edges : SUBSET Edges, fixed : SUBSET Edges, sublabels : BOOLEAN,
          fault : {"none", "layout", "invalid"}] : s.fixed \subseteq s.edges}

Semantics(s) == [nodes |-> s.nodes, relations |-> {Ends[e] : e \in s.edges}]

Nothing == [nodes |-> {}, relations |-> {}]

Init ==
  /\ at = "idle" /\ rounds = 0 /\ button = TRUE
  /\ first = Nothing
  /\ origin \in {s \in Specs : s.nodes = Nodes}
  /\ spec = origin

(* The button is disabled until the answer; the AI writes a specification. *)
Request ==
  /\ at = "idle" /\ button
  /\ at' = "check"
  /\ first' = Semantics(spec)
  /\ button' = FALSE
  /\ UNCHANGED <<rounds, origin, spec>>
-----------------------------------------------------------------------------
(* archify deliver.                                                        *)

(* What quality "showcase" objects to.  Archify decides which fixed routes *)
(* conflict; here all of them do.                                          *)
RouteConflicts(s) == s.fixed
Unreadable(s) == s.sublabels
Passes(s) == RouteConflicts(s) = {} /\ ~Unreadable(s) /\ s.fault = "none"
PassesStandard(s) == RouteConflicts(s) = {} /\ s.fault # "invalid"

Round(next) == rounds' = rounds + 1 /\ at' = next

(* TryApplyArchifyWorkflowRouteRepair, TryApplyArchifyReadabilityRepair:   *)
(* routes become automatic, else all sublabels go.                         *)
RepairByRule ==
  /\ at = "check" /\ ~Passes(spec) /\ rounds < MaximumRepairs
  /\ \/ /\ RouteConflicts(spec) # {}
        /\ spec' = [spec EXCEPT !.fixed = {}]
     \/ /\ RouteConflicts(spec) = {} /\ Unreadable(spec)
        /\ spec' = [spec EXCEPT !.sublabels = FALSE]
  /\ Round("check")
  /\ UNCHANGED <<first, origin, button>>

(* Mutant: only the nodes are compared.                                    *)
PreservesNodes(s) == first.nodes \subseteq Semantics(s).nodes

(* PreservesDiagramSemantics.                                              *)
Preserves(s) ==
  /\ first.nodes \subseteq Semantics(s).nodes
  /\ first.relations \subseteq Semantics(s).relations

(* The AI answers with any specification; one that lost something is       *)
(* dropped, and the round is used up.                                      *)
RepairByAI ==
  /\ at = "check" /\ rounds < MaximumRepairs
  /\ RouteConflicts(spec) = {} /\ ~Unreadable(spec) /\ spec.fault # "none"
  /\ \E s \in Specs : spec' = IF Preserves(s) THEN s ELSE spec
  /\ Round("check")
  /\ UNCHANGED <<first, origin, button>>

AIFails ==
  /\ at = "check" /\ rounds < MaximumRepairs
  /\ RouteConflicts(spec) = {} /\ ~Unreadable(spec) /\ spec.fault # "none"
  /\ at' = "refused"
  /\ UNCHANGED <<rounds, first, origin, spec, button>>

(* Rendered with quality "showcase", or after the last round "standard".   *)
Deliver ==
  /\ at = "check"
  /\ \/ Passes(spec) /\ at' = "delivered"
     \/ /\ ~Passes(spec) /\ rounds = MaximumRepairs
        /\ at' = IF PassesStandard(spec) THEN "delivered" ELSE "refused"
  /\ UNCHANGED <<rounds, first, origin, spec, button>>

(* architecture.js: the answer is shown and the button comes back.         *)
Show ==
  /\ at \in {"delivered", "refused"} /\ ~button
  /\ button' = TRUE
  /\ UNCHANGED <<at, rounds, first, origin, spec>>

Next == Request \/ RepairByRule \/ RepairByAI \/ AIFails \/ Deliver \/ Show

Spec == Init /\ [][Next]_vars
-----------------------------------------------------------------------------
(* Properties.                                                             *)

(* However often and in whatever order rules and AI rewrite the file, what *)
(* is delivered has every node, joins every two nodes the first            *)
(* specification joined, and took no more rounds than allowed.             *)
DeliveredCovers ==
  at = "delivered" =>
    /\ origin.nodes \subseteq spec.nodes
    /\ \A e \in origin.edges : \E d \in spec.edges : Ends[d] = Ends[e]
    /\ rounds <= MaximumRepairs

(* Nothing the first specification tells is lost in repair: each of its    *)
(* edges is still there, by itself or as another edge between its nodes.   *)
DeliveredCoversAll ==
  at = "delivered" =>
    \A p \in Nodes \X Nodes :
      Cardinality({e \in spec.edges : Ends[e] = p}) >= Cardinality({e \in origin.edges : Ends[e] = p})
=============================================================================
