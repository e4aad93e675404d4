------------------------------ MODULE HttpStub ------------------------------
(***************************************************************************)
(* The HTTP stub of a test case.  Steps of the case configure, reset,      *)
(* inspect, stop and start it, one after the other, while the program      *)
(* under test sends it requests, which are handled side by side.           *)
(***************************************************************************)
EXTENDS Naturals, Sequences, FiniteSets

CONSTANTS
  Requests,  \* the requests the program under test sends
  Target,    \* the method and path of each
  MaxSteps,  \* bound on the steps of the case
  None

VARIABLES
  running,   \* app is not null
  rules,     \* the keys that have a rule
  captured,  \* requests: the queue of captured requests
  place,     \* where each request is
  inspect,   \* the step that inspects: nothing, or [target, count, matches, due]
             \* with the places of the queue that match
  stopping,  \* app.StopAsync is under way
  cleared,   \* history: the requests a reset removed
  steps      \* how many steps have run

stub == <<running, rules, captured, cleared>>
vars == <<stub, place, inspect, stopping, steps>>

Targets == {Target[r] : r \in Requests}
Answered == {"served", "notFound"}

Init ==
  /\ running = FALSE /\ rules = {} /\ captured = <<>> /\ cleared = {}
  /\ place = [r \in Requests |-> "unsent"]
  /\ inspect = None /\ stopping = FALSE
  /\ steps = 0
-----------------------------------------------------------------------------
(* The steps of the case; the next one waits for the one before.           *)

Run == inspect = None /\ ~stopping /\ steps < MaxSteps /\ steps' = steps + 1

Start ==
  /\ Run /\ ~running
  /\ running' = TRUE
  /\ UNCHANGED <<rules, captured, cleared, place, inspect, stopping>>

Configure(t) ==
  /\ Run /\ running
  /\ rules' = rules \cup {t}
  /\ UNCHANGED <<running, captured, cleared, place, inspect, stopping>>

Reset ==
  /\ Run
  /\ rules' = {} /\ captured' = <<>>
  /\ cleared' = cleared \cup {captured[i] : i \in DOMAIN captured}
  /\ UNCHANGED <<running, place, inspect, stopping>>

(* No request is taken any more, those under way have a while to end; what *)
(* has not ended by then is aborted.  Rules and captured requests stay.    *)
Stop ==
  /\ Run /\ running
  /\ stopping' = TRUE
  /\ UNCHANGED <<stub, place, inspect>>

UnderWay == {"sent", "captured", "delayed"}

Stopped ==
  /\ stopping
  /\ running' = FALSE /\ stopping' = FALSE
  /\ place' = [r \in Requests |-> IF place[r] \in UnderWay THEN "aborted" ELSE place[r]]
  /\ UNCHANGED <<rules, captured, cleared, inspect, steps>>

(* InspectAsync: what matches is looked up until there is as much as       *)
(* expected; a request that comes during the last delay is not counted.    *)

Match(t) == {i \in DOMAIN captured : Target[captured[i]] = t}

Inspect(t, n) ==
  /\ Run /\ running
  /\ inspect' = [target |-> t, count |-> n, matches |-> Match(t), due |-> FALSE]
  /\ UNCHANGED <<stub, place, stopping>>

Poll ==
  /\ inspect # None /\ ~inspect.due /\ Cardinality(inspect.matches) # inspect.count
  /\ inspect' = [inspect EXCEPT !.matches = Match(inspect.target)]
  /\ UNCHANGED <<stub, place, steps, stopping>>

Deadline ==
  /\ inspect # None /\ ~inspect.due
  /\ inspect' = [inspect EXCEPT !.due = TRUE]
  /\ UNCHANGED <<stub, place, steps, stopping>>

Inspected ==
  /\ inspect # None /\ (inspect.due \/ Cardinality(inspect.matches) = inspect.count)
  /\ inspect' = None
  /\ UNCHANGED <<stub, place, steps, stopping>>
-----------------------------------------------------------------------------
(* HandleAsync.                                                            *)

Send(r) ==
  /\ running /\ ~stopping /\ place[r] = "unsent"
  /\ place' = [place EXCEPT ![r] = "sent"]
  /\ UNCHANGED <<stub, inspect, steps, stopping>>

(* The body has been read: the request is captured, and only then answered. *)
Capture(r) ==
  /\ place[r] = "sent"
  /\ captured' = Append(captured, r)
  /\ place' = [place EXCEPT ![r] = "captured"]
  /\ UNCHANGED <<running, rules, cleared, inspect, steps, stopping>>

(* Mutant: the answer is sent first.                                       *)
LookUpFirst(r) ==
  /\ place[r] \in {"sent", "captured"}
  /\ place' = [place EXCEPT ![r] = IF Target[r] \in rules THEN "delayed" ELSE "notFound"]
  /\ UNCHANGED <<stub, inspect, steps, stopping>>

LookUp(r) ==
  /\ place[r] = "captured"
  /\ place' = [place EXCEPT ![r] = IF Target[r] \in rules THEN "delayed" ELSE "notFound"]
  /\ UNCHANGED <<stub, inspect, steps, stopping>>

Serve(r) ==
  /\ place[r] = "delayed"
  /\ place' = [place EXCEPT ![r] = "served"]
  /\ UNCHANGED <<stub, inspect, steps, stopping>>

Next ==
  \/ Start \/ Reset \/ Stop \/ Stopped \/ Poll \/ Deadline \/ Inspected
  \/ \E t \in Targets : Configure(t) \/ \E n \in 0 .. Cardinality(Requests) : Inspect(t, n)
  \/ \E r \in Requests : Send(r) \/ Capture(r) \/ LookUp(r) \/ Serve(r)

Spec == Init /\ [][Next]_vars
-----------------------------------------------------------------------------
(* A request the program under test has an answer to is one an inspection  *)
(* counts, once, unless a reset removed it; none is counted twice.         *)
AnsweredIsCounted ==
  /\ \A r \in Requests : place[r] \in Answered =>
       Cardinality({i \in DOMAIN captured : captured[i] = r}) = IF r \in cleared THEN 0 ELSE 1
  /\ inspect # None => \A i, j \in inspect.matches : captured[i] = captured[j] => i = j
=============================================================================
