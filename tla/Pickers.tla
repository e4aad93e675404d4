------------------------------- MODULE Pickers -------------------------------
(***************************************************************************)
(* The two lists of a browser tab from which the user picks in an order:   *)
(* the test cases of the selected project, which are loaded when the       *)
(* project is switched, after a draft is saved, and every two seconds; and *)
(* the endpoints of the source that was analysed last.  Loads overlap and  *)
(* are answered in any order; each restores the selection it saw when it   *)
(* was sent.                                                               *)
(***************************************************************************)
EXTENDS Naturals, FiniteSets, SequencesExt

CONSTANTS
  Projects,
  Files,      \* Files[p]: the sets of test cases that the files of p hold over time
  Loads,      \* bound: loads of the list under way
  Endpoints   \* Endpoints[s]: the endpoints found in source s

(* A directory has finitely many test cases.                               *)
PickersAssumption == \A p \in Projects : \A ids \in Files[p] : IsFiniteSet(ids)

VARIABLES
  files,      \* the test cases each project has on disk
  project,    \* the project selected in the tab
  tests,      \* state.tests, and the signature made of it
  picked,     \* state.selected and state.selectionOrder
  load,       \* the loads of the list under way
  analysis,   \* the request to analyse a source: nothing, or its answer to come
  analyzed,   \* state.generatorAnalysis: the endpoints listed
  chosen      \* state.selectedEndpoints and state.selectedEndpointOrder

list == <<project, tests, picked, load>>
generator == <<analysis, analyzed, chosen>>
vars == <<files, list, generator>>

Idle == [at |-> "idle"]
Nothing == [set |-> {}, order |-> <<>>]

Init ==
  /\ files \in {f \in [Projects -> UNION {Files[p] : p \in Projects}] : \A p \in Projects : f[p] \in Files[p]}
  /\ project \in Projects
  /\ tests = {} /\ picked = Nothing
  /\ load = [l \in Loads |-> Idle]
  /\ analysis = Idle /\ analyzed = {} /\ chosen = Nothing
-----------------------------------------------------------------------------
(* filter of a list: what of it is in a set, in the order it has.          *)
Only(order, ids) == FoldLeft(LAMBDA kept, id : IF id \in ids THEN Append(kept, id) ELSE kept, <<>>, order)

(* Mutant: what is taken back stays in the order.                          *)
PickedForGood(pick, id, checked) ==
  IF checked THEN [set |-> pick.set \cup {id},
                   order |-> IF Contains(pick.order, id) THEN pick.order ELSE Append(pick.order, id)]
  ELSE [set |-> pick.set \ {id}, order |-> pick.order]

(* selectTest, selectEndpoint.                                             *)
Picked(pick, id, checked) ==
  IF checked THEN [set |-> pick.set \cup {id},
                   order |-> IF Contains(pick.order, id) THEN pick.order ELSE Append(pick.order, id)]
  ELSE [set |-> pick.set \ {id}, order |-> Only(pick.order, ToSet(pick.order) \ {id})]

(* A click on a test case, or on a folder: all its test cases in turn.     *)
PickedInTurn(pick, ids, checked) == FoldLeft(LAMBDA before, id : Picked(before, id, checked), pick, ids)
Pick(ids, checked) ==
  /\ picked' = PickedInTurn(picked, SetToSeq(ids), checked)
  /\ UNCHANGED <<files, project, tests, load, generator>>

Clear ==
  /\ picked' = Nothing
  /\ UNCHANGED <<files, project, tests, load, generator>>

Choose(id, checked) ==
  /\ chosen' = Picked(chosen, id, checked)
  /\ UNCHANGED <<files, list, analysis, analyzed>>
-----------------------------------------------------------------------------
(* loadTests: what was picked is read before the request is sent.          *)

Send(l, p, keep, onlyIfChanged) ==
  /\ load[l] = Idle
  /\ load' = [load EXCEPT ![l] = [at |-> "sent", project |-> p, onlyIfChanged |-> onlyIfChanged,
                                  keep |-> IF keep THEN picked ELSE Nothing]]
  /\ UNCHANGED <<files, tests, picked, generator>>

SwitchProject(l, p) == project' = p /\ Send(l, p, FALSE, FALSE)
LoadAgain(l) == project' = project /\ Send(l, project, TRUE, FALSE)
Refresh(l) == project' = project /\ Send(l, project, TRUE, TRUE)

(* The server reads the files.                                             *)
Answer(l) ==
  /\ load[l].at = "sent"
  /\ load' = [load EXCEPT ![l] = [at |-> "answered", tests |-> files[@.project],
                                  onlyIfChanged |-> @.onlyIfChanged, keep |-> @.keep]]
  /\ UNCHANGED <<files, project, tests, picked, generator>>

Fails(l) ==
  /\ load[l].at = "sent"
  /\ load' = [load EXCEPT ![l] = Idle]
  /\ UNCHANGED <<files, project, tests, picked, generator>>

(* What is left of the selection in a new list.                            *)
Kept(keep, ids) == [set |-> keep.set \cap ids, order |-> Only(keep.order, keep.set \cap ids)]

(* The answer is shown, whichever project is selected by now.              *)
ShowTests(l) ==
  /\ load[l].at = "answered"
  /\ IF load[l].tests = tests /\ load[l].onlyIfChanged
       THEN UNCHANGED <<tests, picked>>
       ELSE /\ tests' = load[l].tests
            /\ picked' = Kept(load[l].keep, load[l].tests)
  /\ load' = [load EXCEPT ![l] = Idle]
  /\ UNCHANGED <<files, project, generator>>

(* Somebody edits the test cases of a project.                             *)
EditFiles(p, ids) ==
  /\ ids \in Files[p] \ {files[p]}
  /\ files' = [files EXCEPT ![p] = ids]
  /\ UNCHANGED <<list, generator>>
-----------------------------------------------------------------------------
(* analyzeSource: the list and the choice are emptied at once.             *)

Analyze(s) ==
  /\ analysis = Idle
  /\ analysis' = [at |-> "sent", source |-> s]
  /\ analyzed' = {} /\ chosen' = Nothing
  /\ UNCHANGED <<files, list>>

ShowEndpoints ==
  /\ analysis # Idle
  /\ \/ analyzed' = Endpoints[analysis.source]
     \/ analyzed' = {}
  /\ analysis' = Idle
  /\ UNCHANGED <<files, list, chosen>>
-----------------------------------------------------------------------------
Users ==
  \/ \E l \in Loads : LoadAgain(l) \/ \E p \in Projects : SwitchProject(l, p)
  \/ \E checked \in BOOLEAN :
       \/ \E ids \in {{t} : t \in tests} \cup {tests} : Pick(ids, checked)
       \/ \E e \in analyzed : Choose(e, checked)
  \/ Clear
  \/ \E s \in DOMAIN Endpoints : Analyze(s)
  \/ \E p \in Projects : \E ids \in Files[p] : EditFiles(p, ids)

Loading(l) == Refresh(l) \/ Answer(l) \/ ShowTests(l)

Next == Users \/ ShowEndpoints \/ \E l \in Loads : Loading(l) \/ Fails(l)

Spec == Init /\ [][Next]_vars

(* The timer of the refresh never stops; requests are answered, and not    *)
(* all of them fail.                                                       *)
FairSpec ==
  /\ Spec
  /\ \A l \in Loads : WF_vars(Refresh(l)) /\ SF_vars(Answer(l)) /\ WF_vars(ShowTests(l))
-----------------------------------------------------------------------------
(* Properties.                                                             *)

PickInOrder(pick, ids) == pick.set \subseteq ids /\ IsInjective(pick.order) /\ ToSet(pick.order) = pick.set

(* Whatever loads, refreshes and analyses overlap with the clicks, the     *)
(* order of what is picked names exactly what is picked, once each, and    *)
(* nothing that is not listed: a chain runs what the user sees numbered.   *)
PicksAreListed == PickInOrder(picked, tests) /\ PickInOrder(chosen, analyzed)

(* Once the user leaves the project and nobody edits its files, the list   *)
(* comes to show the test cases of that project and stays so, whatever     *)
(* late answers of other projects or failed loads there were.              *)
ListConverges ==
  <>[][UNCHANGED <<files, project>>]_<<files, project>> => <>[](tests = files[project])
=============================================================================
