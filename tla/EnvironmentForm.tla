--------------------------- MODULE EnvironmentForm ---------------------------
(***************************************************************************)
(* The environment settings: a tab shows the variables of the selected     *)
(* project in a form, collects what is typed, and saves it to the .env     *)
(* file of the project.  Switching the project loads its test cases and    *)
(* then its variables; loads overlap and are answered in any order.        *)
(***************************************************************************)
EXTENDS Naturals, FiniteSets

CONSTANTS
  Projects,
  Loads,    \* bound: loads under way
  Failing,  \* may the load of the test cases fail?
  Patient,  \* does the user leave the form alone while anything is under way?
  None

VARIABLES
  project,  \* the project selected in the tab
  form,     \* the project whose variables the form shows
  changes,  \* state.environmentChanges, as the projects in whose form they were typed
  load,     \* the loads under way: of test cases, to be followed by one of variables, or of variables
  save,     \* the request to save, if any
  env       \* what was saved to the .env of each project, as the projects it was typed for

vars == <<project, form, changes, load, save, env>>

Idle == [at |-> "idle"]
Quiet == save = Idle /\ \A l \in Loads : load[l] = Idle

Init ==
  /\ project \in Projects
  /\ form = None
  /\ changes = {}
  /\ load = [l \in Loads |-> Idle]
  /\ save = Idle
  /\ env = [p \in Projects |-> {}]

(* loadEnvironment: what was typed is dropped before the request is sent.  *)
LoadForm(l) ==
  /\ changes' = {}
  /\ load' = [load EXCEPT ![l] = [at |-> "variables", project |-> project]]

(* The environment view is opened.                                         *)
Open(l) ==
  /\ load[l] = Idle
  /\ LoadForm(l)
  /\ UNCHANGED <<project, form, save, env>>

(* The form is rendered whichever project is selected by now.              *)
Show(l) ==
  /\ load[l].at = "variables"
  /\ form' = load[l].project
  /\ load' = [load EXCEPT ![l] = Idle]
  /\ UNCHANGED <<project, changes, save, env>>

SwitchProject(l, p) ==
  /\ p # project
  /\ load[l] = Idle
  /\ project' = p
  /\ load' = [load EXCEPT ![l] = [at |-> "tests"]]
  /\ UNCHANGED <<form, changes, save, env>>

(* Only the answer of the test cases has the variables loaded.             *)
TestsShown(l) ==
  /\ load[l].at = "tests"
  /\ LoadForm(l)
  /\ UNCHANGED <<project, form, save, env>>

TestsFail(l) ==
  /\ Failing
  /\ load[l].at = "tests"
  /\ load' = [load EXCEPT ![l] = Idle]
  /\ UNCHANGED <<project, form, changes, save, env>>

Type ==
  /\ form # None
  /\ Patient => Quiet
  /\ changes' = changes \cup {form}
  /\ UNCHANGED <<project, form, load, save, env>>

ClickSave ==
  /\ changes # {} /\ save = Idle
  /\ Patient => Quiet
  /\ save' = [at |-> "sent", project |-> project, changes |-> changes]
  /\ UNCHANGED <<project, form, changes, load, env>>

(* PUT environment: WriteEnvironmentOverrides.                             *)
Save ==
  /\ save.at = "sent"
  /\ env' = [env EXCEPT ![save.project] = @ \cup save.changes]
  /\ save' = [at |-> "answered"]
  /\ UNCHANGED <<project, form, changes, load>>

Saved(l) ==
  /\ save.at = "answered"
  /\ load[l] = Idle
  /\ LoadForm(l)
  /\ save' = Idle
  /\ UNCHANGED <<project, form, env>>

Next ==
  \/ Type \/ ClickSave \/ Save
  \/ \E l \in Loads :
       \/ Open(l) \/ Show(l) \/ TestsShown(l) \/ TestsFail(l) \/ Saved(l)
       \/ \E p \in Projects : SwitchProject(l, p)

Spec == Init /\ [][Next]_vars
-----------------------------------------------------------------------------
(* Properties.                                                             *)

(* A value typed into the form of a project is saved to the .env of that   *)
(* project.                                                                *)
SavedWhereTyped == \A p \in Projects : env[p] \subseteq {p}
=============================================================================
