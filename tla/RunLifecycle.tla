---------------------------- MODULE RunLifecycle ----------------------------
(***************************************************************************)
(* The runs of the web server.  A RunState is kept per run: a task starts  *)
(* a runner process, its output lines arrive by callbacks, its exit or the *)
(* user's stop gives the run its verdict, which is saved to the history.   *)
(* Every method of RunState holds its lock, so each is one step; what lies *)
(* between two of them is not.                                             *)
(***************************************************************************)
EXTENDS Naturals, FiniteSets

CONSTANTS
  Runs,    \* the runs that may be posted
  None

ASSUME RunsAssumption == None \notin Runs /\ None \notin {0, 1, 9}

VARIABLES
  status,    \* RunState.Status; "none" before the run is posted
  process,   \* the runner process of the run
  code,      \* its exit code; 9 when it was killed
  report,    \* the report line: "unwritten", "written", "seen" (ReportPath is set)
  history,   \* the status saved in the history file, or None
  known,     \* the runs in the dictionary of the server
  refused    \* the runs that went on after a stop that was refused

server == <<status, process, code, report, history, known, refused>>

Terminal == {"passed", "failed", "cancelled"}
Statuses == {"none", "running"} \cup Terminal

TypeOK ==
  /\ status \in [Runs -> Statuses]
  /\ process \in [Runs -> {"none", "attached", "running", "exited", "unsaved", "gone"}]
  /\ code \in [Runs -> {None, 0, 1, 9}]
  /\ report \in [Runs -> {"unwritten", "written", "seen"}]
  /\ history \in [Runs -> {None} \cup Terminal]
  /\ known \subseteq Runs
  /\ refused \subseteq Runs

Init ==
  /\ status = [r \in Runs |-> "none"]
  /\ process = [r \in Runs |-> "none"]
  /\ code = [r \in Runs |-> None]
  /\ report = [r \in Runs |-> "unwritten"]
  /\ history = [r \in Runs |-> None]
  /\ known = {}
  /\ refused = {}
-----------------------------------------------------------------------------
(* A run is posted: its state enters the dictionary and its task starts.   *)
Post(r) ==
  /\ status[r] = "none"
  /\ status' = [status EXCEPT ![r] = "running"]
  /\ known' = known \cup {r}
  /\ UNCHANGED <<process, code, report, history, refused>>

(* RunAsync and the process.                                               *)

Attach(r) ==
  /\ r \in known /\ status[r] = "running" /\ process[r] = "none"
  /\ process' = [process EXCEPT ![r] = "attached"]
  /\ UNCHANGED <<status, code, report, history, known, refused>>

StartProcess(r) ==
  /\ r \in known /\ process[r] = "attached"
  /\ process' = [process EXCEPT ![r] = "running"]
  /\ UNCHANGED <<status, code, report, history, known, refused>>

(* The runner prints where its report is, then exits; a runner that stops  *)
(* at the preflight exits without a report, with a code that is not 0.     *)
PrintReport(r) ==
  /\ process[r] = "running" /\ report[r] = "unwritten"
  /\ report' = [report EXCEPT ![r] = "written"]
  /\ UNCHANGED <<status, process, code, history, known, refused>>

ExitProcess(r) ==
  /\ process[r] = "running"
  /\ \E c \in {0, 1} :
       /\ c = 0 => report[r] # "unwritten"
       /\ code' = [code EXCEPT ![r] = c]
  /\ process' = [process EXCEPT ![r] = "exited"]
  /\ UNCHANGED <<status, report, history, known, refused>>

(* AddLine, called by OutputDataReceived.                                  *)
AddLine(r) ==
  /\ r \in known /\ report[r] = "written"
  /\ process[r] # "gone"
  /\ report' = [report EXCEPT ![r] = "seen"]
  /\ UNCHANGED <<status, process, code, history, known, refused>>

(* Mutant: the exit of the process is enough, its output may still be on   *)
(* the way.                                                                *)
ExitedEarly(r) == r \in known /\ process[r] = "exited"

(* WaitForExitAsync returns: the process has exited and its redirected     *)
(* output has been handed to the callbacks.                                *)
Exited(r) == r \in known /\ process[r] = "exited" /\ report[r] # "written"

(* Mutant: a status the browser does not know.                             *)
FailAsError(r) ==
  /\ status' = [status EXCEPT ![r] = "error"]
  /\ history' \in {history, [history EXCEPT ![r] = "failed"]}

(* Fail: whatever the status was, the run is failed now; its own Save may  *)
(* fail too.                                                               *)
Fail(r) ==
  /\ status' = [status EXCEPT ![r] = "failed"]
  /\ history' \in {history, [history EXCEPT ![r] = "failed"]}

(* Mutant: nobody catches what process.Start throws.                       *)
CannotStartUncaught(r) ==
  /\ r \in known /\ process[r] = "attached"
  /\ process' = [process EXCEPT ![r] = "gone"]
  /\ UNCHANGED <<status, history, code, report, known, refused>>

(* process.Start throws.                                                   *)
CannotStart(r) ==
  /\ r \in known /\ process[r] = "attached"
  /\ process' = [process EXCEPT ![r] = "gone"]
  /\ Fail(r)
  /\ UNCHANGED <<code, report, known, refused>>

(* Mutant: the verdict is given without a look at a stop.                  *)
CompleteOverrides(r) ==
  /\ Exited(r)
  /\ status' = [status EXCEPT ![r] = IF code[r] = 0 THEN "passed" ELSE "failed"]
  /\ \/ process' = [process EXCEPT ![r] = "gone"] /\ history' = [history EXCEPT ![r] = status'[r]]
     \/ process' = [process EXCEPT ![r] = "unsaved"] /\ UNCHANGED history
  /\ UNCHANGED <<code, report, known, refused>>

(* Complete gives the verdict, then saves it.                              *)
Complete(r) ==
  /\ Exited(r)
  /\ status[r] # "cancelled"
  /\ status' = [status EXCEPT ![r] = IF code[r] = 0 THEN "passed" ELSE "failed"]
  /\ \/ process' = [process EXCEPT ![r] = "gone"] /\ history' = [history EXCEPT ![r] = status'[r]]
     \/ process' = [process EXCEPT ![r] = "unsaved"] /\ UNCHANGED history
  /\ UNCHANGED <<code, report, known, refused>>

(* The save threw: RunAsync catches it and calls Fail, and a run whose     *)
(* runner succeeded is failed after all.                                   *)
SaveFailed(r) ==
  /\ r \in known /\ process[r] = "unsaved"
  /\ process' = [process EXCEPT ![r] = "gone"]
  /\ Fail(r)
  /\ UNCHANGED <<code, report, known, refused>>

(* Complete of a stopped run does nothing.                                 *)
CompleteStopped(r) ==
  /\ Exited(r)
  /\ status[r] = "cancelled"
  /\ process' = [process EXCEPT ![r] = "gone"]
  /\ UNCHANGED <<status, code, report, history, known, refused>>
-----------------------------------------------------------------------------
(* DELETE /api/runs/{runId}.                                               *)

(* Stop: the process tree is killed and the run is cancelled.  The save    *)
(* comes last and may fail.                                                *)
Cancel(r) ==
  /\ r \in known /\ status[r] = "running" /\ process[r] = "running"
  /\ process' = [process EXCEPT ![r] = "exited"]
  /\ code' = [code EXCEPT ![r] = 9]
  /\ status' = [status EXCEPT ![r] = "cancelled"]
  /\ history' \in {history, [history EXCEPT ![r] = "cancelled"]}
  /\ UNCHANGED <<report, known, refused>>

(* Stop of a run whose process is not there yet: not found before Attach,  *)
(* an exception of HasExited between Attach and Start.  The run goes on.   *)
CancelTooEarly(r) ==
  /\ r \in known /\ status[r] = "running" /\ process[r] \in {"none", "attached"}
  /\ refused' = refused \cup {r}
  /\ UNCHANGED <<status, process, code, report, history, known>>

(* The server process dies: the dictionary is lost, the history stays, and *)
(* no callback of a run is called any more.                                *)
Crash ==
  /\ known # {}
  /\ known' = {}
  /\ UNCHANGED <<status, process, code, report, history, refused>>
-----------------------------------------------------------------------------
Serve(r) ==
  \/ Attach(r) \/ StartProcess(r) \/ CannotStart(r)
  \/ PrintReport(r) \/ ExitProcess(r) \/ AddLine(r)
  \/ Complete(r) \/ SaveFailed(r) \/ CompleteStopped(r)

Next ==
  \/ \E r \in Runs : Post(r) \/ Serve(r) \/ Cancel(r) \/ CancelTooEarly(r)
  \/ Crash

Spec == Init /\ [][Next]_server

(* The task of a run goes on, and a runner prints its report and ends:     *)
(* every wait of it has a timeout.                                         *)
Fairness == \A r \in Runs : WF_server(Serve(r))

FairSpec == Spec /\ Fairness
-----------------------------------------------------------------------------
(* Properties.                                                             *)

(* A run is shown as passed only if its runner exited with 0 and the path  *)
(* of its report has arrived, whatever the order of exit, output, stop and *)
(* save; a cancelled run has been killed.                                  *)
VerdictIsTrue ==
  \A r \in Runs :
    /\ status[r] = "passed" => code[r] = 0 /\ report[r] = "seen"
    /\ status[r] = "cancelled" => code[r] = 9

(* A verdict is not taken back, but for one case: a run whose result could *)
(* not be saved becomes failed.  A stopped run stays cancelled, and no     *)
(* finished run becomes passed.                                            *)
VerdictStays ==
  [][\A r \in Runs : status[r] \in Terminal =>
       \/ status'[r] = status[r]
       \/ process[r] = "unsaved" /\ status'[r] = "failed"]_server

(* The history never tells another verdict than the server gave, also for  *)
(* runs whose save failed and runs the server has forgotten.               *)
HistoryAgrees == \A r \in Runs : history[r] # None => history[r] = status[r]

(* Every posted run gets a verdict and gives its process back, unless the  *)
(* server dies.                                                            *)
RunGetsVerdict ==
  \A r \in Runs : status[r] = "running" ~> r \notin known \/ (status[r] \in Terminal /\ process[r] = "gone")

(* A run that is running can be stopped.                                   *)
StopIsHonoured == refused = {}
=============================================================================
