------------------------------ MODULE RunPanel ------------------------------
(***************************************************************************)
(* The browser panel of the web UI on top of the runs of the server.       *)
(* Every click that selects a run starts a polling chain of its own; each  *)
(* chain reads the selected run when it sends its request and renders the  *)
(* answer when that arrives, whatever is selected by then.                 *)
(***************************************************************************)
EXTENDS RunLifecycle, TLC

CONSTANTS
  Chains,    \* bound on the polling chains under way in the browser
  PollsFail  \* may a request of a chain fail?

ASSUME PanelAssumption == PollsFail \in BOOLEAN

VARIABLES
  selected,  \* state.runId
  poll,      \* what each polling chain is doing
  draft,     \* state.generatorDraftRunId
  asked,     \* the request to run the draft: nothing, "asked", or "posted" with its run
  trials,    \* the runs of a draft: RunState.TestcaseDirectory is set
  verdict    \* what the draft panel shows: nothing, that it waits, or how a run ended

browser == <<selected, poll, draft, asked, trials, verdict>>
vars == <<server, browser>>

Answers == [run : Runs, status : Statuses \ {"none"}]
Idle == [at |-> "off"]
Waiting == [at |-> "checking"]
Verdicts == {Idle, Waiting} \cup [at : {"ended"}, run : Runs, passed : BOOLEAN]

PanelTypeOK ==
  /\ TypeOK
  /\ selected \in {None} \cup Runs
  /\ poll \in [Chains -> {Idle, [at |-> "timer"]}
                         \cup [at : {"fetch"}, run : Runs] \cup [at : {"answer"}, answer : Answers]]
  /\ draft \in {None} \cup Runs
  /\ asked \in {Idle, [at |-> "asked"]} \cup [at : {"posted"}, run : Runs]
  /\ trials \subseteq Runs
  /\ verdict \in Verdicts

PanelInit ==
  /\ Init
  /\ selected = None
  /\ poll = [k \in Chains |-> Idle]
  /\ draft = None
  /\ asked = Idle
  /\ trials = {}
  /\ verdict = Idle
-----------------------------------------------------------------------------
(* Clicks.                                                                 *)

Select(r, k) ==
  /\ selected' = r
  /\ poll[k] = Idle
  /\ poll' = [poll EXCEPT ![k] = [at |-> "timer"]]

(* run: selected test cases are run; the answer is taken to come at once.  *)
Run(r, k) == Post(r) /\ Select(r, k) /\ UNCHANGED <<draft, asked, trials, verdict>>

(* runDraft: the panel waits.  A preflight enables the button again while  *)
(* another draft run is under way.  Bound: one such request at a time.     *)
RunDraft ==
  /\ asked = Idle
  /\ asked' = [at |-> "asked"]
  /\ verdict' = Waiting
  /\ UNCHANGED <<server, selected, poll, draft, trials>>

(* The server has run its preflight, and the run starts.                   *)
DraftPosted(r) ==
  /\ asked.at = "asked"
  /\ Post(r)
  /\ asked' = [at |-> "posted", run |-> r]
  /\ trials' = trials \cup {r}
  /\ UNCHANGED <<selected, poll, draft, verdict>>

(* Only the answer tells the browser which run it is.                      *)
DraftAnswered(k) ==
  /\ asked.at = "posted"
  /\ Select(asked.run, k)
  /\ draft' = asked.run
  /\ asked' = Idle
  /\ UNCHANGED <<server, trials, verdict>>

(* The draft fails that preflight, or the request or its answer is lost.   *)
DraftRefused ==
  /\ asked # Idle
  /\ asked' = Idle
  /\ verdict' = Idle
  /\ UNCHANGED <<server, selected, poll, draft, trials>>

(* Another draft is put into the editor: the panel starts afresh.          *)
FreshDraft ==
  /\ draft' = None
  /\ verdict' = Idle
  /\ UNCHANGED <<server, selected, poll, asked, trials>>

(* A run of the history list is opened.                                    *)
Open(r, k) == history[r] # None /\ Select(r, k) /\ UNCHANGED <<server, draft, asked, trials, verdict>>
-----------------------------------------------------------------------------
(* poll: the run is read when the request is sent, the answer is rendered  *)
(* when it arrives.                                                        *)

Fetch(k) ==
  /\ poll[k] = [at |-> "timer"] /\ selected # None
  /\ poll' = [poll EXCEPT ![k] = [at |-> "fetch", run |-> selected]]
  /\ UNCHANGED <<server, selected, draft, asked, trials, verdict>>

(* GET /api/runs/{runId}: from memory, else from the history.              *)
Snapshot(k) ==
  /\ poll[k].at = "fetch"
  /\ LET r == poll[k].run IN
       /\ r \in known \/ history[r] # None
       /\ poll' = [poll EXCEPT ![k] =
            [at |-> "answer",
             answer |-> [run |-> r, status |-> IF r \in known THEN status[r] ELSE history[r]]]]
  /\ UNCHANGED <<server, selected, draft, asked, trials, verdict>>

(* The request fails or finds nothing: the chain ends.                     *)
PollFails(k) ==
  /\ PollsFail
  /\ poll[k].at = "fetch"
  /\ poll' = [poll EXCEPT ![k] = Idle]
  /\ UNCHANGED <<server, selected, draft, asked, trials, verdict>>

Verdict(answer) == [at |-> "ended", run |-> answer.run, passed |-> answer.status = "passed"]

(* Mutant: the draft panel takes any answer for its own.                   *)
RenderAnyRun(k) ==
  /\ poll[k].at = "answer"
  /\ LET answer == poll[k].answer
         done == answer.status # "running"
     IN  /\ poll' = [poll EXCEPT ![k] = IF done THEN Idle ELSE [at |-> "timer"]]
         /\ verdict' = IF done /\ draft # None THEN Verdict(answer) ELSE verdict
  /\ UNCHANGED <<server, selected, draft, asked, trials>>

Render(k) ==
  /\ poll[k].at = "answer"
  /\ LET answer == poll[k].answer
         done == answer.status # "running"
     IN  /\ poll' = [poll EXCEPT ![k] = IF done THEN Idle ELSE [at |-> "timer"]]
         /\ verdict' = IF done /\ draft = answer.run THEN Verdict(answer) ELSE verdict
  /\ UNCHANGED <<server, selected, draft, asked, trials>>
-----------------------------------------------------------------------------
Browse(k) == Fetch(k) \/ Snapshot(k) \/ Render(k)

Click == RunDraft \/ FreshDraft \/ \E r \in Runs, k \in Chains : Run(r, k) \/ Open(r, k)

AnswerDraft == (\E r \in Runs : DraftPosted(r)) \/ (\E k \in Chains : DraftAnswered(k))

(* A stop that comes too early changes nothing the browser sees.           *)
PanelNext ==
  \/ \E r \in Runs : (Serve(r) \/ Cancel(r)) /\ UNCHANGED browser
  \/ Crash /\ UNCHANGED browser
  \/ Click \/ AnswerDraft \/ DraftRefused
  \/ \E k \in Chains : Browse(k) \/ PollFails(k)

PanelSpec == PanelInit /\ [][PanelNext]_vars

(* As on the server; timers fire and requests are answered.                *)
FairPanelSpec ==
  /\ PanelSpec
  /\ \A r \in Runs : WF_vars(Serve(r) /\ UNCHANGED browser)
  /\ \A k \in Chains : WF_vars(Browse(k))
  /\ WF_vars(AnswerDraft)

(* Nothing tells one run from another, or one polling chain.               *)
Interchangeable == Permutations(Runs) \cup Permutations(Chains)
-----------------------------------------------------------------------------
(* Properties.                                                             *)

(* The draft panel tells the truth about a run of the draft, whatever      *)
(* other runs the polling chains bring late answers of: green only if the  *)
(* runner of that trial exited with 0, red only if that trial did not pass. *)
DraftVerdictIsTrue ==
  verdict.at = "ended" =>
    /\ verdict.run \in trials
    /\ status[verdict.run] \in Terminal
    /\ IF verdict.passed THEN code[verdict.run] = 0 ELSE status[verdict.run] # "passed"

(* The verdict of a draft run appears in the draft panel, unless the       *)
(* server dies.                                                            *)
DraftResultShown ==
  verdict = Waiting /\ asked = Idle /\ status[draft] \in Terminal ~>
    verdict # Waiting \/ asked # Idle \/ draft \notin known
=============================================================================
