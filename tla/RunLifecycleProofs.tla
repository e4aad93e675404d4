------------------------- MODULE RunLifecycleProofs -------------------------
(***************************************************************************)
(* Proofs about the runs of the web server and the panel of the browser,   *)
(* for any set of runs and any number of polling chains.                   *)
(*                                                                         *)
(* The properties are not inductive: whether a verdict may be given        *)
(* depends on where the process of the run stands.  RunInv adds what each  *)
(* stage of the process says about the status, the report and the history; *)
(* PanelInv what the answers on their way to the panel may still say.      *)
(***************************************************************************)
EXTENDS RunPanel, TLAPS

(* Before the process ends the run has no verdict; when it has ended only  *)
(* a stop can have given one.                                              *)
StageInv(r) ==
  /\ status[r] = "none" => process[r] = "none"
  /\ process[r] \in {"none", "attached", "running"} => status[r] \in {"none", "running"}
  /\ process[r] = "exited" => status[r] \in {"running", "cancelled"}
  /\ process[r] = "unsaved" => status[r] \in {"passed", "failed"}

(* A runner that succeeded has printed its report; the verdicts are true.  *)
CodeInv(r) ==
  /\ code[r] = 0 => report[r] # "unwritten"
  /\ status[r] = "passed" => code[r] = 0 /\ report[r] = "seen"
  /\ status[r] = "cancelled" => code[r] = 9

(* Nothing is saved before there is a verdict; what is saved is that one.  *)
SavedInv(r) ==
  /\ status[r] \in {"none", "running"} => history[r] = None
  /\ process[r] = "unsaved" => history[r] = None
  /\ history[r] # None => history[r] = status[r]

RunInv == \A r \in Runs : StageInv(r) /\ CodeInv(r) /\ SavedInv(r)

IInv == TypeOK /\ RunInv
-----------------------------------------------------------------------------
(* It holds at first.                                                      *)
LEMMA InitIInv == Init => IInv
BY RunsAssumption DEF Init, IInv, TypeOK, RunInv, StageInv, CodeInv, SavedInv, Statuses, Terminal

(* Every step keeps the types.                                             *)
LEMMA TypeStep == TypeOK /\ [Next]_server => TypeOK'
<1> USE DEF TypeOK, Statuses, Terminal
<1> SUFFICES ASSUME TypeOK, [Next]_server PROVE TypeOK'
  OBVIOUS
<1>1. ASSUME NEW r \in Runs, Post(r) PROVE TypeOK'
  BY <1>1 DEF Post
<1>2. ASSUME NEW r \in Runs, Attach(r) \/ StartProcess(r) PROVE TypeOK'
  BY <1>2 DEF Attach, StartProcess
<1>3. ASSUME NEW r \in Runs, CannotStart(r) \/ SaveFailed(r) PROVE TypeOK'
  <2>1. \E h \in {history, [history EXCEPT ![r] = "failed"]} : history' = h
    BY <1>3 DEF CannotStart, SaveFailed, Fail
  <2>2. history' \in [Runs -> {None} \cup Terminal]
    BY <2>1
  <2> QED
    BY <1>3, <2>2 DEF CannotStart, SaveFailed, Fail
<1>4. ASSUME NEW r \in Runs, PrintReport(r) \/ AddLine(r) PROVE TypeOK'
  BY <1>4 DEF PrintReport, AddLine
<1>5. ASSUME NEW r \in Runs, ExitProcess(r) PROVE TypeOK'
  BY <1>5 DEF ExitProcess
<1>6. ASSUME NEW r \in Runs, Complete(r) PROVE TypeOK'
  BY <1>6 DEF Complete
<1>7. ASSUME NEW r \in Runs, CompleteStopped(r) \/ CancelTooEarly(r) PROVE TypeOK'
  BY <1>7 DEF CompleteStopped, CancelTooEarly
<1>8. ASSUME NEW r \in Runs, Cancel(r) PROVE TypeOK'
  <2>1. history' \in [Runs -> {None} \cup Terminal]
    BY <1>8 DEF Cancel
  <2> QED
    BY <1>8, <2>1 DEF Cancel
<1>9. CASE Crash
  BY <1>9 DEF Crash
<1>10. CASE UNCHANGED server
  BY <1>10 DEF server
<1> QED
  BY <1>1, <1>2, <1>3, <1>4, <1>5, <1>6, <1>7, <1>8, <1>9, <1>10 DEF Next, Serve

(* Every step keeps what the stages say.                                   *)
LEMMA RunStep == IInv /\ [Next]_server => RunInv'
<1> USE RunsAssumption DEF IInv, TypeOK, RunInv, Statuses, Terminal
<1> SUFFICES ASSUME IInv, [Next]_server, NEW q \in Runs
             PROVE  (StageInv(q) /\ CodeInv(q) /\ SavedInv(q))'
  BY DEF RunInv
<1>0. StageInv(q) /\ CodeInv(q) /\ SavedInv(q)
  OBVIOUS
<1> USE DEF StageInv, CodeInv, SavedInv
<1>1. ASSUME NEW r \in Runs, Post(r) PROVE (StageInv(q) /\ CodeInv(q) /\ SavedInv(q))'
  BY <1>0, <1>1 DEF Post
<1>2. ASSUME NEW r \in Runs, Attach(r) \/ StartProcess(r)
      PROVE  (StageInv(q) /\ CodeInv(q) /\ SavedInv(q))'
  BY <1>0, <1>2 DEF Attach, StartProcess
<1>3. ASSUME NEW r \in Runs, CannotStart(r) \/ SaveFailed(r)
      PROVE  (StageInv(q) /\ CodeInv(q) /\ SavedInv(q))'
  BY <1>0, <1>3 DEF CannotStart, SaveFailed, Fail
<1>4. ASSUME NEW r \in Runs, PrintReport(r) \/ AddLine(r)
      PROVE  (StageInv(q) /\ CodeInv(q) /\ SavedInv(q))'
  BY <1>0, <1>4 DEF PrintReport, AddLine
<1>5. ASSUME NEW r \in Runs, ExitProcess(r) PROVE (StageInv(q) /\ CodeInv(q) /\ SavedInv(q))'
  BY <1>0, <1>5 DEF ExitProcess
<1>6. ASSUME NEW r \in Runs, Complete(r) PROVE (StageInv(q) /\ CodeInv(q) /\ SavedInv(q))'
  BY <1>0, <1>6 DEF Complete, Exited
<1>7. ASSUME NEW r \in Runs, CompleteStopped(r) \/ CancelTooEarly(r)
      PROVE  (StageInv(q) /\ CodeInv(q) /\ SavedInv(q))'
  BY <1>0, <1>7 DEF CompleteStopped, CancelTooEarly
<1>8. ASSUME NEW r \in Runs, Cancel(r) PROVE (StageInv(q) /\ CodeInv(q) /\ SavedInv(q))'
  BY <1>0, <1>8 DEF Cancel
<1>9. CASE Crash
  BY <1>0, <1>9 DEF Crash
<1>10. CASE UNCHANGED server
  BY <1>0, <1>10 DEF server
<1> QED
  BY <1>1, <1>2, <1>3, <1>4, <1>5, <1>6, <1>7, <1>8, <1>9, <1>10 DEF Next, Serve

(* It holds always.                                                        *)
LEMMA IInvInductive == Spec => []IInv
<1>1. IInv /\ [Next]_server => IInv'
  BY TypeStep, RunStep DEF IInv
<1> QED
  BY InitIInv, <1>1, PTL DEF Spec
-----------------------------------------------------------------------------
(* The state of every run stays within its types.                          *)
THEOREM RunTypeCorrect == Spec => []TypeOK
<1>1. IInv => TypeOK
  BY DEF IInv
<1> QED
  BY IInvInductive, <1>1, PTL

(* Whatever the order of exit, output, stop and save, for any number of    *)
(* runs: passed means exit code 0 and a report, cancelled means killed.    *)
THEOREM VerdictCorrect == Spec => []VerdictIsTrue
<1>1. IInv => VerdictIsTrue
  BY DEF IInv, RunInv, CodeInv, VerdictIsTrue
<1> QED
  BY IInvInductive, <1>1, PTL

(* The history tells the verdict of the server or nothing.                 *)
THEOREM HistoryCorrect == Spec => []HistoryAgrees
<1>1. IInv => HistoryAgrees
  BY DEF IInv, RunInv, SavedInv, HistoryAgrees
<1> QED
  BY IInvInductive, <1>1, PTL

(* A verdict is taken back only where saving it failed.                    *)
THEOREM VerdictNotTakenBack == Spec => VerdictStays
<1>1. IInv /\ [Next]_server
      => [\A r \in Runs : status[r] \in Terminal =>
            \/ status'[r] = status[r]
            \/ process[r] = "unsaved" /\ status'[r] = "failed"]_server
  <2> SUFFICES ASSUME IInv, Next, NEW q \in Runs, status[q] \in Terminal
               PROVE  \/ status'[q] = status[q]
                      \/ process[q] = "unsaved" /\ status'[q] = "failed"
    OBVIOUS
  <2>0. TypeOK /\ StageInv(q)
    BY DEF IInv, RunInv
  <2> USE DEF TypeOK, StageInv, Terminal
  <2>1. ASSUME NEW r \in Runs, Post(r) \/ Cancel(r)
        PROVE  status'[q] = status[q]
    BY <2>0, <2>1 DEF Post, Cancel
  <2>2. ASSUME NEW r \in Runs, CannotStart(r)
        PROVE  status'[q] = status[q]
    BY <2>0, <2>2 DEF CannotStart, Fail
  <2>3. ASSUME NEW r \in Runs, Complete(r)
        PROVE  status'[q] = status[q]
    BY <2>0, <2>3 DEF Complete, Exited
  <2>4. ASSUME NEW r \in Runs, SaveFailed(r)
        PROVE  \/ status'[q] = status[q]
               \/ process[q] = "unsaved" /\ status'[q] = "failed"
    BY <2>0, <2>4 DEF SaveFailed, Fail
  <2>5. ASSUME NEW r \in Runs,
               \/ Attach(r) \/ StartProcess(r) \/ PrintReport(r) \/ ExitProcess(r)
               \/ AddLine(r) \/ CompleteStopped(r) \/ CancelTooEarly(r)
        PROVE  status' = status
    BY <2>5 DEF Attach, StartProcess, PrintReport, ExitProcess, AddLine, CompleteStopped,
                CancelTooEarly
  <2>6. CASE Crash
    BY <2>6 DEF Crash
  <2> QED
    BY <2>1, <2>2, <2>3, <2>4, <2>5, <2>6 DEF Next, Serve
<1> QED
  BY IInvInductive, <1>1, PTL DEF Spec, VerdictStays
-----------------------------------------------------------------------------
(* The panel.                                                              *)

(* What a verdict of a run that was told says, now and later: a run that   *)
(* was told to have passed may fail after all, when it cannot be saved.    *)
Told(r, passed) ==
  /\ status[r] \in Terminal
  /\ IF passed THEN code[r] = 0 ELSE status[r] # "passed"

(* An exit code is that of a process that has ended, and who is known to   *)
(* the server was posted.                                                  *)
EndedInv ==
  /\ \A r \in Runs : code[r] # None => process[r] \notin {"none", "attached", "running"}
  /\ \A r \in known : status[r] # "none"

(* Answers on their way, however late, tell what was the verdict.          *)
AnswersInv ==
  \A k \in Chains : poll[k].at = "answer" =>
    LET answer == poll[k].answer
    IN  answer.status # "running" => Told(answer.run, answer.status = "passed")

(* Only runs of the draft are taken for runs of the draft.                 *)
TrialsInv ==
  /\ draft # None => draft \in trials
  /\ asked.at = "posted" => asked.run \in trials
  /\ verdict.at = "ended" => verdict.run \in trials /\ Told(verdict.run, verdict.passed)

PanelInv == PanelTypeOK /\ IInv /\ EndedInv /\ AnswersInv /\ TrialsInv

(* The panel does to the server what the server allows, or nothing.        *)
LEMMA PanelServes == PanelNext => [Next]_server
<1>1. ASSUME NEW r \in Runs, Serve(r) \/ Cancel(r) \/ Post(r) PROVE Next
  BY <1>1 DEF Next
<1>2. CASE \E r \in Runs : (Serve(r) \/ Cancel(r)) /\ UNCHANGED browser
  BY <1>1, <1>2
<1>3. CASE Crash /\ UNCHANGED browser
  BY <1>3 DEF Next
<1>4. CASE Click
  BY <1>1, <1>4 DEF Click, RunDraft, FreshDraft, Run, Open
<1>5. CASE AnswerDraft
  BY <1>1, <1>5 DEF AnswerDraft, DraftPosted, DraftAnswered
<1>6. CASE DraftRefused
  BY <1>6 DEF DraftRefused
<1>7. ASSUME NEW k \in Chains, Browse(k) \/ PollFails(k) PROVE UNCHANGED server
  BY <1>7 DEF Browse, Fetch, Snapshot, Render, PollFails
<1> QED
  BY <1>2, <1>3, <1>4, <1>5, <1>6, <1>7 DEF PanelNext

(* What was told stays true whatever the server does.                      *)
LEMMA ToldStays ==
  ASSUME IInv, EndedInv, [Next]_server, NEW q \in Runs, NEW passed, Told(q, passed)
  PROVE  Told(q, passed)'
<1>1. /\ status[q] \in Terminal
      /\ process[q] \in {"exited", "unsaved", "gone"}
  BY DEF Told, IInv, TypeOK, RunInv, StageInv, Terminal
<1>2. process[q] = "exited" => status[q] = "cancelled"
  BY <1>1 DEF IInv, RunInv, StageInv, Terminal
<1>3. code'[q] = code[q] /\ (status'[q] = status[q] \/ status'[q] = "failed")
  <2> USE <1>1, <1>2 DEF IInv, TypeOK, Terminal
  <2>1. ASSUME NEW r \in Runs, Post(r) \/ Attach(r) \/ StartProcess(r) \/ CannotStart(r)
        PROVE  code'[q] = code[q] /\ status'[q] = status[q]
    BY <2>1 DEF Post, Attach, StartProcess, CannotStart, Fail
  <2>2. ASSUME NEW r \in Runs, PrintReport(r) \/ ExitProcess(r) \/ AddLine(r)
        PROVE  code'[q] = code[q] /\ status'[q] = status[q]
    BY <2>2 DEF PrintReport, ExitProcess, AddLine
  <2>3. ASSUME NEW r \in Runs, Complete(r) \/ CompleteStopped(r)
        PROVE  code'[q] = code[q] /\ status'[q] = status[q]
    BY <2>3 DEF Complete, CompleteStopped, Exited
  <2>4. ASSUME NEW r \in Runs, SaveFailed(r)
        PROVE  code'[q] = code[q] /\ (status'[q] = status[q] \/ status'[q] = "failed")
    BY <2>4 DEF SaveFailed, Fail
  <2>5. ASSUME NEW r \in Runs, Cancel(r) \/ CancelTooEarly(r)
        PROVE  code'[q] = code[q] /\ status'[q] = status[q]
    BY <2>5 DEF Cancel, CancelTooEarly
  <2>6. CASE Crash \/ UNCHANGED server
    BY <2>6 DEF Crash, server
  <2> QED
    BY <2>1, <2>2, <2>3, <2>4, <2>5, <2>6 DEF Next, Serve
<1> QED
  BY <1>3 DEF Told, Terminal

(* Every step of the server keeps its exit codes and its dictionary.       *)
LEMMA EndedStep ==
  ASSUME IInv, EndedInv, [Next]_server
  PROVE  EndedInv'
<1> USE RunsAssumption DEF IInv, TypeOK, EndedInv, Statuses, Terminal
<1>1. ASSUME NEW r \in Runs, Post(r) \/ Attach(r) \/ StartProcess(r)
      PROVE  EndedInv'
  <2>1. CASE Post(r)
    BY <2>1 DEF Post
  <2>2. CASE Attach(r)
    BY <2>2 DEF Attach, RunInv, StageInv
  <2>3. CASE StartProcess(r)
    BY <2>3 DEF StartProcess, RunInv, StageInv
  <2> QED
    BY <1>1, <2>1, <2>2, <2>3
<1>2. ASSUME NEW r \in Runs, CannotStart(r) \/ SaveFailed(r)
      PROVE  EndedInv'
  BY <1>2 DEF CannotStart, SaveFailed, Fail
<1>3. ASSUME NEW r \in Runs, PrintReport(r) \/ ExitProcess(r) \/ AddLine(r)
      PROVE  EndedInv'
  BY <1>3 DEF PrintReport, ExitProcess, AddLine
<1>4. ASSUME NEW r \in Runs, Complete(r) \/ CompleteStopped(r)
      PROVE  EndedInv'
  BY <1>4 DEF Complete, CompleteStopped, Exited
<1>5. ASSUME NEW r \in Runs, Cancel(r) \/ CancelTooEarly(r)
      PROVE  EndedInv'
  BY <1>5 DEF Cancel, CancelTooEarly
<1>6. CASE Crash \/ UNCHANGED server
  BY <1>6 DEF Crash, server
<1> QED
  BY <1>1, <1>2, <1>3, <1>4, <1>5, <1>6 DEF Next, Serve

PollStates == {Idle, [at |-> "timer"]}
              \cup [at : {"fetch"}, run : Runs] \cup [at : {"answer"}, answer : Answers]

(* What a polling chain does.                                              *)
LEMMA ChainStates ==
  ASSUME NEW p \in PollStates
  PROVE  /\ p.at = "fetch" => p.run \in Runs
         /\ p.at = "answer" => /\ p.answer \in Answers /\ p.answer.run \in Runs
                               /\ p.answer.status \in Statuses \ {"none"}
<1>1. CASE p \in {Idle, [at |-> "timer"]}
  BY <1>1 DEF Idle
<1>2. CASE p \in [at : {"fetch"}, run : Runs]
  BY <1>2
<1>3. CASE p \in [at : {"answer"}, answer : Answers]
  <2>1. p.at = "answer" /\ p.answer \in Answers
    BY <1>3
  <2>2. p.answer.run \in Runs /\ p.answer.status \in Statuses \ {"none"}
    BY <2>1 DEF Answers
  <2> QED
    BY <2>1, <2>2
<1> QED
  BY <1>1, <1>2, <1>3 DEF PollStates

(* It starts, fetches, brings an answer, and starts again or ends.         *)
LEMMA ChainTypes ==
  /\ Idle \in PollStates /\ [at |-> "timer"] \in PollStates
  /\ \A r \in Runs : [at |-> "fetch", run |-> r] \in PollStates
  /\ \A a \in Answers : [at |-> "answer", answer |-> a] \in PollStates
  /\ Idle.at = "off" /\ Waiting.at = "checking"
  /\ [at |-> "timer"].at = "timer"
  /\ \A r : [at |-> "fetch", run |-> r].at = "fetch"
  /\ \A a : [at |-> "answer", answer |-> a].at = "answer"
BY DEF PollStates, Idle, Waiting

(* The steps of the browser that start a chain, or that ask for a draft    *)
(* run and are told which one it is.                                       *)
LEMMA ClickStep ==
  ASSUME PanelInv, [Next]_server, Click \/ AnswerDraft \/ DraftRefused
  PROVE  /\ PanelTypeOK' /\ AnswersInv' /\ TrialsInv'
<1>1. /\ TypeOK /\ IInv /\ EndedInv /\ AnswersInv /\ TrialsInv /\ PanelTypeOK
      /\ TypeOK'
      /\ poll \in [Chains -> PollStates]
      /\ \A q \in Runs : \A passed : Told(q, passed) => Told(q, passed)'
  BY TypeStep, ToldStays DEF PanelInv, PanelTypeOK, PollStates
<1>2. ASSUME NEW r \in Runs, NEW k \in Chains, Select(r, k)
      PROVE  /\ selected' \in {None} \cup Runs
             /\ poll' \in [Chains -> PollStates]
             /\ AnswersInv'
  <2>1. selected' = r /\ poll' = [poll EXCEPT ![k] = [at |-> "timer"]]
    BY <1>2 DEF Select
  <2>2. poll' \in [Chains -> PollStates]
    BY <1>1, <2>1, ChainTypes
  <2>3. ASSUME NEW h \in Chains, poll'[h].at = "answer"
        PROVE  poll'[h] = poll[h] /\ poll[h].at = "answer" /\ poll[h].answer.run \in Runs
    <3>1. h # k
      BY <1>1, <2>1, <2>3, ChainTypes
    <3>2. poll'[h] = poll[h]
      BY <1>1, <2>1, <3>1
    <3> QED
      BY <1>1, <2>3, <3>2, ChainStates
  <2>4. AnswersInv'
    BY <1>1, <2>3 DEF AnswersInv
  <2> QED
    BY <2>1, <2>2, <2>4
<1>3. ASSUME UNCHANGED poll PROVE AnswersInv'
  <2>1. \A h \in Chains : poll[h].at = "answer" => poll[h].answer.run \in Runs
    BY <1>1, ChainStates
  <2> QED
    BY <1>1, <1>3, <2>1 DEF AnswersInv
<1>4. ASSUME verdict.at = "ended" PROVE verdict.run \in Runs
  BY <1>1, <1>4 DEF PanelTypeOK, Verdicts, Idle, Waiting
<1>5. ASSUME asked.at = "posted" PROVE asked.run \in Runs
  BY <1>1, <1>5 DEF PanelTypeOK, Idle
<1>6. CASE \E r \in Runs, k \in Chains : Run(r, k) \/ Open(r, k)
  <2>1. PICK r \in Runs, k \in Chains : Select(r, k) /\ UNCHANGED <<draft, asked, trials, verdict>>
    BY <1>6 DEF Run, Open
  <2>2. selected' \in {None} \cup Runs /\ poll' \in [Chains -> PollStates] /\ AnswersInv'
    BY <1>2, <2>1
  <2>3. PanelTypeOK'
    BY <1>1, <2>1, <2>2 DEF PanelTypeOK, PollStates
  <2>4. TrialsInv'
    BY <1>1, <1>4, <2>1 DEF TrialsInv
  <2> QED
    BY <2>2, <2>3, <2>4
<1>7. CASE RunDraft
  <2>1. PanelTypeOK'
    BY <1>1, <1>7 DEF RunDraft, PanelTypeOK, PollStates, Verdicts
  <2>2. TrialsInv'
    BY <1>1, <1>7 DEF RunDraft, TrialsInv, Waiting
  <2>3. AnswersInv'
    BY <1>3, <1>7 DEF RunDraft
  <2> QED
    BY <2>1, <2>2, <2>3
<1>8. CASE FreshDraft
  <2>1. PanelTypeOK'
    BY <1>1, <1>8 DEF FreshDraft, PanelTypeOK, PollStates, Verdicts
  <2>2. TrialsInv'
    BY <1>1, <1>8 DEF FreshDraft, TrialsInv, Idle
  <2>3. AnswersInv'
    BY <1>3, <1>8 DEF FreshDraft
  <2> QED
    BY <2>1, <2>2, <2>3
<1>9. ASSUME NEW r \in Runs, DraftPosted(r)
      PROVE  /\ PanelTypeOK' /\ AnswersInv' /\ TrialsInv'
  <2>1. PanelTypeOK'
    BY <1>1, <1>9 DEF DraftPosted, PanelTypeOK, PollStates
  <2>2. TrialsInv'
    BY <1>1, <1>4, <1>9 DEF DraftPosted, TrialsInv
  <2>3. AnswersInv'
    BY <1>3, <1>9 DEF DraftPosted
  <2> QED
    BY <2>1, <2>2, <2>3
<1>10. ASSUME NEW k \in Chains, DraftAnswered(k)
       PROVE  /\ PanelTypeOK' /\ AnswersInv' /\ TrialsInv'
  <2>1. asked.run \in Runs /\ asked.run \in trials
    BY <1>1, <1>5, <1>10 DEF DraftAnswered, TrialsInv
  <2>2. selected' \in {None} \cup Runs /\ poll' \in [Chains -> PollStates] /\ AnswersInv'
    BY <1>2, <1>10, <2>1 DEF DraftAnswered
  <2>3. PanelTypeOK'
    BY <1>1, <1>10, <2>1, <2>2 DEF DraftAnswered, PanelTypeOK, PollStates
  <2>4. TrialsInv'
    BY <1>1, <1>4, <1>10, <2>1 DEF DraftAnswered, TrialsInv, Idle
  <2> QED
    BY <2>2, <2>3, <2>4
<1>11. CASE DraftRefused
  <2>1. PanelTypeOK'
    BY <1>1, <1>11 DEF DraftRefused, PanelTypeOK, PollStates, Verdicts
  <2>2. TrialsInv'
    BY <1>1, <1>11 DEF DraftRefused, TrialsInv, Idle
  <2>3. AnswersInv'
    BY <1>3, <1>11 DEF DraftRefused
  <2> QED
    BY <2>1, <2>2, <2>3
<1> QED
  BY <1>6, <1>7, <1>8, <1>9, <1>10, <1>11 DEF Click, AnswerDraft

(* The steps of a chain: what it brings was true when the server answered, *)
(* and the draft panel takes it only for the run it was told of.           *)
LEMMA PollStep ==
  ASSUME PanelInv, NEW k \in Chains, Browse(k) \/ PollFails(k)
  PROVE  /\ PanelTypeOK' /\ AnswersInv' /\ TrialsInv'
<1>1. /\ TypeOK /\ IInv /\ EndedInv /\ AnswersInv /\ TrialsInv /\ PanelTypeOK
      /\ poll \in [Chains -> PollStates]
  BY DEF PanelInv, PanelTypeOK, PollStates
<1>2. UNCHANGED server /\ UNCHANGED <<selected, draft, asked, trials>>
  BY DEF Browse, Fetch, Snapshot, Render, PollFails
<1>3. TypeOK' /\ \A r, passed : Told(r, passed)' = Told(r, passed)
  BY <1>1, <1>2 DEF server, TypeOK, Told
<1>4. ASSUME NEW to \in PollStates, poll' = [poll EXCEPT ![k] = to],
             to.at = "answer" =>
               (to.answer.status # "running" => Told(to.answer.run, to.answer.status = "passed"))
      PROVE  poll' \in [Chains -> PollStates] /\ AnswersInv'
  <2>1. poll' \in [Chains -> PollStates]
    BY <1>1, <1>4
  <2>2. \A h \in Chains : poll'[h] = poll[h] \/ poll'[h] = to
    BY <1>1, <1>4
  <2>3. AnswersInv'
    BY <1>1, <1>3, <1>4, <2>2 DEF AnswersInv
  <2> QED
    BY <2>1, <2>3
<1>5. CASE Fetch(k)
  <2>1. selected \in Runs /\ poll' = [poll EXCEPT ![k] = [at |-> "fetch", run |-> selected]]
        /\ verdict' = verdict
    BY <1>1, <1>5 DEF Fetch, PanelTypeOK
  <2>2. poll' \in [Chains -> PollStates] /\ AnswersInv'
    BY <1>4, <2>1, ChainTypes
  <2> QED
    BY <1>1, <1>2, <1>3, <2>1, <2>2 DEF PanelTypeOK, PollStates, TrialsInv
<1>6. CASE PollFails(k)
  <2>1. poll' = [poll EXCEPT ![k] = Idle] /\ verdict' = verdict
    BY <1>6 DEF PollFails
  <2>2. poll' \in [Chains -> PollStates] /\ AnswersInv'
    BY <1>4, <2>1, ChainTypes
  <2> QED
    BY <1>1, <1>2, <1>3, <2>1, <2>2 DEF PanelTypeOK, PollStates, TrialsInv
<1>7. CASE Snapshot(k)
  <2> DEFINE r == poll[k].run
             answer == [run |-> r, status |-> IF r \in known THEN status[r] ELSE history[r]]
  <2>1. /\ r \in Runs /\ (r \in known \/ history[r] # None)
        /\ poll' = [poll EXCEPT ![k] = [at |-> "answer", answer |-> answer]]
        /\ verdict' = verdict
    BY <1>1, <1>7, ChainStates DEF Snapshot
  <2>2. answer.run = r /\ answer.status = status[r] /\ answer.status \in Statuses \ {"none"}
    <3>1. CASE r \in known
      BY <1>1, <2>1, <3>1 DEF EndedInv, TypeOK
    <3>2. CASE r \notin known
      BY <1>1, <2>1, <3>2 DEF IInv, TypeOK, RunInv, SavedInv, Statuses, Terminal
    <3> QED
      BY <3>1, <3>2
  <2>3. answer \in Answers
    BY <2>1, <2>2 DEF Answers
  <2> HIDE DEF answer, r
  <2>4. status[r] # "running" => Told(r, status[r] = "passed")
    BY <1>1, <2>1, <2>2 DEF Told, IInv, RunInv, CodeInv, Statuses
  <2>5. poll' \in [Chains -> PollStates] /\ AnswersInv'
    <3> DEFINE to == [at |-> "answer", answer |-> answer]
    <3>1. to \in PollStates /\ to.answer = answer
      BY <2>3, ChainTypes
    <3> QED
      BY <1>4, <2>1, <2>2, <2>4, <3>1
  <2> QED
    BY <1>1, <1>2, <1>3, <2>1, <2>5 DEF PanelTypeOK, PollStates, TrialsInv
<1>8. CASE Render(k)
  <2> DEFINE answer == poll[k].answer
             done == answer.status # "running"
  <2>1. /\ poll[k].at = "answer"
        /\ poll' = [poll EXCEPT ![k] = IF done THEN Idle ELSE [at |-> "timer"]]
        /\ verdict' = IF done /\ draft = answer.run THEN Verdict(answer) ELSE verdict
    BY <1>8 DEF Render
  <2>2. answer.run \in Runs
    BY <1>1, <2>1, ChainStates
  <2>3. done => Told(answer.run, answer.status = "passed")
    BY <1>1, <2>1 DEF AnswersInv
  <2> HIDE DEF answer, done
  <2>4. poll' \in [Chains -> PollStates] /\ AnswersInv'
    <3>1. PICK to \in {Idle, [at |-> "timer"]} : poll' = [poll EXCEPT ![k] = to]
      BY <2>1
    <3>2. to \in PollStates /\ to.at # "answer"
      BY <3>1, ChainTypes
    <3> QED
      BY <1>4, <3>1, <3>2
  <2>5. CASE done /\ draft = answer.run
    <3>1. verdict' = Verdict(answer) /\ answer.run \in trials
      BY <1>1, <2>1, <2>2, <2>5, RunsAssumption DEF TrialsInv
    <3>2. verdict'.run = answer.run /\ verdict'.passed = (answer.status = "passed") /\ verdict'.at = "ended"
      BY <3>1 DEF Verdict
    <3>3. verdict' \in Verdicts
      BY <2>2, <3>1 DEF Verdict, Verdicts
    <3>4. TrialsInv'
      BY <1>1, <1>2, <1>3, <2>3, <2>5, <3>1, <3>2 DEF TrialsInv
    <3> QED
      BY <1>1, <1>2, <1>3, <2>4, <3>3, <3>4 DEF PanelTypeOK, PollStates
  <2>6. CASE ~(done /\ draft = answer.run)
    BY <1>1, <1>2, <1>3, <2>1, <2>4, <2>6 DEF PanelTypeOK, PollStates, TrialsInv
  <2> QED
    BY <2>5, <2>6
<1> QED
  BY <1>5, <1>6, <1>7, <1>8 DEF Browse

(* The steps of the server leave the browser as it is.                     *)
LEMMA ServerStep ==
  ASSUME PanelInv, [Next]_server, UNCHANGED browser
  PROVE  /\ PanelTypeOK' /\ AnswersInv' /\ TrialsInv'
<1>1. /\ TypeOK /\ IInv /\ EndedInv /\ AnswersInv /\ TrialsInv /\ PanelTypeOK
      /\ TypeOK'
      /\ poll \in [Chains -> PollStates]
      /\ \A q \in Runs : \A passed : Told(q, passed) => Told(q, passed)'
  BY TypeStep, ToldStays DEF PanelInv, PanelTypeOK, PollStates
<1>2. PanelTypeOK'
  BY <1>1 DEF PanelTypeOK, browser
<1>3. \A h \in Chains : poll[h].at = "answer" => poll[h].answer.run \in Runs
  BY <1>1, ChainStates
<1>4. AnswersInv'
  BY <1>1, <1>3 DEF AnswersInv, browser
<1>5. verdict.at = "ended" => verdict.run \in Runs
  BY <1>1 DEF PanelTypeOK, Verdicts, Idle, Waiting
<1>6. TrialsInv'
  BY <1>1, <1>5 DEF TrialsInv, browser
<1> QED
  BY <1>2, <1>4, <1>6

(* The invariant of the panel.                                             *)
LEMMA PanelInvHolds == PanelSpec => []PanelInv
<1>1. PanelInit => PanelInv
  <2> SUFFICES ASSUME PanelInit PROVE PanelInv
    OBVIOUS
  <2>1. IInv /\ TypeOK
    BY InitIInv DEF PanelInit, IInv
  <2>2. EndedInv
    BY DEF PanelInit, Init, EndedInv
  <2>3. PanelTypeOK
    BY <2>1 DEF PanelInit, PanelTypeOK, Verdicts
  <2>4. AnswersInv /\ TrialsInv
    BY ChainTypes DEF PanelInit, AnswersInv, TrialsInv
  <2> QED
    BY <2>1, <2>2, <2>3, <2>4 DEF PanelInv
<1>2. PanelInv /\ [PanelNext]_vars => PanelInv'
  <2> SUFFICES ASSUME PanelInv, [PanelNext]_vars PROVE PanelInv'
    OBVIOUS
  <2>1. [Next]_server
    BY PanelServes DEF vars
  <2>2. IInv' /\ EndedInv'
    BY <2>1, TypeStep, RunStep, EndedStep DEF PanelInv, IInv
  <2>3. CASE UNCHANGED browser
    BY <2>1, <2>2, <2>3, ServerStep DEF PanelInv
  <2>4. CASE Click \/ AnswerDraft \/ DraftRefused
    BY <2>1, <2>2, <2>4, ClickStep DEF PanelInv
  <2>5. ASSUME NEW k \in Chains, Browse(k) \/ PollFails(k) PROVE PanelInv'
    BY <2>2, <2>5, PollStep DEF PanelInv
  <2> QED
    BY <2>3, <2>4, <2>5 DEF PanelNext, vars
<1> QED
  BY <1>1, <1>2, PTL DEF PanelSpec

(* The browser and what is under way between it and the server stay within *)
(* their types.                                                            *)
THEOREM PanelTypeCorrect == PanelSpec => []PanelTypeOK
<1>1. PanelInv => PanelTypeOK
  BY DEF PanelInv
<1> QED
  BY PanelInvHolds, <1>1, PTL

(* The draft panel shows a verdict only of a run of the draft, and the one *)
(* that run was given, however many chains bring late answers of whatever  *)
(* runs, and whatever fails or is lost (generator.js, run.js).             *)
THEOREM DraftVerdictCorrect == PanelSpec => []DraftVerdictIsTrue
<1>1. PanelInv => DraftVerdictIsTrue
  BY DEF PanelInv, TrialsInv, Told, DraftVerdictIsTrue
<1> QED
  BY PanelInvHolds, <1>1, PTL

(* With the browser on top of it the server does nothing that it does not  *)
(* do alone, so its theorems hold of both.                                 *)
THEOREM PanelImplementsServer == PanelSpec => Spec
<1>1. PanelInit => Init
  BY DEF PanelInit
<1>2. [PanelNext]_vars => [Next]_server
  BY PanelServes DEF vars
<1> QED
  BY <1>1, <1>2, PTL DEF PanelSpec, Spec
=============================================================================
