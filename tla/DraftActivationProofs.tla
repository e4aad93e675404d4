----------------------- MODULE DraftActivationProofs -----------------------
(***************************************************************************)
(* Proofs about draft activation, for any number of tabs and drafts.       *)
(*                                                                         *)
(* That only drafts which passed the full preflight become official rests  *)
(* on one request at a time per review: then nothing else writes suite.json *)
(* between the write of a save and the runner it starts.  That the buttons *)
(* are enabled only for what was checked rests on the same, and on users   *)
(* who wait for the answers to their requests.                             *)
(***************************************************************************)
EXTENDS DraftActivation, TLAPS

(* No two tabs share a review, and a tab has one request at a time.        *)
ReviewsApart ==
  /\ RequestsWait
  /\ \A t, u \in Tabs : ReviewOf[t] = ReviewOf[u] => t = u

(* What each stage of a save says about suite.json and its draft.          *)
SaveInv(t) ==
  /\ check[t] # Idle => save[t] = Idle
  /\ save[t].at = "written" => suite[ReviewOf[t]] = save[t].json
  /\ save[t].at \in {"passed", "agreed", "confirm"} => save[t].json \in Complete

IInv == OfficialPassedPreflight /\ \A t \in Tabs : SaveInv(t)
-----------------------------------------------------------------------------
(* An idle request is not one in any other stage.                          *)
LEMMA IdleAt == Idle.at = "idle"
BY DEF Idle

(* The states of the requests are closed under the steps.                  *)
LEMMA RepairShape ==
  ASSUME NEW r \in RepairStates, r.at # "idle"
  PROVE  /\ r.json \in Contents /\ r.round \in 0 .. MaxRepairs
         /\ r \in [at : {"checking", "repaired", "gave up"}, json : Contents, round : 0 .. MaxRepairs]
BY IdleAt DEF RepairStates

(* A repair begins with the draft of its request, in round 0.              *)
LEMMA RepairBegins ==
  ASSUME NEW c \in Contents
  PROVE  [at |-> "checking", json |-> c, round |-> 0] \in RepairStates
BY ConstantsAssumption DEF RepairStates

(* A save that was received carries its draft.                             *)
LEMMA SaveShape ==
  ASSUME NEW r \in SaveStates, r.at # "idle"
  PROVE  r \in [at : {"received", "written", "passed", "agreed"}, json : Contents, seen : Stored]
               \cup [at : {"confirm"}, json : Contents, seen : Contents]
BY IdleAt DEF SaveStates

(* The next stage of a save keeps its draft.                               *)
LEMMA SaveStage ==
  ASSUME NEW r \in SaveStates, r.at # "idle", NEW stage
  PROVE  [r EXCEPT !.at = stage].at = stage /\ [r EXCEPT !.at = stage].json = r.json
BY SaveShape

(* A save that asks for a confirmation keeps its draft.                     *)
LEMMA ConfirmStage ==
  ASSUME NEW r, NEW j, NEW h, r = [at |-> "confirm", json |-> j, seen |-> h]
  PROVE  r.at = "confirm" /\ r.json = j
OBVIOUS

(* Every panel, request and file stays within its states.                  *)
LEMMA TypeStep ==
  ASSUME TypeOK, NEW t \in Tabs, Tab(t) \/ Handler(t)
  PROVE  TypeOK'
<1> USE ConstantsAssumption, IdleAt DEF TypeOK, Stored, Reviews, Offer, panel, flags
<1>1. CASE \E c \in Contents : Edit(t, c)
  BY <1>1 DEF Edit
<1>2. CASE ClickPreflight(t)
  <2>1. [at |-> "received", json |-> editor[t]] \in CheckStates
    BY DEF CheckStates
  <2> QED
    BY <1>2, <2>1 DEF ClickPreflight
<1>3. CASE WriteForCheck(t)
  <2>1. check[t].json \in Contents /\ [check[t] EXCEPT !.at = "written"] \in CheckStates
    BY <1>3 DEF WriteForCheck, CheckStates
  <2> QED
    BY <1>3, <2>1 DEF WriteForCheck
<1>4. CASE CheckRunnable(t)
  <2>1. Answer(FALSE, FALSE) \in CheckStates /\ [check[t] EXCEPT !.at = "runnable"] \in CheckStates
    BY <1>4 DEF CheckRunnable, CheckStates, Answer
  <2> QED
    BY <1>4, <2>1 DEF CheckRunnable
<1>5. CASE CheckComplete(t)
  <2>1. Answer(TRUE, suite[ReviewOf[t]] \in Complete) \in CheckStates
    BY DEF CheckStates, Answer
  <2> QED
    BY <1>5, <2>1 DEF CheckComplete
<1>6. CASE CheckTimesOut(t)
  <2>1. Answer(check[t].at = "runnable", FALSE) \in CheckStates
    BY DEF CheckStates, Answer
  <2> QED
    BY <1>6, <2>1 DEF CheckTimesOut
<1>7. ASSUME repair' = [repair EXCEPT ![t] = [at |-> "checking", json |-> editor[t], round |-> 0]]
      PROVE  repair' \in [Tabs -> RepairStates]
  BY <1>7, RepairBegins
<1>8. CASE CheckAnswered(t)
  <2>1. check[t].passed \in BOOLEAN /\ check[t].ready \in BOOLEAN
    BY <1>8 DEF CheckAnswered, CheckStates
  <2>2. checked' \in [Tabs -> BOOLEAN] /\ ready' \in [Tabs -> BOOLEAN]
    BY <1>8, <2>1 DEF CheckAnswered
  <2>3. check' \in [Tabs -> CheckStates]
    BY <1>8 DEF CheckAnswered, CheckStates
  <2>4. offer' \in [Tabs -> BOOLEAN] /\ repair' \in [Tabs -> RepairStates]
    BY <1>7, <1>8, <2>1 DEF CheckAnswered, StartRepair
  <2> QED
    BY <1>8, <2>2, <2>3, <2>4 DEF CheckAnswered
<1>9. CASE ClickRepair(t)
  BY <1>7, <1>9 DEF ClickRepair, StartRepair
<1>10. CASE RepairRound(t)
  <2>1. repair[t] \in [at : {"checking", "repaired", "gave up"}, json : Contents, round : 0 .. MaxRepairs]
    BY <1>10, RepairShape DEF RepairRound
  <2>2. /\ [repair[t] EXCEPT !.at = "repaired"] \in RepairStates
        /\ [repair[t] EXCEPT !.at = "gave up"] \in RepairStates
    BY <2>1 DEF RepairStates
  <2>3. ASSUME repair[t].round # MaxRepairs, NEW c \in Contents
        PROVE  [at |-> "checking", json |-> c, round |-> repair[t].round + 1] \in RepairStates
    <3>1. repair[t].round \in 0 .. MaxRepairs
      BY <2>1
    <3>2. repair[t].round + 1 \in 0 .. MaxRepairs
      BY <2>3, <3>1
    <3> QED
      BY <3>2 DEF RepairStates
  <2> QED
    BY <1>10, <2>2, <2>3 DEF RepairRound, Rewrite
<1>11. CASE RepairFails(t)
  BY <1>11 DEF RepairFails, RepairStates
<1>12. CASE Repaired(t)
  <2>1. repair[t].json \in Contents /\ Idle \in RepairStates
    BY <1>12, RepairShape DEF Repaired, RepairStates
  <2>2. checked' \in [Tabs -> BOOLEAN]
    BY <1>12 DEF Repaired
  <2>3. ready' \in [Tabs -> BOOLEAN]
    <3>1. \A inTime : (inTime /\ repair[t].json \in Complete) \in BOOLEAN
      OBVIOUS
    <3> QED
      BY <1>12, <3>1 DEF Repaired
  <2>4. offer' \in [Tabs -> BOOLEAN]
    BY <1>12 DEF Repaired
  <2> QED
    BY <1>12, <2>1, <2>2, <2>3, <2>4 DEF Repaired
<1>13. CASE ClickSave(t)
  <2>1. [at |-> "received", json |-> editor[t], seen |-> Absent] \in SaveStates
    BY DEF SaveStates
  <2> QED
    BY <1>13, <2>1 DEF ClickSave
<1>14. CASE WriteForSave(t)
  <2>1. save[t].json \in Contents /\ [save[t] EXCEPT !.at = "written"] \in SaveStates
    BY <1>14 DEF WriteForSave, SaveStates
  <2> QED
    BY <1>14, <2>1 DEF WriteForSave
<1>15. CASE SavePreflight(t) \/ SaveTimesOut(t)
  <2>1. [save[t] EXCEPT !.at = "passed"] \in SaveStates /\ Idle \in SaveStates
    BY <1>15 DEF SavePreflight, SaveTimesOut, SaveStates
  <2> QED
    BY <1>15, <2>1 DEF SavePreflight, SaveTimesOut, SaveRefused
<1>16. CASE Compare(t)
  <2>1. [save[t] EXCEPT !.at = "agreed"] \in SaveStates /\ Idle \in SaveStates
    BY <1>16 DEF Compare, SaveStates
  <2>2. MustAsk(save[t]) => [at |-> "confirm", json |-> save[t].json, seen |-> official] \in SaveStates
    BY <1>16 DEF Compare, SaveStates, MustAsk
  <2> QED
    BY <1>16, <2>1, <2>2 DEF Compare
<1>17. CASE WriteOfficial(t)
  <2>1. save[t].json \in Contents /\ Idle \in SaveStates
    BY <1>17 DEF WriteOfficial, SaveStates
  <2> QED
    BY <1>17, <2>1 DEF WriteOfficial
<1>18. CASE Confirm(t)
  <2>1. [save[t] EXCEPT !.at = "received"] \in SaveStates /\ Idle \in SaveStates
    BY <1>18 DEF Confirm, SaveStates
  <2> QED
    BY <1>18, <2>1 DEF Confirm
<1> QED
  BY <1>1, <1>2, <1>3, <1>4, <1>5, <1>6, <1>8, <1>9, <1>10, <1>11, <1>12, <1>13, <1>14, <1>15,
     <1>16, <1>17, <1>18 DEF Tab, Handler

(* Every panel, request and file stays within its states.                  *)
THEOREM DraftTypeCorrect == Spec => []TypeOK
<1>1. Init => TypeOK
  BY ConstantsAssumption DEF Init, TypeOK, CheckStates, RepairStates, SaveStates, Stored
<1>2. TypeOK /\ [Next]_vars => TypeOK'
  <2>1. ASSUME TypeOK, UNCHANGED vars PROVE TypeOK'
    BY <2>1 DEF TypeOK, vars
  <2> QED
    BY <2>1, TypeStep DEF Next
<1> QED
  BY <1>1, <1>2, PTL DEF Spec
-----------------------------------------------------------------------------
(* Every step keeps what the stages of a save say, and only a draft that   *)
(* passed the full preflight is written.                                   *)
LEMMA SaveStep ==
  ASSUME ReviewsApart, TypeOK, IInv, NEW t \in Tabs, Tab(t) \/ Handler(t)
  PROVE  IInv'
<1> USE IdleAt DEF TypeOK, IInv, SaveInv, OfficialPassedPreflight, ReviewsApart, Quiet, panel, flags,
            Reviews
<1>1. CASE \E c \in Contents : Edit(t, c)
  BY <1>1 DEF Edit
<1>2. CASE ClickPreflight(t)
  BY <1>2 DEF ClickPreflight
<1>3. CASE WriteForCheck(t)
  BY <1>3 DEF WriteForCheck
<1>4. CASE CheckRunnable(t) \/ CheckComplete(t) \/ CheckTimesOut(t) \/ CheckAnswered(t)
  <2>1. check[t] # Idle
    BY <1>4 DEF CheckRunnable, CheckComplete, CheckTimesOut, CheckAnswered
  <2>2. \A u \in Tabs \ {t} : check'[u] = check[u]
    BY <1>4 DEF CheckRunnable, CheckComplete, CheckTimesOut, CheckAnswered
  <2>3. UNCHANGED <<save, suite, official>>
    BY <1>4 DEF CheckRunnable, CheckComplete, CheckTimesOut, CheckAnswered
  <2> QED
    BY <2>1, <2>2, <2>3
<1>5. CASE ClickRepair(t) \/ RepairRound(t) \/ RepairFails(t) \/ Repaired(t)
  BY <1>5 DEF ClickRepair, RepairRound, RepairFails, Repaired
<1>6. CASE ClickSave(t)
  BY <1>6 DEF ClickSave
<1>7. CASE WriteForSave(t)
  BY <1>7 DEF WriteForSave, SaveStates
<1>8. CASE SavePreflight(t) \/ SaveTimesOut(t)
  <2>1. save[t].json = suite[ReviewOf[t]] /\ save[t] \in SaveStates /\ save[t] # Idle
    BY <1>8 DEF SavePreflight, SaveTimesOut
  <2>2. \/ save'[t] = Idle
        \/ save'[t].at = "passed" /\ save'[t].json = save[t].json /\ save[t].json \in Complete
    <3>1. save[t].at # "idle"
      BY <1>8 DEF SavePreflight, SaveTimesOut
    <3>2. /\ [save[t] EXCEPT !.at = "passed"].at = "passed"
          /\ [save[t] EXCEPT !.at = "passed"].json = save[t].json
      BY <2>1, <3>1, SaveStage
    <3>3. \/ save'[t] = [save[t] EXCEPT !.at = "passed"] /\ suite[ReviewOf[t]] \in Complete
          \/ save'[t] = Idle
      BY <1>8 DEF SavePreflight, SaveTimesOut, SaveRefused
    <3> QED
      BY <2>1, <3>2, <3>3
  <2>3. \A u \in Tabs \ {t} : save'[u] = save[u]
    BY <1>8 DEF SavePreflight, SaveTimesOut, SaveRefused
  <2>4. UNCHANGED <<check, suite, official>>
    BY <1>8 DEF SavePreflight, SaveTimesOut
  <2> QED
    BY <2>1, <2>2, <2>3, <2>4
<1>9. CASE Compare(t)
  <2>1. save[t].json \in Complete /\ save[t] \in SaveStates
    BY <1>9 DEF Compare
  <2>2. \/ save'[t] = Idle
        \/ save'[t].at \in {"agreed", "confirm"} /\ save'[t].json = save[t].json
    <3>1. save[t].at # "idle"
      BY <1>9 DEF Compare
    <3>2. /\ [save[t] EXCEPT !.at = "agreed"].at = "agreed"
          /\ [save[t] EXCEPT !.at = "agreed"].json = save[t].json
      BY <2>1, <3>1, SaveStage
    <3>3. \/ save'[t] = [save[t] EXCEPT !.at = "agreed"]
          \/ save'[t] = [at |-> "confirm", json |-> save[t].json, seen |-> official]
          \/ save'[t] = Idle
      BY <1>9 DEF Compare
    <3>4. CASE save'[t] = [at |-> "confirm", json |-> save[t].json, seen |-> official]
      BY <3>4, ConfirmStage
    <3> QED
      BY <3>2, <3>3, <3>4
  <2>3. \A u \in Tabs \ {t} : save'[u] = save[u]
    BY <1>9 DEF Compare
  <2>4. UNCHANGED <<check, suite, official>> /\ save[t] # Idle
    BY <1>9 DEF Compare
  <2> QED
    BY <2>1, <2>2, <2>3, <2>4
<1>10. CASE WriteOfficial(t)
  BY <1>10 DEF WriteOfficial
<1>11. CASE Confirm(t)
  BY <1>11 DEF Confirm, SaveStates
<1> QED
  BY <1>1, <1>2, <1>3, <1>4, <1>5, <1>6, <1>7, <1>8, <1>9, <1>10, <1>11 DEF Tab, Handler

(* Whatever is saved from whatever tabs, only drafts that passed the full  *)
(* preflight become official, if no two tabs share a review and each waits *)
(* for its request: for any number of tabs, drafts and rounds of repair.   *)
THEOREM OfficialCorrect == ReviewsApart /\ Spec => []OfficialPassedPreflight
<1> SUFFICES ASSUME ReviewsApart PROVE Spec => []OfficialPassedPreflight
  OBVIOUS
<1>1. Init => IInv
  BY IdleAt DEF Init, IInv, SaveInv, OfficialPassedPreflight
<1>2. TypeOK /\ IInv /\ [Next]_vars => IInv'
  <2>1. ASSUME IInv, UNCHANGED vars PROVE IInv'
    BY <2>1 DEF IInv, SaveInv, OfficialPassedPreflight, vars
  <2> QED
    BY <2>1, SaveStep DEF Next
<1>3. IInv => OfficialPassedPreflight
  BY DEF IInv
<1> QED
  BY <1>1, <1>2, <1>3, DraftTypeCorrect, PTL DEF Spec
-----------------------------------------------------------------------------
(* Enabled means checked.                                                  *)

(* What the stages of its requests say about the draft in the editor of a  *)
(* tab whose user waits; a repair button is offered for an unchecked draft *)
(* only, so that the last draft of a repair that gave up is not enabled.   *)
FlagInv(t) ==
  /\ checked[t] => editor[t] \in Runnable
  /\ ready[t] => editor[t] \in Complete
  /\ offer[t] \/ repair[t] # Idle => ~checked[t] /\ ~ready[t]

CheckInv(t) ==
  /\ check[t] # Idle => repair[t] = Idle /\ save[t] = Idle
  /\ check[t].at \in {"received", "written", "runnable"} => check[t].json = editor[t]
  /\ check[t].at \in {"written", "runnable"} => suite[ReviewOf[t]] = editor[t]
  /\ check[t].at = "runnable" => editor[t] \in Runnable
  /\ check[t].at = "answered" =>
       /\ check[t].passed => editor[t] \in Runnable
       /\ check[t].ready => check[t].passed /\ editor[t] \in Complete

RepairInv(t) ==
  /\ repair[t] # Idle => save[t] = Idle
  /\ repair[t].at = "repaired" => repair[t].json \in Runnable
  /\ save[t] # Idle => save[t].json = editor[t] /\ ready[t]

PanelInv(t) == FlagInv(t) /\ CheckInv(t) /\ RepairInv(t)

EnabledInv == \A t \in Patient \ Slow : PanelInv(t)

(* The next stage of a check keeps its draft.                              *)
LEMMA CheckStage ==
  ASSUME NEW r \in [at : {"received", "written", "runnable"}, json : Contents], NEW stage
  PROVE  [r EXCEPT !.at = stage].at = stage /\ [r EXCEPT !.at = stage].json = r.json
OBVIOUS

(* A check that goes on is one of the requests with a draft.               *)
LEMMA CheckShape ==
  ASSUME NEW r \in CheckStates, r.at \in {"received", "written", "runnable"}
  PROVE  r \in [at : {"received", "written", "runnable"}, json : Contents] /\ r # Idle
BY IdleAt DEF CheckStates

(* What an answer says.                                                    *)
LEMMA AnswerFields ==
  ASSUME NEW p, NEW q
  PROVE  Answer(p, q).at = "answered" /\ Answer(p, q).passed = p /\ Answer(p, q).ready = q
BY DEF Answer

(* A step of a tab leaves what the other tabs know alone.                  *)
LEMMA OthersKeep ==
  ASSUME ReviewsApart, TypeOK, NEW t \in Tabs, Tab(t) \/ Handler(t), NEW u \in Tabs \ {t}
  PROVE  /\ editor'[u] = editor[u] /\ checked'[u] = checked[u] /\ ready'[u] = ready[u]
         /\ offer'[u] = offer[u] /\ check'[u] = check[u] /\ repair'[u] = repair[u]
         /\ save'[u] = save[u] /\ suite'[ReviewOf[u]] = suite[ReviewOf[u]]
<1> USE DEF TypeOK, ReviewsApart, panel, flags, Offer, Reviews
<1>r. ReviewOf[t] # ReviewOf[u]
  OBVIOUS
<1>1. CASE Tab(t)
  <2>1. CASE (\E c \in Contents : Edit(t, c)) \/ ClickPreflight(t) \/ ClickSave(t) \/ Confirm(t)
    BY <2>1 DEF Edit, ClickPreflight, ClickSave, Confirm
  <2>2. CASE CheckAnswered(t)
    BY <2>2 DEF CheckAnswered, StartRepair
  <2>3. CASE ClickRepair(t)
    BY <2>3 DEF ClickRepair, StartRepair
  <2>4. CASE Repaired(t)
    <3>1. /\ \A f \in {TRUE, FALSE} : [checked EXCEPT ![t] = f][u] = checked[u]
          /\ \A f : [ready EXCEPT ![t] = f][u] = ready[u]
          /\ \A f : [offer EXCEPT ![t] = f][u] = offer[u]
      OBVIOUS
    <3>2. checked'[u] = checked[u] /\ ready'[u] = ready[u] /\ offer'[u] = offer[u]
      BY <2>4, <3>1, Zenon DEF Repaired
    <3> QED
      BY <2>4, <3>2 DEF Repaired
  <2> QED
    BY <1>1, <2>1, <2>2, <2>3, <2>4 DEF Tab
<1>2. CASE WriteForCheck(t) \/ CheckRunnable(t) \/ CheckComplete(t) \/ CheckTimesOut(t)
  <2>1. CASE WriteForCheck(t)
    <3>1. suite'[ReviewOf[u]] = suite[ReviewOf[u]]
      BY <1>r, <2>1 DEF WriteForCheck
    <3> QED
      BY <2>1, <3>1 DEF WriteForCheck
  <2>2. CASE CheckRunnable(t) \/ CheckComplete(t) \/ CheckTimesOut(t)
    <3>1. check'[u] = check[u] /\ UNCHANGED <<editor, checked, ready, offer, repair, save, suite>>
      BY <2>2 DEF CheckRunnable, CheckComplete, CheckTimesOut
    <3> QED
      BY <3>1
  <2> QED
    BY <1>2, <2>1, <2>2
<1>3. CASE RepairRound(t) \/ RepairFails(t)
  BY <1>3 DEF RepairRound, RepairFails, Rewrite
<1>4. CASE WriteForSave(t) \/ SavePreflight(t) \/ SaveTimesOut(t) \/ Compare(t) \/ WriteOfficial(t)
  BY <1>4 DEF WriteForSave, SavePreflight, SaveTimesOut, SaveRefused, Compare, WriteOfficial
<1> QED
  BY <1>1, <1>2, <1>3, <1>4 DEF Handler

(* A step of a save ends it or keeps its draft.                            *)
LEMMA SaveKeepsDraft ==
  ASSUME TypeOK, NEW t \in Tabs,
         WriteForSave(t) \/ SavePreflight(t) \/ SaveTimesOut(t) \/ Compare(t) \/ WriteOfficial(t) \/ Confirm(t)
  PROVE  save[t] # Idle /\ (save'[t] = Idle \/ save'[t].json = save[t].json)
<1>1. save[t] \in SaveStates /\ save[t].at # "idle"
  BY DEF TypeOK, WriteForSave, SavePreflight, SaveTimesOut, Compare, WriteOfficial, Confirm
<1>2. \A stage : [save[t] EXCEPT !.at = stage].json = save[t].json
  BY <1>1, SaveStage
<1>3. \/ save'[t] = Idle
      \/ \E stage : save'[t] = [save[t] EXCEPT !.at = stage]
      \/ save'[t] = [at |-> "confirm", json |-> save[t].json, seen |-> official]
  BY DEF TypeOK, WriteForSave, SavePreflight, SaveTimesOut, SaveRefused, Compare, WriteOfficial, Confirm
<1>4. save'[t] = [at |-> "confirm", json |-> save[t].json, seen |-> official] => save'[t].json = save[t].json
  BY ConfirmStage
<1> QED
  BY <1>1, <1>2, <1>3, <1>4, IdleAt

(* A step of a repair ends the draft runnable, or is not done with it.     *)
LEMMA RoundOutcome ==
  ASSUME TypeOK, NEW t \in Tabs, RepairRound(t)
  PROVE  /\ repair[t] # Idle
         /\ \/ repair'[t].at = "repaired" /\ repair'[t].json \in Runnable
            \/ repair'[t].at \in {"gave up", "checking"}
<1>1. /\ repair[t] # Idle
      /\ repair[t] \in [at : {"checking", "repaired", "gave up"}, json : Contents, round : 0 .. MaxRepairs]
  BY RepairShape, IdleAt DEF TypeOK, RepairRound
<1>2. \A stage : [repair[t] EXCEPT !.at = stage].at = stage /\ [repair[t] EXCEPT !.at = stage].json = repair[t].json
  BY <1>1
<1>3. \/ repair'[t] = [repair[t] EXCEPT !.at = "repaired"] /\ repair[t].json \in Runnable
      \/ repair'[t] = [repair[t] EXCEPT !.at = "gave up"]
      \/ \E c \in Contents : \E n : repair'[t] = [at |-> "checking", json |-> c, round |-> n]
  BY DEF TypeOK, RepairRound, Rewrite
<1>4. \A c, n : [at |-> "checking", json |-> c, round |-> n].at = "checking"
  OBVIOUS
<1>5. CASE repair'[t] = [repair[t] EXCEPT !.at = "repaired"] /\ repair[t].json \in Runnable
  <2>1. repair'[t].at = "repaired" /\ repair'[t].json = repair[t].json
    BY <1>2, <1>5, Zenon
  <2> QED
    BY <1>1, <1>5, <2>1, Zenon
<1>6. CASE repair'[t] = [repair[t] EXCEPT !.at = "gave up"]
  <2>1. repair'[t].at = "gave up"
    BY <1>2, <1>6, Zenon
  <2> QED
    BY <1>1, <2>1, Zenon
<1>7. CASE \E c \in Contents : \E n : repair'[t] = [at |-> "checking", json |-> c, round |-> n]
  <2>1. repair'[t].at = "checking"
    BY <1>4, <1>7, Zenon
  <2> QED
    BY <1>1, <2>1, Zenon
<1> QED
  BY <1>3, <1>5, <1>6, <1>7, Zenon

(* The stage that a step of a check reaches.                               *)
LEMMA CheckOutcome ==
  ASSUME TypeOK, NEW t \in Tabs
  PROVE  /\ WriteForCheck(t) => check'[t].at = "written" /\ check'[t].json = check[t].json
         /\ CheckRunnable(t) =>
              \/ /\ check'[t].at = "runnable" /\ check'[t].json = check[t].json
                 /\ suite[ReviewOf[t]] \in Runnable
              \/ check'[t].at = "answered" /\ ~check'[t].passed /\ ~check'[t].ready
         /\ CheckComplete(t) => /\ check'[t].at = "answered" /\ check'[t].passed
                                /\ check'[t].ready => suite[ReviewOf[t]] \in Complete
<1> DEFINE full == suite[ReviewOf[t]] \in Complete
<1>1. WriteForCheck(t) => check'[t] = [check[t] EXCEPT !.at = "written"] /\ check[t].at = "received"
  BY DEF TypeOK, WriteForCheck
<1>2. CheckRunnable(t) => /\ check[t].at = "written"
                          /\ \/ check'[t] = [check[t] EXCEPT !.at = "runnable"] /\ suite[ReviewOf[t]] \in Runnable
                             \/ check'[t] = Answer(FALSE, FALSE)
  BY DEF TypeOK, CheckRunnable
<1>3. CheckComplete(t) => check'[t] = Answer(TRUE, full)
  BY DEF TypeOK, CheckComplete
<1>4. check[t].at \in {"received", "written"} =>
        \A stage : /\ [check[t] EXCEPT !.at = stage].at = stage
                   /\ [check[t] EXCEPT !.at = stage].json = check[t].json
  BY CheckShape, CheckStage DEF TypeOK
<1>5. WriteForCheck(t) => check'[t].at = "written" /\ check'[t].json = check[t].json
  BY <1>1, <1>4, Zenon
<1>6. ASSUME CheckRunnable(t)
      PROVE  \/ /\ check'[t].at = "runnable" /\ check'[t].json = check[t].json
                /\ suite[ReviewOf[t]] \in Runnable
             \/ check'[t].at = "answered" /\ ~check'[t].passed /\ ~check'[t].ready
  <2>1. CASE check'[t] = [check[t] EXCEPT !.at = "runnable"] /\ suite[ReviewOf[t]] \in Runnable
    <3>1. check[t].at \in {"received", "written"}
      BY <1>2, <1>6
    <3>2. check'[t].at = "runnable" /\ check'[t].json = check[t].json
      BY <1>4, <2>1, <3>1, Zenon
    <3> QED
      BY <2>1, <3>2, Zenon
  <2>2. CASE check'[t] = Answer(FALSE, FALSE)
    <3> DEFINE no == FALSE
    <3> HIDE DEF no
    <3>1. Answer(no, no).at = "answered" /\ Answer(no, no).passed = no /\ Answer(no, no).ready = no
      BY AnswerFields, Zenon
    <3>2. check'[t] = Answer(no, no) /\ no = FALSE
      BY <2>2 DEF no
    <3>3. check'[t].at = "answered" /\ check'[t].passed = no /\ check'[t].ready = no
      BY <3>1, <3>2, Zenon
    <3> QED
      BY <3>2, <3>3, Zenon
  <2> QED
    BY <1>2, <1>6, <2>1, <2>2, Zenon
<1>7. ASSUME CheckComplete(t)
      PROVE  check'[t].at = "answered" /\ check'[t].passed /\ (check'[t].ready => full)
  <2> HIDE DEF full
  <2>1. Answer(TRUE, full).at = "answered" /\ Answer(TRUE, full).passed = TRUE /\ Answer(TRUE, full).ready = full
    BY AnswerFields, Zenon
  <2>2. check'[t].at = "answered" /\ check'[t].passed = TRUE /\ check'[t].ready = full
    BY <1>3, <1>7, <2>1, Zenon
  <2> QED
    BY <2>2, Zenon
<1> QED
  BY <1>5, <1>6, <1>7

(* A step of a patient tab keeps what its panel says.                      *)
LEMMA PanelStep ==
  ASSUME ReviewsApart, TypeOK, IInv, NEW t \in Patient \ Slow, PanelInv(t), Tab(t) \/ Handler(t)
  PROVE  PanelInv(t)'
<1> USE ConstantsAssumption, IdleAt
    DEF TypeOK, ReviewsApart, PanelInv, FlagInv, CheckInv, RepairInv, panel, flags, Offer, Reviews, Quiet
<1>t. t \in Tabs /\ t \notin Slow
  OBVIOUS
<1>1. CASE \E c \in Contents : Edit(t, c)
  BY <1>1, <1>t DEF Edit
<1>2. CASE ClickPreflight(t)
  <2>1. check'[t].at = "received" /\ check'[t].json = editor[t]
    BY <1>2, <1>t DEF ClickPreflight
  <2> QED
    BY <1>2, <1>t, <2>1 DEF ClickPreflight
<1>3. CASE WriteForCheck(t)
  <2>1. check'[t].at = "written" /\ check'[t].json = check[t].json
    BY <1>3, <1>t, CheckOutcome
  <2>2. check[t] # Idle /\ suite'[ReviewOf[t]] = check[t].json /\ check[t].json = editor[t]
    BY <1>3, <1>t DEF WriteForCheck
  <2> QED
    BY <1>3, <1>t, <2>1, <2>2 DEF WriteForCheck
<1>4. CASE CheckRunnable(t)
  <2>1. check[t] # Idle /\ suite[ReviewOf[t]] = editor[t] /\ check[t].json = editor[t]
    BY <1>4, <1>t DEF CheckRunnable
  <2>2. \/ check'[t].at = "runnable" /\ check'[t].json = check[t].json /\ editor[t] \in Runnable
        \/ check'[t].at = "answered" /\ ~check'[t].passed /\ ~check'[t].ready
    BY <1>4, <1>t, <2>1, CheckOutcome
  <2> QED
    BY <1>4, <1>t, <2>1, <2>2 DEF CheckRunnable
<1>5. CASE CheckComplete(t)
  <2>1. check[t] # Idle /\ suite[ReviewOf[t]] = editor[t] /\ editor[t] \in Runnable
    BY <1>5, <1>t DEF CheckComplete
  <2>2. check'[t].at = "answered" /\ check'[t].passed /\ (check'[t].ready => editor[t] \in Complete)
    BY <1>5, <1>t, <2>1, CheckOutcome
  <2> QED
    BY <1>5, <1>t, <2>1, <2>2 DEF CheckComplete
<1>6. CASE CheckTimesOut(t)
  BY <1>6, <1>t DEF CheckTimesOut
<1>7. ASSUME StartRepair(t)
      PROVE  repair'[t].at = "checking" /\ repair'[t] # Idle /\ ~offer'[t]
  BY <1>7, <1>t DEF StartRepair
<1>8. CASE CheckAnswered(t)
  <2>1. check[t] # Idle /\ check'[t] = Idle /\ checked'[t] = check[t].passed /\ ready'[t] = check[t].ready
    BY <1>8, <1>t DEF CheckAnswered
  <2>2. \/ repair' = repair /\ offer'[t] = ~check[t].passed
        \/ ~check[t].passed /\ repair'[t].at = "checking" /\ repair'[t] # Idle /\ ~offer'[t]
    BY <1>7, <1>8, <1>t DEF CheckAnswered
  <2> QED
    BY <1>8, <1>t, <2>1, <2>2 DEF CheckAnswered
<1>9. CASE ClickRepair(t)
  BY <1>7, <1>9, <1>t DEF ClickRepair
<1>10. CASE RepairRound(t)
  <2>1. /\ repair[t] # Idle
        /\ \/ repair'[t].at = "repaired" /\ repair'[t].json \in Runnable
           \/ repair'[t].at \in {"gave up", "checking"}
    BY <1>10, <1>t, RoundOutcome
  <2> QED
    BY <1>10, <1>t, <2>1 DEF RepairRound
<1>11. CASE RepairFails(t)
  BY <1>11, <1>t DEF RepairFails
<1>12. CASE Repaired(t)
  <2>1. repair[t] # Idle /\ editor'[t] = repair[t].json /\ repair'[t] = Idle
    BY <1>12, <1>t DEF Repaired
  <2>2. check[t] = Idle /\ save[t] = Idle
    BY <2>1
  <2>3. CASE repair[t].at = "repaired"
    <3>1. checked'[t] /\ (ready'[t] => repair[t].json \in Complete) /\ ~offer'[t]
      BY <1>12, <1>t, <2>3 DEF Repaired
    <3> QED
      BY <1>12, <1>t, <2>1, <2>2, <2>3, <3>1 DEF Repaired
  <2>4. CASE repair[t].at # "repaired"
    BY <1>12, <1>t, <2>1, <2>2, <2>4 DEF Repaired
  <2> QED
    BY <2>3, <2>4
<1>13. CASE ClickSave(t)
  <2>1. save'[t].json = editor[t] /\ check[t] = Idle /\ repair[t] = Idle
    BY <1>13, <1>t DEF ClickSave
  <2> QED
    BY <1>13, <1>t, <2>1 DEF ClickSave
<1>14. ASSUME save[t] # Idle, save'[t] = Idle \/ save'[t].json = save[t].json,
              UNCHANGED <<editor, checked, ready, check, repair>>, offer'[t] => offer[t]
       PROVE  PanelInv(t)'
  BY <1>14, <1>t
<1>16. CASE SavePreflight(t)
  <2>1. save[t] # Idle /\ suite[ReviewOf[t]] \in Complete
    BY <1>16, <1>t DEF SavePreflight, IInv, SaveInv
  <2>2. (save'[t] = Idle \/ save'[t].json = save[t].json) /\ UNCHANGED <<editor, checked, ready, offer, check, repair>>
    BY <1>16, <1>t, <2>1, SaveKeepsDraft DEF SavePreflight
  <2> QED
    BY <1>14, <2>1, <2>2
<1>17. CASE SaveTimesOut(t)
  BY <1>17, <1>t DEF SaveTimesOut
<1>18. CASE WriteForSave(t) \/ Compare(t) \/ WriteOfficial(t) \/ Confirm(t)
  <2>1. save[t] # Idle /\ (save'[t] = Idle \/ save'[t].json = save[t].json)
    BY <1>18, <1>t, SaveKeepsDraft
  <2>2. UNCHANGED <<editor, checked, ready, check, repair>>
    BY <1>18 DEF WriteForSave, Compare, WriteOfficial, Confirm
  <2>3. offer'[t] => offer[t]
    BY <1>18, <1>t DEF WriteForSave, Compare, WriteOfficial, Confirm
  <2> QED
    BY <1>14, <2>1, <2>2, <2>3
<1> QED
  BY <1>1, <1>2, <1>3, <1>4, <1>5, <1>6, <1>8, <1>9, <1>10, <1>11, <1>12, <1>13, <1>16, <1>17, <1>18
  DEF Tab, Handler

(* The buttons of a tab whose user waits for answers, and whose preflights *)
(* end in time, are enabled only for a draft that passed as it stands, if  *)
(* no two tabs share a review: for any number of tabs, drafts and rounds.  *)
THEOREM EnabledCorrect == ReviewsApart /\ Spec => []EnabledMeansChecked
<1> SUFFICES ASSUME ReviewsApart PROVE Spec => []EnabledMeansChecked
  OBVIOUS
<1>1. Init => IInv /\ EnabledInv
  BY ConstantsAssumption, IdleAt
  DEF Init, IInv, SaveInv, OfficialPassedPreflight, EnabledInv, PanelInv, FlagInv, CheckInv, RepairInv
<1>2. TypeOK /\ (IInv /\ EnabledInv) /\ [Next]_vars => (IInv /\ EnabledInv)'
  <2> SUFFICES ASSUME TypeOK, IInv, EnabledInv, [Next]_vars PROVE IInv' /\ EnabledInv'
    OBVIOUS
  <2>1. CASE UNCHANGED vars
    BY <2>1 DEF IInv, SaveInv, OfficialPassedPreflight, EnabledInv, PanelInv, FlagInv, CheckInv,
                RepairInv, vars
  <2>2. ASSUME NEW t \in Tabs, Tab(t) \/ Handler(t) PROVE IInv' /\ EnabledInv'
    <3>1. IInv'
      BY <2>2, SaveStep
    <3>2. ASSUME NEW u \in Patient \ Slow, u # t PROVE PanelInv(u)'
      <4>1. u \in Tabs \ {t} /\ PanelInv(u)
        BY <3>2, ConstantsAssumption DEF EnabledInv
      <4> QED
        BY <2>2, <4>1, OthersKeep DEF PanelInv, FlagInv, CheckInv, RepairInv
    <3>3. t \in Patient \ Slow => PanelInv(t)'
      BY <2>2, PanelStep DEF EnabledInv
    <3> QED
      BY <3>1, <3>2, <3>3 DEF EnabledInv
  <2> QED
    BY <2>1, <2>2 DEF Next
<1>3. EnabledInv => EnabledMeansChecked
  BY DEF EnabledInv, PanelInv, FlagInv, EnabledMeansChecked
<1> QED
  BY <1>1, <1>2, <1>3, DraftTypeCorrect, PTL DEF Spec
=============================================================================
