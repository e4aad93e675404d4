--------------------------- MODULE DraftActivation ---------------------------
(***************************************************************************)
(* From a generated draft to an official test case file: the draft editor  *)
(* of each browser tab, its preflight, repair and save requests, and the   *)
(* handlers that serve them.  Preflight and save of a review both go       *)
(* through the one file preflight/<reviewId>/suite.json, which the runner  *)
(* they start reads; all tabs save to the same official file.              *)
(***************************************************************************)
EXTENDS Naturals, FiniteSets

CONSTANTS
  Tabs,
  Contents,      \* the drafts, up to normalisation
  Runnable,      \* those that pass the preflight with incomplete coverage
  Complete,      \* those that pass the full preflight
  ReviewOf,      \* the reviewId of the draft of each tab
  Patient,       \* the tabs whose users leave the editor alone while a request is under way
  RequestsWait,  \* is at most one request of a tab under way?
  Slow,          \* the tabs whose preflights may take more than 30 seconds
  MaxRepairs,    \* maximumRepairs
  Absent

ASSUME ConstantsAssumption ==
  /\ Complete \subseteq Runnable /\ Runnable \subseteq Contents
  /\ Tabs \subseteq DOMAIN ReviewOf
  /\ Patient \subseteq Tabs /\ Slow \subseteq Tabs /\ RequestsWait \in BOOLEAN
  /\ MaxRepairs \in Nat \ {0}
  /\ Absent \notin Contents

VARIABLES
  editor,    \* draftJson of each tab
  checked,   \* generatorPreflightPassed
  ready,     \* generatorReadyToSave
  offer,     \* is the repair button shown?
  check,     \* the preflight request of each tab
  repair,    \* the repair request of each tab
  save,      \* the save request of each tab
  suite,     \* suite.json of each review
  official   \* the official test case file

vars == <<editor, checked, ready, offer, check, repair, save, suite, official>>
panel == <<editor, checked, ready, offer>>
flags == <<checked, ready>>

Idle == [at |-> "idle"]
Reviews == {ReviewOf[t] : t \in Tabs}
Stored == Contents \cup {Absent}

CheckStates ==
  {Idle} \cup [at : {"received", "written", "runnable"}, json : Contents]
         \cup [at : {"answered"}, passed : BOOLEAN, ready : BOOLEAN]

RepairStates ==
  {Idle} \cup [at : {"checking", "repaired", "gave up"}, json : Contents, round : 0 .. MaxRepairs]

SaveStates ==
  {Idle} \cup [at : {"received", "written", "passed", "agreed"}, json : Contents, seen : Stored]
         \cup [at : {"confirm"}, json : Contents, seen : Contents]

TypeOK ==
  /\ editor \in [Tabs -> Contents]
  /\ checked \in [Tabs -> BOOLEAN] /\ ready \in [Tabs -> BOOLEAN]
  /\ offer \in [Tabs -> BOOLEAN]
  /\ check \in [Tabs -> CheckStates]
  /\ repair \in [Tabs -> RepairStates]
  /\ save \in [Tabs -> SaveStates]
  /\ suite \in [Reviews -> Stored]
  /\ official \in Stored

(* Every tab has a fresh draft; somebody may have saved the file before.   *)
Init ==
  /\ editor \in [Tabs -> Contents]
  /\ checked = [t \in Tabs |-> FALSE]
  /\ ready = [t \in Tabs |-> FALSE]
  /\ offer = [t \in Tabs |-> FALSE]
  /\ check = [t \in Tabs |-> Idle]
  /\ repair = [t \in Tabs |-> Idle]
  /\ save = [t \in Tabs |-> Idle]
  /\ suite = [r \in Reviews |-> Absent]
  /\ official \in Complete \cup {Absent}
-----------------------------------------------------------------------------
(* The editor.                                                             *)

(* A status line that tells of a failed preflight shows the repair button. *)
Offer(t, shown) == offer' = [offer EXCEPT ![t] = shown]

Quiet(t) == check[t] = Idle /\ repair[t] = Idle /\ save[t] = Idle

(* Mutant: an edit does not take back what the last preflight allowed.     *)
EditKeepsReady(t, c) ==
  /\ t \in Patient => Quiet(t)
  /\ c # editor[t]
  /\ editor' = [editor EXCEPT ![t] = c]
  /\ Offer(t, FALSE)
  /\ UNCHANGED <<flags, check, repair, save, suite, official>>

(* oninput of draftJson: the status line no longer tells of an error.      *)
Edit(t, c) ==
  /\ t \in Patient => Quiet(t)
  /\ c # editor[t]
  /\ editor' = [editor EXCEPT ![t] = c]
  /\ checked' = [checked EXCEPT ![t] = FALSE]
  /\ ready' = [ready EXCEPT ![t] = FALSE]
  /\ Offer(t, FALSE)
  /\ UNCHANGED <<check, repair, save, suite, official>>
-----------------------------------------------------------------------------
(* Preflight: the handler writes suite.json, then runs the runner on it,   *)
(* and a second time with full coverage.                                   *)

ClickPreflight(t) ==
  /\ RequestsWait => Quiet(t)
  /\ check[t] = Idle /\ repair[t] = Idle
  /\ check' = [check EXCEPT ![t] = [at |-> "received", json |-> editor[t]]]
  /\ Offer(t, FALSE)
  /\ UNCHANGED <<editor, flags, repair, save, suite, official>>

WriteForCheck(t) ==
  /\ check[t].at = "received"
  /\ suite' = [suite EXCEPT ![ReviewOf[t]] = check[t].json]
  /\ check' = [check EXCEPT ![t].at = "written"]
  /\ UNCHANGED <<panel, repair, save, official>>

Answer(passed, isReady) == [at |-> "answered", passed |-> passed, ready |-> isReady]

CheckRunnable(t) ==
  /\ check[t].at = "written"
  /\ check' = [check EXCEPT ![t] = IF suite[ReviewOf[t]] \in Runnable
                                     THEN [@ EXCEPT !.at = "runnable"]
                                     ELSE Answer(FALSE, FALSE)]
  /\ UNCHANGED <<panel, repair, save, suite, official>>

CheckComplete(t) ==
  /\ check[t].at = "runnable"
  /\ check' = [check EXCEPT ![t] = Answer(TRUE, suite[ReviewOf[t]] \in Complete)]
  /\ UNCHANGED <<panel, repair, save, suite, official>>

(* A preflight takes more than 30 seconds and is killed: the first counts  *)
(* as failed, the second as not ready.                                     *)
CheckTimesOut(t) ==
  /\ t \in Slow
  /\ check[t].at \in {"written", "runnable"}
  /\ check' = [check EXCEPT ![t] = Answer(@.at = "runnable", FALSE)]
  /\ UNCHANGED <<panel, repair, save, suite, official>>

StartRepair(t) ==
  /\ repair' = [repair EXCEPT ![t] = [at |-> "checking", json |-> editor[t], round |-> 0]]
  /\ Offer(t, FALSE)

(* The answer sets the flags of the panel, whatever the editor holds now.  *)
(* A failure starts a repair or offers one.                                *)
CheckAnswered(t) ==
  /\ check[t].at = "answered"
  /\ checked' = [checked EXCEPT ![t] = check[t].passed]
  /\ ready' = [ready EXCEPT ![t] = check[t].ready]
  /\ check' = [check EXCEPT ![t] = Idle]
  /\ \/ repair' = repair /\ Offer(t, ~check[t].passed)
     \/ ~check[t].passed /\ StartRepair(t)
  /\ UNCHANGED <<editor, save, suite, official>>
-----------------------------------------------------------------------------
(* Repair: check, let the AI rewrite, check again; in a directory of its   *)
(* own for every round.                                                    *)

ClickRepair(t) ==
  /\ RequestsWait => Quiet(t)
  /\ offer[t] /\ check[t] = Idle /\ repair[t] = Idle
  /\ StartRepair(t)
  /\ UNCHANGED <<editor, flags, check, save, suite, official>>

Rewrite(t, c) ==
  repair' = [repair EXCEPT ![t] = [at |-> "checking", json |-> c, round |-> @.round + 1]]

(* Mutant: one round more than maximumRepairs.                             *)
RepairRoundOneMore(t) ==
  /\ repair[t].at = "checking"
  /\ \/ repair[t].json \in Runnable /\ repair' = [repair EXCEPT ![t].at = "repaired"]
     \/ /\ repair[t].json \notin Runnable \/ t \in Slow
        /\ IF repair[t].round > MaxRepairs
             THEN repair' = [repair EXCEPT ![t].at = "gave up"]
             ELSE \E c \in Contents : Rewrite(t, c)
  /\ UNCHANGED <<panel, check, save, suite, official>>

(* The draft is checked at most maximumRepairs + 1 times; a check that     *)
(* takes too long counts as failed, and what the AI writes then is         *)
(* another draft.                                                          *)
RepairRound(t) ==
  /\ repair[t].at = "checking"
  /\ \/ repair[t].json \in Runnable /\ repair' = [repair EXCEPT ![t].at = "repaired"]
     \/ /\ repair[t].json \notin Runnable \/ t \in Slow
        /\ IF repair[t].round = MaxRepairs
             THEN repair' = [repair EXCEPT ![t].at = "gave up"]
             ELSE \E c \in Contents : Rewrite(t, c)
  /\ UNCHANGED <<panel, check, save, suite, official>>

(* The generator or the request fails; some of its messages keep the       *)
(* button in sight.                                                        *)
RepairFails(t) ==
  /\ repair[t].at = "checking"
  /\ repair' = [repair EXCEPT ![t] = Idle]
  /\ \E shown \in BOOLEAN : Offer(t, shown)
  /\ UNCHANGED <<editor, flags, check, save, suite, official>>

(* What was repaired replaces the draft and sets the flags; the last JSON  *)
(* of a repair that gave up replaces the draft and leaves the flags alone. *)
Repaired(t) ==
  /\ repair[t].at \in {"repaired", "gave up"}
  /\ editor' = [editor EXCEPT ![t] = repair[t].json]
  /\ IF repair[t].at = "repaired"
       THEN /\ checked' = [checked EXCEPT ![t] = TRUE]
            /\ \E inTime \in {TRUE, t \notin Slow} :
                 ready' = [ready EXCEPT ![t] = inTime /\ repair[t].json \in Complete]
            /\ Offer(t, FALSE)
       ELSE Offer(t, TRUE) /\ UNCHANGED flags
  /\ repair' = [repair EXCEPT ![t] = Idle]
  /\ UNCHANGED <<check, save, suite, official>>
-----------------------------------------------------------------------------
(* Save: activate.                                                         *)

ClickSave(t) ==
  /\ RequestsWait => Quiet(t)
  /\ ready[t] /\ save[t] = Idle
  /\ save' = [save EXCEPT ![t] = [at |-> "received", json |-> editor[t], seen |-> Absent]]
  /\ UNCHANGED <<panel, check, repair, suite, official>>

WriteForSave(t) ==
  /\ save[t].at = "received"
  /\ suite' = [suite EXCEPT ![ReviewOf[t]] = save[t].json]
  /\ save' = [save EXCEPT ![t].at = "written"]
  /\ UNCHANGED <<panel, check, repair, official>>

SaveRefused(t) ==
  /\ save' = [save EXCEPT ![t] = Idle]
  /\ Offer(t, TRUE)

(* Mutant: the save makes do with the preflight of the panel.              *)
SavePreflightLoose(t) ==
  /\ save[t].at = "written"
  /\ IF suite[ReviewOf[t]] \in Runnable
       THEN save' = [save EXCEPT ![t].at = "passed"] /\ UNCHANGED offer
       ELSE SaveRefused(t)
  /\ UNCHANGED <<editor, flags, check, repair, suite, official>>

(* The runner reads the suite of the review, not the JSON of the request.  *)
SavePreflight(t) ==
  /\ save[t].at = "written"
  /\ IF suite[ReviewOf[t]] \in Complete
       THEN save' = [save EXCEPT ![t].at = "passed"] /\ UNCHANGED offer
       ELSE SaveRefused(t)
  /\ UNCHANGED <<editor, flags, check, repair, suite, official>>

SaveTimesOut(t) ==
  /\ t \in Slow
  /\ save[t].at = "written"
  /\ SaveRefused(t)
  /\ UNCHANGED <<editor, flags, check, repair, suite, official>>

(* The official file as it is now decides: nothing there, or what the user *)
(* confirmed to overwrite: go on; the same content, or another one than    *)
(* confirmed: done; something not confirmed: ask.                          *)
MayWrite(r) == official = Absent \/ (official = r.seen /\ official # r.json)
MustAsk(r) == official \notin {Absent, r.json} /\ r.seen = Absent

Compare(t) ==
  /\ save[t].at = "passed"
  /\ LET r == save[t] IN
       \/ /\ MayWrite(r)
          /\ save' = [save EXCEPT ![t].at = "agreed"]
          /\ UNCHANGED offer
       \/ /\ MustAsk(r)
          /\ save' = [save EXCEPT ![t] = [at |-> "confirm", json |-> r.json, seen |-> official]]
          /\ UNCHANGED offer
       \/ /\ ~MayWrite(r) /\ ~MustAsk(r)
          /\ save' = [save EXCEPT ![t] = Idle]
          /\ Offer(t, FALSE)
  /\ UNCHANGED <<editor, flags, check, repair, suite, official>>

(* File.WriteAllTextAsync of the official file.                            *)
WriteOfficial(t) ==
  /\ save[t].at = "agreed"
  /\ official' = save[t].json
  /\ save' = [save EXCEPT ![t] = Idle]
  /\ Offer(t, FALSE)
  /\ UNCHANGED <<editor, flags, check, repair, suite>>

(* The user is shown the hash of the file and confirms, and the same JSON  *)
(* is sent again; or declines.                                             *)
Confirm(t) ==
  /\ save[t].at = "confirm"
  /\ \/ save' = [save EXCEPT ![t].at = "received"]
     \/ save' = [save EXCEPT ![t] = Idle]
  /\ UNCHANGED <<panel, check, repair, suite, official>>
-----------------------------------------------------------------------------
Tab(t) ==
  \/ \E c \in Contents : Edit(t, c)
  \/ ClickPreflight(t) \/ CheckAnswered(t) \/ ClickRepair(t) \/ Repaired(t) \/ ClickSave(t) \/ Confirm(t)

Handler(t) ==
  \/ WriteForCheck(t) \/ CheckRunnable(t) \/ CheckComplete(t) \/ CheckTimesOut(t)
  \/ RepairRound(t) \/ RepairFails(t)
  \/ WriteForSave(t) \/ SavePreflight(t) \/ SaveTimesOut(t) \/ Compare(t) \/ WriteOfficial(t)

Next == \E t \in Tabs : Tab(t) \/ Handler(t)

Spec == Init /\ [][Next]_vars
-----------------------------------------------------------------------------
(* Properties.                                                             *)

(* Only what passes the full preflight becomes official.                   *)
OfficialPassedPreflight == official \in Complete \cup {Absent}

(* The buttons are enabled for the draft that was checked: a draft that    *)
(* can be run or saved has passed the preflight as it stands, if its user  *)
(* waits for the answer to a request and no preflight takes too long.      *)
EnabledMeansChecked ==
  \A t \in Patient \ Slow :
    /\ checked[t] => editor[t] \in Runnable
    /\ ready[t] => editor[t] \in Complete

(* A file is overwritten only while it still is what the user confirmed to *)
(* overwrite.                                                              *)
OverwriteIsConfirmed ==
  [][\A t \in Tabs : save[t].at = "agreed" /\ save'[t] = Idle =>
       official \in {Absent, save[t].seen, save[t].json}]_vars
=============================================================================
