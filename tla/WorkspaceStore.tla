--------------------------- MODULE WorkspaceStore ---------------------------
(***************************************************************************)
(* The stored workspace of the API Builder and of UnitX, and the browser   *)
(* tabs that edit it.  One workspace (one path) is modelled: every path    *)
(* has a lock and a file of its own.                                       *)
(*                                                                         *)
(* The body of a workspace is the set of the edits it was made by, so that *)
(* "an edit is lost" can be said of it.  A save is read-check-write under  *)
(* the lock of its path: take the semaphore, load the stored workspace,    *)
(* compare its revision with the expected one, write a temporary file,     *)
(* move it over workspace.json, release the semaphore.  Loads take no lock.*)
(* The tab keeps reacting to its user while a request is under way.        *)
(***************************************************************************)
EXTENDS Naturals, FiniteSets

CONSTANTS
  Clients,      \* browser tabs and API callers, each with at most one request under way
  Blind,        \* those that may save without an expectedRevision
  Edits,        \* the edits users make; each is made once
  Invalid,      \* the edits that make the workspace fail Validate
  Retention,    \* can a restart delete the workspace as expired?
  MaxRevision,  \* bound on the saves explored
  Missing       \* no file, no workspace in the tab, no expectedRevision

ASSUME ConstantsAssumption ==
  /\ Blind \subseteq Clients
  /\ Invalid \subseteq Edits
  /\ Retention \in BOOLEAN
  /\ MaxRevision \in Nat
  /\ Missing \notin Clients
  /\ Missing \notin Nat
  /\ Missing \notin [revision : Nat, body : SUBSET Edits]

VARIABLES
  file,      \* workspace.json: Missing, or [revision, body]
  gate,      \* the caller that holds the SemaphoreSlim of the path, or Missing
  pc,        \* where the request of each client stands
  request,   \* the save each client asked for: [expected, body]
  current,   \* the local currentRevision of the save
  answer,    \* the workspace the server sends back
  tab,       \* state.apiBuilderWorkspace / state.unitXWorkspace of each client
  made       \* the edits made so far

vars == <<file, gate, pc, request, current, answer, tab, made>>
server == <<file, gate>>

Doc == [revision : Nat, body : SUBSET Edits]

(* The value of currentRevision for a stored workspace.                    *)
Revision(d) == IF d = Missing THEN 0 ELSE d.revision

Phases == {"idle", "waiting", "locked", "checked", "written", "moved",
           "saved", "loaded", "conflict", "failed"}

(* The phases in which the caller is inside WithWorkspaceLockAsync.        *)
Inside == {"locked", "checked", "written", "moved"}

(* What Validate accepts.                                                  *)
Valid(body) == body \cap Invalid = {}

TypeOK ==
  /\ file \in {Missing} \cup Doc
  /\ gate \in {Missing} \cup Clients
  /\ pc \in [Clients -> Phases]
  /\ request \in [Clients -> [expected : {Missing} \cup Nat, body : SUBSET Edits]]
  /\ current \in [Clients -> Nat]
  /\ answer \in [Clients -> {Missing} \cup Doc]
  /\ tab \in [Clients -> {Missing} \cup Doc]
  /\ made \subseteq Edits

Init ==
  /\ file = Missing
  /\ gate = Missing
  /\ pc = [c \in Clients |-> "idle"]
  /\ request = [c \in Clients |-> [expected |-> Missing, body |-> {}]]
  /\ current = [c \in Clients |-> 0]
  /\ answer = [c \in Clients |-> Missing]
  /\ tab = [c \in Clients |-> Missing]
  /\ made = {}
-----------------------------------------------------------------------------
(* The client.                                                             *)

(* Bound: no save starts that could take the revision past MaxRevision.    *)
Room == Revision(file) + Cardinality({c \in Clients : pc[c] # "idle"}) < MaxRevision

Goto(c, phase) == pc' = [pc EXCEPT ![c] = phase]

(* Mutant: the store no longer validates what it is asked to save.         *)
SubmitUnvalidated(c, expected, body) ==
  /\ pc[c] = "idle"
  /\ Room
  /\ request' = [request EXCEPT ![c] = [expected |-> expected, body |-> body]]
  /\ Goto(c, "waiting")
  /\ UNCHANGED <<server, current, answer, tab, made>>

(* A save reaches the server: Validate comes first, outside the lock.      *)
Submit(c, expected, body) ==
  /\ pc[c] = "idle"
  /\ Room
  /\ request' = [request EXCEPT ![c] = [expected |-> expected, body |-> body]]
  /\ Goto(c, IF Valid(body) THEN "waiting" ELSE "failed")
  /\ UNCHANGED <<server, current, answer, tab, made>>

(* CreateAsync saves an empty workspace without an expectedRevision under  *)
(* a fresh id: nobody has this workspace open or under way.                *)
Create(c) ==
  /\ file = Missing
  /\ \A d \in Clients : tab[d] = Missing /\ pc[d] = "idle"
  /\ Submit(c, Missing, {})

(* The Save button: the tab sends the revision it has.                     *)
Save(c) ==
  /\ tab[c] # Missing
  /\ Submit(c, tab[c].revision, tab[c].body)

(* A PUT whose ExpectedRevision is absent.                                 *)
BlindSave(c) ==
  /\ c \in Blind
  /\ tab[c] # Missing
  /\ Submit(c, Missing, tab[c].body)

(* The user edits the workspace in the tab, also while a request is under  *)
(* way: the handlers replace the state of the tab at once.                 *)
Edit(c, e) ==
  /\ tab[c] # Missing
  /\ e \notin made
  /\ tab' = [tab EXCEPT ![c].body = @ \cup {e}]
  /\ made' = made \cup {e}
  /\ UNCHANGED <<server, pc, request, current, answer>>

(* The response arrives.  A workspace replaces the one in the tab; an      *)
(* error only changes the status line.                                     *)
Receive(c) ==
  /\ pc[c] \in {"saved", "loaded", "conflict", "failed"}
  /\ Goto(c, "idle")
  /\ tab' = IF pc[c] \in {"saved", "loaded"} THEN [tab EXCEPT ![c] = answer[c]] ELSE tab
  /\ UNCHANGED <<server, request, current, answer, made>>
-----------------------------------------------------------------------------
(* The server.                                                             *)

(* LoadAsync: no lock; a workspace that does not pass Validate is an      *)
(* error.  The file is complete whenever it exists: Move replaces it whole. *)
Load(c) ==
  /\ pc[c] = "idle"
  /\ file # Missing
  /\ IF ~Valid(file.body)
       THEN Goto(c, "failed") /\ UNCHANGED answer
       ELSE Goto(c, "loaded") /\ answer' = [answer EXCEPT ![c] = file]
  /\ UNCHANGED <<server, request, current, tab, made>>

(* Mutant: no semaphore around the read-check-write.                       *)
AcquireUnlocked(c) ==
  /\ pc[c] = "waiting"
  /\ gate' = c
  /\ Goto(c, "locked")
  /\ UNCHANGED <<file, request, current, answer, tab, made>>

(* gate.WaitAsync returns.                                                 *)
Acquire(c) ==
  /\ pc[c] = "waiting"
  /\ gate = Missing
  /\ gate' = c
  /\ Goto(c, "locked")
  /\ UNCHANGED <<file, request, current, answer, tab, made>>

(* Mutants: an older revision is good enough; a missing expectation is     *)
(* compared as if it were a revision.                                      *)
MatchesOlder(c)  == request[c].expected \in {Missing} \cup 0 .. Revision(file)
MatchesAlways(c) == request[c].expected = Revision(file)

(* The stored revision is read and compared with the expected one.         *)
Matches(c) == request[c].expected \in {Missing, Revision(file)}

Check(c) ==
  /\ pc[c] = "locked"
  /\ Matches(c)
  /\ current' = [current EXCEPT ![c] = Revision(file)]
  /\ Goto(c, "checked")
  /\ UNCHANGED <<server, request, answer, tab, made>>

(* Mutant: the conflict leaves the critical section without releasing.     *)
ConflictKeepsGate(c) ==
  /\ pc[c] = "locked"
  /\ ~Matches(c)
  /\ Goto(c, "conflict")
  /\ UNCHANGED <<server, request, current, answer, tab, made>>

(* ApiBuilderWorkspaceConflictException; the finally block releases.       *)
Conflict(c) ==
  /\ pc[c] = "locked"
  /\ ~Matches(c)
  /\ gate' = Missing
  /\ Goto(c, "conflict")
  /\ UNCHANGED <<file, request, current, answer, tab, made>>

(* File.WriteAllTextAsync of the temporary file completes.                 *)
WriteTemp(c) ==
  /\ pc[c] = "checked"
  /\ Goto(c, "written")
  /\ UNCHANGED <<server, request, current, answer, tab, made>>

(* File.Move with overwrite: the stored workspace changes in one step.     *)
Move(c) ==
  /\ pc[c] = "written"
  /\ file' = [revision |-> current[c] + 1, body |-> request[c].body]
  /\ answer' = [answer EXCEPT ![c] = file']
  /\ Goto(c, "moved")
  /\ UNCHANGED <<gate, request, current, tab, made>>

Release(c) ==
  /\ pc[c] = "moved"
  /\ gate' = Missing
  /\ Goto(c, "saved")
  /\ UNCHANGED <<file, request, current, answer, tab, made>>

(* Reading, writing or moving fails: the temporary file is deleted and the *)
(* semaphore released by the finally blocks.                               *)
Fail(c) ==
  /\ pc[c] \in {"locked", "checked", "written"}
  /\ gate' = Missing
  /\ Goto(c, "failed")
  /\ UNCHANGED <<file, request, current, answer, tab, made>>

(* The client goes away: its token is cancelled where the code still       *)
(* passes it on, and a response on its way is lost.  The move is not       *)
(* cancellable: what was moved stays.                                      *)
Abort(c) ==
  /\ pc[c] \notin {"idle", "written", "moved"}
  /\ gate' = IF gate = c THEN Missing ELSE gate
  /\ Goto(c, "idle")
  /\ UNCHANGED <<file, request, current, answer, tab, made>>

(* The server process dies; the tabs stay open.                            *)
Crash ==
  /\ \E c \in Clients : pc[c] # "idle"
  /\ pc' = [c \in Clients |-> "idle"]
  /\ gate' = Missing
  /\ UNCHANGED <<file, request, current, answer, tab, made>>

(* DeleteExpiredWorkspaces runs once, when the server starts, before it    *)
(* listens.                                                                *)
Expire ==
  /\ Retention
  /\ file # Missing
  /\ \A c \in Clients : pc[c] = "idle"
  /\ file' = Missing
  /\ UNCHANGED <<gate, pc, request, current, answer, tab, made>>
-----------------------------------------------------------------------------
Handle(c) ==
  \/ Acquire(c) \/ Check(c) \/ Conflict(c) \/ WriteTemp(c) \/ Move(c) \/ Release(c)
  \/ Fail(c)

Client(c) ==
  \/ Create(c) \/ Save(c) \/ BlindSave(c) \/ Load(c) \/ Receive(c) \/ Abort(c)
  \/ \E e \in Edits : Edit(c, e)

Next ==
  \/ \E c \in Clients : Client(c) \/ Handle(c)
  \/ Crash
  \/ Expire

Spec == Init /\ [][Next]_vars

(* The server's threads keep running, responses arrive, and SemaphoreSlim  *)
(* serves its waiters in the order in which they came.                     *)
Fairness ==
  \A c \in Clients :
    /\ WF_vars(Handle(c))
    /\ SF_vars(Acquire(c))
    /\ WF_vars(Receive(c))

FairSpec == Spec /\ Fairness
-----------------------------------------------------------------------------
(* Properties.                                                             *)

(* The gate does its work: whoever is inside WithWorkspaceLockAsync holds  *)
(* the semaphore, and between the comparison and the move the revision the *)
(* comparison saw is still the stored one.                                 *)
LockInv ==
  /\ \A c \in Clients : pc[c] \in Inside <=> gate = c
  /\ \A c \in Clients :
       pc[c] \in {"checked", "written"} =>
         /\ current[c] = Revision(file)
         /\ Matches(c)

(* What passed Validate is all that is ever stored, so that a stored       *)
(* workspace can be loaded again.                                          *)
StoredIsLoadable == file # Missing => Valid(file.body)

(* A save that gives the revision it was made from never drops an edit     *)
(* that was stored in the meantime: its body has all the stored edits.     *)
Overwrites(c) ==
  /\ pc[c] = "written" /\ pc'[c] = "moved"
  /\ request[c].expected # Missing
  /\ file # Missing
  /\ ~(file.body \subseteq file'.body)

NoLostUpdate == [][\A c \in Clients : ~Overwrites(c)]_vars

(* Every save that reached the server comes to an end, however many other  *)
(* saves compete for the lock of the workspace.                            *)
SaveEnds == \A c \in Clients : pc[c] = "waiting" ~> pc[c] = "idle"

(* The store is an atomic versioned document.                              *)
CallOf(c) ==
  CASE pc[c] \in {"waiting", "locked", "checked", "written"} ->
         [state |-> "pending", expected |-> request[c].expected, body |-> request[c].body]
    [] pc[c] \in {"moved", "saved"} -> [state |-> "answered", result |-> "saved"]
    [] pc[c] = "conflict" -> [state |-> "answered", result |-> "conflict"]
    [] OTHER -> [state |-> "idle"]

Document ==
  INSTANCE VersionedDocument
    WITH doc <- file, call <- [c \in Clients |-> CallOf(c)], Bodies <- SUBSET Edits

ImplementsDocument == Document!Spec
=============================================================================
