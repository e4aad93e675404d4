---------------------------- MODULE UpdateCheck -----------------------------
(***************************************************************************)
(* The update check of the Archify skill: commands that share a cache      *)
(* directory and no memory.  A command that changes the cache reserves a   *)
(* generation, which becomes the directory pending-g; takes the one active *)
(* claim, retiring that of an owner that ended or outlived its lease;      *)
(* fences the lower generations that are still pending; reads the state of *)
(* the last committed generation; and commits its own by renaming          *)
(* pending-g to committed-g.  Any call on the way may fail, and a process  *)
(* may stop anywhere: see Fail.                                            *)
(***************************************************************************)
EXTENDS UpdateState

CONSTANTS
  Role,           \* "check", or the digest the command acknowledges
  MaxGeneration,  \* MAX_OPERATION_GENERATION
  MaxAttempts     \* the turns of promoteOperationClaim

Generations == 1..MaxGeneration

ASSUME UpdateAssumption ==
  /\ Role \in [Processes -> Digests \cup {"check"}]
  /\ "check" \notin Digests
  /\ MaxGeneration \in Nat /\ MaxAttempts \in Nat

VARIABLES
  kind,    \* what generation g is: the directory <kind>-g, "none" before;
           \* "stale" is a pending-g that outlived LOCK_STALE_MS
  body,    \* the state file in committed-g
  claim,   \* the generation that owns active-claim, 0 when it is absent
  pc,      \* where each command is
  op,      \* its generation, 0 before it has one
  seen,    \* the claim it decided to retire
  todo,    \* the generations it has still to fence
  tries,   \* its attempts to promote its claim
  found,   \* what its fetch brought: a digest, or None when it failed
  view,    \* the state it computes its change from
  result   \* its answer, None before it ends

local == <<op, seen, todo, tries, found, view>>
vars == <<kind, body, claim, pc, local, result>>

Kinds == {"none", "reserved", "pending", "stale", "committed", "fenced", "cancelled"}
Acquiring == {"look", "reserve", "mkdir", "owner", "superseded",
              "inspect", "retire", "promote", "promoted"}
Working == {"fresh", "owns", "fetch", "commit", "list", "fence", "stillOwns", "read",
            "store"}
Leaving == {"idle", "giveUp", "cached", "again", "tidy", "ended"}

Checker(p) == Role[p] = "check"
-----------------------------------------------------------------------------
(* What a look into the directory finds.                                   *)

Superseded(g) == \E h \in Generations : h > g /\ kind[h] # "none"

(* The directory pending-g is there.                                       *)
Pending(g) == kind[g] \in {"pending", "stale"}

(* operationIsActive *)
Active(g) == kind[g] = "pending"

(* inspectActiveClaim; the owner of a claim has a directory of some kind.  *)
ClaimState ==
  IF claim = 0 THEN "absent" ELSE IF Active(claim) THEN "busy" ELSE "releasable"

(* operationOwnsActiveClaim *)
Owns(p) == claim = op[p] /\ ClaimState = "busy"

(* What normalizeState accepts of a state file.                            *)
Readable(s) == (s.candidate \in Newer => s.candidate \in Offered(s)) /\ Fits(s)

Readings(k, b) == {g \in Generations : k[g] = "committed" /\ Readable(b[g])}

(* readState: the newest committed generation that can be read.            *)
StateOf(k, b) ==
  IF Readings(k, b) = {} THEN EmptyState
  ELSE b[CHOOSE g \in Readings(k, b) : \A h \in Readings(k, b) : h <= g]

Current == StateOf(kind, body)
-----------------------------------------------------------------------------
Init ==
  /\ kind \in {[g \in Generations |-> "none"],
               [g \in Generations |-> IF g = 1 THEN "committed" ELSE "none"]}
  /\ \E s \in States :
       /\ Readable(s) /\ s.checked /\ s.candidate # None /\ s.acked = {}
       /\ s.offered \subseteq {s.candidate}
       /\ body = [g \in Generations |-> IF kind[g] = "committed" THEN s ELSE EmptyState]
  /\ claim = 0
  /\ pc = [p \in Processes |-> "idle"]
  /\ op = [p \in Processes |-> 0]
  /\ seen = [p \in Processes |-> 0]
  /\ todo = [p \in Processes |-> {}]
  /\ tries = [p \in Processes |-> 0]
  /\ found = [p \in Processes |-> None]
  /\ view = [p \in Processes |-> EmptyState]
  /\ result = [p \in Processes |-> None]

Turn(g, k) == kind' = [kind EXCEPT ![g] = k]

(* Thirty seconds pass without the pending operation ending.               *)
Lapse(g) ==
  /\ Active(g)
  /\ Turn(g, "stale")
  /\ UNCHANGED <<body, claim, pc, local, result>>

At(p, here) == pc[p] = here
GoTo(p, there) == pc' = [pc EXCEPT ![p] = there]

Answer(p, r) == result' = [result EXCEPT ![p] = r]

(* What a command had in hand when its operation ends.                     *)
Forget(p) ==
  /\ seen' = [seen EXCEPT ![p] = 0]
  /\ todo' = [todo EXCEPT ![p] = {}]
  /\ tries' = [tries EXCEPT ![p] = 0]
  /\ found' = [found EXCEPT ![p] = None]
  /\ view' = [view EXCEPT ![p] = EmptyState]
  /\ op' = [op EXCEPT ![p] = 0]

EndWith(p, r) == GoTo(p, "ended") /\ Answer(p, r) /\ Forget(p)

(* checkForUpdate reads the cache before anything else; nextCheckAt may be *)
(* ahead or past.  acknowledgeUpdate goes straight for the operation.      *)
Start(p) ==
  /\ At(p, "idle")
  /\ \/ GoTo(p, "look") /\ UNCHANGED <<local, result>>
     \/ Checker(p) /\ Current.checked /\ EndWith(p, ResultFor(Current))
  /\ UNCHANGED <<kind, body, claim>>

(* A read that lets the command go on or turns it away.                    *)
Decide(p, here, yes, next, other) ==
  /\ At(p, here)
  /\ GoTo(p, IF yes THEN next ELSE other)
  /\ UNCHANGED <<kind, body, claim, local, result>>

(* acquireOperation *)
Turned(p) == IF Checker(p) THEN "cached" ELSE "again"

(* The look at the claim comes first, but a claim is busy only when there  *)
(* is an active pending operation, which is what hasActivePendingOperation *)
(* looks for.                                                              *)
Look(p) == Decide(p, "look", \A g \in Generations : ~Active(g), "reserve", Turned(p))

(* reserveOperation: the lowest number that was never reserved, since a    *)
(* reservation stays and mkdir is exclusive.                               *)
Reserve(p) ==
  /\ At(p, "reserve")
  /\ \E g \in Generations :
       /\ kind[g] = "none" /\ \A h \in 1..(g - 1) : kind[h] # "none"
       /\ Turn(g, "reserved")
       /\ op' = [op EXCEPT ![p] = g]
  /\ GoTo(p, "mkdir")
  /\ UNCHANGED <<body, claim, seen, todo, tries, found, view, result>>

OutOfGenerations(p) ==
  /\ At(p, "reserve") /\ \A g \in Generations : kind[g] # "none"
  /\ EndWith(p, Silent)
  /\ UNCHANGED <<kind, body, claim>>

MakePending(p) ==
  /\ At(p, "mkdir")
  /\ Turn(op[p], "pending")
  /\ GoTo(p, "owner")
  /\ UNCHANGED <<body, claim, local, result>>

WriteOwner(p) == Decide(p, "owner", Pending(op[p]), "superseded", "giveUp")
-----------------------------------------------------------------------------
(* promoteOperationClaim *)

SeeWhetherSuperseded(p) ==
  Decide(p, "superseded", ~Superseded(op[p]) /\ tries[p] < MaxAttempts, "inspect", "giveUp")

Inspect(p) ==
  /\ At(p, "inspect")
  /\ \/ ClaimState = "busy" /\ GoTo(p, "giveUp") /\ UNCHANGED seen
     \/ ClaimState = "releasable" /\ claim > op[p] /\ GoTo(p, "giveUp") /\ UNCHANGED seen
     \/ /\ ClaimState = "releasable" /\ claim <= op[p]
        /\ GoTo(p, "retire") /\ seen' = [seen EXCEPT ![p] = claim]
     \/ ClaimState = "absent" /\ GoTo(p, "promote") /\ UNCHANGED seen
  /\ UNCHANGED <<kind, body, claim, op, todo, tries, found, view, result>>

TryAgain(p) == GoTo(p, "superseded") /\ tries' = [tries EXCEPT ![p] = @ + 1]

(* retireActiveClaim moves the claim to retired-claim-<its owner>/active,  *)
(* which fails when that claim has been moved there before.                *)
Retire(p) ==
  /\ At(p, "retire")
  /\ claim' = IF claim = seen[p] THEN 0 ELSE claim
  /\ TryAgain(p)
  /\ seen' = [seen EXCEPT ![p] = 0]
  /\ UNCHANGED <<kind, body, op, todo, found, view, result>>

(* Renaming the prepared claim to active-claim fails when one is there.    *)
Promote(p) ==
  /\ At(p, "promote")
  /\ IF claim = 0
     THEN claim' = op[p] /\ GoTo(p, "promoted") /\ tries' = [tries EXCEPT ![p] = 0]
     ELSE TryAgain(p) /\ UNCHANGED claim
  /\ UNCHANGED <<kind, body, op, seen, todo, found, view, result>>

Promoted(p) ==
  Decide(p, "promoted", Active(op[p]), IF Checker(p) THEN "fresh" ELSE "commit", "giveUp")
-----------------------------------------------------------------------------
(* checkForUpdate, with the operation.                                     *)

(* Another command may have checked in the meantime; when the operation    *)
(* cannot be cancelled after that, the answer is "cache-unavailable".      *)
SeeWhetherFresh(p) ==
  /\ At(p, "fresh")
  /\ \/ GoTo(p, "owns") /\ UNCHANGED result
     \/ /\ Current.checked /\ GoTo(p, "tidy")
        /\ \E r \in {ResultFor(Current), Silent} : Answer(p, r)
  /\ UNCHANGED <<kind, body, claim, local>>

SeeWhetherOwner(p) == Decide(p, "owns", Owns(p), "fetch", "giveUp")

Fetch(p) ==
  /\ At(p, "fetch")
  /\ \E d \in Digests \cup {None} : found' = [found EXCEPT ![p] = d]
  /\ GoTo(p, "commit")
  /\ UNCHANGED <<kind, body, claim, op, seen, todo, tries, view, result>>
-----------------------------------------------------------------------------
(* commitOperation *)

(* A commit that lost its claim: a check is over, an acknowledgement tries *)
(* again; both cancel their operation.                                     *)
LoseCommit(p) ==
  IF Checker(p) THEN GoTo(p, "tidy") /\ Answer(p, Silent)
                ELSE GoTo(p, "giveUp") /\ UNCHANGED result

SeeWhetherOwnerThen(p, here, there) ==
  /\ At(p, here)
  /\ IF Owns(p) THEN GoTo(p, there) /\ UNCHANGED result ELSE LoseCommit(p)
  /\ UNCHANGED <<kind, body, claim, local>>

Commit(p) == SeeWhetherOwnerThen(p, "commit", "list")
StillOwns(p) == SeeWhetherOwnerThen(p, "stillOwns", "read")

(* Mutant: nobody is fenced.                                               *)
ListNone(p) ==
  /\ At(p, "list")
  /\ todo' = [todo EXCEPT ![p] = {}]
  /\ GoTo(p, "fence")
  /\ UNCHANGED <<kind, body, claim, op, seen, tries, found, view, result>>

(* fenceLowerOperations: the lower pending operations ...                  *)
ListLower(p) ==
  /\ At(p, "list")
  /\ todo' = [todo EXCEPT ![p] = {g \in Generations : g < op[p] /\ Pending(g)}]
  /\ GoTo(p, "fence")
  /\ UNCHANGED <<kind, body, claim, op, seen, tries, found, view, result>>

(* ... are renamed one by one; one that is not pending any more is left.   *)
Fence(p) ==
  /\ At(p, "fence")
  /\ IF todo[p] = {}
     THEN GoTo(p, "stillOwns") /\ UNCHANGED <<kind, todo>>
     ELSE \E g \in todo[p] :
            /\ \A h \in todo[p] : g <= h
            /\ kind' = IF Pending(g) THEN [kind EXCEPT ![g] = "fenced"] ELSE kind
            /\ todo' = [todo EXCEPT ![p] = @ \ {g}]
            /\ UNCHANGED pc
  /\ UNCHANGED <<body, claim, op, seen, tries, found, view, result>>

(* An acknowledgement of what was never offered is cancelled.              *)
Read(p) ==
  /\ At(p, "read")
  /\ view' = [view EXCEPT ![p] = Current]
  /\ IF Checker(p) \/ Role[p] \in Offered(Current)
     THEN GoTo(p, "store") /\ UNCHANGED result
     ELSE GoTo(p, "tidy") /\ Answer(p, Silent)
  /\ UNCHANGED <<kind, body, claim, op, seen, todo, tries, found>>

Outcome(p) ==
  IF Checker(p) THEN CheckOutcome(view[p], found[p])
  ELSE [state |-> AfterAcknowledgement(view[p], Role[p]), answer |-> Acknowledged(Role[p])]

(* The commit finds its directory gone: the operation was fenced.          *)
Fenced(p) ==
  /\ kind[op[p]] = "fenced"
  /\ LoseCommit(p)
  /\ UNCHANGED <<kind, body, claim, local>>

(* The state file is written within the operation's own directory, where   *)
(* nobody reads it before the directory is renamed: one step.  A rename    *)
(* that took place may still fail its verification: the answer is then     *)
(* "cache-unavailable".                                                    *)
Store(p) ==
  /\ At(p, "store")
  /\ \/ /\ Pending(op[p])
        /\ Turn(op[p], "committed")
        /\ body' = [body EXCEPT ![op[p]] = Outcome(p).state]
        /\ \E r \in {Outcome(p).answer, Silent} : EndWith(p, r)
        /\ UNCHANGED claim
     \/ Fenced(p)
-----------------------------------------------------------------------------
(* Ways out.                                                               *)

(* cancelOperation: nothing happens when the operation was fenced.         *)
Cancel(p, there) ==
  /\ kind' = IF Pending(op[p]) THEN [kind EXCEPT ![op[p]] = "cancelled"] ELSE kind
  /\ GoTo(p, there)
  /\ Forget(p)
  /\ UNCHANGED <<body, claim, result>>

GiveUp(p) == At(p, "giveUp") /\ Cancel(p, Turned(p))
Tidy(p) == At(p, "tidy") /\ Cancel(p, "ended")

(* A check without an operation announces a cached candidate on offer.     *)
AnswerFromCache(p) ==
  /\ At(p, "cached")
  /\ EndWith(p, IF Current.candidate \in Current.offered THEN ResultFor(Current) ELSE Silent)
  /\ UNCHANGED <<kind, body, claim>>

(* An acknowledgement tries again until ACK_LOCK_WAIT_MS have passed.      *)
Retry(p) ==
  /\ At(p, "again") /\ GoTo(p, "look")
  /\ UNCHANGED <<kind, body, claim, local, result>>

Expire(p) ==
  /\ At(p, "again") /\ EndWith(p, Silent)
  /\ UNCHANGED <<kind, body, claim>>

(* A call on the file system fails, a guard on the cache does not hold, or *)
(* the process dies.  Once the command has an operation it tries to cancel *)
(* it; before, and when that fails too, pending-g stays.                   *)
Fail(p) ==
  /\ pc[p] \in (Acquiring \cup Working \cup {"idle", "giveUp", "cached"})
  /\ EndWith(p, Silent)
  /\ kind' \in {kind} \cup
       (IF pc[p] \in Working /\ Pending(op[p])
        THEN {[kind EXCEPT ![op[p]] = "cancelled"]} ELSE {})
  /\ UNCHANGED <<body, claim>>
-----------------------------------------------------------------------------
Step(p) ==
  \/ Start(p) \/ Look(p)
  \/ Reserve(p) \/ OutOfGenerations(p) \/ MakePending(p) \/ WriteOwner(p)
  \/ SeeWhetherSuperseded(p) \/ Inspect(p) \/ Retire(p) \/ Promote(p) \/ Promoted(p)
  \/ SeeWhetherFresh(p) \/ SeeWhetherOwner(p) \/ Fetch(p)
  \/ Commit(p) \/ ListLower(p) \/ Fence(p) \/ StillOwns(p) \/ Read(p) \/ Store(p)
  \/ GiveUp(p) \/ Tidy(p) \/ AnswerFromCache(p)

Next ==
  \/ \E p \in Processes : Step(p) \/ Retry(p) \/ Expire(p) \/ Fail(p)
  \/ \E g \in Generations : Lapse(g)

(* A command that runs goes on, and the deadline of an acknowledgement     *)
(* passes: Expire is its last turn.                                        *)
Fairness == \A p \in Processes : WF_vars(Step(p)) /\ SF_vars(Expire(p))

Spec == Init /\ [][Next]_vars /\ Fairness
-----------------------------------------------------------------------------
TypeOK ==
  /\ kind \in [Generations -> Kinds]
  /\ body \in [Generations -> States]
  /\ claim \in 0..MaxGeneration
  /\ pc \in [Processes -> Acquiring \cup Working \cup Leaving]
  /\ op \in [Processes -> 0..MaxGeneration]
  /\ seen \in [Processes -> 0..MaxGeneration]
  /\ todo \in [Processes -> SUBSET Generations]
  /\ tries \in [Processes -> 0..MaxAttempts]
  /\ found \in [Processes -> Digests \cup {None}]
  /\ view \in [Processes -> States]
  /\ result \in [Processes -> Results \cup {None}]

(* Of the commands that took a claim and are within the lease of their     *)
(* operation, at most one asks the network (acquireOperation).             *)
OneFetcher ==
  \A p, q \in Processes :
    At(p, "fetch") /\ At(q, "fetch") /\ Active(op[p]) /\ Active(op[q]) => p = q

(* A command about to commit computed its state from what is current: no   *)
(* other commit is lost (fenceLowerOperations, operationIsSuperseded).     *)
CommitsOnCurrent ==
  \A p \in Processes :
    At(p, "store") /\ Pending(op[p]) => view[p] = Current

(* What was committed can be read back (normalizeState accepts what        *)
(* commitOperation wrote).                                                 *)
CommittedIsReadable == \A g \in Generations : kind[g] = "committed" => Readable(body[g])

(* A command that said "acknowledged" is not forgotten by any later        *)
(* command, what was announced can be acknowledged, and what is on disk is *)
(* what the next command reads.                                            *)
AnswersKept ==
  /\ CommittedIsReadable
  /\ \A p \in Processes : \A d \in Digests :
       /\ result[p] = Acknowledged(d) => d \in Current.acked
       /\ result[p] = Notice(d) => d \in Offered(Current)

(* The commands behave as if they ran one at a time on one record.         *)
Ledger == INSTANCE UpdateLedger WITH ledger <- Current
ImplementsLedger == Ledger!LedgerSpec

(* Every command ends, whatever the others leave behind.                   *)
Ends == \A p \in Processes : <>(pc[p] = "ended")
=============================================================================
