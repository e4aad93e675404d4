------------------------- MODULE VersionedDocument -------------------------
(***************************************************************************)
(* What a workspace store promises its callers: one document with a        *)
(* revision number, written by atomic compare-and-set operations.  A call  *)
(* is submitted, takes effect at one instant (or is refused, or fails      *)
(* without effect), and is answered.  WorkspaceStore implements this       *)
(* specification with a lock, a read-check-write sequence and a temporary  *)
(* file.                                                                   *)
(***************************************************************************)
EXTENDS Naturals

CONSTANTS
  Clients,   \* browser tabs and API callers
  Bodies,    \* the contents a document may have
  Missing    \* no document; also "no expected revision"

VARIABLES
  doc,       \* Missing or [revision, body]
  call       \* call[c]: what client c has submitted and what came of it

vars == <<doc, call>>

NoCall           == [state |-> "idle"]
Answered(result) == [state |-> "answered", result |-> result]

Revision(d) == IF d = Missing THEN 0 ELSE d.revision

Init ==
  /\ doc = Missing
  /\ call = [c \in Clients |-> NoCall]

(* The client submits a save of the given body.                            *)
Submit(c) ==
  /\ call[c] = NoCall
  /\ call'[c] \in [state : {"pending"}, expected : {Missing} \cup Nat, body : Bodies]
  /\ call' = [call EXCEPT ![c] = call'[c]]
  /\ UNCHANGED doc

(* The save takes effect: the whole body is stored under the next revision.*)
Commit(c) ==
  /\ call[c].state = "pending"
  /\ call[c].expected \in {Missing, Revision(doc)}
  /\ doc' = [revision |-> Revision(doc) + 1, body |-> call[c].body]
  /\ call' = [call EXCEPT ![c] = Answered("saved")]

(* The save is refused, and only because the revision had moved.           *)
Refuse(c) ==
  /\ call[c].state = "pending"
  /\ call[c].expected \notin {Missing, Revision(doc)}
  /\ call' = [call EXCEPT ![c] = Answered("conflict")]
  /\ UNCHANGED doc

(* The save fails or is abandoned, without any effect.                     *)
Fail(c) ==
  /\ call[c].state = "pending"
  /\ call' \in {[call EXCEPT ![c] = Answered("failed")],
                [call EXCEPT ![c] = NoCall]}
  /\ UNCHANGED doc

(* The answer reaches the client, or is lost on the way.                   *)
Return(c) ==
  /\ call[c].state = "answered"
  /\ call' = [call EXCEPT ![c] = NoCall]
  /\ UNCHANGED doc

(* The server stops: no call survives.                                     *)
Restart ==
  /\ call' = [c \in Clients |-> NoCall]
  /\ UNCHANGED doc

(* The retention period ends and the document is deleted; this happens     *)
(* only at a start of the server, with no call under way.                  *)
Expire ==
  /\ call = [c \in Clients |-> NoCall]
  /\ doc' = Missing
  /\ UNCHANGED call

Next ==
  \/ \E c \in Clients : Submit(c) \/ Commit(c) \/ Refuse(c) \/ Fail(c) \/ Return(c)
  \/ Restart
  \/ Expire

Spec == Init /\ [][Next]_vars
============================================================================
