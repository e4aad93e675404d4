---------------------------- MODULE UpdateState -----------------------------
(***************************************************************************)
(* The record of the update check: what the last check found, which        *)
(* releases were announced, which were acknowledged; and what a check and  *)
(* an acknowledgement make of it.                                          *)
(***************************************************************************)
EXTENDS Naturals, FiniteSets

CONSTANTS
  Processes,  \* the commands that may be started, each at most once
  Digests,    \* the releases a manifest may announce, by their digest
  Newer,      \* those whose version is above the installed one
  Capacity,   \* the entries a state of MAX_CACHE_STATE_BYTES has room for
  None

States == [candidate : Digests \cup {None}, offered : SUBSET Digests,
           acked : SUBSET Digests, checked : BOOLEAN]

(* emptyState: nothing found, nothing to wait for.                         *)
EmptyState == [candidate |-> None, offered |-> {}, acked |-> {}, checked |-> FALSE]

Notice(d) == [status |-> "update_available", digest |-> d]
Acknowledged(d) == [status |-> "acknowledged", digest |-> d]
Silent == [status |-> "silent", digest |-> None]
Results == {Silent} \cup {Notice(d) : d \in Digests} \cup {Acknowledged(d) : d \in Digests}

ASSUME StateAssumption ==
  /\ IsFiniteSet(Digests)
  /\ Newer \subseteq Digests
  /\ None \notin Digests \cup Results
  /\ Capacity \in Nat
-----------------------------------------------------------------------------
(* encodeRecoverableState: there is room for the state, and for it after   *)
(* any acknowledgement or failed check, which add no entry.                *)
Fits(s) ==
  Cardinality(s.offered \cup s.acked) + (IF s.candidate = None THEN 0 ELSE 1) <= Capacity

(* resultForCandidate *)
ResultFor(s) ==
  IF s.candidate \in Newer \ s.acked THEN Notice(s.candidate) ELSE Silent

(* stateAfterAcknowledgement *)
AfterAcknowledgement(s, d) ==
  [s EXCEPT !.offered = @ \ {d}, !.acked = @ \cup {d}]

(* stateAfterFailedCheck *)
AfterFailedCheck(s, withdraw) ==
  [s EXCEPT !.checked = TRUE, !.candidate = IF withdraw THEN None ELSE @]

(* Mutant: a new candidate starts a new record.                            *)
AfterCheckAnew(s, d) ==
  [s EXCEPT !.checked = TRUE, !.candidate = d, !.offered = {d}, !.acked = {}]

(* The state a successful check stores: a candidate that is announced is   *)
(* recorded as offered, so that it can be acknowledged.                    *)
AfterCheck(s, d) ==
  [s EXCEPT !.checked = TRUE, !.candidate = d,
            !.offered = IF d \in Newer \ s.acked THEN @ \cup {d} ELSE @]

(* What a check that found d (or failed: None) stores and answers.         *)
CheckOutcome(s, d) ==
  IF d = None THEN [state |-> AfterFailedCheck(s, FALSE), answer |-> Silent]
  ELSE IF Fits(AfterCheck(s, d))
       THEN [state |-> AfterCheck(s, d), answer |-> ResultFor(AfterCheck(s, d))]
       ELSE [state |-> AfterFailedCheck(s, TRUE), answer |-> Silent]

(* What can be acknowledged.                                               *)
Offered(s) == s.offered \cup s.acked
=============================================================================
