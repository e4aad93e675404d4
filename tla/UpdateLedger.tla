---------------------------- MODULE UpdateLedger ----------------------------
(***************************************************************************)
(* What the update check promises whoever runs it: one record, which every *)
(* command reads and changes as if nobody else were running.               *)
(***************************************************************************)
EXTENDS UpdateState

VARIABLES
  ledger,   \* the state as it would be read now
  result    \* what each command has answered, None before

ledgerVars == <<ledger, result>>

LedgerInit == \E s \in States : ledger = s /\ result = [p \in Processes |-> None]

(* Nothing is said, nothing is stored.                                     *)
SaysNothing(r) == r = Silent /\ UNCHANGED ledger

(* The stored candidate is announced.                                      *)
Announces(r) == r = ResultFor(ledger) /\ UNCHANGED ledger

(* A check stores its outcome; its answer may get lost on the way.         *)
Checks(r) ==
  \E d \in Digests \cup {None} :
    /\ r \in {CheckOutcome(ledger, d).answer, Silent}
    /\ ledger' = CheckOutcome(ledger, d).state

Acknowledges(r) ==
  \E d \in Offered(ledger) :
    /\ r \in {Acknowledged(d), Silent}
    /\ ledger' = AfterAcknowledgement(ledger, d)

LedgerNext ==
  \E p \in Processes : \E r \in Results :
    /\ result[p] = None
    /\ result' = [result EXCEPT ![p] = r]
    /\ SaysNothing(r) \/ Announces(r) \/ Checks(r) \/ Acknowledges(r)

LedgerSpec == LedgerInit /\ [][LedgerNext]_ledgerVars
=============================================================================
