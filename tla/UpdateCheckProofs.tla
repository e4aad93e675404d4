------------------------- MODULE UpdateCheckProofs --------------------------
(***************************************************************************)
(* Theorems about UpdateCheck, for every number of commands, releases and  *)
(* generations, whoever stops or is overtaken wherever: no commit is lost, *)
(* no acknowledgement forgotten, and the directory, the claim and the      *)
(* fences together behave like one record.                                 *)
(*                                                                         *)
(* The argument does not rest on the claim, which any command can lose at  *)
(* any time.  A command goes on only if it saw no later generation when    *)
(* its own was pending already; so every later one that comes to list the  *)
(* pending operations lists it (FenceInv), and of two commands that have   *)
(* read the state, the lower one cannot commit any more.                   *)
(***************************************************************************)
EXTENDS UpdateCheck, FiniteSetTheorems, TLAPS

(* The commands that have an operation ...                                 *)
Holding == {"mkdir", "owner", "superseded", "inspect", "retire", "promote", "promoted",
            "giveUp", "tidy"} \cup Working

(* ... those that saw no later generation after theirs was pending ...     *)
Cleared == {"inspect", "retire", "promote", "promoted"} \cup Working

(* ... and those that have listed the lower generations they fence.        *)
Fencing == {"fence", "stillOwns", "read", "store"}

(* An operation has one owner, and a place in the directory.               *)
OperationsInv ==
  /\ \A p \in Processes : op[p] # 0 <=> pc[p] \in Holding
  /\ \A p \in Processes : op[p] # 0 => kind[op[p]] # "none"
  /\ \A p \in Processes : pc[p] = "mkdir" => kind[op[p]] = "reserved"
  /\ \A p, q \in Processes : op[p] = op[q] /\ op[p] # 0 => p = q
  /\ \A p \in Processes : pc[p] \in {"inspect", "retire", "promote"} => tries[p] < MaxAttempts

(* A command that was cleared is fenced by every later one that gets as    *)
(* far, or is on the list of those to be fenced ...                        *)
FenceInv ==
  /\ \A p \in Processes : pc[p] \in Fencing \ {"fence"} => todo[p] = {}
  /\ \A p, q \in Processes :
       pc[p] \in Cleared /\ pc[q] \in Fencing /\ op[p] < op[q] /\ Pending(op[p])
         => op[p] \in todo[q]
  /\ \A p \in Processes : \A g \in Generations :
       pc[p] \in Cleared /\ kind[g] = "committed" /\ op[p] < g => ~Pending(op[p])

(* ... so that what it has read stays current until it is fenced.          *)
ViewInv ==
  \A p \in Processes : pc[p] = "store" =>
    /\ Readable(view[p])
    /\ Checker(p) \/ Role[p] \in Offered(view[p])
    /\ Pending(op[p]) => view[p] = Current

(* A claim belongs to an operation that was pending; one that is to be     *)
(* retired will not be active again; and a command that fetches under an   *)
(* active operation has the claim.                                         *)
ClaimInv ==
  /\ claim # 0 => kind[claim] \notin {"none", "reserved"}
  /\ \A p \in Processes : pc[p] \in Holding \ {"mkdir"} => kind[op[p]] # "reserved"
  /\ \A p \in Processes : seen[p] # 0 => kind[seen[p]] \notin {"none", "reserved", "pending"}
  /\ \A p \in Processes : At(p, "fetch") /\ Active(op[p]) => claim = op[p]

(* The answer is the last thing a command gives.                           *)
AnswerInv == \A p \in Processes : pc[p] \notin {"tidy", "ended"} => result[p] = None

(* The inductive invariant.                                                *)
IInv == TypeOK /\ ClaimInv /\ OperationsInv /\ FenceInv /\ ViewInv /\ AnswerInv /\ AnswersKept
-----------------------------------------------------------------------------
(* Lemmas about the states.                                                *)

(* The empty state can be read.                                            *)
LEMMA EmptyIsState == EmptyState \in States /\ Readable(EmptyState)
<1>1. EmptyState.offered \cup EmptyState.acked = {} /\ EmptyState.candidate = None
  BY DEF EmptyState
<1>2. EmptyState.candidate \notin Newer
  BY <1>1, StateAssumption
<1>3. Fits(EmptyState)
  BY <1>1, FS_EmptySet, StateAssumption DEF Fits
<1> QED BY <1>2, <1>3 DEF EmptyState, States, Readable

(* There is a newest one among the generations.                            *)
LEMMA NewestExists ==
  ASSUME NEW S \in SUBSET Generations, S # {}
  PROVE  \E g \in S : \A h \in S : h <= g
<1> DEFINE R == OpToRel(<, Nat)
           T == {MaxGeneration - g : g \in S}
<1>1. T \subseteq Nat /\ T # {}
  BY UpdateAssumption DEF Generations
<1>2. PICK m \in T : \A n \in T : <<n, m>> \notin R
  <2>1. IsWellFoundedOn(R, Nat)
    BY NatLessThanWellFounded
  <2> HIDE DEF R, T
  <2> QED BY <1>1, <2>1, WFMin
<1>3. PICK g \in S : m = MaxGeneration - g
  BY <1>2
<1>4. ASSUME NEW h \in S PROVE h <= g
  <2>1. MaxGeneration - h \in T /\ MaxGeneration - h \in Nat /\ m \in Nat
    BY <1>1
  <2>2. ~(MaxGeneration - h < m)
    BY <1>2, <2>1 DEF OpToRel
  <2>3. g \in Nat /\ h \in Nat
    BY UpdateAssumption DEF Generations
  <2> QED BY <1>3, <2>2, <2>3, UpdateAssumption
<1> QED BY <1>4

(* What is read of readable states is readable.                            *)
LEMMA StateIsState ==
  ASSUME NEW k, NEW b \in [Generations -> States]
  PROVE  StateOf(k, b) \in States /\ Readable(StateOf(k, b))
<1>1. CASE Readings(k, b) = {}
  BY <1>1, EmptyIsState DEF StateOf
<1>2. CASE Readings(k, b) # {}
  <2> DEFINE g == CHOOSE g \in Readings(k, b) : \A h \in Readings(k, b) : h <= g
  <2>1. g \in Readings(k, b)
    BY <1>2, NewestExists DEF Readings
  <2>2. StateOf(k, b) = b[g]
    BY <1>2 DEF StateOf
  <2> QED BY <2>1, <2>2 DEF Readings
<1> QED BY <1>1, <1>2

(* An announcement is an answer.                                           *)
LEMMA ResultIsResult == ASSUME NEW s \in States PROVE ResultFor(s) \in Results
  BY StateAssumption DEF ResultFor, Results, States

(* What a check makes of a state is a state.                               *)
LEMMA AfterTypes ==
  ASSUME NEW s \in States, NEW d \in Digests
  PROVE  /\ AfterFailedCheck(s, FALSE) = [s EXCEPT !.checked = TRUE]
         /\ AfterFailedCheck(s, FALSE) \in States
         /\ AfterFailedCheck(s, TRUE) = [s EXCEPT !.checked = TRUE, !.candidate = None]
         /\ AfterFailedCheck(s, TRUE) \in States
         /\ AfterCheck(s, d) \in States
         /\ AfterCheck(s, d).candidate = d /\ AfterCheck(s, d).acked = s.acked
         /\ AfterCheck(s, d).offered = s.offered \cup ({d} \cap (Newer \ s.acked))
         /\ AfterAcknowledgement(s, d) \in States
         /\ AfterAcknowledgement(s, d).candidate = s.candidate
         /\ AfterAcknowledgement(s, d).acked = s.acked \cup {d}
         /\ AfterAcknowledgement(s, d).offered = s.offered \ {d}
<1>1. AfterFailedCheck(s, FALSE) = [s EXCEPT !.checked = TRUE]
  BY DEF AfterFailedCheck, States
<1>2. AfterFailedCheck(s, TRUE) = [s EXCEPT !.checked = TRUE, !.candidate = None]
  BY DEF AfterFailedCheck, States
<1>3. AfterFailedCheck(s, FALSE) \in States /\ AfterFailedCheck(s, TRUE) \in States
  BY <1>1, <1>2 DEF States
<1>4. /\ AfterCheck(s, d) \in States
      /\ AfterCheck(s, d).candidate = d /\ AfterCheck(s, d).acked = s.acked
      /\ AfterCheck(s, d).offered = s.offered \cup ({d} \cap (Newer \ s.acked))
  <2> DEFINE o == s.offered \cup ({d} \cap (Newer \ s.acked))
  <2>1. AfterCheck(s, d) = [s EXCEPT !.checked = TRUE, !.candidate = d, !.offered = o]
    BY DEF AfterCheck, States
  <2>2. o \in SUBSET Digests
    BY DEF States
  <2> HIDE DEF o
  <2> QED BY <2>1, <2>2 DEF States, o
<1>5. /\ AfterAcknowledgement(s, d) \in States
      /\ AfterAcknowledgement(s, d).candidate = s.candidate
      /\ AfterAcknowledgement(s, d).acked = s.acked \cup {d}
      /\ AfterAcknowledgement(s, d).offered = s.offered \ {d}
  BY DEF AfterAcknowledgement, States
<1> QED BY <1>1, <1>2, <1>3, <1>4, <1>5

(* A check answers, and keeps what it read readable, acknowledged and      *)
(* offered; a release it announces can be acknowledged.                    *)
LEMMA CheckKeeps ==
  ASSUME NEW s \in States, Readable(s), NEW d \in Digests \cup {None}
  PROVE  /\ CheckOutcome(s, d).state \in States /\ CheckOutcome(s, d).answer \in Results
         /\ Readable(CheckOutcome(s, d).state)
         /\ s.acked \subseteq CheckOutcome(s, d).state.acked
         /\ Offered(s) \subseteq Offered(CheckOutcome(s, d).state)
         /\ \A e \in Digests : /\ CheckOutcome(s, d).answer # Acknowledged(e)
                              /\ (CheckOutcome(s, d).answer = Notice(e)
                                => e \in Offered(CheckOutcome(s, d).state))
<1>0. /\ Silent \in Results
      /\ \A e \in Digests : Silent # Acknowledged(e) /\ Silent # Notice(e)
      /\ \A t \in States : \A e \in Digests :
            ResultFor(t) # Acknowledged(e) /\ (ResultFor(t) = Notice(e) => t.candidate = e
              /\ e \in Newer)
  BY DEF Results, Silent, Acknowledged, Notice, ResultFor
<1>1. CASE d = None
  <2> DEFINE t == AfterFailedCheck(s, FALSE)
  <2>1. t = [s EXCEPT !.checked = TRUE]
    BY DEF AfterFailedCheck, States
  <2>2. t \in States /\ t.candidate = s.candidate /\ t.offered = s.offered /\ t.acked = s.acked
    BY <2>1 DEF States
  <2>3. CheckOutcome(s, d) = [state |-> t, answer |-> Silent]
    BY <1>1 DEF CheckOutcome
  <2> HIDE DEF t
  <2>4. Readable(t) /\ Offered(t) = Offered(s)
    BY <2>2 DEF Readable, Fits, Offered
  <2> QED BY <1>0, <2>2, <2>3, <2>4
<1>2. CASE d \in Digests /\ Fits(AfterCheck(s, d))
  <2> DEFINE t == AfterCheck(s, d)
  <2>1. /\ t \in States /\ t.candidate = d /\ t.acked = s.acked
        /\ t.offered = s.offered \cup ({d} \cap (Newer \ s.acked))
    BY <1>2, AfterTypes
  <2>2. CheckOutcome(s, d) = [state |-> t, answer |-> ResultFor(t)]
    BY <1>2, StateAssumption DEF CheckOutcome
  <2>3. ResultFor(t) \in Results
    BY <2>1, ResultIsResult
  <2>4. Fits(t)
    BY <1>2
  <2> HIDE DEF t
  <2>5. s.acked \subseteq t.acked /\ Offered(s) \subseteq Offered(t)
          /\ (d \in Newer => d \in Offered(t))
    BY <2>1 DEF Offered
  <2>6. Readable(t)
    BY <2>1, <2>4, <2>5 DEF Readable
  <2>7. \A e \in Digests : ResultFor(t) # Acknowledged(e)
          /\ (ResultFor(t) = Notice(e) => e \in Offered(t))
    BY <1>0, <2>1, <2>5
  <2> QED BY <2>1, <2>2, <2>3, <2>5, <2>6, <2>7
<1>3. CASE d \in Digests /\ ~Fits(AfterCheck(s, d))
  <2> DEFINE t == AfterFailedCheck(s, TRUE)
  <2>1. t \in States /\ t.candidate = None /\ t.offered = s.offered /\ t.acked = s.acked
    <3>1. t \in States /\ t = [s EXCEPT !.checked = TRUE, !.candidate = None]
      BY <1>3, AfterTypes
    <3> HIDE DEF t
    <3> QED BY <3>1 DEF States
  <2>2. CheckOutcome(s, d) = [state |-> t, answer |-> Silent]
    BY <1>3, StateAssumption DEF CheckOutcome
  <2> HIDE DEF t
  <2>3. Cardinality(s.offered \cup s.acked) \in Nat
    BY StateAssumption, FS_Subset, FS_CardinalityType DEF States
  <2>4. Cardinality(s.offered \cup s.acked) + (IF s.candidate = None THEN 0 ELSE 1) <= Capacity
    BY DEF Readable, Fits
  <2>5. Cardinality(s.offered \cup s.acked) <= Capacity
    BY <2>3, <2>4, StateAssumption
  <2>6. Fits(t)
    BY <2>1, <2>3, <2>5 DEF Fits
  <2>7. Readable(t)
    BY <2>1, <2>6, StateAssumption DEF Readable
  <2> QED BY <1>0, <2>1, <2>2, <2>7 DEF Offered
<1> QED BY <1>1, <1>2, <1>3

(* So does the acknowledgement of what was offered.                        *)
LEMMA AcknowledgementKeeps ==
  ASSUME NEW s \in States, Readable(s), NEW d \in Digests, d \in Offered(s)
  PROVE  /\ AfterAcknowledgement(s, d) \in States
         /\ Readable(AfterAcknowledgement(s, d))
         /\ s.acked \cup {d} \subseteq AfterAcknowledgement(s, d).acked
         /\ Offered(s) \subseteq Offered(AfterAcknowledgement(s, d))
<1> DEFINE t == AfterAcknowledgement(s, d)
<1>1. t \in States /\ t.candidate = s.candidate /\ t.acked = s.acked \cup {d}
        /\ t.offered = s.offered \ {d}
  BY AfterTypes
<1> HIDE DEF t
<1>2. t.offered \cup t.acked = s.offered \cup s.acked
  BY <1>1 DEF Offered
<1>3. Readable(t)
  BY <1>1, <1>2 DEF Readable, Fits, Offered
<1> QED BY <1>1, <1>2, <1>3 DEF Offered, t
-----------------------------------------------------------------------------
Places == Acquiring \cup Working \cup Leaving

(* What a command has in hand.                                             *)
LocalType ==
  /\ op \in [Processes -> 0..MaxGeneration]
  /\ seen \in [Processes -> 0..MaxGeneration]
  /\ todo \in [Processes -> SUBSET Generations]
  /\ tries \in [Processes -> 0..MaxAttempts]
  /\ found \in [Processes -> Digests \cup {None}]
  /\ view \in [Processes -> States]

(* What is stored and answered from what was read.                         *)
LEMMA OutcomeType ==
  ASSUME TypeOK, ViewInv, NEW p \in Processes, pc[p] = "store"
  PROVE  Outcome(p).state \in States /\ Outcome(p).answer \in Results
<1>1. view[p] \in States /\ Readable(view[p]) /\ found[p] \in Digests \cup {None}
  BY DEF TypeOK, ViewInv
<1>2. CASE Checker(p)
  BY <1>1, <1>2, CheckKeeps DEF Outcome
<1>3. CASE ~Checker(p)
  <2>1. Role[p] \in Digests /\ Role[p] \in Offered(view[p])
    BY <1>3, UpdateAssumption DEF ViewInv, Checker
  <2>2. AfterAcknowledgement(view[p], Role[p]) \in States
    BY <1>1, <2>1, AcknowledgementKeeps
  <2> QED BY <1>3, <2>1, <2>2 DEF Outcome, Results
<1> QED BY <1>2, <1>3

(* A step keeps the types.                                                 *)
LEMMA TypeStep == ASSUME IInv, Next PROVE TypeOK'
<1>1. Current \in States /\ ResultFor(Current) \in Results /\ Silent \in Results
        /\ EmptyState \in States
  BY StateIsState, ResultIsResult, EmptyIsState DEF IInv, TypeOK, Current, Results
<1>2. MaxGeneration \in Nat /\ MaxAttempts \in Nat
  BY UpdateAssumption
<1>3. TypeOK /\ OperationsInv
  BY DEF IInv
<1>4. ASSUME NEW p \in Processes, pc[p] = "store"
        PROVE Outcome(p).state \in States /\ Outcome(p).answer \in Results
  BY <1>4, OutcomeType DEF IInv
<1>5. ASSUME NEW p \in Processes, Step(p) \/ Retry(p) \/ Expire(p) \/ Fail(p) PROVE TypeOK'
  <2>1. CASE Start(p)
    <3>1. pc' \in [Processes -> Places]
      BY <2>1, <1>3 DEF Start, EndWith, TypeOK, At, GoTo, Places, Acquiring, Working, Leaving
    <3>2. result' \in [Processes -> Results \cup {None}]
      BY <2>1, <1>1, <1>3 DEF Start, EndWith, Answer, TypeOK
    <3>3. LocalType'
      BY <2>1, <1>1, <1>2, <1>3 DEF Start, EndWith, Forget, LocalType, TypeOK, local
    <3> QED BY <2>1, <1>3, <3>1, <3>2, <3>3 DEF Start, TypeOK, LocalType, Places
  <2>2. CASE Inspect(p)
    <3>1. pc' \in [Processes -> Places]
      BY <2>2, <1>3 DEF Inspect, TypeOK, At, GoTo, Places, Acquiring, Working, Leaving
    <3>2. seen' \in [Processes -> 0..MaxGeneration]
      BY <2>2, <1>3 DEF Inspect, TypeOK
    <3> QED BY <2>2, <1>3, <3>1, <3>2 DEF Inspect, TypeOK, Places
  <2>3. CASE Promote(p)
    <3>1. pc' \in [Processes -> Places]
      BY <2>3, <1>3 DEF Promote, TryAgain, TypeOK, At, GoTo, Places, Acquiring, Working, Leaving
    <3>2. claim' \in 0..MaxGeneration
      BY <2>3, <1>2, <1>3 DEF Promote, TypeOK
    <3>3. tries' \in [Processes -> 0..MaxAttempts]
      BY <2>3, <1>2, <1>3 DEF Promote, TryAgain, TypeOK, OperationsInv, At
    <3> QED BY <2>3, <1>3, <3>1, <3>2, <3>3 DEF Promote, TypeOK, Places
  <2>4. CASE SeeWhetherFresh(p)
    <3>1. pc' \in [Processes -> Places]
      BY <2>4, <1>3 DEF SeeWhetherFresh, TypeOK, At, GoTo, Places, Acquiring, Working, Leaving
    <3>2. result' \in [Processes -> Results \cup {None}]
      BY <2>4, <1>1, <1>3 DEF SeeWhetherFresh, Answer, TypeOK
    <3> QED BY <2>4, <1>3, <3>1, <3>2 DEF SeeWhetherFresh, TypeOK, Places, local
  <2>5. CASE Commit(p)
    <3>1. pc' \in [Processes -> Places]
      BY <2>5, <1>3
         DEF Commit, SeeWhetherOwnerThen, LoseCommit, TypeOK, At, GoTo, Places, Acquiring,
             Working, Leaving
    <3>2. result' \in [Processes -> Results \cup {None}]
      BY <2>5, <1>1, <1>3 DEF Commit, SeeWhetherOwnerThen, LoseCommit, Answer, TypeOK
    <3> QED BY <2>5, <1>3, <3>1, <3>2 DEF Commit, SeeWhetherOwnerThen, TypeOK, Places, local
  <2>6. CASE Fence(p)
    <3>1. pc' \in [Processes -> Places]
      BY <2>6, <1>3 DEF Fence, TypeOK, At, GoTo, Places, Acquiring, Working, Leaving
    <3>2. kind' \in [Generations -> Kinds]
      BY <2>6, <1>3 DEF Fence, TypeOK, Kinds
    <3>3. todo' \in [Processes -> SUBSET Generations]
      BY <2>6, <1>3 DEF Fence, TypeOK
    <3> QED BY <2>6, <1>3, <3>1, <3>2, <3>3 DEF Fence, TypeOK, Places
  <2>7. CASE StillOwns(p)
    <3>1. pc' \in [Processes -> Places]
      BY <2>7, <1>3
         DEF StillOwns, SeeWhetherOwnerThen, LoseCommit, TypeOK, At, GoTo, Places, Acquiring,
             Working, Leaving
    <3>2. result' \in [Processes -> Results \cup {None}]
      BY <2>7, <1>1, <1>3 DEF StillOwns, SeeWhetherOwnerThen, LoseCommit, Answer, TypeOK
    <3> QED BY <2>7, <1>3, <3>1, <3>2 DEF StillOwns, SeeWhetherOwnerThen, TypeOK, Places, local
  <2>8. CASE Read(p)
    <3>1. pc' \in [Processes -> Places]
      BY <2>8, <1>3 DEF Read, TypeOK, At, GoTo, Places, Acquiring, Working, Leaving
    <3>2. result' \in [Processes -> Results \cup {None}]
      BY <2>8, <1>1, <1>3 DEF Read, Answer, TypeOK
    <3>3. view' \in [Processes -> States]
      BY <2>8, <1>1, <1>3 DEF Read, TypeOK
    <3> QED BY <2>8, <1>3, <3>1, <3>2, <3>3 DEF Read, TypeOK, Places
  <2>9. CASE Store(p)
    <3>1. pc' \in [Processes -> Places]
      BY <2>9, <1>3
         DEF Store, EndWith, Fenced, LoseCommit, TypeOK, At, GoTo, Places, Acquiring, Working,
             Leaving
    <3>2. Outcome(p).state \in States /\ Outcome(p).answer \in Results
      BY <2>9, <1>3, <1>4 DEF Store, At
    <3>3. result' \in [Processes -> Results \cup {None}]
      BY <2>9, <1>1, <1>3, <3>2 DEF Store, EndWith, Fenced, LoseCommit, Answer, TypeOK
    <3>4. kind' \in [Generations -> Kinds] /\ body' \in [Generations -> States]
      BY <2>9, <1>3, <3>2 DEF Store, Turn, Fenced, TypeOK, Kinds
    <3>5. LocalType'
      BY <2>9, <1>1, <1>2, <1>3 DEF Store, EndWith, Fenced, Forget, LocalType, TypeOK, local
    <3> QED BY <2>9, <1>3, <3>1, <3>2, <3>3, <3>4, <3>5
               DEF Store, Fenced, TypeOK, LocalType, Places
  <2>10. CASE GiveUp(p)
    <3>1. pc' \in [Processes -> Places]
      BY <2>10, <1>3
         DEF GiveUp, Cancel, Turned, TypeOK, At, GoTo, Places, Acquiring, Working, Leaving
    <3>2. kind' \in [Generations -> Kinds]
      BY <2>10, <1>3 DEF GiveUp, Cancel, TypeOK, Kinds
    <3>3. LocalType'
      BY <2>10, <1>1, <1>2, <1>3 DEF GiveUp, Cancel, Forget, LocalType, TypeOK, local
    <3> QED BY <2>10, <1>3, <3>1, <3>2, <3>3 DEF GiveUp, Cancel, TypeOK, LocalType, Places
  <2>11. CASE Fail(p)
    <3>1. pc' \in [Processes -> Places]
      BY <2>11, <1>3 DEF Fail, EndWith, TypeOK, At, GoTo, Places, Acquiring, Working, Leaving
    <3>2. result' \in [Processes -> Results \cup {None}]
      BY <2>11, <1>1, <1>3 DEF Fail, EndWith, Answer, TypeOK
    <3>3. kind' \in [Generations -> Kinds]
      BY <2>11, <1>3 DEF Fail, TypeOK, Kinds
    <3>4. LocalType'
      BY <2>11, <1>1, <1>2, <1>3 DEF Fail, EndWith, Forget, LocalType, TypeOK, local
    <3> QED BY <2>11, <1>3, <3>1, <3>2, <3>3, <3>4 DEF Fail, TypeOK, LocalType, Places
  <2> USE <1>1, <1>2, <1>3
         DEF TypeOK, OperationsInv, At, GoTo, Answer, Places, Acquiring, Working, Leaving,
             local, Kinds, Generations, Holding
  <2>12. CASE Look(p)
    BY <2>12 DEF Look, Decide, Turned
  <2>13. CASE Reserve(p)
    BY <2>13 DEF Reserve, Turn
  <2>14. CASE OutOfGenerations(p)
    BY <2>14 DEF OutOfGenerations, EndWith, Forget
  <2>15. CASE MakePending(p)
    BY <2>15 DEF MakePending, Turn
  <2>16. CASE WriteOwner(p)
    BY <2>16 DEF WriteOwner, Decide
  <2>17. CASE SeeWhetherSuperseded(p)
    BY <2>17 DEF SeeWhetherSuperseded, Decide
  <2>18. CASE Retire(p)
    BY <2>18 DEF Retire, TryAgain
  <2>19. CASE Promoted(p)
    BY <2>19 DEF Promoted, Decide
  <2>20. CASE SeeWhetherOwner(p)
    BY <2>20 DEF SeeWhetherOwner, Decide
  <2>21. CASE Fetch(p)
    BY <2>21 DEF Fetch
  <2>22. CASE ListLower(p)
    BY <2>22 DEF ListLower
  <2>23. CASE Tidy(p)
    BY <2>23 DEF Tidy, Cancel, Forget
  <2>24. CASE AnswerFromCache(p)
    BY <2>24 DEF AnswerFromCache, EndWith, Forget
  <2>25. CASE Retry(p)
    BY <2>25 DEF Retry
  <2>26. CASE Expire(p)
    BY <2>26 DEF Expire, EndWith, Forget
  <2> QED BY <1>5, <2>1, <2>2, <2>3, <2>4, <2>5, <2>6, <2>7, <2>8, <2>9, <2>10, <2>11, <2>12,
             <2>13, <2>14, <2>15, <2>16, <2>17, <2>18, <2>19, <2>20, <2>21, <2>22, <2>23, <2>24,
             <2>25, <2>26
             DEF Step
<1>6. ASSUME NEW g \in Generations, Lapse(g) PROVE TypeOK'
  BY <1>3, <1>6 DEF Lapse, Turn, local, TypeOK, Kinds
<1> QED BY <1>5, <1>6 DEF Next

(* A step keeps the operations in order.                                    *)
LEMMA OperationsStep == ASSUME IInv, Next PROVE OperationsInv'
<1>1. TypeOK /\ OperationsInv /\ MaxGeneration \in Nat /\ MaxAttempts \in Nat
  BY UpdateAssumption DEF IInv
<1>2. ASSUME NEW p \in Processes, Step(p) \/ Retry(p) \/ Expire(p) \/ Fail(p) PROVE OperationsInv'
  <2>1. CASE Start(p)
    <3>1. pc[p] = "idle" /\ op[p] = 0
      BY <2>1, <1>1 DEF Start, At, OperationsInv, Holding, Working
    <3>2. PICK there \in {"look", "ended"} : pc' = [pc EXCEPT ![p] = there]
      BY <2>1, <1>1 DEF Start, At, GoTo, EndWith
    <3>3. kind' = kind
      BY <2>1, <1>1 DEF Start
    <3>4. op' = op
      BY <2>1, <1>1, <3>1 DEF Start, EndWith, Forget, local, TypeOK
    <3>5. tries' = [tries EXCEPT ![p] = tries'[p]]
      BY <2>1, <1>1 DEF Start, EndWith, Forget, local, TypeOK
    <3> QED BY <3>1, <3>2, <3>3, <3>4, <3>5, <1>1
               DEF TypeOK, OperationsInv, Working, Generations, Holding
  <2>2. CASE Reserve(p)
    <3>1. PICK g \in Generations : kind[g] = "none" /\ kind' = [kind EXCEPT ![g] = "reserved"]
            /\ op' = [op EXCEPT ![p] = g]
      BY <2>2, <1>1 DEF Reserve, Turn
    <3>2. pc[p] = "reserve" /\ pc' = [pc EXCEPT ![p] = "mkdir"] /\ tries' = tries
      BY <2>2, <1>1 DEF Reserve, At, GoTo
    <3>3. \A q \in Processes : op[q] # g
      BY <3>1, <1>1 DEF OperationsInv, TypeOK, Generations
    <3> QED BY <3>1, <3>2, <3>3, <1>1 DEF TypeOK, OperationsInv, Working, Generations, Holding
  <2>3. CASE Inspect(p)
    <3>1. PICK there \in {"giveUp", "retire", "promote"} : pc' = [pc EXCEPT ![p] = there]
      BY <2>3, <1>1 DEF Inspect, At, GoTo
    <3>2. pc[p] = "inspect" /\ UNCHANGED <<kind, op, tries>>
      BY <2>3, <1>1 DEF Inspect, At
    <3> QED BY <3>1, <3>2, <1>1 DEF TypeOK, OperationsInv, Working, Generations, Holding
  <2>4. CASE Promote(p)
    <3>1. PICK there \in {"promoted", "superseded"} : pc' = [pc EXCEPT ![p] = there]
      BY <2>4, <1>1 DEF Promote, At, GoTo, TryAgain
    <3>2. pc[p] = "promote" /\ kind' = kind /\ op' = op
      BY <2>4, <1>1 DEF Promote, At
    <3>3. tries' = [tries EXCEPT ![p] = tries'[p]]
      BY <2>4, <1>1 DEF Promote, TryAgain, TypeOK
    <3> QED BY <3>1, <3>2, <3>3, <1>1 DEF TypeOK, OperationsInv, Working, Generations, Holding
  <2>5. CASE SeeWhetherFresh(p)
    <3>1. PICK there \in {"owns", "tidy"} : pc' = [pc EXCEPT ![p] = there]
      BY <2>5, <1>1 DEF SeeWhetherFresh, At, GoTo
    <3>2. pc[p] = "fresh" /\ UNCHANGED <<kind, op, tries>>
      BY <2>5, <1>1 DEF SeeWhetherFresh, At, local
    <3> QED BY <3>1, <3>2, <1>1 DEF TypeOK, OperationsInv, Working, Generations, Holding
  <2>6. CASE Commit(p)
    <3>1. PICK there \in {"list", "tidy", "giveUp"} : pc' = [pc EXCEPT ![p] = there]
      BY <2>6, <1>1 DEF Commit, At, GoTo, SeeWhetherOwnerThen, LoseCommit
    <3>2. pc[p] = "commit" /\ UNCHANGED <<kind, op, tries>>
      BY <2>6, <1>1 DEF Commit, SeeWhetherOwnerThen, At, local
    <3> QED BY <3>1, <3>2, <1>1 DEF TypeOK, OperationsInv, Working, Generations, Holding
  <2>7. CASE Fence(p)
    <3>1. pc[p] = "fence" /\ op' = op /\ tries' = tries
      BY <2>7 DEF Fence, At
    <3>2. (\A q \in Processes \ {p} : pc'[q] = pc[q]) /\ pc'[p] \in {"fence", "stillOwns"}
      BY <2>7, <1>1 DEF Fence, At, GoTo, TypeOK
    <3>3. \A g \in Generations : kind'[g] = kind[g] \/ (Pending(g) /\ kind'[g] = "fenced")
      BY <2>7, <1>1 DEF Fence, TypeOK
    <3>4. \A q \in Processes : op[q] # 0 => op[q] \in Generations
      BY <1>1 DEF TypeOK, Generations
    <3>5. \A q \in Processes : op'[q] # 0 <=> pc'[q] \in Holding
      BY <3>1, <3>2, <1>1 DEF OperationsInv, Holding, Working
    <3>6. \A q \in Processes : op'[q] # 0 => kind'[op'[q]] # "none"
      BY <3>1, <3>3, <3>4, <1>1 DEF OperationsInv
    <3>7. \A q \in Processes : pc'[q] = "mkdir" => kind'[op'[q]] = "reserved"
      BY <3>1, <3>2, <3>3, <3>4, <1>1 DEF OperationsInv, Holding, Pending
    <3> QED BY <3>1, <3>2, <3>5, <3>6, <3>7, <1>1 DEF OperationsInv
  <2>8. CASE StillOwns(p)
    <3>1. PICK there \in {"read", "tidy", "giveUp"} : pc' = [pc EXCEPT ![p] = there]
      BY <2>8, <1>1 DEF StillOwns, At, GoTo, SeeWhetherOwnerThen, LoseCommit
    <3>2. pc[p] = "stillOwns" /\ UNCHANGED <<kind, op, tries>>
      BY <2>8, <1>1 DEF StillOwns, SeeWhetherOwnerThen, At, local
    <3> QED BY <3>1, <3>2, <1>1 DEF TypeOK, OperationsInv, Working, Generations, Holding
  <2>9. CASE Read(p)
    <3>1. PICK there \in {"store", "tidy"} : pc' = [pc EXCEPT ![p] = there]
      BY <2>9, <1>1 DEF Read, At, GoTo
    <3>2. pc[p] = "read" /\ UNCHANGED <<kind, op, tries>>
      BY <2>9, <1>1 DEF Read, At
    <3> QED BY <3>1, <3>2, <1>1 DEF TypeOK, OperationsInv, Working, Generations, Holding
  <2>10. CASE Store(p)
    <3>1. pc[p] = "store" /\ op[p] \in Generations
      BY <2>10, <1>1 DEF Store, At, OperationsInv, Holding, Working, TypeOK, Generations
    <3>2. CASE Fenced(p)
      <4>1. PICK there \in {"tidy", "giveUp"} : pc' = [pc EXCEPT ![p] = there]
        BY <3>2 DEF Fenced, LoseCommit, GoTo
      <4>2. UNCHANGED <<kind, op, tries>>
        BY <3>2 DEF Fenced, local
      <4> QED BY <3>1, <4>1, <4>2, <1>1 DEF TypeOK, OperationsInv, Working, Generations, Holding
    <3>3. CASE ~Fenced(p)
      <4>1. /\ kind' = [kind EXCEPT ![op[p]] = "committed"] /\ pc' = [pc EXCEPT ![p] = "ended"]
            /\ op' = [op EXCEPT ![p] = 0] /\ tries' = [tries EXCEPT ![p] = 0]
        BY <2>10, <3>3 DEF Store, Turn, EndWith, GoTo, Forget
      <4> QED BY <3>1, <4>1, <1>1 DEF TypeOK, OperationsInv, Working, Generations, Holding
    <3> QED BY <3>2, <3>3
  <2> USE <1>1
         DEF TypeOK, OperationsInv, At, GoTo, Acquiring, Working, Leaving, local, Generations,
             Holding, Pending
  <2>11. CASE Look(p)
    BY <2>11 DEF Look, Decide, Turned
  <2>12. CASE OutOfGenerations(p)
    BY <2>12 DEF OutOfGenerations, EndWith, Forget
  <2>13. CASE MakePending(p)
    BY <2>13 DEF MakePending, Turn
  <2>14. CASE WriteOwner(p)
    BY <2>14 DEF WriteOwner, Decide
  <2>15. CASE SeeWhetherSuperseded(p)
    BY <2>15 DEF SeeWhetherSuperseded, Decide
  <2>16. CASE Retire(p)
    BY <2>16 DEF Retire, TryAgain
  <2>17. CASE Promoted(p)
    BY <2>17 DEF Promoted, Decide
  <2>18. CASE SeeWhetherOwner(p)
    BY <2>18 DEF SeeWhetherOwner, Decide
  <2>19. CASE Fetch(p)
    BY <2>19 DEF Fetch
  <2>20. CASE ListLower(p)
    BY <2>20 DEF ListLower
  <2>21. CASE GiveUp(p)
    BY <2>21 DEF GiveUp, Cancel, Forget, Turned
  <2>22. CASE Tidy(p)
    BY <2>22 DEF Tidy, Cancel, Forget
  <2>23. CASE AnswerFromCache(p)
    BY <2>23 DEF AnswerFromCache, EndWith, Forget
  <2>24. CASE Retry(p)
    BY <2>24 DEF Retry
  <2>25. CASE Expire(p)
    BY <2>25 DEF Expire, EndWith, Forget
  <2>26. CASE Fail(p)
    BY <2>26 DEF Fail, EndWith, Forget
  <2> QED BY <1>2, <2>1, <2>2, <2>3, <2>4, <2>5, <2>6, <2>7, <2>8, <2>9, <2>10, <2>11, <2>12,
             <2>13, <2>14, <2>15, <2>16, <2>17, <2>18, <2>19, <2>20, <2>21, <2>22, <2>23, <2>24,
             <2>25, <2>26
             DEF Step
<1>3. ASSUME NEW g \in Generations, Lapse(g) PROVE OperationsInv'
  BY <1>1, <1>3 DEF Lapse, Turn, local, TypeOK, OperationsInv, Active
<1> QED BY <1>2, <1>3 DEF Next

(* A step keeps what is fenced in order.                                    *)
LEMMA FenceStep == ASSUME IInv, Next PROVE FenceInv'
<1>1. TypeOK /\ OperationsInv /\ FenceInv /\ MaxGeneration \in Nat /\ MaxAttempts \in Nat
  BY UpdateAssumption DEF IInv
<1>2. ASSUME NEW p \in Processes, Step(p) \/ Retry(p) \/ Expire(p) \/ Fail(p) PROVE FenceInv'
  <2>1. CASE Start(p)
    <3>1. PICK there \in {"look", "ended"} : pc' = [pc EXCEPT ![p] = there]
      BY <2>1, <1>1 DEF Start, At, GoTo, EndWith
    <3>2. kind' = kind
      BY <2>1, <1>1 DEF Start
    <3>3. \A q \in Processes : q # p => op'[q] = op[q] /\ todo'[q] = todo[q]
      BY <2>1, <1>1 DEF Start, EndWith, Forget, local, TypeOK
    <3> QED BY <3>1, <3>2, <3>3, <1>1
               DEF TypeOK, OperationsInv, FenceInv, Working, Generations, Holding, Pending,
                   Cleared, Fencing
  <2>2. CASE Inspect(p)
    <3>1. PICK there \in {"giveUp", "retire", "promote"} : pc' = [pc EXCEPT ![p] = there]
      BY <2>2, <1>1 DEF Inspect, At, GoTo
    <3>2. pc[p] = "inspect" /\ UNCHANGED <<kind, op, todo>>
      BY <2>2, <1>1 DEF Inspect, At
    <3> QED BY <3>1, <3>2, <1>1
               DEF TypeOK, OperationsInv, FenceInv, Working, Generations, Holding, Pending,
                   Cleared, Fencing
  <2>3. CASE Promote(p)
    <3>1. PICK there \in {"promoted", "superseded"} : pc' = [pc EXCEPT ![p] = there]
      BY <2>3, <1>1 DEF Promote, At, GoTo, TryAgain
    <3>2. pc[p] = "promote" /\ UNCHANGED <<kind, op, todo>>
      BY <2>3, <1>1 DEF Promote, At
    <3> QED BY <3>1, <3>2, <1>1
               DEF TypeOK, OperationsInv, FenceInv, Working, Generations, Holding, Pending,
                   Cleared, Fencing
  <2>4. CASE SeeWhetherFresh(p)
    <3>1. PICK there \in {"owns", "tidy"} : pc' = [pc EXCEPT ![p] = there]
      BY <2>4, <1>1 DEF SeeWhetherFresh, At, GoTo
    <3>2. pc[p] = "fresh" /\ UNCHANGED <<kind, op, todo>>
      BY <2>4, <1>1 DEF SeeWhetherFresh, At, local
    <3> QED BY <3>1, <3>2, <1>1
               DEF TypeOK, OperationsInv, FenceInv, Working, Generations, Holding, Pending,
                   Cleared, Fencing
  <2>5. CASE Commit(p)
    <3>1. PICK there \in {"list", "tidy", "giveUp"} : pc' = [pc EXCEPT ![p] = there]
      BY <2>5, <1>1 DEF Commit, At, GoTo, SeeWhetherOwnerThen, LoseCommit
    <3>2. pc[p] = "commit" /\ UNCHANGED <<kind, op, todo>>
      BY <2>5, <1>1 DEF Commit, SeeWhetherOwnerThen, At, local
    <3> QED BY <3>1, <3>2, <1>1
               DEF TypeOK, OperationsInv, FenceInv, Working, Generations, Holding, Pending,
                   Cleared, Fencing
  <2>6. CASE Fence(p)
    <3>1. pc[p] = "fence" /\ op' = op
      BY <2>6 DEF Fence, At
    <3>2. CASE todo[p] = {}
      <4>1. pc' = [pc EXCEPT ![p] = "stillOwns"] /\ UNCHANGED <<kind, todo>>
        BY <2>6, <3>2 DEF Fence, GoTo
      <4> QED BY <3>1, <3>2, <4>1, <1>1
                 DEF TypeOK, OperationsInv, FenceInv, Working, Generations, Holding, Pending,
                     Cleared, Fencing
    <3>3. CASE todo[p] # {}
      <4>1. PICK g \in todo[p] : /\ kind' = IF Pending(g) THEN [kind EXCEPT ![g] = "fenced"] ELSE kind
                                /\ todo' = [todo EXCEPT ![p] = @ \ {g}] /\ pc' = pc
        BY <2>6, <3>3 DEF Fence
      <4>2. g \in Generations /\ ~Pending(g)'
        BY <4>1, <1>1 DEF TypeOK, Pending
      <4>3. \A h \in Generations : /\ Pending(h)' => Pending(h)
                                   /\ kind'[h] = "committed" => kind[h] = "committed"
        BY <4>1, <1>1 DEF TypeOK, Pending
      <4>4. \A q \in Processes : pc[q] \in Cleared => op[q] \in Generations
        BY <1>1 DEF TypeOK, OperationsInv, Cleared, Holding, Generations
      <4> QED BY <3>1, <4>1, <4>2, <4>3, <4>4, <1>1 DEF TypeOK, FenceInv, Fencing
    <3> QED BY <3>2, <3>3
  <2>7. CASE StillOwns(p)
    <3>1. PICK there \in {"read", "tidy", "giveUp"} : pc' = [pc EXCEPT ![p] = there]
      BY <2>7, <1>1 DEF StillOwns, At, GoTo, SeeWhetherOwnerThen, LoseCommit
    <3>2. pc[p] = "stillOwns" /\ UNCHANGED <<kind, op, todo>>
      BY <2>7, <1>1 DEF StillOwns, SeeWhetherOwnerThen, At, local
    <3> QED BY <3>1, <3>2, <1>1
               DEF TypeOK, OperationsInv, FenceInv, Working, Generations, Holding, Pending,
                   Cleared, Fencing
  <2>8. CASE Read(p)
    <3>1. PICK there \in {"store", "tidy"} : pc' = [pc EXCEPT ![p] = there]
      BY <2>8, <1>1 DEF Read, At, GoTo
    <3>2. pc[p] = "read" /\ UNCHANGED <<kind, op, todo>>
      BY <2>8, <1>1 DEF Read, At
    <3> QED BY <3>1, <3>2, <1>1
               DEF TypeOK, OperationsInv, FenceInv, Working, Generations, Holding, Pending,
                   Cleared, Fencing
  <2>9. CASE Store(p)
    <3>1. pc[p] = "store" /\ op[p] \in Generations
      BY <2>9, <1>1 DEF Store, At, OperationsInv, Holding, Working, TypeOK, Generations
    <3>2. CASE Fenced(p)
      <4>1. PICK there \in {"tidy", "giveUp"} : pc' = [pc EXCEPT ![p] = there]
        BY <3>2 DEF Fenced, LoseCommit, GoTo
      <4>2. UNCHANGED <<kind, op, todo>>
        BY <3>2 DEF Fenced, local
      <4> QED BY <3>1, <4>1, <4>2, <1>1 DEF TypeOK, FenceInv, Working, Cleared, Fencing, Pending
    <3>3. CASE ~Fenced(p)
      <4>1. /\ kind' = [kind EXCEPT ![op[p]] = "committed"] /\ pc' = [pc EXCEPT ![p] = "ended"]
            /\ op' = [op EXCEPT ![p] = 0] /\ todo' = [todo EXCEPT ![p] = {}]
        BY <2>9, <3>3 DEF Store, Turn, EndWith, GoTo, Forget
      <4>2. \A h \in Generations : /\ Pending(h)' => Pending(h)
                                   /\ kind'[h] = "committed" => kind[h] = "committed" \/ h = op[p]
        BY <3>1, <4>1, <1>1 DEF TypeOK, Pending
      <4>3. \A q \in Processes : pc[q] \in Cleared => op[q] \in Generations
        BY <1>1 DEF TypeOK, OperationsInv, Cleared, Holding, Generations
      <4>4. \A q \in Processes : pc[q] \in Cleared /\ op[q] < op[p] => ~Pending(op[q])
        BY <3>1, <1>1 DEF FenceInv, Fencing
      <4>5. \A q \in Processes : q # p => pc'[q] = pc[q] /\ op'[q] = op[q] /\ todo'[q] = todo[q]
        BY <4>1, <1>1 DEF TypeOK
      <4>6. pc'[p] \notin Cleared /\ pc'[p] \notin Fencing
        BY <4>1, <1>1 DEF TypeOK, Cleared, Working, Fencing
      <4> QED BY <4>2, <4>3, <4>4, <4>5, <4>6, <1>1 DEF FenceInv
    <3> QED BY <3>2, <3>3
  <2> USE <1>1
         DEF TypeOK, OperationsInv, FenceInv, At, GoTo, Acquiring, Working, Leaving, local,
             Generations, Holding, Pending, Cleared, Fencing, Superseded
  <2>10. CASE Look(p)
    BY <2>10 DEF Look, Decide, Turned
  <2>11. CASE Reserve(p)
    BY <2>11 DEF Reserve, Turn
  <2>12. CASE OutOfGenerations(p)
    BY <2>12 DEF OutOfGenerations, EndWith, Forget
  <2>13. CASE MakePending(p)
    BY <2>13 DEF MakePending, Turn
  <2>14. CASE WriteOwner(p)
    BY <2>14 DEF WriteOwner, Decide
  <2>15. CASE SeeWhetherSuperseded(p)
    BY <2>15 DEF SeeWhetherSuperseded, Decide
  <2>16. CASE Retire(p)
    BY <2>16 DEF Retire, TryAgain
  <2>17. CASE Promoted(p)
    BY <2>17 DEF Promoted, Decide
  <2>18. CASE SeeWhetherOwner(p)
    BY <2>18 DEF SeeWhetherOwner, Decide
  <2>19. CASE Fetch(p)
    BY <2>19 DEF Fetch
  <2>20. CASE ListLower(p)
    BY <2>20 DEF ListLower
  <2>21. CASE GiveUp(p)
    BY <2>21 DEF GiveUp, Cancel, Forget, Turned
  <2>22. CASE Tidy(p)
    BY <2>22 DEF Tidy, Cancel, Forget
  <2>23. CASE AnswerFromCache(p)
    BY <2>23 DEF AnswerFromCache, EndWith, Forget
  <2>24. CASE Retry(p)
    BY <2>24 DEF Retry
  <2>25. CASE Expire(p)
    BY <2>25 DEF Expire, EndWith, Forget
  <2>26. CASE Fail(p)
    BY <2>26 DEF Fail, EndWith, Forget
  <2> QED BY <1>2, <2>1, <2>2, <2>3, <2>4, <2>5, <2>6, <2>7, <2>8, <2>9, <2>10, <2>11, <2>12,
             <2>13, <2>14, <2>15, <2>16, <2>17, <2>18, <2>19, <2>20, <2>21, <2>22, <2>23, <2>24,
             <2>25, <2>26
             DEF Step
<1>3. ASSUME NEW g \in Generations, Lapse(g) PROVE FenceInv'
  BY <1>1, <1>3 DEF Lapse, Turn, local, TypeOK, FenceInv, Active, Pending
<1> QED BY <1>2, <1>3 DEF Next

(* A step keeps the claim in order.                                         *)
LEMMA ClaimStep == ASSUME IInv, Next PROVE ClaimInv'
<1>1. TypeOK /\ OperationsInv /\ ClaimInv /\ MaxGeneration \in Nat /\ MaxAttempts \in Nat
  BY UpdateAssumption DEF IInv
<1>2. ASSUME NEW p \in Processes, Step(p) \/ Retry(p) \/ Expire(p) \/ Fail(p) PROVE ClaimInv'
  <2>1. CASE Start(p)
    <3>1. kind' = kind /\ claim' = claim /\ pc'[p] \in {"look", "ended"}
      BY <2>1, <1>1 DEF Start, GoTo, EndWith, TypeOK
    <3>2. \A q \in Processes \ {p} : pc'[q] = pc[q] /\ op'[q] = op[q] /\ seen'[q] = seen[q]
      BY <2>1, <1>1 DEF Start, GoTo, EndWith, Forget, local, TypeOK
    <3>3. seen'[p] \in {0, seen[p]}
      BY <2>1, <1>1 DEF Start, EndWith, Forget, local, TypeOK
    <3> QED BY <3>1, <3>2, <3>3, <1>1 DEF ClaimInv, Active, At, Holding, Working
  <2>2. CASE Inspect(p)
    <3>1. PICK there \in {"giveUp", "retire", "promote"} : pc' = [pc EXCEPT ![p] = there]
      BY <2>2, <1>1 DEF Inspect, At, GoTo
    <3>2. pc[p] = "inspect" /\ UNCHANGED <<kind, claim, op>>
      BY <2>2, <1>1 DEF Inspect, At
    <3>3. seen' = seen \/ (seen' = [seen EXCEPT ![p] = claim] /\ ClaimState = "releasable")
      BY <2>2, <1>1 DEF Inspect
    <3>4. ClaimState = "releasable" => claim # 0 /\ kind[claim] # "pending"
      BY <2>2, <1>1 DEF ClaimState, Active
    <3> QED BY <3>1, <3>2, <3>3, <3>4, <1>1
               DEF TypeOK, OperationsInv, ClaimInv, Working, Generations, Holding, Active, At
  <2>3. CASE SeeWhetherFresh(p)
    <3>1. PICK there \in {"owns", "tidy"} : pc' = [pc EXCEPT ![p] = there]
      BY <2>3, <1>1 DEF SeeWhetherFresh, At, GoTo
    <3>2. pc[p] = "fresh" /\ UNCHANGED <<kind, claim, op, seen>>
      BY <2>3, <1>1 DEF SeeWhetherFresh, At, local
    <3> QED BY <3>1, <3>2, <1>1
               DEF TypeOK, OperationsInv, ClaimInv, Working, Generations, Holding, Active, At
  <2>4. CASE Commit(p)
    <3>1. PICK there \in {"list", "tidy", "giveUp"} : pc' = [pc EXCEPT ![p] = there]
      BY <2>4, <1>1 DEF Commit, At, GoTo, SeeWhetherOwnerThen, LoseCommit
    <3>2. pc[p] = "commit" /\ UNCHANGED <<kind, claim, op, seen>>
      BY <2>4, <1>1 DEF Commit, SeeWhetherOwnerThen, At, local
    <3> QED BY <3>1, <3>2, <1>1
               DEF TypeOK, OperationsInv, ClaimInv, Working, Generations, Holding, Active, At
  <2>5. CASE Fence(p)
    <3>1. pc[p] = "fence" /\ UNCHANGED <<op, seen, claim>>
      BY <2>5, <1>1 DEF Fence, At
    <3>2. PICK there \in {"fence", "stillOwns"} : pc' = [pc EXCEPT ![p] = there]
      BY <2>5, <1>1 DEF Fence, At, GoTo, TypeOK
    <3>3. \A g \in Generations : kind'[g] = kind[g] \/ (kind[g] \in {"pending", "stale"}
            /\ kind'[g] = "fenced")
      BY <2>5, <1>1 DEF Fence, TypeOK, Pending
    <3>4. (claim # 0 => claim \in Generations)
            /\ \A q \in Processes : (op[q] # 0 => op[q] \in Generations)
              /\ (seen[q] # 0 => seen[q] \in Generations)
      BY <2>5, <1>1 DEF TypeOK, Generations
    <3>5. \A q \in Processes : pc'[q] \in Holding \ {"mkdir"} => pc[q] \in Holding \ {"mkdir"}
            /\ op[q] # 0
      BY <2>5, <1>1 DEF Fence, At, GoTo, TypeOK, OperationsInv, Holding, Working
    <3> QED BY <3>1, <3>2, <3>3, <3>4, <3>5, <1>1
               DEF TypeOK, OperationsInv, ClaimInv, Working, Generations, Holding, Active, At
  <2>6. CASE StillOwns(p)
    <3>1. PICK there \in {"read", "tidy", "giveUp"} : pc' = [pc EXCEPT ![p] = there]
      BY <2>6, <1>1 DEF StillOwns, At, GoTo, SeeWhetherOwnerThen, LoseCommit
    <3>2. pc[p] = "stillOwns" /\ UNCHANGED <<kind, claim, op, seen>>
      BY <2>6, <1>1 DEF StillOwns, SeeWhetherOwnerThen, At, local
    <3> QED BY <3>1, <3>2, <1>1
               DEF TypeOK, OperationsInv, ClaimInv, Working, Generations, Holding, Active, At
  <2>7. CASE Read(p)
    <3>1. PICK there \in {"store", "tidy"} : pc' = [pc EXCEPT ![p] = there]
      BY <2>7, <1>1 DEF Read, At, GoTo
    <3>2. pc[p] = "read" /\ UNCHANGED <<kind, claim, op, seen>>
      BY <2>7, <1>1 DEF Read, At
    <3> QED BY <3>1, <3>2, <1>1
               DEF TypeOK, OperationsInv, ClaimInv, Working, Generations, Holding, Active, At
  <2>8. CASE Store(p)
    <3>1. pc[p] = "store" /\ op[p] \in Generations /\ claim' = claim
      BY <2>8, <1>1 DEF Store, Fenced, At, OperationsInv, Holding, Working, TypeOK, Generations
    <3>2. CASE Fenced(p)
      <4>1. PICK there \in {"tidy", "giveUp"} : pc' = [pc EXCEPT ![p] = there]
        BY <3>2 DEF Fenced, LoseCommit, GoTo
      <4>2. UNCHANGED <<kind, op, seen>>
        BY <3>2 DEF Fenced, local
      <4> QED BY <3>1, <4>1, <4>2, <1>1
                 DEF TypeOK, OperationsInv, ClaimInv, Working, Generations, Holding, Active, At
    <3>3. CASE ~Fenced(p)
      <4>1. /\ kind' = [kind EXCEPT ![op[p]] = "committed"] /\ pc' = [pc EXCEPT ![p] = "ended"]
            /\ op' = [op EXCEPT ![p] = 0] /\ seen' = [seen EXCEPT ![p] = 0]
        BY <2>8, <3>3 DEF Store, Turn, EndWith, GoTo, Forget
      <4> QED BY <3>1, <4>1, <1>1
                 DEF TypeOK, OperationsInv, ClaimInv, Working, Generations, Holding, Active, At
    <3> QED BY <3>2, <3>3
  <2> USE <1>1
         DEF TypeOK, OperationsInv, ClaimInv, At, GoTo, Acquiring, Working, Leaving, local,
             Generations, Holding, Pending, Active, ClaimState, Owns
  <2>9. CASE Look(p)
    BY <2>9 DEF Look, Decide, Turned
  <2>10. CASE Reserve(p)
    BY <2>10 DEF Reserve, Turn
  <2>11. CASE OutOfGenerations(p)
    BY <2>11 DEF OutOfGenerations, EndWith, Forget
  <2>12. CASE MakePending(p)
    BY <2>12 DEF MakePending, Turn
  <2>13. CASE WriteOwner(p)
    BY <2>13 DEF WriteOwner, Decide
  <2>14. CASE SeeWhetherSuperseded(p)
    BY <2>14 DEF SeeWhetherSuperseded, Decide
  <2>15. CASE Retire(p)
    BY <2>15 DEF Retire, TryAgain
  <2>16. CASE Promote(p)
    BY <2>16 DEF Promote, TryAgain
  <2>17. CASE Promoted(p)
    BY <2>17 DEF Promoted, Decide
  <2>18. CASE SeeWhetherOwner(p)
    BY <2>18 DEF SeeWhetherOwner, Decide
  <2>19. CASE Fetch(p)
    BY <2>19 DEF Fetch
  <2>20. CASE ListLower(p)
    BY <2>20 DEF ListLower
  <2>21. CASE GiveUp(p)
    BY <2>21 DEF GiveUp, Cancel, Forget, Turned
  <2>22. CASE Tidy(p)
    BY <2>22 DEF Tidy, Cancel, Forget
  <2>23. CASE AnswerFromCache(p)
    BY <2>23 DEF AnswerFromCache, EndWith, Forget
  <2>24. CASE Retry(p)
    BY <2>24 DEF Retry
  <2>25. CASE Expire(p)
    BY <2>25 DEF Expire, EndWith, Forget
  <2>26. CASE Fail(p)
    BY <2>26 DEF Fail, EndWith, Forget
  <2> QED BY <1>2, <2>1, <2>2, <2>3, <2>4, <2>5, <2>6, <2>7, <2>8, <2>9, <2>10, <2>11, <2>12,
             <2>13, <2>14, <2>15, <2>16, <2>17, <2>18, <2>19, <2>20, <2>21, <2>22, <2>23, <2>24,
             <2>25, <2>26
             DEF Step
<1>3. ASSUME NEW g \in Generations, Lapse(g) PROVE ClaimInv'
  BY <1>1, <1>3 DEF Lapse, Turn, local, TypeOK, ClaimInv, Active, At
<1> QED BY <1>2, <1>3 DEF Next
-----------------------------------------------------------------------------
(* The one step that commits, and all the others.                          *)
Commits(p) == Store(p) /\ ~Fenced(p)

SameCommits ==
  /\ body' = body
  /\ \A g \in Generations : kind'[g] = "committed" <=> kind[g] = "committed"

(* What is read depends on what is committed, and on nothing else.         *)
LEMMA CurrentStays == ASSUME SameCommits PROVE Current' = Current
<1>1. Readings(kind, body)' = Readings(kind, body)
  BY DEF SameCommits, Readings
<1> QED BY <1>1 DEF Current, StateOf, SameCommits

(* Whoever does not commit leaves what is committed alone.                 *)
LEMMA OthersStay ==
  ASSUME IInv, NEW p \in Processes, Step(p) \/ Retry(p) \/ Expire(p) \/ Fail(p), ~Commits(p)
  PROVE  SameCommits
<1>1. TypeOK /\ OperationsInv
  BY DEF IInv
<1>2. ~Commits(p)
  OBVIOUS
<1>3. ASSUME Step(p) \/ Retry(p) \/ Expire(p) \/ Fail(p) PROVE SameCommits
  <2>1. CASE Fence(p)
    <3>1. body' = body
            /\ \A g \in Generations : kind'[g] = kind[g] \/ (Pending(g) /\ kind'[g] = "fenced")
      BY <2>1, <1>1 DEF Fence, TypeOK
    <3> QED BY <3>1 DEF SameCommits, Pending
  <2>2. CASE Store(p)
    <3>1. Fenced(p) /\ UNCHANGED <<kind, body>>
      BY <2>2, <1>2 DEF Commits, Fenced
    <3> QED BY <3>1 DEF SameCommits
  <2> USE <1>1, <1>2
         DEF SameCommits, TypeOK, OperationsInv, At, Holding, Working, Generations, Pending
  <2>3. CASE Start(p)
    BY <2>3 DEF Start, EndWith, Forget
  <2>4. CASE Look(p)
    BY <2>4 DEF Look, Decide, Turned
  <2>5. CASE Reserve(p)
    BY <2>5 DEF Reserve, Turn
  <2>6. CASE OutOfGenerations(p)
    BY <2>6 DEF OutOfGenerations, EndWith, Forget
  <2>7. CASE MakePending(p)
    BY <2>7 DEF MakePending, Turn
  <2>8. CASE WriteOwner(p)
    BY <2>8 DEF WriteOwner, Decide
  <2>9. CASE SeeWhetherSuperseded(p)
    BY <2>9 DEF SeeWhetherSuperseded, Decide
  <2>10. CASE Inspect(p)
    BY <2>10 DEF Inspect
  <2>11. CASE Retire(p)
    BY <2>11 DEF Retire, TryAgain
  <2>12. CASE Promote(p)
    BY <2>12 DEF Promote, TryAgain
  <2>13. CASE Promoted(p)
    BY <2>13 DEF Promoted, Decide
  <2>14. CASE SeeWhetherFresh(p)
    BY <2>14 DEF SeeWhetherFresh
  <2>15. CASE SeeWhetherOwner(p)
    BY <2>15 DEF SeeWhetherOwner, Decide
  <2>16. CASE Fetch(p)
    BY <2>16 DEF Fetch
  <2>17. CASE Commit(p)
    BY <2>17 DEF Commit, SeeWhetherOwnerThen, LoseCommit
  <2>18. CASE ListLower(p)
    BY <2>18 DEF ListLower
  <2>19. CASE StillOwns(p)
    BY <2>19 DEF StillOwns, SeeWhetherOwnerThen, LoseCommit
  <2>20. CASE Read(p)
    BY <2>20 DEF Read
  <2>21. CASE GiveUp(p)
    BY <2>21 DEF GiveUp, Cancel, Forget, Turned
  <2>22. CASE Tidy(p)
    BY <2>22 DEF Tidy, Cancel, Forget
  <2>23. CASE AnswerFromCache(p)
    BY <2>23 DEF AnswerFromCache, EndWith, Forget
  <2>24. CASE Retry(p)
    BY <2>24 DEF Retry
  <2>25. CASE Expire(p)
    BY <2>25 DEF Expire, EndWith, Forget
  <2>26. CASE Fail(p)
    BY <2>26 DEF Fail, EndWith, Forget
  <2> QED BY <1>3, <2>1, <2>2, <2>3, <2>4, <2>5, <2>6, <2>7, <2>8, <2>9, <2>10, <2>11, <2>12,
             <2>13, <2>14, <2>15, <2>16, <2>17, <2>18, <2>19, <2>20, <2>21, <2>22, <2>23, <2>24,
             <2>25, <2>26
             DEF Step
<1> QED BY <1>3

(* So does a lease that runs out.                                          *)
LEMMA LapseStays == ASSUME IInv, NEW g \in Generations, Lapse(g) PROVE SameCommits
  BY DEF Lapse, Turn, Active, SameCommits, IInv, TypeOK

(* What is committed was computed from what was current, and is current    *)
(* now: nothing later was committed, or the operation would be fenced.     *)
LEMMA CommitStep ==
  ASSUME IInv, NEW p \in Processes, Commits(p)
  PROVE  /\ view[p] = Current /\ Current' = Outcome(p).state
         /\ Outcome(p).state \in States /\ Readable(Outcome(p).state)
         /\ kind' = [kind EXCEPT ![op[p]] = "committed"]
           /\ body' = [body EXCEPT ![op[p]] = Outcome(p).state]
         /\ pc[p] = "store" /\ pc' = [pc EXCEPT ![p] = "ended"]
         /\ \E r \in {Outcome(p).answer, Silent} : result' = [result EXCEPT ![p] = r]
         /\ op' = [op EXCEPT ![p] = 0] /\ view' = [view EXCEPT ![p] = EmptyState]
<1>1. TypeOK /\ OperationsInv /\ FenceInv /\ ViewInv /\ CommittedIsReadable
  BY DEF IInv, AnswersKept
<1>2. /\ pc[p] = "store" /\ Pending(op[p]) /\ kind' = [kind EXCEPT ![op[p]] = "committed"]
      /\ body' = [body EXCEPT ![op[p]] = Outcome(p).state] /\ pc' = [pc EXCEPT ![p] = "ended"]
      /\ \E r \in {Outcome(p).answer, Silent} : result' = [result EXCEPT ![p] = r]
      /\ op' = [op EXCEPT ![p] = 0] /\ view' = [view EXCEPT ![p] = EmptyState]
  BY DEF Commits, Store, At, Turn, EndWith, GoTo, Answer, Forget
<1>3. op[p] \in Generations
  BY <1>1, <1>2 DEF TypeOK, OperationsInv, Holding, Working, Generations
<1>4. view[p] = Current /\ view[p] \in States /\ Readable(view[p])
  BY <1>1, <1>2 DEF ViewInv, TypeOK
<1>5. Outcome(p).state \in States /\ Readable(Outcome(p).state)
  <2>1. CASE Checker(p)
    <3>1. found[p] \in Digests \cup {None}
      BY <1>1 DEF TypeOK
    <3> QED BY <1>4, <2>1, <3>1, CheckKeeps DEF Outcome
  <2>2. CASE ~Checker(p)
    <3>1. Role[p] \in Digests /\ Role[p] \in Offered(view[p])
      BY <1>1, <1>2, <2>2, UpdateAssumption DEF ViewInv, Checker
    <3> QED BY <1>4, <2>2, <3>1, AcknowledgementKeeps DEF Outcome
  <2> QED BY <2>1, <2>2
<1>6. Current' = Outcome(p).state
  <2>1. kind'[op[p]] = "committed" /\ body'[op[p]] = Outcome(p).state
    BY <1>1, <1>2, <1>3 DEF TypeOK
  <2>2. op[p] \in Readings(kind', body')
    BY <1>3, <1>5, <2>1 DEF Readings
  <2>3. \A h \in Readings(kind', body') : h <= op[p]
    <3>1. ASSUME NEW h \in Readings(kind', body'), op[p] < h PROVE FALSE
      <4>1. h \in Generations /\ kind[h] = "committed"
        BY <1>1, <1>2, <1>3, <3>1, UpdateAssumption DEF Readings, TypeOK, Generations
      <4> QED BY <1>1, <1>2, <3>1, <4>1 DEF FenceInv, Cleared, Working
    <3>2. \A h \in Readings(kind', body') : h \in Int /\ op[p] \in Int
      BY <1>3, UpdateAssumption DEF Readings, Generations
    <3> QED BY <3>1, <3>2
  <2>4. \A g, h \in Readings(kind', body') : g \in Int /\ h \in Int
    BY UpdateAssumption DEF Readings, Generations
  <2>5. (CHOOSE g \in Readings(kind', body') : \A h \in Readings(kind', body') : h <= g) = op[p]
    BY <2>2, <2>3, <2>4
  <2> QED BY <2>1, <2>2, <2>5 DEF Current, StateOf
<1> QED BY <1>2, <1>4, <1>5, <1>6

(* What a step that commits nothing answers, if it answers at all.         *)
Says(p) ==
  \/ result' = result
  \/ /\ result[p] = None
     /\ \E r \in {Silent, ResultFor(Current)} : result' = [result EXCEPT ![p] = r]

(* Such a step says nothing or announces the current candidate.            *)
LEMMA OthersSay ==
  ASSUME IInv, NEW p \in Processes, Step(p) \/ Retry(p) \/ Expire(p) \/ Fail(p), ~Commits(p)
  PROVE  Says(p)
<1>1. AnswerInv
  BY DEF IInv
<1>2. ~Commits(p)
  OBVIOUS
<1>3. ASSUME Step(p) \/ Retry(p) \/ Expire(p) \/ Fail(p) PROVE Says(p)
  <2>1. CASE Store(p)
    <3>1. Fenced(p)
      BY <2>1, <1>2 DEF Commits
    <3> QED BY <3>1, <1>1, <2>1 DEF Fenced, LoseCommit, GoTo, Answer, Says, AnswerInv, Store, At
  <2> USE <1>1, <1>2 DEF Says, Answer, AnswerInv, At, local, Acquiring, Working
  <2>2. CASE Start(p)
    BY <2>2 DEF Start, EndWith, Forget
  <2>3. CASE Look(p)
    BY <2>3 DEF Look, Decide, Turned
  <2>4. CASE Reserve(p)
    BY <2>4 DEF Reserve, Turn
  <2>5. CASE OutOfGenerations(p)
    BY <2>5 DEF OutOfGenerations, EndWith, Forget
  <2>6. CASE MakePending(p)
    BY <2>6 DEF MakePending, Turn
  <2>7. CASE WriteOwner(p)
    BY <2>7 DEF WriteOwner, Decide
  <2>8. CASE SeeWhetherSuperseded(p)
    BY <2>8 DEF SeeWhetherSuperseded, Decide
  <2>9. CASE Inspect(p)
    BY <2>9 DEF Inspect
  <2>10. CASE Retire(p)
    BY <2>10 DEF Retire, TryAgain
  <2>11. CASE Promote(p)
    BY <2>11 DEF Promote, TryAgain
  <2>12. CASE Promoted(p)
    BY <2>12 DEF Promoted, Decide
  <2>13. CASE SeeWhetherFresh(p)
    BY <2>13 DEF SeeWhetherFresh
  <2>14. CASE SeeWhetherOwner(p)
    BY <2>14 DEF SeeWhetherOwner, Decide
  <2>15. CASE Fetch(p)
    BY <2>15 DEF Fetch
  <2>16. CASE Commit(p)
    BY <2>16 DEF Commit, SeeWhetherOwnerThen, LoseCommit
  <2>17. CASE ListLower(p)
    BY <2>17 DEF ListLower
  <2>18. CASE Fence(p)
    BY <2>18 DEF Fence
  <2>19. CASE StillOwns(p)
    BY <2>19 DEF StillOwns, SeeWhetherOwnerThen, LoseCommit
  <2>20. CASE Read(p)
    BY <2>20 DEF Read
  <2>21. CASE GiveUp(p)
    BY <2>21 DEF GiveUp, Cancel, Forget, Turned
  <2>22. CASE Tidy(p)
    BY <2>22 DEF Tidy, Cancel, Forget
  <2>23. CASE AnswerFromCache(p)
    BY <2>23 DEF AnswerFromCache, EndWith, Forget
  <2>24. CASE Retry(p)
    BY <2>24 DEF Retry
  <2>25. CASE Expire(p)
    BY <2>25 DEF Expire, EndWith, Forget
  <2>26. CASE Fail(p)
    BY <2>26 DEF Fail, EndWith, Forget
  <2> QED BY <1>3, <2>1, <2>2, <2>3, <2>4, <2>5, <2>6, <2>7, <2>8, <2>9, <2>10, <2>11, <2>12,
             <2>13, <2>14, <2>15, <2>16, <2>17, <2>18, <2>19, <2>20, <2>21, <2>22, <2>23, <2>24,
             <2>25, <2>26
             DEF Step
<1> QED BY <1>3

(* Only a command that is done, or about to be, has answered.               *)
LEMMA AnswerStep == ASSUME IInv, Next PROVE AnswerInv'
<1>1. TypeOK /\ AnswerInv
  BY DEF IInv
<1>2. ASSUME NEW p \in Processes, Step(p) \/ Retry(p) \/ Expire(p) \/ Fail(p) PROVE AnswerInv'
  <2>1. CASE Start(p)
    <3>1. \/ pc' = [pc EXCEPT ![p] = "look"] /\ UNCHANGED result
          \/ pc' = [pc EXCEPT ![p] = "ended"]
      BY <2>1, <1>1 DEF Start, EndWith, GoTo
    <3>2. pc[p] = "idle" /\ \A q \in Processes \ {p} : result'[q] = result[q]
      BY <2>1, <1>1 DEF Start, EndWith, Answer, At, TypeOK
    <3> QED BY <3>1, <3>2, <1>1 DEF TypeOK, AnswerInv
  <2>2. CASE SeeWhetherFresh(p)
    <3>1. pc'[p] \in {"tidy", "ended"} \/ result' = result
      BY <2>2, <1>1 DEF SeeWhetherFresh, GoTo, TypeOK
    <3>2. pc[p] \notin {"tidy", "ended"}
            /\ \A q \in Processes \ {p} : pc'[q] = pc[q] /\ result'[q] = result[q]
      BY <2>2, <1>1 DEF SeeWhetherFresh, At, GoTo, Answer, TypeOK
    <3> QED BY <3>1, <3>2, <1>1 DEF AnswerInv
  <2>3. CASE Commit(p)
    <3>1. pc'[p] \in {"tidy", "ended"} \/ result' = result
      BY <2>3, <1>1 DEF Commit, SeeWhetherOwnerThen, LoseCommit, GoTo, TypeOK
    <3>2. pc[p] \notin {"tidy", "ended"}
            /\ \A q \in Processes \ {p} : pc'[q] = pc[q] /\ result'[q] = result[q]
      BY <2>3, <1>1 DEF Commit, SeeWhetherOwnerThen, LoseCommit, At, GoTo, Answer, TypeOK
    <3> QED BY <3>1, <3>2, <1>1 DEF AnswerInv
  <2>4. CASE StillOwns(p)
    <3>1. pc'[p] \in {"tidy", "ended"} \/ result' = result
      BY <2>4, <1>1 DEF StillOwns, SeeWhetherOwnerThen, LoseCommit, GoTo, TypeOK
    <3>2. pc[p] \notin {"tidy", "ended"}
            /\ \A q \in Processes \ {p} : pc'[q] = pc[q] /\ result'[q] = result[q]
      BY <2>4, <1>1 DEF StillOwns, SeeWhetherOwnerThen, LoseCommit, At, GoTo, Answer, TypeOK
    <3> QED BY <3>1, <3>2, <1>1 DEF AnswerInv
  <2>5. CASE Read(p)
    <3>1. pc'[p] \in {"tidy", "ended"} \/ result' = result
      BY <2>5, <1>1 DEF Read, GoTo, TypeOK
    <3>2. pc[p] \notin {"tidy", "ended"}
            /\ \A q \in Processes \ {p} : pc'[q] = pc[q] /\ result'[q] = result[q]
      BY <2>5, <1>1 DEF Read, At, GoTo, Answer, TypeOK
    <3> QED BY <3>1, <3>2, <1>1 DEF AnswerInv
  <2>6. CASE Store(p)
    <3>1. pc[p] = "store" /\ pc'[p] \in {"tidy", "ended", "giveUp"}
            /\ \A q \in Processes \ {p} : pc'[q] = pc[q] /\ result'[q] = result[q]
      BY <2>6, <1>1 DEF Store, At, Fenced, LoseCommit, EndWith, GoTo, Answer, TypeOK
    <3>2. pc'[p] = "giveUp" => result' = result
      BY <2>6, <1>1 DEF Store, Fenced, LoseCommit, EndWith, GoTo, TypeOK
    <3> QED BY <3>1, <3>2, <1>1 DEF AnswerInv
  <2> USE <1>1 DEF TypeOK, AnswerInv, At, GoTo, Answer, local
  <2>7. CASE Look(p)
    BY <2>7 DEF Look, Decide, Turned
  <2>8. CASE Reserve(p)
    BY <2>8 DEF Reserve, Turn
  <2>9. CASE OutOfGenerations(p)
    BY <2>9 DEF OutOfGenerations, EndWith, Forget
  <2>10. CASE MakePending(p)
    BY <2>10 DEF MakePending, Turn
  <2>11. CASE WriteOwner(p)
    BY <2>11 DEF WriteOwner, Decide
  <2>12. CASE SeeWhetherSuperseded(p)
    BY <2>12 DEF SeeWhetherSuperseded, Decide
  <2>13. CASE Inspect(p)
    BY <2>13 DEF Inspect
  <2>14. CASE Retire(p)
    BY <2>14 DEF Retire, TryAgain
  <2>15. CASE Promote(p)
    BY <2>15 DEF Promote, TryAgain
  <2>16. CASE Promoted(p)
    BY <2>16 DEF Promoted, Decide
  <2>17. CASE SeeWhetherOwner(p)
    BY <2>17 DEF SeeWhetherOwner, Decide
  <2>18. CASE Fetch(p)
    BY <2>18 DEF Fetch
  <2>19. CASE ListLower(p)
    BY <2>19 DEF ListLower
  <2>20. CASE Fence(p)
    BY <2>20 DEF Fence
  <2>21. CASE GiveUp(p)
    BY <2>21 DEF GiveUp, Cancel, Forget, Turned
  <2>22. CASE Tidy(p)
    BY <2>22 DEF Tidy, Cancel, Forget
  <2>23. CASE AnswerFromCache(p)
    BY <2>23 DEF AnswerFromCache, EndWith, Forget
  <2>24. CASE Retry(p)
    BY <2>24 DEF Retry
  <2>25. CASE Expire(p)
    BY <2>25 DEF Expire, EndWith, Forget
  <2>26. CASE Fail(p)
    BY <2>26 DEF Fail, EndWith, Forget
  <2> QED BY <1>2, <2>1, <2>2, <2>3, <2>4, <2>5, <2>6, <2>7, <2>8, <2>9, <2>10, <2>11, <2>12,
             <2>13, <2>14, <2>15, <2>16, <2>17, <2>18, <2>19, <2>20, <2>21, <2>22, <2>23, <2>24,
             <2>25, <2>26
             DEF Step
<1>3. ASSUME NEW g \in Generations, Lapse(g) PROVE AnswerInv'
  BY <1>1, <1>3 DEF Lapse, local, AnswerInv
<1> QED BY <1>2, <1>3 DEF Next

(* What a command computes from stays current as long as it may commit.    *)
LEMMA ViewStep == ASSUME IInv, Next PROVE ViewInv'
<1>1. Current \in States /\ Readable(Current)
  BY StateIsState DEF IInv, TypeOK, Current
<1>2. TypeOK /\ OperationsInv /\ FenceInv /\ ViewInv
  BY DEF IInv
<1>3. ASSUME NEW p \in Processes, Step(p) \/ Retry(p) \/ Expire(p) \/ Fail(p), ~Commits(p)
        PROVE Current' = Current /\ Current \in States /\ Readable(Current)
  BY <1>1, <1>3, OthersStay, CurrentStays
<1>4. ASSUME NEW p \in Processes, Step(p) \/ Retry(p) \/ Expire(p) \/ Fail(p), ~Commits(p)
        PROVE ViewInv'
  <2>0. Current' = Current /\ Current \in States /\ Readable(Current)
    BY <1>3, <1>4
  <2>1. CASE Start(p)
    <3>1. pc'[p] # "store" /\ pc[p] # "mkdir"
            /\ \A q \in Processes \ {p} : pc'[q] = pc[q] /\ view'[q] = view[q] /\ op'[q] = op[q]
      BY <2>1, <1>2 DEF Start, EndWith, Forget, At, GoTo, local, TypeOK
    <3>2. \A q \in Processes \ {p} : pc[q] = "store" => (Pending(op[q])' => Pending(op[q]))
      BY <2>1, <3>1, <1>2 DEF Start, EndWith, Forget, Turn, TypeOK, Pending
    <3> QED BY <3>1, <3>2, <1>2, <2>0 DEF ViewInv, Pending
  <2>2. CASE MakePending(p)
    <3>1. pc'[p] = "owner" /\ \A q \in Processes \ {p} : pc'[q] = pc[q]
      BY <2>2, <1>2 DEF MakePending, GoTo, TypeOK
    <3>2. view' = view /\ op' = op
      BY <2>2 DEF MakePending, local
    <3>3. \A q \in Processes \ {p} : pc[q] = "store" => op[q] # op[p]
      BY <1>2 DEF OperationsInv, Holding, Working
    <3>4. \A q \in Processes \ {p} : pc[q] = "store" => (Pending(op[q])' => Pending(op[q]))
      BY <2>2, <3>2, <3>3, <1>2 DEF MakePending, Turn, TypeOK, Pending
    <3> QED BY <3>1, <3>2, <3>4, <1>2, <2>0 DEF ViewInv, Pending
  <2>3. CASE Inspect(p)
    <3>1. pc'[p] # "store" /\ pc[p] # "mkdir"
            /\ \A q \in Processes \ {p} : pc'[q] = pc[q] /\ view'[q] = view[q] /\ op'[q] = op[q]
      BY <2>3, <1>2 DEF Inspect, At, GoTo, local, TypeOK
    <3>2. \A q \in Processes \ {p} : pc[q] = "store" => (Pending(op[q])' => Pending(op[q]))
      BY <2>3, <3>1, <1>2 DEF Inspect, Turn, TypeOK, Pending
    <3> QED BY <3>1, <3>2, <1>2, <2>0 DEF ViewInv, Pending
  <2>4. CASE Promote(p)
    <3>1. pc'[p] # "store" /\ pc[p] # "mkdir"
            /\ \A q \in Processes \ {p} : pc'[q] = pc[q] /\ view'[q] = view[q] /\ op'[q] = op[q]
      BY <2>4, <1>2 DEF Promote, TryAgain, At, GoTo, local, TypeOK
    <3>2. \A q \in Processes \ {p} : pc[q] = "store" => (Pending(op[q])' => Pending(op[q]))
      BY <2>4, <3>1, <1>2 DEF Promote, TryAgain, Turn, TypeOK, Pending
    <3> QED BY <3>1, <3>2, <1>2, <2>0 DEF ViewInv, Pending
  <2>5. CASE SeeWhetherFresh(p)
    <3>1. pc'[p] # "store" /\ pc[p] # "mkdir"
            /\ \A q \in Processes \ {p} : pc'[q] = pc[q] /\ view'[q] = view[q] /\ op'[q] = op[q]
      BY <2>5, <1>2 DEF SeeWhetherFresh, At, GoTo, local, TypeOK
    <3>2. \A q \in Processes \ {p} : pc[q] = "store" => (Pending(op[q])' => Pending(op[q]))
      BY <2>5, <3>1, <1>2 DEF SeeWhetherFresh, Turn, TypeOK, Pending
    <3> QED BY <3>1, <3>2, <1>2, <2>0 DEF ViewInv, Pending
  <2>6. CASE Commit(p)
    <3>1. pc'[p] # "store" /\ pc[p] # "mkdir"
            /\ \A q \in Processes \ {p} : pc'[q] = pc[q] /\ view'[q] = view[q] /\ op'[q] = op[q]
      BY <2>6, <1>2 DEF Commit, SeeWhetherOwnerThen, LoseCommit, At, GoTo, local, TypeOK
    <3>2. \A q \in Processes \ {p} : pc[q] = "store" => (Pending(op[q])' => Pending(op[q]))
      BY <2>6, <3>1, <1>2 DEF Commit, SeeWhetherOwnerThen, LoseCommit, Turn, TypeOK, Pending
    <3> QED BY <3>1, <3>2, <1>2, <2>0 DEF ViewInv, Pending
  <2>7. CASE Fence(p)
    <3>1. pc'[p] # "store" /\ pc[p] # "mkdir"
            /\ \A q \in Processes \ {p} : pc'[q] = pc[q] /\ view'[q] = view[q] /\ op'[q] = op[q]
      BY <2>7, <1>2 DEF Fence, At, GoTo, local, TypeOK
    <3>2. \A q \in Processes \ {p} : pc[q] = "store" => (Pending(op[q])' => Pending(op[q]))
      <4>1. \A g \in Generations : kind'[g] = kind[g] \/ kind'[g] = "fenced"
        BY <2>7, <1>2 DEF Fence, TypeOK
      <4>2. \A q \in Processes \ {p} : pc[q] = "store" => op[q] \in Generations
        BY <1>2 DEF TypeOK, OperationsInv, Holding, Working, Generations
      <4> QED BY <3>1, <4>1, <4>2 DEF Pending
    <3> QED BY <3>1, <3>2, <1>2, <2>0 DEF ViewInv, Pending
  <2>8. CASE StillOwns(p)
    <3>1. pc'[p] # "store" /\ pc[p] # "mkdir"
            /\ \A q \in Processes \ {p} : pc'[q] = pc[q] /\ view'[q] = view[q] /\ op'[q] = op[q]
      BY <2>8, <1>2 DEF StillOwns, SeeWhetherOwnerThen, LoseCommit, At, GoTo, local, TypeOK
    <3>2. \A q \in Processes \ {p} : pc[q] = "store" => (Pending(op[q])' => Pending(op[q]))
      BY <2>8, <3>1, <1>2 DEF StillOwns, SeeWhetherOwnerThen, LoseCommit, Turn, TypeOK, Pending
    <3> QED BY <3>1, <3>2, <1>2, <2>0 DEF ViewInv, Pending
  <2>9. CASE Read(p)
    <3>1. /\ pc[p] = "read" /\ UNCHANGED <<kind, op>> /\ view' = [view EXCEPT ![p] = Current]
          /\ \A q \in Processes \ {p} : pc'[q] = pc[q]
      BY <2>9, <1>2 DEF Read, At, GoTo, TypeOK
    <3>2. pc'[p] = "store" => Checker(p) \/ Role[p] \in Offered(Current)
      BY <2>9, <1>2 DEF Read, GoTo, TypeOK
    <3>3. view'[p] = Current /\ \A q \in Processes \ {p} : view'[q] = view[q]
      BY <3>1, <1>2 DEF TypeOK
    <3> QED BY <3>1, <3>2, <3>3, <1>2, <2>0 DEF ViewInv, Pending
  <2>10. CASE Store(p)
    <3>1. Fenced(p)
      BY <2>10, <1>4 DEF Commits
    <3>2. pc'[p] # "store" /\ \A q \in Processes \ {p} : pc'[q] = pc[q]
      BY <3>1, <1>2 DEF Fenced, LoseCommit, GoTo, TypeOK
    <3>3. UNCHANGED <<view, op, kind>>
      BY <3>1 DEF Fenced, local
    <3> QED BY <3>2, <3>3, <1>2, <2>0 DEF ViewInv, Pending
  <2>11. CASE GiveUp(p)
    <3>1. pc'[p] # "store" /\ pc[p] # "mkdir"
            /\ \A q \in Processes \ {p} : pc'[q] = pc[q] /\ view'[q] = view[q] /\ op'[q] = op[q]
      BY <2>11, <1>2 DEF GiveUp, Cancel, Forget, Turned, At, GoTo, local, TypeOK
    <3>2. \A q \in Processes \ {p} : pc[q] = "store" => (Pending(op[q])' => Pending(op[q]))
      BY <2>11, <3>1, <1>2 DEF GiveUp, Cancel, Forget, Turned, Turn, TypeOK, Pending
    <3> QED BY <3>1, <3>2, <1>2, <2>0 DEF ViewInv, Pending
  <2>12. CASE Tidy(p)
    <3>1. pc'[p] # "store" /\ pc[p] # "mkdir"
            /\ \A q \in Processes \ {p} : pc'[q] = pc[q] /\ view'[q] = view[q] /\ op'[q] = op[q]
      BY <2>12, <1>2 DEF Tidy, Cancel, Forget, At, GoTo, local, TypeOK
    <3>2. \A q \in Processes \ {p} : pc[q] = "store" => (Pending(op[q])' => Pending(op[q]))
      BY <2>12, <3>1, <1>2 DEF Tidy, Cancel, Forget, Turn, TypeOK, Pending
    <3> QED BY <3>1, <3>2, <1>2, <2>0 DEF ViewInv, Pending
  <2>13. CASE Fail(p)
    <3>1. pc'[p] # "store"
            /\ \A q \in Processes \ {p} : pc'[q] = pc[q] /\ view'[q] = view[q] /\ op'[q] = op[q]
      BY <2>13, <1>2 DEF Fail, EndWith, Forget, At, GoTo, local, TypeOK
    <3>2. \A q \in Processes \ {p} : pc[q] = "store" => (Pending(op[q])' => Pending(op[q]))
      <4>1. \A g \in Generations : kind'[g] = kind[g] \/ kind'[g] = "cancelled"
        BY <2>13, <1>2 DEF Fail, TypeOK
      <4>2. \A q \in Processes \ {p} : pc[q] = "store" => op[q] \in Generations
        BY <1>2 DEF TypeOK, OperationsInv, Holding, Working, Generations
      <4> QED BY <3>1, <4>1, <4>2 DEF Pending
    <3> QED BY <3>1, <3>2, <1>2, <2>0 DEF ViewInv, Pending
  <2> USE <1>2, <2>0 DEF TypeOK, OperationsInv, ViewInv, At, GoTo, local, Pending
  <2>14. CASE Look(p)
    BY <2>14 DEF Look, Decide, Turned
  <2>15. CASE Reserve(p)
    BY <2>15 DEF Reserve, Turn
  <2>16. CASE OutOfGenerations(p)
    BY <2>16 DEF OutOfGenerations, EndWith, Forget
  <2>17. CASE WriteOwner(p)
    BY <2>17 DEF WriteOwner, Decide
  <2>18. CASE SeeWhetherSuperseded(p)
    BY <2>18 DEF SeeWhetherSuperseded, Decide
  <2>19. CASE Retire(p)
    BY <2>19 DEF Retire, TryAgain
  <2>20. CASE Promoted(p)
    BY <2>20 DEF Promoted, Decide
  <2>21. CASE SeeWhetherOwner(p)
    BY <2>21 DEF SeeWhetherOwner, Decide
  <2>22. CASE Fetch(p)
    BY <2>22 DEF Fetch
  <2>23. CASE ListLower(p)
    BY <2>23 DEF ListLower
  <2>24. CASE AnswerFromCache(p)
    BY <2>24 DEF AnswerFromCache, EndWith, Forget
  <2>25. CASE Retry(p)
    BY <2>25 DEF Retry
  <2>26. CASE Expire(p)
    BY <2>26 DEF Expire, EndWith, Forget
  <2> QED BY <1>4, <2>1, <2>2, <2>3, <2>4, <2>5, <2>6, <2>7, <2>8, <2>9, <2>10, <2>11, <2>12,
             <2>13, <2>14, <2>15, <2>16, <2>17, <2>18, <2>19, <2>20, <2>21, <2>22, <2>23, <2>24,
             <2>25, <2>26
             DEF Step
<1>5. ASSUME NEW p \in Processes, Commits(p) PROVE ViewInv'
  <2>1. /\ pc[p] = "store" /\ pc' = [pc EXCEPT ![p] = "ended"] /\ op' = [op EXCEPT ![p] = 0]
        /\ view' = [view EXCEPT ![p] = EmptyState] /\ kind' = [kind EXCEPT ![op[p]] = "committed"]
    BY <1>5, CommitStep
  <2>2. pc'[p] # "store"
          /\ \A q \in Processes \ {p} : pc'[q] = pc[q] /\ op'[q] = op[q] /\ view'[q] = view[q]
    BY <2>1, <1>2 DEF TypeOK
  <2>3. Pending(op[p])
    BY <1>5 DEF Commits, Store
  <2>4. \A q \in Processes \ {p} : pc[q] = "store" => op[q] \in Generations /\ op[q] # op[p]
    BY <2>1, <1>2 DEF TypeOK, OperationsInv, Holding, Working, Generations
  <2>5. op[p] \in Generations
    BY <2>1, <1>2 DEF TypeOK, OperationsInv, Holding, Working, Generations
  <2>6. \A q \in Processes \ {p} : pc[q] = "store" => op[q] < op[p] \/ op[p] < op[q]
    BY <2>4, <2>5, UpdateAssumption DEF Generations
  <2>7. \A q \in Processes \ {p} : pc[q] = "store" => ~Pending(op[q])
    BY <2>1, <2>3, <2>6, <1>2 DEF FenceInv, Cleared, Working, Fencing
  <2>8. \A q \in Processes \ {p} : pc[q] = "store" => ~Pending(op[q])'
    BY <2>1, <2>2, <2>4, <2>7, <1>2 DEF Pending, TypeOK
  <2> QED BY <2>2, <2>8, <1>2 DEF ViewInv
<1>6. ASSUME NEW g \in Generations, Lapse(g) PROVE ViewInv'
  <2>1. Current' = Current
    BY <1>6, LapseStays, CurrentStays
  <2>2. UNCHANGED <<pc, op, view>> /\ \A h \in Generations : Pending(h)' => Pending(h)
    BY <1>6, <1>2 DEF Lapse, Turn, Active, local, Pending, TypeOK
  <2>3. \A q \in Processes : pc[q] = "store" => op[q] \in Generations
    BY <1>2 DEF TypeOK, OperationsInv, Holding, Working, Generations
  <2> QED BY <2>1, <2>2, <2>3, <1>2 DEF ViewInv, Pending
<1> QED BY <1>4, <1>5, <1>6 DEF Next

(* Answers and what they are about are kept.                               *)
LEMMA KeptStep == ASSUME IInv, Next PROVE AnswersKept'
<1>1. TypeOK /\ AnswersKept /\ ViewInv
  BY DEF IInv
<1>2. Current \in States /\ Readable(Current)
  BY <1>1, StateIsState DEF TypeOK, Current
<1>3. \A d \in Digests : /\ Silent # Acknowledged(d) /\ Silent # Notice(d)
                        /\ ResultFor(Current) # Acknowledged(d)
                        /\ (ResultFor(Current) = Notice(d) => d \in Offered(Current))
  BY <1>2 DEF Silent, Acknowledged, Notice, ResultFor, Readable
<1>4. ASSUME SameCommits PROVE CommittedIsReadable'
  BY <1>1, <1>4 DEF SameCommits, AnswersKept, CommittedIsReadable
<1>5. ASSUME NEW p \in Processes, Step(p) \/ Retry(p) \/ Expire(p) \/ Fail(p), ~Commits(p)
        PROVE AnswersKept'
  <2>1. SameCommits /\ Says(p)
    BY <1>5, OthersStay, OthersSay
  <2>2. Current' = Current /\ CommittedIsReadable'
    BY <2>1, <1>4, CurrentStays
  <2>3. CASE result' = result
    BY <2>2, <2>3, <1>1 DEF AnswersKept
  <2>4. CASE result' # result
    <3>1. PICK r \in {Silent, ResultFor(Current)} : result' = [result EXCEPT ![p] = r]
      BY <2>1, <2>4 DEF Says
    <3>2. \A q \in Processes : result'[q] = IF q = p THEN r ELSE result[q]
      BY <3>1, <1>1 DEF TypeOK
    <3>3. \A d \in Digests : r # Acknowledged(d) /\ (r = Notice(d) => d \in Offered(Current))
      BY <1>3, <3>1
    <3>4. \A q \in Processes : \A d \in Digests :
            /\ result'[q] = Acknowledged(d) => d \in Current.acked
            /\ result'[q] = Notice(d) => d \in Offered(Current)
      BY <3>2, <3>3, <1>1 DEF AnswersKept
    <3> QED BY <2>2, <3>4 DEF AnswersKept
  <2> QED BY <2>3, <2>4
<1>6. ASSUME NEW p \in Processes, Commits(p) PROVE AnswersKept'
  <2>1. /\ view[p] = Current /\ Current' = Outcome(p).state
        /\ Outcome(p).state \in States /\ Readable(Outcome(p).state)
        /\ kind' = [kind EXCEPT ![op[p]] = "committed"]
          /\ body' = [body EXCEPT ![op[p]] = Outcome(p).state]
        /\ pc[p] = "store"
    BY <1>6, CommitStep
  <2>2. PICK r \in {Outcome(p).answer, Silent} : result' = [result EXCEPT ![p] = r]
    BY <1>6, CommitStep
  <2>3. CommittedIsReadable'
    BY <2>1, <1>1 DEF CommittedIsReadable, AnswersKept, TypeOK
  <2>4. /\ Current.acked \subseteq Current'.acked /\ Offered(Current) \subseteq Offered(Current')
        /\ \A d \in Digests : /\ (Outcome(p).answer = Acknowledged(d) => d \in Current'.acked)
                             /\ (Outcome(p).answer = Notice(d) => d \in Offered(Current'))
    <3>1. CASE Checker(p)
      <4>1. found[p] \in Digests \cup {None}
        BY <1>1 DEF TypeOK
      <4>2. Outcome(p) = CheckOutcome(Current, found[p])
        BY <2>1, <3>1 DEF Outcome
      <4>3. Current' = CheckOutcome(Current, found[p]).state
              /\ Outcome(p).answer = CheckOutcome(Current, found[p]).answer
        BY <2>1, <4>2
      <4>4. /\ Current.acked \subseteq CheckOutcome(Current, found[p]).state.acked
            /\ Offered(Current) \subseteq Offered(CheckOutcome(Current, found[p]).state)
            /\ \A d \in Digests :
                 /\ CheckOutcome(Current, found[p]).answer # Acknowledged(d)
                 /\ (CheckOutcome(Current, found[p]).answer = Notice(d)
                   => d \in Offered(CheckOutcome(Current, found[p]).state))
        BY <1>2, <4>1, CheckKeeps
      <4> HIDE DEF Current
      <4> QED BY <4>3, <4>4
    <3>2. CASE ~Checker(p)
      <4>1. Role[p] \in Digests /\ Role[p] \in Offered(Current)
        BY <1>1, <2>1, <3>2, UpdateAssumption DEF ViewInv, Checker
      <4>2. Outcome(p).state = AfterAcknowledgement(Current, Role[p])
              /\ Outcome(p).answer = Acknowledged(Role[p])
        BY <2>1, <3>2 DEF Outcome
      <4>3. \A d \in Digests : Acknowledged(Role[p]) # Notice(d)
              /\ (Acknowledged(Role[p]) = Acknowledged(d) => d = Role[p])
        BY DEF Acknowledged, Notice
      <4> QED BY <1>2, <2>1, <4>1, <4>2, <4>3, AcknowledgementKeeps
    <3> QED BY <3>1, <3>2
  <2>5. \A q \in Processes : result'[q] = IF q = p THEN r ELSE result[q]
    BY <2>2, <1>1 DEF TypeOK
  <2>6. \A d \in Digests : /\ (r = Acknowledged(d) => d \in Current'.acked)
                          /\ (r = Notice(d) => d \in Offered(Current'))
    BY <2>2, <2>4, <1>3
  <2>7. \A q \in Processes : \A d \in Digests :
          /\ result'[q] = Acknowledged(d) => d \in Current'.acked
          /\ result'[q] = Notice(d) => d \in Offered(Current')
    BY <2>4, <2>5, <2>6, <1>1 DEF AnswersKept
  <2> QED BY <2>3, <2>7 DEF AnswersKept, Offered
<1>7. ASSUME NEW g \in Generations, Lapse(g) PROVE AnswersKept'
  BY <1>1, <1>4, <1>7, LapseStays, CurrentStays DEF Lapse, AnswersKept
<1> QED BY <1>5, <1>6, <1>7 DEF Next

(* The inductive invariant holds at first ...                              *)
LEMMA InitIInv == Init => IInv
<1> SUFFICES ASSUME Init PROVE IInv
  OBVIOUS
<1>1. EmptyState \in States /\ MaxGeneration \in Nat /\ MaxAttempts \in Nat
  BY EmptyIsState, UpdateAssumption
<1>2. PICK s \in States : Readable(s)
        /\ body = [g \in Generations |-> IF kind[g] = "committed" THEN s ELSE EmptyState]
  BY DEF Init
<1>3. TypeOK
  <2>1. kind \in [Generations -> Kinds]
    BY DEF Init, Kinds
  <2>2. pc \in [Processes -> Acquiring \cup Working \cup Leaving]
    BY DEF Init, Leaving
  <2> QED BY <1>1, <1>2, <2>1, <2>2 DEF Init, TypeOK
<1>4. ClaimInv
  BY DEF Init, ClaimInv, Holding, Working, At
<1>5. OperationsInv
  BY DEF Init, OperationsInv, Holding, Working
<1>6. FenceInv /\ ViewInv /\ AnswerInv
  BY DEF Init, FenceInv, ViewInv, AnswerInv, Cleared, Fencing, Working
<1>7. AnswersKept
  <2>1. CommittedIsReadable
    BY <1>2, <1>3 DEF CommittedIsReadable
  <2>2. \A p \in Processes : \A d \in Digests : result[p] # Acknowledged(d)
          /\ result[p] # Notice(d)
    <3>1. \A p \in Processes : result[p] = None
      BY DEF Init
    <3>2. \A d \in Digests : Acknowledged(d) \in Results /\ Notice(d) \in Results
      BY DEF Results
    <3> QED BY <3>1, <3>2, StateAssumption
  <2> QED BY <2>1, <2>2 DEF AnswersKept
<1> QED BY <1>3, <1>4, <1>5, <1>6, <1>7 DEF IInv

(* ... and is kept by every step.                                          *)
LEMMA IInvInductive == IInv /\ [Next]_vars => IInv'
<1>1. ASSUME IInv, Next PROVE IInv'
  BY <1>1, TypeStep, OperationsStep, FenceStep, ClaimStep, ViewStep, AnswerStep, KeptStep
     DEF IInv
<1>2. ASSUME IInv, UNCHANGED vars PROVE IInv'
  <2>1. TypeOK' /\ ClaimInv' /\ OperationsInv'
    BY <1>2 DEF IInv, vars, local, TypeOK, ClaimInv, OperationsInv, At, Active
  <2>2. SameCommits
    BY <1>2 DEF vars, SameCommits
  <2>3. Current' = Current
    BY <2>2, CurrentStays
  <2>4. FenceInv' /\ ViewInv' /\ AnswerInv'
    BY <1>2, <2>3 DEF IInv, vars, local, FenceInv, ViewInv, AnswerInv, Pending
  <2>5. AnswersKept'
    BY <1>2, <2>3 DEF IInv, vars, AnswersKept, CommittedIsReadable
  <2> QED BY <2>1, <2>4, <2>5 DEF IInv
<1> QED BY <1>1, <1>2
-----------------------------------------------------------------------------
(* Theorems.                                                               *)

(* What commands have in hand and what they share keep their types.        *)
THEOREM UpdateTypeCorrect == Spec => []TypeOK
<1>1. IInv => TypeOK
  BY DEF IInv
<1> QED BY <1>1, InitIInv, IInvInductive, PTL DEF Spec

(* Whoever is about to commit computed its state from the one that is      *)
(* current, so that no commit is lost (commitOperation: the lower          *)
(* operations are fenced, a higher one fences this one).                   *)
THEOREM NoCommitLost == Spec => []CommitsOnCurrent
<1>1. IInv => CommitsOnCurrent
  BY DEF IInv, ViewInv, CommitsOnCurrent, At
<1> QED BY <1>1, InitIInv, IInvInductive, PTL DEF Spec

(* An acknowledgement is not forgotten, what was announced can be          *)
(* acknowledged, and what is on disk can be read back.                     *)
THEOREM AnswersAreKept == Spec => []AnswersKept
<1>1. IInv => AnswersKept
  BY DEF IInv
<1> QED BY <1>1, InitIInv, IInvInductive, PTL DEF Spec

(* Within the lease one command asks the network (the active claim).       *)
THEOREM OneFetches == Spec => []OneFetcher
<1>1. IInv => OneFetcher
  <2> SUFFICES ASSUME IInv, NEW p \in Processes, NEW q \in Processes, At(p, "fetch"), At(q, "fetch"),
                      Active(op[p]), Active(op[q])
               PROVE  p = q
    BY DEF OneFetcher
  <2>1. op[p] = claim /\ op[q] = claim /\ op[p] # 0
    BY DEF IInv, ClaimInv, OperationsInv, At, Holding, Working
  <2> QED BY <2>1 DEF IInv, OperationsInv
<1> QED BY <1>1, InitIInv, IInvInductive, PTL DEF Spec
-----------------------------------------------------------------------------
(* Refinement.                                                             *)

(* The ledger speaks of the same states and answers.                       *)
LEMMA LedgerTerms ==
  /\ Ledger!Results = Results /\ Ledger!Silent = Silent /\ Ledger!States = States
  /\ \A d : Ledger!Acknowledged(d) = Acknowledged(d)
  /\ \A s : Ledger!ResultFor(s) = ResultFor(s) /\ Ledger!Offered(s) = Offered(s)
  /\ \A s, d : Ledger!CheckOutcome(s, d) = CheckOutcome(s, d)
  /\ \A s, d : Ledger!AfterAcknowledgement(s, d) = AfterAcknowledgement(s, d)
<1>1. Ledger!Results = Results /\ Ledger!Silent = Silent /\ Ledger!States = States
  BY DEF Ledger!Results, Results, Ledger!Silent, Silent, Ledger!States, States,
         Ledger!Notice, Notice, Ledger!Acknowledged, Acknowledged
<1>2. \A d : Ledger!Acknowledged(d) = Acknowledged(d)
  BY DEF Ledger!Acknowledged, Acknowledged
<1>3. \A s : Ledger!ResultFor(s) = ResultFor(s) /\ Ledger!Offered(s) = Offered(s)
  BY
     DEF Ledger!ResultFor, ResultFor, Ledger!Notice, Notice, Ledger!Silent, Silent,
         Ledger!Offered, Offered
<1>4. \A s, d : /\ Ledger!AfterCheck(s, d) = AfterCheck(s, d)
               /\ Ledger!AfterFailedCheck(s, d) = AfterFailedCheck(s, d)
               /\ Ledger!AfterAcknowledgement(s, d) = AfterAcknowledgement(s, d)
  BY Zenon DEF Ledger!AfterCheck, AfterCheck, Ledger!AfterFailedCheck, AfterFailedCheck,
         Ledger!AfterAcknowledgement, AfterAcknowledgement
<1>5. \A s : Ledger!Fits(s) = Fits(s)
  BY Zenon DEF Ledger!Fits, Fits, Ledger!Cardinality, Cardinality
<1>6. \A s, d : Ledger!CheckOutcome(s, d) = CheckOutcome(s, d)
  BY <1>1, <1>3, <1>4, <1>5, Zenon DEF Ledger!CheckOutcome, CheckOutcome
<1> QED BY <1>1, <1>2, <1>3, <1>4, <1>6

(* Every step is one of the ledger's, or none: commands that share a       *)
(* directory behave as if they ran one at a time on one record.            *)
LEMMA LedgerStep == IInv /\ [Next]_vars => [Ledger!LedgerNext]_(Ledger!ledgerVars)
<1> SUFFICES ASSUME IInv, [Next]_vars PROVE [Ledger!LedgerNext]_(Ledger!ledgerVars)
  OBVIOUS
<1>1. TypeOK /\ ViewInv /\ AnswerInv
  BY DEF IInv
<1>2. Silent \in Results /\ ResultFor(Current) \in Results
  BY <1>1, StateIsState, ResultIsResult DEF TypeOK, Current, Results
<1>3. ASSUME NEW p \in Processes, Step(p) \/ Retry(p) \/ Expire(p) \/ Fail(p), ~Commits(p)
        PROVE [Ledger!LedgerNext]_(Ledger!ledgerVars)
  <2>1. Current' = Current /\ Says(p)
    BY <1>3, OthersStay, CurrentStays, OthersSay
  <2> QED BY <2>1, <1>2, LedgerTerms
             DEF Says, Ledger!LedgerNext, Ledger!ledgerVars, Ledger!SaysNothing,
                 Ledger!Announces
<1>4. ASSUME NEW p \in Processes, Commits(p) PROVE Ledger!LedgerNext
  <2>1. view[p] = Current /\ Current' = Outcome(p).state /\ pc[p] = "store"
    BY <1>4, CommitStep
  <2>2. PICK r \in {Outcome(p).answer, Silent} : result' = [result EXCEPT ![p] = r]
    BY <1>4, CommitStep
  <2>3. result[p] = None
    BY <2>1, <1>1 DEF AnswerInv
  <2>4. r \in Results
    BY <2>1, <2>2, <1>1, <1>2, OutcomeType
  <2>5. CASE Checker(p)
    <3>1. found[p] \in Digests \cup {None}
      BY <1>1 DEF TypeOK
    <3>2. Ledger!Checks(r)
      BY <2>1, <2>2, <2>5, <3>1, LedgerTerms DEF Ledger!Checks, Outcome
    <3> QED BY <2>2, <2>3, <2>4, <3>2, LedgerTerms DEF Ledger!LedgerNext
  <2>6. CASE ~Checker(p)
    <3>1. Role[p] \in Offered(Current)
      BY <1>1, <2>1, <2>6 DEF ViewInv
    <3>2. Ledger!Acknowledges(r)
      BY <2>1, <2>2, <2>6, <3>1, LedgerTerms DEF Ledger!Acknowledges, Outcome
    <3> QED BY <2>2, <2>3, <2>4, <3>2, LedgerTerms DEF Ledger!LedgerNext
  <2> QED BY <2>5, <2>6
<1>5. ASSUME NEW g \in Generations, Lapse(g) PROVE [Ledger!LedgerNext]_(Ledger!ledgerVars)
  BY <1>5, LapseStays, CurrentStays DEF Lapse, Ledger!ledgerVars
<1>6. ASSUME UNCHANGED vars PROVE [Ledger!LedgerNext]_(Ledger!ledgerVars)
  <2>1. SameCommits /\ result' = result
    BY <1>6 DEF vars, SameCommits
  <2> QED BY <2>1, CurrentStays DEF Ledger!ledgerVars
<1> QED BY <1>3, <1>4, <1>5, <1>6 DEF Next

(* The update check implements its ledger: what is read now is the record, *)
(* and the rename of a commit is the instant at which a command changes it.*)
THEOREM UpdateRefinesLedger == Spec => ImplementsLedger
<1>1. Init => Ledger!LedgerInit
  <2> SUFFICES ASSUME Init PROVE Ledger!LedgerInit
    OBVIOUS
  <2>1. Current \in States
    BY InitIInv, StateIsState DEF IInv, TypeOK, Current
  <2> QED BY <2>1, LedgerTerms DEF Init, Ledger!LedgerInit
<1> QED BY <1>1, InitIInv, IInvInductive, LedgerStep, PTL
           DEF Spec, ImplementsLedger, Ledger!LedgerSpec
=============================================================================
