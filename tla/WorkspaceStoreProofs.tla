------------------------ MODULE WorkspaceStoreProofs ------------------------
(***************************************************************************)
(* Theorems about WorkspaceStore, for every set of clients and edits, every*)
(* set of blind callers and every bound on the revisions.                  *)
(***************************************************************************)
EXTENDS WorkspaceStore, TLAPS

USE ConstantsAssumption

Actions(c) == Client(c) \/ Handle(c)

-----------------------------------------------------------------------------
(* Type correctness.                                                       *)

(* Every variable keeps its type, whatever clients and server do.          *)
THEOREM TypeCorrect == Spec => []TypeOK
<1>1. Init => TypeOK
  BY DEF Init, TypeOK, Doc, Phases
<1>2. TypeOK /\ [Next]_vars => TypeOK'
  <2> SUFFICES ASSUME TypeOK, [Next]_vars
               PROVE  TypeOK'
    OBVIOUS
  <2> USE DEF TypeOK, Doc, Phases, Goto, server
  <2>1. ASSUME NEW c \in Clients, NEW expected \in {Missing} \cup Nat,
               NEW body \in SUBSET Edits, Submit(c, expected, body)
        PROVE  TypeOK'
    BY <2>1 DEF Submit
  <2>2. ASSUME NEW c \in Clients, Create(c) PROVE TypeOK'
    BY <2>1, <2>2 DEF Create
  <2>3. ASSUME NEW c \in Clients, Save(c) \/ BlindSave(c) PROVE TypeOK'
    <3>1. tab[c] # Missing
      BY <2>3 DEF Save, BlindSave
    <3>2. tab[c].revision \in Nat /\ tab[c].body \in SUBSET Edits
      BY <3>1
    <3> QED BY <2>1, <2>3, <3>2 DEF Save, BlindSave
  <2>4. ASSUME NEW c \in Clients, Load(c) PROVE TypeOK'
    <3>1. CASE ~Valid(file.body)
      BY <2>4, <3>1 DEF Load
    <3>2. CASE Valid(file.body)
      BY <2>4, <3>2 DEF Load
    <3> QED BY <3>1, <3>2
  <2>5. ASSUME NEW c \in Clients, Receive(c) PROVE TypeOK'
    BY <2>5 DEF Receive
  <2>6. ASSUME NEW c \in Clients, Abort(c) PROVE TypeOK'
    BY <2>6 DEF Abort
  <2>7. ASSUME NEW c \in Clients, NEW e \in Edits, Edit(c, e) PROVE TypeOK'
    <3>1. tab[c] \in [revision : Nat, body : SUBSET Edits]
      BY <2>7 DEF Edit
    <3>2. tab' = [tab EXCEPT ![c] = [tab[c] EXCEPT !.body = tab[c].body \cup {e}]]
      BY <2>7 DEF Edit
    <3>3. [tab[c] EXCEPT !.body = tab[c].body \cup {e}] \in Doc
      BY <3>1
    <3> QED BY <2>7, <3>2, <3>3 DEF Edit
  <2>8. ASSUME NEW c \in Clients, Acquire(c) \/ Conflict(c) \/ WriteTemp(c) \/ Release(c) \/ Fail(c)
        PROVE TypeOK'
    BY <2>8 DEF Acquire, Conflict, WriteTemp, Release, Fail
  <2>9. ASSUME NEW c \in Clients, Check(c) PROVE TypeOK'
    BY <2>9 DEF Check, Revision
  <2>10. ASSUME NEW c \in Clients, Move(c) PROVE TypeOK'
    <3>1. file' \in Doc
      BY <2>10 DEF Move
    <3> QED BY <2>10, <3>1 DEF Move
  <2>11. CASE Crash
    BY <2>11 DEF Crash
  <2>12. CASE Expire
    BY <2>12 DEF Expire
  <2>13. CASE UNCHANGED vars
    BY <2>13 DEF vars
  <2> QED
    BY <2>2, <2>3, <2>4, <2>5, <2>6, <2>7, <2>8, <2>9, <2>10, <2>11, <2>12, <2>13
       DEF Next, Client, Handle
<1> QED BY <1>1, <1>2, PTL DEF Spec

-----------------------------------------------------------------------------
(* The lock.                                                               *)

(* Between the comparison and the move nobody else changes the stored      *)
(* workspace: whoever is inside the critical section holds the semaphore.  *)
THEOREM LockCorrect == Spec => []LockInv
<1>1. Init => LockInv
  BY DEF Init, LockInv, Inside
<1>2. TypeOK /\ LockInv /\ [Next]_vars => LockInv'
  <2> SUFFICES ASSUME TypeOK, LockInv, [Next]_vars
               PROVE  LockInv'
    OBVIOUS
  <2> USE DEF TypeOK, LockInv, Inside, Phases, Goto, server, Matches, Revision
  <2>1. ASSUME NEW c \in Clients, NEW expected \in {Missing} \cup Nat,
               NEW body, Submit(c, expected, body)
        PROVE  LockInv'
    BY <2>1 DEF Submit
  <2>2. ASSUME NEW c \in Clients, Create(c) PROVE LockInv'
    BY <2>1, <2>2 DEF Create
  <2>3. ASSUME NEW c \in Clients, Save(c) \/ BlindSave(c) PROVE LockInv'
    BY <2>1, <2>3 DEF Save, BlindSave, Doc
  <2>4. ASSUME NEW c \in Clients, Load(c) PROVE LockInv'
    BY <2>4 DEF Load
  <2>5. ASSUME NEW c \in Clients, Receive(c) PROVE LockInv'
    BY <2>5 DEF Receive
  <2>6. ASSUME NEW c \in Clients, Abort(c) PROVE LockInv'
    BY <2>6 DEF Abort
  <2>7. ASSUME NEW c \in Clients, NEW e \in Edits, Edit(c, e) PROVE LockInv'
    BY <2>7 DEF Edit
  <2>8. ASSUME NEW c \in Clients, Acquire(c) PROVE LockInv'
    BY <2>8 DEF Acquire
  <2>9. ASSUME NEW c \in Clients, Check(c) PROVE LockInv'
    BY <2>9 DEF Check
  <2>10. ASSUME NEW c \in Clients, Conflict(c) \/ Fail(c) \/ Release(c) PROVE LockInv'
    BY <2>10 DEF Conflict, Fail, Release
  <2>11. ASSUME NEW c \in Clients, WriteTemp(c) PROVE LockInv'
    BY <2>11 DEF WriteTemp
  <2>12. ASSUME NEW c \in Clients, Move(c) PROVE LockInv'
    BY <2>12 DEF Move
  <2>13. CASE Crash
    BY <2>13 DEF Crash
  <2>14. CASE Expire
    BY <2>14 DEF Expire
  <2>15. CASE UNCHANGED vars
    BY <2>15 DEF vars
  <2> QED
    BY <2>2, <2>3, <2>4, <2>5, <2>6, <2>7, <2>8, <2>9, <2>10, <2>11, <2>12,
       <2>13, <2>14, <2>15 DEF Next, Client, Handle
<1> QED BY <1>1, <1>2, TypeCorrect, PTL DEF Spec

-----------------------------------------------------------------------------
(* What is stored can be loaded.                                           *)

(* A save that has passed Validate carries its body unchanged to the move. *)
ValidatedInv ==
  \A c \in Clients : pc[c] \in {"waiting", "locked", "checked", "written"} => Valid(request[c].body)

(* Whatever saves overlap, fail, are aborted or cut short by a crash, the  *)
(* stored workspace is one that LoadAsync accepts.                         *)
THEOREM StoredCorrect == Spec => []StoredIsLoadable
<1>1. Init => ValidatedInv /\ StoredIsLoadable
  BY DEF Init, ValidatedInv, StoredIsLoadable
<1>2. TypeOK /\ (ValidatedInv /\ StoredIsLoadable) /\ [Next]_vars => (ValidatedInv /\ StoredIsLoadable)'
  <2> SUFFICES ASSUME TypeOK, ValidatedInv, StoredIsLoadable, [Next]_vars
               PROVE  ValidatedInv' /\ StoredIsLoadable'
    OBVIOUS
  <2> USE DEF ValidatedInv, StoredIsLoadable, Goto, server, Valid
  <2>0. pc \in [Clients -> Phases] /\ request \in [Clients -> [expected : {Missing} \cup Nat, body : SUBSET Edits]]
    BY DEF TypeOK
  <2>1. ASSUME NEW c \in Clients, NEW expected, NEW body, Submit(c, expected, body)
        PROVE  ValidatedInv' /\ StoredIsLoadable'
    BY <2>0, <2>1 DEF Submit
  <2>2. ASSUME NEW c \in Clients, Create(c) \/ Save(c) \/ BlindSave(c)
        PROVE  ValidatedInv' /\ StoredIsLoadable'
    BY <2>1, <2>2 DEF Create, Save, BlindSave
  <2>3. ASSUME NEW c \in Clients, Move(c) PROVE ValidatedInv' /\ StoredIsLoadable'
    <3>1. Valid(request[c].body) /\ file' = [revision |-> current[c] + 1, body |-> request[c].body]
      BY <2>3 DEF Move
    <3>2. StoredIsLoadable'
      BY <3>1
    <3> QED BY <2>0, <2>3, <3>2 DEF Move
  <2>4. ASSUME NEW c \in Clients, Load(c) PROVE ValidatedInv' /\ StoredIsLoadable'
    BY <2>0, <2>4 DEF Load
  <2>5. ASSUME NEW c \in Clients,
               Acquire(c) \/ Check(c) \/ Conflict(c) \/ WriteTemp(c) \/ Release(c) \/ Fail(c)
        PROVE  ValidatedInv' /\ StoredIsLoadable'
    BY <2>0, <2>5 DEF Acquire, Check, Conflict, WriteTemp, Release, Fail
  <2>6. ASSUME NEW c \in Clients, Receive(c) \/ Abort(c) \/ \E e \in Edits : Edit(c, e)
        PROVE  ValidatedInv' /\ StoredIsLoadable'
    BY <2>0, <2>6 DEF Receive, Abort, Edit
  <2>7. CASE Crash
    BY <2>0, <2>7 DEF Crash
  <2>8. CASE Expire
    BY <2>8 DEF Expire
  <2>9. CASE UNCHANGED vars
    BY <2>9 DEF vars
  <2> QED
    BY <2>2, <2>3, <2>4, <2>5, <2>6, <2>7, <2>8, <2>9 DEF Next, Client, Handle
<1> QED BY <1>1, <1>2, TypeCorrect, PTL DEF Spec

-----------------------------------------------------------------------------
(* No lost update.                                                         *)

(* A revision can come back only where the retention clean-up deletes the  *)
(* workspace and somebody then saves one without an expectedRevision.      *)
NoRevisionReuse == Blind = {} \/ ~Retention

(* A workspace somebody holds: its revision was issued, and if it is still *)
(* the stored one then no stored edit is missing from it.                  *)
Fresh(d) ==
  /\ d.revision > 0
  /\ file # Missing =>
       /\ d.revision <= file.revision
       /\ d.revision = file.revision => file.body \subseteq d.body

UnderWay(c)  == pc[c] \in {"waiting", "locked", "checked", "written"}
Guarded(c)   == UnderWay(c) /\ request[c].expected # Missing
Unguarded(c) == UnderWay(c) /\ request[c].expected = Missing
Sent(c)      == pc[c] \in {"moved", "saved", "loaded"}
AsDoc(r)     == [revision |-> r.expected, body |-> r.body]

HeldInv ==
  \A c \in Clients :
    /\ tab[c] # Missing => Fresh(tab[c])
    /\ Sent(c) => answer[c] # Missing /\ Fresh(answer[c])
    /\ Guarded(c) => Fresh(AsDoc(request[c]))

NothingHeld == \A c \in Clients : tab[c] = Missing /\ ~Sent(c) /\ ~Guarded(c)

(* While there is no file a workspace can only be created if nobody holds  *)
(* an earlier one.                                                         *)
CreationInv ==
  file = Missing =>
    /\ (\E c \in Clients : Unguarded(c)) => NothingHeld
    /\ ~Retention => NothingHeld

FileInv == file # Missing => file.revision > 0

IInv == TypeOK /\ LockInv /\ HeldInv /\ CreationInv /\ FileInv

(* The relation between what is held and what is stored is inductive.      *)
LEMMA HeldInductive ==
  ASSUME NoRevisionReuse, IInv, [Next]_vars
  PROVE  HeldInv' /\ CreationInv' /\ FileInv'
<1> USE DEF IInv, TypeOK, Phases, Goto, server
<1>1. ASSUME NEW c \in Clients, NEW expected \in {Missing} \cup Nat,
             NEW body \in SUBSET Edits, Submit(c, expected, body),
             expected # Missing => Fresh([revision |-> expected, body |-> body]) /\ ~NothingHeld,
             (file = Missing /\ expected = Missing) => NothingHeld
      PROVE  HeldInv' /\ CreationInv' /\ FileInv'
  <2>1. HeldInv'
    BY <1>1 DEF Submit, HeldInv, Fresh, Sent, Guarded, UnderWay, AsDoc
  <2>2. ASSUME file = Missing, expected # Missing
        PROVE  CreationInv'
    BY <1>1, <2>2 DEF Submit, CreationInv, NothingHeld, Sent, Guarded, Unguarded, UnderWay
  <2>3. ASSUME file = Missing, expected = Missing
        PROVE  NothingHeld'
    BY <1>1, <2>3 DEF Submit, NothingHeld, Sent, Guarded, UnderWay
  <2> QED BY <1>1, <2>1, <2>2, <2>3 DEF Submit, CreationInv, FileInv
<1>2. ASSUME NEW c \in Clients, Create(c)
      PROVE  HeldInv' /\ CreationInv' /\ FileInv'
  <2>1. NothingHeld
    BY <1>2 DEF Create, NothingHeld, Sent, Guarded, UnderWay
  <2> QED BY <1>1, <1>2, <2>1 DEF Create
<1>3. ASSUME NEW c \in Clients, Save(c)
      PROVE  HeldInv' /\ CreationInv' /\ FileInv'
  <2>1. tab[c] \in Doc /\ Fresh(tab[c])
    BY <1>3 DEF Save, HeldInv
  <2>2. tab[c].revision \in Nat /\ tab[c].body \in SUBSET Edits
    BY <2>1 DEF Doc
  <2>3. Fresh([revision |-> tab[c].revision, body |-> tab[c].body])
    BY <2>1, <2>2 DEF Fresh
  <2>4. ~NothingHeld
    BY <1>3 DEF Save, NothingHeld
  <2> QED BY <1>1, <1>3, <2>2, <2>3, <2>4 DEF Save
<1>4. ASSUME NEW c \in Clients, BlindSave(c)
      PROVE  HeldInv' /\ CreationInv' /\ FileInv'
  <2>1. ~Retention
    BY <1>4 DEF NoRevisionReuse, BlindSave
  <2>2. tab[c] \in Doc
    BY <1>4 DEF BlindSave
  <2>3. tab[c].body \in SUBSET Edits
    BY <2>2 DEF Doc
  <2>4. file # Missing
    BY <1>4, <2>1 DEF BlindSave, CreationInv, NothingHeld
  <2> QED BY <1>1, <1>4, <2>3, <2>4 DEF BlindSave
<1>5. ASSUME NEW c \in Clients, Load(c)
      PROVE  HeldInv' /\ CreationInv' /\ FileInv'
  <2>1. Fresh(file)
    BY <1>5 DEF Load, Fresh, FileInv, Doc
  <2>2. file # Missing /\ UNCHANGED <<file, tab, request>>
    BY <1>5 DEF Load
  <2>3. HeldInv'
    <3>1. CASE ~Valid(file.body)
      BY <1>5, <2>1, <3>1 DEF Load, HeldInv, Fresh, Sent, Guarded, UnderWay, AsDoc
    <3>2. CASE Valid(file.body)
      BY <1>5, <2>1, <3>2 DEF Load, HeldInv, Fresh, Sent, Guarded, UnderWay, AsDoc
    <3> QED BY <3>1, <3>2
  <2> QED BY <2>2, <2>3 DEF CreationInv, FileInv
<1>6. ASSUME NEW c \in Clients, Receive(c)
      PROVE  HeldInv' /\ CreationInv' /\ FileInv'
  <2>1. HeldInv'
    BY <1>6 DEF Receive, HeldInv, Fresh, Sent, Guarded, UnderWay, AsDoc
  <2>2. NothingHeld => NothingHeld'
    BY <1>6 DEF Receive, NothingHeld, Sent, Guarded, UnderWay
  <2>3. \A d \in Clients : Unguarded(d)' => Unguarded(d)
    BY <1>6 DEF Receive, Unguarded, UnderWay
  <2> QED BY <1>6, <2>1, <2>2, <2>3 DEF Receive, CreationInv, FileInv
<1>7. ASSUME NEW c \in Clients, NEW e \in Edits, Edit(c, e)
      PROVE  HeldInv' /\ CreationInv' /\ FileInv'
  <2>1. tab[c] # Missing /\ tab[c] \in Doc /\ Fresh(tab[c])
    BY <1>7 DEF Edit, HeldInv
  <2>2. tab' = [tab EXCEPT ![c] = [tab[c] EXCEPT !.body = tab[c].body \cup {e}]]
    BY <1>7 DEF Edit
  <2>3. Fresh([tab[c] EXCEPT !.body = tab[c].body \cup {e}])
    BY <2>1 DEF Fresh, Doc
  <2>4. HeldInv'
    BY <1>7, <2>2, <2>3 DEF Edit, HeldInv, Fresh, Sent, Guarded, UnderWay, AsDoc
  <2>5. ~NothingHeld
    BY <2>1 DEF NothingHeld
  <2>6. \A d \in Clients : Unguarded(d)' => Unguarded(d)
    BY <1>7 DEF Edit, Unguarded, UnderWay
  <2> QED BY <1>7, <2>4, <2>5, <2>6 DEF Edit, CreationInv, FileInv
<1>8. ASSUME NEW c \in Clients, 
             Acquire(c) \/ Check(c) \/ Conflict(c) \/ WriteTemp(c) \/ Fail(c) \/ Abort(c)
      PROVE  HeldInv' /\ CreationInv' /\ FileInv'
  <2> USE DEF Acquire, Check, Conflict, WriteTemp, Fail, Abort
  <2>1. UNCHANGED <<file, tab, answer, request>>
    BY <1>8
  <2>2. \A d \in Clients : /\ UnderWay(d)' => UnderWay(d)
                           /\ Sent(d)' => Sent(d)
    BY <1>8 DEF UnderWay, Sent
  <2>3. HeldInv'
    BY <2>1, <2>2 DEF HeldInv, Fresh, Guarded, AsDoc
  <2>4. NothingHeld => NothingHeld'
    BY <2>1, <2>2 DEF NothingHeld, Guarded
  <2>5. \A d \in Clients : Unguarded(d)' => Unguarded(d)
    BY <2>1, <2>2 DEF Unguarded
  <2> QED BY <2>1, <2>3, <2>4, <2>5 DEF CreationInv, FileInv
<1>9. ASSUME NEW c \in Clients, Move(c)
      PROVE  HeldInv' /\ CreationInv' /\ FileInv'
  <2>1. current[c] = Revision(file) /\ Matches(c) /\ Revision(file) \in Nat
    BY <1>9 DEF Move, LockInv, Revision, Doc
  <2>2. file' = [revision |-> Revision(file) + 1, body |-> request[c].body]
    BY <1>9, <2>1 DEF Move
  <2>3. file' # Missing /\ file' \in Doc /\ file'.revision > 0
    BY <2>1, <2>2 DEF Doc
  <2>4. Fresh(file)'
    BY <2>3 DEF Fresh, Doc
  <2>5. CASE file = Missing
    <3>1. ~Guarded(c)
      BY <2>1, <2>5 DEF HeldInv, Guarded, Fresh, AsDoc, Matches, Revision
    <3>2. Unguarded(c)
      BY <1>9, <3>1 DEF Move, Guarded, Unguarded, UnderWay
    <3>3. NothingHeld
      BY <2>5, <3>2 DEF CreationInv
    <3>4. HeldInv'
      BY <1>9, <2>3, <2>4, <3>3 DEF Move, HeldInv, NothingHeld, Sent, Guarded, UnderWay
    <3> QED BY <2>3, <3>4 DEF CreationInv, FileInv
  <2>6. CASE file # Missing
    <3>1. \A d \in Doc : Fresh(d) => Fresh(d)'
      BY <2>1, <2>2, <2>6 DEF Fresh, Doc, Revision
    <3>2. \A d \in Clients : Guarded(d) => AsDoc(request[d]) \in Doc
      BY DEF Guarded, AsDoc, Doc
    <3>3. \A d \in Clients : Guarded(d)' => Guarded(d)
      BY <1>9 DEF Move, Guarded, UnderWay
    <3>4. \A d \in Clients : Guarded(d)' => Fresh(AsDoc(request[d]))'
      BY <1>9, <3>1, <3>2, <3>3 DEF Move, HeldInv, AsDoc
    <3>5. \A d \in Clients : tab'[d] # Missing => Fresh(tab[d])'
      BY <1>9, <3>1 DEF Move, HeldInv
    <3>6. \A d \in Clients : Sent(d)' => answer'[d] # Missing /\ Fresh(answer[d])'
      BY <1>9, <2>3, <2>4, <3>1 DEF Move, HeldInv, Sent
    <3>7. HeldInv'
      BY <3>4, <3>5, <3>6 DEF HeldInv
    <3> QED BY <2>3, <3>7 DEF CreationInv, FileInv
  <2> QED BY <2>5, <2>6
<1>10. ASSUME NEW c \in Clients, Release(c)
       PROVE  HeldInv' /\ CreationInv' /\ FileInv'
  <2>1. UNCHANGED <<file, tab, answer, request>>
    BY <1>10 DEF Release
  <2>2. \A d \in Clients : UnderWay(d)' = UnderWay(d) /\ Sent(d)' = Sent(d)
    BY <1>10 DEF Release, UnderWay, Sent
  <2> QED BY <2>1, <2>2 DEF HeldInv, CreationInv, FileInv, NothingHeld, Fresh, Guarded, Unguarded, AsDoc
<1>11. CASE Crash
  BY <1>11 DEF Crash, HeldInv, CreationInv, FileInv, NothingHeld, Fresh, Sent, Guarded, Unguarded, UnderWay
<1>12. CASE Expire
  BY <1>12 DEF Expire, HeldInv, CreationInv, FileInv, NothingHeld, Fresh, Sent, Guarded, Unguarded, UnderWay
<1>13. CASE UNCHANGED vars
  BY <1>13 DEF vars, HeldInv, CreationInv, FileInv, NothingHeld, Fresh, Sent, Guarded, Unguarded, UnderWay, AsDoc
<1> QED
  BY <1>2, <1>3, <1>4, <1>5, <1>6, <1>7, <1>8, <1>9, <1>10, <1>11, <1>12, <1>13
     DEF Next, Client, Handle

(* A save that names the revision it was made from never drops a stored    *)
(* edit, unless revision numbers can be issued a second time.              *)
THEOREM NoUpdateLost == NoRevisionReuse /\ Spec => NoLostUpdate
<1> SUFFICES ASSUME NoRevisionReuse PROVE Spec => NoLostUpdate
  OBVIOUS
<1>1. Init => HeldInv /\ CreationInv /\ FileInv
  BY DEF Init, HeldInv, CreationInv, FileInv, NothingHeld, Sent, Guarded, Unguarded, UnderWay
<1>2. (HeldInv /\ CreationInv /\ FileInv) /\ TypeOK /\ LockInv /\ [Next]_vars
        => (HeldInv /\ CreationInv /\ FileInv)'
  BY HeldInductive DEF IInv
<1>3. (HeldInv /\ CreationInv /\ FileInv) /\ TypeOK /\ LockInv /\ [Next]_vars
        => [\A c \in Clients : ~Overwrites(c)]_vars
  <2> SUFFICES ASSUME HeldInv, TypeOK, LockInv, Next, NEW c \in Clients, Overwrites(c)
               PROVE  FALSE
    OBVIOUS
  <2>1. Move(c)
    BY DEF Next, Client, Handle, Overwrites, TypeOK, Goto, Submit, Create, Save, BlindSave,
           Edit, Receive, Load, Acquire, Check, Conflict, WriteTemp, Move, Release, Fail,
           Abort, Crash, Expire
  <2>2. Fresh(AsDoc(request[c])) /\ request[c].expected = file.revision
    BY DEF Overwrites, HeldInv, Guarded, UnderWay, LockInv, Matches, Revision
  <2>3. file.body \subseteq request[c].body
    BY <2>2, TypeCorrect DEF Fresh, AsDoc, Overwrites, TypeOK, Doc
  <2> QED BY <2>1, <2>3 DEF Move, Overwrites
<1> QED BY <1>1, <1>2, <1>3, TypeCorrect, LockCorrect, PTL DEF Spec, NoLostUpdate
-----------------------------------------------------------------------------
(* Refinement.                                                             *)

(* The lock, the read-check-write and the temporary file together behave   *)
(* like one atomic versioned document: the move is the instant at which a  *)
(* save takes effect, the comparison the one at which it is refused.       *)
THEOREM Refinement == Spec => ImplementsDocument
<1> DEFINE calls == [c \in Clients |-> CallOf(c)]
<1> USE DEF CallOf, Document!Revision, Document!NoCall, Document!Answered
<1>1. Init => Document!Init
  BY DEF Init, Document!Init
<1>2. TypeOK /\ LockInv /\ [Next]_vars => [Document!Next]_(Document!vars)
  <2> SUFFICES ASSUME TypeOK, LockInv, [Next]_vars
               PROVE  [Document!Next]_(Document!vars)
    OBVIOUS
  <2> USE DEF TypeOK, Phases, Goto, server, Revision
  (* A step that leaves the file alone and moves only client c.            *)
  <2>0. ASSUME NEW c \in Clients, \A d \in Clients \ {c} : CallOf(d)' = CallOf(d)
        PROVE  calls' = [calls EXCEPT ![c] = CallOf(c)']
    BY <2>0
  <2>1. ASSUME NEW c \in Clients, NEW expected \in {Missing} \cup Nat,
               NEW body \in SUBSET Edits, Submit(c, expected, body)
        PROVE  [Document!Next]_(Document!vars)
    <3>1. CASE Valid(body)
      <4>1. calls' = [calls EXCEPT ![c] = CallOf(c)']
        BY <2>0, <2>1 DEF Submit
      <4>2. calls[c] = [state |-> "idle"]
        BY <2>1 DEF Submit
      <4>3. CallOf(c)' = [state |-> "pending", expected |-> expected, body |-> body]
        BY <2>1, <3>1 DEF Submit
      <4>4. Document!Submit(c)
        BY <2>1, <4>1, <4>2, <4>3 DEF Submit, Document!Submit
      <4> QED BY <4>4 DEF Document!Next
    <3>2. CASE ~Valid(body)
      BY <2>1, <3>2 DEF Submit, Document!vars
    <3> QED BY <3>1, <3>2
  <2>2. ASSUME NEW c \in Clients, Create(c) PROVE [Document!Next]_(Document!vars)
    BY <2>1, <2>2 DEF Create
  <2>3. ASSUME NEW c \in Clients, Save(c) \/ BlindSave(c)
        PROVE [Document!Next]_(Document!vars)
    <3>1. tab[c] \in Doc
      BY <2>3 DEF Save, BlindSave
    <3>2. tab[c].revision \in Nat /\ tab[c].body \in SUBSET Edits
      BY <3>1 DEF Doc
    <3> QED BY <2>1, <2>3, <3>2 DEF Save, BlindSave
  <2>4. ASSUME NEW c \in Clients, Load(c) PROVE UNCHANGED Document!vars
    <3>1. CASE ~Valid(file.body)
      BY <2>4, <3>1 DEF Load, Document!vars
    <3>2. CASE Valid(file.body)
      BY <2>4, <3>2 DEF Load, Document!vars
    <3> QED BY <3>1, <3>2
  <2>5. ASSUME NEW c \in Clients, Receive(c) PROVE [Document!Next]_(Document!vars)
    <3>1. CASE pc[c] \in {"saved", "conflict"}
      <4>1. calls' = [calls EXCEPT ![c] = [state |-> "idle"]]
        BY <2>0, <2>5, <3>1 DEF Receive
      <4>2. Document!Return(c)
        BY <2>5, <3>1, <4>1 DEF Receive, Document!Return
      <4> QED BY <4>2 DEF Document!Next
    <3>2. CASE pc[c] \in {"loaded", "failed"}
      BY <2>5, <3>2 DEF Receive, Document!vars
    <3> QED BY <2>5, <3>1, <3>2 DEF Receive
  <2>6. ASSUME NEW c \in Clients, Abort(c) PROVE [Document!Next]_(Document!vars)
    <3>1. calls' = [calls EXCEPT ![c] = [state |-> "idle"]]
      BY <2>0, <2>6 DEF Abort
    <3>2. CASE pc[c] \in {"waiting", "locked", "checked"}
      BY <2>6, <3>1, <3>2 DEF Abort, Document!Fail, Document!Next
    <3>3. CASE pc[c] \in {"saved", "conflict"}
      BY <2>6, <3>1, <3>3 DEF Abort, Document!Return, Document!Next
    <3>4. CASE pc[c] \in {"loaded", "failed"}
      BY <2>6, <3>1, <3>4 DEF Abort, Document!vars
    <3> QED BY <2>6, <3>2, <3>3, <3>4 DEF Abort
  <2>7. ASSUME NEW c \in Clients, NEW e \in Edits, Edit(c, e)
        PROVE UNCHANGED Document!vars
    BY <2>7 DEF Edit, Document!vars
  <2>8. ASSUME NEW c \in Clients, Acquire(c) \/ Check(c) \/ WriteTemp(c) \/ Release(c)
        PROVE UNCHANGED Document!vars
    BY <2>8 DEF Acquire, Check, WriteTemp, Release, Document!vars
  <2>9. ASSUME NEW c \in Clients, Conflict(c) PROVE Document!Refuse(c)
    <3>1. calls' = [calls EXCEPT ![c] = [state |-> "answered", result |-> "conflict"]]
      BY <2>0, <2>9 DEF Conflict
    <3> QED BY <2>9, <3>1 DEF Conflict, Matches, Document!Refuse
  <2>10. ASSUME NEW c \in Clients, Fail(c) PROVE Document!Fail(c)
    <3>1. calls' = [calls EXCEPT ![c] = [state |-> "idle"]]
      BY <2>0, <2>10 DEF Fail
    <3> QED BY <2>10, <3>1 DEF Fail, Document!Fail
  <2>11. ASSUME NEW c \in Clients, Move(c) PROVE Document!Commit(c)
    <3>1. calls' = [calls EXCEPT ![c] = [state |-> "answered", result |-> "saved"]]
      BY <2>0, <2>11 DEF Move
    <3>2. request[c].expected \in {Missing, Revision(file)} /\ current[c] = Revision(file)
      BY <2>11 DEF Move, LockInv, Matches
    <3> QED BY <2>11, <3>1, <3>2 DEF Move, Document!Commit
  <2>12. CASE Crash
    BY <2>12 DEF Crash, Document!Restart, Document!Next
  <2>13. CASE Expire
    BY <2>13 DEF Expire, Document!Expire, Document!Next
  <2>14. CASE UNCHANGED vars
    BY <2>14 DEF vars, Document!vars
  <2> QED
    BY <2>2, <2>3, <2>4, <2>5, <2>6, <2>7, <2>8, <2>9, <2>10, <2>11, <2>12, <2>13, <2>14
       DEF Next, Client, Handle, Document!Next
<1> QED BY <1>1, <1>2, TypeCorrect, LockCorrect, PTL
        DEF Spec, ImplementsDocument, Document!Spec
=============================================================================
