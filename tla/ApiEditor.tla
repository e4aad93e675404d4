------------------------------ MODULE ApiEditor ------------------------------
(***************************************************************************)
(* The editor of an API Builder workspace: a chain of operations of the    *)
(* project's contract, variables saved from responses, and bindings of     *)
(* variables to request fields of later steps.  Steps are referred to by   *)
(* name, and every removal renames them all; the server checks the result  *)
(* when it is saved (Validate) and compiled (Compile).                     *)
(***************************************************************************)
EXTENDS Naturals, FiniteSets, SequencesExt

CONSTANTS
  Contracts,  \* what the contract endpoint answers over time: fingerprint -> operation -> [label, req, res]
  Variables,  \* the names a user gives; those that differ only in case count as one
  Forbidden,  \* those the server refuses: names of its own variables, other digits than 0 to 9
  MaxSteps    \* bound on the steps of the chain

(* A field is [id, type, sensitive, credential]: the contract marks the    *)
(* sensitive ones, a credential is a header the server knows by its name.  *)
(* The id of a response field stands for its JSON path.                    *)
ContractAssumption ==
  /\ MaxSteps \in Nat
  /\ \A f \in DOMAIN Contracts : \A o \in DOMAIN Contracts[f] : \A side \in {"req", "res"} :
       \A a, b \in Contracts[f][o][side] : a.id = b.id => a = b

VARIABLES
  contract,     \* state.apiBuilderContract
  fingerprint,  \* sourceFingerprint of the workspace
  steps,        \* its steps, with the values of their request fields
  variables,    \* its variables: [name, step, field, type]
  bindings      \* its bindings: [variable, step, field]

vars == <<contract, fingerprint, steps, variables, bindings>>

Empty == [is |-> "empty"]
Typed == [is |-> "typed"]
Ref(v) == [is |-> "variable", name |-> v]
Name(label, n) == <<label, n>>

Init ==
  /\ contract \in DOMAIN Contracts
  /\ fingerprint = "none"
  /\ steps = <<>>
  /\ variables = {}
  /\ bindings = {}

IndexOf(name) == SelectInSeq(steps, LAMBDA s : s.name = name)
Named(name) == steps[IndexOf(name)]

(* The contract is loaded anew; it may have changed meanwhile.             *)
LoadContract(f) ==
  /\ contract' = f
  /\ UNCHANGED <<fingerprint, steps, variables, bindings>>
-----------------------------------------------------------------------------
(* operationStep.                                                          *)
NewStep(o) ==
  LET op == Contracts[contract][o]
  IN  [name |-> Name(op.label, Len(steps) + 1), op |-> o, contract |-> contract,
       req |-> op.req, res |-> op.res, value |-> [id \in {f.id : f \in op.req} |-> Empty]]

AddStep(o) ==
  /\ Len(steps) < MaxSteps
  /\ steps' = Append(steps, NewStep(o))
  /\ fingerprint' = contract
  /\ UNCHANGED <<contract, variables, bindings>>

(* updateApiBuilderFieldValue: the input of a bound field is disabled.     *)
TypeValue(i, id) ==
  /\ ~\E b \in bindings : b.step = steps[i].name /\ b.field = id
  /\ steps' = [steps EXCEPT ![i].value[id] = Typed]
  /\ UNCHANGED <<contract, fingerprint, variables, bindings>>

(* saveApiBuilderVariable: refused when the name is taken, but not when    *)
(* the server will refuse it.                                              *)
SaveVariable(i, f, name) ==
  /\ \A v \in variables : v.name # name
  /\ variables' = variables \cup {[name |-> name, step |-> steps[i].name, field |-> f.id, type |-> f.type]}
  /\ UNCHANGED <<contract, fingerprint, steps, bindings>>

(* Mutant: variables of the step itself are offered as well.               *)
OfferedToItself(i, f) ==
  {v \in variables : IndexOf(v.step) <= i /\ v.type = f.type /\ ~f.sensitive}

(* requestFieldMarkup: the variables a request field can be bound to.      *)
Offered(i, f) ==
  {v \in variables : IndexOf(v.step) < i /\ v.type = f.type /\ ~f.sensitive}

Others(i, f) == {b \in bindings : b.step # steps[i].name \/ b.field # f.id}

(* assignApiBuilderVariable.                                               *)
Bind(i, f, v) ==
  /\ v \in Offered(i, f)
  /\ bindings' = Others(i, f) \cup {[variable |-> v.name, step |-> steps[i].name, field |-> f.id]}
  /\ steps' = [steps EXCEPT ![i].value[f.id] = Ref(v.name)]
  /\ UNCHANGED <<contract, fingerprint, variables>>

Unbind(i, f) ==
  /\ ~f.sensitive
  /\ bindings' = Others(i, f)
  /\ steps' = [steps EXCEPT ![i].value[f.id] = Empty]
  /\ UNCHANGED <<contract, fingerprint, variables>>
-----------------------------------------------------------------------------
(* removeApiBuilderOperation.                                              *)

Kept(i) == RemoveAt(steps, i)
Renamed(i) == [j \in DOMAIN Kept(i) |-> [Kept(i)[j] EXCEPT !.name = Name(Kept(i)[j].op, j)]]

(* Mutant: a name is looked up among the new ones.                         *)
NewNameLate(i, name) ==
  LET j == SelectInSeq(Renamed(i), LAMBDA s : s.name = name)
  IN  IF j = 0 THEN name ELSE Renamed(i)[j].name

NewName(i, name) ==
  LET j == SelectInSeq(Kept(i), LAMBDA s : s.name = name)
  IN  IF j = 0 THEN name ELSE Renamed(i)[j].name

KeptBindings(i) ==
  {b \in bindings :
     /\ b.step # steps[i].name
     /\ ~\E v \in variables : v.step = steps[i].name /\ v.name = b.variable}

RemoveStep(i) ==
  /\ steps' = Renamed(i)
  /\ variables' = {[v EXCEPT !.step = NewName(i, @)] : v \in {w \in variables : w.step # steps[i].name}}
  /\ bindings' = {[b EXCEPT !.step = NewName(i, @)] : b \in KeptBindings(i)}
  /\ UNCHANGED <<contract, fingerprint>>
-----------------------------------------------------------------------------
Next ==
  \/ \E f \in DOMAIN Contracts : LoadContract(f)
  \/ \E o \in DOMAIN Contracts[contract] : AddStep(o)
  \/ \E i \in DOMAIN steps :
       \/ RemoveStep(i)
       \/ \E f \in steps[i].res, name \in Variables : SaveVariable(i, f, name)
       \/ \E f \in steps[i].req :
            TypeValue(i, f.id) \/ Unbind(i, f) \/ \E v \in variables : Bind(i, f, v)

Spec == Init /\ [][Next]_vars
-----------------------------------------------------------------------------
(* What the server does with it.                                           *)

(* ValidateBinding.                                                        *)
BindingAccepted(b) ==
  LET target == IndexOf(b.step)
  IN  /\ target > 1
      /\ \E v \in variables :
           /\ v.name = b.variable
           /\ IndexOf(v.step) \in 1 .. target - 1
           /\ \E s \in Named(v.step).res, t \in steps[target].req :
                /\ s.id = v.field /\ t.id = b.field
                /\ ~s.sensitive /\ ~t.sensitive /\ ~t.credential
                /\ s.type = t.type \/ <<s.type, t.type>> = <<"int", "decimal">>
      /\ \A i \in DOMAIN steps : steps[i].contract = fingerprint

(* Validate and ValidateVariable; a step is found by name with Single.     *)
Accepted ==
  /\ \A v \in variables : v.name \notin Forbidden
  /\ \A v, w \in variables : v.name = w.name => v = w
  /\ \A b \in bindings :
       /\ BindingAccepted(b)
       /\ \A i, j \in DOMAIN steps : steps[i].name = steps[j].name => i = j

(* Compile: what a step saves, and what the values of its fields refer to. *)
Saves(i) == {v.name : v \in {w \in variables : w.step = steps[i].name}}
BoundTo(i) == {b.variable : b \in {c \in bindings : c.step = steps[i].name}}
-----------------------------------------------------------------------------
(* Properties.                                                             *)

(* What the editor leaves to its user: the names the server refuses, the   *)
(* source and the target of a binding, and to reload the contract.         *)
NamesAllowed == \A v \in variables : v.name \notin Forbidden

PlainEnds ==
  \A b \in bindings : \A v \in variables :
    v.name = b.variable =>
      /\ \A f \in Named(v.step).res : f.id = v.field => ~f.sensitive
      /\ \A f \in Named(b.step).req : f.id = b.field => ~f.credential

OneContract == bindings # {} => \A i \in DOMAIN steps : steps[i].contract = fingerprint

(* The server refuses what the editor lets a user build for these three    *)
(* reasons and no other, whatever is added, bound and removed: every edit  *)
(* keeps names unique, types and order of bindings right, and every        *)
(* variable saved by a step that is still there.                           *)
EditsAreAccepted ==
  /\ Accepted <=> NamesAllowed /\ PlainEnds /\ OneContract
  /\ \A v \in variables : \E i \in DOMAIN steps : v.step = steps[i].name
  /\ \A i \in DOMAIN steps : BoundTo(i) \subseteq UNION {Saves(j) : j \in 1 .. i - 1}

(* The chain of values as the steps' places, whatever their names.         *)
Links ==
  {[from |-> IndexOf(p[1].step), path |-> p[1].field, to |-> IndexOf(p[2].step), field |-> p[2].field] :
     p \in {q \in variables \X bindings : q[1].name = q[2].variable}}

(* The links after the removal of step i, as they should be.               *)
LinksMove(i) ==
  LET Now(j) == IF j > i THEN j - 1 ELSE j
  IN  Links' = {[l EXCEPT !.from = Now(@), !.to = Now(@)] : l \in {k \in Links : k.from # i /\ k.to # i}}

(* The removal of a step, which renames all the others, takes exactly the  *)
(* bindings from and to that step and leaves every other value flowing     *)
(* from and to the steps it did.                                           *)
RemovalKeepsLinks == [][\A i \in DOMAIN steps : RemoveStep(i) => LinksMove(i)]_vars
=============================================================================
