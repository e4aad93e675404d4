----------------------------- MODULE CaseRunner -----------------------------
(***************************************************************************)
(* The runner: the command line picks a suite of test cases and runs it    *)
(* either as a chain (one engine, variables handed from case to case, stop *)
(* at the first failure) or independently (an engine per case, at most     *)
(* MaxParallel at a time).  A case runs its steps in order; a step sends   *)
(* one request, retries one request until a deadline, or sends several     *)
(* requests at once and waits for all of them.                             *)
(*                                                                         *)
(* A value is identified by where it comes from: <<case, step, attempt>>   *)
(* for what a response was the source of, <<case, 0, 0>> for the values a  *)
(* case is given when it starts.                                           *)
(***************************************************************************)
EXTENDS Naturals, Sequences, FiniteSets, SequencesExt

CONSTANTS
  Suites,       \* the suites that may be run: sequences of cases
  Modes,        \* subset of {"chain", "independent"}
  Names,        \* variable names, "unique" and "authToken" among them
  MaxParallel,  \* MAX_PARALLEL_CASES
  MaxAttempts,  \* bound on the attempts a retried step makes before its deadline
  None

(* A request needs no token ("open"), brings its own (authToken of the     *)
(* step: "own"), or needs the one of the run ("auth").  Several requests   *)
(* are those of concurrentRequests or the copies of parallelRequests.      *)
Step == [requests : Seq({"open", "own", "auth"}), retry : BOOLEAN, save : Seq(Names)]

ConstantsAssumption ==
  /\ Modes \subseteq {"chain", "independent"}
  /\ {"unique", "authToken"} \subseteq Names
  /\ MaxParallel \in Nat \ {0}
  /\ MaxAttempts \in Nat
  /\ None \notin (Nat \X Nat \X Nat) \cup {0, 1}
  /\ \A suite \in Suites : suite \in Seq([blocked : BOOLEAN, steps : Seq(Step)])

VARIABLES
  suite,     \* the cases of this run
  mode,
  status,    \* the result of each case
  step,      \* the step each case is at
  stage,     \* where that step stands
  attempt,   \* the attempts made for that step
  expired,   \* has the deadline of a retried step passed?
  task,      \* the phase of every request of every step
  token,     \* the token of each engine
  vars,      \* the variables of each case
  shared,    \* sharedVariables of the chain
  rows,      \* the step results each case reports
  answered,  \* every step result an executor made, reported or not
  logins,    \* the logins that succeeded
  exit       \* the exit code

all == <<suite, mode, status, step, stage, attempt, expired, task, token, vars, shared,
         rows, answered, logins, exit>>

run == <<suite, mode>>
place == <<status, step, stage, attempt, expired>>
data == <<token, vars, shared, logins>>
log == <<rows, answered>>

Steps(c) == suite[c].steps
Current(c) == Steps(c)[step[c]]
Wide(st) == Len(st.requests) > 1

(* The shapes RunConfiguredStepAsync refuses.                              *)
Malformed(st) ==
  \/ st.requests = <<>>
  \/ Wide(st) /\ (st.retry \/ st.save # <<>>)

(* Mutant: the cases of an independent run share one engine.               *)
EngineOfShared(c) == 1

(* The engine a case runs on: one for the chain, one per case otherwise.   *)
EngineOf(c) == IF mode = "chain" THEN 1 ELSE c

InFlight == {"ready", "login", "sent"}
TaskPhases == {"new", "passed", "failed"} \cup InFlight

Origin == Nat \X Nat \X Nat
Values == {None} \cup Origin
Result == [step : Nat, request : Nat, attempt : Nat, passed : BOOLEAN]

TypeOK ==
  /\ suite \in Suites /\ mode \in Modes
  /\ status \in [DOMAIN suite -> {"pending", "running", "passed", "failed"}]
  /\ step \in [DOMAIN suite -> Nat]
  /\ stage \in [DOMAIN suite -> {"begin", "check", "running", "final"}]
  /\ attempt \in [DOMAIN suite -> 0 .. MaxAttempts + 1]
  /\ expired \in [DOMAIN suite -> BOOLEAN]
  /\ token \in [DOMAIN suite -> Values]
  /\ vars \in [DOMAIN suite -> [Names -> Values]]
  /\ rows \in [DOMAIN suite -> SUBSET Result]
  /\ answered \in [DOMAIN suite -> SUBSET Result]
  /\ shared \in [Names -> Values]
  /\ logins \subseteq Origin
  /\ exit \in {None, 0, 1}
  /\ DOMAIN task = DOMAIN suite
  /\ \A c \in DOMAIN suite :
       /\ step[c] \in 1 .. Len(Steps(c)) + 1
       /\ DOMAIN task[c] = DOMAIN Steps(c)
       /\ \A s \in DOMAIN Steps(c) :
            task[c][s] \in [DOMAIN Steps(c)[s].requests -> TaskPhases]

Unset == [n \in Names |-> None]

Init ==
  /\ suite \in Suites
  /\ mode \in Modes
  /\ status = [c \in DOMAIN suite |-> "pending"]
  /\ step = [c \in DOMAIN suite |-> 1]
  /\ stage = [c \in DOMAIN suite |-> "begin"]
  /\ attempt = [c \in DOMAIN suite |-> 0]
  /\ expired = [c \in DOMAIN suite |-> FALSE]
  /\ task = [c \in DOMAIN suite |->
               [s \in DOMAIN Steps(c) |-> [i \in DOMAIN Steps(c)[s].requests |-> "new"]]]
  /\ token = [c \in DOMAIN suite |-> None]
  /\ vars = [c \in DOMAIN suite |-> Unset]
  /\ shared = Unset
  /\ rows = [c \in DOMAIN suite |-> {}]
  /\ answered = [c \in DOMAIN suite |-> {}]
  /\ logins = {}
  /\ exit = None
-----------------------------------------------------------------------------
(* Program.cs: which cases run, and when.                                  *)

(* The sequential loop breaks at the first failure; Parallel.ForEachAsync  *)
(* takes the cases in order, as many as it may at a time.                  *)
MayStart(c) ==
  /\ status[c] = "pending"
  /\ IF mode = "chain"
       THEN \A d \in 1 .. c - 1 : status[d] = "passed"
       ELSE /\ \A d \in 1 .. c - 1 : status[d] # "pending"
            /\ Cardinality({d \in DOMAIN suite : status[d] = "running"}) < MaxParallel

(* What a case starts with: the built-in values, then everything shared.   *)
InitialVariables(c) ==
  [n \in Names |-> IF shared[n] # None THEN shared[n]
                   ELSE IF n = "unique" THEN <<c, 0, 0>> ELSE None]

(* A case that changes data where that is not allowed, or whose variables  *)
(* do not resolve, fails before its first step.                            *)
Start(c) ==
  /\ MayStart(c)
  /\ vars' = [vars EXCEPT ![c] = InitialVariables(c)]
  /\ status' = [status EXCEPT ![c] = IF suite[c].blocked THEN "failed" ELSE "running"]
  /\ UNCHANGED <<run, step, stage, attempt, expired, task, token, shared, log, logins, exit>>

(* The report is written and the exit code set when nothing is left to run. *)
Exit ==
  /\ exit = None
  /\ \A c \in DOMAIN suite : status[c] # "running" /\ ~MayStart(c)
  /\ exit' = IF \E c \in DOMAIN suite : status[c] = "failed" THEN 1 ELSE 0
  /\ UNCHANGED <<run, place, task, data, log>>
-----------------------------------------------------------------------------
(* RunConfiguredStepAsync and RunStepWithRetryAsync.                       *)

At(c, g) == status[c] = "running" /\ step[c] <= Len(Steps(c)) /\ stage[c] = g

Launch(c, g) ==
  /\ stage' = [stage EXCEPT ![c] = g]
  /\ attempt' = [attempt EXCEPT ![c] = @ + 1]
  /\ task' = [task EXCEPT ![c][step[c]] = [i \in DOMAIN @ |-> "ready"]]

(* A step is entered: refused, put into the retry loop, or sent.           *)
Begin(c) ==
  /\ At(c, "begin")
  /\ CASE Malformed(Current(c)) ->
            /\ status' = [status EXCEPT ![c] = "failed"]
            /\ UNCHANGED <<stage, attempt, task>>
       [] ~Malformed(Current(c)) /\ Current(c).retry ->
            /\ stage' = [stage EXCEPT ![c] = "check"]
            /\ UNCHANGED <<status, attempt, task>>
       [] OTHER -> Launch(c, "running") /\ UNCHANGED status
  /\ UNCHANGED <<run, step, expired, data, log, exit>>

(* timeoutMs goes by, whatever the step is doing.                          *)
Expire(c) ==
  /\ At(c, "check") \/ At(c, "running")
  /\ Current(c).retry
  /\ ~expired[c]
  /\ expired' = [expired EXCEPT ![c] = TRUE]
  /\ UNCHANGED <<run, status, step, stage, attempt, task, data, log, exit>>

(* The loop condition: another attempt before the deadline, one last       *)
(* attempt after it.                                                       *)
Retry(c) ==
  /\ At(c, "check")
  /\ IF expired[c] THEN Launch(c, "final")
                   ELSE attempt[c] < MaxAttempts /\ Launch(c, "running")
  /\ UNCHANGED <<run, status, step, expired, data, log, exit>>
-----------------------------------------------------------------------------
(* RunStepAsync with HttpStepExecutor: one request.                        *)

Phase(c, s, i, from, to) ==
  /\ task[c][s][i] = from
  /\ task' = [task EXCEPT ![c][s][i] = to]

(* The token of a request: its own, else the authToken variable, else the  *)
(* one of the engine, else a login.                                        *)
NeedsLogin(c, s, i) ==
  /\ Steps(c)[s].requests[i] = "auth"
  /\ vars[c]["authToken"] = None
  /\ token[EngineOf(c)] = None

Dispatch(c, s, i) ==
  /\ Phase(c, s, i, "ready", IF NeedsLogin(c, s, i) THEN "login" ELSE "sent")
  /\ UNCHANGED <<run, place, data, log, exit>>

(* The request does not resolve to one that can be sent: a variable that   *)
(* is not there, no request.  There is no step result then.                *)
Unresolved(c, s, i) ==
  /\ Phase(c, s, i, "ready", "failed")
  /\ UNCHANGED <<run, place, data, log, exit>>

(* The login response sets the token of the engine, also when another      *)
(* request of the step has set it in the meantime.                         *)
LoggedIn(c, s, i) ==
  /\ Phase(c, s, i, "login", "sent")
  /\ token' = [token EXCEPT ![EngineOf(c)] = <<c, s, i>>]
  /\ logins' = logins \cup {<<c, s, i>>}
  /\ UNCHANGED <<run, place, vars, shared, log, exit>>

(* A step result: a failed login, a transport error, a timeout, a failed   *)
(* assertion or a variable that is not in the response, or all accepted.   *)
Record(c, s, i, passed) ==
  answered' = [answered EXCEPT ![c] = @ \cup
    {[step |-> s, request |-> i, attempt |-> attempt[c], passed |-> passed]}]

Saved(c, s, names) ==
  [n \in Names |-> IF n \in names THEN <<c, s, attempt[c]>> ELSE vars[c][n]]

(* What may be stored of save when one of its variables is missing.        *)
PartlySaved(st) == {ToSet(SubSeq(st.save, 1, k - 1)) : k \in 1 .. Len(st.save)} \cup {{}}

(* The response is accepted and all of save is found in it.  A request of  *)
(* several works on a copy of the variables, but has nothing to save.      *)
Accepted(c, s, i) ==
  /\ Phase(c, s, i, "sent", "passed")
  /\ vars' = [vars EXCEPT ![c] = Saved(c, s, ToSet(Steps(c)[s].save))]
  /\ Record(c, s, i, TRUE)
  /\ UNCHANGED <<run, place, token, shared, logins, rows, exit>>

(* The variables of save are stored one by one until one is missing: a     *)
(* refused response may have stored a proper prefix of them.               *)
Rejected(c, s, i) ==
  /\ Phase(c, s, i, "sent", "failed")
  /\ \E names \in PartlySaved(Steps(c)[s]) : vars' = [vars EXCEPT ![c] = Saved(c, s, names)]
  /\ Record(c, s, i, FALSE)
  /\ UNCHANGED <<run, place, token, shared, logins, rows, exit>>

LoginFailed(c, s, i) ==
  /\ Phase(c, s, i, "login", "failed")
  /\ Record(c, s, i, FALSE)
  /\ UNCHANGED <<run, place, data, rows, exit>>

Request(c, s, i) ==
  \/ Dispatch(c, s, i) \/ Unresolved(c, s, i) \/ LoggedIn(c, s, i) \/ LoginFailed(c, s, i)
  \/ Accepted(c, s, i) \/ Rejected(c, s, i)
-----------------------------------------------------------------------------
(* The end of an attempt, of a step and of a case.                         *)

Results(c) == {r \in answered[c] : r.step = step[c] /\ r.attempt = attempt[c]}

(* Task.WhenAll: every request of the step has its result.                 *)
AllAnswered(c) ==
  \A i \in DOMAIN task[c][step[c]] : task[c][step[c]][i] \in {"passed", "failed"}

(* Mutant: one accepted request is enough for the step.                    *)
AllPassedSome(c) == \E i \in DOMAIN task[c][step[c]] : task[c][step[c]][i] = "passed"

AllPassed(c) == \A i \in DOMAIN task[c][step[c]] : task[c][step[c]][i] = "passed"

NextStep(c) ==
  /\ step' = [step EXCEPT ![c] = @ + 1]
  /\ stage' = [stage EXCEPT ![c] = "begin"]
  /\ attempt' = [attempt EXCEPT ![c] = 0]
  /\ expired' = [expired EXCEPT ![c] = FALSE]

(* The step is done.  The result of an attempt made after the deadline is  *)
(* not added to the results of the case.                                   *)
StepPassed(c) ==
  /\ At(c, "running") \/ At(c, "final")
  /\ AllAnswered(c) /\ AllPassed(c)
  /\ NextStep(c)
  /\ rows' = IF stage[c] = "final" THEN rows ELSE [rows EXCEPT ![c] = @ \cup Results(c)]
  /\ UNCHANGED <<run, status, task, data, answered, exit>>

(* An attempt before the deadline failed: its result is dropped, and after *)
(* intervalMs the loop condition is looked at again.                       *)
AttemptFailed(c) ==
  /\ At(c, "running") /\ Current(c).retry
  /\ AllAnswered(c) /\ ~AllPassed(c)
  /\ stage' = [stage EXCEPT ![c] = "check"]
  /\ UNCHANGED <<run, status, step, attempt, expired, task, data, log, exit>>

(* The step failed, and the case with it.  Of several requests only those  *)
(* that were accepted are reported.                                        *)
StepFailed(c) ==
  /\ At(c, "running") \/ At(c, "final")
  /\ Current(c).retry => stage[c] = "final"
  /\ AllAnswered(c) /\ ~AllPassed(c)
  /\ status' = [status EXCEPT ![c] = "failed"]
  /\ rows' = [rows EXCEPT ![c] = @ \cup
                {r \in Results(c) : Wide(Current(c)) => r.passed}]
  /\ UNCHANGED <<run, step, stage, attempt, expired, task, data, answered, exit>>

(* All steps passed: the authToken variable becomes the token of the       *)
(* engine, and a case of a chain hands over all of its variables.          *)
CasePassed(c) ==
  /\ status[c] = "running" /\ step[c] > Len(Steps(c))
  /\ status' = [status EXCEPT ![c] = "passed"]
  /\ token' = IF vars[c]["authToken"] = None THEN token
              ELSE [token EXCEPT ![EngineOf(c)] = vars[c]["authToken"]]
  /\ shared' = IF mode = "chain" THEN vars[c] ELSE shared
  /\ UNCHANGED <<run, step, stage, attempt, expired, task, vars, logins, log, exit>>
-----------------------------------------------------------------------------
Case(c) ==
  \/ Start(c) \/ Begin(c) \/ Expire(c) \/ Retry(c)
  \/ \E s \in DOMAIN Steps(c) : \E i \in DOMAIN Steps(c)[s].requests : Request(c, s, i)
  \/ StepPassed(c) \/ AttemptFailed(c) \/ StepFailed(c) \/ CasePassed(c)

Next ==
  \/ \E c \in DOMAIN suite : Case(c)
  \/ Exit

Spec == Init /\ [][Next]_all

(* Every request is answered or times out (HttpClient.Timeout), the clock  *)
(* of a retry runs on, and the thread pool runs what can run.              *)
FairSpec == Spec /\ WF_all(Next)
-----------------------------------------------------------------------------
(* Properties.                                                             *)

(* A green case is earned: every request of every step of it was accepted  *)
(* in the last attempt made for that step, nothing it reports is a failure, *)
(* and the exit code is 0 only if all selected cases ran and passed.       *)
PassIsEarned ==
  /\ \A c \in DOMAIN suite : status[c] = "passed" =>
       /\ \A s \in DOMAIN Steps(c) : \A i \in DOMAIN Steps(c)[s].requests :
            \E r \in answered[c] :
              /\ r.step = s /\ r.request = i /\ r.passed
              /\ \A q \in answered[c] :
                   q.step = s /\ q.request = i => q.attempt <= r.attempt
       /\ \A r \in rows[c] : r.passed
  /\ exit = 0 => \A c \in DOMAIN suite : status[c] = "passed"

(* Steps do not overlap: while a request is under way, its case is running *)
(* and at that very step, so that a step sees all the effects of the steps *)
(* before it and nothing is sent after the case has its verdict.           *)
StepsDoNotOverlap ==
  \A c \in DOMAIN suite : \A s \in DOMAIN Steps(c) : \A i \in DOMAIN task[c][s] :
    task[c][s][i] \in InFlight => status[c] = "running" /\ step[c] = s

(* A retried step stops at the first accepted response, and gives up only  *)
(* after its deadline and a last failed attempt made after it.             *)
RetryStopsInTime ==
  \A c \in DOMAIN suite : \A r \in answered[c] :
    Steps(c)[r.step].retry =>
      /\ r.passed => \A q \in answered[c] : q.step = r.step => q.attempt <= r.attempt
      /\ status[c] = "failed" /\ step[c] = r.step => expired[c] /\ stage[c] = "final"

(* What a finished step has saved is what its accepted response said: no   *)
(* value of a failed attempt stays behind, unless a later step saves the   *)
(* same variable.                                                          *)
SavedByAccepted ==
  \A c \in DOMAIN suite : \A n \in Names :
    LET savers == {s \in 1 .. step[c] - 1 : n \in ToSet(Steps(c)[s].save)}
        later  == {s \in DOMAIN Steps(c) : s >= step[c] /\ n \in ToSet(Steps(c)[s].save)}
    IN  savers # {} /\ later = {} =>
          LET s == CHOOSE s \in savers : \A t \in savers : t <= s
          IN  \E r \in answered[c] :
                r.step = s /\ r.passed /\ vars[c][n] = <<c, s, r.attempt>>

(* Independent cases do not see each other: neither variables nor tokens   *)
(* pass from one to another, however they overlap.                         *)
IndependentCasesIsolated ==
  mode = "independent" =>
    \A c \in DOMAIN suite :
      /\ \A n \in Names : vars[c][n] # None => vars[c][n][1] = c
      /\ token[EngineOf(c)] # None => token[EngineOf(c)][1] = c

(* An engine logs in for one step only: requests sent together may each    *)
(* log in, but once a token is there no later step logs in again.          *)
OneStepLogsIn ==
  \A a, b \in logins : EngineOf(a[1]) = EngineOf(b[1]) => a[1] = b[1] /\ a[2] = b[2]

(* Steps, cases and logins keep apart.                                     *)
CasesKeepApart == StepsDoNotOverlap /\ IndependentCasesIsolated /\ OneStepLogsIn

(* ${unique} is different in every case.                                   *)
UniqueIsFresh ==
  \A c, d \in DOMAIN suite :
    c # d /\ vars[c]["unique"] # None => vars[c]["unique"] # vars[d]["unique"]

(* A run comes to its end, with an exit code.                              *)
RunEnds == <>(exit # None)
=============================================================================
