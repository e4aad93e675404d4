--------------------------- MODULE WebToolsProofs ---------------------------
(***************************************************************************)
(* Theorems about the engine and the tools around a run: the runner, the   *)
(* delivery of diagrams, the workbook upload, the clients that the steps   *)
(* of a case share (MQTT, Redis, the HTTP stub), the API Builder editor    *)
(* and the pickers of a tab, for every value of their constants.  Each is  *)
(* proved by itself; the last part carries the results to the behaviours   *)
(* of WebTools.                                                            *)
(***************************************************************************)
EXTENDS WebTools, TLAPS, FiniteSetTheorems, SequenceTheorems, WellFoundedInduction

-----------------------------------------------------------------------------
(* The runner: for any suites, any number of cases side by side and of     *)
(* attempts, a green case is earned, a retried step stops in time, what is *)
(* saved is what was accepted, and neither steps nor cases get into each   *)
(* other's way.                                                            *)
(*                                                                         *)
(* The invariant says of every case where it stands, which of its requests *)
(* were sent, and what its answers say; of the run, that a chain goes case *)
(* by case, that independent cases share nothing, and that who logs in     *)
(* found no token.                                                         *)

(* What the module of the engine counts with is the cardinality.           *)
LEMMA RunnerCounts == \A S : Runner!Cardinality(S) = Cardinality(S)
  BY DEF Runner!Cardinality, Cardinality

RequestsOf(c, s) == DOMAIN Runner!Steps(c)[s].requests

(* Where a case stands.                                                    *)
PlaceInv(c) ==
  /\ status[c] = "pending" => step[c] = 1 /\ stage[c] = "begin"
  /\ status[c] = "passed" => step[c] = Len(Runner!Steps(c)) + 1
  /\ stage[c] = "begin" => attempt[c] = 0
  /\ stage[c] # "begin" => /\ status[c] \in {"running", "failed"}
                           /\ step[c] <= Len(Runner!Steps(c)) /\ ~Runner!Malformed(Runner!Current(c))
  /\ stage[c] = "check" => status[c] = "running" /\ Runner!Current(c).retry /\ attempt[c] <= MaxAttempts
  /\ stage[c] = "running" => 1 <= attempt[c] /\ (Runner!Current(c).retry => attempt[c] <= MaxAttempts)
  /\ stage[c] = "final" => 1 <= attempt[c] /\ expired[c]
  /\ status[c] = "failed" /\ stage[c] = "running" => ~Runner!Current(c).retry

(* The requests of earlier steps were accepted, those of later steps not   *)
(* sent; those of the current one are under way while it runs.             *)
TaskInv(c) ==
  \A s \in DOMAIN Runner!Steps(c) : \A i \in RequestsOf(c, s) :
    /\ s < step[c] => task[c][s][i] = "passed"
    /\ s > step[c] \/ (s = step[c] /\ stage[c] = "begin") => task[c][s][i] = "new"
    /\ stage[c] \notin {"running", "final"} \/ status[c] # "running" => task[c][s][i] \notin Runner!InFlight

(* An answer is of a step that was begun and of an attempt that was made;  *)
(* of the last attempt it says how the request ended.                      *)
AnswerInv(c) ==
  \A r \in answered[c] :
    /\ r.step \in DOMAIN Runner!Steps(c) /\ r.step <= step[c] /\ 1 <= r.attempt
    /\ r.request \in RequestsOf(c, r.step)
    /\ ~Runner!Malformed(Runner!Steps(c)[r.step])
    /\ r.step = step[c] => r.attempt <= attempt[c]
    /\ r.step = step[c] /\ r.attempt = attempt[c] =>
         task[c][r.step][r.request] = IF r.passed THEN "passed" ELSE "failed"

(* A request that was accepted has the answer that says so, and no later   *)
(* attempt was made.                                                       *)
PassedInv(c) ==
  \A s \in DOMAIN Runner!Steps(c) : \A i \in RequestsOf(c, s) : task[c][s][i] = "passed" =>
    \E r \in answered[c] :
      /\ r.step = s /\ r.request = i /\ r.passed
      /\ s = step[c] => r.attempt = attempt[c]
      /\ \A q \in answered[c] : q.step = s => q.attempt <= r.attempt

(* Nothing follows an accepted attempt of a retried step.                  *)
RetryInv(c) ==
  \A r \in answered[c] : Runner!Steps(c)[r.step].retry /\ r.passed =>
    /\ r.step = step[c] => r.attempt = attempt[c] /\ stage[c] # "check"
    /\ \A q \in answered[c] : q.step = r.step => q.attempt <= r.attempt

(* As long as a case has not failed, it reports no failure.                *)
RowsInv(c) == status[c] # "failed" => \A r \in rows[c] : r.passed

Saves(c, s, n) == n \in Runner!ToSet(Runner!Steps(c)[s].save)

(* What was saved last is there, until a later step saves it.              *)
SaveInv(c) ==
  \A n \in Names : \A s \in DOMAIN Runner!Steps(c) : Saves(c, s, n) =>
    /\ s = step[c] /\ stage[c] # "begin" /\ (\A i \in RequestsOf(c, s) : task[c][s][i] = "passed") =>
         vars[c][n] = <<c, s, attempt[c]>>
    /\ s < step[c] /\ (\A t \in DOMAIN Runner!Steps(c) : s < t /\ t <= step[c] => ~Saves(c, t, n)) =>
         \E r \in answered[c] : r.step = s /\ r.passed /\ vars[c][n] = <<c, s, r.attempt>>

CaseInv(c) ==
  /\ PlaceInv(c) /\ TaskInv(c) /\ AnswerInv(c) /\ PassedInv(c) /\ RetryInv(c)
  /\ RowsInv(c) /\ SaveInv(c)

(* A chain runs one case at a time, in order.                              *)
ChainInv ==
  mode = "chain" =>
    \A c, d \in DOMAIN suite : d < c /\ status[c] # "pending" => status[d] = "passed"

(* Independent cases share nothing.                                        *)
ApartInv ==
  mode = "independent" =>
    /\ \A n \in Names : shared[n] = None
    /\ \A c \in DOMAIN suite :
         /\ \A n \in Names : vars[c][n] # None => vars[c][n][1] = c
         /\ token[c] # None => token[c][1] = c

(* Whoever is about to log in found no token, and only requests of the     *)
(* same step may have brought one since.                                   *)
LoginInv ==
  /\ \A a \in logins : a[1] \in DOMAIN suite /\ token[Runner!EngineOf(a[1])] # None
  /\ \A c \in DOMAIN suite : \A s \in DOMAIN Runner!Steps(c) : \A i \in RequestsOf(c, s) :
       task[c][s][i] = "login" =>
         \A a \in logins : Runner!EngineOf(a[1]) = Runner!EngineOf(c) => a[1] = c /\ a[2] = s

ExitInv == exit = 0 => \A c \in DOMAIN suite : status[c] = "passed"

RunnerInv ==
  /\ Runner!TypeOK /\ ChainInv /\ ApartInv /\ LoginInv /\ Runner!OneStepLogsIn /\ ExitInv
  /\ \A c \in DOMAIN suite : CaseInv(c)
(* The parts of a suite have the types they are declared with.             *)
LEMMA Shape ==
  ASSUME Runner!ConstantsAssumption, Runner!TypeOK
  PROVE  /\ Len(suite) \in Nat /\ DOMAIN suite = 1 .. Len(suite)
         /\ \A c \in DOMAIN suite :
              /\ c \in Nat /\ c >= 1
              /\ 1 \in DOMAIN suite
              /\ Len(Runner!Steps(c)) \in Nat /\ DOMAIN Runner!Steps(c) = 1 .. Len(Runner!Steps(c))
              /\ \A s \in DOMAIN Runner!Steps(c) :
                   /\ s \in Nat /\ s >= 1
                   /\ Runner!Steps(c)[s] \in Runner!Step
                   /\ Runner!Steps(c)[s].retry \in BOOLEAN
                   /\ Len(Runner!Steps(c)[s].requests) \in Nat
                   /\ RequestsOf(c, s) = 1 .. Len(Runner!Steps(c)[s].requests)
                   /\ \A i \in RequestsOf(c, s) : i \in Nat /\ i >= 1
                   /\ \A n : Saves(c, s, n) => n \in Names
<1>1. suite \in Seq([blocked : BOOLEAN, steps : Seq(Runner!Step)])
  BY DEF Runner!ConstantsAssumption, Runner!TypeOK
<1>2. Len(suite) \in Nat /\ DOMAIN suite = 1 .. Len(suite)
  BY <1>1
<1>3. ASSUME NEW c \in DOMAIN suite
      PROVE  /\ c \in Nat /\ c >= 1 /\ 1 \in DOMAIN suite
             /\ Runner!Steps(c) \in Seq(Runner!Step)
  <2>1. c \in Nat /\ c >= 1 /\ 1 \in DOMAIN suite
    BY <1>2, <1>3
  <2>2. suite[c] \in [blocked : BOOLEAN, steps : Seq(Runner!Step)]
    BY <1>1, <1>2, <1>3, ElementOfSeq, Zenon
  <2> QED
    BY <2>1, <2>2 DEF Runner!Steps
<1>4. ASSUME NEW st \in Runner!Step
      PROVE  /\ st.retry \in BOOLEAN /\ Len(st.requests) \in Nat
             /\ DOMAIN st.requests = 1 .. Len(st.requests)
             /\ \A n : n \in Runner!ToSet(st.save) => n \in Names
  <2>1. st.retry \in BOOLEAN /\ st.requests \in Seq({"open", "own", "auth"}) /\ st.save \in Seq(Names)
    BY <1>4 DEF Runner!Step
  <2> QED
    BY <2>1 DEF Runner!ToSet
<1>5. ASSUME NEW c \in DOMAIN suite, NEW s \in DOMAIN Runner!Steps(c)
      PROVE  s \in Nat /\ s >= 1 /\ Runner!Steps(c)[s] \in Runner!Step
  BY <1>3, <1>5
<1>6. ASSUME NEW c \in DOMAIN suite, NEW s \in DOMAIN Runner!Steps(c)
      PROVE  /\ s \in Nat /\ s >= 1
             /\ Runner!Steps(c)[s] \in Runner!Step
             /\ Runner!Steps(c)[s].retry \in BOOLEAN
             /\ Len(Runner!Steps(c)[s].requests) \in Nat
             /\ RequestsOf(c, s) = 1 .. Len(Runner!Steps(c)[s].requests)
             /\ \A i \in RequestsOf(c, s) : i \in Nat /\ i >= 1
             /\ \A n : Saves(c, s, n) => n \in Names
  <2>1. s \in Nat /\ s >= 1 /\ Runner!Steps(c)[s] \in Runner!Step
    BY <1>5, <1>6
  <2>2. /\ Runner!Steps(c)[s].retry \in BOOLEAN
        /\ Len(Runner!Steps(c)[s].requests) \in Nat
        /\ RequestsOf(c, s) = 1 .. Len(Runner!Steps(c)[s].requests)
        /\ \A n : Saves(c, s, n) => n \in Names
    BY <2>1, <1>4 DEF RequestsOf, Saves
  <2> QED
    BY <2>1, <2>2
<1>7. \A c \in DOMAIN suite : Len(Runner!Steps(c)) \in Nat /\ DOMAIN Runner!Steps(c) = 1 .. Len(Runner!Steps(c))
  BY <1>3
<1> QED
  BY <1>2, <1>3, <1>6, <1>7

(* A step that saves or is retried and not refused has a single request.   *)
LEMMA SingleRequest ==
  ASSUME Runner!ConstantsAssumption, Runner!TypeOK,
         NEW c \in DOMAIN suite, NEW s \in DOMAIN Runner!Steps(c), ~Runner!Malformed(Runner!Steps(c)[s]),
         Runner!Steps(c)[s].retry \/ \E n : Saves(c, s, n)
  PROVE  RequestsOf(c, s) = {1}
<1>1. /\ Runner!Steps(c)[s].requests \in Seq({"open", "own", "auth"})
      /\ Len(Runner!Steps(c)[s].requests) \in Nat
      /\ RequestsOf(c, s) = 1 .. Len(Runner!Steps(c)[s].requests)
  BY Shape DEF Runner!Step
<1>2. ASSUME NEW n, Saves(c, s, n) PROVE Runner!Steps(c)[s].save # <<>>
  BY <1>2 DEF Saves, Runner!ToSet
<1>3. Runner!Steps(c)[s].requests # <<>> /\ ~(Len(Runner!Steps(c)[s].requests) > 1)
  BY <1>2 DEF Runner!Malformed, Runner!Wide
<1>4. Len(Runner!Steps(c)[s].requests) # 0
  BY <1>1, <1>3, EmptySeq
<1>5. Len(Runner!Steps(c)[s].requests) = 1
  <2>1. \A n \in Nat : n # 0 /\ ~(n > 1) => n = 1
    OBVIOUS
  <2> QED
    BY <2>1, <1>1, <1>3, <1>4, Zenon
<1> QED
  BY <1>1, <1>5

(* What every case knows of itself.                                        *)
LEMMA Known ==
  ASSUME Runner!ConstantsAssumption, RunnerInv, NEW c \in DOMAIN suite
  PROVE  /\ Runner!TypeOK /\ CaseInv(c)
         /\ step[c] \in Nat /\ attempt[c] \in Nat /\ Len(Runner!Steps(c)) \in Nat /\ MaxAttempts \in Nat
         /\ DOMAIN Runner!Steps(c) = 1 .. Len(Runner!Steps(c))
         /\ step[c] \in 1 .. Len(Runner!Steps(c)) + 1
         /\ \A r \in answered[c] : r.attempt \in Nat /\ r.step \in Nat /\ r.passed \in BOOLEAN
         /\ \A s \in DOMAIN Runner!Steps(c) : s \in Nat
<1>1. Runner!TypeOK /\ CaseInv(c)
  BY DEF RunnerInv
<1>2. step[c] \in Nat /\ Len(Runner!Steps(c)) \in Nat /\ MaxAttempts \in Nat /\ DOMAIN Runner!Steps(c) = 1 .. Len(Runner!Steps(c))
  BY <1>1, Shape DEF Runner!TypeOK, Runner!ConstantsAssumption
<1>3. attempt[c] \in Nat
  BY <1>1 DEF Runner!TypeOK, Runner!ConstantsAssumption
<1>4. answered[c] \subseteq Runner!Result
  BY <1>1 DEF Runner!TypeOK
<1>5. \A r \in answered[c] : r.attempt \in Nat /\ r.step \in Nat /\ r.passed \in BOOLEAN
  BY <1>4 DEF Runner!Result
<1>6. step[c] \in 1 .. Len(Runner!Steps(c)) + 1
  BY <1>1 DEF Runner!TypeOK
<1> QED
  BY <1>1, <1>2, <1>3, <1>5, <1>6

(* What the steps do, place by place.                                      *)

Same(d) ==
  /\ status'[d] = status[d] /\ step'[d] = step[d] /\ stage'[d] = stage[d]
  /\ attempt'[d] = attempt[d] /\ expired'[d] = expired[d] /\ task'[d] = task[d]
  /\ vars'[d] = vars[d] /\ rows'[d] = rows[d] /\ answered'[d] = answered[d]

(* A request that changes its phase changes nothing else.                  *)
LEMMA Phased ==
  ASSUME Runner!ConstantsAssumption, Runner!TypeOK,
         NEW c \in DOMAIN suite, NEW s \in DOMAIN Runner!Steps(c), NEW i \in RequestsOf(c, s),
         NEW from, NEW to \in Runner!TaskPhases, Runner!Phase(c, s, i, from, to)
  PROVE  /\ task[c][s][i] = from /\ task'[c][s][i] = to
         /\ DOMAIN task' = DOMAIN suite
         /\ \A d \in DOMAIN suite \ {c} : task'[d] = task[d]
         /\ DOMAIN task'[c] = DOMAIN Runner!Steps(c)
         /\ \A t \in DOMAIN Runner!Steps(c) \ {s} : task'[c][t] = task[c][t]
         /\ \A j \in RequestsOf(c, s) \ {i} : task'[c][s][j] = task[c][s][j]
         /\ task'[c][s] \in [RequestsOf(c, s) -> Runner!TaskPhases]
<1>1. /\ DOMAIN task = DOMAIN suite /\ DOMAIN task[c] = DOMAIN Runner!Steps(c)
      /\ task[c][s] \in [RequestsOf(c, s) -> Runner!TaskPhases]
  BY DEF Runner!TypeOK, RequestsOf
<1>2. task' = [task EXCEPT ![c] = [task[c] EXCEPT ![s] = [task[c][s] EXCEPT ![i] = to]]]
  BY DEF Runner!Phase
<1>3. /\ DOMAIN task' = DOMAIN suite
      /\ \A d \in DOMAIN suite \ {c} : task'[d] = task[d]
      /\ task'[c] = [task[c] EXCEPT ![s] = [task[c][s] EXCEPT ![i] = to]]
  BY <1>1, <1>2
<1>4. /\ DOMAIN task'[c] = DOMAIN Runner!Steps(c)
      /\ \A t \in DOMAIN Runner!Steps(c) \ {s} : task'[c][t] = task[c][t]
      /\ task'[c][s] = [task[c][s] EXCEPT ![i] = to]
  BY <1>1, <1>3
<1>5. /\ \A j \in RequestsOf(c, s) \ {i} : task'[c][s][j] = task[c][s][j]
      /\ task'[c][s][i] = to
      /\ task'[c][s] \in [RequestsOf(c, s) -> Runner!TaskPhases]
  BY <1>1, <1>4
<1> QED
  BY <1>3, <1>4, <1>5 DEF Runner!Phase

(* An attempt sends all requests of the step and touches no other.         *)
LEMMA Launched ==
  ASSUME Runner!ConstantsAssumption, Runner!TypeOK,
         NEW c \in DOMAIN suite, step[c] <= Len(Runner!Steps(c)), NEW g, Runner!Launch(c, g)
  PROVE  /\ step[c] \in DOMAIN Runner!Steps(c)
         /\ stage'[c] = g /\ attempt'[c] = attempt[c] + 1
         /\ \A d \in DOMAIN suite \ {c} :
              task'[d] = task[d] /\ stage'[d] = stage[d] /\ attempt'[d] = attempt[d]
         /\ DOMAIN task' = DOMAIN suite
         /\ DOMAIN task'[c] = DOMAIN Runner!Steps(c)
         /\ \A t \in DOMAIN Runner!Steps(c) \ {step[c]} : task'[c][t] = task[c][t]
         /\ \A j \in RequestsOf(c, step[c]) : task'[c][step[c]][j] = "ready"
         /\ task'[c][step[c]] \in [RequestsOf(c, step[c]) -> Runner!TaskPhases]
<1>1. /\ DOMAIN task = DOMAIN suite /\ DOMAIN task[c] = DOMAIN Runner!Steps(c)
      /\ step[c] \in 1 .. Len(Runner!Steps(c)) + 1
      /\ \A s \in DOMAIN Runner!Steps(c) : task[c][s] \in [RequestsOf(c, s) -> Runner!TaskPhases]
  BY DEF Runner!TypeOK, RequestsOf
<1>2. step[c] \in DOMAIN Runner!Steps(c)
  BY <1>1, Shape
<1>3. task' = [task EXCEPT ![c] = [task[c] EXCEPT ![step[c]] = [j \in DOMAIN task[c][step[c]] |-> "ready"]]]
  BY DEF Runner!Launch
<1>4. /\ DOMAIN task' = DOMAIN suite
      /\ \A d \in DOMAIN suite \ {c} : task'[d] = task[d]
      /\ task'[c] = [task[c] EXCEPT ![step[c]] = [j \in DOMAIN task[c][step[c]] |-> "ready"]]
  BY <1>1, <1>3
<1>5. /\ DOMAIN task'[c] = DOMAIN Runner!Steps(c)
      /\ \A t \in DOMAIN Runner!Steps(c) \ {step[c]} : task'[c][t] = task[c][t]
      /\ task'[c][step[c]] = [j \in RequestsOf(c, step[c]) |-> "ready"]
  BY <1>1, <1>2, <1>4
<1>6. /\ \A j \in RequestsOf(c, step[c]) : task'[c][step[c]][j] = "ready"
      /\ task'[c][step[c]] \in [RequestsOf(c, step[c]) -> Runner!TaskPhases]
  BY <1>5 DEF Runner!TaskPhases, Runner!InFlight
<1>7. /\ stage'[c] = g /\ attempt'[c] = attempt[c] + 1
      /\ \A d \in DOMAIN suite \ {c} : stage'[d] = stage[d] /\ attempt'[d] = attempt[d]
  BY DEF Runner!Launch, Runner!TypeOK
<1> QED
  BY <1>2, <1>4, <1>5, <1>6, <1>7

(* Types.                                                                  *)

(* What a case saves are values.                                          *)
LEMMA SavedTyped ==
  ASSUME Runner!ConstantsAssumption, Runner!TypeOK,
         NEW c \in DOMAIN suite, NEW s \in DOMAIN Runner!Steps(c), NEW names
  PROVE  /\ Runner!Saved(c, s, names) \in [Names -> Runner!Values]
         /\ <<c, s, attempt[c]>> \in Runner!Origin
<1>1. c \in Nat /\ s \in Nat
  BY Shape
<1>2. attempt[c] \in Nat
  BY DEF Runner!TypeOK, Runner!ConstantsAssumption
<1>3. <<c, s, attempt[c]>> \in Runner!Origin
  BY <1>1, <1>2 DEF Runner!Origin
<1>4. vars[c] \in [Names -> Runner!Values]
  BY DEF Runner!TypeOK
<1> QED
  BY <1>3, <1>4 DEF Runner!Saved, Runner!Values

(* Every run starts well-typed.                                            *)
LEMMA TypeInit ==
  ASSUME Runner!ConstantsAssumption, Runner!Init
  PROVE  Runner!TypeOK
<1>1. suite \in Seq([blocked : BOOLEAN, steps : Seq(Runner!Step)])
  BY DEF Runner!Init, Runner!ConstantsAssumption
<1>2. \A c \in DOMAIN suite : 1 \in 1 .. Len(Runner!Steps(c)) + 1
  <2>1. \A c \in DOMAIN suite : Runner!Steps(c) \in Seq(Runner!Step)
    <3>1. \A c \in DOMAIN suite : c \in 1 .. Len(suite)
      BY <1>1
    <3>2. \A c \in DOMAIN suite : suite[c] \in [blocked : BOOLEAN, steps : Seq(Runner!Step)]
      BY <1>1, <3>1, ElementOfSeq, Zenon
    <3> QED
      BY <3>2 DEF Runner!Steps
  <2>2. \A c \in DOMAIN suite : Len(Runner!Steps(c)) \in Nat
    BY <2>1
  <2> QED
    BY <2>2
<1>3. Runner!Unset \in [Names -> Runner!Values]
  BY DEF Runner!Unset, Runner!Values
<1>4. 0 \in 0 .. MaxAttempts + 1
  BY DEF Runner!ConstantsAssumption
<1>5. /\ DOMAIN task = DOMAIN suite
      /\ \A c \in DOMAIN suite :
           /\ DOMAIN task[c] = DOMAIN Runner!Steps(c)
           /\ \A s \in DOMAIN Runner!Steps(c) :
                task[c][s] \in [DOMAIN Runner!Steps(c)[s].requests -> Runner!TaskPhases]
  BY DEF Runner!Init, Runner!TaskPhases
<1>6. \A c \in DOMAIN suite : step[c] \in 1 .. Len(Runner!Steps(c)) + 1
  BY <1>2 DEF Runner!Init
<1>7. /\ suite \in Suites /\ mode \in Modes
      /\ status \in [DOMAIN suite -> {"pending", "running", "passed", "failed"}]
      /\ step \in [DOMAIN suite -> Nat]
      /\ stage \in [DOMAIN suite -> {"begin", "check", "running", "final"}]
      /\ attempt \in [DOMAIN suite -> 0 .. MaxAttempts + 1]
      /\ expired \in [DOMAIN suite -> BOOLEAN]
      /\ rows \in [DOMAIN suite -> SUBSET Runner!Result]
      /\ answered \in [DOMAIN suite -> SUBSET Runner!Result]
      /\ logins \subseteq Runner!Origin
      /\ exit \in {None, 0, 1}
  BY <1>4 DEF Runner!Init
<1>8. /\ token \in [DOMAIN suite -> Runner!Values]
      /\ vars \in [DOMAIN suite -> [Names -> Runner!Values]]
      /\ shared \in [Names -> Runner!Values]
  BY <1>3 DEF Runner!Init, Runner!Values
<1> QED
  BY <1>5, <1>6, <1>7, <1>8 DEF Runner!TypeOK

(* What the type invariant says of the requests.                           *)
TasksTyped ==
  /\ DOMAIN task = DOMAIN suite
  /\ \A c \in DOMAIN suite :
       /\ DOMAIN task[c] = DOMAIN Runner!Steps(c)
       /\ \A s \in DOMAIN Runner!Steps(c) : task[c][s] \in [RequestsOf(c, s) -> Runner!TaskPhases]

(* A request in another phase is in a phase.                               *)
LEMMA PhasedTyped ==
  ASSUME Runner!ConstantsAssumption, Runner!TypeOK, UNCHANGED suite,
         NEW c \in DOMAIN suite, NEW s \in DOMAIN Runner!Steps(c), NEW i \in RequestsOf(c, s),
         NEW from, NEW to \in Runner!TaskPhases, Runner!Phase(c, s, i, from, to)
  PROVE  TasksTyped'
<1>1. TasksTyped
  BY DEF Runner!TypeOK, TasksTyped, RequestsOf
<1>2. /\ DOMAIN task' = DOMAIN suite
      /\ \A d \in DOMAIN suite \ {c} : task'[d] = task[d]
      /\ DOMAIN task'[c] = DOMAIN Runner!Steps(c)
      /\ \A t \in DOMAIN Runner!Steps(c) \ {s} : task'[c][t] = task[c][t]
      /\ task'[c][s] \in [RequestsOf(c, s) -> Runner!TaskPhases]
  BY Phased
<1>3. /\ DOMAIN task'[c] = DOMAIN Runner!Steps(c)
      /\ \A t \in DOMAIN Runner!Steps(c) : task'[c][t] \in [RequestsOf(c, t) -> Runner!TaskPhases]
  BY <1>1, <1>2 DEF TasksTyped
<1> QED
  BY <1>1, <1>2, <1>3 DEF TasksTyped, RequestsOf, Runner!Steps

(* So are all requests of an attempt that starts.                          *)
LEMMA LaunchedTyped ==
  ASSUME Runner!ConstantsAssumption, Runner!TypeOK, UNCHANGED suite,
         NEW c \in DOMAIN suite, step[c] <= Len(Runner!Steps(c)), NEW g, Runner!Launch(c, g),
         g \in {"running", "final"}, attempt[c] <= MaxAttempts
  PROVE  /\ TasksTyped'
         /\ stage' \in [DOMAIN suite -> {"begin", "check", "running", "final"}]
         /\ attempt' \in [DOMAIN suite -> 0 .. MaxAttempts + 1]
<1>1. TasksTyped
  BY DEF Runner!TypeOK, TasksTyped, RequestsOf
<1>2. /\ DOMAIN task' = DOMAIN suite
      /\ \A d \in DOMAIN suite \ {c} : task'[d] = task[d]
      /\ DOMAIN task'[c] = DOMAIN Runner!Steps(c)
      /\ \A t \in DOMAIN Runner!Steps(c) \ {step[c]} : task'[c][t] = task[c][t]
      /\ task'[c][step[c]] \in [RequestsOf(c, step[c]) -> Runner!TaskPhases]
  BY Launched
<1>3. /\ DOMAIN task'[c] = DOMAIN Runner!Steps(c)
      /\ \A t \in DOMAIN Runner!Steps(c) : task'[c][t] \in [RequestsOf(c, t) -> Runner!TaskPhases]
  BY <1>1, <1>2 DEF TasksTyped
<1>4. TasksTyped'
  BY <1>1, <1>2, <1>3 DEF TasksTyped, RequestsOf, Runner!Steps
<1>5. stage' \in [DOMAIN suite -> {"begin", "check", "running", "final"}]
  BY DEF Runner!Launch, Runner!TypeOK
<1>6. attempt' \in [DOMAIN suite -> 0 .. MaxAttempts + 1]
  BY DEF Runner!Launch, Runner!TypeOK, Runner!ConstantsAssumption
<1> QED
  BY <1>4, <1>5, <1>6

(* Every step of a case keeps the types.                                   *)
LEMMA TypeKept ==
  ASSUME Runner!ConstantsAssumption, RunnerInv, NEW c \in DOMAIN suite, Runner!Case(c)
  PROVE  Runner!TypeOK'
<1> USE DEF Runner!run, Runner!place, Runner!data, Runner!log
<1>1. Runner!TypeOK /\ PlaceInv(c) /\ TasksTyped
  BY DEF RunnerInv, CaseInv, Runner!TypeOK, TasksTyped, RequestsOf
<1>2. Runner!EngineOf(c) \in DOMAIN suite
  BY <1>1, Shape DEF Runner!EngineOf
<1>3. CASE Runner!Start(c)
  <2>1. Runner!InitialVariables(c) \in [Names -> Runner!Values]
    <3>1. <<c, 0, 0>> \in Runner!Origin
      BY <1>1, Shape DEF Runner!Origin
    <3> QED
      BY <1>1, <3>1 DEF Runner!InitialVariables, Runner!TypeOK, Runner!Values
  <2>2. vars' \in [DOMAIN suite -> [Names -> Runner!Values]]
    BY <1>1, <1>3, <2>1 DEF Runner!Start, Runner!TypeOK
  <2>3. status' \in [DOMAIN suite -> {"pending", "running", "passed", "failed"}]
    BY <1>1, <1>3 DEF Runner!Start, Runner!TypeOK
  <2> QED
    BY <1>1, <1>3, <2>2, <2>3 DEF Runner!Start, Runner!TypeOK, Runner!Steps
<1>4. CASE Runner!Begin(c)
  <2>1. CASE Runner!Malformed(Runner!Current(c))
    BY <1>1, <1>4, <2>1 DEF Runner!Begin, Runner!TypeOK, Runner!Steps
  <2>2. CASE ~Runner!Malformed(Runner!Current(c)) /\ Runner!Current(c).retry
    BY <1>1, <1>4, <2>2 DEF Runner!Begin, Runner!TypeOK, Runner!Steps
  <2>3. CASE ~Runner!Malformed(Runner!Current(c)) /\ ~Runner!Current(c).retry
    <3>1. Runner!Launch(c, "running") /\ UNCHANGED <<suite, mode, status, step, expired, token, vars, shared,
                                              logins, rows, answered, exit>>
      BY <1>4, <2>3 DEF Runner!Begin
    <3>2. step[c] <= Len(Runner!Steps(c)) /\ attempt[c] <= MaxAttempts
      BY <1>1, <1>4 DEF Runner!Begin, Runner!At, PlaceInv, Runner!ConstantsAssumption
    <3>3. /\ TasksTyped'
          /\ stage' \in [DOMAIN suite -> {"begin", "check", "running", "final"}]
          /\ attempt' \in [DOMAIN suite -> 0 .. MaxAttempts + 1]
      BY <1>1, <3>1, <3>2, LaunchedTyped
    <3> QED
      BY <1>1, <3>1, <3>3 DEF Runner!TypeOK, TasksTyped, RequestsOf, Runner!Steps
  <2> QED
    BY <2>1, <2>2, <2>3
<1>5. CASE Runner!Expire(c)
  BY <1>1, <1>5 DEF Runner!Expire, Runner!TypeOK, Runner!Steps
<1>6. CASE Runner!Retry(c)
  <2>1. PICK g \in {"running", "final"} :
          Runner!Launch(c, g) /\ UNCHANGED <<suite, mode, status, step, expired, token, vars, shared,
                                      logins, rows, answered, exit>>
    BY <1>6 DEF Runner!Retry
  <2>2. step[c] <= Len(Runner!Steps(c)) /\ attempt[c] <= MaxAttempts
    BY <1>1, <1>6 DEF Runner!Retry, Runner!At, PlaceInv
  <2>3. /\ TasksTyped'
        /\ stage' \in [DOMAIN suite -> {"begin", "check", "running", "final"}]
        /\ attempt' \in [DOMAIN suite -> 0 .. MaxAttempts + 1]
    BY <1>1, <2>1, <2>2, LaunchedTyped
  <2> QED
    BY <1>1, <2>1, <2>3 DEF Runner!TypeOK, TasksTyped, RequestsOf, Runner!Steps
<1>7. ASSUME NEW s \in DOMAIN Runner!Steps(c), NEW i \in RequestsOf(c, s), Runner!Request(c, s, i)
      PROVE  Runner!TypeOK'
  <2>1. PICK from \in Runner!TaskPhases, to \in Runner!TaskPhases : Runner!Phase(c, s, i, from, to)
    BY <1>7 DEF Runner!Request, Runner!Dispatch, Runner!Unresolved, Runner!LoggedIn, Runner!LoginFailed, Runner!Accepted, Runner!Rejected, Runner!TaskPhases, Runner!InFlight
  <2>2. UNCHANGED <<suite, mode, status, step, stage, attempt, expired, shared, rows, exit>>
    BY <1>7 DEF Runner!Request, Runner!Dispatch, Runner!Unresolved, Runner!LoggedIn, Runner!LoginFailed, Runner!Accepted, Runner!Rejected
  <2>3. TasksTyped'
    BY <1>1, <1>7, <2>1, <2>2, PhasedTyped
  <2>4. vars' \in [DOMAIN suite -> [Names -> Runner!Values]]
    <3>1. \/ vars' = vars
          \/ \E names : vars' = [vars EXCEPT ![c] = Runner!Saved(c, s, names)]
      BY <1>7 DEF Runner!Request, Runner!Dispatch, Runner!Unresolved, Runner!LoggedIn, Runner!LoginFailed, Runner!Accepted, Runner!Rejected
    <3>2. \A names : Runner!Saved(c, s, names) \in [Names -> Runner!Values]
      BY <1>1, <1>7, SavedTyped
    <3>3. CASE vars' = vars
      BY <1>1, <2>2, <3>3 DEF Runner!TypeOK
    <3>4. ASSUME NEW names, vars' = [vars EXCEPT ![c] = Runner!Saved(c, s, names)]
          PROVE  vars' \in [DOMAIN suite -> [Names -> Runner!Values]]
      BY <1>1, <3>2, <3>4 DEF Runner!TypeOK
    <3> QED
      BY <3>1, <3>3, <3>4
  <2>5. answered' \in [DOMAIN suite -> SUBSET Runner!Result]
    <3>1. \/ answered' = answered
          \/ \E passed \in BOOLEAN : Runner!Record(c, s, i, passed)
      BY <1>7 DEF Runner!Request, Runner!Dispatch, Runner!Unresolved, Runner!LoggedIn, Runner!LoginFailed, Runner!Accepted, Runner!Rejected
    <3>2. s \in Nat /\ i \in Nat /\ attempt[c] \in Nat
      <4>1. s \in Nat /\ i \in Nat
        BY <1>1, <1>7, Shape
      <4> QED
        BY <1>1, <4>1 DEF Runner!TypeOK, Runner!ConstantsAssumption
    <3>3. CASE answered' = answered
      BY <1>1, <3>3 DEF Runner!TypeOK
    <3>4. ASSUME NEW passed \in BOOLEAN, Runner!Record(c, s, i, passed)
          PROVE  answered' \in [DOMAIN suite -> SUBSET Runner!Result]
      <4>1. [step |-> s, request |-> i, attempt |-> attempt[c], passed |-> passed] \in Runner!Result
        BY <3>2, <3>4 DEF Runner!Result
      <4> QED
        BY <1>1, <3>4, <4>1 DEF Runner!TypeOK, Runner!Record
    <3> QED
      BY <3>1, <3>3, <3>4
  <2>6. token' \in [DOMAIN suite -> Runner!Values] /\ logins' \subseteq Runner!Origin
    <3>1. \/ UNCHANGED <<token, logins>>
          \/ /\ token' = [token EXCEPT ![Runner!EngineOf(c)] = <<c, s, i>>]
             /\ logins' = logins \cup {<<c, s, i>>}
      BY <1>7 DEF Runner!Request, Runner!Dispatch, Runner!Unresolved, Runner!LoggedIn, Runner!LoginFailed, Runner!Accepted, Runner!Rejected
    <3>2. <<c, s, i>> \in Runner!Origin
      BY <1>1, <1>7, Shape DEF Runner!Origin
    <3>3. token \in [DOMAIN suite -> Runner!Values] /\ logins \subseteq Runner!Origin /\ <<c, s, i>> \in Runner!Values
      BY <1>1, <3>2 DEF Runner!TypeOK, Runner!Values
    <3>4. logins' \subseteq Runner!Origin
      BY <3>1, <3>2, <3>3
    <3> QED
      BY <3>1, <3>3, <3>4
  <2> QED
    BY <1>1, <2>2, <2>3, <2>4, <2>5, <2>6 DEF Runner!TypeOK, TasksTyped, RequestsOf, Runner!Steps
<1>8. CASE Runner!StepPassed(c)
  <2>1. step[c] \in Nat /\ step[c] + 1 \in 1 .. Len(Runner!Steps(c)) + 1
    <3>1. step[c] \in 1 .. Len(Runner!Steps(c)) + 1 /\ Len(Runner!Steps(c)) \in Nat
      BY Known
    <3>2. step[c] <= Len(Runner!Steps(c))
      BY <1>8 DEF Runner!StepPassed, Runner!At
    <3> QED
      BY <3>1, <3>2
  <2>2. /\ step' \in [DOMAIN suite -> Nat] /\ \A d \in DOMAIN suite : step'[d] \in 1 .. Len(Runner!Steps(d)) + 1
        /\ stage' \in [DOMAIN suite -> {"begin", "check", "running", "final"}]
        /\ attempt' \in [DOMAIN suite -> 0 .. MaxAttempts + 1]
        /\ expired' \in [DOMAIN suite -> BOOLEAN]
    BY <1>1, <1>8, <2>1 DEF Runner!StepPassed, Runner!NextStep, Runner!TypeOK, Runner!ConstantsAssumption
  <2>3. Runner!Results(c) \subseteq Runner!Result
    BY <1>1 DEF Runner!Results, Runner!TypeOK
  <2>4. rows' \in [DOMAIN suite -> SUBSET Runner!Result]
    BY <1>1, <1>8, <2>3 DEF Runner!StepPassed, Runner!TypeOK
  <2> QED
    BY <1>1, <1>8, <2>2, <2>4 DEF Runner!StepPassed, Runner!TypeOK, Runner!Steps
<1>9. CASE Runner!AttemptFailed(c)
  BY <1>1, <1>9 DEF Runner!AttemptFailed, Runner!TypeOK, Runner!Steps
<1>10. CASE Runner!StepFailed(c)
  <2>1. Runner!Results(c) \subseteq Runner!Result
    BY <1>1 DEF Runner!Results, Runner!TypeOK
  <2>2. rows' \in [DOMAIN suite -> SUBSET Runner!Result]
    BY <1>1, <1>10, <2>1 DEF Runner!StepFailed, Runner!TypeOK
  <2>3. status' \in [DOMAIN suite -> {"pending", "running", "passed", "failed"}]
    BY <1>1, <1>10 DEF Runner!StepFailed, Runner!TypeOK
  <2> QED
    BY <1>1, <1>10, <2>2, <2>3 DEF Runner!StepFailed, Runner!TypeOK, Runner!Steps
<1>11. CASE Runner!CasePassed(c)
  <2>1. vars[c]["authToken"] \in Runner!Values /\ vars[c] \in [Names -> Runner!Values]
    BY <1>1 DEF Runner!TypeOK, Runner!ConstantsAssumption
  <2> QED
    BY <1>1, <1>2, <1>11, <2>1 DEF Runner!CasePassed, Runner!TypeOK, Runner!Steps
<1> QED
  BY <1>3, <1>4, <1>5, <1>6, <1>7, <1>8, <1>9, <1>10, <1>11 DEF Runner!Case, RequestsOf

(* The cases that do not move.                                             *)

(* A step of one case leaves every other as it is.                         *)
LEMMA Others ==
  ASSUME Runner!ConstantsAssumption, Runner!TypeOK,
         NEW c \in DOMAIN suite, Runner!Case(c), NEW d \in DOMAIN suite, d # c
  PROVE  Same(d) /\ UNCHANGED <<suite, mode, exit>>
<1> USE DEF Runner!run, Runner!place, Runner!data, Runner!log
<1>1. /\ status \in [DOMAIN suite -> {"pending", "running", "passed", "failed"}]
      /\ step \in [DOMAIN suite -> Nat]
      /\ stage \in [DOMAIN suite -> {"begin", "check", "running", "final"}]
      /\ attempt \in [DOMAIN suite -> 0 .. MaxAttempts + 1]
      /\ expired \in [DOMAIN suite -> BOOLEAN]
      /\ vars \in [DOMAIN suite -> [Names -> Runner!Values]]
      /\ rows \in [DOMAIN suite -> SUBSET Runner!Result]
      /\ answered \in [DOMAIN suite -> SUBSET Runner!Result]
      /\ DOMAIN task = DOMAIN suite
  BY DEF Runner!TypeOK
<1>2. CASE Runner!Start(c)
  BY <1>1, <1>2 DEF Runner!Start, Same
<1>3. CASE Runner!Begin(c)
  BY <1>1, <1>3 DEF Runner!Begin, Runner!Launch, Same
<1>4. CASE Runner!Expire(c)
  BY <1>1, <1>4 DEF Runner!Expire, Same
<1>5. CASE Runner!Retry(c)
  BY <1>1, <1>5 DEF Runner!Retry, Runner!Launch, Same
<1>6. ASSUME NEW s \in DOMAIN Runner!Steps(c), NEW i \in RequestsOf(c, s), Runner!Request(c, s, i)
      PROVE  Same(d) /\ UNCHANGED <<suite, mode, exit>>
  <2>1. \E from, to : Runner!Phase(c, s, i, from, to)
    BY <1>6 DEF Runner!Request, Runner!Dispatch, Runner!Unresolved, Runner!LoggedIn, Runner!LoginFailed, Runner!Accepted, Runner!Rejected
  <2>2. task'[d] = task[d]
    BY <1>1, <2>1 DEF Runner!Phase
  <2>3. UNCHANGED <<suite, mode, exit, status, step, stage, attempt, expired, rows>>
    BY <1>6 DEF Runner!Request, Runner!Dispatch, Runner!Unresolved, Runner!LoggedIn, Runner!LoginFailed, Runner!Accepted, Runner!Rejected
  <2>4. vars'[d] = vars[d]
    BY <1>1, <1>6 DEF Runner!Request, Runner!Dispatch, Runner!Unresolved, Runner!LoggedIn, Runner!LoginFailed, Runner!Accepted, Runner!Rejected
  <2>5. answered'[d] = answered[d]
    BY <1>1, <1>6 DEF Runner!Request, Runner!Dispatch, Runner!Unresolved, Runner!LoggedIn, Runner!LoginFailed, Runner!Accepted, Runner!Rejected, Runner!Record
  <2> QED
    BY <2>2, <2>3, <2>4, <2>5 DEF Same
<1>7. CASE Runner!StepPassed(c)
  BY <1>1, <1>7 DEF Runner!StepPassed, Runner!NextStep, Same
<1>8. CASE Runner!AttemptFailed(c)
  BY <1>1, <1>8 DEF Runner!AttemptFailed, Same
<1>9. CASE Runner!StepFailed(c)
  BY <1>1, <1>9 DEF Runner!StepFailed, Same
<1>10. CASE Runner!CasePassed(c)
  BY <1>1, <1>10 DEF Runner!CasePassed, Same
<1> QED
  BY <1>2, <1>3, <1>4, <1>5, <1>6, <1>7, <1>8, <1>9, <1>10 DEF Runner!Case, RequestsOf

(* So what is said of the others still holds.                              *)
LEMMA OthersKept ==
  ASSUME Runner!ConstantsAssumption, RunnerInv,
         NEW c \in DOMAIN suite, Runner!Case(c), NEW d \in DOMAIN suite, d # c
  PROVE  CaseInv(d)'
<1>1. Same(d) /\ suite' = suite /\ CaseInv(d)
  BY Others DEF RunnerInv
<1>2. PlaceInv(d)'
  BY <1>1 DEF Same, CaseInv, PlaceInv, Runner!Current, Runner!Steps, Runner!Malformed, Runner!Wide
<1>3. TaskInv(d)'
  BY <1>1 DEF Same, CaseInv, TaskInv, Runner!Steps, RequestsOf
<1>4. AnswerInv(d)'
  BY <1>1 DEF Same, CaseInv, AnswerInv, Runner!Steps, RequestsOf, Runner!Malformed, Runner!Wide
<1>5. PassedInv(d)'
  BY <1>1 DEF Same, CaseInv, PassedInv, Runner!Steps, RequestsOf
<1>6. RetryInv(d)' /\ RowsInv(d)'
  BY <1>1 DEF Same, CaseInv, RetryInv, RowsInv, Runner!Steps
<1>7. SaveInv(d)'
  BY <1>1 DEF Same, CaseInv, SaveInv, Runner!Steps, RequestsOf, Saves
<1> QED
  BY <1>2, <1>3, <1>4, <1>5, <1>6, <1>7 DEF CaseInv
(* The case that moves.                                                    *)

(* A request is under way only in the current step, while the case runs.   *)
LEMMA Underway ==
  ASSUME Runner!ConstantsAssumption, RunnerInv, NEW c \in DOMAIN suite,
         NEW s \in DOMAIN Runner!Steps(c), NEW i \in RequestsOf(c, s), task[c][s][i] \in Runner!InFlight
  PROVE  /\ status[c] = "running" /\ step[c] = s /\ stage[c] \in {"running", "final"}
         /\ 1 <= attempt[c]
<1>1. Runner!TypeOK /\ TaskInv(c) /\ PlaceInv(c)
  BY DEF RunnerInv, CaseInv
<1>2. step[c] \in Nat /\ s \in Nat
  BY <1>1, Shape DEF Runner!TypeOK
<1>3. "passed" \notin Runner!InFlight /\ "new" \notin Runner!InFlight
  BY DEF Runner!InFlight
<1>4. status[c] = "running" /\ stage[c] \in {"running", "final"}
  BY <1>1 DEF TaskInv
<1>5. ~(s < step[c]) /\ ~(s > step[c])
  BY <1>1, <1>3 DEF TaskInv
<1> QED
  BY <1>1, <1>2, <1>4, <1>5 DEF PlaceInv

Answer(c, s, i, passed) == [step |-> s, request |-> i, attempt |-> attempt[c], passed |-> passed]

(* What a request does: it goes on without an answer and without a trace   *)
(* in the variables, or it is answered.                                    *)
GoesOn(c, s, i) ==
  /\ task'[c][s][i] \in {"login", "sent", "failed"}
  /\ vars'[c] = vars[c] /\ answered'[c] = answered[c]

Answers(c, s, i, passed) ==
  /\ task'[c][s][i] = IF passed THEN "passed" ELSE "failed"
  /\ answered'[c] = answered[c] \cup {Answer(c, s, i, passed)}
  /\ \/ ~passed /\ vars'[c] = vars[c]
     \/ \E names : /\ \A n \in names : Saves(c, s, n)
                   /\ passed => \A n : Saves(c, s, n) => n \in names
                   /\ vars'[c] = Runner!Saved(c, s, names)

(* One of the two happens, in the current step of a running case.          *)
LEMMA Requested ==
  ASSUME Runner!ConstantsAssumption, RunnerInv, NEW c \in DOMAIN suite,
         NEW s \in DOMAIN Runner!Steps(c), NEW i \in RequestsOf(c, s), Runner!Request(c, s, i)
  PROVE  /\ status[c] = "running" /\ step[c] = s /\ stage[c] \in {"running", "final"}
         /\ 1 <= attempt[c]
         /\ UNCHANGED <<suite, mode, status, step, stage, attempt, expired, shared, rows, exit>>
         /\ task[c][s][i] \in Runner!InFlight
         /\ \A t \in DOMAIN Runner!Steps(c) \ {s} : task'[c][t] = task[c][t]
         /\ \A j \in RequestsOf(c, s) \ {i} : task'[c][s][j] = task[c][s][j]
         /\ GoesOn(c, s, i) \/ \E passed \in BOOLEAN : Answers(c, s, i, passed)
<1> USE DEF Runner!run, Runner!place, Runner!data, Runner!log
<1>1. Runner!TypeOK /\ DOMAIN vars = DOMAIN suite /\ DOMAIN answered = DOMAIN suite
  BY DEF RunnerInv, Runner!TypeOK
<1>2. PICK from \in Runner!InFlight, to \in {"login", "sent", "passed", "failed"} : Runner!Phase(c, s, i, from, to)
  BY DEF Runner!Request, Runner!Dispatch, Runner!Unresolved, Runner!LoggedIn, Runner!LoginFailed, Runner!Accepted, Runner!Rejected, Runner!InFlight
<1>3. /\ task[c][s][i] \in Runner!InFlight
      /\ \A t \in DOMAIN Runner!Steps(c) \ {s} : task'[c][t] = task[c][t]
      /\ \A j \in RequestsOf(c, s) \ {i} : task'[c][s][j] = task[c][s][j]
  BY <1>1, <1>2, Phased DEF Runner!TaskPhases, Runner!InFlight
<1>4. UNCHANGED <<suite, mode, status, step, stage, attempt, expired, shared, rows, exit>>
  BY DEF Runner!Request, Runner!Dispatch, Runner!Unresolved, Runner!LoggedIn, Runner!LoginFailed, Runner!Accepted, Runner!Rejected
<1>5. ASSUME NEW from2, NEW to2 \in Runner!TaskPhases, Runner!Phase(c, s, i, from2, to2)
      PROVE  task'[c][s][i] = to2
  BY <1>1, <1>5, Phased
<1>6. ASSUME Runner!Dispatch(c, s, i)
      PROVE  GoesOn(c, s, i) \/ \E passed \in BOOLEAN : Answers(c, s, i, passed)
  <2>1. PICK way \in {"login", "sent"} : Runner!Phase(c, s, i, "ready", way)
    BY <1>6 DEF Runner!Dispatch
  <2>2. task'[c][s][i] = way
    BY <1>5, <2>1 DEF Runner!TaskPhases, Runner!InFlight
  <2>3. vars' = vars /\ answered' = answered
    BY <1>6 DEF Runner!Dispatch
  <2> QED
    BY <2>2, <2>3 DEF GoesOn
<1>7. ASSUME Runner!Unresolved(c, s, i)
      PROVE  GoesOn(c, s, i) \/ \E passed \in BOOLEAN : Answers(c, s, i, passed)
  <2>1. task'[c][s][i] = "failed"
    BY <1>5, <1>7 DEF Runner!Unresolved, Runner!TaskPhases
  <2>2. vars' = vars /\ answered' = answered
    BY <1>7 DEF Runner!Unresolved
  <2> QED
    BY <2>1, <2>2 DEF GoesOn
<1>8. ASSUME Runner!LoggedIn(c, s, i)
      PROVE  GoesOn(c, s, i) \/ \E passed \in BOOLEAN : Answers(c, s, i, passed)
  <2>1. task'[c][s][i] = "sent"
    BY <1>5, <1>8 DEF Runner!LoggedIn, Runner!TaskPhases, Runner!InFlight
  <2>2. vars' = vars /\ answered' = answered
    BY <1>8 DEF Runner!LoggedIn
  <2> QED
    BY <2>1, <2>2 DEF GoesOn
<1>9. ASSUME Runner!LoginFailed(c, s, i)
      PROVE  GoesOn(c, s, i) \/ \E passed \in BOOLEAN : Answers(c, s, i, passed)
  <2>1. task'[c][s][i] = "failed"
    BY <1>5, <1>9 DEF Runner!LoginFailed, Runner!TaskPhases
  <2>2. vars'[c] = vars[c] /\ answered'[c] = answered[c] \cup {Answer(c, s, i, FALSE)}
    BY <1>1, <1>9 DEF Runner!LoginFailed, Runner!Record, Answer
  <2>3. Answers(c, s, i, FALSE)
    BY <2>1, <2>2 DEF Answers
  <2> QED
    BY <2>3
<1>10. ASSUME Runner!Accepted(c, s, i)
      PROVE  GoesOn(c, s, i) \/ \E passed \in BOOLEAN : Answers(c, s, i, passed)
  <2>1. task'[c][s][i] = "passed"
    BY <1>5, <1>10 DEF Runner!Accepted, Runner!TaskPhases
  <2>2. answered'[c] = answered[c] \cup {Answer(c, s, i, TRUE)}
    BY <1>1, <1>10 DEF Runner!Accepted, Runner!Record, Answer
  <2>3. vars'[c] = Runner!Saved(c, s, Runner!ToSet(Runner!Steps(c)[s].save))
    BY <1>1, <1>10 DEF Runner!Accepted
  <2>4. Answers(c, s, i, TRUE)
    BY <2>1, <2>2, <2>3 DEF Answers, Saves
  <2> QED
    BY <2>4
<1>11. ASSUME Runner!Rejected(c, s, i)
      PROVE  GoesOn(c, s, i) \/ \E passed \in BOOLEAN : Answers(c, s, i, passed)
  <2>1. task'[c][s][i] = "failed"
    BY <1>5, <1>11 DEF Runner!Rejected, Runner!TaskPhases
  <2>2. answered'[c] = answered[c] \cup {Answer(c, s, i, FALSE)}
    BY <1>1, <1>11 DEF Runner!Rejected, Runner!Record, Answer
  <2>3. PICK names \in Runner!PartlySaved(Runner!Steps(c)[s]) : vars'[c] = Runner!Saved(c, s, names)
    BY <1>1, <1>11 DEF Runner!Rejected
  <2>4. \A n \in names : Saves(c, s, n)
    <3>1. Runner!Steps(c)[s].save \in Seq(Names)
      BY <1>1, Shape DEF Runner!Step
    <3>2. ASSUME NEW k \in 1 .. Len(Runner!Steps(c)[s].save), NEW n \in Runner!ToSet(SubSeq(Runner!Steps(c)[s].save, 1, k - 1))
          PROVE  n \in Runner!ToSet(Runner!Steps(c)[s].save)
      BY <3>1, <3>2 DEF Runner!ToSet
    <3> QED
      BY <2>3, <3>2 DEF Runner!PartlySaved, Saves
  <2>5. Answers(c, s, i, FALSE)
    BY <2>1, <2>2, <2>3, <2>4 DEF Answers
  <2> QED
    BY <2>5
<1>12. GoesOn(c, s, i) \/ \E passed \in BOOLEAN : Answers(c, s, i, passed)
  BY <1>6, <1>7, <1>8, <1>9, <1>10, <1>11 DEF Runner!Request
<1>13. /\ status[c] = "running" /\ step[c] = s /\ stage[c] \in {"running", "final"}
       /\ 1 <= attempt[c]
  BY <1>3, Underway
<1> QED
  BY <1>3, <1>4, <1>12, <1>13

(* A request that goes on or is answered.                                  *)
LEMMA RequestKeeps ==
  ASSUME Runner!ConstantsAssumption, RunnerInv, NEW c \in DOMAIN suite,
         NEW s \in DOMAIN Runner!Steps(c), NEW i \in RequestsOf(c, s), Runner!Request(c, s, i)
  PROVE  CaseInv(c)'
<1>1. /\ status[c] = "running" /\ step[c] = s /\ stage[c] \in {"running", "final"}
      /\ 1 <= attempt[c]
      /\ UNCHANGED <<suite, mode, status, step, stage, attempt, expired, shared, rows, exit>>
      /\ task[c][s][i] \in Runner!InFlight
      /\ \A t \in DOMAIN Runner!Steps(c) \ {s} : task'[c][t] = task[c][t]
      /\ \A j \in RequestsOf(c, s) \ {i} : task'[c][s][j] = task[c][s][j]
      /\ GoesOn(c, s, i) \/ \E passed \in BOOLEAN : Answers(c, s, i, passed)
  BY Requested
<1>2. /\ Runner!TypeOK /\ CaseInv(c)
      /\ step[c] \in Nat /\ attempt[c] \in Nat
      /\ \A r \in answered[c] : r.attempt \in Nat /\ r.step \in Nat /\ r.passed \in BOOLEAN
      /\ \A t \in DOMAIN Runner!Steps(c) : t \in Nat
  BY Known
<1>3. /\ Runner!Steps(c)' = Runner!Steps(c) /\ Runner!Current(c)' = Runner!Current(c)
      /\ \A t : RequestsOf(c, t)' = RequestsOf(c, t)
      /\ \A t, n : Saves(c, t, n)' = Saves(c, t, n)
  BY <1>1 DEF Runner!Steps, Runner!Current, RequestsOf, Saves
<1>4. "passed" \notin Runner!InFlight /\ "failed" \notin Runner!InFlight
  BY DEF Runner!InFlight
<1>5. ~Runner!Malformed(Runner!Steps(c)[s])
  BY <1>1, <1>2 DEF CaseInv, PlaceInv, Runner!Current
<1>6. PlaceInv(c)'
  BY <1>1, <1>2, <1>3 DEF CaseInv, PlaceInv, Runner!Malformed, Runner!Wide
<1>7. TaskInv(c)'
  <2>1. TaskInv(c)
    BY <1>2 DEF CaseInv
  <2> SUFFICES ASSUME NEW t \in DOMAIN Runner!Steps(c), NEW j \in RequestsOf(c, t)
      PROVE  /\ t < step[c] => task'[c][t][j] = "passed"
             /\ t > step[c] \/ (t = step[c] /\ stage[c] = "begin") => task'[c][t][j] = "new"
             /\ stage[c] \notin {"running", "final"} \/ status[c] # "running" => task'[c][t][j] \notin Runner!InFlight
    BY <1>1, <1>3 DEF TaskInv, Runner!InFlight
  <2>2. CASE t # s
    BY <1>1, <2>1, <2>2 DEF TaskInv
  <2>3. CASE t = s
    BY <1>1, <1>2, <2>3
  <2> QED
    BY <2>2, <2>3
<1>8. AnswerInv(c) /\ PassedInv(c) /\ RetryInv(c) /\ SaveInv(c)
  BY <1>2 DEF CaseInv
<1>9. \A r \in answered[c] : r.step = s /\ r.attempt = attempt[c] => r.request # i
  BY <1>1, <1>4, <1>8 DEF AnswerInv
<1>10. \A r \in answered[c] : task'[c][r.step][r.request] = task[c][r.step][r.request]
                              \/ (r.step = s /\ r.attempt # attempt[c])
  BY <1>1, <1>8, <1>9 DEF AnswerInv
<1>11. CASE GoesOn(c, s, i)
  <2>1. vars'[c] = vars[c] /\ answered'[c] = answered[c] /\ task'[c][s][i] # "passed"
    BY <1>11 DEF GoesOn
  <2>2. AnswerInv(c)'
    <3> SUFFICES ASSUME NEW r \in answered[c]
        PROVE  /\ r.step \in DOMAIN Runner!Steps(c) /\ r.step <= step[c] /\ 1 <= r.attempt
               /\ r.request \in RequestsOf(c, r.step)
               /\ ~Runner!Malformed(Runner!Steps(c)[r.step])
               /\ r.step = step[c] => r.attempt <= attempt[c]
               /\ r.step = step[c] /\ r.attempt = attempt[c] =>
                    task'[c][r.step][r.request] = IF r.passed THEN "passed" ELSE "failed"
      BY <1>1, <1>3, <2>1 DEF AnswerInv, Runner!Malformed, Runner!Wide
    <3> QED
      BY <1>1, <1>8, <1>10 DEF AnswerInv
  <2>3. ASSUME NEW t \in DOMAIN Runner!Steps(c), NEW j \in RequestsOf(c, t), task'[c][t][j] = "passed"
        PROVE  task[c][t][j] = "passed"
    BY <1>1, <2>1, <2>3
  <2>4. PassedInv(c)'
    BY <1>1, <1>3, <1>8, <2>1, <2>3 DEF PassedInv
  <2>5. RetryInv(c)' /\ RowsInv(c)'
    BY <1>1, <1>2, <1>3, <1>8, <2>1 DEF RetryInv, RowsInv, CaseInv
  <2>6. SaveInv(c)'
    <3> SUFFICES ASSUME NEW n \in Names, NEW t \in DOMAIN Runner!Steps(c), Saves(c, t, n)
        PROVE  /\ t = step[c] /\ stage[c] # "begin" /\ (\A j \in RequestsOf(c, t) : task'[c][t][j] = "passed") =>
                    vars[c][n] = <<c, t, attempt[c]>>
               /\ t < step[c] /\ (\A u \in DOMAIN Runner!Steps(c) : t < u /\ u <= step[c] => ~Saves(c, u, n)) =>
                    \E r \in answered[c] : r.step = t /\ r.passed /\ vars[c][n] = <<c, t, r.attempt>>
      BY <1>1, <1>3, <2>1 DEF SaveInv
    <3> QED
      BY <1>1, <1>8, <2>1 DEF SaveInv
  <2> QED
    BY <1>6, <1>7, <2>2, <2>4, <2>5, <2>6 DEF CaseInv
<1>12. ASSUME NEW passed \in BOOLEAN, Answers(c, s, i, passed)
       PROVE  CaseInv(c)'
  <2> DEFINE new == Answer(c, s, i, passed)
  <2>1. /\ answered'[c] = answered[c] \cup {new}
        /\ new.step = s /\ new.request = i /\ new.attempt = attempt[c] /\ new.passed = passed
        /\ task'[c][s][i] = IF passed THEN "passed" ELSE "failed"
    BY <1>12 DEF Answers, Answer
  <2> HIDE DEF new
  <2>2. AnswerInv(c)'
    <3> SUFFICES ASSUME NEW r \in answered[c] \cup {new}
        PROVE  /\ r.step \in DOMAIN Runner!Steps(c) /\ r.step <= step[c] /\ 1 <= r.attempt
               /\ r.request \in RequestsOf(c, r.step)
               /\ ~Runner!Malformed(Runner!Steps(c)[r.step])
               /\ r.step = step[c] => r.attempt <= attempt[c]
               /\ r.step = step[c] /\ r.attempt = attempt[c] =>
                    task'[c][r.step][r.request] = IF r.passed THEN "passed" ELSE "failed"
      BY <1>1, <1>3, <2>1 DEF AnswerInv, Runner!Malformed, Runner!Wide
    <3>1. CASE r \in answered[c]
      BY <1>1, <1>8, <1>10, <3>1 DEF AnswerInv
    <3>2. CASE r = new
      BY <1>1, <1>2, <1>5, <2>1, <3>2
    <3> QED
      BY <3>1, <3>2
  <2>3. \A q \in answered'[c] : q.step = s => q.attempt <= attempt[c]
    BY <1>1, <1>2, <1>8, <2>1 DEF AnswerInv
  <2>4. PassedInv(c)'
    <3> SUFFICES ASSUME NEW t \in DOMAIN Runner!Steps(c), NEW j \in RequestsOf(c, t), task'[c][t][j] = "passed"
        PROVE  \E r \in answered'[c] :
                 /\ r.step = t /\ r.request = j /\ r.passed
                 /\ t = step[c] => r.attempt = attempt[c]
                 /\ \A q \in answered'[c] : q.step = t => q.attempt <= r.attempt
      BY <1>1, <1>3 DEF PassedInv
    <3>1. CASE t = s /\ j = i
      <4>1. new.passed
        BY <2>1, <3>1
      <4> QED
        BY <1>1, <2>1, <2>3, <3>1, <4>1
    <3>2. CASE t = s /\ j # i
      <4>1. task[c][t][j] = "passed"
        BY <1>1, <3>2
      <4>2. PICK r \in answered[c] : r.step = t /\ r.request = j /\ r.passed /\ r.attempt = attempt[c]
        BY <1>1, <1>8, <3>2, <4>1 DEF PassedInv
      <4> QED
        BY <2>1, <2>3, <3>2, <4>2
    <3>3. CASE t # s
      <4>1. task[c][t][j] = "passed"
        BY <1>1, <3>3
      <4>2. PICK r \in answered[c] : /\ r.step = t /\ r.request = j /\ r.passed
                                     /\ \A q \in answered[c] : q.step = t => q.attempt <= r.attempt
        BY <1>8, <4>1 DEF PassedInv
      <4> QED
        BY <1>1, <2>1, <3>3, <4>2
    <3> QED
      BY <3>1, <3>2, <3>3
  <2>5. RetryInv(c)'
    <3> SUFFICES ASSUME NEW r \in answered'[c], Runner!Steps(c)[r.step].retry, r.passed
        PROVE  /\ r.step = step[c] => r.attempt = attempt[c] /\ stage[c] # "check"
               /\ \A q \in answered'[c] : q.step = r.step => q.attempt <= r.attempt
      BY <1>1, <1>3 DEF RetryInv
    <3>1. CASE r.step = s
      <4>1. r.attempt = attempt[c]
        BY <1>1, <1>8, <2>1, <3>1 DEF RetryInv
      <4> QED
        BY <1>1, <2>3, <3>1, <4>1
    <3>2. CASE r.step # s
      BY <1>1, <1>8, <2>1, <3>2 DEF RetryInv
    <3> QED
      BY <3>1, <3>2
  <2>6. RowsInv(c)'
    BY <1>1, <1>2 DEF CaseInv, RowsInv
  <2>7. SaveInv(c)'
    <3> SUFFICES ASSUME NEW n \in Names, NEW t \in DOMAIN Runner!Steps(c), Saves(c, t, n)
        PROVE  /\ t = step[c] /\ stage[c] # "begin" /\ (\A j \in RequestsOf(c, t) : task'[c][t][j] = "passed") =>
                    vars'[c][n] = <<c, t, attempt[c]>>
               /\ t < step[c] /\ (\A u \in DOMAIN Runner!Steps(c) : t < u /\ u <= step[c] => ~Saves(c, u, n)) =>
                    \E r \in answered'[c] : r.step = t /\ r.passed /\ vars'[c][n] = <<c, t, r.attempt>>
      BY <1>1, <1>3 DEF SaveInv
    <3>1. CASE t = s
      <4>1. RequestsOf(c, s) = {1}
        BY <1>2, <1>5, <3>1, SingleRequest
      <4>2. (\A j \in RequestsOf(c, t) : task'[c][t][j] = "passed") => passed
        BY <2>1, <3>1, <4>1
      <4>3. ASSUME passed PROVE vars'[c][n] = <<c, s, attempt[c]>>
        BY <1>12, <3>1, <4>3 DEF Answers, Runner!Saved
      <4> QED
        BY <1>1, <1>2, <3>1, <4>2, <4>3
    <3>2. CASE t # s /\ t < step[c] /\ (\A u \in DOMAIN Runner!Steps(c) : t < u /\ u <= step[c] => ~Saves(c, u, n))
      <4>1. ~Saves(c, s, n)
        BY <1>1, <1>2, <3>2
      <4>2. vars'[c][n] = vars[c][n]
        BY <1>12, <4>1 DEF Answers, Runner!Saved
      <4>3. \E r \in answered[c] : r.step = t /\ r.passed /\ vars[c][n] = <<c, t, r.attempt>>
        BY <1>8, <3>2 DEF SaveInv
      <4> QED
        BY <1>1, <2>1, <3>2, <4>2, <4>3
    <3> QED
      BY <1>1, <3>1, <3>2
  <2> QED
    BY <1>6, <1>7, <2>2, <2>4, <2>5, <2>6, <2>7 DEF CaseInv
<1> QED
  BY <1>1, <1>11, <1>12

(* An attempt starts: what was sent before stays as it was, and the        *)
(* answers to it are of earlier attempts.                                  *)
LEMMA LaunchKeeps ==
  ASSUME Runner!ConstantsAssumption, RunnerInv, NEW c \in DOMAIN suite, NEW g \in {"running", "final"},
         Runner!Launch(c, g), step[c] <= Len(Runner!Steps(c)), status[c] = "running",
         stage[c] \in {"begin", "check"}, ~Runner!Malformed(Runner!Current(c)),
         stage[c] = "begin" => ~Runner!Current(c).retry,
         g = "running" => (Runner!Current(c).retry => attempt[c] < MaxAttempts),
         g = "final" => expired[c],
         UNCHANGED <<suite, mode, status, step, expired, token, vars, shared, logins, rows, answered, exit>>
  PROVE  CaseInv(c)'
<1>1. /\ step[c] \in DOMAIN Runner!Steps(c)
      /\ stage'[c] = g /\ attempt'[c] = attempt[c] + 1
      /\ \A t \in DOMAIN Runner!Steps(c) \ {step[c]} : task'[c][t] = task[c][t]
      /\ \A j \in RequestsOf(c, step[c]) : task'[c][step[c]][j] = "ready"
  BY Launched, Known
<1>2. /\ Runner!TypeOK /\ CaseInv(c)
      /\ step[c] \in Nat /\ attempt[c] \in Nat /\ MaxAttempts \in Nat
      /\ \A r \in answered[c] : r.attempt \in Nat /\ r.step \in Nat /\ r.passed \in BOOLEAN
      /\ \A t \in DOMAIN Runner!Steps(c) : t \in Nat
  BY Known
<1>3. /\ Runner!Steps(c)' = Runner!Steps(c) /\ Runner!Current(c)' = Runner!Current(c)
      /\ \A t : RequestsOf(c, t)' = RequestsOf(c, t)
      /\ \A t, n : Saves(c, t, n)' = Saves(c, t, n)
  BY DEF Runner!Steps, Runner!Current, RequestsOf, Saves
<1>4. TaskInv(c) /\ AnswerInv(c) /\ PassedInv(c) /\ RetryInv(c) /\ SaveInv(c) /\ RowsInv(c)
  BY <1>2 DEF CaseInv
<1>5. PlaceInv(c)'
  BY <1>1, <1>2, <1>3 DEF CaseInv, PlaceInv, Runner!Malformed, Runner!Wide
<1>6. TaskInv(c)'
  <2> SUFFICES ASSUME NEW t \in DOMAIN Runner!Steps(c), NEW j \in RequestsOf(c, t)
      PROVE  /\ t < step[c] => task'[c][t][j] = "passed"
             /\ t > step[c] => task'[c][t][j] = "new"
    BY <1>1, <1>3 DEF TaskInv
  <2>1. t # step[c] => task'[c][t] = task[c][t]
    BY <1>1
  <2> QED
    BY <1>2, <1>4, <2>1 DEF TaskInv
<1>7. \A r \in answered[c] : r.step = step[c] => r.attempt <= attempt[c]
  BY <1>4 DEF AnswerInv
<1>8. AnswerInv(c)'
  <2> SUFFICES ASSUME NEW r \in answered[c]
      PROVE  /\ r.step \in DOMAIN Runner!Steps(c) /\ r.step <= step[c] /\ 1 <= r.attempt
             /\ r.request \in RequestsOf(c, r.step)
             /\ ~Runner!Malformed(Runner!Steps(c)[r.step])
             /\ r.step = step[c] => r.attempt < attempt'[c]
    BY <1>1, <1>2, <1>3 DEF AnswerInv, Runner!Malformed, Runner!Wide
  <2> QED
    BY <1>1, <1>2, <1>4, <1>7 DEF AnswerInv
<1>9. PassedInv(c)'
  <2> SUFFICES ASSUME NEW t \in DOMAIN Runner!Steps(c), NEW j \in RequestsOf(c, t), task'[c][t][j] = "passed"
      PROVE  /\ t # step[c]
             /\ \E r \in answered[c] :
                  /\ r.step = t /\ r.request = j /\ r.passed
                  /\ \A q \in answered[c] : q.step = t => q.attempt <= r.attempt
    BY <1>1, <1>3 DEF PassedInv
  <2>1. t # step[c] /\ task[c][t][j] = "passed"
    BY <1>1
  <2> QED
    BY <1>4, <2>1 DEF PassedInv
<1>10. RetryInv(c)'
  <2> SUFFICES ASSUME NEW r \in answered[c], Runner!Steps(c)[r.step].retry, r.passed
      PROVE  /\ r.step # step[c]
             /\ \A q \in answered[c] : q.step = r.step => q.attempt <= r.attempt
    BY <1>1, <1>3 DEF RetryInv
  <2>1. CASE r.step = step[c]
    <3>1. stage[c] # "check" /\ ~(stage[c] = "begin")
      BY <1>4, <2>1 DEF RetryInv, Runner!Current
    <3> QED
      BY <3>1
  <2>2. CASE r.step # step[c]
    BY <1>4, <2>2 DEF RetryInv
  <2> QED
    BY <2>1, <2>2
<1>11. RowsInv(c)'
  BY <1>4 DEF RowsInv
<1>12. SaveInv(c)'
  <2> SUFFICES ASSUME NEW n \in Names, NEW t \in DOMAIN Runner!Steps(c), Saves(c, t, n)
      PROVE  /\ t = step[c] => ~ \A j \in RequestsOf(c, t) : task'[c][t][j] = "passed"
             /\ t < step[c] /\ (\A u \in DOMAIN Runner!Steps(c) : t < u /\ u <= step[c] => ~Saves(c, u, n)) =>
                  \E r \in answered[c] : r.step = t /\ r.passed /\ vars[c][n] = <<c, t, r.attempt>>
    BY <1>1, <1>3 DEF SaveInv
  <2>1. ASSUME t = step[c] PROVE ~ \A j \in RequestsOf(c, t) : task'[c][t][j] = "passed"
    <3>1. RequestsOf(c, t) = {1}
      BY <1>2, <2>1, SingleRequest DEF Runner!Current
    <3> QED
      BY <1>1, <2>1, <3>1
  <2> QED
    BY <1>4, <2>1 DEF SaveInv
<1> QED
  BY <1>5, <1>6, <1>8, <1>9, <1>10, <1>11, <1>12 DEF CaseInv

(* The place of a case changes while its requests and answers stay.        *)
LEMMA StandstillKeeps ==
  ASSUME Runner!ConstantsAssumption, RunnerInv, NEW c \in DOMAIN suite, PlaceInv(c)',
         UNCHANGED <<suite, step, attempt, task, vars, answered>>,
         stage'[c] \in {stage[c], "check"},
         status'[c] # "failed" => \A r \in rows'[c] : r.passed,
         \A s \in DOMAIN Runner!Steps(c) : \A i \in RequestsOf(c, s) :
           stage'[c] \notin {"running", "final"} \/ status'[c] # "running" => task[c][s][i] \notin Runner!InFlight,
         stage'[c] = "check" => stage[c] = "check" \/ \A r \in answered[c] : r.step = step[c] => ~r.passed,
         stage'[c] = "check" => stage[c] = "check" \/ \A i \in RequestsOf(c, step[c]) : task[c][step[c]][i] # "passed",
         stage'[c] = "check" => RequestsOf(c, step[c]) # {}
  PROVE  CaseInv(c)'
<1>1. TaskInv(c) /\ AnswerInv(c) /\ PassedInv(c) /\ RetryInv(c) /\ SaveInv(c)
  BY DEF RunnerInv, CaseInv
<1>2. /\ Runner!Steps(c)' = Runner!Steps(c)
      /\ \A t : RequestsOf(c, t)' = RequestsOf(c, t)
      /\ \A t, n : Saves(c, t, n)' = Saves(c, t, n)
  BY DEF Runner!Steps, RequestsOf, Saves
<1>3. TaskInv(c)'
  BY <1>1, <1>2 DEF TaskInv, Runner!InFlight
<1>4. AnswerInv(c)'
  BY <1>1, <1>2 DEF AnswerInv, Runner!Malformed, Runner!Wide
<1>5. PassedInv(c)'
  BY <1>1, <1>2 DEF PassedInv
<1>6. RetryInv(c)'
  BY <1>1, <1>2 DEF RetryInv
<1>7. RowsInv(c)'
  BY DEF RowsInv
<1>8. SaveInv(c)'
  BY <1>1, <1>2 DEF SaveInv
<1> QED
  BY <1>3, <1>4, <1>5, <1>6, <1>7, <1>8 DEF CaseInv

(* A step is done: everything said of it is now said of an earlier step.   *)
LEMMA StepPassedKeeps ==
  ASSUME Runner!ConstantsAssumption, RunnerInv, NEW c \in DOMAIN suite, Runner!StepPassed(c)
  PROVE  CaseInv(c)'
<1>1. /\ Runner!TypeOK /\ CaseInv(c)
      /\ step[c] \in Nat /\ attempt[c] \in Nat /\ Len(Runner!Steps(c)) \in Nat
      /\ DOMAIN Runner!Steps(c) = 1 .. Len(Runner!Steps(c))
      /\ step[c] \in 1 .. Len(Runner!Steps(c)) + 1
      /\ \A r \in answered[c] : r.attempt \in Nat /\ r.step \in Nat /\ r.passed \in BOOLEAN
      /\ \A t \in DOMAIN Runner!Steps(c) : t \in Nat
  BY Known
<1>2. /\ status[c] = "running" /\ step[c] <= Len(Runner!Steps(c)) /\ stage[c] \in {"running", "final"}
      /\ step[c] \in DOMAIN Runner!Steps(c)
  BY <1>1 DEF Runner!StepPassed, Runner!At
<1>3. /\ UNCHANGED <<suite, status, task, vars, answered>>
      /\ step'[c] = step[c] + 1 /\ stage'[c] = "begin" /\ attempt'[c] = 0 /\ expired'[c] = FALSE
      /\ rows'[c] = rows[c] \/ rows'[c] = rows[c] \cup Runner!Results(c)
  BY <1>1 DEF Runner!StepPassed, Runner!NextStep, Runner!TypeOK, Runner!run, Runner!data
<1>4. /\ Runner!Steps(c)' = Runner!Steps(c)
      /\ \A t : RequestsOf(c, t)' = RequestsOf(c, t)
      /\ \A t, n : Saves(c, t, n)' = Saves(c, t, n)
  BY <1>3 DEF Runner!Steps, RequestsOf, Saves
<1>5. TaskInv(c) /\ AnswerInv(c) /\ PassedInv(c) /\ RetryInv(c) /\ SaveInv(c) /\ RowsInv(c)
  BY <1>1 DEF CaseInv
<1>6. \A i \in RequestsOf(c, step[c]) : task[c][step[c]][i] = "passed"
  <2>1. DOMAIN task[c][step[c]] = RequestsOf(c, step[c])
    BY <1>1, <1>2 DEF Runner!TypeOK, RequestsOf
  <2> QED
    BY <2>1 DEF Runner!StepPassed, Runner!AllPassed
<1>7. PlaceInv(c)'
  BY <1>1, <1>2, <1>3, <1>4 DEF PlaceInv
<1>8. TaskInv(c)'
  <2> SUFFICES ASSUME NEW t \in DOMAIN Runner!Steps(c), NEW j \in RequestsOf(c, t)
      PROVE  /\ t < step[c] + 1 => task[c][t][j] = "passed"
             /\ t >= step[c] + 1 => task[c][t][j] = "new"
             /\ task[c][t][j] \notin Runner!InFlight
    BY <1>1, <1>3, <1>4 DEF TaskInv, Runner!InFlight
  <2>1. t < step[c] => task[c][t][j] = "passed"
    BY <1>5 DEF TaskInv
  <2>2. t > step[c] => task[c][t][j] = "new"
    BY <1>5 DEF TaskInv
  <2> QED
    BY <1>1, <1>6, <2>1, <2>2 DEF Runner!InFlight
<1>9. AnswerInv(c)'
  <2> SUFFICES ASSUME NEW r \in answered[c]
      PROVE  /\ r.step \in DOMAIN Runner!Steps(c) /\ r.step < step[c] + 1 /\ 1 <= r.attempt
             /\ r.request \in RequestsOf(c, r.step)
             /\ ~Runner!Malformed(Runner!Steps(c)[r.step])
    BY <1>1, <1>3, <1>4 DEF AnswerInv, Runner!Malformed, Runner!Wide
  <2> QED
    BY <1>1, <1>5 DEF AnswerInv
<1>10. PassedInv(c)'
  <2> SUFFICES ASSUME NEW t \in DOMAIN Runner!Steps(c), NEW j \in RequestsOf(c, t), task[c][t][j] = "passed"
      PROVE  /\ t # step[c] + 1
             /\ \E r \in answered[c] :
                  /\ r.step = t /\ r.request = j /\ r.passed
                  /\ \A q \in answered[c] : q.step = t => q.attempt <= r.attempt
    BY <1>3, <1>4 DEF PassedInv
  <2>1. t # step[c] + 1
    BY <1>1, <1>5 DEF TaskInv
  <2> QED
    BY <1>5, <2>1 DEF PassedInv
<1>11. RetryInv(c)'
  <2> SUFFICES ASSUME NEW r \in answered[c], Runner!Steps(c)[r.step].retry, r.passed
      PROVE  /\ r.step # step[c] + 1
             /\ \A q \in answered[c] : q.step = r.step => q.attempt <= r.attempt
    BY <1>3, <1>4 DEF RetryInv
  <2>1. r.step <= step[c]
    BY <1>5 DEF AnswerInv
  <2> QED
    BY <1>1, <1>5, <2>1 DEF RetryInv
<1>12. RowsInv(c)'
  <2>1. \A r \in Runner!Results(c) : r.passed
    <3> SUFFICES ASSUME NEW r \in answered[c], r.step = step[c], r.attempt = attempt[c]
        PROVE  r.passed
      BY DEF Runner!Results
    <3>1. r.request \in RequestsOf(c, step[c])
          /\ task[c][step[c]][r.request] = IF r.passed THEN "passed" ELSE "failed"
      BY <1>5 DEF AnswerInv
    <3> QED
      BY <1>1, <1>6, <3>1
  <2>2. \A r \in rows[c] : r.passed
    BY <1>2, <1>5 DEF RowsInv
  <2> QED
    BY <1>3, <2>1, <2>2 DEF RowsInv
<1>13. SaveInv(c)'
  <2> SUFFICES ASSUME NEW n \in Names, NEW t \in DOMAIN Runner!Steps(c), Saves(c, t, n), t < step[c] + 1,
                      \A u \in DOMAIN Runner!Steps(c) : t < u /\ u <= step[c] + 1 => ~Saves(c, u, n)
      PROVE  \E r \in answered[c] : r.step = t /\ r.passed /\ vars[c][n] = <<c, t, r.attempt>>
    BY <1>3, <1>4 DEF SaveInv
  <2>1. CASE t = step[c]
    <3>1. vars[c][n] = <<c, t, attempt[c]>>
      BY <1>2, <1>5, <1>6, <2>1 DEF SaveInv
    <3>2. RequestsOf(c, t) = {1}
      <4>1. ~Runner!Malformed(Runner!Steps(c)[t])
        BY <1>1, <1>2, <2>1 DEF CaseInv, PlaceInv, Runner!Current
      <4> QED
        BY <1>1, <4>1, SingleRequest
    <3>3. \E r \in answered[c] : r.step = t /\ r.passed /\ r.attempt = attempt[c]
      BY <1>5, <1>6, <2>1, <3>2 DEF PassedInv
    <3> QED
      BY <3>1, <3>3
  <2>2. CASE t < step[c]
    <3>1. \A u \in DOMAIN Runner!Steps(c) : t < u /\ u <= step[c] => ~Saves(c, u, n)
      BY <1>1
    <3> QED
      BY <1>5, <2>2, <3>1 DEF SaveInv
  <2> QED
    BY <1>1, <2>1, <2>2
<1> QED
  BY <1>7, <1>8, <1>9, <1>10, <1>11, <1>12, <1>13 DEF CaseInv

(* A case that starts, or fails at once, has done nothing yet.             *)
LEMMA StartKeeps ==
  ASSUME Runner!ConstantsAssumption, RunnerInv, NEW c \in DOMAIN suite, Runner!Start(c)
  PROVE  CaseInv(c)'
<1>1. /\ Runner!TypeOK /\ CaseInv(c)
      /\ step[c] \in Nat /\ Len(Runner!Steps(c)) \in Nat
      /\ \A t \in DOMAIN Runner!Steps(c) : t \in Nat
  BY Known
<1>2. /\ status[c] = "pending" /\ status'[c] \in {"failed", "running"}
      /\ UNCHANGED <<suite, step, stage, attempt, task, rows, answered>>
  BY <1>1 DEF Runner!Start, Runner!MayStart, Runner!TypeOK, Runner!run, Runner!log
<1>3. step[c] = 1 /\ stage[c] = "begin"
  BY <1>1, <1>2 DEF CaseInv, PlaceInv
<1>4. /\ Runner!Steps(c)' = Runner!Steps(c)
      /\ \A t : RequestsOf(c, t)' = RequestsOf(c, t)
      /\ \A t, n : Saves(c, t, n)' = Saves(c, t, n)
  BY <1>2 DEF Runner!Steps, RequestsOf, Saves
<1>5. TaskInv(c) /\ AnswerInv(c) /\ PassedInv(c) /\ RetryInv(c) /\ RowsInv(c)
  BY <1>1 DEF CaseInv
<1>6. PlaceInv(c)'
  BY <1>1, <1>2, <1>3, <1>4 DEF CaseInv, PlaceInv
<1>7. TaskInv(c)'
  BY <1>2, <1>3, <1>4, <1>5 DEF TaskInv, Runner!InFlight
<1>8. AnswerInv(c)'
  BY <1>2, <1>4, <1>5 DEF AnswerInv, Runner!Malformed, Runner!Wide
<1>9. PassedInv(c)' /\ RetryInv(c)'
  BY <1>2, <1>4, <1>5 DEF PassedInv, RetryInv
<1>10. RowsInv(c)'
  BY <1>2, <1>5 DEF RowsInv
<1>11. SaveInv(c)'
  <2>1. \A t \in DOMAIN Runner!Steps(c) : ~(t < 1)
    BY <1>1, Shape
  <2> QED
    BY <1>2, <1>3, <1>4, <2>1 DEF SaveInv
<1> QED
  BY <1>6, <1>7, <1>8, <1>9, <1>10, <1>11 DEF CaseInv

(* Every step of a case keeps what is said of it.                          *)
LEMMA CaseKept ==
  ASSUME Runner!ConstantsAssumption, RunnerInv, NEW c \in DOMAIN suite, Runner!Case(c)
  PROVE  CaseInv(c)'
<1> USE DEF Runner!run, Runner!place, Runner!data, Runner!log
<1>1. /\ Runner!TypeOK /\ CaseInv(c)
      /\ step[c] \in Nat /\ attempt[c] \in Nat /\ Len(Runner!Steps(c)) \in Nat /\ MaxAttempts \in Nat
      /\ DOMAIN Runner!Steps(c) = 1 .. Len(Runner!Steps(c))
      /\ step[c] \in 1 .. Len(Runner!Steps(c)) + 1
      /\ \A r \in answered[c] : r.attempt \in Nat /\ r.step \in Nat /\ r.passed \in BOOLEAN
  BY Known
<1>2. /\ PlaceInv(c) /\ TaskInv(c) /\ AnswerInv(c) /\ RowsInv(c)
      /\ \A s \in DOMAIN Runner!Steps(c) : DOMAIN task[c][s] = RequestsOf(c, s)
      /\ step[c] <= Len(Runner!Steps(c)) => step[c] \in DOMAIN Runner!Steps(c)
      /\ DOMAIN status = DOMAIN suite /\ DOMAIN stage = DOMAIN suite
      /\ DOMAIN rows = DOMAIN suite /\ DOMAIN expired = DOMAIN suite
  BY <1>1 DEF CaseInv, Runner!TypeOK, RequestsOf
<1>3. CASE Runner!Start(c)
  BY <1>3, StartKeeps
<1>4. CASE Runner!Begin(c)
  <2>1. Runner!At(c, "begin") /\ UNCHANGED <<suite, mode, step, expired, token, vars, shared, logins, rows, answered, exit>>
    BY <1>4 DEF Runner!Begin
  <2>2. UNCHANGED suite => /\ Runner!Steps(c)' = Runner!Steps(c)
                           /\ UNCHANGED step => Runner!Current(c)' = Runner!Current(c)
    BY DEF Runner!Steps, Runner!Current
  <2>3. CASE Runner!Malformed(Runner!Current(c))
    <3>1. status'[c] = "failed" /\ UNCHANGED <<stage, attempt, task>>
      BY <1>2, <1>4, <2>3 DEF Runner!Begin
    <3>2. PlaceInv(c)'
      BY <1>2, <2>1, <2>2, <3>1 DEF PlaceInv, Runner!At
    <3>3. \A s \in DOMAIN Runner!Steps(c) : \A i \in RequestsOf(c, s) : task[c][s][i] \notin Runner!InFlight
      BY <1>2, <2>1 DEF TaskInv, Runner!At
    <3> QED
      BY <2>1, <3>1, <3>2, <3>3, StandstillKeeps DEF Runner!At
  <2>4. CASE ~Runner!Malformed(Runner!Current(c)) /\ Runner!Current(c).retry
    <3>1. stage'[c] = "check" /\ UNCHANGED <<status, attempt, task>>
      BY <1>2, <1>4, <2>4 DEF Runner!Begin
    <3>2. step[c] \in DOMAIN Runner!Steps(c) /\ attempt[c] = 0 /\ status[c] = "running" /\ stage[c] = "begin"
      BY <1>2, <2>1 DEF Runner!At, PlaceInv
    <3>3. PlaceInv(c)'
      BY <1>1, <1>2, <2>1, <2>2, <2>4, <3>1, <3>2 DEF PlaceInv, Runner!Malformed, Runner!Wide, Runner!At
    <3>4. \A s \in DOMAIN Runner!Steps(c) : \A i \in RequestsOf(c, s) : task[c][s][i] \notin Runner!InFlight
      BY <1>2, <3>2 DEF TaskInv
    <3>5. \A i \in RequestsOf(c, step[c]) : task[c][step[c]][i] # "passed"
      BY <1>2, <3>2 DEF TaskInv
    <3>6. \A r \in answered[c] : r.step # step[c]
      BY <1>1, <1>2, <3>2 DEF AnswerInv
    <3>7. RequestsOf(c, step[c]) = {1}
      BY <1>1, <2>4, <3>2, SingleRequest DEF Runner!Current
    <3>8. \A r \in rows'[c] : r.passed
      BY <1>2, <2>1, <3>2 DEF RowsInv
    <3> QED
      BY <2>1, <3>1, <3>3, <3>4, <3>5, <3>6, <3>7, <3>8, StandstillKeeps
  <2>5. CASE ~Runner!Malformed(Runner!Current(c)) /\ ~Runner!Current(c).retry
    <3>1. Runner!Launch(c, "running") /\ UNCHANGED status
      BY <1>4, <2>5 DEF Runner!Begin
    <3> QED
      BY <2>1, <2>5, <3>1, LaunchKeeps DEF Runner!At
  <2> QED
    BY <2>3, <2>4, <2>5
<1>5. CASE Runner!Expire(c)
  <2>1. UNCHANGED <<suite, status, step, stage, attempt, task, vars, rows, answered>> /\ expired'[c] = TRUE
    BY <1>2, <1>5 DEF Runner!Expire
  <2>2. Runner!Steps(c)' = Runner!Steps(c) /\ Runner!Current(c)' = Runner!Current(c)
    BY <2>1 DEF Runner!Steps, Runner!Current
  <2>3. PlaceInv(c)'
    BY <1>2, <2>1, <2>2 DEF PlaceInv, Runner!Malformed, Runner!Wide
  <2>4. TaskInv(c)' /\ RowsInv(c)'
    BY <1>2, <2>1, <2>2 DEF TaskInv, RowsInv, RequestsOf
  <2>5. AnswerInv(c)' /\ PassedInv(c)' /\ RetryInv(c)'
    BY <1>1, <2>1, <2>2 DEF CaseInv, AnswerInv, PassedInv, RetryInv, RequestsOf, Runner!Malformed, Runner!Wide
  <2>6. SaveInv(c)'
    BY <1>1, <2>1, <2>2 DEF CaseInv, SaveInv, RequestsOf, Saves
  <2> QED
    BY <2>3, <2>4, <2>5, <2>6 DEF CaseInv
<1>6. CASE Runner!Retry(c)
  <2>1. Runner!At(c, "check") /\ UNCHANGED <<suite, mode, status, step, expired, token, vars, shared,
                                      logins, rows, answered, exit>>
    BY <1>6 DEF Runner!Retry
  <2>2. ~Runner!Malformed(Runner!Current(c))
    BY <1>2, <2>1 DEF PlaceInv, Runner!At
  <2>3. CASE expired[c]
    <3>1. Runner!Launch(c, "final")
      BY <1>6, <2>3 DEF Runner!Retry
    <3> QED
      BY <2>1, <2>2, <2>3, <3>1, LaunchKeeps DEF Runner!At
  <2>4. CASE ~expired[c]
    <3>1. attempt[c] < MaxAttempts /\ Runner!Launch(c, "running")
      BY <1>6, <2>4 DEF Runner!Retry
    <3> QED
      BY <2>1, <2>2, <3>1, LaunchKeeps DEF Runner!At
  <2> QED
    BY <2>3, <2>4
<1>7. ASSUME NEW s \in DOMAIN Runner!Steps(c), NEW i \in RequestsOf(c, s), Runner!Request(c, s, i)
      PROVE  CaseInv(c)'
  BY <1>7, RequestKeeps
<1>8. CASE Runner!StepPassed(c)
  BY <1>8, StepPassedKeeps
<1>9. ASSUME Runner!AllAnswered(c), step[c] \in DOMAIN Runner!Steps(c)
      PROVE  \A i \in RequestsOf(c, step[c]) : task[c][step[c]][i] \in {"passed", "failed"}
  BY <1>2, <1>9 DEF Runner!AllAnswered
<1>10. ASSUME Runner!AllAnswered(c), step[c] \in DOMAIN Runner!Steps(c), NEW s \in DOMAIN Runner!Steps(c), NEW i \in RequestsOf(c, s)
       PROVE  task[c][s][i] \notin Runner!InFlight
  <2>1. s \in Nat
    BY <1>1
  <2>2. CASE s = step[c]
    BY <1>9, <1>10, <2>2 DEF Runner!InFlight
  <2>3. CASE s # step[c]
    BY <1>1, <1>2, <2>1, <2>3 DEF TaskInv, Runner!InFlight
  <2> QED
    BY <2>2, <2>3
<1>11. CASE Runner!AttemptFailed(c)
  <2>1. /\ Runner!At(c, "running") /\ Runner!Current(c).retry /\ Runner!AllAnswered(c) /\ ~Runner!AllPassed(c)
        /\ stage'[c] = "check"
        /\ UNCHANGED <<suite, status, step, attempt, task, vars, rows, answered>>
    BY <1>2, <1>11 DEF Runner!AttemptFailed
  <2>2. /\ step[c] \in DOMAIN Runner!Steps(c) /\ status[c] = "running" /\ stage[c] = "running"
        /\ ~Runner!Malformed(Runner!Current(c)) /\ attempt[c] <= MaxAttempts
    BY <1>2, <2>1 DEF Runner!At, PlaceInv
  <2>3. Runner!Steps(c)' = Runner!Steps(c) /\ Runner!Current(c)' = Runner!Current(c)
    BY <2>1 DEF Runner!Steps, Runner!Current
  <2>4. PlaceInv(c)'
    BY <1>2, <2>1, <2>2, <2>3 DEF PlaceInv, Runner!Malformed, Runner!Wide
  <2>5. RequestsOf(c, step[c]) = {1}
    BY <1>1, <2>1, <2>2, SingleRequest DEF Runner!Current
  <2>6. \A i \in RequestsOf(c, step[c]) : task[c][step[c]][i] # "passed"
    BY <1>2, <2>1, <2>2, <2>5 DEF Runner!AllPassed
  <2>7. \A r \in answered[c] : r.step = step[c] /\ r.passed => r.attempt # attempt[c]
    BY <1>2, <2>6 DEF AnswerInv
  <2>8. \A r \in answered[c] : r.step = step[c] => ~r.passed
    <3> SUFFICES ASSUME NEW r \in answered[c], r.step = step[c], r.passed
        PROVE  FALSE
      OBVIOUS
    <3>1. RetryInv(c) /\ Runner!Steps(c)[r.step].retry
      BY <1>1, <2>1 DEF CaseInv, Runner!Current
    <3>2. r.attempt = attempt[c]
      BY <3>1 DEF RetryInv
    <3> QED
      BY <2>7, <3>2
  <2>9. \A s \in DOMAIN Runner!Steps(c) : \A i \in RequestsOf(c, s) : task[c][s][i] \notin Runner!InFlight
    BY <1>10, <2>1, <2>2
  <2>10. \A r \in rows'[c] : r.passed
    BY <1>2, <2>1, <2>2 DEF RowsInv
  <2> QED
    BY <2>1, <2>4, <2>5, <2>6, <2>8, <2>9, <2>10, StandstillKeeps
<1>12. CASE Runner!StepFailed(c)
  <2>1. /\ stage[c] \in {"running", "final"} /\ status[c] = "running" /\ step[c] <= Len(Runner!Steps(c))
        /\ Runner!Current(c).retry => stage[c] = "final"
        /\ Runner!AllAnswered(c)
        /\ status'[c] = "failed"
        /\ UNCHANGED <<suite, step, stage, attempt, expired, task, vars, answered>>
    BY <1>2, <1>12 DEF Runner!StepFailed, Runner!At
  <2>2. Runner!Steps(c)' = Runner!Steps(c) /\ Runner!Current(c)' = Runner!Current(c)
    BY <2>1 DEF Runner!Steps, Runner!Current
  <2>3. PlaceInv(c)'
    BY <1>2, <2>1, <2>2 DEF PlaceInv, Runner!Malformed, Runner!Wide
  <2>4. \A s \in DOMAIN Runner!Steps(c) : \A i \in RequestsOf(c, s) : task[c][s][i] \notin Runner!InFlight
    BY <1>2, <1>10, <2>1
  <2> QED
    BY <2>1, <2>3, <2>4, StandstillKeeps
<1>13. CASE Runner!CasePassed(c)
  <2>1. /\ status[c] = "running" /\ step[c] > Len(Runner!Steps(c)) /\ status'[c] = "passed"
        /\ UNCHANGED <<suite, step, stage, attempt, expired, task, vars, rows, answered>>
    BY <1>2, <1>13 DEF Runner!CasePassed
  <2>2. Runner!Steps(c)' = Runner!Steps(c) /\ Runner!Current(c)' = Runner!Current(c)
    BY <2>1 DEF Runner!Steps, Runner!Current
  <2>3. stage[c] = "begin" /\ step[c] = Len(Runner!Steps(c)) + 1
    BY <1>1, <1>2, <2>1 DEF PlaceInv
  <2>4. PlaceInv(c)'
    BY <1>2, <2>1, <2>2, <2>3 DEF PlaceInv
  <2>5. \A s \in DOMAIN Runner!Steps(c) : \A i \in RequestsOf(c, s) : task[c][s][i] \notin Runner!InFlight
    BY <1>2, <2>3 DEF TaskInv
  <2>6. \A r \in rows'[c] : r.passed
    BY <1>2, <2>1 DEF RowsInv
  <2> QED
    BY <2>1, <2>3, <2>4, <2>5, <2>6, StandstillKeeps
<1> QED
  BY <1>3, <1>4, <1>5, <1>6, <1>7, <1>8, <1>11, <1>12, <1>13 DEF Runner!Case, RequestsOf

(* The cases of a run together.                                            *)

(* Only a case that is pending or running moves, and it moves alone.       *)
LEMMA Moving ==
  ASSUME Runner!ConstantsAssumption, RunnerInv, NEW c \in DOMAIN suite, Runner!Case(c)
  PROVE  /\ UNCHANGED <<suite, mode, exit>>
         /\ status[c] = "running" \/ (status[c] = "pending" /\ Runner!Start(c))
         /\ \A d \in DOMAIN suite \ {c} : status'[d] = status[d] /\ task'[d] = task[d] /\ vars'[d] = vars[d]
<1>1. Runner!TypeOK
  BY DEF RunnerInv
<1>2. ASSUME NEW s \in DOMAIN Runner!Steps(c), NEW i \in RequestsOf(c, s), Runner!Request(c, s, i)
      PROVE  status[c] = "running" /\ UNCHANGED <<suite, mode, exit>>
  BY <1>2, Requested
<1>3. status[c] = "running" \/ (status[c] = "pending" /\ Runner!Start(c))
  BY <1>2 DEF Runner!Case, RequestsOf, Runner!Start, Runner!MayStart, Runner!Begin, Runner!Expire, Runner!Retry, Runner!StepPassed, Runner!AttemptFailed, Runner!StepFailed,
              Runner!CasePassed, Runner!At
<1>4. UNCHANGED <<suite, mode, exit>>
  BY <1>2 DEF Runner!Case, RequestsOf, Runner!Start, Runner!Begin, Runner!Expire, Runner!Retry, Runner!StepPassed, Runner!AttemptFailed, Runner!StepFailed, Runner!CasePassed,
              Runner!run
<1>5. \A d \in DOMAIN suite \ {c} : Same(d)
  BY <1>1, Others
<1> QED
  BY <1>3, <1>4, <1>5 DEF Same

(* A chain stays in order: a case starts when all before it have passed.   *)
LEMMA ChainKept ==
  ASSUME Runner!ConstantsAssumption, RunnerInv, NEW c \in DOMAIN suite, Runner!Case(c)
  PROVE  ChainInv'
<1>1. /\ UNCHANGED <<suite, mode>>
      /\ status[c] = "running" \/ (status[c] = "pending" /\ Runner!Start(c))
      /\ \A d \in DOMAIN suite \ {c} : status'[d] = status[d]
  BY Moving
<1>2. Runner!TypeOK /\ ChainInv
  BY DEF RunnerInv
<1> SUFFICES ASSUME mode = "chain", NEW e \in DOMAIN suite, NEW d \in DOMAIN suite, d < e, status'[e] # "pending"
    PROVE  status'[d] = "passed"
  BY <1>1 DEF ChainInv
<1>3. d \in Nat /\ e \in Nat /\ c \in Nat /\ d >= 1
  BY <1>2, Shape
<1>4. CASE e # c
  <2>1. status[d] = "passed"
    BY <1>1, <1>2, <1>4 DEF ChainInv
  <2> QED
    BY <1>1, <2>1
<1>5. CASE e = c
  <2>1. d # c
    BY <1>3, <1>5
  <2>2. CASE status[c] = "pending"
    <3>1. Runner!MayStart(c)
      BY <1>1, <2>2 DEF Runner!Start
    <3>2. d \in 1 .. c - 1
      BY <1>3, <1>5
    <3>3. status[d] = "passed"
      BY <3>1, <3>2 DEF Runner!MayStart
    <3> QED
      BY <1>1, <2>1, <3>3
  <2>3. CASE status[c] # "pending"
    BY <1>1, <1>2, <1>5, <2>1, <2>3 DEF ChainInv
  <2> QED
    BY <2>2, <2>3
<1> QED
  BY <1>4, <1>5

(* After exit code 0 nothing moves.                                        *)
LEMMA ExitKept ==
  ASSUME Runner!ConstantsAssumption, RunnerInv, NEW c \in DOMAIN suite, Runner!Case(c)
  PROVE  ExitInv'
BY Moving DEF RunnerInv, ExitInv

(* What a step does to the tokens and the variables that go from case to   *)
(* case.                                                                   *)
LEMMA Tokens ==
  ASSUME Runner!ConstantsAssumption, RunnerInv, NEW c \in DOMAIN suite, Runner!Case(c)
  PROVE  \/ Runner!Start(c) /\ UNCHANGED <<token, logins, shared, task>>
         \/ UNCHANGED <<token, logins, shared>> /\ vars'[c] = vars[c]
            /\ \A s \in DOMAIN Runner!Steps(c) : \A i \in RequestsOf(c, s) :
                 task'[c][s][i] = "login" => task[c][s][i] = "login"
         \/ \E s \in DOMAIN Runner!Steps(c) : \E i \in RequestsOf(c, s) : Runner!Request(c, s, i)
         \/ Runner!CasePassed(c)
<1> USE DEF Runner!run, Runner!place, Runner!data, Runner!log
<1>1. Runner!TypeOK /\ PlaceInv(c)
  BY DEF RunnerInv, CaseInv
<1>2. ASSUME NEW g, Runner!Launch(c, g), step[c] <= Len(Runner!Steps(c))
      PROVE  \A s \in DOMAIN Runner!Steps(c) : \A i \in RequestsOf(c, s) :
               task'[c][s][i] = "login" => task[c][s][i] = "login"
  BY <1>1, <1>2, Launched
<1>3. CASE Runner!Start(c)
  BY <1>3 DEF Runner!Start
<1>4. CASE Runner!Begin(c)
  <2>1. UNCHANGED <<token, logins, shared, vars>> /\ step[c] <= Len(Runner!Steps(c))
    BY <1>4 DEF Runner!Begin, Runner!At
  <2>2. task' = task \/ Runner!Launch(c, "running")
    BY <1>4 DEF Runner!Begin
  <2> QED
    BY <1>2, <2>1, <2>2
<1>5. CASE Runner!Retry(c)
  <2>1. UNCHANGED <<token, logins, shared, vars>> /\ step[c] <= Len(Runner!Steps(c))
    BY <1>5 DEF Runner!Retry, Runner!At
  <2>2. \E g : Runner!Launch(c, g)
    BY <1>5 DEF Runner!Retry
  <2> QED
    BY <1>2, <2>1, <2>2
<1>6. CASE Runner!Expire(c) \/ Runner!StepPassed(c) \/ Runner!AttemptFailed(c) \/ Runner!StepFailed(c)
  BY <1>6 DEF Runner!Expire, Runner!StepPassed, Runner!AttemptFailed, Runner!StepFailed
<1> QED
  BY <1>3, <1>4, <1>5, <1>6 DEF Runner!Case, RequestsOf

(* What one request does to them.                                          *)
LEMMA RequestTokens ==
  ASSUME Runner!ConstantsAssumption, RunnerInv, NEW c \in DOMAIN suite,
         NEW s \in DOMAIN Runner!Steps(c), NEW i \in RequestsOf(c, s), Runner!Request(c, s, i)
  PROVE  /\ shared' = shared
         /\ vars'[c] = vars[c] \/ \E names : vars'[c] = Runner!Saved(c, s, names)
         /\ \A t \in DOMAIN Runner!Steps(c) : \A j \in RequestsOf(c, t) :
              task'[c][t][j] = "login" =>
                task[c][t][j] = "login" \/ (t = s /\ token[Runner!EngineOf(c)] = None)
         /\ \/ UNCHANGED <<token, logins>>
            \/ /\ task[c][s][i] = "login"
               /\ token' = [token EXCEPT ![Runner!EngineOf(c)] = <<c, s, i>>]
               /\ logins' = logins \cup {<<c, s, i>>}
<1> USE DEF Runner!run, Runner!place, Runner!data, Runner!log
<1>1. Runner!TypeOK
  BY DEF RunnerInv
<1>2. /\ shared' = shared
      /\ \A t \in DOMAIN Runner!Steps(c) \ {s} : task'[c][t] = task[c][t]
      /\ \A j \in RequestsOf(c, s) \ {i} : task'[c][s][j] = task[c][s][j]
      /\ GoesOn(c, s, i) \/ \E passed \in BOOLEAN : Answers(c, s, i, passed)
  BY Requested
<1>3. vars'[c] = vars[c] \/ \E names : vars'[c] = Runner!Saved(c, s, names)
  BY <1>2 DEF GoesOn, Answers
<1>4. task'[c][s][i] = "login" => token[Runner!EngineOf(c)] = None
  <2>1. CASE Runner!Dispatch(c, s, i)
    <3>1. CASE Runner!NeedsLogin(c, s, i)
      BY <3>1 DEF Runner!NeedsLogin
    <3>2. CASE ~Runner!NeedsLogin(c, s, i)
      <4>1. Runner!Phase(c, s, i, "ready", "sent")
        BY <2>1, <3>2 DEF Runner!Dispatch
      <4>2. task'[c][s][i] = "sent"
        BY <1>1, <4>1, Phased DEF Runner!TaskPhases, Runner!InFlight
      <4> QED
        BY <4>2
    <3> QED
      BY <3>1, <3>2
  <2>2. CASE ~Runner!Dispatch(c, s, i)
    <3>1. PICK from \in Runner!InFlight, to \in {"sent", "passed", "failed"} : Runner!Phase(c, s, i, from, to)
      BY <2>2 DEF Runner!Request, Runner!Unresolved, Runner!LoggedIn, Runner!LoginFailed, Runner!Accepted, Runner!Rejected, Runner!InFlight
    <3>2. task'[c][s][i] = to
      BY <1>1, <3>1, Phased DEF Runner!TaskPhases, Runner!InFlight
    <3> QED
      BY <3>2
  <2> QED
    BY <2>1, <2>2
<1>5. \/ UNCHANGED <<token, logins>>
      \/ /\ task[c][s][i] = "login"
         /\ token' = [token EXCEPT ![Runner!EngineOf(c)] = <<c, s, i>>]
         /\ logins' = logins \cup {<<c, s, i>>}
  BY DEF Runner!Request, Runner!Dispatch, Runner!Unresolved, Runner!LoggedIn, Runner!LoginFailed, Runner!Accepted, Runner!Rejected, Runner!Phase
<1>6. ASSUME NEW t \in DOMAIN Runner!Steps(c), NEW j \in RequestsOf(c, t), task'[c][t][j] = "login"
      PROVE  task[c][t][j] = "login" \/ (t = s /\ token[Runner!EngineOf(c)] = None)
  <2>1. CASE t = s /\ j = i
    BY <1>4, <1>6, <2>1
  <2>2. CASE ~(t = s /\ j = i)
    BY <1>2, <1>6, <2>2
  <2> QED
    BY <2>1, <2>2
<1> QED
  BY <1>2, <1>3, <1>5, <1>6

(* What a case of its own engine knows comes from itself.                  *)
LEMMA ApartKept ==
  ASSUME Runner!ConstantsAssumption, RunnerInv, NEW c \in DOMAIN suite, Runner!Case(c)
  PROVE  ApartInv'
<1>1. /\ UNCHANGED <<suite, mode>>
      /\ \A d \in DOMAIN suite \ {c} : vars'[d] = vars[d]
  BY Moving
<1>2. Runner!TypeOK /\ ApartInv
  BY DEF RunnerInv
<1>3. DOMAIN vars = DOMAIN suite /\ DOMAIN token = DOMAIN suite /\ "authToken" \in Names
  BY <1>2 DEF Runner!TypeOK, Runner!ConstantsAssumption
<1> SUFFICES ASSUME mode = "independent"
    PROVE  /\ \A n \in Names : shared'[n] = None
           /\ \A n \in Names : vars'[c][n] # None => vars'[c][n][1] = c
           /\ \A d \in DOMAIN suite : token'[d] # None => token'[d][1] = d
  BY <1>1, <1>2 DEF ApartInv
<1>4. /\ \A n \in Names : shared[n] = None
      /\ \A n \in Names : vars[c][n] # None => vars[c][n][1] = c
      /\ \A d \in DOMAIN suite : token[d] # None => token[d][1] = d
  BY <1>2 DEF ApartInv
<1>5. Runner!EngineOf(c) = c
  BY DEF Runner!EngineOf
<1>6. CASE Runner!Start(c)
  <2>1. vars'[c] = Runner!InitialVariables(c) /\ UNCHANGED <<shared, token>>
    BY <1>3, <1>6 DEF Runner!Start
  <2>2. \A n \in Names : vars'[c][n] # None => vars'[c][n] = <<c, 0, 0>>
    BY <1>4, <2>1 DEF Runner!InitialVariables
  <2> QED
    BY <1>4, <2>1, <2>2
<1>7. CASE UNCHANGED <<token, logins, shared>> /\ vars'[c] = vars[c]
  BY <1>4, <1>7
<1>8. ASSUME NEW s \in DOMAIN Runner!Steps(c), NEW i \in RequestsOf(c, s), Runner!Request(c, s, i)
      PROVE  /\ \A n \in Names : shared'[n] = None
             /\ \A n \in Names : vars'[c][n] # None => vars'[c][n][1] = c
             /\ \A d \in DOMAIN suite : token'[d] # None => token'[d][1] = d
  <2>1. /\ shared' = shared
        /\ vars'[c] = vars[c] \/ \E names : vars'[c] = Runner!Saved(c, s, names)
        /\ token' = token \/ token' = [token EXCEPT ![c] = <<c, s, i>>]
    BY <1>5, <1>8, RequestTokens
  <2>2. \A n \in Names : vars'[c][n] = vars[c][n] \/ vars'[c][n] = <<c, s, attempt[c]>>
    BY <2>1 DEF Runner!Saved
  <2>3. \A d \in DOMAIN suite : token'[d] = token[d] \/ (d = c /\ token'[d] = <<c, s, i>>)
    BY <1>3, <2>1
  <2> QED
    BY <1>4, <2>1, <2>2, <2>3
<1>9. CASE Runner!CasePassed(c)
  <2>1. /\ shared' = shared /\ vars' = vars
        /\ token' = token \/ token' = [token EXCEPT ![c] = vars[c]["authToken"]]
    BY <1>5, <1>9 DEF Runner!CasePassed
  <2>2. \A d \in DOMAIN suite : token'[d] = token[d] \/ (d = c /\ token'[d] = vars[c]["authToken"])
    BY <1>3, <2>1
  <2> QED
    BY <1>3, <1>4, <2>1, <2>2
<1> QED
  BY <1>6, <1>7, <1>8, <1>9, Tokens

(* Two cases that run on one engine are one case.                          *)
LEMMA OneAtEngine ==
  ASSUME Runner!ConstantsAssumption, RunnerInv, NEW c \in DOMAIN suite, NEW d \in DOMAIN suite,
         status[c] = "running", status[d] = "running", Runner!EngineOf(c) = Runner!EngineOf(d)
  PROVE  c = d
<1>1. Runner!TypeOK /\ ChainInv
  BY DEF RunnerInv
<1>2. c \in Nat /\ d \in Nat
  BY <1>1, Shape
<1>3. CASE mode = "chain"
  <2>1. ~(c < d) /\ ~(d < c)
    BY <1>1, <1>3 DEF ChainInv
  <2> QED
    BY <1>2, <2>1
<1>4. CASE mode # "chain"
  BY <1>4 DEF Runner!EngineOf
<1> QED
  BY <1>3, <1>4

(* Somebody's login is under way: he runs, at that step.                   *)
LEMMA LoginUnderway ==
  ASSUME Runner!ConstantsAssumption, RunnerInv, NEW c \in DOMAIN suite,
         NEW s \in DOMAIN Runner!Steps(c), NEW i \in RequestsOf(c, s), task[c][s][i] = "login"
  PROVE  status[c] = "running" /\ step[c] = s
BY Underway DEF Runner!InFlight

(* Nobody who is about to log in is overtaken by another step.             *)
LEMMA LoginKept ==
  ASSUME Runner!ConstantsAssumption, RunnerInv, NEW c \in DOMAIN suite, Runner!Case(c)
  PROVE  LoginInv' /\ Runner!OneStepLogsIn'
<1>1. /\ UNCHANGED <<suite, mode>>
      /\ \A d \in DOMAIN suite \ {c} : task'[d] = task[d]
  BY Moving
<1>2. /\ Runner!TypeOK /\ LoginInv /\ Runner!OneStepLogsIn
      /\ \A a \in logins : a[1] \in DOMAIN suite /\ token[Runner!EngineOf(a[1])] # None
  BY DEF RunnerInv, LoginInv
<1>3. /\ \A d : Runner!EngineOf(d)' = Runner!EngineOf(d) /\ Runner!Steps(d)' = Runner!Steps(d)
      /\ \A d, t : RequestsOf(d, t)' = RequestsOf(d, t)
  BY <1>1 DEF Runner!EngineOf, Runner!Steps, RequestsOf
<1>4. /\ \A d \in DOMAIN suite : Runner!EngineOf(d) \in DOMAIN suite
      /\ DOMAIN token = DOMAIN suite
      /\ \A d \in DOMAIN suite : \A s \in DOMAIN Runner!Steps(d) : \A i \in RequestsOf(d, s) :
           <<d, s, i>> # None /\ <<d, s, i>>[1] = d /\ <<d, s, i>>[2] = s
  <2>1. \A d \in DOMAIN suite : Runner!EngineOf(d) \in DOMAIN suite
    BY <1>2, Shape DEF Runner!EngineOf
  <2>2. ASSUME NEW d \in DOMAIN suite, NEW s \in DOMAIN Runner!Steps(d), NEW i \in RequestsOf(d, s)
        PROVE  <<d, s, i>> # None
    <3>1. d \in Nat /\ s \in Nat /\ i \in Nat
      BY <1>2, <2>2, Shape
    <3> QED
      BY <3>1 DEF Runner!ConstantsAssumption
  <2> QED
    BY <1>2, <2>1, <2>2 DEF Runner!TypeOK
(* Logins and tokens stay, or a token is replaced by another.              *)
<1>5. ASSUME logins' = logins,
             \A e \in DOMAIN suite : token[e] # None => token'[e] # None,
             \A t \in DOMAIN Runner!Steps(c) : \A j \in RequestsOf(c, t) : task'[c][t][j] = "login" =>
               task[c][t][j] = "login" \/ token[Runner!EngineOf(c)] = None
      PROVE  LoginInv' /\ Runner!OneStepLogsIn'
  <2>1. \A a \in logins' : a[1] \in DOMAIN suite /\ token'[Runner!EngineOf(a[1])] # None
    BY <1>2, <1>4, <1>5
  <2>2. ASSUME NEW d \in DOMAIN suite, NEW t \in DOMAIN Runner!Steps(d), NEW j \in RequestsOf(d, t),
               task'[d][t][j] = "login", NEW a \in logins, Runner!EngineOf(a[1]) = Runner!EngineOf(d)
        PROVE  a[1] = d /\ a[2] = t
    <3>1. token[Runner!EngineOf(d)] # None
      BY <1>2, <2>2
    <3>2. task[d][t][j] = "login"
      BY <1>1, <1>5, <2>2, <3>1
    <3> QED
      BY <1>2, <2>2, <3>2 DEF LoginInv
  <2> QED
    BY <1>1, <1>2, <1>3, <1>5, <2>1, <2>2 DEF LoginInv, Runner!OneStepLogsIn
<1>6. CASE Runner!Start(c)
  <2>1. UNCHANGED <<token, logins, task>>
    BY <1>6 DEF Runner!Start
  <2> QED
    BY <1>5, <2>1
<1>7. CASE UNCHANGED <<token, logins>> /\
           \A s \in DOMAIN Runner!Steps(c) : \A i \in RequestsOf(c, s) :
             task'[c][s][i] = "login" => task[c][s][i] = "login"
  BY <1>5, <1>7
<1>8. ASSUME NEW s \in DOMAIN Runner!Steps(c), NEW i \in RequestsOf(c, s), Runner!Request(c, s, i)
      PROVE  LoginInv' /\ Runner!OneStepLogsIn'
  <2>1. /\ \A t \in DOMAIN Runner!Steps(c) : \A j \in RequestsOf(c, t) :
             task'[c][t][j] = "login" =>
               task[c][t][j] = "login" \/ (t = s /\ token[Runner!EngineOf(c)] = None)
        /\ \/ UNCHANGED <<token, logins>>
           \/ /\ task[c][s][i] = "login"
              /\ token' = [token EXCEPT ![Runner!EngineOf(c)] = <<c, s, i>>]
              /\ logins' = logins \cup {<<c, s, i>>}
    BY <1>8, RequestTokens
  <2>2. CASE UNCHANGED <<token, logins>>
    BY <1>5, <2>1, <2>2
  <2>3. ASSUME task[c][s][i] = "login",
               token' = [token EXCEPT ![Runner!EngineOf(c)] = <<c, s, i>>],
               logins' = logins \cup {<<c, s, i>>}
        PROVE  LoginInv' /\ Runner!OneStepLogsIn'
    <3>1. status[c] = "running" /\ step[c] = s
      BY <2>3, LoginUnderway
    <3>2. \A a \in logins : Runner!EngineOf(a[1]) = Runner!EngineOf(c) => a[1] = c /\ a[2] = s
      BY <1>2, <2>3 DEF LoginInv
    <3>3. \A a \in logins' : a[1] \in DOMAIN suite /\ (Runner!EngineOf(a[1]) = Runner!EngineOf(c) => a[1] = c /\ a[2] = s)
      BY <1>2, <1>4, <2>3, <3>2
    <3>4. \A e \in DOMAIN suite : token[e] # None \/ e = Runner!EngineOf(c) => token'[e] # None
      BY <1>4, <2>3
    <3>5. \A a \in logins' : token'[Runner!EngineOf(a[1])] # None
      <4> SUFFICES ASSUME NEW a \in logins' PROVE token'[Runner!EngineOf(a[1])] # None
        OBVIOUS
      <4>1. CASE a \in logins
        BY <1>2, <1>4, <3>4, <4>1
      <4>2. CASE a = <<c, s, i>>
        BY <1>4, <3>4, <4>2
      <4> QED
        BY <2>3, <4>1, <4>2
    <3>6. \A a, b \in logins' : Runner!EngineOf(a[1]) = Runner!EngineOf(b[1]) => a[1] = b[1] /\ a[2] = b[2]
      <4> SUFFICES ASSUME NEW a \in logins', NEW b \in logins', Runner!EngineOf(a[1]) = Runner!EngineOf(b[1])
          PROVE  a[1] = b[1] /\ a[2] = b[2]
        OBVIOUS
      <4>1. CASE Runner!EngineOf(a[1]) = Runner!EngineOf(c)
        <5>1. a[1] = c /\ a[2] = s
          BY <3>3, <4>1
        <5>2. Runner!EngineOf(b[1]) = Runner!EngineOf(c)
          BY <4>1
        <5>3. b[1] = c /\ b[2] = s
          BY <3>3, <5>2
        <5> QED
          BY <5>1, <5>3
      <4>2. CASE Runner!EngineOf(a[1]) # Runner!EngineOf(c)
        <5>1. a \in logins /\ b \in logins
          BY <1>4, <2>3, <4>2
        <5> QED
          BY <1>2, <5>1 DEF Runner!OneStepLogsIn
      <4> QED
        BY <4>1, <4>2
    <3>7. ASSUME NEW d \in DOMAIN suite, NEW t \in DOMAIN Runner!Steps(d), NEW j \in RequestsOf(d, t),
                 task'[d][t][j] = "login", NEW a \in logins', Runner!EngineOf(a[1]) = Runner!EngineOf(d)
          PROVE  a[1] = d /\ a[2] = t
      <4>1. CASE d = c
        <5>1. task[c][t][j] = "login" \/ t = s
          BY <2>1, <3>7, <4>1
        <5>2. t = s
          BY <3>1, <3>7, <4>1, <5>1, LoginUnderway
        <5> QED
          BY <3>3, <3>7, <4>1, <5>2
      <4>2. CASE d # c
        <5>1. task[d][t][j] = "login"
          BY <1>1, <3>7, <4>2
        <5>2. status[d] = "running"
          BY <3>7, <5>1, LoginUnderway
        <5>3. Runner!EngineOf(d) # Runner!EngineOf(c)
          BY <3>1, <4>2, <5>2, OneAtEngine
        <5>4. a \in logins
          BY <1>4, <2>3, <3>7, <5>3
        <5> QED
          BY <1>2, <3>7, <5>1, <5>4 DEF LoginInv
      <4> QED
        BY <4>1, <4>2
    <3> QED
      BY <1>1, <1>3, <3>3, <3>5, <3>6, <3>7 DEF LoginInv, Runner!OneStepLogsIn
  <2> QED
    BY <2>1, <2>2, <2>3
<1>9. CASE Runner!CasePassed(c)
  <2>1. /\ logins' = logins /\ task' = task
        /\ token' = token \/ ( /\ vars[c]["authToken"] # None
                               /\ token' = [token EXCEPT ![Runner!EngineOf(c)] = vars[c]["authToken"]] )
    BY <1>9 DEF Runner!CasePassed, Runner!log
  <2>2. \A e \in DOMAIN suite : token[e] # None => token'[e] # None
    BY <1>4, <2>1
  <2> QED
    BY <1>5, <2>1, <2>2
<1> QED
  BY <1>6, <1>7, <1>8, <1>9, Tokens

(* The end of the run.                                                     *)

(* There is a first one among the cases.                                   *)
LEMMA FirstExists ==
  ASSUME NEW S \in SUBSET Nat, S # {}
  PROVE  \E c \in S : \A d \in S : c <= d
<1> DEFINE R == OpToRel(<, Nat)
<1>1. PICK c \in S : \A d \in S : <<d, c>> \notin R
  <2>1. IsWellFoundedOn(R, Nat)
    BY NatLessThanWellFounded
  <2> HIDE DEF R
  <2> QED
    BY <2>1, WFMin
<1>2. \A d \in S : ~(d < c)
  BY <1>1 DEF OpToRel
<1> QED
  BY <1>2

(* There is a last one among some of the steps.                            *)
LEMMA LastExists ==
  ASSUME NEW N \in Nat, NEW S \in SUBSET (1 .. N), S # {}
  PROVE  \E s \in S : \A t \in S : t <= s
<1> DEFINE T == {N - s : s \in S}
<1>1. T \in SUBSET Nat /\ T # {}
  <2>1. \A s \in S : N - s \in Nat
    OBVIOUS
  <2> QED
    BY <2>1
<1>2. PICK m \in T : \A k \in T : m <= k
  <2> HIDE DEF T
  <2> QED
    BY <1>1, FirstExists
<1>3. PICK s \in S : m = N - s
  BY <1>2
<1>4. ASSUME NEW t \in S PROVE t <= s
  <2>1. N - s <= N - t
    BY <1>2, <1>3, <1>4
  <2> QED
    BY <1>3, <1>4, <2>1
<1> QED
  BY <1>4

(* When no case may start any more and none runs, a run without failures   *)
(* has run all of its cases.                                               *)
LEMMA NothingLeft ==
  ASSUME Runner!ConstantsAssumption, RunnerInv,
         \A c \in DOMAIN suite : status[c] # "running" /\ ~Runner!MayStart(c),
         \A c \in DOMAIN suite : status[c] # "failed"
  PROVE  \A c \in DOMAIN suite : status[c] = "passed"
<1>1. Runner!TypeOK
  BY DEF RunnerInv
<1>2. /\ \A c \in DOMAIN suite : status[c] \in {"pending", "running", "passed", "failed"}
      /\ mode \in {"chain", "independent"}
      /\ MaxParallel \in Nat /\ MaxParallel > 0
  BY <1>1 DEF Runner!TypeOK, Runner!ConstantsAssumption
<1>3. Len(suite) \in Nat /\ DOMAIN suite = 1 .. Len(suite)
  BY <1>1, Shape
<1> DEFINE P == {c \in DOMAIN suite : status[c] = "pending"}
<1>4. ASSUME P # {} PROVE FALSE
  <2>1. P \in SUBSET Nat
    BY <1>3
  <2>2. PICK c \in P : \A d \in P : c <= d
    <3> HIDE DEF P
    <3> QED
      BY <1>4, <2>1, FirstExists
  <2>3. c \in DOMAIN suite /\ c \in Nat /\ status[c] = "pending"
    BY <1>3, <2>2
  <2>4. ASSUME NEW d \in 1 .. c - 1 PROVE status[d] = "passed"
    <3>1. d \in DOMAIN suite /\ ~(c <= d)
      BY <1>3, <2>3, <2>4
    <3> QED
      BY <1>2, <2>2, <3>1
  <2>5. Runner!Cardinality({d \in DOMAIN suite : status[d] = "running"}) < MaxParallel
    <3>1. {d \in DOMAIN suite : status[d] = "running"} = {}
      OBVIOUS
    <3>2. Runner!Cardinality({d \in DOMAIN suite : status[d] = "running"}) = 0
      BY <3>1, FS_EmptySet, RunnerCounts
    <3> QED
      BY <1>2, <3>2
  <2>6. Runner!MayStart(c)
    BY <2>3, <2>4, <2>5 DEF Runner!MayStart
  <2> QED
    BY <2>3, <2>6
<1> QED
  BY <1>2, <1>4
(* The invariant.                                                          *)

(* It holds at first.                                                      *)
LEMMA InvInit ==
  ASSUME Runner!ConstantsAssumption, Runner!Init
  PROVE  RunnerInv
<1>1. Runner!TypeOK
  BY TypeInit
<1>2. \A c \in DOMAIN suite :
        /\ status[c] = "pending" /\ step[c] = 1 /\ stage[c] = "begin" /\ attempt[c] = 0
        /\ rows[c] = {} /\ answered[c] = {} /\ vars[c] = Runner!Unset /\ token[c] = None
        /\ \A s \in DOMAIN Runner!Steps(c) : \A i \in RequestsOf(c, s) : task[c][s][i] = "new"
  BY DEF Runner!Init, RequestsOf
<1>3. ASSUME NEW c \in DOMAIN suite PROVE CaseInv(c)
  <2>1. \A s \in DOMAIN Runner!Steps(c) : s \in Nat /\ ~(s < 1)
    BY <1>1, Shape
  <2>2. PlaceInv(c)
    BY <1>2 DEF PlaceInv
  <2>3. TaskInv(c)
    BY <1>2, <2>1 DEF TaskInv, Runner!InFlight
  <2>4. AnswerInv(c) /\ PassedInv(c) /\ RetryInv(c) /\ RowsInv(c)
    BY <1>2 DEF AnswerInv, PassedInv, RetryInv, RowsInv
  <2>5. SaveInv(c)
    BY <1>2, <2>1 DEF SaveInv
  <2> QED
    BY <2>2, <2>3, <2>4, <2>5 DEF CaseInv
<1>4. ChainInv
  BY <1>2 DEF ChainInv
<1>5. ApartInv
  BY <1>2 DEF ApartInv, Runner!Init, Runner!Unset
<1>6. LoginInv /\ Runner!OneStepLogsIn
  BY <1>2 DEF LoginInv, Runner!OneStepLogsIn, Runner!Init
<1>7. ExitInv
  BY DEF ExitInv, Runner!Init, Runner!ConstantsAssumption
<1> QED
  BY <1>1, <1>3, <1>4, <1>5, <1>6, <1>7 DEF RunnerInv

(* The exit code changes nothing else.                                     *)
LEMMA ExitKeeps ==
  ASSUME Runner!ConstantsAssumption, RunnerInv, Runner!Exit
  PROVE  RunnerInv'
<1>1. /\ UNCHANGED <<suite, mode, status, step, stage, attempt, expired, task, token, vars, shared,
                     logins, rows, answered>>
      /\ exit' \in {0, 1}
  BY DEF Runner!Exit, Runner!run, Runner!place, Runner!data, Runner!log
<1>2. ExitInv'
  <2>1. ASSUME exit' = 0 PROVE \A c \in DOMAIN suite : status[c] = "passed"
    <3>1. \A c \in DOMAIN suite : status[c] # "running" /\ ~Runner!MayStart(c)
      BY DEF Runner!Exit
    <3>2. \A c \in DOMAIN suite : status[c] # "failed"
      BY <2>1 DEF Runner!Exit
    <3> QED
      BY <3>1, <3>2, NothingLeft
  <2> QED
    BY <1>1, <2>1 DEF ExitInv
<1>3. \A c \in DOMAIN suite : CaseInv(c)
  BY DEF RunnerInv
<1>4. Runner!Steps(0)' = Runner!Steps(0) /\ \A c : Runner!Steps(c)' = Runner!Steps(c) /\ Runner!EngineOf(c)' = Runner!EngineOf(c) /\ Runner!Current(c)' = Runner!Current(c)
  BY <1>1 DEF Runner!Steps, Runner!EngineOf, Runner!Current
<1>5. ASSUME NEW c \in DOMAIN suite PROVE CaseInv(c)'
  <2>1. CaseInv(c)
    BY <1>3
  <2>2. PlaceInv(c)' /\ TaskInv(c)' /\ AnswerInv(c)'
    BY <1>1, <1>4, <2>1 DEF CaseInv, PlaceInv, TaskInv, AnswerInv, RequestsOf, Runner!Malformed, Runner!Wide
  <2>3. PassedInv(c)' /\ RetryInv(c)' /\ RowsInv(c)' /\ SaveInv(c)'
    BY <1>1, <1>4, <2>1 DEF CaseInv, PassedInv, RetryInv, RowsInv, SaveInv, RequestsOf, Saves
  <2> QED
    BY <2>2, <2>3 DEF CaseInv
<1>6. Runner!TypeOK'
  <2>1. Runner!TypeOK
    BY DEF RunnerInv
  <2> QED
    BY <1>1, <2>1 DEF Runner!TypeOK, Runner!Steps
<1>7. ChainInv' /\ ApartInv'
  BY <1>1 DEF RunnerInv, ChainInv, ApartInv
<1>8. LoginInv' /\ Runner!OneStepLogsIn'
  BY <1>1, <1>4 DEF RunnerInv, LoginInv, Runner!OneStepLogsIn, RequestsOf
<1> QED
  BY <1>1, <1>2, <1>5, <1>6, <1>7, <1>8 DEF RunnerInv

(* Every step keeps it.                                                    *)
LEMMA InvStep ==
  ASSUME Runner!ConstantsAssumption, RunnerInv, [Runner!Next]_Runner!all
  PROVE  RunnerInv'
<1>1. ASSUME NEW c \in DOMAIN suite, Runner!Case(c) PROVE RunnerInv'
  <2>1. suite' = suite
    BY <1>1, Moving
  <2>2. \A d \in DOMAIN suite : CaseInv(d)'
    BY <1>1, CaseKept, OthersKept
  <2>3. Runner!TypeOK' /\ ChainInv' /\ ApartInv'
    BY <1>1, TypeKept, ChainKept, ApartKept
  <2>4. LoginInv' /\ Runner!OneStepLogsIn' /\ ExitInv'
    BY <1>1, LoginKept, ExitKept
  <2> QED
    BY <2>1, <2>2, <2>3, <2>4 DEF RunnerInv
<1>2. CASE Runner!Exit
  BY <1>2, ExitKeeps
<1>3. CASE UNCHANGED Runner!all
  <2>1. /\ UNCHANGED <<suite, mode, status, step, stage, attempt, expired, task, token, vars, shared,
                       logins, rows, answered, exit>>
        /\ \A c : Runner!Steps(c)' = Runner!Steps(c) /\ Runner!EngineOf(c)' = Runner!EngineOf(c) /\ Runner!Current(c)' = Runner!Current(c)
    BY <1>3 DEF Runner!all, Runner!Steps, Runner!EngineOf, Runner!Current
  <2>2. ASSUME NEW c \in DOMAIN suite PROVE CaseInv(c)'
    <3>1. CaseInv(c)
      BY DEF RunnerInv
    <3>2. PlaceInv(c)' /\ TaskInv(c)' /\ AnswerInv(c)'
      BY <2>1, <3>1 DEF CaseInv, PlaceInv, TaskInv, AnswerInv, RequestsOf, Runner!Malformed, Runner!Wide
    <3>3. PassedInv(c)' /\ RetryInv(c)' /\ RowsInv(c)' /\ SaveInv(c)'
      BY <2>1, <3>1 DEF CaseInv, PassedInv, RetryInv, RowsInv, SaveInv, RequestsOf, Saves
    <3> QED
      BY <3>2, <3>3 DEF CaseInv
  <2>3. Runner!TypeOK'
    BY <2>1 DEF RunnerInv, Runner!TypeOK, Runner!Steps
  <2>4. ChainInv' /\ ApartInv' /\ ExitInv'
    BY <2>1 DEF RunnerInv, ChainInv, ApartInv, ExitInv
  <2>5. LoginInv' /\ Runner!OneStepLogsIn'
    BY <2>1 DEF RunnerInv, LoginInv, Runner!OneStepLogsIn, RequestsOf
  <2> QED
    BY <2>1, <2>2, <2>3, <2>4, <2>5 DEF RunnerInv
<1> QED
  BY <1>1, <1>2, <1>3 DEF Runner!Next

(* The invariant holds in every run.                                       *)
THEOREM InvariantHolds == Runner!ConstantsAssumption /\ Runner!Spec => []RunnerInv
<1> SUFFICES ASSUME Runner!ConstantsAssumption PROVE Runner!Spec => []RunnerInv
  OBVIOUS
<1>1. Runner!Init => RunnerInv
  BY InvInit
<1>2. RunnerInv /\ [Runner!Next]_Runner!all => RunnerInv'
  BY InvStep
<1> QED
  BY <1>1, <1>2, PTL DEF Runner!Spec

(* The type invariant of the runner, for any suites, any number of cases   *)
(* side by side and any number of attempts (Program.cs, RunnerEngine.cs).  *)
THEOREM RunnerTypeCorrect == Runner!ConstantsAssumption /\ Runner!Spec => []Runner!TypeOK
<1>1. RunnerInv => Runner!TypeOK
  BY DEF RunnerInv
<1> QED
  BY <1>1, InvariantHolds, PTL

(* A green case is earned, and so is exit code 0.                          *)
LEMMA GreenIsEarned ==
  ASSUME Runner!ConstantsAssumption, RunnerInv
  PROVE  Runner!PassIsEarned
<1>1. Runner!TypeOK /\ ExitInv /\ \A c \in DOMAIN suite : CaseInv(c)
  BY DEF RunnerInv
<1>2. ASSUME NEW c \in DOMAIN suite, status[c] = "passed"
      PROVE  /\ \A s \in DOMAIN Runner!Steps(c) : \A i \in DOMAIN Runner!Steps(c)[s].requests :
                  \E r \in answered[c] :
                    /\ r.step = s /\ r.request = i /\ r.passed
                    /\ \A q \in answered[c] :
                         q.step = s /\ q.request = i => q.attempt <= r.attempt
             /\ \A r \in rows[c] : r.passed
  <2>1. PlaceInv(c) /\ TaskInv(c) /\ PassedInv(c) /\ RowsInv(c)
    BY <1>1 DEF CaseInv
  <2>2. Len(Runner!Steps(c)) \in Nat /\ DOMAIN Runner!Steps(c) = 1 .. Len(Runner!Steps(c)) /\ step[c] = Len(Runner!Steps(c)) + 1
    BY <1>1, <1>2, <2>1, Shape DEF PlaceInv
  <2>3. \A s \in DOMAIN Runner!Steps(c) : \A i \in RequestsOf(c, s) : task[c][s][i] = "passed"
    BY <2>1, <2>2 DEF TaskInv
  <2>4. \A r \in rows[c] : r.passed
    BY <1>2, <2>1 DEF RowsInv
  <2> QED
    BY <2>1, <2>3, <2>4 DEF PassedInv, RequestsOf
<1> QED
  BY <1>1, <1>2 DEF Runner!PassIsEarned, ExitInv

(* A retried step ends with its first accepted response or its last one.   *)
LEMMA RetriesStop ==
  ASSUME Runner!ConstantsAssumption, RunnerInv
  PROVE  Runner!RetryStopsInTime
<1> SUFFICES ASSUME NEW c \in DOMAIN suite, NEW r \in answered[c], Runner!Steps(c)[r.step].retry
    PROVE  /\ r.passed => \A q \in answered[c] : q.step = r.step => q.attempt <= r.attempt
           /\ status[c] = "failed" /\ step[c] = r.step => expired[c] /\ stage[c] = "final"
  BY DEF Runner!RetryStopsInTime
<1>1. /\ Runner!TypeOK /\ AnswerInv(c) /\ RetryInv(c) /\ PlaceInv(c)
      /\ attempt[c] \in Nat /\ r.attempt \in Nat
  BY Known DEF CaseInv
<1>2. r.passed => \A q \in answered[c] : q.step = r.step => q.attempt <= r.attempt
  BY <1>1 DEF RetryInv
<1>3. ASSUME status[c] = "failed", step[c] = r.step PROVE expired[c] /\ stage[c] = "final"
  <2>1. 1 <= r.attempt /\ r.attempt <= attempt[c]
    BY <1>1, <1>3 DEF AnswerInv
  <2>2. stage[c] # "begin"
    BY <1>1, <2>1 DEF PlaceInv
  <2>3. stage[c] # "check" /\ stage[c] # "running"
    BY <1>1, <1>3 DEF PlaceInv, Runner!Current
  <2>4. stage[c] = "final"
    BY <1>1, <2>2, <2>3 DEF Runner!TypeOK
  <2> QED
    BY <1>1, <2>4 DEF PlaceInv
<1> QED
  BY <1>2, <1>3

(* What finished steps saved is what accepted responses said.              *)
LEMMA SavesAreAccepted ==
  ASSUME Runner!ConstantsAssumption, RunnerInv
  PROVE  Runner!SavedByAccepted
<1> DEFINE savers(c, n) == {s \in 1 .. step[c] - 1 : n \in Runner!ToSet(Runner!Steps(c)[s].save)}
           later(c, n) == {s \in DOMAIN Runner!Steps(c) : s >= step[c] /\ n \in Runner!ToSet(Runner!Steps(c)[s].save)}
           last(c, n) == CHOOSE s \in savers(c, n) : \A t \in savers(c, n) : t <= s
<1> SUFFICES ASSUME NEW c \in DOMAIN suite, NEW n \in Names, savers(c, n) # {}, later(c, n) = {}
    PROVE  \E r \in answered[c] :
             r.step = last(c, n) /\ r.passed /\ vars[c][n] = <<c, last(c, n), r.attempt>>
  BY DEF Runner!SavedByAccepted
<1>1. /\ SaveInv(c) /\ step[c] \in Nat /\ Len(Runner!Steps(c)) \in Nat
      /\ DOMAIN Runner!Steps(c) = 1 .. Len(Runner!Steps(c)) /\ step[c] \in 1 .. Len(Runner!Steps(c)) + 1
  BY Known DEF CaseInv
<1>2. savers(c, n) \in SUBSET (1 .. Len(Runner!Steps(c)))
  BY <1>1
<1>3. last(c, n) \in savers(c, n) /\ \A t \in savers(c, n) : t <= last(c, n)
  <2>1. \E m \in savers(c, n) : \A t \in savers(c, n) : t <= m
    <3> HIDE DEF savers
    <3> QED
      BY <1>1, <1>2, LastExists
  <2> HIDE DEF savers
  <2> QED
    BY <2>1
<1>4. last(c, n) \in DOMAIN Runner!Steps(c) /\ last(c, n) < step[c] /\ Saves(c, last(c, n), n)
  <2> HIDE DEF last
  <2> QED
    BY <1>1, <1>3 DEF Saves
<1>5. ASSUME NEW t \in DOMAIN Runner!Steps(c), last(c, n) < t, t <= step[c] PROVE ~Saves(c, t, n)
  <2> HIDE DEF last
  <2>1. CASE t = step[c]
    BY <1>1, <1>5, <2>1 DEF Saves
  <2>2. CASE t # step[c]
    <3>1. t \in 1 .. step[c] - 1
      BY <1>1, <1>5, <2>2
    <3>2. ~(t <= last(c, n))
      BY <1>1, <1>4, <1>5
    <3> QED
      BY <1>3, <3>1, <3>2 DEF Saves
  <2> QED
    BY <2>1, <2>2
<1> HIDE DEF last, savers, later
<1> QED
  BY <1>1, <1>4, <1>5 DEF SaveInv

(* Steps, cases and logins keep apart.                                     *)
LEMMA ApartHolds ==
  ASSUME Runner!ConstantsAssumption, RunnerInv
  PROVE  Runner!CasesKeepApart
<1>1. Runner!TypeOK /\ ApartInv /\ Runner!OneStepLogsIn
  BY DEF RunnerInv
<1>2. Runner!StepsDoNotOverlap
  <2> SUFFICES ASSUME NEW c \in DOMAIN suite, NEW s \in DOMAIN Runner!Steps(c), NEW i \in DOMAIN task[c][s],
                      task[c][s][i] \in Runner!InFlight
      PROVE  status[c] = "running" /\ step[c] = s
    BY DEF Runner!StepsDoNotOverlap
  <2>1. i \in RequestsOf(c, s)
    BY <1>1 DEF Runner!TypeOK, RequestsOf
  <2> QED
    BY <2>1, Underway
<1>3. Runner!IndependentCasesIsolated
  BY <1>1 DEF Runner!IndependentCasesIsolated, ApartInv, Runner!EngineOf
<1> QED
  BY <1>1, <1>2, <1>3 DEF Runner!CasesKeepApart

(* A green case is earned by the last answer of every request of it, what  *)
(* it saved for later steps is what an accepted answer said, and a retried *)
(* step stops when it should, for any suites and any overlap of the cases  *)
(* (RunnerEngine.cs: RunStepWithRetryAsync, RunConfiguredStepAsync).       *)
THEOREM RunnerPasses ==
  Runner!ConstantsAssumption /\ Runner!Spec => [](Runner!PassIsEarned /\ Runner!SavedByAccepted /\ Runner!RetryStopsInTime)
<1> SUFFICES ASSUME Runner!ConstantsAssumption
    PROVE  Runner!Spec => [](Runner!PassIsEarned /\ Runner!SavedByAccepted /\ Runner!RetryStopsInTime)
  OBVIOUS
<1>1. RunnerInv => Runner!PassIsEarned /\ Runner!SavedByAccepted /\ Runner!RetryStopsInTime
  BY GreenIsEarned, SavesAreAccepted, RetriesStop
<1>2. Runner!Spec => []RunnerInv
  BY InvariantHolds
<1> QED
  BY <1>1, <1>2, PTL

(* Steps of a case do not overlap, cases that run side by side do not see  *)
(* each other, and one step of an engine logs in, however many run at once *)
(* (Program.cs: Parallel.ForEachAsync; HttpStepExecutor.cs).               *)
THEOREM RunnerApart == Runner!ConstantsAssumption /\ Runner!Spec => []Runner!CasesKeepApart
<1> SUFFICES ASSUME Runner!ConstantsAssumption PROVE Runner!Spec => []Runner!CasesKeepApart
  OBVIOUS
<1>1. RunnerInv => Runner!CasesKeepApart
  BY ApartHolds
<1>2. Runner!Spec => []RunnerInv
  BY InvariantHolds
<1> QED
  BY <1>1, <1>2, PTL

-----------------------------------------------------------------------------
Relations(s) == {Ends[e] : e \in s.edges}

(* What the request knows of the first specification, and that the file    *)
(* still has all of it.                                                    *)
DiagramInv ==
  /\ origin \in Diagram!Specs /\ spec \in Diagram!Specs
  /\ rounds \in 0 .. MaximumRepairs
  /\ IF at = "idle" THEN spec = origin ELSE first = Diagram!Semantics(origin)
  /\ origin.nodes \subseteq spec.nodes /\ Relations(origin) \subseteq Relations(spec)

(* A repair by rule leaves nodes and edges alone.                          *)
LEMMA RulesKeepEdges ==
  ASSUME DiagramInv, Diagram!RepairByRule
  PROVE  spec' \in Diagram!Specs /\ spec'.nodes = spec.nodes /\ spec'.edges = spec.edges
  BY DEF DiagramInv, Diagram!RepairByRule, Diagram!Specs

(* A repair by the AI keeps what the first specification had, or the file  *)
(* stays as it was.                                                        *)
LEMMA AICovers ==
  ASSUME DiagramInv, Diagram!RepairByAI
  PROVE  /\ spec' \in Diagram!Specs
         /\ origin.nodes \subseteq spec'.nodes /\ Relations(origin) \subseteq Relations(spec')
<1>1. at = "check" /\ first = Diagram!Semantics(origin)
  BY DEF DiagramInv, Diagram!RepairByAI
<1>2. PICK s \in Diagram!Specs : spec' = IF Diagram!Preserves(s) THEN s ELSE spec
  BY DEF Diagram!RepairByAI
<1>3. CASE Diagram!Preserves(s)
  BY <1>1, <1>2, <1>3 DEF Diagram!Preserves, Diagram!Semantics, Relations
<1>4. CASE ~Diagram!Preserves(s)
  BY <1>2, <1>4 DEF DiagramInv
<1> QED BY <1>3, <1>4

(* Whatever the rules and the AI make of a specification, the one that is  *)
(* delivered has every node of the first and joins all that it joined, and *)
(* was repaired at most so often.                                          *)
THEOREM DiagramCovers == Diagram!DeliveryAssumption /\ Diagram!Spec => []Diagram!DeliveredCovers
<1> SUFFICES ASSUME Diagram!DeliveryAssumption PROVE Diagram!Spec => []Diagram!DeliveredCovers
  OBVIOUS
<1>1. Diagram!Init => DiagramInv
  BY DEF Diagram!Init, DiagramInv, Diagram!DeliveryAssumption, Relations
<1>2. DiagramInv /\ [Diagram!Next]_Diagram!vars => DiagramInv'
  <2> SUFFICES ASSUME DiagramInv, [Diagram!Next]_Diagram!vars PROVE DiagramInv'
    OBVIOUS
  <2>1. CASE Diagram!Request
    BY <2>1 DEF DiagramInv, Diagram!Request, Relations, Diagram!Semantics
  <2>2. CASE Diagram!RepairByRule
    <3>1. at = "check" /\ at' = "check" /\ rounds' \in 0 .. MaximumRepairs /\ UNCHANGED <<first, origin>>
      BY <2>2 DEF DiagramInv, Diagram!RepairByRule, Diagram!Round, Diagram!DeliveryAssumption
    <3> QED BY <2>2, <3>1, RulesKeepEdges DEF DiagramInv, Relations, Diagram!Semantics
  <2>3. CASE Diagram!RepairByAI
    <3>1. at = "check" /\ at' = "check" /\ rounds' \in 0 .. MaximumRepairs /\ UNCHANGED <<first, origin>>
      BY <2>3 DEF DiagramInv, Diagram!RepairByAI, Diagram!Round, Diagram!DeliveryAssumption
    <3> QED BY <2>3, <3>1, AICovers DEF DiagramInv, Relations, Diagram!Semantics
  <2>4. CASE Diagram!AIFails
    BY <2>4 DEF DiagramInv, Diagram!AIFails, Relations, Diagram!Semantics
  <2>5. CASE Diagram!Deliver
    <3>1. at = "check" /\ at' # "idle" /\ UNCHANGED <<rounds, first, origin, spec>>
      BY <2>5 DEF Diagram!Deliver
    <3> QED BY <3>1 DEF DiagramInv, Relations, Diagram!Semantics
  <2>6. CASE Diagram!Show
    BY <2>6 DEF DiagramInv, Diagram!Show, Relations, Diagram!Semantics
  <2>7. CASE UNCHANGED Diagram!vars
    BY <2>7 DEF DiagramInv, Diagram!vars, Relations, Diagram!Semantics
  <2> QED BY <2>1, <2>2, <2>3, <2>4, <2>5, <2>6, <2>7 DEF Diagram!Next
<1>3. DiagramInv => Diagram!DeliveredCovers
  <2> SUFFICES ASSUME DiagramInv, at = "delivered" PROVE
        /\ origin.nodes \subseteq spec.nodes
        /\ \A e \in origin.edges : \E d \in spec.edges : Ends[d] = Ends[e]
        /\ rounds <= MaximumRepairs
    BY DEF Diagram!DeliveredCovers
  <2>1. \A e \in origin.edges : Ends[e] \in Relations(spec)
    BY DEF DiagramInv, Relations
  <2> QED BY <2>1 DEF DiagramInv, Relations, Diagram!DeliveryAssumption
<1> QED BY <1>1, <1>2, <1>3, PTL DEF Diagram!Spec
-----------------------------------------------------------------------------
Served == {generation[g].upload : g \in Workbook!Running}
Analyzing == IF analysis.at = "analyzing" THEN {analysis.upload} ELSE {}

(* The records of the requests; a request to generate names an upload that *)
(* was in the tab.                                                         *)
RequestsInv ==
  /\ generation \in [Generations -> {Workbook!Idle}
       \cup [at : {"sent", "generating", "generated", "refused"}, upload : Uploads, project : Projects]]
  /\ analysis \in {Workbook!Idle, [at |-> "failed"]} \cup [at : {"sent"}, project : Projects]
       \cup [at : {"analyzing"}, project : Projects, upload : Uploads]
       \cup [at : {"answered"}, upload : Uploads]

(* The tab: the button is there for an upload, of which it lists the cases. *)
TabInv ==
  /\ project \in Projects
  /\ uploadId \in Uploads \cup {None}
  /\ ~locked => uploadId # None
  /\ uploadId # None => listed = uploadId
  /\ selected # {} => uploadId # None

(* A directory is that of an upload which waits, of one that strayed, of   *)
(* one a generator runs on, or of the one under analysis; and of one only. *)
DirectoriesInv ==
  /\ directories = DOMAIN stored \cup strayed \cup Served \cup Analyzing
  /\ DOMAIN stored \cap strayed = {} /\ DOMAIN stored \cap Served = {} /\ strayed \cap Served = {}
  /\ Analyzing \cap (DOMAIN stored \cup strayed \cup Served) = {}
  /\ \A g, h \in Workbook!Running : generation[g].upload = generation[h].upload => g = h

(* Every step keeps the records of the requests.                           *)
LEMMA RequestsStep ==
  ASSUME RequestsInv, TabInv, [Workbook!Next]_Workbook!vars
  PROVE  RequestsInv'
<1>1. CASE \E p \in Projects : Workbook!SwitchProject(p)
  BY <1>1 DEF Workbook!SwitchProject, Workbook!server, RequestsInv, Workbook!Idle
<1>2. CASE \E cases \in SUBSET Cases : Workbook!Select(cases)
  BY <1>2 DEF Workbook!Select, Workbook!server, RequestsInv, Workbook!Idle
<1>3. CASE Workbook!ClickAnalyze
  BY <1>3 DEF Workbook!ClickAnalyze, Workbook!server, RequestsInv, TabInv, Workbook!Idle
<1>4. CASE Workbook!Analyzed
  <2>1. analysis \in [at : {"analyzing"}, project : Projects, upload : Uploads]
    BY <1>4 DEF Workbook!Analyzed, RequestsInv, Workbook!Idle
  <2> QED BY <1>4, <2>1 DEF Workbook!Analyzed, RequestsInv
<1>5. CASE Workbook!AnalysisFails
  BY <1>5 DEF Workbook!AnalysisFails, RequestsInv
<1>6. CASE Workbook!ShowAnalysis
  BY <1>6 DEF Workbook!ShowAnalysis, Workbook!server, RequestsInv
<1>7. ASSUME NEW u \in Uploads, Workbook!Receive(u) PROVE RequestsInv'
  <2>1. analysis \in [at : {"sent"}, project : Projects]
    BY <1>7 DEF Workbook!Receive, RequestsInv, Workbook!Idle
  <2> QED BY <1>7, <2>1 DEF Workbook!Receive, RequestsInv
<1>8. ASSUME NEW g \in Generations, Workbook!ClickGenerate(g) PROVE RequestsInv'
  BY <1>8 DEF Workbook!ClickGenerate, Workbook!server, RequestsInv, TabInv
<1>9. ASSUME NEW g \in Generations, Workbook!Take(g) PROVE RequestsInv'
  BY <1>9 DEF Workbook!Take, RequestsInv, Workbook!Idle
<1>10. ASSUME NEW g \in Generations, Workbook!Generated(g) PROVE RequestsInv'
  BY <1>10 DEF Workbook!Generated, RequestsInv, Workbook!Idle
<1>11. ASSUME NEW g \in Generations, Workbook!ShowGeneration(g) PROVE RequestsInv'
  BY <1>11 DEF Workbook!ShowGeneration, Workbook!server, RequestsInv
<1>12. CASE UNCHANGED Workbook!vars
  BY <1>12 DEF Workbook!vars, Workbook!server, RequestsInv, Workbook!Idle
<1> QED BY <1>1, <1>2, <1>3, <1>4, <1>5, <1>6, <1>7, <1>8, <1>9, <1>10, <1>11, <1>12 DEF Workbook!Next

(* Every step keeps what the tab shows.                                    *)
LEMMA TabStep ==
  ASSUME RequestsInv, TabInv, [Workbook!Next]_Workbook!vars
  PROVE  TabInv'
<1>1. CASE \E p \in Projects : Workbook!SwitchProject(p)
  BY <1>1 DEF Workbook!SwitchProject, TabInv
<1>2. CASE \E cases \in SUBSET Cases : Workbook!Select(cases)
  BY <1>2 DEF Workbook!Select, Workbook!Show, TabInv
<1>3. CASE Workbook!ShowAnalysis
  <2>1. CASE analysis.at = "answered"
    <3>1. analysis \in [at : {"answered"}, upload : Uploads]
      BY <2>1 DEF RequestsInv, Workbook!Idle
    <3>2. Workbook!Show(analysis.upload, analysis.upload, {})
      BY <1>3, <2>1 DEF Workbook!ShowAnalysis
    <3> QED BY <3>1, <3>2 DEF Workbook!Show, TabInv
  <2>2. CASE analysis.at # "answered"
    BY <1>3, <2>2 DEF Workbook!ShowAnalysis, Workbook!Show, TabInv
  <2> QED BY <2>1, <2>2
<1>4. ASSUME NEW g \in Generations, Workbook!ClickGenerate(g) PROVE TabInv'
  BY <1>4 DEF Workbook!ClickGenerate, TabInv
<1>5. ASSUME NEW g \in Generations, Workbook!ShowGeneration(g) PROVE TabInv'
  BY <1>5 DEF Workbook!ShowGeneration, Workbook!Show, TabInv
<1>6. CASE UNCHANGED Workbook!tab
  BY <1>6 DEF Workbook!tab, TabInv
<1> QED
  BY <1>1, <1>2, <1>3, <1>4, <1>5, <1>6
  DEF Workbook!Next, Workbook!ClickAnalyze, Workbook!Analyzed, Workbook!AnalysisFails, Workbook!Receive,
      Workbook!Take, Workbook!Generated, Workbook!vars

(* Where no generator begins or ends, the uploads they run on stay.        *)
LEMMA ServedStays ==
  ASSUME RequestsInv, RequestsInv',
         \A g \in Generations : \/ generation'[g] = generation[g]
                                \/ generation[g].at # "generating" /\ generation'[g].at # "generating"
  PROVE  /\ Served' = Served /\ Workbook!Running' = Workbook!Running
         /\ \A g \in Workbook!Running : generation'[g] = generation[g]
  BY DEF Served, Workbook!Running

(* The server's books survive what leaves them and the generators alone.   *)
LEMMA DirectoriesStay ==
  ASSUME DirectoriesInv, UNCHANGED <<stored, directories, strayed>>, Analyzing' = Analyzing, Served' = Served,
         Workbook!Running' = Workbook!Running, \A g \in Workbook!Running : generation'[g] = generation[g]
  PROVE  DirectoriesInv'
  BY DEF DirectoriesInv

(* The server takes an upload out of its books once, for one generator.    *)
LEMMA TakeKeepsDirectories ==
  ASSUME RequestsInv, RequestsInv', DirectoriesInv, NEW g \in Generations, Workbook!Take(g)
  PROVE  DirectoriesInv'
<1> DEFINE u == generation[g].upload
           own == u \in DOMAIN stored /\ stored[u] = generation[g].project
<1>1. generation[g].at = "sent" /\ generation[g] \in [at : {"sent"}, upload : Uploads, project : Projects]
  BY DEF Workbook!Take, RequestsInv, Workbook!Idle
<1>2. /\ generation'[g].upload = u /\ generation'[g].at = IF own THEN "generating" ELSE "refused"
      /\ \A h \in Generations \ {g} : generation'[h] = generation[h]
  BY <1>1 DEF Workbook!Take, RequestsInv
<1>3. /\ directories' = directories /\ Analyzing' = Analyzing
      /\ DOMAIN stored' = DOMAIN stored \ {u}
      /\ strayed' = IF u \in DOMAIN stored /\ ~own THEN strayed \cup {u} ELSE strayed
  BY DEF Workbook!Take, Workbook!Taken, Analyzing
<1>4. CASE own
  <2>1. Workbook!Running' = Workbook!Running \cup {g} /\ g \notin Workbook!Running
    BY <1>1, <1>2, <1>4 DEF Workbook!Running
  <2>2. Served' = Served \cup {u}
    BY <1>1, <1>2, <2>1 DEF Served, Workbook!Running
  <2>3. \A h, k \in Workbook!Running' : generation'[h].upload = generation'[k].upload => h = k
    <3> SUFFICES ASSUME NEW h \in Workbook!Running', NEW k \in Workbook!Running',
                        generation'[h].upload = generation'[k].upload
                 PROVE  h = k
      OBVIOUS
    <3>1. \A m \in Workbook!Running : generation'[m].upload = generation[m].upload /\ generation[m].upload # u
      BY <1>1, <1>2, <1>4, <2>1 DEF DirectoriesInv, Served, Workbook!Running
    <3> QED BY <1>2, <2>1, <3>1 DEF DirectoriesInv
  <2> QED BY <1>3, <1>4, <2>2, <2>3 DEF DirectoriesInv
<1>5. CASE ~own
  <2>1. \A h \in Generations : \/ generation'[h] = generation[h]
                               \/ generation[h].at # "generating" /\ generation'[h].at # "generating"
    BY <1>1, <1>2, <1>5
  <2> HIDE DEF u, own
  <2>2. /\ Served' = Served /\ Workbook!Running' = Workbook!Running
        /\ \A h \in Workbook!Running : generation'[h] = generation[h]
    BY <2>1, ServedStays
  <2> QED BY <1>3, <1>5, <2>2 DEF DirectoriesInv
<1> QED BY <1>4, <1>5

(* A generator that ends takes the directory of its own upload with it, and *)
(* no other request is served from that one.                               *)
LEMMA GeneratedKeepsDirectories ==
  ASSUME RequestsInv, RequestsInv', DirectoriesInv, NEW g \in Generations, Workbook!Generated(g)
  PROVE  DirectoriesInv'
<1> DEFINE u == generation[g].upload
<1>1. generation[g].at = "generating" /\ g \in Workbook!Running /\ u \in Served
  BY DEF Workbook!Generated, Workbook!Running, Served
<1>2. /\ generation'[g].at # "generating"
      /\ \A h \in Generations \ {g} : generation'[h] = generation[h]
  BY <1>1 DEF Workbook!Generated, RequestsInv, Workbook!Idle
<1>3. directories' = directories \ {u} /\ Analyzing' = Analyzing /\ UNCHANGED <<stored, strayed>>
  BY DEF Workbook!Generated, Analyzing
<1>4. Workbook!Running' = Workbook!Running \ {g}
  BY <1>2 DEF Workbook!Running
<1>5. Served' = Served \ {u}
  BY <1>1, <1>2, <1>4 DEF Served, Workbook!Running, DirectoriesInv
<1>6. \A h, k \in Workbook!Running' : generation'[h].upload = generation'[k].upload => h = k
  BY <1>2, <1>4 DEF DirectoriesInv, Workbook!Running
<1> HIDE DEF u
<1> QED BY <1>1, <1>3, <1>5, <1>6 DEF DirectoriesInv

(* Every step keeps the books of the directories.                          *)
LEMMA DirectoriesStep ==
  ASSUME RequestsInv, RequestsInv', DirectoriesInv, [Workbook!Next]_Workbook!vars
  PROVE  DirectoriesInv'
<1>1. ASSUME UNCHANGED <<generation, stored, directories, strayed>>,
             analysis' = analysis \/ (analysis.at # "analyzing" /\ analysis'.at # "analyzing")
      PROVE  DirectoriesInv'
  BY <1>1 DEF DirectoriesInv, Served, Analyzing, Workbook!Running
<1>2. CASE \E p \in Projects : Workbook!SwitchProject(p)
  BY <1>1, <1>2 DEF Workbook!SwitchProject, Workbook!server
<1>3. CASE \E cases \in SUBSET Cases : Workbook!Select(cases)
  BY <1>1, <1>3 DEF Workbook!Select, Workbook!server
<1>4. CASE Workbook!ClickAnalyze
  BY <1>1, <1>4 DEF Workbook!ClickAnalyze, Workbook!server, Workbook!Idle
<1>5. CASE Workbook!ShowAnalysis
  BY <1>1, <1>5 DEF Workbook!ShowAnalysis, Workbook!server, Workbook!Idle
<1>6. CASE UNCHANGED Workbook!vars
  BY <1>1, <1>6 DEF Workbook!vars, Workbook!server
<1>7. CASE Workbook!Analyzed
  <2>1. /\ Analyzing = {analysis.upload} /\ Analyzing' = {}
        /\ DOMAIN stored' = DOMAIN stored \cup {analysis.upload}
        /\ UNCHANGED <<generation, directories, strayed>>
    BY <1>7 DEF Workbook!Analyzed, Analyzing
  <2> QED BY <2>1 DEF DirectoriesInv, Served, Workbook!Running
<1>8. CASE Workbook!AnalysisFails
  <2>1. /\ Analyzing = {analysis.upload} /\ Analyzing' = {}
        /\ directories' = directories \ {analysis.upload}
        /\ UNCHANGED <<generation, stored, strayed>>
    BY <1>8 DEF Workbook!AnalysisFails, Analyzing
  <2> QED BY <2>1 DEF DirectoriesInv, Served, Workbook!Running
<1>9. ASSUME NEW u \in Uploads, Workbook!Receive(u) PROVE DirectoriesInv'
  <2>1. /\ Analyzing = {} /\ Analyzing' = {u} /\ u \notin directories
        /\ directories' = directories \cup {u}
        /\ UNCHANGED <<generation, stored, strayed>>
    BY <1>9 DEF Workbook!Receive, Workbook!Used, Analyzing
  <2> QED BY <2>1 DEF DirectoriesInv, Served, Workbook!Running
<1>10. ASSUME NEW g \in Generations, Workbook!ClickGenerate(g) \/ Workbook!ShowGeneration(g)
       PROVE  DirectoriesInv'
  <2>1. /\ generation[g].at # "generating" /\ generation'[g].at # "generating"
        /\ \A h \in Generations \ {g} : generation'[h] = generation[h]
    BY <1>10 DEF Workbook!ClickGenerate, Workbook!ShowGeneration, Workbook!Idle, RequestsInv
  <2>2. UNCHANGED <<analysis, stored, directories, strayed>>
    BY <1>10 DEF Workbook!ClickGenerate, Workbook!ShowGeneration, Workbook!server
  <2>3. /\ Served' = Served /\ Workbook!Running' = Workbook!Running
        /\ \A h \in Workbook!Running : generation'[h] = generation[h]
    BY <2>1, ServedStays
  <2>4. Analyzing' = Analyzing
    BY <2>2 DEF Analyzing
  <2> QED BY <2>2, <2>3, <2>4, DirectoriesStay
<1> QED
  BY <1>2, <1>3, <1>4, <1>5, <1>6, <1>7, <1>8, <1>9, <1>10, TakeKeepsDirectories, GeneratedKeepsDirectories
  DEF Workbook!Next

(* However analyses, generations and changes of the project overlap: a     *)
(* generator has its workbook on disk as long as it runs, and what is      *)
(* selected belongs to the workbook that is listed.                        *)
THEOREM WorkbookStays == Workbook!Spec => []Workbook!WorkbookIsThere
<1>1. Workbook!Init => RequestsInv /\ TabInv /\ DirectoriesInv
  BY DEF Workbook!Init, RequestsInv, TabInv, DirectoriesInv, Served, Analyzing, Workbook!Running, Workbook!Idle
<1>2. RequestsInv /\ TabInv /\ DirectoriesInv /\ [Workbook!Next]_Workbook!vars
        => (RequestsInv /\ TabInv /\ DirectoriesInv)'
  BY RequestsStep, TabStep, DirectoriesStep
<1>3. TabInv /\ DirectoriesInv => Workbook!WorkbookIsThere
  BY DEF TabInv, DirectoriesInv, Served, Analyzing, Workbook!WorkbookIsThere, Workbook!GeneratorHasWorkbook,
         Workbook!SelectionIsListed
<1> QED BY <1>1, <1>2, <1>3, PTL DEF Workbook!Spec
-----------------------------------------------------------------------------
Places ==
  {"idle", "promising", "subscribing", "connecting", "publishing", "looking", "waiting", "leaving",
   "unsubscribing", "passed", "failed"}

(* A message on its way during a step is of the step's topic, or of one    *)
(* that was left subscribed.                                               *)
Fits(m) == m.stray \/ \A s \in m.during : m.topic = Mqtt!Topic(s)

(* What the broker has for a step that runs.                               *)
Held == subscribed \ strays

(* Where the steps are; one that waits waits for the promise of a step.    *)
PlacesInv ==
  /\ pc \in [MqttSteps -> Places]
  /\ pending \in MqttSteps \cup {None}
  /\ aim \in [MqttSteps -> MqttSteps \cup {None}]
  /\ \A s \in MqttSteps : pc[s] = "waiting" => aim[s] \in MqttSteps
  /\ \A s \in MqttSteps : pc[s] \in {"promising", "subscribing"} => Mqtt!Waits(s)
  /\ DOMAIN promise = MqttSteps /\ DOMAIN got = MqttSteps
  /\ connection = None => subscribed = {}

(* Of steps that follow each other one runs, and what the broker has for   *)
(* the connection is at most the topic of that one, once it has asked for  *)
(* it, beside those that were left subscribed.                             *)
TopicsInv ==
  ~overlap =>
    /\ \A s, t \in Mqtt!Running : s = t
    /\ \A t \in Held : \E s \in Mqtt!Running :
         t = Mqtt!Topic(s) /\ Mqtt!Waits(s) /\ pc[s] \notin {"promising", "subscribing"}

(* Every message, on its way, in a promise or returned, fits.              *)
MailInv ==
  ~overlap =>
    /\ \A m \in mail : Fits(m)
    /\ \A s \in MqttSteps : promise[s] # None => Fits(promise[s])
    /\ \A s \in MqttSteps : got[s] # None => Fits(got[s])

(* Every step keeps the places, and nothing changes the plan.              *)
LEMMA PlacesStep ==
  ASSUME PlacesInv, [Mqtt!Next]_Mqtt!vars
  PROVE  PlacesInv' /\ UNCHANGED <<plan, overlap>>
<1> USE DEF PlacesInv, Places, Mqtt!link, Mqtt!Closed, Mqtt!step, Mqtt!Go, Mqtt!At, Mqtt!Waits
<1>1. CASE Mqtt!Received
  BY <1>1 DEF Mqtt!Received
<1>2. CASE Mqtt!Disconnect \/ (\E t \in Topics : Mqtt!PeerPublishes(t)) \/ UNCHANGED Mqtt!vars
  BY <1>2 DEF Mqtt!Disconnect, Mqtt!PeerPublishes, Mqtt!vars
<1>3. ASSUME NEW s \in MqttSteps, Mqtt!Step(s) PROVE PlacesInv' /\ UNCHANGED <<plan, overlap>>
  <2>1. CASE Mqtt!Connect(s)
    BY <2>1 DEF Mqtt!Connect, Mqtt!Connected, Mqtt!MayBegin
  <2>2. CASE Mqtt!Refuse(s)
    BY <2>2 DEF Mqtt!Refuse, Mqtt!MayBegin
  <2>3. CASE Mqtt!MakePromise(s)
    BY <2>3 DEF Mqtt!MakePromise
  <2>4. CASE Mqtt!Subscribe(s)
    BY <2>4 DEF Mqtt!Subscribe
  <2>5. CASE Mqtt!Reconnect(s)
    BY <2>5 DEF Mqtt!Reconnect, Mqtt!Connected
  <2>6. CASE Mqtt!Publish(s)
    BY <2>6 DEF Mqtt!Publish
  <2>7. CASE Mqtt!Look(s)
    BY <2>7 DEF Mqtt!Look
  <2>8. CASE Mqtt!Got(s)
    BY <2>8 DEF Mqtt!Got
  <2>9. CASE Mqtt!TimeOut(s)
    BY <2>9 DEF Mqtt!TimeOut
  <2>10. CASE Mqtt!Leave(s)
    BY <2>10 DEF Mqtt!Leave
  <2>11. CASE Mqtt!Unsubscribe(s)
    BY <2>11 DEF Mqtt!Unsubscribe
  <2> QED BY <1>3, <2>1, <2>2, <2>3, <2>4, <2>5, <2>6, <2>7, <2>8, <2>9, <2>10, <2>11 DEF Mqtt!Step
<1> QED BY <1>1, <1>2, <1>3 DEF Mqtt!Next

(* A step that goes from one place to another.                             *)
LEMMA RunningAfter ==
  ASSUME PlacesInv, NEW s \in MqttSteps, NEW to \in Places, Mqtt!Go(s, to)
  PROVE  Mqtt!Running' = IF to \in {"idle", "passed", "failed"} THEN Mqtt!Running \ {s}
                         ELSE Mqtt!Running \cup {s}
<1>1. pc'[s] = to /\ \A t \in MqttSteps \ {s} : pc'[t] = pc[t]
  BY DEF PlacesInv, Mqtt!Go
<1> QED BY <1>1 DEF Mqtt!Running, Mqtt!Ended

(* Every step keeps the subscriptions those of the one step that runs.     *)
LEMMA TopicsStep ==
  ASSUME PlacesInv, TopicsInv, [Mqtt!Next]_Mqtt!vars, ~overlap
  PROVE  TopicsInv'
<1>0. UNCHANGED <<plan, overlap>> /\ \A s : UNCHANGED <<Mqtt!Topic(s), Mqtt!Waits(s)>>
  BY PlacesStep DEF Mqtt!Topic, Mqtt!Waits
<1>1. CASE UNCHANGED pc /\ Held' \subseteq Held
  BY <1>0, <1>1 DEF TopicsInv, Mqtt!Running, Mqtt!Ended
<1>2. CASE Mqtt!Received \/ Mqtt!Disconnect \/ (\E t \in Topics : Mqtt!PeerPublishes(t)) \/ UNCHANGED Mqtt!vars
  BY <1>1, <1>2 DEF Mqtt!Received, Mqtt!Disconnect, Mqtt!Closed, Mqtt!PeerPublishes, Mqtt!vars, Mqtt!step,
                    Mqtt!link, Held
<1>3. ASSUME NEW s \in MqttSteps, Mqtt!Step(s) PROVE TopicsInv'
  <2> DEFINE Late == Places \ {"idle", "passed", "failed", "promising", "subscribing"}
  <2>0. \A to \in Places : Mqtt!Go(s, to) => pc'[s] = to
    BY DEF Mqtt!Go, PlacesInv
  <2>1. ASSUME s \in Mqtt!Running, NEW to \in Late, Mqtt!Go(s, to), Held' \subseteq Held \cup {Mqtt!Topic(s)},
               Mqtt!Waits(s) \/ Held' \subseteq Held
        PROVE  TopicsInv'
    <3>1. Mqtt!Running' = Mqtt!Running /\ pc'[s] = to
      BY <2>0, <2>1, RunningAfter
    <3>2. \A r \in Mqtt!Running : r = s
      BY <2>1 DEF TopicsInv
    <3> QED BY <1>0, <2>1, <3>1, <3>2 DEF TopicsInv
  <2>2. ASSUME Held' = {}, NEW to \in Places, Mqtt!Go(s, to), Mqtt!Running \subseteq {s}
        PROVE  TopicsInv'
    <3>1. Mqtt!Running' \subseteq {s}
      BY <2>2, RunningAfter
    <3> QED BY <2>2, <3>1 DEF TopicsInv
  <2>3. /\ pc[s] # "idle" /\ ~Mqtt!Ended(s) => s \in Mqtt!Running
        /\ s \in Mqtt!Running => Mqtt!Running \subseteq {s}
        /\ (\A r \in Mqtt!Running : r = s /\ (~Mqtt!Waits(s) \/ pc[s] \in {"promising", "subscribing"})) => Held = {}
    BY DEF Mqtt!Running, TopicsInv
  <2>4. CASE Mqtt!Connect(s)
    <3>1. Mqtt!Running = {} /\ Held' = {}
      BY <2>3, <2>4 DEF Mqtt!Connect, Mqtt!MayBegin, Mqtt!Connected, Mqtt!Closed, Mqtt!link, Held
    <3> QED BY <2>2, <2>4, <3>1 DEF Mqtt!Connect, Places
  <2>5. CASE Mqtt!Refuse(s)
    <3>1. Held' = {} /\ Mqtt!Running \subseteq {s}
      BY <2>3, <2>5 DEF Mqtt!Refuse, Mqtt!Closed, Mqtt!MayBegin, Mqtt!At, Mqtt!Ended, Held
    <3> QED BY <2>2, <2>5, <3>1 DEF Mqtt!Refuse, Places
  <2>6. CASE Mqtt!MakePromise(s)
    <3>1. s \in Mqtt!Running /\ pc[s] = "promising" /\ Held' = Held
      BY <2>3, <2>6 DEF Mqtt!MakePromise, Mqtt!link, Mqtt!At, Mqtt!Ended, Held
    <3>2. Held' = {} /\ Mqtt!Running \subseteq {s}
      BY <2>3, <3>1
    <3> QED BY <2>2, <2>6, <3>2 DEF Mqtt!MakePromise, Places
  <2>7. CASE Mqtt!Subscribe(s)
    <3>1. s \in Mqtt!Running /\ Mqtt!Waits(s) /\ pc[s] = "subscribing"
      BY <2>3, <2>7 DEF Mqtt!Subscribe, Mqtt!At, Mqtt!Ended, PlacesInv
    <3>2. Held = {} /\ Mqtt!Running \subseteq {s}
      BY <2>3, <3>1
    <3>3. PICK taken, heard \in BOOLEAN :
            /\ subscribed' = IF taken THEN subscribed \cup {Mqtt!Topic(s)} ELSE subscribed
            /\ strays' = IF taken /\ ~heard THEN strays \cup {Mqtt!Topic(s)} ELSE strays
            /\ Mqtt!Go(s, IF ~heard THEN "failed"
                          ELSE IF plan[s].action = "roundtrip" THEN "connecting" ELSE "looking")
      BY <2>7 DEF Mqtt!Subscribe
    <3>4. CASE ~heard
      <4>1. Held' = {} /\ Mqtt!Go(s, "failed") /\ "failed" \in Places
        BY <3>2, <3>3, <3>4 DEF Held, Places
      <4> QED BY <2>2, <3>2, <4>1
    <3>5. CASE heard
      <4>1. Held' \subseteq Held \cup {Mqtt!Topic(s)}
        BY <3>3, <3>5 DEF Held
      <4>2. PICK to \in Late : Mqtt!Go(s, to)
        BY <3>3, <3>5 DEF Places
      <4> QED BY <2>1, <3>1, <4>1, <4>2
    <3> QED BY <3>4, <3>5
  <2>8. CASE Mqtt!Reconnect(s)
    <3>1. s \in Mqtt!Running /\ Held' \subseteq Held
      BY <2>3, <2>8 DEF Mqtt!Reconnect, Mqtt!Connected, Mqtt!Closed, Mqtt!link, Mqtt!At, Mqtt!Ended, Held
    <3> QED BY <2>1, <2>8, <3>1 DEF Mqtt!Reconnect, Places
  <2>9. CASE Mqtt!Publish(s)
    <3>1. s \in Mqtt!Running /\ Held' = Held
      BY <2>3, <2>9 DEF Mqtt!Publish, Mqtt!At, Mqtt!Ended, Held
    <3>2. CASE Mqtt!Waits(s)
      <4>1. PICK to \in Late : Mqtt!Go(s, to)
        BY <2>9, <3>2 DEF Mqtt!Publish, Places
      <4> QED BY <2>1, <3>1, <4>1
    <3>3. CASE ~Mqtt!Waits(s)
      <4>1. Held' = {} /\ Mqtt!Running \subseteq {s}
        BY <2>3, <3>1, <3>3
      <4>2. PICK to \in Places : Mqtt!Go(s, to)
        BY <2>9, <3>3 DEF Mqtt!Publish, Places
      <4> QED BY <2>2, <4>1, <4>2
    <3> QED BY <3>2, <3>3
  <2>10. CASE Mqtt!Look(s)
    <3>1. s \in Mqtt!Running /\ Held' = Held
      BY <2>3, <2>10 DEF Mqtt!Look, Mqtt!link, Mqtt!At, Mqtt!Ended, Held
    <3> QED BY <2>1, <2>10, <3>1 DEF Mqtt!Look, Places
  <2>11. CASE Mqtt!Got(s) \/ Mqtt!TimeOut(s) \/ Mqtt!Leave(s)
    <3>1. s \in Mqtt!Running /\ Held' = Held
      BY <2>3, <2>11 DEF Mqtt!Got, Mqtt!TimeOut, Mqtt!Leave, Mqtt!link, Mqtt!At, Mqtt!Ended, Held
    <3> QED BY <2>1, <2>11, <3>1 DEF Mqtt!Got, Mqtt!TimeOut, Mqtt!Leave, Places
  <2>12. CASE Mqtt!Unsubscribe(s)
    <3>1. s \in Mqtt!Running
      BY <2>3, <2>12 DEF Mqtt!Unsubscribe, Mqtt!At, Mqtt!Ended
    <3>2. Held \subseteq {Mqtt!Topic(s)} /\ Mqtt!Running \subseteq {s}
      BY <2>3, <3>1 DEF TopicsInv
    <3>3. Held' \subseteq Held \ {Mqtt!Topic(s)}
      BY <2>12 DEF Mqtt!Unsubscribe, Held
    <3>4. PICK to \in {"failed", "passed"} : Mqtt!Go(s, to)
      BY <2>12 DEF Mqtt!Unsubscribe
    <3> QED BY <2>2, <3>2, <3>3, <3>4 DEF Places
  <2> QED BY <1>3, <2>4, <2>5, <2>6, <2>7, <2>8, <2>9, <2>10, <2>11, <2>12 DEF Mqtt!Step
<1> QED BY <1>2, <1>3 DEF Mqtt!Next

(* A message that goes out to a topic the connection has fits.             *)
LEMMA SentFits ==
  ASSUME TopicsInv, ~overlap, NEW t \in subscribed, NEW by
  PROVE  Fits(Mqtt!Message(t, by))
  BY DEF TopicsInv, Fits, Mqtt!Message, Held

(* Every step keeps the messages fitting.                                  *)
LEMMA MailStep ==
  ASSUME PlacesInv, TopicsInv, MailInv, [Mqtt!Next]_Mqtt!vars, ~overlap
  PROVE  MailInv'
<1>0. ~overlap' /\ \A m : Fits(m)' <=> Fits(m)
  BY PlacesStep DEF Fits, Mqtt!Topic
<1>1. ASSUME mail' \subseteq mail, UNCHANGED <<promise, got>> PROVE MailInv'
  BY <1>0, <1>1 DEF MailInv
<1>2. CASE Mqtt!Received
  <2>1. PICK m \in mail : /\ mail' \subseteq mail /\ got' = got
                          /\ promise' = IF pending # None /\ promise[pending] = None
                                        THEN [promise EXCEPT ![pending] = m] ELSE promise
    BY <1>2 DEF Mqtt!Received, Mqtt!step
  <2>2. \A s \in MqttSteps : promise'[s] \in {promise[s], m}
    BY <2>1 DEF PlacesInv
  <2> QED BY <1>0, <2>1, <2>2 DEF MailInv
<1>3. ASSUME NEW t \in Topics, Mqtt!PeerPublishes(t) PROVE MailInv'
  <2>1. UNCHANGED <<promise, got>> /\ \A m \in mail' : m \in mail \/ (t \in subscribed /\ m = Mqtt!Message(t, None))
    BY <1>3 DEF Mqtt!PeerPublishes, Mqtt!step
  <2> QED BY <1>0, <2>1, SentFits DEF MailInv
<1>4. CASE Mqtt!Disconnect \/ UNCHANGED Mqtt!vars
  BY <1>1, <1>4 DEF Mqtt!Disconnect, Mqtt!Closed, Mqtt!vars, Mqtt!step, Mqtt!link
<1>5. ASSUME NEW s \in MqttSteps, Mqtt!Publish(s) PROVE MailInv'
  <2>1. /\ UNCHANGED <<promise, got>>
        /\ \A m \in mail' : m \in mail \/ (Mqtt!Topic(s) \in subscribed /\ m = Mqtt!Message(Mqtt!Topic(s), s))
    BY <1>5 DEF Mqtt!Publish
  <2> QED BY <1>0, <2>1, SentFits DEF MailInv
<1>6. ASSUME NEW s \in MqttSteps, Mqtt!Got(s) PROVE MailInv'
  <2>1. aim[s] \in MqttSteps /\ promise[aim[s]] # None /\ UNCHANGED <<promise, mail>>
    BY <1>6 DEF Mqtt!Got, Mqtt!At, Mqtt!link, PlacesInv
  <2>2. \A r \in MqttSteps : got'[r] \in {got[r], promise[aim[s]]}
    BY <1>6 DEF Mqtt!Got, PlacesInv
  <2> QED BY <1>0, <2>1, <2>2 DEF MailInv
<1>7. ASSUME NEW s \in MqttSteps, Mqtt!Unsubscribe(s) PROVE MailInv'
  <2>1. /\ UNCHANGED <<promise, mail>>
        /\ got' = got \/ got' = [got EXCEPT ![s] = None]
    BY <1>7 DEF Mqtt!Unsubscribe
  <2>2. \A r \in MqttSteps : got'[r] \in {got[r], None}
    BY <2>1 DEF PlacesInv
  <2> QED BY <1>0, <2>1, <2>2 DEF MailInv
<1>8. ASSUME NEW s \in MqttSteps, Mqtt!Step(s), ~Mqtt!Publish(s), ~Mqtt!Got(s), ~Mqtt!Unsubscribe(s)
      PROVE  MailInv'
  BY <1>1, <1>8
  DEF Mqtt!Step, Mqtt!Connect, Mqtt!Connected, Mqtt!Closed, Mqtt!Refuse, Mqtt!MakePromise, Mqtt!Subscribe,
      Mqtt!Reconnect, Mqtt!Look, Mqtt!TimeOut, Mqtt!Leave, Mqtt!link
<1> QED BY <1>2, <1>3, <1>4, <1>5, <1>6, <1>7, <1>8 DEF Mqtt!Next

(* MQTT steps that follow each other return a message of their own topic,  *)
(* whatever is published meanwhile and however late it is received, unless *)
(* it was on its way when the step began or the broker left an earlier     *)
(* step's SUBSCRIBE or UNSUBSCRIBE without an answer.                      *)
THEOREM MessagesCorrect == Mqtt!Spec => []Mqtt!OwnMessage
<1> DEFINE Inv == PlacesInv /\ TopicsInv /\ MailInv
<1>1. Mqtt!Init => Inv
  BY DEF Mqtt!Init, PlacesInv, Places, TopicsInv, MailInv, Mqtt!Running, Held
<1>2. Inv /\ [Mqtt!Next]_Mqtt!vars => Inv'
  <2> SUFFICES ASSUME Inv, [Mqtt!Next]_Mqtt!vars PROVE Inv'
    OBVIOUS
  <2>1. PlacesInv' /\ overlap' = overlap
    BY PlacesStep
  <2>2. CASE overlap
    BY <2>1, <2>2 DEF TopicsInv, MailInv
  <2>3. CASE ~overlap
    BY <2>1, <2>3, TopicsStep, MailStep
  <2> QED BY <2>2, <2>3
<1>3. Inv => Mqtt!OwnMessage
  BY DEF MailInv, Fits, Mqtt!OwnMessage
<1> QED BY <1>1, <1>2, <1>3, PTL DEF Mqtt!Spec
-----------------------------------------------------------------------------
Delivered == IF group = None THEN {} ELSE 1 .. group

(* Step s has the entry i: in its batch, or as what it returned.           *)
Has(s, i) == (\E j \in DOMAIN batch[s] : batch[s][j] = i) \/ (found[s] # None /\ found[s] = i)

(* The consumer c was given the entry i, as far as anyone still knows.     *)
Given(i, c) == <<i, c>> \in unacked \/ \E s \in Readers : reading[s].consumer = c /\ Has(s, i)

StreamTypeInv ==
  /\ stream \in Seq(Entries)
  /\ group \in {None} \cup 0 .. Len(stream)
  /\ unacked \subseteq Nat \X {reading[s].consumer : s \in Readers}
  /\ reader \in [Readers -> {"idle", "history", "new", "matching", "ended"}]
  /\ batch \in [Readers -> Seq(Nat)]
  /\ found \in [Readers -> Nat \cup {None}]
  /\ \A s \in Readers : reader[s] \in {"history", "new", "matching"} => group # None
  /\ \A s \in Readers : found[s] # None => reader[s] = "ended"

(* Only what was delivered is given, and each entry to one consumer.       *)
GivenInv ==
  /\ \A i, c : Given(i, c) => i \in Delivered
  /\ \A i, c, d : Given(i, c) /\ Given(i, d) => c = d

(* What was delivered is pending, or was returned and acknowledged, or     *)
(* acknowledged without an answer.                                         *)
PendingInv ==
  \A i \in Delivered :
    \/ \E u \in unacked : u[1] = i
    \/ \E s \in Readers : found[s] = i /\ reading[s].acks
    \/ i \in silent

(* A read hands new entries to the consumer, whether or not it answers.    *)
Delivers(s) == reader[s] = "new" /\ Redis!Deliver(s)

(* What the module of the stream counts with is the cardinality.           *)
LEMMA RedisCounts == \A S : Redis!Cardinality(S) = Cardinality(S)
  BY DEF Redis!Cardinality, Cardinality

(* What a step reads of the past its consumer was given before.            *)
LEMMA HistoryIsGiven ==
  ASSUME Redis!StreamAssumption, StreamTypeInv, NEW s \in Readers, Redis!ReadHistory(s)
  PROVE  \E past \in Seq(Nat) :
           /\ batch' = [batch EXCEPT ![s] = past]
           /\ \A j \in DOMAIN past : <<past[j], reading[s].consumer>> \in unacked
<1> DEFINE own == {i \in 1 .. Len(stream) : <<i, reading[s].consumer>> \in unacked}
           n == Redis!Least(Count, Redis!Cardinality(own))
<1>1. PICK past \in [1 .. n -> own] :
        /\ \A k \in DOMAIN past : {i \in own : i < past[k]} = {past[j] : j \in 1 .. k - 1}
        /\ batch' = [batch EXCEPT ![s] = past]
  BY DEF Redis!ReadHistory
<1>2. Len(stream) \in Nat
  BY LenProperties DEF StreamTypeInv
<1>3. n \in Nat
  <2>1. own \subseteq 1 .. Len(stream)
    OBVIOUS
  <2>2. IsFiniteSet(1 .. Len(stream))
    BY <1>2, FS_Interval
  <2>3. IsFiniteSet(own)
    BY <2>1, <2>2, FS_Subset
  <2>4. Cardinality(own) \in Nat
    BY <2>3, FS_CardinalityType
  <2>5. Redis!Cardinality(own) = Cardinality(own)
    BY RedisCounts
  <2> HIDE DEF own
  <2> QED BY <2>4, <2>5 DEF Redis!Least, Redis!StreamAssumption
<1>4. own \subseteq Nat /\ \A i \in own : <<i, reading[s].consumer>> \in unacked
  BY <1>2
<1> HIDE DEF own, n
<1>5. past \in [1 .. n -> Nat] /\ DOMAIN past = 1 .. n /\ \A j \in 1 .. n : past[j] \in own
  BY <1>1, <1>4
<1>6. past \in Seq(Nat)
  BY <1>3, <1>5, SeqDef
<1> QED BY <1>1, <1>4, <1>5, <1>6

(* What is delivered: the entries after the last one delivered.            *)
LEMMA DeliversNext ==
  ASSUME Redis!StreamAssumption, StreamTypeInv, NEW s \in Readers, Delivers(s)
  PROVE  /\ group \in Nat /\ group # None
         /\ group' \in group .. Len(stream) /\ Len(stream) \in Nat
         /\ group' = Redis!Last /\ group' - group \in Nat
         /\ \A u : u \in unacked' <=> u \in unacked \/ \E i \in group + 1 .. group' : u = <<i, reading[s].consumer>>
<1>1. Len(stream) \in Nat /\ group \in 0 .. Len(stream) /\ group # None
  BY LenProperties DEF Delivers, StreamTypeInv
<1>2. Redis!Last \in group .. Len(stream) /\ Redis!Last - group \in Nat
  BY <1>1 DEF Redis!Last, Redis!Least, Redis!StreamAssumption
<1>3. group' = Redis!Last /\ unacked' = unacked \cup {<<i, reading[s].consumer>> : i \in group + 1 .. Redis!Last}
  BY DEF Delivers, Redis!Deliver
<1>4. \A u : u \in unacked' <=> u \in unacked \/ \E i \in group + 1 .. group' : u = <<i, reading[s].consumer>>
  BY <1>3
<1>5. group \in Nat /\ group' \in group .. Len(stream) /\ group' - group \in Nat
  BY <1>1, <1>2, <1>3
<1> QED BY Zenon, <1>1, <1>3, <1>4, <1>5

(* What a step reads anew is what is delivered.                            *)
LEMMA NewIsNext ==
  ASSUME Redis!StreamAssumption, StreamTypeInv, NEW s \in Readers, Redis!ReadNew(s)
  PROVE  /\ Delivers(s)
         /\ \E new \in Seq(Nat) :
              /\ batch' = [batch EXCEPT ![s] = new]
              /\ \A j \in DOMAIN new : new[j] \in group + 1 .. group'
<1> DEFINE new == [i \in 1 .. Redis!Last - group |-> group + i]
<1>1. Delivers(s) /\ batch' = [batch EXCEPT ![s] = new]
  BY DEF Redis!ReadNew, Delivers
<1>2. group \in Nat /\ group' = Redis!Last /\ Redis!Last - group \in Nat
  BY <1>1, DeliversNext
<1>3. Redis!Last \in Nat
  <2>1. group' \in group .. Len(stream) /\ Len(stream) \in Nat
    BY <1>1, DeliversNext
  <2> QED BY <1>2, <2>1
<1>4. new \in [1 .. Redis!Last - group -> Nat]
      /\ \A j \in 1 .. Redis!Last - group : new[j] \in group + 1 .. Redis!Last
  BY <1>2, <1>3
<1>5. new \in Seq(Nat)
  BY <1>2, <1>4, SeqDef
<1>6. \A j \in DOMAIN new : new[j] \in group + 1 .. group'
  BY <1>2, <1>4
<1> HIDE DEF new
<1> QED BY <1>1, <1>5, <1>6

(* Every step keeps the types, and nothing changes the plan.               *)
LEMMA StreamTypeStep ==
  ASSUME Redis!StreamAssumption, StreamTypeInv, [Redis!Next]_Redis!vars
  PROVE  StreamTypeInv' /\ reading' = reading
<1> USE DEF StreamTypeInv, Redis!StreamAssumption, Redis!redis, Redis!Go
<1>1. ASSUME NEW e \in Entries, Redis!Add(e) PROVE StreamTypeInv' /\ reading' = reading
  <2>1. stream' \in Seq(Entries) /\ Len(stream') = Len(stream) + 1
    BY <1>1, AppendProperties DEF Redis!Add
  <2>2. Len(stream) \in Nat
    BY LenProperties
  <2>3. group' \in {None} \cup 0 .. Len(stream')
    BY <1>1, <2>1, <2>2 DEF Redis!Add
  <2> QED BY <1>1, <2>1, <2>3 DEF Redis!Add
<1>2. ASSUME NEW s \in Readers, Redis!EnsureGroup(s) PROVE StreamTypeInv' /\ reading' = reading
  <2>1. Len(stream) \in Nat
    BY LenProperties
  <2> QED BY <1>2, <2>1 DEF Redis!EnsureGroup
<1>3. ASSUME NEW s \in Readers, Redis!EnsureFails(s) PROVE StreamTypeInv' /\ reading' = reading
  <2>1. Len(stream) \in Nat
    BY LenProperties
  <2> QED BY <1>3, <2>1 DEF Redis!EnsureFails
<1>4. ASSUME NEW s \in Readers, Redis!ReadHistory(s) PROVE StreamTypeInv' /\ reading' = reading
  <2>1. PICK past \in Seq(Nat) : batch' = [batch EXCEPT ![s] = past]
    BY <1>4, HistoryIsGiven
  <2>2. reader' = [reader EXCEPT ![s] = "matching"] /\ reader[s] = "history" /\ UNCHANGED <<reading, stream, group, unacked, found>>
    BY <1>4 DEF Redis!ReadHistory
  <2> QED BY <2>1, <2>2
<1>5. ASSUME NEW s \in Readers, Delivers(s)
       PROVE  /\ group' \in 0 .. Len(stream) /\ group' # None
              /\ unacked' \subseteq Nat \X {reading[t].consumer : t \in Readers}
  <2>1. group' \in 0 .. Len(stream) /\ group' # None
    BY <1>5, DeliversNext
  <2>2. ASSUME NEW u \in unacked' PROVE u \in Nat \X {reading[t].consumer : t \in Readers}
    <3>1. CASE u \in unacked
      BY <3>1
    <3>2. ASSUME NEW i \in group + 1 .. group', u = <<i, reading[s].consumer>>
          PROVE  u \in Nat \X {reading[t].consumer : t \in Readers}
      <4>1. i \in Nat
        BY <1>5, <3>2, DeliversNext
      <4> QED BY <3>2, <4>1
    <3> QED BY <1>5, <2>2, <3>1, <3>2, DeliversNext
  <2> QED BY <2>1, <2>2
<1>6. ASSUME NEW s \in Readers, Redis!ReadNew(s) PROVE StreamTypeInv' /\ reading' = reading
  <2>1. PICK new \in Seq(Nat) : batch' = [batch EXCEPT ![s] = new]
    BY <1>6, NewIsNext
  <2>2. reader' = [reader EXCEPT ![s] = "matching"] /\ reader[s] = "new" /\ UNCHANGED <<reading, stream, found>>
    BY <1>6 DEF Redis!ReadNew
  <2>3. /\ group' \in 0 .. Len(stream) /\ group' # None
        /\ unacked' \subseteq Nat \X {reading[t].consumer : t \in Readers}
    BY <1>6, <1>5, NewIsNext
  <2> QED BY <2>1, <2>2, <2>3
<1>7. ASSUME NEW s \in Readers, Redis!ReadFails(s) PROVE StreamTypeInv' /\ reading' = reading
  <2>1. /\ reader' = [reader EXCEPT ![s] = "ended"] /\ UNCHANGED <<reading, stream, batch, found>>
        /\ reader[s] \in {"history", "new"}
    BY <1>7 DEF Redis!ReadFails
  <2>2. CASE UNCHANGED <<group, unacked>>
    BY <2>1, <2>2
  <2>3. CASE Delivers(s)
    <3>1. /\ group' \in 0 .. Len(stream) /\ group' # None
          /\ unacked' \subseteq Nat \X {reading[t].consumer : t \in Readers}
      BY <1>5, <2>3
    <3> QED BY <2>1, <3>1
  <2> QED BY <1>7, <2>2, <2>3 DEF Redis!ReadFails, Delivers
<1>8. ASSUME NEW s \in Readers, Redis!Skip(s) PROVE StreamTypeInv' /\ reading' = reading
  <2>1. Tail(batch[s]) \in Seq(Nat)
    BY <1>8, HeadTailProperties DEF Redis!Skip
  <2> QED BY <1>8, <2>1 DEF Redis!Skip
<1>9. ASSUME NEW s \in Readers, Redis!Return(s) PROVE StreamTypeInv' /\ reading' = reading
  <2>1. Head(batch[s]) \in Nat /\ <<>> \in Seq(Nat)
    BY <1>9, HeadTailProperties, EmptySeq DEF Redis!Return
  <2>2. unacked' \subseteq unacked
    BY <1>9 DEF Redis!Return
  <2> QED BY <1>9, <2>1, <2>2 DEF Redis!Return
<1>10. ASSUME NEW s \in Readers, Redis!AcknowledgeFails(s) PROVE StreamTypeInv' /\ reading' = reading
  <2>1. <<>> \in Seq(Nat)
    BY EmptySeq
  <2>2. unacked' \subseteq unacked
    BY <1>10 DEF Redis!AcknowledgeFails
  <2> QED BY <1>10, <2>1, <2>2 DEF Redis!AcknowledgeFails
<1>11. ASSUME NEW s \in Readers, Redis!Fail(s) \/ Redis!Again(s) \/ Redis!TimeOut(s)
      PROVE  StreamTypeInv' /\ reading' = reading
  <2>1. <<>> \in Seq(Nat)
    BY EmptySeq
  <2>2. CASE Redis!Fail(s)
    BY <2>1, <2>2 DEF Redis!Fail
  <2>3. CASE Redis!Again(s)
    BY <2>3 DEF Redis!Again
  <2>4. CASE Redis!TimeOut(s)
    BY <2>4 DEF Redis!TimeOut
  <2> QED BY <1>11, <2>2, <2>3, <2>4
<1>12. CASE UNCHANGED Redis!vars
  BY <1>12 DEF Redis!vars
<1> QED BY <1>1, <1>2, <1>3, <1>4, <1>6, <1>7, <1>8, <1>9, <1>10, <1>11, <1>12 DEF Redis!Next

(* A step of s that hands nothing to a consumer that was not handed before. *)
LEMMA NothingNew ==
  ASSUME GivenInv, reading' = reading, NEW s \in Readers,
         \A i, c : <<i, c>> \in unacked' => <<i, c>> \in unacked,
         \A t \in Readers \ {s} : batch'[t] = batch[t] /\ found'[t] = found[t],
         \A i : Has(s, i)' => Given(i, reading[s].consumer),
         Delivered' = Delivered
  PROVE  GivenInv'
<1>1. \A t \in Readers \ {s} : \A i : Has(t, i)' => Has(t, i)
  BY DEF Has
<1>2. \A i, c : Given(i, c)' => Given(i, c)
  BY <1>1 DEF Given
<1> QED BY <1>2 DEF GivenInv

(* Every step keeps each entry with one consumer.                          *)
LEMMA GivenStep ==
  ASSUME Redis!StreamAssumption, StreamTypeInv, GivenInv, [Redis!Next]_Redis!vars
  PROVE  GivenInv'
<1>0. reading' = reading
  BY StreamTypeStep
<1>1. ASSUME UNCHANGED <<unacked, batch, found>>, Delivered' = Delivered PROVE GivenInv'
  BY <1>0, <1>1 DEF GivenInv, Given, Has
<1>2. CASE (\E e \in Entries : Redis!Add(e)) \/ UNCHANGED Redis!vars
  BY <1>1, <1>2 DEF Redis!Add, Redis!vars, Redis!redis, Delivered
<1>3. ASSUME NEW s \in Readers,
             Redis!EnsureGroup(s) \/ Redis!EnsureFails(s) \/ Redis!Again(s) \/ Redis!TimeOut(s)
      PROVE  GivenInv'
  <2>1. Delivered' = Delivered
    BY <1>3 DEF Redis!EnsureGroup, Redis!EnsureFails, Redis!Again, Redis!TimeOut, Redis!redis, Delivered
  <2> QED BY <1>1, <1>3, <2>1 DEF Redis!EnsureGroup, Redis!EnsureFails, Redis!Again, Redis!TimeOut, Redis!redis
<1>4. ASSUME NEW s \in Readers, Redis!ReadHistory(s) PROVE GivenInv'
  <2>1. PICK past \in Seq(Nat) :
          /\ batch' = [batch EXCEPT ![s] = past]
          /\ \A j \in DOMAIN past : <<past[j], reading[s].consumer>> \in unacked
    BY <1>4, HistoryIsGiven
  <2>2. /\ unacked' = unacked /\ found' = found /\ Delivered' = Delivered
        /\ batch'[s] = past /\ \A t \in Readers \ {s} : batch'[t] = batch[t]
    BY <1>4, <2>1 DEF Redis!ReadHistory, Redis!redis, Delivered, StreamTypeInv
  <2>3. \A i : Has(s, i)' => Given(i, reading[s].consumer)
    BY <2>1, <2>2 DEF Has, Given
  <2> QED BY <1>0, <2>2, <2>3, NothingNew
<1>5. ASSUME NEW s \in Readers, Delivers(s), Redis!ReadNew(s) \/ Redis!ReadFails(s) PROVE GivenInv'
  <2> DEFINE c0 == reading[s].consumer
             Fresh(i) == i \in group + 1 .. group'
  <2>1. ASSUME Redis!ReadNew(s) PROVE \A t \in Readers : \A i : Has(t, i)' => Has(t, i) \/ (t = s /\ Fresh(i))
    <3>1. PICK new \in Seq(Nat) :
            /\ batch' = [batch EXCEPT ![s] = new]
            /\ \A j \in DOMAIN new : Fresh(new[j])
      BY <2>1, NewIsNext
    <3>2. /\ batch'[s] = new /\ found' = found /\ \A t \in Readers \ {s} : batch'[t] = batch[t]
      BY <2>1, <3>1 DEF Redis!ReadNew, StreamTypeInv
    <3> HIDE DEF Fresh
    <3> QED BY <3>1, <3>2 DEF Has
  <2>2. ASSUME Redis!ReadFails(s) PROVE \A t \in Readers : \A i : Has(t, i)' => Has(t, i)
    BY <2>2 DEF Redis!ReadFails, Has
  <2>3. \A i, c : <<i, c>> \in unacked' => <<i, c>> \in unacked \/ (Fresh(i) /\ c = c0)
    BY <1>5, DeliversNext
  <2>11. group \in Nat /\ group # None /\ Len(stream) \in Nat /\ group' \in group .. Len(stream)
    BY <1>5, DeliversNext
  <2>4. group \in Nat /\ group' \in Nat /\ group <= group' /\ group # None /\ group' # None
    BY <2>11 DEF Redis!StreamAssumption
  <2>5. \A i : i \in Delivered' <=> i \in Delivered \/ Fresh(i)
    BY <2>4 DEF Delivered
  <2>6. \A i : ~(i \in Delivered /\ Fresh(i))
    BY <2>4 DEF Delivered
  <2> HIDE DEF c0, Fresh
  <2>7. \A t \in Readers : \A i : Has(t, i)' => Has(t, i) \/ (t = s /\ Fresh(i))
    BY <1>5, <2>1, <2>2
  <2>8. \A i, c : Given(i, c)' => Given(i, c) \/ (Fresh(i) /\ c = c0)
    BY <1>0, <2>3, <2>7 DEF Given, c0
  <2>9. \A i, c : Given(i, c)' => i \in Delivered'
    BY <2>5, <2>8 DEF GivenInv
  <2>10. \A i, c, d : Given(i, c)' /\ Given(i, d)' => c = d
    BY <2>6, <2>8 DEF GivenInv
  <2> QED BY <2>9, <2>10 DEF GivenInv
<1>6. ASSUME NEW s \in Readers, Redis!Skip(s) PROVE GivenInv'
  <2>1. /\ batch'[s] = Tail(batch[s]) /\ \A t \in Readers \ {s} : batch'[t] = batch[t]
        /\ unacked' = unacked /\ found' = found /\ Delivered' = Delivered
    BY <1>6 DEF Redis!Skip, Redis!redis, Delivered, StreamTypeInv
  <2>2. \A j \in DOMAIN Tail(batch[s]) : j + 1 \in DOMAIN batch[s] /\ Tail(batch[s])[j] = batch[s][j + 1]
    <3>1. batch[s] \in Seq(Nat) /\ batch[s] # <<>>
      BY <1>6 DEF Redis!Skip, StreamTypeInv
    <3> QED BY <3>1, HeadTailProperties, LenProperties
  <2>3. \A i : Has(s, i)' => Given(i, reading[s].consumer)
    BY <2>1, <2>2 DEF Has, Given
  <2> QED BY <1>0, <2>1, <2>3, NothingNew
<1>7. ASSUME NEW s \in Readers, Redis!ReadFails(s), UNCHANGED <<group, unacked>> PROVE GivenInv'
  BY <1>1, <1>7 DEF Redis!ReadFails, Delivered
<1>8. ASSUME NEW s \in Readers, Redis!Return(s) \/ Redis!AcknowledgeFails(s) \/ Redis!Fail(s) PROVE GivenInv'
  <2>1. batch[s] \in Seq(Nat) /\ batch[s] # <<>>
    BY <1>8 DEF Redis!Return, Redis!AcknowledgeFails, Redis!Fail, StreamTypeInv
  <2>2. 1 \in DOMAIN batch[s] /\ Head(batch[s]) = batch[s][1]
    BY <2>1, LenProperties, HeadTailProperties, EmptySeq
  <2>3. Has(s, Head(batch[s]))
    BY <2>2 DEF Has
  <2>4. /\ batch'[s] = <<>> /\ \A t \in Readers \ {s} : batch'[t] = batch[t] /\ found'[t] = found[t]
        /\ unacked' \subseteq unacked /\ Delivered' = Delivered
        /\ found'[s] \in {found[s], Head(batch[s])}
    BY <1>8 DEF Redis!Return, Redis!AcknowledgeFails, Redis!Fail, Redis!redis, Delivered, StreamTypeInv
  <2>5. \A i : Has(s, i)' => Has(s, i)
    <3>1. DOMAIN batch'[s] = {}
      BY <2>4, EmptySeq
    <3> QED BY <2>3, <2>4, <3>1 DEF Has
  <2> QED BY <1>0, <2>4, <2>5, NothingNew DEF Given
<1>9. ASSUME NEW s \in Readers, Redis!ReadNew(s) \/ Redis!ReadFails(s) PROVE GivenInv'
  <2>1. Redis!ReadNew(s) => Delivers(s)
    BY NewIsNext
  <2>2. Redis!ReadFails(s) => UNCHANGED <<group, unacked>> \/ Delivers(s)
    BY DEF Redis!ReadFails, Delivers
  <2> QED BY <1>5, <1>7, <1>9, <2>1, <2>2
<1> QED BY <1>2, <1>3, <1>4, <1>6, <1>8, <1>9 DEF Redis!Next

(* Every step keeps what was delivered pending, or acknowledged.           *)
LEMMA PendingStep ==
  ASSUME Redis!StreamAssumption, StreamTypeInv, PendingInv, [Redis!Next]_Redis!vars
  PROVE  PendingInv'
<1>0. reading' = reading
  BY StreamTypeStep
<1>1. ASSUME unacked' = unacked, found' = found, silent' = silent, Delivered' \subseteq Delivered PROVE PendingInv'
  BY <1>0, <1>1 DEF PendingInv
<1>2. CASE (\E e \in Entries : Redis!Add(e)) \/ UNCHANGED Redis!vars
  BY <1>1, <1>2 DEF Redis!Add, Redis!vars, Redis!redis, Delivered
<1>3. ASSUME NEW s \in Readers, Redis!EnsureGroup(s) \/ Redis!EnsureFails(s) PROVE PendingInv'
  <2>1. Delivered' \subseteq Delivered
    BY <1>3 DEF Redis!EnsureGroup, Redis!EnsureFails, Delivered
  <2> QED BY <1>1, <1>3, <2>1 DEF Redis!EnsureGroup, Redis!EnsureFails
<1>4. ASSUME NEW s \in Readers,
             Redis!ReadHistory(s) \/ Redis!Skip(s) \/ Redis!Fail(s) \/ Redis!Again(s) \/ Redis!TimeOut(s)
      PROVE  PendingInv'
  BY <1>1, <1>4 DEF Redis!ReadHistory, Redis!Skip, Redis!Fail, Redis!Again, Redis!TimeOut, Redis!redis, Delivered
<1>5. ASSUME NEW s \in Readers, Redis!ReadFails(s), UNCHANGED <<group, unacked>> PROVE PendingInv'
  BY <1>1, <1>5 DEF Redis!ReadFails, Delivered
<1>6. ASSUME NEW s \in Readers, Delivers(s), UNCHANGED <<found, silent>> PROVE PendingInv'
  <2>0. group \in Nat /\ group # None /\ Len(stream) \in Nat /\ group' \in group .. Len(stream)
    BY <1>6, DeliversNext
  <2>1. group' \in Nat /\ group <= group' /\ group' # None
    BY <2>0 DEF Redis!StreamAssumption
  <2>2. \A i \in Delivered' : i \in Delivered \/ i \in group + 1 .. group'
    BY <2>0, <2>1 DEF Delivered
  <2>3. \A i \in group + 1 .. group' : <<i, reading[s].consumer>> \in unacked' /\ <<i, reading[s].consumer>>[1] = i
    BY <1>6, DeliversNext
  <2>4. unacked \subseteq unacked'
    BY <1>6, DeliversNext
  <2> QED BY <1>0, <1>6, <2>2, <2>3, <2>4 DEF PendingInv
<1>7. ASSUME NEW s \in Readers, Redis!ReadNew(s) \/ Redis!ReadFails(s) PROVE PendingInv'
  <2>1. Redis!ReadNew(s) => Delivers(s) /\ UNCHANGED <<found, silent>>
    BY NewIsNext DEF Redis!ReadNew
  <2>2. Redis!ReadFails(s) => (UNCHANGED <<group, unacked>> \/ Delivers(s)) /\ UNCHANGED <<found, silent>>
    BY DEF Redis!ReadFails, Delivers
  <2> QED BY <1>6, <1>5, <1>7, <2>1, <2>2
<1>8. ASSUME NEW s \in Readers, Redis!AcknowledgeFails(s) PROVE PendingInv'
  <2>1. Delivered' = Delivered /\ found' = found
    BY <1>8 DEF Redis!AcknowledgeFails, Delivered
  <2>2. CASE UNCHANGED <<unacked, silent>>
    BY <1>1, <2>1, <2>2
  <2>3. CASE unacked' = unacked \ Redis!Acknowledged(s) /\ silent' = silent \cup {Head(batch[s])}
    <3>1. \A u \in unacked : u \in unacked' \/ u[1] \in silent'
      BY <2>3 DEF Redis!Acknowledged
    <3> QED BY <1>0, <2>1, <2>3, <3>1 DEF PendingInv
  <2> QED BY <1>8, <2>2, <2>3 DEF Redis!AcknowledgeFails
<1>9. ASSUME NEW s \in Readers, Redis!Return(s) PROVE PendingInv'
  <2> DEFINE e == Head(batch[s])
  <2>1. /\ found'[s] = e /\ \A t \in Readers \ {s} : found'[t] = found[t]
        /\ unacked' = unacked \ (IF reading[s].acks THEN {<<e, reading[s].consumer>>} ELSE {})
        /\ Delivered' = Delivered /\ found[s] = None /\ silent' = silent
    BY <1>9 DEF Redis!Return, Redis!Acknowledged, StreamTypeInv, Delivered
  <2> HIDE DEF e
  <2>2. \A i \in Delivered : i # None
    BY DEF Delivered, Redis!StreamAssumption, StreamTypeInv
  <2> SUFFICES ASSUME NEW i \in Delivered
               PROVE  \/ \E u \in unacked' : u[1] = i
                      \/ \E t \in Readers : found'[t] = i /\ reading[t].acks
                      \/ i \in silent'
    BY <1>0, <2>1 DEF PendingInv
  <2>3. ASSUME NEW u \in unacked, u[1] = i
        PROVE  (\E v \in unacked' : v[1] = i) \/ (\E t \in Readers : found'[t] = i /\ reading[t].acks)
    <3>1. CASE u \in unacked'
      BY <2>3, <3>1
    <3>2. CASE u \notin unacked'
      BY <2>1, <2>3, <3>2
    <3> QED BY <3>1, <3>2
  <2>4. ASSUME NEW t \in Readers, found[t] = i, reading[t].acks
        PROVE  (\E v \in unacked' : v[1] = i) \/ (\E r \in Readers : found'[r] = i /\ reading[r].acks)
    <3>1. t # s
      BY <2>1, <2>2, <2>4
    <3> QED BY <2>1, <2>4, <3>1
  <2> QED BY <2>1, <2>3, <2>4 DEF PendingInv
<1> QED BY <1>2, <1>3, <1>4, <1>7, <1>8, <1>9 DEF Redis!Next

(* No two consumers are given one entry, and an entry that was delivered   *)
(* is pending until it is returned and acknowledged, or acknowledged with  *)
(* the answer lost, whichever command fails.                               *)
THEOREM EntriesCorrect == Redis!StreamAssumption /\ Redis!Spec => []Redis!EntryGivenOnce
<1> SUFFICES ASSUME Redis!StreamAssumption PROVE Redis!Spec => []Redis!EntryGivenOnce
  OBVIOUS
<1>1. Redis!Init => StreamTypeInv /\ GivenInv /\ PendingInv
  <2> SUFFICES ASSUME Redis!Init PROVE StreamTypeInv /\ GivenInv /\ PendingInv
    OBVIOUS
  <2>1. <<>> \in Seq(Entries) /\ <<>> \in Seq(Nat) /\ Len(<<>>) = 0 /\ DOMAIN <<>> = {}
    BY EmptySeq
  <2>2. StreamTypeInv
    BY <2>1 DEF Redis!Init, StreamTypeInv
  <2>3. Delivered = {} /\ \A i, c : ~Given(i, c)
    BY <2>1 DEF Redis!Init, Given, Has, Delivered
  <2> QED BY <2>2, <2>3 DEF GivenInv, PendingInv
<1>2. StreamTypeInv /\ GivenInv /\ PendingInv /\ [Redis!Next]_Redis!vars
        => (StreamTypeInv /\ GivenInv /\ PendingInv)'
  BY StreamTypeStep, GivenStep, PendingStep
<1>3. StreamTypeInv /\ GivenInv /\ PendingInv => Redis!EntryGivenOnce
  <2> SUFFICES ASSUME GivenInv, PendingInv PROVE Redis!EntryGivenOnce
    OBVIOUS
  <2>1. ASSUME NEW s \in Readers, NEW t \in Readers, found[s] # None, found[s] = found[t]
        PROVE  reading[s].consumer = reading[t].consumer
    <3>1. Given(found[s], reading[s].consumer) /\ Given(found[s], reading[t].consumer)
      BY <2>1 DEF Given, Has
    <3> QED BY <2>1, <3>1 DEF GivenInv
  <2>2. group # None => \A i \in 1 .. group :
          \/ \E u \in unacked : u[1] = i
          \/ \E s \in Readers : found[s] = i /\ reading[s].acks
          \/ i \in silent
    BY DEF PendingInv, Delivered
  <2> QED BY <2>1, <2>2 DEF Redis!EntryGivenOnce
<1> QED BY <1>1, <1>2, <1>3, PTL DEF Redis!Spec
-----------------------------------------------------------------------------
StubTypeInv ==
  /\ captured \in Seq(Requests)
  /\ cleared \subseteq Requests
  /\ place \in [Requests -> {"unsent", "sent", "captured", "delayed", "served", "notFound", "aborted"}]
  /\ inspect \in {None} \cup [target : Stub!Targets, count : Nat, matches : SUBSET DOMAIN captured, due : BOOLEAN]

InQueue(r) == \E i \in DOMAIN captured : captured[i] = r

(* A request is in the queue once, or was removed from it; before its body *)
(* is read it is neither, and before its answer it is one of the two.      *)
QueueInv ==
  /\ \A i, j \in DOMAIN captured : captured[i] = captured[j] => i = j
  /\ \A r \in Requests :
       /\ InQueue(r) => r \notin cleared
       /\ place[r] \in {"unsent", "sent"} => ~InQueue(r) /\ r \notin cleared
       /\ place[r] \in {"captured", "delayed", "served", "notFound"} => InQueue(r) \/ r \in cleared

(* What the module of the stub counts with is the cardinality.             *)
LEMMA StubCounts == \A S : Stub!Cardinality(S) = Cardinality(S)
  BY DEF Stub!Cardinality, Cardinality

(* Every step keeps the types of the stub.                                 *)
LEMMA StubTypeStep ==
  ASSUME StubTypeInv, [Stub!Next]_Stub!vars
  PROVE  StubTypeInv'
<1> USE DEF StubTypeInv
<1>1. ASSUME UNCHANGED <<captured, cleared, place>>, inspect' = inspect \/ inspect' = None PROVE StubTypeInv'
  BY <1>1 DEF Stub!Targets
<1>2. CASE Stub!Start \/ Stub!Stop \/ Stub!Inspected \/ UNCHANGED Stub!vars
  BY <1>1, <1>2 DEF Stub!Start, Stub!Stop, Stub!Inspected, Stub!stub, Stub!vars
<1>3. CASE \E t \in Stub!Targets : Stub!Configure(t)
  BY <1>1, <1>3 DEF Stub!Configure
<1>4. CASE Stub!Reset
  <2>1. captured' = <<>> /\ inspect' = None /\ place' = place
    BY <1>4 DEF Stub!Reset, Stub!Run
  <2>2. cleared' \subseteq Requests
    BY <1>4 DEF Stub!Reset
  <2> QED BY <2>1, <2>2, EmptySeq
<1>5. CASE Stub!Stopped
  BY <1>5 DEF Stub!Stopped, Stub!UnderWay
<1>6. CASE Stub!Poll
  <2>1. Stub!Match(inspect.target) \in SUBSET DOMAIN captured
    BY DEF Stub!Match
  <2> QED BY <1>6, <2>1 DEF Stub!Poll, Stub!stub
<1>7. CASE Stub!Deadline
  BY <1>7 DEF Stub!Deadline, Stub!stub
<1>8. ASSUME NEW t \in Stub!Targets, NEW n \in 0 .. Stub!Cardinality(Requests), Stub!Inspect(t, n)
      PROVE  StubTypeInv'
  <2>1. Stub!Match(t) \in SUBSET DOMAIN captured
    BY DEF Stub!Match
  <2>2. n \in Nat
    OBVIOUS
  <2> QED BY <1>8, <2>1, <2>2 DEF Stub!Inspect, Stub!stub
<1>9. ASSUME NEW r \in Requests, Stub!Send(r) \/ Stub!LookUp(r) \/ Stub!Serve(r) PROVE StubTypeInv'
  BY <1>9 DEF Stub!Send, Stub!LookUp, Stub!Serve, Stub!stub
<1>10. ASSUME NEW r \in Requests, Stub!Capture(r) PROVE StubTypeInv'
  <2>1. captured' \in Seq(Requests) /\ DOMAIN captured \subseteq DOMAIN captured'
    BY <1>10, AppendProperties, LenProperties DEF Stub!Capture
  <2> QED BY <1>10, <2>1 DEF Stub!Capture
<1> QED BY <1>2, <1>3, <1>4, <1>5, <1>6, <1>7, <1>8, <1>9, <1>10 DEF Stub!Next

(* Every step keeps the queue.                                             *)
LEMMA QueueStep ==
  ASSUME StubTypeInv, QueueInv, [Stub!Next]_Stub!vars
  PROVE  QueueInv'
<1>1. ASSUME UNCHANGED <<captured, cleared>>,
             \A r \in Requests :
               \/ place'[r] = place[r]
               \/ place'[r] = "aborted"
               \/ place[r] = "unsent" /\ place'[r] = "sent"
               \/ /\ place[r] \in {"captured", "delayed", "served", "notFound"}
                  /\ place'[r] \in {"captured", "delayed", "served", "notFound"}
      PROVE  QueueInv'
  BY <1>1 DEF QueueInv, InQueue
<1>2. CASE Stub!Start \/ Stub!Stop \/ Stub!Poll \/ Stub!Deadline \/ Stub!Inspected \/ UNCHANGED Stub!vars
  BY <1>1, <1>2 DEF Stub!Start, Stub!Stop, Stub!Poll, Stub!Deadline, Stub!Inspected, Stub!stub, Stub!vars
<1>3. ASSUME NEW t \in Stub!Targets,
             Stub!Configure(t) \/ \E n \in 0 .. Stub!Cardinality(Requests) : Stub!Inspect(t, n)
      PROVE  QueueInv'
  BY <1>1, <1>3 DEF Stub!Configure, Stub!Inspect, Stub!stub
<1>4. CASE Stub!Reset
  <2>1. DOMAIN captured' = {} /\ place' = place
    BY <1>4, EmptySeq DEF Stub!Reset
  <2>2. \A r : r \in cleared' <=> r \in cleared \/ InQueue(r)
    BY <1>4 DEF Stub!Reset, InQueue
  <2>3. \A r \in Requests : ~InQueue(r)'
    BY <2>1 DEF InQueue
  <2> QED BY <2>1, <2>2, <2>3 DEF QueueInv
<1>5. CASE Stub!Stopped
  BY <1>1, <1>5 DEF Stub!Stopped, StubTypeInv
<1>6. ASSUME NEW r \in Requests, Stub!Send(r) \/ Stub!LookUp(r) \/ Stub!Serve(r) PROVE QueueInv'
  BY <1>1, <1>6 DEF Stub!Send, Stub!LookUp, Stub!Serve, Stub!stub, StubTypeInv
<1>7. ASSUME NEW r \in Requests, Stub!Capture(r) PROVE QueueInv'
  <2> DEFINE n == Len(captured)
  <2>1. n \in Nat /\ DOMAIN captured = 1 .. n
    BY LenProperties DEF StubTypeInv
  <2>2. /\ DOMAIN captured' = 1 .. n + 1 /\ captured'[n + 1] = r
        /\ \A i \in 1 .. n : captured'[i] = captured[i]
    BY <1>7, <2>1, AppendProperties, LenProperties DEF Stub!Capture, StubTypeInv
  <2>3. /\ place[r] = "sent" /\ place'[r] = "captured" /\ cleared' = cleared
        /\ \A q \in Requests \ {r} : place'[q] = place[q]
    BY <1>7 DEF Stub!Capture, StubTypeInv
  <2>4. ~InQueue(r) /\ r \notin cleared
    BY <2>3 DEF QueueInv
  <2> HIDE DEF n
  <2>5. \A q : InQueue(q)' <=> InQueue(q) \/ q = r
    BY <2>1, <2>2 DEF InQueue
  <2>6. \A i, j \in DOMAIN captured' : captured'[i] = captured'[j] => i = j
    <3> SUFFICES ASSUME NEW i \in DOMAIN captured', NEW j \in DOMAIN captured', captured'[i] = captured'[j]
                 PROVE  i = j
      OBVIOUS
    <3>1. \A k \in 1 .. n : captured[k] # r
      BY <2>1, <2>4 DEF InQueue
    <3> QED BY <2>1, <2>2, <3>1 DEF QueueInv
  <2> QED BY <2>3, <2>4, <2>5, <2>6 DEF QueueInv
<1> QED BY <1>2, <1>3, <1>4, <1>5, <1>6, <1>7 DEF Stub!Next

(* A request that was answered is in the queue exactly once, or a reset    *)
(* removed it, and an inspection counts each request once.                 *)
THEOREM RequestsCorrect == Stub!Spec => []Stub!AnsweredIsCounted
<1>1. Stub!Init => StubTypeInv /\ QueueInv
  <2> SUFFICES ASSUME Stub!Init PROVE StubTypeInv /\ QueueInv
    OBVIOUS
  <2>1. captured = <<>> /\ DOMAIN captured = {} /\ captured \in Seq(Requests)
    BY EmptySeq DEF Stub!Init
  <2> QED BY <2>1 DEF Stub!Init, StubTypeInv, QueueInv, InQueue
<1>2. StubTypeInv /\ QueueInv /\ [Stub!Next]_Stub!vars => (StubTypeInv /\ QueueInv)'
  BY StubTypeStep, QueueStep
<1>3. StubTypeInv /\ QueueInv => Stub!AnsweredIsCounted
  <2> SUFFICES ASSUME StubTypeInv, QueueInv PROVE Stub!AnsweredIsCounted
    OBVIOUS
  <2>1. ASSUME NEW r \in Requests, place[r] \in {"served", "notFound"}
        PROVE  Stub!Cardinality({i \in DOMAIN captured : captured[i] = r}) = IF r \in cleared THEN 0 ELSE 1
    <3> DEFINE places == {i \in DOMAIN captured : captured[i] = r}
    <3>1. Stub!Cardinality(places) = Cardinality(places)
      BY StubCounts
    <3>2. CASE r \in cleared
      <4>1. places = {}
        BY <3>2 DEF QueueInv, InQueue
      <4> QED BY <3>1, <3>2, <4>1, FS_EmptySet
    <3>3. CASE r \notin cleared
      <4>1. PICK i \in DOMAIN captured : captured[i] = r
        BY <2>1, <3>3 DEF QueueInv, InQueue
      <4>2. places = {i}
        BY <4>1 DEF QueueInv
      <4> QED BY <3>1, <3>3, <4>2, FS_Singleton
    <3> QED BY <3>2, <3>3
  <2>2. inspect # None => \A i, j \in inspect.matches : captured[i] = captured[j] => i = j
    BY DEF StubTypeInv, QueueInv
  <2> QED BY <2>1, <2>2 DEF Stub!AnsweredIsCounted, Stub!Answered
<1> QED BY <1>1, <1>2, <1>3, PTL DEF Stub!Spec

-----------------------------------------------------------------------------
IsStep(s) ==
  s = [name |-> s.name, op |-> s.op, contract |-> s.contract, req |-> s.req, res |-> s.res, value |-> s.value]

(* The second part of the name of a step is its place, a field is known by *)
(* its id.                                                                 *)
StepsFit(s) ==
  /\ \E S : s \in Seq(S)
  /\ \A j \in 1 .. Len(s) :
       /\ IsStep(s[j]) /\ s[j].name[2] = j
       /\ \A a, b \in s[j].req : a.id = b.id => a = b
       /\ \A a, b \in s[j].res : a.id = b.id => a = b

(* A variable is a response field of a step that is there.                 *)
VariablesFit(s, vs) ==
  /\ \A v, w \in vs : v.name = w.name => v = w
  /\ \A v \in vs :
       /\ v = [name |-> v.name, step |-> v.step, field |-> v.field, type |-> v.type]
       /\ \E j \in 1 .. Len(s) :
            v.step = s[j].name /\ \E f \in s[j].res : f.id = v.field /\ f.type = v.type

(* A binding leads from an earlier step to a plain field of its type.      *)
Leads(s, vs, b, i, j) ==
  /\ i < j /\ b.step = s[j].name
  /\ \E v \in vs, t \in s[j].req :
       v.name = b.variable /\ v.step = s[i].name /\ t.id = b.field /\ ~t.sensitive /\ v.type = t.type

BindingsFit(s, vs, bs) ==
  \A b \in bs :
    /\ b = [variable |-> b.variable, step |-> b.step, field |-> b.field]
    /\ \E i, j \in 1 .. Len(s) : Leads(s, vs, b, i, j)

EditorInv ==
  /\ contract \in DOMAIN Contracts
  /\ StepsFit(steps) /\ VariablesFit(steps, variables) /\ BindingsFit(steps, variables, bindings)

(* The place of the step with a name, 0 where there is none.               *)
Place(s, n) ==
  LET named == {k \in 1 .. Len(s) : s[k].name = n}
  IN  IF named # {} THEN CHOOSE k \in named : \A l \in named : k <= l ELSE 0

Single(s) == \A j, k \in 1 .. Len(s) : s[j].name = s[k].name => j = k

(* The editor looks a step up by its name, before and after a step.        *)
LEMMA IndexIsPlace ==
  /\ \A n : Editor!IndexOf(n) = Place(steps, n)
  /\ \A n : Editor!IndexOf(n)' = Place(steps', n)
  BY DEF Editor!IndexOf, Editor!SelectInSeq, Editor!Min, Place

(* Steps whose names hold their places have names of their own.            *)
LEMMA NamesAreSingle ==
  ASSUME NEW s, StepsFit(s)
  PROVE  /\ Len(s) \in Nat /\ DOMAIN s = 1 .. Len(s)
         /\ Single(s)
<1>1. PICK S : s \in Seq(S)
  BY DEF StepsFit
<1> QED BY <1>1, LenProperties DEF StepsFit, Single

(* Among names of their own the first step with a name is the only one.    *)
LEMMA PlaceIs ==
  ASSUME NEW s, Single(s), Len(s) \in Nat
  PROVE  /\ \A j \in 1 .. Len(s) : Place(s, s[j].name) = j
         /\ \A n : (\A j \in 1 .. Len(s) : s[j].name # n) => Place(s, n) = 0
<1>1. ASSUME NEW j \in 1 .. Len(s) PROVE Place(s, s[j].name) = j
  <2>1. {k \in 1 .. Len(s) : s[k].name = s[j].name} = {j}
    BY DEF Single
  <2> QED BY <2>1 DEF Place
<1>2. ASSUME NEW n, \A j \in 1 .. Len(s) : s[j].name # n PROVE Place(s, n) = 0
  <2>1. {k \in 1 .. Len(s) : s[k].name = n} = {}
    BY <1>2
  <2> QED BY <2>1 DEF Place
<1> QED BY <1>1, <1>2

(* The editor finds each step at its place.                                *)
LEMMA PlaceOfStep ==
  ASSUME StepsFit(steps), NEW j \in 1 .. Len(steps)
  PROVE  Editor!IndexOf(steps[j].name) = j /\ Editor!Named(steps[j].name) = steps[j]
  BY NamesAreSingle, PlaceIs, IndexIsPlace DEF Editor!Named

(* Later steps, and values, touch neither variables nor bindings.          *)
Prolongs(t, s) ==
  /\ Len(s) \in Nat /\ Len(t) \in Nat /\ Len(s) <= Len(t)
  /\ \A j \in 1 .. Len(s) : t[j].name = s[j].name /\ t[j].req = s[j].req /\ t[j].res = s[j].res

(* Added steps, or changed values, leave the rest as it fits.             *)
LEMMA ProlongedFits ==
  ASSUME NEW s, NEW t, Prolongs(t, s), NEW vs, NEW bs, VariablesFit(s, vs)
  PROVE  /\ VariablesFit(t, vs)
         /\ BindingsFit(s, vs, bs) => BindingsFit(t, vs, bs)
<1>1. \A j \in 1 .. Len(s) : j \in 1 .. Len(t)
  BY DEF Prolongs
<1>2. VariablesFit(t, vs)
  BY <1>1 DEF VariablesFit, Prolongs
<1>3. ASSUME NEW b, NEW i \in 1 .. Len(s), NEW j \in 1 .. Len(s), Leads(s, vs, b, i, j)
      PROVE  Leads(t, vs, b, i, j)
  BY <1>3 DEF Leads, Prolongs
<1> QED BY <1>1, <1>2, <1>3 DEF BindingsFit

(* A value that is assigned changes no name and no field.                  *)
LEMMA ValuesFit ==
  ASSUME NEW s, StepsFit(s), NEW i \in 1 .. Len(s), NEW id, NEW x, NEW t, t = [s EXCEPT ![i].value[id] = x]
  PROVE  StepsFit(t) /\ Prolongs(t, s)
<1>1. PICK S : s \in Seq(S)
  BY DEF StepsFit
<1>2. Len(s) \in Nat /\ s \in [1 .. Len(s) -> S] /\ DOMAIN s = 1 .. Len(s)
  BY <1>1, LenProperties
<1>3. PICK e : t = [s EXCEPT ![i] = [s[i] EXCEPT !.value = e]]
  OBVIOUS
<1> DEFINE r == [s[i] EXCEPT !.value = e]
<1>4. IsStep(s[i])
  BY DEF StepsFit
<1>5. IsStep(r) /\ r.name = s[i].name /\ r.req = s[i].req /\ r.res = s[i].res
  BY <1>4 DEF IsStep
<1> HIDE DEF r
<1>6. t = [s EXCEPT ![i] = r]
  BY <1>3 DEF r
<1>7. t \in [1 .. Len(s) -> S \cup {r}] /\ \A j \in 1 .. Len(s) : t[j] = IF j = i THEN r ELSE s[j]
  BY <1>2, <1>6
<1>8. t \in Seq(S \cup {r}) /\ Len(t) = Len(s)
  BY <1>2, <1>7
<1>9. Prolongs(t, s)
  BY <1>2, <1>5, <1>7, <1>8 DEF Prolongs
<1>10. \A j \in 1 .. Len(t) : IsStep(t[j])
  BY <1>5, <1>7, <1>8 DEF StepsFit
<1> QED BY <1>8, <1>9, <1>10 DEF StepsFit, Prolongs

(* AddStep: the new step is called by its place.                           *)
LEMMA AddFits ==
  ASSUME Editor!ContractAssumption, EditorInv, NEW o \in DOMAIN Contracts[contract], Editor!AddStep(o)
  PROVE  EditorInv'
<1> DEFINE r == Editor!NewStep(o)
           n == Len(steps)
<1>1. PICK S : steps \in Seq(S)
  BY DEF EditorInv, StepsFit
<1>2. n \in Nat /\ steps' = Append(steps, r) /\ DOMAIN steps = 1 .. n
  BY <1>1, LenProperties DEF Editor!AddStep
<1>3. IsStep(r) /\ r.name[2] = n + 1
  BY DEF Editor!NewStep, IsStep, Editor!Name
<1>4. /\ \A a, b \in r.req : a.id = b.id => a = b
      /\ \A a, b \in r.res : a.id = b.id => a = b
  <2>1. \A side \in {"req", "res"} : \A a, b \in Contracts[contract][o][side] : a.id = b.id => a = b
    BY DEF Editor!ContractAssumption, EditorInv
  <2>2. r.req = Contracts[contract][o].req /\ r.res = Contracts[contract][o].res
    BY DEF Editor!NewStep
  <2>3. /\ \A a, b \in Contracts[contract][o].req : a.id = b.id => a = b
        /\ \A a, b \in Contracts[contract][o].res : a.id = b.id => a = b
    BY <2>1
  <2> QED BY <2>2, <2>3
<1> HIDE DEF r, n
<1>5. steps \in Seq(S \cup {r})
  BY <1>1
<1>6. /\ steps' \in Seq(S \cup {r}) /\ Len(steps') = n + 1 /\ steps'[n + 1] = r
      /\ \A j \in 1 .. n : steps'[j] = steps[j]
  BY <1>2, <1>5, AppendProperties DEF n
<1>7. Prolongs(steps', steps)
  BY <1>2, <1>6 DEF Prolongs, n
<1>8. StepsFit(steps')
  <2> SUFFICES ASSUME NEW j \in 1 .. n + 1
               PROVE  /\ IsStep(steps'[j]) /\ steps'[j].name[2] = j
                      /\ \A a, b \in steps'[j].req : a.id = b.id => a = b
                      /\ \A a, b \in steps'[j].res : a.id = b.id => a = b
    BY <1>6 DEF StepsFit
  <2>1. CASE j = n + 1
    BY <1>3, <1>4, <1>6, <2>1
  <2>2. CASE j # n + 1
    <3>1. j \in 1 .. n
      BY <1>2, <2>2
    <3> QED BY <1>6, <3>1 DEF EditorInv, StepsFit, n
  <2> QED BY <2>1, <2>2
<1>9. UNCHANGED <<contract, variables, bindings>>
  BY DEF Editor!AddStep
<1> QED BY <1>7, <1>8, <1>9, ProlongedFits DEF EditorInv

(* SaveVariable: a new name, for a response field of a step that is there. *)
LEMMA SaveFits ==
  ASSUME EditorInv, NEW i \in DOMAIN steps, NEW f \in steps[i].res, NEW name, Editor!SaveVariable(i, f, name)
  PROVE  EditorInv'
<1> DEFINE new == [name |-> name, step |-> steps[i].name, field |-> f.id, type |-> f.type]
<1>1. /\ variables' = variables \cup {new} /\ UNCHANGED <<contract, steps, bindings>>
      /\ \A v \in variables : v.name # name
  BY DEF Editor!SaveVariable
<1>2. i \in 1 .. Len(steps)
  BY NamesAreSingle DEF EditorInv
<1>3. VariablesFit(steps, variables')
  BY <1>1, <1>2 DEF EditorInv, VariablesFit
<1>4. BindingsFit(steps, variables', bindings)
  <2>1. \A b, k, j : Leads(steps, variables, b, k, j) => Leads(steps, variables', b, k, j)
    BY <1>1 DEF Leads
  <2> QED BY <2>1 DEF EditorInv, BindingsFit
<1> QED BY <1>1, <1>3, <1>4 DEF EditorInv

(* What assigns a value keeps the steps as they are otherwise, and loses   *)
(* bindings or adds one that leads.                                        *)
LEMMA AssignFits ==
  ASSUME EditorInv, NEW i \in DOMAIN steps, NEW id, NEW x, steps' = [steps EXCEPT ![i].value[id] = x],
         UNCHANGED <<contract, variables>>, BindingsFit(steps, variables, bindings')
  PROVE  EditorInv'
<1>1. i \in 1 .. Len(steps)
  BY NamesAreSingle DEF EditorInv
<1>2. StepsFit(steps') /\ Prolongs(steps', steps)
  BY <1>1, ValuesFit DEF EditorInv
<1>3. VariablesFit(steps', variables) /\ BindingsFit(steps', variables, bindings')
  BY <1>2, ProlongedFits DEF EditorInv
<1> QED BY <1>2, <1>3 DEF EditorInv

(* Bind: what is offered comes from an earlier step.                       *)
LEMMA BindFits ==
  ASSUME EditorInv, NEW i \in DOMAIN steps, NEW f \in steps[i].req, NEW v \in variables, Editor!Bind(i, f, v)
  PROVE  EditorInv'
<1> DEFINE new == [variable |-> v.name, step |-> steps[i].name, field |-> f.id]
<1>1. /\ bindings' = Editor!Others(i, f) \cup {new} /\ UNCHANGED <<contract, variables>>
      /\ steps' = [steps EXCEPT ![i].value[f.id] = Editor!Ref(v.name)]
      /\ Editor!IndexOf(v.step) < i /\ v.type = f.type /\ ~f.sensitive
  BY DEF Editor!Bind, Editor!Offered
<1>2. i \in 1 .. Len(steps)
  BY NamesAreSingle DEF EditorInv
<1>3. PICK k \in 1 .. Len(steps) : v.step = steps[k].name
  BY DEF EditorInv, VariablesFit
<1>4. k < i
  BY <1>1, <1>3, PlaceOfStep DEF EditorInv
<1>5. Leads(steps, variables, new, k, i)
  BY <1>1, <1>3, <1>4 DEF Leads
<1>6. BindingsFit(steps, variables, bindings')
  <2>1. \A b \in bindings' : b \in bindings \/ b = new
    BY <1>1 DEF Editor!Others
  <2>2. new = [variable |-> new.variable, step |-> new.step, field |-> new.field]
    OBVIOUS
  <2> HIDE DEF new
  <2> QED BY <1>2, <1>5, <2>1, <2>2 DEF EditorInv, BindingsFit
<1> QED BY <1>1, <1>6, AssignFits

(* Unbind and TypeValue only take bindings away.                           *)
LEMMA UnbindFits ==
  ASSUME EditorInv, NEW i \in DOMAIN steps, NEW f \in steps[i].req,
         Editor!Unbind(i, f) \/ Editor!TypeValue(i, f.id)
  PROVE  EditorInv'
<1>1. /\ UNCHANGED <<contract, variables>> /\ bindings' \subseteq bindings
      /\ \E x : steps' = [steps EXCEPT ![i].value[f.id] = x]
  BY DEF Editor!Unbind, Editor!TypeValue, Editor!Others
<1>2. BindingsFit(steps, variables, bindings')
  BY <1>1 DEF EditorInv, BindingsFit
<1> QED BY <1>1, <1>2, AssignFits

(* The place a kept step had, and the one it has after step i has gone.    *)
Before(i, j) == IF j < i THEN j ELSE j + 1
After(i, j) == IF j > i THEN j - 1 ELSE j

(* RemoveAt: the later elements move down by one.                          *)
LEMMA KeptSteps ==
  ASSUME NEW S, NEW s \in Seq(S), NEW i \in 1 .. Len(s)
  PROVE  /\ Editor!RemoveAt(s, i) \in Seq(S) /\ Len(Editor!RemoveAt(s, i)) = Len(s) - 1
         /\ \A j \in 1 .. Len(s) - 1 : Editor!RemoveAt(s, i)[j] = s[Before(i, j)]
<1> DEFINE n == Len(s)
           a == SubSeq(s, 1, i - 1)
           b == SubSeq(s, i + 1, n)
<1>1. n \in Nat /\ i \in Nat /\ 1 <= i /\ i <= n
  BY LenProperties
<1>2. /\ a \in Seq(S) /\ Len(a) = i - 1
      /\ \A j \in 1 .. i - 1 : a[j] = s[j]
  BY <1>1, SubSeqProperties
<1>3. /\ b \in Seq(S) /\ Len(b) = n - i
      /\ \A j \in 1 .. n - i : b[j] = s[i + j]
  <2>1. \A j \in i + 1 .. n : j \in 1 .. n
    BY <1>1
  <2>2. b \in Seq(S) /\ Len(b) = IF i + 1 <= n THEN n - (i + 1) + 1 ELSE 0
    BY <1>1, <2>1, SubSeqProperties
  <2>3. \A j \in 1 .. n - i : b[j] = s[(i + 1) + j - 1]
    BY <1>1, <2>1, <2>2, SubSeqProperties
  <2> QED BY <1>1, <2>2, <2>3
<1> HIDE DEF a, b
<1>4. /\ a \o b \in Seq(S) /\ Len(a \o b) = Len(a) + Len(b)
      /\ \A j \in 1 .. Len(a) + Len(b) : (a \o b)[j] = IF j <= Len(a) THEN a[j] ELSE b[j - Len(a)]
  BY <1>2, <1>3, ConcatProperties
<1>5. Editor!RemoveAt(s, i) = a \o b
  BY DEF Editor!RemoveAt, a, b
<1>6. ASSUME NEW j \in 1 .. n - 1 PROVE (a \o b)[j] = s[Before(i, j)]
  <2>1. CASE j < i
    BY <1>1, <1>2, <1>3, <1>4, <2>1 DEF Before
  <2>2. CASE ~(j < i)
    <3>1. j - (i - 1) \in 1 .. n - i /\ i + (j - (i - 1)) = j + 1
      BY <1>1, <2>2
    <3>2. (a \o b)[j] = b[j - (i - 1)]
      BY <1>1, <1>2, <1>3, <1>4, <2>2
    <3> QED BY <1>1, <1>3, <2>2, <3>1, <3>2 DEF Before
  <2> QED BY <2>1, <2>2
<1>7. Len(a) + Len(b) = n - 1
  BY <1>1, <1>2, <1>3
<1> QED BY <1>4, <1>5, <1>6, <1>7

(* The steps after a removal, and what a name becomes.                     *)
LEMMA RemovedSteps ==
  ASSUME EditorInv, NEW i \in 1 .. Len(steps), Editor!RemoveStep(i)
  PROVE  /\ StepsFit(steps') /\ Len(steps') = Len(steps) - 1
         /\ \A j \in 1 .. Len(steps) - 1 :
              Before(i, j) \in 1 .. Len(steps) \ {i} /\ After(i, Before(i, j)) = j
         /\ \A k \in 1 .. Len(steps) \ {i} :
              /\ After(i, k) \in 1 .. Len(steps')
              /\ steps'[After(i, k)].req = steps[k].req /\ steps'[After(i, k)].res = steps[k].res
              /\ Editor!NewName(i, steps[k].name) = steps'[After(i, k)].name
<1> DEFINE n == Len(steps)
           kept == Editor!Kept(i)
<1>1. PICK S : steps \in Seq(S)
  BY DEF EditorInv, StepsFit
<1>2. n \in Nat /\ Single(steps)
  BY NamesAreSingle DEF EditorInv
<1>3. kept \in Seq(S) /\ Len(kept) = n - 1 /\ \A j \in 1 .. n - 1 : kept[j] = steps[Before(i, j)]
  BY <1>1, KeptSteps DEF Editor!Kept
<1>4. DOMAIN kept = 1 .. n - 1
  BY <1>3, LenProperties
<1>5. steps' = [j \in 1 .. n - 1 |-> [kept[j] EXCEPT !.name = Editor!Name(kept[j].op, j)]]
  BY <1>4 DEF Editor!RemoveStep, Editor!Renamed
<1>6. \A j \in 1 .. n - 1 : Before(i, j) \in 1 .. n \ {i} /\ After(i, Before(i, j)) = j
  BY <1>2 DEF Before, After
<1>7. \A k \in 1 .. n \ {i} : After(i, k) \in 1 .. n - 1 /\ Before(i, After(i, k)) = k
  BY <1>2 DEF Before, After
<1> HIDE DEF n, kept
<1>8. \A j \in 1 .. n - 1 :
        /\ IsStep(kept[j]) /\ \A a, b \in kept[j].req : a.id = b.id => a = b
        /\ \A a, b \in kept[j].res : a.id = b.id => a = b
  BY <1>3, <1>6 DEF EditorInv, StepsFit, n
<1>9. \A j \in 1 .. n - 1 :
        /\ IsStep(steps'[j]) /\ steps'[j].name = Editor!Name(kept[j].op, j)
        /\ steps'[j].req = kept[j].req /\ steps'[j].res = kept[j].res
  <2> SUFFICES ASSUME NEW j \in 1 .. n - 1
               PROVE  /\ IsStep(steps'[j]) /\ steps'[j].name = Editor!Name(kept[j].op, j)
                      /\ steps'[j].req = kept[j].req /\ steps'[j].res = kept[j].res
    OBVIOUS
  <2>1. PICK m : m = Editor!Name(kept[j].op, j)
    OBVIOUS
  <2>2. steps'[j] = [kept[j] EXCEPT !.name = m]
    BY <1>5, <2>1
  <2>3. IsStep(kept[j])
    BY <1>8
  <2> QED BY <2>1, <2>2, <2>3 DEF IsStep
<1>10. Len(steps') = n - 1 /\ \E T : steps' \in Seq(T)
  <2>1. n - 1 \in Nat
    BY <1>2 DEF n
  <2> DEFINE T == {steps'[j] : j \in 1 .. n - 1}
  <2>2. steps' \in [1 .. n - 1 -> T]
    BY <1>5
  <2> HIDE DEF T
  <2>3. steps' \in Seq(T) /\ Len(steps') = n - 1
    BY <2>1, <2>2
  <2> QED BY <2>3
<1>11. StepsFit(steps')
  BY <1>8, <1>9, <1>10 DEF StepsFit, Editor!Name
<1>12. ASSUME NEW k \in 1 .. n \ {i} PROVE Editor!NewName(i, steps[k].name) = steps'[After(i, k)].name
  <2>1. Single(kept)
    BY <1>2, <1>3, <1>6 DEF Single, n
  <2>2. Len(kept) \in Nat
    BY <1>2, <1>3 DEF n
  <2>3. After(i, k) \in 1 .. Len(kept) /\ kept[After(i, k)] = steps[k]
    BY <1>3, <1>7
  <2>4. Place(kept, steps[k].name) = After(i, k)
    BY <2>1, <2>2, <2>3, PlaceIs
  <2>5. Editor!NewName(i, steps[k].name)
          = IF Place(kept, steps[k].name) = 0 THEN steps[k].name
            ELSE Editor!Renamed(i)[Place(kept, steps[k].name)].name
    BY DEF Editor!NewName, Editor!SelectInSeq, Editor!Min, Place, kept
  <2>6. Editor!Renamed(i) = steps'
    BY DEF Editor!RemoveStep
  <2> QED BY <2>2, <2>3, <2>4, <2>5, <2>6
<1> QED BY <1>3, <1>6, <1>7, <1>9, <1>10, <1>11, <1>12 DEF n

(* What a variable and a binding become.                                   *)
Moved(i, v) == [v EXCEPT !.step = Editor!NewName(i, @)]

(* The variables after a removal: those of other steps, moved.             *)
LEMMA RemovedVariables ==
  ASSUME EditorInv, NEW i \in 1 .. Len(steps), Editor!RemoveStep(i)
  PROVE  /\ \A v \in variables : v.step # steps[i].name => Moved(i, v) \in variables'
         /\ \A w \in variables' : \E v \in variables : v.step # steps[i].name /\ w = Moved(i, v)
         /\ \A v \in variables :
              /\ Moved(i, v).name = v.name /\ Moved(i, v).field = v.field /\ Moved(i, v).type = v.type
              /\ Moved(i, v).step = Editor!NewName(i, v.step)
              /\ Moved(i, v) = [name |-> v.name, step |-> Moved(i, v).step, field |-> v.field, type |-> v.type]
<1>1. variables' = {Moved(i, v) : v \in {w \in variables : w.step # steps[i].name}}
  BY DEF Editor!RemoveStep, Moved
<1>2. ASSUME NEW v \in variables
      PROVE  /\ Moved(i, v).name = v.name /\ Moved(i, v).field = v.field /\ Moved(i, v).type = v.type
             /\ Moved(i, v).step = Editor!NewName(i, v.step)
             /\ Moved(i, v) = [name |-> v.name, step |-> Moved(i, v).step, field |-> v.field, type |-> v.type]
  <2>1. v = [name |-> v.name, step |-> v.step, field |-> v.field, type |-> v.type]
    BY DEF EditorInv, VariablesFit
  <2>2. PICK m : m = Editor!NewName(i, v.step)
    OBVIOUS
  <2>3. Moved(i, v) = [v EXCEPT !.step = m]
    BY <2>2 DEF Moved
  <2> QED BY <2>1, <2>2, <2>3
<1> QED BY <1>1, <1>2

(* The bindings after a removal: those that were kept, moved.              *)
LEMMA RemovedBindings ==
  ASSUME EditorInv, NEW i \in 1 .. Len(steps), Editor!RemoveStep(i)
  PROVE  /\ \A b \in Editor!KeptBindings(i) : Moved(i, b) \in bindings'
         /\ \A c \in bindings' : \E b \in Editor!KeptBindings(i) : c = Moved(i, b)
         /\ \A b \in bindings :
              /\ Moved(i, b).variable = b.variable /\ Moved(i, b).field = b.field
              /\ Moved(i, b).step = Editor!NewName(i, b.step)
              /\ Moved(i, b) = [variable |-> b.variable, step |-> Moved(i, b).step, field |-> b.field]
<1>1. bindings' = {Moved(i, b) : b \in Editor!KeptBindings(i)}
  BY DEF Editor!RemoveStep, Moved
<1>2. ASSUME NEW b \in bindings
      PROVE  /\ Moved(i, b).variable = b.variable /\ Moved(i, b).field = b.field
             /\ Moved(i, b).step = Editor!NewName(i, b.step)
             /\ Moved(i, b) = [variable |-> b.variable, step |-> Moved(i, b).step, field |-> b.field]
  <2>1. b = [variable |-> b.variable, step |-> b.step, field |-> b.field]
    BY DEF EditorInv, BindingsFit
  <2>2. PICK m : m = Editor!NewName(i, b.step)
    OBVIOUS
  <2>3. Moved(i, b) = [b EXCEPT !.step = m]
    BY <2>2 DEF Moved
  <2> QED BY <2>1, <2>2, <2>3
<1> QED BY <1>1, <1>2

(* A kept binding leads on: its variable is not of the step that went.     *)
LEMMA KeptLeads ==
  ASSUME EditorInv, NEW i \in 1 .. Len(steps), Editor!RemoveStep(i), NEW b \in Editor!KeptBindings(i)
  PROVE  \E k, j \in 1 .. Len(steps) \ {i} :
           /\ Leads(steps, variables, b, k, j)
           /\ Leads(steps', variables', Moved(i, b), After(i, k), After(i, j))
<1>1. b \in bindings /\ b.step # steps[i].name
      /\ \A v \in variables : v.name = b.variable => v.step # steps[i].name
  BY DEF Editor!KeptBindings
<1>2. PICK k, j \in 1 .. Len(steps) : Leads(steps, variables, b, k, j)
  BY <1>1 DEF EditorInv, BindingsFit
<1>3. PICK v \in variables, t \in steps[j].req :
        /\ v.name = b.variable /\ v.step = steps[k].name /\ t.id = b.field /\ ~t.sensitive /\ v.type = t.type
        /\ k < j /\ b.step = steps[j].name
  BY <1>2 DEF Leads
<1>4. k # i /\ j # i
  BY <1>1, <1>3
<1>5. After(i, k) < After(i, j)
  <2>1. Len(steps) \in Nat
    BY NamesAreSingle DEF EditorInv
  <2> QED BY <1>3, <1>4, <2>1 DEF After
<1>6. Moved(i, v) \in variables' /\ Moved(i, v).name = v.name /\ Moved(i, v).type = v.type
      /\ Moved(i, v).step = steps'[After(i, k)].name
  BY <1>1, <1>3, <1>4, RemovedVariables, RemovedSteps
<1>7. Moved(i, b).variable = b.variable /\ Moved(i, b).field = b.field
      /\ Moved(i, b).step = steps'[After(i, j)].name /\ steps'[After(i, j)].req = steps[j].req
  BY <1>1, <1>3, <1>4, RemovedBindings, RemovedSteps
<1>8. Leads(steps', variables', Moved(i, b), After(i, k), After(i, j))
  <2>1. t \in steps'[After(i, j)].req
    BY <1>7
  <2> QED BY <1>3, <1>5, <1>6, <1>7, <2>1 DEF Leads
<1> QED BY <1>2, <1>4, <1>8

(* RemoveStep: the steps are renamed, and what names them with them.       *)
LEMMA RemoveFits ==
  ASSUME EditorInv, NEW i \in 1 .. Len(steps), Editor!RemoveStep(i)
  PROVE  EditorInv'
<1>1. VariablesFit(steps', variables')
  <2>1. ASSUME NEW v \in variables', NEW w \in variables', v.name = w.name PROVE v = w
    <3>1. PICK a \in variables : v = Moved(i, a) /\ v.name = a.name
      BY RemovedVariables
    <3>2. PICK b \in variables : w = Moved(i, b) /\ w.name = b.name
      BY RemovedVariables
    <3>3. a = b
      BY <2>1, <3>1, <3>2 DEF EditorInv, VariablesFit
    <3> QED BY <3>1, <3>2, <3>3
  <2>2. ASSUME NEW w \in variables'
        PROVE  /\ w = [name |-> w.name, step |-> w.step, field |-> w.field, type |-> w.type]
               /\ \E j \in 1 .. Len(steps') :
                    w.step = steps'[j].name /\ \E f \in steps'[j].res : f.id = w.field /\ f.type = w.type
    <3>1. PICK v \in variables : v.step # steps[i].name /\ w = Moved(i, v)
      BY RemovedVariables
    <3>2. PICK k \in 1 .. Len(steps) :
            v.step = steps[k].name /\ \E f \in steps[k].res : f.id = v.field /\ f.type = v.type
      BY DEF EditorInv, VariablesFit
    <3>3. k \in 1 .. Len(steps) \ {i}
      BY <3>1, <3>2
    <3>4. /\ w.name = v.name /\ w.field = v.field /\ w.type = v.type /\ w.step = Editor!NewName(i, v.step)
          /\ w = [name |-> v.name, step |-> w.step, field |-> v.field, type |-> v.type]
      BY <3>1, RemovedVariables
    <3>5. After(i, k) \in 1 .. Len(steps') /\ steps'[After(i, k)].res = steps[k].res
          /\ w.step = steps'[After(i, k)].name
      BY <3>2, <3>3, <3>4, RemovedSteps
    <3> QED BY <3>2, <3>4, <3>5
  <2> QED BY <2>1, <2>2 DEF VariablesFit
<1>2. BindingsFit(steps', variables', bindings')
  <2> SUFFICES ASSUME NEW c \in bindings'
               PROVE  /\ c = [variable |-> c.variable, step |-> c.step, field |-> c.field]
                      /\ \E k, j \in 1 .. Len(steps') : Leads(steps', variables', c, k, j)
    BY DEF BindingsFit
  <2>1. PICK b \in Editor!KeptBindings(i) : c = Moved(i, b)
    BY RemovedBindings
  <2>2. b \in bindings
    BY DEF Editor!KeptBindings
  <2>3. c = [variable |-> c.variable, step |-> c.step, field |-> c.field]
    BY <2>1, <2>2, RemovedBindings
  <2>4. PICK k, j \in 1 .. Len(steps) \ {i} : Leads(steps', variables', c, After(i, k), After(i, j))
    BY <2>1, KeptLeads
  <2>5. After(i, k) \in 1 .. Len(steps') /\ After(i, j) \in 1 .. Len(steps')
    BY RemovedSteps
  <2> QED BY <2>3, <2>4, <2>5
<1>3. StepsFit(steps') /\ contract' = contract
  BY RemovedSteps DEF Editor!RemoveStep
<1> QED BY <1>1, <1>2, <1>3 DEF EditorInv

(* Every step of the editor keeps it.                                      *)
LEMMA EditorStep ==
  ASSUME Editor!ContractAssumption, EditorInv, [Editor!Next]_Editor!vars
  PROVE  EditorInv'
<1>1. CASE \E f \in DOMAIN Contracts : Editor!LoadContract(f)
  BY <1>1 DEF Editor!LoadContract, EditorInv
<1>2. CASE \E o \in DOMAIN Contracts[contract] : Editor!AddStep(o)
  BY <1>2, AddFits
<1>3. ASSUME NEW i \in DOMAIN steps, Editor!RemoveStep(i) PROVE EditorInv'
  <2>1. i \in 1 .. Len(steps)
    BY NamesAreSingle DEF EditorInv
  <2> QED BY <1>3, <2>1, RemoveFits
<1>4. ASSUME NEW i \in DOMAIN steps, NEW f \in steps[i].res, NEW name \in Variables,
             Editor!SaveVariable(i, f, name)
      PROVE  EditorInv'
  BY <1>4, SaveFits
<1>5. ASSUME NEW i \in DOMAIN steps, NEW f \in steps[i].req,
             \/ Editor!TypeValue(i, f.id) \/ Editor!Unbind(i, f)
             \/ \E v \in variables : Editor!Bind(i, f, v)
      PROVE  EditorInv'
  BY <1>5, UnbindFits, BindFits
<1>6. CASE UNCHANGED Editor!vars
  BY <1>6 DEF Editor!vars, EditorInv
<1> QED BY <1>1, <1>2, <1>3, <1>4, <1>5, <1>6 DEF Editor!Next

(* An empty editor fits.                                                   *)
LEMMA EditorStarts == Editor!Init => EditorInv
<1> SUFFICES ASSUME Editor!Init PROVE EditorInv
  OBVIOUS
<1>1. steps = <<>> /\ variables = {} /\ bindings = {} /\ contract \in DOMAIN Contracts
  BY DEF Editor!Init
<1>2. <<>> \in Seq({}) /\ Len(<<>>) = 0
  BY EmptySeq
<1> QED BY <1>1, <1>2 DEF EditorInv, StepsFit, VariablesFit, BindingsFit

(* What the server asks of a binding that the editor does not see to.      *)
Plain(b) ==
  \A v \in variables :
    v.name = b.variable =>
      /\ \A f \in Editor!Named(v.step).res : f.id = v.field => ~f.sensitive
      /\ \A f \in Editor!Named(b.step).req : f.id = b.field => ~f.credential

InOneContract == \A i \in DOMAIN steps : steps[i].contract = fingerprint

(* A binding has one source and one target; the server refuses it exactly  *)
(* when one of them is not plain or the contracts differ.                  *)
LEMMA BindingFits ==
  ASSUME EditorInv, NEW b \in bindings
  PROVE  Editor!BindingAccepted(b) <=> Plain(b) /\ InOneContract
<1>1. Len(steps) \in Nat /\ DOMAIN steps = 1 .. Len(steps) /\ Single(steps)
  BY NamesAreSingle DEF EditorInv
<1>2. PICK k, j \in 1 .. Len(steps) : Leads(steps, variables, b, k, j)
  BY DEF EditorInv, BindingsFit
<1>3. PICK v \in variables, t \in steps[j].req :
        /\ v.name = b.variable /\ v.step = steps[k].name /\ t.id = b.field /\ ~t.sensitive /\ v.type = t.type
        /\ k < j /\ b.step = steps[j].name
  BY <1>2 DEF Leads
<1>4. /\ Editor!IndexOf(b.step) = j /\ Editor!Named(b.step) = steps[j]
      /\ Editor!IndexOf(v.step) = k /\ Editor!Named(v.step) = steps[k]
  BY <1>3, PlaceOfStep DEF EditorInv
<1>5. PICK l \in 1 .. Len(steps) :
        v.step = steps[l].name /\ \E f \in steps[l].res : f.id = v.field /\ f.type = v.type
  BY DEF EditorInv, VariablesFit
<1>6. l = k
  BY <1>1, <1>3, <1>5 DEF Single
<1>7. PICK s \in steps[k].res : s.id = v.field /\ s.type = v.type
  BY <1>5, <1>6
<1>8. /\ \A w \in variables : w.name = b.variable => w = v
      /\ \A f \in steps[k].res : f.id = v.field => f = s
      /\ \A f \in steps[j].req : f.id = b.field => f = t
  BY <1>3, <1>7 DEF EditorInv, VariablesFit, StepsFit
<1>9. Plain(b) <=> ~s.sensitive /\ ~t.credential
  BY <1>3, <1>4, <1>7, <1>8 DEF Plain
<1>10. j > 1 /\ k \in 1 .. j - 1
  BY <1>1, <1>3
<1>11. ASSUME Plain(b), InOneContract PROVE Editor!BindingAccepted(b)
  BY <1>3, <1>4, <1>7, <1>9, <1>10, <1>11 DEF Editor!BindingAccepted, InOneContract
<1>12. ASSUME Editor!BindingAccepted(b) PROVE Plain(b) /\ InOneContract
  <2>1. PICK w \in variables :
          /\ w.name = b.variable
          /\ \E a \in Editor!Named(w.step).res, c \in steps[j].req :
               a.id = w.field /\ c.id = b.field /\ ~a.sensitive /\ ~c.credential
    BY <1>4, <1>12 DEF Editor!BindingAccepted
  <2>2. w = v
    BY <1>8, <2>1
  <2>3. ~s.sensitive /\ ~t.credential
    BY <1>4, <1>8, <2>1, <2>2
  <2>4. InOneContract
    BY <1>12 DEF Editor!BindingAccepted, InOneContract
  <2> QED BY <1>9, <2>3, <2>4
<1> QED BY <1>11, <1>12

(* The server accepts what fits, save for what the editor does not see to. *)
LEMMA EditsFit == EditorInv => Editor!EditsAreAccepted
<1> SUFFICES ASSUME EditorInv PROVE Editor!EditsAreAccepted
  OBVIOUS
<1>1. Len(steps) \in Nat /\ DOMAIN steps = 1 .. Len(steps) /\ Single(steps)
  BY NamesAreSingle DEF EditorInv
<1>2. \A v \in variables : \E i \in DOMAIN steps : v.step = steps[i].name
  BY <1>1 DEF EditorInv, VariablesFit
<1>3. ASSUME NEW i \in DOMAIN steps, NEW b \in bindings, b.step = steps[i].name
      PROVE  b.variable \in UNION {Editor!Saves(j) : j \in 1 .. i - 1}
  <2>1. PICK k, j \in 1 .. Len(steps) : Leads(steps, variables, b, k, j)
    BY DEF EditorInv, BindingsFit
  <2>2. j = i
    BY <1>1, <1>3, <2>1 DEF Leads, Single
  <2>3. k \in 1 .. i - 1
    BY <1>1, <2>1, <2>2 DEF Leads
  <2>4. b.variable \in Editor!Saves(k)
    BY <2>1 DEF Leads, Editor!Saves
  <2> QED BY <2>3, <2>4
<1>4. \A i \in DOMAIN steps : Editor!BoundTo(i) \subseteq UNION {Editor!Saves(j) : j \in 1 .. i - 1}
  BY <1>3 DEF Editor!BoundTo
<1>5. ASSUME NEW b \in bindings PROVE Editor!BindingAccepted(b) <=> Plain(b) /\ InOneContract
  BY <1>5, BindingFits
<1>6. ASSUME Editor!NamesAllowed, Editor!PlainEnds, Editor!OneContract PROVE Editor!Accepted
  <2>1. \A b \in bindings : Editor!BindingAccepted(b)
    BY <1>5, <1>6 DEF Editor!PlainEnds, Editor!OneContract, Plain, InOneContract
  <2> QED BY <1>1, <1>6, <2>1 DEF Editor!Accepted, Editor!NamesAllowed, EditorInv, VariablesFit, Single
<1>7. ASSUME Editor!Accepted PROVE Editor!NamesAllowed /\ Editor!PlainEnds /\ Editor!OneContract
  <2>1. \A b \in bindings : Plain(b) /\ InOneContract
    BY <1>5, <1>7 DEF Editor!Accepted
  <2>2. Editor!PlainEnds
    BY <2>1 DEF Editor!PlainEnds, Plain
  <2>3. Editor!OneContract
    BY <2>1 DEF Editor!OneContract, InOneContract
  <2>4. Editor!NamesAllowed
    BY <1>7 DEF Editor!Accepted, Editor!NamesAllowed
  <2> QED BY <2>2, <2>3, <2>4
<1> QED BY <1>2, <1>4, <1>6, <1>7 DEF Editor!EditsAreAccepted

(* The links between places, of a sequence of steps.                       *)
Link(from, path, to, field) == [from |-> from, path |-> path, to |-> to, field |-> field]

LinksOf(s, vs, bs) ==
  {Link(Place(s, p[1].step), p[1].field, Place(s, p[2].step), p[2].field) :
     p \in {q \in vs \X bs : q[1].name = q[2].variable}}

(* The links of the editor, before and after a step.                       *)
LEMMA LinksAre ==
  /\ Editor!Links = LinksOf(steps, variables, bindings)
  /\ Editor!Links' = LinksOf(steps', variables', bindings')
  BY DEF Editor!Links, Editor!IndexOf, Editor!SelectInSeq, Editor!Min, Place, LinksOf, Link

(* A link comes from a variable and a binding of it, and each pair makes one. *)
LEMMA LinksFrom ==
  ASSUME NEW s, NEW vs, NEW bs
  PROVE  /\ \A l \in LinksOf(s, vs, bs) : \E v \in vs, b \in bs :
              /\ v.name = b.variable
              /\ l = Link(Place(s, v.step), v.field, Place(s, b.step), b.field)
         /\ \A v \in vs, b \in bs :
              v.name = b.variable => Link(Place(s, v.step), v.field, Place(s, b.step), b.field) \in LinksOf(s, vs, bs)
<1>1. ASSUME NEW v \in vs, NEW b \in bs, v.name = b.variable
      PROVE  Link(Place(s, v.step), v.field, Place(s, b.step), b.field) \in LinksOf(s, vs, bs)
  <2>1. <<v, b>> \in {q \in vs \X bs : q[1].name = q[2].variable}
    BY <1>1
  <2> QED BY <2>1 DEF LinksOf
<1>2. ASSUME NEW l \in LinksOf(s, vs, bs)
      PROVE  \E v \in vs, b \in bs :
               v.name = b.variable /\ l = Link(Place(s, v.step), v.field, Place(s, b.step), b.field)
  <2>1. PICK p \in {q \in vs \X bs : q[1].name = q[2].variable} :
          l = Link(Place(s, p[1].step), p[1].field, Place(s, p[2].step), p[2].field)
    BY DEF LinksOf
  <2> QED BY <2>1
<1> QED BY <1>1, <1>2

Shifted(i, l) == [l EXCEPT !.from = After(i, @), !.to = After(i, @)]

(* A link whose ends are moved.                                            *)
LEMMA LinkEnds ==
  ASSUME NEW from, NEW path, NEW to, NEW field, NEW i
  PROVE  Shifted(i, Link(from, path, to, field)) = Link(After(i, from), path, After(i, to), field)
<1> DEFINE l == Link(from, path, to, field)
<1>1. PICK a, b : a = After(i, l.from) /\ b = After(i, l.to)
  OBVIOUS
<1>2. l.from = from /\ l.to = to
  BY DEF Link
<1> HIDE DEF l
<1>3. Shifted(i, l) = [[l EXCEPT !.from = a] EXCEPT !.to = b]
  BY <1>1 DEF Shifted
<1>4. [l EXCEPT !.from = a] = Link(a, path, to, field)
  BY DEF l, Link
<1>5. [Link(a, path, to, field) EXCEPT !.to = b] = Link(a, path, b, field)
  BY DEF Link
<1> QED BY <1>1, <1>2, <1>3, <1>4, <1>5 DEF l

(* A variable and a binding of it belong to steps, before and after.       *)
LEMMA LinkMoves ==
  ASSUME EditorInv, NEW i \in 1 .. Len(steps), Editor!RemoveStep(i),
         NEW v \in variables, NEW b \in bindings, v.name = b.variable
  PROVE  \E k, j \in 1 .. Len(steps) :
           /\ Place(steps, v.step) = k /\ Place(steps, b.step) = j
           /\ v.step = steps[k].name /\ b.step = steps[j].name
           /\ k # i => Place(steps', Moved(i, v).step) = After(i, k)
           /\ j # i => Place(steps', Moved(i, b).step) = After(i, j)
<1>1. PICK k \in 1 .. Len(steps) : v.step = steps[k].name
  BY DEF EditorInv, VariablesFit
<1>2. PICK h, j \in 1 .. Len(steps) : Leads(steps, variables, b, h, j)
  BY DEF EditorInv, BindingsFit
<1>3. b.step = steps[j].name
  BY <1>2 DEF Leads
<1>4. Place(steps, v.step) = k /\ Place(steps, b.step) = j
  BY <1>1, <1>3, NamesAreSingle, PlaceIs DEF EditorInv
<1>5. \A m \in 1 .. Len(steps') : Place(steps', steps'[m].name) = m
  <2>1. Single(steps') /\ Len(steps') \in Nat
    BY RemovedSteps, NamesAreSingle
  <2> QED BY <2>1, PlaceIs
<1>6. k # i => Place(steps', Moved(i, v).step) = After(i, k)
  BY <1>1, <1>5, RemovedVariables, RemovedSteps
<1>7. j # i => Place(steps', Moved(i, b).step) = After(i, j)
  BY <1>3, <1>5, RemovedBindings, RemovedSteps
<1> QED BY <1>1, <1>3, <1>4, <1>6, <1>7

(* RemoveStep takes the links of the step away and moves the ends of the others. *)
LEMMA RemovalMovesLinks ==
  ASSUME EditorInv, NEW i \in 1 .. Len(steps), Editor!RemoveStep(i)
  PROVE  Editor!LinksMove(i)
<1> DEFINE kept == {l \in LinksOf(steps, variables, bindings) : l.from # i /\ l.to # i}
           later == LinksOf(steps', variables', bindings')
<1>1. \A from, path, to, field :
        Shifted(i, Link(from, path, to, field)) = Link(After(i, from), path, After(i, to), field)
  BY LinkEnds
<1>2. Single(steps)
  BY NamesAreSingle DEF EditorInv
<1>3. ASSUME NEW l \in later PROVE \E m \in kept : l = Shifted(i, m)
  <2>1. PICK w \in variables', c \in bindings' :
          /\ w.name = c.variable
          /\ l = Link(Place(steps', w.step), w.field, Place(steps', c.step), c.field)
    BY <1>3, LinksFrom
  <2>2. PICK v \in variables : v.step # steps[i].name /\ w = Moved(i, v) /\ w.name = v.name /\ w.field = v.field
    BY RemovedVariables
  <2>3. PICK b \in Editor!KeptBindings(i) : c = Moved(i, b)
    BY RemovedBindings
  <2>4. b \in bindings /\ b.step # steps[i].name
    BY DEF Editor!KeptBindings
  <2>5. c.variable = b.variable /\ c.field = b.field /\ v.name = b.variable
    BY <2>1, <2>2, <2>3, <2>4, RemovedBindings
  <2>6. PICK k, j \in 1 .. Len(steps) :
          /\ Place(steps, v.step) = k /\ Place(steps, b.step) = j
          /\ v.step = steps[k].name /\ b.step = steps[j].name
          /\ k # i => Place(steps', w.step) = After(i, k)
          /\ j # i => Place(steps', c.step) = After(i, j)
    BY <2>2, <2>3, <2>4, <2>5, LinkMoves
  <2>7. k # i /\ j # i
    BY <2>2, <2>4, <2>6
  <2> DEFINE m == Link(k, v.field, j, b.field)
  <2>8. m \in LinksOf(steps, variables, bindings)
    BY <2>4, <2>5, <2>6, LinksFrom
  <2>9. m.from = k /\ m.to = j
    BY DEF Link
  <2>10. l = Link(After(i, k), v.field, After(i, j), b.field)
    BY <2>1, <2>2, <2>5, <2>6, <2>7
  <2>11. Shifted(i, m) = Link(After(i, k), v.field, After(i, j), b.field)
    BY <1>1
  <2> HIDE DEF m
  <2> QED BY <2>7, <2>8, <2>9, <2>10, <2>11
<1>4. ASSUME NEW m \in kept PROVE Shifted(i, m) \in later
  <2>1. PICK v \in variables, b \in bindings :
          /\ v.name = b.variable
          /\ m = Link(Place(steps, v.step), v.field, Place(steps, b.step), b.field)
    BY <1>4, LinksFrom
  <2>2. PICK k, j \in 1 .. Len(steps) :
          /\ Place(steps, v.step) = k /\ Place(steps, b.step) = j
          /\ v.step = steps[k].name /\ b.step = steps[j].name
          /\ k # i => Place(steps', Moved(i, v).step) = After(i, k)
          /\ j # i => Place(steps', Moved(i, b).step) = After(i, j)
    BY <2>1, LinkMoves
  <2>3. m = Link(k, v.field, j, b.field) /\ m.from = k /\ m.to = j
    BY <2>1, <2>2 DEF Link
  <2>4. k # i /\ j # i
    BY <1>4, <2>3
  <2>5. v.step # steps[i].name /\ b.step # steps[i].name
    BY <1>2, <2>2, <2>4 DEF Single
  <2>6. b \in Editor!KeptBindings(i)
    <3>1. \A u \in variables : u.name = b.variable => u = v
      BY <2>1 DEF EditorInv, VariablesFit
    <3> QED BY <2>5, <3>1 DEF Editor!KeptBindings
  <2>7. Moved(i, v) \in variables' /\ Moved(i, v).name = v.name /\ Moved(i, v).field = v.field
    BY <2>5, RemovedVariables
  <2>8. Moved(i, b) \in bindings' /\ Moved(i, b).variable = b.variable /\ Moved(i, b).field = b.field
    BY <2>6, RemovedBindings
  <2>9. Link(After(i, k), v.field, After(i, j), b.field) \in later
    BY <2>1, <2>2, <2>4, <2>7, <2>8, LinksFrom
  <2>10. Shifted(i, m) = Link(After(i, k), v.field, After(i, j), b.field)
    BY <1>1, <2>3
  <2> HIDE DEF later
  <2> QED BY <2>9, <2>10
<1> HIDE DEF kept, later
<1>5. later = {Shifted(i, l) : l \in kept}
  BY <1>3, <1>4
<1> USE DEF kept, later
<1>6. Editor!Links' = {[l EXCEPT !.from = After(i, @), !.to = After(i, @)] :
                         l \in {k \in Editor!Links : k.from # i /\ k.to # i}}
  BY <1>5, LinksAre DEF Shifted
<1> QED BY <1>6 DEF Editor!LinksMove, After

(* Whatever a user adds, removes, saves, binds and types, the server       *)
(* accepts the result exactly if no variable has a name it forbids, each   *)
(* binding leads from a plain field to a plain one, and all steps of a     *)
(* workspace with bindings are of one contract.                            *)
THEOREM EditorCorrect == Editor!ContractAssumption /\ Editor!Spec => []Editor!EditsAreAccepted
<1> SUFFICES ASSUME Editor!ContractAssumption PROVE Editor!Spec => []Editor!EditsAreAccepted
  OBVIOUS
<1>1. EditorInv /\ [Editor!Next]_Editor!vars => EditorInv'
  BY EditorStep
<1> QED BY <1>1, EditorStarts, EditsFit, PTL DEF Editor!Spec

(* The removal of a step takes exactly the links to and from it, whatever the *)
(* steps are called afterwards.                                            *)
THEOREM RemovalMoves == Editor!ContractAssumption /\ Editor!Spec => Editor!RemovalKeepsLinks
<1> SUFFICES ASSUME Editor!ContractAssumption PROVE Editor!Spec => Editor!RemovalKeepsLinks
  OBVIOUS
<1>1. EditorInv /\ [Editor!Next]_Editor!vars => EditorInv'
  BY EditorStep
<1>2. EditorInv /\ [Editor!Next]_Editor!vars
        => [\A i \in DOMAIN steps : Editor!RemoveStep(i) => Editor!LinksMove(i)]_Editor!vars
  <2> SUFFICES ASSUME EditorInv, NEW i \in DOMAIN steps, Editor!RemoveStep(i) PROVE Editor!LinksMove(i)
    OBVIOUS
  <2>1. i \in 1 .. Len(steps)
    BY NamesAreSingle DEF EditorInv
  <2> QED BY <2>1, RemovalMovesLinks
<1> QED BY <1>1, <1>2, EditorStarts, PTL DEF Editor!Spec, Editor!RemovalKeepsLinks
-----------------------------------------------------------------------------
(* The pickers.  Their orders are folded, so the rule of induction and the *)
(* existence of folds come first.                                          *)

(* The largest number of a set: what MapThenFoldSet and FoldLeft take out  *)
(* of the domain of a sequence, step by step.                              *)
Greatest(t) == CHOOSE x \in t : \A y \in t : x >= y

(* The order of the natural numbers, as a set of pairs.                    *)
Less == OpToRel(<, Nat)

(* The order has a smallest element in every set of numbers that is not    *)
(* empty: the rule of induction is drawn from it.                          *)
LEMMA LessIs == Less = {ss \in Nat \X Nat : ss[1] < ss[2]} /\ IsWellFoundedOn(Less, Nat)
BY NatLessThanWellFounded DEF OpToRel, Less

(* A set of numbers that is not empty has a least one.                     *)
LEMMA NatMin == ASSUME NEW T \in SUBSET Nat, T # {} PROVE \E m \in T : \A n \in T : m <= n
<1>2. \E x \in T : \A y \in T : ~ (<<y, x>> \in Less)
  BY LessIs, WFMin
<1>3. ASSUME NEW x \in Nat, NEW y \in Nat, <<y, x>> \notin Less PROVE x <= y
  <2> <<y, x>> \in Nat \X Nat /\ <<y, x>>[1] = y /\ <<y, x>>[2] = x OBVIOUS
  <2> QED BY <1>3, LessIs
<1> QED BY <1>2, <1>3

(* Induction: what holds of 0 and goes from n to n + 1 holds of all.       *)
LEMMA NatInd == ASSUME NEW S, 0 \in S, \A n \in Nat : n \in S => n + 1 \in S PROVE Nat \subseteq S
<1> SUFFICES ASSUME Nat \ S # {} PROVE FALSE OBVIOUS
<1>1. PICK m \in Nat \ S : \A n \in Nat \ S : m <= n
  BY NatMin
<1>2. m # 0 /\ m - 1 \in Nat /\ m - 1 < m OBVIOUS
<1>3. m - 1 \in S BY <1>1, <1>2
<1> QED BY <1>2, <1>3

(* The largest number of a set of positions. *)
LEMMA MaxOfPositions ==
  ASSUME NEW n \in Nat, NEW t \in SUBSET (1..n), t # {}
  PROVE Greatest(t) \in t /\ \A i \in t : i <= Greatest(t)
<1> DEFINE T == {n - i : i \in t}
<1>1. T \in SUBSET Nat /\ T # {}
  <2>1. \A i \in t : n - i \in Nat OBVIOUS
  <2>2. PICK i \in t : TRUE OBVIOUS
  <2>3. n - i \in T OBVIOUS
  <2> QED BY <2>1, <2>3
<1> HIDE DEF T
<1>2. PICK m \in T : \A k \in T : m <= k BY <1>1, NatMin
<1> USE DEF T
<1>3. PICK j \in t : m = n - j BY <1>2
<1>4. \A i \in t : i <= j 
  <2> TAKE i \in t
  <2>1. n - j <= n - i BY <1>2, <1>3
  <2> QED BY <2>1
<1>5. \E j1 \in t : \A i \in t : j1 >= i BY <1>4
<1> QED BY <1>5 DEF Greatest

(* Without its largest number a set of positions ends earlier.             *)
LEMMA WithoutMax ==
  ASSUME NEW n \in Nat, NEW t \in SUBSET (1..n), t # {}, NEW k \in Nat, \A i \in t : i <= k + 1
  PROVE  \A i \in t \ {Greatest(t)} : i <= k
<1> TAKE i \in t \ {Greatest(t)}
<1>1. i \in 1..n /\ Greatest(t) \in 1..n BY MaxOfPositions
<1>2. i <= Greatest(t) /\ i # Greatest(t) /\ Greatest(t) <= k + 1 BY MaxOfPositions
<1> QED BY <1>1, <1>2

(* The positions 1 .. k, without the last.                                 *)
LEMMA MaxOfSegment ==
  ASSUME NEW n \in Nat, NEW k \in 1..n
  PROVE Greatest(1..k) = k /\ (1..k) \ {k} = 1..(k-1) /\ 1..k # {}
<1>1. (1..k) \in SUBSET (1..n) /\ k \in 1..k OBVIOUS
<1>2. 1..k # {} BY <1>1
<1>3. Greatest(1..k) \in 1..k /\ \A i \in 1..k : i <= Greatest(1..k)
  BY <1>1, <1>2, MaxOfPositions
<1>4. Greatest(1..k) = k BY <1>1, <1>3
<1> QED BY <1>2, <1>4

(* f is the fold of h over the sets of positions, from the largest down.   *)
Folds(f, n, A, base, h) ==
  /\ f \in [SUBSET (1..n) -> A]
  /\ \A t \in SUBSET (1..n) : f[t] = IF t = {} THEN base ELSE h[<<f[t \ {Greatest(t)}], Greatest(t)>>]

(* There is such a fold: CHOOSE finds it, so FoldLeft obeys its equation.  *)
LEMMA FoldExists ==
  ASSUME NEW n \in Nat, NEW A, NEW base \in A, NEW h \in [A \X (1..n) -> A]
  PROVE \E f : Folds(f, n, A, base, h)
<1> DEFINE Small(k) == {t \in SUBSET (1..n) : \A i \in t : i <= k}
           S == {k \in Nat : \E f \in [Small(k) -> A] : \A t \in Small(k) :
                   f[t] = IF t = {} THEN base ELSE h[<<f[t \ {Greatest(t)}], Greatest(t)>>]}
<1>1. 0 \in S
  <2>1. Small(0) = {{}} OBVIOUS
  <2> HIDE DEF Small
  <2>2. [t \in Small(0) |-> base] \in [Small(0) -> A] OBVIOUS
  <2> QED BY <2>1, <2>2
<1>2. ASSUME NEW k \in Nat, k \in S PROVE k + 1 \in S
  <2>1. PICK f \in [Small(k) -> A] : \A t \in Small(k) :
                   f[t] = IF t = {} THEN base ELSE h[<<f[t \ {Greatest(t)}], Greatest(t)>>]
    BY <1>2
  <2> HIDE DEF S
  <2>2. ASSUME NEW t \in Small(k + 1), t # {} PROVE Greatest(t) \in 1..n /\ t \ {Greatest(t)} \in Small(k)
    <3>1. t \in SUBSET (1..n) /\ \A i \in t : i <= k + 1 OBVIOUS
    <3>2. Greatest(t) \in t /\ \A i \in t : i <= Greatest(t) BY <2>2, <3>1, MaxOfPositions
    <3>3. \A i \in t \ {Greatest(t)} : i <= k BY <2>2, <3>1, WithoutMax
    <3> QED BY <3>1, <3>2, <3>3
  <2>3. Small(k) \subseteq Small(k+1) /\ {} \in Small(k) OBVIOUS
  <2> DEFINE g == [t \in Small(k+1) |-> IF t = {} THEN base ELSE h[<<f[t \ {Greatest(t)}], Greatest(t)>>]]
  <2> HIDE DEF Small
  <2>4. g \in [Small(k+1) -> A] 
    <3>1. ASSUME NEW t \in Small(k+1), t # {} PROVE h[<<f[t \ {Greatest(t)}], Greatest(t)>>] \in A
      BY <2>2, <3>1
    <3> QED BY <3>1
  <2>5. \A t \in Small(k) : g[t] = f[t] BY <2>1, <2>3
  <2>6. \A t \in Small(k+1) : g[t] = IF t = {} THEN base ELSE h[<<g[t \ {Greatest(t)}], Greatest(t)>>]
    BY <2>5, <2>2
  <2> HIDE DEF g
  <2>7. \E f2 \in [Small(k+1) -> A] : \A t \in Small(k+1) :
                   f2[t] = IF t = {} THEN base ELSE h[<<f2[t \ {Greatest(t)}], Greatest(t)>>]
    BY <2>4, <2>6
  <2>8. k + 1 \in Nat OBVIOUS
  <2> QED BY <2>7, <2>8 DEF S
<1> HIDE DEF S
<1>3. n \in S BY <1>1, <1>2, NatInd
<1> USE DEF S
<1>4. Small(n) = SUBSET (1..n) OBVIOUS
<1> HIDE DEF Small
<1> QED BY <1>3, <1>4 DEF Folds

(* A new id at the end of an order that names each id once.                *)
LEMMA AppendKeeps ==
  ASSUME NEW S, NEW s \in Seq(S), Panel!IsInjective(s), NEW x \in S, x \notin Panel!ToSet(s)
  PROVE  /\ Append(s, x) \in Seq(S) /\ Panel!IsInjective(Append(s, x))
         /\ Panel!ToSet(Append(s, x)) = Panel!ToSet(s) \cup {x}
<1>1. DOMAIN Append(s, x) = DOMAIN s \cup {Len(s) + 1} /\ DOMAIN s = 1..Len(s) /\ Append(s, x) \in Seq(S)
  OBVIOUS
<1>2. \A i \in DOMAIN s : Append(s, x)[i] = s[i] OBVIOUS
<1>3. Append(s, x)[Len(s) + 1] = x OBVIOUS
<1>4. \A i \in DOMAIN s : s[i] # x BY DEF Panel!ToSet
<1>5. Panel!IsInjective(Append(s, x)) BY <1>1, <1>2, <1>3, <1>4 DEF Panel!IsInjective
<1>6. Panel!ToSet(Append(s, x)) = Panel!ToSet(s) \cup {x} BY <1>1, <1>2, <1>3 DEF Panel!ToSet
<1> QED BY <1>1, <1>5, <1>6

(* The filter of an order names, once each, what of the order is in the    *)
(* set.                                                                    *)
LEMMA OnlyKeeps ==
  ASSUME NEW S, NEW order \in Seq(S), Panel!IsInjective(order), NEW ids
  PROVE  /\ Panel!Only(order, ids) \in Seq(S) /\ Panel!IsInjective(Panel!Only(order, ids))
         /\ Panel!ToSet(Panel!Only(order, ids)) = Panel!ToSet(order) \cap ids
<1> DEFINE n == Len(order)
           Next1(kept, i) == IF order[i] \in ids THEN Append(kept, order[i]) ELSE kept
           Eq(f) == f = [t \in SUBSET DOMAIN order |-> IF t = {} THEN <<>> ELSE Next1(f[t \ {Greatest(t)}], Greatest(t))]
           h == [x \in Seq(S) \X (1..n) |-> Next1(x[1], x[2])]
<1>1. n \in Nat /\ DOMAIN order = 1..n /\ order \in [1..n -> S] OBVIOUS
<1>2. Panel!Only(order, ids) = (CHOOSE f : Eq(f))[DOMAIN order]
  BY DEF Panel!Only, Panel!FoldLeft, Panel!MapThenFoldSet, Panel!Max, Greatest
<1> HIDE DEF Eq
<1>3. h \in [Seq(S) \X (1..n) -> Seq(S)]
  <2>1. ASSUME NEW kept \in Seq(S), NEW i \in 1..n PROVE Next1(kept, i) \in Seq(S)
    <3>1. order[i] \in S BY <1>1
    <3> QED BY <3>1
  <2> HIDE DEF Next1, n
  <2> QED BY <2>1
<1> USE DEF Eq
<1>4. \E f : Eq(f)
  <2>1. PICK f : Folds(f, n, Seq(S), <<>>, h)
    <3>1. <<>> \in Seq(S) OBVIOUS
    <3> HIDE DEF h, n
    <3> QED BY <1>1, <1>3, <3>1, FoldExists
  <2>2. ASSUME NEW t \in SUBSET (1..n), t # {} PROVE h[<<f[t \ {Greatest(t)}], Greatest(t)>>] = Next1(f[t \ {Greatest(t)}], Greatest(t))
    <3>1. Greatest(t) \in 1..n BY <1>1, <2>2, MaxOfPositions
    <3>2. f[t \ {Greatest(t)}] \in Seq(S) BY <2>1 DEF Folds
    <3> QED BY <3>1, <3>2
  <2>3. f = [t \in SUBSET (1..n) |-> f[t]] BY <2>1 DEF Folds
  <2>4. \A t \in SUBSET (1..n) : f[t] = IF t = {} THEN <<>> ELSE Next1(f[t \ {Greatest(t)}], Greatest(t))
    <3> HIDE DEF h, Next1, n
    <3> QED BY <2>1, <2>2 DEF Folds
  <2>5. f = [t \in SUBSET (1..n) |-> IF t = {} THEN <<>> ELSE Next1(f[t \ {Greatest(t)}], Greatest(t))]
    <3> HIDE DEF h, Next1, n
    <3> QED BY <2>3, <2>4
  <2> QED BY <2>5, <1>1
<1> DEFINE F == CHOOSE f : Eq(f)
           g(k) == F[1..k]
<1>5. Eq(F) BY <1>4
<1> HIDE DEF F, h
<1>6. g(0) = <<>> 
  <2>1. 1..0 = {} /\ (1..0) \in SUBSET (1..n) OBVIOUS
  <2> HIDE DEF n
  <2> QED BY <1>5, <2>1, <1>1
<1>7. ASSUME NEW k \in 1..n PROVE g(k) = Next1(g(k-1), k)
  <2>1. (1..k) \in SUBSET (1..n) OBVIOUS
  <2>2. Greatest(1..k) = k /\ (1..k) \ {k} = 1..(k-1) /\ 1..k # {} BY <1>1, MaxOfSegment
  <2> HIDE DEF Next1, n
  <2>3. F[1..k] = Next1(F[(1..k) \ {Greatest(1..k)}], Greatest(1..k)) BY <1>5, <2>1, <2>2, <1>1
  <2> QED BY <2>3, <2>2
<1> DEFINE Upto(k) == {order[i] : i \in 1..k} \cap ids
           J == {k \in Nat : k <= n => g(k) \in Seq(S) /\ Panel!IsInjective(g(k)) /\ Panel!ToSet(g(k)) = Upto(k)}
<1>8. 0 \in J
  <2>1. <<>> \in Seq(S) /\ Panel!IsInjective(<<>>) /\ Panel!ToSet(<<>>) = {} /\ Upto(0) = {}
    BY DEF Panel!IsInjective, Panel!ToSet
  <2> HIDE DEF g, Upto
  <2> QED BY <1>6, <2>1
<1>9. ASSUME NEW k \in Nat, k \in J PROVE k + 1 \in J
  <2> SUFFICES ASSUME k + 1 <= n
      PROVE g(k+1) \in Seq(S) /\ Panel!IsInjective(g(k+1)) /\ Panel!ToSet(g(k+1)) = Upto(k+1)
    OBVIOUS
  <2>1. k + 1 \in 1..n /\ k <= n /\ (k + 1) - 1 = k BY <1>1
  <2>2. g(k) \in Seq(S) /\ Panel!IsInjective(g(k)) /\ Panel!ToSet(g(k)) = Upto(k) BY <1>9, <2>1
  <2>3. g(k+1) = Next1(g(k), k+1)
    <3> HIDE DEF g, Next1, n
    <3> QED BY <1>7, <2>1
  <2>4. Upto(k+1) = Upto(k) \cup ({order[k+1]} \cap ids)
    <3>1. 1..(k+1) = (1..k) \cup {k+1} OBVIOUS
    <3> QED BY <3>1
  <2>5. order[k+1] \in S /\ order[k+1] \notin Upto(k)
    <3>1. \A i \in 1..k : order[i] # order[k+1] BY <1>1, <2>1 DEF Panel!IsInjective
    <3> QED BY <1>1, <2>1, <3>1
  <2> HIDE DEF g, Upto, J, n
  <2>6. CASE order[k+1] \in ids
    <3>1. g(k+1) = Append(g(k), order[k+1]) BY <2>3, <2>6
    <3>2. order[k+1] \in S /\ order[k+1] \notin Panel!ToSet(g(k)) BY <2>2, <2>5
    <3>3. /\ Append(g(k), order[k+1]) \in Seq(S) /\ Panel!IsInjective(Append(g(k), order[k+1]))
          /\ Panel!ToSet(Append(g(k), order[k+1])) = Panel!ToSet(g(k)) \cup {order[k+1]}
      BY <2>2, <3>2, AppendKeeps
    <3>4. Upto(k+1) = Upto(k) \cup {order[k+1]} BY <2>4, <2>6
    <3> QED BY <2>2, <3>1, <3>3, <3>4
  <2>7. CASE order[k+1] \notin ids
    <3>1. g(k+1) = g(k) BY <2>3, <2>7
    <3> QED BY <2>2, <2>4, <2>7, <3>1
  <2> QED BY <2>6, <2>7
<1>10. n \in J
  <2> HIDE DEF J
  <2> QED BY <1>1, <1>8, <1>9, NatInd
<1>11. Upto(n) = Panel!ToSet(order) \cap ids BY <1>1 DEF Panel!ToSet
<1>12. Panel!Only(order, ids) = g(n)
  <2> HIDE DEF Eq, n, J, Upto, Next1
  <2> USE DEF F
  <2> QED BY <1>1, <1>2
<1> HIDE DEF g, Upto, Eq
<1> QED BY <1>1, <1>10, <1>11, <1>12

(* A selection of listed ids, in an order.                                 *)
Picks(ids) == {p \in [set : SUBSET ids, order : Seq(ids)] : Panel!PickInOrder(p, ids)}

(* A sequence of elements of a set is a sequence over that set.            *)
LEMMA StaysASeq ==
  ASSUME NEW S, NEW T, NEW s \in Seq(S), \A i \in 1 .. Len(s) : s[i] \in T
  PROVE  s \in Seq(T)
<1>1. Len(s) \in Nat /\ s \in [1 .. Len(s) -> T] OBVIOUS
<1> QED BY <1>1

(* An order that names a set once each is a selection.                     *)
LEMMA PickIs ==
  ASSUME NEW ids, NEW set \in SUBSET ids, NEW order \in Seq(ids), Panel!IsInjective(order), Panel!ToSet(order) = set
  PROVE  [set |-> set, order |-> order] \in Picks(ids)
<1> DEFINE p == [set |-> set, order |-> order]
<1>1. p \in [set : SUBSET ids, order : Seq(ids)] /\ p.set = set /\ p.order = order OBVIOUS
<1> HIDE DEF p
<1> QED BY <1>1 DEF Picks, Panel!PickInOrder

(* A click on one id makes a selection of a selection (selectTest).        *)
LEMMA OnePick ==
  ASSUME NEW T, NEW p \in Picks(T), NEW id \in T, NEW c
  PROVE  Panel!Picked(p, id, c) \in Picks(T)
<1>1. p \in [set : SUBSET T, order : Seq(T)] /\ Panel!IsInjective(p.order) /\ Panel!ToSet(p.order) = p.set
  BY DEF Picks, Panel!PickInOrder
<1>2. CASE c /\ Panel!Contains(p.order, id)
  <2>1. id \in p.set BY <1>1, <1>2 DEF Panel!Contains, Panel!ToSet
  <2> QED BY <1>1, <1>2, <2>1 DEF Panel!Picked, Picks, Panel!PickInOrder
<1>3. CASE c /\ ~Panel!Contains(p.order, id)
  <2>1. p.order \in Seq(T) /\ id \notin Panel!ToSet(p.order) BY <1>1, <1>3 DEF Panel!Contains, Panel!ToSet
  <2>2. /\ Append(p.order, id) \in Seq(T) /\ Panel!IsInjective(Append(p.order, id))
        /\ Panel!ToSet(Append(p.order, id)) = p.set \cup {id}
    BY <1>1, <2>1, AppendKeeps
  <2>3. Panel!Picked(p, id, c) = [set |-> p.set \cup {id}, order |-> Append(p.order, id)] BY <1>3 DEF Panel!Picked
  <2>4. p.set \cup {id} \in SUBSET T BY <1>1
  <2> QED BY <2>2, <2>3, <2>4, PickIs
<1>4. CASE ~c
  <2> DEFINE o == Panel!Only(p.order, Panel!ToSet(p.order) \ {id})
  <2>1. o \in Seq(T) /\ Panel!IsInjective(o) /\ Panel!ToSet(o) = p.set \ {id}
    BY <1>1, OnlyKeeps
  <2>2. Panel!Picked(p, id, c) = [set |-> p.set \ {id}, order |-> o] BY <1>4 DEF Panel!Picked
  <2>3. p.set \ {id} \in SUBSET T BY <1>1
  <2> HIDE DEF o
  <2> QED BY <2>1, <2>2, <2>3, PickIs
<1> QED BY <1>2, <1>3, <1>4

(* So does a click on a folder, which picks its test cases in turn.        *)
LEMMA AllPicks ==
  ASSUME NEW T, NEW p \in Picks(T), NEW c, NEW s \in Seq(T)
  PROVE  Panel!PickedInTurn(p, s, c) \in Picks(T)
<1> DEFINE n == Len(s)
           Eq(f) == f = [t \in SUBSET DOMAIN s |-> IF t = {} THEN p ELSE Panel!Picked(f[t \ {Greatest(t)}], s[Greatest(t)], c)]
           h == [x \in Picks(T) \X (1..n) |-> Panel!Picked(x[1], s[x[2]], c)]
<1>1. n \in Nat /\ DOMAIN s = 1..n /\ \A i \in 1..n : s[i] \in T OBVIOUS
<1>2. Panel!PickedInTurn(p, s, c) = (CHOOSE f : Eq(f))[DOMAIN s]
  BY DEF Panel!PickedInTurn, Panel!FoldLeft, Panel!MapThenFoldSet, Panel!Max, Greatest
<1> HIDE DEF Eq, n
<1>3. h \in [Picks(T) \X (1..n) -> Picks(T)] BY <1>1, OnePick
<1>4. PICK f : Folds(f, n, Picks(T), p, h) 
  <2> HIDE DEF h
  <2> QED BY <1>1, <1>3, FoldExists
<1>5. Eq(f)
  <2>1. ASSUME NEW t \in SUBSET (1..n), t # {} PROVE h[<<f[t \ {Greatest(t)}], Greatest(t)>>] = Panel!Picked(f[t \ {Greatest(t)}], s[Greatest(t)], c)
    <3>1. Greatest(t) \in 1..n BY <1>1, <2>1, MaxOfPositions
    <3>2. f[t \ {Greatest(t)}] \in Picks(T) BY <1>4 DEF Folds
    <3> QED BY <3>1, <3>2
  <2> HIDE DEF h
  <2>2. f = [t \in SUBSET (1..n) |-> IF t = {} THEN p ELSE Panel!Picked(f[t \ {Greatest(t)}], s[Greatest(t)], c)]
    BY <1>4, <2>1 DEF Folds
  <2> QED BY <2>2, <1>1 DEF Eq
<1> DEFINE F == CHOOSE g : Eq(g)
<1>6. Eq(F) BY <1>5
<1> HIDE DEF F, h
<1> DEFINE J == {k \in Nat : k <= n => F[1..k] \in Picks(T)}
<1>7. 0 \in J
  <2>1. 1..0 = {} /\ (1..0) \in SUBSET (1..n) OBVIOUS
  <2> QED BY <1>6, <2>1, <1>1 DEF Eq
<1>8. ASSUME NEW k \in Nat, k \in J PROVE k + 1 \in J
  <2> SUFFICES ASSUME k + 1 <= n PROVE F[1..(k+1)] \in Picks(T) OBVIOUS
  <2>1. k + 1 \in 1..n /\ k <= n /\ (k + 1) - 1 = k /\ (1..(k+1)) \in SUBSET (1..n) BY <1>1
  <2>2. Greatest(1..(k+1)) = k + 1 /\ (1..(k+1)) \ {k+1} = 1..k /\ 1..(k+1) # {} BY <1>1, <2>1, MaxOfSegment
  <2>3. F[1..(k+1)] = Panel!Picked(F[1..k], s[k+1], c) BY <1>6, <2>1, <2>2, <1>1 DEF Eq
  <2> QED BY <1>8, <1>1, <2>1, <2>3, OnePick
<1>9. n \in J
  <2> HIDE DEF J
  <2> QED BY <1>1, <1>7, <1>8, NatInd
<1> QED BY <1>1, <1>2, <1>9 DEF F

(* The panel counts as everybody does.                                     *)
LEMMA PanelCounts == \A S : Panel!Cardinality(S) = Cardinality(S) /\ Panel!IsFiniteSet(S) = IsFiniteSet(S)
  BY DEF Panel!Cardinality, Cardinality, Panel!IsFiniteSet, IsFiniteSet

(* A finite set can be gone through in an order.                           *)
LEMMA ListedOnce ==
  ASSUME NEW ids, Panel!IsFiniteSet(ids)
  PROVE  Panel!SetToSeq(ids) \in Seq(ids)
<1>0. IsFiniteSet(ids) BY PanelCounts
<1>1. Cardinality(ids) \in Nat /\ ExistsBijection(1..Cardinality(ids), ids) BY <1>0, FS_CardinalityType
<1>2. \E f \in [1..Cardinality(ids) -> ids] : Panel!IsInjective(f)
  BY <1>1 DEF ExistsBijection, Bijection, Injection, IsInjective, Panel!IsInjective
<1> DEFINE F == CHOOSE f \in [1..Cardinality(ids) -> ids] : Panel!IsInjective(f)
<1>3. Panel!SetToSeq(ids) = F BY PanelCounts DEF Panel!SetToSeq
<1>4. F \in [1..Cardinality(ids) -> ids] BY <1>2
<1> HIDE DEF F
<1> QED BY <1>1, <1>3, <1>4

(* What is left of a selection in a new list is a selection from it.       *)
LEMMA KeptPicks ==
  ASSUME NEW ids, NEW T, NEW keep \in Picks(T)
  PROVE  Panel!Kept(keep, ids) \in Picks(ids)
<1> DEFINE o == Panel!Only(keep.order, keep.set \cap ids)
<1>1. keep.order \in Seq(T) /\ Panel!IsInjective(keep.order) /\ Panel!ToSet(keep.order) = keep.set
  BY DEF Picks, Panel!PickInOrder
<1>2. o \in Seq(T) /\ Panel!IsInjective(o) /\ Panel!ToSet(o) = keep.set \cap ids
  BY <1>1, OnlyKeeps
<1>3. Panel!Kept(keep, ids) = [set |-> keep.set \cap ids, order |-> o] BY DEF Panel!Kept
<1> HIDE DEF o
<1>4. DOMAIN o = 1 .. Len(o) BY <1>2
<1>5. ASSUME NEW i \in 1 .. Len(o) PROVE o[i] \in ids
  <2>1. o[i] \in Panel!ToSet(o) BY <1>4 DEF Panel!ToSet
  <2> QED BY <1>2, <2>1
<1>6. o \in Seq(ids)
  <2> DEFINE U == T
  <2>1. o \in Seq(U) BY <1>2
  <2> QED BY <2>1, <1>5, StaysASeq
<1> QED BY <1>2, <1>3, <1>6, PickIs

(* Nothing is a selection from any list.                                   *)
LEMMA NothingPicked == \A ids : Panel!Nothing \in Picks(ids)
<1> TAKE ids
<1>1. {} \in SUBSET ids /\ <<>> \in Seq(ids) /\ Panel!IsInjective(<<>>) /\ Panel!ToSet(<<>>) = {}
  BY DEF Panel!IsInjective, Panel!ToSet
<1> QED BY <1>1, PickIs DEF Panel!Nothing

(* What a load of the list is in the middle of: what it keeps is a         *)
(* selection from the list that was shown when it was sent.                *)
LoadFits(x) ==
  \/ x = Panel!Idle
  \/ x.at = "sent" /\ x.project \in Projects /\ \E ids : x.keep \in Picks(ids)
  \/ x.at = "answered" /\ Panel!IsFiniteSet(x.tests) /\ \E ids : x.keep \in Picks(ids)

LoadsInv ==
  /\ shownProject \in Projects /\ \A p \in Projects : files[p] \in Files[p]
  /\ DOMAIN files = Projects /\ DOMAIN load = Loads
  /\ \A l \in Loads : LoadFits(load[l])

(* While a source is analysed there is nothing to choose from.             *)
ListsInv ==
  /\ Panel!IsFiniteSet(tests) /\ picked \in Picks(tests)
  /\ chosen \in Picks(analyzed)
  /\ endpointAnalysis # Panel!Idle => analyzed = {} /\ chosen = Panel!Nothing

(* The lists, and what loads that are under way will make of them.         *)
PicksInv == LoadsInv /\ ListsInv

(* A request keeps nothing, or what is picked in the list that is shown.   *)
LEMMA SendKeeps ==
  ASSUME PicksInv, NEW l \in Loads, NEW p \in Projects, NEW keep, NEW onlyIfChanged,
         Panel!Send(l, p, keep, onlyIfChanged), shownProject' = p
  PROVE  PicksInv'
<1> DEFINE kept == IF keep THEN picked ELSE Panel!Nothing
           x == [at |-> "sent", project |-> p, onlyIfChanged |-> onlyIfChanged, keep |-> kept]
<1>1. load' = [load EXCEPT ![l] = x] /\ UNCHANGED <<files, tests, picked, endpointAnalysis, analyzed, chosen>>
  BY DEF Panel!Send, Panel!generator
<1>2. kept \in Picks(tests) BY NothingPicked DEF PicksInv, ListsInv
<1>3. LoadFits(x) 
  <2> HIDE DEF kept
  <2> QED BY <1>2 DEF LoadFits
<1>4. LoadsInv'
  <2> HIDE DEF x
  <2> QED BY <1>1, <1>3 DEF PicksInv, LoadsInv, LoadFits
<1>5. ListsInv'
  BY <1>1 DEF PicksInv, ListsInv
<1> QED BY <1>4, <1>5 DEF PicksInv

(* A click on test cases picks or takes back what is listed.               *)
LEMMA PickKeeps ==
  ASSUME PicksInv, NEW ids \in SUBSET tests, NEW checked, Panel!Pick(ids, checked)
  PROVE  PicksInv'
<1>1. Panel!IsFiniteSet(ids)
  BY PanelCounts, FS_Subset DEF PicksInv, ListsInv
<1>2. Panel!SetToSeq(ids) \in Seq(ids) BY <1>1, ListedOnce
<1>3. Panel!SetToSeq(ids) \in Seq(tests) BY <1>2
<1>4. Panel!PickedInTurn(picked, Panel!SetToSeq(ids), checked) \in Picks(tests)
  BY <1>3, AllPicks DEF PicksInv, ListsInv
<1>5. picked' \in Picks(tests) /\ UNCHANGED <<files, shownProject, tests, load, endpointAnalysis, analyzed, chosen>>
  BY <1>4 DEF Panel!Pick, Panel!generator
<1> QED BY <1>5 DEF PicksInv, ListsInv, LoadsInv

(* An answer brings the files of a project, of which there are finitely many. *)
LEMMA AnswerKeeps ==
  ASSUME Panel!PickersAssumption, PicksInv, NEW l \in Loads, Panel!Answer(l)
  PROVE  PicksInv'
<1> DEFINE x == [at |-> "answered", tests |-> files[load[l].project],
                 onlyIfChanged |-> load[l].onlyIfChanged, keep |-> load[l].keep]
<1>1. load' = [load EXCEPT ![l] = x] /\ UNCHANGED <<files, shownProject, tests, picked, endpointAnalysis, analyzed, chosen>>
  BY DEF Panel!Answer, Panel!generator
<1>2. load[l].at = "sent" BY DEF Panel!Answer
<1>3. load[l].project \in Projects /\ \E ids : load[l].keep \in Picks(ids)
  BY <1>2 DEF PicksInv, LoadsInv, LoadFits, Panel!Idle
<1>4. Panel!IsFiniteSet(files[load[l].project])
  BY <1>3 DEF Panel!PickersAssumption, PicksInv, LoadsInv
<1>5. LoadFits(x) BY <1>3, <1>4 DEF LoadFits
<1> HIDE DEF x
<1>6. LoadsInv' BY <1>1, <1>5 DEF PicksInv, LoadsInv
<1>7. ListsInv' BY <1>1 DEF PicksInv, ListsInv
<1> QED BY <1>6, <1>7 DEF PicksInv

(* What is shown of an answer is what is left of the selection in it.      *)
LEMMA ShowKeeps ==
  ASSUME PicksInv, NEW l \in Loads, Panel!ShowTests(l)
  PROVE  PicksInv'
<1>1. load[l].at = "answered" /\ load' = [load EXCEPT ![l] = Panel!Idle]
      /\ UNCHANGED <<files, shownProject, endpointAnalysis, analyzed, chosen>>
  BY DEF Panel!ShowTests, Panel!generator
<1>2. Panel!IsFiniteSet(load[l].tests) /\ \E ids : load[l].keep \in Picks(ids)
  BY <1>1 DEF PicksInv, LoadsInv, LoadFits, Panel!Idle
<1>3. Panel!Kept(load[l].keep, load[l].tests) \in Picks(load[l].tests)
  BY <1>2, KeptPicks
<1>4. Panel!IsFiniteSet(tests') /\ picked' \in Picks(tests')
  BY <1>2, <1>3 DEF Panel!ShowTests, PicksInv, ListsInv
<1>5. ListsInv' BY <1>1, <1>4 DEF PicksInv, ListsInv
<1>6. LoadsInv' BY <1>1 DEF PicksInv, LoadsInv, LoadFits
<1> QED BY <1>5, <1>6 DEF PicksInv

(* The lists begin empty, and finite directories are listed.               *)
LEMMA PicksBegin ==
  ASSUME Panel!PickersAssumption, Panel!Init
  PROVE  PicksInv
<1>1. tests = {} /\ picked = Panel!Nothing /\ endpointAnalysis = Panel!Idle /\ analyzed = {} /\ chosen = Panel!Nothing
  BY DEF Panel!Init
<1>2. ListsInv BY <1>1, NothingPicked, PanelCounts, FS_EmptySet DEF ListsInv
<1>3. LoadsInv BY DEF LoadsInv, Panel!Init, LoadFits
<1> QED BY <1>2, <1>3 DEF PicksInv

(* Whatever loads, refreshes and analyses overlap with the clicks, in any  *)
(* number and any order, the order of what is picked names exactly what is *)
(* picked, once each, and nothing that is not listed (testcases.js,        *)
(* generator.js).                                                          *)
THEOREM PicksStay == Panel!PickersAssumption /\ Panel!Spec => []Panel!PicksAreListed
<1> SUFFICES ASSUME Panel!PickersAssumption PROVE Panel!Spec => []Panel!PicksAreListed
  OBVIOUS
<1>1. Panel!Init => PicksInv BY PicksBegin
<1>2. PicksInv /\ [Panel!Next]_Panel!vars => PicksInv'
  <2> SUFFICES ASSUME PicksInv, [Panel!Next]_Panel!vars PROVE PicksInv'
    OBVIOUS
  <2>1. CASE \E l \in Loads : Panel!LoadAgain(l) \/ Panel!Refresh(l)
    BY <2>1, SendKeeps DEF Panel!LoadAgain, Panel!Refresh, PicksInv, LoadsInv
  <2>2. CASE \E l \in Loads : \E p \in Projects : Panel!SwitchProject(l, p)
    BY <2>2, SendKeeps DEF Panel!SwitchProject
  <2>3. CASE \E checked \in BOOLEAN : \E ids \in {{t} : t \in tests} \cup {tests} : Panel!Pick(ids, checked)
    BY <2>3, PickKeeps
  <2>4. CASE \E checked \in BOOLEAN : \E e \in analyzed : Panel!Choose(e, checked)
    <3>1. PICK checked \in BOOLEAN, e \in analyzed : Panel!Choose(e, checked) BY <2>4
    <3>2. chosen' \in Picks(analyzed) BY <3>1, OnePick DEF Panel!Choose, PicksInv, ListsInv
    <3>3. endpointAnalysis = Panel!Idle BY DEF PicksInv, ListsInv
    <3> QED BY <3>1, <3>2, <3>3 DEF Panel!Choose, Panel!list, PicksInv, ListsInv, LoadsInv
  <2>5. CASE Panel!Clear
    BY <2>5, NothingPicked DEF Panel!Clear, Panel!generator, PicksInv, ListsInv, LoadsInv
  <2>6. CASE \E s \in DOMAIN Endpoints : Panel!Analyze(s)
    BY <2>6, NothingPicked DEF Panel!Analyze, Panel!list, PicksInv, ListsInv, LoadsInv
  <2>7. CASE \E p \in Projects : \E ids \in Files[p] : Panel!EditFiles(p, ids)
    BY <2>7 DEF Panel!EditFiles, Panel!list, Panel!generator, PicksInv, ListsInv, LoadsInv
  <2>8. CASE Panel!ShowEndpoints
    BY <2>8, NothingPicked DEF Panel!ShowEndpoints, Panel!list, PicksInv, ListsInv, LoadsInv
  <2>9. CASE \E l \in Loads : Panel!Answer(l)
    BY <2>9, AnswerKeeps
  <2>10. CASE \E l \in Loads : Panel!ShowTests(l)
    BY <2>10, ShowKeeps
  <2>11. CASE \E l \in Loads : Panel!Fails(l)
    BY <2>11 DEF Panel!Fails, Panel!generator, PicksInv, ListsInv, LoadsInv, LoadFits
  <2>12. CASE UNCHANGED Panel!vars
    BY <2>12 DEF Panel!vars, Panel!list, Panel!generator, PicksInv, ListsInv, LoadsInv
  <2> QED BY <2>1, <2>2, <2>3, <2>4, <2>5, <2>6, <2>7, <2>8, <2>9, <2>10, <2>11, <2>12
       DEF Panel!Next, Panel!Users, Panel!Loading
<1>3. PicksInv => Panel!PicksAreListed
  BY DEF PicksInv, ListsInv, Picks, Panel!PicksAreListed
<1> QED BY <1>1, <1>2, <1>3, PTL DEF Panel!Spec
-----------------------------------------------------------------------------
(* From a tool to the tools: a behaviour of WebTools is one of a single    *)
(* tool, whose specification it satisfies, or it is not about that tool.   *)

(* No step leads from one tool to another.                                 *)
LEMMA WorldStays == [Next]_everything => UNCHANGED world
  BY DEF Next, everything, OnlyRunner, OnlyServer, OnlyPanel, OnlyEditor, OnlyWorkbook, OnlyDiagram,
         OnlyMqtt, OnlyStub, OnlyRedis

(* In the world of the runner a behaviour is one of the engine.            *)
LEMMA RunnerRuns == Spec => Runner!Spec \/ []~(world = "runner")
<1>1. Init /\ world = "runner" => Runner!Init
  BY DEF Init
<1>2. world = "runner" /\ [Next]_everything => [Runner!Next]_Runner!all /\ (world = "runner")'
  BY WorldStays DEF Next, everything, runnerVars, Runner!all,
         OnlyRunner, OnlyServer, OnlyPanel, OnlyEditor, OnlyWorkbook, OnlyDiagram,
         OnlyMqtt, OnlyStub, OnlyRedis
<1>3. ~(world = "runner") /\ [Next]_everything => ~(world = "runner")'
  BY WorldStays
<1> QED BY <1>1, <1>2, <1>3, PTL DEF Spec, Runner!Spec

(* A green case is earned by the last answer of each of its requests, what *)
(* a finished step saved is what an accepted answer said, and a retried    *)
(* step ends when it should (RunnerEngine).                                *)
THEOREM PassCorrect == Spec => []PassIsEarned
<1>1. PassIsEarned <=> ~(world = "runner") \/ (Runner!PassIsEarned /\ Runner!SavedByAccepted /\ Runner!RetryStopsInTime)
  BY DEF PassIsEarned
<1>2. Runner!ConstantsAssumption
  BY InstancesAreLegal DEF ConstantsAreLegal
<1>3. Runner!Spec => [](Runner!PassIsEarned /\ Runner!SavedByAccepted /\ Runner!RetryStopsInTime)
  BY <1>2, RunnerPasses
<1> QED BY <1>1, <1>3, RunnerRuns, PTL

(* Steps of a case do not overlap, independent cases neither see each      *)
(* other's variables nor tokens, and only the requests of one step of an   *)
(* engine log in (RunnerEngine).                                           *)
THEOREM ApartCorrect == Spec => []CasesKeepApart
<1>1. CasesKeepApart <=> ~(world = "runner") \/ Runner!CasesKeepApart
  BY DEF CasesKeepApart
<1>2. Runner!ConstantsAssumption
  BY InstancesAreLegal DEF ConstantsAreLegal
<1>3. Runner!Spec => []Runner!CasesKeepApart
  BY <1>2, RunnerApart
<1> QED BY <1>1, <1>3, RunnerRuns, PTL

(* In the world of diagram a behaviour is one of Diagram.                  *)
LEMMA DiagramRuns == Spec => Diagram!Spec \/ []~(world = "diagram")
<1>1. Init /\ world = "diagram" => Diagram!Init
  BY DEF Init
<1>2. world = "diagram" /\ [Next]_everything => [Diagram!Next]_Diagram!vars /\ (world = "diagram")'
  BY WorldStays DEF Next, everything, diagramVars, Diagram!vars,
         OnlyRunner, OnlyServer, OnlyPanel, OnlyEditor, OnlyWorkbook, OnlyDiagram,
         OnlyMqtt, OnlyStub, OnlyRedis
<1>3. ~(world = "diagram") /\ [Next]_everything => ~(world = "diagram")'
  BY WorldStays
<1> QED BY <1>1, <1>2, <1>3, PTL DEF Spec, Diagram!Spec

(* In the world of panel a behaviour is one of Panel.                      *)
LEMMA PanelRuns == Spec => Panel!Spec \/ []~(world = "panel")
<1>1. Init /\ world = "panel" => Panel!Init
  BY DEF Init
<1>2. world = "panel" /\ [Next]_everything => [Panel!Next]_Panel!vars /\ (world = "panel")'
  BY WorldStays DEF Next, everything, panelVars, Panel!vars, Panel!list, Panel!generator,
         OnlyRunner, OnlyServer, OnlyPanel, OnlyEditor, OnlyWorkbook, OnlyDiagram,
         OnlyMqtt, OnlyStub, OnlyRedis
<1>3. ~(world = "panel") /\ [Next]_everything => ~(world = "panel")'
  BY WorldStays
<1> QED BY <1>1, <1>2, <1>3, PTL DEF Spec, Panel!Spec

(* In the world of workbook a behaviour is one of Workbook.                *)
LEMMA WorkbookRuns == Spec => Workbook!Spec \/ []~(world = "workbook")
<1>1. Init /\ world = "workbook" => Workbook!Init
  BY DEF Init
<1>2. world = "workbook" /\ [Next]_everything => [Workbook!Next]_Workbook!vars /\ (world = "workbook")'
  BY WorldStays DEF Next, everything, workbookVars, Workbook!vars, Workbook!tab, Workbook!server,
         OnlyRunner, OnlyServer, OnlyPanel, OnlyEditor, OnlyWorkbook, OnlyDiagram,
         OnlyMqtt, OnlyStub, OnlyRedis
<1>3. ~(world = "workbook") /\ [Next]_everything => ~(world = "workbook")'
  BY WorldStays
<1> QED BY <1>1, <1>2, <1>3, PTL DEF Spec, Workbook!Spec

(* In the world of mqtt a behaviour is one of Mqtt.                        *)
LEMMA MqttRuns == Spec => Mqtt!Spec \/ []~(world = "mqtt")
<1>1. Init /\ world = "mqtt" => Mqtt!Init
  BY DEF Init
<1>2. world = "mqtt" /\ [Next]_everything => [Mqtt!Next]_Mqtt!vars /\ (world = "mqtt")'
  BY WorldStays DEF Next, everything, mqttVars, Mqtt!vars, Mqtt!step, Mqtt!link,
         OnlyRunner, OnlyServer, OnlyPanel, OnlyEditor, OnlyWorkbook, OnlyDiagram,
         OnlyMqtt, OnlyStub, OnlyRedis
<1>3. ~(world = "mqtt") /\ [Next]_everything => ~(world = "mqtt")'
  BY WorldStays
<1> QED BY <1>1, <1>2, <1>3, PTL DEF Spec, Mqtt!Spec

(* In the world of redis a behaviour is one of Redis.                      *)
LEMMA RedisRuns == Spec => Redis!Spec \/ []~(world = "redis")
<1>1. Init /\ world = "redis" => Redis!Init
  BY DEF Init
<1>2. world = "redis" /\ [Next]_everything => [Redis!Next]_Redis!vars /\ (world = "redis")'
  BY WorldStays DEF Next, everything, redisVars, Redis!vars, Redis!redis,
         OnlyRunner, OnlyServer, OnlyPanel, OnlyEditor, OnlyWorkbook, OnlyDiagram,
         OnlyMqtt, OnlyStub, OnlyRedis
<1>3. ~(world = "redis") /\ [Next]_everything => ~(world = "redis")'
  BY WorldStays
<1> QED BY <1>1, <1>2, <1>3, PTL DEF Spec, Redis!Spec

(* In the world of stub a behaviour is one of Stub.                        *)
LEMMA StubRuns == Spec => Stub!Spec \/ []~(world = "stub")
<1>1. Init /\ world = "stub" => Stub!Init
  BY DEF Init
<1>2. world = "stub" /\ [Next]_everything => [Stub!Next]_Stub!vars /\ (world = "stub")'
  BY WorldStays DEF Next, everything, stubVars, Stub!vars, Stub!stub,
         OnlyRunner, OnlyServer, OnlyPanel, OnlyEditor, OnlyWorkbook, OnlyDiagram,
         OnlyMqtt, OnlyStub, OnlyRedis
<1>3. ~(world = "stub") /\ [Next]_everything => ~(world = "stub")'
  BY WorldStays
<1> QED BY <1>1, <1>2, <1>3, PTL DEF Spec, Stub!Spec

(* In the world of editor a behaviour is one of Editor.                    *)
LEMMA EditorRuns == Spec => Editor!Spec \/ []~(world = "editor")
<1>1. Init /\ world = "editor" => Editor!Init
  BY DEF Init
<1>2. world = "editor" /\ [Next]_everything => [Editor!Next]_Editor!vars /\ (world = "editor")'
  BY WorldStays DEF Next, everything, editorVars, Editor!vars,
         OnlyRunner, OnlyServer, OnlyPanel, OnlyEditor, OnlyWorkbook, OnlyDiagram,
         OnlyMqtt, OnlyStub, OnlyRedis
<1>3. ~(world = "editor") /\ [Next]_everything => ~(world = "editor")'
  BY WorldStays
<1> QED BY <1>1, <1>2, <1>3, PTL DEF Spec, Editor!Spec

(* Whatever the rules and the AI make of a specification, the one that is  *)
(* delivered has every node of the first and joins all that it joined      *)
(* (Program.cs, archify/generate).                                         *)
THEOREM DeliveredCorrect == Spec => []DeliveredCovers
<1>1. DeliveredCovers <=> (~(world = "diagram") \/ Diagram!DeliveredCovers)
  BY DEF DeliveredCovers
<1>2. Diagram!DeliveryAssumption
  BY InstancesAreLegal DEF ConstantsAreLegal
<1>3. Diagram!Spec => []Diagram!DeliveredCovers
  BY <1>2, DiagramCovers
<1> QED BY <1>1, <1>3, DiagramRuns, PTL

(* A generator has its workbook on disk as long as it runs, and what is    *)
(* selected belongs to the workbook that is listed (Program.cs,            *)
(* workbook-message.js).                                                   *)
THEOREM WorkbookCorrect == Spec => []WorkbookIsThere
<1>1. WorkbookIsThere <=> (~(world = "workbook") \/ Workbook!WorkbookIsThere)
  BY DEF WorkbookIsThere
<1> QED BY <1>1, WorkbookStays, WorkbookRuns, PTL

(* A step gets a message of its own topic, but for messages that were on   *)
(* their way and topics left subscribed without the broker's answer, an    *)
(* entry that no other consumer was given, and a count of the requests     *)
(* that were answered, whichever commands and answers fail                 *)
(* (MqttTestClient, RedisStepExecutor, HttpStubServer).                    *)
THEOREM ClientsCorrect == Spec => []StepsGetTheirOwn
<1>1. StepsGetTheirOwn <=> /\ ~(world = "mqtt") \/ Mqtt!OwnMessage
                           /\ ~(world = "stub") \/ Stub!AnsweredIsCounted
                           /\ ~(world = "redis") \/ Redis!EntryGivenOnce
  BY DEF StepsGetTheirOwn
<1>2. Redis!StreamAssumption
  BY InstancesAreLegal DEF ConstantsAreLegal
<1>3. Redis!Spec => []Redis!EntryGivenOnce
  BY <1>2, EntriesCorrect
<1>4. Spec => [](~(world = "mqtt") \/ Mqtt!OwnMessage)
  BY MessagesCorrect, MqttRuns, PTL
<1>5. Spec => [](~(world = "stub") \/ Stub!AnsweredIsCounted)
  BY RequestsCorrect, StubRuns, PTL
<1>6. Spec => [](~(world = "redis") \/ Redis!EntryGivenOnce)
  BY <1>3, RedisRuns, PTL
<1> QED BY <1>1, <1>4, <1>5, <1>6, PTL

(* What the editor lets a user build the server accepts exactly if names   *)
(* are allowed, bindings join plain fields and there is one contract, and  *)
(* each binding comes from an earlier step that is there (api-builder.js,  *)
(* ApiBuilderWorkspace.cs, ApiBuilderCompiler.cs).                         *)
THEOREM EditsCorrect == Spec => []EditsAreAccepted
<1>1. EditsAreAccepted <=> (~(world = "editor") \/ Editor!EditsAreAccepted)
  BY DEF EditsAreAccepted
<1>2. Editor!ContractAssumption
  BY InstancesAreLegal DEF ConstantsAreLegal
<1>3. Editor!Spec => []Editor!EditsAreAccepted
  BY <1>2, EditorCorrect
<1> QED BY <1>1, <1>3, EditorRuns, PTL

(* The removal of a step takes exactly the links to and from it, whatever  *)
(* the steps are called afterwards (removeApiBuilderOperation).            *)
THEOREM RemovalCorrect == Spec => RemovalKeepsLinks
<1> DEFINE Moves == \A i \in DOMAIN steps : Editor!RemoveStep(i) => Editor!LinksMove(i)
<1>1. [Moves]_Editor!vars \/ ~(world = "editor") => [world = "editor" => Moves]_editorVars
  BY DEF editorVars, Editor!vars
<1>2. Editor!ContractAssumption
  BY InstancesAreLegal DEF ConstantsAreLegal
<1>3. Editor!Spec => Editor!RemovalKeepsLinks
  BY <1>2, RemovalMoves
<1> QED BY <1>1, <1>3, EditorRuns, PTL DEF RemovalKeepsLinks, Editor!RemovalKeepsLinks

(* What is picked is listed, in an order that names it once each, whatever *)
(* loads, refreshes and analyses overlap (testcases.js, generator.js).     *)
THEOREM PicksCorrect == Spec => []PicksAreListed
<1>1. PicksAreListed <=> (~(world = "panel") \/ Panel!PicksAreListed)
  BY DEF PicksAreListed
<1>2. Panel!PickersAssumption
  BY InstancesAreLegal DEF ConstantsAreLegal
<1>3. Panel!Spec => []Panel!PicksAreListed
  BY <1>2, PicksStay
<1> QED BY <1>1, <1>3, PanelRuns, PTL
=============================================================================
