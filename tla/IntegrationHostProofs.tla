------------------------ MODULE IntegrationHostProofs ------------------------
(***************************************************************************)
(* Proofs about Integration Hosts, for any number of hosts, stop commands  *)
(* and requests, any length of the sequence and any limit of the memory.   *)
(***************************************************************************)
EXTENDS IntegrationHost, FiniteSetTheorems, TLAPS

(* A request at each stage, as the steps change it.                        *)
Stages == {"new", "done", "lost"} \cup InFlight
Record == [at : Stages, host : Hosts \cup {None}, given : Given \cup {None}, shown : Seq(Requests)]
-----------------------------------------------------------------------------
(* What replacing fields of a request does to its record.                  *)
LEMMA FieldsKept ==
  ASSUME NEW r \in Record, NEW x
  PROVE  /\ [r EXCEPT !.at = x].at = x
         /\ [r EXCEPT !.at = x].host = r.host
         /\ [r EXCEPT !.at = x].given = r.given
         /\ [r EXCEPT !.at = x].shown = r.shown
BY DEF Record

(* The same for two fields at once.                                        *)
LEMMA TwoFieldsKept ==
  ASSUME NEW r \in Record, NEW x, NEW y
  PROVE  /\ [r EXCEPT !.at = x, !.host = y].at = x
         /\ [r EXCEPT !.at = x, !.host = y].host = y
         /\ [r EXCEPT !.at = x, !.host = y].given = r.given
         /\ [r EXCEPT !.at = x, !.given = y].at = x
         /\ [r EXCEPT !.at = x, !.given = y].host = r.host
         /\ [r EXCEPT !.at = x, !.given = y].given = y
         /\ [r EXCEPT !.at = x, !.shown = y].at = x
         /\ [r EXCEPT !.at = x, !.shown = y].host = r.host
         /\ [r EXCEPT !.at = x, !.shown = y].given = r.given
BY DEF Record

(* What the steps put into a record leaves it a record.                    *)
LEMMA StaysRecord ==
  ASSUME NEW r \in Record, NEW x \in Stages
  PROVE  /\ [r EXCEPT !.at = x] \in Record
         /\ \A y \in Hosts : [r EXCEPT !.at = x, !.host = y] \in Record
         /\ \A y \in Given : [r EXCEPT !.at = x, !.given = y] \in Record
         /\ \A y \in Seq(Requests) : [r EXCEPT !.at = x, !.shown = y] \in Record
BY DEF Record
-----------------------------------------------------------------------------
(* Every step keeps the state well-typed.                                  *)

(* The steps of a request, as changes of its record.                       *)
Becomes(q, r) == request' = [request EXCEPT ![q] = r]

(* Each step of a request replaces its record by one with other fields.    *)
LEMMA RequestSteps ==
  ASSUME TypeOK, NEW q \in Requests
  PROVE  /\ request[q] \in Record
         /\ \A x : RequestGoes(q, x) => Becomes(q, [request[q] EXCEPT !.at = x])
         /\ Receive(q) => Becomes(q, [request[q] EXCEPT !.at = "received", !.host = port])
         /\ Select(q) =>
              Becomes(q, [request[q] EXCEPT !.at = "selected",
                            !.given = [state |-> rule[HostOf(q)].state,
                                       position |-> Smaller(rule[HostOf(q)].invocation + 1, Responses)]])
         /\ Persist(q) => Becomes(q, [request[q] EXCEPT !.at = "indexing", !.shown = captured[HostOf(q)]])
         /\ WriteIndex(q) => Becomes(q, [request[q] EXCEPT !.at = "done", !.shown = <<>>])
<1>1. request[q] \in Record /\ DOMAIN request = Requests
  BY DEF TypeOK, Record, Stages
<1>2. \A x : RequestGoes(q, x) => Becomes(q, [request[q] EXCEPT !.at = x])
  BY <1>1 DEF RequestGoes, Becomes
<1>3. Receive(q) => Becomes(q, [request[q] EXCEPT !.at = "received", !.host = port])
  BY <1>1 DEF Receive, Becomes
<1>4. Select(q) =>
        Becomes(q, [request[q] EXCEPT !.at = "selected",
                      !.given = [state |-> rule[HostOf(q)].state,
                                 position |-> Smaller(rule[HostOf(q)].invocation + 1, Responses)]])
  BY <1>1 DEF Select, Becomes
<1>5. Persist(q) => Becomes(q, [request[q] EXCEPT !.at = "indexing", !.shown = captured[HostOf(q)]])
  BY <1>1 DEF Persist, Becomes
<1>6. WriteIndex(q) => Becomes(q, [request[q] EXCEPT !.at = "done", !.shown = <<>>])
  BY <1>1 DEF WriteIndex, Becomes
<1> QED
  BY <1>1, <1>2, <1>3, <1>4, <1>5, <1>6

(* All of the state but the requests.                                      *)
RestOK ==
  /\ host \in [Hosts -> {"new", "starting", "serving", "told", "draining", "closed",
                         "exited", "left", "killed"}]
  /\ port \in Hosts \cup {None}
  /\ current \in [Integrations -> Hosts \cup {None}]
  /\ stop \in [Stops -> [at : {"new", "healthy", "owner", "posted", "refused"},
                         seen : Hosts \cup {None}]]
  /\ stopper \in [Hosts -> Stops \cup {None}]
  /\ rule \in [Hosts -> [state : 0 .. MaxConfigures, invocation : Nat]]
  /\ aborted \subseteq Requests
  /\ captured \in [Hosts -> Seq(Requests)]
  /\ files \in [Hosts -> SUBSET Requests]
  /\ index \in [Hosts -> Seq(Requests)]
  /\ faulty \subseteq Hosts

(* The type invariant is that of the requests and that of the rest.        *)
LEMMA TypeSplits == TypeOK <=> RestOK /\ request \in [Requests -> Record]
BY DEF TypeOK, RestOK, Record, Stages

(* Replacing one record keeps the type of the requests.                    *)
LEMMA RecordReplaced ==
  ASSUME request \in [Requests -> Record], NEW q \in Requests, NEW r \in Record, Becomes(q, r)
  PROVE  request' \in [Requests -> Record]
BY DEF Becomes

(* So does moving a request to another stage.                              *)
LEMMA StageEntered ==
  ASSUME TypeOK, NEW q \in Requests, NEW x \in Stages, RequestGoes(q, x)
  PROVE  request' \in [Requests -> Record]
<1>1. [request[q] EXCEPT !.at = x] \in Record /\ request \in [Requests -> Record]
  BY RequestSteps, StaysRecord, TypeSplits
<1> QED
  BY <1>1, RequestSteps, RecordReplaced

(* Who handles a request that is under way: a host.                        *)
Handled == \A q \in Requests : request[q].at \in InFlight => request[q].host \in Hosts

(* No step of the life of a host leaves the type.                          *)
LEMMA LifeType ==
  ASSUME TypeOK, NEW h \in Hosts, Life(h)
  PROVE  TypeOK'
<1>0. RestOK /\ request \in [Requests -> Record]
  BY TypeSplits
<1>1. RestOK'
  <2> USE <1>0 DEF RestOK, ownership, serving, evidence, HostGoes, Names, Integrations
  <2>1. CASE Start(h)
    BY <2>1 DEF Start
  <2>2. CASE BreakOff(h) \/ Bind(h) \/ BindFails(h) \/ StopApplication(h)
    BY <2>2 DEF BreakOff, Bind, BindFails, StopApplication
  <2>8. CASE StartFails(h)
    BY <2>8 DEF StartFails
  <2>3. CASE Close(h)
    BY <2>3 DEF Close
  <2>4. CASE Exit(h)
    BY <2>4 DEF Exit
  <2>5. CASE Kill(h)
    BY <2>5 DEF Kill
  <2>6. CASE Configure(h)
    <3>1. rule[h].state + 1 \in 0 .. MaxConfigures
      BY <2>6, HostsAssumption DEF Configure
    <3> QED
      BY <2>6, <3>1 DEF Configure
  <2>7. CASE ClearRequests(h)
    BY <2>7 DEF ClearRequests
  <2> QED
    BY <2>1, <2>2, <2>3, <2>4, <2>5, <2>6, <2>7, <2>8 DEF Life
<1>2. request' \in [Requests -> Record]
  <2>1. CASE Kill(h)
    <3>1. \A q \in Requests : [request[q] EXCEPT !.at = "lost"] \in Record
      BY <1>0, StaysRecord DEF Stages
    <3> QED
      BY <1>0, <2>1, <3>1 DEF Kill
  <2>2. CASE UNCHANGED request
    BY <1>0, <2>2
  <2> QED
    BY <2>1, <2>2 DEF Life, Start, StartFails, BreakOff, Bind, BindFails, StopApplication, Close, Exit, Configure,
       ClearRequests, serving
<1> QED
  BY <1>1, <1>2 DEF TypeOK, RestOK, Record, Stages

(* No step of a stop command does.                                         *)
LEMMA StopType ==
  ASSUME TypeOK, NEW s \in Stops, Stopping(s)
  PROVE  TypeOK'
<1> DEFINE Command == [at : {"new", "healthy", "owner", "posted", "refused"}, seen : Hosts \cup {None}]
<1>0. RestOK /\ request \in [Requests -> Record] /\ stop \in [Stops -> Command] /\ stop[s] \in Command
  BY TypeSplits DEF RestOK
<1>1. \A x \in {"new", "healthy", "owner", "posted", "refused"} : [stop[s] EXCEPT !.at = x] \in Command
  BY <1>0
<1>2. \A x \in {"new", "healthy", "owner", "posted", "refused"} : StopGoes(s, x) => stop' \in [Stops -> Command]
  <2> SUFFICES ASSUME NEW x \in {"new", "healthy", "owner", "posted", "refused"}, StopGoes(s, x)
               PROVE  stop' \in [Stops -> Command]
    OBVIOUS
  <2>1. stop' = [stop EXCEPT ![s] = [stop[s] EXCEPT !.at = x]]
    BY <1>0 DEF StopGoes
  <2> HIDE DEF Command
  <2> QED
    BY <1>0, <1>1, <2>1
<1>3. stop' \in [Stops -> Command]
  <2>1. CASE \E x \in {"new", "healthy", "owner", "posted", "refused"} : StopGoes(s, x)
    BY <1>2, <2>1
  <2>2. CASE stop' = [stop EXCEPT ![s] = [at |-> "healthy", seen |-> port]]
    <3>1. [at |-> "healthy", seen |-> port] \in Command
      BY <1>0 DEF RestOK
    <3> HIDE DEF Command
    <3> QED
      BY <1>0, <2>2, <3>1
  <2> HIDE DEF Command
  <2> QED
    BY <2>1, <2>2 DEF Stopping, CheckHealth, CheckOwner, Shutdown, ShutdownRefused
<1>4. /\ host' \in [Hosts -> {"new", "starting", "serving", "told", "draining", "closed", "exited", "left", "killed"}]
      /\ stopper' \in [Hosts -> Stops \cup {None}]
  <2>1. CASE CheckHealth(s) \/ CheckOwner(s) \/ ShutdownRefused(s)
    BY <1>0, <2>1 DEF RestOK, CheckHealth, CheckOwner, ShutdownRefused, OnlyStop
  <2>2. CASE Shutdown(s)
    <3>1. host' = [host EXCEPT ![port] = "told"] /\ stopper' = [stopper EXCEPT ![port] = IF @ = None THEN s ELSE @]
      BY <2>2 DEF Shutdown, HostGoes
    <3> QED
      BY <1>0, <3>1 DEF RestOK
  <2> QED
    BY <2>1, <2>2 DEF Stopping
<1>5. UNCHANGED <<port, current, serving, evidence>>
  BY DEF Stopping, CheckHealth, CheckOwner, Shutdown, ShutdownRefused, OnlyStop
<1> QED
  BY <1>0, <1>3, <1>4, <1>5 DEF TypeOK, RestOK, Record, Stages, serving, evidence

(* The invocation of a rule is counted.                                    *)
LEMMA InvocationCounted ==
  ASSUME NEW r \in [state : 0 .. MaxConfigures, invocation : Nat]
  PROVE  /\ [r EXCEPT !.invocation = @ + 1] \in [state : 0 .. MaxConfigures, invocation : Nat]
         /\ [r EXCEPT !.invocation = @ + 1].state = r.state
         /\ [r EXCEPT !.invocation = @ + 1].invocation = r.invocation + 1
OBVIOUS

(* Nor does one of a request, if requests under way have a host.           *)
LEMMA RequestType ==
  ASSUME TypeOK, Handled, NEW q \in Requests, Receive(q) \/ Disconnect(q) \/ Handle(q)
  PROVE  TypeOK'
<1>0. RestOK /\ request \in [Requests -> Record] /\ request[q] \in Record
  BY TypeSplits
<1>h. request[q].at \in InFlight => request[q].host \in Hosts
  BY DEF Handled
<1>1. RestOK'
  <2> USE <1>0 DEF RestOK, ownership, serving, evidence, OnlyRequest
  <2>1. CASE Receive(q) \/ SelectNothing(q) \/ Respond(q) \/ WriteThrows(q) \/ Trim(q) \/ Disconnect(q)
    BY <2>1 DEF Receive, SelectNothing, Respond, WriteThrows, Trim, Disconnect
  <2>2. CASE Select(q)
    <3>1. rule[HostOf(q)] \in [state : 0 .. MaxConfigures, invocation : Nat] /\ HostOf(q) \in Hosts
      BY <1>h, <2>2 DEF Select, HostOf, InFlight
    <3>2. [rule[HostOf(q)] EXCEPT !.invocation = @ + 1] \in [state : 0 .. MaxConfigures, invocation : Nat]
      BY <3>1, InvocationCounted
    <3>3. rule' = [rule EXCEPT ![HostOf(q)] = [rule[HostOf(q)] EXCEPT !.invocation = @ + 1]]
      BY <2>2, <3>1 DEF Select
    <3>4. rule' \in [Hosts -> [state : 0 .. MaxConfigures, invocation : Nat]]
      BY <3>1, <3>2, <3>3
    <3> QED
      BY <2>2, <3>4 DEF Select
  <2>3. CASE Capture(q)
    BY <1>h, <2>3 DEF Capture, HostOf, InFlight
  <2>4. CASE Dequeue(q)
    BY <1>h, <2>4 DEF Dequeue, HostOf, InFlight
  <2>5. CASE Persist(q)
    <3>1. HostOf(q) \in Hosts
      BY <1>h, <2>5 DEF Persist, HostOf, InFlight
    <3>2. CASE files' = [files EXCEPT ![HostOf(q)] = @ \cup {q}] /\ UNCHANGED faulty
      BY <2>5, <3>1, <3>2 DEF Persist
    <3>3. CASE faulty' = faulty \cup {HostOf(q)} /\ UNCHANGED files
      BY <2>5, <3>1, <3>3 DEF Persist
    <3> QED
      BY <2>5, <3>2, <3>3 DEF Persist
  <2>6. CASE WriteIndex(q)
    <3>1. request[q].shown \in Seq(Requests) /\ HostOf(q) \in Hosts
      BY <1>h, <2>6 DEF WriteIndex, HostOf, InFlight, Record
    <3> QED
      BY <2>6, <3>1 DEF WriteIndex
  <2> QED
    BY <2>1, <2>2, <2>3, <2>4, <2>5, <2>6 DEF Handle
<1>2. request' \in [Requests -> Record]
  <2>1. CASE Receive(q)
    <3>1. [request[q] EXCEPT !.at = "received", !.host = port] \in Record
      BY <1>0, <2>1, StaysRecord DEF Receive, RestOK, Stages, InFlight
    <3> QED
      BY <1>0, <2>1, <3>1, RequestSteps, RecordReplaced
  <2>2. CASE Select(q)
    <3> DEFINE given == [state |-> rule[HostOf(q)].state,
                         position |-> Smaller(rule[HostOf(q)].invocation + 1, Responses)]
    <3>1. given \in Given
      BY <1>0, <1>h, <2>2, HostsAssumption DEF Select, RestOK, HostOf, InFlight, Given, Smaller
    <3> HIDE DEF given
    <3>2. [request[q] EXCEPT !.at = "selected", !.given = given] \in Record
      BY <1>0, <3>1, StaysRecord DEF Stages, InFlight
    <3>3. Becomes(q, [request[q] EXCEPT !.at = "selected", !.given = given])
      BY <2>2, RequestSteps DEF given
    <3> QED
      BY <1>0, <3>2, <3>3, RecordReplaced
  <2>3. CASE Persist(q)
    <3>1. [request[q] EXCEPT !.at = "indexing", !.shown = captured[HostOf(q)]] \in Record
      <4>1. captured[HostOf(q)] \in Seq(Requests)
        BY <1>0, <1>h, <2>3 DEF Persist, RestOK, HostOf, InFlight
      <4> QED
        BY <1>0, <4>1, StaysRecord DEF Stages, InFlight
    <3> QED
      BY <1>0, <2>3, <3>1, RequestSteps, RecordReplaced
  <2>4. CASE WriteIndex(q)
    <3>1. [request[q] EXCEPT !.at = "done", !.shown = <<>>] \in Record
      <4>1. <<>> \in Seq(Requests)
        OBVIOUS
      <4> QED
        BY <1>0, <4>1, StaysRecord DEF Stages
    <3> QED
      BY <1>0, <2>4, <3>1, RequestSteps, RecordReplaced
  <2>5. CASE SelectNothing(q) \/ Respond(q) \/ WriteThrows(q) \/ Capture(q) \/ Trim(q) \/ Dequeue(q)
    <3>1. \E x \in Stages : RequestGoes(q, x)
      BY <2>5 DEF SelectNothing, Respond, WriteThrows, Capture, Trim, Dequeue, Stages, InFlight
    <3> QED
      BY <3>1, StageEntered
  <2>6. CASE Disconnect(q)
    BY <1>0, <2>6 DEF Disconnect
  <2> QED
    BY <2>1, <2>2, <2>3, <2>4, <2>5, <2>6 DEF Handle
<1> QED
  BY <1>1, <1>2 DEF TypeOK, RestOK, Record, Stages
-----------------------------------------------------------------------------
(* What the steps do to the fields of the requests.                        *)

(* The record of a request that was replaced.                              *)
LEMMA BecomesIt ==
  ASSUME TypeOK, NEW q \in Requests, NEW r, Becomes(q, r)
  PROVE  request'[q] = r
BY DEF Becomes, TypeOK

(* A step of one request leaves the records of the others alone.           *)
LEMMA OthersKept ==
  ASSUME TypeOK, NEW q \in Requests, Receive(q) \/ Disconnect(q) \/ Handle(q), NEW r \in Requests \ {q}
  PROVE  request'[r] = request[r]
<1>1. \A rec : Becomes(q, rec) => request'[r] = request[r]
  BY DEF Becomes, TypeOK
<1>2. CASE Disconnect(q)
  BY <1>2 DEF Disconnect
<1>3. CASE Receive(q) \/ Select(q) \/ Persist(q) \/ WriteIndex(q)
  BY <1>1, <1>3, RequestSteps, Zenon
<1>4. CASE SelectNothing(q) \/ Respond(q) \/ WriteThrows(q) \/ Capture(q) \/ Trim(q) \/ Dequeue(q)
  <2>1. \E x : RequestGoes(q, x)
    BY <1>4 DEF SelectNothing, Respond, WriteThrows, Capture, Trim, Dequeue
  <2> QED
    BY <1>1, <2>1, RequestSteps, Zenon
<1> QED
  BY <1>2, <1>3, <1>4 DEF Handle

(* Moving to another stage keeps the host and what was given.              *)
LEMMA StageReached ==
  ASSUME TypeOK, NEW q \in Requests, NEW x, RequestGoes(q, x)
  PROVE  /\ request'[q].at = x /\ request'[q].host = request[q].host
         /\ request'[q].given = request[q].given
<1>1. request[q] \in Record /\ Becomes(q, [request[q] EXCEPT !.at = x])
  BY RequestSteps
<1>2. request'[q] = [request[q] EXCEPT !.at = x]
  BY <1>1, BecomesIt, Zenon
<1> QED
  BY <1>1, <1>2, FieldsKept

(* A request is received by the host that has the port.                    *)
LEMMA Received ==
  ASSUME TypeOK, NEW q \in Requests, Receive(q)
  PROVE  /\ request'[q].at = "received" /\ request'[q].host = port
         /\ request'[q].given = request[q].given
<1>1. request[q] \in Record /\ Becomes(q, [request[q] EXCEPT !.at = "received", !.host = port])
  BY RequestSteps
<1>2. request'[q] = [request[q] EXCEPT !.at = "received", !.host = port]
  BY <1>1, BecomesIt, Zenon
<1> QED
  BY <1>1, <1>2, TwoFieldsKept

(* A request is given the response the count of its rule points at.        *)
LEMMA Selected ==
  ASSUME TypeOK, NEW q \in Requests, Select(q)
  PROVE  /\ request'[q].at = "selected" /\ request'[q].host = request[q].host
         /\ request'[q].given = [state |-> rule[HostOf(q)].state,
                                  position |-> Smaller(rule[HostOf(q)].invocation + 1, Responses)]
<1> DEFINE given == [state |-> rule[HostOf(q)].state,
                     position |-> Smaller(rule[HostOf(q)].invocation + 1, Responses)]
<1>1. request[q] \in Record /\ Becomes(q, [request[q] EXCEPT !.at = "selected", !.given = given])
  BY RequestSteps
<1> HIDE DEF given
<1>2. request'[q] = [request[q] EXCEPT !.at = "selected", !.given = given]
  BY <1>1 DEF Becomes, TypeOK
<1>3. request'[q].at = "selected" /\ request'[q].host = request[q].host /\ request'[q].given = given
  BY <1>1, <1>2, TwoFieldsKept
<1> QED
  BY <1>3 DEF given

(* Writing the exchange keeps the host and what was given.                 *)
LEMMA Persisted ==
  ASSUME TypeOK, NEW q \in Requests, Persist(q)
  PROVE  /\ request'[q].at = "indexing" /\ request'[q].host = request[q].host
         /\ request'[q].given = request[q].given
<1>1. request[q] \in Record /\ Becomes(q, [request[q] EXCEPT !.at = "indexing", !.shown = captured[HostOf(q)]])
  BY RequestSteps
<1>2. request'[q] = [request[q] EXCEPT !.at = "indexing", !.shown = captured[HostOf(q)]]
  BY <1>1, BecomesIt, Zenon
<1> QED
  BY <1>1, <1>2, TwoFieldsKept

(* So does writing the index.                                              *)
LEMMA Indexed ==
  ASSUME TypeOK, NEW q \in Requests, WriteIndex(q)
  PROVE  /\ request'[q].at = "done" /\ request'[q].host = request[q].host
         /\ request'[q].given = request[q].given
<1>1. request[q] \in Record /\ Becomes(q, [request[q] EXCEPT !.at = "done", !.shown = <<>>])
  BY RequestSteps
<1>2. request'[q] = [request[q] EXCEPT !.at = "done", !.shown = <<>>]
  BY <1>1, BecomesIt, Zenon
<1> QED
  BY <1>1, <1>2, TwoFieldsKept

(* The requests under way in a host are lost when it is killed.            *)
LEMMA Killed ==
  ASSUME TypeOK, NEW h \in Hosts, Kill(h), NEW q \in Requests
  PROVE  /\ request'[q].host = request[q].host /\ request'[q].given = request[q].given
         /\ request'[q].at = IF request[q].host = h /\ request[q].at \in InFlight
                               THEN "lost" ELSE request[q].at
<1>1. request[q] \in Record
  BY RequestSteps
<1>2. request'[q] = IF request[q].host = h /\ request[q].at \in InFlight
                      THEN [request[q] EXCEPT !.at = "lost"] ELSE request[q]
  BY DEF Kill
<1> QED
  BY <1>1, <1>2, FieldsKept

(* Who is given the response at a position, and how that changes: only by  *)
(* Select.                                                                 *)
LEMMA GivenKept ==
  ASSUME TypeOK, NEW q \in Requests,
         Receive(q) \/ Disconnect(q) \/ SelectNothing(q) \/ Respond(q) \/ WriteThrows(q) \/ Capture(q)
           \/ Trim(q) \/ Dequeue(q) \/ Persist(q) \/ WriteIndex(q),
         NEW r \in Requests
  PROVE  request'[r].given = request[r].given
<1>1. CASE r # q
  BY <1>1, OthersKept DEF Handle
<1>2. CASE r = q
  <2>1. CASE Disconnect(q)
    BY <2>1 DEF Disconnect
  <2>2. CASE Receive(q) \/ Persist(q) \/ WriteIndex(q)
    BY <1>2, <2>2, Received, Persisted, Indexed
  <2>3. CASE SelectNothing(q) \/ Respond(q) \/ WriteThrows(q) \/ Capture(q) \/ Trim(q) \/ Dequeue(q)
    <3>1. \E x : RequestGoes(q, x)
      BY <2>3 DEF SelectNothing, Respond, WriteThrows, Capture, Trim, Dequeue
    <3> QED
      BY <1>2, <3>1, StageReached
  <2> QED
    BY <2>1, <2>2, <2>3
<1> QED
  BY <1>1, <1>2

(* Once received, a request stays with its host.                           *)
LEMMA HostKept ==
  ASSUME TypeOK, NEW q \in Requests, Disconnect(q) \/ Handle(q), NEW r \in Requests
  PROVE  request'[r].host = request[r].host
<1>1. CASE r # q
  BY <1>1, OthersKept
<1>2. CASE r = q
  <2>1. CASE Disconnect(q)
    BY <2>1 DEF Disconnect
  <2>2. CASE Select(q) \/ Persist(q) \/ WriteIndex(q)
    BY <1>2, <2>2, Selected, Persisted, Indexed
  <2>3. CASE SelectNothing(q) \/ Respond(q) \/ WriteThrows(q) \/ Capture(q) \/ Trim(q) \/ Dequeue(q)
    <3>1. \E x : RequestGoes(q, x)
      BY <2>3 DEF SelectNothing, Respond, WriteThrows, Capture, Trim, Dequeue
    <3> QED
      BY <1>2, <3>1, StageReached
  <2> QED
    BY <2>1, <2>2, <2>3 DEF Handle
<1> QED
  BY <1>1, <1>2
-----------------------------------------------------------------------------
(* The life of hosts and of the requests they handle.                      *)

PortInv ==
  /\ port # None => host[port] \in {"serving", "told"}
  /\ \A h \in Hosts : host[h] \in {"serving", "told"} => port = h

RequestInv(q) ==
  /\ request[q].at \in InFlight =>
       /\ request[q].host \in Hosts
       /\ host[request[q].host] \in {"serving", "told", "draining"}
  /\ request[q].host # None => host[request[q].host] \notin {"new", "starting"}
  /\ request[q].at = "new" => request[q].host = None
  /\ request[q].at \in {"new", "received"} => request[q].given = None

LifeInv == PortInv /\ \A q \in Requests : RequestInv(q)

(* Steps of hosts and stop commands, and those of requests.                *)
LEMMA LifeOfHosts ==
  ASSUME TypeOK, LifeInv, NEW h \in Hosts, Life(h)
  PROVE  LifeInv'
<1>t. /\ host \in [Hosts -> {"new", "starting", "serving", "told", "draining", "closed", "exited", "left", "killed"}]
      /\ port \in Hosts \cup {None} /\ None \notin Hosts
      /\ \A q \in Requests : request[q].host \in Hosts \cup {None}
  BY HostsAssumption DEF TypeOK
<1>1. PortInv'
  BY <1>t DEF LifeInv, PortInv, Life, Start, StartFails, BreakOff, Bind, BindFails, StopApplication, Listening, Close, Exit, Kill,
     Configure, ClearRequests, HostGoes, ownership, serving, evidence
<1>2. ASSUME NEW q \in Requests PROVE RequestInv(q)'
  <2>0. RequestInv(q)
    BY DEF LifeInv
  <2>1. CASE Kill(h)
    <3>1. host' = [host EXCEPT ![h] = "killed"]
      BY <2>1 DEF Kill, HostGoes
    <3> QED
      BY <1>t, <2>0, <2>1, <3>1, Killed DEF RequestInv, InFlight
  <2>2. CASE Close(h)
    <3>1. request[q].at \in InFlight => request[q].host # h
      BY <2>2 DEF Close, Busy
    <3>2. host' = [host EXCEPT ![h] = "closed"] /\ request' = request /\ host[h] = "draining"
      BY <2>2 DEF Close, HostGoes, serving
    <3> QED
      BY <1>t, <2>0, <3>1, <3>2 DEF RequestInv
  <2>3. CASE Start(h) \/ StartFails(h) \/ BreakOff(h) \/ Bind(h) \/ BindFails(h) \/ StopApplication(h) \/ Exit(h)
    <3>1. request' = request
      BY <2>3 DEF Start, StartFails, BreakOff, Bind, BindFails, StopApplication, Exit, serving
    <3>2. \/ host[h] = "new" /\ host' = [host EXCEPT ![h] = "starting"]
          \/ host[h] = "starting" /\ host' = [host EXCEPT ![h] = "serving"]
          \/ host[h] = "starting" /\ host' = [host EXCEPT ![h] = "closed"]
          \/ host[h] \in {"serving", "told"} /\ host' = [host EXCEPT ![h] = "draining"]
          \/ host[h] = "closed" /\ host' = [host EXCEPT ![h] = "exited"]
          \/ host[h] \in {"new", "starting", "closed"} /\ host' = [host EXCEPT ![h] = "left"]
      BY <2>3 DEF Start, StartFails, BreakOff, Bind, BindFails, StopApplication, Listening, Exit, HostGoes
    <3> QED
      BY <1>t, <2>0, <3>1, <3>2 DEF RequestInv
  <2>4. CASE Configure(h) \/ ClearRequests(h)
    BY <2>0, <2>4 DEF RequestInv, Configure, ClearRequests, ownership, serving
  <2> QED
    BY <2>1, <2>2, <2>3, <2>4 DEF Life
<1> QED
  BY <1>1, <1>2 DEF LifeInv

(* A stop command tells a host that serves to stop, and no other.          *)
LEMMA LifeOfStops ==
  ASSUME TypeOK, LifeInv, NEW s \in Stops, Stopping(s)
  PROVE  LifeInv'
<1>1. request' = request /\ port' = port
  BY DEF Stopping, CheckHealth, CheckOwner, Shutdown, ShutdownRefused, OnlyStop, serving
<1>2. CASE UNCHANGED host
  BY <1>1, <1>2 DEF LifeInv, PortInv, RequestInv
<1>3. CASE Shutdown(s)
  <2>1. port = stop[s].seen /\ stop[s].at = "owner" /\ host' = [host EXCEPT ![port] = "told"]
    BY <1>3 DEF Shutdown, HostGoes
  <2>t. /\ host \in [Hosts -> {"new", "starting", "serving", "told", "draining", "closed", "exited", "left", "killed"}]
        /\ port \in Hosts \cup {None} /\ None \notin Hosts
        /\ \A q \in Requests : request[q].host \in Hosts \cup {None}
    BY HostsAssumption DEF TypeOK
  <2>2. CASE port = None
    <3>1. host' = host
      BY <2>1, <2>2, <2>t
    <3> QED
      BY <1>2, <3>1
  <2>3. CASE port # None
    <3>1. host[port] \in {"serving", "told"}
      BY <2>3 DEF LifeInv, PortInv
    <3> QED
      BY <1>1, <2>1, <2>3, <2>t, <3>1 DEF LifeInv, PortInv, RequestInv
  <2> QED
    BY <2>2, <2>3
<1> QED
  BY <1>2, <1>3 DEF Stopping, CheckHealth, CheckOwner, ShutdownRefused, OnlyStop

(* A request that is received or handled is so by a running host.          *)
LEMMA LifeOfRequests ==
  ASSUME TypeOK, LifeInv, NEW q \in Requests, Receive(q) \/ Disconnect(q) \/ Handle(q)
  PROVE  LifeInv'
<1>1. host' = host /\ port' = port
  BY DEF Receive, Disconnect, Handle, Select, SelectNothing, Respond, WriteThrows, Capture, Trim, Dequeue,
     Persist, WriteIndex, OnlyRequest, ownership
<1>2. ASSUME NEW r \in Requests \ {q} PROVE RequestInv(r)'
  <2>1. request'[r] = request[r]
    BY OthersKept
  <2> QED
    BY <1>1, <2>1 DEF LifeInv, RequestInv
<1>3. RequestInv(q)'
  <2>0. RequestInv(q)
    BY DEF LifeInv
  <2>1. CASE Receive(q)
    <3>1. port \in Hosts /\ host[port] \in {"serving", "told"} /\ request[q].at = "new"
      BY <2>1 DEF Receive, LifeInv, PortInv, TypeOK
    <3> QED
      BY <1>1, <2>0, <2>1, <3>1, Received DEF RequestInv
  <2>2. CASE Select(q)
    BY <1>1, <2>0, <2>2, Selected DEF RequestInv, Select, InFlight
  <2>3. CASE Disconnect(q)
    BY <1>1, <2>0, <2>3 DEF RequestInv, Disconnect
  <2>4. CASE Persist(q)
    BY <1>1, <2>0, <2>4, Persisted DEF RequestInv, Persist, InFlight
  <2>5. CASE WriteIndex(q)
    BY <1>1, <2>0, <2>5, Indexed DEF RequestInv, WriteIndex, InFlight
  <2>6. CASE SelectNothing(q) \/ Respond(q) \/ WriteThrows(q) \/ Capture(q) \/ Trim(q) \/ Dequeue(q)
    <3>1. PICK x \in Stages \ {"new", "received"} : RequestGoes(q, x)
      BY <2>6 DEF SelectNothing, Respond, WriteThrows, Capture, Trim, Dequeue, Stages, InFlight
    <3>2. request[q].at \in InFlight
      BY <2>6 DEF SelectNothing, Respond, WriteThrows, Capture, Trim, Dequeue, InFlight
    <3>3. request'[q].at \notin {"new", "received"} /\ request'[q].host = request[q].host
      BY <3>1, StageReached
    <3> QED
      BY <1>1, <2>0, <3>2, <3>3 DEF RequestInv
  <2> QED
    BY <2>1, <2>2, <2>3, <2>4, <2>5, <2>6 DEF Handle
<1> QED
  BY <1>1, <1>2, <1>3 DEF LifeInv, PortInv

(* Nothing happens in a stutter.                                           *)
LEMMA Unchanged ==
  ASSUME TypeOK, LifeInv, UNCHANGED vars
  PROVE  TypeOK' /\ LifeInv'
BY DEF TypeOK, LifeInv, PortInv, RequestInv, vars

(* The state of hosts, stop commands and requests is well-typed, and a     *)
(* request under way is handled by a host that still runs.                 *)
THEOREM HostTypeCorrect == Spec => [](TypeOK /\ LifeInv)
<1>1. Init => TypeOK /\ LifeInv
  <2> SUFFICES ASSUME Init PROVE TypeOK /\ LifeInv
    OBVIOUS
  <2>1. request \in [Requests -> [at : {"new", "done", "lost"} \cup InFlight, host : Hosts \cup {None},
                                 given : Given \cup {None}, shown : Seq(Requests)]]
    BY DEF Init
  <2>2. TypeOK
    BY <2>1, HostsAssumption DEF Init, TypeOK
  <2>3. \A q \in Requests : request[q].at = "new" /\ request[q].host = None /\ request[q].given = None
    BY DEF Init
  <2>4. LifeInv
    BY <2>3, HostsAssumption DEF Init, LifeInv, PortInv, RequestInv, InFlight
  <2> QED
    BY <2>2, <2>4
<1>2. TypeOK /\ LifeInv /\ [Next]_vars => (TypeOK /\ LifeInv)'
  <2> SUFFICES ASSUME TypeOK, LifeInv, [Next]_vars PROVE TypeOK' /\ LifeInv'
    OBVIOUS
  <2>0. Handled
    BY DEF LifeInv, RequestInv, Handled
  <2>1. ASSUME NEW h \in Hosts, Life(h) PROVE TypeOK' /\ LifeInv'
    BY <2>1, LifeType, LifeOfHosts
  <2>2. ASSUME NEW s \in Stops, Stopping(s) PROVE TypeOK' /\ LifeInv'
    BY <2>2, StopType, LifeOfStops
  <2>3. ASSUME NEW q \in Requests, Receive(q) \/ Disconnect(q) \/ Handle(q) PROVE TypeOK' /\ LifeInv'
    BY <2>0, <2>3, RequestType, LifeOfRequests
  <2> QED
    BY <2>1, <2>2, <2>3, Unchanged DEF Next
<1> QED
  BY <1>1, <1>2, PTL DEF Spec
-----------------------------------------------------------------------------
(* Stop commands.                                                          *)

(* What a stop command knows of the host it saw, and a stopped host of the *)
(* command; current.json names hosts of its integration only.              *)
StopInv ==
  /\ \A s \in Stops : stop[s].at \in {"healthy", "owner", "posted"} =>
       stop[s].seen \in Hosts /\ IntegrationOf[stop[s].seen] = Wanted[s]
  /\ \A h \in Hosts : stopper[h] # None =>
       stop[stopper[h]].at = "posted" /\ stop[stopper[h]].seen = h

ToldInv == \A s \in Stops : stop[s].at = "posted" => host[stop[s].seen] \in Ending

OwnerInv ==
  \A i \in Integrations : current[i] # None =>
    host[current[i]] # "exited" /\ IntegrationOf[current[i]] = i

(* Hosts write and remove current.json so that it names no host that       *)
(* removed it, also when writing or removing fails.                        *)
LEMMA OwnerStep ==
  ASSUME TypeOK, OwnerInv, NEW h \in Hosts, Life(h)
  PROVE  OwnerInv'
<1>t. /\ host \in [Hosts -> {"new", "starting", "serving", "told", "draining", "closed", "exited", "left", "killed"}]
      /\ current \in [Integrations -> Hosts \cup {None}] /\ None \notin Hosts
      /\ IntegrationOf[h] \in Integrations
  BY HostsAssumption DEF TypeOK, Integrations
<1>1. CASE Start(h)
  BY <1>t, <1>1 DEF OwnerInv, Start, HostGoes, Names
<1>2. CASE Exit(h) \/ StartFails(h)
  BY <1>t, <1>2 DEF OwnerInv, Exit, StartFails, HostGoes, Names
<1>3. CASE current' = current /\ \E x \in {"serving", "draining", "closed", "left", "killed"} : HostGoes(h, x)
  BY <1>t, <1>3 DEF OwnerInv, HostGoes
<1>4. CASE UNCHANGED <<host, current>>
  BY <1>4 DEF OwnerInv
<1> QED
  BY <1>1, <1>2, <1>3, <1>4 DEF Life, BreakOff, Bind, BindFails, StopApplication, Close, Kill, Configure, ClearRequests,
     ownership

(* A host that was told to stop does not serve again.                      *)
LEMMA ToldStep ==
  ASSUME TypeOK, StopInv, ToldInv, NEW h \in Hosts, Life(h)
  PROVE  ToldInv'
<1>1. stop' = stop
  BY DEF Life, Start, StartFails, BreakOff, Bind, BindFails, StopApplication, Close, Exit, Kill, Configure,
     ClearRequests, ownership
<1>2. \A g \in Hosts : host[g] \in Ending => host'[g] \in Ending
  <2>1. DOMAIN host = Hosts
    BY DEF TypeOK
  <2>2. CASE UNCHANGED host
    BY <2>2
  <2>3. CASE (\E x \in Ending : HostGoes(h, x)) \/ (host[h] \notin Ending /\ \E x : HostGoes(h, x))
    BY <2>1, <2>3 DEF HostGoes
  <2>4. CASE Start(h) \/ StartFails(h) \/ BreakOff(h) \/ Bind(h) \/ BindFails(h)
    BY <2>3, <2>4 DEF Start, StartFails, BreakOff, Bind, BindFails, Ending
  <2>5. CASE StopApplication(h) \/ Close(h) \/ Exit(h) \/ Kill(h)
    BY <2>3, <2>5 DEF StopApplication, Close, Exit, Kill, Ending
  <2>6. CASE Configure(h) \/ ClearRequests(h)
    BY <2>2, <2>6 DEF Configure, ClearRequests, ownership
  <2> QED
    BY <2>4, <2>5, <2>6 DEF Life
<1>3. \A s \in Stops : stop[s].at = "posted" => stop[s].seen \in Hosts
  BY DEF StopInv
<1> QED
  BY <1>1, <1>2, <1>3 DEF ToldInv

(* What a stop command has seen stays true from one check to the next.     *)
LEMMA StopStep ==
  ASSUME TypeOK, LifeInv, StopInv, ToldInv, OwnerInv, NEW s \in Stops, Stopping(s)
  PROVE  StopInv' /\ ToldInv' /\ OwnerInv'
<1>t. /\ host \in [Hosts -> {"new", "starting", "serving", "told", "draining", "closed", "exited", "left", "killed"}]
      /\ current \in [Integrations -> Hosts \cup {None}] /\ None \notin Hosts
      /\ port \in Hosts \cup {None} /\ None \notin Stops /\ stopper \in [Hosts -> Stops \cup {None}]
  BY HostsAssumption DEF TypeOK
<1>m. stop[s] \in [at : {"new", "healthy", "owner", "posted", "refused"}, seen : Hosts \cup {None}] /\ DOMAIN stop = Stops
  BY DEF TypeOK
<1>1. ASSUME NEW x, StopGoes(s, x)
      PROVE  /\ stop'[s].at = x /\ stop'[s].seen = stop[s].seen
             /\ \A u \in Stops \ {s} : stop'[u] = stop[u]
  <2>1. stop' = [stop EXCEPT ![s] = [stop[s] EXCEPT !.at = x]]
    BY <1>1, <1>m DEF StopGoes
  <2>2. [stop[s] EXCEPT !.at = x].at = x /\ [stop[s] EXCEPT !.at = x].seen = stop[s].seen
    BY <1>m
  <2>3. stop'[s] = [stop[s] EXCEPT !.at = x] /\ \A u \in Stops \ {s} : stop'[u] = stop[u]
    BY <1>m, <2>1
  <2> QED
    BY <2>2, <2>3
<1>2. CASE CheckHealth(s)
  <2>1. /\ \/ stop'[s].at = "healthy" /\ stop'[s].seen = port /\ port # None /\ IntegrationOf[port] = Wanted[s]
           \/ stop'[s].at = "refused"
        /\ \A u \in Stops \ {s} : stop'[u] = stop[u]
    <3>1. CASE StopGoes(s, "refused")
      BY <1>1, <3>1
    <3>2. CASE stop' = [stop EXCEPT ![s] = [at |-> "healthy", seen |-> port]] /\ port # None /\ IntegrationOf[port] = Wanted[s]
      BY <1>m, <3>2
    <3> QED
      BY <1>2, <3>1, <3>2 DEF CheckHealth
  <2>2. stop[s].at = "new" /\ UNCHANGED <<host, current, stopper>>
    BY <1>2 DEF CheckHealth, OnlyStop
  <2> QED
    BY <1>t, <2>1, <2>2 DEF StopInv, ToldInv, OwnerInv
<1>3. CASE CheckOwner(s) \/ ShutdownRefused(s)
  <2>1. /\ stop[s].at \in {"healthy", "owner"} /\ UNCHANGED <<host, current, stopper>>
        /\ \E x \in {"owner", "refused"} : StopGoes(s, x)
    BY <1>3 DEF CheckOwner, ShutdownRefused, OnlyStop
  <2>2. /\ stop'[s].at \in {"owner", "refused"} /\ stop'[s].seen = stop[s].seen
        /\ \A u \in Stops \ {s} : stop'[u] = stop[u]
    BY <1>1, <2>1
  <2> QED
    BY <1>t, <2>1, <2>2 DEF StopInv, ToldInv, OwnerInv
<1>4. CASE Shutdown(s)
  <2>1. /\ stop[s].at = "owner" /\ port = stop[s].seen /\ current' = current
        /\ stop'[s].at = "posted" /\ stop'[s].seen = stop[s].seen
        /\ \A u \in Stops \ {s} : stop'[u] = stop[u]
    BY <1>1, <1>4 DEF Shutdown
  <2>2. /\ port \in Hosts /\ host' = [host EXCEPT ![port] = "told"]
        /\ stopper' = [stopper EXCEPT ![port] = IF @ = None THEN s ELSE @]
    BY <1>4, <2>1 DEF Shutdown, HostGoes, StopInv
  <2>3. /\ stopper'[port] \in {s, stopper[port]} /\ \A h \in Hosts \ {port} : stopper'[h] = stopper[h]
    BY <1>t, <2>2
  <2>4. StopInv'
    BY <1>t, <2>1, <2>2, <2>3 DEF StopInv
  <2>5. OwnerInv'
    BY <1>t, <2>1, <2>2 DEF OwnerInv
  <2>6. ToldInv'
    <3>1. \A g \in Hosts : host[g] \in Ending => host'[g] \in Ending
      BY <1>t, <2>2 DEF Ending
    <3>2. host'[stop'[s].seen] \in Ending
      BY <1>t, <2>1, <2>2 DEF Ending
    <3>3. \A u \in Stops : stop[u].at = "posted" => stop[u].seen \in Hosts
      BY DEF StopInv
    <3> QED
      BY <2>1, <3>1, <3>2, <3>3 DEF ToldInv
  <2> QED
    BY <2>4, <2>5, <2>6
<1> QED
  BY <1>2, <1>3, <1>4 DEF Stopping

(* However hosts come and go while a stop command looks, and whichever     *)
(* writes and removals of current.json fail: it stops the host it saw on   *)
(* the port, one of its integration, says so only when that host was told, *)
(* and a token that was removed does not come back.                        *)
THEOREM StopCorrect == Spec => []StopFindsItsHost
<1>1. Init => StopInv /\ ToldInv /\ OwnerInv
  <2>1. Init => \A s \in Stops : stop[s].at = "new"
    BY DEF Init
  <2> QED
    BY <2>1 DEF Init, StopInv, ToldInv, OwnerInv
<1>2. TypeOK /\ LifeInv /\ (StopInv /\ ToldInv /\ OwnerInv) /\ [Next]_vars => (StopInv /\ ToldInv /\ OwnerInv)'
  <2> SUFFICES ASSUME TypeOK, LifeInv, StopInv, ToldInv, OwnerInv, [Next]_vars PROVE StopInv' /\ ToldInv' /\ OwnerInv'
    OBVIOUS
  <2>1. ASSUME NEW h \in Hosts, Life(h) PROVE StopInv' /\ ToldInv' /\ OwnerInv'
    <3>1. UNCHANGED <<stop, stopper>>
      BY <2>1 DEF Life, Start, StartFails, BreakOff, Bind, BindFails, StopApplication, Close, Exit, Kill, Configure, ClearRequests, ownership
    <3> QED
      BY <2>1, <3>1, OwnerStep, ToldStep DEF StopInv
  <2>2. ASSUME NEW s \in Stops, Stopping(s) PROVE StopInv' /\ ToldInv' /\ OwnerInv'
    BY <2>2, StopStep
  <2>3. ASSUME NEW q \in Requests, Receive(q) \/ Disconnect(q) \/ Handle(q) PROVE StopInv' /\ ToldInv' /\ OwnerInv'
    <3>1. UNCHANGED ownership
      BY <2>3 DEF Receive, Disconnect, Handle, Select, SelectNothing, Respond, WriteThrows, Capture, Trim, Dequeue,
         Persist, WriteIndex, OnlyRequest
    <3> QED
      BY <3>1 DEF ownership, StopInv, ToldInv, OwnerInv
  <2>4. CASE UNCHANGED vars
    BY <2>4 DEF vars, StopInv, ToldInv, OwnerInv
  <2> QED
    BY <2>1, <2>2, <2>3, <2>4 DEF Next
<1>3. TypeOK /\ StopInv /\ ToldInv /\ OwnerInv => StopFindsItsHost
  BY DEF TypeOK, StopInv, ToldInv, OwnerInv, StopFindsItsHost, NoWrongStop, PostedIsTold, RemovedStaysRemoved
<1> QED
  BY <1>1, <1>2, <1>3, HostTypeCorrect, PTL DEF Spec
-----------------------------------------------------------------------------
(* The sequence of responses.                                              *)

(* Request q was given the response at a position by a rule of host h.     *)
Has(q, h, state, position) ==
  request[q].host = h /\ request[q].given = [state |-> state, position |-> position]

States == 0 .. MaxConfigures
Positions == 1 .. Responses

(* What was given was counted, what was counted was given, and once.       *)
GivenIsCounted ==
  \A q \in Requests, h \in Hosts, state \in States, position \in Positions :
    Has(q, h, state, position) =>
      \/ state < rule[h].state
      \/ state = rule[h].state /\ position <= rule[h].invocation

CountedIsGiven ==
  \A h \in Hosts, position \in Positions :
    position <= rule[h].invocation => \E q \in Requests : Has(q, h, rule[h].state, position)

GivenOnce ==
  \A q, r \in Requests, h \in Hosts, state \in States, position \in Positions :
    position < Responses /\ Has(q, h, state, position) /\ Has(r, h, state, position) => q = r

GivenInOrder ==
  \A q \in Requests, h \in Hosts, state \in States, position \in Positions :
    position > 1 /\ Has(q, h, state, position) => \E r \in Requests : Has(r, h, state, position - 1)

SequenceInv == GivenIsCounted /\ CountedIsGiven /\ GivenOnce /\ GivenInOrder

(* Two responses are the same if rule and position are.                    *)
LEMMA SameGiven ==
  ASSUME NEW a, NEW b, NEW c, NEW d
  PROVE  [state |-> a, position |-> b] = [state |-> c, position |-> d] <=> a = c /\ b = d
OBVIOUS

(* As long as nobody is given a response and no rule changes.              *)
LEMMA SequenceKept ==
  ASSUME TypeOK, SequenceInv, UNCHANGED rule,
         \A r \in Requests, h \in Hosts, state \in States, position \in Positions :
           Has(r, h, state, position)' <=> Has(r, h, state, position)
  PROVE  SequenceInv'
<1>1. \A h \in Hosts : rule[h].state \in States
  BY DEF TypeOK, States
<1>2. \A position \in Positions : position > 1 => position - 1 \in Positions
  BY HostsAssumption DEF Positions
<1>3. GivenIsCounted'
  BY DEF SequenceInv, GivenIsCounted
<1>4. CountedIsGiven'
  BY <1>1 DEF SequenceInv, CountedIsGiven
<1>5. GivenOnce'
  BY DEF SequenceInv, GivenOnce
<1>6. GivenInOrder'
  BY <1>2 DEF SequenceInv, GivenInOrder
<1> QED
  BY <1>3, <1>4, <1>5, <1>6 DEF SequenceInv

(* Selecting counts what it gives, gives it once and in order.             *)
LEMMA SequenceSelect ==
  ASSUME TypeOK, LifeInv, SequenceInv, NEW q \in Requests, Select(q)
  PROVE  SequenceInv'
<1> DEFINE host0 == HostOf(q)
           state0 == rule[host0].state
           count0 == rule[host0].invocation
           position0 == Smaller(count0 + 1, Responses)
<1>0. host0 \in Hosts /\ request[q].given = None
  BY DEF HostOf, Select, LifeInv, RequestInv, InFlight
<1>t. /\ rule[host0] \in [state : States, invocation : Nat]
      /\ state0 \in States /\ count0 \in Nat /\ position0 \in Positions /\ Responses \in Nat \ {0}
      /\ States \subseteq Nat /\ Positions \subseteq Nat /\ \A h \in Hosts : rule[h].state \in States /\ rule[h].invocation \in Nat
      /\ position0 = count0 + 1 \/ (position0 = Responses /\ Responses <= count0)
  <2>1. rule \in [Hosts -> [state : States, invocation : Nat]]
    BY DEF TypeOK, States
  <2>2. rule[host0] \in [state : States, invocation : Nat] /\ state0 \in States /\ count0 \in Nat
    BY <1>0, <2>1
  <2>3. /\ Responses \in Nat \ {0} /\ States \subseteq Nat /\ Positions \subseteq Nat
        /\ \A h \in Hosts : rule[h].state \in States /\ rule[h].invocation \in Nat
    BY <2>1, HostsAssumption DEF States, Positions
  <2> HIDE DEF host0, state0, count0
  <2>4. position0 \in Positions /\ (position0 = count0 + 1 \/ (position0 = Responses /\ Responses <= count0))
    BY <2>2, <2>3 DEF Positions, Smaller
  <2> QED
    BY <2>2, <2>3, <2>4
<1>1. /\ rule'[host0].state = state0 /\ rule'[host0].invocation = count0 + 1
      /\ \A h \in Hosts \ {host0} : rule'[h] = rule[h]
  <2>1. rule' = [rule EXCEPT ![host0] = [rule[host0] EXCEPT !.invocation = @ + 1]] /\ DOMAIN rule = Hosts
    BY <1>0 DEF Select, TypeOK
  <2>2. /\ [rule[host0] EXCEPT !.invocation = @ + 1].state = state0
        /\ [rule[host0] EXCEPT !.invocation = @ + 1].invocation = count0 + 1
    BY <1>t, InvocationCounted DEF States
  <2> QED
    BY <1>0, <2>1, <2>2
<1>2. \A h \in Hosts, state \in States, position \in Positions : ~Has(q, h, state, position)
  BY <1>0, HostsAssumption DEF Has, States, Positions
<1>3. \A r \in Requests \ {q}, h \in Hosts, state \in States, position \in Positions :
        Has(r, h, state, position)' <=> Has(r, h, state, position)
  BY OthersKept DEF Has, Handle
<1>4. \A h \in Hosts, state \in States, position \in Positions :
        Has(q, h, state, position)' <=> h = host0 /\ state = state0 /\ position = position0
  <2>1. request'[q].host = host0 /\ request'[q].given = [state |-> state0, position |-> position0]
    BY Selected DEF HostOf
  <2> HIDE DEF host0, state0, position0
  <2>2. \A state, position : [state |-> state0, position |-> position0] = [state |-> state, position |-> position]
                              <=> state = state0 /\ position = position0
    BY SameGiven
  <2>3. \A h, state, position : Has(q, h, state, position)' <=>
          host0 = h /\ [state |-> state0, position |-> position0] = [state |-> state, position |-> position]
    BY <2>1, Zenon DEF Has
  <2> QED
    BY <2>2, <2>3, Zenon
<1> HIDE DEF host0, state0, count0, position0
<1> USE <1>0, <1>t, <1>1, <1>2, <1>3, <1>4
<1>5. GivenIsCounted'
  <2> SUFFICES ASSUME NEW r \in Requests, NEW h \in Hosts, NEW state \in States, NEW position \in Positions,
                      Has(r, h, state, position)'
               PROVE  \/ state < rule'[h].state
                      \/ state = rule'[h].state /\ position <= rule'[h].invocation
    BY DEF GivenIsCounted
  <2>1. CASE r = q
    BY <2>1
  <2>2. CASE r # q
    <3>1. Has(r, h, state, position)
      BY <2>2
    <3>2. \/ state < rule[h].state
          \/ state = rule[h].state /\ position <= rule[h].invocation
      BY <3>1 DEF SequenceInv, GivenIsCounted
    <3>3. rule'[h].state = rule[h].state /\ rule'[h].invocation \in {rule[h].invocation, rule[h].invocation + 1}
      BY DEF state0, count0
    <3> QED
      BY <3>2, <3>3
  <2> QED
    BY <2>1, <2>2
<1>6. CountedIsGiven'
  <2> SUFFICES ASSUME NEW h \in Hosts, NEW position \in Positions, position <= rule'[h].invocation
               PROVE  \E r \in Requests : Has(r, h, rule[h].state, position)' /\ rule'[h].state = rule[h].state
    BY DEF CountedIsGiven
  <2>1. rule'[h].state = rule[h].state
    BY DEF state0
  <2>2. CASE position <= rule[h].invocation
    <3>1. PICK r \in Requests : Has(r, h, rule[h].state, position)
      BY <2>2 DEF SequenceInv, CountedIsGiven
    <3>0. rule[h].state \in States
      OBVIOUS
    <3>2. r # q
      <4>1. ~Has(q, h, rule[h].state, position)
        BY <3>0
      <4> QED
        BY <3>1, <4>1, Zenon
    <3> QED
      BY <2>1, <3>0, <3>1, <3>2
  <2>3. CASE ~(position <= rule[h].invocation)
    <3>1. h = host0 /\ ~(position <= count0) /\ position <= count0 + 1
      <4>1. h = host0
        BY <2>3
      <4> QED
        BY <2>3, <4>1 DEF count0
    <3>2. position = position0
      BY <3>1 DEF Positions
    <3>3. rule[h].state = state0
      BY <3>1 DEF state0
    <3> QED
      BY <2>1, <3>1, <3>2, <3>3
  <2> QED
    BY <2>2, <2>3
<1>7. GivenOnce'
  <2> SUFFICES ASSUME NEW r \in Requests, NEW u \in Requests, NEW h \in Hosts, NEW state \in States,
                      NEW position \in Positions, position < Responses,
                      Has(r, h, state, position)', Has(u, h, state, position)'
               PROVE  r = u
    BY DEF GivenOnce
  <2>1. ASSUME NEW v \in Requests \ {q}, h = host0, state = state0, position = position0, Has(v, h, state, position)'
        PROVE  FALSE
    <3>1. Has(v, h, state, position)
      BY <2>1
    <3>2. position <= count0
      BY <2>1, <3>1 DEF SequenceInv, GivenIsCounted, state0, count0
    <3> QED
      BY <2>1, <3>2
  <2>2. CASE r # q /\ u # q
    <3>1. Has(r, h, state, position) /\ Has(u, h, state, position)
      BY <2>2
    <3> QED
      BY <3>1, Zenon DEF SequenceInv, GivenOnce
  <2>3. CASE r = q \/ u = q
    BY <2>1, <2>3
  <2> QED
    BY <2>2, <2>3
<1>8. GivenInOrder'
  <2> SUFFICES ASSUME NEW r \in Requests, NEW h \in Hosts, NEW state \in States,
                      NEW position \in Positions, position > 1, Has(r, h, state, position)'
               PROVE  \E u \in Requests : Has(u, h, state, position - 1)'
    BY DEF GivenInOrder
  <2>1. position - 1 \in Positions
    BY DEF Positions
  <2>2. \E u \in Requests : Has(u, h, state, position - 1)
    <3>1. CASE r # q
      BY <3>1 DEF SequenceInv, GivenInOrder
    <3>2. CASE r = q
      <4>1. h = host0 /\ state = state0 /\ position = position0 /\ position - 1 <= count0
        BY <3>2
      <4> QED
        BY <2>1, <4>1 DEF SequenceInv, CountedIsGiven, state0, count0
    <3> QED
      BY <3>1, <3>2
  <2> QED
    BY <2>1, <2>2
<1> QED
  BY <1>5, <1>6, <1>7, <1>8 DEF SequenceInv

(* The steps of the requests that give nothing.                            *)
LEMMA NothingGiven ==
  ASSUME TypeOK, LifeInv, NEW q \in Requests, Receive(q) \/ Disconnect(q) \/ Handle(q), ~Select(q)
  PROVE  \A r \in Requests, h \in Hosts, state \in States, position \in Positions :
           Has(r, h, state, position)' <=> Has(r, h, state, position)
<1> SUFFICES ASSUME NEW r \in Requests, NEW h \in Hosts, NEW state \in States, NEW position \in Positions
             PROVE  Has(r, h, state, position)' <=> Has(r, h, state, position)
  OBVIOUS
<1>1. request'[r].given = request[r].given
  BY GivenKept DEF Handle
<1>2. CASE Disconnect(q) \/ Handle(q)
  BY <1>1, <1>2, HostKept DEF Has
<1>3. CASE Receive(q)
  <2>1. CASE r # q
    BY <1>3, <2>1, OthersKept DEF Has
  <2>2. CASE r = q
    <3>1. request[q].given = None
      BY <1>3 DEF Receive, LifeInv, RequestInv
    <3>2. [state |-> state, position |-> position] # None
      BY HostsAssumption DEF States, Positions
    <3> QED
      BY <1>1, <2>2, <3>1, <3>2 DEF Has
  <2> QED
    BY <2>1, <2>2
<1> QED
  BY <1>2, <1>3

(* A new rule starts a sequence of its own; other steps keep the sequence. *)
LEMMA SequenceLife ==
  ASSUME TypeOK, SequenceInv, NEW h \in Hosts, Life(h)
  PROVE  SequenceInv'
<1>1. CASE Configure(h)
  <2>1. request' = request /\ rule[h].state < MaxConfigures
    BY <1>1 DEF Configure
  <2>2. \A r \in Requests, g \in Hosts, state \in States, position \in Positions :
          Has(r, g, state, position)' <=> Has(r, g, state, position)
    BY <2>1 DEF Has
  <2>3. /\ rule'[h].state = rule[h].state + 1 /\ rule'[h].invocation = 0
        /\ \A g \in Hosts \ {h} : rule'[g] = rule[g]
    BY <1>1 DEF Configure, TypeOK
  <2>4. /\ \A g \in Hosts : rule[g].state \in States
        /\ States \subseteq Nat /\ Positions \subseteq Nat \ {0}
        /\ \A position \in Positions : position > 1 => position - 1 \in Positions
    BY HostsAssumption DEF TypeOK, States, Positions
  <2>5. GivenIsCounted'
    <3> SUFFICES ASSUME NEW q \in Requests, NEW g \in Hosts, NEW state \in States, NEW position \in Positions,
                        Has(q, g, state, position)
                 PROVE  \/ state < rule'[g].state
                        \/ state = rule'[g].state /\ position <= rule'[g].invocation
      BY <2>2 DEF GivenIsCounted
    <3>1. state < rule[g].state \/ (state = rule[g].state /\ position <= rule[g].invocation)
      BY DEF SequenceInv, GivenIsCounted
    <3>2. state \in Nat /\ rule[g].state \in Nat
      BY <2>4
    <3> QED
      BY <2>3, <3>1, <3>2
  <2>6. CountedIsGiven'
    <3> SUFFICES ASSUME NEW g \in Hosts, NEW position \in Positions, position <= rule'[g].invocation
                 PROVE  \E q \in Requests : Has(q, g, rule[g].state, position)' /\ rule'[g].state = rule[g].state
      BY DEF CountedIsGiven
    <3>1. g # h
      BY <2>3, <2>4
    <3> QED
      BY <2>2, <2>3, <2>4, <3>1 DEF SequenceInv, CountedIsGiven
  <2>7. GivenOnce'
    BY <2>2 DEF SequenceInv, GivenOnce
  <2>8. GivenInOrder'
    BY <2>2, <2>4 DEF SequenceInv, GivenInOrder
  <2> QED
    BY <2>5, <2>6, <2>7, <2>8 DEF SequenceInv
<1>2. CASE Kill(h)
  <2>1. \A r \in Requests, g \in Hosts, state \in States, position \in Positions :
          Has(r, g, state, position)' <=> Has(r, g, state, position)
    BY <1>2, Killed DEF Has
  <2>2. UNCHANGED rule
    BY <1>2 DEF Kill
  <2> QED
    BY <2>1, <2>2, SequenceKept
<1>3. CASE Start(h) \/ StartFails(h) \/ BreakOff(h) \/ Bind(h) \/ BindFails(h) \/ StopApplication(h) \/ Close(h) \/ Exit(h) \/ ClearRequests(h)
  <2>1. UNCHANGED <<rule, request>>
    BY <1>3 DEF Start, StartFails, BreakOff, Bind, BindFails, StopApplication, Close, Exit, ClearRequests, serving
  <2>2. \A r \in Requests, g \in Hosts, state \in States, position \in Positions :
          Has(r, g, state, position)' <=> Has(r, g, state, position)
    BY <2>1 DEF Has
  <2> QED
    BY <2>1, <2>2, SequenceKept
<1> QED
  BY <1>1, <1>2, <1>3 DEF Life

(* Every step keeps what is known of the sequence.                         *)
LEMMA SequenceStep ==
  ASSUME TypeOK, LifeInv, SequenceInv, [Next]_vars
  PROVE  SequenceInv'
<1>1. ASSUME NEW h \in Hosts, Life(h) PROVE SequenceInv'
  BY <1>1, SequenceLife
<1>2. ASSUME (\E s \in Stops : Stopping(s)) \/ UNCHANGED vars PROVE SequenceInv'
  <2>1. UNCHANGED <<rule, request>>
    BY <1>2 DEF Stopping, CheckHealth, CheckOwner, Shutdown, ShutdownRefused, OnlyStop, serving, vars
  <2>2. \A r \in Requests, g \in Hosts, state \in States, position \in Positions :
          Has(r, g, state, position)' <=> Has(r, g, state, position)
    BY <2>1 DEF Has
  <2> QED
    BY <2>1, <2>2, SequenceKept
<1>3. ASSUME NEW q \in Requests, Receive(q) \/ Disconnect(q) \/ Handle(q) PROVE SequenceInv'
  <2>1. CASE Select(q)
    BY <2>1, SequenceSelect
  <2>2. CASE ~Select(q)
    <3>1. UNCHANGED rule
      BY <1>3, <2>2 DEF Receive, Disconnect, Handle, SelectNothing, Respond, WriteThrows, Capture, Trim, Dequeue,
         Persist, WriteIndex, OnlyRequest
    <3> QED
      BY <1>3, <2>2, <3>1, NothingGiven, SequenceKept
  <2> QED
    BY <2>1, <2>2
<1> QED
  BY <1>1, <1>2, <1>3 DEF Next

(* What the invariant says in terms of the sets of users of a position.    *)
LEMMA SequenceHolds ==
  ASSUME TypeOK, SequenceInv
  PROVE  SequenceInOrder
<1> SUFFICES ASSUME NEW h \in Hosts, NEW state \in States, NEW position \in Positions
             PROVE  LET users == UsersOf(h, [state |-> state, position |-> position])
                    IN  /\ position < Responses => Cardinality(users) <= 1
                        /\ position > 1 /\ users # {} =>
                             UsersOf(h, [state |-> state, position |-> position - 1]) # {}
  BY DEF SequenceInOrder, States, Positions
<1> DEFINE users == UsersOf(h, [state |-> state, position |-> position])
<1>0. \A q \in Requests : \A p : q \in UsersOf(h, [state |-> state, position |-> p]) <=> Has(q, h, state, p)
  BY DEF UsersOf, Has
<1>s. users \subseteq Requests
  BY DEF UsersOf
<1>1. ASSUME position < Responses PROVE Cardinality(users) <= 1
  <2>1. \A q, r \in users : q = r
    BY <1>0, <1>1, <1>s DEF SequenceInv, GivenOnce
  <2>2. users = {} \/ \E q \in users : users = {q}
    <3> HIDE DEF users
    <3> QED
      BY <2>1
  <2> HIDE DEF users
  <2>3. Cardinality({}) = 0 /\ \A q : Cardinality({q}) = 1
    BY FS_EmptySet, FS_Singleton, Zenon
  <2>4. Cardinality(users) \in {0, 1}
    BY <2>2, <2>3
  <2> QED
    BY <2>4
<1>2. ASSUME position > 1, users # {} PROVE UsersOf(h, [state |-> state, position |-> position - 1]) # {}
  <2>1. PICK q \in Requests : Has(q, h, state, position)
    BY <1>0, <1>2, <1>s
  <2>2. PICK r \in Requests : Has(r, h, state, position - 1)
    BY <1>2, <2>1 DEF SequenceInv, GivenInOrder
  <2> QED
    BY <1>0, <2>2
<1> QED
  BY <1>1, <1>2
-----------------------------------------------------------------------------
(* The exchanges in memory.                                                *)

(* The requests that still shorten the queue of a host.                    *)
Behind(h) == {q \in Requests : request[q].host = h /\ request[q].at \in {"trimming", "dequeuing"}}

MemoryInv ==
  \A h \in Hosts : host[h] # "killed" => Len(captured[h]) <= MaxExchanges + Cardinality(Behind(h))

(* The requests behind a host are finitely many.                           *)
LEMMA BehindIsFinite ==
  ASSUME NEW h
  PROVE  /\ IsFiniteSet(Behind(h)) /\ Cardinality(Behind(h)) \in Nat
         /\ IsFiniteSet(Behind(h))' /\ Cardinality(Behind(h))' \in Nat
<1>1. Behind(h) \subseteq Requests /\ Behind(h)' \subseteq Requests
  BY DEF Behind
<1>2. IsFiniteSet(Behind(h)) /\ IsFiniteSet(Behind(h)')
  BY <1>1, FS_Subset, HostsAssumption
<1> QED
  BY <1>2, FS_CardinalityType

(* Steps after which nobody is behind a host that was not before, or the   *)
(* other way round, and that add nothing to its queue.                     *)
LEMMA MemoryKept ==
  ASSUME MemoryInv, NEW h \in Hosts, host[h] # "killed", captured'[h] = captured[h], Behind(h)' = Behind(h)
  PROVE  Len(captured'[h]) <= MaxExchanges + Cardinality(Behind(h)')
BY DEF MemoryInv

(* No step of a host makes its queue longer than its requests will mend.   *)
LEMMA MemoryOfHosts ==
  ASSUME TypeOK, MemoryInv, LifeInv, NEW h \in Hosts, Life(h)
  PROVE  MemoryInv'
<1> SUFFICES ASSUME NEW g \in Hosts, host'[g] # "killed"
             PROVE  Len(captured'[g]) <= MaxExchanges + Cardinality(Behind(g)')
  BY DEF MemoryInv
<1>1. CASE Kill(h)
  <2>1. g # h /\ host[g] # "killed" /\ captured' = captured
    BY <1>1 DEF Kill, HostGoes, TypeOK, evidence
  <2>2. Behind(g)' = Behind(g)
    BY <1>1, <2>1, Killed DEF Behind
  <2> QED
    BY <2>1, <2>2, MemoryKept
<1>2. CASE ClearRequests(h)
  <2>1. host[g] # "killed" /\ request' = request /\ captured' = [captured EXCEPT ![h] = <<>>]
    BY <1>2 DEF ClearRequests, ownership, serving
  <2>2. Behind(g)' = Behind(g)
    BY <2>1 DEF Behind
  <2>3. CASE g # h
    <3>1. captured'[g] = captured[g]
      BY <2>1, <2>3 DEF TypeOK
    <3> QED
      BY <2>1, <2>2, <3>1, MemoryKept
  <2>4. CASE g = h
    <3>1. Len(captured'[g]) = 0
      BY <2>1, <2>4 DEF TypeOK
    <3> QED
      BY <3>1, BehindIsFinite, HostsAssumption
  <2> QED
    BY <2>3, <2>4
<1>3. CASE Start(h) \/ StartFails(h) \/ BreakOff(h) \/ Bind(h) \/ BindFails(h) \/ StopApplication(h) \/ Close(h) \/ Exit(h) \/ Configure(h)
  <2>1. UNCHANGED <<captured, request>>
    BY <1>3 DEF Start, StartFails, BreakOff, Bind, BindFails, StopApplication, Close, Exit, Configure, serving, evidence
  <2>2. host[g] # "killed"
    BY <1>3 DEF Start, StartFails, BreakOff, Bind, BindFails, StopApplication, Listening, Close, Exit, Configure, HostGoes, TypeOK, ownership
  <2>3. Behind(g)' = Behind(g)
    BY <2>1 DEF Behind
  <2> QED
    BY <2>1, <2>2, <2>3, MemoryKept
<1> QED
  BY <1>1, <1>2, <1>3 DEF Life

(* A request that lengthens the queue is behind until it has shortened it. *)
LEMMA MemoryOfRequests ==
  ASSUME TypeOK, MemoryInv, LifeInv, NEW q \in Requests, Receive(q) \/ Disconnect(q) \/ Handle(q)
  PROVE  MemoryInv'
<1> SUFFICES ASSUME NEW g \in Hosts, host[g] # "killed"
             PROVE  Len(captured'[g]) <= MaxExchanges + Cardinality(Behind(g)')
  BY DEF MemoryInv, Receive, Disconnect, Handle, Select, SelectNothing, Respond, WriteThrows, Capture, Trim, Dequeue,
     Persist, WriteIndex, OnlyRequest, ownership
<1>t. captured \in [Hosts -> Seq(Requests)] /\ MaxExchanges \in Nat
  BY HostsAssumption DEF TypeOK
<1>o. \A r \in Requests \ {q} : request'[r] = request[r]
  BY OthersKept
<1>1. CASE Capture(q)
  <2>1. /\ request'[q].at = "trimming" /\ request'[q].host = request[q].host /\ request[q].at = "answered"
        /\ captured' = [captured EXCEPT ![HostOf(q)] = Append(@, q)]
    BY <1>1, StageReached DEF Capture
  <2>2. CASE g = HostOf(q)
    <3>1. q \notin Behind(g) /\ Behind(g)' = Behind(g) \cup {q}
      BY <1>o, <2>1, <2>2 DEF Behind, HostOf
    <3>2. Cardinality(Behind(g)') = Cardinality(Behind(g)) + 1
      BY <3>1, BehindIsFinite, FS_AddElement
    <3>3. Len(captured'[g]) = Len(captured[g]) + 1
      BY <1>t, <2>1, <2>2
    <3>4. Len(captured[g]) <= MaxExchanges + Cardinality(Behind(g)) /\ Len(captured[g]) \in Nat
      BY <1>t DEF MemoryInv
    <3> QED
      BY <1>t, <3>2, <3>3, <3>4, BehindIsFinite
  <2>3. CASE g # HostOf(q)
    <3>1. Behind(g)' = Behind(g)
      BY <1>o, <2>1, <2>3 DEF Behind, HostOf
    <3>2. captured'[g] = captured[g]
      BY <1>t, <2>1, <2>3
    <3> QED
      BY <3>1, <3>2, MemoryKept
  <2> QED
    BY <2>2, <2>3
<1>2. CASE Dequeue(q)
  <2>1. /\ request'[q].at = "trimming" /\ request'[q].host = request[q].host /\ request[q].at = "dequeuing"
        /\ captured' = [captured EXCEPT ![HostOf(q)] = IF @ = <<>> THEN @ ELSE Tail(@)]
    BY <1>2, StageReached DEF Dequeue
  <2>2. Behind(g)' = Behind(g)
    BY <1>o, <2>1 DEF Behind
  <2>3. Len(captured'[g]) <= Len(captured[g])
    <3>1. captured'[g] = captured[g] \/ (captured[g] # <<>> /\ captured'[g] = Tail(captured[g]))
      BY <1>t, <2>1
    <3>2. captured[g] \in Seq(Requests)
      BY <1>t
    <3>3. captured[g] # <<>> => Len(Tail(captured[g])) = Len(captured[g]) - 1
      BY <3>2
    <3>4. Len(captured[g]) \in Nat
      BY <3>2
    <3>5. CASE captured'[g] = captured[g]
      BY <3>4, <3>5
    <3>6. CASE captured[g] # <<>> /\ captured'[g] = Tail(captured[g])
      <4>1. Len(captured'[g]) = Len(captured[g]) - 1
        BY <3>3, <3>6, Zenon
      <4> QED
        BY <3>4, <4>1
    <3> QED
      BY <3>1, <3>5, <3>6
  <2>4. Len(captured[g]) <= MaxExchanges + Cardinality(Behind(g)) /\ Len(captured[g]) \in Nat /\ Len(captured'[g]) \in Nat
    BY <1>t, <2>1 DEF MemoryInv
  <2> QED
    BY <1>t, <2>2, <2>3, <2>4, BehindIsFinite
<1>3. CASE Trim(q)
  <2>1. captured' = captured /\ request[q].at = "trimming" /\ request'[q].host = request[q].host
    BY <1>3, StageReached DEF Trim, OnlyRequest, evidence
  <2>2. CASE g = HostOf(q) /\ ~(Len(captured[g]) > MaxExchanges)
    BY <1>t, <2>1, <2>2, BehindIsFinite
  <2>3. CASE g = HostOf(q) /\ Len(captured[g]) > MaxExchanges
    <3>1. request'[q].at = "dequeuing"
      BY <1>3, <2>3, StageReached DEF Trim
    <3>2. Behind(g)' = Behind(g)
      BY <1>o, <2>1, <3>1 DEF Behind
    <3> QED
      BY <2>1, <3>2, MemoryKept
  <2>4. CASE g # HostOf(q)
    <3>1. Behind(g)' = Behind(g)
      BY <1>o, <2>1, <2>4 DEF Behind, HostOf
    <3> QED
      BY <2>1, <3>1, MemoryKept
  <2> QED
    BY <2>2, <2>3, <2>4
<1>4. CASE Receive(q) \/ Disconnect(q) \/ Select(q) \/ SelectNothing(q) \/ Respond(q) \/ WriteThrows(q)
             \/ Persist(q) \/ WriteIndex(q)
  <2>1. captured' = captured
    BY <1>4 DEF Receive, Disconnect, Select, SelectNothing, Respond, WriteThrows, Persist, WriteIndex, OnlyRequest,
       evidence
  <2>2. \/ request[q].at \notin {"trimming", "dequeuing"} /\ request'[q].at \notin {"trimming", "dequeuing"}
        \/ Disconnect(q)
    <3>1. CASE Receive(q) \/ Select(q) \/ Persist(q) \/ WriteIndex(q)
      BY <3>1, Received, Selected, Persisted, Indexed DEF Receive, Select, Persist, WriteIndex
    <3>2. CASE SelectNothing(q) \/ Respond(q) \/ WriteThrows(q)
      BY <3>2, StageReached DEF SelectNothing, Respond, WriteThrows
    <3> QED
      BY <1>4, <3>1, <3>2
  <2>3. Behind(g)' = Behind(g)
    <3>1. CASE Disconnect(q)
      BY <3>1 DEF Disconnect, Behind
    <3>2. CASE request[q].at \notin {"trimming", "dequeuing"} /\ request'[q].at \notin {"trimming", "dequeuing"}
      BY <1>o, <3>2 DEF Behind
    <3> QED
      BY <2>2, <3>1, <3>2
  <2> QED
    BY <2>1, <2>3, MemoryKept
<1> QED
  BY <1>1, <1>2, <1>3, <1>4 DEF Handle

(* What the gate of the artifacts is for needs no proof of order: the last *)
(* index is written when no request is under way any more.                 *)
BooksInv(h) ==
  /\ host[h] \in {"new", "starting"} => captured[h] = <<>> /\ index[h] = <<>>
  /\ host[h] \in {"closed", "exited", "left"} /\ h \notin faulty => index[h] = captured[h]

FilesInv(h) ==
  \A q \in Requests :
    request[q].host = h /\ request[q].at \in {"indexing", "done"} /\ h \notin faulty => q \in files[h]

EvidenceInv == \A h \in Hosts : BooksInv(h) /\ FilesInv(h)

(* The last write of the index, when a host closes, has all that was       *)
(* captured.                                                               *)
LEMMA EvidenceOfHosts ==
  ASSUME TypeOK, LifeInv, EvidenceInv, NEW h \in Hosts, Life(h)
  PROVE  EvidenceInv'
<1>t. /\ host \in [Hosts -> {"new", "starting", "serving", "told", "draining", "closed", "exited", "left", "killed"}]
      /\ captured \in [Hosts -> Seq(Requests)] /\ index \in [Hosts -> Seq(Requests)]
  BY DEF TypeOK
<1>1. ASSUME NEW g \in Hosts PROVE FilesInv(g)'
  <2>1. files' = files /\ faulty \subseteq faulty'
    BY DEF Life, Start, StartFails, BreakOff, Bind, BindFails, StopApplication, Close, Exit, Kill, Configure, ClearRequests, evidence
  <2>2. \A q \in Requests :
          /\ request'[q].host = request[q].host
          /\ request'[q].at \in {"indexing", "done"} => request[q].at \in {"indexing", "done"}
    <3>1. CASE Kill(h)
      BY <3>1, Killed
    <3>2. CASE request' = request
      BY <3>2
    <3> QED
      BY <3>1, <3>2 DEF Life, Start, StartFails, BreakOff, Bind, BindFails, StopApplication, Close, Exit, Configure, ClearRequests, serving
  <2> QED
    BY <2>1, <2>2 DEF EvidenceInv, FilesInv
<1>2. ASSUME NEW g \in Hosts PROVE BooksInv(g)'
  <2>0. BooksInv(g)
    BY DEF EvidenceInv
  <2>1. CASE Close(h)
    BY <1>t, <2>0, <2>1 DEF BooksInv, Close, HostGoes
  <2>2. CASE ClearRequests(h)
    <3>1. /\ host' = host /\ host[h] \in {"serving", "told"} /\ captured' = [captured EXCEPT ![h] = <<>>]
          /\ UNCHANGED <<index, faulty>>
      BY <2>2 DEF ClearRequests, Listening, ownership
    <3> QED
      BY <1>t, <2>0, <3>1 DEF BooksInv
  <2>3. CASE UNCHANGED <<captured, index, faulty>>
            /\ (UNCHANGED host \/ (\E x \in {"serving", "draining", "killed"} : HostGoes(h, x))
                \/ (host[h] = "new" /\ HostGoes(h, "starting")) \/ (host[h] = "starting" /\ HostGoes(h, "closed"))
                \/ (host[h] = "closed" /\ HostGoes(h, "exited"))
                \/ (host[h] \in {"new", "starting", "closed"} /\ HostGoes(h, "left")))
    BY <1>t, <2>0, <2>3 DEF BooksInv, HostGoes
  <2> QED
    BY <2>1, <2>2, <2>3 DEF Life, Start, StartFails, BreakOff, Bind, BindFails, StopApplication, Exit, Kill, Configure, evidence, ownership
<1> QED
  BY <1>1, <1>2 DEF EvidenceInv

(* A request that wrote its exchange has a file.                           *)
LEMMA EvidenceOfRequests ==
  ASSUME TypeOK, LifeInv, EvidenceInv, NEW q \in Requests, Receive(q) \/ Disconnect(q) \/ Handle(q)
  PROVE  EvidenceInv'
<1>t. /\ captured \in [Hosts -> Seq(Requests)] /\ index \in [Hosts -> Seq(Requests)]
      /\ files \in [Hosts -> SUBSET Requests]
  BY DEF TypeOK
<1>o. \A r \in Requests \ {q} : request'[r] = request[r]
  BY OthersKept
<1>l. request[q].at \in InFlight => /\ HostOf(q) \in Hosts
                                  /\ host[HostOf(q)] \notin {"new", "starting", "closed", "exited", "left"}
  BY DEF LifeInv, RequestInv, HostOf
<1>h. host' = host
  BY DEF Receive, Disconnect, Handle, Select, SelectNothing, Respond, WriteThrows, Capture, Trim, Dequeue,
     Persist, WriteIndex, OnlyRequest, ownership
<1>1. CASE Capture(q) \/ Dequeue(q)
  <2>1. /\ request[q].at \in InFlight /\ UNCHANGED <<files, index, faulty>>
        /\ \A g \in Hosts \ {HostOf(q)} : captured'[g] = captured[g]
    BY <1>t, <1>1 DEF Capture, Dequeue, InFlight
  <2>2. request'[q].at = "trimming"
    BY <1>1, StageReached DEF Capture, Dequeue
  <2>3. \A g \in Hosts : BooksInv(g)'
    BY <1>l, <1>h, <2>1 DEF EvidenceInv, BooksInv
  <2>4. \A g \in Hosts : FilesInv(g)'
    BY <1>o, <2>1, <2>2 DEF EvidenceInv, FilesInv
  <2> QED
    BY <2>3, <2>4 DEF EvidenceInv
<1>2. CASE Persist(q)
  <2>1. /\ request[q].at \in InFlight /\ UNCHANGED <<captured, index>>
        /\ \/ files' = [files EXCEPT ![HostOf(q)] = @ \cup {q}] /\ UNCHANGED faulty
           \/ faulty' = faulty \cup {HostOf(q)} /\ UNCHANGED files
    BY <1>2 DEF Persist, InFlight
  <2>2. request'[q].at = "indexing" /\ request'[q].host = HostOf(q)
    BY <1>2, Persisted DEF HostOf
  <2>3. \A g \in Hosts : BooksInv(g)'
    BY <1>l, <1>h, <2>1 DEF EvidenceInv, BooksInv
  <2>4. \A g \in Hosts : files[g] \subseteq files'[g] /\ faulty \subseteq faulty'
    BY <1>t, <2>1
  <2>5. HostOf(q) \in faulty' \/ q \in files'[HostOf(q)]
    BY <1>t, <1>l, <2>1
  <2>6. \A g \in Hosts : FilesInv(g)'
    BY <1>o, <2>2, <2>4, <2>5 DEF EvidenceInv, FilesInv
  <2> QED
    BY <2>3, <2>6 DEF EvidenceInv
<1>3. CASE WriteIndex(q)
  <2>1. /\ request[q].at = "indexing" /\ UNCHANGED <<captured, files>>
        /\ \/ index' = [index EXCEPT ![HostOf(q)] = request[q].shown] /\ UNCHANGED faulty
           \/ faulty' = faulty \cup {HostOf(q)} /\ UNCHANGED index
    BY <1>3 DEF WriteIndex
  <2>2. request'[q].at = "done" /\ request'[q].host = request[q].host
    BY <1>3, Indexed
  <2>3. /\ HostOf(q) \in Hosts /\ host[HostOf(q)] \notin {"new", "starting", "closed", "exited", "left"}
        /\ faulty \subseteq faulty' /\ \A g \in Hosts \ {HostOf(q)} : index'[g] = index[g]
    BY <1>t, <1>l, <2>1 DEF InFlight
  <2>4. \A g \in Hosts : BooksInv(g)'
    BY <1>h, <2>1, <2>3 DEF EvidenceInv, BooksInv
  <2>5. \A g \in Hosts : FilesInv(g)'
    BY <1>o, <2>1, <2>2, <2>3 DEF EvidenceInv, FilesInv
  <2> QED
    BY <2>4, <2>5 DEF EvidenceInv
<1>4. CASE Receive(q) \/ Disconnect(q) \/ Select(q) \/ SelectNothing(q) \/ Respond(q) \/ WriteThrows(q) \/ Trim(q)
  <2>1. UNCHANGED <<captured, index, files, faulty>>
    BY <1>4 DEF Receive, Disconnect, Select, SelectNothing, Respond, WriteThrows, Trim, OnlyRequest, evidence
  <2>2. request' = request \/ request'[q].at \notin {"indexing", "done"}
    <3>1. CASE Receive(q) \/ Select(q)
      BY <3>1, Received, Selected
    <3>2. CASE SelectNothing(q) \/ Respond(q) \/ WriteThrows(q) \/ Trim(q)
      BY <3>2, StageReached DEF SelectNothing, Respond, WriteThrows, Trim
    <3>3. CASE Disconnect(q)
      BY <3>3 DEF Disconnect
    <3> QED
      BY <1>4, <3>1, <3>2, <3>3
  <2>3. \A g \in Hosts : BooksInv(g)'
    BY <1>h, <2>1 DEF EvidenceInv, BooksInv
  <2>4. \A g \in Hosts : FilesInv(g)'
    BY <1>o, <2>1, <2>2 DEF EvidenceInv, FilesInv
  <2> QED
    BY <2>3, <2>4 DEF EvidenceInv
<1> QED
  BY <1>1, <1>2, <1>3, <1>4 DEF Handle

(* The books of a host agree with what its clients saw, whatever requests  *)
(* overlap, are configured in between, cut off, or killed with the host.   *)
THEOREM BooksCorrect == Spec => []BooksAgree
<1> DEFINE Books == SequenceInv /\ MemoryInv /\ EvidenceInv
<1>1. Init => Books
  <2> SUFFICES ASSUME Init PROVE Books
    OBVIOUS
  <2>1. \A q \in Requests : request[q].at = "new" /\ request[q].host = None /\ request[q].given = None
    BY DEF Init
  <2>2. SequenceInv
    <3>1. \A q \in Requests, h \in Hosts, state \in States, position \in Positions : ~Has(q, h, state, position)
      BY <2>1, HostsAssumption DEF Has
    <3>2. \A h \in Hosts, position \in Positions : ~(position <= rule[h].invocation)
      BY DEF Init, Positions
    <3> QED
      BY <3>1, <3>2 DEF SequenceInv, GivenIsCounted, CountedIsGiven, GivenOnce, GivenInOrder
  <2>3. MemoryInv
    <3>1. \A h \in Hosts : Len(captured[h]) = 0 /\ Cardinality(Behind(h)) \in Nat
      BY BehindIsFinite DEF Init
    <3> QED
      BY <3>1, HostsAssumption DEF MemoryInv
  <2>4. EvidenceInv
    BY <2>1 DEF Init, EvidenceInv, BooksInv, FilesInv
  <2> QED
    BY <2>2, <2>3, <2>4
<1>2. TypeOK /\ LifeInv /\ Books /\ [Next]_vars => Books'
  <2> SUFFICES ASSUME TypeOK, LifeInv, Books, [Next]_vars PROVE Books'
    OBVIOUS
  <2>1. SequenceInv'
    BY SequenceStep
  <2>2. ASSUME NEW h \in Hosts, Life(h) PROVE MemoryInv' /\ EvidenceInv'
    BY <2>2, MemoryOfHosts, EvidenceOfHosts
  <2>3. ASSUME NEW q \in Requests, Receive(q) \/ Disconnect(q) \/ Handle(q) PROVE MemoryInv' /\ EvidenceInv'
    BY <2>3, MemoryOfRequests, EvidenceOfRequests
  <2>4. ASSUME NEW s \in Stops, Stopping(s) PROVE MemoryInv' /\ EvidenceInv'
    <3>1. UNCHANGED <<captured, files, index, faulty, request>>
      BY <2>4 DEF Stopping, CheckHealth, CheckOwner, Shutdown, ShutdownRefused, OnlyStop, serving, evidence
    <3>2. \A h \in Hosts :
            \/ host'[h] = host[h]
            \/ host[h] \in {"serving", "told"} /\ host'[h] = "told"
      <4>1. CASE UNCHANGED host
        BY <4>1
      <4>2. CASE Shutdown(s)
        <5>1. port \in Hosts => host[port] \in {"serving", "told"}
          BY HostsAssumption DEF LifeInv, PortInv
        <5>2. host' = [host EXCEPT ![port] = "told"] /\ DOMAIN host = Hosts
          BY <4>2 DEF Shutdown, HostGoes, TypeOK
        <5> QED
          BY <5>1, <5>2
      <4> QED
        BY <2>4, <4>1, <4>2 DEF Stopping, CheckHealth, CheckOwner, ShutdownRefused, OnlyStop
    <3>3. \A h \in Hosts : Behind(h)' = Behind(h)
      BY <3>1 DEF Behind
    <3>4. MemoryInv'
      BY <3>1, <3>2, <3>3 DEF MemoryInv
    <3>5. EvidenceInv'
      BY <3>1, <3>2 DEF EvidenceInv, BooksInv, FilesInv
    <3> QED
      BY <3>4, <3>5
  <2>5. CASE UNCHANGED vars
    <3>1. MemoryInv'
      <4>1. UNCHANGED <<host, captured>> /\ \A h \in Hosts : Behind(h)' = Behind(h)
        BY <2>5 DEF vars, Behind
      <4> QED
        BY <4>1 DEF MemoryInv
    <3>2. EvidenceInv'
      BY <2>5 DEF vars, EvidenceInv, BooksInv, FilesInv
    <3> QED
      BY <2>1, <3>1, <3>2
  <2> QED
    BY <2>1, <2>2, <2>3, <2>4, <2>5 DEF Next
<1>3. TypeOK /\ Books => BooksAgree
  <2> SUFFICES ASSUME TypeOK, Books PROVE BooksAgree
    OBVIOUS
  <2>1. SequenceInOrder
    BY SequenceHolds
  <2>2. MemoryBounded
    BY DEF MemoryInv, Behind, MemoryBounded, HostOf
  <2>3. EvidenceComplete
    BY DEF EvidenceInv, BooksInv, FilesInv, EvidenceComplete, HostOf
  <2> QED
    BY <2>1, <2>2, <2>3 DEF BooksAgree
<1> HIDE DEF Books
<1> QED
  BY <1>1, <1>2, <1>3, HostTypeCorrect, PTL DEF Spec
=============================================================================
