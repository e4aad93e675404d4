--------------------------- MODULE IntegrationHost ---------------------------
(***************************************************************************)
(* Integration Hosts: processes that stand in for a partner system.  The   *)
(* command line starts them, all on one port, and stops them; who owns the *)
(* host of an integration is written in its current.json.  A host answers  *)
(* requests from the sequence of responses of its rule and keeps evidence  *)
(* of every exchange, in memory and on disk.                               *)
(*                                                                         *)
(* One rule per host is modelled; a configure request replaces its state.  *)
(***************************************************************************)
EXTENDS Naturals, Sequences, FiniteSets, SequencesExt

CONSTANTS
  Hosts,          \* host processes, each started at most once
  IntegrationOf,  \* the integration a host serves
  Stops,          \* runs of the stop command
  Wanted,         \* the integration a stop command is for
  Requests,       \* requests of the system under test
  Responses,      \* the length of the rule's sequence
  MaxExchanges,   \* maxInMemoryExchanges
  MaxConfigures,  \* bound on the configure requests of a host
  None

ASSUME HostsAssumption ==
  /\ Hosts \subseteq DOMAIN IntegrationOf /\ Stops \subseteq DOMAIN Wanted
  /\ Responses \in Nat \ {0} /\ MaxExchanges \in Nat \ {0} /\ MaxConfigures \in Nat
  /\ None \notin Hosts \cup Stops \cup Requests
  /\ None \notin [state : 0 .. MaxConfigures, position : 1 .. Responses]
  /\ IsFiniteSet(Requests)

VARIABLES
  host,      \* where each process stands
  port,      \* the host that listens on the port
  current,   \* current.json of each integration: the host it names
  stop,      \* where each stop command stands, and the host whose health it saw
  stopper,   \* the stop command a host obeyed
  rule,      \* RuleState of each host: which one it is, and its invocation
  request,   \* where each request stands, its host, and what it was given
  aborted,   \* the requests whose client has disconnected
  captured,  \* the exchanges each host has in memory
  files,     \* the exchanges each host has written to disk
  index,     \* the exchanges index.html of each host lists
  faulty     \* the hosts with a LastError

vars == <<host, port, current, stop, stopper, rule, request, aborted, captured, files,
          index, faulty>>
evidence == <<captured, files, index, faulty>>
ownership == <<host, port, current, stop, stopper>>
serving == <<rule, request, aborted>>

Integrations == {IntegrationOf[h] : h \in Hosts}

Given == [state : 0 .. MaxConfigures, position : 1 .. Responses]
InFlight == {"received", "selected", "answered", "trimming", "dequeuing", "kept", "indexing"}

TypeOK ==
  /\ host \in [Hosts -> {"new", "starting", "serving", "told", "draining", "closed",
                         "exited", "left", "killed"}]
  /\ port \in Hosts \cup {None}
  /\ current \in [Integrations -> Hosts \cup {None}]
  /\ stop \in [Stops -> [at : {"new", "healthy", "owner", "posted", "refused"},
                         seen : Hosts \cup {None}]]
  /\ stopper \in [Hosts -> Stops \cup {None}]
  /\ rule \in [Hosts -> [state : 0 .. MaxConfigures, invocation : Nat]]
  /\ request \in [Requests -> [at : {"new", "done", "lost"} \cup InFlight, host : Hosts \cup {None},
                               given : Given \cup {None}, shown : Seq(Requests)]]
  /\ aborted \subseteq Requests
  /\ captured \in [Hosts -> Seq(Requests)]
  /\ files \in [Hosts -> SUBSET Requests]
  /\ index \in [Hosts -> Seq(Requests)]
  /\ faulty \subseteq Hosts

Init ==
  /\ host = [h \in Hosts |-> "new"]
  /\ port = None
  /\ current = [i \in Integrations |-> None]
  /\ stop = [s \in Stops |-> [at |-> "new", seen |-> None]]
  /\ stopper = [h \in Hosts |-> None]
  /\ rule = [h \in Hosts |-> [state |-> 0, invocation |-> 0]]
  /\ request = [q \in Requests |->
                  [at |-> "new", host |-> None, given |-> None, shown |-> <<>>]]
  /\ aborted = {}
  /\ captured = [h \in Hosts |-> <<>>]
  /\ files = [h \in Hosts |-> {}]
  /\ index = [h \in Hosts |-> <<>>]
  /\ faulty = {}
-----------------------------------------------------------------------------
(* The life of a host.                                                     *)

HostGoes(h, state) == host' = [host EXCEPT ![h] = state]
Names(i, owner) == current' = [current EXCEPT ![i] = owner]

(* A process that has ended by itself is "exited" when it removed its      *)
(* current.json, and has "left" when the file stayed.                      *)

(* start: a fresh token, and current.json, before the port is tried.       *)
Start(h) ==
  /\ host[h] = "new"
  /\ HostGoes(h, "starting")
  /\ Names(IntegrationOf[h], h)
  /\ UNCHANGED <<port, stop, stopper, serving, evidence>>

(* current.json cannot be written: it is as before, or can no longer be    *)
(* read, which is as if there were none.                                   *)
StartFails(h) ==
  /\ host[h] = "new"
  /\ HostGoes(h, "left")
  /\ Names(IntegrationOf[h], None) \/ UNCHANGED current
  /\ UNCHANGED <<port, stop, stopper, serving, evidence>>

(* The artifact directory cannot be made, or the console is gone: the      *)
(* process ends before the block whose finally removes current.json.       *)
BreakOff(h) ==
  /\ host[h] = "starting"
  /\ HostGoes(h, "left")
  /\ UNCHANGED <<port, current, stop, stopper, serving, evidence>>

Bind(h) ==
  /\ host[h] = "starting" /\ port = None
  /\ HostGoes(h, "serving")
  /\ port' = h
  /\ UNCHANGED <<current, stop, stopper, serving, evidence>>

(* The port is taken: RunAsync throws, writes its last artifacts, and the  *)
(* finally block of the command line follows.                              *)
BindFails(h) ==
  /\ host[h] = "starting" /\ port # None
  /\ HostGoes(h, "closed")
  /\ UNCHANGED <<port, current, stop, stopper, serving, evidence>>

Listening(h) == port = h /\ host[h] \in {"serving", "told"}

(* Ctrl+C, or the 100 ms after an accepted shutdown: nothing new is        *)
(* accepted any more.                                                      *)
StopApplication(h) ==
  /\ Listening(h)
  /\ HostGoes(h, "draining")
  /\ port' = None
  /\ UNCHANGED <<current, stop, stopper, serving, evidence>>

Busy(h) == \E q \in Requests : request[q].host = h /\ request[q].at \in InFlight

(* RunAsync of the application returns once the requests under way are     *)
(* answered, or their clients cut off (a Disconnect) when that takes too   *)
(* long; session.json and index.html are written a last time.              *)
Close(h) ==
  /\ host[h] = "draining" /\ ~Busy(h)
  /\ HostGoes(h, "closed")
  /\ \/ index' = [index EXCEPT ![h] = captured[h]] /\ UNCHANGED faulty
     \/ faulty' = faulty \cup {h} /\ UNCHANGED index
  /\ UNCHANGED <<port, current, stop, stopper, serving, captured, files>>

(* The finally block deletes current.json, whoever it names; TryDelete     *)
(* says nothing when it cannot.                                            *)
Exit(h) ==
  /\ host[h] = "closed"
  /\ \/ HostGoes(h, "exited") /\ Names(IntegrationOf[h], None)
     \/ HostGoes(h, "left") /\ UNCHANGED current
  /\ UNCHANGED <<port, stop, stopper, serving, evidence>>

(* The process is killed, and its requests die with it.                    *)
Kill(h) ==
  /\ host[h] \notin {"new", "exited", "left", "killed"}
  /\ HostGoes(h, "killed")
  /\ port' = IF port = h THEN None ELSE port
  /\ request' = [q \in Requests |->
                   IF request[q].host = h /\ request[q].at \in InFlight
                     THEN [request[q] EXCEPT !.at = "lost"] ELSE request[q]]
  /\ UNCHANGED <<current, stop, stopper, rule, aborted, evidence>>
-----------------------------------------------------------------------------
(* The stop command.                                                       *)

StopGoes(s, stage) == stop' = [stop EXCEPT ![s].at = stage]
OnlyStop == UNCHANGED <<host, port, current, stopper, serving, evidence>>

(* GET /__autotest/health of whoever listens; nobody, or the host of       *)
(* another integration, ends the command.                                  *)
CheckHealth(s) ==
  /\ stop[s].at = "new"
  /\ IF port # None /\ IntegrationOf[port] = Wanted[s]
       THEN stop' = [stop EXCEPT ![s] = [at |-> "healthy", seen |-> port]]
       ELSE StopGoes(s, "refused")
  /\ OnlyStop

(* The token in current.json must be that of the host seen.                *)
CheckOwner(s) ==
  /\ stop[s].at = "healthy"
  /\ StopGoes(s, IF current[Wanted[s]] = stop[s].seen THEN "owner" ELSE "refused")
  /\ OnlyStop

(* Mutant: the host does not look at the token.                            *)
ShutdownUnchecked(s) ==
  /\ stop[s].at = "owner" /\ port # None
  /\ StopGoes(s, "posted")
  /\ stopper' = [stopper EXCEPT ![port] = IF @ = None THEN s ELSE @]
  /\ HostGoes(port, "told")
  /\ UNCHANGED <<port, current, serving, evidence>>

(* Mutant: the shutdown is acknowledged and then forgotten.                *)
ShutdownForgotten(s) ==
  /\ stop[s].at = "owner" /\ port = stop[s].seen
  /\ StopGoes(s, "posted")
  /\ stopper' = [stopper EXCEPT ![port] = IF @ = None THEN s ELSE @]
  /\ UNCHANGED <<host, port, current, serving, evidence>>

(* POST /__autotest/shutdown reaches whoever listens now; a host obeys     *)
(* only its own token.                                                     *)
Shutdown(s) ==
  /\ stop[s].at = "owner" /\ port = stop[s].seen
  /\ StopGoes(s, "posted")
  /\ stopper' = [stopper EXCEPT ![port] = IF @ = None THEN s ELSE @]
  /\ HostGoes(port, "told")
  /\ UNCHANGED <<port, current, serving, evidence>>

(* 409 from the host of another start, or nobody listens any more.         *)
ShutdownRefused(s) ==
  /\ stop[s].at = "owner" /\ port # stop[s].seen
  /\ StopGoes(s, "refused")
  /\ OnlyStop
-----------------------------------------------------------------------------
(* Serving a request.                                                      *)

RequestGoes(q, stage) == request' = [request EXCEPT ![q].at = stage]
HostOf(q) == request[q].host
OnlyRequest == UNCHANGED <<ownership, rule, aborted, evidence>>

Receive(q) ==
  /\ request[q].at = "new" /\ port # None
  /\ request' = [request EXCEPT ![q].at = "received", ![q].host = port]
  /\ OnlyRequest

Disconnect(q) ==
  /\ request[q].at \in {"received", "selected"} /\ q \notin aborted
  /\ aborted' = aborted \cup {q}
  /\ UNCHANGED <<ownership, rule, request, evidence>>

(* PUT /__autotest/configure: a new RuleState.                             *)
Configure(h) ==
  /\ Listening(h) /\ rule[h].state < MaxConfigures
  /\ rule' = [rule EXCEPT ![h] = [state |-> @.state + 1, invocation |-> 0]]
  /\ UNCHANGED <<ownership, request, aborted, evidence>>

Smaller(a, b) == IF a < b THEN a ELSE b

(* Mutant: a use of the rule is not counted if its client is gone.         *)
SelectUncounted(q) ==
  /\ request[q].at = "received"
  /\ LET h == HostOf(q)
         position == Smaller(rule[h].invocation + 1, Responses)
     IN  /\ request' = [request EXCEPT ![q].at = "selected",
                          ![q].given = [state |-> rule[h].state, position |-> position]]
         /\ rule' = IF q \in aborted THEN rule
                    ELSE [rule EXCEPT ![h].invocation = @ + 1]
  /\ UNCHANGED <<ownership, aborted, evidence>>

(* A rule matches: its invocation is counted, and the response at that     *)
(* position taken, the last one again and again when they are used up.     *)
Select(q) ==
  /\ request[q].at = "received"
  /\ LET h == HostOf(q)
         position == Smaller(rule[h].invocation + 1, Responses)
     IN  /\ request' = [request EXCEPT ![q].at = "selected",
                          ![q].given = [state |-> rule[h].state, position |-> position]]
         /\ rule' = [rule EXCEPT ![h].invocation = @ + 1]
  /\ UNCHANGED <<ownership, aborted, evidence>>

(* No rule matches (404), the body is too large (413), or the client       *)
(* disconnects while the body is read (499).                               *)
SelectNothing(q) ==
  /\ request[q].at = "received"
  /\ RequestGoes(q, "selected")
  /\ OnlyRequest

(* The delay is over, or cut short by the client's disconnecting (499);     *)
(* only a client that is still there is written to.                        *)
Respond(q) ==
  /\ request[q].at = "selected"
  /\ RequestGoes(q, "answered")
  /\ OnlyRequest

(* The client disconnects during the write: it throws, and nothing is      *)
(* recorded.                                                               *)
WriteThrows(q) ==
  /\ request[q].at = "selected" /\ q \in aborted
  /\ RequestGoes(q, "lost")
  /\ OnlyRequest

Capture(q) ==
  /\ request[q].at = "answered"
  /\ RequestGoes(q, "trimming")
  /\ captured' = [captured EXCEPT ![HostOf(q)] = Append(@, q)]
  /\ UNCHANGED <<ownership, rule, aborted, files, index, faulty>>

(* while (captured.Count > MaxInMemoryExchanges) captured.TryDequeue: the  *)
(* count and the removal are two steps, other requests in between.         *)
Trim(q) ==
  /\ request[q].at = "trimming"
  /\ RequestGoes(q, IF Len(captured[HostOf(q)]) > MaxExchanges THEN "dequeuing" ELSE "kept")
  /\ OnlyRequest

Dequeue(q) ==
  /\ request[q].at = "dequeuing"
  /\ RequestGoes(q, "trimming")
  /\ captured' = [captured EXCEPT ![HostOf(q)] = IF @ = <<>> THEN @ ELSE Tail(@)]
  /\ UNCHANGED <<ownership, rule, aborted, files, index, faulty>>

(* DELETE /__autotest/requests.                                            *)
ClearRequests(h) ==
  /\ Listening(h) /\ captured[h] # <<>>
  /\ captured' = [captured EXCEPT ![h] = <<>>]
  /\ UNCHANGED <<ownership, serving, files, index, faulty>>

(* The files of the exchange are written, or the error is remembered; then *)
(* the exchanges in memory are listed for the index.                       *)
Persist(q) ==
  /\ request[q].at = "kept"
  /\ LET h == HostOf(q)
     IN  /\ request' = [request EXCEPT ![q].at = "indexing", ![q].shown = captured[h]]
         /\ \/ files' = [files EXCEPT ![h] = @ \cup {q}] /\ UNCHANGED faulty
            \/ faulty' = faulty \cup {h} /\ UNCHANGED files
  /\ UNCHANGED <<ownership, rule, aborted, captured, index>>

(* index.html is written without the gate, in any order.                   *)
WriteIndex(q) ==
  /\ request[q].at = "indexing"
  /\ LET h == HostOf(q)
     IN  \/ index' = [index EXCEPT ![h] = request[q].shown] /\ UNCHANGED faulty
         \/ faulty' = faulty \cup {h} /\ UNCHANGED index
  /\ request' = [request EXCEPT ![q].at = "done", ![q].shown = <<>>]
  /\ UNCHANGED <<ownership, rule, aborted, captured, files>>
-----------------------------------------------------------------------------
Life(h) ==
  \/ Start(h) \/ StartFails(h) \/ BreakOff(h) \/ Bind(h) \/ BindFails(h) \/ StopApplication(h)
  \/ Close(h) \/ Exit(h) \/ Kill(h) \/ Configure(h) \/ ClearRequests(h)

Stopping(s) == CheckHealth(s) \/ CheckOwner(s) \/ Shutdown(s) \/ ShutdownRefused(s)

Handle(q) ==
  \/ Select(q) \/ SelectNothing(q) \/ Respond(q) \/ WriteThrows(q)
  \/ Capture(q) \/ Trim(q) \/ Dequeue(q) \/ Persist(q) \/ WriteIndex(q)

Next ==
  \/ \E h \in Hosts : Life(h)
  \/ \E s \in Stops : Stopping(s)
  \/ \E q \in Requests : Receive(q) \/ Disconnect(q) \/ Handle(q)

Spec == Init /\ [][Next]_vars

(* Threads run on, the application that was told to stop stops, and its    *)
(* requests come to their end (a delay is at most five minutes).           *)
Fairness ==
  /\ \A h \in Hosts :
       WF_vars(Close(h) \/ Exit(h) \/ (host[h] = "told" /\ StopApplication(h)))
  /\ \A q \in Requests : WF_vars(Handle(q))

FairSpec == Spec /\ Fairness
-----------------------------------------------------------------------------
(* Properties.                                                             *)

(* A stop command never stops another process than the one it saw on the   *)
(* port, and only one of the integration it was asked to stop, however     *)
(* hosts come and go meanwhile.                                            *)
NoWrongStop ==
  \A h \in Hosts :
    stopper[h] # None => stop[stopper[h]].seen = h /\ Wanted[stopper[h]] = IntegrationOf[h]

(* A stop command that reports success has told its host, which serves no  *)
(* longer or is about to end.                                              *)
Ending == {"told", "draining", "closed", "exited", "left", "killed"}
PostedIsTold == \A s \in Stops : stop[s].at = "posted" => host[stop[s].seen] \in Ending

(* What current.json names once a host has removed it is another host: a   *)
(* token comes back through no order of starts and ends.  A host that was  *)
(* killed, broke off or could not remove the file may stay named; NoWrongStop *)
(* says that its token stops nobody.                                       *)
RemovedStaysRemoved == \A i \in Integrations : current[i] # None => host[current[i]] # "exited"

(* A stop command stops the host it was meant for, and nobody else, with   *)
(* current.json as the starts and ends of all hosts left it.               *)
StopFindsItsHost == NoWrongStop /\ PostedIsTold /\ RemovedStaysRemoved

(* The responses of a sequence are given in order, each but the last once, *)
(* whatever requests overlap: a position is given only after the one       *)
(* before it, and not twice.                                               *)
UsersOf(h, given) == {q \in Requests : request[q].host = h /\ request[q].given = given}

SequenceInOrder ==
  \A h \in Hosts : \A state \in 0 .. MaxConfigures : \A position \in 1 .. Responses :
    LET users == UsersOf(h, [state |-> state, position |-> position])
    IN  /\ position < Responses => Cardinality(users) <= 1
        /\ position > 1 /\ users # {} =>
             UsersOf(h, [state |-> state, position |-> position - 1]) # {}

(* No more than maxInMemoryExchanges stay in memory: a longer queue has a  *)
(* request behind it that still shortens it.                               *)
MemoryBounded ==
  \A h \in Hosts :
    host[h] # "killed" =>
      Len(captured[h]) <=
        MaxExchanges
          + Cardinality({q \in Requests : HostOf(q) = h
                                          /\ request[q].at \in {"trimming", "dequeuing"}})

(* A host that has ended leaves its evidence complete: every exchange that *)
(* came to its end is on disk, and the index lists what was in memory,     *)
(* unless an artifact could not be written.                                *)
EvidenceComplete ==
  \A h \in Hosts :
    host[h] \in {"exited", "left"} /\ h \notin faulty =>
      /\ index[h] = captured[h]
      /\ \A q \in Requests : HostOf(q) = h /\ request[q].at = "done" => q \in files[h]

(* The books of a host agree with what its clients saw.                    *)
BooksAgree == SequenceInOrder /\ MemoryBounded /\ EvidenceComplete

(* A host that has obeyed a stop command ends.                             *)
StopEnds == \A h \in Hosts : stopper[h] # None ~> host[h] \in {"exited", "left", "killed"}
=============================================================================
