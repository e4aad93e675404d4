---------------------------- MODULE RedisStream ----------------------------
(***************************************************************************)
(* Steps that read a Redis stream with a consumer group until an entry     *)
(* matches their filter (xreadgroup).  A read hands a batch of entries to  *)
(* the consumer; entries of it that are not acknowledged stay pending.  A  *)
(* command may fail before Redis carries it out or after; the step fails.  *)
(***************************************************************************)
EXTENDS Naturals, Sequences, FiniteSets

CONSTANTS
  Steps,
  Plans,     \* what the steps may look for: functions to [wants, acks, consumer]
  Entries,   \* the contents an entry may have
  Broken,    \* the one that is no JSON
  MaxLength, \* bound on the stream
  Count,     \* how many entries a read asks for
  None

StreamAssumption == Count \in Nat /\ None \notin Nat

VARIABLES
  plan,
  stream,    \* the entries added so far
  group,     \* last delivered entry of the group, None before it is created
  unacked,   \* the entries delivered and not acknowledged, with their consumer
  silent,    \* those whose acknowledgement was carried out, and the answer lost
  pc,        \* where each step is
  batch,     \* the entries a step has read and not yet looked at
  found      \* the entry a step returned

redis == <<stream, group, unacked, silent>>
vars == <<plan, redis, pc, batch, found>>

Go(s, place) == pc' = [pc EXCEPT ![s] = place]

Init ==
  /\ plan \in Plans
  /\ stream = <<>> /\ group = None /\ unacked = {} /\ silent = {}
  /\ pc = [s \in Steps |-> "idle"]
  /\ batch = [s \in Steps |-> <<>>]
  /\ found = [s \in Steps |-> None]

(* An xadd step, or the program under test.                                *)
Add(e) ==
  /\ Len(stream) < MaxLength
  /\ stream' = Append(stream, e)
  /\ UNCHANGED <<plan, group, unacked, silent, pc, batch, found>>

(* EnsureConsumerGroupAsync: only the step that creates the group begins   *)
(* at the start id.                                                        *)
EnsureGroup(s) ==
  /\ pc[s] = "idle"
  /\ group' = IF group = None THEN 0 ELSE group
  /\ Go(s, IF group = None THEN "history" ELSE "new")
  /\ UNCHANGED <<plan, stream, unacked, silent, batch, found>>

(* The connection or the command fails; the group may be there then.       *)
EnsureFails(s) ==
  /\ pc[s] = "idle"
  /\ group' \in {group, IF group = None THEN 0 ELSE group}
  /\ Go(s, "ended")
  /\ UNCHANGED <<plan, stream, unacked, silent, batch, found>>

Least(n, m) == IF n < m THEN n ELSE m

(* With an id Redis gives what the consumer has not acknowledged, in order *)
(* and from the first on, with ">" what no consumer of the group was given *)
(* yet.                                                                    *)
ReadHistory(s) ==
  /\ pc[s] = "history"
  /\ LET own == {i \in 1 .. Len(stream) : <<i, plan[s].consumer>> \in unacked}
     IN  \E first \in [1 .. Least(Count, Cardinality(own)) -> own] :
           /\ \A k \in DOMAIN first : {i \in own : i < first[k]} = {first[j] : j \in 1 .. k - 1}
           /\ batch' = [batch EXCEPT ![s] = first]
  /\ Go(s, "matching")
  /\ UNCHANGED <<plan, redis, found>>

Last == Least(group + Count, Len(stream))
Deliver(s) ==
  /\ group' = Last
  /\ unacked' = unacked \cup {<<i, plan[s].consumer>> : i \in group + 1 .. Last}

ReadNew(s) ==
  /\ pc[s] = "new"
  /\ Deliver(s)
  /\ batch' = [batch EXCEPT ![s] = [i \in 1 .. Last - group |-> group + i]]
  /\ Go(s, "matching")
  /\ UNCHANGED <<plan, stream, silent, found>>

(* A read fails; what it would have given may be the consumer's by then.   *)
ReadFails(s) ==
  /\ pc[s] \in {"history", "new"}
  /\ UNCHANGED <<group, unacked>> \/ (pc[s] = "new" /\ Deliver(s))
  /\ Go(s, "ended")
  /\ UNCHANGED <<plan, stream, silent, batch, found>>

Matches(s, i) == stream[i] = plan[s].wants
Unreadable(i) == stream[i] = Broken

(* The entries of a batch before one that matches are passed over.         *)
Skip(s) ==
  /\ pc[s] = "matching" /\ batch[s] # <<>>
  /\ ~Matches(s, Head(batch[s])) /\ ~Unreadable(Head(batch[s]))
  /\ batch' = [batch EXCEPT ![s] = Tail(@)]
  /\ UNCHANGED <<plan, redis, pc, found>>

Acknowledged(s) == IF plan[s].acks THEN {<<Head(batch[s]), plan[s].consumer>>} ELSE {}

(* The rest of the batch stays with the consumer, and no step asks again.  *)
Return(s) ==
  /\ pc[s] = "matching" /\ batch[s] # <<>> /\ Matches(s, Head(batch[s]))
  /\ unacked' = unacked \ Acknowledged(s)
  /\ found' = [found EXCEPT ![s] = Head(batch[s])]
  /\ batch' = [batch EXCEPT ![s] = <<>>]
  /\ Go(s, "ended")
  /\ UNCHANGED <<plan, stream, group, silent>>

(* StreamAcknowledgeAsync throws, with the entry acknowledged or not.      *)
AcknowledgeFails(s) ==
  /\ pc[s] = "matching" /\ batch[s] # <<>> /\ Matches(s, Head(batch[s])) /\ plan[s].acks
  /\ \/ UNCHANGED <<unacked, silent>>
     \/ unacked' = unacked \ Acknowledged(s) /\ silent' = silent \cup {Head(batch[s])}
  /\ batch' = [batch EXCEPT ![s] = <<>>]
  /\ Go(s, "ended")
  /\ UNCHANGED <<plan, stream, group, found>>

(* JsonDocument.Parse throws.                                              *)
Fail(s) ==
  /\ pc[s] = "matching" /\ batch[s] # <<>> /\ Unreadable(Head(batch[s]))
  /\ batch' = [batch EXCEPT ![s] = <<>>]
  /\ Go(s, "ended")
  /\ UNCHANGED <<plan, redis, found>>

Again(s) ==
  /\ pc[s] = "matching" /\ batch[s] = <<>>
  /\ Go(s, "new")
  /\ UNCHANGED <<plan, redis, batch, found>>

TimeOut(s) ==
  /\ pc[s] = "matching" /\ batch[s] = <<>>
  /\ Go(s, "ended")
  /\ UNCHANGED <<plan, redis, batch, found>>

Next ==
  \/ \E e \in Entries : Add(e)
  \/ \E s \in Steps :
       \/ EnsureGroup(s) \/ EnsureFails(s) \/ ReadHistory(s) \/ ReadNew(s) \/ ReadFails(s)
       \/ Skip(s) \/ Return(s) \/ AcknowledgeFails(s) \/ Fail(s) \/ Again(s) \/ TimeOut(s)

Spec == Init /\ [][Next]_vars
-----------------------------------------------------------------------------
(* Steps of different consumers never return the same entry, also when     *)
(* they read at once, whether or not they acknowledge and whichever        *)
(* command fails; a consumer may give one twice, to the step that made the *)
(* group and to another one.  What was delivered is pending until a step   *)
(* returned and acknowledged it, or failed to hear that it had done so.    *)
EntryGivenOnce ==
  /\ \A s, t \in Steps : s # t /\ found[s] # None /\ found[s] = found[t] =>
       plan[s].consumer = plan[t].consumer
  /\ group # None => \A i \in 1 .. group :
       \/ \E u \in unacked : u[1] = i
       \/ \E s \in Steps : found[s] = i /\ plan[s].acks
       \/ i \in silent
=============================================================================
