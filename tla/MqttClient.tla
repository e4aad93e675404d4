----------------------------- MODULE MqttClient -----------------------------
(***************************************************************************)
(* The MQTT client all steps of an engine share.  A subscribe or roundtrip *)
(* step puts a promise into one field of the client, the callback of       *)
(* received messages fulfils whichever promise is in the field, and the    *)
(* step waits for the one that is there when it looks again.               *)
(***************************************************************************)
EXTENDS Naturals, FiniteSets

CONSTANTS
  Steps,
  Plans,   \* what the steps may do: sets of functions to [action, topic, identity]
  Topics,
  None

VARIABLES
  plan,        \* what each step does
  overlap,     \* are the steps sent together (concurrentRequests)?
  pc,          \* where each step is
  pending,     \* pendingMessage: the step whose promise is in the field
  promise,     \* the message that fulfilled the promise of a step
  aim,         \* the promise a step waits for
  connection,  \* connectionIdentity of the open connection, None when closed
  subscribed,  \* the topics the broker has for it
  strays,      \* those of them whose step ended before the broker's answer
  mail,        \* the messages on their way to it, and the steps they were sent during
  peers,       \* the topics some other client is still to publish to
  got          \* the message a step returned

step == <<pc, aim, got>>
link == <<connection, subscribed, strays, mail>>
vars == <<plan, overlap, step, pending, promise, link, peers>>

Topic(s) == plan[s].topic
Ended(s) == pc[s] \in {"passed", "failed"}
Running == {s \in Steps : pc[s] # "idle" /\ ~Ended(s)}

Message(t, by) ==
  [topic |-> t, by |-> by, stray |-> t \in strays, during |-> IF overlap THEN {} ELSE Running]
Waits(s) == plan[s].action # "publish"
At(s, place) == pc[s] = place
Go(s, place) == pc' = [pc EXCEPT ![s] = place]

Init ==
  /\ plan \in Plans /\ overlap \in BOOLEAN
  /\ pc = [s \in Steps |-> "idle"]
  /\ pending = None
  /\ promise = [s \in Steps |-> None] /\ aim = [s \in Steps |-> None] /\ got = [s \in Steps |-> None]
  /\ connection = None /\ subscribed = {} /\ strays = {} /\ mail = {}
  /\ peers = Topics
-----------------------------------------------------------------------------
Closed == subscribed' = {} /\ strays' = {} /\ mail' = {}

(* ConnectAsync, which keeps an open connection of the same identity and   *)
(* otherwise makes one with a clean session.                               *)
Connected(s) ==
  IF connection = plan[s].identity THEN UNCHANGED link
  ELSE connection' = plan[s].identity /\ Closed

MayBegin(s) == At(s, "idle") /\ (overlap \/ Running = {})

Connect(s) ==
  /\ MayBegin(s)
  /\ Connected(s)
  /\ Go(s, IF Waits(s) THEN "promising" ELSE "publishing")
  /\ UNCHANGED <<plan, overlap, aim, got, pending, promise, peers>>

(* The broker refuses, or is gone: the old connection is closed by then.   *)
Refuse(s) ==
  /\ MayBegin(s) \/ At(s, "connecting")
  /\ connection # plan[s].identity
  /\ connection' = None /\ Closed
  /\ Go(s, IF At(s, "idle") THEN "failed" ELSE "leaving")
  /\ UNCHANGED <<plan, overlap, aim, got, pending, promise, peers>>

MakePromise(s) ==
  /\ At(s, "promising")
  /\ pending' = s
  /\ Go(s, "subscribing")
  /\ UNCHANGED <<plan, overlap, aim, got, promise, link, peers>>

(* SubscribeAsync; what it throws is not caught by the step, and the       *)
(* promise stays in the field.  It throws when the connection is gone or   *)
(* the broker does not answer, which may have taken the topic; one that    *)
(* answers may also have refused it, which the step does not look at.      *)
Subscribe(s) ==
  /\ At(s, "subscribing")
  /\ \E taken, answered \in IF connection = None THEN {FALSE} ELSE BOOLEAN :
       /\ subscribed' = IF taken THEN subscribed \cup {Topic(s)} ELSE subscribed
       /\ strays' = IF taken /\ ~answered THEN strays \cup {Topic(s)} ELSE strays
       /\ Go(s, IF ~answered THEN "failed"
                ELSE IF plan[s].action = "roundtrip" THEN "connecting" ELSE "looking")
  /\ UNCHANGED <<plan, overlap, aim, got, pending, promise, connection, mail, peers>>

(* PublishAsync connects once more.                                        *)
Reconnect(s) ==
  /\ At(s, "connecting")
  /\ Connected(s)
  /\ Go(s, "publishing")
  /\ UNCHANGED <<plan, overlap, aim, got, pending, promise, peers>>

(* Here too the broker may have taken the message and not answer.          *)
Publish(s) ==
  /\ At(s, "publishing")
  /\ \E taken, answered \in IF connection = None THEN {FALSE} ELSE BOOLEAN :
       /\ mail' = IF taken /\ Topic(s) \in subscribed
                  THEN mail \cup {Message(Topic(s), s)} ELSE mail
       /\ Go(s, IF ~Waits(s) THEN (IF answered THEN "passed" ELSE "failed")
                ELSE IF answered THEN "looking" ELSE "leaving")
  /\ UNCHANGED <<plan, overlap, aim, got, pending, promise, connection, subscribed, strays, peers>>

(* The field is read anew: it may be empty by now.                         *)
Look(s) ==
  /\ At(s, "looking")
  /\ aim' = [aim EXCEPT ![s] = pending]
  /\ Go(s, IF pending = None THEN "leaving" ELSE "waiting")
  /\ UNCHANGED <<plan, overlap, got, pending, promise, link, peers>>

Got(s) ==
  /\ At(s, "waiting") /\ promise[aim[s]] # None
  /\ got' = [got EXCEPT ![s] = promise[aim[s]]]
  /\ Go(s, "leaving")
  /\ UNCHANGED <<plan, overlap, aim, pending, promise, link, peers>>

TimeOut(s) ==
  /\ At(s, "waiting") /\ promise[aim[s]] = None
  /\ Go(s, "leaving")
  /\ UNCHANGED <<plan, overlap, aim, got, pending, promise, link, peers>>

(* The finally block.                                                      *)

Leave(s) ==
  /\ At(s, "leaving")
  /\ pending' = None
  /\ Go(s, "unsubscribing")
  /\ UNCHANGED <<plan, overlap, aim, got, promise, link, peers>>

(* Messages that are on their way may still come after it.  It is left out *)
(* when the connection is gone; when it throws, the step fails although it *)
(* had its message, and the topic may be taken off or not.                 *)
Unsubscribe(s) ==
  /\ At(s, "unsubscribing")
  /\ \E answered, taken \in IF connection = None THEN {TRUE} ELSE BOOLEAN :
       /\ answered => taken
       /\ subscribed' = IF taken THEN subscribed \ {Topic(s)} ELSE subscribed
       /\ strays' = IF taken THEN strays \ {Topic(s)} ELSE strays \cup (subscribed \cap {Topic(s)})
       /\ got' = IF answered THEN got ELSE [got EXCEPT ![s] = None]
       /\ Go(s, IF got'[s] = None THEN "failed" ELSE "passed")
  /\ UNCHANGED <<plan, overlap, aim, pending, promise, connection, mail, peers>>
-----------------------------------------------------------------------------
(* The callback of received messages, and the world outside.               *)

Received ==
  \E m \in mail :
    /\ mail' = mail \ {m}
    /\ promise' = IF pending # None /\ promise[pending] = None
                  THEN [promise EXCEPT ![pending] = m] ELSE promise
    /\ UNCHANGED <<plan, overlap, step, pending, connection, subscribed, strays, peers>>

PeerPublishes(t) ==
  /\ t \in peers
  /\ peers' = peers \ {t}
  /\ mail' = IF t \in subscribed THEN mail \cup {Message(t, None)} ELSE mail
  /\ UNCHANGED <<plan, overlap, step, pending, promise, connection, subscribed, strays>>

Disconnect ==
  /\ connection # None
  /\ connection' = None /\ Closed
  /\ UNCHANGED <<plan, overlap, step, pending, promise, peers>>
-----------------------------------------------------------------------------
Step(s) ==
  \/ Connect(s) \/ Refuse(s) \/ MakePromise(s) \/ Subscribe(s) \/ Reconnect(s) \/ Publish(s)
  \/ Look(s) \/ Got(s) \/ TimeOut(s) \/ Leave(s) \/ Unsubscribe(s)

Next == Received \/ Disconnect \/ (\E s \in Steps : Step(s)) \/ \E t \in Topics : PeerPublishes(t)

Spec == Init /\ [][Next]_vars
-----------------------------------------------------------------------------
(* Properties.                                                             *)

(* Of steps that follow each other, one returns a message of another topic *)
(* than its own only if that was on its way when the step began, or its    *)
(* topic was left subscribed by a step that ended without the broker's     *)
(* answer, on the same connection: what an earlier step asked for it does  *)
(* not get otherwise, whatever others publish, whenever steps time out and *)
(* the connection is lost or made anew.                                    *)
OwnMessage ==
  ~overlap => \A s \in Steps : got[s] # None =>
    got[s].topic = Topic(s) \/ got[s].stray \/ s \notin got[s].during

(* Every step ends, also when steps take each other's promise away.        *)
AllEnded == \A s \in Steps : Ended(s)
=============================================================================
