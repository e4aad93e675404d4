-------------------------- MODULE MCIntegrationHost --------------------------
(* Small instances of IntegrationHost.                                     *)
EXTENDS IntegrationHost

CONSTANTS h1, h2, h3, s1, q1, q2

ThreeHosts == {h1, h2, h3}
OneStop == {s1}
TwoRequests == {q1, q2}
OneOfAnother == [h \in ThreeHosts |-> IF h = h3 THEN "bonus" ELSE "point-exchange"]
ThatOne == [s \in OneStop |-> "point-exchange"]

-----------------------------------------------------------------------------
(* Who owns the port and how requests are served meet only in the life of  *)
(* a host.  One world has several hosts and no requests; in the others one *)
(* host serves requests until Ctrl+C, or until a stop command, ends it.    *)
VARIABLE world

InWorld ==
  /\ Next
  /\ world = "owners" => ~Receive(q1) /\ ~Receive(q2)
  /\ world # "owners" => UNCHANGED <<host[h2], host[h3]>>
  /\ world = "requests" => ~CheckHealth(s1)
  /\ world = "stopped" => ~Configure(h1) /\ ~ClearRequests(h1)
  /\ UNCHANGED world

everything == <<vars, world>>

WorldInit == Init /\ world \in {"owners", "requests", "stopped"}

WorldSpec == WorldInit /\ [][InWorld]_everything /\ Fairness
=============================================================================
