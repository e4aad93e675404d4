-------------------------- MODULE MCWorkspaceStore --------------------------
(* Instances of WorkspaceStore for TLC.                                     *)
EXTENDS WorkspaceStore, TLC

CONSTANTS c1, c2, e1, e2

TwoClients == {c1, c2}
TwoEdits   == {e1, e2}
OneInvalid == {e1}
OneBlind   == {c1}
Nobody     == {}

-----------------------------------------------------------------------------
(* Revision numbers are used again only if workspaces expire and somebody  *)
(* saves without an expectedRevision.  In most worlds at most one of the   *)
(* two happens.                                                            *)
VARIABLE world

InWorld ==
  /\ Next
  /\ world = "expiring" => \A c \in Clients : ~BlindSave(c)
  /\ world = "blind" => ~Expire
  /\ UNCHANGED world

everything == <<vars, world>>

NoReuseInit == Init /\ world \in {"expiring", "blind"}
ReuseInit == Init /\ world = "both"

NoReuseSpec == NoReuseInit /\ [][InWorld]_everything /\ Fairness
ReuseSpec == ReuseInit /\ [][InWorld]_everything
=============================================================================
