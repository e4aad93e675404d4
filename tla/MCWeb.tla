-------------------------------- MODULE MCWeb --------------------------------
(* Small instances of WebTools: the suites, contracts and plans of its     *)
(* components.                                                             *)
EXTENDS WebTools

(* Suites with every kind of step, alone and next to another one, in       *)
(* chains and in cases that run side by side.                              *)

StepOf(requests, retry, save) == [requests |-> requests, retry |-> retry, save |-> save]
Plain == StepOf(<<"open">>, FALSE, <<>>)
Creating == StepOf(<<"auth">>, FALSE, <<"id">>)
Polling == StepOf(<<"open">>, TRUE, <<"id", "key">>)
PollingWithLogin == StepOf(<<"auth">>, TRUE, <<"id">>)
Together == StepOf(<<"auth", "own", "auth">>, FALSE, <<>>)
Pair == StepOf(<<"auth", "auth">>, FALSE, <<>>)
SigningIn == StepOf(<<"open">>, FALSE, <<"authToken">>)
Refused == StepOf(<<"auth", "auth">>, TRUE, <<>>)

CaseOf(list) == [blocked |-> FALSE, steps |-> list]
Blocked == [blocked |-> TRUE, steps |-> <<Plain>>]

SmallSuites ==
  { <<CaseOf(<<Polling, Plain>>), CaseOf(<<Creating>>)>>,
    <<CaseOf(<<Together, Creating>>)>>,
    <<CaseOf(<<PollingWithLogin, Pair>>)>>,
    <<CaseOf(<<SigningIn, Pair>>), CaseOf(<<Pair>>)>>,
    <<CaseOf(<<Creating>>), CaseOf(<<Pair>>), CaseOf(<<Creating>>)>>,
    <<CaseOf(<<Plain>>), Blocked, CaseOf(<<>>)>>,
    <<CaseOf(<<Plain, Refused>>), CaseOf(<<Plain>>)>> }

(* Two projects that both have the test case t1; one set of endpoints.     *)
TwoProjects == [p |-> {{"t1", "t2"}, {"t2"}}, q |-> {{"t1"}}]
OneSource == [source |-> {"e1"}]

(* Two operations, each labelled with the id of the other; in the second   *)
(* contract the number has another type.  The server's contract marks no   *)
(* field as sensitive; one is a header for a credential.                   *)
Field(id, type) == [id |-> id, type |-> type, sensitive |-> FALSE, credential |-> id = "authorization"]
Operation(label, req, res) == [label |-> label, req |-> req, res |-> res]
TwoContracts ==
  [old |->
    [create |-> Operation("get", {Field("authorization", "string")},
                          {Field("id", "int"), Field("token", "string")}),
     get |-> Operation("create", {Field("id", "int")}, {})],
   new |->
    [get |-> Operation("create", {Field("id", "decimal")}, {})]]

(* Two parallel edges and one of their reverse.                            *)
ThereAndBack == [request |-> <<"n1", "n2">>, retry |-> <<"n1", "n2">>, response |-> <<"n2", "n1">>]

(* Two MQTT steps that follow each other or are sent together, on topics of *)
(* their own or on one, over one connection or two.                        *)
Doing(action, topic, identity) == [action |-> action, topic |-> topic, identity |-> identity]
TwoPlans ==
  {<<Doing("roundtrip", "x", "i"), Doing("subscribe", "y", "i")>>,
   <<Doing("subscribe", "x", "i"), Doing("publish", "x", "j")>>}

(* Two requests to one path and one to another.                            *)
TwoPaths == <<"a", "a", "b">>

(* Two steps of one consumer or two, looking for the same entry or not.    *)
Looking(wants, acks, consumer) == [wants |-> wants, acks |-> acks, consumer |-> consumer]
TwoReadings ==
  {<<Looking("e", TRUE, "c"), Looking("e", TRUE, "c")>>,
   <<Looking("e", TRUE, "c"), Looking("f", FALSE, "c")>>,
   <<Looking("e", FALSE, "c"), Looking("e", FALSE, "d")>>}
=============================================================================
