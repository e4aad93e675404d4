------------------------------ MODULE WebTools ------------------------------
(***************************************************************************)
(* The tools around a run: the engine that runs the cases, the server's    *)
(* books of a run, the pickers of the panels, the API Builder editor, the  *)
(* workbook upload, the delivery of diagrams, and the clients the steps of *)
(* a case share: MQTT, the HTTP stub and Redis.  They have no state in     *)
(* common.  A behaviour picks one of them, its world, and lets it run      *)
(* alone; the variables of the others stay None.  A constant or variable   *)
(* has its module's name, or one of its own where two modules use a name.  *)
(***************************************************************************)
EXTENDS Integers, Sequences, FiniteSets

CONSTANTS
  Worlds,   \* the worlds to look at
  None,
  Suites, Modes, Names, MaxParallel, MaxAttempts,      \* CaseRunner
  Runs,                                                \* RunLifecycle
  Files, Loads, Endpoints,                             \* Pickers, with Projects
  Contracts, Variables, Forbidden, MaxSteps,           \* ApiEditor
  Uploads, Cases, Projects, Generations,               \* WorkbookUpload
  Nodes, Edges, Ends, MaximumRepairs,                  \* DiagramDelivery
  MqttSteps, Plans, Topics,                             \* MqttClient
  Requests, Target, MaxActions,                        \* HttpStub
  Readers, Readings, Entries, Broken, MaxLength, Count \* RedisStream

VARIABLES
  world,
  suite, mode, status, step, stage, attempt, expired, task, token, vars, shared, rows,
  answered, logins, exit,                                               \* CaseRunner
  runStatus, process, code, report, history, known, refused,            \* RunLifecycle
  files, shownProject, tests, picked, load, endpointAnalysis, analyzed, chosen, \* Pickers
  contract, fingerprint, steps, variables, bindings,                    \* ApiEditor
  project, uploadId, listed, selected, locked, analysis, generation, stored, directories,
  strayed,                                                              \* WorkbookUpload
  at, rounds, first, origin, spec, button,                              \* DiagramDelivery
  plan, overlap, pc, pending, promise, aim, connection, subscribed, strays, mail, peers, got, \* MqttClient
  running, rules, captured, place, inspect, stopping, cleared, actions, \* HttpStub
  reading, stream, group, unacked, silent, reader, batch, found                 \* RedisStream

runnerVars == <<suite, mode, status, step, stage, attempt, expired, task, token, vars, shared,
                rows, answered, logins, exit>>
serverVars == <<runStatus, process, code, report, history, known, refused>>
panelVars == <<files, shownProject, tests, picked, load, endpointAnalysis, analyzed, chosen>>
editorVars == <<contract, fingerprint, steps, variables, bindings>>
workbookVars == <<project, uploadId, listed, selected, locked, analysis, generation, stored,
                  directories, strayed>>
diagramVars == <<at, rounds, first, origin, spec, button>>
mqttVars == <<plan, overlap, pc, pending, promise, aim, connection, subscribed, strays, mail,
              peers, got>>
stubVars == <<running, rules, captured, place, inspect, stopping, cleared, actions>>
redisVars == <<reading, stream, group, unacked, silent, reader, batch, found>>
everything == <<world, runnerVars, serverVars, panelVars, editorVars, workbookVars,
                diagramVars, mqttVars, stubVars, redisVars>>

Runner == INSTANCE CaseRunner
Server == INSTANCE RunLifecycle WITH status <- runStatus
Panel == INSTANCE Pickers WITH project <- shownProject, analysis <- endpointAnalysis
Editor == INSTANCE ApiEditor
Workbook == INSTANCE WorkbookUpload
Diagram == INSTANCE DiagramDelivery
Mqtt == INSTANCE MqttClient WITH Steps <- MqttSteps
Stub == INSTANCE HttpStub WITH MaxSteps <- MaxActions, steps <- actions
Redis == INSTANCE RedisStream WITH Steps <- Readers, Plans <- Readings, plan <- reading, pc <- reader

ConstantsAreLegal ==
  /\ Runner!ConstantsAssumption /\ Panel!PickersAssumption /\ Editor!ContractAssumption
  /\ Diagram!DeliveryAssumption /\ Redis!StreamAssumption
ASSUME InstancesAreLegal == ConstantsAreLegal
-----------------------------------------------------------------------------
In(name) == world = name

RunnerRests ==
  /\ suite = None /\ mode = None /\ status = None /\ step = None /\ stage = None
  /\ attempt = None /\ expired = None /\ task = None /\ token = None /\ vars = None
  /\ shared = None /\ rows = None /\ answered = None /\ logins = None /\ exit = None
ServerRests ==
  /\ runStatus = None /\ process = None /\ code = None /\ report = None
  /\ history = None /\ known = None /\ refused = None
PanelRests ==
  /\ files = None /\ shownProject = None /\ tests = None /\ picked = None
  /\ load = None /\ endpointAnalysis = None /\ analyzed = None /\ chosen = None
EditorRests ==
  /\ contract = None /\ fingerprint = None /\ steps = None /\ variables = None
  /\ bindings = None
WorkbookRests ==
  /\ project = None /\ uploadId = None /\ listed = None /\ selected = None
  /\ locked = None /\ analysis = None /\ generation = None /\ stored = None
  /\ directories = None /\ strayed = None
DiagramRests ==
  /\ at = None /\ rounds = None /\ first = None /\ origin = None /\ spec = None
  /\ button = None
MqttRests ==
  /\ plan = None /\ overlap = None /\ pc = None /\ pending = None /\ promise = None
  /\ aim = None /\ connection = None /\ subscribed = None /\ strays = None
  /\ mail = None /\ peers = None /\ got = None
StubRests ==
  /\ running = None /\ rules = None /\ captured = None /\ place = None
  /\ inspect = None /\ stopping = None /\ cleared = None /\ actions = None
RedisRests ==
  /\ reading = None /\ stream = None /\ group = None /\ unacked = None
  /\ silent = None /\ reader = None /\ batch = None /\ found = None

Init ==
  /\ world \in Worlds
  /\ IF world = "runner" THEN Runner!Init ELSE RunnerRests
  /\ IF world = "server" THEN Server!Init ELSE ServerRests
  /\ IF world = "panel" THEN Panel!Init ELSE PanelRests
  /\ IF world = "editor" THEN Editor!Init ELSE EditorRests
  /\ IF world = "workbook" THEN Workbook!Init ELSE WorkbookRests
  /\ IF world = "diagram" THEN Diagram!Init ELSE DiagramRests
  /\ IF world = "mqtt" THEN Mqtt!Init ELSE MqttRests
  /\ IF world = "stub" THEN Stub!Init ELSE StubRests
  /\ IF world = "redis" THEN Redis!Init ELSE RedisRests

(* One world runs and the others rest.                                     *)
OnlyRunner == UNCHANGED <<world, serverVars, panelVars, editorVars, workbookVars, diagramVars,
                          mqttVars, stubVars, redisVars>>
OnlyServer == UNCHANGED <<world, runnerVars, panelVars, editorVars, workbookVars, diagramVars,
                          mqttVars, stubVars, redisVars>>
OnlyPanel == UNCHANGED <<world, runnerVars, serverVars, editorVars, workbookVars, diagramVars,
                         mqttVars, stubVars, redisVars>>
OnlyEditor == UNCHANGED <<world, runnerVars, serverVars, panelVars, workbookVars, diagramVars,
                          mqttVars, stubVars, redisVars>>
OnlyWorkbook == UNCHANGED <<world, runnerVars, serverVars, panelVars, editorVars, diagramVars,
                            mqttVars, stubVars, redisVars>>
OnlyDiagram == UNCHANGED <<world, runnerVars, serverVars, panelVars, editorVars, workbookVars,
                           mqttVars, stubVars, redisVars>>
OnlyMqtt == UNCHANGED <<world, runnerVars, serverVars, panelVars, editorVars, workbookVars,
                        diagramVars, stubVars, redisVars>>
OnlyStub == UNCHANGED <<world, runnerVars, serverVars, panelVars, editorVars, workbookVars,
                        diagramVars, mqttVars, redisVars>>
OnlyRedis == UNCHANGED <<world, runnerVars, serverVars, panelVars, editorVars, workbookVars,
                         diagramVars, mqttVars, stubVars>>

Next ==
  \/ world = "runner" /\ Runner!Next /\ OnlyRunner
  \/ world = "server" /\ Server!Next /\ OnlyServer
  \/ world = "panel" /\ Panel!Next /\ OnlyPanel
  \/ world = "editor" /\ Editor!Next /\ OnlyEditor
  \/ world = "workbook" /\ Workbook!Next /\ OnlyWorkbook
  \/ world = "diagram" /\ Diagram!Next /\ OnlyDiagram
  \/ world = "mqtt" /\ Mqtt!Next /\ OnlyMqtt
  \/ world = "stub" /\ Stub!Next /\ OnlyStub
  \/ world = "redis" /\ Redis!Next /\ OnlyRedis

(* The fairness of each world is that of its module.                       *)
Fairness ==
  /\ WF_runnerVars(world = "runner" /\ Runner!Next /\ OnlyRunner)
  /\ \A r \in Runs : WF_serverVars(world = "server" /\ Server!Serve(r) /\ OnlyServer)
  /\ \A l \in Loads :
       /\ WF_panelVars(world = "panel" /\ Panel!Refresh(l) /\ OnlyPanel)
       /\ SF_panelVars(world = "panel" /\ Panel!Answer(l) /\ OnlyPanel)
       /\ WF_panelVars(world = "panel" /\ Panel!ShowTests(l) /\ OnlyPanel)
  /\ \A s \in MqttSteps : WF_mqttVars(world = "mqtt" /\ Mqtt!Step(s) /\ OnlyMqtt)
  /\ WF_mqttVars(world = "mqtt" /\ Mqtt!Received /\ OnlyMqtt)

Spec == Init /\ [][Next]_everything
FairSpec == Spec /\ Fairness
-----------------------------------------------------------------------------
(* Properties.                                                             *)

(* A green case is earned by the last answer of every request of it, what  *)
(* it saved for later steps is what an accepted answer said, and a retried *)
(* step stops when it should (RunnerEngine).                               *)
PassIsEarned ==
  world = "runner" => Runner!PassIsEarned /\ Runner!SavedByAccepted /\ Runner!RetryStopsInTime

(* Steps of a case do not overlap, cases that run side by side do not see  *)
(* each other, and one step of an engine logs in (RunnerEngine).           *)
CasesKeepApart ==
  world = "runner" => Runner!CasesKeepApart

(* What is picked is listed, in an order that names it once each, whatever *)
(* loads, refreshes and analyses overlap (testcases.js, generator.js).     *)
PicksAreListed == world = "panel" => Panel!PicksAreListed

(* What the editor lets a user build the server refuses for a forbidden    *)
(* name, a sensitive end of a binding and a change of the contract only    *)
(* (api-builder.js, ApiBuilderWorkspace.cs, ApiBuilderCompiler.cs).        *)
EditsAreAccepted == world = "editor" => Editor!EditsAreAccepted

(* The removal of a step takes exactly the links to and from it, whatever  *)
(* the steps are called afterwards (removeApiBuilderOperation).            *)
RemovalKeepsLinks ==
  [][world = "editor" => \A i \in DOMAIN steps : Editor!RemoveStep(i) => Editor!LinksMove(i)]_editorVars

(* The generator has its workbook on disk, and the cases that are selected *)
(* are those of the workbook that is listed (Program.cs, workbook-message.js). *)
WorkbookIsThere ==
  world = "workbook" => Workbook!WorkbookIsThere

(* A delivered diagram has every node and joins all that the first         *)
(* specification joined (Program.cs, archify/generate).                    *)
DeliveredCovers == world = "diagram" => Diagram!DeliveredCovers

(* The server reports semantic coverage of 100 % for what it delivers:     *)
(* no edge of the first specification is gone.                             *)
DeliveredCoversAll == world = "diagram" => Diagram!DeliveredCoversAll

(* Steps get what they asked for: a message of their topic or of one left  *)
(* subscribed, a count of every request that was answered, an entry no     *)
(* other consumer was given (MqttTestClient, HttpStubServer,               *)
(* RedisStepExecutor).                                                     *)
StepsGetTheirOwn ==
  /\ world = "mqtt" => Mqtt!OwnMessage
  /\ world = "stub" => Stub!AnsweredIsCounted
  /\ world = "redis" => Redis!EntryGivenOnce

(* A value that is called unique is fresh in every step (README).          *)
UniqueIsFresh == world = "runner" => Runner!UniqueIsFresh

(* A run of the engine comes to its end, a posted run gets its verdict, and *)
(* the list of test cases comes to show the project that is selected, and  *)
(* an MQTT step ends.                                                      *)
Settled ==
  /\ world = "runner" => exit # None
  /\ world = "server" => \A r \in Runs : r \notin known \/ (runStatus[r] \in Server!Terminal /\ process[r] = "gone")
  /\ world = "mqtt" => Mqtt!AllEnded

AllSettles ==
  /\ []<>Settled
  /\ <>[][world = "panel" => UNCHANGED <<files, shownProject>>]_panelVars
       => <>[](world = "panel" => tests = files[shownProject])
=============================================================================
