------------------------------- MODULE Archify ------------------------------
(***************************************************************************)
(* Nine parts of the vendored diagram tool: what guards the cache of its   *)
(* update check, where it may write its output, what it takes for a newer  *)
(* release, how it fetches brand marks and checks evidence, how it lays    *)
(* out a sequence diagram and frames the parts of an architecture, and how *)
(* it compares two diagrams and reviews the comparison.  They have no      *)
(* state in common.  A behaviour picks one of them, its world, and lets it *)
(* run alone; the variables of the others stay None.  A constant or        *)
(* variable has its module's name; the outcome of a cache operation is     *)
(* called its ending, the output that was requested is what was asked for, *)
(* and the input, stage and drawing of a comparison are its pair, phase    *)
(* and svg.                                                                *)
(***************************************************************************)
EXTENDS Integers, Sequences, FiniteSets

CONSTANTS
  Worlds,   \* the worlds to look at
  None,
  Operations, MaxSwaps,                                     \* CacheGuard
  Fold, Html, Cwd, Input, Outputs, Systems, Alterations, Anonymous,
  NewInode, MaxDepth,                                       \* OutputGuard
  Brands, Workers, Urls, Digests, MaxRedirects, MaxIcons, Deadline, Patience, Idle, \* BrandCapture
  Versions,                                                 \* ReleaseOrder
  Commits, Tree, Requests, Origins, Missing, Directory,     \* EvidenceCheck
  Sequences,                                                \* SequenceLayout
  Diagrams,                                                 \* ArchitectureFrames
  Comparisons,                                              \* ArchitectureDelta
  Rows, MaxEvents                                           \* DeltaReview

VARIABLES
  world,
  disk, trusted, snap, queue, step, acted, ending, swaps,   \* CacheGuard
  fs, asked, stage, content, late, target,                  \* OutputGuard
  now, cursor, worker, capture, unknown, mark, outcome,     \* BrandCapture
  versions, manifest, offer,                                \* ReleaseOrder
  request, head, origin, present, pc, at, verified,         \* EvidenceCheck
  sequence, tags, faults,                                   \* SequenceLayout
  diagram, boxes, frames, legend, problems,                 \* ArchitectureFrames
  pair, phase, receipt, svg,                                \* ArchitectureDelta
  available, activeIndex, marked, shown, playing, token, timers, reduced, damaged, pressed,
  focus, events                                             \* DeltaReview

cacheVars == <<disk, trusted, snap, queue, step, acted, ending, swaps>>
outputVars == <<fs, asked, stage, content, late, target>>
brandVars == <<now, cursor, worker, capture, unknown, mark, outcome>>
releaseVars == <<versions, manifest, offer>>
evidenceVars == <<request, head, origin, present, pc, at, verified>>
lifelineVars == <<sequence, tags, faults>>
frameVars == <<diagram, boxes, frames, legend, problems>>
deltaVars == <<pair, phase, receipt, svg>>
reviewVars == <<available, activeIndex, marked, shown, playing, token, timers, reduced,
                damaged, pressed, focus, events>>
everything == <<world, cacheVars, outputVars, brandVars, releaseVars, evidenceVars,
                lifelineVars, frameVars, deltaVars, reviewVars>>

Cache == INSTANCE CacheGuard WITH outcome <- ending
Output == INSTANCE OutputGuard WITH request <- asked
Brand == INSTANCE BrandCapture
Release == INSTANCE ReleaseOrder
Evidence == INSTANCE EvidenceCheck
Lifelines == INSTANCE SequenceLayout
Frames == INSTANCE ArchitectureFrames
Delta == INSTANCE ArchitectureDelta WITH input <- pair, stage <- phase, drawing <- svg
Review == INSTANCE DeltaReview

ConstantsAreLegal ==
  /\ Cache!GuardAssumption /\ Output!GuardAssumption /\ Brand!CaptureAssumption
  /\ Release!ReleaseAssumption /\ Evidence!EvidenceAssumption
  /\ Lifelines!LayoutAssumption /\ Frames!FramesAssumption /\ Delta!DeltaAssumption
  /\ Review!ReviewAssumption
ASSUME InstancesAreLegal == ConstantsAreLegal
-----------------------------------------------------------------------------
CacheRests ==
  /\ disk = None /\ trusted = None /\ snap = None /\ queue = None /\ step = None
  /\ acted = None /\ ending = None /\ swaps = None
OutputRests ==
  /\ fs = None /\ asked = None /\ stage = None /\ content = None /\ late = None /\ target = None
BrandRests ==
  /\ now = None /\ cursor = None /\ worker = None /\ capture = None
  /\ unknown = None /\ mark = None /\ outcome = None
ReleaseRests ==
  /\ versions = None /\ manifest = None /\ offer = None
EvidenceRests ==
  /\ request = None /\ head = None /\ origin = None /\ present = None /\ pc = None
  /\ at = None /\ verified = None
LifelinesRest ==
  /\ sequence = None /\ tags = None /\ faults = None
FramesRest ==
  /\ diagram = None /\ boxes = None /\ frames = None /\ legend = None /\ problems = None
DeltaRest ==
  /\ pair = None /\ phase = None /\ receipt = None /\ svg = None
ReviewRests ==
  /\ available = None /\ activeIndex = None /\ marked = None /\ shown = None
  /\ playing = None /\ token = None /\ timers = None /\ reduced = None
  /\ damaged = None /\ pressed = None /\ focus = None /\ events = None

Init ==
  /\ world \in Worlds
  /\ IF world = "cache" THEN Cache!Init ELSE CacheRests
  /\ IF world = "output" THEN Output!Init ELSE OutputRests
  /\ IF world = "brand" THEN Brand!Init ELSE BrandRests
  /\ IF world = "release" THEN Release!Init ELSE ReleaseRests
  /\ IF world = "evidence" THEN Evidence!Init ELSE EvidenceRests
  /\ IF world = "lifelines" THEN Lifelines!Init ELSE LifelinesRest
  /\ IF world = "frames" THEN Frames!Init ELSE FramesRest
  /\ IF world = "delta" THEN Delta!Init ELSE DeltaRest
  /\ IF world = "review" THEN Review!Init ELSE ReviewRests

(* One world runs and the others rest.                                     *)
OnlyCache ==
  UNCHANGED <<world, outputVars, brandVars, releaseVars, evidenceVars, lifelineVars, frameVars, deltaVars,
              reviewVars>>
OnlyOutput ==
  UNCHANGED <<world, cacheVars, brandVars, releaseVars, evidenceVars, lifelineVars, frameVars, deltaVars, reviewVars>>
OnlyBrand ==
  UNCHANGED <<world, cacheVars, outputVars, releaseVars, evidenceVars, lifelineVars, frameVars, deltaVars,
              reviewVars>>
OnlyRelease ==
  UNCHANGED <<world, cacheVars, outputVars, brandVars, evidenceVars, lifelineVars, frameVars, deltaVars, reviewVars>>
OnlyEvidence ==
  UNCHANGED <<world, cacheVars, outputVars, brandVars, releaseVars, lifelineVars, frameVars, deltaVars, reviewVars>>
OnlyLifelines ==
  UNCHANGED <<world, cacheVars, outputVars, brandVars, releaseVars, evidenceVars, frameVars, deltaVars, reviewVars>>
OnlyFrames ==
  UNCHANGED <<world, cacheVars, outputVars, brandVars, releaseVars, evidenceVars, lifelineVars, deltaVars,
              reviewVars>>
OnlyDelta ==
  UNCHANGED <<world, cacheVars, outputVars, brandVars, releaseVars, evidenceVars, lifelineVars, frameVars,
              reviewVars>>
OnlyReview ==
  UNCHANGED <<world, cacheVars, outputVars, brandVars, releaseVars, evidenceVars, lifelineVars, frameVars, deltaVars>>

Next ==
  \/ world = "cache" /\ Cache!Next /\ OnlyCache
  \/ world = "output" /\ Output!Next /\ OnlyOutput
  \/ world = "brand" /\ Brand!Next /\ OnlyBrand
  \/ world = "release" /\ Release!Next /\ OnlyRelease
  \/ world = "evidence" /\ Evidence!Next /\ OnlyEvidence
  \/ world = "lifelines" /\ Lifelines!Next /\ OnlyLifelines
  \/ world = "frames" /\ Frames!Next /\ OnlyFrames
  \/ world = "delta" /\ Delta!Next /\ OnlyDelta
  \/ world = "review" /\ Review!Next /\ OnlyReview

Spec == Init /\ [][Next]_everything
-----------------------------------------------------------------------------
(* Properties.                                                             *)

(* What a guarded operation on the cache said it did it did between        *)
(* directories whose identity it had looked at, also afterwards            *)
(* (guardedCacheMutation).                                                 *)
DoneMeansInspected == world = "cache" => Cache!DoneMeansInspected

(* The source of a diagram is never overwritten by its output, and the     *)
(* output an author names stays in the working directory                   *)
(* (resolveOutputPath, writeDiagram).                                      *)
OutputIsApart == world = "output" => Output!InputSurvives /\ Output!AuthoredStaysInside

(* A pinned brand is drawn with the image that was pinned or not at all,   *)
(* and in time (prepareDiagramBrandMarks).                                 *)
DrawnIsPinned == world = "brand" => Brand!DrawnIsPinned /\ Brand!InTime

(* What is offered as an update is a newer stable release, whatever the    *)
(* server sends (validateStableUpdateManifest, compareSemver).             *)
OffersAreUpgrades == world = "release" => Release!OffersAreUpgrades

(* Verified evidence names lines of a file as of the pinned commit,        *)
(* whatever is checked out (verifyRepositoryEvidence).                     *)
EvidenceIsPinned == world = "evidence" => Evidence!EvidenceIsPinned

(* The messages of a sequence can be told apart, and labels of segments    *)
(* hide none (render-sequence.mjs).                                        *)
LifelinesTell == world = "lifelines" => Lifelines!MessagesReadable /\ Lifelines!TagsHideNothing

(* Titles of boundaries cover nothing, an accepted deployment can be read  *)
(* off its frames, and a drawn legend is complete and hides nothing        *)
(* (render-architecture.mjs, engineering-profiles.mjs, legend.mjs).        *)
FramesTell ==
  world = "frames" => Frames!TitlesApart /\ Frames!OwnershipIsDrawn /\ Frames!LegendReads

(* The drawing of a comparison shows what its receipt says, both ways      *)
(* round, and says nothing only of equal diagrams (compareArchitecture).   *)
DeltaTells ==
  world = "delta" => Delta!DrawingMatchesReceipt /\ Delta!ComparesBothWays /\ Delta!SilentMeansEqual

(* Playback has at most one timeout to come, and one change is marked      *)
(* (architecture-delta.mjs).                                               *)
ReviewIsSingle == world = "review" => Review!ReviewIsSingle
=============================================================================
