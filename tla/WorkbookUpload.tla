---------------------------- MODULE WorkbookUpload ----------------------------
(***************************************************************************)
(* The workbook tool: a tab uploads a workbook for analysis, selects among *)
(* its cases and has drafts generated from them.  The server keeps an      *)
(* upload in a dictionary and in a directory until a request to generate   *)
(* takes it.  The two kinds of request overlap, and the project may be     *)
(* switched at any time.                                                   *)
(***************************************************************************)
EXTENDS Naturals, FiniteSets

CONSTANTS
  Uploads,     \* bound: the uploads the server gives an id
  Cases,       \* the cases of a workbook that are supported
  Projects,
  Generations, \* bound: requests to generate under way
  None

VARIABLES
  project,     \* the project selected in the tab
  uploadId,    \* state.workbookUploadId
  listed,      \* the upload whose cases are listed, if any: state.workbookCases
  selected,    \* state.selectedWorkbookCases
  locked,      \* is the generate button disabled?
  analysis,    \* the request to analyse: nothing, or where it is
  generation,  \* the requests to generate
  stored,      \* workbookUploads: upload -> project
  directories, \* the upload directories on disk
  strayed      \* history: the uploads taken by a request for another project

tab == <<project, uploadId, listed, selected, locked>>
server == <<stored, directories, strayed>>
vars == <<tab, analysis, generation, server>>

Idle == [at |-> "idle"]
Used == directories \cup strayed \cup {generation[g].upload : g \in {h \in Generations : generation[h] # Idle}}

Init ==
  /\ project \in Projects
  /\ uploadId = None /\ listed = None /\ selected = {} /\ locked = TRUE
  /\ analysis = Idle
  /\ generation = [g \in Generations |-> Idle]
  /\ stored = <<>> /\ directories = {} /\ strayed = {}

SwitchProject(p) ==
  /\ project' = p
  /\ UNCHANGED <<uploadId, listed, selected, locked, analysis, generation, server>>

(* renderWorkbookCases decides anew whether there is something to generate. *)
Show(upload, list, cases) ==
  /\ uploadId' = upload
  /\ listed' = list
  /\ selected' = cases
  /\ locked' = (upload = None \/ cases = {})
  /\ UNCHANGED project
-----------------------------------------------------------------------------
(* Clicks on cases, which are disabled without an upload.                  *)

Select(cases) ==
  /\ uploadId # None
  /\ Show(uploadId, listed, cases)
  /\ UNCHANGED <<analysis, generation, server>>

ClickAnalyze ==
  /\ analysis = Idle
  /\ analysis' = [at |-> "sent", project |-> project]
  /\ UNCHANGED <<tab, generation, server>>

ClickGenerate(g) ==
  /\ ~locked
  /\ generation[g] = Idle
  /\ generation' = [generation EXCEPT ![g] = [at |-> "sent", upload |-> uploadId, project |-> project]]
  /\ locked' = TRUE
  /\ UNCHANGED <<project, uploadId, listed, selected, analysis, server>>
-----------------------------------------------------------------------------
(* POST workbooks/analyze: a directory, the generator run on it, and only  *)
(* then the entry of the dictionary; whatever fails removes the directory. *)

Receive(u) ==
  /\ analysis.at = "sent"
  /\ u \notin Used
  /\ directories' = directories \cup {u}
  /\ analysis' = [at |-> "analyzing", project |-> analysis.project, upload |-> u]
  /\ UNCHANGED <<tab, generation, stored, strayed>>

Analyzed ==
  /\ analysis.at = "analyzing"
  /\ stored' = [u \in DOMAIN stored \cup {analysis.upload} |->
                  IF u = analysis.upload THEN analysis.project ELSE stored[u]]
  /\ analysis' = [at |-> "answered", upload |-> analysis.upload]
  /\ UNCHANGED <<tab, generation, directories, strayed>>

AnalysisFails ==
  /\ analysis.at = "analyzing"
  /\ directories' = directories \ {analysis.upload}
  /\ analysis' = [at |-> "failed"]
  /\ UNCHANGED <<tab, generation, stored, strayed>>

ShowAnalysis ==
  /\ \/ analysis.at = "answered" /\ Show(analysis.upload, analysis.upload, {})
     \/ analysis.at = "failed" /\ Show(None, None, {})
  /\ analysis' = Idle
  /\ UNCHANGED <<generation, server>>
-----------------------------------------------------------------------------
(* POST workbooks/generate.                                                *)

(* Mutant: the upload is looked up, not taken.                             *)
TakenByLookup(u) == stored

(* workbookUploads.TryRemove.                                              *)
Taken(u) == [v \in DOMAIN stored \ {u} |-> stored[v]]

(* The upload is gone, even for a request of another project.              *)
Take(g) ==
  /\ generation[g].at = "sent"
  /\ LET u == generation[g].upload
         found == u \in DOMAIN stored
         own == found /\ stored[u] = generation[g].project
     IN  /\ stored' = IF found THEN Taken(u) ELSE stored
         /\ strayed' = IF found /\ ~own THEN strayed \cup {u} ELSE strayed
         /\ generation' = [generation EXCEPT ![g].at = IF own THEN "generating" ELSE "refused"]
  /\ UNCHANGED <<tab, analysis, directories>>

(* The generator ends; the directory goes with it.                         *)
Generated(g) ==
  /\ generation[g].at = "generating"
  /\ \E answer \in {"generated", "refused"} : generation' = [generation EXCEPT ![g].at = answer]
  /\ directories' = directories \ {generation[g].upload}
  /\ UNCHANGED <<tab, analysis, stored, strayed>>

(* generateWorkbookCases: success gives up the upload of the tab, whichever *)
(* it is by now; a refusal keeps it.                                       *)
ShowGeneration(g) ==
  /\ \/ generation[g].at = "generated" /\ Show(None, listed, {})
     \/ generation[g].at = "refused" /\ Show(uploadId, listed, selected)
  /\ generation' = [generation EXCEPT ![g] = Idle]
  /\ UNCHANGED <<analysis, server>>
-----------------------------------------------------------------------------
Next ==
  \/ \E p \in Projects : SwitchProject(p)
  \/ \E cases \in SUBSET Cases : Select(cases)
  \/ ClickAnalyze \/ Analyzed \/ AnalysisFails \/ ShowAnalysis
  \/ \E u \in Uploads : Receive(u)
  \/ \E g \in Generations : ClickGenerate(g) \/ Take(g) \/ Generated(g) \/ ShowGeneration(g)

Spec == Init /\ [][Next]_vars
-----------------------------------------------------------------------------
(* Properties.                                                             *)

Running == {g \in Generations : generation[g].at = "generating"}

(* Although the button comes back with the next click on a case, and two   *)
(* requests then name the same upload, only one generator ever runs on an  *)
(* upload, its directory is there until it ends, and no directory is left  *)
(* behind but those a request for another project took.                    *)
GeneratorHasWorkbook ==
  /\ \A g \in Running : generation[g].upload \in directories \ DOMAIN stored
  /\ \A g, h \in Running : generation[g].upload = generation[h].upload => g = h
  /\ directories = DOMAIN stored \cup strayed
                     \cup {generation[g].upload : g \in Running}
                     \cup (IF analysis.at = "analyzing" THEN {analysis.upload} ELSE {})

(* What the tab would have generated are cases of the workbook it lists.   *)
SelectionIsListed ==
  /\ uploadId # None => listed = uploadId
  /\ selected # {} => uploadId # None

(* Both, whichever uploads, analyses and requests to generate overlap.     *)
WorkbookIsThere == GeneratorHasWorkbook /\ SelectionIsListed

(* The upload a tab offers to generate from is one the server still has:   *)
(* it is used up once.                                                     *)
OfferedIsStored ==
  uploadId # None /\ (\A g \in Generations : generation[g] = Idle) => uploadId \in DOMAIN stored
=============================================================================
