--------------------------- MODULE EvidenceCheck ----------------------------
(***************************************************************************)
(* Verification of the source references of an architecture diagram: each  *)
(* names a file, and lines of it, at one pinned commit of one repository.  *)
(* Every question is a git command of its own, so the local checkout may   *)
(* move between two of them.                                               *)
(***************************************************************************)
EXTENDS Integers, Sequences, FiniteSets, SequencesExt

CONSTANTS
  Commits,      \* commits of the repository
  Tree,         \* Tree[c][p]: the content of a path at a commit, or Missing, Directory
  Requests,     \* diagrams: [revision, remote, link, root, sources]
  Origins,      \* the origin remotes a checkout may have
  Missing, Directory

VARIABLES
  request,     \* the diagram under verification
  head,        \* the commit that is checked out
  origin,      \* the remote of the checkout
  present,     \* the commits the checkout has
  pc,          \* the question that comes next
  at,          \* the source it is about
  verified     \* the sources verified so far

vars == <<request, head, origin, present, pc, at, verified>>
checkout == <<head, origin, present>>

(* A reference has a path, a line and an end, which are 0 where it names   *)
(* none; at every commit its path leads to a text, a directory or nothing. *)
Cited == UNION {Range(r.sources) : r \in Requests}
EvidenceAssumption ==
  /\ \A r \in Requests : r.sources \in Seq(Cited)
  /\ \A s \in Cited : s.line \in Nat /\ s.end \in Nat
  /\ \A c \in Commits, s \in Cited :
       Tree[c][s.path] \in {Missing, Directory} \cup Seq({"w", "lf", "crlf", "cr"})
-----------------------------------------------------------------------------
(* parseRepositoryRemote: [form, host, port, path, dotGit, user].  A known  *)
(* forge is one namespace whatever the transport, elsewhere transport,     *)
(* port and the spelling of the path count.                                *)
Provider(r) == IF r.host \in {"github", "gitee"} THEN r.host ELSE "none"
Protocol(r) == IF r.form = "scp" THEN "ssh" ELSE r.form
Standard(r) == Provider(r) # "none" /\ Protocol(r) \in {"https", "ssh"} /\ r.port = "default"
Parses(r, authored) == r.form \in {"https", "http", "ssh", "scp"} /\ ~(authored /\ r.user /\ Protocol(r) # "ssh")
Identity(r) ==
  [host |-> r.host,
   endpoint |-> IF Standard(r) THEN <<"standard">> ELSE <<Protocol(r), r.port>>,
   kind |-> IF Provider(r) # "none" THEN "repository" ELSE IF r.form = "scp" THEN "relative" ELSE "absolute",
   path |-> r.path,
   dotGit |-> r.dotGit /\ Provider(r) = "none"]
WebLinks(r) == Provider(r) # "none" /\ r.form = "https" /\ Standard(r) /\ Len(r.path) = 2

(* verifiedSourcePath *)
ValidPath(p) == p # <<>> /\ Range(p) \cap {"", ".", ".."} = {} /\ p[1] # ".git"

(* sourceLineCount of a text of words and line breaks.                     *)
Break(t) == t \in {"lf", "crlf", "cr"}
SourceLineCount(text) ==
  IF text = <<>> THEN 0
  ELSE 1 + Cardinality({i \in DOMAIN text : Break(text[i])}) - (IF Break(Last(text)) THEN 1 ELSE 0)

IsFile(content) == content \notin {Missing, Directory}

(* Mutant: the file is read as it is checked out.                          *)
ObjectAtHead(p) == Tree[head][p]

(* git show revision:path *)
Object(p) == Tree[request.revision][p]

Source == request.sources[at]
RangeIsSane(s) == (s.end # 0 => s.line # 0) /\ (s.end # 0 /\ s.line # 0 => s.end >= s.line)
Last1(s) == IF s.end # 0 THEN s.end ELSE s.line
-----------------------------------------------------------------------------
Init == /\ request \in Requests
        /\ head \in Commits
        /\ origin \in Origins
        /\ present = Commits
        /\ pc = "declared" /\ at = 1 /\ verified = <<>>

Refuse == pc' = "refused" /\ UNCHANGED <<request, checkout, at, verified>>

(* What needs no git: the form of the revision, of the address, the link.  *)
Declared ==
  /\ pc = "declared"
  /\ IF request.fullSha /\ Parses(request.remote, TRUE) /\ (request.link = "web" => WebLinks(request.remote)) /\ request.root
     THEN pc' = "origin" /\ UNCHANGED <<request, checkout, at, verified>>
     ELSE Refuse

CheckOrigin ==
  /\ pc = "origin"
  /\ IF Parses(origin, FALSE) /\ Identity(origin) = Identity(request.remote)
     THEN pc' = "commit" /\ UNCHANGED <<request, checkout, at, verified>>
     ELSE Refuse

CheckCommit ==
  /\ pc = "commit"
  /\ IF request.revision \in present
     THEN pc' = "source" /\ UNCHANGED <<request, checkout, at, verified>>
     ELSE Refuse

(* One source: its path, its range and the type of the object.             *)
CheckType ==
  /\ pc = "source" /\ at <= Len(request.sources)
  /\ IF ValidPath(Source.path) /\ RangeIsSane(Source) /\ request.revision \in present /\ IsFile(Object(Source.path))
     THEN /\ IF Source.line # 0
             THEN pc' = "lines" /\ UNCHANGED <<at, verified>>
             ELSE pc' = "source" /\ verified' = Append(verified, Source) /\ at' = at + 1
          /\ UNCHANGED <<request, checkout>>
     ELSE Refuse

ReadLines ==
  /\ pc = "lines"
  /\ IF request.revision \in present /\ IsFile(Object(Source.path)) /\ Last1(Source) <= SourceLineCount(Object(Source.path))
     THEN /\ pc' = "source" /\ verified' = Append(verified, Source) /\ at' = at + 1
          /\ UNCHANGED <<request, checkout>>
     ELSE Refuse

Finish ==
  /\ pc = "source" /\ at > Len(request.sources)
  /\ IF verified # <<>>
     THEN pc' = "verified" /\ UNCHANGED <<request, checkout, at, verified>>
     ELSE Refuse

(* The owner of the checkout commits, switches or prunes meanwhile.        *)
Checkout == /\ pc \notin {"verified", "refused"}
            /\ head' \in present
            /\ UNCHANGED <<request, origin, present, pc, at, verified>>
Prune == /\ pc \notin {"verified", "refused"}
         /\ \E c \in present \ {head} : present' = present \ {c}
         /\ UNCHANGED <<request, head, origin, pc, at, verified>>

Done == pc \in {"verified", "refused"} /\ UNCHANGED vars

Next == Declared \/ CheckOrigin \/ CheckCommit \/ CheckType \/ ReadLines \/ Finish \/ Checkout \/ Prune \/ Done
Spec == Init /\ [][Next]_vars
-----------------------------------------------------------------------------
(* Lines of a text: the places a line starts at.                           *)
Lines(text) == Cardinality({i \in DOMAIN text : i = 1 \/ Break(text[i - 1])})

(* What the page calls verified is true of the pinned commit, whatever was *)
(* checked out or pruned while the questions were asked: each reference is *)
(* a file inside the repository that has the lines it names, and a page    *)
(* with links points at a forge that serves the very repository verified.  *)
EvidenceIsPinned ==
  pc = "verified" =>
    /\ \A s \in Range(verified) :
         /\ IsFile(Tree[request.revision][s.path]) /\ ".." \notin Range(s.path)
         /\ Last1(s) <= Lines(Tree[request.revision][s.path])
    /\ Range(request.sources) = Range(verified)
    /\ request.link = "web" => request.remote.form = "https" /\ origin.host = request.remote.host
         /\ origin.path = request.remote.path
=============================================================================
