---------------------------- MODULE OutputGuard -----------------------------
(***************************************************************************)
(* Where a renderer may write its page.  The output path is resolved and   *)
(* compared with the input when the diagram is loaded, and once more just  *)
(* before the page is written, because brand marks are fetched in between  *)
(* and other programs change the file system meanwhile.                    *)
(*                                                                         *)
(* A path is a sequence of names below the root.  A file system maps the   *)
(* stored paths to directories, files (with an inode) and symbolic links,  *)
(* and tells names that differ in case apart or does not.                  *)
(***************************************************************************)
EXTENDS Naturals, Sequences, FiniteSets

CONSTANTS
  Fold,        \* the lower-case form of every name
  Html,        \* the names that end in .html
  Cwd,         \* the directory the command runs in
  Input,       \* the path of the diagram
  Outputs,     \* the output paths that may be asked for
  Systems,     \* what may be stored: path -> entry
  Alterations, \* the entries another program may put somewhere
  Anonymous,   \* the files whose inode the system does not report
  NewInode,    \* the inode of a file that is made
  MaxDepth     \* MAX_SYMLINK_DEPTH

VARIABLES
  fs,       \* the file system: what is stored where, whether names that
            \* differ in case are the same, whether a probe file can be made
  request,  \* the output asked for and who asked: "cli", "meta", "default"
  stage,    \* "start", "loaded", "guarded", "written", "refused"
  content,  \* inode -> what the file holds
  late,     \* something changed between the guard and the write
  target    \* the path that was written

vars == <<fs, request, stage, content, late, target>>

Paths == Seq(DOMAIN Fold)

NoEntry == [kind |-> "none"]
Dir == [kind |-> "dir"]
File(ino) == [kind |-> "file", ino |-> ino]
Link(to) == [kind |-> "link", to |-> to]
Loop == <<"*loop*">>

(* What may be stored before the page is written: no file has the inode of *)
(* the file to come.                                                       *)
IsEntry(e) ==
  \/ e = Dir
  \/ e.kind = "file" /\ e = File(e.ino) /\ e.ino # NewInode
  \/ e.kind = "link" /\ e = Link(e.to) /\ e.to \in Paths

GuardAssumption ==
  /\ MaxDepth \in Nat /\ "*loop*" \notin DOMAIN Fold
  /\ Cwd \in Paths /\ Input \in Paths /\ Outputs \subseteq Paths
  /\ \A f \in Systems : /\ f = [p \in DOMAIN f |-> f[p]]
                        /\ \A p \in DOMAIN f : p \in Paths /\ p # <<>> /\ IsEntry(f[p])
  /\ \A c \in Alterations : c.at \in Paths /\ c.at # <<>> /\ (c.entry = NoEntry \/ IsEntry(c.entry))
-----------------------------------------------------------------------------
(* What the file system does with a name.                                  *)

Entry(f, path) == IF path = <<>> THEN Dir ELSE IF path \in DOMAIN f.at THEN f.at[path] ELSE NoEntry

(* Two names for the same file.                                            *)
Alike(f, a, b) == a = b \/ (f.insensitive /\ Fold[a] = Fold[b])

Parents(path) == {SubSeq(path, 1, n) : n \in 1 .. (Len(path) - 1)}

(* What is stored is stored in directories and under one spelling, and a   *)
(* system that reports no inodes has no second names for a file.           *)
WellStored(f) ==
  \A p \in DOMAIN f.at :
    /\ \A d \in Parents(p) : d \in DOMAIN f.at /\ f.at[d] = Dir
    /\ \A q \in DOMAIN f.at : Len(q) = Len(p) /\ (\A i \in DOMAIN p : Alike(f, p[i], q[i])) => q = p
    /\ f.at[p].kind = "file" /\ f.at[p].ino \in Anonymous => \A q \in DOMAIN f.at : f.at[q] = f.at[p] => q = p

(* The stored paths that a path goes through, from the root on, and the    *)
(* last of them.                                                           *)
Along(f, path) ==
  {p \in DOMAIN f.at \cup {<<>>} : Len(p) <= Len(path) /\ \A i \in DOMAIN p : Alike(f, p[i], path[i])}

Reached(f, path) ==
  LET along == Along(f, path) IN CHOOSE p \in along : \A q \in along : Len(q) <= Len(p)

Rest(path, dir) == SubSeq(path, Len(dir) + 1, Len(path))

AtLink(f, path) == Entry(f, Reached(f, path)).kind = "link"

(* canonicalize: a path that comes to a link goes on with what is left     *)
(* where the link leads, so many times and no more.                        *)
Follow(f, path) ==
  IF AtLink(f, path) THEN f.at[Reached(f, path)].to \o Rest(path, Reached(f, path)) ELSE path

Followed(f, path) ==
  LET after[n \in 0 .. MaxDepth] == IF n = 0 THEN path ELSE Follow(f, after[n - 1])
  IN after[MaxDepth]

(* A path in the spelling that is stored.                                  *)
Onto(stored, path) == [i \in DOMAIN path |-> IF i \in DOMAIN stored THEN stored[i] ELSE path[i]]

(* canonicalFuturePath: from the first name that is absent on, the path is *)
(* taken as it stands.                                                     *)
Canonical(f, path) ==
  LET last == Followed(f, path)
  IN IF AtLink(f, last) THEN Loop ELSE Onto(Reached(f, last), last)

(* fs.statSync                                                             *)
Stat(f, path) == LET c == Canonical(f, path) IN IF c = Loop THEN NoEntry ELSE Entry(f, c)

(* nearestExistingDirectory, of a canonical path.                          *)
Nearest(f, path) ==
  LET above == {0} \cup {n \in 1 .. (Len(path) - 1) : Entry(f, SubSeq(path, 1, n)) = Dir}
  IN SubSeq(path, 1, CHOOSE n \in above : \A m \in above : m <= n)

(* probeDirectorySemantics: two names for one file are made and looked up; *)
(* without an answer the names are taken for the same.                     *)
FoldsHere(f) == f.insensitive \/ ~f.writable

Comparable(f, names) == IF FoldsHere(f) THEN [i \in DOMAIN names |-> Fold[names[i]]] ELSE names

(* futurePathsAlias                                                        *)
FuturePathsAlias(f, left, right) ==
  LET l == Canonical(f, left)
      r == Canonical(f, right)
  IN \/ l = r
     \/ /\ Nearest(f, l) = Nearest(f, r)
        /\ Comparable(f, Rest(l, Nearest(f, l))) = Comparable(f, Rest(r, Nearest(f, r)))

(* sameFileIdentity                                                        *)
SameFile(left, right) ==
  left.kind = "file" /\ right.kind = "file" /\ left.ino = right.ino /\ left.ino \notin Anonymous

(* pathsAlias                                                              *)
PathsAlias(f, left, right) ==
  FuturePathsAlias(f, left, right) \/ SameFile(Stat(f, left), Stat(f, right))

Inside(dir, path) == Len(dir) <= Len(path) /\ SubSeq(path, 1, Len(dir)) = dir

IsHtml(path) == path # <<>> /\ path[Len(path)] \in Html

(* resolveOutputPath: the first reason to refuse an output, "" when none.  *)
(* A path in the diagram is relative to the working directory here.        *)
Refusal(f, r) ==
  LET c == Canonical(f, r.path)
      meta == r.source = "meta"
      cycles == {c} \cup (IF meta THEN {Canonical(f, Cwd)} ELSE {})
  IN IF meta /\ ~IsHtml(r.path) THEN "output/meta-extension"
     ELSE IF meta /\ c # Loop /\ ~IsHtml(c) THEN "output/meta-resolved-extension"
     ELSE IF Loop \in cycles THEN "output/symlink-cycle"
     ELSE IF meta /\ ~Inside(Canonical(f, Cwd), c) THEN "output/meta-outside-cwd"
     ELSE IF Canonical(f, Input) = Loop THEN "output/symlink-cycle"
     ELSE IF PathsAlias(f, r.path, Input) THEN "output/input-alias"
     ELSE IF r.source = "cli" /\ ~IsHtml(r.path) THEN "output/cli-extension"
     ELSE IF r.source = "cli" /\ ~IsHtml(c) THEN "output/cli-resolved-extension"
     ELSE ""
-----------------------------------------------------------------------------
Init ==
  /\ fs \in [at : Systems, insensitive : BOOLEAN, writable : BOOLEAN]
  /\ WellStored(fs)
  /\ request \in [path : Outputs, source : {"cli", "meta", "default"}]
  /\ stage = "start" /\ content = [i \in {NewInode} |-> "nothing"] /\ late = FALSE
  /\ target = <<>>

(* loadDiagram reads the diagram and asks where the page may go.           *)
Load ==
  /\ stage = "start"
  /\ stage' = IF Stat(fs, Input).kind = "file" /\ Refusal(fs, request) = ""
              THEN "loaded" ELSE "refused"
  /\ UNCHANGED <<fs, request, content, late, target>>

(* Another program makes, replaces or removes one entry.                   *)
Outside ==
  /\ stage \in {"loaded", "guarded"}
  /\ \E c \in Alterations :
       LET paths == (DOMAIN fs.at \ {c.at}) \cup (IF c.entry = NoEntry THEN {} ELSE {c.at})
       IN fs' = [fs EXCEPT !.at = [p \in paths |-> IF p = c.at THEN c.entry ELSE fs.at[p]]]
  /\ WellStored(fs')
  /\ late' = (late \/ stage = "guarded")
  /\ UNCHANGED <<request, stage, content, target>>

(* Mutant: the page is written where it was allowed when it was loaded.    *)
GuardAgainSkipped ==
  /\ stage = "loaded"
  /\ stage' = "guarded"
  /\ UNCHANGED <<fs, request, content, late, target>>

(* writeDiagram asks again,                                                *)
GuardAgain ==
  /\ stage = "loaded"
  /\ stage' = IF Refusal(fs, request) = "" THEN "guarded" ELSE "refused"
  /\ UNCHANGED <<fs, request, content, late, target>>

(* makes the directories that are absent and writes the page: into the    *)
(* file the path leads to, or into a new one.                              *)
Write ==
  /\ stage = "guarded"
  /\ LET c == Canonical(fs, request.path)
         e == Entry(fs, c)
         absent == Parents(c) \ DOMAIN fs.at
         blocked == c = Loop \/ e = Dir
                    \/ \E p \in Parents(c) : Entry(fs, p).kind = "file"
         ino == IF e.kind = "file" THEN e.ino ELSE NewInode
     IN \/ /\ blocked
           /\ stage' = "refused"
           /\ UNCHANGED <<fs, content, target>>
        \/ /\ ~blocked
           /\ stage' = "written"
           /\ target' = c
           /\ content' = [i \in {ino} |-> "page"]
           /\ fs' = [fs EXCEPT !.at =
                       [p \in DOMAIN fs.at \cup absent \cup {c} |->
                          IF p = c THEN File(ino) ELSE IF p \in absent THEN Dir ELSE fs.at[p]]]
  /\ UNCHANGED <<request, late>>

Next == Load \/ Outside \/ GuardAgain \/ Write

Spec == Init /\ [][Next]_vars
-----------------------------------------------------------------------------
Written == stage = "written" /\ ~late

(* Whatever other programs do up to the last check, the diagram is still   *)
(* there when its page is written: through no spelling, symbolic link or   *)
(* second name of the file is it the one that is overwritten.              *)
InputSurvives ==
  Written /\ Stat(fs, Input).kind = "file" =>
    Stat(fs, Input).ino \notin {i \in DOMAIN content : content[i] = "page"}

(* A diagram that names its own output writes an .html file below the      *)
(* working directory, whatever links lead there.                           *)
AuthoredStaysInside ==
  Written /\ request.source = "meta" =>
    IsHtml(target) /\ Inside(Canonical(fs, Cwd), target)
=============================================================================
