----------------------------- MODULE CacheGuard -----------------------------
(***************************************************************************)
(* How the update check touches its cache directory, which others may      *)
(* change under it: before and after a mutation it looks at the identity   *)
(* of the directories on the way and of the entry itself, and once it has  *)
(* seen one change that no other command would make it trusts the          *)
(* directory no more.  An operation is the sequence of its single calls on *)
(* the file system; between two of them the surroundings may change.       *)
(***************************************************************************)
EXTENDS Naturals, Sequences

CONSTANTS
  Operations,  \* the sequences of operations one command may run
  MaxSwaps     \* how often something is replaced from outside

(* A command prepares its directory before anything else, and once.        *)
GuardAssumption ==
  /\ MaxSwaps \in Nat
  /\ \A ops \in Operations :
       /\ ops \in Seq({"prepare", "mkdir", "write", "rename", "remove", "read"})
       /\ \A i \in 1 .. Len(ops) : ops[i] = "prepare" <=> i = 1

VARIABLES
  disk,     \* what is at each path
  trusted,  \* token.trusted
  snap,     \* the identities this command took note of
  queue,    \* the operations it has still to run, the current one first
  step,     \* the calls the current operation has made
  acted,    \* the paths the last mutation acted on, with what was there
  outcome,  \* how the last operation ended
  swaps

vars == <<disk, trusted, snap, queue, step, acted, outcome, swaps>>

(* The cache directory with those above it; a directory between it and the *)
(* entry; the entry; and where it is renamed to or what is created.        *)
Paths == {"root", "parent", "source", "dest"}

(* An object is the one the command knows, another safe one, or a symbolic *)
(* link and the like, which no validation accepts.                         *)
Objects == {"own", "foreign", "unsafe", "none"}

Below(p) ==
  CASE p = "root" -> Paths
    [] p = "parent" -> Paths \ {"root"}
    [] OTHER -> {p}

(* isSameFile *)
Same(p) == snap[p] = disk[p]

(* assertSafeDirectory, assertSafeCacheEntry, assertRenameableCacheEntry   *)
Safe(p) == disk[p] \in {"own", "foreign"}
-----------------------------------------------------------------------------
(* The calls of the operations.                                            *)

Context == <<"root", "parent", "root">>                   \* verifyMutationContext
Capture == <<"root", "noteParent", "parent", "root">>     \* captureMutationParentSnapshots
Stable(first, again) == <<first, "root", again>>          \* stableCacheEntry

(* Mutant: what was moved is not compared with what was inspected.         *)
ProgramUnverified(o) ==
  CASE o = "prepare" -> <<"makeRoot", "noteRoot", "root">>
    [] o = "mkdir" -> Capture \o Context \o <<"create">> \o Context
    [] o = "write" -> Capture \o Context \o <<"create">> \o Context
    [] o = "rename" ->
         Capture \o Stable("noteSource", "source") \o Context \o Stable("source", "source")
           \o <<"rename">> \o Context
    [] o = "remove" ->
         Capture \o <<"noteSource">> \o Stable("source", "source") \o Context
           \o Stable("source", "source") \o <<"remove">> \o Context
    [] o = "read" ->
         <<"root">> \o Stable("noteSource", "source") \o <<"read">>
           \o Stable("source", "source") \o <<"root">>

(* guardedCacheMutation: context, the entry once more, the mutation,       *)
(* context, the outcome, context.  prepareCacheDirectory; cacheMkdir,      *)
(* cacheWriteFile, cacheRename, cacheRm; guardedCacheRead around           *)
(* guardedCacheEntryRead.                                                  *)
Program(o) ==
  CASE o = "prepare" -> <<"makeRoot", "noteRoot", "root">>
    [] o = "mkdir" ->
         Capture \o Context \o <<"create">> \o Context
           \o Stable("safeDest", "safeDest") \o Context
    [] o = "write" ->
         Capture \o Context \o <<"create">> \o Context \o Stable("dest", "dest") \o Context
    [] o = "rename" ->
         Capture \o Stable("noteSource", "source") \o Context \o Stable("source", "source")
           \o <<"rename">> \o Context \o <<"sourceGone">> \o Stable("dest", "dest") \o Context
    [] o = "remove" ->
         Capture \o <<"noteSource">> \o Stable("source", "source") \o Context
           \o Stable("source", "source") \o <<"remove">> \o Context \o <<"sourceGone">>
           \o Context
    [] o = "read" ->
         <<"root">> \o Stable("noteSource", "source") \o <<"read">>
           \o Stable("source", "source") \o <<"root">>

Current == Head(queue)
Running == queue # <<>>
Call == Program(Current)[step + 1]
-----------------------------------------------------------------------------
Init ==
  /\ \E root \in {"own", "none"} :
       disk = [p \in Paths |-> IF p = "root" THEN root
                               ELSE IF p = "dest" \/ root = "none" THEN "none" ELSE "own"]
  /\ trusted = TRUE
  /\ snap = [p \in Paths |-> "none"]
  /\ queue \in Operations
  /\ step = 0
  /\ acted = [p \in {} |-> "none"]
  /\ outcome = "none"
  /\ swaps = 0

(* Somebody replaces or removes what is at a path, and all below it.       *)
Swap(p) ==
  /\ swaps < MaxSwaps /\ disk[p] # "none"
  /\ \E o \in {"foreign", "unsafe", "none"} :
       disk' = [q \in Paths |->
                  IF q = p THEN o
                  ELSE IF q \in Below(p) /\ disk[q] # "none"
                       THEN (IF o = "foreign" THEN "foreign" ELSE "none") ELSE disk[q]]
  /\ swaps' = swaps + 1
  /\ UNCHANGED <<trusted, snap, queue, step, acted, outcome>>

(* The next operation of the command.                                      *)
End(result) ==
  /\ queue' = Tail(queue) /\ step' = 0
  /\ outcome' = result

Pass ==
  IF step + 1 = Len(Program(Current)) THEN End("done")
  ELSE step' = step + 1 /\ UNCHANGED <<queue, outcome>>

(* invalidateCacheToken *)
Distrust == trusted' = FALSE /\ End("untrusted")
Trusting == UNCHANGED trusted

(* verifyCacheToken *)
VerifyRoot ==
  /\ Running /\ Call = "root"
  /\ IF trusted /\ Safe("root") /\ Same("root") THEN Pass /\ Trusting ELSE Distrust
  /\ UNCHANGED <<disk, snap, acted, swaps>>

(* A directory on the way is made when it is missing.                      *)
MakeRoot ==
  /\ Running /\ Call = "makeRoot"
  /\ disk' = IF disk["root"] = "none" THEN [disk EXCEPT !["root"] = "own", !["parent"] = "own",
                                                        !["source"] = "own"] ELSE disk
  /\ Pass /\ Trusting
  /\ UNCHANGED <<snap, acted, swaps>>

Note(p) ==
  /\ snap' = [snap EXCEPT ![p] = disk[p]]
  /\ Pass /\ Trusting

NoteRoot ==
  /\ Running /\ Call = "noteRoot"
  /\ IF Safe("root") THEN Note("root") ELSE End("failed") /\ Trusting /\ UNCHANGED snap
  /\ UNCHANGED <<disk, acted, swaps>>

NoteParent ==
  /\ Running /\ Call = "noteParent"
  /\ IF Safe("parent") THEN Note("parent") ELSE Distrust /\ UNCHANGED snap
  /\ UNCHANGED <<disk, acted, swaps>>

(* A parent that changes is another command's doing: an operation race.    *)
VerifyParent ==
  /\ Running /\ Call = "parent"
  /\ IF Safe("parent") /\ Same("parent") THEN Pass ELSE End("raced")
  /\ Trusting
  /\ UNCHANGED <<disk, snap, acted, swaps>>

(* An entry that is missing was moved by another command.                  *)
NoteSource ==
  /\ Running /\ Call = "noteSource"
  /\ IF disk["source"] = "none" THEN End("missing") /\ Trusting /\ UNCHANGED snap
     ELSE IF Safe("source") THEN Note("source") ELSE Distrust /\ UNCHANGED snap
  /\ UNCHANGED <<disk, acted, swaps>>

VerifySource ==
  /\ Running /\ Call = "source"
  /\ IF disk["source"] = "none" /\ Current # "remove" THEN End("missing") /\ Trusting
     ELSE IF Safe("source") /\ Same("source") THEN Pass /\ Trusting ELSE Distrust
  /\ UNCHANGED <<disk, snap, acted, swaps>>

(* Mutations; one that fails is followed by a look at the context, whose   *)
(* error takes precedence.                                                 *)

Acts(ps) == acted' = [p \in ps |-> disk[p]]

FailMutation ==
  /\ IF ~(Safe("root") /\ Same("root")) THEN Distrust
     ELSE IF ~(Safe("parent") /\ Same("parent")) THEN End("raced") /\ Trusting
     ELSE End("failed") /\ Trusting
  /\ UNCHANGED <<disk, snap, acted>>

Create ==
  /\ Running /\ Call = "create"
  /\ IF Safe("root") /\ Safe("parent") /\ disk["dest"] = "none"
     THEN /\ Acts({"root", "parent"})
          /\ disk' = [disk EXCEPT !["dest"] = "own"]
          /\ snap' = [snap EXCEPT !["dest"] = "own"]
          /\ Pass /\ Trusting
     ELSE FailMutation
  /\ UNCHANGED swaps

Rename ==
  /\ Running /\ Call = "rename"
  /\ IF disk["source"] # "none"
     THEN /\ Acts({"root", "parent", "source"})
          /\ disk' = [disk EXCEPT !["dest"] = disk["source"], !["source"] = "none"]
          /\ snap' = [snap EXCEPT !["dest"] = snap["source"]]
          /\ Pass /\ Trusting
     ELSE FailMutation
  /\ UNCHANGED swaps

(* What is removed leaves nothing to look at: only the directories count.  *)
Remove ==
  /\ Running /\ Call = "remove"
  /\ IF disk["source"] # "none"
     THEN /\ Acts({"root", "parent"})
          /\ disk' = [disk EXCEPT !["source"] = "none"]
          /\ Pass /\ Trusting /\ UNCHANGED snap
     ELSE FailMutation
  /\ UNCHANGED swaps

ReadEntry ==
  /\ Running /\ Call = "read"
  /\ Acts({"root", "source"})
  /\ Pass /\ Trusting
  /\ UNCHANGED <<disk, snap, swaps>>

(* assertCacheTargetAbsent *)
VerifyGone ==
  /\ Running /\ Call = "sourceGone"
  /\ IF disk["source"] = "none" THEN Pass /\ Trusting ELSE Distrust
  /\ UNCHANGED <<disk, snap, acted, swaps>>

(* What was created or moved is there: any safe directory after mkdir, the *)
(* very object after a write or a rename.                                  *)
VerifyDest ==
  /\ Running /\ Call \in {"dest", "safeDest"}
  /\ IF Safe("dest") /\ (Call = "dest" => Same("dest")) THEN Pass /\ Trusting ELSE Distrust
  /\ UNCHANGED <<disk, snap, acted, swaps>>

Next ==
  \/ VerifyRoot \/ MakeRoot \/ NoteRoot \/ NoteParent \/ VerifyParent \/ NoteSource
  \/ VerifySource \/ Create \/ Rename \/ Remove \/ ReadEntry \/ VerifyGone \/ VerifyDest
  \/ \E p \in Paths : Swap(p)

Spec == Init /\ [][Next]_vars
-----------------------------------------------------------------------------
TypeOK ==
  /\ disk \in [Paths -> Objects]
  /\ snap \in [Paths -> Objects]
  /\ trusted \in BOOLEAN
  /\ \A p \in DOMAIN acted : acted[p] \in Objects
  /\ outcome \in {"none", "done", "untrusted", "raced", "missing", "failed"}
  /\ Running => step < Len(Program(Current))

(* When one thing is replaced from outside, an operation that reports      *)
(* success acted on nothing but what the command had inspected, save that  *)
(* a removal may take what replaced the entry (guardedCacheMutation,       *)
(* guardedCacheEntryRead).                                                 *)
DoneMeansInspected ==
  step = 0 /\ outcome = "done" => \A p \in DOMAIN acted : acted[p] = snap[p]

(* After the command has distrusted its cache directory it changes nothing *)
(* in it (verifyDirectorySnapshots looks at token.trusted first).          *)
NoMutationAfterDistrust == [][acted' # acted => trusted]_vars
=============================================================================
