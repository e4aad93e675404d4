---------------------------- MODULE ReleaseOrder ----------------------------
(***************************************************************************)
(* What counts as a newer release: the comparison of versions, and the     *)
(* release manifests and local releases that are believed at all.  A       *)
(* numeric identifier is the sequence of its digits, as the code keeps it; *)
(* a word is its place in the order of words.                              *)
(***************************************************************************)
EXTENDS Integers, Sequences

CONSTANTS
  Versions,    \* [core, pre, build]: three digit sequences, identifiers or None, BOOLEAN
  None

(* What parseSemver lets through: numbers without leading zeros, at least  *)
(* one identifier behind the dash.                                         *)
Numerals == {d \in Seq(0..9) : d # <<>> /\ (d[1] = 0 => Len(d) = 1)}
Identifiers == [digits : Numerals] \cup [word : Nat]
Semver == [core : {c \in Seq(Numerals) : Len(c) = 3},
           pre : {None} \cup (Seq(Identifiers) \ {<<>>}), build : BOOLEAN]
ReleaseAssumption == Versions \subseteq Semver /\ None \notin {"update", "current"}

VARIABLES
  versions,    \* three versions to be compared
  manifest,    \* the manifest of the second as the server sent it
  offer        \* what an installation of the first makes of it

vars == <<versions, manifest, offer>>

Sign(n) == IF n < 0 THEN -1 ELSE IF n > 0 THEN 1 ELSE 0
-----------------------------------------------------------------------------
(* Text order of digit sequences.                                          *)
TextOrder(a, b) ==
  LET differ == {i \in DOMAIN a \cap DOMAIN b : a[i] # b[i]}
  IN IF differ = {} THEN Sign(Len(a) - Len(b))
     ELSE LET i == CHOOSE j \in differ : \A k \in differ : j <= k IN Sign(a[i] - b[i])

(* Mutant: numbers are compared as text.                                   *)
CompareNumericAsText(a, b) == TextOrder(a, b)

(* compareNumericIdentifiers: the longer number is the greater one, which  *)
(* is right because leading zeros are refused by parseSemver.              *)
CompareNumeric(a, b) == IF Len(a) # Len(b) THEN Sign(Len(a) - Len(b)) ELSE TextOrder(a, b)

(* comparePrerelease, identifier by identifier.                            *)
Numeric(x) == "digits" \in DOMAIN x
CompareIdentifier(x, y) ==
  CASE Numeric(x) /\ Numeric(y) -> CompareNumeric(x.digits, y.digits)
    [] Numeric(x) /\ ~Numeric(y) -> -1
    [] ~Numeric(x) /\ Numeric(y) -> 1
    [] OTHER -> Sign(x.word - y.word)
FirstDifference(results, otherwise) ==
  LET some == {i \in DOMAIN results : results[i] # 0}
  IN IF some = {} THEN otherwise ELSE results[CHOOSE i \in some : \A j \in some : i <= j]
ComparePrerelease(a, b) ==
  CASE a = None /\ b = None -> 0
    [] a = None /\ b # None -> 1
    [] a # None /\ b = None -> -1
    [] OTHER -> LET n == IF Len(a) < Len(b) THEN Len(a) ELSE Len(b)
                IN FirstDifference([i \in 1..n |-> CompareIdentifier(a[i], b[i])], Sign(Len(a) - Len(b)))
CompareSemver(v, w) ==
  FirstDifference([i \in 1..3 |-> CompareNumeric(v.core[i], w.core[i])], ComparePrerelease(v.pre, w.pre))

Channel(v) == IF v.pre # None THEN "development" ELSE "stable"
StableCore(v) == v.pre = None /\ ~v.build

(* validateStableUpdateManifest, validateReleaseNotesUrl: shapes and texts *)
(* apart, the tag and the notes belong to the announced stable version.    *)
Believed(m) ==
  /\ m.identity /\ m.channel = "stable"
  /\ StableCore(m.version)
  /\ m.ref = m.version /\ m.notes = m.version /\ m.dated

(* validateLocalRelease *)
LocalRelease(v, channel) == channel = Channel(v)
-----------------------------------------------------------------------------
Manifests(v, w) ==
  [identity : BOOLEAN, channel : {"stable", "development"}, version : {v}, ref : {v, w}, notes : {v, w}, dated : BOOLEAN]

Init == /\ versions \in Versions \X Versions \X Versions
        /\ manifest = None
        /\ offer = None

Receive == /\ manifest = None
           /\ manifest' \in Manifests(versions[2], versions[3])
           /\ UNCHANGED <<versions, offer>>

Decide ==
  /\ manifest # None /\ offer = None
  /\ \E channel \in {"stable", "development"} :
       offer' = IF ~LocalRelease(versions[1], channel) THEN "invalid-installation"
                ELSE IF ~Believed(manifest) THEN "invalid-manifest"
                ELSE IF CompareSemver(manifest.version, versions[1]) > 0 THEN "update"
                ELSE "current"
  /\ UNCHANGED <<versions, manifest>>

Done == offer # None /\ UNCHANGED vars

Next == Receive \/ Decide \/ Done
Spec == Init /\ [][Next]_vars
-----------------------------------------------------------------------------
(* The reference: a version as the list of its numbers and identifiers,    *)
(* each with a rank, compared place by place; the end of a list counts     *)
(* less than any identifier, a word more than a number, and a version      *)
(* without a list more than one with a list.                               *)
Value(digits) ==
  LET upTo[n \in 0..Len(digits)] == IF n = 0 THEN 0 ELSE 10 * upTo[n - 1] + digits[n] IN upTo[Len(digits)]
Place(v, i) ==
  IF i <= 3 THEN <<1, Value(v.core[i])>>
  ELSE IF v.pre = None THEN <<3, 0>>
  ELSE IF i - 3 \notin DOMAIN v.pre THEN <<0, 0>>
  ELSE LET x == v.pre[i - 3] IN IF Numeric(x) THEN <<1, Value(x.digits)>> ELSE <<2, x.word>>
Below(x, y) == x[1] < y[1] \/ (x[1] = y[1] /\ x[2] < y[2])
Places(v) == 1 .. (4 + IF v.pre = None THEN 0 ELSE Len(v.pre))
Precedes(v, w) ==
  \E i \in Places(v) : Below(Place(v, i), Place(w, i)) /\ \A j \in 1..(i - 1) : Place(v, j) = Place(w, j)

(* An installation is only offered a stable release that really is newer,  *)
(* under the tag and notes of that very release, and it is offered one     *)
(* whenever a believed manifest announces it; the order behind it is the   *)
(* order of the numbers, so it never contradicts itself over three         *)
(* versions (compareSemver, validateStableUpdateManifest).                 *)
OffersAreUpgrades ==
  /\ offer = "update" =>
       /\ Precedes(versions[1], manifest.version)
       /\ manifest.version.pre = None /\ ~manifest.version.build
       /\ manifest.ref = manifest.version /\ manifest.notes = manifest.version
  /\ offer = "current" => ~Precedes(versions[1], manifest.version)
  /\ manifest = None =>
       /\ CompareSemver(versions[1], versions[2]) = -CompareSemver(versions[2], versions[1])
       /\ CompareSemver(versions[1], versions[2]) < 0 /\ CompareSemver(versions[2], versions[3]) < 0
            => CompareSemver(versions[1], versions[3]) < 0
=============================================================================
