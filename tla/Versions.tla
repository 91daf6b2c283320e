------------------------------ MODULE Versions ------------------------------
(*****************************************************************************)
(* util/version: versions, parsed generic or semantic, changed by With...    *)
(* and compared. A number is a number, an identifier of a pre-release is one *)
(* of PreReleases: its text is told by its place in the order of strings,    *)
(* and value is the number it denotes, or NotANumber. Strings that do not    *)
(* parse are left out: Wellformed is what parse accepts.                     *)
(*                                                                           *)
(* A definition Name_Mistake is a mistake one could make in Name; nothing    *)
(* uses it but the experiments that put it in Name's place.                  *)
(*****************************************************************************)
EXTENDS Integers, Sequences, FiniteSets

CONSTANTS
  Components,  \* numbers of versions
  MaxLength,   \* bound: components of a generic version
  PreReleases, \* identifiers of pre-releases: [text, value]
  Readable,       \* the versions that come as strings
  MaxVersions  \* bound: versions held at once

NotANumber == -1

ASSUME VersionsAssumption ==
  /\ Components \subseteq Nat
  /\ MaxLength \in Nat /\ MaxVersions \in Nat
  /\ PreReleases \subseteq [text : Nat, value : Nat \cup {NotANumber}]

VARIABLES
  versions,  \* the versions the program holds, in the order they were made
  search     \* HighestSupportedVersion: the next version, and the highest so far

versionVars == <<versions, search>>

Lesser(a, b) == IF a < b THEN a ELSE b
Sequenced(S, low, high) == UNION {[1..n -> S] : n \in low..high}

\* parse: three components and perhaps a pre-release, or two components and
\* more; leading zeros are refused and never get here.
Wellformed ==
  [nums : Sequenced(Components, 3, 3), semver : {TRUE}, pre : Sequenced(PreReleases, 0, 2)]
  \cup [nums : Sequenced(Components, 2, MaxLength), semver : {FALSE}, pre : {<<>>}]

ASSUME GivenAssumption == Readable \subseteq Wellformed

Nowhere == [at |-> 0, found |-> {}, done |-> FALSE]
VersionInit == versions = <<>> /\ search = Nowhere

Major(v) == v.nums[1]
Minor(v) == v.nums[2]
Patch(v) == IF Len(v.nums) < 3 THEN 0 ELSE v.nums[3]

\* WithMajor, WithMinor and WithPatch; what a generic version has after its
\* patch goes.
With(v, part, n) == [v EXCEPT !.nums = [<<Major(v), Minor(v), Patch(v)>> EXCEPT ![part] = n]]
WithPreRelease(v, pre) == [v EXCEPT !.nums = <<Major(v), Minor(v), Patch(v)>>, !.pre = pre]

-----------------------------------------------------------------------------
(* Comparing *)

Signum(n) == IF n < 0 THEN -1 ELSE IF n > 0 THEN 1 ELSE 0

\* The first place where two sequences differ by the given comparison, and how.
FirstDifference(a, b, differ(_, _)) ==
  LET at == {i \in 1..Lesser(Len(a), Len(b)) : differ(a[i], b[i]) # 0}
  IN IF at = {} THEN 0
     ELSE LET i == CHOOSE j \in at : \A k \in at : j <= k IN differ(a[i], b[i])

OnlyZeros(nums) == \A i \in DOMAIN nums : nums[i] = 0

CompareNumbers(a, b) ==
  LET common == FirstDifference(a, b, LAMBDA m, n : Signum(m - n))
      rest(x, y) == SubSeq(x, Len(y) + 1, Len(x))
  IN IF common # 0 THEN common
     ELSE IF ~OnlyZeros(rest(a, b)) THEN 1
     ELSE IF ~OnlyZeros(rest(b, a)) THEN -1
     ELSE 0

\* Two identifiers: as numbers if both are, else as strings.
CompareIdentifiers(x, y) ==
  IF x.value # NotANumber /\ y.value # NotANumber THEN Signum(x.value - y.value)
  ELSE Signum(x.text - y.text)

ComparePreReleases(a, b) ==
  IF a = b THEN 0
  ELSE IF a = <<>> THEN 1
  ELSE IF b = <<>> THEN -1
  ELSE LET common == FirstDifference(a, b, CompareIdentifiers)
       IN IF common # 0 THEN common ELSE Signum(Len(a) - Len(b))

\* compareInternal.
Compare_ForgetsRelease(v, w) ==
  LET nums == CompareNumbers(v.nums, w.nums)
  IN IF nums # 0 \/ ~v.semver \/ ~w.semver THEN nums
     ELSE IF v.pre = <<>> /\ w.pre # <<>> THEN 1 ELSE Signum(Len(v.pre) - Len(w.pre))

Compare(v, w) ==
  LET nums == CompareNumbers(v.nums, w.nums)
  IN IF nums # 0 \/ ~v.semver \/ ~w.semver THEN nums ELSE ComparePreReleases(v.pre, w.pre)

AtLeast(v, low) == Compare(v, low) # -1
LessThan(v, w) == Compare(v, w) = -1
-----------------------------------------------------------------------------
(* The program *)

Hold(v) == Len(versions) < MaxVersions /\ versions' = Append(versions, v) /\ search' = Nowhere

Parse == \E v \in Readable : Hold(v)
Change ==
  \E i \in DOMAIN versions :
    \/ \E part \in 1..3, n \in Components : Hold(With(versions[i], part, n))
    \/ versions[i].semver /\ \E id \in PreReleases : Hold(WithPreRelease(versions[i], <<id>>))

\* HighestSupportedVersion reads the versions it is given as generic ones, from
\* the last to the first; those from 2 on are skipped.
Generic(v) == [v EXCEPT !.semver = FALSE, !.pre = <<>>]

StartSearch ==
  /\ versions # <<>> /\ search = Nowhere
  /\ search' = [Nowhere EXCEPT !.at = Len(versions)]
  /\ UNCHANGED versions

Kept_Last(found, v) == {v}
Kept(found, v) == IF \A h \in found : LessThan(h, v) THEN {v} ELSE found

\* In the end one from before 1 is an error, like none at all.
SearchStep ==
  /\ search.at > 0
  /\ LET v == Generic(versions[search.at])
         found == IF Major(v) > 1 THEN search.found ELSE Kept(search.found, v)
         last == search.at = 1
     IN search' = [at |-> search.at - 1, done |-> last,
                   found |-> {h \in found : last => Major(h) = 1}]
  /\ UNCHANGED versions

VersionNext == Parse \/ Change \/ StartSearch \/ SearchStep

VersionSpec == VersionInit /\ [][VersionNext]_versionVars

-----------------------------------------------------------------------------
(* Properties *)

\* Versions one algorithm compares: generic ones, or semantic ones of whose
\* identifiers at one place all or none are numbers. A version of each kind,
\* or identifiers of each kind, make the comparison intransitive.
Alike(S) ==
  \/ \A v \in S : ~v.semver
  \/ /\ \A v \in S : v.semver
     /\ \A v, w \in S : \A i \in 1..Lesser(Len(v.pre), Len(w.pre)) :
          (v.pre[i].value = NotANumber) = (w.pre[i].value = NotANumber)

HeldVersions == {versions[i] : i \in DOMAIN versions}

\* Comparing puts versions in an order: opposite the other way round, and what
\* is not older than something not older is not older, whatever was parsed or
\* made by With... (compareInternal).
ComparisonIsOrder ==
  /\ \A v, w \in HeldVersions : Compare(v, w) = -Compare(w, v)
  /\ \A u, v, w \in HeldVersions :
       Alike({u, v, w}) /\ AtLeast(u, v) /\ AtLeast(v, w) => AtLeast(u, w)

\* The version found is one of the 1.x given and none of these is later; there
\* is one unless none was given, whatever older and newer ones are among them
\* and in whatever order they come (HighestSupportedVersion).
HighestIsHighest ==
  search.done =>
    LET supported == {v \in {Generic(w) : w \in HeldVersions} : Major(v) = 1}
    IN /\ search.found \subseteq supported
       /\ search.found = {} <=> supported = {}
       /\ \A h \in search.found, v \in supported : AtLeast(h, v)
=============================================================================
