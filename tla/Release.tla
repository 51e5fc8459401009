------------------------------ MODULE Release ------------------------------
(***************************************************************************)
(* scripts/release.  "npm version" bumps the version and runs three        *)
(* scripts: one gives the changelog's entry its header, one copies the     *)
(* version to contracts/package.json, and one names the version in the     *)
(* comment of every contract that changed since the latest older tag.      *)
(* Then npm commits and tags.  A script that fails leaves uncommitted      *)
(* changes, on which npm does not begin; so all that is one step.          *)
(*                                                                         *)
(* There is one line of commits: a release branch is merged back before    *)
(* the next one is started.                                                *)
(***************************************************************************)
EXTENDS Naturals, Sequences, FiniteSets

CONSTANTS
    Contracts,  \* the files in contracts/ but the mocks
    Texts,      \* what is in one, its comment aside
    MaxTags     \* bound

ASSUME ReleaseAssumption == Texts # {} /\ MaxTags \in Nat

\* Some release; pre is 0 for a final version, n + 1 for the prerelease n.
FirstVersion == [minor |-> 0, patch |-> 0, pre |-> 0]

VARIABLES
    code,             \* of each contract: {}, or its text
    comment,          \* of each contract: {}, or the version it was last updated in
    version,          \* in package.json
    contractsVersion, \* in contracts/package.json
    changelog,        \* its headers, the newest first: of what, and whether dated
    tags              \* a set of commits

releaseVars == <<code, comment, version, contractsVersion, changelog, tags>>

ReleaseInit ==
    /\ code = [f \in Contracts |-> {CHOOSE x \in Texts : TRUE}]
    /\ comment = [f \in Contracts |-> {FirstVersion}]
    /\ version = FirstVersion
    /\ contractsVersion = FirstVersion
    /\ changelog = <<[of |-> {FirstVersion}, dated |-> TRUE]>>
    /\ tags = {[version |-> FirstVersion, code |-> code, comment |-> comment]}

\* semver.coerce: without the prerelease.
Coerce(v) == [v EXCEPT !.pre = 0]

\* semver.lt
Older(v, w) ==
    \/ v.minor < w.minor
    \/ v.minor = w.minor /\ v.patch < w.patch
    \/ Coerce(v) = Coerce(w) /\ v.pre # 0 /\ (w.pre = 0 \/ v.pre < w.pre)

LatestTag(candidates) ==
    CHOOSE t \in candidates : \A u \in candidates : ~Older(t.version, u.version)

\* Mutant: takes a prerelease of the same version for a base.
OlderTagsPlain(v) == {t \in tags : Older(t.version, v)}

\* "only consider older tags, ignore current prereleases"
OlderTags(v) == {t \in tags : Older(Coerce(t.version), v)}

\* git diff lists contracts that are gone as well.
ChangedSince(t) ==
    {f \in Contracts : /\ code[f] # {}
                       /\ code[f] # t.code[f] \/ comment[f] # t.comment[f]}

UpdateComments(v) ==
    [f \in Contracts |->
        IF f \in ChangedSince(LatestTag(OlderTags(v))) THEN {v} ELSE comment[f]]

\* A version has the suffix "rc" when it came from npm version preminor; npm
\* version prerelease gives none to the prereleases of a patch.
HasSuffix(v) == v.pre # 0 /\ v.patch = 0

\* The entry to be released is the first one "Unreleased" or of this version.
Named(v) == IF HasSuffix(v) THEN Coerce(v) ELSE v
EntriesFor(v) ==
    {i \in DOMAIN changelog : ~changelog[i].dated /\ changelog[i].of \in {{}, {Named(v)}}}

UpdateChangelog(v) ==
    LET first == CHOOSE i \in EntriesFor(v) : \A j \in EntriesFor(v) : i <= j
    IN  [changelog EXCEPT ![first] = [of |-> {Named(v)}, dated |-> ~HasSuffix(v)]]

\* npm version, which ends with an error when the changelog has no such entry.
NpmVersion(v) ==
    /\ Cardinality(tags) < MaxTags
    /\ EntriesFor(v) # {}
    /\ version' = v
    /\ contractsVersion' = v
    /\ changelog' = UpdateChangelog(v)
    /\ comment' = UpdateComments(v)
    /\ tags' = tags \cup {[version |-> v, code |-> code, comment |-> comment']}
    /\ UNCHANGED code

\* npm run release start minor, on master.
StartMinor ==
    /\ version.pre = 0
    /\ NpmVersion([minor |-> version.minor + 1, patch |-> 0, pre |-> 1])

\* npm run release rc
ReleaseCandidate ==
    NpmVersion([version EXCEPT !.patch = IF version.pre = 0 THEN @ + 1 ELSE @,
                               !.pre = @ + 1])

\* npm run release final
ReleaseFinal ==
    NpmVersion([version EXCEPT !.patch = IF version.pre = 0 THEN @ + 1 ELSE @,
                               !.pre = 0])

\* What developers commit: a new text, a removal, a file as it was, an entry.
EditContract(f) ==
    /\ \E x \in Texts : code' = [code EXCEPT ![f] = {x}]
    /\ UNCHANGED <<comment, version, contractsVersion, changelog, tags>>

RemoveContract(f) ==
    /\ code' = [code EXCEPT ![f] = {}]
    /\ comment' = [comment EXCEPT ![f] = {}]
    /\ UNCHANGED <<version, contractsVersion, changelog, tags>>

RestoreContract(f, t) ==
    /\ code' = [code EXCEPT ![f] = t.code[f]]
    /\ comment' = [comment EXCEPT ![f] = t.comment[f]]
    /\ UNCHANGED <<version, contractsVersion, changelog, tags>>

AddEntry ==
    /\ \A i \in DOMAIN changelog : changelog[i].dated
    /\ changelog' = <<[of |-> {}, dated |-> FALSE]>> \o changelog
    /\ UNCHANGED <<code, comment, version, contractsVersion, tags>>

ReleaseNext ==
    \/ StartMinor \/ ReleaseCandidate \/ ReleaseFinal
    \/ \E f \in Contracts :
          \/ EditContract(f) \/ RemoveContract(f)
          \/ \E t \in tags : RestoreContract(f, t)
    \/ AddEntry

ReleaseSpec == ReleaseInit /\ [][ReleaseNext]_releaseVars
-----------------------------------------------------------------------------
IsFinal(t) == t.version.pre = 0

\* The final release before t.
Previous(t) == LatestTag({u \in tags : IsFinal(u) /\ Older(u.version, t.version)})

(***************************************************************************)
(* In a final release no contract names a prerelease, and one that is not  *)
(* what it was in the final release before names this one, whatever was    *)
(* edited, taken back or moved between the candidates; npm's package has   *)
(* the version of the tag, and the changelog one dated header for it, the  *)
(* first.                                                                  *)
(***************************************************************************)
FinalReleasesConsistent ==
    /\ \A t \in tags : IsFinal(t) =>
          /\ \A f \in Contracts : \A v \in t.comment[f] : v.pre = 0
          /\ t.version # FirstVersion =>
                \A f \in Contracts :
                    t.code[f] \notin {{}, Previous(t).code[f]} => t.comment[f] = {t.version}
          /\ Cardinality({i \in DOMAIN changelog : changelog[i].of = {t.version}}) = 1
    /\ \A t \in tags : ~Older(version, t.version)
    /\ contractsVersion = version
    /\ version.pre = 0 =>
          \E i \in DOMAIN changelog :
              /\ changelog[i] = [of |-> {version}, dated |-> TRUE]
              /\ \A j \in 1..(i - 1) : changelog[j].of = {}
=============================================================================
