----------------------------- MODULE DocsBranch -----------------------------
(***************************************************************************)
(* scripts/update-docs-branch.js.  Every push to a release branch starts a *)
(* job that builds the docs of that version and puts them on the docs      *)
(* branch, which all minor versions share.  Jobs run at the same time,     *)
(* each in a clone of its own.                                             *)
(***************************************************************************)
EXTENDS Naturals, Sequences

CONSTANTS
    Minors,    \* the minor versions there are release branches for
    MaxPatch   \* bound: the last patch of each

ASSUME DocsAssumption ==
    /\ Minors \subseteq 0..99  \* Digits knows two
    /\ MaxPatch \in Nat

\* A version as package.json has it; a prerelease comes before the version itself.
DocsVersions == [minor : Minors, patch : 0..MaxPatch, prerelease : BOOLEAN]

VARIABLES
    pushed,  \* external: the versions pushed to their release branches
    waiting, \* external: those of them whose job has not begun
    fetched, \* of each job past its fetch, how long the docs branch was then
    docs     \* the docs branch of the remote: of which version each commit is

docsVars == <<pushed, waiting, fetched, docs>>

DocsInit ==
    /\ pushed = {} /\ waiting = {}
    /\ fetched = << >>
    /\ docs = << >>

Jobs == DOMAIN fetched

\* Versions are released in order on each branch.  The push starts the job.
PushRelease(v) ==
    /\ v \notin pushed
    /\ \A w \in pushed : w.minor = v.minor =>
          \/ w.patch < v.patch
          \/ w.patch = v.patch /\ w.prerelease
    /\ pushed' = pushed \cup {v}
    /\ waiting' = waiting \cup {v}
    /\ UNCHANGED <<fetched, docs>>

Digits(n) == IF n < 10 THEN <<n>> ELSE <<n \div 10, n % 10>>

\* The order of strings: by the first character that differs, and prefixes first.
StringLess(s, t) ==
    \E i \in DOMAIN t :
        /\ \A j \in 1..(i - 1) : j \in DOMAIN s /\ s[j] = t[j]
        /\ i \notin DOMAIN s \/ s[i] < t[i]

\* The version whose docs are on a branch.
PublishedVersion(branch) == branch[Len(branch)]

\* Mutant: publishes whatever is there.
NeverRefuses(v) == FALSE

\* "newer version is published": both minors are texts, and compared as such.
RefusesToUpdate(v) ==
    /\ docs # << >>
    /\ StringLess(Digits(v.minor), Digits(PublishedVersion(docs).minor))

\* git fetch, and what follows from what it found: the job ends, or builds the
\* docs and commits them on top of that, which nobody else sees.
FetchDocs(v) ==
    /\ v \in waiting
    /\ waiting' = waiting \ {v}
    /\ fetched' = IF v.prerelease \/ RefusesToUpdate(v) THEN fetched
                  ELSE [w \in Jobs \cup {v} |-> IF w = v THEN Len(docs) ELSE fetched[w]]
    /\ UNCHANGED <<pushed, docs>>

\* Mutant: pushes with --force.
PushDocsForced(v) ==
    /\ v \in Jobs
    /\ docs' = Append(SubSeq(docs, 1, fetched[v]), v)
    /\ fetched' = [w \in Jobs \ {v} |-> fetched[w]]
    /\ UNCHANGED <<pushed, waiting>>

\* git push --all origin: refused by the remote unless nobody pushed since the
\* fetch.  Either way the job is over.
PushDocs(v) ==
    /\ v \in Jobs
    /\ docs' = IF Len(docs) = fetched[v] THEN Append(docs, v) ELSE docs
    /\ fetched' = [w \in Jobs \ {v} |-> fetched[w]]
    /\ UNCHANGED <<pushed, waiting>>

DocsNext ==
    \E v \in DocsVersions : PushRelease(v) \/ FetchDocs(v) \/ PushDocs(v)

DocsSpec == DocsInit /\ [][DocsNext]_docsVars
-----------------------------------------------------------------------------
(***************************************************************************)
(* The docs branch only grows, and never from one minor version to an      *)
(* older one ("newer version is published"), whatever jobs run at the same *)
(* time and however old what they fetched is.                              *)
(***************************************************************************)
DocsNeverGoBack ==
    [][/\ Len(docs') >= Len(docs) /\ \A i \in DOMAIN docs : docs'[i] = docs[i]
       /\ docs # << >> =>
             PublishedVersion(docs').minor >= PublishedVersion(docs).minor]_docsVars
=============================================================================
