---------------------------- MODULE ScriptProofs ----------------------------
(***************************************************************************)
(* Proofs about OpenZeppelin's scripts: the publication of docs, for every *)
(* set of minor versions and number of jobs; the migration of imports, for *)
(* every set of files and of paths; and the releases, for any number of    *)
(* tags, contracts and texts.                                              *)
(***************************************************************************)
EXTENDS DocsBranch, MigrateImports, Release, NumberProofs

-----------------------------------------------------------------------------
(* Docs                                                                    *)

\* All minor versions have one digit, or all have two: then the texts that the
\* script compares are ordered as the numbers are.
SameDigits == \A m, n \in Minors : Len(Digits(m)) = Len(Digits(n))

LEMMA DigitsCompare ==
    ASSUME NEW m \in 0..99, NEW n \in 0..99, Len(Digits(m)) = Len(Digits(n)), m < n
    PROVE  StringLess(Digits(m), Digits(n))
<1>1. CASE m < 10 /\ n < 10
  <2>1. Digits(m) = <<m>> /\ Digits(n) = <<n>>
    BY <1>1 DEF Digits
  <2>2. 1 \in DOMAIN Digits(n) /\ Digits(m)[1] < Digits(n)[1]
    BY <2>1
  <2>3. \A j \in 1..(1 - 1) : FALSE
    OBVIOUS
  <2> QED
    BY <2>2, <2>3 DEF StringLess
<1>2. CASE m >= 10 /\ n >= 10
  <2>1. Digits(m) = <<m \div 10, m % 10>> /\ Digits(n) = <<n \div 10, n % 10>>
    BY <1>2 DEF Digits
  <2> DEFINE a == m \div 10  b == m % 10  c == n \div 10  d == n % 10
  <2>2. a < c \/ (a = c /\ b < d)
    OBVIOUS
  <2>3. Digits(m) = <<a, b>> /\ Digits(n) = <<c, d>>
    BY <2>1
  <2> HIDE DEF a, b, c, d
  <2>4. CASE a < c
    <3>1. 1 \in DOMAIN Digits(n) /\ Digits(m)[1] < Digits(n)[1]
      BY <2>3, <2>4
    <3>2. \A j \in 1..(1 - 1) : FALSE
      OBVIOUS
    <3> QED
      BY <3>1, <3>2 DEF StringLess
  <2>5. CASE a = c /\ b < d
    <3>1. 2 \in DOMAIN Digits(n) /\ Digits(m)[2] < Digits(n)[2]
      BY <2>3, <2>5
    <3>2. \A j \in 1..(2 - 1) : j \in DOMAIN Digits(m) /\ Digits(m)[j] = Digits(n)[j]
      BY <2>3, <2>5
    <3> QED
      BY <3>1, <3>2 DEF StringLess
  <2> QED
    BY <2>2, <2>4, <2>5
<1>3. m < 10 <=> n < 10
  <2>1. ASSUME NEW k \in 0..99
        PROVE  k < 10 <=> Len(Digits(k)) = 1
    BY DEF Digits
  <2> QED
    BY <2>1
<1> QED
  BY <1>1, <1>2, <1>3

\* What a job fetched is in the past of the branch; and as long as it is all of
\* it, the job is not of an older minor version.
DocsInv ==
    /\ docs \in Seq(DocsVersions)
    /\ \A v \in Jobs :
          /\ v \in DocsVersions
          /\ fetched[v] \in 0..Len(docs)
          /\ fetched[v] = Len(docs) /\ docs # << >> =>
                v.minor >= PublishedVersion(docs).minor

LEMMA LastVersion ==
    ASSUME DocsInv, docs # << >>
    PROVE  PublishedVersion(docs) \in DocsVersions
<1>1. docs \in Seq(DocsVersions)
  BY DEF DocsInv
<1>2. Len(docs) \in 1..Len(docs)
  BY <1>1
<1> QED
  BY <1>1, <1>2 DEF PublishedVersion

LEMMA MinorIsNumber ==
    ASSUME NEW v \in DocsVersions
    PROVE  v.minor \in Minors /\ v.minor \in 0..99
BY DocsAssumption DEF DocsVersions

LEMMA DocsInvInit == DocsInit => DocsInv
BY DEF DocsInit, DocsInv, Jobs

\* What is on the branch stays there.
Grows == Len(docs') >= Len(docs) /\ \A i \in DOMAIN docs : docs'[i] = docs[i]

\* A commit on top of the docs, and what it is for the jobs.
LEMMA CommitOnTop ==
    ASSUME DocsInv, NEW v \in Jobs, docs' = Append(docs, v)
    PROVE  /\ docs' \in Seq(DocsVersions)
           /\ Len(docs') = Len(docs) + 1
           /\ docs' # << >> /\ PublishedVersion(docs') = v
           /\ Grows
<1>1. docs \in Seq(DocsVersions) /\ v \in DocsVersions /\ Len(docs) \in Nat
  BY DEF DocsInv
<1>2. /\ docs' \in Seq(DocsVersions) /\ Len(docs') = Len(docs) + 1
      /\ docs'[Len(docs) + 1] = v
      /\ \A i \in 1..Len(docs) : docs'[i] = docs[i]
  BY <1>1
<1> QED
  BY <1>1, <1>2 DEF PublishedVersion, Grows

LEMMA DocsInvStep ==
    ASSUME SameDigits
    PROVE  DocsInv /\ [DocsNext]_docsVars => DocsInv'
<1> SUFFICES ASSUME DocsInv, [DocsNext]_docsVars
             PROVE  DocsInv'
  OBVIOUS
<1>0. Len(docs) \in Nat
  BY DEF DocsInv
<1>1. ASSUME NEW v \in DocsVersions, PushRelease(v)
      PROVE  DocsInv'
  BY <1>1 DEF PushRelease, DocsInv, Jobs
<1>2. ASSUME NEW v \in DocsVersions, FetchDocs(v)
      PROVE  DocsInv'
  <2>0. docs' = docs
    BY <1>2 DEF FetchDocs
  <2>1. CASE fetched' = fetched
    BY <2>0, <2>1 DEF DocsInv, Jobs
  <2>2. CASE /\ ~RefusesToUpdate(v)
             /\ fetched' = [w \in Jobs \cup {v} |-> IF w = v THEN Len(docs) ELSE fetched[w]]
    <3>1. docs # << >> => v.minor >= PublishedVersion(docs).minor
      <4> SUFFICES ASSUME docs # << >>, ~(v.minor >= PublishedVersion(docs).minor)
                   PROVE  FALSE
        OBVIOUS
      <4>1. /\ v.minor \in Minors /\ v.minor \in 0..99
            /\ PublishedVersion(docs).minor \in Minors
            /\ PublishedVersion(docs).minor \in 0..99
        BY LastVersion, MinorIsNumber
      <4>2. v.minor < PublishedVersion(docs).minor
        <5>1. \A m, n \in 0..99 : ~(m >= n) => m < n
          OBVIOUS
        <5> QED
          BY <4>1, <5>1, Zenon
      <4>3. StringLess(Digits(v.minor), Digits(PublishedVersion(docs).minor))
        BY <4>1, <4>2, DigitsCompare DEF SameDigits
      <4> QED
        BY <2>2, <4>3 DEF RefusesToUpdate
    <3>2. Jobs' = Jobs \cup {v}
      BY <2>2 DEF Jobs
    <3>3. ASSUME NEW w \in Jobs \cup {v}
          PROVE  /\ w \in DocsVersions
                 /\ fetched'[w] \in 0..Len(docs)
                 /\ fetched'[w] = Len(docs) /\ docs # << >> =>
                       w.minor >= PublishedVersion(docs).minor
      BY <1>0, <2>2, <3>1 DEF DocsInv
    <3> QED
      BY <2>0, <3>2, <3>3 DEF DocsInv
  <2> QED
    BY <1>2, <2>1, <2>2 DEF FetchDocs
<1>3. ASSUME NEW v \in DocsVersions, PushDocs(v)
      PROVE  DocsInv'
  <2>0. /\ v \in Jobs /\ Jobs' = Jobs \ {v}
        /\ \A w \in Jobs \ {v} : fetched'[w] = fetched[w]
    BY <1>3 DEF PushDocs, Jobs
  <2>1. CASE docs' = docs
    BY <2>0, <2>1 DEF DocsInv
  <2>2. CASE docs' = Append(docs, v)
    <3>1. docs' \in Seq(DocsVersions) /\ Len(docs') = Len(docs) + 1
      BY <2>0, <2>2, CommitOnTop
    <3>2. ASSUME NEW w \in Jobs \ {v}
          PROVE  /\ w \in DocsVersions
                 /\ fetched'[w] \in 0..Len(docs')
                 /\ fetched'[w] # Len(docs')
      <4>1. fetched[w] \in 0..Len(docs) /\ w \in DocsVersions
        BY DEF DocsInv
      <4> QED
        BY <1>0, <2>0, <3>1, <4>1
    <3> QED
      BY <2>0, <3>1, <3>2 DEF DocsInv
  <2> QED
    BY <1>3, <2>1, <2>2 DEF PushDocs
<1>4. CASE UNCHANGED docsVars
  BY <1>4 DEF docsVars, DocsInv, Jobs
<1> QED
  BY <1>1, <1>2, <1>3, <1>4 DEF DocsNext

LEMMA DocsStep ==
    DocsInv /\ [DocsNext]_docsVars =>
        [/\ Grows
         /\ docs # << >> =>
               PublishedVersion(docs').minor >= PublishedVersion(docs).minor]_docsVars
<1> SUFFICES ASSUME DocsInv, NEW v \in DocsVersions,
                    PushRelease(v) \/ FetchDocs(v) \/ PushDocs(v)
             PROVE  /\ Grows
                    /\ docs # << >> =>
                          PublishedVersion(docs').minor >= PublishedVersion(docs).minor
  BY DEF DocsNext
<1>1. docs \in Seq(DocsVersions)
  BY DEF DocsInv
<1>2. CASE docs' = docs
  <2>1. Grows
    BY <1>1, <1>2 DEF Grows
  <2>2. docs # << >> => PublishedVersion(docs).minor \in Nat
    <3> SUFFICES ASSUME docs # << >>
                 PROVE  PublishedVersion(docs).minor \in Nat
      OBVIOUS
    <3>1. PublishedVersion(docs).minor \in 0..99
      BY LastVersion, MinorIsNumber
    <3>2. \A n \in 0..99 : n \in Nat
      OBVIOUS
    <3> QED
      BY <3>1, <3>2, Zenon
  <2> QED
    BY <1>2, <2>1, <2>2
<1>3. CASE v \in Jobs /\ Len(docs) = fetched[v] /\ docs' = Append(docs, v)
  BY <1>3, CommitOnTop DEF DocsInv
<1> QED
  BY <1>2, <1>3 DEF PushRelease, FetchDocs, PushDocs

\* Any number of jobs, run at the same time, never put the docs of an older minor
\* version over those of a newer one, as long as the minors have as many digits.
THEOREM DocsOnlyGoForward ==
    ASSUME SameDigits
    PROVE  DocsSpec => DocsNeverGoBack
<1>1. DocsInv /\ [DocsNext]_docsVars => DocsInv'
  BY DocsInvStep
<1> QED
  BY <1>1, DocsInvInit, DocsStep, PTL DEF DocsSpec, DocsNeverGoBack, Grows

-----------------------------------------------------------------------------
(* Migration                                                               *)

\* A text in which no mention is of an old path.
Clean(source) == \A i \in DOMAIN source : ~IsOld(source[i])

LEMMA NewMentionFacts ==
    ASSUME NEW m \in Mentions
    PROVE  /\ NewMention(m) \in Mentions
           /\ NewMention(NewMention(m)) = NewMention(m)
           /\ IsOld(m) => NewMention(m) # m
<1>1. CASE IsOld(m)
  <2>1. m[1] \in Packages /\ m[2] \in OldPaths /\ PathUpdates[m[2]] \in NewPaths
    BY <1>1, PathsAssumption DEF IsOld, Mentions
  <2>2. NewMention(m) = <<m[1], PathUpdates[m[2]]>>
    BY <1>1 DEF NewMention
  <2>3. NewMention(m) \in Mentions /\ ~IsOld(NewMention(m))
    BY <2>1, <2>2, PathsAssumption DEF Mentions, IsOld
  <2> QED
    BY <1>1, <2>3 DEF NewMention
<1>2. CASE ~IsOld(m)
  BY <1>2 DEF NewMention
<1> QED
  BY <1>1, <1>2

\* A text is updated mention by mention: what it means stays.
LEMMA UpdateKeepsMeaning ==
    ASSUME NEW s \in Seq(Mentions)
    PROVE  /\ UpdateImportPaths(s) \in Seq(Mentions)
           /\ DOMAIN UpdateImportPaths(s) = DOMAIN s
           /\ \A i \in DOMAIN s : NewMention(UpdateImportPaths(s)[i]) = NewMention(s[i])
<1>1. Len(s) \in Nat /\ DOMAIN s = 1..Len(s) /\ \A i \in DOMAIN s : s[i] \in Mentions
  OBVIOUS
<1>2. DOMAIN UpdateImportPaths(s) = DOMAIN s
  BY DEF UpdateImportPaths
<1>3. ASSUME NEW i \in DOMAIN s
      PROVE  /\ UpdateImportPaths(s)[i] \in Mentions
             /\ NewMention(UpdateImportPaths(s)[i]) = NewMention(s[i])
  <2>1. UpdateImportPaths(s)[i] = s[i] \/ UpdateImportPaths(s)[i] = NewMention(s[i])
    BY DEF UpdateImportPaths
  <2> QED
    BY <1>1, <2>1, NewMentionFacts
<1>4. UpdateImportPaths(s) = [i \in 1..Len(s) |-> UpdateImportPaths(s)[i]]
  BY <1>1 DEF UpdateImportPaths
<1>5. [i \in 1..Len(s) |-> UpdateImportPaths(s)[i]] \in Seq(Mentions)
  BY <1>1, <1>3
<1> QED
  BY <1>2, <1>3, <1>4, <1>5

\* A text that an update leaves alone has no old path: the first mention of one
\* would have been replaced.
LEMMA NothingToUpdate ==
    ASSUME NEW s \in Seq(Mentions), UpdateImportPaths(s) = s
    PROVE  Clean(s)
<1> DEFINE T == {i \in DOMAIN s : IsOld(s[i])}
<1>1. DOMAIN s = 1..Len(s) /\ Len(s) \in Nat /\ \A i \in DOMAIN s : s[i] \in Mentions
  OBVIOUS
<1> SUFFICES ASSUME T # {}
             PROVE  FALSE
  BY DEF Clean
<1>2. T \subseteq Nat
  BY <1>1
<1>3. PICK i \in T : \A j \in T : i <= j
  BY <1>2, LeastNatural
<1>4. i \in DOMAIN s /\ IsOld(s[i])
  BY <1>3
<1>5. ~ \E j \in 1..(i - 1) : s[j] = s[i]
  <2> SUFFICES ASSUME NEW j \in 1..(i - 1), s[j] = s[i]
               PROVE  FALSE
    OBVIOUS
  <2>1. j \in DOMAIN s /\ j < i
    BY <1>1, <1>4
  <2>2. j \in T
    BY <1>4, <2>1
  <2> QED
    BY <1>1, <1>3, <1>4, <2>1, <2>2
<1>6. UpdateImportPaths(s)[i] = NewMention(s[i])
  BY <1>4, <1>5 DEF UpdateImportPaths
<1> QED
  BY <1>1, <1>4, <1>6, NewMentionFacts

\* While nothing was updated, every file that is done is clean; a report that
\* nothing was updated stands until the next run begins.
MigrateInv ==
    /\ text \in [SolFiles -> Seq(Mentions)]
    /\ running \in BOOLEAN
    /\ files \subseteq SolFiles
    /\ \/ loaded = << >>
       \/ running /\ \E f \in SolFiles : loaded = <<f, text[f]>>
    /\ running /\ updatedFiles = {} =>
          \A f \in SolFiles : \/ f \in files
                              \/ loaded = <<f, text[f]>>
                              \/ Clean(text[f])
    /\ running => report = "none"
    /\ report = "unchanged" => \A f \in SolFiles : Clean(text[f])

LEMMA MigrateInvInit == MigrateInit => MigrateInv
BY PathsAssumption DEF MigrateInit, MigrateInv

LEMMA PairIsNoEmpty == \A f, s : <<f, s>> # << >>
OBVIOUS

\* The file that is being updated.
LEMMA LoadedFile ==
    ASSUME MigrateInv, UpdateFile
    PROVE  \E f \in SolFiles :
              /\ running
              /\ loaded = <<f, text[f]>>
              /\ text[f] \in Seq(Mentions)
              /\ \/ /\ UpdateImportPaths(text[f]) # text[f]
                    /\ text' = [text EXCEPT ![f] = UpdateImportPaths(text[f])]
                    /\ updatedFiles' # {}
                 \/ /\ UpdateImportPaths(text[f]) = text[f]
                    /\ text' = text /\ updatedFiles' = updatedFiles
<1>1. PICK f \in SolFiles : loaded = <<f, text[f]>> /\ running
  BY DEF MigrateInv, UpdateFile
<1>2. loaded[1] = f /\ loaded[2] = text[f]
  BY <1>1
<1>3. text[f] \in Seq(Mentions)
  BY DEF MigrateInv
<1>4. CASE UpdateImportPaths(text[f]) # text[f]
  BY <1>1, <1>2, <1>3, <1>4 DEF UpdateFile
<1>5. CASE UpdateImportPaths(text[f]) = text[f]
  BY <1>1, <1>2, <1>3, <1>5 DEF UpdateFile
<1> QED
  BY <1>4, <1>5

LEMMA MigrateInvStep == MigrateInv /\ [MigrateNext]_migrateVars => MigrateInv'
<1> SUFFICES ASSUME MigrateInv, [MigrateNext]_migrateVars
             PROVE  MigrateInv'
  OBVIOUS
<1>1. CASE ListFiles
  BY <1>1 DEF ListFiles, MigrateInv
<1>2. ASSUME NEW f \in SolFiles, ReadFile(f)
      PROVE  MigrateInv'
  <2>1. /\ running /\ loaded = << >> /\ f \in files
        /\ files' = files \ {f} /\ loaded' = <<f, text[f]>>
        /\ text' = text /\ running' = running /\ updatedFiles' = updatedFiles
        /\ report' = report
    BY <1>2 DEF ReadFile
  <2>2. updatedFiles = {} => \A g \in SolFiles : g \in files \/ Clean(text[g])
    BY <2>1, PairIsNoEmpty DEF MigrateInv
  <2>3. \A g \in SolFiles : g \in files' \/ loaded' = <<g, text'[g]>> \/ ~(g \in files)
    BY <2>1
  <2> QED
    BY <2>1, <2>2, <2>3 DEF MigrateInv
<1>3. CASE UpdateFile
  <2>1. PICK f \in SolFiles :
              /\ running
              /\ loaded = <<f, text[f]>>
              /\ text[f] \in Seq(Mentions)
              /\ \/ /\ UpdateImportPaths(text[f]) # text[f]
                    /\ text' = [text EXCEPT ![f] = UpdateImportPaths(text[f])]
                    /\ updatedFiles' # {}
                 \/ /\ UpdateImportPaths(text[f]) = text[f]
                    /\ text' = text /\ updatedFiles' = updatedFiles
    BY <1>3, LoadedFile
  <2>2. loaded' = << >> /\ running' = running /\ files' = files /\ report' = report
    BY <1>3 DEF UpdateFile
  <2>3. report = "none"
    BY <2>1 DEF MigrateInv
  <2>4. CASE /\ text' = [text EXCEPT ![f] = UpdateImportPaths(text[f])]
             /\ updatedFiles' # {}
    <3>1. UpdateImportPaths(text[f]) \in Seq(Mentions)
      BY <2>1, UpdateKeepsMeaning
    <3>2. text' \in [SolFiles -> Seq(Mentions)]
      BY <2>4, <3>1 DEF MigrateInv
    <3> QED
      BY <2>2, <2>3, <2>4, <3>2 DEF MigrateInv
  <2>5. CASE /\ UpdateImportPaths(text[f]) = text[f]
             /\ text' = text /\ updatedFiles' = updatedFiles
    <3>1. Clean(text[f])
      BY <2>1, <2>5, NothingToUpdate
    <3>2. ASSUME updatedFiles = {}, NEW g \in SolFiles
          PROVE  g \in files \/ Clean(text[g])
      <4>1. g \in files \/ loaded = <<g, text[g]>> \/ Clean(text[g])
        BY <2>1, <3>2 DEF MigrateInv
      <4>2. <<f, text[f]>> = <<g, text[g]>> => f = g
        OBVIOUS
      <4> QED
        BY <2>1, <3>1, <4>1, <4>2
    <3> QED
      BY <2>2, <2>3, <2>5, <3>2 DEF MigrateInv
  <2> QED
    BY <2>1, <2>4, <2>5
<1>4. CASE Report
  <2>1. /\ running /\ loaded = << >> /\ files = {} /\ running' = FALSE
        /\ report' = IF updatedFiles = {} THEN "unchanged" ELSE "updated"
        /\ text' = text /\ files' = files /\ loaded' = loaded
    BY <1>4 DEF Report
  <2>2. report' = "unchanged" => updatedFiles = {}
    BY <2>1
  <2>3. updatedFiles = {} => \A g \in SolFiles : Clean(text[g])
    BY <2>1, PairIsNoEmpty DEF MigrateInv
  <2> QED
    BY <2>1, <2>2, <2>3 DEF MigrateInv
<1>5. CASE Kill
  BY <1>5 DEF Kill, MigrateInv
<1>6. CASE UNCHANGED migrateVars
  BY <1>6 DEF migrateVars, MigrateInv
<1> QED
  BY <1>1, <1>2, <1>3, <1>4, <1>5, <1>6 DEF MigrateNext

\* What MigrationConverges says of one step.
MigrateStep ==
    /\ \A f \in SolFiles : \A i \in DOMAIN text[f] \cup DOMAIN text'[f] :
          NewMention(text'[f][i]) = NewMention(text[f][i])
    /\ report' = "unchanged" =>
          \A f \in SolFiles : \A i \in DOMAIN text'[f] : ~IsOld(text'[f][i])

LEMMA MigrateStepHolds ==
    MigrateInv /\ MigrateInv' /\ [MigrateNext]_migrateVars => [MigrateStep]_migrateVars
<1> SUFFICES ASSUME MigrateInv, MigrateInv', MigrateNext
             PROVE  MigrateStep
  OBVIOUS
<1>1. report' = "unchanged" =>
          \A f \in SolFiles : \A i \in DOMAIN text'[f] : ~IsOld(text'[f][i])
  BY DEF MigrateInv, Clean
<1>2. CASE text' = text
  BY <1>1, <1>2 DEF MigrateStep
<1>3. CASE UpdateFile
  <2>1. PICK f \in SolFiles :
              /\ text[f] \in Seq(Mentions)
              /\ \/ text' = [text EXCEPT ![f] = UpdateImportPaths(text[f])]
                 \/ text' = text
    BY <1>3, LoadedFile
  <2>2. CASE text' = [text EXCEPT ![f] = UpdateImportPaths(text[f])]
    <3>1. text'[f] = UpdateImportPaths(text[f])
      BY <2>2 DEF MigrateInv
    <3>2. ASSUME NEW g \in SolFiles, g # f
          PROVE  text'[g] = text[g]
      BY <2>2, <3>2 DEF MigrateInv
    <3>3. ASSUME NEW g \in SolFiles, NEW i \in DOMAIN text[g] \cup DOMAIN text'[g]
          PROVE  NewMention(text'[g][i]) = NewMention(text[g][i])
      BY <2>1, <3>1, <3>2, <3>3, UpdateKeepsMeaning
    <3> QED
      BY <1>1, <3>3 DEF MigrateStep
  <2> QED
    BY <1>2, <2>1, <2>2
<1> QED
  BY <1>2, <1>3 DEF MigrateNext, ListFiles, ReadFile, Report, Kill

\* Any number of files, texts and paths: stopping and repeating the migration
\* changes no import's meaning, and "No files were updated" is true of old paths.
THEOREM MigrationIsSafe == MigrateSpec => MigrationConverges
<1>1. [MigrateStep]_migrateVars =>
      [/\ \A f \in SolFiles : \A i \in DOMAIN text[f] \cup DOMAIN text'[f] :
             NewMention(text'[f][i]) = NewMention(text[f][i])
       /\ report' = "unchanged" =>
             \A f \in SolFiles : \A i \in DOMAIN text'[f] : ~IsOld(text'[f][i])
      ]_migrateVars
  BY DEF MigrateStep
<1> QED
  BY <1>1, MigrateInvInit, MigrateInvStep, MigrateStepHolds, PTL
     DEF MigrateSpec, MigrationConverges

-----------------------------------------------------------------------------
(* Releases                                                                *)

ReleaseVersions == [minor : Nat, patch : Nat, pre : Nat]

LEMMA CoerceFacts ==
    ASSUME NEW v \in ReleaseVersions
    PROVE  /\ Coerce(v) \in ReleaseVersions
           /\ Coerce(v).minor = v.minor /\ Coerce(v).patch = v.patch /\ Coerce(v).pre = 0
           /\ Coerce(Coerce(v)) = Coerce(v)
           /\ v.pre = 0 => Coerce(v) = v
           /\ v.minor \in Nat /\ v.patch \in Nat /\ v.pre \in Nat
BY DEF Coerce, ReleaseVersions

LEMMA VersionsEqual ==
    ASSUME NEW v \in ReleaseVersions, NEW w \in ReleaseVersions
    PROVE  /\ v = w <=> v.minor = w.minor /\ v.patch = w.patch /\ v.pre = w.pre
           /\ Coerce(v) = Coerce(w) <=> v.minor = w.minor /\ v.patch = w.patch
<1>1. ASSUME NEW x \in ReleaseVersions, NEW y \in ReleaseVersions,
             x.minor = y.minor, x.patch = y.patch, x.pre = y.pre
      PROVE  x = y
  BY <1>1 DEF ReleaseVersions
<1> QED
  BY <1>1, CoerceFacts

\* The order of versions is total.
LEMMA OlderFacts ==
    ASSUME NEW v \in ReleaseVersions, NEW w \in ReleaseVersions
    PROVE  /\ ~Older(v, v)
           /\ Older(v, w) => ~Older(w, v)
           /\ v = w \/ Older(v, w) \/ Older(w, v)
           /\ v.pre # 0 => Older(v, Coerce(v))
<1>1. ASSUME NEW x \in ReleaseVersions, NEW y \in ReleaseVersions
      PROVE  Older(x, y) <=>
                \/ x.minor < y.minor
                \/ x.minor = y.minor /\ x.patch < y.patch
                \/ /\ x.minor = y.minor /\ x.patch = y.patch
                   /\ x.pre # 0 /\ (y.pre = 0 \/ x.pre < y.pre)
  BY VersionsEqual DEF Older
<1>2. /\ v.minor \in Nat /\ v.patch \in Nat /\ v.pre \in Nat
      /\ w.minor \in Nat /\ w.patch \in Nat /\ w.pre \in Nat
  BY CoerceFacts
<1> QED
  BY <1>1, <1>2, VersionsEqual, CoerceFacts

LEMMA OlderTransitive ==
    ASSUME NEW u \in ReleaseVersions, NEW v \in ReleaseVersions, NEW w \in ReleaseVersions,
           Older(u, v), Older(v, w)
    PROVE  Older(u, w)
<1>1. ASSUME NEW x \in ReleaseVersions, NEW y \in ReleaseVersions
      PROVE  Older(x, y) <=>
                \/ x.minor < y.minor
                \/ x.minor = y.minor /\ x.patch < y.patch
                \/ /\ x.minor = y.minor /\ x.patch = y.patch
                   /\ x.pre # 0 /\ (y.pre = 0 \/ x.pre < y.pre)
  BY VersionsEqual DEF Older
<1>2. /\ u.minor \in Nat /\ u.patch \in Nat /\ u.pre \in Nat
      /\ v.minor \in Nat /\ v.patch \in Nat /\ v.pre \in Nat
      /\ w.minor \in Nat /\ w.patch \in Nat /\ w.pre \in Nat
  BY CoerceFacts
<1> QED
  BY <1>1, <1>2

\* A tag's version is older than a release when its release is.
LEMMA OlderRelease ==
    ASSUME NEW v \in ReleaseVersions, NEW w \in ReleaseVersions
    PROVE  /\ Older(Coerce(v), w) <=> Older(v, w) /\ Coerce(v) # Coerce(w)
           /\ Older(Coerce(Coerce(v)), w) <=> Older(Coerce(v), w)
<1>1. ASSUME NEW x \in ReleaseVersions, NEW y \in ReleaseVersions
      PROVE  Older(x, y) <=>
                \/ x.minor < y.minor
                \/ x.minor = y.minor /\ x.patch < y.patch
                \/ /\ x.minor = y.minor /\ x.patch = y.patch
                   /\ x.pre # 0 /\ (y.pre = 0 \/ x.pre < y.pre)
  BY VersionsEqual DEF Older
<1>2. /\ v.minor \in Nat /\ v.patch \in Nat /\ v.pre \in Nat
      /\ w.minor \in Nat /\ w.patch \in Nat /\ w.pre \in Nat
  BY CoerceFacts
<1> QED
  BY <1>1, <1>2, CoerceFacts, VersionsEqual

-----------------------------------------------------------------------------
(* The latest of finitely many tags.                                       *)

LEMMA SomeLatest ==
    ASSUME NEW S, IsFiniteSet(S), S # {}, \A t \in S : t.version \in ReleaseVersions
    PROVE  \E t \in S : \A u \in S : ~Older(t.version, u.version)
<1> DEFINE Newer(t) == {u \in S : Older(t.version, u.version)}
           T == {Cardinality(Newer(t)) : t \in S}
<1>1. \A t \in S : IsFiniteSet(Newer(t)) /\ Cardinality(Newer(t)) \in Nat
  BY FS_Subset, FS_CardinalityType
<1>2. T \subseteq Nat /\ T # {}
  BY <1>1
<1>3. PICK n \in T : \A m \in T : n <= m
  BY <1>2, LeastNatural
<1>4. PICK t \in S : n = Cardinality(Newer(t))
  BY <1>3
<1>5. ASSUME NEW u \in S, Older(t.version, u.version)
      PROVE  FALSE
  <2>1. Newer(u) \subseteq Newer(t)
    BY <1>5, OlderTransitive
  <2>2. u \in Newer(t) /\ u \notin Newer(u)
    BY <1>5, OlderFacts
  <2>3. Cardinality(Newer(t)) <= Cardinality(Newer(u))
    BY <1>3, <1>4
  <2> HIDE DEF Newer
  <2>4. /\ Cardinality(Newer(u)) <= Cardinality(Newer(t))
        /\ Cardinality(Newer(u)) = Cardinality(Newer(t)) => Newer(u) = Newer(t)
    BY <1>1, <2>1, FS_Subset
  <2> QED
    BY <1>1, <2>2, <2>3, <2>4
<1> QED
  BY <1>4, <1>5

\* LatestTag takes one, and where versions are unique no other.
LEMMA LatestTagFacts ==
    ASSUME NEW S, IsFiniteSet(S), S # {}, \A t \in S : t.version \in ReleaseVersions
    PROVE  /\ LatestTag(S) \in S
           /\ \A u \in S : ~Older(LatestTag(S).version, u.version)
<1>1. \E t \in S : \A u \in S : ~Older(t.version, u.version)
  BY SomeLatest
<1> QED
  BY <1>1 DEF LatestTag

LEMMA LatestTagUnique ==
    ASSUME NEW S, IsFiniteSet(S), \A t \in S : t.version \in ReleaseVersions,
           \A t, u \in S : t.version = u.version => t = u,
           NEW t \in S, \A u \in S : ~Older(t.version, u.version)
    PROVE  LatestTag(S) = t
<1>1. LatestTag(S) \in S /\ \A u \in S : ~Older(LatestTag(S).version, u.version)
  BY LatestTagFacts
<1>2. LatestTag(S).version = t.version
  BY <1>1, OlderFacts
<1> QED
  BY <1>1, <1>2

-----------------------------------------------------------------------------
(* The invariant: tags in the order of their versions, with a final one of *)
(* every release but the current; and a changelog with one entry of each.  *)

Commits == [version : ReleaseVersions,
            code : [Contracts -> SUBSET Texts],
            comment : [Contracts -> SUBSET ReleaseVersions]]

TagsInv ==
    /\ IsFiniteSet(tags) /\ tags \subseteq Commits
    /\ version \in ReleaseVersions
    /\ \A t \in tags : t.version = version \/ Older(t.version, version)
    /\ \A t, u \in tags : t.version = u.version => t = u
    /\ \E t \in tags : t.version = version
    /\ \E t \in tags : t.version = FirstVersion
    /\ \A t \in tags : Coerce(t.version) # Coerce(version) =>
          \E u \in tags : u.version = Coerce(t.version)

FilesInv ==
    /\ code \in [Contracts -> SUBSET Texts]
    /\ comment \in [Contracts -> SUBSET ReleaseVersions]
    /\ \A f \in Contracts : code[f] = {} => comment[f] = {}
    /\ \A t \in tags : \A f \in Contracts : t.code[f] = {} => t.comment[f] = {}

\* Only the first entry may be undated: it is new, or of the candidates' release.
LogInv ==
    /\ Len(changelog) \in Nat \ {0} /\ DOMAIN changelog = 1..Len(changelog)
    /\ \E S : changelog \in Seq(S)
    /\ \A i \in DOMAIN changelog :
          IF changelog[i].dated
          THEN \E t \in tags : changelog[i].of = {t.version}
          ELSE /\ i = 1
               /\ \/ changelog[i].of = {}
                  \/ /\ HasSuffix(version)
                     /\ changelog[i].of = {Coerce(version)}
    /\ \A i, j \in DOMAIN changelog :
          changelog[i].dated /\ changelog[j].dated /\ changelog[i].of = changelog[j].of
              => i = j
    /\ \A t \in tags : IsFinal(t) =>
          \E i \in DOMAIN changelog : changelog[i].dated /\ changelog[i].of = {t.version}
    /\ version.pre = 0 =>
          \E i \in DOMAIN changelog :
              /\ changelog[i] = [of |-> {version}, dated |-> TRUE]
              /\ \A j \in 1..(i - 1) : changelog[j].of = {}

\* What a final release must be.
FinalInv ==
    \A t \in tags : IsFinal(t) =>
        /\ \A f \in Contracts : \A v \in t.comment[f] : v.pre = 0
        /\ t.version # FirstVersion =>
              \A f \in Contracts :
                  t.code[f] \notin {{}, Previous(t).code[f]} => t.comment[f] = {t.version}

ReleaseInv ==
    /\ TagsInv
    /\ FilesInv
    /\ LogInv
    /\ FinalInv
    /\ contractsVersion = version

\* The version that npm version is called with.
Follows(v) ==
    /\ v \in ReleaseVersions
    /\ Older(version, v)
    /\ Coerce(v) # Coerce(version) => version.pre = 0

LEMMA VersionFollows ==
    ASSUME TagsInv, StartMinor \/ ReleaseCandidate \/ ReleaseFinal
    PROVE  \E v : Follows(v) /\ NpmVersion(v)
<1>1. /\ version \in ReleaseVersions
      /\ version.minor \in Nat /\ version.patch \in Nat /\ version.pre \in Nat
  BY CoerceFacts DEF TagsInv
<1>2. ASSUME NEW v \in ReleaseVersions,
             \/ version.minor < v.minor /\ version.pre = 0
             \/ /\ v.minor = version.minor /\ version.patch < v.patch
                /\ version.pre = 0
             \/ /\ v.minor = version.minor /\ v.patch = version.patch
                /\ version.pre # 0 /\ (v.pre = 0 \/ version.pre < v.pre)
      PROVE  Follows(v)
  BY <1>1, <1>2, VersionsEqual DEF Follows, Older
<1>3. CASE StartMinor
  <2> DEFINE v == [minor |-> version.minor + 1, patch |-> 0, pre |-> 1]
  <2>1. v \in ReleaseVersions /\ version.minor < v.minor /\ version.pre = 0
    BY <1>1, <1>3 DEF ReleaseVersions, StartMinor
  <2>2. NpmVersion(v)
    BY <1>3 DEF StartMinor
  <2> HIDE DEF v
  <2> QED
    BY <1>2, <2>1, <2>2
<1>4. CASE ReleaseCandidate
  <2> DEFINE v == [version EXCEPT !.patch = IF version.pre = 0 THEN @ + 1 ELSE @,
                                  !.pre = @ + 1]
  <2>1. v \in ReleaseVersions
    <3> DEFINE p == IF version.pre = 0 THEN version.patch + 1 ELSE version.patch
               n == version.pre + 1
    <3>1. p \in Nat /\ n \in Nat
      BY <1>1
    <3>2. v = [version EXCEPT !.patch = p, !.pre = n]
      BY <1>1 DEF ReleaseVersions
    <3> HIDE DEF v, p, n
    <3> QED
      BY <1>1, <3>1, <3>2 DEF ReleaseVersions
  <2>2. /\ v.minor = version.minor /\ v.pre = version.pre + 1
        /\ v.patch = IF version.pre = 0 THEN version.patch + 1 ELSE version.patch
    BY <1>1 DEF ReleaseVersions
  <2>3. NpmVersion(v)
    BY <1>4 DEF ReleaseCandidate
  <2> HIDE DEF v
  <2> QED
    BY <1>1, <1>2, <2>1, <2>2, <2>3
<1>5. CASE ReleaseFinal
  <2> DEFINE v == [version EXCEPT !.patch = IF version.pre = 0 THEN @ + 1 ELSE @,
                                  !.pre = 0]
  <2>1. v \in ReleaseVersions
    <3> DEFINE p == IF version.pre = 0 THEN version.patch + 1 ELSE version.patch
               n == 0
    <3>1. p \in Nat /\ n \in Nat
      BY <1>1
    <3>2. v = [version EXCEPT !.patch = p, !.pre = n]
      BY <1>1 DEF ReleaseVersions
    <3> HIDE DEF v, p, n
    <3> QED
      BY <1>1, <3>1, <3>2 DEF ReleaseVersions
  <2>2. /\ v.minor = version.minor /\ v.pre = 0
        /\ v.patch = IF version.pre = 0 THEN version.patch + 1 ELSE version.patch
    BY <1>1 DEF ReleaseVersions
  <2>3. NpmVersion(v)
    BY <1>5 DEF ReleaseFinal
  <2> HIDE DEF v
  <2> QED
    BY <1>1, <1>2, <2>1, <2>2, <2>3
<1> QED
  BY <1>3, <1>4, <1>5

LEMMA TagVersion ==
    ASSUME TagsInv
    PROVE  \A t \in tags : t.version \in ReleaseVersions
BY DEF TagsInv, Commits

\* Every tag is older than the version that follows.
LEMMA TagsOlder ==
    ASSUME TagsInv, NEW v, Follows(v)
    PROVE  \A t \in tags : Older(t.version, v) /\ t.version # v /\ ~Older(v, t.version)
<1> SUFFICES ASSUME NEW t \in tags
             PROVE  Older(t.version, v) /\ t.version # v /\ ~Older(v, t.version)
  OBVIOUS
<1>1. t.version \in ReleaseVersions /\ version \in ReleaseVersions /\ v \in ReleaseVersions
  BY TagVersion DEF TagsInv, Follows
<1>2. Older(t.version, v)
  BY <1>1, OlderTransitive DEF TagsInv, Follows
<1> QED
  BY <1>1, <1>2, OlderFacts

\* The latest older tag is that of a final release.
LEMMA BaseIsFinal ==
    ASSUME TagsInv, NEW v, Follows(v)
    PROVE  /\ LatestTag(OlderTags(v)) \in tags
           /\ IsFinal(LatestTag(OlderTags(v)))
           /\ Older(LatestTag(OlderTags(v)).version, v)
           /\ \A u \in OlderTags(v) : ~Older(LatestTag(OlderTags(v)).version, u.version)
<1> DEFINE S == OlderTags(v)
           b == LatestTag(S)
<1>0. /\ v \in ReleaseVersions /\ version \in ReleaseVersions
      /\ \A t \in tags : t.version \in ReleaseVersions
  BY TagVersion DEF TagsInv, Follows
<1>1. IsFiniteSet(S) /\ S \subseteq tags
  BY FS_Subset DEF TagsInv, OlderTags
<1>2. S # {}
  <2>1. PICK t \in tags : t.version = FirstVersion
    BY DEF TagsInv
  <2>2. FirstVersion \in ReleaseVersions /\ Coerce(FirstVersion) = FirstVersion
        /\ FirstVersion.pre = 0 /\ FirstVersion.minor = 0 /\ FirstVersion.patch = 0
    BY CoerceFacts, <1>0, <2>1 DEF FirstVersion
  <2>3. Older(FirstVersion, v)
    BY <2>1, TagsOlder
  <2> QED
    BY <2>1, <2>2, <2>3 DEF OlderTags
<1>3. b \in S /\ \A u \in S : ~Older(b.version, u.version)
  BY <1>0, <1>1, <1>2, LatestTagFacts
<1> HIDE DEF b
<1>4. b \in tags /\ Older(Coerce(b.version), v)
  BY <1>3 DEF OlderTags
<1>5. PICK u \in tags : u.version = Coerce(b.version)
  <2>1. CASE Coerce(b.version) # Coerce(version)
    BY <1>4, <2>1 DEF TagsInv
  <2>2. CASE Coerce(b.version) = Coerce(version)
    <3>1. Coerce(v) # Coerce(version)
      BY <1>0, <1>4, <2>2, OlderRelease
    <3>2. Coerce(version) = version
      BY <1>0, <3>1, CoerceFacts DEF Follows
    <3> QED
      BY <2>2, <3>2 DEF TagsInv
  <2> QED
    BY <2>1, <2>2
<1>6. u \in S
  BY <1>0, <1>4, <1>5, CoerceFacts DEF OlderTags
<1>7. b.version.pre = 0
  BY <1>0, <1>3, <1>4, <1>5, <1>6, OlderFacts
<1>8. Older(b.version, v)
  BY <1>4, TagsOlder
<1> QED
  BY <1>3, <1>4, <1>7, <1>8 DEF b, IsFinal

-----------------------------------------------------------------------------
(* What npm version tags.                                                  *)

Tagged(v) == [version |-> v, code |-> code, comment |-> UpdateComments(v)]

LEMMA TaggedFacts ==
    ASSUME FilesInv, NEW v \in ReleaseVersions
    PROVE  /\ Tagged(v) \in Commits
           /\ Tagged(v).version = v /\ Tagged(v).code = code
           /\ Tagged(v).comment = UpdateComments(v)
           /\ UpdateComments(v) \in [Contracts -> SUBSET ReleaseVersions]
           /\ \A f \in Contracts : code[f] = {} => UpdateComments(v)[f] = {}
<1>1. /\ UpdateComments(v) \in [Contracts -> SUBSET ReleaseVersions]
      /\ \A f \in Contracts : code[f] = {} => UpdateComments(v)[f] = {}
  BY DEF FilesInv, UpdateComments, ChangedSince
<1> QED
  BY <1>1 DEF Tagged, Commits, FilesInv

LEMMA NpmVersionTags ==
    ASSUME ReleaseInv, NEW v, Follows(v), NpmVersion(v)
    PROVE  /\ version' = v /\ tags' = tags \cup {Tagged(v)}
           /\ TagsInv' /\ FilesInv'
<1>0. /\ v \in ReleaseVersions /\ version \in ReleaseVersions
      /\ TagsInv /\ FilesInv
      /\ \A t \in tags : t.version \in ReleaseVersions
  BY TagVersion DEF ReleaseInv, TagsInv, Follows
<1>1. /\ version' = v /\ tags' = tags \cup {Tagged(v)}
      /\ code' = code /\ comment' = UpdateComments(v)
  BY DEF NpmVersion, Tagged
<1>2. /\ Tagged(v) \in Commits /\ Tagged(v).version = v /\ Tagged(v).code = code
      /\ Tagged(v).comment = UpdateComments(v)
      /\ UpdateComments(v) \in [Contracts -> SUBSET ReleaseVersions]
      /\ \A f \in Contracts : code[f] = {} => UpdateComments(v)[f] = {}
  BY <1>0, TaggedFacts
<1>3. \A t \in tags : Older(t.version, v) /\ t.version # v
  BY <1>0, TagsOlder
<1>4. IsFiniteSet(tags') /\ tags' \subseteq Commits
  BY <1>0, <1>1, <1>2, FS_AddElement DEF TagsInv
<1>5. ASSUME NEW t \in tags', Coerce(t.version) # Coerce(v)
      PROVE  \E u \in tags' : u.version = Coerce(t.version)
  <2>1. t \in tags
    BY <1>1, <1>2, <1>5
  <2>2. CASE Coerce(t.version) # Coerce(version)
    BY <1>0, <1>1, <2>1, <2>2 DEF TagsInv
  <2>3. CASE Coerce(t.version) = Coerce(version)
    <3>1. Coerce(version) = version
      BY <1>0, <1>5, <2>3, CoerceFacts DEF Follows
    <3> QED
      BY <1>0, <1>1, <2>3, <3>1 DEF TagsInv
  <2> QED
    BY <2>2, <2>3
<1>6. TagsInv'
  <2>1. \A t \in tags' : t.version = v \/ Older(t.version, v)
    BY <1>1, <1>2, <1>3
  <2>2. \A t, u \in tags' : t.version = u.version => t = u
    BY <1>0, <1>1, <1>2, <1>3 DEF TagsInv
  <2>3. (\E t \in tags' : t.version = v) /\ (\E t \in tags' : t.version = FirstVersion)
    BY <1>0, <1>1, <1>2 DEF TagsInv
  <2> QED
    BY <1>0, <1>1, <1>4, <1>5, <2>1, <2>2, <2>3 DEF TagsInv
<1>7. FilesInv'
  BY <1>0, <1>1, <1>2 DEF FilesInv
<1> QED
  BY <1>1, <1>6, <1>7

LEMMA NpmVersionLog ==
    ASSUME ReleaseInv, NEW v, Follows(v), NpmVersion(v)
    PROVE  LogInv'
<1> DEFINE new == [of |-> {Named(v)}, dated |-> ~HasSuffix(v)]
           n == Len(changelog)
<1>0. /\ v \in ReleaseVersions /\ TagsInv /\ FilesInv /\ LogInv
      /\ version' = v /\ tags' = tags \cup {Tagged(v)}
      /\ Tagged(v).version = v
  BY NpmVersionTags, TaggedFacts DEF ReleaseInv, Follows
<1>1. n \in Nat \ {0} /\ DOMAIN changelog = 1..n
  BY <1>0 DEF LogInv
<1>2. changelog' = [changelog EXCEPT ![1] = new]
  <2>1. EntriesFor(v) # {} /\ \A i \in EntriesFor(v) : i = 1
    BY <1>0 DEF NpmVersion, EntriesFor, LogInv
  <2>2. EntriesFor(v) = {1}
    BY <2>1
  <2>3. (CHOOSE i \in EntriesFor(v) : \A j \in EntriesFor(v) : i <= j) = 1
    BY <2>2
  <2> QED
    BY <2>3 DEF NpmVersion, UpdateChangelog
<1> HIDE DEF n, new
<1>3. /\ Len(changelog') = n /\ DOMAIN changelog' = 1..n
      /\ changelog'[1] = new
      /\ \A i \in 1..n : i # 1 => changelog'[i] = changelog[i] /\ changelog[i].dated
      /\ \E S : changelog' \in Seq(S)
  <2>1. PICK S : changelog \in Seq(S)
    BY <1>0 DEF LogInv
  <2>2. changelog \in Seq(S \cup {new})
    BY <2>1
  <2>3. /\ Len(changelog') = n /\ DOMAIN changelog' = 1..n
        /\ changelog'[1] = new
        /\ \A i \in 1..n : i # 1 => changelog'[i] = changelog[i]
    BY <1>1, <1>2, <2>1 DEF n
  <2>4. changelog' \in Seq(S \cup {new})
    BY <1>1, <1>2, <2>2
  <2>5. \A i \in 1..n : i # 1 => changelog[i].dated
    BY <1>0, <1>1 DEF LogInv
  <2> QED
    BY <2>3, <2>4, <2>5
\* The name in the new entry is newer than what the dated ones name.
<1>4. \A t \in tags : Named(v) # t.version
  <2>1. \A t \in tags : t.version # v /\ Older(t.version, v) /\ t.version \in ReleaseVersions
    BY <1>0, TagsOlder, TagVersion
  <2>2. ASSUME NEW t \in tags, v.pre # 0
        PROVE  t.version # Coerce(v)
    BY <1>0, <2>1, <2>2, OlderFacts, CoerceFacts
  <2> QED
    BY <2>1, <2>2 DEF Named, HasSuffix
<1>5. \A i \in 1..n : i # 1 => /\ \E t \in tags : changelog[i].of = {t.version}
                              /\ changelog[i].of # {Named(v)}
  <2>1. \A i \in 1..n : i # 1 => \E t \in tags : changelog[i].of = {t.version}
    BY <1>0, <1>1, <1>3 DEF LogInv
  <2> QED
    BY <1>4, <2>1
<1>6. new.of = {Named(v)} /\ new.dated = ~HasSuffix(v)
  BY DEF new
<1>7. \A i \in 1..n :
          IF changelog'[i].dated
          THEN \E t \in tags' : changelog'[i].of = {t.version}
          ELSE /\ i = 1
               /\ \/ changelog'[i].of = {}
                  \/ HasSuffix(v) /\ changelog'[i].of = {Coerce(v)}
  <2>1. CASE HasSuffix(v)
    <3>1. new.of = {Coerce(v)} /\ new.dated = FALSE
      BY <1>6, <2>1 DEF Named
    <3> QED
      BY <1>0, <1>3, <1>5, <2>1, <3>1
  <2>2. CASE ~HasSuffix(v)
    <3>1. new.of = {v} /\ new.dated = TRUE
      BY <1>6, <2>2 DEF Named
    <3> QED
      BY <1>0, <1>3, <1>5, <3>1
  <2> QED
    BY <2>1, <2>2
<1>8. \A i, j \in 1..n :
          changelog'[i].dated /\ changelog'[j].dated /\ changelog'[i].of = changelog'[j].of
              => i = j
  <2>1. \A i, j \in 1..n : i # 1 /\ j # 1 /\ changelog[i].of = changelog[j].of => i = j
    BY <1>0, <1>1, <1>3 DEF LogInv
  <2>2. changelog'[1].of = {Named(v)}
    BY <1>3, <1>6
  <2> QED
    BY <1>3, <1>5, <2>1, <2>2
<1>9. ASSUME NEW t \in tags', IsFinal(t)
      PROVE  \E i \in 1..n : changelog'[i].dated /\ changelog'[i].of = {t.version}
  <2>1. CASE t \in tags
    <3>1. PICK i \in 1..n : changelog[i].dated /\ changelog[i].of = {t.version}
      BY <1>0, <1>1, <1>9, <2>1 DEF LogInv
    <3>2. i # 1
      <4> SUFFICES ASSUME i = 1
                   PROVE  FALSE
        OBVIOUS
      <4>1. 1 \in EntriesFor(v)
        BY <1>0 DEF NpmVersion, EntriesFor, LogInv
      <4> QED
        BY <3>1, <4>1 DEF EntriesFor
    <3> QED
      BY <1>3, <3>1, <3>2
  <2>2. CASE t = Tagged(v)
    <3>1. v.pre = 0 /\ t.version = v
      BY <1>0, <1>9, <2>2 DEF IsFinal
    <3>2. ~HasSuffix(v) /\ Named(v) = v
      BY <3>1 DEF HasSuffix, Named
    <3>3. new.dated = TRUE /\ new.of = {v}
      BY <1>6, <3>2
    <3>4. 1 \in 1..n
      BY <1>1
    <3> QED
      BY <1>3, <3>1, <3>3, <3>4
  <2> QED
    BY <1>0, <2>1, <2>2
<1>10. v.pre = 0 => \E i \in 1..n : /\ changelog'[i] = [of |-> {v}, dated |-> TRUE]
                                    /\ \A j \in 1..(i - 1) : changelog'[j].of = {}
  <2> SUFFICES ASSUME v.pre = 0
               PROVE  \E i \in 1..n : /\ changelog'[i] = [of |-> {v}, dated |-> TRUE]
                                      /\ \A j \in 1..(i - 1) : changelog'[j].of = {}
    OBVIOUS
  <2>1. HasSuffix(v) = FALSE /\ Named(v) = v
    BY DEF HasSuffix, Named
  <2>2. new = [of |-> {v}, dated |-> TRUE]
    BY <2>1 DEF new
  <2>3. 1 \in 1..n /\ 1..(1 - 1) = {}
    BY <1>1
  <2> QED
    BY <1>3, <2>2, <2>3
<1>11. version'.pre = 0 =>
          \E i \in DOMAIN changelog' :
              /\ changelog'[i] = [of |-> {version'}, dated |-> TRUE]
              /\ \A j \in 1..(i - 1) : changelog'[j].of = {}
  BY <1>0, <1>3, <1>10
<1>12. \A t \in tags' : IsFinal(t) =>
          \E i \in DOMAIN changelog' : changelog'[i].dated /\ changelog'[i].of = {t.version}
  BY <1>3, <1>9
<1>13. \A i \in DOMAIN changelog' :
          IF changelog'[i].dated
          THEN \E t \in tags' : changelog'[i].of = {t.version}
          ELSE /\ i = 1
               /\ \/ changelog'[i].of = {}
                  \/ HasSuffix(version') /\ changelog'[i].of = {Coerce(version')}
  BY <1>0, <1>3, <1>7
<1>14. \A i, j \in DOMAIN changelog' :
          changelog'[i].dated /\ changelog'[j].dated /\ changelog'[i].of = changelog'[j].of
              => i = j
  BY <1>3, <1>8
<1>15. /\ Len(changelog') \in Nat \ {0} /\ DOMAIN changelog' = 1..Len(changelog')
       /\ \E S : changelog' \in Seq(S)
  BY <1>1, <1>3
<1> QED
  BY <1>11, <1>12, <1>13, <1>14, <1>15, Zenon DEF LogInv

-----------------------------------------------------------------------------
(* A release against the one before.                                       *)

\* The release before an older tag is what it was.
LEMMA PreviousStays ==
    ASSUME TagsInv, NEW v, Follows(v), NEW new, tags' = tags \cup {new},
           new.version = v, NEW t \in tags
    PROVE  Previous(t)' = Previous(t)
<1>1. ~Older(v, t.version)
  BY TagsOlder
<1>2. {u \in tags' : IsFinal(u) /\ Older(u.version, t.version)}
         = {u \in tags : IsFinal(u) /\ Older(u.version, t.version)}
  BY <1>1
<1>3. Previous(t)' = LatestTag({u \in tags' : IsFinal(u) /\ Older(u.version, t.version)})
  BY DEF Previous, LatestTag, IsFinal
<1> QED
  BY <1>2, <1>3 DEF Previous

\* The release before a new final one is the base that its script compared with.
LEMMA PreviousIsBase ==
    ASSUME TagsInv, NEW v, Follows(v), NEW new, tags' = tags \cup {new},
           new.version = v, v.pre = 0
    PROVE  Previous(new)' = LatestTag(OlderTags(v))
<1> DEFINE S == {u \in tags' : IsFinal(u) /\ Older(u.version, v)}
           b == LatestTag(OlderTags(v))
<1>0. /\ v \in ReleaseVersions
      /\ \A t \in tags : t.version \in ReleaseVersions
  BY TagVersion DEF Follows
<1>1. /\ b \in tags /\ IsFinal(b) /\ Older(b.version, v)
      /\ \A u \in OlderTags(v) : ~Older(b.version, u.version)
  BY BaseIsFinal
<1> HIDE DEF b
<1>2. \A u \in S : u \in tags /\ u \in OlderTags(v)
  <2> SUFFICES ASSUME NEW u \in tags', IsFinal(u), Older(u.version, v)
               PROVE  u \in tags /\ u \in OlderTags(v)
    OBVIOUS
  <2>1. u \in tags
    BY <1>0, OlderFacts
  <2>2. Coerce(u.version) = u.version
    BY <1>0, <2>1, CoerceFacts DEF IsFinal
  <2> QED
    BY <2>1, <2>2 DEF OlderTags
<1>3. b \in S /\ \A u \in S : ~Older(b.version, u.version)
  BY <1>1, <1>2
<1>4. IsFiniteSet(S)
  <2>1. S \subseteq tags
    BY <1>2
  <2> QED
    BY <2>1, FS_Subset DEF TagsInv
<1>5. /\ \A u \in S : u.version \in ReleaseVersions
      /\ \A t, u \in S : t.version = u.version => t = u
  BY <1>0, <1>2 DEF TagsInv
<1>6. Previous(new)' = LatestTag({u \in tags' : IsFinal(u) /\ Older(u.version, new.version)})
  BY DEF Previous, LatestTag, IsFinal
<1> QED
  BY <1>3, <1>4, <1>5, <1>6, LatestTagUnique DEF b

\* No prerelease is named in a new final release: a contract that did not change
\* since the release before has the comment it had there.
LEMMA NpmVersionFinal ==
    ASSUME ReleaseInv, NEW v, Follows(v), NpmVersion(v)
    PROVE  FinalInv'
<1>0. /\ v \in ReleaseVersions /\ TagsInv /\ FilesInv /\ FinalInv
      /\ Tagged(v).version = v /\ Tagged(v).code = code
      /\ Tagged(v).comment = UpdateComments(v)
      /\ tags' = tags \cup {Tagged(v)}
  BY NpmVersionTags, TaggedFacts DEF ReleaseInv, Follows
<1>1. PICK new : new = Tagged(v)
  OBVIOUS
<1>2. /\ new.version = v /\ new.code = code /\ new.comment = UpdateComments(v)
      /\ tags' = tags \cup {new}
  BY <1>0, <1>1
<1> DEFINE b == LatestTag(OlderTags(v))
<1>3. b \in tags /\ IsFinal(b)
  BY <1>0, BaseIsFinal
<1>4. ASSUME NEW t \in tags, IsFinal(t)
      PROVE  /\ \A f \in Contracts : \A w \in t.comment[f] : w.pre = 0
             /\ t.version # FirstVersion =>
                   \A f \in Contracts :
                       t.code[f] \notin {{}, Previous(t)'.code[f]} => t.comment[f] = {t.version}
  <2>1. Previous(t)' = Previous(t)
    BY <1>0, <1>2, PreviousStays
  <2> QED
    BY <1>0, <1>4, <2>1 DEF FinalInv
<1>5. ASSUME IsFinal(new)
      PROVE  /\ \A f \in Contracts : \A w \in new.comment[f] : w.pre = 0
             /\ \A f \in Contracts :
                    new.code[f] \notin {{}, Previous(new)'.code[f]} => new.comment[f] = {new.version}
  <2>1. v.pre = 0
    BY <1>2, <1>5 DEF IsFinal
  <2>2. Previous(new)' = b
    BY <1>0, <1>2, <2>1, PreviousIsBase
  <2>3. \A f \in Contracts :
            new.comment[f] = IF f \in ChangedSince(b) THEN {v} ELSE comment[f]
    BY <1>2 DEF UpdateComments
  <2> HIDE DEF b
  <2>4. ASSUME NEW f \in Contracts, f \notin ChangedSince(b)
        PROVE  /\ \A w \in comment[f] : w.pre = 0
               /\ code[f] \in {{}, b.code[f]}
    <3>1. CASE code[f] = {}
      BY <1>0, <3>1 DEF FilesInv
    <3>2. CASE code[f] = b.code[f] /\ comment[f] = b.comment[f]
      BY <1>0, <1>3, <3>2 DEF FinalInv
    <3> QED
      BY <2>4, <3>1, <3>2 DEF ChangedSince
  <2>5. \A f \in Contracts : \A w \in new.comment[f] : w.pre = 0
    BY <2>1, <2>3, <2>4
  <2>6. ASSUME NEW f \in Contracts, new.code[f] \notin {{}, Previous(new)'.code[f]}
        PROVE  new.comment[f] = {new.version}
    <3>1. f \in ChangedSince(b)
      BY <1>2, <2>2, <2>4, <2>6
    <3> QED
      BY <1>2, <2>3, <3>1
  <2> QED
    BY <2>5, <2>6
<1>6. \A t \in tags' : t \in tags \/ t = new
  BY <1>2
<1> HIDE DEF b
<1> SUFFICES ASSUME NEW t \in tags', IsFinal(t)
             PROVE  /\ \A f \in Contracts : \A w \in t.comment[f] : w.pre = 0
                    /\ t.version # FirstVersion =>
                          \A f \in Contracts :
                              t.code[f] \notin {{}, Previous(t)'.code[f]}
                                  => t.comment[f] = {t.version}
  BY DEF FinalInv, IsFinal
<1>7. CASE t \in tags
  BY <1>4, <1>7
<1>8. CASE t = new
  BY <1>5, <1>8
<1> QED
  BY <1>6, <1>7, <1>8

LEMMA NpmVersionInv ==
    ASSUME ReleaseInv, NEW v, Follows(v), NpmVersion(v)
    PROVE  ReleaseInv'
<1>1. contractsVersion' = version'
  BY DEF NpmVersion
<1> QED
  BY <1>1, NpmVersionTags, NpmVersionLog, NpmVersionFinal DEF ReleaseInv

-----------------------------------------------------------------------------
(* The initial state, and what developers commit.                          *)

LEMMA ReleaseInvInit == ReleaseInit => ReleaseInv
<1> SUFFICES ASSUME ReleaseInit
             PROVE  ReleaseInv
  OBVIOUS
<1> DEFINE t0 == [version |-> FirstVersion, code |-> code, comment |-> comment]
<1>1. /\ FirstVersion \in ReleaseVersions /\ FirstVersion.pre = 0
      /\ version = FirstVersion /\ tags = {t0} /\ contractsVersion = version
  BY DEF ReleaseInit, FirstVersion, ReleaseVersions
<1>2. /\ code \in [Contracts -> SUBSET Texts]
      /\ comment \in [Contracts -> SUBSET ReleaseVersions]
      /\ \A f \in Contracts : code[f] # {} /\ comment[f] = {FirstVersion}
  <2>1. (CHOOSE x \in Texts : TRUE) \in Texts
    BY ReleaseAssumption
  <2> QED
    BY <1>1, <2>1 DEF ReleaseInit
<1>3. /\ t0 \in Commits /\ t0.version = FirstVersion
      /\ t0.code = code /\ t0.comment = comment
  BY <1>1, <1>2 DEF Commits
<1> HIDE DEF t0
<1>4. TagsInv
  BY <1>1, <1>3, FS_Singleton DEF TagsInv
<1>5. FilesInv
  BY <1>1, <1>2, <1>3 DEF FilesInv
<1>6. FinalInv
  BY <1>1, <1>2, <1>3 DEF FinalInv
<1>7. LogInv
  <2> DEFINE e == [of |-> {FirstVersion}, dated |-> TRUE]
  <2>1. changelog = <<e>>
    BY DEF ReleaseInit
  <2>2. e.of = {FirstVersion} /\ e.dated = TRUE
    OBVIOUS
  <2>3. e = [of |-> {version}, dated |-> TRUE]
    BY <1>1
  <2> HIDE DEF e
  <2>4. /\ Len(changelog) = 1 /\ DOMAIN changelog = 1..1 /\ changelog[1] = e
        /\ changelog \in Seq({e})
    BY <2>1
  <2>5. \A i \in DOMAIN changelog : i = 1
    BY <2>4
  <2>6. \A j \in 1..(1 - 1) : FALSE
    OBVIOUS
  <2>7. 1 \in DOMAIN changelog /\ Len(changelog) \in Nat \ {0}
    BY <2>4
  <2> QED
    BY <1>1, <1>3, <2>2, <2>3, <2>4, <2>5, <2>6, <2>7 DEF LogInv
<1> QED
  BY <1>1, <1>4, <1>5, <1>6, <1>7 DEF ReleaseInv

LEMMA SameTags ==
    ASSUME ReleaseInv, UNCHANGED <<version, contractsVersion, tags>>
    PROVE  TagsInv' /\ FinalInv' /\ contractsVersion' = version'
<1>1. TagsInv'
  BY DEF ReleaseInv, TagsInv
<1>2. FinalInv'
  BY DEF ReleaseInv, FinalInv, Previous, LatestTag, IsFinal
<1> QED
  BY <1>1, <1>2 DEF ReleaseInv

LEMMA CommitFiles ==
    ASSUME ReleaseInv, UNCHANGED <<version, contractsVersion, changelog, tags>>, FilesInv'
    PROVE  ReleaseInv'
<1>1. LogInv'
  BY DEF ReleaseInv, LogInv
<1> QED
  BY <1>1, SameTags DEF ReleaseInv

LEMMA AddEntryInv ==
    ASSUME ReleaseInv, AddEntry
    PROVE  ReleaseInv'
<1> DEFINE e == [of |-> {}, dated |-> FALSE]
           n == Len(changelog)
<1>0. /\ LogInv /\ n \in Nat \ {0} /\ DOMAIN changelog = 1..n
      /\ \E S : changelog \in Seq(S)
      /\ UNCHANGED <<code, comment, version, contractsVersion, tags>>
  BY DEF ReleaseInv, LogInv, AddEntry
<1>1. e.of = {} /\ e.dated = FALSE
  OBVIOUS
<1>2. changelog' = <<e>> \o changelog
  BY DEF AddEntry
<1> HIDE DEF e, n
<1>3. /\ Len(changelog') = n + 1 /\ DOMAIN changelog' = 1..(n + 1)
      /\ changelog'[1] = e
      /\ \A i \in 2..(n + 1) : changelog'[i] = changelog[i - 1] /\ i - 1 \in 1..n
      /\ \E S : changelog' \in Seq(S)
  <2>1. PICK S : changelog \in Seq(S)
    BY <1>0
  <2>2. changelog \in Seq(S \cup {e}) /\ <<e>> \in Seq(S \cup {e})
    BY <2>1
  <2>3. changelog' \in Seq(S \cup {e})
    BY <1>2, <2>2
  <2>4. /\ Len(changelog') = n + 1 /\ DOMAIN changelog' = 1..(n + 1)
        /\ changelog'[1] = e
        /\ \A i \in 2..(n + 1) : changelog'[i] = changelog[i - 1] /\ i - 1 \in 1..n
    BY <1>0, <1>2, <2>2 DEF n
  <2> QED
    BY <2>3, <2>4
<1>4. \A i \in 1..n : changelog[i].dated
  BY <1>0 DEF AddEntry
<1>5. \A i \in 1..(n + 1) : i = 1 \/ i \in 2..(n + 1)
  BY <1>0
<1>6. \A i \in DOMAIN changelog' :
          IF changelog'[i].dated
          THEN \E t \in tags' : changelog'[i].of = {t.version}
          ELSE /\ i = 1
               /\ \/ changelog'[i].of = {}
                  \/ HasSuffix(version') /\ changelog'[i].of = {Coerce(version')}
  <2>1. \A i \in 1..n : \E t \in tags : changelog[i].of = {t.version}
    BY <1>0, <1>4 DEF LogInv
  <2>2. \A i \in 2..(n + 1) :
            changelog'[i].dated /\ \E t \in tags' : changelog'[i].of = {t.version}
    <3> SUFFICES ASSUME NEW i \in 2..(n + 1)
                 PROVE  changelog'[i].dated /\ \E t \in tags' : changelog'[i].of = {t.version}
      OBVIOUS
    <3>1. changelog'[i] = changelog[i - 1] /\ i - 1 \in 1..n
      BY <1>3
    <3>2. changelog[i - 1].dated /\ \E t \in tags : changelog[i - 1].of = {t.version}
      BY <1>4, <2>1, <3>1
    <3> QED
      BY <1>0, <3>1, <3>2
  <2>3. ~changelog'[1].dated /\ changelog'[1].of = {}
    BY <1>1, <1>3
  <2> QED
    BY <1>3, <1>5, <2>2, <2>3
<1>7. \A i, j \in DOMAIN changelog' :
          changelog'[i].dated /\ changelog'[j].dated /\ changelog'[i].of = changelog'[j].of
              => i = j
  <2>1. \A i, j \in 1..n : changelog[i].of = changelog[j].of => i = j
    BY <1>0, <1>4 DEF LogInv
  <2>2. ASSUME NEW i \in 2..(n + 1), NEW j \in 2..(n + 1), changelog'[i].of = changelog'[j].of
        PROVE  i = j
    <3>1. i - 1 \in 1..n /\ j - 1 \in 1..n /\ changelog[i - 1].of = changelog[j - 1].of
      BY <1>3, <2>2
    <3>2. i - 1 = j - 1
      BY <2>1, <3>1
    <3> QED
      BY <1>0, <3>2
  <2> QED
    BY <1>1, <1>3, <1>5, <2>2
<1>8. \A i \in 1..n : i + 1 \in 2..(n + 1) /\ changelog'[i + 1] = changelog[i]
  <2> SUFFICES ASSUME NEW i \in 1..n
               PROVE  i + 1 \in 2..(n + 1) /\ changelog'[i + 1] = changelog[i]
    OBVIOUS
  <2>1. i + 1 \in 2..(n + 1) /\ (i + 1) - 1 = i
    BY <1>0
  <2> QED
    BY <1>3, <2>1
<1>9. \A t \in tags' : IsFinal(t) =>
          \E i \in DOMAIN changelog' : changelog'[i].dated /\ changelog'[i].of = {t.version}
  <2> SUFFICES ASSUME NEW t \in tags, IsFinal(t)
               PROVE  \E i \in DOMAIN changelog' :
                          changelog'[i].dated /\ changelog'[i].of = {t.version}
    BY <1>0
  <2>1. PICK i \in 1..n : changelog[i].dated /\ changelog[i].of = {t.version}
    BY <1>0 DEF LogInv
  <2>2. i + 1 \in DOMAIN changelog' /\ changelog'[i + 1] = changelog[i]
    BY <1>0, <1>3, <1>8
  <2> QED
    BY <2>1, <2>2
<1>10. version'.pre = 0 =>
          \E i \in DOMAIN changelog' :
              /\ changelog'[i] = [of |-> {version'}, dated |-> TRUE]
              /\ \A j \in 1..(i - 1) : changelog'[j].of = {}
  <2> SUFFICES ASSUME version.pre = 0
               PROVE  \E i \in DOMAIN changelog' :
                         /\ changelog'[i] = [of |-> {version}, dated |-> TRUE]
                         /\ \A j \in 1..(i - 1) : changelog'[j].of = {}
    BY <1>0
  <2>1. PICK i \in 1..n : /\ changelog[i] = [of |-> {version}, dated |-> TRUE]
                          /\ \A j \in 1..(i - 1) : changelog[j].of = {}
    BY <1>0 DEF LogInv
  <2>2. i + 1 \in DOMAIN changelog' /\ changelog'[i + 1] = changelog[i]
    BY <1>0, <1>3, <1>8
  <2>3. ASSUME NEW j \in 1..((i + 1) - 1)
        PROVE  changelog'[j].of = {}
    <3>1. CASE j = 1
      BY <1>1, <1>3, <3>1
    <3>2. CASE j # 1
      <4>1. j \in 2..(n + 1) /\ j - 1 \in 1..(i - 1)
        BY <1>0, <3>2
      <4> QED
        BY <1>3, <2>1, <4>1
    <3> QED
      BY <3>1, <3>2
  <2> QED
    BY <2>1, <2>2, <2>3
<1>11. /\ Len(changelog') \in Nat \ {0} /\ DOMAIN changelog' = 1..Len(changelog')
       /\ \E S : changelog' \in Seq(S)
  BY <1>0, <1>3
<1>12. LogInv'
  BY <1>6, <1>7, <1>9, <1>10, <1>11, Zenon DEF LogInv
<1>13. FilesInv'
  BY <1>0 DEF ReleaseInv, FilesInv
<1> QED
  BY <1>0, <1>12, <1>13, SameTags DEF ReleaseInv

LEMMA ReleaseInvStep == ReleaseInv /\ [ReleaseNext]_releaseVars => ReleaseInv'
<1> SUFFICES ASSUME ReleaseInv, [ReleaseNext]_releaseVars
             PROVE  ReleaseInv'
  OBVIOUS
<1>0. FilesInv /\ tags \subseteq Commits
  BY DEF ReleaseInv, TagsInv
<1>1. CASE StartMinor \/ ReleaseCandidate \/ ReleaseFinal
  <2>1. PICK v : Follows(v) /\ NpmVersion(v)
    BY <1>1, VersionFollows DEF ReleaseInv
  <2> QED
    BY <2>1, NpmVersionInv
<1>2. ASSUME NEW f \in Contracts, EditContract(f)
      PROVE  ReleaseInv'
  <2>1. PICK x \in Texts : code' = [code EXCEPT ![f] = {x}]
    BY <1>2 DEF EditContract
  <2>2. FilesInv'
    BY <1>0, <1>2, <2>1 DEF EditContract, FilesInv
  <2> QED
    BY <1>2, <2>2, CommitFiles DEF EditContract
<1>3. ASSUME NEW f \in Contracts, RemoveContract(f)
      PROVE  ReleaseInv'
  <2>1. FilesInv'
    BY <1>0, <1>3 DEF RemoveContract, FilesInv
  <2> QED
    BY <1>3, <2>1, CommitFiles DEF RemoveContract
<1>4. ASSUME NEW f \in Contracts, NEW t \in tags, RestoreContract(f, t)
      PROVE  ReleaseInv'
  <2>1. /\ t.code[f] \in SUBSET Texts /\ t.comment[f] \in SUBSET ReleaseVersions
        /\ t.code[f] = {} => t.comment[f] = {}
    BY <1>0 DEF Commits, FilesInv
  <2>2. FilesInv'
    BY <1>0, <1>4, <2>1 DEF RestoreContract, FilesInv
  <2> QED
    BY <1>4, <2>2, CommitFiles DEF RestoreContract
<1>5. CASE AddEntry
  BY <1>5, AddEntryInv
<1>6. CASE UNCHANGED releaseVars
  <2>1. FilesInv'
    BY <1>0, <1>6 DEF FilesInv, releaseVars
  <2> QED
    BY <1>6, <2>1, CommitFiles DEF releaseVars
<1> QED
  BY <1>1, <1>2, <1>3, <1>4, <1>5, <1>6 DEF ReleaseNext

-----------------------------------------------------------------------------

LEMMA ReleaseInvMeans == ReleaseInv => FinalReleasesConsistent
<1> SUFFICES ASSUME ReleaseInv
             PROVE  FinalReleasesConsistent
  OBVIOUS
<1>0. TagsInv /\ LogInv /\ FinalInv /\ contractsVersion = version
  BY DEF ReleaseInv
<1>1. ASSUME NEW t \in tags, IsFinal(t)
      PROVE  Cardinality({i \in DOMAIN changelog : changelog[i].of = {t.version}}) = 1
  <2>1. PICK i \in DOMAIN changelog : changelog[i].dated /\ changelog[i].of = {t.version}
    BY <1>0, <1>1 DEF LogInv
  <2>2. ASSUME NEW j \in DOMAIN changelog, changelog[j].of = {t.version}
        PROVE  j = i
    <3>1. CASE changelog[j].dated
      BY <1>0, <2>1, <2>2, <3>1 DEF LogInv
    <3>2. CASE ~changelog[j].dated
      <4>1. version.pre # 0 /\ {Coerce(version)} = {t.version}
        BY <1>0, <2>2, <3>2 DEF LogInv, HasSuffix
      <4>2. Older(version, Coerce(version)) /\ version \in ReleaseVersions
        BY <1>0, <4>1, OlderFacts DEF TagsInv
      <4>3. t.version = Coerce(version) /\ Coerce(version) \in ReleaseVersions
        BY <4>1, <4>2, CoerceFacts
      <4> QED
        BY <1>0, <4>2, <4>3, OlderFacts DEF TagsInv
    <3> QED
      BY <3>1, <3>2
  <2>3. {j \in DOMAIN changelog : changelog[j].of = {t.version}} = {i}
    BY <2>1, <2>2
  <2> QED
    BY <2>3, FS_Singleton
<1>2. \A t \in tags : ~Older(version, t.version)
  BY <1>0, TagVersion, OlderFacts DEF TagsInv
<1> QED
  BY <1>0, <1>1, <1>2 DEF FinalReleasesConsistent, FinalInv, LogInv

\* Any number of releases, candidates and contracts, whatever was edited, taken
\* back or moved between them: what a final release says of itself is true.
THEOREM FinalReleasesStayConsistent == ReleaseSpec => []FinalReleasesConsistent
<1> QED
  BY ReleaseInvInit, ReleaseInvStep, ReleaseInvMeans, PTL DEF ReleaseSpec
=============================================================================
