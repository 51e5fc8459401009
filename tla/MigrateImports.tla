--------------------------- MODULE MigrateImports ---------------------------
(***************************************************************************)
(* scripts/migrate-imports.js, which users of OpenZeppelin run over their  *)
(* sources when contracts have moved.  It goes through the files one by    *)
(* one, reading and writing each, and in the text of a file replaces the   *)
(* first mention of each path that is no longer right.  It may be killed   *)
(* between two steps, and run again.                                       *)
(***************************************************************************)
EXTENDS Naturals, Sequences

CONSTANTS
    SolFiles,     \* the files found under the paths given
    OldPaths,
    NewPaths,
    PathUpdates,  \* pathUpdates: the new path of each old one
    Sources       \* the texts the files may have, each a sequence of mentions

Packages == {"contracts", "contracts-upgradeable"}
Mentions == Packages \X (OldPaths \cup NewPaths)

\* No path of the table is moved twice.
ASSUME PathsAssumption ==
    /\ PathUpdates \in [OldPaths -> NewPaths]
    /\ OldPaths \cap NewPaths = {}
    /\ Sources \subseteq Seq(Mentions)

VARIABLES
    text,         \* of each file, what it mentions, in order
    running,
    files,        \* the files still to be updated
    loaded,       \* the file read and not yet written, with what was read
    updatedFiles,
    report        \* what main said last: files were "updated", or "unchanged"

migrateVars == <<text, running, files, loaded, updatedFiles, report>>

MigrateInit ==
    /\ text \in [SolFiles -> Sources]
    /\ running = FALSE
    /\ files = {}
    /\ loaded = << >>
    /\ updatedFiles = {}
    /\ report = "none"

IsOld(mention) == mention[2] \in OldPaths

\* What a mention should be, in the same package.
NewMention(mention) ==
    IF IsOld(mention) THEN <<mention[1], PathUpdates[mention[2]]>> ELSE mention

\* Mutant: forgets the names in the other package.
UpdateImportPathsPlain(source) ==
    [i \in DOMAIN source |->
        IF \E j \in 1..(i - 1) : source[j] = source[i] THEN source[i]
        ELSE IF source[i][1] = "contracts" THEN NewMention(source[i]) ELSE source[i]]

\* String.replace with a string replaces its first occurrence.
UpdateImportPaths(source) ==
    [i \in DOMAIN source |->
        IF \E j \in 1..(i - 1) : source[j] = source[i] THEN source[i]
        ELSE NewMention(source[i])]

ListFiles ==
    /\ ~running
    /\ running' = TRUE
    /\ files' = SolFiles
    /\ updatedFiles' = {}
    /\ report' = "none"
    /\ UNCHANGED <<text, loaded>>

ReadFile(f) ==
    /\ running /\ loaded = << >>
    /\ f \in files
    /\ files' = files \ {f}
    /\ loaded' = <<f, text[f]>>
    /\ UNCHANGED <<text, running, updatedFiles, report>>

UpdateFile ==
    /\ loaded # << >>
    /\ LET f == loaded[1]
           updatedContent == UpdateImportPaths(loaded[2])
       IN  IF updatedContent # loaded[2]
           THEN /\ text' = [text EXCEPT ![f] = updatedContent]
                /\ updatedFiles' = updatedFiles \cup {f}
           ELSE UNCHANGED <<text, updatedFiles>>
    /\ loaded' = << >>
    /\ UNCHANGED <<running, files, report>>

Report ==
    /\ running /\ loaded = << >> /\ files = {}
    /\ running' = FALSE
    /\ report' = IF updatedFiles = {} THEN "unchanged" ELSE "updated"
    /\ UNCHANGED <<text, files, loaded, updatedFiles>>

\* Somebody stops the script.
Kill ==
    /\ running
    /\ running' = FALSE
    /\ files' = {}
    /\ loaded' = << >>
    /\ UNCHANGED <<text, updatedFiles, report>>

MigrateNext ==
    \/ ListFiles
    \/ \E f \in SolFiles : ReadFile(f)
    \/ UpdateFile
    \/ Report
    \/ Kill

MigrateSpec == MigrateInit /\ [][MigrateNext]_migrateVars
-----------------------------------------------------------------------------
(***************************************************************************)
(* Migration can be stopped and repeated: no import ever comes to mean     *)
(* another contract, and a run that says "No files were updated" says that *)
(* no old path is left, although a run replaces one mention of each only.  *)
(***************************************************************************)
MigrationConverges ==
    [][/\ \A f \in SolFiles : \A i \in DOMAIN text[f] \cup DOMAIN text'[f] :
             NewMention(text'[f][i]) = NewMention(text[f][i])
       /\ report' = "unchanged" =>
             \A f \in SolFiles : \A i \in DOMAIN text'[f] : ~IsOld(text'[f][i])
      ]_migrateVars
=============================================================================
