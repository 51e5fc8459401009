--------------------------- MODULE MCOpenZeppelin ---------------------------
(***************************************************************************)
(* What OpenZeppelin's repository has beside the contracts that Fundi      *)
(* inherits, for TLC: searches in histories, histories, enumerable sets    *)
(* and maps, chains of casts, and the scripts by which releases and docs   *)
(* are published and imports migrated.  They do not interact in time, so a *)
(* behaviour is of one of them, and the others stay in one initial state.  *)
(***************************************************************************)
EXTENDS MCCheckpoints, CheckpointTrace, CastChain, EnumerableMocks,
        DocsBranch, Release, MigrateImports, TLC

VARIABLE component

MCTypeSize == "bytes32" :> 3 @@ "uint256" :> 3 @@ "address" :> 2

\* Two contracts that moved.
MCOldPaths == {"TimelockController", "ECDSA"}
MCNewPaths == {"governance", "cryptography"}
MCPathUpdates == "TimelockController" :> "governance" @@ "ECDSA" :> "cryptography"

\* Files of up to three mentions: of one path in either package, and of the other.
MCSources ==
    UNION {[1..n -> {<<"contracts", "ECDSA">>,
                     <<"contracts", "TimelockController">>,
                     <<"contracts-upgradeable", "ECDSA">>}] : n \in 0..3}

\* A search in nothing, that has ended.
NoSearch ==
    /\ ckpts = << >> /\ blockNumber = 0
    /\ low = 0 /\ high = 0
    /\ pc = "done" /\ result = 0

MCInit ==
    /\ component \in {"search", "trace", "set", "map", "cast", "docs", "release",
                     "migration"}
    /\ IF component = "search" THEN SearchInit ELSE NoSearch
    /\ TraceInit /\ (component # "trace" => flavor = "Trace")
    /\ SetInit /\ (component # "set" => setType = "bytes32")
    /\ MapInit /\ (component # "map" => mapType = MapType("bytes32", "bytes32"))
    /\ CastInit /\ (component # "cast" => signed = FALSE /\ number = 0)
    /\ DocsInit
    /\ ReleaseInit
    /\ MigrateInit /\ (component # "migration" => \A f \in SolFiles : text[f] = << >>)

\* Every component but the chosen one.
Only(name, variables) == component = name \/ UNCHANGED variables

MCNext ==
    /\ UNCHANGED component
    /\ Only("search", searchVars) /\ Only("trace", traceVars)
    /\ Only("set", setVars) /\ Only("map", mapVars) /\ Only("cast", castVars)
    /\ Only("docs", docsVars) /\ Only("release", releaseVars)
    /\ Only("migration", migrateVars)
    /\ \/ component = "search" /\ SearchNext
       \/ component = "trace" /\ TraceNext
       \/ component = "set" /\ SetNext
       \/ component = "map" /\ MapNext
       \/ component = "cast" /\ CastNext
       \/ component = "docs" /\ DocsNext
       \/ component = "release" /\ ReleaseNext
       \/ component = "migration" /\ MigrateNext

MCSpec ==
    /\ MCInit
    /\ [][MCNext]_<<component, searchVars, traceVars, setVars, mapVars, castVars,
                    docsVars, releaseVars, migrateVars>>
    /\ WF_searchVars(component = "search" /\ SearchNext)
=============================================================================
