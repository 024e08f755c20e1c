------------------------------ MODULE Compose -------------------------------
(***************************************************************************)
(* The compose command: a plugin is written, built and its database        *)
(* migrations are run (cmd/compose.go, pkg/config/plugin.go, pkg/plugin).  *)
(*                                                                         *)
(* conf maps the transformers' names to [path, type, repository,           *)
(* migrations, rank].  A run is a record with the configuration, the disk, *)
(* the repositories copied and the migration paths run so far, and every   *)
(* operator below gives the runs that may follow one, errors included.     *)
(* The disk has the vendor directories of repositories, the generated .go  *)
(* file, the .so file with the configuration it was built from, and the    *)
(* directory for copies of migrations.                                     *)
(***************************************************************************)
EXTENDS Request, Integers, Sequences, FiniteSetsExt, Functions

CONSTANTS
  RankBits, \* bound: the width of a rank, 64 in the code
  Plugins   \* pairs of plugin configurations, composed one after the other

\* The powers are numbers, which the provers do not know of exponentiation.
ASSUME RankAssumption ==
  RankBits \in Nat \ {0} /\ 2^RankBits \in Nat /\ 2^(RankBits - 1) \in Nat

\* A configuration file names finitely many transformers.
ASSUME PluginAssumption ==
  \A p \in Plugins : IsFiniteSet(DOMAIN p[1]) /\ IsFiniteSet(DOMAIN p[2])

NoPlugin  == <<>>
EmptyDisk == [vendor |-> {}, goFile |-> FALSE, soFile |-> NoPlugin, tmpMigDir |-> FALSE]
-----------------------------------------------------------------------------
(* The configuration *)

GetTransformerType(str) ==
  IF str \in {"eth_event", "eth_storage", "eth_contract"} THEN str ELSE "Unknown"

\* What prepConfig asks of every transformer; otherwise the command ends.
prepConfig(conf) ==
  \A name \in DOMAIN conf :
    LET t == conf[name]
    IN  /\ "" \notin {t.path, t.repository, t.migrations}
        /\ t.rank \in 0..(2^RankBits - 1)
        /\ GetTransformerType(t.type) # "Unknown"

GetRepoPaths(conf) == {conf[name].repository : name \in DOMAIN conf}

MigrationPath(t) == <<t.repository, t.migrations>>
MigrationPaths(conf, ranks) ==
  {MigrationPath(conf[name]) : name \in {n \in DOMAIN conf : conf[n].rank \in ranks}}

\* The conversion int(rank) of an unsigned number.
AsInt(rank) == IF rank < 2^(RankBits - 1) THEN rank ELSE rank - 2^RankBits

anyDupes(conf, ranks) == Cardinality(MigrationPaths(conf, ranks)) < Cardinality(ranks)

\* Mutant: missing ranks are not looked for.
GetMigrationsPathsWithGaps(conf) ==
  LET ranks == {conf[name].rank : name \in DOMAIN conf}
      error == \/ \E r \in ranks : Cardinality(MigrationPaths(conf, {r})) > 1
               \/ anyDupes(conf, ranks)
  IN  IF error THEN [is |-> "error"]
      ELSE IF \E r \in ranks : r >= Cardinality(ranks) THEN [is |-> "panic"]
      ELSE [is    |-> "paths",
            paths |-> [i \in 1..Cardinality(ranks) |-> CHOOSE p \in MigrationPaths(conf, {i - 1}) : TRUE]]

\* Two paths of one rank, a rank that is missing, or a path with two ranks is
\* an error.  highestRank is an int and starts at -1, the ranks are unsigned:
\* one of at least half their range can make up for a missing one, and is then
\* an index out of range.
GetMigrationsPaths(conf) ==
  LET ranks       == {conf[name].rank : name \in DOMAIN conf}
      highestRank == Max({-1} \cup {AsInt(r) : r \in ranks})
      error       == \/ \E r \in ranks : Cardinality(MigrationPaths(conf, {r})) > 1
                     \/ Cardinality(ranks) # highestRank + 1
                     \/ anyDupes(conf, ranks)
  IN  IF error THEN [is |-> "error"]
      ELSE IF \E r \in ranks : r >= Cardinality(ranks) THEN [is |-> "panic"]
      ELSE [is    |-> "paths",
            paths |-> [i \in 1..Cardinality(ranks) |-> CHOOSE p \in MigrationPaths(conf, {i - 1}) : TRUE]]
-----------------------------------------------------------------------------
(* The generator *)

\* prepConfig and NewGenerator, which refuses an empty configuration.
compose(conf, disk) ==
  [conf |-> conf, before |-> disk, disk |-> disk, copied |-> {}, migrated |-> <<>>, faults |-> {},
   pc |-> IF prepConfig(conf) /\ conf # <<>> THEN "write" ELSE "refused", result |-> "none"]

\* An error or a panic in GenerateExporterPlugin once CleanUp is deferred.
Abort(r, result) == [r EXCEPT !.pc = "cleanup", !.result = result]

\* ClearFiles: the files that exist are removed in turn, up to the first error.
ClearFiles(disk) ==
  {disk, [disk EXCEPT !.goFile = FALSE], [disk EXCEPT !.goFile = FALSE, !.soFile = NoPlugin]}

\* setupFilePath, then the source with the initializers of each type.
WritePlugin(r) ==
  IF r.pc # "write" THEN {}
  ELSE {[r EXCEPT !.disk.goFile = TRUE, !.disk.soFile = NoPlugin, !.pc = "copy"]}
       \cup {[r EXCEPT !.disk = d, !.pc = "refused"] : d \in ClearFiles(r.disk)}

\* CopyDir: CopyFile overwrites nothing, so what an earlier run left behind is
\* an error.  A directory is noted for removal when its copy is complete.
CopyDir(r, repo) ==
  (IF repo \in r.disk.vendor THEN {}
   ELSE {[r EXCEPT !.disk.vendor = @ \cup {repo}, !.copied = @ \cup {repo}],
         [Abort(r, "error") EXCEPT !.disk.vendor = @ \cup {repo}, !.faults = {repo}]})
  \cup {Abort(r, "error")}

setupBuildEnv(r) ==
  IF r.pc # "copy" THEN {}
  ELSE LET left == GetRepoPaths(r.conf) \ r.copied
       IN  IF left = {} THEN {[r EXCEPT !.pc = "build"]}
           ELSE UNION {CopyDir(r, repo) : repo \in left}

BuildPlugin(r) ==
  IF r.pc # "build" THEN {}
  ELSE {[r EXCEPT !.disk.soFile = r.conf, !.pc = "migrate"], Abort(r, "error")}

\* The directory for the copies is made anew.
setupMigrationEnv(r) ==
  {[r EXCEPT !.disk.tmpMigDir = TRUE, !.pc = "run"],
   [Abort(r, "error") EXCEPT !.disk.tmpMigDir = FALSE], Abort(r, "error")}

\* NewGenerator refused a configuration without transformers, so that there is
\* a path when there is no error.
RunMigrations(r) ==
  IF r.pc # "migrate" THEN {}
  ELSE LET found == GetMigrationsPaths(r.conf)
       IN  IF found.is # "paths" THEN {Abort(r, found.is)} ELSE setupMigrationEnv(r)

\* The next path: its files are read from the vendor directory, copied and run
\* by goose.  Once the directory is made, cleanUp is deferred: it removes the
\* copies at the end and after an error, or fails to, which nobody sees.
createMigrationCopies(r) ==
  IF r.pc # "run" THEN {}
  ELSE LET paths == GetMigrationsPaths(r.conf).paths
           next  == paths[Len(r.migrated) + 1]
           cleanUp(s) == {[s EXCEPT !.disk.tmpMigDir = left] : left \in BOOLEAN}
       IN  IF Len(r.migrated) = Len(paths) THEN cleanUp(Abort(r, "ok"))
           ELSE cleanUp(Abort(r, "error"))
                \cup IF next[1] \in r.disk.vendor
                     THEN {[r EXCEPT !.migrated = Append(@, next)]} ELSE {}

\* The deferred CleanUp, whose error nobody sees.  The source is kept when the
\* configuration says so.
CleanUp(r) ==
  IF r.pc # "cleanup" THEN {}
  ELSE UNION {{[r EXCEPT !.disk.vendor = @ \ gone, !.disk.goFile = kept, !.pc = "done",
                         !.faults = @ \cup (r.copied \ gone)] : gone \in SUBSET r.copied} :
                kept \in {r.disk.goFile, FALSE}}

\* The process is killed, during a copy perhaps.
Killed(r) ==
  IF r.pc \in {"refused", "done", "killed"} THEN {}
  ELSE {[r EXCEPT !.pc = "killed", !.faults = @ \cup r.copied \cup begun,
                  !.disk.vendor = @ \cup begun] :
          begun \in {{}} \cup {{p} : p \in IF r.pc = "copy" THEN GetRepoPaths(r.conf) ELSE {}}}

GenerateExporterPlugin(r) ==
  WritePlugin(r) \cup setupBuildEnv(r) \cup BuildPlugin(r) \cup RunMigrations(r)
  \cup createMigrationCopies(r) \cup CleanUp(r) \cup Killed(r)
-----------------------------------------------------------------------------
(* Properties *)

\* A run of compose, over whatever earlier runs left on the disk:
\*  - migrations are run "with lower ranked migrations running first"
\*    (custom-transformers.md:157), each path once, and all of them in a run
\*    that succeeds;
\*  - only a rank of at least half the range of uint64 makes it panic;
\*  - once the writer is through, a .so file is this configuration's;
\*  - what it leaves in the vendor directory is what it could not remove or had
\*    not copied to the end, and none of it is in the way of a run that succeeds.
ComposeOrdered ==
  kind = "compose" /\ answer # <<>> =>
    LET r == answer[1]
        c == r.conf
    IN  /\ \A i \in DOMAIN r.migrated : \A name \in DOMAIN c :
             r.migrated[i] = MigrationPath(c[name]) => c[name].rank = i - 1
        /\ r.result = "ok" =>
             /\ \A name \in DOMAIN c : MigrationPath(c[name]) \in Range(r.migrated)
             /\ r.disk.soFile = c
             /\ GetRepoPaths(c) \cap r.before.vendor = {}
        /\ r.result = "panic" => \E name \in DOMAIN c : c[name].rank >= 2^(RankBits - 1)
        /\ r.pc \notin {"write", "refused", "killed"} => r.disk.soFile \in {NoPlugin, c}
        /\ r.pc = "done" => r.disk.vendor = r.before.vendor \cup r.faults
=============================================================================
