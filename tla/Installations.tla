---------------------------- MODULE Installations ----------------------------
(***************************************************************************)
(* How the CLI brings an installation to Cloudflare and changes it         *)
(* (apps/cli/src/bootstrap.ts), for its three callers: `up` (cli.ts), the  *)
(* rehearsal of a fresh installation, which deletes in the end what it has *)
(* made, and the rehearsal of an upgrade (apps/cli/src/rehearsal/public).  *)
(* Each is a process which may die between any two of its calls; what is   *)
(* left is what Cloudflare has, the installation's metadata file and the   *)
(* receipts of the rehearsals.                                             *)
(*                                                                         *)
(* All three are given the same names, the case in which they can meet:    *)
(* those of a rehearsal begin with crewhelm-rehearsal- or crewhelm-smoke-, *)
(* and the Worker and the database of `up' may be called so. One process   *)
(* of each kind runs at a time. A package is its number, which is also the *)
(* count of its migrations. Sandboxes, routes, prompts for secrets and the *)
(* amount of a spend limit are left out.                                   *)
(*                                                                         *)
(* External: Cloudflare. Names are unique there, a call has its effect     *)
(* when it is made or never, and its answer may be lost or unclean. A      *)
(* Worker cannot be deployed with a database that is not there.            *)
(***************************************************************************)
EXTENDS Integers, FiniteSets

CONSTANTS
  MaxPackage,
  MaxDatabase,         \* bound on the databases ever made
  MaxVersion           \* bound on the Worker versions ever deployed

ASSUME InstallationsAssumption == MaxPackage \in Nat \ {0} /\ MaxDatabase \in Nat /\ MaxVersion \in Nat

VARIABLES
  worker,              \* the active version of the Worker
  database,            \* the database of the name
  bucket, gateway,     \* by whom the bucket and the AI Gateway of the names were made
  made,                \* how many databases and versions there have been
  metadata,            \* the installation's metadata file
  receipt,             \* the receipt of the fresh installation's rehearsal
  upgradeReceipt,      \* the receipt of the upgrade's rehearsal
  command              \* what each process does

cloudVars == <<worker, database, bucket, gateway, made>>
fileVars == <<metadata, receipt, upgradeReceipt>>
installationVars == <<cloudVars, fileVars, command>>

Commands == {"up", "rehearsal", "upgrade"}
Makers == Commands \cup {"none", "other"}

Packages == 1..MaxPackage
DatabaseIds == 1..MaxDatabase
Messages == Packages \X DatabaseIds \X BOOLEAN
Secrets == {<<>>} \cup ({"up", "rehearsal"} \X (1..MaxVersion + 1))

\* secret: BETTER_AUTH_SECRET; messages: of all the deployments that are listed.
WorkerVersion ==
  [version : 0..MaxVersion, package : 0..MaxPackage, database : 0..MaxDatabase, routed : BOOLEAN,
   secret : Secrets, by : Makers, messages : SUBSET Messages]
NoWorker ==
  [version |-> 0, package |-> 0, database |-> 0, routed |-> FALSE, secret |-> <<>>,
   by |-> "none", messages |-> {}]

Database == [id : 0..MaxDatabase, level : 0..MaxPackage, by : Makers]
NoDatabase == [id |-> 0, level |-> 0, by |-> "none"]

Metadata ==
  [saved : BOOLEAN, database : 0..MaxDatabase, routed : BOOLEAN, limit : BOOLEAN, bucket : BOOLEAN]
NoMetadata ==
  [saved |-> FALSE, database |-> 0, routed |-> FALSE, limit |-> FALSE, bucket |-> FALSE]

Worker == <<"worker", 0>>
Bucket == <<"bucket", 0>>
DatabaseOf(d) == <<"database", d>>
Gateway == <<"gateway", 0>>
Resources == {Worker, Bucket, Gateway} \cup {DatabaseOf(d) : d \in DatabaseIds}

Receipt == [phase : {"none", "provisioning", "cleanup_pending", "completed"},
            resources : SUBSET Resources]
UpgradeReceipt == [phase : {"none", "upgrade_pending", "completed"},
                   package : 0..MaxPackage, baseline : 0..MaxPackage]

Phases ==
  {"none", "inspecting", "recovering", "planning", "listing", "creating", "relisting", "storing",
   "makingBucket", "bucketMade", "migrating", "gating", "makingGateway", "gatewayAsked",
   "checking", "deploying", "deployed", "reconciling", "verifying",
   "cleaning", "deleting", "confirming"}

\* seen, current: the version and message read at the start; id, routed, limit: the options.
Command ==
  [phase : Phases, package : 0..MaxPackage, seen : 0..MaxVersion,
   current : {<<>>} \cup Messages, id : 0..MaxDatabase, routed : BOOLEAN, limit : BOOLEAN,
   known : BOOLEAN, recover : BOOLEAN, plan : {"none", "create", "change", "keep"},
   answered : BOOLEAN, secret : Secrets, repeats : BOOLEAN,
   left : SUBSET Resources, unresolved : SUBSET Resources]
Idle ==
  [phase |-> "none", package |-> 0, seen |-> 0, current |-> <<>>, id |-> 0, routed |-> FALSE,
   limit |-> FALSE, known |-> FALSE, recover |-> FALSE, plan |-> "none", answered |-> FALSE,
   secret |-> <<>>, repeats |-> FALSE, left |-> {}, unresolved |-> {}]

Is(c, phase) == command[c].phase = phase
Becomes(c, r) == command' = [command EXCEPT ![c] = r]
Goes(c, phase) == Becomes(c, [command[c] EXCEPT !.phase = phase])

Exists == worker.version # 0

Provisioning(c) == command[c].phase \notin {"none", "cleaning", "deleting", "confirming"}

\* A rehearsal of a fresh installation is fresh, and an upgrade needs a Worker.
RequireFresh(c) == c = "rehearsal"
RequireExisting(c) == c = "upgrade"

\* `resources` is what the receipt of a rehearsal says when it stops.
StopsWith(c, resources) ==
  Becomes(c, IF c = "rehearsal" THEN [Idle EXCEPT !.phase = "cleaning", !.left = resources]
                                ELSE Idle)
Stop(c) == StopsWith(c, receipt.resources)

\* What is made is recorded in the receipt of a rehearsal; `up` has none.
Recorded(c, resource) ==
  IF c = "rehearsal" THEN receipt.resources \cup {resource} ELSE receipt.resources
Record(c, resource) == receipt' = [receipt EXCEPT !.resources = Recorded(c, resource)]

\* The coordinates of a provisioned installation, which only `up` keeps.
Persist(c, installation) == metadata' = IF c = "up" THEN installation ELSE metadata
Provisioned(c, routed) ==
  [saved |-> TRUE, database |-> command[c].id, routed |-> routed,
   limit |-> command[c].plan # "none", bucket |-> TRUE]

-----------------------------------------------------------------------------
(* How a process starts *)

Begins(c, package, options) ==
  Becomes(c, [options EXCEPT !.phase = "inspecting", !.package = package])

\* The owner may confirm a database that an earlier `up` has left.
ConfirmedDatabases ==
  {metadata.database} \cup (IF database.by = "up" THEN {database.id} ELSE {})

BeginUp(package, limit, id) ==
  /\ Is("up", "none")
  /\ id \in ConfirmedDatabases
  /\ Begins("up", package,
            [Idle EXCEPT !.id = id, !.routed = metadata.routed, !.limit = limit \/ metadata.limit,
                         !.known = metadata.bucket, !.recover = ~metadata.saved])
  /\ UNCHANGED <<cloudVars, fileVars>>

BeginRehearsal(package, limit) ==
  /\ Is("rehearsal", "none") /\ receipt.phase = "none"
  /\ receipt' = [receipt EXCEPT !.phase = "provisioning"]
  /\ Begins("rehearsal", package, [Idle EXCEPT !.limit = limit])
  /\ UNCHANGED <<cloudVars, metadata, upgradeReceipt>>

\* The options of an upgrade, also of its second, which must change nothing.
UpgradeOptions(repeats) ==
  [Idle EXCEPT !.id = metadata.database, !.routed = metadata.routed, !.recover = TRUE,
               !.repeats = repeats]

\* The Worker is of the baseline, or, when the rehearsal is resumed, of the package.
BeforeDeployment(package) ==
  IF upgradeReceipt.phase = "none"
    THEN worker.package < package
    ELSE upgradeReceipt.package = package /\ worker.package \in {upgradeReceipt.baseline, package}

BeginUpgrade(package) ==
  /\ Is("upgrade", "none") /\ upgradeReceipt.phase # "completed"
  /\ metadata.saved /\ Exists /\ BeforeDeployment(package)
  /\ upgradeReceipt' =
       IF upgradeReceipt.phase = "none"
         THEN [phase |-> "upgrade_pending", package |-> package, baseline |-> worker.package]
         ELSE upgradeReceipt
  /\ Begins("upgrade", package, UpgradeOptions(FALSE))
  /\ UNCHANGED <<cloudVars, metadata, receipt>>

\* A call that fails before anything was asked for, an answer that is missing or invalid.
Fails(c) ==
  /\ Provisioning(c)
  /\ Stop(c)
  /\ UNCHANGED <<cloudVars, fileVars>>

Crash(c) ==
  /\ ~Is(c, "none")
  /\ Becomes(c, Idle)
  /\ UNCHANGED <<cloudVars, fileVars>>

LoseMetadata ==
  /\ Is("up", "none") /\ Is("upgrade", "none")
  /\ metadata.saved
  /\ metadata' = NoMetadata
  /\ UNCHANGED <<cloudVars, receipt, upgradeReceipt, command>>

-----------------------------------------------------------------------------
(* The existing Worker *)

Message(version) == <<version.package, version.database, version.routed>>

Inspect(c) ==
  /\ Is(c, "inspecting")
  /\ IF (RequireFresh(c) /\ Exists) \/ (RequireExisting(c) /\ ~Exists)
       THEN Stop(c)
       ELSE Becomes(c, [command[c] EXCEPT
              !.phase = IF @ = "inspecting" /\ command[c].recover /\ Exists THEN "recovering"
                                                                          ELSE "planning",
              !.seen = worker.version,
              !.current = IF Exists THEN Message(worker) ELSE <<>>])
  /\ UNCHANGED <<cloudVars, fileVars>>

\* All migrations of the database are of the package. An empty one is reused only on request.
ValidForReuse(level, package, allowEmpty) == level <= package /\ (level > 0 \/ allowEmpty)

\* The version that was seen is what is still active, its database is the one of the
\* name, and an upgrade finds what its installation's metadata says.
Recoverable(c) ==
  /\ worker.version = command[c].seen
  /\ worker.database = database.id
  /\ ValidForReuse(database.level, command[c].package, FALSE)
  /\ c = "up" => command[c].id \in {0, database.id}
  /\ c = "upgrade" =>
       /\ command[c].id = database.id
       /\ command[c].routed = worker.routed
       /\ IF command[c].repeats THEN worker.package = command[c].package
                                ELSE worker.package \in {upgradeReceipt.baseline, command[c].package}

Recover(c) ==
  /\ Is(c, "recovering")
  /\ IF Recoverable(c)
       THEN /\ Becomes(c, [command[c] EXCEPT !.phase = "planning", !.id = database.id,
                                             !.routed = worker.routed])
            /\ Persist(c, [saved |-> TRUE, database |-> database.id, routed |-> worker.routed,
                           limit |-> FALSE, bucket |-> TRUE])
       ELSE Stop(c) /\ UNCHANGED metadata
  /\ UNCHANGED <<cloudVars, receipt, upgradeReceipt>>

-----------------------------------------------------------------------------
(* What the Worker needs *)

\* A gateway that is there may have the limit that is wanted, or another.
PlanAiGateway(c) ==
  /\ Is(c, "planning")
  /\ IF RequireFresh(c) /\ command[c].limit /\ gateway # "none"
       THEN Stop(c)
       ELSE \E plan \in {"none", "create", "change", "keep"} :
              /\ (plan = "none") = ~command[c].limit
              /\ command[c].limit => (plan = "create") = (gateway = "none")
              /\ Becomes(c, [command[c] EXCEPT !.phase = "listing", !.plan = plan])
  /\ UNCHANGED <<cloudVars, fileVars>>

\* A database of the name is used only when its id is among the options.
ListDatabases(c) ==
  /\ Is(c, "listing")
  /\ IF database.id # command[c].id \/ ~ValidForReuse(database.level, command[c].package, TRUE)
       THEN Stop(c)
       ELSE Goes(c, IF database.id = 0 THEN "creating" ELSE "storing")
  /\ UNCHANGED <<cloudVars, fileVars>>

\* The name may have been taken meanwhile, then nothing is made.
CreateDatabase(c) ==
  /\ Is(c, "creating")
  /\ \E makes, answered \in BOOLEAN :
       /\ answered => makes
       /\ makes => database = NoDatabase /\ made.database < MaxDatabase
       /\ database' = IF makes THEN [id |-> made.database + 1, level |-> 0, by |-> c] ELSE database
       /\ made' = IF makes THEN [made EXCEPT !.database = @ + 1] ELSE made
       /\ Becomes(c, [command[c] EXCEPT !.phase = "relisting", !.answered = answered])
  /\ UNCHANGED <<worker, bucket, gateway, fileVars>>

\* Whatever the answer was, a database of the name is taken for the one created; after
\* an unclean answer the process stops.
ReconcileDatabase(c) ==
  /\ Is(c, "relisting")
  /\ IF database.id = 0
       THEN Stop(c) /\ UNCHANGED receipt
       ELSE /\ Record(c, DatabaseOf(database.id))
            /\ IF command[c].answered
                 THEN Becomes(c, [command[c] EXCEPT !.phase = "storing", !.id = database.id])
                 ELSE StopsWith(c, Recorded(c, DatabaseOf(database.id)))
  /\ UNCHANGED <<cloudVars, metadata, upgradeReceipt>>

\* A bucket of the name is used if the metadata knows it, or if the version seen is bound to it.
ReadBucket(c) ==
  /\ Is(c, "storing")
  /\ IF bucket = "none"
       THEN Goes(c, "makingBucket")
       ELSE IF command[c].known \/ (~RequireFresh(c) /\ command[c].seen # 0)
              THEN Goes(c, IF RequireExisting(c) THEN "checking" ELSE "migrating")
              ELSE Stop(c)
  /\ UNCHANGED <<cloudVars, fileVars>>

\* After an unclean answer the bucket is not used, and not recorded.
CreateBucket(c) ==
  /\ Is(c, "makingBucket")
  /\ \E makes, answered \in BOOLEAN :
       /\ answered => makes
       /\ makes => bucket = "none"
       /\ bucket' = IF makes THEN c ELSE bucket
       /\ IF answered THEN Goes(c, "bucketMade") ELSE Stop(c)
  /\ UNCHANGED <<worker, database, gateway, made, fileVars>>

RecordBucket(c) ==
  /\ Is(c, "bucketMade")
  /\ Record(c, Bucket)
  /\ IF bucket = "none"
       THEN StopsWith(c, Recorded(c, Bucket)) /\ UNCHANGED metadata
       ELSE /\ Goes(c, IF RequireExisting(c) THEN "checking" ELSE "migrating")
            /\ Persist(c, Provisioned(c, command[c].routed))
  /\ UNCHANGED <<cloudVars, upgradeReceipt>>

\* An upgrade reads the active version again before it migrates, and before it deploys.
CheckVersion(c) ==
  /\ Is(c, "checking")
  /\ IF worker.version = command[c].seen
       THEN Goes(c, IF database.level < command[c].package THEN "migrating" ELSE "deploying")
       ELSE Stop(c)
  /\ UNCHANGED <<cloudVars, fileVars>>

-----------------------------------------------------------------------------
(* Migrations and the gateway *)

\* Mutation: a database with any of the migrations is current.
MigrationsBegun(level, package) == level > 0

MigrationsAreCurrent(level, package) == level >= package

\* The migrations are applied in their order, and a failing one ends them.
Migrate(c) ==
  /\ Is(c, "migrating")
  /\ IF database.id # command[c].id
       THEN Stop(c) /\ UNCHANGED database
       ELSE \E level \in Packages :
              /\ level >= database.level
              /\ level <= command[c].package \/ level = database.level
              /\ database' = [database EXCEPT !.level = level]
              /\ IF MigrationsAreCurrent(level, command[c].package) THEN Goes(c, "gating") ELSE Stop(c)
  /\ UNCHANGED <<worker, bucket, gateway, made, fileVars>>

AfterGateway(c) == IF RequireExisting(c) THEN "checking" ELSE "deploying"

\* A configured gateway is what the Worker will be routed to.
GatewayConfigured(c) ==
  /\ Becomes(c, [command[c] EXCEPT !.phase = AfterGateway(c), !.routed = TRUE])
  /\ Persist(c, Provisioned(c, TRUE))

ApplyAiGatewayPlan(c) ==
  /\ Is(c, "gating")
  /\ CASE command[c].plan = "none" -> Goes(c, AfterGateway(c)) /\ UNCHANGED metadata
       [] command[c].plan = "create" /\ gateway = "none" ->
            Goes(c, "makingGateway") /\ UNCHANGED metadata
       [] command[c].plan \in {"change", "keep"} /\ gateway # "none" -> GatewayConfigured(c)
       [] OTHER -> Stop(c) /\ UNCHANGED metadata
  /\ UNCHANGED <<cloudVars, receipt, upgradeReceipt>>

\* The name may have been taken meanwhile. An answer that refuses it ends the process.
CreateGateway(c) ==
  /\ Is(c, "makingGateway")
  /\ \/ \E answered \in BOOLEAN :
          /\ gateway = "none"
          /\ gateway' = c
          /\ Becomes(c, [command[c] EXCEPT !.phase = "gatewayAsked", !.answered = answered])
     \/ UNCHANGED gateway /\ Becomes(c, [command[c] EXCEPT !.phase = "gatewayAsked"])
     \/ UNCHANGED gateway /\ Stop(c)
  /\ UNCHANGED <<worker, database, bucket, made, fileVars>>

\* After a lost answer a gateway of the name is taken for the one created.
RecordGateway(c) ==
  /\ Is(c, "gatewayAsked")
  /\ IF gateway = "none"
       THEN Stop(c) /\ UNCHANGED <<receipt, metadata>>
       ELSE Record(c, Gateway) /\ GatewayConfigured(c)
  /\ UNCHANGED <<cloudVars, upgradeReceipt>>

-----------------------------------------------------------------------------
(* The deployment *)

Wanted(c) ==
  [worker EXCEPT !.package = command[c].package, !.database = command[c].id,
                 !.routed = command[c].routed]

\* A new secret is written only where no Worker was seen.
SecretFor(c) == IF command[c].seen = 0 THEN <<c, made.version + 1>> ELSE <<>>

\* The Worker as it is after a deployment of what c wants with the secrets it has staged.
Deployment(c, secret) ==
  [Wanted(c) EXCEPT
     !.version = made.version + 1,
     !.secret = IF secret = <<>> THEN worker.secret ELSE secret,
     !.by = IF secret = <<>> THEN worker.by ELSE c,
     !.messages = @ \cup {Message(Wanted(c))}]

Deploys(c, lands, secret) ==
  /\ lands => made.version < MaxVersion /\ database.id = command[c].id
  /\ worker' = IF lands THEN Deployment(c, secret) ELSE worker
  /\ made' = IF lands THEN [made EXCEPT !.version = @ + 1] ELSE made

\* Nothing is deployed when the version seen at the start is what is wanted, unless
\* secrets are supplied.
Deploy(c) ==
  /\ Is(c, "deploying")
  /\ \/ /\ command[c].current = Message(Wanted(c))
        /\ Goes(c, "verifying")
        /\ UNCHANGED <<worker, made>>
     \/ \E lands, answered \in BOOLEAN :
          /\ c = "upgrade" => command[c].current # Message(Wanted(c))
          /\ answered => lands
          /\ Deploys(c, lands, SecretFor(c))
          /\ Becomes(c, [command[c] EXCEPT !.phase = IF answered THEN "deployed" ELSE "reconciling",
                                           !.secret = SecretFor(c)])
  /\ UNCHANGED <<database, bucket, gateway, fileVars>>

RecordWorker(c) ==
  /\ Is(c, "deployed")
  /\ IF command[c].seen = 0 THEN Record(c, Worker) ELSE UNCHANGED receipt
  /\ Goes(c, "verifying")
  /\ UNCHANGED <<cloudVars, metadata, upgradeReceipt>>

\* After an unclean answer a deployment that is listed is the one asked for; it is
\* asked for again, since its routes may be missing.
ReconcileDeployment(c) ==
  /\ Is(c, "reconciling")
  /\ IF Message(Wanted(c)) \notin worker.messages
       THEN Stop(c) /\ UNCHANGED <<receipt, worker, made>>
       ELSE /\ IF command[c].seen = 0 THEN Record(c, Worker) ELSE UNCHANGED receipt
            /\ \E lands, answered \in BOOLEAN :
                 /\ answered => lands
                 /\ Deploys(c, lands, command[c].secret)
                 /\ IF answered
                      THEN Goes(c, "verifying")
                      ELSE StopsWith(c, IF command[c].seen = 0 THEN Recorded(c, Worker)
                                                               ELSE receipt.resources)
  /\ UNCHANGED <<database, bucket, gateway, metadata, upgradeReceipt>>

Aligned(c) == worker.package = command[c].package

VerifyFresh(c) ==
  /\ c # "upgrade" /\ Is(c, "verifying")
  /\ Stop(c)
  /\ IF Aligned(c)
       THEN Persist(c, [saved |-> TRUE, database |-> command[c].id, routed |-> command[c].routed,
                        limit |-> command[c].limit, bucket |-> TRUE])
       ELSE UNCHANGED metadata
  /\ UNCHANGED <<cloudVars, receipt, upgradeReceipt>>

\* The second deployment of an upgrade must have changed nothing. Then its coordinates
\* are written over the metadata.
VerifyUpgrade(c) ==
  /\ c = "upgrade" /\ Is(c, "verifying")
  /\ CASE ~Aligned(c) \/ worker.secret = <<>> \/ database.level # command[c].package ->
            Stop(c) /\ UNCHANGED <<metadata, upgradeReceipt>>
       [] ~command[c].repeats ->
            /\ Begins(c, command[c].package, [UpgradeOptions(TRUE) EXCEPT
                                                !.id = command[c].id, !.routed = command[c].routed])
            /\ UNCHANGED <<metadata, upgradeReceipt>>
       [] command[c].current # Message(Wanted(c)) -> Stop(c) /\ UNCHANGED <<metadata, upgradeReceipt>>
       [] OTHER ->
            /\ Stop(c)
            /\ metadata' = [saved |-> TRUE, database |-> command[c].id, routed |-> command[c].routed,
                            limit |-> FALSE, bucket |-> FALSE]
            /\ upgradeReceipt' = [upgradeReceipt EXCEPT !.phase = "completed"]
  /\ UNCHANGED <<cloudVars, receipt>>

-----------------------------------------------------------------------------
(* The cleanup of a rehearsal *)

\* `--cleanup-only` goes by the receipt that an earlier process has left.
CleanupOnly ==
  /\ Is("rehearsal", "none") /\ receipt.phase \in {"provisioning", "cleanup_pending"}
  /\ StopsWith("rehearsal", receipt.resources)
  /\ UNCHANGED <<cloudVars, fileVars>>

CleanupOrder == <<"worker", "bucket", "database", "gateway">>

IsNext(resource) ==
  /\ resource \in command["rehearsal"].left
  /\ \A other \in command["rehearsal"].left :
       \E i, j \in DOMAIN CleanupOrder :
         i <= j /\ CleanupOrder[i] = resource[1] /\ CleanupOrder[j] = other[1]

Handled(resource, resolved) ==
  Becomes("rehearsal", [command["rehearsal"] EXCEPT
    !.phase = "cleaning", !.left = @ \ {resource},
    !.unresolved = IF resolved THEN @ ELSE @ \cup {resource}])

\* What is there is deleted by its name, and whatever that answers, a second read
\* decides whether it is gone. A read that fails leaves the resource unresolved.
CleanupResource(resource, occupied, there, deletion) ==
  /\ IsNext(resource)
  /\ \/ /\ Is("rehearsal", "cleaning")
        /\ \/ there /\ Goes("rehearsal", "deleting")
           \/ ~there /\ Handled(resource, ~occupied)
           \/ Handled(resource, FALSE)
        /\ UNCHANGED cloudVars
     \/ /\ Is("rehearsal", "deleting")
        /\ deletion \/ UNCHANGED cloudVars
        /\ Goes("rehearsal", "confirming")
     \/ /\ Is("rehearsal", "confirming")
        /\ \E read \in BOOLEAN : Handled(resource, read /\ ~there)
        /\ UNCHANGED cloudVars
  /\ UNCHANGED fileVars

CleanupWorker ==
  CleanupResource(Worker, Exists, Exists,
          worker' = NoWorker /\ UNCHANGED <<database, bucket, gateway, made>>)

CleanupBucket ==
  CleanupResource(Bucket, bucket # "none", bucket # "none",
          bucket' = "none" /\ UNCHANGED <<worker, database, gateway, made>>)

\* Another database of the name is left alone, unless it has come since the read.
CleanupDatabase ==
  \E d \in DatabaseIds :
    CleanupResource(DatabaseOf(d), database.id # 0, database.id = d,
            database' = NoDatabase /\ UNCHANGED <<worker, bucket, gateway, made>>)

CleanupGateway ==
  CleanupResource(Gateway, gateway # "none", gateway # "none",
          gateway' = "none" /\ UNCHANGED <<worker, database, bucket, made>>)

\* What is unresolved stays in the receipt, for another cleanup.
ReceiptAfterCleanup(unresolved) ==
  [phase |-> IF unresolved = {} THEN "completed" ELSE "cleanup_pending", resources |-> unresolved]

CleanupEnds ==
  /\ Is("rehearsal", "cleaning") /\ command["rehearsal"].left = {}
  /\ receipt' = ReceiptAfterCleanup(command["rehearsal"].unresolved)
  /\ Becomes("rehearsal", Idle)
  /\ UNCHANGED <<cloudVars, metadata, upgradeReceipt>>

-----------------------------------------------------------------------------
InstallationsInit ==
  /\ worker = NoWorker
  /\ database = NoDatabase
  /\ bucket = "none" /\ gateway = "none"
  /\ made = [database |-> 0, version |-> 0]
  /\ metadata = NoMetadata
  /\ receipt = [phase |-> "none", resources |-> {}]
  /\ upgradeReceipt = [phase |-> "none", package |-> 0, baseline |-> 0]
  /\ command = [c \in Commands |-> Idle]

InstallationsNext ==
  \/ \E p \in Packages, limit \in BOOLEAN :
       \/ \E id \in 0..MaxDatabase : BeginUp(p, limit, id)
       \/ BeginRehearsal(p, limit)
  \/ \E p \in Packages : BeginUpgrade(p)
  \/ LoseMetadata
  \/ \E c \in Commands :
       \/ Fails(c) \/ Crash(c)
       \/ Inspect(c) \/ Recover(c) \/ PlanAiGateway(c)
       \/ ListDatabases(c) \/ CreateDatabase(c) \/ ReconcileDatabase(c)
       \/ ReadBucket(c) \/ CreateBucket(c) \/ RecordBucket(c)
       \/ CheckVersion(c) \/ Migrate(c)
       \/ ApplyAiGatewayPlan(c) \/ CreateGateway(c) \/ RecordGateway(c)
       \/ Deploy(c) \/ RecordWorker(c) \/ ReconcileDeployment(c)
       \/ VerifyFresh(c) \/ VerifyUpgrade(c)
  \/ CleanupOnly
  \/ CleanupWorker \/ CleanupBucket \/ CleanupDatabase \/ CleanupGateway \/ CleanupEnds

InstallationsSpec == InstallationsInit /\ [][InstallationsNext]_installationVars

-----------------------------------------------------------------------------
(* Properties *)

\* What Cloudflare has, the files and the processes are well typed.
InstallationsTypeOK ==
  /\ worker \in WorkerVersion /\ database \in Database
  /\ bucket \in Makers /\ gateway \in Makers
  /\ made \in [database : 0..MaxDatabase, version : 0..MaxVersion]
  /\ metadata \in Metadata /\ receipt \in Receipt /\ upgradeReceipt \in UpgradeReceipt
  /\ command \in [Commands -> Command]

Deployed == worker'.version > worker.version

\* A Worker is deployed with a database that has all migrations of its package, and a
\* deployment over a Worker that `up' has made keeps its authentication secret and, unless
\* the Worker has changed since the process read it, its gateway route. So the name of
\* the database keeps a rehearsal that has seen no Worker from deploying over one. Of the
\* route nothing is said once an upgrade's rehearsal has written the coordinates it began
\* with over the metadata: what `up' has saved meanwhile is lost, and the next `up'
\* deploys without the route.
InstallationKept ==
  [][Deployed =>
       /\ database.id = worker'.database
       /\ database.level >= worker'.package
       /\ worker.by = "up" =>
            /\ worker'.secret = worker.secret
            /\ \A c \in Commands :
                 (/\ command'[c] # command[c] /\ command[c].seen = worker.version
                  /\ worker.routed /\ upgradeReceipt.phase # "completed")
                    => worker'.routed]_installationVars

\* A cleanup deletes only what its rehearsal has made.
OccupiedNeverAdopted ==
  [][/\ (Exists /\ worker' = NoWorker) => worker.by = "rehearsal"
     /\ (database.id # 0 /\ database' = NoDatabase) => database.by = "rehearsal"
     /\ (bucket # "none" /\ bucket' = "none") => bucket = "rehearsal"
     /\ (gateway # "none" /\ gateway' = "none") => gateway = "rehearsal"]_installationVars
=============================================================================
