----------------------------- MODULE Maintenance -----------------------------
(****************************************************************************)
(* The stores of a workspace - one control store, one store per world - and  *)
(* the commands that create, upgrade, save and restore them.  Each command   *)
(* touches the stores one after the other, each in a transaction of its own, *)
(* and they keep apart only by lock files that they look at when they start. *)
(****************************************************************************)
EXTENDS Integers, FiniteSets, Functions

CONSTANTS
  Control,              \* the control store, control.sqlite
  Worlds,               \* the worlds: worlds/<id>/world.sqlite
  Operators,            \* commands of the CLI that may run at once
  Stamps,               \* bound: seconds in which a backup is named
  Places,               \* bound: destinations of a restore
  MaxDeaths,            \* bound: commands that die
  Nowhere

Stores == {Control} \cup Worlds
Absent == -1            \* no file
Unknown == 0            \* a file without a schema_info row
SchemaVersion == 2      \* CONTROL_SCHEMA_VERSION and WORLD_SCHEMA_VERSION

ASSUME StoresAssumption == Control \notin Worlds

VARIABLES
  version,              \* the schema version of each store
  registered,           \* the worlds that the control store lists
  locks,                \* hermes/maintenance: "update" and "migration"
  backups,              \* backup directories, by their time stamp
  restored,             \* restored workspaces, by their destination
  job,                  \* what each command is doing
  deaths                \* how many commands died

stores == <<version, registered>>
maintenanceVars == <<stores, locks, backups, restored, job, deaths>>

NoJob == [at |-> "idle", plan |-> [s \in {} |-> Absent], todo |-> {}, use |-> Nowhere, dest |-> Nowhere]
NoCopy == [kind |-> "none", copy |-> [s \in {} |-> Absent], listed |-> {}, sealed |-> FALSE]
Untouched == [exists |-> FALSE, copy |-> [s \in {} |-> Absent], listed |-> {},
              relocated |-> {}, receipt |-> FALSE]

Begins(o, j) == job[o].at = "idle" /\ locks = {} /\ job' = [job EXCEPT ![o] = j]
Doing(o, place) == job[o].at = place
Goes(o, place) == job' = [job EXCEPT ![o].at = place]
Leave(o) == job' = [job EXCEPT ![o] = NoJob]

\* The stores are walked with the control store first.
IsNext(s, todo) == s \in todo /\ (Control \in todo => s = Control)
Put(f, s, x) == [z \in {s} \cup DOMAIN f |-> IF z = s THEN x ELSE f[z]]

------------------------------------------------------------------------------
(* wsa init and the creation of a world *)

\* init_workspace, alone or for create_world: nothing to do when the file is there.
InitWorkspace(o, w) ==
  /\ Begins(o, [NoJob EXCEPT !.at = IF version[Control] = Absent THEN "opened"
                                   ELSE IF w = Nowhere THEN "idle" ELSE "checking",
                            !.use = w])
  /\ w # Nowhere => version[w] = Absent /\ \A p \in Operators : job[p].use # w
  /\ version' = [version EXCEPT ![Control] = IF @ = Absent THEN Unknown ELSE @]
  /\ UNCHANGED <<registered, locks, backups, restored, deaths>>

\* init_control_schema: another command may have opened the file since.
InitSchema(o) ==
  /\ Doing(o, "opened")
  /\ version' = [version EXCEPT ![Control] = SchemaVersion]
  /\ job' = [job EXCEPT ![o].at = IF job[o].use = Nowhere THEN "idle" ELSE "checking"]
  /\ UNCHANGED <<registered, locks, backups, restored, deaths>>

\* A faulty check, for the checks to reject: any control store will do.
CheckNothing(o) ==
  /\ Doing(o, "checking") /\ Goes(o, "creating")
  /\ UNCHANGED <<stores, locks, backups, restored, deaths>>

\* ensure_current_schema: SchemaVersionError or MigrationRequiredError.
CheckCurrent(o) ==
  /\ Doing(o, "checking")
  /\ IF version[Control] = SchemaVersion THEN Goes(o, "creating") ELSE Leave(o)
  /\ UNCHANGED <<stores, locks, backups, restored, deaths>>

\* The world's directory and file, empty at first, under an id that is new.
OpenWorld(o) ==
  /\ Doing(o, "creating")
  /\ version' = [version EXCEPT ![job[o].use] = Unknown]
  /\ Goes(o, "initializing")
  /\ UNCHANGED <<registered, locks, backups, restored, deaths>>

\* A faulty initialization, for the checks to reject: whoever opens the world next
\* would give it its schema.
InitWorldLater(o) ==
  /\ Doing(o, "initializing") /\ Goes(o, "registering")
  /\ UNCHANGED <<stores, locks, backups, restored, deaths>>

InitWorld(o) ==
  /\ Doing(o, "initializing")
  /\ version' = [version EXCEPT ![job[o].use] = SchemaVersion]
  /\ Goes(o, "registering")
  /\ UNCHANGED <<registered, locks, backups, restored, deaths>>

RegisterWorld(o) ==
  /\ Doing(o, "registering")
  /\ registered' = registered \cup {job[o].use}
  /\ Leave(o)
  /\ UNCHANGED <<version, locks, backups, restored, deaths>>

------------------------------------------------------------------------------
(* wsa migrate --apply *)

Migrate(o) ==
  /\ version[Control] # Absent
  /\ Begins(o, [NoJob EXCEPT !.at = "planning", !.todo = registered,
                            !.plan = [s \in {Control} |-> version[s]]])
  /\ UNCHANGED <<stores, locks, backups, restored, deaths>>

\* plan_migrations, one store; a missing file has no version.
PlanStore(o, s) ==
  /\ Doing(o, "planning") /\ s \in job[o].todo
  /\ job' = [job EXCEPT ![o].todo = @ \ {s},
                        ![o].plan = Put(@, s, IF version[s] = Absent THEN Unknown ELSE version[s])]
  /\ UNCHANGED <<stores, locks, backups, restored, deaths>>

\* The steps of a plan that are upgrade_required.
ToUpgrade(plan) == {s \in DOMAIN plan : plan[s] = 1}

\* Blocked by an unknown or a newer version, or nothing to upgrade: only verified.
PlanEnds(o) ==
  /\ Doing(o, "planning") /\ job[o].todo = {}
  /\ IF ToUpgrade(job[o].plan) # {} /\ Range(job[o].plan) \subseteq 1..SchemaVersion
       THEN Goes(o, "naming") ELSE Leave(o)
  /\ UNCHANGED <<stores, locks, backups, restored, deaths>>

\* A faulty backup, for the checks to reject: the stores still to come are left out.
NameBackupOfCurrent(o, t) ==
  /\ Doing(o, "naming") /\ backups[t].kind = "none"
  /\ backups' = [backups EXCEPT ![t].kind = "migration"]
  /\ job' = [job EXCEPT ![o].at = "copying", ![o].use = t,
                        ![o].todo = {Control} \cup (DOMAIN job[o].plan \ ToUpgrade(job[o].plan))]
  /\ UNCHANGED <<stores, locks, restored, deaths>>

\* _backup_databases: the directory of this second must not exist yet.
NameBackup(o, t) ==
  /\ Doing(o, "naming") /\ backups[t].kind = "none"
  /\ backups' = [backups EXCEPT ![t].kind = "migration"]
  /\ job' = [job EXCEPT ![o].at = "copying", ![o].use = t, ![o].todo = DOMAIN job[o].plan]
  /\ UNCHANGED <<stores, locks, restored, deaths>>

NameTaken(o, t) ==
  /\ job[o].at \in {"naming", "listing"} /\ backups[t].kind # "none"
  /\ Leave(o)
  /\ UNCHANGED <<stores, locks, backups, restored, deaths>>

\* One store, by SQLite's online backup; for backup_workspace too.
CopyStore(o, s) ==
  /\ Doing(o, "copying") /\ IsNext(s, job[o].todo)
  /\ backups' = [backups EXCEPT ![job[o].use].copy = Put(@, s, version[s]),
                                ![job[o].use].listed = IF s = Control THEN registered ELSE @]
  /\ job' = [job EXCEPT ![o].todo = @ \ {s}]
  /\ UNCHANGED <<stores, locks, restored, deaths>>

\* The manifest is written last.
SealBackup(o) ==
  /\ Doing(o, "copying") /\ job[o].todo = {}
  /\ backups' = [backups EXCEPT ![job[o].use].sealed = TRUE]
  /\ IF backups[job[o].use].kind = "migration" THEN Goes(o, "locking") ELSE Leave(o)
  /\ UNCHANGED <<stores, locks, restored, deaths>>

\* The lock is written, whether or not there is one.
TakeLock(o) ==
  /\ Doing(o, "locking")
  /\ locks' = locks \cup {"migration"}
  /\ job' = [job EXCEPT ![o].at = "upgrading", ![o].todo = ToUpgrade(job[o].plan)]
  /\ UNCHANGED <<stores, backups, restored, deaths>>

\* control_v1_to_v2 or world_v1_to_v2, each in one transaction.
Upgrade(o, s) ==
  /\ Doing(o, "upgrading") /\ IsNext(s, job[o].todo)
  /\ version' = [version EXCEPT ![s] = SchemaVersion]
  /\ job' = [job EXCEPT ![o].todo = @ \ {s}]
  /\ UNCHANGED <<registered, locks, backups, restored, deaths>>

\* SQLite refuses, or the disk is full: MigrationError, with some stores upgraded.
UpgradeFails(o) ==
  /\ Doing(o, "upgrading") /\ job[o].todo # {}
  /\ Goes(o, "unlocking")
  /\ UNCHANGED <<stores, locks, backups, restored, deaths>>

\* _verify_plan of a second plan; what it finds only decides the message.
Verify(o) ==
  /\ Doing(o, "upgrading") /\ job[o].todo = {}
  /\ Goes(o, "unlocking")
  /\ UNCHANGED <<stores, locks, backups, restored, deaths>>

\* finally: the lock goes, also one that another command has written.
Unlock(o) ==
  /\ Doing(o, "unlocking")
  /\ locks' = locks \ {"migration"}
  /\ Leave(o)
  /\ UNCHANGED <<stores, backups, restored, deaths>>

------------------------------------------------------------------------------
(* wsa update backup *)

\* run_update_preflight: every store is current, and nothing is queued or active
\* (otherwise the command is refused); a lock does not matter.
Preflight(o) ==
  /\ job[o].at = "idle"
  /\ version[Control] \in {Absent, SchemaVersion}
  /\ \A w \in registered : version[w] = SchemaVersion
  /\ job' = [job EXCEPT ![o] = [NoJob EXCEPT !.at = "listing"]]
  /\ UNCHANGED <<stores, locks, backups, restored, deaths>>

\* The directory, and the list of the SQLite files that are there.
ListStores(o, t) ==
  /\ Doing(o, "listing") /\ backups[t].kind = "none"
  /\ backups' = [backups EXCEPT ![t].kind = "update"]
  /\ job' = [job EXCEPT ![o].at = "copying", ![o].use = t,
                        ![o].todo = {s \in Stores : version[s] # Absent}]
  /\ UNCHANGED <<stores, locks, restored, deaths>>

------------------------------------------------------------------------------
(* wsa migrate restore *)

Missing(b) == (b.listed \cup {Control}) \ DOMAIN b.copy

\* A faulty plan, for the checks to reject: the worlds for which there is a file.
PlanWhatIsThere(o, t, d) ==
  /\ backups[t].kind = "migration" /\ backups[t].sealed
  /\ Control \in DOMAIN backups[t].copy
  /\ ~restored[d].exists
  /\ Begins(o, [NoJob EXCEPT !.at = "restoring", !.use = t, !.dest = d,
                            !.todo = {Control} \cup (backups[t].listed \cap DOMAIN backups[t].copy)])
  /\ UNCHANGED <<stores, locks, backups, restored, deaths>>

\* plan_restore_to_new_path; refused while the runtime has files in its queues.
PlanRestore(o, t, d) ==
  /\ backups[t].kind = "migration" /\ backups[t].sealed /\ Missing(backups[t]) = {}
  /\ ~restored[d].exists
  /\ Begins(o, [NoJob EXCEPT !.at = "restoring", !.use = t, !.dest = d,
                            !.todo = {Control} \cup backups[t].listed])
  /\ UNCHANGED <<stores, locks, backups, restored, deaths>>

\* execute_restore_to_new_path looks again at all but the backup.
MakePlace(o) ==
  /\ Doing(o, "restoring")
  /\ IF ~restored[job[o].dest].exists /\ locks = {}
       THEN /\ restored' = [restored EXCEPT ![job[o].dest].exists = TRUE]
            /\ Goes(o, "refilling")
       ELSE Leave(o) /\ UNCHANGED restored
  /\ UNCHANGED <<stores, locks, backups, deaths>>

RestoreStore(o, s) ==
  /\ Doing(o, "refilling") /\ IsNext(s, job[o].todo)
  /\ LET b == backups[job[o].use] IN
     restored' = [restored EXCEPT ![job[o].dest].copy = Put(@, s, b.copy[s]),
                                  ![job[o].dest].listed = b.listed]
  /\ job' = [job EXCEPT ![o].todo = @ \ {s}]
  /\ UNCHANGED <<stores, locks, backups, deaths>>

\* _rewrite_world_paths, in one transaction.
Relocate(o) ==
  /\ Doing(o, "refilling") /\ job[o].todo = {}
  /\ restored' = [restored EXCEPT ![job[o].dest].relocated = @ \cup backups[job[o].use].listed]
  /\ Goes(o, "comparing")
  /\ UNCHANGED <<stores, locks, backups, deaths>>

\* Integrity and row counts agree with the backup: the receipt is written last.
WriteReceipt(o) ==
  /\ Doing(o, "comparing")
  /\ restored' = [restored EXCEPT ![job[o].dest].receipt = TRUE]
  /\ Leave(o)
  /\ UNCHANGED <<stores, locks, backups, deaths>>

\* A copy fails, or a count differs: the destination stays, without a receipt.
RestoreFails(o) ==
  /\ job[o].at \in {"refilling", "comparing"}
  /\ Leave(o)
  /\ UNCHANGED <<stores, locks, backups, restored, deaths>>

------------------------------------------------------------------------------

Dies(o) ==
  /\ job[o].at # "idle" /\ deaths < MaxDeaths
  /\ deaths' = deaths + 1
  /\ Leave(o)
  /\ UNCHANGED <<stores, locks, backups, restored>>

\* Outside the program: whoever updates the package sets update.lock, and a lock
\* that nobody works under is deleted by hand.
SetUpdateLock ==
  /\ locks = {}
  /\ locks' = {"update"}
  /\ UNCHANGED <<stores, backups, restored, job, deaths>>

RemoveLock ==
  /\ locks # {} /\ \A o \in Operators : job[o].at \notin {"upgrading", "unlocking"}
  /\ locks' = {}
  /\ UNCHANGED <<stores, backups, restored, job, deaths>>

\* A workspace of an earlier version, of this one, half upgraded, newer, or none;
\* some registered worlds may have lost their file.
MaintenanceInit ==
  /\ version \in [Stores -> {Absent, 1, SchemaVersion, SchemaVersion + 1}]
  /\ registered \in SUBSET Worlds
  /\ version[Control] = Absent => registered = {}
  /\ \A w \in Worlds \ registered : version[w] = Absent
  /\ locks = {} /\ deaths = 0
  /\ backups = [t \in Stamps |-> NoCopy]
  /\ restored = [d \in Places |-> Untouched]
  /\ job = [o \in Operators |-> NoJob]

MaintenanceNext ==
  \/ SetUpdateLock \/ RemoveLock
  \/ \E o \in Operators :
       \/ \E w \in Worlds \cup {Nowhere} : InitWorkspace(o, w)
       \/ InitSchema(o) \/ CheckCurrent(o) \/ OpenWorld(o) \/ InitWorld(o) \/ RegisterWorld(o)
       \/ Migrate(o) \/ PlanEnds(o) \/ SealBackup(o) \/ TakeLock(o)
       \/ UpgradeFails(o) \/ Verify(o) \/ Unlock(o)
       \/ Preflight(o)
       \/ MakePlace(o) \/ Relocate(o) \/ WriteReceipt(o) \/ RestoreFails(o)
       \/ Dies(o)
       \/ \E s \in Stores : PlanStore(o, s) \/ CopyStore(o, s) \/ Upgrade(o, s) \/ RestoreStore(o, s)
       \/ \E t \in Stamps : NameBackup(o, t) \/ NameTaken(o, t) \/ ListStores(o, t)
                            \/ \E d \in Places : PlanRestore(o, t, d)

MaintenanceSpec == MaintenanceInit /\ [][MaintenanceNext]_maintenanceVars

------------------------------------------------------------------------------
(* Properties *)

\* A store goes from version 1 to 2 only when a finished migration backup holds it
\* at version 1: _backup_databases ends before the first upgrade, also when two
\* migrations run side by side or one was cut short (apply_migrations).
BackedUpBeforeUpgrade ==
  \A s \in Stores : version[s] = 1 /\ version'[s] # 1 =>
    \E t \in Stamps : /\ backups[t].sealed /\ backups[t].kind = "migration"
                      /\ s \in DOMAIN backups[t].copy /\ backups[t].copy[s] = 1

\* And a world gets its row only when its store has its whole schema, whatever else
\* runs or dies; plan_migrations would stay blocked by it otherwise (create_world).
RegisteredWhole ==
  \A w \in registered' \ registered : version'[w] = SchemaVersion

\* What the commands that write stores keep true, wherever one fails or dies: no upgrade
\* without a backup, and no world without a store (apply_migrations, create_world).
StoresAreKept == [][BackedUpBeforeUpgrade /\ RegisteredWhole]_maintenanceVars

\* The backup of a workspace whose control store was to be upgraded holds every
\* world that its control store lists, so that it can be restored: no world can be
\* created beside it, for create_world wants a current control store.
OldBackupsAreWhole ==
  \A t \in Stamps : LET b == backups[t] IN
    b.sealed /\ b.kind = "migration" /\ b.copy[Control] = 1 => Missing(b) = {}

\* A destination with a receipt has every world that its control store lists, at the
\* new path, although a backup beside a creation may lack one
\* (plan_restore_to_new_path, execute_restore_to_new_path).
ReceiptMeansWhole ==
  \A d \in Places : LET r == restored[d] IN
    r.receipt => /\ {Control} \cup r.listed = DOMAIN r.copy
                 /\ r.relocated = r.listed

\* A backup that a restore can start from, and a restore that says it is done.
CopiesAreWhole == OldBackupsAreWhole /\ ReceiptMeansWhole
==============================================================================
