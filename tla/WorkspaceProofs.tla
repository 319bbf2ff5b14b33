---------------------------- MODULE WorkspaceProofs ----------------------------
(****************************************************************************)
(* Proofs about what commands of one workspace rewrite beside each other,   *)
(* whichever run side by side or die: the stores (Maintenance), for any     *)
(* worlds, commands, backups and destinations of a restore, and the startup *)
(* profile (StartupProfile), for any editors, questions and profiles left.  *)
(****************************************************************************)
EXTENDS Maintenance, StartupProfile, FiniteSetTheorems, TLAPS

------------------------------------------------------------------------------
(* The inductive invariant, in parts. *)

CreatePlaces == {"opened", "checking", "creating", "initializing", "registering"}
MigratePlaces == {"planning", "naming", "copying", "locking", "upgrading", "unlocking"}
RestorePlaces == {"restoring", "refilling", "comparing"}
Filling == {"refilling", "comparing"}

Plans == UNION {[S -> Int] : S \in SUBSET Stores}
Jobs ==
  [at : CreatePlaces \cup MigratePlaces \cup RestorePlaces \cup {"idle", "listing"},
   plan : Plans, todo : SUBSET Stores, use : Worlds \cup Stamps \cup {Nowhere},
   dest : Places \cup {Nowhere}]
Backups ==
  [kind : {"none", "migration", "update"}, copy : Plans, listed : SUBSET Worlds,
   sealed : BOOLEAN]
Restores ==
  [exists : BOOLEAN, copy : Plans, listed : SUBSET Worlds, relocated : SUBSET Worlds,
   receipt : BOOLEAN]

Types ==
  /\ version \in [Stores -> Int] /\ registered \subseteq Worlds
  /\ backups \in [Stamps -> Backups] /\ restored \in [Places -> Restores]
  /\ job \in [Operators -> Jobs]

\* A command that creates a world has its id for itself, knows how far its store is,
\* and goes on only with an up-to-date control store.
Creates(j) == j.at \in CreatePlaces /\ (j.at = "opened" => j.use # Nowhere)
Creating(j, v) ==
  /\ j.at = "opened" => v[Control] \in {Unknown, SchemaVersion}
  /\ j.at \in {"creating", "initializing", "registering"} => v[Control] = SchemaVersion
  /\ Creates(j) => j.use \in Worlds
  /\ Creates(j) /\ j.at \in {"opened", "checking", "creating"} => v[j.use] = Absent
  /\ j.at = "initializing" => v[j.use] = Unknown
  /\ j.at = "registering" => v[j.use] = SchemaVersion

\* What is planned for an upgrade is old or upgraded; while the control store is old,
\* the plan is to know every world.
Planning(j, v, reg) ==
  /\ \A s \in ToUpgrade(j.plan) : v[s] \in {1, SchemaVersion}
  /\ j.at \in {"planning", "naming"} => Control \in DOMAIN j.plan
  /\ j.at = "planning" => (v[Control] = 1 => reg \subseteq DOMAIN j.plan \cup j.todo)
  /\ j.at = "naming" => (v[Control] = 1 => reg \subseteq DOMAIN j.plan)

\* Stores that are still old were old when they were copied.
Saved(S, v, copy) == \A s \in S : s \in DOMAIN copy /\ (v[s] = 1 => copy[s] = 1)

Copying(j, v, reg, b) ==
  j.at = "copying" =>
    /\ j.use \in Stamps /\ ~b.sealed /\ b.kind # "none"
    /\ b.kind = "migration" =>
         /\ Control \in DOMAIN j.plan
         /\ DOMAIN j.plan \subseteq DOMAIN b.copy \cup j.todo
         /\ Saved(ToUpgrade(j.plan) \ j.todo, v, b.copy)
         /\ Control \in j.todo => (v[Control] = 1 => reg \subseteq DOMAIN j.plan)
         /\ Control \notin j.todo => (b.copy[Control] = 1 => b.listed \subseteq DOMAIN j.plan)

Upgrading(j, v, b) ==
  /\ j.at \in {"locking", "upgrading"} =>
       /\ j.use \in Stamps /\ b.sealed /\ b.kind = "migration"
       /\ Saved(ToUpgrade(j.plan), v, b.copy)
  /\ j.at = "upgrading" => j.todo \subseteq ToUpgrade(j.plan)

\* A destination fills up from a whole backup, the control store first.
Restoring(j, b, r) ==
  /\ j.at \in RestorePlaces =>
       j.use \in Stamps /\ j.dest \in Places /\ b.sealed /\ Missing(b) = {}
  /\ j.at = "restoring" => j.todo = {Control} \cup b.listed
  /\ j.at \in Filling => r.exists /\ ~r.receipt
  /\ j.at = "refilling" =>
       /\ j.todo \subseteq {Control} \cup b.listed
       /\ DOMAIN r.copy = ({Control} \cup b.listed) \ j.todo
       /\ r.relocated = {}
       /\ Control \notin j.todo => r.listed = b.listed
  /\ j.at = "comparing" =>
       DOMAIN r.copy = {Control} \cup b.listed /\ r.relocated = b.listed /\ r.listed = b.listed

Fine(j, v, reg, bs, rs) ==
  /\ Creating(j, v) /\ Planning(j, v, reg)
  /\ Copying(j, v, reg, bs[j.use]) /\ Upgrading(j, v, bs[j.use])
  /\ Restoring(j, bs[j.use], rs[j.dest])

\* No two commands create one world, write one backup or fill one destination.
Apart(j, k) ==
  /\ Creates(j) /\ Creates(k) => j.use # k.use
  /\ j.at = "copying" /\ k.at = "copying" => j.use # k.use
  /\ j.at \in Filling /\ k.at \in Filling => j.dest # k.dest

BackupSound(b) ==
  /\ b.kind = "none" => ~b.sealed
  /\ b.sealed /\ b.kind = "migration" =>
       Control \in DOMAIN b.copy /\ (b.copy[Control] = 1 => Missing(b) = {})

RestoreSound(r) ==
  /\ ~r.exists => DOMAIN r.copy = {} /\ r.relocated = {} /\ ~r.receipt
  /\ r.receipt => {Control} \cup r.listed = DOMAIN r.copy /\ r.relocated = r.listed

IInv ==
  /\ Types
  /\ \A t \in Stamps : BackupSound(backups[t])
  /\ \A d \in Places : RestoreSound(restored[d])
  /\ \A p \in Operators : Fine(job[p], version, registered, backups, restored)
  /\ \A p, q \in Operators : p # q => Apart(job[p], job[q])

------------------------------------------------------------------------------
(* Lemmas about plans and copies *)

LEMMA PlanShape ==
  ASSUME NEW f \in Plans
  PROVE  f \in [DOMAIN f -> Int] /\ DOMAIN f \subseteq Stores
BY DEF Plans

LEMMA PlanMade ==
  ASSUME NEW S \in SUBSET Stores, NEW f \in [S -> Int]
  PROVE  f \in Plans
BY DEF Plans

LEMMA PutShape ==
  ASSUME NEW f \in Plans, NEW s \in Stores, NEW x \in Int
  PROVE  /\ Put(f, s, x) \in Plans
         /\ DOMAIN Put(f, s, x) = DOMAIN f \cup {s}
         /\ Put(f, s, x)[s] = x
         /\ \A z \in DOMAIN f \ {s} : Put(f, s, x)[z] = f[z]
<1>1. f \in [DOMAIN f -> Int] /\ DOMAIN f \subseteq Stores
  BY PlanShape
<1>2. Put(f, s, x) \in [{s} \cup DOMAIN f -> Int]
  BY <1>1 DEF Put
<1>3. {s} \cup DOMAIN f \in SUBSET Stores
  BY <1>1
<1>4. Put(f, s, x) \in Plans
  BY <1>2, <1>3, PlanMade
<1> QED
  BY <1>1, <1>2, <1>4 DEF Put

LEMMA NoJobShape ==
  NoJob \in Jobs /\ NoJob.at = "idle" /\ NoJob.plan \in Plans /\ DOMAIN NoJob.plan = {}
<1>1. [s \in {} |-> Absent] \in [{} -> Int]
  OBVIOUS
<1>2. [s \in {} |-> Absent] \in Plans
  BY <1>1, PlanMade
<1>3. DOMAIN [s \in {} |-> Absent] = {}
  OBVIOUS
<1> QED
  BY <1>2, <1>3 DEF NoJob, Jobs

------------------------------------------------------------------------------
(* What one command leaves the others *)

\* No store becomes old again or disappears; an old control store has no new world.
VersionsMove ==
  /\ \A s \in Stores :
       /\ version'[s] = 1 => version[s] = 1
       /\ version[s] \in {1, SchemaVersion} => version'[s] \in {1, SchemaVersion}
       /\ version[s] = SchemaVersion => version'[s] = SchemaVersion
  /\ version[Control] = Unknown => version'[Control] \in {Unknown, SchemaVersion}
  /\ version'[Control] = 1 => registered' = registered

\* The worlds, backups and destinations of others stay as they are.
LeavesOthers(o) ==
  /\ \A q \in Operators \ {o} : Creates(job[q]) => version'[job[q].use] = version[job[q].use]
  /\ \A t \in Stamps :
       \/ backups'[t] = backups[t]
       \/ /\ ~backups[t].sealed
          /\ \A q \in Operators \ {o} : job[q].at = "copying" => job[q].use # t
  /\ \A q \in Operators \ {o} :
       job[q].at \in Filling => restored'[job[q].dest] = restored[job[q].dest]

LEMMA OthersLemma ==
  ASSUME IInv, VersionsMove, NEW o \in Operators, LeavesOthers(o), NEW q \in Operators \ {o}
  PROVE  Fine(job[q], version', registered', backups', restored')
<1> DEFINE j == job[q]
<1>1. /\ j \in Jobs
      /\ Creating(j, version) /\ Planning(j, version, registered)
      /\ Copying(j, version, registered, backups[j.use])
      /\ Upgrading(j, version, backups[j.use])
      /\ Restoring(j, backups[j.use], restored[j.dest])
  BY DEF IInv, Types, Fine
<1>2. Creates(j) => version'[j.use] = version[j.use]
  BY DEF LeavesOthers
<1>3. j.at = "copying" => backups'[j.use] = backups[j.use]
  BY <1>1 DEF LeavesOthers, Copying
<1>4. j.at \in {"locking", "upgrading"} \cup RestorePlaces => backups'[j.use] = backups[j.use]
  BY <1>1 DEF LeavesOthers, Upgrading, Restoring
<1>5. j.at \in Filling => restored'[j.dest] = restored[j.dest]
  BY DEF LeavesOthers
<1>6. /\ DOMAIN j.plan \subseteq Stores /\ ToUpgrade(j.plan) \subseteq Stores
      /\ Control \in Stores /\ Worlds \subseteq Stores
  BY <1>1, PlanShape DEF Jobs, ToUpgrade, Stores
<1> HIDE DEF j
<1>7. Creating(j, version')
  BY <1>1, <1>2, <1>6 DEF Creating, Creates, VersionsMove, CreatePlaces, Unknown, SchemaVersion
<1>8. Planning(j, version', registered')
  BY <1>1, <1>6 DEF Planning, VersionsMove
<1>9. Copying(j, version', registered', backups'[j.use])
  BY <1>1, <1>3, <1>6 DEF Copying, Saved, VersionsMove
<1>10. Upgrading(j, version', backups'[j.use])
  BY <1>1, <1>4, <1>6 DEF Upgrading, Saved, VersionsMove
<1>11. Restoring(j, backups'[j.use], restored'[j.dest])
  BY <1>1, <1>4, <1>5 DEF Restoring, RestorePlaces, Filling
<1> QED
  BY <1>7, <1>8, <1>9, <1>10, <1>11 DEF Fine, j

\* A step of one command that is fine afterwards, and apart from the others.
LEMMA StepLemma ==
  ASSUME IInv, NEW o \in Operators, NEW j \in Jobs, job' = [job EXCEPT ![o] = j],
         version' \in [Stores -> Int], registered' \subseteq Worlds,
         backups' \in [Stamps -> Backups], restored' \in [Places -> Restores],
         VersionsMove, LeavesOthers(o),
         \A t \in Stamps : BackupSound(backups'[t]),
         \A d \in Places : RestoreSound(restored'[d]),
         Fine(j, version', registered', backups', restored'),
         \A q \in Operators \ {o} : Apart(j, job[q])
  PROVE  IInv'
<1>1. /\ job'[o] = j /\ \A q \in Operators \ {o} : job'[q] = job[q]
      /\ Types'
  BY DEF IInv, Types
<1>2. \A q \in Operators \ {o} : Fine(job[q], version', registered', backups', restored')
  BY OthersLemma
<1>3. \A p \in Operators : Fine(job'[p], version', registered', backups', restored')
  BY <1>1, <1>2
<1>4. ASSUME NEW p \in Operators, NEW q \in Operators, p # q
      PROVE  Apart(job'[p], job'[q])
  <2>1. CASE p = o
    BY <1>1, <1>4, <2>1
  <2>2. CASE q = o
    BY <1>1, <1>4, <2>2 DEF Apart
  <2>3. CASE p # o /\ q # o
    BY <1>1, <1>4, <2>3 DEF IInv
  <2> QED
    BY <2>1, <2>2, <2>3
<1> QED
  BY <1>1, <1>3, <1>4 DEF IInv

\* What a command does in places where it claims nothing new.
Keeps(j, k) ==
  /\ Creates(j) => Creates(k) /\ j.use = k.use
  /\ j.at = "copying" => k.at = "copying" /\ j.use = k.use
  /\ j.at \in Filling => k.at \in Filling /\ j.dest = k.dest

LEMMA KeepsApart ==
  ASSUME IInv, NEW o \in Operators, NEW j, Keeps(j, job[o])
  PROVE  \A q \in Operators \ {o} : Apart(j, job[q])
BY DEF IInv, Keeps, Apart

LEMMA Facts ==
  ASSUME IInv, NEW o \in Operators
  PROVE  /\ job[o] \in Jobs
         /\ Fine(job[o], version, registered, backups, restored)
         /\ Creating(job[o], version) /\ Planning(job[o], version, registered)
         /\ Copying(job[o], version, registered, backups[job[o].use])
         /\ Upgrading(job[o], version, backups[job[o].use])
         /\ Restoring(job[o], backups[job[o].use], restored[job[o].dest])
BY DEF IInv, Types, Fine

LEMMA Shapes ==
  ASSUME IInv
  PROVE  /\ version \in [Stores -> Int] /\ registered \subseteq Worlds
         /\ backups \in [Stamps -> Backups] /\ restored \in [Places -> Restores]
         /\ job \in [Operators -> Jobs]
         /\ Control \in Stores /\ Worlds \subseteq Stores /\ Control \notin Worlds
         /\ \A t \in Stamps : BackupSound(backups[t])
         /\ \A d \in Places : RestoreSound(restored[d])
BY StoresAssumption DEF IInv, Types, Stores

\* A step that touches nothing but its own job.
LEMMA JobLemma ==
  ASSUME IInv, NEW o \in Operators, NEW j \in Jobs, job' = [job EXCEPT ![o] = j],
         UNCHANGED <<version, registered, backups, restored>>,
         Fine(j, version, registered, backups, restored), Keeps(j, job[o])
  PROVE  IInv'
<1>1. VersionsMove /\ LeavesOthers(o)
  BY Shapes DEF VersionsMove, LeavesOthers
<1>2. \A q \in Operators \ {o} : Apart(j, job[q])
  BY KeepsApart
<1> QED
  BY <1>1, <1>2, Shapes, StepLemma

\* Places where a command has nothing that others could spoil.
LEMMA AtEase ==
  ASSUME NEW j \in Jobs, j.at \in {"idle", "listing", "unlocking"},
         NEW v \in [Stores -> Int], NEW reg, NEW bs, NEW rs,
         \A s \in ToUpgrade(j.plan) : v[s] \in {1, SchemaVersion}
  PROVE  Fine(j, v, reg, bs, rs) /\ \A k : Keeps(j, k)
BY DEF Fine, Creating, Creates, CreatePlaces, Planning, Copying, Upgrading, Restoring,
       RestorePlaces, Filling, Keeps

\* Returning, with an answer, an error or because the command dies.
LEMMA LeaveLemma ==
  ASSUME IInv, NEW o \in Operators, Leave(o),
         UNCHANGED <<version, registered, backups, restored>>
  PROVE  IInv'
<1>1. ToUpgrade(NoJob.plan) = {}
  BY NoJobShape DEF ToUpgrade
<1>2. Fine(NoJob, version, registered, backups, restored) /\ Keeps(NoJob, job[o])
  BY <1>1, NoJobShape, Shapes, AtEase
<1> QED
  BY <1>2, NoJobShape, JobLemma DEF Leave

LEMMA GoLemma ==
  ASSUME IInv, NEW o \in Operators, NEW place \in {"unlocking", "idle"}, Goes(o, place),
         UNCHANGED <<version, registered, backups, restored>>
  PROVE  IInv'
<1> DEFINE j == [job[o] EXCEPT !.at = place]
<1>1. j \in Jobs /\ j.at = place /\ j.plan = job[o].plan
  BY Facts DEF Jobs, MigratePlaces
<1>2. job' = [job EXCEPT ![o] = j]
  BY DEF Goes
<1> HIDE DEF j
<1>3. \A s \in ToUpgrade(j.plan) : version[s] \in {1, SchemaVersion}
  BY <1>1, Facts DEF Planning
<1>4. Fine(j, version, registered, backups, restored) /\ Keeps(j, job[o])
  BY <1>1, <1>3, Shapes, AtEase
<1> QED
  BY <1>1, <1>2, <1>4, JobLemma

------------------------------------------------------------------------------
(* Creating a world *)

LEMMA InitWorkspaceInv ==
  ASSUME IInv, NEW o \in Operators, NEW w \in Worlds \cup {Nowhere}, InitWorkspace(o, w)
  PROVE  IInv'
<1> DEFINE place == IF version[Control] = Absent THEN "opened"
                    ELSE IF w = Nowhere THEN "idle" ELSE "checking"
           j == [NoJob EXCEPT !.at = place, !.use = w]
<1>1. /\ j \in Jobs /\ j.at = place /\ j.use = w /\ DOMAIN j.plan = {}
      /\ place \in {"opened", "idle", "checking"}
      /\ place = "opened" <=> version[Control] = Absent
      /\ place = "checking" => w # Nowhere
  BY NoJobShape DEF Jobs, CreatePlaces
<1>2. /\ job' = [job EXCEPT ![o] = j]
      /\ version' = [version EXCEPT ![Control] = IF @ = Absent THEN Unknown ELSE @]
      /\ UNCHANGED <<registered, backups, restored>>
      /\ w # Nowhere => version[w] = Absent /\ \A p \in Operators : job[p].use # w
  BY DEF InitWorkspace, Begins
<1> HIDE DEF j, place
<1>3. /\ version' \in [Stores -> Int]
      /\ \A s \in Stores \ {Control} : version'[s] = version[s]
      /\ version'[Control] = IF version[Control] = Absent THEN Unknown ELSE version[Control]
  BY <1>2, Shapes DEF Unknown
<1>4. VersionsMove
  BY <1>2, <1>3, Shapes DEF VersionsMove, Unknown, Absent, SchemaVersion
<1>5. LeavesOthers(o)
  <2>1. \A q \in Operators : Creates(job[q]) => job[q].use \in Worlds
    BY Facts DEF Creating
  <2> QED
    BY <1>2, <1>3, <2>1, Shapes DEF LeavesOthers
<1>6. Fine(j, version', registered', backups', restored')
  <2>1. Creating(j, version')
    BY <1>1, <1>2, <1>3, Shapes
       DEF Creating, Creates, CreatePlaces, Unknown, Absent, SchemaVersion
  <2>2. ToUpgrade(j.plan) = {}
    BY <1>1 DEF ToUpgrade
  <2> QED
    BY <1>1, <2>1, <2>2
       DEF Fine, Planning, Copying, Upgrading, Restoring, RestorePlaces, Filling
<1>7. \A q \in Operators \ {o} : Apart(j, job[q])
  BY <1>1, <1>2 DEF Apart, Filling, Creates, CreatePlaces
<1> QED
  BY <1>1, <1>2, <1>3, <1>4, <1>5, <1>6, <1>7, Shapes, StepLemma

\* The steps of a creation that do not touch a store: the check, and the end of it.
LEMMA CheckInv ==
  ASSUME IInv, NEW o \in Operators, CheckCurrent(o)
  PROVE  IInv'
<1>1. CASE version[Control] = SchemaVersion
  <2> DEFINE j == [job[o] EXCEPT !.at = "creating"]
  <2>1. /\ j \in Jobs /\ j.at = "creating" /\ j.use = job[o].use /\ j.plan = job[o].plan
        /\ job[o].at = "checking"
    BY Facts DEF CheckCurrent, Doing, Jobs, CreatePlaces
  <2>2. job' = [job EXCEPT ![o] = j] /\ UNCHANGED <<version, registered, backups, restored>>
    BY <1>1 DEF CheckCurrent, Goes, stores
  <2> HIDE DEF j
  <2>3. Fine(j, version, registered, backups, restored)
    BY <1>1, <2>1, Facts
       DEF Fine, Creating, Creates, CreatePlaces, Planning, Copying, Upgrading, Restoring,
           RestorePlaces, Filling
  <2>4. Keeps(j, job[o])
    BY <2>1 DEF Keeps, Creates, CreatePlaces, Filling
  <2> QED
    BY <2>1, <2>2, <2>3, <2>4, JobLemma
<1>2. CASE version[Control] # SchemaVersion
  BY <1>2, LeaveLemma DEF CheckCurrent, stores
<1> QED
  BY <1>1, <1>2

\* The steps of a creation that set the version of one store.
LEMMA CreationLemma ==
  ASSUME IInv, NEW o \in Operators, NEW s \in Stores, NEW x \in {Unknown, SchemaVersion},
         NEW j \in Jobs, job' = [job EXCEPT ![o] = j],
         version' = [version EXCEPT ![s] = x], UNCHANGED <<registered, backups, restored>>,
         j.at \in {"idle", "checking", "initializing", "registering"},
         j.use = job[o].use, j.plan = job[o].plan, Creates(j) => Creates(job[o]),
         version[s] \in {Absent, Unknown, SchemaVersion},
         version[s] = SchemaVersion => x = SchemaVersion,
         version[s] = Unknown /\ s = Control => x = SchemaVersion,
         s # Control => Creates(job[o]) /\ s = job[o].use,
         Creating(j, version')
  PROVE  IInv'
<1>1. /\ version' \in [Stores -> Int] /\ version'[s] = x
      /\ \A z \in Stores \ {s} : version'[z] = version[z]
  BY Shapes DEF Unknown, SchemaVersion
<1>2. VersionsMove
  BY <1>1, Shapes DEF VersionsMove, Unknown, Absent, SchemaVersion
<1>3. LeavesOthers(o)
  <2>1. \A q \in Operators \ {o} : Creates(job[q]) => job[q].use \in Worlds /\ job[q].use # s
    BY Facts, Shapes DEF Creating, IInv, Apart
  <2> QED
    BY <1>1, <2>1, Shapes DEF LeavesOthers
<1>4. \A z \in ToUpgrade(j.plan) : version'[z] \in {1, SchemaVersion}
  <2>1. \A z \in ToUpgrade(j.plan) : z \in Stores /\ version[z] \in {1, SchemaVersion}
    BY Facts, PlanShape DEF Planning, ToUpgrade, Jobs
  <2> QED
    BY <1>1, <2>1 DEF Absent, Unknown, SchemaVersion
<1>5. Fine(j, version', registered', backups', restored')
  BY <1>4 DEF Fine, Planning, Copying, Upgrading, Restoring, RestorePlaces, Filling
<1>6. Keeps(j, job[o])
  BY DEF Keeps, Filling
<1> QED
  BY <1>1, <1>2, <1>3, <1>5, <1>6, KeepsApart, Shapes, StepLemma

LEMMA InitSchemaInv ==
  ASSUME IInv, NEW o \in Operators, InitSchema(o)
  PROVE  IInv'
<1> DEFINE place == IF job[o].use = Nowhere THEN "idle" ELSE "checking"
           j == [job[o] EXCEPT !.at = place]
<1>1. /\ j \in Jobs /\ j.at = place /\ j.use = job[o].use /\ j.plan = job[o].plan
      /\ job[o].at = "opened" /\ place \in {"idle", "checking"}
      /\ place = "checking" => job[o].use # Nowhere
  BY Facts DEF InitSchema, Doing, Jobs, CreatePlaces
<1>2. /\ job' = [job EXCEPT ![o] = j] /\ version' = [version EXCEPT ![Control] = SchemaVersion]
      /\ UNCHANGED <<registered, backups, restored>>
  BY DEF InitSchema
<1> HIDE DEF j, place
<1>3. Creates(j) => Creates(job[o])
  BY <1>1 DEF Creates, CreatePlaces
<1>4. version[Control] \in {Unknown, SchemaVersion}
  BY <1>1, Facts DEF Creating
<1>5. Creating(j, version')
  BY <1>1, <1>2, <1>3, Facts, Shapes DEF Creating, Creates, CreatePlaces
<1> QED
  BY <1>1, <1>2, <1>3, <1>4, <1>5, Shapes, CreationLemma

LEMMA WorldFileInv ==
  ASSUME IInv, NEW o \in Operators, OpenWorld(o) \/ InitWorld(o)
  PROVE  IInv'
<1> DEFINE place == IF OpenWorld(o) THEN "initializing" ELSE "registering"
           x == IF OpenWorld(o) THEN Unknown ELSE SchemaVersion
           j == [job[o] EXCEPT !.at = place]
           w == job[o].use
<1>1. /\ j \in Jobs /\ j.at = place /\ j.use = w /\ j.plan = job[o].plan
      /\ place \in {"initializing", "registering"}
      /\ job[o].at = IF OpenWorld(o) THEN "creating" ELSE "initializing"
      /\ job[o].at \in {"creating", "initializing"}
  BY Facts DEF OpenWorld, InitWorld, Doing, Jobs, CreatePlaces
<1>2. /\ job' = [job EXCEPT ![o] = j] /\ version' = [version EXCEPT ![w] = x]
      /\ UNCHANGED <<registered, backups, restored>>
  BY DEF OpenWorld, InitWorld, Goes
<1>3. Creates(job[o]) /\ Creates(j) /\ w \in Worlds
  BY <1>1, Facts DEF Creates, CreatePlaces, Creating
<1>4. /\ version[w] = IF OpenWorld(o) THEN Absent ELSE Unknown
      /\ version[Control] = SchemaVersion
  BY <1>1, <1>3, Facts DEF Creating
<1>5. \/ place = "initializing" /\ x = Unknown
      \/ place = "registering" /\ x = SchemaVersion
  OBVIOUS
<1>6. x \in {Unknown, SchemaVersion} /\ version[w] \in {Absent, Unknown}
  BY <1>4
<1> HIDE DEF j, x, place
<1>7. Creating(j, version')
  <2>1. version'[w] = x /\ version'[Control] = SchemaVersion
    BY <1>2, <1>3, <1>4, Shapes
  <2> QED
    BY <1>1, <1>3, <1>5, <2>1 DEF Creating
<1>8. w \in Stores /\ w # Control
  BY <1>3, Shapes
<1>9. /\ j \in Jobs /\ j.use = w /\ j.plan = job[o].plan
      /\ j.at \in {"initializing", "registering"}
      /\ version[w] # SchemaVersion
  BY <1>1, <1>6 DEF Absent, Unknown, SchemaVersion
<1> QED
  BY <1>2, <1>3, <1>6, <1>7, <1>8, <1>9, CreationLemma

\* The world gets its row under an up-to-date control store.
LEMMA RegisterInv ==
  ASSUME IInv, NEW o \in Operators, RegisterWorld(o)
  PROVE  IInv'
<1>1. /\ job' = [job EXCEPT ![o] = NoJob] /\ registered' \subseteq Worlds
      /\ UNCHANGED <<version, backups, restored>>
      /\ version[Control] = SchemaVersion
  BY Facts, Shapes DEF RegisterWorld, Doing, Leave, Creating, Creates, CreatePlaces
<1>2. VersionsMove /\ LeavesOthers(o)
  BY <1>1, Shapes DEF VersionsMove, LeavesOthers, SchemaVersion
<1>3. ToUpgrade(NoJob.plan) = {}
  BY NoJobShape DEF ToUpgrade
<1>4. Fine(NoJob, version', registered', backups', restored') /\ Keeps(NoJob, job[o])
  BY <1>1, <1>3, NoJobShape, Shapes, AtEase
<1> QED
  BY <1>1, <1>2, <1>4, NoJobShape, KeepsApart, Shapes, StepLemma

------------------------------------------------------------------------------
(* Migration *)

LEMMA MigrateInv ==
  ASSUME IInv, NEW o \in Operators, Migrate(o)
  PROVE  IInv'
<1> DEFINE plan == [s \in {Control} |-> version[s]]
           j == [NoJob EXCEPT !.at = "planning", !.todo = registered, !.plan = plan]
<1>1. plan \in Plans /\ DOMAIN plan = {Control} /\ plan[Control] = version[Control]
  <2>1. plan \in [{Control} -> Int] /\ {Control} \in SUBSET Stores
    BY Shapes
  <2> QED
    BY <2>1, PlanMade
<1> HIDE DEF plan
<1>2. /\ j \in Jobs /\ j.at = "planning" /\ j.todo = registered /\ j.plan = plan
      /\ job' = [job EXCEPT ![o] = j] /\ UNCHANGED <<version, registered, backups, restored>>
  <2>1. j \in Jobs /\ j.at = "planning" /\ j.todo = registered /\ j.plan = plan
    BY <1>1, NoJobShape, Shapes DEF Jobs, MigratePlaces
  <2> QED
    BY <2>1 DEF Migrate, Begins, stores, plan
<1> HIDE DEF j
<1>3. \A s \in ToUpgrade(plan) : version[s] \in {1, SchemaVersion}
  BY <1>1 DEF ToUpgrade
<1>4. Fine(j, version, registered, backups, restored)
  BY <1>1, <1>2, <1>3
     DEF Fine, Creating, Creates, CreatePlaces, Planning, Copying, Upgrading, Restoring,
         RestorePlaces, Filling
<1>5. Keeps(j, job[o])
  BY <1>2 DEF Keeps, Creates, CreatePlaces, Filling
<1> QED
  BY <1>2, <1>4, <1>5, JobLemma

LEMMA PlanStoreInv ==
  ASSUME IInv, NEW o \in Operators, NEW s \in Stores, PlanStore(o, s)
  PROVE  IInv'
<1> DEFINE x == IF version[s] = Absent THEN Unknown ELSE version[s]
           plan == Put(job[o].plan, s, x)
           j == [job[o] EXCEPT !.todo = @ \ {s}, !.plan = plan]
<1>1. /\ plan \in Plans /\ DOMAIN plan = DOMAIN job[o].plan \cup {s} /\ plan[s] = x
      /\ \A z \in DOMAIN job[o].plan \ {s} : plan[z] = job[o].plan[z]
  <2>1. x \in Int /\ job[o].plan \in Plans
    BY Facts, Shapes DEF Jobs, Unknown
  <2> HIDE DEF x
  <2> QED
    BY <2>1, PutShape
<1>2. x = 1 => version[s] = 1
  BY DEF Unknown
<1> HIDE DEF plan, x
<1>3. /\ j \in Jobs /\ j.at = "planning" /\ j.todo = job[o].todo \ {s} /\ j.plan = plan
      /\ job[o].at = "planning"
  BY <1>1, Facts DEF PlanStore, Doing, Jobs
<1>4. job' = [job EXCEPT ![o] = j] /\ UNCHANGED <<version, registered, backups, restored>>
  BY Facts, Shapes DEF PlanStore, stores, plan, x
<1> HIDE DEF j
<1>5. \A z \in ToUpgrade(plan) : version[z] \in {1, SchemaVersion}
  BY <1>1, <1>2, Facts DEF ToUpgrade, Planning
<1>6. Fine(j, version, registered, backups, restored)
  BY <1>1, <1>3, <1>5, Facts
     DEF Fine, Creating, Creates, CreatePlaces, Planning, Copying, Upgrading, Restoring,
         RestorePlaces, Filling
<1>7. Keeps(j, job[o])
  BY <1>3 DEF Keeps, Creates, CreatePlaces, Filling
<1> QED
  BY <1>3, <1>4, <1>6, <1>7, JobLemma

LEMMA PlanEndsInv ==
  ASSUME IInv, NEW o \in Operators, PlanEnds(o)
  PROVE  IInv'
<1>1. CASE Leave(o)
  BY <1>1, LeaveLemma DEF PlanEnds, stores
<1>2. CASE Goes(o, "naming")
  <2> DEFINE j == [job[o] EXCEPT !.at = "naming"]
  <2>1. /\ j \in Jobs /\ j.at = "naming" /\ j.plan = job[o].plan
        /\ job[o].at = "planning" /\ job[o].todo = {}
    BY Facts DEF PlanEnds, Doing, Jobs, MigratePlaces
  <2>2. job' = [job EXCEPT ![o] = j] /\ UNCHANGED <<version, registered, backups, restored>>
    BY <1>2 DEF PlanEnds, Goes, stores
  <2> HIDE DEF j
  <2>3. Fine(j, version, registered, backups, restored)
    BY <2>1, Facts
       DEF Fine, Creating, Creates, CreatePlaces, Planning, Copying, Upgrading, Restoring,
           RestorePlaces, Filling
  <2>4. Keeps(j, job[o])
    BY <2>1 DEF Keeps, Creates, CreatePlaces, Filling
  <2> QED
    BY <2>1, <2>2, <2>3, <2>4, JobLemma
<1> QED
  BY <1>1, <1>2 DEF PlanEnds

\* A step that changes one backup, which is not finished and which no other command writes.
LEMMA BackupLemma ==
  ASSUME IInv, NEW o \in Operators, NEW t \in Stamps, NEW b \in Backups, NEW j \in Jobs,
         job' = [job EXCEPT ![o] = j], backups' = [backups EXCEPT ![t] = b],
         UNCHANGED <<version, registered, restored>>,
         ~backups[t].sealed,
         \A q \in Operators \ {o} : job[q].at = "copying" => job[q].use # t,
         BackupSound(b), j.at \in {"copying", "locking", "idle"},
         j.at # "idle" => j.use = t,
         Planning(j, version, registered), Copying(j, version, registered, b),
         Upgrading(j, version, b)
  PROVE  IInv'
<1>1. /\ backups' \in [Stamps -> Backups] /\ backups'[t] = b
      /\ \A z \in Stamps \ {t} : backups'[z] = backups[z]
  BY Shapes
<1>2. VersionsMove /\ LeavesOthers(o)
  BY <1>1, Shapes DEF VersionsMove, LeavesOthers
<1>3. \A z \in Stamps : BackupSound(backups'[z])
  BY <1>1, Shapes
<1>4. Fine(j, version', registered', backups', restored')
  BY <1>1
     DEF Fine, Creating, Creates, CreatePlaces, Planning, Copying, Upgrading, Restoring,
         RestorePlaces, Filling
<1>5. \A q \in Operators \ {o} : Apart(j, job[q])
  BY DEF Apart, Creates, CreatePlaces, Filling
<1> QED
  BY <1>1, <1>2, <1>3, <1>4, <1>5, Shapes, StepLemma

LEMMA StartBackup ==
  ASSUME IInv, NEW o \in Operators, NEW t \in Stamps, NEW kind \in {"migration", "update"},
         NEW j \in Jobs, job' = [job EXCEPT ![o] = j],
         backups' = [backups EXCEPT ![t].kind = kind],
         UNCHANGED <<version, registered, restored>>,
         backups[t].kind = "none", j.at = "copying", j.use = t,
         Planning(j, version, registered),
         kind = "migration" =>
           /\ Control \in DOMAIN j.plan /\ DOMAIN j.plan = j.todo
           /\ version[Control] = 1 => registered \subseteq DOMAIN j.plan
  PROVE  IInv'
<1> DEFINE b == [backups[t] EXCEPT !.kind = kind]
<1>1. /\ b \in Backups /\ b.kind = kind /\ b.sealed = backups[t].sealed
      /\ b.copy = backups[t].copy /\ b.listed = backups[t].listed
      /\ backups' = [backups EXCEPT ![t] = b]
  BY Shapes DEF Backups
<1>2. ~backups[t].sealed
  BY Shapes DEF BackupSound
<1> HIDE DEF b
<1>3. \A q \in Operators : job[q].at = "copying" => job[q].use # t
  BY Facts DEF Copying
<1>4. BackupSound(b)
  BY <1>1, <1>2 DEF BackupSound
<1>5. Copying(j, version, registered, b) /\ Upgrading(j, version, b)
  <2>1. kind = "migration" => ToUpgrade(j.plan) \ j.todo = {}
    BY DEF ToUpgrade
  <2> QED
    BY <1>1, <1>2, <2>1 DEF Copying, Saved, Upgrading
<1> QED
  BY <1>1, <1>2, <1>3, <1>4, <1>5, BackupLemma

LEMMA NameBackupInv ==
  ASSUME IInv, NEW o \in Operators, NEW t \in Stamps, NameBackup(o, t) \/ ListStores(o, t)
  PROVE  IInv'
<1>1. CASE NameBackup(o, t)
  <2> DEFINE j == [job[o] EXCEPT !.at = "copying", !.use = t, !.todo = DOMAIN job[o].plan]
  <2>1. /\ j \in Jobs /\ j.at = "copying" /\ j.use = t /\ j.plan = job[o].plan
        /\ j.todo = DOMAIN job[o].plan /\ job[o].at = "naming"
    <3>1. job[o] \in Jobs /\ DOMAIN job[o].plan \in SUBSET Stores
      BY Facts, PlanShape DEF Jobs
    <3> QED
      BY <1>1, <3>1 DEF NameBackup, Doing, Jobs, MigratePlaces
  <2>2. /\ job' = [job EXCEPT ![o] = j]
        /\ UNCHANGED <<version, registered, restored>>
        /\ backups' = [backups EXCEPT ![t].kind = "migration"] /\ backups[t].kind = "none"
    BY <1>1, Shapes DEF NameBackup, stores
  <2> HIDE DEF j
  <2>3. /\ Planning(j, version, registered)
        /\ Control \in DOMAIN j.plan
        /\ version[Control] = 1 => registered \subseteq DOMAIN j.plan
    BY <2>1, Facts DEF Planning
  <2> QED
    BY <2>1, <2>2, <2>3, StartBackup
<1>2. CASE ListStores(o, t)
  <2> DEFINE j == [job[o] EXCEPT !.at = "copying", !.use = t,
                                 !.todo = {s \in Stores : version[s] # Absent}]
  <2>1. j \in Jobs /\ j.at = "copying" /\ j.use = t /\ j.plan = job[o].plan
    BY Facts DEF Jobs, MigratePlaces
  <2>2. /\ job' = [job EXCEPT ![o] = j]
        /\ UNCHANGED <<version, registered, restored>>
        /\ backups' = [backups EXCEPT ![t].kind = "update"] /\ backups[t].kind = "none"
    BY <1>2, Shapes DEF ListStores, stores
  <2> HIDE DEF j
  <2>3. Planning(j, version, registered)
    BY <2>1, Facts DEF Planning
  <2> QED
    BY <2>1, <2>2, <2>3, StartBackup
<1> QED
  BY <1>1, <1>2

LEMMA CopyStoreInv ==
  ASSUME IInv, NEW o \in Operators, NEW s \in Stores, CopyStore(o, s)
  PROVE  IInv'
<1> DEFINE t == job[o].use
           old == backups[t]
           listed == IF s = Control THEN registered ELSE old.listed
           copy == Put(old.copy, s, version[s])
           b == [old EXCEPT !.copy = copy, !.listed = listed]
           j == [job[o] EXCEPT !.todo = @ \ {s}]
<1>1. /\ job[o].at = "copying" /\ IsNext(s, job[o].todo)
      /\ t \in Stamps /\ old \in Backups
      /\ Copying(job[o], version, registered, old) /\ Planning(job[o], version, registered)
  BY Facts, Shapes DEF CopyStore, Doing, Copying
<1>2. /\ j \in Jobs /\ j.at = "copying" /\ j.use = t /\ j.todo = job[o].todo \ {s}
      /\ j.plan = job[o].plan
  BY <1>1, Facts DEF Jobs
<1>3. /\ copy \in Plans /\ DOMAIN copy = DOMAIN old.copy \cup {s} /\ copy[s] = version[s]
      /\ \A z \in DOMAIN old.copy \ {s} : copy[z] = old.copy[z]
  <2>1. old.copy \in Plans /\ version[s] \in Int
    BY <1>1, Shapes DEF Backups
  <2> HIDE DEF old
  <2> QED
    BY <2>1, PutShape
<1>4. /\ b \in Backups /\ b.kind = old.kind /\ b.sealed = old.sealed /\ b.copy = copy
      /\ b.listed = IF s = Control THEN registered ELSE old.listed
  <2>1. listed \subseteq Worlds
    BY <1>1, Shapes DEF Backups
  <2> HIDE DEF copy
  <2> QED
    BY <1>1, <1>3, <2>1 DEF Backups
<1>5. /\ job' = [job EXCEPT ![o] = j] /\ backups' = [backups EXCEPT ![t] = b]
      /\ UNCHANGED <<version, registered, restored>>
  BY <1>1, Facts, Shapes DEF CopyStore, stores
<1> HIDE DEF j, b, copy, listed
<1>6. /\ ~old.sealed /\ old.kind # "none"
      /\ \A q \in Operators \ {o} : job[q].at = "copying" => job[q].use # t
  BY <1>1 DEF Copying, IInv, Apart
<1>7. BackupSound(b)
  BY <1>4, <1>6 DEF BackupSound
<1>8. Planning(j, version, registered)
  BY <1>1, <1>2 DEF Planning
<1>9. Copying(j, version, registered, b)
  <2> SUFFICES ASSUME b.kind = "migration"
      PROVE  /\ Control \in DOMAIN j.plan
             /\ DOMAIN j.plan \subseteq DOMAIN b.copy \cup j.todo
             /\ Saved(ToUpgrade(j.plan) \ j.todo, version, b.copy)
             /\ Control \in j.todo => (version[Control] = 1 => registered \subseteq DOMAIN j.plan)
             /\ Control \notin j.todo =>
                  (b.copy[Control] = 1 => b.listed \subseteq DOMAIN j.plan)
    BY <1>1, <1>2, <1>4, <1>6 DEF Copying
  <2>1. /\ Control \in DOMAIN j.plan
        /\ DOMAIN j.plan \subseteq DOMAIN old.copy \cup job[o].todo
        /\ Saved(ToUpgrade(j.plan) \ job[o].todo, version, old.copy)
        /\ Control \in job[o].todo => (version[Control] = 1 => registered \subseteq DOMAIN j.plan)
        /\ Control \notin job[o].todo =>
             (old.copy[Control] = 1 => old.listed \subseteq DOMAIN j.plan)
    BY <1>1, <1>2, <1>4 DEF Copying
  <2>2. Saved(ToUpgrade(j.plan) \ j.todo, version, b.copy)
    BY <1>2, <1>3, <1>4, <2>1 DEF Saved
  <2>3. Control \notin j.todo => (b.copy[Control] = 1 => b.listed \subseteq DOMAIN j.plan)
    <3>1. CASE s = Control
      BY <1>1, <1>2, <1>3, <1>4, <2>1, <3>1 DEF IsNext
    <3>2. CASE s # Control
      BY <1>1, <1>2, <1>3, <1>4, <2>1, <3>2 DEF IsNext
    <3> QED
      BY <3>1, <3>2
  <2> QED
    BY <1>2, <1>3, <1>4, <2>1, <2>2, <2>3
<1>10. Upgrading(j, version, b)
  BY <1>2 DEF Upgrading
<1> QED
  BY <1>1, <1>2, <1>4, <1>5, <1>6, <1>7, <1>8, <1>9, <1>10, BackupLemma

\* A finished backup holds what was planned; of an old control store, all it lists.
LEMMA SealBackupInv ==
  ASSUME IInv, NEW o \in Operators, SealBackup(o)
  PROVE  IInv'
<1> DEFINE t == job[o].use
           old == backups[t]
           place == IF old.kind = "migration" THEN "locking" ELSE "idle"
           b == [old EXCEPT !.sealed = TRUE]
           j == IF old.kind = "migration" THEN [job[o] EXCEPT !.at = "locking"] ELSE NoJob
<1>1. /\ job[o].at = "copying" /\ job[o].todo = {} /\ t \in Stamps /\ old \in Backups
      /\ Copying(job[o], version, registered, old) /\ Planning(job[o], version, registered)
  BY Facts, Shapes DEF SealBackup, Doing, Copying
<1>2. /\ b \in Backups /\ b.kind = old.kind /\ b.sealed /\ b.copy = old.copy
      /\ b.listed = old.listed
  BY <1>1 DEF Backups
<1>3. /\ job' = [job EXCEPT ![o] = j] /\ backups' = [backups EXCEPT ![t] = b]
      /\ UNCHANGED <<version, registered, restored>>
  BY <1>1, Shapes DEF SealBackup, Goes, Leave, stores
<1>4. /\ ~old.sealed /\ old.kind # "none"
      /\ \A q \in Operators \ {o} : job[q].at = "copying" => job[q].use # t
  BY <1>1 DEF Copying, IInv, Apart
<1>5. CASE old.kind = "migration"
  <2>1. /\ j \in Jobs /\ j.at = "locking" /\ j.use = t /\ j.plan = job[o].plan
    BY <1>5, Facts DEF Jobs, MigratePlaces
  <2> HIDE DEF j, b
  <2>2. /\ Control \in DOMAIN j.plan /\ DOMAIN j.plan \subseteq DOMAIN b.copy
        /\ Saved(ToUpgrade(j.plan), version, b.copy)
        /\ b.copy[Control] = 1 => b.listed \subseteq DOMAIN j.plan
    BY <1>1, <1>2, <1>5, <2>1 DEF Copying, Saved
  <2>3. BackupSound(b)
    BY <1>2, <1>5, <2>2 DEF BackupSound, Missing
  <2>4. /\ Planning(j, version, registered) /\ Copying(j, version, registered, b)
        /\ Upgrading(j, version, b)
    BY <1>1, <1>2, <1>5, <2>1, <2>2 DEF Planning, Copying, Upgrading
  <2> QED
    BY <1>1, <1>2, <1>3, <1>4, <2>1, <2>3, <2>4, BackupLemma
<1>6. CASE old.kind = "update"
  <2>1. j \in Jobs /\ j.at = "idle" /\ ToUpgrade(j.plan) = {}
    BY <1>6, NoJobShape DEF ToUpgrade
  <2> HIDE DEF j, b
  <2>2. BackupSound(b)
    BY <1>2, <1>6 DEF BackupSound
  <2>3. /\ Planning(j, version, registered) /\ Copying(j, version, registered, b)
        /\ Upgrading(j, version, b)
    BY <2>1 DEF Planning, Copying, Upgrading
  <2> QED
    BY <1>1, <1>2, <1>3, <1>4, <2>1, <2>2, <2>3, BackupLemma
<1> QED
  BY <1>1, <1>4, <1>5, <1>6 DEF Backups

LEMMA TakeLockInv ==
  ASSUME IInv, NEW o \in Operators, TakeLock(o)
  PROVE  IInv'
<1> DEFINE j == [job[o] EXCEPT !.at = "upgrading", !.todo = ToUpgrade(job[o].plan)]
<1>1. ToUpgrade(job[o].plan) \subseteq Stores /\ job[o] \in Jobs
  BY Facts, PlanShape DEF Jobs, ToUpgrade
<1>2. /\ j \in Jobs /\ j.at = "upgrading" /\ j.use = job[o].use /\ j.plan = job[o].plan
      /\ j.todo = ToUpgrade(job[o].plan) /\ job[o].at = "locking"
  BY <1>1 DEF TakeLock, Doing, Jobs, MigratePlaces
<1>3. job' = [job EXCEPT ![o] = j] /\ UNCHANGED <<version, registered, backups, restored>>
  BY DEF TakeLock, stores
<1> HIDE DEF j
<1>4. Fine(j, version, registered, backups, restored)
  BY <1>2, Facts
     DEF Fine, Creating, Creates, CreatePlaces, Planning, Copying, Upgrading, Restoring,
         RestorePlaces, Filling
<1>5. Keeps(j, job[o])
  BY <1>2 DEF Keeps, Creates, CreatePlaces, Filling
<1> QED
  BY <1>2, <1>3, <1>4, <1>5, JobLemma

\* One store is upgraded.
LEMMA UpgradeInv ==
  ASSUME IInv, NEW o \in Operators, NEW s \in Stores, Upgrade(o, s)
  PROVE  IInv'
<1> DEFINE j == [job[o] EXCEPT !.todo = @ \ {s}]
<1>1. /\ j \in Jobs /\ j.at = "upgrading" /\ j.use = job[o].use /\ j.plan = job[o].plan
      /\ j.todo = job[o].todo \ {s} /\ job[o].at = "upgrading" /\ s \in job[o].todo
  BY Facts DEF Upgrade, IsNext, Doing, Jobs
<1>2. /\ job' = [job EXCEPT ![o] = j] /\ version' = [version EXCEPT ![s] = SchemaVersion]
      /\ UNCHANGED <<registered, backups, restored>>
  BY Facts DEF Upgrade
<1> HIDE DEF j
<1>3. /\ version' \in [Stores -> Int] /\ version'[s] = SchemaVersion
      /\ \A z \in Stores \ {s} : version'[z] = version[z]
  BY <1>2, Shapes DEF SchemaVersion
<1>4. version[s] \in {1, SchemaVersion}
  BY <1>1, Facts DEF Upgrading, Planning
<1>5. VersionsMove
  BY <1>2, <1>3, <1>4, Shapes DEF VersionsMove, Unknown, SchemaVersion
<1>6. LeavesOthers(o)
  <2>1. ASSUME NEW q \in Operators \ {o}, Creates(job[q]), job[q].use = s
        PROVE  version[s] = SchemaVersion
    BY <1>4, <2>1, Facts DEF Creating, Creates, CreatePlaces, Absent, Unknown, SchemaVersion
  <2>2. \A q \in Operators : Creates(job[q]) => job[q].use \in Worlds
    BY Facts DEF Creating
  <2> QED
    BY <1>2, <1>3, <2>1, <2>2, Shapes DEF LeavesOthers
<1>7. Fine(j, version', registered', backups', restored')
  <2>1. /\ ToUpgrade(j.plan) \subseteq Stores
        /\ \A z \in ToUpgrade(j.plan) : version[z] \in {1, SchemaVersion}
    BY <1>1, Facts, PlanShape DEF Jobs, ToUpgrade, Planning
  <2>2. Planning(j, version', registered')
    BY <1>1, <1>3, <2>1 DEF Planning
  <2>3. Upgrading(j, version', backups'[j.use])
    BY <1>1, <1>2, <1>3, <2>1, Facts DEF Upgrading, Saved, SchemaVersion
  <2> QED
    BY <1>1, <2>2, <2>3
       DEF Fine, Creating, Creates, CreatePlaces, Copying, Restoring, RestorePlaces, Filling
<1>8. Keeps(j, job[o])
  BY <1>1 DEF Keeps, Creates, CreatePlaces, Filling
<1> QED
  BY <1>1, <1>2, <1>3, <1>5, <1>6, <1>7, <1>8, KeepsApart, Shapes, StepLemma

\* The steps that end a migration, and the start of an update backup.
LEMMA EndsInv ==
  ASSUME IInv, NEW o \in Operators,
         \/ \E t \in Stamps : NameTaken(o, t)
         \/ UpgradeFails(o) \/ Verify(o) \/ Unlock(o)
         \/ Preflight(o) \/ RestoreFails(o) \/ Dies(o)
  PROVE  IInv'
<1>1. UNCHANGED <<version, registered, backups, restored>>
  BY DEF NameTaken, UpgradeFails, Verify, Unlock, Preflight, RestoreFails, Dies, stores
<1>2. CASE Leave(o)
  BY <1>1, <1>2, LeaveLemma
<1>3. CASE Goes(o, "unlocking")
  BY <1>1, <1>3, GoLemma
<1>4. CASE Preflight(o)
  <2> DEFINE j == [NoJob EXCEPT !.at = "listing"]
  <2>1. j \in Jobs /\ j.at = "listing" /\ ToUpgrade(j.plan) = {}
    BY NoJobShape DEF Jobs, ToUpgrade
  <2>2. job' = [job EXCEPT ![o] = j]
    BY <1>4 DEF Preflight
  <2> HIDE DEF j
  <2>3. Fine(j, version, registered, backups, restored) /\ Keeps(j, job[o])
    BY <2>1, Shapes, AtEase
  <2> QED
    BY <1>1, <2>1, <2>2, <2>3, JobLemma
<1> QED
  BY <1>2, <1>3, <1>4 DEF NameTaken, UpgradeFails, Verify, Unlock, RestoreFails, Dies

------------------------------------------------------------------------------
(* Restoring *)

\* A step that changes one destination, which no other command fills.
LEMMA PlaceLemma ==
  ASSUME IInv, NEW o \in Operators, NEW d \in Places, NEW r \in Restores, NEW j \in Jobs,
         job' = [job EXCEPT ![o] = j], restored' = [restored EXCEPT ![d] = r],
         UNCHANGED <<version, registered, backups>>,
         \A q \in Operators \ {o} : job[q].at \in Filling => job[q].dest # d,
         RestoreSound(r), j.at \in Filling \cup {"idle"}, j.at # "idle" => j.dest = d,
         ToUpgrade(j.plan) \subseteq ToUpgrade(job[o].plan),
         Restoring(j, backups[j.use], r)
  PROVE  IInv'
<1>1. /\ restored' \in [Places -> Restores] /\ restored'[d] = r
      /\ \A z \in Places \ {d} : restored'[z] = restored[z]
  BY Shapes
<1>2. \A q \in Operators : job[q].at \in Filling => job[q].dest \in Places
  BY Facts DEF Restoring, Filling, RestorePlaces
<1>3. VersionsMove /\ LeavesOthers(o)
  BY <1>1, <1>2, Shapes DEF VersionsMove, LeavesOthers
<1>4. \A z \in Places : RestoreSound(restored'[z])
  BY <1>1, Shapes
<1>5. Fine(j, version', registered', backups', restored')
  <2>1. Restoring(j, backups'[j.use], restored'[j.dest])
    BY <1>1 DEF Restoring, RestorePlaces, Filling
  <2> QED
    BY <2>1, Facts
       DEF Fine, Creating, Creates, CreatePlaces, Planning, Copying, Upgrading, Filling
<1>6. \A q \in Operators \ {o} : Apart(j, job[q])
  BY DEF Apart, Creates, CreatePlaces, Filling
<1> QED
  BY <1>1, <1>3, <1>4, <1>5, <1>6, Shapes, StepLemma

LEMMA PlanRestoreInv ==
  ASSUME IInv, NEW o \in Operators, NEW t \in Stamps, NEW d \in Places, PlanRestore(o, t, d)
  PROVE  IInv'
<1> DEFINE j == [NoJob EXCEPT !.at = "restoring", !.use = t, !.dest = d,
                              !.todo = {Control} \cup backups[t].listed]
<1>1. /\ j \in Jobs /\ j.at = "restoring" /\ j.use = t /\ j.dest = d
      /\ j.todo = {Control} \cup backups[t].listed /\ ToUpgrade(j.plan) = {}
  <2>1. {Control} \cup backups[t].listed \subseteq Stores
    BY Shapes DEF Backups
  <2> QED
    BY <2>1, NoJobShape DEF Jobs, RestorePlaces, ToUpgrade
<1>2. job' = [job EXCEPT ![o] = j] /\ UNCHANGED <<version, registered, backups, restored>>
  BY DEF PlanRestore, Begins, stores
<1> HIDE DEF j
<1>3. Fine(j, version, registered, backups, restored)
  BY <1>1
     DEF PlanRestore, Fine, Creating, Creates, CreatePlaces, Planning, Copying, Upgrading,
         Restoring, RestorePlaces, Filling
<1>4. Keeps(j, job[o])
  BY <1>1 DEF Keeps, Creates, CreatePlaces, Filling
<1> QED
  BY <1>1, <1>2, <1>3, <1>4, JobLemma

LEMMA MakePlaceInv ==
  ASSUME IInv, NEW o \in Operators, MakePlace(o)
  PROVE  IInv'
<1> DEFINE d == job[o].dest
           r == [restored[d] EXCEPT !.exists = TRUE]
           j == [job[o] EXCEPT !.at = "refilling"]
<1>1. /\ job[o].at = "restoring" /\ d \in Places
      /\ Restoring(job[o], backups[job[o].use], restored[d])
  BY Facts DEF MakePlace, Doing, Restoring, RestorePlaces
<1>2. CASE Leave(o) /\ UNCHANGED restored
  BY <1>2, LeaveLemma DEF MakePlace, stores
<1>3. CASE /\ ~restored[d].exists /\ Goes(o, "refilling")
           /\ restored' = [restored EXCEPT ![d].exists = TRUE]
  <2>1. /\ j \in Jobs /\ j.at = "refilling" /\ j.use = job[o].use /\ j.dest = d
        /\ j.todo = job[o].todo /\ j.plan = job[o].plan
    BY Facts DEF Jobs, RestorePlaces
  <2>2. /\ r \in Restores /\ r.exists /\ DOMAIN r.copy = DOMAIN restored[d].copy
        /\ r.relocated = restored[d].relocated /\ r.receipt = restored[d].receipt
    BY <1>1, Shapes DEF Restores
  <2>3. /\ job' = [job EXCEPT ![o] = j] /\ restored' = [restored EXCEPT ![d] = r]
        /\ UNCHANGED <<version, registered, backups>>
    BY <1>3, Shapes DEF MakePlace, Goes, stores
  <2> HIDE DEF j, r
  <2>4. \A q \in Operators \ {o} : job[q].at \in Filling => job[q].dest # d
    BY <1>3, Facts DEF Restoring
  <2>5. DOMAIN restored[d].copy = {} /\ restored[d].relocated = {} /\ ~restored[d].receipt
    BY <1>1, <1>3, Shapes DEF RestoreSound
  <2>6. RestoreSound(r)
    BY <2>2, <2>5 DEF RestoreSound
  <2>7. Restoring(j, backups[j.use], r)
    BY <1>1, <2>1, <2>2, <2>5 DEF Restoring, RestorePlaces, Filling
  <2>8. j.at \in Filling
    BY <2>1 DEF Filling
  <2> QED
    BY <1>1, <2>1, <2>2, <2>3, <2>4, <2>6, <2>7, <2>8, PlaceLemma
<1> QED
  BY <1>2, <1>3 DEF MakePlace

\* The steps that fill a destination, copy by copy, and then close it.
LEMMA FillLemma ==
  ASSUME IInv, NEW o \in Operators, job[o].at \in Filling
  PROVE  /\ job[o] \in Jobs /\ job[o].use \in Stamps /\ job[o].dest \in Places
         /\ backups[job[o].use] \in Backups /\ restored[job[o].dest] \in Restores
         /\ Missing(backups[job[o].use]) = {}
         /\ restored[job[o].dest].exists /\ ~restored[job[o].dest].receipt
         /\ Restoring(job[o], backups[job[o].use], restored[job[o].dest])
         /\ \A q \in Operators \ {o} : job[q].at \in Filling => job[q].dest # job[o].dest
<1>1. /\ job[o] \in Jobs /\ job[o].use \in Stamps /\ job[o].dest \in Places
      /\ Missing(backups[job[o].use]) = {}
      /\ restored[job[o].dest].exists /\ ~restored[job[o].dest].receipt
      /\ Restoring(job[o], backups[job[o].use], restored[job[o].dest])
  BY Facts DEF Restoring, RestorePlaces, Filling
<1>2. \A q \in Operators \ {o} : job[q].at \in Filling => job[q].dest # job[o].dest
  BY DEF IInv, Apart
<1> QED
  BY <1>1, <1>2, Shapes

LEMMA RestoreStoreInv ==
  ASSUME IInv, NEW o \in Operators, NEW s \in Stores, RestoreStore(o, s)
  PROVE  IInv'
<1> DEFINE d == job[o].dest
           from == backups[job[o].use]
           old == restored[d]
           copy == Put(old.copy, s, from.copy[s])
           r == [old EXCEPT !.copy = copy, !.listed = from.listed]
           j == [job[o] EXCEPT !.todo = @ \ {s}]
<1>1. job[o].at = "refilling" /\ IsNext(s, job[o].todo) /\ job[o].at \in Filling
  BY DEF RestoreStore, Doing, Filling
<1>2. /\ d \in Places /\ old \in Restores /\ from \in Backups /\ old.exists /\ ~old.receipt
      /\ Missing(from) = {} /\ Restoring(job[o], from, old)
      /\ job[o].todo \subseteq {Control} \cup from.listed
      /\ DOMAIN old.copy = ({Control} \cup from.listed) \ job[o].todo
      /\ old.relocated = {}
      /\ Control \notin job[o].todo => old.listed = from.listed
  <2>1. /\ d \in Places /\ old \in Restores /\ from \in Backups /\ old.exists /\ ~old.receipt
        /\ Missing(from) = {} /\ Restoring(job[o], from, old)
    BY <1>1, FillLemma
  <2> QED
    BY <1>1, <2>1 DEF Restoring
<1>3. /\ j \in Jobs /\ j.at = "refilling" /\ j.use = job[o].use /\ j.dest = d
      /\ j.todo = job[o].todo \ {s} /\ j.plan = job[o].plan
  BY <1>1, Facts DEF Jobs
<1>4. s \in DOMAIN from.copy /\ from.copy \in Plans /\ from.copy[s] \in Int
  <2>1. s \in DOMAIN from.copy
    BY <1>1, <1>2 DEF IsNext, Missing
  <2>2. from.copy \in Plans
    BY <1>2 DEF Backups
  <2> QED
    BY <2>1, <2>2, PlanShape
<1>5. copy \in Plans /\ DOMAIN copy = DOMAIN old.copy \cup {s}
  <2>1. old.copy \in Plans
    BY <1>2 DEF Restores
  <2> HIDE DEF from, old
  <2> QED
    BY <1>4, <2>1, PutShape
<1>6. restored' = [restored EXCEPT ![d].copy = copy, ![d].listed = from.listed]
  BY DEF RestoreStore
<1>7. /\ job' = [job EXCEPT ![o] = j] /\ UNCHANGED <<version, registered, backups>>
  BY Facts DEF RestoreStore, stores
<1>8. restored' = [restored EXCEPT ![d] = r]
  <2> HIDE DEF copy, from
  <2> QED
    BY <1>2, <1>6, Shapes DEF Restores
<1> HIDE DEF copy
<1>9. /\ r \in Restores /\ r.exists = old.exists /\ r.copy = copy /\ r.listed = from.listed
      /\ r.relocated = old.relocated /\ r.receipt = old.receipt
  <2>1. from.listed \subseteq Worlds
    BY <1>2 DEF Backups
  <2> HIDE DEF from
  <2> QED
    BY <1>2, <1>5, <2>1 DEF Restores
<1> HIDE DEF r, j
<1>10. RestoreSound(r)
  BY <1>2, <1>9 DEF RestoreSound
<1>11. Restoring(j, backups[j.use], r)
  <2>1. DOMAIN r.copy = ({Control} \cup from.listed) \ j.todo
    BY <1>1, <1>2, <1>3, <1>5, <1>9 DEF IsNext
  <2> QED
    BY <1>1, <1>2, <1>3, <1>9, <2>1 DEF Restoring, RestorePlaces, Filling
<1>12. \A q \in Operators \ {o} : job[q].at \in Filling => job[q].dest # d
  BY <1>1, FillLemma
<1>13. j.at \in Filling
  BY <1>3 DEF Filling
<1> QED
  BY <1>2, <1>3, <1>7, <1>8, <1>9, <1>10, <1>11, <1>12, <1>13, PlaceLemma

\* The worlds get their new paths, and last the receipt is written.
LEMMA CloseInv ==
  ASSUME IInv, NEW o \in Operators, Relocate(o) \/ WriteReceipt(o)
  PROVE  IInv'
<1> DEFINE d == job[o].dest
           from == backups[job[o].use]
           old == restored[d]
<1>1. job[o].at \in Filling
  BY DEF Relocate, WriteReceipt, Doing, Filling
<1>2. /\ d \in Places /\ old \in Restores /\ from \in Backups /\ old.exists /\ ~old.receipt
      /\ Missing(from) = {} /\ Restoring(job[o], from, old)
      /\ \A q \in Operators \ {o} : job[q].at \in Filling => job[q].dest # d
  BY <1>1, FillLemma
<1>3. CASE Relocate(o)
  <2> DEFINE r == [old EXCEPT !.relocated = @ \cup from.listed]
             j == [job[o] EXCEPT !.at = "comparing"]
  <2>1. /\ j \in Jobs /\ j.at = "comparing" /\ j.use = job[o].use /\ j.dest = d
        /\ j.plan = job[o].plan /\ job[o].at = "refilling" /\ job[o].todo = {}
    BY <1>3, Facts DEF Relocate, Doing, Jobs, RestorePlaces
  <2>2. /\ old.relocated = {} /\ old.listed = from.listed
        /\ DOMAIN old.copy = {Control} \cup from.listed
    BY <1>2, <2>1 DEF Restoring
  <2>3. /\ r \in Restores /\ r.exists /\ ~r.receipt /\ r.copy = old.copy
        /\ r.relocated = from.listed /\ r.listed = old.listed
    <3>1. from.listed \subseteq Worlds
      BY <1>2 DEF Backups
    <3> HIDE DEF from
    <3> QED
      BY <1>2, <2>2, <3>1 DEF Restores
  <2>4. /\ job' = [job EXCEPT ![o] = j] /\ UNCHANGED <<version, registered, backups>>
        /\ restored' = [restored EXCEPT ![d] = r]
    BY <1>2, <1>3, Shapes DEF Relocate, Goes, stores
  <2> HIDE DEF j, r
  <2>5. RestoreSound(r)
    BY <2>3 DEF RestoreSound
  <2>6. Restoring(j, backups[j.use], r)
    BY <1>2, <2>1, <2>2, <2>3 DEF Restoring, RestorePlaces, Filling
  <2>7. j.at \in Filling
    BY <2>1 DEF Filling
  <2> QED
    BY <1>2, <2>1, <2>3, <2>4, <2>5, <2>6, <2>7, PlaceLemma
<1>4. CASE WriteReceipt(o)
  <2> DEFINE r == [old EXCEPT !.receipt = TRUE]
  <2>1. /\ old.relocated = from.listed /\ old.listed = from.listed
        /\ DOMAIN old.copy = {Control} \cup from.listed
    BY <1>2, <1>4 DEF WriteReceipt, Doing, Restoring
  <2>2. /\ r \in Restores /\ r.exists /\ r.copy = old.copy
        /\ r.relocated = old.relocated /\ r.listed = old.listed
    BY <1>2 DEF Restores
  <2>3. /\ job' = [job EXCEPT ![o] = NoJob] /\ UNCHANGED <<version, registered, backups>>
        /\ restored' = [restored EXCEPT ![d] = r]
    BY <1>2, <1>4, Shapes DEF WriteReceipt, Leave, stores
  <2> HIDE DEF r
  <2>4. RestoreSound(r)
    BY <2>1, <2>2 DEF RestoreSound
  <2>5. ToUpgrade(NoJob.plan) = {} /\ NoJob.at = "idle" /\ NoJob \in Jobs
    BY NoJobShape DEF ToUpgrade
  <2>6. Restoring(NoJob, backups[NoJob.use], r)
    BY <2>5 DEF Restoring, RestorePlaces, Filling
  <2> QED
    BY <1>2, <2>2, <2>3, <2>4, <2>5, <2>6, PlaceLemma
<1> QED
  BY <1>3, <1>4

------------------------------------------------------------------------------

LEMMA InitInv == MaintenanceInit => IInv
<1> SUFFICES ASSUME MaintenanceInit
    PROVE  IInv
  OBVIOUS
<1>1. DOMAIN [s \in {} |-> Absent] = {} /\ [s \in {} |-> Absent] \in Plans
  BY NoJobShape DEF NoJob
<1>2. NoCopy \in Backups /\ BackupSound(NoCopy)
  BY <1>1 DEF NoCopy, Backups, BackupSound
<1>3. Untouched \in Restores /\ RestoreSound(Untouched)
  BY <1>1 DEF Untouched, Restores, RestoreSound
<1>4. Types
  <2>1. version \in [Stores -> Int]
    BY DEF MaintenanceInit, Absent, SchemaVersion
  <2> QED
    BY <1>2, <1>3, <2>1, NoJobShape DEF MaintenanceInit, Types
<1>5. ToUpgrade(NoJob.plan) = {} /\ NoJob.at = "idle"
  BY NoJobShape DEF ToUpgrade
<1>6. Fine(NoJob, version, registered, backups, restored) /\ \A k : Keeps(NoJob, k)
  BY <1>4, <1>5, NoJobShape, AtEase DEF Types
<1>7. Apart(NoJob, NoJob)
  BY <1>5 DEF Apart, Creates, CreatePlaces, Filling
<1> QED
  BY <1>2, <1>3, <1>4, <1>6, <1>7 DEF MaintenanceInit, IInv

LEMMA NextInv == IInv /\ [MaintenanceNext]_maintenanceVars => IInv'
<1> SUFFICES ASSUME IInv, [MaintenanceNext]_maintenanceVars
    PROVE  IInv'
  OBVIOUS
<1>1. CASE UNCHANGED <<version, registered, backups, restored, job>>
  BY <1>1 DEF IInv, Types
<1>2. ASSUME NEW o \in Operators,
             \/ \E w \in Worlds \cup {Nowhere} : InitWorkspace(o, w)
             \/ InitSchema(o) \/ CheckCurrent(o) \/ OpenWorld(o) \/ InitWorld(o)
             \/ RegisterWorld(o)
      PROVE  IInv'
  BY <1>2, InitWorkspaceInv, InitSchemaInv, CheckInv, WorldFileInv, RegisterInv
<1>3. ASSUME NEW o \in Operators,
             \/ Migrate(o) \/ PlanEnds(o) \/ SealBackup(o) \/ TakeLock(o)
             \/ UpgradeFails(o) \/ Verify(o) \/ Unlock(o) \/ Preflight(o)
             \/ MakePlace(o) \/ Relocate(o) \/ WriteReceipt(o) \/ RestoreFails(o) \/ Dies(o)
      PROVE  IInv'
  BY <1>3, MigrateInv, PlanEndsInv, SealBackupInv, TakeLockInv, EndsInv, MakePlaceInv, CloseInv
<1>4. ASSUME NEW o \in Operators, NEW s \in Stores,
             PlanStore(o, s) \/ CopyStore(o, s) \/ Upgrade(o, s) \/ RestoreStore(o, s)
      PROVE  IInv'
  BY <1>4, PlanStoreInv, CopyStoreInv, UpgradeInv, RestoreStoreInv
<1>5. ASSUME NEW o \in Operators, NEW t \in Stamps,
             \/ NameBackup(o, t) \/ NameTaken(o, t) \/ ListStores(o, t)
             \/ \E d \in Places : PlanRestore(o, t, d)
      PROVE  IInv'
  BY <1>5, NameBackupInv, EndsInv, PlanRestoreInv
<1>6. CASE SetUpdateLock \/ RemoveLock
  BY <1>1, <1>6 DEF SetUpdateLock, RemoveLock, stores
<1>7. CASE UNCHANGED maintenanceVars
  BY <1>1, <1>7 DEF maintenanceVars, stores
<1> QED
  BY <1>2, <1>3, <1>4, <1>5, <1>6, <1>7 DEF MaintenanceNext

\* Only an upgrade makes an old store new, and it has the store's backup.
LEMMA UpgradeLemma ==
  ASSUME IInv, NEW s \in Stores, version[s] = 1,
         NEW o \in Operators, NEW z \in Stores, Upgrade(o, z), version'[s] # 1
  PROVE  \E t \in Stamps : /\ backups[t].sealed /\ backups[t].kind = "migration"
                           /\ s \in DOMAIN backups[t].copy /\ backups[t].copy[s] = 1
<1>1. z = s
  BY Shapes DEF Upgrade
<1>2. s \in ToUpgrade(job[o].plan) /\ job[o].at = "upgrading"
  BY <1>1, Facts DEF Upgrade, Doing, IsNext, Upgrading
<1> QED
  BY <1>2, Facts DEF Upgrading, Saved

LEMMA StepKeepsStores ==
  IInv /\ [MaintenanceNext]_maintenanceVars => BackedUpBeforeUpgrade /\ RegisteredWhole
<1> SUFFICES ASSUME IInv, [MaintenanceNext]_maintenanceVars
    PROVE  BackedUpBeforeUpgrade /\ RegisteredWhole
  OBVIOUS
<1>1. CASE UNCHANGED stores
  BY <1>1 DEF stores, BackedUpBeforeUpgrade, RegisteredWhole
<1>2. ASSUME NEW o \in Operators, NEW w \in Worlds \cup {Nowhere}, InitWorkspace(o, w)
      PROVE  BackedUpBeforeUpgrade /\ RegisteredWhole
  BY <1>2, Shapes DEF InitWorkspace, BackedUpBeforeUpgrade, RegisteredWhole, Absent
<1>3. ASSUME NEW o \in Operators, InitSchema(o) \/ OpenWorld(o) \/ InitWorld(o)
      PROVE  BackedUpBeforeUpgrade /\ RegisteredWhole
  <2>1. PICK s \in Stores : /\ \A z \in Stores \ {s} : version'[z] = version[z]
                            /\ version[s] # 1
    <3>1. CASE InitSchema(o)
      <4>1. version[Control] # 1
        BY <3>1, Facts DEF InitSchema, Doing, Creating, Unknown, SchemaVersion
      <4> QED
        BY <3>1, <4>1, Shapes DEF InitSchema
    <3>2. CASE OpenWorld(o) \/ InitWorld(o)
      <4>1. job[o].use \in Stores /\ version[job[o].use] # 1
        BY <3>2, Facts, Shapes
           DEF OpenWorld, InitWorld, Doing, Creating, Creates, CreatePlaces, Absent, Unknown
      <4> QED
        BY <3>2, <4>1, Shapes DEF OpenWorld, InitWorld
    <3> QED
      BY <1>3, <3>1, <3>2
  <2>2. registered' = registered
    BY <1>3 DEF InitSchema, OpenWorld, InitWorld
  <2> QED
    BY <2>1, <2>2 DEF BackedUpBeforeUpgrade, RegisteredWhole
<1>4. ASSUME NEW o \in Operators, RegisterWorld(o)
      PROVE  BackedUpBeforeUpgrade /\ RegisteredWhole
  <2>1. version[job[o].use] = SchemaVersion
    BY <1>4, Facts DEF RegisterWorld, Doing, Creating
  <2> QED
    BY <1>4, <2>1 DEF RegisterWorld, BackedUpBeforeUpgrade, RegisteredWhole
<1>5. ASSUME NEW o \in Operators, NEW z \in Stores, Upgrade(o, z)
      PROVE  BackedUpBeforeUpgrade /\ RegisteredWhole
  BY <1>5, UpgradeLemma DEF Upgrade, BackedUpBeforeUpgrade, RegisteredWhole
<1>6. ASSUME NEW o \in Operators,
             \/ CheckCurrent(o) \/ Migrate(o) \/ PlanEnds(o) \/ SealBackup(o) \/ TakeLock(o)
             \/ UpgradeFails(o) \/ Verify(o) \/ Unlock(o) \/ Preflight(o)
             \/ MakePlace(o) \/ Relocate(o) \/ WriteReceipt(o) \/ RestoreFails(o) \/ Dies(o)
      PROVE  UNCHANGED stores
  BY <1>6
     DEF CheckCurrent, Migrate, PlanEnds, SealBackup, TakeLock, UpgradeFails, Verify, Unlock,
         Preflight, MakePlace, Relocate, WriteReceipt, RestoreFails, Dies
<1>7. ASSUME NEW o \in Operators, NEW s \in Stores,
             PlanStore(o, s) \/ CopyStore(o, s) \/ RestoreStore(o, s)
      PROVE  UNCHANGED stores
  BY <1>7 DEF PlanStore, CopyStore, RestoreStore
<1>8. ASSUME NEW o \in Operators, NEW t \in Stamps,
             \/ NameBackup(o, t) \/ NameTaken(o, t) \/ ListStores(o, t)
             \/ \E d \in Places : PlanRestore(o, t, d)
      PROVE  UNCHANGED stores
  BY <1>8 DEF NameBackup, NameTaken, ListStores, PlanRestore
<1>9. CASE SetUpdateLock \/ RemoveLock \/ UNCHANGED maintenanceVars
  BY <1>1, <1>9 DEF SetUpdateLock, RemoveLock, maintenanceVars
<1> QED
  BY <1>1, <1>2, <1>3, <1>4, <1>5, <1>6, <1>7, <1>8, <1>9 DEF MaintenanceNext

------------------------------------------------------------------------------
(* Theorems *)

\* IInv is an invariant.
THEOREM Inductive == MaintenanceSpec => []IInv
  BY InitInv, NextInv, PTL DEF MaintenanceSpec

\* No store is upgraded that a finished backup does not hold as it was, and no world is
\* listed before its store has its schema, for any number of commands side by side,
\* each of which may die anywhere (apply_migrations, create_world).
THEOREM StoresKept == MaintenanceSpec => StoresAreKept
<1>1. IInv /\ [MaintenanceNext]_maintenanceVars
        => [BackedUpBeforeUpgrade /\ RegisteredWhole]_maintenanceVars
  BY StepKeepsStores
<1> QED
  BY <1>1, Inductive, PTL DEF MaintenanceSpec, StoresAreKept

\* The backup of an old workspace can be restored, and a restore with a receipt has every
\* world its control store lists (plan_restore_to_new_path, execute_restore_to_new_path).
THEOREM CopiesWhole == MaintenanceSpec => []CopiesAreWhole
<1>1. IInv => CopiesAreWhole
  <2> SUFFICES ASSUME IInv
      PROVE  CopiesAreWhole
    OBVIOUS
  <2>1. OldBackupsAreWhole
    BY Shapes DEF OldBackupsAreWhole, BackupSound
  <2>2. ReceiptMeansWhole
    BY Shapes DEF ReceiptMeansWhole, RestoreSound
  <2> QED
    BY <2>1, <2>2 DEF CopiesAreWhole
<1> QED
  BY <1>1, Inductive, PTL

------------------------------------------------------------------------------
(* The startup profile: what holds of every item and profile that is told *)

Meanings == {"explicit", "deferred"}
Origins == {"author_direct", "agent_proposal"}

\* What was given is recorded with the answer.
Given(item, given) ==
  /\ item.meaning \in Meanings /\ item.origin \in Origins
  /\ \E g \in given : /\ g.q = item.q /\ g.answer = item.answer
                      /\ g.meaning = item.meaning /\ OriginOf(g.by) = item.origin

TrueItem(item, given, approved) ==
  /\ DOMAIN item = DOMAIN Unasked(1)
  /\ item.minimum \in {"missing", IF item.q \in Minimum THEN "yes" ELSE "no"}
  /\ item.status \in Resolved => item.answer # NoAnswer
  /\ item.status = "approved_by_author" => [q |-> item.q, answer |-> item.answer] \in approved
  /\ item.answer # NoAnswer => Given(item, given)

Shaped(p) == DOMAIN p = DOMAIN FreshProfile /\ \E n \in Nat : DOMAIN p.dims \subseteq 1..n

\* A profile that no command has brought up to date yet.
LeftProfile(p, given, approved) ==
  /\ Shaped(p) /\ p.revision \in {1, 2}
  /\ Cardinality(DOMAIN p.dims) + Cardinality(MissingQuestions(p.dims)) < 200
  /\ \A i \in DOMAIN p.dims : LeftItem(p.dims[i], given, approved)

HonestProfile(p, given, approved) ==
  /\ Shaped(p) /\ p.revision = 2
  /\ Cardinality(DOMAIN p.dims) < 200 /\ MissingQuestions(p.dims) = {}
  /\ \A i \in DOMAIN p.dims : TrueItem(p.dims[i], given, approved)

StartupSound ==
  /\ DOMAIN editing = Editors
  /\ profile \notin {NoProfile, TornProfile} => LeftProfile(profile, answersGiven, approvals)
  /\ \A e \in Editors : editing[e] # NoCommand =>
       /\ DOMAIN editing[e] = {"command", "copy", "stage"}
       /\ editing[e].command \in StartupCommands
       /\ HonestProfile(editing[e].copy, answersGiven, approvals)

------------------------------------------------------------------------------
(* The startup profile: items that are brought up to date *)

LEMMA ItemFields ==
  DOMAIN Unasked(1) =
    {"q", "pack", "status", "answer", "choice", "by", "minimum", "meaning", "mode", "origin",
     "preserved"}
BY DEF Unasked

LEMMA ProfileFields ==
  DOMAIN FreshProfile = {"revision", "packId", "mode", "discretion", "notes", "rounds", "dims"}
BY DEF FreshProfile

LEMMA MeaningsKnown ==
  /\ \A answer : TextMeaning(answer) \in Meanings
  /\ \A item, m, c : OptionMeaning(item, m, c) \in Meanings
  /\ \A by : OriginOf(by) \in Origins /\ (OriginOf(by) = "author_direct" <=> by = "author")
BY DEF TextMeaning, OptionMeaning, OriginOf, Meanings, Origins

LEMMA TrueIsLeft ==
  ASSUME NEW item, NEW given, NEW approved, TrueItem(item, given, approved)
  PROVE  LeftItem(item, given, approved)
<1>1. ASSUME item.answer # NoAnswer
      PROVE  \E g \in given : WasGiven(item, g)
  <2>1. Given(item, given)
    BY <1>1 DEF TrueItem
  <2>2. PICK g \in given : /\ g.q = item.q /\ g.answer = item.answer
                           /\ g.meaning = item.meaning /\ OriginOf(g.by) = item.origin
    BY <2>1 DEF Given
  <2>3. Origin(item) = item.origin /\ item.meaning \in {"explicit", "deferred"}
    BY <2>1 DEF Given, Origin, Origins, Meanings
  <2> QED
    BY <2>2, <2>3 DEF WasGiven
<1> QED
  BY <1>1 DEF TrueItem, LeftItem

LEMMA RenewedIsLeft ==
  ASSUME NEW item, NEW given, NEW approved, LeftItem(item, given, approved)
  PROVE  LeftItem(Renewed(item), given, approved) /\ Renewed(item).q = item.q
<1>1. CASE item.status \in Resolved \/ item.answer # NoAnswer \/ item.pack # "legacy"
  <2> DEFINE r == [item EXCEPT !.preserved = TRUE]
  <2>1. /\ DOMAIN r = DOMAIN item /\ r.q = item.q /\ r.answer = item.answer /\ r.by = item.by
        /\ r.status = item.status /\ r.minimum = item.minimum /\ r.meaning = item.meaning
        /\ r.mode = item.mode /\ r.origin = item.origin /\ r.choice = item.choice
        /\ r.pack = item.pack
    BY ItemFields DEF LeftItem
  <2> HIDE DEF r
  <2>2. \A g : WasGiven(item, g) => WasGiven(r, g)
    BY <2>1 DEF WasGiven, Origin, OptionMeaning, Label
  <2>3. LeftItem(r, given, approved)
    BY <2>1, <2>2 DEF LeftItem
  <2>4. Renewed(item) = r
    BY <1>1 DEF Renewed, r
  <2> QED
    BY <2>1, <2>3, <2>4
<1>2. CASE ~(item.status \in Resolved \/ item.answer # NoAnswer \/ item.pack # "legacy")
  <2> DEFINE r == [item EXCEPT !.pack = "neutral"]
  <2>1. /\ DOMAIN r = DOMAIN item /\ r.q = item.q /\ r.answer = item.answer
        /\ r.status = item.status /\ r.minimum = item.minimum
    BY ItemFields DEF LeftItem
  <2> HIDE DEF r
  <2>2. LeftItem(r, given, approved)
    BY <1>2, <2>1 DEF LeftItem
  <2>3. Renewed(item) = r
    BY <1>2 DEF Renewed, r
  <2> QED
    BY <2>1, <2>2, <2>3
<1> QED
  BY <1>1, <1>2

LEMMA FramedIsLeft ==
  ASSUME NEW item, NEW given, NEW approved, LeftItem(item, given, approved)
  PROVE  /\ LeftItem(WithFrame(item), given, approved) /\ WithFrame(item).q = item.q
<1> DEFINE r == WithFrame(item)
           frame == IF item.q \in Minimum THEN "yes" ELSE "no"
<1>1. /\ DOMAIN r = DOMAIN item /\ r.q = item.q /\ r.answer = item.answer /\ r.by = item.by
      /\ r.status = item.status /\ r.meaning = item.meaning
      /\ r.mode = item.mode /\ r.origin = item.origin /\ r.choice = item.choice
      /\ r.pack = item.pack
  BY ItemFields DEF LeftItem, WithFrame
<1>2. r.minimum \in {"missing", frame}
  <2>1. item.minimum \in {"missing", frame}
    BY DEF LeftItem
  <2>2. r.minimum = IF item.minimum # "missing" THEN item.minimum ELSE frame
    BY ItemFields DEF LeftItem, WithFrame
  <2> QED
    BY <2>1, <2>2
<1> HIDE DEF r
<1>3. \A g : WasGiven(item, g) => WasGiven(r, g)
  BY <1>1 DEF WasGiven, Origin, OptionMeaning, Label
<1>4. LeftItem(r, given, approved)
  BY <1>1, <1>2, <1>3 DEF LeftItem
<1> QED
  BY <1>1, <1>2, <1>4 DEF r

\* Labels tell the mode that an answer was given in.
LEMMA LabelsTellModes ==
  ASSUME NEW item, NEW p, NEW m \in Modes,
         item.mode = m \/ (item.mode = "missing" /\ item.answer = Label(item, m, item.choice)),
         item.choice # 0
  PROVE  InferredMode(p, item) = m
<1>1. CASE item.mode = m
  <2>1. m # "missing"
    BY DEF Modes
  <2> QED
    BY <1>1, <2>1 DEF InferredMode
<1>2. CASE item.mode = "missing" /\ item.answer = Label(item, m, item.choice)
  <2> DEFINE said == {n \in Modes : item.choice # 0 /\ item.answer = Label(item, n, item.choice)}
  <2>1. \A n \in Modes : item.answer = Label(item, n, item.choice) => n = m
    BY <1>2 DEF Label
  <2>2. said = {m}
    BY <1>2, <2>1
  <2>3. InferredMode(p, item) = CHOOSE n \in said : TRUE
    BY <1>2, <2>2 DEF InferredMode
  <2> QED
    BY <2>2, <2>3
<1> QED
  BY <1>1, <1>2

LEMMA MetadataIsTrue ==
  ASSUME NEW item, NEW p, NEW given, NEW approved, LeftItem(item, given, approved)
  PROVE  /\ TrueItem(WithMetadata(p, item), given, approved)
         /\ WithMetadata(p, item).q = item.q
<1>1. CASE item.answer = NoAnswer
  BY <1>1 DEF WithMetadata, LeftItem, TrueItem
<1>2. CASE item.answer # NoAnswer
  <2> DEFINE r == WithMetadata(p, item)
             meaning == IF item.choice = 0 THEN TextMeaning(item.answer)
                        ELSE OptionMeaning(item, InferredMode(p, item), item.choice)
  <2>1. /\ DOMAIN r = DOMAIN item /\ r.q = item.q /\ r.answer = item.answer
        /\ r.status = item.status /\ r.minimum = item.minimum
        /\ r.meaning = IF item.meaning = "missing" THEN meaning ELSE item.meaning
        /\ r.origin = IF item.origin = "missing" THEN OriginOf(item.by) ELSE item.origin
    BY <1>2, ItemFields DEF LeftItem, WithMetadata
  <2>2. PICK g \in given : WasGiven(item, g)
    BY <1>2 DEF LeftItem
  <2>3. r.origin = OriginOf(g.by) /\ r.origin \in Origins
    BY <2>1, <2>2, MeaningsKnown DEF WasGiven, Origin
  <2>4. r.meaning = g.meaning /\ r.meaning \in Meanings
    <3>1. g.meaning \in Meanings /\ g.meaning # "missing"
      BY <2>2 DEF WasGiven, Meanings
    <3>2. CASE item.meaning = g.meaning
      BY <2>1, <3>1, <3>2
    <3>3. CASE item.meaning = "missing" /\ item.choice = 0 /\ g.meaning = TextMeaning(item.answer)
      BY <2>1, <3>1, <3>3
    <3>4. ASSUME item.meaning = "missing", item.choice # 0, NEW m \in Modes,
                 g.meaning = OptionMeaning(item, m, item.choice),
                 item.mode = m
                   \/ (item.mode = "missing" /\ item.answer = Label(item, m, item.choice))
          PROVE  r.meaning = g.meaning /\ r.meaning \in Meanings
      <4>1. InferredMode(p, item) = m
        BY <3>4, LabelsTellModes
      <4> QED
        BY <2>1, <3>1, <3>4, <4>1
    <3> QED
      BY <2>2, <3>2, <3>3, <3>4 DEF WasGiven
  <2> HIDE DEF r
  <2>5. Given(r, given)
    BY <2>1, <2>2, <2>3, <2>4 DEF Given, WasGiven
  <2>6. TrueItem(r, given, approved)
    BY <2>1, <2>5 DEF TrueItem, LeftItem
  <2> QED
    BY <2>1, <2>6 DEF r
<1> QED
  BY <1>1, <1>2

LEMMA UnaskedIsLeft ==
  ASSUME NEW q, NEW given, NEW approved
  PROVE  LeftItem(Unasked(q), given, approved) /\ Unasked(q).q = q
<1>1. Unasked(q).q = q /\ Unasked(q).status = "unasked" /\ Unasked(q).answer = NoAnswer
      /\ Unasked(q).minimum = "missing" /\ DOMAIN Unasked(q) = DOMAIN Unasked(1)
  BY DEF Unasked
<1>2. "unasked" \notin Resolved /\ "unasked" # "approved_by_author"
  BY DEF Resolved
<1> QED
  BY <1>1, <1>2 DEF LeftItem

LEMMA ItemBroughtUp ==
  ASSUME NEW item, NEW p, NEW given, NEW approved, LeftItem(item, given, approved)
  PROVE  /\ TrueItem(WithMetadata(p, WithFrame(item)), given, approved)
         /\ WithMetadata(p, WithFrame(item)).q = item.q
<1>1. LeftItem(WithFrame(item), given, approved) /\ WithFrame(item).q = item.q
  BY FramedIsLeft
<1> QED
  BY <1>1, MetadataIsTrue

------------------------------------------------------------------------------
(* The startup profile: profiles that are brought up to date *)

LEMMA LastExists ==
  ASSUME NEW n \in Nat, NEW S \in SUBSET (0..n), S # {}
  PROVE  \E x \in S : \A y \in S : y <= x
<1> DEFINE T == {n - x : x \in S}
<1>1. T \in SUBSET Nat /\ T # {}
  <2>1. ASSUME NEW x \in S
        PROVE  n - x \in Nat
    <3>1. x \in 0..n
      OBVIOUS
    <3> QED
      BY <3>1
  <2> QED
    BY <2>1
<1> HIDE DEF T
<1>2. PICK t \in T : \A s \in T : ~(<<s, t>> \in OpToRel(<, Nat))
  BY <1>1, NatLessThanWellFounded, WFMin
<1>3. \A s \in T : ~(s < t)
  <2>1. ASSUME NEW s \in T
        PROVE  <<s, t>> \notin {ss \in Nat \X Nat : ss[1] < ss[2]}
    BY <1>2 DEF OpToRel
  <2> QED
    BY <1>1, <2>1
<1>4. PICK x \in S : t = n - x
  BY DEF T
<1>5. ASSUME NEW y \in S
      PROVE  y <= x
  <2>1. n - y \in T
    BY DEF T
  <2>2. ~(n - y < n - x)
    BY <1>3, <1>4, <2>1
  <2> QED
    BY <2>2
<1> QED
  BY <1>5

LEMMA PlacesFinite ==
  ASSUME NEW p, Shaped(p)
  PROVE  IsFiniteSet(DOMAIN p.dims) /\ Cardinality(DOMAIN p.dims) \in Nat
<1>1. PICK n \in Nat : DOMAIN p.dims \subseteq 1..n
  BY DEF Shaped
<1>2. IsFiniteSet(1..n)
  BY FS_Interval
<1> QED
  BY <1>1, <1>2, FS_Subset, FS_CardinalityType

LEMMA MissingFinite ==
  ASSUME NEW dims
  PROVE  /\ IsFiniteSet(MissingQuestions(dims)) /\ Cardinality(MissingQuestions(dims)) \in Nat
         /\ MissingQuestions(dims) \subseteq 1..QuestionCount /\ QuestionCount \in Nat
<1>1. QuestionCount \in Nat /\ MissingQuestions(dims) \in SUBSET (1..QuestionCount)
  BY StartupAssumption DEF MissingQuestions
<1>2. IsFiniteSet(1..QuestionCount)
  BY <1>1, FS_Interval
<1> QED
  BY <1>1, <1>2, FS_Subset, FS_CardinalityType

LEMMA LastPlaceIsLast ==
  ASSUME NEW dims, NEW n \in Nat, DOMAIN dims \subseteq 1..n
  PROVE  LastPlace(dims) \in 0..n /\ \A i \in DOMAIN dims : i <= LastPlace(dims)
<1> DEFINE S == DOMAIN dims \cup {0}
<1>1. S \in SUBSET (0..n) /\ S # {}
  OBVIOUS
<1>2. \E x \in S : \A y \in S : y <= x
  <2> HIDE DEF S
  <2> QED
    BY <1>1, LastExists
<1>3. \E x \in S : \A i \in DOMAIN dims : i <= x
  BY <1>2
<1>4. LastPlace(dims) \in S /\ \A i \in DOMAIN dims : i <= LastPlace(dims)
  BY <1>3 DEF LastPlace
<1> QED
  BY <1>1, <1>4

\* A profile that is sound stays so when what it rests on grows.
LEMMA GivenForGood ==
  ASSUME NEW given, NEW approved, NEW more, NEW further,
         given \subseteq more, approved \subseteq further
  PROVE  /\ \A p : HonestProfile(p, given, approved) => HonestProfile(p, more, further)
         /\ \A p : LeftProfile(p, given, approved) => LeftProfile(p, more, further)
<1>1. \A item : TrueItem(item, given, approved) => TrueItem(item, more, further)
  BY DEF TrueItem, Given
<1>2. \A item : LeftItem(item, given, approved) => LeftItem(item, more, further)
  BY DEF LeftItem
<1> QED
  BY <1>1, <1>2 DEF HonestProfile, LeftProfile

LEMMA HonestIsLeft ==
  ASSUME NEW p, NEW given, NEW approved, HonestProfile(p, given, approved)
  PROVE  LeftProfile(p, given, approved)
<1>1. Cardinality(MissingQuestions(p.dims)) = 0
  BY FS_EmptySet DEF HonestProfile
<1>2. Cardinality(DOMAIN p.dims) \in Nat /\ Cardinality(DOMAIN p.dims) < 200
  BY PlacesFinite DEF HonestProfile
<1>3. \A i \in DOMAIN p.dims : LeftItem(p.dims[i], given, approved)
  BY TrueIsLeft DEF HonestProfile
<1> QED
  BY <1>1, <1>2, <1>3 DEF HonestProfile, LeftProfile

LEMMA FreshIsHonest ==
  ASSUME NEW given, NEW approved
  PROVE  HonestProfile(FreshProfile, given, approved)
<1> DEFINE dims == FreshProfile.dims
<1>1. /\ dims = [q \in 1..QuestionCount |-> Unasked(q)] /\ DOMAIN dims = 1..QuestionCount
      /\ FreshProfile.revision = 2 /\ QuestionCount \in Nat /\ QuestionCount < 200
  BY StartupAssumption DEF FreshProfile
<1>2. Cardinality(DOMAIN dims) < 200
  <2>1. 1 \in Int /\ QuestionCount \in Int
    BY <1>1
  <2>2. Cardinality(1..QuestionCount)
          = IF 1 > QuestionCount THEN 0 ELSE QuestionCount - 1 + 1
    BY <2>1, FS_Interval
  <2> QED
    BY <1>1, <2>2
<1>3. MissingQuestions(dims) = {}
  BY <1>1, UnaskedIsLeft DEF MissingQuestions
<1>4. ASSUME NEW q \in 1..QuestionCount
      PROVE  TrueItem(Unasked(q), given, approved)
  <2>1. /\ Unasked(q).status = "unasked" /\ Unasked(q).answer = NoAnswer
        /\ Unasked(q).minimum = "missing" /\ DOMAIN Unasked(q) = DOMAIN Unasked(1)
    BY DEF Unasked
  <2>2. "unasked" \notin Resolved /\ "unasked" # "approved_by_author"
    BY DEF Resolved
  <2> QED
    BY <2>1, <2>2 DEF TrueItem
<1> QED
  BY <1>1, <1>2, <1>3, <1>4 DEF HonestProfile, Shaped

\* Bringing a profile up to date keeps its places and questions, and adds at its end.
LEMMA BroughtUp ==
  ASSUME NEW p, NEW given, NEW approved, LeftProfile(p, given, approved)
  PROVE  HonestProfile(Upgraded(p), given, approved)
<1> DEFINE renewed == IF p.revision < 2 THEN [i \in DOMAIN p.dims |-> Renewed(p.dims[i])]
                      ELSE p.dims
           missing == MissingQuestions(renewed)
           end == LastPlace(renewed)
           added == {end + q : q \in missing}
           all == [i \in DOMAIN renewed \cup added |->
                     IF i \in DOMAIN renewed THEN renewed[i] ELSE Unasked(i - end)]
           new == [i \in DOMAIN all |-> WithMetadata(p, WithFrame(all[i]))]
<1>1. /\ DOMAIN renewed = DOMAIN p.dims
      /\ \A i \in DOMAIN p.dims :
           LeftItem(renewed[i], given, approved) /\ renewed[i].q = p.dims[i].q
  BY RenewedIsLeft DEF LeftProfile
<1> HIDE DEF renewed
<1>2. PICK n \in Nat : DOMAIN renewed \subseteq 1..n
  BY <1>1 DEF LeftProfile, Shaped
<1>3. end \in 0..n /\ \A i \in DOMAIN renewed : i <= end
  BY <1>2, LastPlaceIsLast
<1>4. /\ missing = MissingQuestions(p.dims) /\ missing \subseteq 1..QuestionCount
      /\ IsFiniteSet(missing) /\ Cardinality(missing) \in Nat /\ QuestionCount \in Nat
  <2>1. missing = MissingQuestions(p.dims)
    BY <1>1 DEF MissingQuestions
  <2> HIDE DEF missing
  <2> QED
    BY <2>1, MissingFinite
<1> HIDE DEF end, missing
<1>5. /\ DOMAIN all = DOMAIN renewed \cup added
      /\ \A i \in DOMAIN renewed : all[i] = renewed[i]
      /\ \A i \in added : i \notin DOMAIN renewed /\ all[i] = Unasked(i - end)
  <2>1. ASSUME NEW q \in missing
        PROVE  end + q \notin DOMAIN renewed
    <3>1. q \in Nat /\ q > 0 /\ end \in Nat
      BY <1>3, <1>4
    <3> QED
      BY <1>2, <1>3, <3>1
  <2>2. \A i \in added : i \notin DOMAIN renewed
    BY <2>1
  <2> HIDE DEF added
  <2> QED
    BY <2>2
<1>6. ASSUME NEW q \in missing
      PROVE  end + q \in added /\ all[end + q].q = q
  <2> DEFINE i == end + q
  <2>1. i \in added /\ i - end = q
    <3>1. q \in Nat /\ end \in Nat
      BY <1>3, <1>4
    <3> QED
      BY <3>1
  <2> HIDE DEF i
  <2>2. all[i] = Unasked(i - end)
    <3>1. i \in added /\ i \notin DOMAIN renewed
      BY <1>5, <2>1
    <3> HIDE DEF added
    <3> QED
      BY <3>1
  <2> HIDE DEF all, added
  <2>3. all[i] = Unasked(q)
    BY <2>1, <2>2, Zenon
  <2>4. Unasked(q).q = q
    BY DEF Unasked
  <2> QED
    BY <2>1, <2>3, <2>4 DEF i
<1> HIDE DEF added, all
<1>7. \A i \in DOMAIN all : LeftItem(all[i], given, approved)
  BY <1>1, <1>5, UnaskedIsLeft
<1>8. /\ DOMAIN new = DOMAIN all
      /\ \A i \in DOMAIN all : TrueItem(new[i], given, approved) /\ new[i].q = all[i].q
  BY <1>7, ItemBroughtUp
<1> HIDE DEF new
<1>9. n + QuestionCount \in Nat /\ DOMAIN new \subseteq 1..(n + QuestionCount)
  <2>1. ASSUME NEW q \in missing
        PROVE  end + q \in 1..(n + QuestionCount)
    BY <1>3, <1>4
  <2>2. \A i \in added : i \in 1..(n + QuestionCount)
    BY <2>1 DEF added
  <2>3. 1..n \subseteq 1..(n + QuestionCount)
    BY <1>4
  <2> QED
    BY <1>2, <1>4, <1>5, <1>8, <2>2, <2>3
<1>10. Cardinality(DOMAIN new) < 200
  <2>1. IsFiniteSet(DOMAIN p.dims) /\ Cardinality(DOMAIN p.dims) \in Nat
    BY PlacesFinite DEF LeftProfile
  <2> DEFINE f == [q \in missing |-> end + q]
  <2>2. f \in Surjection(missing, added)
    BY DEF Surjection, added
  <2>3. /\ IsFiniteSet(added) /\ Cardinality(added) <= Cardinality(missing)
        /\ Cardinality(added) \in Nat
    <3> HIDE DEF f
    <3> QED
      BY <1>4, <2>2, FS_Surjection, FS_CardinalityType
  <2>4. DOMAIN p.dims \cap added = {} /\ DOMAIN new = DOMAIN p.dims \cup added
    BY <1>1, <1>5, <1>8
  <2>5. Cardinality(DOMAIN new)
          = Cardinality(DOMAIN p.dims) + Cardinality(added) - Cardinality({})
    BY <2>1, <2>3, <2>4, FS_Union
  <2>6. Cardinality({}) = 0
    BY FS_EmptySet
  <2>7. Cardinality(DOMAIN p.dims) + Cardinality(missing) < 200
    BY <1>4 DEF LeftProfile
  <2> QED
    BY <1>4, <2>1, <2>3, <2>5, <2>6, <2>7
<1>11. MissingQuestions(new) = {}
  <2>1. ASSUME NEW q \in 1..QuestionCount
        PROVE  \E i \in DOMAIN new : new[i].q = q
    <3>1. CASE q \in missing
      <4>1. end + q \in DOMAIN all /\ all[end + q].q = q
        BY <1>5, <1>6, <3>1
      <4> QED
        BY <1>8, <4>1
    <3>2. CASE q \notin missing
      <4>1. PICK i \in DOMAIN renewed : renewed[i].q = q
        BY <3>2 DEF missing, MissingQuestions
      <4> QED
        BY <1>5, <1>8, <4>1
    <3> QED
      BY <3>1, <3>2
  <2> QED
    BY <2>1 DEF MissingQuestions
<1>12. /\ Upgraded(p).dims = new /\ Upgraded(p).revision = 2
       /\ DOMAIN Upgraded(p) = DOMAIN FreshProfile
  <2>1. DOMAIN p = DOMAIN FreshProfile
    BY DEF LeftProfile, Shaped
  <2> QED
    BY <2>1, ProfileFields DEF Upgraded, new, all, added, end, missing, renewed
<1> HIDE DEF new
<1> QED
  BY <1>8, <1>9, <1>10, <1>11, <1>12 DEF HonestProfile, Shaped

------------------------------------------------------------------------------
(* The startup profile: commands *)

Record(item, by) ==
  [q |-> item.q, answer |-> item.answer, meaning |-> item.meaning, by |-> by]

LEMMA Rewritten ==
  ASSUME NEW p, NEW given, NEW approved, HonestProfile(p, given, approved),
         NEW more, NEW further, NEW r,
         DOMAIN r = DOMAIN p, r.revision = p.revision, DOMAIN r.dims = DOMAIN p.dims,
         \A i \in DOMAIN p.dims :
           r.dims[i].q = p.dims[i].q /\ TrueItem(r.dims[i], more, further)
  PROVE  HonestProfile(r, more, further)
<1>1. MissingQuestions(r.dims) = MissingQuestions(p.dims)
  BY DEF MissingQuestions
<1> QED
  BY <1>1 DEF HonestProfile, Shaped

LEMMA AskedIsTrue ==
  ASSUME NEW item, NEW given, NEW approved, TrueItem(item, given, approved)
  PROVE  TrueItem([item EXCEPT !.status = "asked"], given, approved)
<1> DEFINE r == [item EXCEPT !.status = "asked"]
<1>1. /\ DOMAIN r = DOMAIN item /\ r.q = item.q /\ r.answer = item.answer
      /\ r.status = "asked" /\ r.minimum = item.minimum /\ r.meaning = item.meaning
      /\ r.origin = item.origin
  BY ItemFields DEF TrueItem
<1>2. "asked" \notin Resolved /\ "asked" # "approved_by_author"
  BY DEF Resolved
<1> HIDE DEF r
<1>3. TrueItem(r, given, approved)
  BY <1>1, <1>2 DEF TrueItem, Given
<1> QED
  BY <1>3 DEF r

LEMMA StatusIsTrue ==
  ASSUME NEW item, NEW given, NEW approved, TrueItem(item, given, approved), NEW further,
         approved \subseteq further, NEW status,
         status \in Resolved => item.answer # NoAnswer,
         status = "approved_by_author" => [q |-> item.q, answer |-> item.answer] \in further
  PROVE  TrueItem([item EXCEPT !.status = status], given, further)
<1> DEFINE r == [item EXCEPT !.status = status]
<1>1. /\ DOMAIN r = DOMAIN item /\ r.q = item.q /\ r.answer = item.answer
      /\ r.status = status /\ r.minimum = item.minimum /\ r.meaning = item.meaning
      /\ r.origin = item.origin
  BY ItemFields DEF TrueItem
<1> HIDE DEF r
<1>2. TrueItem(r, given, further)
  BY <1>1 DEF TrueItem, Given
<1> QED
  BY <1>2 DEF r

LEMMA AnswerIsTrue ==
  ASSUME NEW item, NEW given, NEW approved, TrueItem(item, given, approved), NEW more,
         NEW answer, NEW choice, NEW by, NEW mode, answer # NoAnswer,
         Record(Answered(item, answer, choice, by, mode), by) \in more
  PROVE  /\ TrueItem(Answered(item, answer, choice, by, mode), more, approved)
         /\ Answered(item, answer, choice, by, mode).q = item.q
<1> DEFINE r == Answered(item, answer, choice, by, mode)
           status == IF by = "author" THEN "answered_by_author" ELSE "proposed_by_agent"
<1>1. /\ DOMAIN r = DOMAIN item /\ r.q = item.q /\ r.answer = answer
      /\ r.status = status /\ r.minimum = item.minimum /\ r.origin = OriginOf(by)
      /\ r.meaning = IF choice = 0 THEN TextMeaning(answer)
                     ELSE OptionMeaning(item, mode, choice)
  BY ItemFields DEF TrueItem, Answered
<1>2. r.meaning \in Meanings /\ r.origin \in Origins
  BY <1>1, MeaningsKnown
<1> HIDE DEF r
<1>3. Given(r, more)
  <2>1. Record(r, by) \in more
    BY DEF r
  <2>2. Record(r, by).q = r.q /\ Record(r, by).answer = r.answer
        /\ Record(r, by).meaning = r.meaning /\ Record(r, by).by = by
    BY DEF Record
  <2> QED
    BY <1>1, <1>2, <2>1, <2>2 DEF Given
<1>4. r.status # "approved_by_author"
  BY <1>1
<1>5. TrueItem(r, more, approved)
  BY <1>1, <1>3, <1>4 DEF TrueItem
<1> QED
  BY <1>1, <1>5 DEF r

\* Whatever a command makes of an honest profile is honest, by what is given with it.
LEMMA PerformedIsHonest ==
  ASSUME NEW p, NEW given, NEW approved, HonestProfile(p, given, approved),
         NEW c \in StartupCommands, c.op \notin Reading, ~Refused(p, c),
         NEW more, NEW further, given \subseteq more, approved \subseteq further,
         c.op \in {"answer", "batch"} =>
           \A i \in DOMAIN Performed(p, c).dims :
             Performed(p, c).dims[i].q \in Selected(p, c) =>
               Record(Performed(p, c).dims[i], c.by) \in more,
         c.op = "status" /\ c.status = "approved_by_author" =>
           \A i \in DOMAIN Performed(p, c).dims :
             Performed(p, c).dims[i].q = c.q =>
               [q |-> Performed(p, c).dims[i].q, answer |-> Performed(p, c).dims[i].answer]
                 \in further
  PROVE  HonestProfile(Performed(p, c), more, further)
<1> DEFINE r == Performed(p, c)
<1>1. /\ DOMAIN p =
           {"revision", "packId", "mode", "discretion", "notes", "rounds", "dims"}
      /\ \A i \in DOMAIN p.dims :
           TrueItem(p.dims[i], given, approved) /\ TrueItem(p.dims[i], more, further)
  BY GivenForGood, ProfileFields DEF HonestProfile, Shaped
<1>2. CASE c.op = "interview"
  <2> DEFINE first == {i \in Unresolved(p) : Cardinality({j \in Unresolved(p) : j < i}) < c.budget}
             asked == {p.dims[i].q : i \in first}
             ask(item) == IF item.q \in asked /\ item.status = "unasked"
                          THEN [item EXCEPT !.status = "asked"] ELSE item
  <2>1. /\ DOMAIN r = DOMAIN p /\ r.revision = p.revision
        /\ r.dims = [i \in DOMAIN p.dims |-> ask(p.dims[i])]
    BY <1>1, <1>2 DEF Performed, Interviewed
  <2> HIDE DEF r, asked
  <2>2. ASSUME NEW i \in DOMAIN p.dims
        PROVE  ask(p.dims[i]).q = p.dims[i].q /\ TrueItem(ask(p.dims[i]), more, further)
    <3>1. TrueItem(p.dims[i], more, further)
      BY <1>1
    <3>2. [p.dims[i] EXCEPT !.status = "asked"].q = p.dims[i].q
      BY <3>1, ItemFields DEF TrueItem
    <3> QED
      BY <3>1, <3>2, AskedIsTrue
  <2> HIDE DEF ask
  <2>3. HonestProfile(r, more, further)
    BY <2>1, <2>2, Rewritten
  <2> QED
    BY <2>3 DEF r
<1>3. CASE c.op = "discretion"
  <2>1. DOMAIN r = DOMAIN p /\ r.revision = p.revision /\ r.dims = p.dims
    BY <1>1, <1>3 DEF Performed, DiscretionSet
  <2> HIDE DEF r
  <2>2. HonestProfile(r, more, further)
    BY <1>1, <2>1, Rewritten
  <2> QED
    BY <2>2 DEF r
<1>4. CASE c.op = "status"
  <2> DEFINE set(item) == IF item.q = c.q THEN [item EXCEPT !.status = c.status] ELSE item
  <2>1. /\ DOMAIN r = DOMAIN p /\ r.revision = p.revision
        /\ r.dims = [i \in DOMAIN p.dims |-> set(p.dims[i])]
    BY <1>1, <1>4 DEF Performed, StatusSet
  <2>2. c.status = "approved_by_author" =>
          \A i \in DOMAIN r.dims :
            r.dims[i].q = c.q => [q |-> r.dims[i].q, answer |-> r.dims[i].answer] \in further
    BY <1>4
  <2> HIDE DEF r
  <2>3. ASSUME NEW i \in DOMAIN p.dims
        PROVE  set(p.dims[i]).q = p.dims[i].q /\ TrueItem(set(p.dims[i]), more, further)
    <3> DEFINE item == p.dims[i]
               changed == [item EXCEPT !.status = c.status]
    <3>1. TrueItem(item, more, approved) /\ TrueItem(item, more, further)
      <4>1. TrueItem(item, given, approved)
        BY <1>1
      <4> QED
        BY <1>1, <4>1 DEF TrueItem, Given
    <3>2. changed.q = item.q /\ changed.answer = item.answer
      BY <3>1, ItemFields DEF TrueItem
    <3>3. CASE item.q = c.q
      <4>1. c.status \in Resolved => item.answer # NoAnswer
        BY <1>4, <3>3 DEF Refused, ItemsOf
      <4>2. r.dims[i] = changed
        BY <2>1, <3>3
      <4>3. c.status = "approved_by_author" =>
              [q |-> item.q, answer |-> item.answer] \in further
        BY <2>1, <2>2, <3>2, <3>3, <4>2
      <4>4. TrueItem(changed, more, further)
        <5> HIDE DEF item
        <5> QED
          BY <3>1, <4>1, <4>3, StatusIsTrue
      <4> QED
        BY <3>2, <3>3, <4>4
    <3>4. CASE item.q # c.q
      BY <3>1, <3>4
    <3> QED
      BY <3>3, <3>4
  <2> HIDE DEF set
  <2>4. HonestProfile(r, more, further)
    BY <2>1, <2>3, Rewritten
  <2> QED
    BY <2>4 DEF r
<1>5. CASE c.op \in {"answer", "batch"}
  <2> DEFINE mode == ModeOf(p, c.mode)
             set(item) == IF item.q \in Selected(p, c) THEN AnswerTo(c, item, mode) ELSE item
  <2>1. /\ DOMAIN r = DOMAIN p /\ r.revision = p.revision
        /\ r.dims = [i \in DOMAIN p.dims |-> set(p.dims[i])]
    BY <1>1, <1>5 DEF Performed, AnswersRecorded
  <2>2. \A i \in DOMAIN r.dims :
          r.dims[i].q \in Selected(p, c) => Record(r.dims[i], c.by) \in more
    BY <1>5
  <2> HIDE DEF r, mode
  <2>3. ASSUME NEW i \in DOMAIN p.dims
        PROVE  set(p.dims[i]).q = p.dims[i].q /\ TrueItem(set(p.dims[i]), more, further)
    <3> DEFINE item == p.dims[i]
               choice == ChoiceFor(c, item.q)
               answer == IF c.op = "batch" THEN Label(item, mode, choice)
                         ELSE <<"text", c.text>>
    <3>1. TrueItem(item, given, further) /\ TrueItem(item, more, further)
      <4>1. TrueItem(item, given, approved)
        BY <1>1
      <4> QED
        BY <1>1, <4>1 DEF TrueItem, Given
    <3>2. CASE item.q \in Selected(p, c)
      <4>1. set(item) = Answered(item, answer, choice, c.by, mode)
        BY <3>2 DEF AnswerTo
      <4>2. answer # NoAnswer
        BY DEF Label, NoAnswer
      <4>3. Answered(item, answer, choice, c.by, mode).q = item.q
        BY <3>1, ItemFields DEF TrueItem, Answered
      <4>4. r.dims[i] = Answered(item, answer, choice, c.by, mode) /\ i \in DOMAIN r.dims
        BY <2>1, <4>1
      <4> HIDE DEF item, choice, answer, set
      <4>5. Record(Answered(item, answer, choice, c.by, mode), c.by) \in more
        BY <2>2, <3>2, <4>3, <4>4
      <4>6. TrueItem(Answered(item, answer, choice, c.by, mode), more, further)
        BY <3>1, <4>2, <4>5, AnswerIsTrue
      <4> QED
        BY <4>1, <4>3, <4>6 DEF item
    <3>3. CASE item.q \notin Selected(p, c)
      BY <3>1, <3>3
    <3> QED
      BY <3>2, <3>3
  <2> HIDE DEF set
  <2>4. HonestProfile(r, more, further)
    BY <2>1, <2>3, Rewritten
  <2> QED
    BY <2>4 DEF r
<1> QED
  BY <1>2, <1>3, <1>4, <1>5, StartupCommandsAssumption DEF Reading

------------------------------------------------------------------------------
(* The startup profile: what is told of it *)

LEMMA ItemTold ==
  ASSUME NEW item, NEW given, NEW approved, TrueItem(item, given, approved),
         item.status \in Resolved
  PROVE  /\ MeaningOf(item) = item.meaning /\ item.meaning \in Meanings
         /\ \E g \in given : g.q = item.q /\ g.answer = item.answer /\ g.meaning = item.meaning
         /\ Authority(item) = "user_explicit" =>
              \E g \in given : g.q = item.q /\ g.answer = item.answer /\ g.by = "author"
         /\ Authority(item) = "author_approved_agent_proposal" =>
              [q |-> item.q, answer |-> item.answer] \in approved
<1>1. Given(item, given)
  BY DEF TrueItem
<1>2. PICK g \in given : /\ g.q = item.q /\ g.answer = item.answer
                         /\ g.meaning = item.meaning /\ OriginOf(g.by) = item.origin
  BY <1>1 DEF Given
<1>3. /\ item.meaning \in Meanings /\ item.meaning # "missing"
      /\ item.origin \in Origins /\ Origin(item) = item.origin
  BY <1>1 DEF Given, Meanings, Origins, Origin
<1>4. MeaningOf(item) = item.meaning
  BY <1>3 DEF MeaningOf
<1>5. Authority(item) = "user_explicit" => g.by = "author"
  BY <1>2, <1>3, MeaningsKnown DEF Authority, Origins
<1>6. Authority(item) = "author_approved_agent_proposal" => item.status = "approved_by_author"
  BY <1>3 DEF Authority, Origins
<1> QED
  BY <1>2, <1>3, <1>4, <1>5, <1>6 DEF TrueItem

LEMMA TrueSummary ==
  ASSUME NEW p, NEW given, NEW approved, HonestProfile(p, given, approved)
  PROVE  LET summary == StartupSummary(p) IN
           /\ \A a \in summary.answers :
                /\ a.authority = "user_explicit" =>
                     \E g \in given : g.q = a.q /\ g.answer = a.answer /\ g.by = "author"
                /\ a.authority = "author_approved_agent_proposal" =>
                     [q |-> a.q, answer |-> a.answer] \in approved
           /\ summary.ready =>
                \A q \in Minimum : \E a \in summary.answers, g \in given :
                  a.q = q /\ g.q = q /\ g.answer = a.answer /\ g.meaning = "explicit"
           /\ summary.ready <=> summary.blockers = {}
           /\ summary.full <=> summary.unresolved = {}
<1> DEFINE all == DOMAIN p.dims
           open == all \ Settled(p)
           blocking == (open \cup (Settled(p) \ Decided(p))) \cap Frame(p)
           answers == {AnswerRecord(p.dims[i]) : i \in Settled(p)}
           summary == StartupSummary(p)
<1>1. /\ summary.answers = answers
      /\ summary.ready = (Frame(p) \subseteq Decided(p))
      /\ summary.full = (200 * Cardinality(open) <= Cardinality(all))
      /\ summary.unresolved = {p.dims[i].q : i \in open}
      /\ summary.blockers = {p.dims[i].q : i \in blocking}
  BY DEF StartupSummary, Readiness
<1> HIDE DEF summary
<1>2. ASSUME NEW i \in Settled(p)
      PROVE  /\ i \in all /\ TrueItem(p.dims[i], given, approved)
             /\ p.dims[i].status \in Resolved
             /\ AnswerRecord(p.dims[i]).q = p.dims[i].q
             /\ AnswerRecord(p.dims[i]).answer = p.dims[i].answer
             /\ AnswerRecord(p.dims[i]).authority = Authority(p.dims[i])
             /\ AnswerRecord(p.dims[i]) \in answers
  BY DEF Settled, HonestProfile, AnswerRecord
<1>3. ASSUME NEW a \in answers
      PROVE  /\ a.authority = "user_explicit" =>
                  \E g \in given : g.q = a.q /\ g.answer = a.answer /\ g.by = "author"
             /\ a.authority = "author_approved_agent_proposal" =>
                  [q |-> a.q, answer |-> a.answer] \in approved
  <2>1. PICK i \in Settled(p) : a = AnswerRecord(p.dims[i])
    OBVIOUS
  <2> QED
    BY <1>2, <2>1, ItemTold
<1>4. ASSUME Frame(p) \subseteq Decided(p), NEW q \in Minimum
      PROVE  \E a \in answers, g \in given :
               a.q = q /\ g.q = q /\ g.answer = a.answer /\ g.meaning = "explicit"
  <2>1. PICK i \in all : p.dims[i].q = q
    <3>1. q \in 1..QuestionCount
      BY StartupAssumption
    <3> QED
      BY <3>1 DEF HonestProfile, MissingQuestions
  <2>2. InFrame(p.dims[i])
    <3>1. p.dims[i].minimum \in {"missing", "yes"}
      BY <2>1 DEF HonestProfile, TrueItem
    <3> QED
      BY <2>1, <3>1 DEF InFrame
  <2>3. i \in Settled(p) /\ MeaningOf(p.dims[i]) # "deferred"
    BY <1>4, <2>2 DEF Frame, Decided
  <2>4. TrueItem(p.dims[i], given, approved) /\ p.dims[i].status \in Resolved
    BY <1>2, <2>3
  <2>5. PICK g \in given :
          /\ g.q = p.dims[i].q /\ g.answer = p.dims[i].answer
          /\ g.meaning = p.dims[i].meaning
    BY <2>4, ItemTold
  <2>6. p.dims[i].meaning = "explicit"
    BY <2>3, <2>4, ItemTold DEF Meanings
  <2>7. /\ AnswerRecord(p.dims[i]) \in answers /\ AnswerRecord(p.dims[i]).q = q
        /\ AnswerRecord(p.dims[i]).answer = p.dims[i].answer
    BY <1>2, <2>1, <2>3
  <2> QED
    BY <2>1, <2>5, <2>6, <2>7
<1>5. (Frame(p) \subseteq Decided(p)) <=> blocking = {}
  BY DEF Frame, Settled, Decided
<1>6. (200 * Cardinality(open) <= Cardinality(all)) <=> open = {}
  <2>1. /\ IsFiniteSet(all) /\ Cardinality(all) \in Nat /\ Cardinality(all) < 200
        /\ open \in SUBSET all
    BY PlacesFinite DEF HonestProfile
  <2> HIDE DEF all, open
  <2>2. IsFiniteSet(open) /\ Cardinality(open) \in Nat /\ (Cardinality(open) = 0 <=> open = {})
    BY <2>1, FS_Subset, FS_CardinalityType, FS_EmptySet
  <2> QED
    BY <2>1, <2>2
<1>7. ({p.dims[i].q : i \in blocking} = {} <=> blocking = {})
      /\ ({p.dims[i].q : i \in open} = {} <=> open = {})
  OBVIOUS
<1>8. /\ summary.ready <=> summary.blockers = {}
      /\ summary.full <=> summary.unresolved = {}
  BY <1>1, <1>5, <1>6, <1>7
<1>9. summary.ready =>
        \A q \in Minimum : \E a \in summary.answers, g \in given :
          a.q = q /\ g.q = q /\ g.answer = a.answer /\ g.meaning = "explicit"
  BY <1>1, <1>4
<1>10. \A a \in summary.answers :
         /\ a.authority = "user_explicit" =>
              \E g \in given : g.q = a.q /\ g.answer = a.answer /\ g.by = "author"
         /\ a.authority = "author_approved_agent_proposal" =>
              [q |-> a.q, answer |-> a.answer] \in approved
  BY <1>1, <1>3
<1> QED
  BY <1>8, <1>9, <1>10 DEF summary

LEMMA AskingWithin ==
  ASSUME NEW sources, IsFiniteSet(DOMAIN sources), NEW limit \in Nat,
         \A i \in DOMAIN sources : sources[i].id \in Nat
  PROVE  IsFiniteSet(Asking(sources, limit)) /\ Cardinality(Asking(sources, limit)) <= limit
<1> DEFINE usable == Accepted(sources)
           id(i) == sources[i].id
           below(i) == {j \in usable : id(j) < id(i)}
           asking == Asking(sources, limit)
<1>1. /\ usable \in SUBSET DOMAIN sources /\ \A i \in usable : id(i) \in Nat
      /\ \A i, j \in usable : id(i) = id(j) => i = j
  BY DEF Accepted
<1>2. IsFiniteSet(usable)
  BY <1>1, FS_Subset
<1>3. asking \subseteq usable /\ \A i \in asking : Cardinality(below(i)) < limit
  BY DEF Asking
<1> HIDE DEF usable, asking, id
<1>4. ASSUME NEW i
      PROVE  IsFiniteSet(below(i)) /\ Cardinality(below(i)) \in Nat
  <2>1. below(i) \in SUBSET usable
    OBVIOUS
  <2> QED
    BY <1>2, <2>1, FS_Subset, FS_CardinalityType
<1>5. ASSUME NEW i \in usable, NEW j \in usable, id(i) < id(j)
      PROVE  Cardinality(below(i)) < Cardinality(below(j))
  <2>1. below(i) \in SUBSET below(j)
    BY <1>1, <1>5
  <2>2. i \in below(j) /\ i \notin below(i)
    BY <1>1, <1>5
  <2> HIDE DEF below
  <2> QED
    BY <1>4, <2>1, <2>2, FS_Subset
<1>6. ASSUME asking # {}
      PROVE  Cardinality(asking) <= limit
  <2> DEFINE ranks == {Cardinality(below(i)) : i \in asking}
  <2>1. ranks \in SUBSET (0..limit) /\ ranks # {}
    <3> HIDE DEF below
    <3>1. \A i \in asking : Cardinality(below(i)) \in 0..limit
      BY <1>3, <1>4
    <3> QED
      BY <1>6, <3>1
  <2>2. PICK top \in ranks : \A rank \in ranks : rank <= top
    <3> HIDE DEF ranks
    <3> QED
      BY <2>1, LastExists
  <2>3. PICK last \in asking : top = Cardinality(below(last))
    OBVIOUS
  <2>4. ASSUME NEW i \in asking
        PROVE  i \in below(last) \cup {last}
    <3>1. i \in usable /\ last \in usable
      BY <1>3
    <3>2. ~(id(last) < id(i))
      <4>1. Cardinality(below(i)) <= Cardinality(below(last))
        BY <2>2, <2>3
      <4> HIDE DEF below
      <4> QED
        BY <1>4, <1>5, <3>1, <4>1
    <3>3. id(i) < id(last) \/ id(i) = id(last)
      BY <1>1, <3>1, <3>2
    <3> QED
      BY <1>1, <3>1, <3>3
  <2>5. asking \in SUBSET (below(last) \cup {last})
    BY <2>4
  <2> HIDE DEF below
  <2>6. /\ IsFiniteSet(below(last) \cup {last})
        /\ Cardinality(below(last) \cup {last}) <= Cardinality(below(last)) + 1
    <3>1. IsFiniteSet(below(last)) /\ Cardinality(below(last)) \in Nat
      BY <1>4
    <3>2. /\ IsFiniteSet(below(last) \cup {last})
          /\ Cardinality(below(last) \cup {last})
               = IF last \in below(last) THEN Cardinality(below(last))
                 ELSE Cardinality(below(last)) + 1
      BY <3>1, FS_AddElement
    <3> QED
      BY <3>1, <3>2
  <2>7. Cardinality(asking) <= Cardinality(below(last) \cup {last}) /\ IsFiniteSet(asking)
    BY <2>5, <2>6, FS_Subset
  <2>8. /\ Cardinality(asking) \in Nat /\ Cardinality(below(last) \cup {last}) \in Nat
        /\ Cardinality(below(last)) \in Nat /\ Cardinality(below(last)) < limit
    BY <1>3, <1>4, <2>6, <2>7, FS_CardinalityType
  <2> QED
    BY <2>6, <2>7, <2>8
<1>7. asking = {} => Cardinality(asking) <= limit
  BY FS_EmptySet
<1>8. IsFiniteSet(asking)
  BY <1>2, <1>3, FS_Subset
<1> QED
  BY <1>6, <1>7, <1>8 DEF asking

LEMMA GroundedFollowUp ==
  ASSUME NEW c \in StartupCommands, c.op = "follow_up", NEW summary
  PROVE  LET sources == c.sources
             told == Compiled(summary, sources, c.limit)
             usable == {i \in DOMAIN sources : Acceptable(sources[i])}
             sole == {i \in usable : \A j \in usable : sources[j].id = sources[i].id => j = i}
         IN /\ told.questions # {} => summary.ready
            /\ Cardinality(told.questions) <= c.limit
            /\ \A question \in told.questions : question.source \in sole
            /\ \A i \in sole : \A n \in Claims(sources[i]) :
                 /\ sources[i].claims[n].open => <<i, n>> \in told.unknowns
                 /\ <<i, n>> \in told.known => ~ sources[i].claims[n].open
<1> DEFINE sources == c.sources
           told == Compiled(summary, sources, c.limit)
           usable == {i \in DOMAIN sources : Acceptable(sources[i])}
           sole == {i \in usable : \A j \in usable : sources[j].id = sources[i].id => j = i}
           open == summary.ready /\ summary.blockers = {}
           asking == IF open THEN Asking(sources, c.limit) ELSE {}
           question(i) == [source |-> i, type |-> QuestionType(sources[i], summary.optional)]
<1>1. /\ told.questions = {question(i) : i \in asking}
      /\ told.unknowns = ClaimsOfKind(sources, "unresolved")
      /\ told.known = ClaimsOfKind(sources, "explicit")
  BY DEF Compiled
<1> HIDE DEF told
<1>2. c.limit \in Nat /\ IsFiniteSet(DOMAIN sources) /\ \A i \in DOMAIN sources : sources[i].id \in Nat
  BY StartupCommandsAssumption
<1>3. sole = Accepted(sources)
  BY DEF Accepted
<1>4. told.questions # {} => summary.ready
  BY <1>1
<1>5. Cardinality(told.questions) <= c.limit
  <2>1. IsFiniteSet(asking) /\ Cardinality(asking) \in Nat /\ Cardinality(asking) <= c.limit
    <3> HIDE DEF sources
    <3>1. /\ IsFiniteSet(Asking(sources, c.limit))
          /\ Cardinality(Asking(sources, c.limit)) <= c.limit
          /\ Cardinality(Asking(sources, c.limit)) \in Nat
      BY <1>2, AskingWithin, FS_CardinalityType
    <3> QED
      BY <1>2, <3>1, FS_EmptySet
  <2> DEFINE f == [i \in asking |-> question(i)]
  <2> HIDE DEF asking, question
  <2>2. f \in Surjection(asking, told.questions)
    BY <1>1 DEF Surjection
  <2>3. /\ IsFiniteSet(told.questions)
        /\ Cardinality(told.questions) <= Cardinality(asking)
    <3> HIDE DEF f
    <3> QED
      BY <2>1, <2>2, FS_Surjection
  <2>4. Cardinality(told.questions) \in Nat
    BY <2>3, FS_CardinalityType
  <2> QED
    BY <1>2, <2>1, <2>3, <2>4
<1>6. ASSUME NEW asked \in told.questions
      PROVE  asked.source \in sole
  <2>1. PICK i \in asking : asked = question(i)
    BY <1>1
  <2>2. i \in Accepted(sources)
    BY <2>1 DEF Asking
  <2> HIDE DEF sole
  <2> QED
    BY <1>3, <2>1, <2>2
<1>7. ASSUME NEW i \in sole, NEW n \in Claims(sources[i])
      PROVE  /\ sources[i].claims[n].open => <<i, n>> \in told.unknowns
             /\ <<i, n>> \in told.known => ~ sources[i].claims[n].open
  <2>1. i \in Accepted(sources)
    BY <1>3
  <2> HIDE DEF sources
  <2>2. <<i, n>> \in UNION {{j} \X Claims(sources[j]) : j \in Accepted(sources)}
    BY <2>1
  <2>3. sources[i].claims[n].open => <<i, n>> \in told.unknowns
    BY <1>1, <2>2 DEF ClaimsOfKind, ClaimKind
  <2>4. <<i, n>> \in told.known => ~ sources[i].claims[n].open
    BY <1>1 DEF ClaimsOfKind, ClaimKind
  <2> QED
    BY <2>3, <2>4
<1> HIDE DEF sole, sources
<1> QED
  BY <1>4, <1>5, <1>6, <1>7 DEF told, sole, usable, sources

------------------------------------------------------------------------------
(* The startup profile: theorems *)

LEMMA StartupStarts == StartupInit => StartupSound
<1> SUFFICES ASSUME StartupInit
             PROVE  StartupSound
  OBVIOUS
<1>1. editing = [e \in Editors |-> NoCommand]
  BY DEF StartupInit
<1>2. CASE profile = NoProfile
  BY <1>1, <1>2 DEF StartupSound
<1>3. ASSUME NEW old \in OldProfiles, profile = old.profile, answersGiven = old.given,
             approvals = old.approved
      PROVE  StartupSound
  <2>1. PICK n \in 0..199 :
          DOMAIN profile.dims = 1..n /\ n + Cardinality(MissingQuestions(profile.dims)) < 200
    BY <1>3, OldProfilesAssumption
  <2>2. Cardinality(DOMAIN profile.dims) = n
    <3>1. 1 \in Int /\ n \in Int
      OBVIOUS
    <3>2. Cardinality(1..n) = IF 1 > n THEN 0 ELSE n - 1 + 1
      BY <3>1, FS_Interval
    <3>3. Cardinality(1..n) = n
      BY <3>2
    <3> QED
      BY <2>1, <3>3
  <2>3. /\ DOMAIN profile = DOMAIN FreshProfile /\ profile.revision \in {1, 2}
        /\ \A i \in DOMAIN profile.dims : LeftItem(profile.dims[i], answersGiven, approvals)
    BY <1>3, OldProfilesAssumption
  <2>4. Shaped(profile)
    <3>1. n \in Nat
      OBVIOUS
    <3> QED
      BY <2>1, <2>3, <3>1 DEF Shaped
  <2>5. Cardinality(DOMAIN profile.dims) + Cardinality(MissingQuestions(profile.dims)) < 200
    BY <2>1, <2>2
  <2>6. LeftProfile(profile, answersGiven, approvals)
    BY <2>3, <2>4, <2>5 DEF LeftProfile
  <2> QED
    BY <1>1, <2>6 DEF StartupSound
<1> QED
  BY <1>2, <1>3 DEF StartupInit

\* A step of a command e that changes its own copy at most.
LEMMA OthersKept ==
  ASSUME StartupSound, NEW e \in Editors, NEW entry,
         editing' = [editing EXCEPT ![e] = entry],
         answersGiven \subseteq answersGiven', approvals \subseteq approvals',
         entry # NoCommand =>
           /\ DOMAIN entry = {"command", "copy", "stage"} /\ entry.command \in StartupCommands
           /\ HonestProfile(entry.copy, answersGiven', approvals'),
         profile' \notin {NoProfile, TornProfile} =>
           LeftProfile(profile', answersGiven', approvals')
  PROVE  StartupSound'
<1>1. DOMAIN editing' = Editors
  BY DEF StartupSound
<1>2. ASSUME NEW f \in Editors, editing'[f] # NoCommand
      PROVE  /\ DOMAIN editing'[f] = {"command", "copy", "stage"}
             /\ editing'[f].command \in StartupCommands
             /\ HonestProfile(editing'[f].copy, answersGiven', approvals')
  <2>1. CASE f = e
    <3>1. editing'[f] = entry
      BY <2>1 DEF StartupSound
    <3> QED
      BY <1>2, <3>1
  <2>2. CASE f # e
    <3>1. editing'[f] = editing[f]
      BY <2>2 DEF StartupSound
    <3>2. /\ DOMAIN editing[f] = {"command", "copy", "stage"}
          /\ editing[f].command \in StartupCommands
          /\ HonestProfile(editing[f].copy, answersGiven, approvals)
      BY <1>2, <3>1 DEF StartupSound
    <3>3. HonestProfile(editing[f].copy, answersGiven', approvals')
      BY <3>2, GivenForGood
    <3> QED
      BY <3>1, <3>2, <3>3
  <2> QED
    BY <2>1, <2>2
<1> QED
  BY <1>1, <1>2 DEF StartupSound

LEMMA StartupStep ==
  ASSUME StartupSound, NEW e \in Editors,
         \/ LoadProfile(e) \/ OpenUpgrade(e) \/ OpenSave(e) \/ WriteUpgrade(e) \/ WriteProfile(e)
         \/ EndCommand(e) \/ StartupCrash(e)
  PROVE  StartupSound'
<1> DEFINE entry == editing[e]
<1>1. /\ DOMAIN editing = Editors
      /\ profile \notin {NoProfile, TornProfile} => LeftProfile(profile, answersGiven, approvals)
      /\ entry # NoCommand =>
           /\ DOMAIN entry = {"command", "copy", "stage"} /\ entry.command \in StartupCommands
           /\ HonestProfile(entry.copy, answersGiven, approvals)
           /\ LeftProfile(entry.copy, answersGiven, approvals)
  BY HonestIsLeft DEF StartupSound
<1>2. CASE LoadProfile(e)
  <2> DEFINE loaded == IF profile = NoProfile THEN FreshProfile ELSE Upgraded(profile)
             first == IF loaded # profile THEN "outdated" ELSE "ready"
  <2>1. PICK c \in StartupCommands :
          editing' = [editing EXCEPT ![e] = [command |-> c, copy |-> loaded, stage |-> first]]
    BY <1>2 DEF LoadProfile
  <2>2. profile # TornProfile /\ UNCHANGED <<profile, answersGiven, approvals>>
    BY <1>2 DEF LoadProfile
  <2>3. HonestProfile(loaded, answersGiven, approvals)
    BY <1>1, <2>2, FreshIsHonest, BroughtUp
  <2> DEFINE new == [command |-> c, copy |-> loaded, stage |-> first]
  <2> HIDE DEF loaded, first
  <2>4. /\ DOMAIN new = {"command", "copy", "stage"} /\ new.command = c
        /\ new.copy = loaded
    OBVIOUS
  <2>5. editing' = [editing EXCEPT ![e] = new]
    BY <2>1
  <2> HIDE DEF new
  <2> QED
    BY <1>1, <2>2, <2>3, <2>4, <2>5, OthersKept
<1>3. ASSUME NEW stage, entry # NoCommand, Now(e, stage, entry.copy),
             UNCHANGED <<answersGiven, approvals>>,
             profile' \notin {NoProfile, TornProfile} =>
               LeftProfile(profile', answersGiven, approvals)
      PROVE  StartupSound'
  <2> DEFINE new == [editing[e] EXCEPT !.stage = stage, !.copy = entry.copy]
  <2>1. editing' = [editing EXCEPT ![e] = new]
    BY <1>1, <1>3 DEF Now
  <2>2. /\ DOMAIN new = {"command", "copy", "stage"} /\ new.command = entry.command
        /\ new.copy = entry.copy
    BY <1>1, <1>3
  <2> HIDE DEF new, entry
  <2> QED
    BY <1>1, <1>3, <2>1, <2>2, OthersKept
<1>4. ASSUME Ended(e), UNCHANGED <<answersGiven, approvals>>,
             profile' \notin {NoProfile, TornProfile} =>
               LeftProfile(profile', answersGiven, approvals)
      PROVE  StartupSound'
  <2>1. editing' = [editing EXCEPT ![e] = NoCommand]
    BY <1>4 DEF Ended
  <2> QED
    BY <1>4, <2>1, OthersKept
<1>5. CASE OpenUpgrade(e)
  BY <1>3, <1>5 DEF OpenUpgrade
<1>6. CASE WriteUpgrade(e)
  BY <1>1, <1>3, <1>6 DEF WriteUpgrade
<1>7. CASE WriteProfile(e)
  BY <1>1, <1>4, <1>7 DEF WriteProfile
<1>8. CASE EndCommand(e) \/ StartupCrash(e)
  BY <1>1, <1>4, <1>8 DEF EndCommand, StartupCrash
<1>9. CASE OpenSave(e)
  <2> DEFINE c == entry.command
             p == entry.copy
             changed == Performed(p, c)
             touched == CASE c.op = "status" -> {c.q}
                         [] c.op \in {"answer", "batch"} -> Selected(changed, c)
                         [] OTHER -> {}
             items == {changed.dims[i] : i \in UNION {ItemsOf(changed, q) : q \in touched}}
  <2>1. /\ entry # NoCommand /\ c.op \notin Reading /\ ~Refused(p, c)
        /\ profile' = TornProfile /\ Now(e, "saving", changed)
        /\ answersGiven' =
             answersGiven \cup {Record(item, c.by) :
                                 item \in IF c.op \in {"answer", "batch"} THEN items ELSE {}}
        /\ approvals' =
             approvals \cup
               {[q |-> item.q, answer |-> item.answer] :
                  item \in IF c.op = "status" /\ c.status = "approved_by_author" THEN items ELSE {}}
    BY <1>9 DEF OpenSave, Record
  <2>2. c \in StartupCommands /\ HonestProfile(p, answersGiven, approvals)
    BY <1>1, <2>1
  <2>3. Selected(changed, c) = Selected(p, c)
    BY DEF Selected
  <2>4. ASSUME NEW i \in DOMAIN changed.dims, changed.dims[i].q \in touched
        PROVE  changed.dims[i] \in items
    <3> HIDE DEF changed, touched
    <3>1. i \in ItemsOf(changed, changed.dims[i].q)
      BY <2>4 DEF ItemsOf
    <3>2. i \in UNION {ItemsOf(changed, q) : q \in touched}
      BY <2>4, <3>1
    <3> QED
      BY <3>2
  <2>5. /\ c.op \in {"answer", "batch"} => touched = Selected(p, c)
        /\ c.op = "status" => touched = {c.q}
    BY <2>3
  <2> HIDE DEF changed, touched, items, c, p, entry
  <2>6. c.op \in {"answer", "batch"} =>
          \A i \in DOMAIN changed.dims :
            changed.dims[i].q \in Selected(p, c) => Record(changed.dims[i], c.by) \in answersGiven'
    BY <2>1, <2>4, <2>5
  <2>7. c.op = "status" /\ c.status = "approved_by_author" =>
          \A i \in DOMAIN changed.dims :
            changed.dims[i].q = c.q =>
              [q |-> changed.dims[i].q, answer |-> changed.dims[i].answer] \in approvals'
    BY <2>1, <2>4, <2>5
  <2>8. answersGiven \subseteq answersGiven' /\ approvals \subseteq approvals'
    BY <2>1
  <2>9. HonestProfile(changed, answersGiven', approvals')
    BY <2>1, <2>2, <2>6, <2>7, <2>8, PerformedIsHonest DEF changed
  <2> DEFINE new == [editing[e] EXCEPT !.stage = "saving", !.copy = changed]
  <2>10. editing' = [editing EXCEPT ![e] = new]
    BY <1>1, <2>1 DEF Now
  <2>11. /\ DOMAIN new = {"command", "copy", "stage"} /\ new.command = c
         /\ new.copy = changed
    BY <1>1, <2>1 DEF c, entry
  <2> HIDE DEF new
  <2> QED
    BY <2>1, <2>2, <2>8, <2>9, <2>10, <2>11, OthersKept
<1> QED
  BY <1>2, <1>5, <1>6, <1>7, <1>8, <1>9

\* Whoever edits the profile of a world, and whichever version left it: the summary calls
\* the author's own or approved only what the author gave or approved, calls the minimum
\* frame ready only when its questions were decided, and a follow-up question rests on
\* a source of its own (progress_summary, source_followup).
THEOREM StartupTruthful == StartupSpec => []StartupIsHonest
<1>1. ASSUME StartupSound, [StartupNext]_startupVars
      PROVE  StartupSound'
  <2>1. CASE UNCHANGED startupVars
    BY <1>1, <2>1 DEF startupVars, StartupSound
  <2>2. CASE StartupNext
    BY <1>1, <2>2, StartupStep DEF StartupNext
  <2> QED
    BY <1>1, <2>1, <2>2
<1>2. StartupSpec => []StartupSound
  BY <1>1, StartupStarts, PTL DEF StartupSpec
<1>3. ASSUME StartupSound
      PROVE  StartupIsHonest
  <2>1. ASSUME NEW p \in StartupTold
        PROVE  HonestProfile(p, answersGiven, approvals)
    <3>1. CASE profile \notin {NoProfile, TornProfile} /\ p = Upgraded(profile)
      BY <1>3, <3>1, BroughtUp DEF StartupSound
    <3>2. CASE \E e \in Prepared : p = editing[e].copy
      BY <1>3, <3>2 DEF StartupSound, Prepared
    <3> QED
      BY <3>1, <3>2 DEF StartupTold
  <2>2. SummaryIsTrue
    BY <2>1, TrueSummary DEF SummaryIsTrue
  <2>3. FollowUpsAreGrounded
    <3>1. \A e \in Prepared : editing[e].command \in StartupCommands
      BY <1>3 DEF StartupSound, Prepared
    <3> QED
      BY <3>1, GroundedFollowUp DEF FollowUpsAreGrounded
  <2> QED
    BY <2>2, <2>3 DEF StartupIsHonest
<1> QED
  BY <1>2, <1>3, PTL
================================================================================
