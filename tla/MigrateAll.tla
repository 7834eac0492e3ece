------------------------------ MODULE MigrateAll ------------------------------
(***************************************************************************)
(* migrate/main.go: migrations of the platform database, of one tenant or  *)
(* of every active tenant.  The flags can be combined; they are served in  *)
(* that order, and the first that fails ends the command with status 1.    *)
(* Only the loop over the tenants goes on after a failure and counts it.   *)
(*                                                                         *)
(* platform.RunMigrationsOnDB and the repository of the registry are not   *)
(* in this repository: a database is the number of versions it has, which  *)
(* the library raises by one or fails.                                     *)
(***************************************************************************)
EXTENDS Integers, FiniteSets

CONSTANTS
    Procs,         \* executions of the command
    NumTenants,    \* tenants that have ever been in the registry
    NumVersions,   \* migrations in a directory
    Shaky,         \* executions whose calls may fail for want of a database
    Stoppable,     \* executions that may be stopped
    MaxStarts,     \* bound: executions started
    MaxChanges     \* bound: changes of the registry and repairs

Platform == 0
Tenants == 1..NumTenants
Databases == Tenants \cup {Platform}

\* An id of no tenant, or no --tenant-id.
NoTenant == NumTenants + 1

ASSUME MigrateAssumption ==
    /\ NumTenants \in Nat
    /\ NumVersions \in Nat \ {0}
    /\ Shaky \subseteq Procs
    /\ Stoppable \subseteq Procs
    /\ MaxStarts \in Nat
    /\ MaxChanges \in Nat

VARIABLES
    version,   \* version[d]: migrations that database d has
    broken,    \* databases whose rows make the last migration fail
    active,    \* tenants with status 'active' in the registry
    changes,
    pc,        \* pc[p]: "idle", "platform", "tenant", "all" or "loop"
    flags,     \* flags[p]: the pcs that p has been asked for
    one,       \* one[p]: the value of --tenant-id, or NoTenant
    listed,    \* listed[p]: the tenants read before the loop
    todo,      \* todo[p]: those not finished yet
    failures,  \* failures[p]: those whose migration failed
    exit,      \* exit[p]: status of the last execution
    starts

dbVars == <<version, broken, active, changes>>
vars == <<dbVars, pc, flags, one, listed, todo, failures, exit, starts>>

Jobs == {"platform", "tenant", "all"}

\* The registry is a table of the platform database.
HasRegistry == version[Platform] > 0

Init ==
    /\ broken \in SUBSET Databases
    /\ \E v \in 0..NumVersions : version = [d \in Databases |-> IF d = Platform THEN v ELSE 0]
    /\ active \in SUBSET Tenants
    /\ ~HasRegistry => active = {}
    /\ changes = 0
    /\ pc = [p \in Procs |-> "idle"]
    /\ flags = [p \in Procs |-> {}]
    /\ one = [p \in Procs |-> NoTenant]
    /\ listed = [p \in Procs |-> {}]
    /\ todo = [p \in Procs |-> {}]
    /\ failures = [p \in Procs |-> {}]
    /\ exit = [p \in Procs |-> "none"]
    /\ starts = 0

-----------------------------------------------------------------------------
(* The environment. *)

ChangeStatus(t) ==
    /\ changes < MaxChanges
    /\ HasRegistry
    /\ active' = IF t \in active THEN active \ {t} ELSE active \cup {t}
    /\ changes' = changes + 1
    /\ UNCHANGED <<version, broken, pc, flags, one, listed, todo, failures, exit, starts>>

\* Somebody corrects the rows that the migration trips over.
Repair(d) ==
    /\ changes < MaxChanges
    /\ d \in broken
    /\ broken' = broken \ {d}
    /\ changes' = changes + 1
    /\ UNCHANGED <<version, active, pc, flags, one, listed, todo, failures, exit, starts>>

-----------------------------------------------------------------------------
(* main. *)

\* The first job of a set, in the order of the code.
FirstJob(jobs) ==
    IF "platform" \in jobs THEN "platform"
    ELSE IF "tenant" \in jobs THEN "tenant" ELSE "all"

\* Without a flag the command prints its usage and ends with status 1.
Start(p, jobs, t) ==
    /\ pc[p] = "idle"
    /\ starts < MaxStarts
    /\ "tenant" \notin jobs => t = NoTenant
    /\ starts' = starts + 1
    /\ flags' = [flags EXCEPT ![p] = jobs]
    /\ one' = [one EXCEPT ![p] = t]
    /\ listed' = [listed EXCEPT ![p] = {}]
    /\ todo' = [todo EXCEPT ![p] = {}]
    /\ failures' = [failures EXCEPT ![p] = {}]
    /\ pc' = [pc EXCEPT ![p] = IF jobs = {} THEN "idle" ELSE FirstJob(jobs)]
    /\ exit' = [exit EXCEPT ![p] = IF jobs = {} THEN "1" ELSE "none"]
    /\ UNCHANGED dbVars

Quit(p, status) ==
    /\ pc' = [pc EXCEPT ![p] = "idle"]
    /\ exit' = [exit EXCEPT ![p] = status]
    /\ UNCHANGED <<dbVars, flags, one, listed, todo, failures, starts>>

\* The jobs that come after the one at hand.
Rest(p) ==
    flags[p] \ (IF pc[p] = "platform" THEN {"platform"} ELSE {"platform", "tenant"})

\* Mutant of NextJob: the tenants are migrated without the flag.
NextJobUnasked(p) ==
    /\ pc' = [pc EXCEPT ![p] = IF Rest(p) = {} THEN "all" ELSE FirstJob(Rest(p))]
    /\ UNCHANGED <<dbVars, flags, one, listed, todo, failures, exit, starts>>

\* A job other than the loop has succeeded.
NextJob(p) ==
    IF Rest(p) = {} THEN Quit(p, "0")
    ELSE /\ pc' = [pc EXCEPT ![p] = FirstJob(Rest(p))]
         /\ UNCHANGED <<dbVars, flags, one, listed, todo, failures, exit, starts>>

-----------------------------------------------------------------------------
(* migrateTenantDB and RunMigrationsOnDB. *)

\* The database that p is at work on: the tenant of the flag, or the next of
\* the list, whose order is the registry's.
Target(p) ==
    IF pc[p] = "platform" THEN Platform
    ELSE IF pc[p] = "tenant" THEN one[p]
    ELSE CHOOSE t \in todo[p] : TRUE

AtWork(p) ==
    \/ pc[p] = "platform"
    \/ pc[p] = "tenant" /\ one[p] # NoTenant /\ HasRegistry
    \/ pc[p] = "loop" /\ todo[p] # {}

Complete(d) == version[d] = NumVersions

\* The last version meets the rows that break it.
Stuck(d) == version[d] = NumVersions - 1 /\ d \in broken

ApplyVersion(p) ==
    /\ AtWork(p)
    /\ ~Complete(Target(p)) /\ ~Stuck(Target(p))
    /\ version' = [version EXCEPT ![Target(p)] = @ + 1]
    /\ UNCHANGED <<broken, active, changes, pc, flags, one, listed, todo, failures, exit,
                   starts>>

\* A migration fails, or a call of p does.
MigrationFails(p) == AtWork(p) /\ (p \in Shaky \/ Stuck(Target(p)))

JobDone(p) ==
    /\ pc[p] \in {"platform", "tenant"}
    /\ AtWork(p)
    /\ Complete(Target(p))
    /\ NextJob(p)

JobFails(p) ==
    /\ pc[p] \in {"platform", "tenant"}
    /\ MigrationFails(p)
    /\ Quit(p, "1")

\* GetTenantByID finds no tenant, or no table, and the command ends.
TenantUnknown(p) ==
    /\ pc[p] = "tenant"
    /\ one[p] = NoTenant \/ ~HasRegistry
    /\ Quit(p, "1")

-----------------------------------------------------------------------------
(* migrateAllTenants. *)

List(p) ==
    /\ pc[p] = "all"
    /\ HasRegistry
    /\ listed' = [listed EXCEPT ![p] = active]
    /\ todo' = [todo EXCEPT ![p] = active]
    /\ pc' = [pc EXCEPT ![p] = "loop"]
    /\ UNCHANGED <<dbVars, flags, one, failures, exit, starts>>

ListFails(p) ==
    /\ pc[p] = "all"
    /\ ~HasRegistry \/ p \in Shaky
    /\ Quit(p, "1")

TenantDone(p) ==
    /\ pc[p] = "loop"
    /\ todo[p] # {}
    /\ Complete(Target(p))
    /\ todo' = [todo EXCEPT ![p] = @ \ {Target(p)}]
    /\ UNCHANGED <<dbVars, pc, flags, one, listed, failures, exit, starts>>

\* Mutant of TenantFails: the failure is logged and not counted.
TenantFailsUncounted(p) ==
    /\ pc[p] = "loop"
    /\ MigrationFails(p)
    /\ todo' = [todo EXCEPT ![p] = @ \ {Target(p)}]
    /\ UNCHANGED <<dbVars, pc, flags, one, listed, failures, exit, starts>>

\* Mutant of TenantFails: the loop ends, as the jobs before it do.
TenantFailsReturns(p) ==
    /\ pc[p] = "loop"
    /\ MigrationFails(p)
    /\ Quit(p, "1")

\* The failure is counted and the loop goes on.
TenantFails(p) ==
    /\ pc[p] = "loop"
    /\ MigrationFails(p)
    /\ failures' = [failures EXCEPT ![p] = @ \cup {Target(p)}]
    /\ todo' = [todo EXCEPT ![p] = @ \ {Target(p)}]
    /\ UNCHANGED <<dbVars, pc, flags, one, listed, exit, starts>>

LoopEnds(p) ==
    /\ pc[p] = "loop"
    /\ todo[p] = {}
    /\ Quit(p, IF failures[p] = {} THEN "0" ELSE "1")

Crash(p) ==
    /\ p \in Stoppable
    /\ pc[p] # "idle"
    /\ Quit(p, "killed")

Step(p) ==
    \/ ApplyVersion(p) \/ JobDone(p) \/ JobFails(p) \/ TenantUnknown(p)
    \/ List(p) \/ ListFails(p) \/ TenantDone(p) \/ TenantFails(p) \/ LoopEnds(p)

Next ==
    \/ \E t \in Tenants : ChangeStatus(t)
    \/ \E d \in Databases : Repair(d)
    \/ \E p \in Procs, jobs \in SUBSET Jobs, t \in Tenants \cup {NoTenant} : Start(p, jobs, t)
    \/ \E p \in Procs : Step(p) \/ Crash(p)

Spec == Init /\ [][Next]_vars

\* The databases answer, and the command goes on.
FairSpec == Spec /\ \A p \in Procs : WF_vars(Step(p))

-----------------------------------------------------------------------------
(* Properties. *)

\* Every variable has its type: tenants are active in a registry that exists,
\* an execution has left or counted only what it listed, and is in the loop only
\* if it was asked for all tenants.
TypeOK ==
    /\ version \in [Databases -> 0..NumVersions]
    /\ broken \subseteq Databases
    /\ active \subseteq Tenants
    /\ active # {} => HasRegistry
    /\ pc \in [Procs -> Jobs \cup {"idle", "loop"}]
    /\ flags \in [Procs -> SUBSET Jobs]
    /\ one \in [Procs -> Tenants \cup {NoTenant}]
    /\ {listed, todo, failures} \subseteq [Procs -> SUBSET Tenants]
    /\ exit \in [Procs -> {"none", "0", "1", "killed"}]
    /\ \A p \in Procs :
          /\ todo[p] \subseteq listed[p]
          /\ failures[p] \subseteq listed[p] \ todo[p]
          /\ pc[p] = "loop" => "all" \in flags[p]

\* What the command was asked to migrate: with the list as it was read.
Asked(p) ==
    (IF "platform" \in flags[p] THEN {Platform} ELSE {})
        \cup (IF "tenant" \in flags[p] THEN {one[p]} ELSE {}) \cup listed[p]

\* Status 0 means that every database the command was asked for is complete,
\* whatever failed on the way and whoever else was at work, and that a list it
\* had to read was read from a registry that exists.
CleanExitMeansMigrated ==
    \A p \in Procs : exit[p] = "0" =>
        /\ \A d \in Asked(p) : d \in Databases /\ Complete(d)
        /\ flags[p] # {} /\ HasRegistry

\* One tenant's failure is not the others': an execution that lost no call and
\* was not stopped brings each tenant it has listed to the last version, but
\* for those whose own rows stop it.
HealthyTenantsGetMigrated ==
    \A p \in Procs \ (Shaky \cup Stoppable) : \A t \in Tenants :
        (t \in todo[p] /\ pc[p] = "loop") ~> (Complete(t) \/ t \in broken)

=============================================================================
