------------------------------ MODULE Provision ------------------------------
(***************************************************************************)
(* scripts/provision-tenants.sh: for every active tenant of the platform   *)
(* registry, in slug order, create its database and run flyway.sh on it.   *)
(* Several provisioners may overlap, and tenants come and go meanwhile.    *)
(*                                                                         *)
(* A run of flyway.sh appears here as its effect on the versioned scripts  *)
(* (MigrationLog) and on the rows of failure; of the seeds it only shows   *)
(* whether they went through, what they leave behind is in module Flyway.  *)
(* The run with --dry-run writes nothing and is left out.                  *)
(***************************************************************************)
EXTENDS Integers, FiniteSets

CONSTANTS
    Provisioners,  \* executions of the script
    NumTenants,    \* tenants, numbered in slug order
    NumVersioned,  \* versioned scripts of the tenant track
    Faults,        \* what may go wrong, see FaultKinds
    MaxStarts,     \* bound: executions started
    MaxChanges     \* bound: changes of the registry

Tenants == 1..NumTenants
Versioned == 1..NumVersioned

(***************************************************************************)
(* "create"  CREATE DATABASE fails                                         *)
(* "script"  a versioned script fails and leaves its row                   *)
(* "seed"    a repeatable script fails                                     *)
(* "lost"    flyway.sh loses the database and leaves no row                *)
(* "edited"  a versioned script is modified after its deployment           *)
(* "query"   a query whose errors are swallowed fails                      *)
(* "none"    the registry may hold no active tenant                        *)
(***************************************************************************)
FaultKinds == {"create", "script", "seed", "lost", "edited", "query", "none"}

ASSUME ProvisionAssumption ==
    /\ NumTenants \in Nat \ {0}
    /\ NumVersioned \in Nat \ {0}
    /\ Faults \subseteq FaultKinds
    /\ MaxStarts \in Nat
    /\ MaxChanges \in Nat

VARIABLES
    active,    \* tenants with status 'active' in the registry
    exists,    \* tenants whose database exists
    history,   \* tenants whose flyway_schema_history exists
    applied,   \* applied[t]: versioned scripts applied in t's database
    recorded,  \* recorded[t]: those with a row of success
    failed,    \* failed[t]: versioned scripts with a row of failure
    edited,    \* versioned scripts modified since their deployment
    pc,        \* pc[p]: where provisioner p is
    listed,    \* listed[p]: the tenants read before the loop
    todo,      \* todo[p]: those not finished yet
    version,   \* version[p]: where its flyway.sh is
    log,       \* log[p]: MIG_LOG, what its last flyway.sh that failed stopped at
    fresh,     \* fresh[p]: CREATED, as a set of tenants
    migrated,  \* migrated[p]: MIGRATED, as a set of tenants
    claimed,   \* claimed[p]: those of them whose log shows a version left behind
    failures,  \* failures[p]: FAILED, as a set of tenants
    exit,      \* exit[p]: status of the last execution
    starts, changes

registryVars == <<active, changes>>
dbVars == <<exists, history, applied, recorded, failed, edited>>
countVars == <<fresh, migrated, claimed, failures>>
vars == <<registryVars, dbVars, pc, listed, todo, version, log, countVars, exit, starts>>

Phases == {"idle", "check", "create", "ensure", "lookup", "apply", "record",
           "judge"}

(***************************************************************************)
(* What the log shows, if anything: a version that failed and has its row  *)
(* of failure, a version that was left behind without one (lost, refused,  *)
(* modified), or a seed, with all versions passed.                         *)
(***************************************************************************)
Logs == {"empty", "failed", "left", "seed"}

Init ==
    /\ active \in (IF "none" \in Faults THEN {{}} ELSE (SUBSET Tenants) \ {{}})
    /\ exists = {}
    /\ history = {}
    /\ applied = [t \in Tenants |-> {}]
    /\ recorded = [t \in Tenants |-> {}]
    /\ failed = [t \in Tenants |-> {}]
    /\ edited = {}
    /\ pc = [p \in Provisioners |-> "idle"]
    /\ listed = [p \in Provisioners |-> {}]
    /\ todo = [p \in Provisioners |-> {}]
    /\ version = [p \in Provisioners |-> 1]
    /\ log = [p \in Provisioners |-> "empty"]
    /\ fresh = [p \in Provisioners |-> {}]
    /\ migrated = [p \in Provisioners |-> {}]
    /\ claimed = [p \in Provisioners |-> {}]
    /\ failures = [p \in Provisioners |-> {}]
    /\ exit = [p \in Provisioners |-> "none"]
    /\ starts = 0
    /\ changes = 0

\* The tenant at hand: the lowest slug that is left.
First(S) == CHOOSE t \in S : \A u \in S : t <= u
Tenant(p) == First(todo[p])

Goto(p, phase) == pc' = [pc EXCEPT ![p] = phase]

\* The log is removed, `done < "$TENANTS_TMP"`: on to the next line, or to the
\* summary.
NextTenant(p) ==
    /\ todo' = [todo EXCEPT ![p] = @ \ {Tenant(p)}]
    /\ log' = [log EXCEPT ![p] = "empty"]
    /\ Goto(p, "check")

-----------------------------------------------------------------------------
(* The registry and the scripts change beside the provisioners. *)

ChangeStatus(t) ==
    /\ changes < MaxChanges
    /\ "none" \notin Faults
    /\ active' = IF t \in active THEN active \ {t} ELSE active \cup {t}
    /\ changes' = changes + 1
    /\ UNCHANGED <<dbVars, pc, listed, todo, version, log, countVars, exit, starts>>

EditScript(v) ==
    /\ "edited" \in Faults
    /\ changes < MaxChanges
    /\ v \notin edited
    /\ edited' = edited \cup {v}
    /\ changes' = changes + 1
    /\ UNCHANGED <<active, exists, history, applied, recorded, failed,
                   pc, listed, todo, version, log, countVars, exit, starts>>

-----------------------------------------------------------------------------
(* The script. *)

\* The list of tenants is read once, before the loop.  When it is empty,
\* `grep -c ... || echo 0` yields two lines, the test of line 68 is an error
\* and not true, and the script goes on to an empty loop.
Start(p) ==
    /\ pc[p] = "idle"
    /\ starts < MaxStarts
    /\ listed' = [listed EXCEPT ![p] = active]
    /\ todo' = [todo EXCEPT ![p] = active]
    /\ fresh' = [fresh EXCEPT ![p] = {}]
    /\ migrated' = [migrated EXCEPT ![p] = {}]
    /\ claimed' = [claimed EXCEPT ![p] = {}]
    /\ failures' = [failures EXCEPT ![p] = {}]
    /\ exit' = [exit EXCEPT ![p] = "none"]
    /\ Goto(p, "check")
    /\ starts' = starts + 1
    /\ UNCHANGED <<registryVars, dbVars, version, log>>

\* Mutant of CheckDatabase: a query that failed is taken for a database.
CheckDatabaseOptimistic(p) ==
    /\ pc[p] = "check"
    /\ todo[p] # {}
    /\ \/ /\ Tenant(p) \in exists \/ "query" \in Faults
          /\ Goto(p, "ensure")
       \/ Tenant(p) \notin exists /\ Goto(p, "create")
    /\ UNCHANGED <<registryVars, dbVars, listed, todo, version, log, countVars, exit,
                   starts>>

\* SELECT 1 FROM pg_database, its errors swallowed.
CheckDatabase(p) ==
    /\ pc[p] = "check"
    /\ todo[p] # {}
    /\ \/ Tenant(p) \in exists /\ Goto(p, "ensure")
       \/ /\ Tenant(p) \notin exists \/ "query" \in Faults
          /\ Goto(p, "create")
    /\ UNCHANGED <<registryVars, dbVars, listed, todo, version, log, countVars, exit,
                   starts>>

CreateDatabase(p) ==
    /\ pc[p] = "create"
    /\ Tenant(p) \notin exists
    /\ exists' = exists \cup {Tenant(p)}
    /\ fresh' = [fresh EXCEPT ![p] = @ \cup {Tenant(p)}]
    /\ Goto(p, "ensure")
    /\ UNCHANGED <<registryVars, history, applied, recorded, failed,
                   edited, listed, todo, version, log, migrated, claimed, failures,
                   exit, starts>>

\* Mutant of CreateRefused: the loop goes on with the next tenant.
CreateRefusedGoesOn(p) ==
    /\ pc[p] = "create"
    /\ Tenant(p) \in exists
    /\ NextTenant(p)
    /\ UNCHANGED <<registryVars, dbVars, listed, version, countVars, exit, starts>>

\* The database has appeared since the check, or cannot be created: set -e
\* ends the script, the tenants that are left are not looked at.
CreateRefused(p) ==
    /\ pc[p] = "create"
    /\ Tenant(p) \in exists \/ "create" \in Faults
    /\ Goto(p, "idle")
    /\ exit' = [exit EXCEPT ![p] = "1"]
    /\ UNCHANGED <<registryVars, dbVars, listed, todo, version, log, countVars, starts>>

-----------------------------------------------------------------------------
(* flyway.sh migrate tenant, on the tenant's database. *)

EnsureHistory(p) ==
    /\ pc[p] = "ensure"
    /\ history' = history \cup {Tenant(p)}
    /\ version' = [version EXCEPT ![p] = 1]
    /\ Goto(p, "lookup")
    /\ UNCHANGED <<registryVars, exists, applied, recorded, failed,
                   edited, listed, todo, log, countVars, exit, starts>>

\* flyway.sh ends with status 1, and its log shows where.
FlywayEnds(p, where) ==
    /\ log' = [log EXCEPT ![p] = where]
    /\ Goto(p, "judge")
    /\ UNCHANGED <<registryVars, dbVars, listed, todo, version, countVars, exit,
                   starts>>

\* The runner cannot reach the database any more, before it comes to the seeds.
FlywayLost(p) ==
    /\ "lost" \in Faults
    /\ pc[p] \in {"ensure", "lookup", "apply", "record"}
    /\ pc[p] = "lookup" => version[p] \in Versioned
    /\ FlywayEnds(p, "left")

SkipVersion(p) ==
    /\ pc[p] = "lookup"
    /\ version[p] \in recorded[Tenant(p)] \ edited
    /\ version' = [version EXCEPT ![p] = @ + 1]
    /\ UNCHANGED <<registryVars, dbVars, pc, listed, todo, log, countVars, exit, starts>>

RefuseEdited(p) ==
    /\ pc[p] = "lookup"
    /\ version[p] \in recorded[Tenant(p)] \cap edited
    /\ FlywayEnds(p, "left")

FindPending(p) ==
    /\ pc[p] = "lookup"
    /\ version[p] \in Versioned \ recorded[Tenant(p)]
    /\ Goto(p, "apply")
    /\ UNCHANGED <<registryVars, dbVars, listed, todo, version, log, countVars, exit,
                   starts>>

ApplyVersion(p) ==
    /\ pc[p] = "apply"
    /\ applied' = [applied EXCEPT ![Tenant(p)] = @ \cup {version[p]}]
    /\ Goto(p, "record")
    /\ UNCHANGED <<registryVars, exists, history, recorded, failed,
                   edited, listed, todo, version, log, countVars, exit, starts>>

\* The unique index on script lets the row of success in.
RecordVersion(p) ==
    LET t == Tenant(p)
    IN  /\ pc[p] = "record"
        /\ version[p] \notin recorded[t] \cup failed[t]
        /\ recorded' = [recorded EXCEPT ![t] = @ \cup {version[p]}]
        /\ version' = [version EXCEPT ![p] = @ + 1]
        /\ Goto(p, "lookup")
        /\ UNCHANGED <<registryVars, exists, history, applied, failed,
                       edited, listed, todo, log, countVars, exit, starts>>

RecordRefused(p) ==
    /\ pc[p] = "record"
    /\ version[p] \in recorded[Tenant(p)] \cup failed[Tenant(p)]
    /\ FlywayEnds(p, "left")

\* Mutant of VersionFails: flyway.sh goes on after a failed script.
VersionFailsGoesOn(p) ==
    /\ "script" \in Faults
    /\ pc[p] = "apply"
    /\ version' = [version EXCEPT ![p] = @ + 1]
    /\ Goto(p, "lookup")
    /\ UNCHANGED <<registryVars, dbVars, listed, todo, log, countVars, exit, starts>>

\* Mutant of VersionFails: the script leaves no row, so that a later run may
\* record it.
VersionFailsNoRow(p) ==
    /\ "script" \in Faults
    /\ pc[p] = "apply"
    /\ FlywayEnds(p, "failed")

\* The script fails: a row of failure, unless it has had a row of success since
\* the lookup, which the unique index keeps.
VersionFails(p) ==
    LET t == Tenant(p)
        first == version[p] \notin recorded[t]
    IN  /\ "script" \in Faults
        /\ pc[p] = "apply"
        /\ failed' = [failed EXCEPT ![t] = IF first THEN @ \cup {version[p]} ELSE @]
        /\ log' = [log EXCEPT ![p] = IF first THEN "failed" ELSE "left"]
        /\ Goto(p, "judge")
        /\ UNCHANGED <<registryVars, exists, history, applied, recorded, edited,
                       listed, todo, version, countVars, exit, starts>>

\* All versions are passed; a repeatable script fails, or its psql does.
SeedsFail(p) ==
    /\ {"seed", "lost"} \cap Faults # {}
    /\ pc[p] = "lookup"
    /\ version[p] \notin Versioned
    /\ FlywayEnds(p, "seed")

\* Line 113: flyway.sh ends with status 0, "migrations applied", having passed
\* the seeds as well.
FlywaySucceeds(p) ==
    /\ pc[p] = "lookup"
    /\ version[p] \notin Versioned
    /\ migrated' = [migrated EXCEPT ![p] = @ \cup {Tenant(p)}]
    /\ NextTenant(p)
    /\ UNCHANGED <<registryVars, exists, history, applied, recorded, failed,
                   edited, listed, version, fresh, claimed, failures, exit,
                   starts>>

-----------------------------------------------------------------------------
(* The verdict on a flyway.sh that failed, and the summary. *)

\* count(*) WHERE success=false AND type='SQL' answers 0.  The verdict rests on
\* that count, and the log is only shown.
CountIsZero(t) == t \in history /\ failed[t] = {}

JudgeSeedsOnly(p) ==
    /\ pc[p] = "judge"
    /\ CountIsZero(Tenant(p))
    /\ migrated' = [migrated EXCEPT ![p] = @ \cup {Tenant(p)}]
    /\ claimed' = [claimed EXCEPT ![p] =
                      IF log[p] = "left" THEN @ \cup {Tenant(p)} ELSE @]
    /\ NextTenant(p)
    /\ UNCHANGED <<registryVars, dbVars, listed, version, fresh, failures, exit,
                   starts>>

\* The count is not 0, or the query fails and reads "?".
JudgeFailed(p) ==
    /\ pc[p] = "judge"
    /\ ~CountIsZero(Tenant(p)) \/ "query" \in Faults
    /\ failures' = [failures EXCEPT ![p] = @ \cup {Tenant(p)}]
    /\ NextTenant(p)
    /\ UNCHANGED <<registryVars, dbVars, listed, version, fresh, migrated,
                   claimed, exit, starts>>

Summary(p) ==
    /\ pc[p] = "check"
    /\ todo[p] = {}
    /\ exit' = [exit EXCEPT ![p] = IF failures[p] = {} THEN "0" ELSE "1"]
    /\ Goto(p, "idle")
    /\ UNCHANGED <<registryVars, dbVars, listed, todo, version, log, countVars, starts>>

-----------------------------------------------------------------------------
Step(p) ==
    \/ CheckDatabase(p) \/ CreateDatabase(p) \/ CreateRefused(p)
    \/ EnsureHistory(p) \/ FlywayLost(p)
    \/ SkipVersion(p) \/ RefuseEdited(p) \/ FindPending(p)
    \/ ApplyVersion(p) \/ RecordVersion(p) \/ RecordRefused(p)
    \/ VersionFails(p) \/ SeedsFail(p) \/ FlywaySucceeds(p)
    \/ JudgeSeedsOnly(p) \/ JudgeFailed(p) \/ Summary(p)

Next ==
    \/ \E t \in Tenants : ChangeStatus(t)
    \/ \E v \in Versioned : EditScript(v)
    \/ \E p \in Provisioners : Start(p)
    \/ \E p \in Provisioners : Step(p)

Spec == Init /\ [][Next]_vars

-----------------------------------------------------------------------------
(* Properties. *)

\* Every variable has its type: a history only in a database that exists, no
\* tenant to do that was not listed, and claimed tenants among those counted as
\* migrated.
TypeOK ==
    /\ active \subseteq Tenants
    /\ exists \subseteq Tenants
    /\ history \subseteq exists
    /\ {applied, recorded, failed} \subseteq [Tenants -> SUBSET Versioned]
    /\ edited \subseteq Versioned
    /\ pc \in [Provisioners -> Phases]
    /\ {listed, todo, fresh, migrated, claimed, failures}
          \subseteq [Provisioners -> SUBSET Tenants]
    /\ version \in [Provisioners -> 1..(NumVersioned + 1)]
    /\ log \in [Provisioners -> Logs]
    /\ exit \in [Provisioners -> {"none", "0", "1"}]
    /\ \A p \in Provisioners :
          /\ todo[p] \subseteq listed[p]
          /\ claimed[p] \subseteq migrated[p]

Log == INSTANCE MigrationLog WITH
    applied <- applied[1], recorded <- recorded[1]

\* The database of a tenant (the first: the others are treated alike) keeps
\* MigrationLog while provisioners overlap on it, fail and start again.
TenantKeepsLog == Log!Spec

\* "A repeatable-only failure leaves all versioned migrations applied.  Verify
\* that situation before flagging as fatal" (provision-tenants.sh:117): a tenant
\* is counted as migrated with every version recorded, whether flyway.sh
\* succeeded or the count of rows of failure took it for one whose seeds failed.
\* The count sees a version that failed, in this run or in an earlier one, of
\* any provisioner; it is blind to one that was left without a row (claimed).
MigratedHasVersions ==
    \A p \in Provisioners : \A t \in migrated[p] \ claimed[p] :
        recorded[t] = Versioned

\* A provisioner that ends with status 0 has brought every tenant it read to a
\* database that exists and has a history, and has counted each as migrated.
CleanExitCoversAll ==
    \A p \in Provisioners : pc[p] = "idle" /\ exit[p] = "0" =>
        /\ listed[p] \subseteq history
        /\ migrated[p] = listed[p]

=============================================================================
