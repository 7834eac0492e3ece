--------------------------- MODULE ProvisionProofs ---------------------------
(***************************************************************************)
(* For any number of provisioners, tenants, versions and faults: a tenant  *)
(* counted as migrated has every version, unless one was left without a    *)
(* row of failure, and the database of every tenant keeps MigrationLog.    *)
(*                                                                         *)
(* No row of the history and no effect of a version is ever taken away     *)
(* (Grows), so that what one provisioner relies on survives the steps of   *)
(* the others.  A provisioner in the middle of flyway.sh has every lower   *)
(* version recorded in the database of the tenant at hand, and one that    *)
(* judges a failure finds there what its log says (Grounded); each tenant  *)
(* it listed is still to do, counted as migrated, or counted as a failure  *)
(* (Counted).                                                              *)
(***************************************************************************)
EXTENDS Provision, WellFoundedInduction, TLAPS

\* Where p is in the loop says what its tenant's database holds.
Grounded(p) ==
    /\ pc[p] \notin {"idle", "check"} => todo[p] # {}
    /\ pc[p] \in {"ensure", "lookup", "apply", "record", "judge"} =>
          Tenant(p) \in exists
    /\ pc[p] \in {"lookup", "apply", "record"} =>
          /\ Tenant(p) \in history
          /\ \A v \in Versioned : v < version[p] => v \in recorded[Tenant(p)]
    /\ pc[p] \in {"apply", "record"} => version[p] \in Versioned
    /\ pc[p] = "record" => version[p] \in applied[Tenant(p)]
    /\ pc[p] = "judge" =>
          /\ log[p] # "empty"
          /\ log[p] = "seed" => recorded[Tenant(p)] = Versioned
          /\ log[p] = "failed" => failed[Tenant(p)] # {}

\* Every tenant that was listed is accounted for.
Counted(p) ==
    /\ listed[p] = todo[p] \cup migrated[p] \cup failures[p]
    /\ migrated[p] \subseteq history
    /\ \A t \in migrated[p] \ claimed[p] : recorded[t] = Versioned
    /\ pc[p] # "idle" => exit[p] = "none"
    /\ exit[p] = "0" => todo[p] = {} /\ failures[p] = {}

Local(p) == Grounded(p) /\ Counted(p)

RecordedAreApplied == \A t \in Tenants : recorded[t] \subseteq applied[t]

IInv == TypeOK /\ RecordedAreApplied /\ \A p \in Provisioners : Local(p)

-----------------------------------------------------------------------------
\* A set of tenants has a first one.
LEMMA FirstIsMember ==
  ASSUME NEW S, S \subseteq Tenants, S # {}
  PROVE  First(S) \in S
<1>1. S \subseteq Nat
  BY ProvisionAssumption DEF Tenants
<1>2. PICK x \in S : \A y \in S : <<y, x>> \notin OpToRel(<, Nat)
  BY <1>1, NatLessThanWellFounded, WFMin, Zenon
<1>3. ASSUME NEW y \in S PROVE x <= y
  <2>1. <<y, x>> \notin {ss \in Nat \X Nat : ss[1] < ss[2]}
    BY <1>2 DEF OpToRel
  <2>2. x \in Nat /\ y \in Nat
    BY <1>1
  <2> QED BY <2>1, <2>2
<1> QED BY <1>3 DEF First

\* The tenant at hand is one of those to do.
LEMMA TenantAtHand ==
  ASSUME TypeOK, NEW p \in Provisioners, todo[p] # {}
  PROVE  Tenant(p) \in todo[p] /\ Tenant(p) \in Tenants
<1>1. todo[p] \subseteq Tenants
  BY DEF TypeOK
<1> QED BY <1>1, FirstIsMember DEF Tenant

\* The tenant at hand stays the same as long as the list does.
LEMMA SameTenant ==
  ASSUME NEW p \in Provisioners, todo'[p] = todo[p]
  PROVE  Tenant(p)' = Tenant(p)
BY DEF Tenant, First

\* A database is never dropped, and nothing in it is undone.
Grows ==
    /\ exists \subseteq exists'
    /\ history \subseteq history'
    /\ \A t \in Tenants : /\ applied[t] \subseteq applied'[t]
                           /\ recorded[t] \subseteq recorded'[t]
                           /\ failed[t] \subseteq failed'[t]

\* The variables of one provisioner.
Of(p) == <<pc[p], listed[p], todo[p], version[p], log[p], migrated[p], claimed[p],
           failures[p], exit[p]>>

\* What holds of a provisioner is not disturbed by the others.
LEMMA OthersKept ==
  ASSUME TypeOK, TypeOK', Grows, NEW q \in Provisioners, Local(q), Of(q)' = Of(q)
  PROVE  Local(q)'
<1>1. /\ pc'[q] = pc[q] /\ listed'[q] = listed[q] /\ todo'[q] = todo[q]
      /\ version'[q] = version[q] /\ log'[q] = log[q] /\ migrated'[q] = migrated[q]
      /\ claimed'[q] = claimed[q] /\ failures'[q] = failures[q]
      /\ exit'[q] = exit[q]
  BY DEF Of
<1>2. Grounded(q)'
  <2>1. Tenant(q)' = Tenant(q)
    BY <1>1, SameTenant
  <2>2. todo[q] # {} => Tenant(q) \in Tenants
    BY TenantAtHand
  <2>3. \A t \in Tenants : recorded[t] = Versioned => recorded'[t] = Versioned
    BY DEF Grows, TypeOK
  <2>4. \A t \in Tenants : failed[t] # {} => failed'[t] # {}
    BY DEF Grows
  <2> QED BY <1>1, <2>1, <2>2, <2>3, <2>4 DEF Local, Grounded, Grows
<1>3. Counted(q)'
  <2>1. /\ listed'[q] = todo'[q] \cup migrated'[q] \cup failures'[q]
        /\ migrated'[q] \subseteq history'
        /\ pc'[q] # "idle" => exit'[q] = "none"
        /\ exit'[q] = "0" => todo'[q] = {} /\ failures'[q] = {}
    BY <1>1 DEF Local, Counted, Grows
  <2>2. ASSUME NEW t \in migrated'[q] \ claimed'[q]
        PROVE  recorded'[t] = Versioned
    <3>1. t \in Tenants /\ recorded'[t] \subseteq Versioned
      BY DEF TypeOK
    <3>2. recorded[t] = Versioned
      BY <1>1, <2>2 DEF Local, Counted
    <3> QED BY <3>1, <3>2 DEF Grows
  <2> QED BY <2>1, <2>2 DEF Counted
<1> QED BY <1>2, <1>3 DEF Local

-----------------------------------------------------------------------------
(* The steps of one provisioner. *)

\* What every step of p is shown to do.
Kept(p) ==
    /\ TypeOK' /\ RecordedAreApplied' /\ Grows /\ Local(p)'
    /\ \A q \in Provisioners \ {p} : Of(q)' = Of(q)

\* A step that leaves the databases alone.
LEMMA DataKept ==
  ASSUME IInv, UNCHANGED <<exists, history, applied, recorded, failed>>
  PROVE  RecordedAreApplied' /\ Grows
BY DEF IInv, RecordedAreApplied, Grows

\* A step that goes elsewhere with the same tenants and counts.
LEMMA CountsKept ==
  ASSUME IInv, TypeOK', Grows, NEW p \in Provisioners, pc[p] # "idle",
         UNCHANGED <<listed, todo, migrated, claimed, failures, exit>>
  PROVE  Counted(p)'
<1>1. \A t \in migrated[p] \ claimed[p] : recorded'[t] = Versioned
  <2> SUFFICES ASSUME NEW t \in migrated[p] \ claimed[p]
               PROVE  recorded'[t] = Versioned
    OBVIOUS
  <2>1. t \in Tenants /\ recorded'[t] \subseteq Versioned
    BY DEF IInv, TypeOK
  <2>2. recorded[t] = Versioned
    BY DEF IInv, Local, Counted
  <2> QED BY <2>1, <2>2 DEF Grows
<1> QED BY <1>1 DEF IInv, Local, Counted, Grows

\* The check for the database leaves everything alone but where p is.
LEMMA CheckDatabaseKeeps ==
  ASSUME IInv, NEW p \in Provisioners, CheckDatabase(p)
  PROVE  Kept(p)
<1>1. TypeOK'
  BY DEF IInv, TypeOK, CheckDatabase, Goto, Phases, registryVars, dbVars, countVars
<1>2. RecordedAreApplied' /\ Grows
  BY DataKept DEF CheckDatabase, dbVars
<1>3. Grounded(p)'
  <2>1. Tenant(p)' = Tenant(p)
    BY SameTenant DEF CheckDatabase
  <2>2. \/ pc' = [pc EXCEPT ![p] = "ensure"] /\ Tenant(p) \in exists
        \/ pc' = [pc EXCEPT ![p] = "create"]
    BY DEF CheckDatabase, Goto
  <2> QED BY <2>1, <2>2 DEF CheckDatabase, Grounded, IInv, TypeOK, dbVars
<1>4. Counted(p)'
  BY <1>1, <1>2, CountsKept DEF CheckDatabase, countVars
<1>5. \A q \in Provisioners \ {p} : Of(q)' = Of(q)
  BY DEF CheckDatabase, Goto, Of, IInv, TypeOK, countVars
<1> QED BY <1>1, <1>2, <1>3, <1>4, <1>5 DEF Kept, Local

\* A flyway.sh that has passed the last version has found them all recorded.
LEMMA AllPassed ==
  ASSUME IInv, NEW p \in Provisioners, pc[p] = "lookup", version[p] \notin Versioned
  PROVE  recorded[Tenant(p)] = Versioned
<1>1. Tenant(p) \in Tenants
  BY TenantAtHand DEF IInv, Local, Grounded
<1>2. \A v \in Versioned : v < version[p]
  BY ProvisionAssumption DEF Versioned, IInv, TypeOK
<1>3. recorded[Tenant(p)] \subseteq Versioned
  BY <1>1 DEF IInv, TypeOK
<1> QED BY <1>2, <1>3 DEF IInv, Local, Grounded

\* flyway.sh ends with status 1 on a database that exists: its log speaks of a
\* seed only when all versions are recorded.
LEMMA FlywayEndsKeeps ==
  ASSUME IInv, NEW p \in Provisioners, NEW where \in {"left", "seed"},
         FlywayEnds(p, where), where = "seed" => recorded[Tenant(p)] = Versioned,
         pc[p] \in {"ensure", "lookup", "apply", "record"}
  PROVE  Kept(p)
<1>1. TypeOK'
  BY DEF IInv, TypeOK, FlywayEnds, Goto, Phases, Logs, registryVars, dbVars, countVars
<1>2. RecordedAreApplied' /\ Grows
  BY DataKept DEF FlywayEnds, dbVars
<1>3. Grounded(p)'
  <2>1. Tenant(p)' = Tenant(p)
    BY SameTenant DEF FlywayEnds
  <2>2. pc'[p] = "judge" /\ log'[p] = where /\ todo' = todo /\ recorded' = recorded
    BY DEF FlywayEnds, Goto, IInv, TypeOK, dbVars
  <2>3. Tenant(p) \in exists' /\ todo'[p] # {}
    BY DEF FlywayEnds, Grounded, IInv, Local, dbVars
  <2> QED BY <2>1, <2>2, <2>3 DEF Grounded
<1>4. Counted(p)'
  BY <1>1, <1>2, CountsKept DEF FlywayEnds, countVars
<1>5. \A q \in Provisioners \ {p} : Of(q)' = Of(q)
  BY DEF FlywayEnds, Goto, Of, IInv, TypeOK, countVars
<1> QED BY <1>1, <1>2, <1>3, <1>4, <1>5 DEF Kept, Local

\* A database is created empty.
LEMMA CreateDatabaseKeeps ==
  ASSUME IInv, NEW p \in Provisioners, CreateDatabase(p)
  PROVE  Kept(p)
<1>1. TypeOK'
  <2>1. Tenant(p) \in Tenants
    BY TenantAtHand DEF CreateDatabase, IInv, Local, Grounded
  <2> QED BY <2>1 DEF IInv, TypeOK, CreateDatabase, Goto, Phases, registryVars
<1>2. RecordedAreApplied' /\ Grows
  BY DEF CreateDatabase, IInv, RecordedAreApplied, Grows
<1>3. Grounded(p)'
  <2>1. Tenant(p)' = Tenant(p)
    BY SameTenant DEF CreateDatabase
  <2> QED BY <2>1 DEF CreateDatabase, Goto, Grounded, IInv, Local, TypeOK
<1>4. Counted(p)'
  <2>1. UNCHANGED <<listed, todo, migrated, claimed, failures, exit>> /\ pc[p] # "idle"
    BY DEF CreateDatabase
  <2> QED BY <1>1, <1>2, <2>1, CountsKept
<1>5. \A q \in Provisioners \ {p} : Of(q)' = Of(q)
  BY DEF CreateDatabase, Goto, Of, IInv, TypeOK, countVars
<1> QED BY <1>1, <1>2, <1>3, <1>4, <1>5 DEF Kept, Local

\* CREATE DATABASE is refused and the script ends.
LEMMA CreateRefusedKeeps ==
  ASSUME IInv, NEW p \in Provisioners, CreateRefused(p)
  PROVE  Kept(p)
<1>1. TypeOK'
  BY DEF IInv, TypeOK, CreateRefused, Goto, Phases, registryVars, dbVars, countVars
<1>2. RecordedAreApplied' /\ Grows
  BY DataKept DEF CreateRefused, dbVars
<1>3. Grounded(p)'
  BY DEF CreateRefused, Goto, Grounded, IInv, TypeOK
<1>4. Counted(p)'
  BY DEF CreateRefused, Goto, Counted, IInv, Local, TypeOK, dbVars, countVars
<1>5. \A q \in Provisioners \ {p} : Of(q)' = Of(q)
  BY DEF CreateRefused, Goto, Of, IInv, TypeOK, countVars
<1> QED BY <1>1, <1>2, <1>3, <1>4, <1>5 DEF Kept, Local

\* flyway.sh starts at the first version.
LEMMA EnsureHistoryKeeps ==
  ASSUME IInv, NEW p \in Provisioners, EnsureHistory(p)
  PROVE  Kept(p)
<1>1. TypeOK'
  <2>1. Tenant(p) \in exists /\ 1 \in 1..(NumVersioned + 1)
    BY ProvisionAssumption DEF EnsureHistory, IInv, Local, Grounded
  <2> QED BY <2>1 DEF IInv, TypeOK, EnsureHistory, Goto, Phases, registryVars, countVars
<1>2. RecordedAreApplied' /\ Grows
  BY DEF EnsureHistory, IInv, RecordedAreApplied, Grows
<1>3. Grounded(p)'
  <2>1. Tenant(p)' = Tenant(p)
    BY SameTenant DEF EnsureHistory
  <2>2. \A v \in Versioned : ~(v < 1)
    BY ProvisionAssumption DEF Versioned
  <2> QED BY <2>1, <2>2 DEF EnsureHistory, Goto, Grounded, IInv, Local, TypeOK
<1>4. Counted(p)'
  BY <1>1, <1>2, CountsKept DEF EnsureHistory, countVars
<1>5. \A q \in Provisioners \ {p} : Of(q)' = Of(q)
  BY DEF EnsureHistory, Goto, Of, IInv, TypeOK, countVars
<1> QED BY <1>1, <1>2, <1>3, <1>4, <1>5 DEF Kept, Local

\* A version with a row of success is skipped.
LEMMA SkipVersionKeeps ==
  ASSUME IInv, NEW p \in Provisioners, SkipVersion(p)
  PROVE  Kept(p)
<1>1. TypeOK'
  <2>1. version[p] \in Versioned
    <3>1. Tenant(p) \in Tenants
      BY TenantAtHand DEF SkipVersion, IInv, Local, Grounded
    <3> QED BY <3>1 DEF SkipVersion, IInv, TypeOK
  <2>2. version[p] + 1 \in 1..(NumVersioned + 1)
    BY <2>1, ProvisionAssumption DEF Versioned
  <2> QED BY <2>2 DEF IInv, TypeOK, SkipVersion, registryVars, dbVars, countVars
<1>2. RecordedAreApplied' /\ Grows
  BY DataKept DEF SkipVersion, dbVars
<1>3. Grounded(p)'
  <2>1. Tenant(p)' = Tenant(p)
    BY SameTenant DEF SkipVersion
  <2>2. \A v \in Versioned : v < version[p] + 1 => v < version[p] \/ v = version[p]
    BY ProvisionAssumption DEF Versioned, IInv, TypeOK
  <2>3. version'[p] = version[p] + 1 /\ pc'[p] = "lookup"
    BY DEF SkipVersion, IInv, TypeOK
  <2> QED BY <2>1, <2>2, <2>3 DEF SkipVersion, Grounded, IInv, Local, dbVars
<1>4. Counted(p)'
  BY <1>1, <1>2, CountsKept DEF SkipVersion, countVars
<1>5. \A q \in Provisioners \ {p} : Of(q)' = Of(q)
  BY DEF SkipVersion, Goto, Of, IInv, TypeOK, countVars
<1> QED BY <1>1, <1>2, <1>3, <1>4, <1>5 DEF Kept, Local

\* A version without a row of success is to be applied.
LEMMA FindPendingKeeps ==
  ASSUME IInv, NEW p \in Provisioners, FindPending(p)
  PROVE  Kept(p)
<1>1. TypeOK'
  BY DEF IInv, TypeOK, FindPending, Goto, Phases, registryVars, dbVars, countVars
<1>2. RecordedAreApplied' /\ Grows
  BY DataKept DEF FindPending, dbVars
<1>3. Grounded(p)'
  <2>1. Tenant(p)' = Tenant(p)
    BY SameTenant DEF FindPending
  <2> QED BY <2>1 DEF FindPending, Goto, Grounded, IInv, Local, TypeOK, dbVars
<1>4. Counted(p)'
  BY <1>1, <1>2, CountsKept DEF FindPending, countVars
<1>5. \A q \in Provisioners \ {p} : Of(q)' = Of(q)
  BY DEF FindPending, Goto, Of, IInv, TypeOK, countVars
<1> QED BY <1>1, <1>2, <1>3, <1>4, <1>5 DEF Kept, Local

\* The statements of a script commit.
LEMMA ApplyVersionKeeps ==
  ASSUME IInv, NEW p \in Provisioners, ApplyVersion(p)
  PROVE  Kept(p)
<1>1. TypeOK'
  <2>1. Tenant(p) \in Tenants /\ version[p] \in Versioned
    BY TenantAtHand DEF ApplyVersion, IInv, Local, Grounded
  <2> QED BY <2>1 DEF IInv, TypeOK, ApplyVersion, Goto, Phases, registryVars, countVars
<1>2. RecordedAreApplied' /\ Grows
  <2>1. \A t \in Tenants : applied[t] \subseteq applied'[t]
    BY DEF ApplyVersion, IInv, TypeOK
  <2> QED BY <2>1 DEF ApplyVersion, IInv, RecordedAreApplied, Grows
<1>3. Grounded(p)'
  <2>1. Tenant(p)' = Tenant(p)
    BY SameTenant DEF ApplyVersion
  <2>2. Tenant(p) \in Tenants
    BY TenantAtHand DEF ApplyVersion, IInv, Local, Grounded
  <2>3. version[p] \in applied'[Tenant(p)]
    BY <2>2 DEF ApplyVersion, IInv, TypeOK
  <2> QED BY <2>1, <2>2, <2>3 DEF ApplyVersion, Goto, Grounded, IInv, Local, TypeOK
<1>4. Counted(p)'
  BY <1>1, <1>2, CountsKept DEF ApplyVersion, countVars
<1>5. \A q \in Provisioners \ {p} : Of(q)' = Of(q)
  BY DEF ApplyVersion, Goto, Of, IInv, TypeOK, countVars
<1> QED BY <1>1, <1>2, <1>3, <1>4, <1>5 DEF Kept, Local

\* The row of success is written, and the next version is looked up.
LEMMA RecordVersionKeeps ==
  ASSUME IInv, NEW p \in Provisioners, RecordVersion(p)
  PROVE  Kept(p)
<1>1. TypeOK'
  <2>1. Tenant(p) \in Tenants /\ version[p] \in Versioned
    BY TenantAtHand DEF RecordVersion, IInv, Local, Grounded
  <2>2. version[p] + 1 \in 1..(NumVersioned + 1)
    BY <2>1, ProvisionAssumption DEF Versioned
  <2> QED BY <2>1, <2>2 DEF IInv, TypeOK, RecordVersion, Goto, Phases, registryVars, countVars
<1>2. RecordedAreApplied' /\ Grows
  <2>1. version[p] \in applied[Tenant(p)]
    BY DEF RecordVersion, IInv, Local, Grounded
  <2>2. \A t \in Tenants : recorded[t] \subseteq recorded'[t] /\ recorded'[t] \subseteq applied[t]
    BY <2>1 DEF RecordVersion, IInv, TypeOK, RecordedAreApplied
  <2> QED BY <2>2 DEF RecordVersion, RecordedAreApplied, Grows
<1>3. Grounded(p)'
  <2>1. Tenant(p)' = Tenant(p)
    BY SameTenant DEF RecordVersion
  <2>2. Tenant(p) \in Tenants
    BY TenantAtHand DEF RecordVersion, IInv, Local, Grounded
  <2>3. recorded'[Tenant(p)] = recorded[Tenant(p)] \cup {version[p]}
    BY <2>2 DEF RecordVersion, IInv, TypeOK
  <2>4. \A v \in Versioned : v < version[p] + 1 => v < version[p] \/ v = version[p]
    BY ProvisionAssumption DEF Versioned, IInv, TypeOK
  <2>5. version'[p] = version[p] + 1 /\ pc'[p] = "lookup"
    BY DEF RecordVersion, Goto, IInv, TypeOK
  <2> QED BY <2>1, <2>3, <2>4, <2>5 DEF RecordVersion, Grounded, IInv, Local
<1>4. Counted(p)'
  BY <1>1, <1>2, CountsKept DEF RecordVersion, countVars
<1>5. \A q \in Provisioners \ {p} : Of(q)' = Of(q)
  BY DEF RecordVersion, Goto, Of, IInv, TypeOK, countVars
<1> QED BY <1>1, <1>2, <1>3, <1>4, <1>5 DEF Kept, Local

\* A script fails and may leave its row.
LEMMA VersionFailsKeeps ==
  ASSUME IInv, NEW p \in Provisioners, VersionFails(p)
  PROVE  Kept(p)
<1>0. Tenant(p) \in Tenants /\ version[p] \in Versioned
  BY TenantAtHand DEF VersionFails, IInv, Local, Grounded
<1>1. TypeOK'
  BY <1>0 DEF IInv, TypeOK, VersionFails, Goto, Phases, Logs, registryVars, countVars
<1>2. RecordedAreApplied' /\ Grows
  <2>1. \A t \in Tenants : failed[t] \subseteq failed'[t]
    BY <1>0 DEF VersionFails, IInv, TypeOK
  <2> QED BY <2>1 DEF VersionFails, IInv, RecordedAreApplied, Grows
<1>3. Grounded(p)'
  <2>1. Tenant(p)' = Tenant(p)
    BY SameTenant DEF VersionFails
  <2>2. /\ pc'[p] = "judge" /\ log'[p] \in {"failed", "left"}
        /\ log'[p] = "failed" => failed'[Tenant(p)] # {}
    BY <1>0 DEF VersionFails, Goto, IInv, TypeOK
  <2>3. Tenant(p) \in exists' /\ todo'[p] # {}
    BY DEF VersionFails, Grounded, IInv, Local
  <2> QED BY <2>1, <2>2, <2>3 DEF Grounded
<1>4. Counted(p)'
  BY <1>1, <1>2, CountsKept DEF VersionFails, countVars
<1>5. \A q \in Provisioners \ {p} : Of(q)' = Of(q)
  BY DEF VersionFails, Goto, Of, IInv, TypeOK, countVars
<1> QED BY <1>1, <1>2, <1>3, <1>4, <1>5 DEF Kept, Local

\* flyway.sh ends with status 0: it has passed every version, so that the
\* tenant it counts as migrated has them all.
LEMMA FlywaySucceedsKeeps ==
  ASSUME IInv, NEW p \in Provisioners, FlywaySucceeds(p)
  PROVE  Kept(p)
<1>1. TypeOK'
  <2>1. Tenant(p) \in todo[p] /\ Tenant(p) \in Tenants
    BY TenantAtHand DEF FlywaySucceeds, IInv, Local, Grounded
  <2> QED BY <2>1 DEF IInv, TypeOK, FlywaySucceeds, NextTenant, Goto, Phases, Logs, registryVars
<1>2. RecordedAreApplied' /\ Grows
  BY DEF FlywaySucceeds, IInv, RecordedAreApplied, Grows
<1>3. Grounded(p)'
  BY DEF FlywaySucceeds, NextTenant, Goto, Grounded, IInv, TypeOK
<1>4. Counted(p)'
  <2> DEFINE t == Tenant(p)
  <2>1. t \in todo[p] /\ t \in Tenants /\ t \in history
    BY TenantAtHand DEF FlywaySucceeds, IInv, Local, Grounded
  <2>2. recorded[t] = Versioned
    BY AllPassed DEF FlywaySucceeds
  <2>3. /\ todo'[p] = todo[p] \ {t} /\ migrated'[p] = migrated[p] \cup {t}
        /\ listed'[p] = listed[p] /\ failures'[p] = failures[p]
        /\ claimed'[p] = claimed[p] /\ exit'[p] = exit[p] /\ recorded' = recorded
        /\ history' = history /\ pc[p] = "lookup"
    BY DEF FlywaySucceeds, NextTenant, IInv, TypeOK
  <2> HIDE DEF t
  <2> QED BY <2>1, <2>2, <2>3 DEF Counted, IInv, Local
<1>5. \A q \in Provisioners \ {p} : Of(q)' = Of(q)
  BY DEF FlywaySucceeds, NextTenant, Goto, Of, IInv, TypeOK, countVars
<1> QED BY <1>1, <1>2, <1>3, <1>4, <1>5 DEF Kept, Local

\* No row of failure was found: either a version was left without one, or the
\* log speaks of a seed and all versions are there.
LEMMA JudgeSeedsOnlyKeeps ==
  ASSUME IInv, NEW p \in Provisioners, JudgeSeedsOnly(p)
  PROVE  Kept(p)
<1>1. TypeOK'
  <2>1. Tenant(p) \in todo[p] /\ Tenant(p) \in Tenants
    BY TenantAtHand DEF JudgeSeedsOnly, IInv, Local, Grounded
  <2> QED BY <2>1 DEF IInv, TypeOK, JudgeSeedsOnly, NextTenant, Goto, Phases, Logs, registryVars, dbVars
<1>2. RecordedAreApplied' /\ Grows
  BY DataKept DEF JudgeSeedsOnly, dbVars
<1>3. Grounded(p)'
  BY DEF JudgeSeedsOnly, NextTenant, Goto, Grounded, IInv, TypeOK
<1>4. Counted(p)'
  <2> DEFINE t == Tenant(p)
  <2>1. t \in todo[p] /\ t \in history
    BY TenantAtHand DEF JudgeSeedsOnly, CountIsZero, IInv, Local, Grounded
  <2>2. /\ todo'[p] = todo[p] \ {t} /\ migrated'[p] = migrated[p] \cup {t}
        /\ listed'[p] = listed[p] /\ failures'[p] = failures[p]
        /\ claimed'[p] = (IF log[p] = "left" THEN claimed[p] \cup {t} ELSE claimed[p])
        /\ exit'[p] = exit[p] /\ recorded' = recorded
        /\ history' = history /\ pc[p] = "judge"
    BY DEF JudgeSeedsOnly, NextTenant, IInv, TypeOK, dbVars
  <2>3. log[p] # "left" => recorded[t] = Versioned
    BY DEF JudgeSeedsOnly, CountIsZero, IInv, Local, Grounded, TypeOK, Logs
  <2> HIDE DEF t
  <2> QED BY <2>1, <2>2, <2>3 DEF Counted, IInv, Local
<1>5. \A q \in Provisioners \ {p} : Of(q)' = Of(q)
  BY DEF JudgeSeedsOnly, NextTenant, Goto, Of, IInv, TypeOK, countVars
<1> QED BY <1>1, <1>2, <1>3, <1>4, <1>5 DEF Kept, Local

\* The tenant is counted as a failure.
LEMMA JudgeFailedKeeps ==
  ASSUME IInv, NEW p \in Provisioners, JudgeFailed(p)
  PROVE  Kept(p)
<1>1. TypeOK'
  <2>1. Tenant(p) \in todo[p] /\ Tenant(p) \in Tenants
    BY TenantAtHand DEF JudgeFailed, IInv, Local, Grounded
  <2> QED BY <2>1 DEF IInv, TypeOK, JudgeFailed, NextTenant, Goto, Phases, Logs, registryVars, dbVars
<1>2. RecordedAreApplied' /\ Grows
  BY DataKept DEF JudgeFailed, dbVars
<1>3. Grounded(p)'
  BY DEF JudgeFailed, NextTenant, Goto, Grounded, IInv, TypeOK
<1>4. Counted(p)'
  <2> DEFINE t == Tenant(p)
  <2>1. t \in todo[p]
    BY TenantAtHand DEF JudgeFailed, IInv, Local, Grounded
  <2>2. /\ todo'[p] = todo[p] \ {t} /\ migrated'[p] = migrated[p]
        /\ listed'[p] = listed[p] /\ failures'[p] = failures[p] \cup {t}
        /\ claimed'[p] = claimed[p] /\ exit'[p] = exit[p] /\ recorded' = recorded
        /\ history' = history /\ pc[p] = "judge"
    BY DEF JudgeFailed, NextTenant, IInv, TypeOK, dbVars
  <2> HIDE DEF t
  <2> QED BY <2>1, <2>2 DEF Counted, IInv, Local
<1>5. \A q \in Provisioners \ {p} : Of(q)' = Of(q)
  BY DEF JudgeFailed, NextTenant, Goto, Of, IInv, TypeOK, countVars
<1> QED BY <1>1, <1>2, <1>3, <1>4, <1>5 DEF Kept, Local

\* The loop is over, and status 0 says that nothing failed.
LEMMA SummaryKeeps ==
  ASSUME IInv, NEW p \in Provisioners, Summary(p)
  PROVE  Kept(p)
<1>1. TypeOK'
  BY DEF IInv, TypeOK, Summary, Goto, Phases, registryVars, dbVars, countVars
<1>2. RecordedAreApplied' /\ Grows
  BY DataKept DEF Summary, dbVars
<1>3. Grounded(p)'
  BY DEF Summary, Goto, Grounded, IInv, TypeOK
<1>4. Counted(p)'
  BY DEF Summary, Goto, Counted, IInv, Local, TypeOK, dbVars, countVars
<1>5. \A q \in Provisioners \ {p} : Of(q)' = Of(q)
  BY DEF Summary, Goto, Of, IInv, TypeOK, countVars
<1> QED BY <1>1, <1>2, <1>3, <1>4, <1>5 DEF Kept, Local

\* An execution starts with the tenants that are active now.
LEMMA StartKeeps ==
  ASSUME IInv, NEW p \in Provisioners, Start(p)
  PROVE  Kept(p)
<1>1. TypeOK'
  BY DEF IInv, TypeOK, Start, Goto, Phases, registryVars, dbVars
<1>2. RecordedAreApplied' /\ Grows
  BY DataKept DEF Start, dbVars
<1>3. Grounded(p)'
  BY DEF Start, Goto, Grounded, IInv, TypeOK
<1>4. Counted(p)'
  BY DEF Start, Goto, Counted, IInv, TypeOK, dbVars
<1>5. \A q \in Provisioners \ {p} : Of(q)' = Of(q)
  BY DEF Start, Goto, Of, IInv, TypeOK, countVars
<1> QED BY <1>1, <1>2, <1>3, <1>4, <1>5 DEF Kept, Local

-----------------------------------------------------------------------------
(* The invariant. *)

\* It holds at the start.
LEMMA InitHolds == Init => IInv
<1> SUFFICES ASSUME Init PROVE IInv
  OBVIOUS
<1>1. TypeOK
  <2>1. active \subseteq Tenants
    BY DEF Init
  <2>2. 1 \in 1..(NumVersioned + 1)
    BY ProvisionAssumption
  <2> QED BY <2>1, <2>2 DEF Init, TypeOK, Phases, Logs
<1>2. RecordedAreApplied
  BY DEF Init, RecordedAreApplied
<1>3. ASSUME NEW p \in Provisioners PROVE Local(p)
  BY DEF Init, Local, Grounded, Counted
<1> QED BY <1>1, <1>2, <1>3 DEF IInv

\* Every step of a provisioner keeps it.
LEMMA ProvisionerKeeps ==
  ASSUME IInv, NEW p \in Provisioners, Start(p) \/ Step(p)
  PROVE  Kept(p)
<1>1. CASE Start(p)
  BY <1>1, StartKeeps
<1>2. CASE CheckDatabase(p)
  BY <1>2, CheckDatabaseKeeps
<1>3. CASE CreateDatabase(p)
  BY <1>3, CreateDatabaseKeeps
<1>4. CASE CreateRefused(p)
  BY <1>4, CreateRefusedKeeps
<1>5. CASE EnsureHistory(p)
  BY <1>5, EnsureHistoryKeeps
<1>6. CASE FlywayLost(p) \/ RefuseEdited(p) \/ RecordRefused(p)
  BY <1>6, FlywayEndsKeeps DEF FlywayLost, RefuseEdited, RecordRefused
<1>16. CASE SeedsFail(p)
  <2>1. recorded[Tenant(p)] = Versioned
    BY <1>16, AllPassed DEF SeedsFail
  <2> QED BY <1>16, <2>1, FlywayEndsKeeps DEF SeedsFail
<1>7. CASE SkipVersion(p)
  BY <1>7, SkipVersionKeeps
<1>8. CASE FindPending(p)
  BY <1>8, FindPendingKeeps
<1>9. CASE ApplyVersion(p)
  BY <1>9, ApplyVersionKeeps
<1>10. CASE RecordVersion(p)
  BY <1>10, RecordVersionKeeps
<1>11. CASE VersionFails(p)
  BY <1>11, VersionFailsKeeps
<1>12. CASE FlywaySucceeds(p)
  BY <1>12, FlywaySucceedsKeeps
<1>13. CASE JudgeSeedsOnly(p)
  BY <1>13, JudgeSeedsOnlyKeeps
<1>14. CASE JudgeFailed(p)
  BY <1>14, JudgeFailedKeeps
<1>15. CASE Summary(p)
  BY <1>15, SummaryKeeps
<1> QED BY <1>1, <1>2, <1>3, <1>4, <1>5, <1>6, <1>7, <1>8, <1>9, <1>10, <1>11,
           <1>12, <1>13, <1>14, <1>15, <1>16 DEF Step

\* The registry, the scripts, and steps that change nothing.
LEMMA BesideKeeps ==
  ASSUME IInv,
         \/ \E t \in Tenants : ChangeStatus(t)
         \/ \E v \in Versioned : EditScript(v)
         \/ UNCHANGED vars
  PROVE  TypeOK' /\ RecordedAreApplied' /\ Grows /\ \A p \in Provisioners : Of(p)' = Of(p)
<1>1. CASE \E t \in Tenants : ChangeStatus(t)
  BY <1>1 DEF ChangeStatus, IInv, TypeOK, RecordedAreApplied, Grows, Of, dbVars, countVars
<1>2. CASE \E v \in Versioned : EditScript(v)
  BY <1>2 DEF EditScript, IInv, TypeOK, RecordedAreApplied, Grows, Of, countVars
<1>3. CASE UNCHANGED vars
  BY <1>3 DEF vars, IInv, TypeOK, RecordedAreApplied, Grows, Of, registryVars, dbVars, countVars
<1> QED BY <1>1, <1>2, <1>3

\* It is inductive: the others rely on what only grows.
LEMMA StepHolds == IInv /\ [Next]_vars => IInv'
<1> SUFFICES ASSUME IInv, [Next]_vars PROVE IInv'
  OBVIOUS
<1>1. ASSUME NEW p \in Provisioners, Start(p) \/ Step(p) PROVE IInv'
  <2>1. Kept(p)
    BY <1>1, ProvisionerKeeps
  <2>2. ASSUME NEW q \in Provisioners \ {p} PROVE Local(q)'
    BY <2>1, OthersKept DEF Kept, IInv
  <2> QED BY <2>1, <2>2 DEF Kept, IInv
<1>2. CASE \/ \E t \in Tenants : ChangeStatus(t)
           \/ \E v \in Versioned : EditScript(v)
           \/ UNCHANGED vars
  <2>1. TypeOK' /\ RecordedAreApplied' /\ Grows /\ \A p \in Provisioners : Of(p)' = Of(p)
    BY <1>2, BesideKeeps
  <2>2. ASSUME NEW q \in Provisioners PROVE Local(q)'
    BY <2>1, OthersKept DEF IInv
  <2> QED BY <2>1, <2>2 DEF IInv
<1> QED BY <1>1, <1>2 DEF Next

\* It holds in every state the program reaches.
THEOREM Invariance == Spec => []IInv
BY InitHolds, StepHolds, PTL DEF Spec

\* The variables keep their types.
THEOREM TypeCorrect == Spec => []TypeOK
<1>1. IInv => TypeOK
  BY DEF IInv
<1> QED BY <1>1, Invariance, PTL

\* A tenant counted as migrated has every version recorded, be it that flyway.sh
\* succeeded or that the count of rows of failure took it for one whose seeds
\* failed, unless flyway.sh left a version behind without a row of failure.
THEOREM Migrated == Spec => []MigratedHasVersions
<1>1. IInv => MigratedHasVersions
  BY DEF IInv, Local, Counted, MigratedHasVersions
<1> QED BY <1>1, Invariance, PTL

\* A status of 0 covers every tenant that was listed.
THEOREM CleanExit == Spec => []CleanExitCoversAll
<1>1. IInv => CleanExitCoversAll
  BY DEF IInv, Local, Counted, CleanExitCoversAll
<1> QED BY <1>1, Invariance, PTL

-----------------------------------------------------------------------------
(* The refinement, for the database of any tenant. *)

\* What the database of t shows of its versions.
LogOf(t) == INSTANCE MigrationLog WITH
    applied <- applied[t], recorded <- recorded[t]

\* A new database has applied nothing.
LEMMA LogInit == ASSUME NEW t \in Tenants, Init PROVE LogOf(t)!Init
BY DEF Init, LogOf!Init

\* A step of a provisioner applies the next version of t, records it, or
\* does neither.
LEMMA LogStep ==
  ASSUME NEW t \in Tenants, IInv, [Next]_vars
  PROVE  [LogOf(t)!Next]_(LogOf(t)!logVars)
<1>1. ASSUME NEW p \in Provisioners, ApplyVersion(p)
      PROVE  [LogOf(t)!Next]_(LogOf(t)!logVars)
  <2>1. Tenant(p) \in Tenants /\ version[p] \in Versioned
    BY <1>1, TenantAtHand DEF ApplyVersion, IInv, Local, Grounded
  <2>2. recorded' = recorded /\ applied' = [applied EXCEPT ![Tenant(p)] = @ \cup {version[p]}]
    BY <1>1 DEF ApplyVersion
  <2>3. CASE t # Tenant(p) \/ version[p] \in applied[t]
    BY <2>1, <2>2, <2>3 DEF LogOf!logVars, IInv, TypeOK
  <2>4. CASE t = Tenant(p) /\ version[p] \notin applied[t]
    <3>1. applied'[t] = applied[t] \cup {version[p]}
      BY <2>1, <2>2, <2>4 DEF IInv, TypeOK
    <3>2. \A v \in Versioned : v < version[p] => v \in recorded[t]
      BY <1>1, <2>4 DEF ApplyVersion, IInv, Local, Grounded
    <3>3. LogOf(t)!Apply(version[p])
      BY <2>2, <2>4, <3>1, <3>2 DEF LogOf!Apply, LogOf!Versioned, Versioned
    <3> QED BY <2>1, <3>3 DEF LogOf!Next, LogOf!Versioned, Versioned
  <2> QED BY <2>3, <2>4
<1>2. ASSUME NEW p \in Provisioners, RecordVersion(p)
      PROVE  [LogOf(t)!Next]_(LogOf(t)!logVars)
  <2>1. /\ Tenant(p) \in Tenants /\ version[p] \in Versioned
        /\ version[p] \in applied[Tenant(p)]
    BY <1>2, TenantAtHand DEF RecordVersion, IInv, Local, Grounded
  <2>2. /\ applied' = applied
        /\ recorded' = [recorded EXCEPT ![Tenant(p)] = @ \cup {version[p]}]
        /\ version[p] \notin recorded[Tenant(p)]
    BY <1>2 DEF RecordVersion
  <2>3. CASE t # Tenant(p)
    BY <2>1, <2>2, <2>3 DEF LogOf!logVars, IInv, TypeOK
  <2>4. CASE t = Tenant(p)
    <3>1. recorded'[t] = recorded[t] \cup {version[p]}
      BY <2>1, <2>2, <2>4 DEF IInv, TypeOK
    <3>2. LogOf(t)!Record(version[p])
      BY <2>1, <2>2, <2>4, <3>1 DEF LogOf!Record
    <3> QED BY <2>1, <3>2 DEF LogOf!Next, LogOf!Versioned, Versioned
  <2> QED BY <2>3, <2>4
<1>3. CASE UNCHANGED <<applied, recorded>>
  BY <1>3 DEF LogOf!logVars
<1>4. ASSUME NEW p \in Provisioners, Start(p) \/ (Step(p) /\ ~ApplyVersion(p) /\ ~RecordVersion(p))
      PROVE  UNCHANGED <<applied, recorded>>
  BY <1>4 DEF Start, Step, CheckDatabase, CreateDatabase, CreateRefused, EnsureHistory,
     FlywayLost, SkipVersion, RefuseEdited, FindPending, RecordRefused, VersionFails,
     SeedsFail, FlywaySucceeds, JudgeSeedsOnly, JudgeFailed, Summary, FlywayEnds, dbVars
<1>5. ASSUME \/ \E u \in Tenants : ChangeStatus(u)
             \/ \E v \in Versioned : EditScript(v)
             \/ UNCHANGED vars
      PROVE  UNCHANGED <<applied, recorded>>
  BY <1>5 DEF ChangeStatus, EditScript, vars, dbVars
<1> QED BY <1>1, <1>2, <1>3, <1>4, <1>5 DEF Next

\* The database of every tenant keeps MigrationLog, whatever provisioners do.
THEOREM EveryTenantKeepsLog == ASSUME NEW t \in Tenants PROVE Spec => LogOf(t)!Spec
<1>1. Init => LogOf(t)!Init
  BY LogInit
<1>2. IInv /\ [Next]_vars => [LogOf(t)!Next]_(LogOf(t)!logVars)
  BY LogStep
<1> QED BY <1>1, <1>2, Invariance, PTL DEF Spec, LogOf!Spec

\* In particular that of the first tenant, which the run checks.
THEOREM FirstTenantKeepsLog == Spec => TenantKeepsLog
<1>1. 1 \in Tenants
  BY ProvisionAssumption DEF Tenants
<1>2. Spec => LogOf(1)!Spec
  BY <1>1, EveryTenantKeepsLog
<1>3. (LogOf(1)!Init <=> Log!Init) /\ LogOf(1)!logVars = Log!logVars
  BY DEF LogOf!Init, Log!Init, LogOf!logVars, Log!logVars
<1>4. LogOf(1)!Next <=> Log!Next
  BY DEF LogOf!Next, Log!Next, LogOf!Apply, Log!Apply, LogOf!Record, Log!Record,
     LogOf!Wipe, Log!Wipe, LogOf!Versioned, Log!Versioned
<1>5. [LogOf(1)!Next]_(LogOf(1)!logVars) <=> [Log!Next]_(Log!logVars)
  BY <1>3, <1>4 DEF LogOf!logVars, Log!logVars
<1> QED BY <1>2, <1>3, <1>5, PTL DEF TenantKeepsLog, Log!Spec, LogOf!Spec

=============================================================================
