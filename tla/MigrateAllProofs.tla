--------------------------- MODULE MigrateAllProofs ---------------------------
(***************************************************************************)
(* For any number of tenants, migrations, executions and faults: an        *)
(* execution that ends with status 0 has migrated what it was asked for.   *)
(* It rests on two facts.  A database never loses a version, so that what  *)
(* an execution has left behind stays complete whatever the others do.     *)
(* And an execution is past a job only if the job was done, past a tenant  *)
(* of its list only if that was done or counted as a failure (Passed).     *)
(***************************************************************************)
EXTENDS MigrateAll, TLAPS

\* Status 0 told the truth.
Delivered(p) ==
    /\ \A d \in Asked(p) : d \in Databases /\ Complete(d)
    /\ flags[p] # {} /\ HasRegistry

\* What p has behind it.
Passed(p) ==
    /\ pc[p] \in {"tenant", "all", "loop"} /\ "platform" \in flags[p] => Complete(Platform)
    /\ pc[p] \in {"all", "loop"} /\ "tenant" \in flags[p] =>
          one[p] \in Tenants /\ Complete(one[p]) /\ HasRegistry
    /\ pc[p] = "loop" =>
          /\ HasRegistry
          /\ \A t \in listed[p] \ (todo[p] \cup failures[p]) : Complete(t)

\* p is at a job it was asked for, and knows no tenants before the loop.
AtJob(p) ==
    /\ pc[p] \in Jobs => pc[p] \in flags[p]
    /\ pc[p] \in Jobs => listed[p] = {} /\ todo[p] = {} /\ failures[p] = {}
    /\ pc[p] # "idle" => exit[p] = "none"

Local(p) == AtJob(p) /\ Passed(p) /\ (exit[p] = "0" => Delivered(p))

IInv == TypeOK /\ \A p \in Procs : Local(p)

-----------------------------------------------------------------------------
\* A tenant is not the platform, and the others are as they were.
LEMMA Ids == Tenants \subseteq Databases /\ Platform \in Databases /\ Platform \notin Tenants
  BY MigrateAssumption DEF Tenants, Databases, Platform

\* What an execution is at work on is a database.
LEMMA TargetIsDatabase ==
  ASSUME TypeOK, NEW p \in Procs, AtWork(p)
  PROVE  /\ Target(p) \in Databases
         /\ pc[p] = "loop" => Target(p) \in todo[p]
<1>1. todo[p] \subseteq Tenants
  BY DEF TypeOK
<1>2. CASE pc[p] = "platform"
  BY <1>2, Ids DEF Target
<1>3. CASE pc[p] = "tenant"
  <2>1. one[p] \in Tenants
    BY <1>3 DEF AtWork, TypeOK
  <2> QED BY <1>3, <2>1, Ids DEF Target
<1>4. CASE pc[p] = "loop" /\ todo[p] # {}
  <2>1. Target(p) \in todo[p]
    BY <1>4 DEF Target
  <2> QED BY <1>1, <1>4, <2>1, Ids
<1> QED BY <1>2, <1>3, <1>4 DEF AtWork

\* Versions are kept.
Grows ==
    /\ \A d \in Databases : Complete(d) => Complete(d)'
    /\ HasRegistry => HasRegistry'

\* A step that adds no version takes none away.
LEMMA VersionsKept == ASSUME UNCHANGED version PROVE Grows
  BY DEF Grows, Complete, HasRegistry

\* The variables of one execution.
Of(p) == <<pc[p], flags[p], one[p], listed[p], todo[p], failures[p], exit[p]>>

\* What holds of an execution is not disturbed by the others.
LEMMA OthersKept ==
  ASSUME TypeOK, Grows, NEW q \in Procs, Local(q), Of(q)' = Of(q)
  PROVE  Local(q)'
<1>1. /\ pc'[q] = pc[q] /\ flags'[q] = flags[q] /\ one'[q] = one[q]
      /\ listed'[q] = listed[q] /\ todo'[q] = todo[q]
      /\ failures'[q] = failures[q] /\ exit'[q] = exit[q]
  BY DEF Of
<1>2. AtJob(q)'
  BY <1>1 DEF Local, AtJob
<1>3. Passed(q)'
  <2>1. listed[q] \subseteq Databases
    BY Ids DEF TypeOK
  <2> QED BY <1>1, <2>1, Ids DEF Local, Passed, Grows
<1>4. ASSUME exit'[q] = "0" PROVE Delivered(q)'
  <2>1. Delivered(q)
    BY <1>1, <1>4 DEF Local
  <2>2. Asked(q)' = Asked(q)
    BY <1>1 DEF Asked
  <2> QED BY <1>1, <2>1, <2>2 DEF Delivered, Grows
<1> QED BY <1>2, <1>3, <1>4 DEF Local

-----------------------------------------------------------------------------
\* Nobody has run, and the facts of every execution hold.
LEMMA InitHolds == Init => IInv
<1> SUFFICES ASSUME Init PROVE IInv
  OBVIOUS
<1>1. TypeOK
  BY MigrateAssumption DEF Init, TypeOK, HasRegistry, NoTenant
<1>2. \A p \in Procs : Local(p)
  BY DEF Init, Local, AtJob, Passed, Jobs
<1> QED BY <1>1, <1>2 DEF IInv

\* A step of p that keeps its own facts keeps everybody's.
LEMMA Frame ==
  ASSUME IInv, TypeOK', Grows, NEW p \in Procs, Local(p)',
         \A q \in Procs \ {p} : Of(q)' = Of(q)
  PROVE  IInv'
<1>1. ASSUME NEW q \in Procs, q # p PROVE Local(q)'
  BY <1>1, OthersKept DEF IInv
<1> QED BY <1>1 DEF IInv

\* p ends with a status it may end with.
LEMMA QuitHolds ==
  ASSUME IInv, NEW p \in Procs, NEW status \in {"0", "1", "killed"}, Quit(p, status),
         status = "0" => Delivered(p)
  PROVE  IInv'
<1>1. /\ UNCHANGED <<dbVars, flags, one, listed, todo, failures>>
      /\ pc' = [pc EXCEPT ![p] = "idle"]
      /\ exit' = [exit EXCEPT ![p] = status]
  BY DEF Quit
<1>2. TypeOK'
  BY <1>1 DEF IInv, TypeOK, HasRegistry, dbVars
<1>3. Grows
  BY <1>1, VersionsKept DEF dbVars
<1>4. pc'[p] = "idle" /\ exit'[p] = status
  BY <1>1 DEF IInv, TypeOK
<1>5. Local(p)'
  <2>1. Delivered(p) => Delivered(p)'
    BY <1>1, <1>3 DEF Delivered, Asked, Grows
  <2> QED BY <1>4, <2>1 DEF Local, AtJob, Passed, Jobs
<1>6. \A q \in Procs \ {p} : Of(q)' = Of(q)
  BY <1>1 DEF Of, IInv, TypeOK
<1> QED BY <1>2, <1>3, <1>5, <1>6, Frame

\* A new execution has nothing behind it, and is at its first job or at its end.
LEMMA StartHolds ==
  ASSUME IInv, NEW p \in Procs, NEW jobs \in SUBSET Jobs, NEW t \in Tenants \cup {NoTenant},
         Start(p, jobs, t)
  PROVE  IInv'
<1> DEFINE job == IF jobs = {} THEN "idle" ELSE FirstJob(jobs)
           status == IF jobs = {} THEN "1" ELSE "none"
<1>1. /\ UNCHANGED dbVars
      /\ flags' = [flags EXCEPT ![p] = jobs]
      /\ one' = [one EXCEPT ![p] = t]
      /\ listed' = [listed EXCEPT ![p] = {}]
      /\ todo' = [todo EXCEPT ![p] = {}]
      /\ failures' = [failures EXCEPT ![p] = {}]
      /\ pc' = [pc EXCEPT ![p] = job]
      /\ exit' = [exit EXCEPT ![p] = status]
  BY DEF Start
<1>2. jobs # {} => job \in jobs /\ job = FirstJob(jobs)
  BY DEF FirstJob, Jobs
<1>3. job \in Jobs \cup {"idle"} /\ job # "loop" /\ status \in {"none", "1"}
  BY <1>2 DEF Jobs
<1> HIDE DEF job, status
<1>4. TypeOK'
  BY <1>1, <1>3 DEF IInv, TypeOK, HasRegistry, dbVars
<1>5. Grows
  BY <1>1, VersionsKept DEF dbVars
<1>6. /\ pc'[p] = job /\ flags'[p] = jobs /\ exit'[p] = status
      /\ listed'[p] = {} /\ todo'[p] = {} /\ failures'[p] = {}
  BY <1>1 DEF IInv, TypeOK
<1>7. AtJob(p)'
  BY <1>2, <1>3, <1>6 DEF AtJob, Jobs, status, job
<1>8. Passed(p)'
  <2>1. job = "tenant" => "platform" \notin jobs
    BY DEF job, FirstJob
  <2>2. job = "all" => "platform" \notin jobs /\ "tenant" \notin jobs
    BY DEF job, FirstJob
  <2> QED BY <1>3, <1>6, <2>1, <2>2 DEF Passed
<1>9. Local(p)'
  BY <1>3, <1>6, <1>7, <1>8 DEF Local
<1>10. \A q \in Procs \ {p} : Of(q)' = Of(q)
  BY <1>1 DEF Of, IInv, TypeOK
<1> QED BY <1>4, <1>5, <1>9, <1>10, Frame

\* A version that is added to one database leaves the others as they are.
LEMMA ApplyHolds ==
  ASSUME IInv, NEW p \in Procs, ApplyVersion(p)
  PROVE  IInv'
<1>1. PICK d \in Databases : d = Target(p)
  BY TargetIsDatabase DEF ApplyVersion, IInv
<1>2. /\ version' = [version EXCEPT ![d] = @ + 1]
      /\ version[d] # NumVersions
      /\ UNCHANGED <<broken, active, changes, pc, flags, one, listed, todo, failures, exit>>
  BY <1>1 DEF ApplyVersion, Complete
<1>3. version'[d] = version[d] + 1 /\ version[d] \in 0..NumVersions
  BY <1>2 DEF IInv, TypeOK
<1>4. \A e \in Databases \ {d} : version'[e] = version[e]
  BY <1>2 DEF IInv, TypeOK
<1>5. HasRegistry => HasRegistry'
  BY <1>3, <1>4, Ids DEF HasRegistry
<1>6. Grows
  BY <1>2, <1>3, <1>4, <1>5 DEF Grows, Complete
<1>7. version' \in [Databases -> 0..NumVersions]
  <2>1. version[d] + 1 \in 0..NumVersions
    BY <1>2, <1>3, MigrateAssumption
  <2> QED BY <1>2, <2>1 DEF IInv, TypeOK
<1>8. TypeOK'
  BY <1>2, <1>5, <1>7 DEF IInv, TypeOK
<1>9. \A q \in Procs : Of(q)' = Of(q)
  BY <1>2 DEF Of
<1>10. Local(p)'
  BY <1>6, <1>9, OthersKept DEF IInv
<1> QED BY <1>6, <1>8, <1>9, <1>10, Frame

\* The administration and the repairs leave versions and executions alone.
LEMMA EnvironmentHolds ==
  ASSUME IInv, UNCHANGED <<version, pc, flags, one, listed, todo, failures, exit>>,
         broken' \subseteq broken, active' \subseteq Tenants, active' # {} => HasRegistry
  PROVE  IInv'
<1>1. TypeOK'
  BY DEF IInv, TypeOK, HasRegistry
<1>2. Grows
  BY VersionsKept
<1>3. \A q \in Procs : Local(q)'
  BY <1>2, OthersKept DEF IInv, Of
<1> QED BY <1>1, <1>3 DEF IInv

\* Past its job, p is at one it was asked for, or through.
LEMMA JobDoneHolds ==
  ASSUME IInv, NEW p \in Procs, JobDone(p)
  PROVE  IInv'
<1>1. /\ pc[p] \in {"platform", "tenant"} /\ pc[p] \in Jobs
      /\ AtWork(p) /\ Complete(Target(p)) /\ NextJob(p)
  BY DEF JobDone, Jobs
<1>2. AtJob(p) /\ Passed(p)
  BY DEF IInv, Local
<1>3. /\ listed[p] = {} /\ todo[p] = {} /\ failures[p] = {}
      /\ pc[p] \in flags[p] /\ exit[p] = "none"
  BY <1>1, <1>2 DEF AtJob, Jobs
<1>4. flags[p] \in SUBSET Jobs /\ one[p] \in Tenants \cup {NoTenant}
  BY DEF IInv, TypeOK
<1>5. "platform" \in flags[p] => Complete(Platform)
  BY <1>1, <1>2 DEF Passed, Target
<1>6. pc[p] = "tenant" => one[p] \in Tenants /\ Complete(one[p]) /\ HasRegistry
  BY <1>1, <1>4 DEF AtWork, Target
<1>7. CASE Rest(p) = {}
  <2>1. \A d \in Asked(p) : d \in Databases /\ Complete(d)
    BY <1>1, <1>3, <1>5, <1>6, <1>7, Ids DEF Asked, Rest
  <2>2. HasRegistry
    <3>1. CASE pc[p] = "tenant"
      BY <1>6, <3>1
    <3>2. CASE pc[p] = "platform"
      BY <1>3, <1>5, <3>2, MigrateAssumption DEF Complete, HasRegistry
    <3> QED BY <1>1, <3>1, <3>2
  <2>3. Delivered(p)
    BY <1>3, <2>1, <2>2 DEF Delivered
  <2>4. Quit(p, "0")
    BY <1>1, <1>7 DEF NextJob
  <2> QED BY <2>3, <2>4, QuitHolds
<1>8. CASE Rest(p) # {}
  <2> DEFINE job == FirstJob(Rest(p))
  <2>1. /\ pc' = [pc EXCEPT ![p] = job]
        /\ UNCHANGED <<dbVars, flags, one, listed, todo, failures, exit, starts>>
    BY <1>1, <1>8 DEF NextJob
  <2>2. job \in Rest(p) /\ job \in Jobs /\ job \in flags[p] /\ job # "platform"
    BY <1>1, <1>4, <1>8 DEF FirstJob, Rest, Jobs
  <2>3. job = "all" /\ "tenant" \in flags[p] => pc[p] = "tenant"
    BY <1>1 DEF FirstJob, Rest
  <2> HIDE DEF job
  <2>4. pc'[p] = job
    BY <2>1 DEF IInv, TypeOK
  <2>5. TypeOK'
    BY <2>1, <2>2 DEF IInv, TypeOK, HasRegistry, dbVars, Jobs
  <2>6. Grows
    BY <2>1, VersionsKept DEF dbVars
  <2>7. AtJob(p)'
    BY <1>3, <2>1, <2>2, <2>4 DEF AtJob, Jobs
  <2>8. Passed(p)'
    <3>1. job \in {"tenant", "all"}
      BY <2>2 DEF Jobs
    <3>2. Complete(Platform)' <=> Complete(Platform)
      BY <2>1 DEF Complete, dbVars
    <3>3. Complete(one[p])' <=> Complete(one[p])
      BY <2>1 DEF Complete, dbVars
    <3>4. HasRegistry' <=> HasRegistry
      BY <2>1 DEF HasRegistry, dbVars
    <3> QED BY <1>5, <1>6, <2>1, <2>3, <2>4, <3>1, <3>2, <3>3, <3>4 DEF Passed
  <2>9. Local(p)'
    BY <1>3, <2>1, <2>7, <2>8 DEF Local
  <2>10. \A q \in Procs \ {p} : Of(q)' = Of(q)
    BY <2>1 DEF Of, IInv, TypeOK
  <2> QED BY <2>5, <2>6, <2>9, <2>10, Frame
<1> QED BY <1>7, <1>8

\* The list is read once: all of it is still to do.
LEMMA ListHolds ==
  ASSUME IInv, NEW p \in Procs, List(p)
  PROVE  IInv'
<1>1. /\ pc[p] = "all" /\ HasRegistry
      /\ listed' = [listed EXCEPT ![p] = active]
      /\ todo' = [todo EXCEPT ![p] = active]
      /\ pc' = [pc EXCEPT ![p] = "loop"]
      /\ UNCHANGED <<dbVars, flags, one, failures, exit, starts>>
  BY DEF List
<1>2. /\ AtJob(p) /\ Passed(p) /\ "all" \in flags[p] /\ failures[p] = {} /\ exit[p] = "none"
  BY <1>1 DEF IInv, Local, AtJob, Jobs
<1>3. pc'[p] = "loop" /\ listed'[p] = active /\ todo'[p] = active
  BY <1>1 DEF IInv, TypeOK
<1>4. TypeOK'
  BY <1>1, <1>2 DEF IInv, TypeOK, HasRegistry, dbVars
<1>5. Grows
  BY <1>1, VersionsKept DEF dbVars
<1>6. Passed(p)'
  BY <1>1, <1>2, <1>3 DEF Passed, Complete, HasRegistry, dbVars
<1>7. Local(p)'
  BY <1>1, <1>2, <1>3, <1>6 DEF Local, AtJob, Jobs
<1>8. \A q \in Procs \ {p} : Of(q)' = Of(q)
  BY <1>1 DEF Of, IInv, TypeOK
<1> QED BY <1>4, <1>5, <1>7, <1>8, Frame

\* The next tenant leaves the list because it is complete, or as a failure.
LEMMA LoopHolds ==
  ASSUME IInv, NEW p \in Procs, TenantDone(p) \/ TenantFails(p)
  PROVE  IInv'
<1>1. /\ pc[p] = "loop" /\ AtWork(p)
      /\ todo' = [todo EXCEPT ![p] = @ \ {Target(p)}]
      /\ UNCHANGED <<dbVars, pc, flags, one, listed, exit, starts>>
      /\ \/ Complete(Target(p)) /\ failures' = failures
         \/ failures' = [failures EXCEPT ![p] = @ \cup {Target(p)}]
  BY DEF TenantDone, TenantFails, MigrationFails, AtWork
<1>2. PICK t \in todo[p] : t = Target(p)
  BY <1>1, TargetIsDatabase DEF IInv
<1>3. /\ AtJob(p) /\ Passed(p) /\ exit[p] = "none"
  BY <1>1 DEF IInv, Local, AtJob
<1>4. todo'[p] = todo[p] \ {t}
  BY <1>1, <1>2 DEF IInv, TypeOK
<1>5. \/ Complete(t) /\ failures'[p] = failures[p]
      \/ failures'[p] = failures[p] \cup {t}
  BY <1>1, <1>2 DEF IInv, TypeOK
<1>6. \A q \in Procs \ {p} : Of(q)' = Of(q)
  BY <1>1 DEF Of, IInv, TypeOK
<1>7. TypeOK'
  <2>1. {listed, todo, failures}' \subseteq [Procs -> SUBSET Tenants]
    BY <1>1, <1>2 DEF IInv, TypeOK
  <2>2. \A q \in Procs : todo'[q] \subseteq listed'[q]
                       /\ failures'[q] \subseteq listed'[q] \ todo'[q]
    BY <1>1, <1>2, <1>4, <1>5, <1>6 DEF IInv, TypeOK, Of
  <2> QED BY <1>1, <2>1, <2>2 DEF IInv, TypeOK, HasRegistry, dbVars
<1>8. Grows
  BY <1>1, VersionsKept DEF dbVars
<1>9. Passed(p)'
  BY <1>1, <1>3, <1>4, <1>5 DEF Passed, Complete, HasRegistry, dbVars
<1>10. Local(p)'
  BY <1>1, <1>3, <1>9 DEF Local, AtJob, Jobs
<1> QED BY <1>6, <1>7, <1>8, <1>10, Frame

\* Without a failure and with nothing left to do, all of the list is complete.
LEMMA LoopEndsHolds ==
  ASSUME IInv, NEW p \in Procs, LoopEnds(p)
  PROVE  IInv'
<1> DEFINE status == IF failures[p] = {} THEN "0" ELSE "1"
<1>1. pc[p] = "loop" /\ todo[p] = {} /\ Quit(p, status)
  BY DEF LoopEnds
<1>2. Passed(p) /\ "all" \in flags[p] /\ listed[p] \subseteq Tenants
  BY <1>1 DEF IInv, TypeOK, Local
<1>3. failures[p] = {} => Delivered(p)
  BY <1>1, <1>2, Ids DEF Passed, Delivered, Asked
<1> QED BY <1>1, <1>3, QuitHolds

-----------------------------------------------------------------------------
\* No step of an execution, of the registry or of a repair breaks the invariant.
LEMMA StepHolds == IInv /\ [Next]_vars => IInv'
<1> SUFFICES ASSUME IInv, [Next]_vars PROVE IInv'
  OBVIOUS
<1>1. ASSUME NEW t \in Tenants, ChangeStatus(t) PROVE IInv'
  BY <1>1, EnvironmentHolds DEF ChangeStatus, IInv, TypeOK
<1>2. ASSUME NEW d \in Databases, Repair(d) PROVE IInv'
  BY <1>2, EnvironmentHolds DEF Repair, IInv, TypeOK
<1>3. ASSUME NEW p \in Procs, Step(p) \/ Crash(p) PROVE IInv'
  <2>1. CASE ApplyVersion(p)
    BY <2>1, ApplyHolds
  <2>2. CASE JobDone(p)
    BY <2>2, JobDoneHolds
  <2>3. CASE JobFails(p) \/ TenantUnknown(p) \/ ListFails(p)
    BY <2>3, QuitHolds DEF JobFails, TenantUnknown, ListFails
  <2>4. CASE List(p)
    BY <2>4, ListHolds
  <2>5. CASE TenantDone(p) \/ TenantFails(p)
    BY <2>5, LoopHolds
  <2>6. CASE LoopEnds(p)
    BY <2>6, LoopEndsHolds
  <2>7. CASE Crash(p)
    BY <2>7, QuitHolds DEF Crash
  <2> QED BY <1>3, <2>1, <2>2, <2>3, <2>4, <2>5, <2>6, <2>7 DEF Step
<1>4. CASE UNCHANGED vars
  BY <1>4, EnvironmentHolds DEF vars, dbVars, IInv, TypeOK
<1> QED BY <1>1, <1>2, <1>3, <1>4, StartHolds DEF Next

\* The inductive invariant, from which the theorems are read off.
LEMMA Invariance == Spec => []IInv
  BY InitHolds, StepHolds, PTL DEF Spec

-----------------------------------------------------------------------------
\* The types, for every value of the constants.
THEOREM TypeCorrect == Spec => []TypeOK
<1>1. IInv => TypeOK
  BY DEF IInv
<1> QED BY <1>1, Invariance, PTL

\* Status 0 is never given to a command that left a database behind, whatever
\* calls fail, whoever is stopped and however many are at work.
THEOREM CleanExit == Spec => []CleanExitMeansMigrated
<1>1. IInv => CleanExitMeansMigrated
  BY DEF IInv, Local, Delivered, CleanExitMeansMigrated
<1> QED BY <1>1, Invariance, PTL

=============================================================================
