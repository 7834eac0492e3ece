--------------------------- MODULE ReconMigration ---------------------------
(***************************************************************************)
(* migrations/tenant V1.41 and V1.42: allocations of bank feed lines move  *)
(* from one status (pending, confirmed, reversed) to a workflow status     *)
(* (proposed, approved), with a unique index that allows a line one active *)
(* allocation, and rules of reconciliation from the flag disabled to the   *)
(* flag enabled.  V1.42 runs statement by statement, each committed on its *)
(* own; it may be cut short and run again, and the applications of both    *)
(* versions write beside it.  The applications are not in the repository:  *)
(* their steps are what the tables and their comments provide for.         *)
(***************************************************************************)
EXTENDS Integers

CONSTANTS
    Lines,       \* bank feed lines
    Rules,       \* rows of recon_rule
    NumAllocs,   \* bound: allocations ever made, 1..NumAllocs
    MaxRuns,     \* bound: executions of V1.42
    OldBeside    \* whether the old application works beside V1.42 and after

Allocs == 1..NumAllocs

ASSUME ReconAssumption ==
    /\ "none" \notin Lines
    /\ NumAllocs \in Nat
    /\ MaxRuns \in Nat
    /\ OldBeside \in BOOLEAN

VARIABLES
    line,      \* line[a]: the line of allocation a, or "none"
    status,    \* status[a]: column status
    workflow,  \* workflow[a]: column workflow_status, "none" before it exists
    method,    \* method[a]: column allocation_method, "none" while it is NULL or missing,
               \* "mapped" from the old type, or the application's "own"
    disabled,  \* rules with the column disabled set
    off,       \* rules whose column enabled is false
    recon,     \* recon[l]: column recon_status of the line
    lineflow,  \* lineflow[l]: column workflow_status of the line
    columns,   \* V1.42 has added the column workflow_status
    index,     \* the unique index exists
    pc,        \* "off", a statement of V1.42, "done" or "failed"
    runs,
    late,      \* allocations the old application has written since the last UPDATE
    ruled      \* rules that either application has switched since the last UPDATE

rules == <<disabled, off, ruled>>
vars == <<line, status, workflow, method, rules, recon, lineflow, columns, index, pc, runs,
          late>>

Statements == {"addLineColumns", "mapEnabled", "addColumns", "mapMethod", "mapStatus",
               "buildIndex"}

Active == {"proposed", "approved"}
Rows == {a \in Allocs : line[a] # "none"}
ActiveOf(l) == {a \in Rows : line[a] = l /\ workflow[a] \in Active}

\* The rows satisfy the unique index.
Unique == \A l \in Lines : \A a, b \in ActiveOf(l) : a = b
Migrated == pc = "done"

\* The new application is at work from the end of the first run on.
Deployed == Migrated \/ index

Init ==
    /\ line = [a \in Allocs |-> "none"]
    /\ status = [a \in Allocs |-> "none"]
    /\ workflow = [a \in Allocs |-> "none"]
    /\ method = [a \in Allocs |-> "none"]
    /\ disabled = {} /\ off = {} /\ ruled = {}
    /\ recon = [l \in Lines |-> "unmatched"]
    /\ lineflow = [l \in Lines |-> "none"]
    /\ columns = FALSE
    /\ index = FALSE
    /\ pc = "off"
    /\ runs = 0
    /\ late = {}

-----------------------------------------------------------------------------
(* The application of V1.41, until V1.42 starts, or later where nobody has  *)
(* stopped it.  It does not know workflow_status: a row it inserts gets the *)
(* default, once there is one, and may meet the index.                      *)

OldAtWork == OldBeside \/ runs = 0
Late(a) == late' = late \cup {a}

Allocate(l, a) ==
    /\ OldAtWork
    /\ recon[l] \in {"unmatched", "suggested", "reversed"}
    /\ index => ActiveOf(l) = {}
    /\ a \notin Rows
    /\ line' = [line EXCEPT ![a] = l]
    /\ status' = [status EXCEPT ![a] = "pending"]
    /\ workflow' = [workflow EXCEPT ![a] = IF columns THEN "proposed" ELSE "none"]
    /\ recon' = [recon EXCEPT ![l] = "allocated"]
    /\ Late(a)
    /\ UNCHANGED <<method, rules, lineflow, columns, index, pc, runs>>

Confirm(a) ==
    /\ OldAtWork
    /\ status[a] = "pending"
    /\ status' = [status EXCEPT ![a] = "confirmed"]
    /\ recon' = [recon EXCEPT ![line[a]] = "approved"]
    /\ Late(a)
    /\ UNCHANGED <<line, workflow, method, rules, lineflow, columns, index, pc, runs>>

Reverse(a) ==
    /\ OldAtWork
    /\ status[a] \in {"pending", "confirmed"}
    /\ status' = [status EXCEPT ![a] = "reversed"]
    /\ recon' = [recon EXCEPT ![line[a]] = "reversed"]
    /\ Late(a)
    /\ UNCHANGED <<line, workflow, method, rules, lineflow, columns, index, pc, runs>>

\* The rule is disabled or enabled again.
Switch(rule, set) == IF rule \in set THEN set \ {rule} ELSE set \cup {rule}

Disable(rule) ==
    /\ OldAtWork
    /\ disabled' = Switch(rule, disabled)
    /\ ruled' = ruled \cup {rule}
    /\ UNCHANGED <<line, status, workflow, method, off, recon, lineflow, columns, index, pc,
                   runs, late>>

-----------------------------------------------------------------------------
(* V1.42. *)

\* flyway.sh runs a script that has no row of success, also after a failure.
Run ==
    /\ pc \in {"off", "failed"}
    /\ runs < MaxRuns
    /\ pc' = "addLineColumns"
    /\ runs' = runs + 1
    /\ UNCHANGED <<line, status, workflow, method, rules, recon, lineflow, columns, index, late>>

\* ADD COLUMN IF NOT EXISTS ... DEFAULT: lines that exist get the default.
AddLineColumns ==
    /\ pc = "addLineColumns"
    /\ lineflow' = [l \in Lines |->
                       IF lineflow[l] = "none" THEN "imported" ELSE lineflow[l]]
    /\ pc' = "mapEnabled"
    /\ UNCHANGED <<line, status, workflow, method, rules, recon, columns, index, runs, late>>

\* Mutant of MapEnabled: the old flag is copied and not negated.
MapEnabledCopied ==
    /\ pc = "mapEnabled"
    /\ off' = off \ disabled
    /\ ruled' = {}
    /\ pc' = "addColumns"
    /\ UNCHANGED <<line, status, workflow, method, disabled, recon, lineflow, columns, index,
                   runs, late>>

\* The UPDATE of recon_rule.  ADD COLUMN has given every rule enabled = true.
MapEnabled ==
    /\ pc = "mapEnabled"
    /\ off' = off \cup disabled
    /\ ruled' = {}
    /\ pc' = "addColumns"
    /\ UNCHANGED <<line, status, workflow, method, disabled, recon, lineflow, columns, index,
                   runs, late>>

\* Mutant of AddColumns: the column has no default.
AddColumnsNull ==
    /\ pc = "addColumns"
    /\ columns' = TRUE
    /\ pc' = "mapMethod"
    /\ UNCHANGED <<line, status, workflow, method, rules, recon, lineflow, index, runs, late>>

AddColumns ==
    /\ pc = "addColumns"
    /\ workflow' = [a \in Allocs |->
                       IF a \in Rows /\ workflow[a] = "none" THEN "proposed"
                       ELSE workflow[a]]
    /\ columns' = TRUE
    /\ pc' = "mapMethod"
    /\ UNCHANGED <<line, status, method, rules, recon, lineflow, index, runs, late>>

\* The UPDATE of allocation_method: every row that has none, whose type is never
\* NULL.
MapMethod ==
    /\ pc = "mapMethod"
    /\ method' = [a \in Allocs |->
                     IF a \in Rows /\ method[a] = "none" THEN "mapped" ELSE method[a]]
    /\ pc' = "mapStatus"
    /\ UNCHANGED <<line, status, workflow, rules, recon, lineflow, columns, index, runs, late>>

\* Mutant of Remapped: the WHERE clause of the UPDATE is dropped.
RemappedAll(a) ==
    IF a \notin Rows THEN workflow[a]
    ELSE IF status[a] \in {"confirmed", "reversed"} THEN "approved" ELSE "proposed"

\* Mutant of Remapped: the WHERE clause asks for rows without a workflow status.
RemappedNull(a) ==
    IF workflow[a] = "none" /\ status[a] \in {"confirmed", "reversed"}
    THEN "approved" ELSE workflow[a]

\* The UPDATE of workflow_status.
Remapped(a) ==
    IF workflow[a] = "proposed" /\ status[a] \in {"confirmed", "reversed"}
    THEN "approved" ELSE workflow[a]

MapStatus ==
    /\ pc = "mapStatus"
    /\ workflow' = [a \in Allocs |-> Remapped(a)]
    /\ late' = {}
    /\ pc' = "buildIndex"
    /\ UNCHANGED <<line, status, method, rules, recon, lineflow, columns, index, runs>>

\* Mutant of BuildIndex: the index is not unique.
BuildIndexPlain ==
    /\ pc = "buildIndex"
    /\ pc' = "done"
    /\ UNCHANGED <<line, status, workflow, method, rules, recon, lineflow, columns, index,
                   runs, late>>

BuildIndex ==
    /\ pc = "buildIndex"
    /\ index \/ Unique
    /\ index' = TRUE
    /\ pc' = "done"
    /\ UNCHANGED <<line, status, workflow, method, rules, recon, lineflow, columns, runs,
                   late>>

\* A line has two active allocations: the script fails.
BuildRefused ==
    /\ pc = "buildIndex"
    /\ ~index
    /\ ~Unique
    /\ pc' = "failed"
    /\ UNCHANGED <<line, status, workflow, method, rules, recon, lineflow, columns, index,
                   runs, late>>

\* The runner stops between two statements, or before it records the script.
Crash ==
    /\ pc \in Statements \cup {"done"}
    /\ pc' = "off"
    /\ UNCHANGED <<line, status, workflow, method, rules, recon, lineflow, columns, index,
                   runs, late>>

-----------------------------------------------------------------------------
(* The application of V1.42: propose, then approve. *)

Propose(l, a) ==
    /\ Deployed
    /\ index => ActiveOf(l) = {}
    /\ a \notin Rows
    /\ line' = [line EXCEPT ![a] = l]
    /\ status' = [status EXCEPT ![a] = "pending"]
    /\ workflow' = [workflow EXCEPT ![a] = "proposed"]
    /\ method' = [method EXCEPT ![a] = "own"]
    /\ lineflow' = [lineflow EXCEPT ![l] = "proposed"]
    /\ UNCHANGED <<rules, recon, columns, index, pc, runs, late>>

Approve(a) ==
    /\ Deployed
    /\ a \in Rows /\ workflow[a] = "proposed"
    /\ workflow' = [workflow EXCEPT ![a] = "approved"]
    /\ lineflow' = [lineflow EXCEPT ![line[a]] = "approved"]
    /\ UNCHANGED <<line, status, method, rules, recon, columns, index, pc, runs, late>>

\* It switches the new flag and leaves the old one as it is.
Enable(rule) ==
    /\ Deployed
    /\ off' = Switch(rule, off)
    /\ ruled' = ruled \cup {rule}
    /\ UNCHANGED <<line, status, workflow, method, disabled, recon, lineflow, columns, index,
                   pc, runs, late>>

Next ==
    \/ \E l \in Lines, a \in Allocs : Allocate(l, a) \/ Propose(l, a)
    \/ \E a \in Allocs : Confirm(a) \/ Reverse(a) \/ Approve(a)
    \/ \E rule \in Rules : Disable(rule) \/ Enable(rule)
    \/ Run \/ AddLineColumns \/ MapEnabled \/ AddColumns \/ MapMethod \/ MapStatus
    \/ BuildIndex \/ BuildRefused \/ Crash

Spec == Init /\ [][Next]_vars

-----------------------------------------------------------------------------
(* Properties. *)

\* Every variable has its type, and the columns fit: a row has a status, and
\* from the moment V1.42 has added the column every row is active in it.
TypeOK ==
    /\ line \in [Allocs -> Lines \cup {"none"}]
    /\ status \in [Allocs -> {"none", "pending", "confirmed", "reversed"}]
    /\ workflow \in [Allocs -> {"none"} \cup Active]
    /\ method \in [Allocs -> {"none", "mapped", "own"}]
    /\ disabled \subseteq Rules /\ off \subseteq Rules /\ ruled \subseteq Rules
    /\ pc \in Statements \cup {"off", "done", "failed"}
    /\ runs \in Nat
    /\ index \in BOOLEAN /\ columns \in BOOLEAN
    /\ late \subseteq Rows
    /\ \A a \in Allocs : a \in Rows <=> status[a] # "none"
    /\ columns => \A a \in Rows : workflow[a] \in Active

\* "Only one active allocation per bank feed line (REC-024d)": from the end of
\* V1.42 on, through reruns and the work of the application beside them.
OneActivePerLine == Migrated => Unique

\* "Migrate old status to new workflow_status": after V1.42 what the old
\* application confirmed is approved, but for what it has written since the
\* UPDATE when nobody has stopped it; the next execution makes up for that.
ConfirmedIsApproved ==
    Migrated => \A a \in Rows \ late : status[a] = "confirmed" => workflow[a] = "approved"

\* "Migrate existing 'disabled' flag to new 'enabled' flag": after V1.42 a rule
\* that the old application disabled does not match, but for what either
\* application has switched since the UPDATE.
DisabledIsOff == Migrated => disabled \ ruled \subseteq off

\* A run of V1.42, the first or a later one, takes back no approval of the
\* application, approves nothing that the old one left pending, writes over no
\* method of the application, switches no rule on, and switches off only rules
\* that are still disabled in the old flag.  Those may be rules that a user of
\* the new application has enabled (README, section 5).
MigrationKeepsDecisions ==
    [][pc' # pc =>
          /\ \A a \in Rows :
                /\ workflow[a] = "approved" => workflow'[a] = "approved"
                /\ status[a] = "pending" /\ workflow[a] = "proposed" =>
                      workflow'[a] = "proposed"
                /\ method[a] = "own" => method'[a] = "own"
          /\ off \subseteq off' /\ off' \subseteq off \cup disabled]_vars

=============================================================================
