------------------------------- MODULE Flyway -------------------------------
(***************************************************************************)
(* flyway.sh, the migration runner of ledgius-db.                          *)
(*                                                                         *)
(* A runner is one execution of the script.  Every psql it starts is a     *)
(* connection of its own, without `-1`: each statement of a migration file *)
(* commits by itself, and nothing ties the statements of a file to the row *)
(* that records it in flyway_schema_history.  Nothing keeps two runners    *)
(* out of the same database either.  One action below is one statement     *)
(* committed by the server, or one decision taken by the shell on what a   *)
(* query returned.                                                         *)
(*                                                                         *)
(* Migration files are numbered in the order the runner visits them: the   *)
(* glob V*.sql in lexicographic order, then R__*.sql.  The text of a file  *)
(* is an edition number, and its md5sum is the edition itself.             *)
(***************************************************************************)
EXTENDS Integers, Sequences, FiniteSets

CONSTANTS
    Runners,        \* executions of flyway.sh that may overlap
    NumVersioned,   \* number of V*.sql files
    NumRepeatable,  \* number of R__*.sql files
    NumStmts,       \* statements in each file
    Editions,       \* number of texts a file may go through
    Rerunnable,     \* files whose statements accept to run a second time
    Wiping,         \* repeatable files that open with a DELETE of their rows
    Late,           \* files that are not in the tree yet at the start
    Commands,       \* sub-commands the operators use
    Faults,         \* what may go wrong, see FaultKinds
    MaxStarts       \* bound: number of times a runner is started

Versioned == 1..NumVersioned
Repeatable == (NumVersioned + 1)..(NumVersioned + NumRepeatable)
Scripts == 1..(NumVersioned + NumRepeatable)
Stmts == 1..NumStmts

\* No checksum: a file that is absent, or a query that returned no row.
NoSum == 0
Sums == 1..Editions

(***************************************************************************)
(* "stmt"       a statement fails, or its connection is lost               *)
(* "query"      the history lookup fails and its error is swallowed        *)
(* "psql"       any other psql call of the runner fails                    *)
(* "crash"      the runner is killed                                       *)
(* "resetRace"  `reset` is used while other runners are at work            *)
(* "outOfOrder" a file arrives after a file with a higher version          *)
(* "revert"     a file goes back to an earlier text                        *)
(***************************************************************************)
FaultKinds ==
    {"stmt", "query", "psql", "crash", "resetRace", "outOfOrder", "revert"}

CommandKinds == {"migrate", "status", "validate", "reset"}

ASSUME ParametersAssumption ==
    /\ NumVersioned \in Nat
    /\ NumRepeatable \in Nat
    /\ NumStmts \in Nat \ {0}
    /\ Editions \in Nat \ {0}
    /\ Rerunnable \subseteq Scripts
    /\ Wiping \subseteq Repeatable
    /\ Late \subseteq Scripts
    /\ Commands \subseteq CommandKinds
    /\ Faults \subseteq FaultKinds
    /\ MaxStarts \in Nat

\* The versioned files in the tree at the start are those below some version.
ASSUME LateAssumption ==
    \/ "outOfOrder" \in Faults
    \/ \A s \in Versioned, t \in Versioned : s \in Late /\ s < t => t \in Late

VARIABLES
    file,      \* file[s]: edition in the migration directory, NoSum if absent
    table,     \* "nodb", "none", "table" or "indexed": the history table
    hist,      \* rows of flyway_schema_history, by installed_rank
    eff,       \* eff[s][k]: edition whose k-th statement ran last
    ran,       \* ran[s][k]: how often the k-th statement of s committed
    pc,        \* pc[r]: where runner r is
    cmd,       \* cmd[r]: its sub-command
    at,        \* at[r]: the file its loop is at
    stmt,      \* stmt[r]: statements of that file it has committed
    existing,  \* existing[r]: the shell variable `existing`
    errors,    \* errors[r]: validate has found an error
    exit,      \* exit[r]: how its last execution ended
    starts     \* executions started so far

dbVars == <<table, hist, eff, ran>>
loopVars == <<at, stmt, existing, errors>>
vars == <<file, dbVars, pc, cmd, loopVars, exit, starts>>

Phases == {"idle", "drop", "create", "ensureTable", "ensureIndex",
           "lookup", "run", "recordOk", "recordFail"}
Exits == {"none", "0", "1", "killed"}
Rows == [script : Scripts, sum : Sums, ok : BOOLEAN]

-----------------------------------------------------------------------------
(* The history table. *)

\* WHERE script = s AND success = true
OkRanks(s) == {i \in DOMAIN hist : hist[i].script = s /\ hist[i].ok}
Recorded(s) == OkRanks(s) # {}
RecordedAs(s, c) == \E i \in OkRanks(s) : hist[i].sum = c

\* What `existing=$(... 2>/dev/null || echo "")` can hold for file s.
Answers(s) ==
    {hist[i].sum : i \in OkRanks(s)}
        \cup (IF ~Recorded(s) \/ "query" \in Faults THEN {NoSum} ELSE {})

\* Mutant of InsertAllowed: the history table without its unique index.
InsertAllowedNoIndex(s) == table \in {"table", "indexed"}

\* The unique index on script accepts a new row for s.
InsertAllowed(s) ==
    /\ table \in {"table", "indexed"}
    /\ table = "indexed" => \A i \in DOMAIN hist : hist[i].script # s

\* CREATE UNIQUE INDEX IF NOT EXISTS can be built.
NoTwins ==
    \A i, j \in DOMAIN hist : hist[i].script = hist[j].script => i = j

Insert(s, ok) ==
    hist' = Append(hist, [script |-> s, sum |-> file[s], ok |-> ok])

\* UPDATE ... SET checksum, success = true WHERE script = s
Update(s) ==
    hist' = [i \in DOMAIN hist |->
                IF hist[i].script = s
                THEN [script |-> s, sum |-> file[s], ok |-> TRUE]
                ELSE hist[i]]

-----------------------------------------------------------------------------
Init ==
    /\ file = [s \in Scripts |-> IF s \in Late THEN NoSum ELSE 1]
    /\ table = "none"
    /\ hist = <<>>
    /\ eff = [s \in Scripts |-> [k \in Stmts |-> NoSum]]
    /\ ran = [s \in Scripts |-> [k \in Stmts |-> 0]]
    /\ pc = [r \in Runners |-> "idle"]
    /\ cmd = [r \in Runners |-> "status"]
    /\ at = [r \in Runners |-> 1]
    /\ stmt = [r \in Runners |-> 0]
    /\ existing = [r \in Runners |-> NoSum]
    /\ errors = [r \in Runners |-> FALSE]
    /\ exit = [r \in Runners |-> "none"]
    /\ starts = 0

AllIdle == \A r \in Runners : pc[r] = "idle"

-----------------------------------------------------------------------------
(* The migration directory changes between runs, with a deployment. *)

AddFile(s) ==
    /\ AllIdle
    /\ file[s] = NoSum
    /\ \/ "outOfOrder" \in Faults
       \/ \A t \in Versioned : t < s => file[t] # NoSum
    /\ file' = [file EXCEPT ![s] = 1]
    /\ UNCHANGED <<dbVars, pc, cmd, loopVars, exit, starts>>

EditFile(s, c) ==
    /\ AllIdle
    /\ file[s] # NoSum
    /\ c # file[s]
    /\ c > file[s] \/ "revert" \in Faults
    /\ file' = [file EXCEPT ![s] = c]
    /\ UNCHANGED <<dbVars, pc, cmd, loopVars, exit, starts>>

-----------------------------------------------------------------------------
(* One execution of the script. *)

Goto(r, p) == pc' = [pc EXCEPT ![r] = p]

\* The script ends with this status.
Exit(r, status) ==
    /\ Goto(r, "idle")
    /\ exit' = [exit EXCEPT ![r] = status]

\* Mutant of NextFile: the loop takes the previous file.
NextFileBehind(r) ==
    /\ Goto(r, "lookup")
    /\ at' = [at EXCEPT ![r] = @ - 1]
    /\ UNCHANGED exit

\* The loop goes on with the next file.
NextFile(r) ==
    /\ Goto(r, "lookup")
    /\ at' = [at EXCEPT ![r] = @ + 1]
    /\ UNCHANGED exit

Resetting == \E r \in Runners : pc[r] # "idle" /\ cmd[r] = "reset"

Start(r, c) ==
    /\ pc[r] = "idle"
    /\ starts < MaxStarts
    /\ \/ "resetRace" \in Faults
       \/ ~Resetting /\ (c = "reset" => AllIdle)
    /\ Goto(r, IF c = "reset" THEN "drop" ELSE "ensureTable")
    /\ cmd' = [cmd EXCEPT ![r] = c]
    /\ at' = [at EXCEPT ![r] = 1]
    /\ stmt' = [stmt EXCEPT ![r] = 0]
    /\ existing' = [existing EXCEPT ![r] = NoSum]
    /\ errors' = [errors EXCEPT ![r] = FALSE]
    /\ exit' = [exit EXCEPT ![r] = "none"]
    /\ starts' = starts + 1
    /\ UNCHANGED <<file, dbVars>>

\* pg_terminate_backend ends the psql of every other runner, and the database
\* goes with all it holds.
DropDatabase(r) ==
    /\ pc[r] = "drop"
    /\ table' = "nodb"
    /\ hist' = <<>>
    /\ eff' = [s \in Scripts |-> [k \in Stmts |-> NoSum]]
    /\ ran' = [s \in Scripts |-> [k \in Stmts |-> 0]]
    /\ pc' = [q \in Runners |->
                 IF q = r THEN "create"
                 ELSE IF pc[q] = "run" THEN "recordFail" ELSE pc[q]]
    /\ UNCHANGED <<file, cmd, loopVars, exit, starts>>

CreateDatabase(r) ==
    /\ pc[r] = "create"
    /\ table = "nodb"
    /\ table' = "none"
    /\ Goto(r, "ensureTable")
    /\ UNCHANGED <<file, hist, eff, ran, cmd, loopVars, exit, starts>>

\* CREATE TABLE IF NOT EXISTS flyway_schema_history
EnsureTable(r) ==
    /\ pc[r] = "ensureTable"
    /\ table # "nodb"
    /\ table' = IF table = "none" THEN "table" ELSE table
    /\ Goto(r, "ensureIndex")
    /\ UNCHANGED <<file, hist, eff, ran, cmd, loopVars, exit, starts>>

\* CREATE UNIQUE INDEX IF NOT EXISTS ... (script); `status` then only reads.
EnsureIndex(r) ==
    /\ pc[r] = "ensureIndex"
    /\ table \in {"table", "indexed"}
    /\ NoTwins
    /\ table' = "indexed"
    /\ IF cmd[r] = "status"
       THEN Exit(r, "0")
       ELSE Goto(r, "lookup") /\ UNCHANGED exit
    /\ UNCHANGED <<file, hist, eff, ran, cmd, loopVars, starts>>

-----------------------------------------------------------------------------
(* apply_versioned and apply_repeatable: the decision taken on a file. *)

Migrating(r) == cmd[r] \in {"migrate", "reset"}
AtVersioned(r) == pc[r] = "lookup" /\ Migrating(r) /\ at[r] \in Versioned
AtRepeatable(r) == pc[r] = "lookup" /\ Migrating(r) /\ at[r] \in Repeatable

\* The glob does not list the file.
SkipAbsent(r) ==
    /\ pc[r] = "lookup"
    /\ at[r] \in (IF Migrating(r) THEN Scripts ELSE Versioned)
    /\ file[at[r]] = NoSum
    /\ NextFile(r)
    /\ UNCHANGED <<file, dbVars, cmd, stmt, existing, errors, starts>>

\* `continue`: the recorded checksum is that of the file.
SkipUpToDate(r) ==
    /\ AtVersioned(r) \/ AtRepeatable(r)
    /\ file[at[r]] # NoSum
    /\ file[at[r]] \in Answers(at[r])
    /\ NextFile(r)
    /\ UNCHANGED <<file, dbVars, cmd, stmt, existing, errors, starts>>

\* Checksum mismatch for a versioned file: exit 1, nothing written.
RefuseModified(r) ==
    /\ AtVersioned(r)
    /\ file[at[r]] # NoSum
    /\ \E c \in Answers(at[r]) : c # NoSum /\ c # file[at[r]]
    /\ Exit(r, "1")
    /\ UNCHANGED <<file, dbVars, cmd, loopVars, starts>>

\* The script is given to psql.
BeginScript(r, c) ==
    /\ Goto(r, "run")
    /\ stmt' = [stmt EXCEPT ![r] = 0]
    /\ existing' = [existing EXCEPT ![r] = c]
    /\ UNCHANGED <<file, dbVars, cmd, at, errors, exit, starts>>

BeginVersioned(r) ==
    /\ AtVersioned(r)
    /\ file[at[r]] # NoSum
    /\ NoSum \in Answers(at[r])
    /\ BeginScript(r, NoSum)

BeginRepeatable(r) ==
    /\ AtRepeatable(r)
    /\ file[at[r]] # NoSum
    /\ \E c \in Answers(at[r]) : c # file[at[r]] /\ BeginScript(r, c)

-----------------------------------------------------------------------------
(* psql -q < script: statements commit one by one, ON_ERROR_STOP. *)

\* Statement k of s can succeed: a plain CREATE TABLE cannot run twice.
Runnable(s, k) == s \in Rerunnable \/ ran[s][k] = 0

\* What statement k leaves of the effects of s.
Effects(s, k) ==
    [j \in Stmts |-> IF j = k THEN file[s]
                     ELSE IF k = 1 /\ s \in Wiping THEN NoSum
                     ELSE eff[s][j]]

RunStmt(r) ==
    LET s == at[r]
        k == stmt[r] + 1
    IN  /\ pc[r] = "run"
        /\ table # "nodb"
        /\ k \in Stmts
        /\ Runnable(s, k)
        /\ ran' = [ran EXCEPT ![s][k] = @ + 1]
        /\ eff' = [eff EXCEPT ![s] = Effects(s, k)]
        /\ stmt' = [stmt EXCEPT ![r] = k]
        /\ UNCHANGED <<file, table, hist, pc, cmd, at, existing, errors, exit,
                       starts>>

\* Mutant of ScriptFails: psql without ON_ERROR_STOP ends with status 0.
ScriptFailsUnnoticed(r) ==
    /\ pc[r] = "run"
    /\ "stmt" \in Faults \/ table = "nodb"
    /\ Goto(r, "recordOk")
    /\ UNCHANGED <<file, dbVars, cmd, loopVars, exit, starts>>

\* psql reports an error; the connection may also be lost after the last
\* statement committed.
ScriptFails(r) ==
    /\ pc[r] = "run"
    /\ \/ "stmt" \in Faults
       \/ table = "nodb"
       \/ stmt[r] < NumStmts /\ ~Runnable(at[r], stmt[r] + 1)
    /\ Goto(r, "recordFail")
    /\ UNCHANGED <<file, dbVars, cmd, loopVars, exit, starts>>

ScriptEnds(r) ==
    /\ pc[r] = "run"
    /\ stmt[r] = NumStmts
    /\ Goto(r, "recordOk")
    /\ UNCHANGED <<file, dbVars, cmd, loopVars, exit, starts>>

-----------------------------------------------------------------------------
(* The row of the file. *)

RecordVersioned(r) ==
    /\ pc[r] = "recordOk"
    /\ at[r] \in Versioned
    /\ InsertAllowed(at[r])
    /\ Insert(at[r], TRUE)
    /\ NextFile(r)
    /\ UNCHANGED <<file, table, eff, ran, cmd, stmt, existing, errors, starts>>

RecordRepeatable(r) ==
    /\ pc[r] = "recordOk"
    /\ at[r] \in Repeatable
    /\ IF existing[r] = NoSum
       THEN InsertAllowed(at[r]) /\ Insert(at[r], TRUE)
       ELSE table \in {"table", "indexed"} /\ Update(at[r])
    /\ NextFile(r)
    /\ UNCHANGED <<file, table, eff, ran, cmd, stmt, existing, errors, starts>>

\* Mutant of RecordFailure: the loop goes on after a failed script.
RecordFailureGoesOn(r) ==
    /\ pc[r] = "recordFail"
    /\ at[r] \in Versioned
    /\ InsertAllowed(at[r])
    /\ Insert(at[r], FALSE)
    /\ NextFile(r)
    /\ UNCHANGED <<file, table, eff, ran, cmd, stmt, existing, errors, starts>>

\* A versioned file that failed leaves a row with success = false.
RecordFailure(r) ==
    /\ pc[r] = "recordFail"
    /\ at[r] \in Versioned
    /\ InsertAllowed(at[r])
    /\ Insert(at[r], FALSE)
    /\ Exit(r, "1")
    /\ UNCHANGED <<file, table, eff, ran, cmd, loopVars, starts>>

\* Mutant of GiveUpRepeatable: the row is refreshed though the file failed.
GiveUpRepeatableMarked(r) ==
    /\ pc[r] = "recordFail"
    /\ at[r] \in Repeatable
    /\ IF existing[r] = NoSum
       THEN InsertAllowed(at[r]) /\ Insert(at[r], TRUE)
       ELSE Update(at[r])
    /\ Exit(r, "1")
    /\ UNCHANGED <<file, table, eff, ran, cmd, loopVars, starts>>

\* Mutant of GiveUpRepeatable: a failed seed does not stop the loop.
GiveUpRepeatableGoesOn(r) ==
    /\ pc[r] = "recordFail"
    /\ at[r] \in Repeatable
    /\ NextFile(r)
    /\ UNCHANGED <<file, dbVars, cmd, stmt, existing, errors, starts>>

\* A repeatable file that failed leaves no trace.
GiveUpRepeatable(r) ==
    /\ pc[r] = "recordFail"
    /\ at[r] \in Repeatable
    /\ Exit(r, "1")
    /\ UNCHANGED <<file, dbVars, cmd, loopVars, starts>>

\* The write of the row is refused (the script has a row, or the table is
\* gone): set -e ends the runner.
RecordRefused(r) ==
    /\ \/ pc[r] = "recordOk"
          /\ IF at[r] \in Repeatable /\ existing[r] # NoSum
             THEN table \notin {"table", "indexed"}
             ELSE ~InsertAllowed(at[r])
       \/ pc[r] = "recordFail" /\ at[r] \in Versioned /\ ~InsertAllowed(at[r])
    /\ Exit(r, "1")
    /\ UNCHANGED <<file, dbVars, cmd, loopVars, starts>>

\* Both loops are over.
FinishMigrate(r) ==
    /\ pc[r] = "lookup"
    /\ Migrating(r)
    /\ at[r] \notin Scripts
    /\ Exit(r, "0")
    /\ UNCHANGED <<file, dbVars, cmd, loopVars, starts>>

-----------------------------------------------------------------------------
(* validate: the V*.sql loop, without writes. *)

\* Mutant of ValidateFile: only the presence of a row is looked at.
ValidateFilePresence(r) ==
    /\ pc[r] = "lookup"
    /\ cmd[r] = "validate"
    /\ at[r] \in Versioned
    /\ file[at[r]] # NoSum
    /\ \E c \in Answers(at[r]) :
           errors' = [errors EXCEPT ![r] = @ \/ c = NoSum]
    /\ NextFile(r)
    /\ UNCHANGED <<file, dbVars, cmd, stmt, existing, starts>>

ValidateFile(r) ==
    /\ pc[r] = "lookup"
    /\ cmd[r] = "validate"
    /\ at[r] \in Versioned
    /\ file[at[r]] # NoSum
    /\ \E c \in Answers(at[r]) :
           errors' = [errors EXCEPT ![r] = @ \/ c # file[at[r]]]
    /\ NextFile(r)
    /\ UNCHANGED <<file, dbVars, cmd, stmt, existing, starts>>

FinishValidate(r) ==
    /\ pc[r] = "lookup"
    /\ cmd[r] = "validate"
    /\ at[r] \notin Versioned
    /\ Exit(r, IF errors[r] THEN "1" ELSE "0")
    /\ UNCHANGED <<file, dbVars, cmd, loopVars, starts>>

-----------------------------------------------------------------------------
(* Failures outside the scripts. *)

\* A psql call that is not guarded fails: set -e ends the runner.
PsqlFails(r) ==
    /\ \/ /\ "psql" \in Faults
          /\ pc[r] \in {"drop", "create", "ensureTable", "ensureIndex",
                        "recordOk", "recordFail"}
       \/ pc[r] = "create" /\ table # "nodb"
       \/ pc[r] = "ensureTable" /\ table = "nodb"
       \/ pc[r] = "ensureIndex" /\ (table \in {"nodb", "none"} \/ ~NoTwins)
    /\ Exit(r, "1")
    /\ UNCHANGED <<file, dbVars, cmd, loopVars, starts>>

Crash(r) ==
    /\ "crash" \in Faults
    /\ pc[r] # "idle"
    /\ Exit(r, "killed")
    /\ UNCHANGED <<file, dbVars, cmd, loopVars, starts>>

-----------------------------------------------------------------------------
Step(r) ==
    \/ DropDatabase(r) \/ CreateDatabase(r)
    \/ EnsureTable(r) \/ EnsureIndex(r)
    \/ SkipAbsent(r) \/ SkipUpToDate(r) \/ RefuseModified(r)
    \/ BeginVersioned(r) \/ BeginRepeatable(r)
    \/ RunStmt(r) \/ ScriptFails(r) \/ ScriptEnds(r)
    \/ RecordVersioned(r) \/ RecordRepeatable(r)
    \/ RecordFailure(r) \/ GiveUpRepeatable(r) \/ RecordRefused(r)
    \/ FinishMigrate(r)
    \/ ValidateFile(r) \/ FinishValidate(r)
    \/ PsqlFails(r)

Next ==
    \/ \E s \in Scripts : AddFile(s)
    \/ \E s \in Scripts, c \in Sums : EditFile(s, c)
    \/ \E r \in Runners, c \in Commands : Start(r, c)
    \/ \E r \in Runners : Step(r)
    \/ \E r \in Runners : Crash(r)

Spec == Init /\ [][Next]_vars

-----------------------------------------------------------------------------
(* Properties. *)

\* Every variable has its type, and an execution counts its files from 1.
TypeOK ==
    /\ file \in [Scripts -> Sums \cup {NoSum}]
    /\ table \in {"nodb", "none", "table", "indexed"}
    /\ hist \in Seq(Rows)
    /\ eff \in [Scripts -> [Stmts -> Sums \cup {NoSum}]]
    /\ ran \in [Scripts -> [Stmts -> Nat]]
    /\ pc \in [Runners -> Phases]
    /\ cmd \in [Runners -> CommandKinds]
    /\ at \in [Runners -> Nat \ {0}]
    /\ stmt \in [Runners -> 0..NumStmts]
    /\ existing \in [Runners -> Sums \cup {NoSum}]
    /\ errors \in [Runners -> BOOLEAN]
    /\ exit \in [Runners -> Exits]
    /\ starts \in Nat

\* The history holds at most one row for a script, whatever runners overlap,
\* fail or crash: idx_flyway_script, and the order in which ensure_history_table
\* and the loops run, keep a second row out.
OneRowPerScript == NoTwins

\* Versioned scripts are recorded in version order: before any row of a script,
\* of success or of failure, stands a row of success of each lower version.
\* The loops of overlapping runners and their crashes cannot leave a gap.
AppliedInOrder ==
    \A i \in DOMAIN hist : hist[i].script \in Versioned =>
        \A t \in Versioned : t < hist[i].script =>
            \E j \in OkRanks(t) : j < i

\* A versioned script recorded as applied has had all its statements committed:
\* the row is written after the script, and a script that fails half way never
\* gets a row of success.
RecordedMeansApplied ==
    \A s \in Versioned : Recorded(s) => \A k \in Stmts : ran[s][k] > 0

\* A repeatable script whose row carries the checksum of the file has left all
\* its statements' effects in the database, from that text, when no runner is
\* at work: the runner will skip the file from then on.
UpToDateSeedIsIntact ==
    \A s \in Repeatable :
        AllIdle /\ file[s] # NoSum /\ RecordedAs(s, file[s]) =>
            \A k \in Stmts : eff[s][k] = file[s]

\* A migrate that ends with status 0 leaves every file of the tree recorded
\* with its present checksum.
SuccessfulMigrateIsComplete ==
    [][\A r \in Runners :
          exit'[r] = "0" /\ exit[r] # "0" /\ Migrating(r) =>
              \A s \in Scripts : file[s] # NoSum => RecordedAs(s, file[s])]_vars

\* A validate that ends with status 0 has found every versioned file recorded
\* with its present checksum, even while other runners work.
ValidatePassIsTrue ==
    [][\A r \in Runners :
          exit'[r] = "0" /\ exit[r] # "0" /\ cmd[r] = "validate" =>
              \A s \in Versioned : file[s] # NoSum => RecordedAs(s, file[s])]_vars

\* A versioned script that ran to its end gets its row of success when the
\* write of the row itself does not fail: a failed script, once repaired, can be
\* applied by running migrate again.
AppliedGetsRecorded ==
    [][\A r \in Runners :
          pc[r] = "recordOk" /\ pc'[r] # "recordOk" /\ at[r] \in Versioned =>
              Recorded(at[r])']_vars

AppliedScripts == {s \in Versioned : \A k \in Stmts : ran[s][k] > 0}
RecordedScripts == {s \in Versioned : Recorded(s)}

Log == INSTANCE MigrationLog WITH
    applied <- AppliedScripts, recorded <- RecordedScripts

\* The runner keeps the promise of MigrationLog for the versioned scripts:
\* applied in order, recorded once applied, neither undone but by a drop.
KeepsLog == Log!Spec

=============================================================================
