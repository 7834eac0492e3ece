---------------------------- MODULE FlywayProofs ----------------------------
(***************************************************************************)
(* Proofs about flyway.sh, for any number of runners, files, statements    *)
(* and executions, and for any faults but those a hypothesis excludes.     *)
(***************************************************************************)
EXTENDS Flyway, SequenceTheorems, TLAPS

-----------------------------------------------------------------------------
(* The history table. *)

\* INSERT adds a row at the end and moves no other.
LEMMA InsertProperties ==
    ASSUME hist \in Seq(Rows), NEW s \in Scripts, file[s] \in Sums,
           NEW ok \in BOOLEAN, Insert(s, ok)
    PROVE  /\ hist' \in Seq(Rows)
           /\ \E n \in Nat :
                 /\ n \notin DOMAIN hist
                 /\ DOMAIN hist' = DOMAIN hist \cup {n}
                 /\ \A i \in DOMAIN hist : i \in Nat /\ i < n /\ hist'[i] = hist[i]
                 /\ hist'[n] = [script |-> s, sum |-> file[s], ok |-> ok]
<1> DEFINE row == [script |-> s, sum |-> file[s], ok |-> ok]
<1>1. row \in Rows
  BY DEF Rows
<1>2. hist' = Append(hist, row)
  BY DEF Insert
<1> QED
  <2>1. hist' \in Seq(Rows) /\ Len(hist) \in Nat
    BY <1>1, <1>2, AppendProperties, LenProperties
  <2>2. DOMAIN hist = 1..Len(hist) /\ DOMAIN hist' = 1..(Len(hist) + 1)
    BY <1>1, <1>2, <2>1, AppendProperties, LenProperties
  <2>3. /\ \A i \in 1..Len(hist) : hist'[i] = hist[i]
        /\ hist'[Len(hist) + 1] = row
    BY <1>1, <1>2, AppendProperties
  <2> QED
    BY <2>1, <2>2, <2>3

\* UPDATE keeps the rows where they are, and the files they stand for.
LEMMA UpdateProperties ==
    ASSUME hist \in Seq(Rows), NEW s \in Scripts, file[s] \in Sums, Update(s)
    PROVE  /\ hist' \in Seq(Rows)
           /\ DOMAIN hist' = DOMAIN hist
           /\ \A i \in DOMAIN hist : hist'[i].script = hist[i].script
           /\ \A i \in DOMAIN hist : hist[i].script # s => hist'[i] = hist[i]
<1>1. /\ Len(hist) \in Nat
      /\ DOMAIN hist = 1..Len(hist)
      /\ \A i \in 1..Len(hist) : hist[i] \in Rows
  BY LenProperties, ElementOfSeq
<1>2. hist' \in [1..Len(hist) -> Rows]
  BY <1>1 DEF Update, Rows
<1>3. hist' \in Seq(Rows)
  BY <1>1, <1>2, SeqDef
<1>4. \A i \in DOMAIN hist : hist'[i].script = hist[i].script
  BY <1>1 DEF Update, Rows
<1> QED
  BY <1>1, <1>2, <1>3, <1>4 DEF Update

-----------------------------------------------------------------------------
(* Type correctness. *)

\* A runner that works on a script is a migrating one, and the script is in
\* the tree: the directory changes only between runs.
Writing == {"run", "recordOk", "recordFail"}

Working ==
    \A r \in Runners : pc[r] \in Writing =>
        /\ Migrating(r)
        /\ at[r] \in Scripts
        /\ file[at[r]] \in Sums

TypeInv == TypeOK /\ Working

\* An empty or missing database and a tree of scripts have the types.
LEMMA TypeInit == Init => TypeInv
BY ParametersAssumption, EmptySeq
   DEF Init, TypeInv, TypeOK, Working, Writing, Sums, NoSum, Phases,
       CommandKinds, Exits, Stmts

\* A lookup answers with a checksum that was recorded, or with nothing.
LEMMA AnswersType == TypeOK => \A s \in Scripts : Answers(s) \subseteq Sums \cup {NoSum}
<1> SUFFICES ASSUME TypeOK, NEW s \in Scripts, NEW c \in Answers(s), c # NoSum
             PROVE  c \in Sums
  OBVIOUS
<1>1. PICK i \in OkRanks(s) : c = hist[i].sum
  BY DEF Answers
<1>2. hist[i] \in Rows
  BY LenProperties, ElementOfSeq DEF OkRanks, TypeOK
<1> QED
  BY <1>1, <1>2 DEF Rows

\* No step of any runner, nor of the tree, leaves the types.
LEMMA TypeStep == TypeInv /\ [Next]_vars => TypeInv'
<1> SUFFICES ASSUME TypeInv, [Next]_vars
             PROVE  TypeInv'
  OBVIOUS
<1> USE DEF TypeInv, TypeOK, Working, Writing, Migrating,
        dbVars, loopVars, Phases, Exits, CommandKinds, Goto, Exit, NextFile
<1>1. ASSUME NEW s \in Scripts, AddFile(s)
      PROVE  TypeInv'
  BY <1>1, ParametersAssumption DEF AddFile, AllIdle, Sums, NoSum
<1>2. ASSUME NEW s \in Scripts, NEW c \in Sums, EditFile(s, c)
      PROVE  TypeInv'
  BY <1>2 DEF EditFile, AllIdle
<1>3. ASSUME NEW r \in Runners, NEW c \in Commands, Start(r, c)
      PROVE  TypeInv'
  BY <1>3, ParametersAssumption DEF Start
<1>4. ASSUME NEW r \in Runners, Step(r)
      PROVE  TypeInv'
  <2>1. CASE DropDatabase(r)
    BY <2>1, EmptySeq DEF DropDatabase
  <2>2. CASE CreateDatabase(r)
    BY <2>2 DEF CreateDatabase
  <2>3. CASE EnsureTable(r)
    BY <2>3 DEF EnsureTable
  <2>4. CASE EnsureIndex(r)
    BY <2>4 DEF EnsureIndex
  <2>5. CASE SkipAbsent(r) \/ SkipUpToDate(r)
    <3>1. /\ NextFile(r)
          /\ UNCHANGED <<file, dbVars, cmd, stmt, existing, errors, starts>>
      BY <2>5 DEF SkipAbsent, SkipUpToDate
    <3> QED
      BY <3>1
  <2>6. CASE RefuseModified(r)
    BY <2>6 DEF RefuseModified
  <2>7. CASE BeginVersioned(r)
    BY <2>7, ParametersAssumption
       DEF BeginVersioned, BeginScript, AtVersioned, Versioned, Scripts, Sums, NoSum
  <2>8. CASE BeginRepeatable(r)
    <3>1. at[r] \in Scripts
      BY <2>8, ParametersAssumption
         DEF BeginRepeatable, AtRepeatable, Repeatable, Scripts
    <3>2. PICK c \in Answers(at[r]) : BeginScript(r, c)
      BY <2>8 DEF BeginRepeatable
    <3>3. c \in Sums \cup {NoSum}
      BY <3>1, AnswersType
    <3>4. file[at[r]] \in Sums /\ Migrating(r)
      BY <2>8, <3>1 DEF BeginRepeatable, AtRepeatable
    <3>5. existing' \in [Runners -> Sums \cup {NoSum}]
      BY <3>2, <3>3 DEF BeginScript
    <3>6. stmt' \in [Runners -> 0..NumStmts]
      BY <3>2, ParametersAssumption DEF BeginScript
    <3> QED
      BY <3>1, <3>2, <3>4, <3>5, <3>6 DEF BeginScript
  <2>9. CASE RunStmt(r)
    <3> DEFINE s == at[r]
               k == stmt[r] + 1
    <3>1. s \in Scripts /\ file[s] \in Sums /\ k \in Stmts
      BY <2>9 DEF RunStmt
    <3>2. ran' \in [Scripts -> [Stmts -> Nat]]
      BY <2>9, <3>1 DEF RunStmt
    <3>3. Effects(s, k) \in [Stmts -> Sums \cup {NoSum}]
      BY <3>1 DEF Effects
    <3>4. eff' \in [Scripts -> [Stmts -> Sums \cup {NoSum}]]
      BY <2>9, <3>1, <3>3 DEF RunStmt
    <3>5. stmt' \in [Runners -> 0..NumStmts]
      BY <2>9, <3>1, ParametersAssumption DEF RunStmt, Stmts
    <3> QED
      BY <2>9, <3>2, <3>4, <3>5 DEF RunStmt
  <2>10. CASE ScriptFails(r) \/ ScriptEnds(r)
    BY <2>10 DEF ScriptFails, ScriptEnds
  <2>11. CASE RecordVersioned(r)
    <3>1. hist' \in Seq(Rows)
      BY <2>11, InsertProperties DEF RecordVersioned
    <3> QED
      BY <2>11, <3>1 DEF RecordVersioned
  <2>12. CASE RecordRepeatable(r)
    <3>1. hist' \in Seq(Rows)
      BY <2>12, InsertProperties, UpdateProperties DEF RecordRepeatable
    <3> QED
      BY <2>12, <3>1 DEF RecordRepeatable
  <2>13. CASE RecordFailure(r)
    <3>1. hist' \in Seq(Rows)
      BY <2>13, InsertProperties DEF RecordFailure
    <3> QED
      BY <2>13, <3>1 DEF RecordFailure
  <2>14. CASE GiveUpRepeatable(r) \/ RecordRefused(r)
    BY <2>14 DEF GiveUpRepeatable, RecordRefused
  <2>15. CASE FinishMigrate(r) \/ FinishValidate(r)
    BY <2>15 DEF FinishMigrate, FinishValidate
  <2>16. CASE ValidateFile(r)
    BY <2>16 DEF ValidateFile
  <2>17. CASE PsqlFails(r)
    BY <2>17 DEF PsqlFails
  <2> QED
    BY <1>4, <2>1, <2>2, <2>3, <2>4, <2>5, <2>6, <2>7, <2>8, <2>9, <2>10,
       <2>11, <2>12, <2>13, <2>14, <2>15, <2>16, <2>17 DEF Step
<1>5. ASSUME NEW r \in Runners, Crash(r)
      PROVE  TypeInv'
  BY <1>5 DEF Crash
<1>6. CASE UNCHANGED vars
  BY <1>6 DEF vars
<1> QED
  BY <1>1, <1>2, <1>3, <1>4, <1>5, <1>6 DEF Next

\* Every variable keeps its type, whatever the faults.
THEOREM TypeCorrect == Spec => []TypeOK
<1>1. Init => TypeInv
  BY TypeInit
<1>2. TypeInv /\ [Next]_vars => TypeInv'
  BY TypeStep
<1>3. TypeInv => TypeOK
  BY DEF TypeInv
<1> QED
  BY <1>1, <1>2, <1>3, PTL DEF Spec

-----------------------------------------------------------------------------
(***************************************************************************)
(* The inductive invariant of the safety theorems.  The environment is the *)
(* disciplined one: nobody resets a database other runners work on, and    *)
(* versions arrive in order.                                               *)
(***************************************************************************)
Disciplined == "resetRace" \notin Faults /\ "outOfOrder" \notin Faults

Opening == {"drop", "create", "ensureTable", "ensureIndex"}
Looping == {"lookup"} \cup Writing

\* A reset has the database for itself.
Exclusive ==
    \A r \in Runners : pc[r] # "idle" /\ cmd[r] = "reset" =>
        \A q \in Runners : q # r => pc[q] = "idle"

\* Before its loops a runner is at the first file, and only a reset drops.
Opened ==
    \A r \in Runners :
        /\ pc[r] \in Opening => at[r] = 1
        /\ pc[r] \in {"drop", "create"} => cmd[r] = "reset"

\* The loops run with the unique index in place.
Indexed ==
    \A r \in Runners :
        /\ pc[r] = "ensureIndex" => table \in {"table", "indexed"}
        /\ pc[r] \in Looping => table = "indexed"

\* The versions in the tree are the lowest ones.
TreeInOrder ==
    \A s \in Versioned, t \in Versioned :
        t < s /\ file[s] # NoSum => file[t] # NoSum

\* A migrating runner has left every version behind it recorded.
Passed ==
    \A r \in Runners : pc[r] \in Looping /\ Migrating(r) =>
        \A t \in Versioned : t < at[r] /\ file[t] # NoSum => Recorded(t)

\* What psql has committed of the script at hand.
Progress ==
    \A r \in Runners :
        /\ pc[r] = "run" => \A k \in 1..stmt[r] : ran[at[r]][k] > 0
        /\ pc[r] = "recordOk" => \A k \in Stmts : ran[at[r]][k] > 0

Control == Exclusive /\ Opened /\ Indexed /\ TreeInOrder

History ==
    /\ OneRowPerScript
    /\ AppliedInOrder
    /\ RecordedMeansApplied

SafeInv == TypeInv /\ Control /\ Passed /\ Progress /\ History

\* The invariant of the safety theorems holds before anybody has run.
LEMMA SafeInit == Disciplined /\ Init => SafeInv
<1> SUFFICES ASSUME Disciplined, Init
             PROVE  SafeInv
  OBVIOUS
<1>1. TypeInv
  BY TypeInit
<1>2. Exclusive /\ Opened /\ Indexed /\ Passed /\ Progress
  BY DEF Init, Exclusive, Opened, Indexed, Passed, Progress, Opening, Looping, Writing
<1>3. TreeInOrder
  BY LateAssumption, ParametersAssumption
     DEF Disciplined, Init, TreeInOrder, Versioned, Scripts, NoSum
<1>4. DOMAIN hist = {}
  BY DEF Init
<1>5. History
  BY <1>4 DEF History, OneRowPerScript, NoTwins, AppliedInOrder,
              RecordedMeansApplied, Recorded, OkRanks
<1> QED
  BY <1>1, <1>2, <1>3, <1>5 DEF SafeInv, Control

\* Who may change the history, the directory and the database.
LEMMA StepKinds ==
    ASSUME [Next]_vars
    PROVE  \/ /\ AllIdle
              /\ UNCHANGED <<dbVars, pc, cmd, loopVars, exit, starts>>
              /\ \E s \in Scripts :
                    \/ AddFile(s)
                    \/ \E c \in Sums : EditFile(s, c)
           \/ \E r \in Runners, c \in Commands : Start(r, c)
           \/ \E r \in Runners : Step(r) \/ Crash(r)
           \/ UNCHANGED vars
BY DEF Next, AddFile, EditFile

\* Resets stay alone, loops have their index, the tree has no gap.
LEMMA ControlStep ==
    ASSUME Disciplined, TypeInv, Control, [Next]_vars
    PROVE  Control'
<1> USE DEF TypeInv, TypeOK, Control, Exclusive, Opened, Indexed, TreeInOrder,
        Opening, Looping, Writing, dbVars, loopVars, Goto, Exit, NextFile
<1>1. CASE \E s \in Scripts : AddFile(s) \/ \E c \in Sums : EditFile(s, c)
  <2> PICK s \in Scripts : AddFile(s) \/ \E c \in Sums : EditFile(s, c)
    BY <1>1
  <2>1. TreeInOrder'
    <3>1. CASE AddFile(s)
      BY <3>1, ParametersAssumption
         DEF AddFile, Disciplined, Versioned, Scripts, Sums, NoSum
    <3>2. CASE \E c \in Sums : EditFile(s, c)
      BY <3>2, ParametersAssumption DEF EditFile, Versioned, Scripts, Sums, NoSum
    <3> QED
      BY <3>1, <3>2
  <2>2. UNCHANGED <<dbVars, pc, cmd, loopVars>>
    BY DEF AddFile, EditFile
  <2> QED
    BY <2>1, <2>2
<1>2. CASE \E r \in Runners, c \in Commands : Start(r, c)
  <2> PICK r \in Runners, c \in Commands : Start(r, c)
    BY <1>2
  <2>1. UNCHANGED <<file, table>> /\ pc[r] = "idle" /\ c \in CommandKinds
    BY ParametersAssumption DEF Start
  <2>2. /\ pc' = [pc EXCEPT ![r] = IF c = "reset" THEN "drop" ELSE "ensureTable"]
        /\ cmd' = [cmd EXCEPT ![r] = c]
        /\ at' = [at EXCEPT ![r] = 1]
    BY DEF Start
  <2>3. ~Resetting /\ (c = "reset" => AllIdle)
    BY DEF Start, Disciplined
  <2>4. Exclusive'
    BY <2>1, <2>2, <2>3 DEF Resetting, AllIdle
  <2> QED
    BY <2>1, <2>2, <2>4
<1>3. CASE \E r \in Runners : Step(r) \/ Crash(r)
  <2> PICK r \in Runners : Step(r) \/ Crash(r)
    BY <1>3
  <2>1. UNCHANGED <<file, cmd>>
    BY DEF Step, Crash, DropDatabase, CreateDatabase, EnsureTable, EnsureIndex,
        SkipAbsent, SkipUpToDate, RefuseModified, BeginVersioned,
        BeginRepeatable, BeginScript, RunStmt, ScriptFails, ScriptEnds,
        RecordVersioned, RecordRepeatable, RecordFailure, GiveUpRepeatable,
        RecordRefused, FinishMigrate, ValidateFile, FinishValidate, PsqlFails
  <2>2. CASE DropDatabase(r)
    BY <2>1, <2>2 DEF DropDatabase
  <2>3. CASE CreateDatabase(r)
    BY <2>1, <2>3 DEF CreateDatabase
  <2>4. CASE EnsureTable(r)
    BY <2>1, <2>4 DEF EnsureTable
  <2>5. CASE EnsureIndex(r)
    BY <2>1, <2>5 DEF EnsureIndex
  <2>6. CASE \/ SkipAbsent(r) \/ SkipUpToDate(r) \/ ValidateFile(r)
             \/ RecordVersioned(r) \/ RecordRepeatable(r)
    <3>1. table' = table /\ NextFile(r) /\ pc[r] \in Looping
      BY <2>6 DEF SkipAbsent, SkipUpToDate, AtVersioned, AtRepeatable,
         ValidateFile, RecordVersioned, RecordRepeatable
    <3> QED
      BY <2>1, <3>1
  <2>7. CASE \/ BeginVersioned(r) \/ BeginRepeatable(r) \/ ScriptEnds(r)
             \/ ScriptFails(r) \/ RunStmt(r)
    <3>1. /\ UNCHANGED <<table, at>>
          /\ pc[r] \in Looping
          /\ pc' = pc \/ \E p \in Looping : pc' = [pc EXCEPT ![r] = p]
      BY <2>7 DEF BeginVersioned, BeginRepeatable, BeginScript, AtVersioned,
         AtRepeatable, RunStmt, ScriptFails, ScriptEnds
    <3> QED
      BY <2>1, <3>1
  <2>8. CASE \/ RefuseModified(r) \/ RecordFailure(r) \/ GiveUpRepeatable(r)
             \/ RecordRefused(r) \/ FinishMigrate(r) \/ FinishValidate(r)
             \/ PsqlFails(r) \/ Crash(r)
    <3>1. UNCHANGED <<table, at>> /\ pc' = [pc EXCEPT ![r] = "idle"]
      BY <2>8 DEF RefuseModified, RecordFailure, GiveUpRepeatable, RecordRefused,
         FinishMigrate, FinishValidate, PsqlFails, Crash
    <3> QED
      BY <2>1, <3>1
  <2> QED
    BY <2>2, <2>3, <2>4, <2>5, <2>6, <2>7, <2>8 DEF Step
<1>4. CASE UNCHANGED vars
  BY <1>4 DEF vars
<1> QED
  BY <1>1, <1>2, <1>3, <1>4, StepKinds

\* A step writes the history by one INSERT or one UPDATE of the file at hand,
\* by dropping the database, or not at all.
LEMMA HistoryWrites ==
    ASSUME TypeInv, Control, [Next]_vars
    PROVE  \/ UNCHANGED hist
           \/ \E r \in Runners : DropDatabase(r)
           \/ \E r \in Runners, ok \in BOOLEAN :
                 /\ at[r] \in Scripts
                 /\ file[at[r]] \in Sums
                 /\ pc[r] \in {"recordOk", "recordFail"}
                 /\ ok => pc[r] = "recordOk"
                 /\ Insert(at[r], ok)
                 /\ \A i \in DOMAIN hist : hist[i].script # at[r]
                 /\ UNCHANGED <<file, ran>>
           \/ \E r \in Runners :
                 /\ at[r] \in Repeatable
                 /\ file[at[r]] \in Sums
                 /\ Update(at[r])
                 /\ UNCHANGED <<file, ran>>
<1>1. CASE \E r \in Runners : Step(r) \/ Crash(r)
  <2> PICK r \in Runners : Step(r) \/ Crash(r)
    BY <1>1
  <2>1. CASE RecordVersioned(r) \/ RecordFailure(r) \/ RecordRepeatable(r)
    <3>1. pc[r] \in {"recordOk", "recordFail"} /\ UNCHANGED <<file, ran>>
      BY <2>1 DEF RecordVersioned, RecordFailure, RecordRepeatable
    <3>2. at[r] \in Scripts /\ file[at[r]] \in Sums /\ table = "indexed"
      BY <3>1 DEF TypeInv, Working, Writing, Control, Indexed, Looping
    <3>3. CASE RecordVersioned(r) \/ RecordFailure(r)
      BY <3>1, <3>2, <3>3 DEF RecordVersioned, RecordFailure, InsertAllowed
    <3>4. CASE RecordRepeatable(r)
      BY <3>1, <3>2, <3>4 DEF RecordRepeatable, InsertAllowed
    <3> QED
      BY <2>1, <3>3, <3>4
  <2>2. CASE ~(\/ RecordVersioned(r) \/ RecordFailure(r) \/ RecordRepeatable(r)
               \/ DropDatabase(r))
    BY <2>2 DEF Step, Crash, CreateDatabase, EnsureTable, EnsureIndex,
        SkipAbsent, SkipUpToDate, RefuseModified, BeginVersioned,
        BeginRepeatable, BeginScript, RunStmt, ScriptFails, ScriptEnds,
        GiveUpRepeatable, RecordRefused, FinishMigrate, ValidateFile,
        FinishValidate, PsqlFails, dbVars
  <2> QED
    BY <2>1, <2>2
<1>2. CASE \E r \in Runners, c \in Commands : Start(r, c)
  BY <1>2 DEF Start, dbVars
<1> QED
  BY <1>1, <1>2, StepKinds DEF vars, dbVars

\* Rows of success of versioned files stay where they are, short of a drop.
LEMMA RecordsStay ==
    ASSUME TypeInv, Control, [Next]_vars, ~\E r \in Runners : DropDatabase(r)
    PROVE  \A t \in Versioned : OkRanks(t) \subseteq OkRanks(t)'
<1>1. hist \in Seq(Rows) /\ DOMAIN hist = 1..Len(hist) /\ Len(hist) \in Nat
  BY LenProperties DEF TypeInv, TypeOK
<1>2. CASE UNCHANGED hist
  BY <1>2 DEF OkRanks
<1>3. ASSUME NEW r \in Runners, NEW ok \in BOOLEAN, at[r] \in Scripts,
             file[at[r]] \in Sums, Insert(at[r], ok)
      PROVE  \A t \in Versioned : OkRanks(t) \subseteq OkRanks(t)'
  <2>1. DOMAIN hist \subseteq DOMAIN hist' /\ \A i \in DOMAIN hist : hist'[i] = hist[i]
    BY <1>1, <1>3, InsertProperties
  <2> QED
    BY <2>1 DEF OkRanks
<1>4. ASSUME NEW r \in Runners, at[r] \in Repeatable, file[at[r]] \in Sums,
             Update(at[r])
      PROVE  \A t \in Versioned : OkRanks(t) \subseteq OkRanks(t)'
  <2>1. at[r] \in Scripts /\ at[r] \notin Versioned
    BY <1>4, ParametersAssumption DEF Repeatable, Scripts, Versioned
  <2> QED
    BY <1>1, <1>4, <2>1, UpdateProperties DEF OkRanks
<1> QED
  BY <1>2, <1>3, <1>4, HistoryWrites

\* The rows stay unique, in order and true to what was applied.
LEMMA HistoryStep ==
    ASSUME TypeInv, Control, Passed, Progress, History, [Next]_vars
    PROVE  History'
<1> USE DEF History
<1>1. hist \in Seq(Rows) /\ DOMAIN hist = 1..Len(hist) /\ Len(hist) \in Nat
  BY LenProperties DEF TypeInv, TypeOK
<1>2. CASE \E r \in Runners : DropDatabase(r)
  <2>1. DOMAIN hist' = {}
    BY <1>2 DEF DropDatabase
  <2> QED
    BY <2>1 DEF OneRowPerScript, NoTwins, AppliedInOrder, RecordedMeansApplied,
                Recorded, OkRanks
<1>3. ASSUME ~\E r \in Runners : DropDatabase(r)
      PROVE  \A s \in Scripts, k \in Stmts : ran[s][k] > 0 => ran'[s][k] > 0
  <2>1. ASSUME NEW r \in Runners, RunStmt(r)
        PROVE  \A s \in Scripts, k \in Stmts : ran[s][k] > 0 => ran'[s][k] > 0
    BY <2>1 DEF RunStmt, TypeInv, TypeOK, Working, Writing
  <2>2. CASE ~\E r \in Runners : RunStmt(r)
    <3>1. ran' = ran
      BY <1>3, <2>2, StepKinds DEF vars, dbVars, Start, Step, Crash, CreateDatabase,
          EnsureTable, EnsureIndex, SkipAbsent, SkipUpToDate, RefuseModified,
          BeginVersioned, BeginRepeatable, BeginScript, ScriptFails, ScriptEnds,
          RecordVersioned, RecordRepeatable, RecordFailure, GiveUpRepeatable,
          RecordRefused, FinishMigrate, ValidateFile, FinishValidate, PsqlFails
    <3> QED
      BY <3>1
  <2> QED
    BY <2>1, <2>2
<1>4. CASE UNCHANGED hist /\ ~\E r \in Runners : DropDatabase(r)
  <2>1. OneRowPerScript' /\ AppliedInOrder'
    BY <1>4 DEF OneRowPerScript, NoTwins, AppliedInOrder, OkRanks
  <2>2. RecordedMeansApplied'
    BY <1>3, <1>4, ParametersAssumption
       DEF RecordedMeansApplied, Recorded, OkRanks, Versioned, Scripts
  <2> QED
    BY <2>1, <2>2
<1>5. ASSUME NEW r \in Runners, NEW ok \in BOOLEAN,
             at[r] \in Scripts, file[at[r]] \in Sums,
             pc[r] \in {"recordOk", "recordFail"}, ok => pc[r] = "recordOk",
             Insert(at[r], ok),
             \A i \in DOMAIN hist : hist[i].script # at[r],
             UNCHANGED <<file, ran>>,
             ~\E q \in Runners : DropDatabase(q)
      PROVE  History'
  <2>1. PICK n \in Nat :
           /\ n \notin DOMAIN hist
           /\ DOMAIN hist' = DOMAIN hist \cup {n}
           /\ \A i \in DOMAIN hist : i \in Nat /\ i < n /\ hist'[i] = hist[i]
           /\ hist'[n] = [script |-> at[r], sum |-> file[at[r]], ok |-> ok]
    BY <1>1, <1>5, InsertProperties
  <2>2. OneRowPerScript'
    BY <1>5, <2>1 DEF OneRowPerScript, NoTwins
  <2>3. AppliedInOrder'
    <3> SUFFICES ASSUME NEW i \in DOMAIN hist', hist'[i].script \in Versioned,
                        NEW t \in Versioned, t < hist'[i].script
                 PROVE  \E j \in OkRanks(t)' : j < i
      BY DEF AppliedInOrder
    <3>1. OkRanks(t) \subseteq OkRanks(t)'
      BY <1>5, RecordsStay
    <3>2. CASE i \in DOMAIN hist
      BY <2>1, <3>1, <3>2 DEF AppliedInOrder
    <3>3. CASE i = n
      <4>1. file[t] # NoSum
        BY <1>5, <2>1, <3>3 DEF Control, TreeInOrder, Sums, NoSum
      <4>2. Recorded(t)
        BY <1>5, <2>1, <3>3, <4>1 DEF Passed, Looping, Writing, TypeInv, Working
      <4>3. PICK j \in OkRanks(t) : j < n
        BY <2>1, <4>2 DEF Recorded, OkRanks
      <4> QED
        BY <3>1, <3>3, <4>3
    <3> QED
      BY <2>1, <3>2, <3>3
  <2>4. RecordedMeansApplied'
    <3> SUFFICES ASSUME NEW s \in Versioned, Recorded(s)', NEW k \in Stmts
                 PROVE  ran[s][k] > 0
      BY <1>5 DEF RecordedMeansApplied
    <3>1. PICK i \in DOMAIN hist' : hist'[i].script = s /\ hist'[i].ok
      BY <2>1 DEF Recorded, OkRanks
    <3>2. CASE i \in DOMAIN hist
      BY <2>1, <3>1, <3>2 DEF RecordedMeansApplied, Recorded, OkRanks
    <3>3. CASE i = n
      BY <1>5, <2>1, <3>1, <3>3 DEF Progress
    <3> QED
      BY <2>1, <3>2, <3>3
  <2> QED
    BY <2>2, <2>3, <2>4
<1>6. ASSUME NEW r \in Runners, at[r] \in Repeatable, file[at[r]] \in Sums,
             Update(at[r]), UNCHANGED <<file, ran>>
      PROVE  History'
  <2>1. at[r] \in Scripts /\ at[r] \notin Versioned
    BY <1>6, ParametersAssumption DEF Repeatable, Scripts, Versioned
  <2>2. /\ DOMAIN hist' = DOMAIN hist
        /\ \A i \in DOMAIN hist : hist'[i].script = hist[i].script
        /\ \A i \in DOMAIN hist :
              hist[i].script \in Versioned => hist'[i] = hist[i]
    BY <1>1, <1>6, <2>1, UpdateProperties
  <2>3. \A t \in Versioned : OkRanks(t)' = OkRanks(t)
    BY <2>2 DEF OkRanks
  <2>4. OneRowPerScript'
    BY <2>2 DEF OneRowPerScript, NoTwins
  <2>5. AppliedInOrder'
    BY <2>2, <2>3 DEF AppliedInOrder
  <2>6. RecordedMeansApplied'
    BY <1>6, <2>3 DEF RecordedMeansApplied, Recorded
  <2> QED
    BY <2>4, <2>5, <2>6
<1> QED
  BY <1>2, <1>4, <1>5, <1>6, HistoryWrites

\* What a runner has counted as committed has committed, and stays so.
LEMMA ProgressStep ==
    ASSUME TypeInv, Control, Progress, [Next]_vars
    PROVE  Progress'
<1> USE DEF TypeInv, TypeOK, Progress, dbVars, loopVars, Goto, Exit, NextFile
<1>1. CASE \E r \in Runners, c \in Commands : Start(r, c)
  BY <1>1 DEF Start
<1>2. CASE \E r \in Runners : Step(r) \/ Crash(r)
  <2> PICK r \in Runners : Step(r) \/ Crash(r)
    BY <1>2
  <2>1. CASE DropDatabase(r)
    BY <2>1 DEF DropDatabase, Control, Exclusive, Opened
  <2>2. CASE RunStmt(r)
    <3> DEFINE s == at[r]
               k == stmt[r] + 1
    <3>1. s \in Scripts /\ k \in Stmts
      BY <2>2 DEF RunStmt, Working, Writing
    <3>2. /\ ran' = [ran EXCEPT ![s][k] = @ + 1]
          /\ stmt' = [stmt EXCEPT ![r] = k]
          /\ UNCHANGED <<pc, at>>
      BY <2>2 DEF RunStmt
    <3>3. \A q \in Scripts, j \in Stmts : ran[q][j] > 0 => ran'[q][j] > 0
      BY <3>1, <3>2
    <3>4. ran'[s][k] > 0
      BY <3>1, <3>2
    <3>5. \A q \in Runners : pc[q] \in Writing => at[q] \in Scripts
      BY DEF Working
    <3>6. \A q \in Runners : 1..stmt[q] \subseteq Stmts
      BY ParametersAssumption DEF Stmts
    <3> QED
      BY <3>1, <3>2, <3>3, <3>4, <3>5, <3>6 DEF Writing
  <2>3. CASE BeginVersioned(r) \/ BeginRepeatable(r)
    <3>1. /\ UNCHANGED <<ran, at>>
          /\ pc' = [pc EXCEPT ![r] = "run"]
          /\ stmt' = [stmt EXCEPT ![r] = 0]
      BY <2>3 DEF BeginVersioned, BeginRepeatable, BeginScript
    <3> QED
      BY <3>1
  <2>4. CASE ScriptEnds(r)
    BY <2>4 DEF ScriptEnds, Stmts
  <2>5. CASE ~(\/ DropDatabase(r) \/ RunStmt(r) \/ BeginVersioned(r)
               \/ BeginRepeatable(r) \/ ScriptEnds(r))
    <3>1. /\ UNCHANGED <<ran, stmt>>
          /\ \E p \in Phases \ {"run", "recordOk"} : pc' = [pc EXCEPT ![r] = p]
          /\ \A q \in Runners \ {r} : at'[q] = at[q]
      BY <2>5 DEF Phases, Step, Crash, CreateDatabase, EnsureTable, EnsureIndex,
          SkipAbsent, SkipUpToDate, RefuseModified, ScriptFails,
          RecordVersioned, RecordRepeatable, RecordFailure, GiveUpRepeatable,
          RecordRefused, FinishMigrate, ValidateFile, FinishValidate, PsqlFails
    <3> QED
      BY <3>1
  <2> QED
    BY <2>1, <2>2, <2>3, <2>4, <2>5
<1> QED
  BY <1>1, <1>2, StepKinds DEF vars

\* A runner passes a version only if it is recorded, and no other runner takes
\* the record away.
LEMMA PassedStep ==
    ASSUME TypeInv, Control, Passed, [Next]_vars
    PROVE  Passed'
<1> USE DEF TypeInv, TypeOK, dbVars, loopVars, Goto, Exit, NextFile
<1>1. CASE AllIdle /\ UNCHANGED pc
  BY <1>1 DEF AllIdle, Passed, Looping, Writing
<1>2. CASE \E r \in Runners, c \in Commands : Start(r, c)
  BY <1>2 DEF Start, Passed, Looping, Writing, Migrating, Recorded, OkRanks
<1>3. CASE \E r \in Runners : DropDatabase(r)
  BY <1>3 DEF DropDatabase, Passed, Looping, Writing, Control, Exclusive, Opened
<1>4. ASSUME NEW r \in Runners, Step(r) \/ Crash(r), ~DropDatabase(r),
             ~\E q \in Runners : DropDatabase(q)
      PROVE  Passed'
  <2>1. /\ UNCHANGED <<file, cmd>>
        /\ \A q \in Runners \ {r} : pc'[q] = pc[q] /\ at'[q] = at[q]
    BY <1>4 DEF Step, Crash, CreateDatabase, EnsureTable, EnsureIndex,
        SkipAbsent, SkipUpToDate, RefuseModified, BeginVersioned,
        BeginRepeatable, BeginScript, RunStmt, ScriptFails, ScriptEnds,
        RecordVersioned, RecordRepeatable, RecordFailure, GiveUpRepeatable,
        RecordRefused, FinishMigrate, ValidateFile, FinishValidate, PsqlFails
  <2>2. \A t \in Versioned : Recorded(t) => Recorded(t)'
    BY <1>4, RecordsStay DEF Recorded
  <2> SUFFICES ASSUME pc'[r] \in Looping, Migrating(r),
                      NEW t \in Versioned, t < at'[r], file[t] # NoSum
               PROVE  Recorded(t)'
    BY <2>1, <2>2 DEF Passed, Migrating
  <2>3. CASE EnsureIndex(r)
    BY <2>3, ParametersAssumption
       DEF EnsureIndex, Control, Opened, Opening, Versioned
  <2>4. CASE \/ SkipAbsent(r) \/ SkipUpToDate(r) \/ ValidateFile(r)
             \/ RecordVersioned(r) \/ RecordRepeatable(r)
    <3>1. pc[r] \in Looping /\ at'[r] = at[r] + 1
      BY <2>4 DEF SkipAbsent, SkipUpToDate, AtVersioned, AtRepeatable, ValidateFile,
         RecordVersioned, RecordRepeatable, Looping, Writing
    <3>2. CASE t < at[r]
      BY <2>2, <3>1, <3>2 DEF Passed
    <3>3. CASE t = at[r]
      <4>1. CASE SkipAbsent(r)
        BY <3>3, <4>1 DEF SkipAbsent
      <4>2. CASE SkipUpToDate(r)
        <5>1. file[t] \in Answers(t)
          BY <3>3, <4>2 DEF SkipUpToDate
        <5> QED
          BY <2>2, <5>1 DEF Answers, Recorded
      <4>3. CASE ValidateFile(r)
        BY <4>3 DEF ValidateFile, Migrating
      <4>4. CASE RecordVersioned(r)
        <5>1. t \in Scripts /\ file[t] \in Sums /\ Insert(t, TRUE)
          BY <3>3, <4>4 DEF RecordVersioned, Working, Writing
        <5>2. PICK n \in DOMAIN hist' :
                 hist'[n] = [script |-> t, sum |-> file[t], ok |-> TRUE]
          BY <5>1, InsertProperties
        <5>3. hist'[n].script = t /\ hist'[n].ok
          BY <5>2
        <5>4. n \in OkRanks(t)'
          BY <5>2, <5>3 DEF OkRanks
        <5> QED
          BY <5>4 DEF Recorded
      <4>5. CASE RecordRepeatable(r)
        BY <3>3, <4>5, ParametersAssumption
           DEF RecordRepeatable, Repeatable, Versioned
      <4> QED
        BY <2>4, <4>1, <4>2, <4>3, <4>4, <4>5
    <3>4. t \in Nat /\ at[r] \in Nat
      BY ParametersAssumption DEF Versioned
    <3> QED
      BY <3>1, <3>2, <3>3, <3>4
  <2>5. CASE ~(\/ EnsureIndex(r) \/ SkipAbsent(r) \/ SkipUpToDate(r)
               \/ ValidateFile(r) \/ RecordVersioned(r) \/ RecordRepeatable(r))
    <3>1. at' = at /\ pc[r] \in Looping
      BY <1>4, <2>5 DEF Step, Crash, CreateDatabase, EnsureTable, RefuseModified,
          BeginVersioned, AtVersioned, BeginRepeatable, AtRepeatable,
          BeginScript, RunStmt, ScriptFails, ScriptEnds, RecordFailure,
          GiveUpRepeatable, RecordRefused, FinishMigrate, FinishValidate,
          PsqlFails, Looping, Writing
    <3> QED
      BY <2>2, <3>1 DEF Passed
  <2> QED
    BY <2>3, <2>4, <2>5
<1>5. CASE UNCHANGED vars
  BY <1>5 DEF vars, Passed, Looping, Writing, Migrating, Recorded, OkRanks
<1> QED
  BY <1>1, <1>2, <1>3, <1>4, <1>5, StepKinds

\* Every step keeps the invariant of the safety theorems.
LEMMA SafeStep == Disciplined /\ SafeInv /\ [Next]_vars => SafeInv'
BY TypeStep, ControlStep, PassedStep, ProgressStep, HistoryStep DEF SafeInv

\* In a disciplined environment the inductive invariant holds whatever fails.
THEOREM Safety == ASSUME Disciplined PROVE Spec => []SafeInv
<1>1. Init => SafeInv
  BY SafeInit
<1>2. SafeInv /\ [Next]_vars => SafeInv'
  BY SafeStep
<1> QED
  BY <1>1, <1>2, PTL DEF Spec

\* However many runners overlap, fail and crash, a script has at most one row.
THEOREM OneRow == ASSUME Disciplined PROVE Spec => []OneRowPerScript
<1>1. SafeInv => OneRowPerScript
  BY DEF SafeInv, History
<1> QED
  BY <1>1, Safety, PTL

\* Versions are recorded without a gap, in their order.
THEOREM Order == ASSUME Disciplined PROVE Spec => []AppliedInOrder
<1>1. SafeInv => AppliedInOrder
  BY DEF SafeInv, History
<1> QED
  BY <1>1, Safety, PTL

\* A row of success stands for a script whose statements have all committed.
THEOREM Applied == ASSUME Disciplined PROVE Spec => []RecordedMeansApplied
<1>1. SafeInv => RecordedMeansApplied
  BY DEF SafeInv, History
<1> QED
  BY <1>1, Safety, PTL

-----------------------------------------------------------------------------
(* The runner implements MigrationLog. *)

\* A runner's initial database is an empty log.
LEMMA LogInit == Init => Log!Init
<1> SUFFICES ASSUME Init PROVE Log!Init
  OBVIOUS
<1>1. RecordedScripts = {}
  BY DEF Init, RecordedScripts, Recorded, OkRanks
<1>2. AppliedScripts = {}
  BY ParametersAssumption DEF Init, AppliedScripts, Versioned, Scripts, Stmts
<1> QED
  BY <1>1, <1>2 DEF Log!Init

\* Each step applies one version, records one, wipes the log, or leaves it alone.
LEMMA LogStep ==
    ASSUME SafeInv, [Next]_vars
    PROVE  [Log!Next]_(Log!logVars)
<1> USE DEF SafeInv
<1>1. Log!Versioned = Versioned
  BY DEF Log!Versioned, Versioned
<1>2. CASE \E r \in Runners : DropDatabase(r)
  <2>1. RecordedScripts' = {}
    BY <1>2 DEF DropDatabase, RecordedScripts, Recorded, OkRanks
  <2>2. AppliedScripts' = {}
    BY <1>2, ParametersAssumption
       DEF DropDatabase, AppliedScripts, Versioned, Scripts, Stmts
  <2> QED
    BY <2>1, <2>2 DEF Log!Next, Log!Wipe
<1>3. ASSUME NEW r \in Runners, RunStmt(r)
      PROVE  [Log!Next]_(Log!logVars)
  <2> DEFINE s == at[r]
             k == stmt[r] + 1
  <2>1. /\ s \in Scripts
        /\ file[s] # NoSum
        /\ k \in Stmts
        /\ Migrating(r)
        /\ pc[r] \in Looping
    BY <1>3 DEF RunStmt, TypeInv, Working, Writing, Looping, Sums, NoSum
  <2>2. RecordedScripts' = RecordedScripts
    BY <1>3 DEF RunStmt, RecordedScripts, Recorded, OkRanks
  <2>3. /\ ran' = [ran EXCEPT ![s][k] = @ + 1]
        /\ ran \in [Scripts -> [Stmts -> Nat]]
        /\ Versioned \subseteq Scripts
    BY <1>3, ParametersAssumption
       DEF RunStmt, TypeInv, TypeOK, Versioned, Scripts
  <2>4. \A q \in Versioned \ {s} : q \in AppliedScripts' <=> q \in AppliedScripts
    BY <2>1, <2>3 DEF AppliedScripts
  <2>5. s \in AppliedScripts => s \in AppliedScripts'
    BY <2>1, <2>3 DEF AppliedScripts
  <2>6. AppliedScripts \subseteq Versioned /\ AppliedScripts' \subseteq Versioned
    BY DEF AppliedScripts
  <2>7. CASE s \in AppliedScripts' \ AppliedScripts
    <3>1. s \in Versioned
      BY <2>6, <2>7
    <3>2. AppliedScripts' = AppliedScripts \cup {s}
      BY <2>4, <2>6, <2>7
    <3>3. \A t \in Versioned : t < s => t \in RecordedScripts
      BY <2>1, <3>1 DEF Control, TreeInOrder, Passed, RecordedScripts
    <3> QED
      BY <1>1, <2>2, <2>7, <3>1, <3>2, <3>3 DEF Log!Next, Log!Apply
  <2>8. CASE s \notin AppliedScripts' \ AppliedScripts
    <3>1. AppliedScripts' = AppliedScripts
      BY <2>4, <2>5, <2>6, <2>8
    <3> QED
      BY <2>2, <3>1 DEF Log!logVars
  <2> QED
    BY <2>7, <2>8
<1>4. ASSUME ~\E r \in Runners : DropDatabase(r) \/ RunStmt(r)
      PROVE  [Log!Next]_(Log!logVars)
  <2>1. ran' = ran
    BY <1>4, StepKinds DEF vars, dbVars, Start, Step, Crash, CreateDatabase,
        EnsureTable, EnsureIndex, SkipAbsent, SkipUpToDate, RefuseModified,
        BeginVersioned, BeginRepeatable, BeginScript, ScriptFails, ScriptEnds,
        RecordVersioned, RecordRepeatable, RecordFailure, GiveUpRepeatable,
        RecordRefused, FinishMigrate, ValidateFile, FinishValidate, PsqlFails
  <2>2. AppliedScripts' = AppliedScripts
    BY <2>1 DEF AppliedScripts
  <2>3. hist \in Seq(Rows)
    BY DEF TypeInv, TypeOK
  <2>4. CASE UNCHANGED hist
    BY <2>2, <2>4 DEF Log!logVars, RecordedScripts, Recorded, OkRanks
  <2>5. ASSUME NEW r \in Runners, NEW ok \in BOOLEAN, at[r] \in Scripts,
               file[at[r]] \in Sums, ok => pc[r] = "recordOk",
               Insert(at[r], ok),
               \A i \in DOMAIN hist : hist[i].script # at[r]
        PROVE  [Log!Next]_(Log!logVars)
    <3> PICK s \in Scripts : s = at[r]
      BY <2>5
    <3>1. PICK n \in Nat :
             /\ n \notin DOMAIN hist
             /\ DOMAIN hist' = DOMAIN hist \cup {n}
             /\ \A i \in DOMAIN hist : i \in Nat /\ i < n /\ hist'[i] = hist[i]
             /\ hist'[n] = [script |-> s, sum |-> file[s], ok |-> ok]
      BY <2>3, <2>5, InsertProperties
    <3>2. hist'[n].script = s /\ hist'[n].ok = ok
      BY <3>1
    <3>3. \A t \in Versioned \ {s} : Recorded(t)' <=> Recorded(t)
      BY <3>1, <3>2 DEF Recorded, OkRanks
    <3>4. ~Recorded(s)
      BY <2>5 DEF Recorded, OkRanks
    <3>5. Recorded(s)' => ok
      BY <2>5, <3>1, <3>2 DEF Recorded, OkRanks
    <3>6. CASE s \in Versioned /\ Recorded(s)'
      <4>1. s \in AppliedScripts
        BY <2>5, <3>5, <3>6 DEF Progress, AppliedScripts
      <4>2. RecordedScripts' = RecordedScripts \cup {s}
        BY <3>3, <3>6 DEF RecordedScripts
      <4>3. s \notin RecordedScripts
        BY <3>4 DEF RecordedScripts
      <4> QED
        BY <1>1, <2>2, <3>6, <4>1, <4>2, <4>3 DEF Log!Next, Log!Record
    <3>7. CASE ~(s \in Versioned /\ Recorded(s)')
      <4>1. RecordedScripts' = RecordedScripts
        BY <3>3, <3>4, <3>7 DEF RecordedScripts
      <4> QED
        BY <2>2, <4>1 DEF Log!logVars
    <3> QED
      BY <3>6, <3>7
  <2>6. ASSUME NEW r \in Runners, at[r] \in Repeatable, file[at[r]] \in Sums,
               Update(at[r])
        PROVE  [Log!Next]_(Log!logVars)
    <3>1. at[r] \in Scripts /\ at[r] \notin Versioned
      BY <2>6, ParametersAssumption DEF Repeatable, Scripts, Versioned
    <3>2. \A t \in Versioned : OkRanks(t)' = OkRanks(t)
      BY <2>3, <2>6, <3>1, UpdateProperties DEF OkRanks
    <3>3. RecordedScripts' = RecordedScripts
      BY <3>2 DEF RecordedScripts, Recorded
    <3> QED
      BY <2>2, <3>3 DEF Log!logVars
  <2> QED
    BY <1>4, <2>4, <2>5, <2>6, HistoryWrites
<1> QED
  BY <1>2, <1>3, <1>4

\* Versioned scripts are applied in order, recorded once applied, and neither
\* is undone but by a drop, whatever overlaps, fails or crashes.
THEOREM Refinement == ASSUME Disciplined PROVE Spec => KeepsLog
<1>1. Init => Log!Init
  BY LogInit
<1>2. SafeInv /\ [Next]_vars => [Log!Next]_(Log!logVars)
  BY LogStep
<1> QED
  BY <1>1, <1>2, Safety, PTL DEF Spec, KeepsLog, Log!Spec
-----------------------------------------------------------------------------
(* A run that ends with status 0 has told the truth. *)

\* The files the loops of a runner visit.
Visited(r) == IF Migrating(r) THEN Scripts ELSE Versioned

\* If s is in the tree, it is recorded with its present checksum.
UpToDate(s) == file[s] # NoSum => RecordedAs(s, file[s])

\* Every file behind a runner is up to date, but for those a validation
\* has found wrong.
Seen ==
    \A r \in Runners : pc[r] \in Looping /\ (Migrating(r) \/ ~errors[r]) =>
        \A s \in Visited(r) : s < at[r] => UpToDate(s)

\* A runner that goes to update a row has one to update.
RowFound ==
    \A r \in Runners :
        pc[r] \in Writing /\ at[r] \in Repeatable /\ existing[r] # NoSum =>
            \E i \in DOMAIN hist : hist[i].script = at[r]

TruthInv == SafeInv /\ Seen /\ RowFound

\* A row of a file keeps the file's checksum whatever runners write, and a file
\* that has a row keeps one.
LEMMA UpToDateStays ==
    ASSUME TypeInv, Control, [Next]_vars, ~\E r \in Runners : DropDatabase(r),
           UNCHANGED file, NEW s \in Scripts
    PROVE  /\ UpToDate(s) => UpToDate(s)'
           /\ (\E i \in DOMAIN hist : hist[i].script = s)
                 => \E i \in DOMAIN hist' : hist'[i].script = s
<1>1. hist \in Seq(Rows) /\ DOMAIN hist = 1..Len(hist) /\ Len(hist) \in Nat
  BY LenProperties DEF TypeInv, TypeOK
<1>2. CASE UNCHANGED hist
  BY <1>2 DEF UpToDate, RecordedAs, OkRanks
<1>3. ASSUME NEW r \in Runners, NEW ok \in BOOLEAN, at[r] \in Scripts,
             file[at[r]] \in Sums, Insert(at[r], ok)
      PROVE  /\ UpToDate(s) => UpToDate(s)'
             /\ (\E i \in DOMAIN hist : hist[i].script = s)
                   => \E i \in DOMAIN hist' : hist'[i].script = s
  <2>1. DOMAIN hist \subseteq DOMAIN hist' /\ \A i \in DOMAIN hist : hist'[i] = hist[i]
    BY <1>1, <1>3, InsertProperties
  <2> QED
    BY <2>1 DEF UpToDate, RecordedAs, OkRanks
<1>4. ASSUME NEW r \in Runners, at[r] \in Repeatable, file[at[r]] \in Sums,
             Update(at[r])
      PROVE  /\ UpToDate(s) => UpToDate(s)'
             /\ (\E i \in DOMAIN hist : hist[i].script = s)
                   => \E i \in DOMAIN hist' : hist'[i].script = s
  <2>1. at[r] \in Scripts
    BY <1>4, ParametersAssumption DEF Repeatable, Scripts
  <2>2. /\ DOMAIN hist' = DOMAIN hist
        /\ \A i \in DOMAIN hist : hist'[i].script = hist[i].script
        /\ \A i \in DOMAIN hist : hist[i].script # at[r] => hist'[i] = hist[i]
    BY <1>1, <1>4, <2>1, UpdateProperties
  <2>3. \A i \in DOMAIN hist : hist[i].script = at[r] =>
            hist'[i].ok /\ hist'[i].sum = file[at[r]]
    BY <1>4 DEF Update
  <2> QED
    BY <2>2, <2>3 DEF UpToDate, RecordedAs, OkRanks
<1> QED
  BY <1>2, <1>3, <1>4, HistoryWrites

\* The row of the file at hand is written with the file's checksum.
LEMMA RecordMakesUpToDate ==
    ASSUME TypeInv, RowFound, NEW r \in Runners, NEW s \in Scripts, s = at[r],
           RecordVersioned(r) \/ RecordRepeatable(r)
    PROVE  UpToDate(s)'
<1>1. /\ hist \in Seq(Rows)
      /\ file[s] \in Sums
      /\ UNCHANGED file
  BY DEF RecordVersioned, RecordRepeatable, TypeInv, TypeOK, Working, Writing
<1>2. CASE Insert(s, TRUE)
  <2>1. PICK n \in DOMAIN hist' :
           hist'[n] = [script |-> s, sum |-> file[s], ok |-> TRUE]
    BY <1>1, <1>2, InsertProperties
  <2>2. hist'[n].script = s /\ hist'[n].ok /\ hist'[n].sum = file[s]
    BY <2>1
  <2>3. \E i \in DOMAIN hist' :
           hist'[i].script = s /\ hist'[i].ok /\ hist'[i].sum = file[s]
    BY <2>1, <2>2
  <2> QED
    BY <1>1, <2>3 DEF UpToDate, RecordedAs, OkRanks, RecordVersioned, RecordRepeatable
<1>3. CASE RecordRepeatable(r) /\ existing[r] # NoSum
  <2>1. Update(s) /\ pc[r] \in Writing /\ s \in Repeatable
    BY <1>3 DEF RecordRepeatable, Writing
  <2>2. PICK i \in DOMAIN hist : hist[i].script = s
    BY <1>3, <2>1 DEF RowFound
  <2>3. /\ i \in DOMAIN hist'
        /\ hist'[i] = [script |-> s, sum |-> file[s], ok |-> TRUE]
    BY <2>1, <2>2 DEF Update
  <2>4. \E j \in DOMAIN hist' :
           hist'[j].script = s /\ hist'[j].ok /\ hist'[j].sum = file[s]
    BY <2>3
  <2> QED
    BY <1>1, <1>3, <2>4 DEF UpToDate, RecordedAs, OkRanks, RecordRepeatable
<1> QED
  BY <1>2, <1>3 DEF RecordVersioned, RecordRepeatable

\* No lookup, write or step of another runner leaves a file behind that is not
\* up to date.
LEMMA SeenStep ==
    ASSUME TypeInv, Control, Seen, RowFound, [Next]_vars
    PROVE  Seen'
<1> USE DEF TypeInv, TypeOK, dbVars, loopVars, Goto, Exit, NextFile
<1>1. CASE AllIdle /\ UNCHANGED pc
  BY <1>1 DEF AllIdle, Seen, Looping, Writing
<1>2. CASE \E r \in Runners, c \in Commands : Start(r, c)
  <2> PICK r \in Runners, c \in Commands : Start(r, c)
    BY <1>2
  <2>1. /\ pc'[r] \notin Looping
        /\ \A q \in Runners \ {r} : /\ pc'[q] = pc[q]
                                    /\ cmd'[q] = cmd[q]
                                    /\ at'[q] = at[q]
                                    /\ errors'[q] = errors[q]
    BY DEF Start, Looping, Writing
  <2>2. \A s : UpToDate(s)' = UpToDate(s)
    BY DEF Start, UpToDate, RecordedAs, OkRanks
  <2> QED
    BY <2>1, <2>2 DEF Seen, Visited, Migrating
<1>3. CASE \E r \in Runners : DropDatabase(r)
  BY <1>3 DEF DropDatabase, Seen, Looping, Writing, Control, Exclusive, Opened
<1>4. ASSUME NEW r \in Runners, Step(r) \/ Crash(r),
             ~\E q \in Runners : DropDatabase(q)
      PROVE  Seen'
  <2>1. /\ UNCHANGED <<file, cmd>>
        /\ \A q \in Runners \ {r} : /\ pc'[q] = pc[q]
                                    /\ at'[q] = at[q]
                                    /\ errors'[q] = errors[q]
    BY <1>4 DEF Step, Crash, CreateDatabase, EnsureTable, EnsureIndex,
        SkipAbsent, SkipUpToDate, RefuseModified, BeginVersioned,
        BeginRepeatable, BeginScript, RunStmt, ScriptFails, ScriptEnds,
        RecordVersioned, RecordRepeatable, RecordFailure, GiveUpRepeatable,
        RecordRefused, FinishMigrate, ValidateFile, FinishValidate, PsqlFails
  <2>2. \A s \in Scripts : UpToDate(s) => UpToDate(s)'
    BY <1>4, <2>1, UpToDateStays
  <2>3. \A q \in Runners : Visited(q)' = Visited(q) /\ Visited(q) \subseteq Scripts
    BY <2>1, ParametersAssumption DEF Visited, Migrating, Versioned, Scripts
  <2> SUFFICES ASSUME pc'[r] \in Looping, Migrating(r) \/ ~errors'[r],
                      NEW s \in Visited(r), s < at'[r]
               PROVE  UpToDate(s)'
    BY <2>1, <2>2, <2>3 DEF Seen, Migrating
  <2>4. s \in Nat \ {0} /\ s \in Scripts /\ at[r] \in Nat
    BY <2>3, ParametersAssumption DEF Scripts
  <2>5. CASE EnsureIndex(r)
    BY <2>4, <2>5 DEF EnsureIndex, Control, Opened, Opening
  <2>6. CASE \/ SkipAbsent(r) \/ SkipUpToDate(r) \/ ValidateFile(r)
             \/ RecordVersioned(r) \/ RecordRepeatable(r)
    <3>1. pc[r] \in Looping /\ at'[r] = at[r] + 1
      BY <2>6 DEF SkipAbsent, SkipUpToDate, AtVersioned, AtRepeatable, ValidateFile,
         RecordVersioned, RecordRepeatable, Looping, Writing
    <3>2. CASE s < at[r]
      <4>1. ~errors'[r] => ~errors[r]
        BY <2>6 DEF SkipAbsent, SkipUpToDate, ValidateFile, RecordVersioned,
           RecordRepeatable
      <4>2. UpToDate(s)
        BY <3>1, <3>2, <4>1 DEF Seen
      <4> QED
        BY <2>2, <2>4, <4>2
    <3>3. CASE s = at[r]
      <4>1. CASE SkipAbsent(r)
        <5>1. UpToDate(s)
          BY <3>3, <4>1 DEF SkipAbsent, UpToDate
        <5> QED
          BY <2>2, <2>4, <5>1
      <4>2. CASE SkipUpToDate(r)
        <5>1. file[s] \in Answers(s) /\ file[s] # NoSum
          BY <3>3, <4>2 DEF SkipUpToDate
        <5>2. UpToDate(s)
          BY <5>1 DEF Answers, RecordedAs, UpToDate
        <5> QED
          BY <2>2, <2>4, <5>2
      <4>3. CASE ValidateFile(r)
        <5>1. ~errors'[r]
          BY <4>3 DEF ValidateFile, Migrating
        <5>2. PICK c \in Answers(s) : errors' = [errors EXCEPT ![r] = @ \/ c # file[s]]
          BY <3>3, <4>3 DEF ValidateFile
        <5>3. errors'[r] = (errors[r] \/ c # file[s])
          BY <5>2
        <5>4. c = file[s]
          BY <5>1, <5>3
        <5>5. UpToDate(s)
          BY <5>4 DEF Answers, RecordedAs, UpToDate
        <5> QED
          BY <2>2, <2>4, <5>5
      <4>4. CASE RecordVersioned(r) \/ RecordRepeatable(r)
        BY <2>4, <3>3, <4>4, RecordMakesUpToDate
      <4> QED
        BY <2>6, <4>1, <4>2, <4>3, <4>4
    <3> QED
      BY <2>4, <3>1, <3>2, <3>3
  <2>7. CASE ~(\/ EnsureIndex(r) \/ SkipAbsent(r) \/ SkipUpToDate(r)
               \/ ValidateFile(r) \/ RecordVersioned(r) \/ RecordRepeatable(r))
    <3>1. UNCHANGED <<at, errors>> /\ pc[r] \in Looping
      BY <1>4, <2>7 DEF Step, Crash, CreateDatabase, EnsureTable, RefuseModified,
          BeginVersioned, AtVersioned, BeginRepeatable, AtRepeatable,
          BeginScript, RunStmt, ScriptFails, ScriptEnds, RecordFailure,
          GiveUpRepeatable, RecordRefused, FinishMigrate, FinishValidate,
          PsqlFails, Looping, Writing
    <3> QED
      BY <2>2, <2>4, <3>1 DEF Seen
  <2> QED
    BY <2>5, <2>6, <2>7
<1>5. CASE UNCHANGED vars
  BY <1>5 DEF vars, Seen, Looping, Writing, Migrating, Visited, UpToDate,
              RecordedAs, OkRanks
<1> QED
  BY <1>1, <1>2, <1>3, <1>4, <1>5, StepKinds

\* What a runner read about its file was read from a row, which stays.
LEMMA RowFoundStep ==
    ASSUME TypeInv, Control, RowFound, [Next]_vars
    PROVE  RowFound'
<1> USE DEF TypeInv, TypeOK, dbVars, loopVars, Goto, Exit, NextFile
<1>1. CASE AllIdle /\ UNCHANGED pc
  BY <1>1 DEF AllIdle, RowFound, Writing
<1>2. CASE \E r \in Runners, c \in Commands : Start(r, c)
  <2> PICK r \in Runners, c \in Commands : Start(r, c)
    BY <1>2
  <2>1. /\ UNCHANGED hist
        /\ pc'[r] \notin Writing
        /\ \A q \in Runners \ {r} : /\ pc'[q] = pc[q]
                                    /\ at'[q] = at[q]
                                    /\ existing'[q] = existing[q]
    BY DEF Start, Writing
  <2> QED
    BY <2>1 DEF RowFound
<1>3. CASE \E r \in Runners : DropDatabase(r)
  BY <1>3 DEF DropDatabase, RowFound, Writing, Control, Exclusive, Opened
<1>4. ASSUME NEW r \in Runners, Step(r) \/ Crash(r),
             ~\E q \in Runners : DropDatabase(q)
      PROVE  RowFound'
  <2>1. /\ UNCHANGED file
        /\ \A q \in Runners \ {r} : /\ pc'[q] = pc[q]
                                    /\ at'[q] = at[q]
                                    /\ existing'[q] = existing[q]
    BY <1>4 DEF Step, Crash, CreateDatabase, EnsureTable, EnsureIndex,
        SkipAbsent, SkipUpToDate, RefuseModified, BeginVersioned,
        BeginRepeatable, BeginScript, RunStmt, ScriptFails, ScriptEnds,
        RecordVersioned, RecordRepeatable, RecordFailure, GiveUpRepeatable,
        RecordRefused, FinishMigrate, ValidateFile, FinishValidate, PsqlFails
  <2>2. \A s \in Scripts : (\E i \in DOMAIN hist : hist[i].script = s)
                              => \E i \in DOMAIN hist' : hist'[i].script = s
    BY <1>4, <2>1, UpToDateStays
  <2>3. Repeatable \subseteq Scripts
    BY ParametersAssumption DEF Repeatable, Scripts
  <2> SUFFICES ASSUME pc'[r] \in Writing, at'[r] \in Repeatable,
                      existing'[r] # NoSum
               PROVE  \E i \in DOMAIN hist' : hist'[i].script = at'[r]
    BY <2>1, <2>2, <2>3 DEF RowFound
  <2>4. CASE BeginVersioned(r)
    BY <2>4 DEF BeginVersioned, BeginScript
  <2>5. CASE BeginRepeatable(r)
    <3>1. PICK c \in Answers(at[r]) : BeginScript(r, c)
      BY <2>5 DEF BeginRepeatable
    <3>2. c # NoSum /\ at' = at /\ hist' = hist
      BY <3>1 DEF BeginScript
    <3>3. PICK i \in OkRanks(at[r]) : c = hist[i].sum
      BY <3>1, <3>2 DEF Answers
    <3> QED
      BY <3>2, <3>3 DEF OkRanks
  <2>6. CASE RunStmt(r) \/ ScriptFails(r) \/ ScriptEnds(r)
    BY <2>6 DEF RunStmt, ScriptFails, ScriptEnds, RowFound, Writing
  <2>7. CASE ~(\/ BeginVersioned(r) \/ BeginRepeatable(r) \/ RunStmt(r)
               \/ ScriptFails(r) \/ ScriptEnds(r))
    <3>1. pc'[r] \notin Writing
      BY <1>4, <2>7 DEF Step, Crash, CreateDatabase, EnsureTable, EnsureIndex,
          SkipAbsent, SkipUpToDate, RefuseModified, RecordVersioned,
          RecordRepeatable, RecordFailure, GiveUpRepeatable, RecordRefused,
          FinishMigrate, ValidateFile, FinishValidate, PsqlFails, Writing
    <3> QED
      BY <3>1
  <2> QED
    BY <2>4, <2>5, <2>6, <2>7
<1>5. CASE UNCHANGED vars
  BY <1>5 DEF vars, RowFound, Writing
<1> QED
  BY <1>1, <1>2, <1>3, <1>4, <1>5, StepKinds

\* What a runner has seen stays true to the end of its loops.
THEOREM Truth == ASSUME Disciplined PROVE Spec => []TruthInv
<1>1. Init => TruthInv
  BY SafeInit DEF TruthInv, Init, Seen, RowFound, Looping, Writing
<1>2. TruthInv /\ [Next]_vars => TruthInv'
  BY SafeStep, SeenStep, RowFoundStep DEF TruthInv, SafeInv
<1> QED
  BY <1>1, <1>2, PTL DEF Spec

\* Only a loop that has visited every file ends with status 0.
LEMMA ZeroIsEarned ==
    ASSUME TypeOK, [Next]_vars, NEW r \in Runners,
           exit'[r] = "0", exit[r] # "0", cmd[r] # "status"
    PROVE  /\ pc[r] \in Looping
           /\ Migrating(r) \/ ~errors[r]
           /\ \A s \in Visited(r) : s < at[r]
<1> USE DEF TypeOK, dbVars, loopVars, Goto, Exit, NextFile
<1>1. ASSUME NEW q \in Runners, FinishMigrate(q) \/ FinishValidate(q)
      PROVE  /\ pc[r] \in Looping
             /\ Migrating(r) \/ ~errors[r]
             /\ \A s \in Visited(r) : s < at[r]
  <2>1. q = r
    BY <1>1 DEF FinishMigrate, FinishValidate
  <2>2. at[r] \in Nat \ {0}
    OBVIOUS
  <2>3. CASE FinishMigrate(q)
    BY <2>1, <2>2, <2>3, ParametersAssumption
       DEF FinishMigrate, Looping, Visited, Scripts
  <2>4. CASE FinishValidate(q)
    BY <2>1, <2>2, <2>4, ParametersAssumption
       DEF FinishValidate, Looping, Visited, Migrating, Versioned
  <2> QED
    BY <1>1, <2>3, <2>4
<1>2. CASE \E q \in Runners, c \in Commands : Start(q, c)
  BY <1>2 DEF Start
<1>3. CASE \E q \in Runners : Step(q) \/ Crash(q)
  <2> PICK q \in Runners : Step(q) \/ Crash(q)
    BY <1>3
  <2>1. FinishMigrate(q) \/ FinishValidate(q)
    BY DEF Step, Crash, DropDatabase, CreateDatabase, EnsureTable, EnsureIndex,
        SkipAbsent, SkipUpToDate, RefuseModified, BeginVersioned,
        BeginRepeatable, BeginScript, RunStmt, ScriptFails, ScriptEnds,
        RecordVersioned, RecordRepeatable, RecordFailure, GiveUpRepeatable,
        RecordRefused, ValidateFile, PsqlFails
  <2> QED
    BY <1>1, <2>1
<1> QED
  BY <1>2, <1>3, StepKinds DEF vars

\* A migrate that ends with status 0 leaves the whole tree up to date, whatever
\* other runners did meanwhile.
THEOREM MigrateComplete ==
    ASSUME Disciplined PROVE Spec => SuccessfulMigrateIsComplete
<1>1. ASSUME TruthInv, [Next]_vars
      PROVE  \A r \in Runners :
                exit'[r] = "0" /\ exit[r] # "0" /\ Migrating(r) =>
                    \A s \in Scripts : file[s] # NoSum => RecordedAs(s, file[s])
  BY <1>1, ZeroIsEarned
     DEF TruthInv, SafeInv, TypeInv, Seen, UpToDate, Visited, Migrating
<1> QED
  BY <1>1, Truth, PTL DEF Spec, SuccessfulMigrateIsComplete

\* A validate that ends with status 0 leaves no version unrecorded or changed.
THEOREM ValidateTrue == ASSUME Disciplined PROVE Spec => ValidatePassIsTrue
<1>1. ASSUME TruthInv, [Next]_vars
      PROVE  \A r \in Runners :
                exit'[r] = "0" /\ exit[r] # "0" /\ cmd[r] = "validate" =>
                    \A s \in Versioned : file[s] # NoSum => RecordedAs(s, file[s])
  BY <1>1, ZeroIsEarned
     DEF TruthInv, SafeInv, TypeInv, Seen, UpToDate, Visited, Migrating
<1> QED
  BY <1>1, Truth, PTL DEF Spec, ValidatePassIsTrue

-----------------------------------------------------------------------------
(***************************************************************************)
(* A seed that is up to date is whole, when one runner works at a time,    *)
(* its lookups do not lie, and no text comes back.  Each of the three is   *)
(* needed: a second runner, or one that did not see the row, wipes under   *)
(* the row; and a text that comes back meets its own row over the half of  *)
(* the text between.                                                       *)
(***************************************************************************)
Careful ==
    /\ Disciplined
    /\ \A q, r \in Runners : q = r
    /\ "query" \notin Faults
    /\ "revert" \notin Faults

\* The rows are of the present text or of earlier ones.
NoLaterSum == \A i \in DOMAIN hist : hist[i].sum <= file[hist[i].script]

\* A seed that is at work is not up to date by its row.
StaleAtWork ==
    \A r \in Runners : pc[r] \in Writing /\ at[r] \in Repeatable =>
        ~RecordedAs(at[r], file[at[r]])

\* What psql has left in the database of the seed at hand.
SeedProgress ==
    \A r \in Runners : at[r] \in Repeatable =>
        /\ pc[r] = "run" => \A k \in 1..stmt[r] : eff[at[r]][k] = file[at[r]]
        /\ pc[r] = "recordOk" => \A k \in Stmts : eff[at[r]][k] = file[at[r]]

\* A seed that is up to date by its row is whole, at work or not.
SeedsWhole ==
    \A s \in Repeatable : file[s] # NoSum /\ RecordedAs(s, file[s]) =>
        \A k \in Stmts : eff[s][k] = file[s]

IntactInv == TruthInv /\ NoLaterSum /\ StaleAtWork /\ SeedProgress /\ SeedsWhole

\* The tree changes only between runs, and a new text has no row.
LEMMA IntactTree ==
    ASSUME Careful, IntactInv, NEW s \in Scripts,
           AddFile(s) \/ \E c \in Sums : EditFile(s, c)
    PROVE  (NoLaterSum /\ StaleAtWork /\ SeedProgress /\ SeedsWhole)'
<1> USE DEF IntactInv, TruthInv, SafeInv, TypeInv, TypeOK, dbVars, loopVars
<1>1. PICK c \in Sums : file[s] < c /\ file' = [file EXCEPT ![s] = c]
  <2>1. CASE AddFile(s)
    <3>1. 1 \in Sums /\ file[s] < 1 /\ file' = [file EXCEPT ![s] = 1]
      BY <2>1, ParametersAssumption DEF AddFile, Sums, NoSum
    <3> QED
      BY <3>1
  <2>2. CASE \E c \in Sums : EditFile(s, c)
    BY <2>2, ParametersAssumption DEF EditFile, Careful, Sums, NoSum
  <2> QED
    BY <2>1, <2>2
<1>2. AllIdle /\ UNCHANGED <<hist, eff, pc, at, stmt>>
  BY DEF AddFile, EditFile
<1>3. \A i \in DOMAIN hist : hist[i] \in Rows
  BY LenProperties, ElementOfSeq
<1>4. \A t \in Scripts : file[t] \in Nat /\ (t # s => file'[t] = file[t])
  BY <1>1, ParametersAssumption DEF Sums, NoSum
<1>5. file'[s] = c /\ c \in Nat
  BY <1>1, ParametersAssumption DEF Sums
<1>6. \A i \in DOMAIN hist : hist[i].sum \in Nat /\ hist[i].script \in Scripts
  BY <1>3, ParametersAssumption DEF Rows, Sums
<1>7. NoLaterSum'
  <2> SUFFICES ASSUME NEW i \in DOMAIN hist
               PROVE  hist[i].sum <= file'[hist[i].script]
    BY <1>2 DEF NoLaterSum
  <2>1. hist[i].sum <= file[hist[i].script]
    BY DEF NoLaterSum
  <2> QED
    BY <1>1, <1>4, <1>5, <1>6, <2>1
<1>8. StaleAtWork' /\ SeedProgress'
  BY <1>2 DEF AllIdle, StaleAtWork, SeedProgress, Writing
<1>9. ~RecordedAs(s, file[s])' /\ \A t \in Scripts \ {s} :
          RecordedAs(t, file[t])' <=> RecordedAs(t, file[t])
  <2>1. \A i \in OkRanks(s) : hist[i].sum # c
    BY <1>1, <1>4, <1>5, <1>6 DEF NoLaterSum, OkRanks
  <2> QED
    BY <1>2, <1>4, <1>5, <2>1 DEF RecordedAs, OkRanks
<1>10. SeedsWhole'
  <2>1. Repeatable \subseteq Scripts
    BY ParametersAssumption DEF Repeatable, Scripts
  <2> QED
    BY <1>2, <1>4, <1>9, <2>1 DEF SeedsWhole
<1> QED
  BY <1>7, <1>8, <1>10

\* A statement of a seed that is not up to date, or of a version.
LEMMA IntactRunStmt ==
    ASSUME Careful, IntactInv, NEW r \in Runners, RunStmt(r)
    PROVE  (NoLaterSum /\ StaleAtWork /\ SeedProgress /\ SeedsWhole)'
<1> USE DEF IntactInv, TruthInv, SafeInv, TypeInv, TypeOK
<1> DEFINE k == stmt[r] + 1
<1> PICK s \in Scripts : s = at[r]
  BY DEF RunStmt, Working, Writing
<1>1. /\ pc[r] = "run"
      /\ k \in Stmts
      /\ eff' = [eff EXCEPT ![s] = Effects(s, k)]
      /\ stmt' = [stmt EXCEPT ![r] = k]
      /\ UNCHANGED <<file, hist, pc, at>>
  BY DEF RunStmt
<1>2. NoLaterSum' /\ StaleAtWork'
  BY <1>1 DEF NoLaterSum, StaleAtWork, RecordedAs, OkRanks
<1>3. \A q \in Runners : q = r
  BY DEF Careful
<1>4. eff'[s] = Effects(s, k) /\ \A t \in Scripts \ {s} : eff'[t] = eff[t]
  BY <1>1
<1>5. SeedProgress'
  <2> SUFFICES ASSUME s \in Repeatable, NEW j \in 1..k
               PROVE  eff'[s][j] = file[s]
    BY <1>1, <1>3 DEF SeedProgress
  <2>1. j \in Stmts /\ k \in Nat /\ j \in Nat
    BY <1>1, ParametersAssumption DEF Stmts
  <2>2. CASE j = k
    BY <1>4, <2>1, <2>2 DEF Effects
  <2>3. CASE j # k
    <3>1. k # 1 /\ j \in 1..stmt[r]
      BY <2>1, <2>3, ParametersAssumption
    <3>2. eff[s][j] = file[s]
      BY <1>1, <3>1 DEF SeedProgress
    <3> QED
      BY <1>4, <2>1, <2>3, <3>1, <3>2 DEF Effects
  <2> QED
    BY <2>2, <2>3
<1>6. SeedsWhole'
  <2>1. s \in Repeatable => ~RecordedAs(s, file[s])
    BY <1>1 DEF StaleAtWork, Writing
  <2>2. \A t \in Repeatable : RecordedAs(t, file[t])' <=> RecordedAs(t, file[t])
    BY <1>1 DEF RecordedAs, OkRanks
  <2> QED
    BY <1>1, <1>4, <2>1, <2>2, ParametersAssumption
       DEF SeedsWhole, Repeatable, Scripts
<1> QED
  BY <1>2, <1>5, <1>6

\* A row is written for the file at hand, with the file's text.
LEMMA IntactRecord ==
    ASSUME Careful, IntactInv, NEW r \in Runners,
           RecordVersioned(r) \/ RecordRepeatable(r) \/ RecordFailure(r)
    PROVE  (NoLaterSum /\ StaleAtWork /\ SeedProgress /\ SeedsWhole)'
<1> USE DEF IntactInv, TruthInv, SafeInv, TypeInv, TypeOK
<1> PICK s \in Scripts : s = at[r]
  BY DEF RecordVersioned, RecordRepeatable, RecordFailure, Working, Writing
<1>1. /\ file[s] \in Sums
      /\ pc'[r] \notin Writing
      /\ UNCHANGED <<file, eff>>
  BY DEF RecordVersioned, RecordRepeatable, RecordFailure, Working, Writing,
         Goto, Exit, NextFile
<1>2. StaleAtWork' /\ SeedProgress'
  <2>1. \A q \in Runners : pc'[q] \notin Writing
    BY <1>1 DEF Careful
  <2> QED
    BY <2>1 DEF StaleAtWork, SeedProgress, Writing
<1>3. hist \in Seq(Rows) /\ DOMAIN hist = 1..Len(hist) /\ Len(hist) \in Nat
  BY LenProperties
<1>4. /\ \A i \in DOMAIN hist' :
            \/ i \in DOMAIN hist /\ hist'[i] = hist[i]
            \/ hist'[i].script = s /\ hist'[i].sum = file[s]
  <2>1. ASSUME NEW ok \in BOOLEAN, Insert(s, ok)
        PROVE  \A i \in DOMAIN hist' :
                  \/ i \in DOMAIN hist /\ hist'[i] = hist[i]
                  \/ hist'[i].script = s /\ hist'[i].sum = file[s]
    <3>1. PICK n \in Nat :
             /\ DOMAIN hist' = DOMAIN hist \cup {n}
             /\ \A i \in DOMAIN hist : hist'[i] = hist[i]
             /\ hist'[n] = [script |-> s, sum |-> file[s], ok |-> ok]
      BY <1>1, <1>3, <2>1, InsertProperties
    <3>2. hist'[n].script = s /\ hist'[n].sum = file[s]
      BY <3>1
    <3> QED
      BY <3>1, <3>2
  <2>2. CASE Update(s)
    BY <2>2 DEF Update
  <2> QED
    BY <2>1, <2>2 DEF RecordVersioned, RecordRepeatable, RecordFailure
<1>5. NoLaterSum'
  <2>1. file[s] <= file[s]
    BY <1>1, ParametersAssumption DEF Sums
  <2> QED
    BY <1>1, <1>4, <2>1 DEF NoLaterSum
<1>6. \A t \in Scripts \ {s} : RecordedAs(t, file[t])' => RecordedAs(t, file[t])
  BY <1>1, <1>4 DEF RecordedAs, OkRanks
<1>7. s \in Repeatable => \A k \in Stmts : eff[s][k] = file[s]
  <2> SUFFICES ASSUME s \in Repeatable
               PROVE  \A k \in Stmts : eff[s][k] = file[s]
    OBVIOUS
  <2>1. s \notin Versioned
    BY ParametersAssumption DEF Versioned, Repeatable
  <2>2. pc[r] = "recordOk"
    BY <2>1 DEF RecordVersioned, RecordRepeatable, RecordFailure
  <2> QED
    BY <2>2 DEF SeedProgress
<1>8. SeedsWhole'
  <2>1. Repeatable \subseteq Scripts
    BY ParametersAssumption DEF Repeatable, Scripts
  <2> QED
    BY <1>1, <1>6, <1>7, <2>1 DEF SeedsWhole
<1> QED
  BY <1>2, <1>5, <1>8

\* A seed is begun when its row is of another text: the only row there is.
LEMMA IntactBegin ==
    ASSUME Careful, IntactInv, NEW r \in Runners,
           BeginVersioned(r) \/ BeginRepeatable(r)
    PROVE  (NoLaterSum /\ StaleAtWork /\ SeedProgress /\ SeedsWhole)'
<1> USE DEF IntactInv, TruthInv, SafeInv, TypeInv, TypeOK
<1>1. /\ UNCHANGED <<file, hist, eff, at>>
      /\ pc' = [pc EXCEPT ![r] = "run"]
      /\ stmt' = [stmt EXCEPT ![r] = 0]
  BY DEF BeginVersioned, BeginRepeatable, BeginScript, Goto, dbVars
<1>2. \A q \in Runners : q = r
  BY DEF Careful
<1>3. NoLaterSum' /\ SeedsWhole'
  BY <1>1 DEF NoLaterSum, SeedsWhole, RecordedAs, OkRanks
<1>4. SeedProgress'
  BY <1>1, <1>2 DEF SeedProgress
<1>5. at[r] \in Repeatable => ~RecordedAs(at[r], file[at[r]])
  <2> SUFFICES ASSUME at[r] \in Repeatable
               PROVE  ~RecordedAs(at[r], file[at[r]])
    OBVIOUS
  <2>1. BeginRepeatable(r)
    BY ParametersAssumption DEF BeginVersioned, AtVersioned, Versioned, Repeatable
  <2>2. PICK c \in Answers(at[r]) : c # file[at[r]]
    BY <2>1 DEF BeginRepeatable
  <2>3. CASE OkRanks(at[r]) = {}
    BY <2>3 DEF RecordedAs
  <2>4. CASE OkRanks(at[r]) # {}
    <3>1. PICK i \in OkRanks(at[r]) : hist[i].sum = c
      BY <2>2, <2>4 DEF Answers, Recorded, Careful
    <3>2. \A j \in OkRanks(at[r]) : j = i
      BY <3>1 DEF History, OneRowPerScript, NoTwins, OkRanks
    <3> QED
      BY <2>2, <3>1, <3>2 DEF RecordedAs
  <2> QED
    BY <2>3, <2>4
<1>6. StaleAtWork'
  BY <1>1, <1>2, <1>5 DEF StaleAtWork, RecordedAs, OkRanks
<1> QED
  BY <1>3, <1>4, <1>6

\* Every step of one careful runner keeps the seeds whole.
LEMMA IntactStep ==
    ASSUME Careful, IntactInv, [Next]_vars
    PROVE  (NoLaterSum /\ StaleAtWork /\ SeedProgress /\ SeedsWhole)'
<1> USE DEF IntactInv, TruthInv, SafeInv, TypeInv, TypeOK
<1>1. CASE \E s \in Scripts : AddFile(s) \/ \E c \in Sums : EditFile(s, c)
  BY <1>1, IntactTree
<1>2. CASE \E r \in Runners, c \in Commands : Start(r, c)
  <2> PICK r \in Runners, c \in Commands : Start(r, c)
    BY <1>2
  <2>1. UNCHANGED <<file, hist, eff>> /\ \A q \in Runners : pc'[q] \notin Writing
    BY DEF Start, Careful, Goto, dbVars, Writing
  <2> QED
    BY <2>1 DEF NoLaterSum, StaleAtWork, SeedProgress, SeedsWhole, RecordedAs,
                OkRanks, Writing
<1>3. ASSUME NEW r \in Runners, Step(r) \/ Crash(r)
      PROVE  (NoLaterSum /\ StaleAtWork /\ SeedProgress /\ SeedsWhole)'
  <2>1. CASE DropDatabase(r)
    <3>1. DOMAIN hist' = {} /\ \A q \in Runners : pc'[q] \notin Writing
      BY <2>1 DEF DropDatabase, Careful, Writing
    <3> QED
      BY <3>1 DEF NoLaterSum, StaleAtWork, SeedProgress, SeedsWhole, RecordedAs,
                  OkRanks, Writing
  <2>2. CASE RunStmt(r)
    BY <2>2, IntactRunStmt
  <2>3. CASE RecordVersioned(r) \/ RecordRepeatable(r) \/ RecordFailure(r)
    BY <2>3, IntactRecord
  <2>4. CASE BeginVersioned(r) \/ BeginRepeatable(r)
    BY <2>4, IntactBegin
  <2>5. CASE ScriptFails(r) \/ ScriptEnds(r)
    <3>1. /\ UNCHANGED <<file, hist, eff, at, stmt>>
          /\ pc[r] = "run"
          /\ \/ pc' = [pc EXCEPT ![r] = "recordFail"]
             \/ pc' = [pc EXCEPT ![r] = "recordOk"] /\ stmt[r] = NumStmts
      BY <2>5 DEF ScriptFails, ScriptEnds, Goto, dbVars, loopVars
    <3>2. \A q \in Runners : q = r
      BY DEF Careful
    <3>3. NoLaterSum' /\ StaleAtWork' /\ SeedsWhole'
      BY <3>1, <3>2 DEF NoLaterSum, StaleAtWork, SeedsWhole, RecordedAs, OkRanks,
                        Writing
    <3>4. SeedProgress'
      BY <3>1, <3>2 DEF SeedProgress, Stmts
    <3> QED
      BY <3>3, <3>4
  <2>6. CASE ~(\/ DropDatabase(r) \/ RunStmt(r) \/ RecordVersioned(r)
               \/ RecordRepeatable(r) \/ RecordFailure(r) \/ BeginVersioned(r)
               \/ BeginRepeatable(r) \/ ScriptFails(r) \/ ScriptEnds(r))
    <3>1. UNCHANGED <<file, hist, eff>> /\ pc'[r] \notin Writing
      BY <1>3, <2>6 DEF Step, Crash, CreateDatabase, EnsureTable, EnsureIndex,
          SkipAbsent, SkipUpToDate, RefuseModified, GiveUpRepeatable,
          RecordRefused, FinishMigrate, ValidateFile, FinishValidate,
          PsqlFails, Goto, Exit, NextFile, dbVars, Writing
    <3>2. \A q \in Runners : pc'[q] \notin Writing
      BY <3>1 DEF Careful
    <3> QED
      BY <3>1, <3>2 DEF NoLaterSum, StaleAtWork, SeedProgress, SeedsWhole,
                        RecordedAs, OkRanks, Writing
  <2> QED
    BY <2>1, <2>2, <2>3, <2>4, <2>5, <2>6
<1>4. CASE UNCHANGED vars
  BY <1>4 DEF vars, dbVars, loopVars, NoLaterSum, StaleAtWork, SeedProgress,
              SeedsWhole, RecordedAs, OkRanks
<1> QED
  BY <1>1, <1>2, <1>3, <1>4, StepKinds

\* Under one careful runner a seed that the next run will skip is whole.
THEOREM SeedsIntact == ASSUME Careful PROVE Spec => []UpToDateSeedIsIntact
<1>1. Init => IntactInv
  BY SafeInit
     DEF Careful, Init, IntactInv, TruthInv, Seen, RowFound, Looping, Writing,
         NoLaterSum, StaleAtWork, SeedProgress, SeedsWhole, RecordedAs, OkRanks
<1>2. IntactInv /\ [Next]_vars => IntactInv'
  BY SafeStep, SeenStep, RowFoundStep, IntactStep
     DEF Careful, IntactInv, TruthInv, SafeInv
<1>3. IntactInv => UpToDateSeedIsIntact
  BY DEF IntactInv, SeedsWhole, UpToDateSeedIsIntact
<1> QED
  BY <1>1, <1>2, <1>3, PTL DEF Spec

=============================================================================
