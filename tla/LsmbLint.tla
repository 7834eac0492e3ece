------------------------------- MODULE LsmbLint -------------------------------
(***************************************************************************)
(* cmd/lsmb-lint/main.go.  The lint walks directories of migrations and    *)
(* reports a file that creates a trigger, a function or a procedure, but   *)
(* for one whose first line is an exempt marker.  The audit counts the     *)
(* rows of the inventory, a Markdown file, by status.                      *)
(*                                                                         *)
(* A file is its words, each with whether it is the first of its line; the *)
(* regular expressions look at no more.  "object" is TRIGGER, FUNCTION or  *)
(* PROCEDURE; "marker" and "comment" begin a comment that ends with the    *)
(* line, the first with an exemption and its reason.                       *)
(***************************************************************************)
EXTENDS Integers, SequencesExt

CONSTANTS
    NumPaths,   \* directories to scan
    MaxFiles,   \* bound: entries of a directory
    MaxWords,   \* bound: words of a file
    NumCells,   \* cells of a row of the inventory
    MaxLines    \* bound: lines of the inventory

\* The status column is "the 4th pipe-delimited field" (line 183).
StatusColumn == 4

ASSUME LintAssumption ==
    /\ {NumPaths, MaxFiles, MaxWords, MaxLines} \subseteq Nat
    /\ NumCells \in Nat /\ NumCells >= StatusColumn

VARIABLES
    pc,          \* "path", "walk", "judge", "audit" or "done"
    path,        \* the directory at hand
    files,       \* entries of it that have been visited
    body,        \* the file at hand
    violations,  \* whether there are any
    offends,     \* whether a file offends by its statements, or went unread
    odd,         \* whether a file was not laid out as LaidOut says
    lines,       \* lines of the inventory that have been read
    counts,      \* counts[s]: rows tallied under s
    column,      \* column[s]: rows that have s in the status column
    exit         \* exit status

lintVars == <<path, files, body, violations, offends, odd>>
auditVars == <<lines, counts, column>>
vars == <<pc, lintVars, auditVars, exit>>

-----------------------------------------------------------------------------
(* One file. *)

Texts == {"create", "or replace", "object", "marker", "comment", "semicolon", "word"}

Word == [text : Texts, first : BOOLEAN]

Bodies ==
    {b \in BoundedSeq(Word, MaxWords) : b # <<>> => b[1].first}

\* The texts w have CREATE [OR REPLACE] TRIGGER | FUNCTION | PROCEDURE at i.
CreatesAt(w, i) ==
    \E ddl \in {<<"create", "object">>, <<"create", "or replace", "object">>} :
        \A k \in DOMAIN ddl : i + k - 1 \in DOMAIN w /\ w[i + k - 1] = ddl[k]

\* Mutant of prohibitedDDL: without the multiline flag.
prohibitedDDLFirstLine(b) == CreatesAt([i \in DOMAIN b |-> b[i].text], 1)

\* (?im)^\s*CREATE\s+...: at the start of some line; blanks may be newlines.
prohibitedDDL(b) ==
    \E i \in DOMAIN b : b[i].first /\ CreatesAt([j \in DOMAIN b |-> b[j].text], i)

\* The first line that is not blank begins with the marker.
hasExemptMarker(b) == b # <<>> /\ b[1].text = "marker"

-----------------------------------------------------------------------------
(* What a file does, by its statements. *)

InComment(b, i) ==
    \E j \in 1..i : b[j].text \in {"comment", "marker"} /\ \A k \in (j + 1)..i : ~b[k].first

\* Where the words stand that PostgreSQL reads, and how they follow each other.
Code(b) == {i \in DOMAIN b : ~InComment(b, i)}

Follows(b, j, i) == i < j /\ \A k \in Code(b) : k <= i \/ j <= k

\* A statement begins at i.
Starts(b, i) ==
    LET before == {j \in Code(b) : j < i}
    IN  before = {} \/ b[Max(before)].text = "semicolon"

IntroducesDDL(b) ==
    \E i, j \in Code(b) :
        /\ b[i].text = "create" /\ Starts(b, i) /\ Follows(b, j, i)
        /\ \/ b[j].text = "object"
           \/ /\ b[j].text = "or replace"
              /\ \E k \in Code(b) : Follows(b, k, j) /\ b[k].text = "object"

\* Comments stand between statements, and CREATE is the first word of a line
\* exactly where it starts a statement.
LaidOut(b) ==
    \A i \in DOMAIN b :
        IF i \in Code(b) THEN b[i].text = "create" => (b[i].first <=> Starts(b, i))
                         ELSE Starts(b, i)

-----------------------------------------------------------------------------
Statuses == <<"unmapped", "in-use", "replaced", "dropped", "retained">>

None == [s \in ToSet(Statuses) |-> 0]

Init ==
    /\ pc \in {"path", "audit"}
    /\ path = 1 /\ files = 0
    /\ body = <<>>
    /\ violations = FALSE /\ offends = FALSE /\ odd = FALSE
    /\ lines = 0 /\ counts = None /\ column = None
    /\ exit = "none"

(* runLint. *)

\* A path that does not exist, or is empty, is skipped in silence.
SkipPath ==
    /\ pc = "path" /\ path <= NumPaths
    /\ path' = path + 1
    /\ UNCHANGED <<pc, files, body, violations, offends, odd, auditVars, exit>>

OpenPath ==
    /\ pc = "path" /\ path <= NumPaths
    /\ pc' = "walk"
    /\ files' = 0
    /\ UNCHANGED <<path, body, violations, offends, odd, auditVars, exit>>

\* A directory, or a file of another type.
SkipEntry ==
    /\ pc = "walk" /\ files < MaxFiles
    /\ files' = files + 1
    /\ UNCHANGED <<pc, path, body, violations, offends, odd, auditVars, exit>>

ReadFile ==
    /\ pc = "walk" /\ files < MaxFiles
    /\ body' \in Bodies
    /\ files' = files + 1
    /\ pc' = "judge"
    /\ UNCHANGED <<path, violations, offends, odd, auditVars, exit>>

\* The file cannot be read: a violation, and the walk goes on.
ReadFails ==
    /\ pc = "walk" /\ files < MaxFiles
    /\ files' = files + 1
    /\ violations' = TRUE /\ offends' = TRUE
    /\ UNCHANGED <<pc, path, body, odd, auditVars, exit>>

\* An entry cannot be listed: the rest of the path is not walked.
WalkFails ==
    /\ pc = "walk"
    /\ pc' = "path" /\ path' = path + 1
    /\ violations' = TRUE /\ offends' = TRUE
    /\ UNCHANGED <<files, body, odd, auditVars, exit>>

EndOfPath ==
    /\ pc = "walk"
    /\ pc' = "path" /\ path' = path + 1
    /\ UNCHANGED <<files, body, violations, offends, odd, auditVars, exit>>

Judge ==
    /\ pc = "judge"
    /\ violations' = (violations \/ (prohibitedDDL(body) /\ ~hasExemptMarker(body)))
    /\ offends' = (offends \/ (IntroducesDDL(body) /\ ~hasExemptMarker(body)))
    /\ odd' = (odd \/ ~LaidOut(body))
    /\ body' = <<>>
    /\ pc' = "walk"
    /\ UNCHANGED <<path, files, auditVars, exit>>

Verdict ==
    /\ pc = "path" /\ path > NumPaths
    /\ pc' = "done"
    /\ exit' = IF violations THEN "1" ELSE "0"
    /\ UNCHANGED <<lintVars, auditVars>>

-----------------------------------------------------------------------------
(* runAudit. *)

\* What a cell may hold: a status, the word of a header, the dashes of a
\* divider or of a remark, or anything else.
Cells == ToSet(Statuses) \cup {"name", "---", "text"}

Rows == [1..NumCells -> Cells]

Has(row, cell) == \E i \in 1..NumCells : row[i] = cell

Counted(row) == ~Has(row, "---") /\ ~Has(row, "name")

\* Mutant of StatusOf: the last status of the list wins.
StatusOfLast(row) ==
    LET found == {i \in DOMAIN Statuses : Has(row, Statuses[i])}
    IN  IF found = {} THEN "none" ELSE Statuses[Max(found)]

\* The first status of the list that is in any cell.
StatusOf(row) ==
    LET found == {i \in DOMAIN Statuses : Has(row, Statuses[i])}
    IN  IF found = {} THEN "none" ELSE Statuses[Min(found)]

AddTo(tally, s) == [t \in DOMAIN tally |-> tally[t] + IF t = s THEN 1 ELSE 0]

\* Headers and dividers are skipped, other lines are not rows.
Tally ==
    /\ pc = "audit" /\ lines < MaxLines
    /\ \E row \in Rows :
          /\ Counted(row)
          /\ counts' = AddTo(counts, StatusOf(row))
          /\ column' = AddTo(column, row[StatusColumn])
    /\ lines' = lines + 1
    /\ UNCHANGED <<pc, lintVars, exit>>

\* The end of the file, or a line longer than the scanner's buffer: nothing
\* asks which.
AuditEnds ==
    /\ pc = "audit"
    /\ pc' = "done" /\ exit' = "0"
    /\ UNCHANGED <<lintVars, auditVars>>

InventoryUnreadable ==
    /\ pc = "audit" /\ lines = 0
    /\ pc' = "done" /\ exit' = "2"
    /\ UNCHANGED <<lintVars, auditVars>>

Next ==
    \/ SkipPath \/ OpenPath \/ SkipEntry \/ ReadFile \/ ReadFails \/ WalkFails
    \/ EndOfPath \/ Judge \/ Verdict
    \/ Tally \/ AuditEnds \/ InventoryUnreadable

Spec == Init /\ [][Next]_vars

-----------------------------------------------------------------------------
(* Properties. *)

\* The regular expressions and the walk agree with the statements of the
\* files: the lint fails exactly when a file could not be read or a statement
\* of a file without exemption creates a trigger, a function or a procedure.
\* It says so of files whose layout is that of migrations.
VerdictIsExact == exit # "none" /\ path > NumPaths /\ ~odd => (exit = "1" <=> offends)

\* The rows tallied under the first k statuses.
UpTo(tally, k) ==
    LET upTo[i \in 0..Len(Statuses)] ==
            IF i = 0 THEN 0 ELSE upTo[i - 1] + tally[Statuses[i]]
    IN  upTo[k]

\* The audit never shows a row as further than its status column says, although
\* it looks at every cell: of the rows that are at a status or before it, none
\* is counted after it.
AuditNeverFlatters == \A k \in DOMAIN Statuses : UpTo(counts, k) >= UpTo(column, k)

=============================================================================
