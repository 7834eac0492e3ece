------------------------------ MODULE LintProofs ------------------------------
(***************************************************************************)
(* For any number of directories, files, words and lines: the verdict of   *)
(* the lint is exact on files laid out as migrations are, and the audit    *)
(* shows no row as further than its status column says.                    *)
(*                                                                         *)
(* The first rests on LintExact, which says of one file that the regular   *)
(* expression, a matter of lines, agrees with the statements, a matter of  *)
(* semicolons and comments.                                                *)
(***************************************************************************)
EXTENDS LsmbLint, TLAPS

\* A file is a sequence of words.
LEMMA BodiesAreWords ==
    ASSUME NEW b \in Bodies
    PROVE  \E n \in Nat : b \in [1..n -> Word]
<1>1. MaxWords \in Nat
  BY LintAssumption
<1>2. b \in UNION {[1..n -> Word] : n \in 0..MaxWords}
  BY DEF Bodies, BoundedSeq, SeqOf
<1> QED
  BY <1>1, <1>2

\* CREATE and its next word, or its next two.
LEMMA CreatesAtMeans ==
    ASSUME NEW n \in Nat, NEW b \in [1..n -> Word], NEW i \in 1..n
    PROVE  CreatesAt([j \in DOMAIN b |-> b[j].text], i) <=>
              /\ b[i].text = "create"
              /\ \/ i + 1 \in 1..n /\ b[i + 1].text = "object"
                 \/ /\ i + 1 \in 1..n /\ b[i + 1].text = "or replace"
                    /\ i + 2 \in 1..n /\ b[i + 2].text = "object"
<1> DEFINE w == [j \in DOMAIN b |-> b[j].text]
           At(ddl) == \A k \in DOMAIN ddl : i + k - 1 \in DOMAIN w /\ w[i + k - 1] = ddl[k]
<1>1. DOMAIN w = 1..n /\ \A j \in 1..n : w[j] = b[j].text
  OBVIOUS
<1>2. CreatesAt(w, i) <=>
         At(<<"create", "object">>) \/ At(<<"create", "or replace", "object">>)
  BY DEF CreatesAt
<1> HIDE DEF w
<1>3. i + 1 - 1 = i /\ i + 2 - 1 = i + 1 /\ i + 3 - 1 = i + 2
  OBVIOUS
<1>4. At(<<"create", "object">>) <=>
         /\ i \in DOMAIN w /\ w[i] = "create"
         /\ i + 1 \in DOMAIN w /\ w[i + 1] = "object"
  BY <1>3
<1>5. At(<<"create", "or replace", "object">>) <=>
         /\ i \in DOMAIN w /\ w[i] = "create"
         /\ i + 1 \in DOMAIN w /\ w[i + 1] = "or replace"
         /\ i + 2 \in DOMAIN w /\ w[i + 2] = "object"
  <2> DEFINE d == <<"create", "or replace", "object">>
  <2>1. DOMAIN d = {1, 2, 3} /\ d[1] = "create" /\ d[2] = "or replace" /\ d[3] = "object"
    OBVIOUS
  <2> HIDE DEF d
  <2>2. At(d) <=> \A k \in {1, 2, 3} : i + k - 1 \in DOMAIN w /\ w[i + k - 1] = d[k]
    BY <2>1
  <2>3. At(d) <=> /\ i \in DOMAIN w /\ w[i] = d[1]
                  /\ i + 1 \in DOMAIN w /\ w[i + 1] = d[2]
                  /\ i + 2 \in DOMAIN w /\ w[i + 2] = d[3]
    <3> HIDE DEF At
    <3> QED
      BY <1>3, <2>2
  <2> QED
    BY <2>1, <2>3 DEF d
<1>6. CreatesAt(w, i) <=>
         /\ b[i].text = "create"
         /\ \/ i + 1 \in 1..n /\ b[i + 1].text = "object"
            \/ /\ i + 1 \in 1..n /\ b[i + 1].text = "or replace"
               /\ i + 2 \in 1..n /\ b[i + 2].text = "object"
  BY <1>1, <1>2, <1>4, <1>5
<1> QED
  BY <1>6 DEF w

\* The words that are read are words of the file.
LEMMA CodeIsNumbers ==
    ASSUME NEW n \in Nat, NEW b \in [1..n -> Word]
    PROVE  \A j \in Code(b) : j \in 1..n /\ j \in Nat
<1>1. DOMAIN b = 1..n
  OBVIOUS
<1>2. \A j \in Code(b) : j \in DOMAIN b
  BY DEF Code
<1> QED
  BY <1>1, <1>2

\* A word is read when it begins its line, or follows one that is read, unless
\* it begins a comment.
LEMMA WordIsRead ==
    ASSUME NEW n \in Nat, NEW b \in [1..n -> Word], NEW i \in 1..n,
           b[i].text \notin {"comment", "marker"}
    PROVE  /\ b[i].first => i \in Code(b)
           /\ \A j \in Code(b) : i = j + 1 => i \in Code(b)
<1>1. ASSUME b[i].first PROVE ~InComment(b, i)
  <2> SUFFICES ASSUME NEW j \in 1..i, b[j].text \in {"comment", "marker"}
               PROVE  \E k \in (j + 1)..i : b[k].first
    BY DEF InComment
  <2>1. j # i /\ j \in Nat
    OBVIOUS
  <2>2. i \in (j + 1)..i
    BY <2>1
  <2> QED
    BY <1>1, <2>2
<1>2. ASSUME NEW j \in Code(b), i = j + 1 PROVE ~InComment(b, i)
  <2> SUFFICES ASSUME NEW m \in 1..i, b[m].text \in {"comment", "marker"}
               PROVE  \E k \in (m + 1)..i : b[k].first
    BY DEF InComment
  <2>1. m \in 1..j /\ j \in 1..n
    BY <1>2 DEF Code
  <2>2. PICK k \in (m + 1)..j : b[k].first
    BY <2>1 DEF Code, InComment
  <2>3. k \in (m + 1)..i
    BY <1>2, <2>1, <2>2
  <2> QED
    BY <2>2, <2>3
<1> QED
  BY <1>1, <1>2 DEF Code

\* The last of the numbers up to i is i, when it is one of them, and i + 1 is
\* the first that comes after.
LEMMA LastUpTo ==
    ASSUME NEW S \in SUBSET Nat, NEW i \in Nat, i \in S
    PROVE  /\ Max({j \in S : j < i + 1}) = i
           /\ \A j \in S : i < j => i + 1 <= j
<1> DEFINE before == {j \in S : j < i + 1}
<1>1. i \in before /\ \A j \in before : i >= j
  OBVIOUS
<1>2. before \in SUBSET Nat
  OBVIOUS
<1> HIDE DEF before
<1>3. Max(before) \in before /\ \A j \in before : Max(before) >= j
  BY <1>1 DEF Max
<1>4. Max(before) = i
  <2> PICK m \in Nat : m = Max(before)
    BY <1>2, <1>3
  <2>1. i >= m /\ m >= i
    BY <1>1, <1>3
  <2> QED
    BY <2>1
<1> QED
  BY <1>4 DEF before

\* In a file that is laid out, no comment cuts a statement: after a word that
\* is read and ends none, the next word is read too and the first to follow.
LEMMA NextIsRead ==
    ASSUME NEW n \in Nat, NEW b \in [1..n -> Word], LaidOut(b),
           NEW i \in Nat, i \in Code(b), b[i].text # "semicolon", i + 1 \in 1..n
    PROVE  /\ i + 1 \in Code(b)
           /\ Follows(b, i + 1, i)
           /\ \A j \in Code(b) : Follows(b, j, i) => j = i + 1
<1>1. Code(b) \in SUBSET Nat /\ DOMAIN b = 1..n
  BY CodeIsNumbers
<1> DEFINE before == {j \in Code(b) : j < i + 1}
<1>2. /\ Max(before) = i
      /\ \A j \in Code(b) : i < j => i + 1 <= j
  BY <1>1, LastUpTo
<1>3. i + 1 \in Code(b)
  <2> SUFFICES ASSUME i + 1 \notin Code(b) PROVE FALSE
    OBVIOUS
  <2>1. Starts(b, i + 1)
    BY <1>1 DEF LaidOut
  <2>2. i \in before
    OBVIOUS
  <2> QED
    BY <1>2, <2>1, <2>2 DEF Starts
<1>4. Follows(b, i + 1, i)
  <2>1. \A k \in Code(b) : k <= i \/ i + 1 <= k
    BY <1>1, <1>2
  <2> QED
    BY <2>1 DEF Follows
<1>5. ASSUME NEW j \in Code(b), Follows(b, j, i) PROVE j = i + 1
  BY <1>1, <1>3, <1>5 DEF Follows
<1> QED
  BY <1>3, <1>4, <1>5

\* The regular expression finds exactly the files that have such a statement.
LEMMA LintExact ==
    ASSUME NEW b \in Bodies, LaidOut(b)
    PROVE  prohibitedDDL(b) <=> IntroducesDDL(b)
<1> PICK n \in Nat : b \in [1..n -> Word]
  BY BodiesAreWords
<1>1. DOMAIN b = 1..n /\ \A m \in Code(b) : m \in 1..n /\ m \in Nat
  BY CodeIsNumbers
<1>2. ASSUME prohibitedDDL(b) PROVE IntroducesDDL(b)
  <2>1. PICK i \in 1..n : /\ b[i].first
                          /\ CreatesAt([j \in DOMAIN b |-> b[j].text], i)
    BY <1>1, <1>2 DEF prohibitedDDL
  <2>2. /\ b[i].text = "create"
        /\ i + 1 \in 1..n
        /\ \/ b[i + 1].text = "object"
           \/ /\ b[i + 1].text = "or replace"
              /\ i + 2 \in 1..n /\ b[i + 2].text = "object"
    BY <2>1, CreatesAtMeans
  <2>3. i \in Code(b)
    BY <2>1, <2>2, WordIsRead
  <2>4. Starts(b, i)
    BY <1>1, <2>1, <2>2, <2>3 DEF LaidOut
  <2>5. i + 1 \in Code(b) /\ Follows(b, i + 1, i)
    <3>1. i \in Nat
      OBVIOUS
    <3>2. b[i].text # "semicolon"
      BY <2>2
    <3> QED
      BY <2>2, <2>3, <3>1, <3>2, NextIsRead
  <2>6. ASSUME b[i + 1].text = "or replace", i + 2 \in 1..n
        PROVE  i + 2 \in Code(b) /\ Follows(b, i + 2, i + 1)
    <3> PICK m \in Nat : m = i + 1
      OBVIOUS
    <3>0. m \in Code(b)
      BY <2>5
    <3>1. m + 1 = i + 2
      OBVIOUS
    <3>2. m + 1 \in Code(b) /\ Follows(b, m + 1, m)
      BY <2>6, <3>0, <3>1, NextIsRead
    <3> QED
      BY <3>1, <3>2
  <2> QED
    BY <2>2, <2>3, <2>4, <2>5, <2>6 DEF IntroducesDDL
<1>3. ASSUME IntroducesDDL(b) PROVE prohibitedDDL(b)
  <2>1. PICK i \in 1..n, j \in 1..n :
           /\ i \in Code(b) /\ j \in Code(b)
           /\ b[i].text = "create" /\ Starts(b, i) /\ Follows(b, j, i)
           /\ \/ b[j].text = "object"
              \/ /\ b[j].text = "or replace"
                 /\ \E k \in 1..n : /\ k \in Code(b)
                                    /\ Follows(b, k, j) /\ b[k].text = "object"
    BY <1>1, <1>3 DEF IntroducesDDL
  <2>2. i \in Nat /\ j \in Nat /\ b[i].first
    BY <1>1, <2>1 DEF LaidOut
  <2>3. i + 1 \in 1..n /\ j = i + 1
    <3>1. i < j
      BY <2>1 DEF Follows
    <3>2. i + 1 \in 1..n
      BY <3>1
    <3> QED
      BY <2>1, <2>2, <3>2, NextIsRead
  <2>4. ASSUME b[j].text = "or replace", NEW k \in 1..n, k \in Code(b),
               Follows(b, k, j), b[k].text = "object"
        PROVE  i + 2 \in 1..n /\ b[i + 2].text = "object"
    <3>1. j < k
      BY <2>4 DEF Follows
    <3>2. j + 1 \in 1..n
      BY <3>1
    <3>3. k = j + 1
      BY <2>1, <2>2, <2>4, <3>2, NextIsRead
    <3>4. j + 1 = i + 2
      BY <2>3
    <3> QED
      BY <2>4, <3>2, <3>3, <3>4
  <2>5. CreatesAt([m \in DOMAIN b |-> b[m].text], i)
    BY <2>1, <2>2, <2>3, <2>4, CreatesAtMeans
  <2> QED
    BY <1>1, <2>2, <2>5 DEF prohibitedDDL
<1> QED
  BY <1>2, <1>3

-----------------------------------------------------------------------------
(* The verdict. *)

\* What the walk has found so far is what there was to find, as long as no file
\* was laid out oddly, and the status tells it.
VerdictInv ==
    /\ pc = "judge" => body \in Bodies
    /\ {violations, offends, odd} \subseteq BOOLEAN
    /\ ~odd => (violations <=> offends)
    /\ pc = "audit" => ~violations
    /\ pc # "done" => exit = "none"
    /\ exit # "none" => (exit = "1" <=> violations)

\* The first directory, or the inventory.
LEMMA VerdictInit == Init => VerdictInv
BY DEF Init, VerdictInv

\* Each file is judged by its statements; the rest of the walk adds nothing
\* but what could not be read.
LEMMA VerdictStep == VerdictInv /\ [Next]_vars => VerdictInv'
<1> SUFFICES ASSUME VerdictInv, [Next]_vars
             PROVE  VerdictInv'
  OBVIOUS
<1> USE DEF VerdictInv, lintVars, auditVars
<1>1. CASE Judge
  <2>1. ASSUME ~odd'
        PROVE  violations' <=> offends'
    <3>1. ~odd /\ LaidOut(body) /\ body \in Bodies
      BY <1>1, <2>1 DEF Judge
    <3>2. prohibitedDDL(body) <=> IntroducesDDL(body)
      BY <3>1, LintExact
    <3> QED
      BY <1>1, <3>1, <3>2 DEF Judge
  <2>2. {violations', offends', odd'} \subseteq BOOLEAN
    BY <1>1 DEF Judge
  <2>3. pc' = "walk" /\ exit' = "none"
    BY <1>1 DEF Judge
  <2> QED
    BY <2>1, <2>2, <2>3
<1>2. CASE ReadFile
  BY <1>2 DEF ReadFile
<1>3. CASE SkipPath \/ OpenPath \/ SkipEntry \/ EndOfPath
  BY <1>3 DEF SkipPath, OpenPath, SkipEntry, EndOfPath
<1>4. CASE ReadFails \/ WalkFails
  BY <1>4 DEF ReadFails, WalkFails
<1>5. CASE Verdict
  BY <1>5 DEF Verdict
<1>6. CASE Tally
  BY <1>6 DEF Tally
<1>7. CASE AuditEnds \/ InventoryUnreadable
  BY <1>7 DEF AuditEnds, InventoryUnreadable
<1>8. CASE UNCHANGED vars
  BY <1>8 DEF vars
<1> QED
  BY <1>1, <1>2, <1>3, <1>4, <1>5, <1>6, <1>7, <1>8 DEF Next

\* The lint fails exactly when a file went unread or a statement offends.
THEOREM VerdictExact == Spec => []VerdictIsExact
<1>1. Init => VerdictInv
  BY VerdictInit
<1>2. VerdictInv /\ [Next]_vars => VerdictInv'
  BY VerdictStep
<1>3. VerdictInv => VerdictIsExact
  BY DEF VerdictInv, VerdictIsExact
<1> QED
  BY <1>1, <1>2, <1>3, PTL DEF Spec

-----------------------------------------------------------------------------
(* The audit. *)

\* The list of statuses, and the tallies over them.
StatusSet == ToSet(Statuses)
Ranks == 1..5
Tallies == [StatusSet -> Nat]

\* The statuses are five, and differ.
LEMMA StatusesAre ==
    /\ DOMAIN Statuses = Ranks /\ Len(Statuses) = 5
    /\ StatusSet = {Statuses[i] : i \in Ranks}
    /\ \A i, j \in Ranks : Statuses[i] = Statuses[j] => i = j
BY DEF Statuses, StatusSet, ToSet, Ranks

\* The sum over the first k statuses is what the name says.
LEMMA UpToIs ==
    ASSUME NEW t \in Tallies
    PROVE  /\ UpTo(t, 0) = 0
           /\ \A k \in Ranks : UpTo(t, k) = UpTo(t, k - 1) + t[Statuses[k]]
<1> DEFINE c(i) == t[Statuses[i]]
           Is(f) == f = [i \in 0..Len(Statuses) |->
                            IF i = 0 THEN 0 ELSE f[i - 1] + t[Statuses[i]]]
           sum == CHOOSE f : Is(f)
<1>1. \A k : UpTo(t, k) = sum[k]
  BY DEF UpTo
<1>2. Len(Statuses) = 5
  BY StatusesAre
<1>3. \E f : Is(f)
  <2> DEFINE f == [i \in 0..5 |-> CASE i = 0 -> 0
                                    [] i = 1 -> 0 + c(1)
                                    [] i = 2 -> 0 + c(1) + c(2)
                                    [] i = 3 -> 0 + c(1) + c(2) + c(3)
                                    [] i = 4 -> 0 + c(1) + c(2) + c(3) + c(4)
                                    [] i = 5 -> 0 + c(1) + c(2) + c(3) + c(4) + c(5)]
             g == [i \in 0..5 |-> IF i = 0 THEN 0 ELSE f[i - 1] + c(i)]
  <2> HIDE DEF c
  <2>1. \A i \in 0..5 : f[i] = g[i]
    OBVIOUS
  <2>2. f = g
    BY <2>1
  <2>3. Is(f)
    BY <1>2, <2>2 DEF c
  <2> QED
    BY <2>3
<1>4. Is(sum)
  <2> HIDE DEF Is
  <2> QED
    BY <1>3
<1> HIDE DEF sum
<1>5. \A k \in 0..5 : sum[k] = IF k = 0 THEN 0 ELSE sum[k - 1] + t[Statuses[k]]
  BY <1>2, <1>4
<1> QED
  BY <1>1, <1>5 DEF Ranks

\* One more row under s is one more under every rank from that of s on.
LEMMA UpToAdd ==
    ASSUME NEW t \in Tallies, NEW s
    PROVE  /\ AddTo(t, s) \in Tallies
           /\ \A k \in Ranks :
                 /\ UpTo(t, k) \in Nat
                 /\ UpTo(AddTo(t, s), k) =
                       UpTo(t, k) + IF \E i \in 1..k : Statuses[i] = s THEN 1 ELSE 0
<1> DEFINE u == AddTo(t, s)
           More(k) == IF \E i \in 1..k : Statuses[i] = s THEN 1 ELSE 0
           Good(k) == UpTo(t, k) \in Nat /\ UpTo(u, k) = UpTo(t, k) + More(k)
<1>1. u \in Tallies
  BY DEF AddTo, Tallies
<1>2. ASSUME NEW k \in Ranks
      PROVE  /\ t[Statuses[k]] \in Nat
             /\ u[Statuses[k]] = t[Statuses[k]] + IF Statuses[k] = s THEN 1 ELSE 0
  BY StatusesAre DEF AddTo, Tallies
<1> HIDE DEF u
<1>3. Good(0)
  BY <1>1, UpToIs
<1>4. ASSUME NEW k \in Ranks, Good(k - 1) PROVE Good(k)
  <2>1. /\ UpTo(t, k) = UpTo(t, k - 1) + t[Statuses[k]]
        /\ UpTo(u, k) = UpTo(u, k - 1) + u[Statuses[k]]
    BY <1>1, UpToIs
  <2>2. More(k) = More(k - 1) + IF Statuses[k] = s THEN 1 ELSE 0
    <3>1. k \in 1..k /\ k \in Nat /\ \A i \in 1..k : i = k \/ i \in 1..(k - 1)
      BY DEF Ranks
    <3>2. CASE Statuses[k] = s
      <4>1. ~\E i \in 1..(k - 1) : Statuses[i] = s
        BY <3>2, StatusesAre DEF Ranks
      <4> QED
        BY <3>1, <3>2, <4>1
    <3>3. CASE Statuses[k] # s
      <4>1. (\E i \in 1..k : Statuses[i] = s) <=> \E i \in 1..(k - 1) : Statuses[i] = s
        BY <3>1, <3>3
      <4> QED
        BY <3>3, <4>1
    <3> QED
      BY <3>2, <3>3
  <2>3. More(k - 1) \in Nat
    OBVIOUS
  <2> HIDE DEF More
  <2> QED
    BY <1>2, <1>4, <2>1, <2>2, <2>3
<1> HIDE DEF Good
<1>5. \A k \in Ranks : Good(k)
  <2>1. Good(1)
    BY <1>3, <1>4 DEF Ranks
  <2>2. Good(2)
    BY <2>1, <1>4 DEF Ranks
  <2>3. Good(3)
    BY <2>2, <1>4 DEF Ranks
  <2>4. Good(4)
    BY <2>3, <1>4 DEF Ranks
  <2>5. Good(5)
    BY <2>4, <1>4 DEF Ranks
  <2> QED
    BY <2>1, <2>2, <2>3, <2>4, <2>5 DEF Ranks
<1> QED
  BY <1>1, <1>5 DEF u, Good

\* The status that is tallied is the one of the column, or an earlier one.
LEMMA StatusIsEarliest ==
    ASSUME NEW row \in Rows, NEW k \in Ranks, row[StatusColumn] = Statuses[k]
    PROVE  \E i \in 1..k : StatusOf(row) = Statuses[i]
<1> DEFINE found == {i \in DOMAIN Statuses : Has(row, Statuses[i])}
<1>1. StatusColumn \in 1..NumCells
  BY LintAssumption DEF StatusColumn
<1>2. k \in found /\ found \subseteq Ranks
  BY <1>1, StatusesAre DEF Has
<1>3. \E i \in found : \A j \in found : i <= j
  <2> HIDE DEF found
  <2>1. CASE 1 \in found
    BY <1>2, <2>1 DEF Ranks
  <2>2. CASE 1 \notin found /\ 2 \in found
    BY <1>2, <2>2 DEF Ranks
  <2>3. CASE 1 \notin found /\ 2 \notin found /\ 3 \in found
    BY <1>2, <2>3 DEF Ranks
  <2>4. CASE 1 \notin found /\ 2 \notin found /\ 3 \notin found /\ 4 \in found
    BY <1>2, <2>4 DEF Ranks
  <2>5. CASE 1 \notin found /\ 2 \notin found /\ 3 \notin found /\ 4 \notin found
    BY <1>2, <2>5 DEF Ranks
  <2> QED
    BY <2>1, <2>2, <2>3, <2>4, <2>5
<1>4. Min(found) \in found /\ Min(found) <= k
  <2> HIDE DEF found
  <2> QED
    BY <1>2, <1>3 DEF Min
<1>5. StatusOf(row) = Statuses[Min(found)]
  BY <1>2 DEF StatusOf
<1>6. Min(found) \in 1..k
  BY <1>2, <1>4 DEF Ranks
<1> QED
  BY <1>5, <1>6

\* What is added up so far flatters no row.
AuditInv ==
    /\ counts \in Tallies
    /\ column \in Tallies
    /\ \A k \in Ranks : UpTo(counts, k) >= UpTo(column, k)

\* Nothing has been counted.
LEMMA AuditInit == Init => AuditInv
<1>1. None \in Tallies
  BY DEF None, Tallies, StatusSet
<1>2. \A k \in Ranks : UpTo(None, k) \in Nat
  BY <1>1, UpToAdd
<1>3. \A k \in Ranks : UpTo(None, k) >= UpTo(None, k)
  BY <1>2
<1> QED
  BY <1>1, <1>3 DEF Init, AuditInv

\* A row adds to the counts wherever it adds to the column.
LEMMA AuditStep == AuditInv /\ [Next]_vars => AuditInv'
<1> SUFFICES ASSUME AuditInv, [Next]_vars
             PROVE  AuditInv'
  OBVIOUS
<1> USE DEF AuditInv
<1>1. CASE Tally
  <2>1. PICK row \in Rows : /\ counts' = AddTo(counts, StatusOf(row))
                            /\ column' = AddTo(column, row[StatusColumn])
    BY <1>1 DEF Tally
  <2>2. counts' \in Tallies /\ column' \in Tallies
    BY <2>1, UpToAdd
  <2>3. ASSUME NEW k \in Ranks
        PROVE  UpTo(counts', k) >= UpTo(column', k)
    <3> DEFINE m == IF \E i \in 1..k : Statuses[i] = StatusOf(row) THEN 1 ELSE 0
               n == IF \E i \in 1..k : Statuses[i] = row[StatusColumn] THEN 1 ELSE 0
    <3>1. /\ UpTo(counts, k) \in Nat /\ UpTo(counts', k) = UpTo(counts, k) + m
          /\ UpTo(column, k) \in Nat /\ UpTo(column', k) = UpTo(column, k) + n
      BY <2>1, UpToAdd
    <3>2. m >= n
      <4>1. ASSUME NEW i \in 1..k, Statuses[i] = row[StatusColumn]
            PROVE  \E j \in 1..k : Statuses[j] = StatusOf(row)
        <5>1. i \in Ranks /\ 1..i \subseteq 1..k
          BY DEF Ranks
        <5> QED
          BY <4>1, <5>1, StatusIsEarliest
      <4> QED
        BY <4>1
    <3>3. m \in Nat /\ n \in Nat
      OBVIOUS
    <3> HIDE DEF m, n
    <3>4. UpTo(counts, k) >= UpTo(column, k)
      OBVIOUS
    <3> QED
      BY <3>1, <3>2, <3>3, <3>4
  <2>4. \A k \in Ranks : (UpTo(counts, k) >= UpTo(column, k))'
    BY <2>3 DEF UpTo
  <2> QED
    BY <2>2, <2>4
<1>2. CASE UNCHANGED <<counts, column>>
  BY <1>2 DEF UpTo
<1> QED
  BY <1>1, <1>2 DEF Next, SkipPath, OpenPath, SkipEntry, ReadFile, ReadFails,
      WalkFails, EndOfPath, Judge, Verdict, AuditEnds, InventoryUnreadable,
      auditVars, vars

\* The audit never shows a row as further than its status column says.
THEOREM NeverFlatters == Spec => []AuditNeverFlatters
<1>1. Init => AuditInv
  BY AuditInit
<1>2. AuditInv /\ [Next]_vars => AuditInv'
  BY AuditStep
<1>3. AuditInv => AuditNeverFlatters
  BY StatusesAre DEF AuditInv, AuditNeverFlatters
<1> QED
  BY <1>1, <1>2, <1>3, PTL DEF Spec

=============================================================================
