---------------------------- MODULE ReconProofs ----------------------------
(***************************************************************************)
(* For any lines, rules, any number of allocations and of runs, and        *)
(* whether or not the old application is stopped: from the end of V1.42 on *)
(* a line has one active allocation at most, what was confirmed before the *)
(* UPDATE is approved, and what was disabled is off.  None of this is      *)
(* inductive.  A rerun could make rows active that the index has not seen: *)
(* it needs that every row is active once the column is there (TypeOK),    *)
(* that the index implies the column, that uniqueness holds whenever the   *)
(* index does, not only at the end, and that the flags of the rules agree  *)
(* from their UPDATE on.                                                   *)
(***************************************************************************)
EXTENDS ReconMigration, TLAPS

\* The UPDATE of this run is behind it.
Mapped == pc \in {"buildIndex", "done"}

\* The UPDATE of the rules of this run is behind it.
Flagged == Mapped \/ pc \in {"addColumns", "mapMethod", "mapStatus"}

IInv ==
    /\ TypeOK
    /\ Mapped \/ pc \in {"mapMethod", "mapStatus"} \/ index => columns
    /\ Migrated => index
    /\ index => Unique
    /\ Mapped => \A a \in Rows \ late : status[a] = "confirmed" => workflow[a] = "approved"
    /\ Flagged => disabled \ ruled \subseteq off

\* Before any allocation and any run the invariant holds.
LEMMA InitHolds == Init => IInv
<1> SUFFICES ASSUME Init PROVE IInv
  OBVIOUS
<1>1. Rows = {}
  BY DEF Init, Rows
<1>2. TypeOK
  BY <1>1, ReconAssumption DEF Init, TypeOK, Statements
<1> QED BY <1>1, <1>2 DEF Init, IInv, Migrated, Mapped, Flagged

\* Rows and the active ones among them depend on two variables only.
LEMMA RowsKept ==
  ASSUME line' = line, workflow' = workflow
  PROVE  Rows' = Rows /\ Unique' = Unique
<1>1. Rows' = Rows
  BY DEF Rows
<1>2. \A l \in Lines : ActiveOf(l)' = ActiveOf(l)
  BY <1>1 DEF ActiveOf
<1> QED BY <1>1, <1>2 DEF Unique

\* When every row is active and stays so, the index is not disturbed.
LEMMA StillUnique ==
  ASSUME line' = line,
         \A a \in Rows : workflow[a] \in Active
  PROVE  Unique => Unique'
<1> SUFFICES ASSUME Unique, NEW l \in Lines, NEW a \in ActiveOf(l)', NEW b \in ActiveOf(l)'
             PROVE  a = b
  BY DEF Unique
<1>1. Rows' = Rows
  BY DEF Rows
<1>2. a \in ActiveOf(l) /\ b \in ActiveOf(l)
  BY <1>1 DEF ActiveOf
<1> QED BY <1>2 DEF Unique

\* A line without an active allocation may be given one.
LEMMA NewIsUnique ==
  ASSUME TypeOK, Unique, NEW l \in Lines, NEW a \in Allocs, a \notin Rows, ActiveOf(l) = {},
         NEW w, line' = [line EXCEPT ![a] = l], workflow' = [workflow EXCEPT ![a] = w]
  PROVE  Unique'
<1>1. /\ line'[a] = l
      /\ \A b \in Allocs \ {a} : line'[b] = line[b] /\ workflow'[b] = workflow[b]
  BY DEF TypeOK
<1>2. Rows' \subseteq Rows \cup {a}
  BY <1>1 DEF Rows
<1>3. ASSUME NEW k \in Lines, NEW b \in ActiveOf(k)' PROVE (b = a /\ k = l) \/ b \in ActiveOf(k)
  BY <1>1, <1>2 DEF ActiveOf, Rows
<1> QED BY <1>3 DEF Unique

\* A new row, of either application.
LEMMA InsertHolds ==
  ASSUME IInv, NEW l \in Lines, NEW a \in Allocs, Allocate(l, a) \/ Propose(l, a)
  PROVE  IInv'
<1> USE ReconAssumption
<1>1. PICK w \in {"none"} \cup Active :
        /\ a \notin Rows
        /\ line' = [line EXCEPT ![a] = l]
        /\ status' = [status EXCEPT ![a] = "pending"]
        /\ workflow' = [workflow EXCEPT ![a] = w]
        /\ columns => w = "proposed"
        /\ index => ActiveOf(l) = {}
        /\ UNCHANGED <<columns, index, pc, runs, disabled, off, ruled>>
        /\ method' \in [Allocs -> {"none", "mapped", "own"}]
        /\ late' \subseteq late \cup {a}
        /\ late \subseteq late'
  <2>1. CASE Allocate(l, a)
    <3>1. (IF columns THEN "proposed" ELSE "none") \in {"none"} \cup Active
      BY DEF Active
    <3> QED BY <2>1, <3>1 DEF Allocate, Late, rules, IInv, TypeOK
  <2>2. CASE Propose(l, a)
    <3>1. "proposed" \in {"none"} \cup Active
      BY DEF Active
    <3> QED BY <2>2, <3>1 DEF Propose, rules, IInv, TypeOK
  <2> QED BY <2>1, <2>2
<1>2. Rows' = Rows \cup {a}
  BY <1>1 DEF IInv, TypeOK, Rows
<1>3. /\ status'[a] = "pending" /\ workflow'[a] = w
      /\ \A b \in Rows : status'[b] = status[b] /\ workflow'[b] = workflow[b]
  BY <1>1 DEF IInv, TypeOK, Rows
<1>4. TypeOK'
  <2>1. /\ line' \in [Allocs -> Lines \cup {"none"}]
        /\ status' \in [Allocs -> {"none", "pending", "confirmed", "reversed"}]
        /\ workflow' \in [Allocs -> {"none"} \cup Active]
    BY <1>1 DEF IInv, TypeOK
  <2>2. /\ \A b \in Allocs : b \in Rows' <=> status'[b] # "none"
        /\ columns' => \A b \in Rows' : workflow'[b] \in Active
    BY <1>1, <1>2, <1>3 DEF IInv, TypeOK, Active
  <2> QED BY <1>1, <1>2, <2>1, <2>2 DEF IInv, TypeOK
<1>5. index => Unique'
  BY <1>1, NewIsUnique DEF IInv
<1> QED BY <1>1, <1>2, <1>3, <1>4, <1>5 DEF IInv, Migrated, Mapped, Flagged

\* No statement of V1.42 and no step of either application breaks it.
LEMMA StepHolds == IInv /\ [Next]_vars => IInv'
<1> SUFFICES ASSUME IInv, [Next]_vars PROVE IInv'
  OBVIOUS
<1>1. ASSUME NEW a \in Allocs, Confirm(a) \/ Reverse(a) PROVE IInv'
  <2>1. /\ UNCHANGED <<line, workflow, method, disabled, off, ruled, columns, index, pc, runs>>
        /\ late' = late \cup {a}
        /\ status[a] # "none"
        /\ \E s \in {"confirmed", "reversed"} : status' = [status EXCEPT ![a] = s]
    BY <1>1 DEF Confirm, Reverse, Late, rules
  <2>2. a \in Rows
    BY <2>1 DEF IInv, TypeOK
  <2>3. Rows' = Rows /\ Unique' = Unique
    BY <2>1, RowsKept
  <2>4. TypeOK'
    BY <2>1, <2>2, <2>3 DEF IInv, TypeOK
  <2> QED BY <2>1, <2>3, <2>4 DEF IInv, TypeOK, Migrated, Mapped, Flagged, Rows
<1>2. ASSUME NEW a \in Allocs, Approve(a) PROVE IInv'
  <2>1. /\ index /\ columns
        /\ workflow' = [workflow EXCEPT ![a] = "approved"]
        /\ UNCHANGED <<line, status, method, disabled, off, ruled, columns, index, pc, runs,
                       late>>
    BY <1>2 DEF Approve, IInv, Deployed, rules
  <2>2. Rows' = Rows
    BY <2>1 DEF Rows
  <2>3. TypeOK'
    BY <2>1, <2>2 DEF IInv, TypeOK, Active, Rows
  <2>4. Unique'
    BY <2>1, StillUnique DEF IInv, TypeOK
  <2>5. \A b \in Rows : workflow'[b] = workflow[b] \/ workflow'[b] = "approved"
    BY <2>1 DEF IInv, TypeOK, Rows
  <2> QED BY <2>1, <2>2, <2>3, <2>4, <2>5 DEF IInv, Migrated, Mapped, Flagged
<1>3. CASE Run \/ AddLineColumns \/ Crash \/ BuildIndex \/ BuildRefused
  <2>1. /\ UNCHANGED <<line, status, workflow, method, disabled, off, ruled, columns, late>>
        /\ runs' \in Nat
        /\ pc' \in Statements \cup {"off", "done", "failed"}
        /\ pc' \notin {"addColumns", "mapMethod", "mapStatus", "buildIndex"}
        /\ \/ index' = index /\ pc' # "done"
           \/ index' = TRUE /\ pc = "buildIndex" /\ Unique
    <3>1. CASE Run \/ AddLineColumns \/ Crash \/ BuildRefused
      BY <1>3, <3>1 DEF Run, AddLineColumns, Crash, BuildRefused, IInv, TypeOK, Statements,
                        rules
    <3>2. CASE BuildIndex
      BY <3>2 DEF BuildIndex, IInv, TypeOK, Statements, rules
    <3> QED BY <1>3, <3>1, <3>2
  <2>2. Rows' = Rows /\ Unique' = Unique
    BY <2>1, RowsKept
  <2>3. TypeOK'
    BY <2>1, <2>2 DEF IInv, TypeOK
  <2> QED BY <2>1, <2>2, <2>3 DEF IInv, TypeOK, Migrated, Mapped, Flagged
<1>4. CASE AddColumns
  <2>1. /\ UNCHANGED <<line, status, method, disabled, off, ruled, index, runs, late>>
        /\ pc = "addColumns" /\ pc' = "mapMethod" /\ columns'
        /\ workflow' = [a \in Allocs |-> IF a \in Rows /\ workflow[a] = "none"
                                         THEN "proposed" ELSE workflow[a]]
    BY <1>4 DEF AddColumns, rules
  <2>2. Rows' = Rows
    BY <2>1 DEF Rows
  <2>3. \A a \in Rows : workflow'[a] \in Active
    BY <2>1 DEF IInv, TypeOK, Active, Rows
  <2>4. TypeOK'
    <3>1. workflow' \in [Allocs -> {"none"} \cup Active]
      BY <2>1 DEF IInv, TypeOK, Active
    <3>2. columns' = TRUE
      BY <1>4 DEF AddColumns
    <3> QED BY <2>1, <2>2, <2>3, <3>1, <3>2 DEF IInv, TypeOK, Statements
  <2>5. index => Unique'
    BY <2>1, StillUnique DEF IInv, TypeOK
  <2> QED BY <2>1, <2>4, <2>5 DEF IInv, Migrated, Mapped, Flagged
<1>5. CASE MapStatus
  <2>1. /\ UNCHANGED <<line, status, method, disabled, off, ruled, columns, index, runs>>
        /\ pc = "mapStatus" /\ pc' = "buildIndex" /\ late' = {}
        /\ workflow' = [a \in Allocs |-> Remapped(a)]
    BY <1>5 DEF MapStatus, rules
  <2>2. Rows' = Rows
    BY <2>1 DEF Rows
  <2>3. \A a \in Rows : /\ workflow[a] \in Active /\ workflow'[a] = Remapped(a)
                        /\ workflow'[a] \in Active
    BY <2>1 DEF IInv, TypeOK, Active, Rows, Remapped
  <2>4. TypeOK'
    <3>1. workflow' \in [Allocs -> {"none"} \cup Active]
      BY <2>1 DEF IInv, TypeOK, Active, Remapped
    <3> QED BY <2>1, <2>2, <2>3, <3>1 DEF IInv, TypeOK, Statements
  <2>5. index => Unique'
    BY <2>1, <2>3, StillUnique
       DEF IInv
  <2>6. \A a \in Rows' : status'[a] = "confirmed" => workflow'[a] = "approved"
    BY <2>1, <2>2, <2>3 DEF Remapped, Active
  <2> QED BY <2>1, <2>4, <2>5, <2>6 DEF IInv, Migrated, Mapped, Flagged
<1>6. CASE MapEnabled \/ \E rule \in Rules : Disable(rule) \/ Enable(rule)
  <2>1. /\ UNCHANGED <<line, status, workflow, method, columns, index, runs, late>>
        /\ disabled' \subseteq Rules /\ off' \subseteq Rules /\ ruled' \subseteq Rules
        /\ pc' = pc \/ (pc' = "addColumns" /\ pc # "done")
        /\ Flagged' => disabled' \ ruled' \subseteq off'
    <3>1. CASE MapEnabled
      BY <3>1 DEF MapEnabled, IInv, TypeOK
    <3>2. CASE \E rule \in Rules : Disable(rule) \/ Enable(rule)
      <4>1. PICK rule \in Rules : Disable(rule) \/ Enable(rule)
        BY <3>2
      <4>2. /\ \A set : Switch(rule, set) \subseteq set \cup {rule}
            /\ \A set : set \ {rule} \subseteq Switch(rule, set)
        BY DEF Switch
      <4>3. /\ UNCHANGED <<line, status, workflow, method, columns, index, pc, runs, late>>
            /\ ruled' = ruled \cup {rule}
            /\ \/ disabled' = Switch(rule, disabled) /\ off' = off
               \/ off' = Switch(rule, off) /\ disabled' = disabled
        BY <4>1 DEF Disable, Enable
      <4>4. disabled' \subseteq Rules /\ off' \subseteq Rules /\ ruled' \subseteq Rules
        BY <4>2, <4>3 DEF IInv, TypeOK
      <4>5. disabled \ ruled \subseteq off => disabled' \ ruled' \subseteq off'
        BY <4>2, <4>3
      <4>6. Flagged' => Flagged
        BY <4>3 DEF Flagged, Mapped
      <4>7. Flagged' => disabled' \ ruled' \subseteq off'
        BY <4>5, <4>6 DEF IInv
      <4> QED BY <4>3, <4>4, <4>7
    <3> QED BY <1>6, <3>1, <3>2
  <2>2. Rows' = Rows /\ Unique' = Unique
    BY <2>1, RowsKept
  <2>3. TypeOK'
    BY <2>1, <2>2 DEF IInv, TypeOK, Statements
  <2> QED BY <2>1, <2>2, <2>3 DEF IInv, TypeOK, Migrated, Mapped
<1>7. CASE MapMethod
  <2>1. /\ UNCHANGED <<line, status, workflow, disabled, off, ruled, columns, index, runs,
                       late>>
        /\ method' \in [Allocs -> {"none", "mapped", "own"}]
        /\ pc = "mapMethod" /\ pc' = "mapStatus"
    BY <1>7 DEF MapMethod, rules, IInv, TypeOK
  <2>2. Rows' = Rows /\ Unique' = Unique
    BY <2>1, RowsKept
  <2>3. TypeOK'
    BY <2>1, <2>2 DEF IInv, TypeOK, Statements
  <2> QED BY <2>1, <2>2, <2>3 DEF IInv, Migrated, Mapped, Flagged
<1>8. CASE UNCHANGED vars
  <2>1. UNCHANGED <<line, status, workflow, method, disabled, off, ruled, columns, index, pc,
                    runs, late>>
    BY <1>8 DEF vars, rules
  <2>2. Rows' = Rows /\ Unique' = Unique
    BY <2>1, RowsKept
  <2> QED BY <2>1, <2>2 DEF IInv, TypeOK, Migrated, Mapped, Flagged
<1> QED
  BY <1>1, <1>2, <1>3, <1>4, <1>5, <1>6, <1>7, <1>8, InsertHolds DEF Next

\* The inductive invariant, from which the theorems are read off.
LEMMA Invariance == Spec => []IInv
  BY InitHolds, StepHolds, PTL DEF Spec

-----------------------------------------------------------------------------
\* The types, and that every row has a workflow status once there is one.
THEOREM TypeCorrect == Spec => []TypeOK
<1>1. IInv => TypeOK
  BY DEF IInv
<1> QED BY <1>1, Invariance, PTL

\* From the end of V1.42 on a bank feed line has one active allocation at most,
\* through reruns, crashes and the work of both applications beside them (the
\* index of V1.42:150).
THEOREM OneActive == Spec => []OneActivePerLine
<1>1. IInv => OneActivePerLine
  BY DEF IInv, OneActivePerLine
<1> QED BY <1>1, Invariance, PTL

\* What was confirmed before the UPDATE is approved from the end of V1.42 on.
THEOREM Confirmed == Spec => []ConfirmedIsApproved
<1>1. IInv => ConfirmedIsApproved
  BY DEF IInv, ConfirmedIsApproved, Mapped, Migrated
<1> QED BY <1>1, Invariance, PTL

\* What the old application disabled before the UPDATE is off from the end of
\* V1.42 on.
THEOREM Disabled == Spec => []DisabledIsOff
<1>1. IInv => DisabledIsOff
  BY DEF IInv, DisabledIsOff, Flagged, Mapped, Migrated
<1> QED BY <1>1, Invariance, PTL

\* What a step of a script keeps (the body of MigrationKeepsDecisions).
Keeps ==
    /\ \A a \in Rows :
          /\ workflow[a] = "approved" => workflow'[a] = "approved"
          /\ status[a] = "pending" /\ workflow[a] = "proposed" => workflow'[a] = "proposed"
          /\ method[a] = "own" => method'[a] = "own"
    /\ off \subseteq off' /\ off' \subseteq off \cup disabled

\* No step of V1.42, in any run of it, takes back an approval, makes one of what
\* the old application left pending, writes over a method of the new one, or
\* switches a rule but off where the old flag says so.
THEOREM DecisionsKept == Spec => MigrationKeepsDecisions
<1>1. Next => (pc' # pc => Keeps)
  <2> SUFFICES ASSUME Next, pc' # pc PROVE Keeps
    OBVIOUS
  <2>1. CASE UNCHANGED <<workflow, method, off>>
    BY <2>1 DEF Keeps
  <2>2. CASE AddColumns
    BY <2>2 DEF AddColumns, Rows, rules, Keeps
  <2>3. CASE MapStatus
    BY <2>3 DEF MapStatus, Remapped, Rows, rules, Keeps
  <2>4. CASE MapEnabled
    BY <2>4 DEF MapEnabled, Keeps
  <2>5. CASE MapMethod
    BY <2>5 DEF MapMethod, Rows, rules, Keeps
  <2> QED BY <2>1, <2>2, <2>3, <2>4, <2>5 DEF Next, Allocate, Propose, Confirm, Reverse,
             Approve, Disable, Enable, Run, AddLineColumns, BuildIndex, BuildRefused, Crash,
             rules
<1>2. [Next]_vars => [pc' # pc => Keeps]_vars
  BY <1>1
<1>3. (pc' # pc => Keeps) <=>
        (pc' # pc =>
            /\ \A a \in Rows :
                  /\ workflow[a] = "approved" => workflow'[a] = "approved"
                  /\ status[a] = "pending" /\ workflow[a] = "proposed" =>
                        workflow'[a] = "proposed"
                  /\ method[a] = "own" => method'[a] = "own"
            /\ off \subseteq off' /\ off' \subseteq off \cup disabled)
  BY DEF Keeps
<1> QED BY <1>2, <1>3, PTL DEF Spec, MigrationKeepsDecisions

=============================================================================
