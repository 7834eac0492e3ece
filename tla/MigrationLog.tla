---------------------------- MODULE MigrationLog ----------------------------
(***************************************************************************)
(* What flyway.sh promises for versioned scripts, whatever the number of   *)
(* runners, their failures and their crashes: a script is applied only     *)
(* when all lower versions are recorded, it is recorded only once applied, *)
(* neither is undone, except by dropping the database.                     *)
(***************************************************************************)
EXTENDS Integers

CONSTANT NumVersioned

VARIABLES
    applied,   \* scripts whose statements have all committed
    recorded   \* scripts with a row of success in the history

logVars == <<applied, recorded>>

Versioned == 1..NumVersioned

Init ==
    /\ applied = {}
    /\ recorded = {}

Apply(s) ==
    /\ s \notin applied
    /\ \A t \in Versioned : t < s => t \in recorded
    /\ applied' = applied \cup {s}
    /\ UNCHANGED recorded

Record(s) ==
    /\ s \in applied \ recorded
    /\ recorded' = recorded \cup {s}
    /\ UNCHANGED applied

Wipe ==
    /\ applied' = {}
    /\ recorded' = {}

Next ==
    \/ \E s \in Versioned : Apply(s) \/ Record(s)
    \/ Wipe

Spec == Init /\ [][Next]_logVars

=============================================================================
