---------------------------- MODULE LocationClass ----------------------------
(***************************************************************************)
(* migrations/tenant V1.33 and V1.43: the classes of addresses, the table  *)
(* that links contacts to locations, and the table of contact channels.    *)
(* V1.33 was written for an empty location_class; V1.43 repairs databases  *)
(* that LedgerSMB had seeded, where V1.33 fails at its first statement.    *)
(* Statements commit one by one; a script stops at the first one that      *)
(* fails.  Beside them work the application and the dataset loader, and    *)
(* in a database that LedgerSMB seeded the program that uses its tables.   *)
(* Upper and lower case of a class, which the unique index ignores, and    *)
(* comments on tables are left out.                                        *)
(***************************************************************************)
EXTENDS Integers, FiniteSetsExt

CONSTANTS
    Contacts,   \* rows of entity_credit_account
    Added,      \* classes that the application adds
    MaxRuns,    \* bound: executions of the runner
    MaxId,      \* bound: ids of location_class
    MaxLinks    \* bound: links of a contact to one class

ASSUME LocationAssumption ==
    /\ Added \cap {"billing", "shipping", "sales"} = {}
    /\ MaxRuns \in Nat /\ MaxLinks \in Nat
    /\ MaxId \in Nat /\ MaxId >= 3  \* the classes that LedgerSMB seeds

VARIABLES
    class,     \* class[id], for the ids in use
    seq,       \* last value of the identity sequence of location_class
    legacy,    \* location_class_to_entity_class refers to every class
    shape,     \* of eca_to_location: "none", "ledgersmb" or "ledgius"
    links,     \* links[c][id]: rows of eca_to_location that give contact c a location of
               \* class id, the primary ones in the table of this repository
    index,     \* uq_eca_to_location_primary exists
    channels,  \* table contact exists
    recorded,  \* scripts with a row in the history
    pc,        \* the statement to come, or "off"
    exit,      \* how the last run ended
    runs

tables == <<class, seq, legacy, shape, links, index, channels>>
vars == <<tables, recorded, pc, exit, runs>>

Ids == 1..MaxId
V133 == {"seedClasses", "createLinks", "indexLinks", "createChannels", "record133"}
V143 == {"clearLegacy", "deleteOthers", "pinClasses", "setSequence", "reshape",
         "reindex", "recreateChannels", "record143"}

IdOf(name) == {id \in DOMAIN class : class[id] = name}

\* A row that others refer to can be neither deleted nor renumbered; LedgerSMB's
\* eca_to_location refers to it as well.
Referred(id) == legacy \/ \E c \in Contacts : links[c][id] > 0
NoLinks == [c \in Contacts |-> [id \in Ids |-> 0]]

\* No contact has two primary locations of one class.
PrimaryUnique == \A c \in Contacts, id \in Ids : links[c][id] <= 1

\* The identity sequence of V1.00 starts behind the ids that LedgerSMB uses; a
\* database that LedgerSMB made has it there or, seeded with explicit ids, at 0.
Init ==
    /\ \/ /\ class = << >> /\ seq = 3 /\ legacy = FALSE /\ shape = "none"
       \/ /\ class = <<"billing", "sales", "shipping">> /\ seq \in {0, 3}
          /\ legacy = TRUE /\ shape = "ledgersmb"
    /\ links = NoLinks
    /\ index = FALSE /\ channels = FALSE
    /\ recorded = {}
    /\ pc = "off" /\ exit = "none" /\ runs = 0

-----------------------------------------------------------------------------
(* The runner. *)

\* It starts with the first script that has no row.
Run ==
    /\ pc = "off"
    /\ runs < MaxRuns
    /\ runs' = runs + 1
    /\ exit' = "none"
    /\ pc' = IF "V1.33" \notin recorded THEN "seedClasses" ELSE "clearLegacy"
    /\ "V1.43" \notin recorded
    /\ UNCHANGED <<tables, recorded>>

Goto(next) == pc' = next /\ UNCHANGED <<recorded, exit, runs>>

Record133 ==
    /\ pc = "record133"
    /\ recorded' = recorded \cup {"V1.33"}
    /\ pc' = "clearLegacy"
    /\ UNCHANGED <<tables, exit, runs>>

Record143 ==
    /\ pc = "record143"
    /\ recorded' = recorded \cup {"V1.43"}
    /\ pc' = "off" /\ exit' = "done"
    /\ UNCHANGED <<tables, runs>>

Stop(at) == pc' = "off" /\ exit' = at /\ UNCHANGED <<tables, recorded, runs>>

\* The runner never gets from a V1.33 that fails to V1.43, which repairs it:
\* an operator enters the row of V1.33 by hand.
EnterRow ==
    /\ pc = "off" /\ exit = "V1.33"
    /\ recorded' = recorded \cup {"V1.33"}
    /\ exit' = "none"
    /\ UNCHANGED <<tables, pc, runs>>

\* The runner stops between two statements, or before it records a script.
Crash == pc # "off" /\ Stop("crashed")

-----------------------------------------------------------------------------
(* V1.33. *)

Upserted == [id \in DOMAIN class \cup {1, 2} |->
                IF id = 1 THEN "billing" ELSE IF id = 2 THEN "shipping" ELSE class[id]]

\* INSERT ... ON CONFLICT (id) DO UPDATE, one statement for both rows; the
\* index on lower(class) is another one and its conflicts are errors.  The
\* rows have explicit ids and leave the sequence where it is.
ClassesFit ==
    /\ IdOf("billing") \subseteq {1}
    /\ IdOf("shipping") \subseteq {2}

SeedClasses ==
    /\ pc = "seedClasses"
    /\ ClassesFit
    /\ class' = Upserted
    /\ Goto("createLinks")
    /\ UNCHANGED <<seq, legacy, shape, links, index, channels>>

SeedRefused ==
    /\ pc = "seedClasses"
    /\ ~ClassesFit
    /\ Stop("V1.33")

CreateLinks ==
    /\ pc = "createLinks"
    /\ shape' = IF shape = "none" THEN "ledgius" ELSE shape
    /\ Goto("indexLinks")
    /\ UNCHANGED <<class, seq, legacy, links, index, channels>>

\* CREATE UNIQUE INDEX needs the columns of this repository's table, and rows
\* that satisfy it.
Indexable == index \/ (shape = "ledgius" /\ PrimaryUnique)

IndexLinks ==
    /\ pc = "indexLinks"
    /\ Indexable
    /\ index' = TRUE
    /\ Goto("createChannels")
    /\ UNCHANGED <<class, seq, legacy, shape, links, channels>>

IndexRefused ==
    /\ pc = "indexLinks"
    /\ ~Indexable
    /\ Stop("V1.33")

CreateChannels ==
    /\ pc = "createChannels"
    /\ channels' = TRUE
    /\ Goto("record133")
    /\ UNCHANGED <<class, seq, legacy, shape, links, index>>

-----------------------------------------------------------------------------
(* V1.43. *)

ClearLegacy ==
    /\ pc = "clearLegacy"
    /\ legacy' = FALSE
    /\ Goto("deleteOthers")
    /\ UNCHANGED <<class, seq, shape, links, index, channels>>

Others == {id \in DOMAIN class : class[id] \notin {"billing", "shipping"}}
Keep(ids) == [id \in ids |-> class[id]]

\* Mutant of DeleteOthers: location_class_id is no foreign key.
DeleteOthersForced ==
    /\ pc = "deleteOthers"
    /\ class' = Keep(DOMAIN class \ Others)
    /\ Goto("pinClasses")
    /\ UNCHANGED <<seq, legacy, shape, links, index, channels>>

DeleteOthers ==
    /\ pc = "deleteOthers"
    /\ \A id \in Others : ~Referred(id)
    /\ class' = Keep(DOMAIN class \ Others)
    /\ Goto("pinClasses")
    /\ UNCHANGED <<seq, legacy, shape, links, index, channels>>

DeleteRefused ==
    /\ pc = "deleteOthers"
    /\ \E id \in Others : Referred(id)
    /\ Stop("V1.43")

\* Mutant of Pinned: a row is inserted where there is none, and a row with
\* another id is left there.
PinnedInsertOnly(name, id, rows) ==
    IF \E i \in DOMAIN rows : rows[i] = name THEN rows
    ELSE [i \in DOMAIN rows \cup {id} |-> IF i = id THEN name ELSE rows[i]]

\* The class name moves to id, and what was there is removed.
Pinned(name, id, rows) ==
    [i \in {id} \cup {j \in DOMAIN rows : rows[j] # name} |->
        IF i = id THEN name ELSE rows[i]]

\* A row that is missing is inserted where its id is free; one that is elsewhere
\* changes places with what is there, and neither may be referred to.
Pinnable(name, id, rows) ==
    LET now == {j \in DOMAIN rows : rows[j] = name}
    IN  /\ now = {} => id \notin DOMAIN rows
        /\ now \notin {{}, {id}} => \A j \in now \cup {id} : ~Referred(j)

PinClasses ==
    /\ pc = "pinClasses"
    /\ Pinnable("billing", 1, class)
    /\ Pinnable("shipping", 2, Pinned("billing", 1, class))
    /\ class' = Pinned("shipping", 2, Pinned("billing", 1, class))
    /\ Goto("setSequence")
    /\ UNCHANGED <<seq, legacy, shape, links, index, channels>>

\* One DO block: nothing of it remains.
PinRefused ==
    /\ pc = "pinClasses"
    /\ ~ /\ Pinnable("billing", 1, class)
         /\ Pinnable("shipping", 2, Pinned("billing", 1, class))
    /\ Stop("V1.43")

\* Mutant of SetSequence: the sequence starts again behind the two rows.
SetSequenceZero ==
    /\ pc = "setSequence"
    /\ seq' = 0
    /\ Goto("reshape")
    /\ UNCHANGED <<class, legacy, shape, links, index, channels>>

SetSequence ==
    /\ pc = "setSequence"
    /\ seq' = Max(DOMAIN class \cup {2})
    /\ Goto("reshape")
    /\ UNCHANGED <<class, legacy, shape, links, index, channels>>

\* Mutant of Reshape: the table is always dropped and created again.
ReshapeAlways ==
    /\ pc = "reshape"
    /\ shape' = "ledgius"
    /\ links' = NoLinks
    /\ index' = FALSE
    /\ Goto("reindex")
    /\ UNCHANGED <<class, seq, legacy, channels>>

\* One DO block: DROP TABLE with its rows and CREATE TABLE, unless the columns
\* are there.
Reshape ==
    /\ pc = "reshape"
    /\ IF shape = "ledgius" THEN UNCHANGED <<shape, links, index>>
       ELSE shape' = "ledgius" /\ links' = NoLinks /\ index' = FALSE
    /\ Goto("reindex")
    /\ UNCHANGED <<class, seq, legacy, channels>>

\* Mutant of Reindex: the index is not unique.
ReindexPlain ==
    /\ pc = "reindex"
    /\ Goto("recreateChannels")
    /\ UNCHANGED tables

Reindex ==
    /\ pc = "reindex"
    /\ Indexable
    /\ index' = TRUE
    /\ Goto("recreateChannels")
    /\ UNCHANGED <<class, seq, legacy, shape, links, channels>>

ReindexRefused ==
    /\ pc = "reindex"
    /\ ~Indexable
    /\ Stop("V1.43")

RecreateChannels ==
    /\ pc = "recreateChannels"
    /\ channels' = TRUE
    /\ Goto("record143")
    /\ UNCHANGED <<class, seq, legacy, shape, links, index>>

-----------------------------------------------------------------------------
(* The application and the dataset loader. *)

\* A row of eca_to_location that gives c a location of the class at id.
AddLink(c, id) ==
    /\ id \in DOMAIN class
    /\ links[c][id] < MaxLinks
    /\ links' = [links EXCEPT ![c][id] = @ + 1]
    /\ UNCHANGED <<class, seq, legacy, shape, index, channels, recorded, pc, exit, runs>>

\* INSERT INTO eca_to_location ... ON CONFLICT DO NOTHING, a primary location:
\* without the index there is no conflict.
Link(c, id) ==
    /\ shape = "ledgius"
    /\ index => links[c][id] = 0
    /\ AddLink(c, id)

\* LedgerSMB gives a contact a location, in its own table.
LegacyLink(c, id) ==
    /\ shape = "ledgersmb"
    /\ AddLink(c, id)

Unlink(c, id) ==
    /\ links[c][id] > 0
    /\ links' = [links EXCEPT ![c][id] = @ - 1]
    /\ UNCHANGED <<class, seq, legacy, shape, index, channels, recorded, pc, exit, runs>>

\* A migration, LedgerSMB or the application adds a class: INSERT INTO
\* location_class with the next value of the sequence, which is used up whether
\* or not the id is free.
AddClass(name) ==
    /\ IdOf(name) = {}
    /\ seq < MaxId
    /\ seq' = seq + 1
    /\ class' = IF seq + 1 \in DOMAIN class THEN class
                ELSE [id \in DOMAIN class \cup {seq + 1} |->
                         IF id = seq + 1 THEN name ELSE class[id]]
    /\ UNCHANGED <<legacy, shape, links, index, channels, recorded, pc, exit, runs>>

Next ==
    \/ Run \/ EnterRow \/ Record133 \/ Record143 \/ Crash
    \/ SeedClasses \/ SeedRefused \/ CreateLinks \/ IndexLinks \/ IndexRefused
    \/ CreateChannels
    \/ ClearLegacy \/ DeleteOthers \/ DeleteRefused \/ PinClasses
    \/ PinRefused \/ SetSequence \/ Reshape \/ Reindex \/ ReindexRefused \/ RecreateChannels
    \/ \E c \in Contacts, id \in Ids : Link(c, id) \/ LegacyLink(c, id) \/ Unlink(c, id)
    \/ \E name \in Added : AddClass(name)

Spec == Init /\ [][Next]_vars

-----------------------------------------------------------------------------
(* Properties. *)

\* Every variable has its type, and the keys hold: class names are unique, a
\* link refers to a class, and the index is on the new table only.
TypeOK ==
    /\ DOMAIN class \subseteq Ids
    /\ class \in [DOMAIN class -> {"billing", "sales", "shipping"} \cup Added]
    /\ \A i, j \in DOMAIN class : class[i] = class[j] => i = j
    /\ seq \in 0..MaxId
    /\ {legacy, index, channels} \subseteq BOOLEAN
    /\ shape \in {"none", "ledgersmb", "ledgius"}
    /\ index => shape = "ledgius"
    /\ recorded \subseteq {"V1.33", "V1.43"}
    /\ pc \in V133 \cup V143 \cup {"off"}
    /\ exit \in {"none", "V1.33", "V1.43", "crashed", "done"}
    /\ runs \in 0..MaxRuns
    /\ links \in [Contacts -> [Ids -> 0..MaxLinks]]
    /\ \A c \in Contacts, id \in Ids : links[c][id] > 0 => id \in DOMAIN class

\* "reconciles state so it matches what V1.33 originally intended" (V1.43:22):
\* once V1.43 has run, ids 1 and 2 mean billing and shipping, which the
\* application and the loader take as given, and the tables have their shape.
Reconciled ==
    pc = "record143" \/ "V1.43" \in recorded =>
        /\ {1, 2} \subseteq DOMAIN class
        /\ class[1] = "billing" /\ class[2] = "shipping"
        /\ shape = "ledgius" /\ index /\ channels

\* "STRICTLY idempotent: on a database where the new Ledgius shape is already in
\* place it performs no destructive work" (V1.43:23): no statement of V1.33 or
\* V1.43, run for the first time or again, drops a row of the table of this
\* repository, or changes what the class of any row means.  Rows of LedgerSMB's
\* table keep their class as well, and go only with that table (V1.43:136).
LinksKeepTheirClass ==
    [][pc' # pc =>
          /\ links' = links \/ (shape = "ledgersmb" /\ shape' = "ledgius")
          /\ \A c \in Contacts, id \in DOMAIN class : links[c][id] > 0 =>
                id \in DOMAIN class' /\ class'[id] = class[id]]_vars

\* "is_primary plus a partial unique index enforces exactly one primary address
\* per class per contact" (V1.43:163): from the row of V1.43 on.
OnePrimary == "V1.43" \in recorded => PrimaryUnique

\* "Advance the identity sequence past the rows we just pinned so future
\* INSERTs don't collide" (V1.43:98): after V1.43 a class that is added finds
\* its id free.
NewIdsAreFree == "V1.43" \in recorded => \A id \in DOMAIN class : id <= seq

=============================================================================
