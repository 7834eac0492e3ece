----------------------------- MODULE TenantSeed -----------------------------
(***************************************************************************)
(* seed/tenant_seed.go: load of a single-tenant dataset in the tenant      *)
(* database.  Contacts are written statement by statement, each committed  *)
(* on its own; an invoice or a bill is one transaction.  No statement's    *)
(* error is looked at: one that fails inside a transaction aborts it, and  *)
(* the COMMIT that follows rolls it back in silence.                       *)
(*                                                                         *)
(* Amounts are those of one document of net 10 with 1 of GST; what floats  *)
(* make of them is in module SeedAmounts.  Dates, descriptions and the     *)
(* random choice of a service are left out.                                *)
(***************************************************************************)
EXTENDS Integers, FiniteSets, SequencesExt

CONSTANTS
    Procs,         \* executions of the tool
    Customers,     \* customers.yaml, as a sequence of codes
    Vendors,       \* vendors.yaml, as a sequence of codes
    Invoices,      \* the invoice numbers of the run, a sequence
    Bills,         \* the bills of the run, a sequence of [number, vendor]
    Accounts,      \* the accounts that exist, by role
    BillingClass,  \* location_class has the row 1
    Shaky,         \* executions whose statements may fail unnoticed
    Stoppable,     \* executions that may be stopped
    MaxStarts,     \* bound: executions started
    MaxLocations,  \* bound: rows of location ever inserted
    None           \* no number, no contact, no vendor

Roles == {"ar", "ap", "revenue", "expense", "gstCollected", "gstPaid"}

Bill == [number : STRING, vendor : STRING]

ASSUME TenantSeedAssumption ==
    /\ Customers \in Seq(STRING)
    /\ Vendors \in Seq(STRING)
    /\ Invoices \in Seq(STRING)
    /\ Bills \in Seq(Bill)
    /\ Accounts \subseteq Roles
    /\ BillingClass \in BOOLEAN
    /\ Shaky \subseteq Procs
    /\ Stoppable \subseteq Procs
    /\ MaxStarts \in Nat
    /\ MaxLocations \in Nat
    /\ ToSet(Customers) \cap ToSet(Vendors) = {}

VARIABLES
    entities, companies, ecas, channels,  \* contacts that have the row
    locations,  \* number of rows of location
    links,      \* rows of eca_to_location, one per contact (unique index)
    items,      \* open_item, by number
    nextTrans,  \* the sequence of transactions.id
    booked,     \* committed documents [kind, number, contact, own, found, parts]
    pc,         \* pc[p]: "idle" or "run"
    plan,       \* plan[p]: contacts and documents left, the one at hand first
    at,         \* at[p]: the next statement of the one at hand, by its place
    seeded,     \* seeded[p]: contacts that got an entity_credit_account
    located,    \* located[p]: the location of the contact at hand is in
    tx,         \* tx[p]: the open transaction
    exit,       \* exit[p]: status of the last execution
    starts

contactVars == <<entities, companies, ecas, channels, locations, links>>
bookVars == <<items, nextTrans, booked>>
vars == <<contactVars, bookVars, pc, plan, at, seeded, located, tx, exit, starts>>

\* No transaction.  own is the id of the header it wrote, found the id that
\* the other rows carry.
NoTx == [number |-> None, newItem |-> FALSE, contact |-> None, own |-> 0, found |-> 0,
         parts |-> {}, broken |-> FALSE]

\* A part of a document: <<row, amount>>, with amount 0 but for a posting.

-----------------------------------------------------------------------------
(* Plans: the contacts and documents of a run, and their statements.       *)

seedTenantContact(c) == [kind |-> "contact", of |-> c, vendor |-> None]
seedTenantInvoice(n) == [kind |-> "ar", of |-> n, vendor |-> None]
seedTenantBill(b) == [kind |-> "ap", of |-> b.number, vendor |-> b.vendor]

Each(item(_), s) == [i \in DOMAIN s |-> item(s[i])]

seedTenant ==
    Each(seedTenantContact, Customers) \o Each(seedTenantContact, Vendors)
        \o Each(seedTenantInvoice, Invoices) \o Each(seedTenantBill, Bills)

Script(kind) ==
    IF kind = "contact"
    THEN <<"entity", "company", "eca", "channels", "location", "link">>
    ELSE <<"item", "head", "find", "document", "line", "post", "post", "post", "commit">>

Net == 10
Gst == 1
Gross == Net + Gst

\* The account of the line, and the postings of a document.
LineRole(kind) == IF kind = "ar" THEN "revenue" ELSE "expense"
Entries(kind) ==
    IF kind = "ar"
    THEN <<<<"ar", Gross>>, <<"revenue", -Net>>, <<"gstCollected", -Gst>>>>
    ELSE <<<<"ap", -Gross>>, <<"expense", Net>>, <<"gstPaid", Gst>>>>

-----------------------------------------------------------------------------
Init ==
    /\ entities = {} /\ companies = {} /\ ecas = {} /\ channels = {}
    /\ locations = 0
    /\ links = {}
    /\ items = {}
    /\ nextTrans = 1
    /\ booked = {}
    /\ pc = [p \in Procs |-> "idle"]
    /\ plan = [p \in Procs |-> <<>>]
    /\ at = [p \in Procs |-> 1]
    /\ seeded = [p \in Procs |-> {}]
    /\ located = [p \in Procs |-> FALSE]
    /\ tx = [p \in Procs |-> NoTx]
    /\ exit = [p \in Procs |-> "none"]
    /\ starts = 0

\* Without the accounts 1100 and 2100 the tool ends with status 1.
Start(p) ==
    /\ pc[p] = "idle"
    /\ starts < MaxStarts
    /\ starts' = starts + 1
    /\ seeded' = [seeded EXCEPT ![p] = {}]
    /\ IF {"ar", "ap"} \subseteq Accounts
       THEN /\ pc' = [pc EXCEPT ![p] = "run"]
            /\ plan' = [plan EXCEPT ![p] = seedTenant]
            /\ at' = [at EXCEPT ![p] = 1]
            /\ exit' = [exit EXCEPT ![p] = "none"]
       ELSE /\ exit' = [exit EXCEPT ![p] = "1"]
            /\ UNCHANGED <<pc, plan, at>>
    /\ UNCHANGED <<contactVars, bookVars, located, tx>>

\* The contact or document at hand, whose next statement is op.
Cur(p) == Head(plan[p])
Runs(p, op) == pc[p] = "run" /\ plan[p] # <<>> /\ Script(Cur(p).kind)[at[p]] = op

\* On to the next contact or document, be this one done or not.
SkipItem(p) ==
    /\ plan' = [plan EXCEPT ![p] = Tail(@)]
    /\ at' = [at EXCEPT ![p] = 1]

\* On to the next statement; after the last one, to the next contact or document.
Advance(p) ==
    IF at[p] = Len(Script(Cur(p).kind))
    THEN SkipItem(p)
    ELSE at' = [at EXCEPT ![p] = @ + 1] /\ UNCHANGED plan

\* A statement succeeds, or fails without anybody noticing.
Outcomes(p) == IF p \in Shaky THEN {TRUE, FALSE} ELSE {TRUE}

-----------------------------------------------------------------------------
(* seedTenantContact. *)

\* INSERT ... ON CONFLICT DO NOTHING, and a lookup of the row, new or old: either
\* may be lost, and without an id the contact is passed over.
InsertEntity(p) ==
    /\ Runs(p, "entity")
    /\ \E ok, found \in Outcomes(p) :
          /\ entities' = entities \cup (IF ok THEN {Cur(p).of} ELSE {})
          /\ IF found /\ Cur(p).of \in entities' THEN Advance(p) ELSE SkipItem(p)
    /\ UNCHANGED <<companies, ecas, channels, locations, links, bookVars, pc,
                   seeded, located, tx, exit, starts>>

InsertCompany(p) ==
    /\ Runs(p, "company")
    /\ \E ok \in Outcomes(p) :
          companies' = companies \cup (IF ok THEN {Cur(p).of} ELSE {})
    /\ Advance(p)
    /\ UNCHANGED <<entities, ecas, channels, locations, links, bookVars, pc,
                   seeded, located, tx, exit, starts>>

\* The same; the contact counts as seeded when its entity_credit_account is found.
InsertAccount(p) ==
    /\ Runs(p, "eca")
    /\ \E ok, found \in Outcomes(p) :
          /\ ecas' = ecas \cup (IF ok THEN {Cur(p).of} ELSE {})
          /\ IF found /\ Cur(p).of \in ecas'
             THEN Advance(p) /\ seeded' = [seeded EXCEPT ![p] = @ \cup {Cur(p).of}]
             ELSE SkipItem(p) /\ UNCHANGED seeded
    /\ UNCHANGED <<entities, companies, channels, locations, links, bookVars, pc,
                   located, tx, exit, starts>>

InsertChannels(p) ==
    /\ Runs(p, "channels")
    /\ \E ok \in Outcomes(p) :
          channels' = channels \cup (IF ok THEN {Cur(p).of} ELSE {})
    /\ Advance(p)
    /\ UNCHANGED <<entities, companies, ecas, locations, links, bookVars, pc,
                   seeded, located, tx, exit, starts>>

\* The row is inserted whether or not the contact has a location already.
InsertLocation(p) ==
    /\ Runs(p, "location")
    /\ locations < MaxLocations
    /\ \E ok \in Outcomes(p) :
          /\ locations' = locations + (IF ok THEN 1 ELSE 0)
          /\ located' = [located EXCEPT ![p] = ok]
    /\ Advance(p)
    /\ UNCHANGED <<entities, companies, ecas, channels, links, bookVars, pc,
                   seeded, tx, exit, starts>>

\* Mutant of LinkLocation: a contact that others have linked loses its link.
LinkLocationToggles(p) ==
    /\ Runs(p, "link")
    /\ links' = IF Cur(p).of \in links THEN links \ {Cur(p).of} ELSE links \cup {Cur(p).of}
    /\ located' = [located EXCEPT ![p] = FALSE]
    /\ Advance(p)
    /\ UNCHANGED <<entities, companies, ecas, channels, locations, bookVars, pc,
                   seeded, tx, exit, starts>>

\* ON CONFLICT DO NOTHING on (contact, class, primary); class 1 must exist.
LinkLocation(p) ==
    /\ Runs(p, "link")
    /\ \E ok \in Outcomes(p) :
          links' = links \cup (IF ok /\ located[p] /\ BillingClass THEN {Cur(p).of} ELSE {})
    /\ located' = [located EXCEPT ![p] = FALSE]
    /\ Advance(p)
    /\ UNCHANGED <<entities, companies, ecas, channels, locations, bookVars, pc,
                   seeded, tx, exit, starts>>

-----------------------------------------------------------------------------
(* seedTenantInvoice and seedTenantBill. *)

\* Another open transaction has inserted the open item or the invoice number:
\* the statement waits until it ends.
Holds(q, part, n) == tx[q].number = n /\ part \in tx[q].parts

ItemIsFree(p) ==
    \A q \in Procs \ {p} : ~(tx[q].number = Cur(p).of /\ tx[q].newItem)

\* The contact of the document: any customer seeded, or the vendor of the bill.
Parties(p) ==
    IF Cur(p).kind = "ar" THEN seeded[p] \cap ToSet(Customers)
                          ELSE seeded[p] \cap {Cur(p).vendor}

SkipDocument(p) ==
    /\ Runs(p, "item")
    /\ Parties(p) = {}
    /\ SkipItem(p)
    /\ UNCHANGED <<contactVars, bookVars, pc, seeded, located, tx, exit, starts>>

BeginDocument(p) ==
    /\ Runs(p, "item")
    /\ ItemIsFree(p)
    /\ \E c \in Parties(p) :
          tx' = [tx EXCEPT ![p] = [NoTx EXCEPT !.number = Cur(p).of, !.contact = c,
                                               !.newItem = Cur(p).of \notin items]]
    /\ Advance(p)
    /\ UNCHANGED <<contactVars, bookVars, pc, seeded, located, exit, starts>>

\* Mutant of RollbackDocument: the early return leaves the transaction open.
RollbackDocumentLeavesOpen(p) ==
    /\ p \in Shaky
    /\ Runs(p, "item")
    /\ ItemIsFree(p)
    /\ tx' = [tx EXCEPT ![p] = [NoTx EXCEPT !.number = Cur(p).of, !.newItem = TRUE]]
    /\ SkipItem(p)
    /\ UNCHANGED <<contactVars, bookVars, pc, seeded, located, exit, starts>>

\* The open item is not found: return, and the deferred rollback.
RollbackDocument(p) ==
    /\ p \in Shaky
    /\ Runs(p, "item")
    /\ ItemIsFree(p)
    /\ tx' = [tx EXCEPT ![p] = NoTx]
    /\ SkipItem(p)
    /\ UNCHANGED <<contactVars, bookVars, pc, seeded, located, exit, starts>>

\* The transaction of p with one more row.
With(p, part) == [tx[p] EXCEPT !.parts = @ \cup {part}]

\* Mutant of Write: a statement that fails leaves the transaction alive.
WriteOn(p, done, allowed) ==
    /\ \E ok \in Outcomes(p) : tx' = [tx EXCEPT ![p] = IF ok /\ allowed THEN done ELSE @]
    /\ Advance(p)
    /\ UNCHANGED <<contactVars, items, booked, pc, seeded, located, exit, starts>>

\* A statement in the transaction, which becomes done; the database refuses it
\* unless allowed, and everything after a refusal.
Write(p, done, allowed) ==
    /\ \E ok \in Outcomes(p) :
          tx' = [tx EXCEPT ![p] = IF ok /\ allowed /\ ~@.broken THEN done
                                  ELSE [@ EXCEPT !.broken = TRUE]]
    /\ Advance(p)
    /\ UNCHANGED <<contactVars, items, booked, pc, seeded, located, exit, starts>>

WriteHead(p) ==
    /\ Runs(p, "head")
    /\ Write(p, [With(p, <<"head", 0>>) EXCEPT !.own = nextTrans], TRUE)
    /\ nextTrans' = nextTrans + 1

\* The header is looked up by its reference: the newest one, which may be that
\* of another execution that has committed since.
FindHead(p) ==
    LET heads == {d.own : d \in {e \in booked : e.kind = Cur(p).kind /\ e.number = Cur(p).of}}
    IN  /\ Runs(p, "find")
        /\ Write(p, [tx[p] EXCEPT !.found = Max({tx[p].own} \cup heads)], TRUE)
        /\ UNCHANGED nextTrans

\* Mutant of NumberIsNew: the index on ar.invnumber is not unique.
NumberIsNewAlways(p) == TRUE

\* ar.invnumber is unique.
NumberIsNew(p) ==
    Cur(p).kind = "ap" \/ \A d \in booked : ~(d.kind = "ar" /\ d.number = Cur(p).of)

\* trans_id is the primary key of ar and of ap.
KeyIsNew(p) == tx[p].found \notin {d.found : d \in booked}

WriteDocument(p) ==
    /\ Runs(p, "document")
    /\ Cur(p).kind = "ar" =>
          \A q \in Procs \ {p} : ~(~tx[q].broken /\ Holds(q, <<"document", 0>>, Cur(p).of))
    /\ Write(p, With(p, <<"document", 0>>), NumberIsNew(p) /\ KeyIsNew(p))
    /\ UNCHANGED nextTrans

WriteLine(p) ==
    /\ Runs(p, "line")
    /\ Write(p, With(p, <<"line", 0>>), LineRole(Cur(p).kind) \in Accounts)
    /\ UNCHANGED nextTrans

WritePosting(p) ==
    /\ Runs(p, "post")
    /\ LET entry == Entries(Cur(p).kind)[at[p] - 5]
       IN  Write(p, With(p, entry), entry[1] \in Accounts)
    /\ UNCHANGED nextTrans

\* The document of the transaction of p.
Document(p) ==
    [kind |-> Cur(p).kind, number |-> Cur(p).of, contact |-> tx[p].contact,
     own |-> tx[p].own, found |-> tx[p].found, parts |-> tx[p].parts]

\* Mutant of Commit: the open item stays out.
CommitNoItem(p) ==
    /\ Runs(p, "commit")
    /\ booked' = IF tx[p].broken THEN booked ELSE booked \cup {Document(p)}
    /\ tx' = [tx EXCEPT ![p] = NoTx]
    /\ Advance(p)
    /\ UNCHANGED <<contactVars, items, nextTrans, pc, seeded, located, exit, starts>>

\* The COMMIT of an aborted transaction is a rollback.
Commit(p) ==
    /\ Runs(p, "commit")
    /\ IF tx[p].broken
       THEN UNCHANGED <<items, booked>>
       ELSE /\ items' = items \cup {Cur(p).of}
            /\ booked' = booked \cup {Document(p)}
    /\ tx' = [tx EXCEPT ![p] = NoTx]
    /\ Advance(p)
    /\ UNCHANGED <<contactVars, nextTrans, pc, seeded, located, exit, starts>>

-----------------------------------------------------------------------------
Finish(p) ==
    /\ pc[p] = "run"
    /\ plan[p] = <<>>
    /\ pc' = [pc EXCEPT ![p] = "idle"]
    /\ exit' = [exit EXCEPT ![p] = "0"]
    /\ UNCHANGED <<contactVars, bookVars, plan, at, seeded, located, tx, starts>>

\* The tool is stopped; the database rolls the open transaction back.
Crash(p) ==
    /\ p \in Stoppable
    /\ pc[p] = "run"
    /\ pc' = [pc EXCEPT ![p] = "idle"]
    /\ plan' = [plan EXCEPT ![p] = <<>>]
    /\ at' = [at EXCEPT ![p] = 1]
    /\ located' = [located EXCEPT ![p] = FALSE]
    /\ tx' = [tx EXCEPT ![p] = NoTx]
    /\ exit' = [exit EXCEPT ![p] = "killed"]
    /\ UNCHANGED <<contactVars, bookVars, seeded, starts>>

Step(p) ==
    \/ InsertEntity(p) \/ InsertCompany(p) \/ InsertAccount(p) \/ InsertChannels(p)
    \/ InsertLocation(p) \/ LinkLocation(p)
    \/ SkipDocument(p) \/ BeginDocument(p) \/ RollbackDocument(p)
    \/ WriteHead(p) \/ FindHead(p) \/ WriteDocument(p) \/ WriteLine(p) \/ WritePosting(p)
    \/ Commit(p) \/ Finish(p)

Next ==
    \/ \E p \in Procs : Start(p)
    \/ \E p \in Procs : Step(p)
    \/ \E p \in Procs : Crash(p)

Spec == Init /\ [][Next]_vars

\* The database answers, and the tool goes on.
FairSpec == Spec /\ \A p \in Procs : WF_vars(Step(p))

-----------------------------------------------------------------------------
(* Properties. *)

Contacts == ToSet(Customers) \cup ToSet(Vendors)
Numbers == ToSet(Invoices) \cup {b.number : b \in ToSet(Bills)}
Items ==
    {seedTenantContact(c) : c \in Contacts} \cup {seedTenantInvoice(n) : n \in ToSet(Invoices)}
        \cup {seedTenantBill(b) : b \in ToSet(Bills)}

Rows == {"head", "document", "line"}
Part == {<<row, 0>> : row \in Rows} \cup ToSet(Entries("ar")) \cup ToSet(Entries("ap"))

TxType ==
    [number : Numbers \cup {None}, newItem : BOOLEAN, contact : Contacts \cup {None},
     own : Nat, found : Nat, parts : SUBSET Part, broken : BOOLEAN]
DocumentType ==
    [kind : {"ar", "ap"}, number : Numbers, contact : Contacts, own : Nat, found : Nat,
     parts : SUBSET Part]

\* Every variable has its type, and the foreign keys hold: a credit account has
\* its entity, a link its account and a location, a document its open item.
TypeOK ==
    /\ ecas \subseteq entities /\ companies \subseteq entities
    /\ entities \subseteq Contacts
    /\ links \subseteq ecas /\ channels \subseteq ecas
    /\ locations \in Nat /\ Cardinality(links) <= locations
    /\ items \subseteq Numbers
    /\ nextTrans \in Nat \ {0}
    /\ booked \subseteq DocumentType
    /\ \A d \in booked : d.number \in items /\ d.contact \in ecas
    /\ pc \in [Procs -> {"idle", "run"}]
    /\ plan \in [Procs -> Seq(Items)]
    /\ at \in [Procs -> 1..9]
    /\ seeded \in [Procs -> SUBSET ecas]
    /\ located \in [Procs -> BOOLEAN]
    /\ tx \in [Procs -> TxType]
    /\ exit \in [Procs -> {"none", "0", "1", "killed"}]
    /\ starts \in 0..MaxStarts
    /\ \A p \in Procs : pc[p] = "idle" => plan[p] = <<>> /\ tx[p] = NoTx

Postings(d) == {x \in d.parts : x[1] \notin Rows}

\* A document is in the books under its own header, with its row in ar or ap,
\* its line and three postings that balance, whatever statement failed on the
\* way (seedTenantInvoice and seedTenantBill ignore the errors) and whichever
\* execution has booked the same number meanwhile.
DocumentsAreWhole ==
    \A d \in booked :
        /\ d.found = d.own
        /\ Rows \subseteq {x[1] : x \in d.parts}
        /\ \E x, y, z \in d.parts : /\ Postings(d) = {x, y, z}
                                    /\ x # y /\ y # z /\ x # z
                                    /\ x[2] + y[2] + z[2] = 0

\* No invoice number is booked twice, by reloads or by loads that overlap.
InvoicesOnce ==
    \A d, e \in booked : d.kind = "ar" /\ e.kind = "ar" /\ d.number = e.number => d = e

\* "invoices seeded", count and "tenant seed complete" (tenant_seed.go:194, 230):
\* an execution that lost no statement and ends with status 0 has left every
\* contact with its rows and its location, and every invoice and bill in the
\* books, whatever another one with a failing connection did meanwhile.
SuccessMeansSeeded ==
    \A p \in Procs \ Shaky : exit[p] = "0" =>
        /\ Contacts \subseteq entities \cap companies \cap ecas \cap channels \cap links
        /\ {d.number : d \in booked} = Numbers

\* Every execution ends, although it waits for the transactions of others.
EveryRunEnds == \A p \in Procs : (pc[p] = "run") ~> (pc[p] = "idle")

=============================================================================
