-------------------------- MODULE TenantSeedProofs --------------------------
(***************************************************************************)
(* For any number of executions, any dataset and any failures of their     *)
(* statements: what is in the books is whole, no invoice is there twice,   *)
(* and an execution that lost no statement has left nothing out.  A second *)
(* part is about the floats of one document.                               *)
(*                                                                         *)
(* What an execution has written so far is a function of the place it has  *)
(* reached (Written), unless its transaction is broken.  Two executions    *)
(* that write the same document stay apart (Apart): each has a header of   *)
(* its own, and of two invoices of one number one waits.                   *)
(***************************************************************************)
EXTENDS TenantSeed, SeedAmounts, SequenceTheorems, FiniteSetTheorems, WellFoundedInduction, TLAPS

\* An execution with a contact or document at hand; one inside the transaction
\* of its document; one whose transaction can still be committed.
Busy(p) == pc[p] = "run" /\ plan[p] # <<>>
Writing(p) == Busy(p) /\ Cur(p).kind # "contact" /\ at[p] > 1
Live(p) == Writing(p) /\ ~tx[p].broken

InPlace(p) == Busy(p) => at[p] <= Len(Script(Cur(p).kind))

\* The later rows of a contact have the earlier ones to refer to.
Founded(p) ==
    Busy(p) /\ Cur(p).kind = "contact" =>
        /\ at[p] > 1 => Cur(p).of \in entities
        /\ at[p] > 3 => Cur(p).of \in ecas /\ Cur(p).of \in seeded[p]

\* The row that the k-th statement of a document writes, and the rows before it.
Row(kind, k) ==
    IF k = 2 THEN <<"head", 0>>
    ELSE IF k = 4 THEN <<"document", 0>>
    ELSE IF k = 5 THEN <<"line", 0>>
    ELSE Entries(kind)[k - 5]
Written(kind, n) == {Row(kind, k) : k \in {i \in {2, 4, 5, 6, 7, 8} : i < n}}

\* There are locations for the links and for the executions about to link one.
Holders == {p \in Procs : located[p]}
LocationsSuffice ==
    /\ IsFiniteSet(links) /\ IsFiniteSet(Holders)
    /\ Cardinality(links) + Cardinality(Holders) <= locations
    /\ \A p \in Procs : located[p] => Busy(p) /\ Cur(p).kind = "contact" /\ at[p] = 6

\* Nobody has booked the invoice at hand.
NumberIsFree(p) == Cur(p).kind = "ar" =>
    \A d \in booked : d.kind = "ar" => d.number # Cur(p).of

\* Found by its reference, the header may be that of another execution; the
\* document's primary key then refuses it.
LiveSound(p) ==
    /\ tx[p].parts = Written(Cur(p).kind, at[p])
    /\ at[p] > 2 => tx[p].own < nextTrans /\ \A d \in booked : d.own # tx[p].own
    /\ at[p] = 4 => \/ tx[p].found = tx[p].own
                     \/ \E d \in booked : d.found = tx[p].found /\ d.number = Cur(p).of
    /\ at[p] > 4 => tx[p].found = tx[p].own /\ NumberIsFree(p)

TxSound(p) ==
    /\ ~Writing(p) => tx[p] = NoTx
    /\ Writing(p) => tx[p].number = Cur(p).of /\ tx[p].contact \in seeded[p]
    /\ Live(p) => LiveSound(p)

Apart(p, q) ==
    Live(p) /\ Live(q) =>
        /\ at[p] > 2 /\ at[q] > 2 => tx[p].own # tx[q].own
        /\ at[p] > 4 /\ at[q] > 4 /\ Cur(p).kind = "ar" /\ Cur(q).kind = "ar" =>
              Cur(p).of # Cur(q).of

BooksSound ==
    \A d \in booked : d.found = d.own /\ d.own < nextTrans /\ d.parts = Written(d.kind, 9)

IInv ==
    /\ TypeOK /\ LocationsSuffice /\ BooksSound /\ InvoicesOnce
    /\ \A p \in Procs : InPlace(p) /\ Founded(p) /\ TxSound(p)
    /\ \A p, q \in Procs : p # q => Apart(p, q)

\* The dataset can be loaded: its accounts and its class of locations exist, a
\* bill is of one of its vendors, and an invoice has a customer to go to.
Prepared ==
    /\ Accounts = Roles
    /\ BillingClass
    /\ \A b \in ToSet(Bills) : b.vendor \in ToSet(Vendors)
    /\ ToSet(Invoices) # {} => ToSet(Customers) # {}

Booked(n) == \E d \in booked : d.number = n
Complete(c) == c \in entities \cap companies \cap ecas \cap channels \cap links

\* Where an execution that loses nothing is: what is not in its plan any more is
\* there, contacts come before documents, and a broken document is booked.
NothingLost(p) ==
    /\ \A c \in Contacts : \/ seedTenantContact(c) \in ToSet(plan[p])
                           \/ Complete(c) /\ c \in seeded[p]
    /\ \A n \in ToSet(Invoices) : seedTenantInvoice(n) \in ToSet(plan[p]) \/ Booked(n)
    /\ \A b \in ToSet(Bills) : seedTenantBill(b) \in ToSet(plan[p]) \/ Booked(b.number)

InOrder(s) ==
    \A i, j \in DOMAIN s : i < j /\ s[j].kind = "contact" => s[i].kind = "contact"
ContactsFirst(p) == InOrder(plan[p])

HalfDone(p) ==
    Busy(p) /\ Cur(p).kind = "contact" =>
        /\ at[p] > 2 => Cur(p).of \in companies
        /\ at[p] > 4 => Cur(p).of \in channels
        /\ at[p] > 5 => located[p]

Progress(p) ==
    pc[p] = "run" =>
        /\ NothingLost(p) /\ ContactsFirst(p) /\ HalfDone(p)
        /\ Writing(p) /\ tx[p].broken => Booked(Cur(p).of)

ProgressInv == (\A p \in Procs \ Shaky : Progress(p)) /\ SuccessMeansSeeded

-----------------------------------------------------------------------------
(* Contacts, documents and places. *)

\* What can be at hand.
LEMMA ItemKinds ==
  ASSUME NEW i \in Items
  PROVE  /\ i.kind \in {"contact", "ar", "ap"}
         /\ i.kind = "contact" => i.of \in Contacts /\ i = seedTenantContact(i.of)
         /\ i.kind = "ar" => i.of \in ToSet(Invoices) /\ i = seedTenantInvoice(i.of)
         /\ i.kind = "ap" => \E b \in ToSet(Bills) : i = seedTenantBill(b) /\ i.of = b.number
         /\ i.kind # "contact" => i.of \in Numbers
BY DEF Items, Numbers, seedTenantContact, seedTenantInvoice, seedTenantBill

\* The length of the two scripts.
LEMMA ScriptLen ==
  ASSUME NEW kind
  PROVE  Len(Script(kind)) = IF kind = "contact" THEN 6 ELSE 9
BY DEF Script

\* The contact or document at hand of an execution, and its place in it.
LEMMA AtHand ==
  ASSUME TypeOK, NEW p \in Procs, InPlace(p), Busy(p)
  PROVE  /\ Cur(p) \in Items
         /\ Cur(p).kind \in {"contact", "ar", "ap"}
         /\ at[p] \in 1..(IF Cur(p).kind = "contact" THEN 6 ELSE 9)
<1>1. plan[p] \in Seq(Items) /\ plan[p] # <<>> /\ at[p] \in 1..9
  BY DEF TypeOK, Busy
<1>2. Cur(p) \in Items
  BY <1>1, HeadTailProperties DEF Cur
<1>3. at[p] <= IF Cur(p).kind = "contact" THEN 6 ELSE 9
  BY ScriptLen DEF InPlace
<1> QED
  BY <1>1, <1>2, <1>3, ItemKinds

\* The place of each statement.
LEMMA Places ==
  ASSUME TypeOK, NEW p \in Procs, InPlace(p), NEW op, Runs(p, op)
  PROVE  /\ Busy(p)
         /\ op = "entity" => Cur(p).kind = "contact" /\ at[p] = 1
         /\ op = "company" => Cur(p).kind = "contact" /\ at[p] = 2
         /\ op = "eca" => Cur(p).kind = "contact" /\ at[p] = 3
         /\ op = "channels" => Cur(p).kind = "contact" /\ at[p] = 4
         /\ op = "location" => Cur(p).kind = "contact" /\ at[p] = 5
         /\ op = "link" => Cur(p).kind = "contact" /\ at[p] = 6
         /\ op = "item" => Cur(p).kind # "contact" /\ at[p] = 1
         /\ op = "head" => Cur(p).kind # "contact" /\ at[p] = 2
         /\ op = "find" => Cur(p).kind # "contact" /\ at[p] = 3
         /\ op = "document" => Cur(p).kind # "contact" /\ at[p] = 4
         /\ op = "line" => Cur(p).kind # "contact" /\ at[p] = 5
         /\ op = "post" => Cur(p).kind # "contact" /\ at[p] \in 6..8
         /\ op = "commit" => Cur(p).kind # "contact" /\ at[p] = 9
<1>1. Busy(p)
  BY DEF Busy, Runs
<1>2. CASE Cur(p).kind = "contact"
  <2>1. at[p] \in 1..6
    BY <1>1, <1>2, AtHand
  <2>2. Script(Cur(p).kind)
          = <<"entity", "company", "eca", "channels", "location", "link">>
    BY <1>2 DEF Script
  <2>3. op = <<"entity", "company", "eca", "channels", "location", "link">>[at[p]]
    BY <2>2 DEF Runs
  <2> QED
    BY <1>1, <1>2, <2>1, <2>3
<1>3. CASE Cur(p).kind # "contact"
  <2>1. at[p] \in 1..9
    BY <1>1, <1>3, AtHand
  <2>2. Script(Cur(p).kind) = <<"item", "head", "find", "document", "line",
                                "post", "post", "post", "commit">>
    BY <1>3 DEF Script
  <2>3. op = <<"item", "head", "find", "document", "line",
               "post", "post", "post", "commit">>[at[p]]
    BY <2>2 DEF Runs
  <2> QED
    BY <1>1, <1>3, <2>1, <2>3
<1> QED
  BY <1>2, <1>3

\* An execution leaves the contact or document at hand.
LEMMA Skipped ==
  ASSUME TypeOK, NEW p \in Procs, Busy(p), SkipItem(p)
  PROVE  /\ plan' \in [Procs -> Seq(Items)] /\ at' \in [Procs -> 1..9]
         /\ \A q \in Procs \ {p} : plan'[q] = plan[q] /\ at'[q] = at[q]
         /\ plan'[p] = Tail(plan[p]) /\ at'[p] = 1
<1>1. plan[p] \in Seq(Items) /\ plan[p] # <<>>
  BY DEF TypeOK, Busy
<1>2. Tail(plan[p]) \in Seq(Items)
  BY <1>1, HeadTailProperties
<1>3. plan \in [Procs -> Seq(Items)] /\ at \in [Procs -> 1..9]
  BY DEF TypeOK
<1> QED
  BY <1>2, <1>3 DEF SkipItem

\* An execution goes on to the next statement.
LEMMA Advanced ==
  ASSUME TypeOK, NEW p \in Procs, InPlace(p), Busy(p), Advance(p)
  PROVE  /\ plan' \in [Procs -> Seq(Items)] /\ at' \in [Procs -> 1..9]
         /\ \A q \in Procs \ {p} : plan'[q] = plan[q] /\ at'[q] = at[q]
         /\ IF at[p] = (IF Cur(p).kind = "contact" THEN 6 ELSE 9)
            THEN plan'[p] = Tail(plan[p]) /\ at'[p] = 1
            ELSE plan'[p] = plan[p] /\ at'[p] = at[p] + 1
<1>1. at[p] \in 1..(IF Cur(p).kind = "contact" THEN 6 ELSE 9)
  BY AtHand
<1>2. Len(Script(Cur(p).kind)) = IF Cur(p).kind = "contact" THEN 6 ELSE 9
  BY ScriptLen
<1>3. CASE at[p] = Len(Script(Cur(p).kind))
  BY <1>2, <1>3, Skipped DEF Advance
<1>4. CASE at[p] # Len(Script(Cur(p).kind))
  <2>1. plan \in [Procs -> Seq(Items)] /\ at \in [Procs -> 1..9]
    BY DEF TypeOK
  <2>2. at[p] + 1 \in 1..9
    BY <1>1, <1>2, <1>4
  <2> QED
    BY <1>2, <1>4, <2>1, <2>2 DEF Advance
<1> QED
  BY <1>3, <1>4

\* The rows of a document, one by one.
LEMMA WrittenSteps ==
  ASSUME NEW kind
  PROVE  /\ Written(kind, 2) = {}
         /\ Written(kind, 3) = {<<"head", 0>>}
         /\ Written(kind, 4) = Written(kind, 3)
         /\ Written(kind, 5) = Written(kind, 4) \cup {<<"document", 0>>}
         /\ Written(kind, 6) = Written(kind, 5) \cup {<<"line", 0>>}
         /\ \A k \in 6..8 : Written(kind, k + 1) = Written(kind, k) \cup {Entries(kind)[k - 5]}
<1>1. Row(kind, 2) = <<"head", 0>> /\ Row(kind, 4) = <<"document", 0>>
      /\ Row(kind, 5) = <<"line", 0>> /\ \A k \in 6..8 : Row(kind, k) = Entries(kind)[k - 5]
  BY DEF Row
<1> DEFINE Before(n) == {i \in {2, 4, 5, 6, 7, 8} : i < n}
<1>2. /\ Before(2) = {} /\ Before(3) = {2} /\ Before(4) = {2}
      /\ Before(5) = Before(4) \cup {4} /\ Before(6) = Before(5) \cup {5}
      /\ \A k \in 6..8 : Before(k + 1) = Before(k) \cup {k}
  OBVIOUS
<1>3. \A n : Written(kind, n) = {Row(kind, k) : k \in Before(n)}
  BY DEF Written
<1> HIDE DEF Before
<1>4. Written(kind, 2) = {} /\ Written(kind, 3) = {<<"head", 0>>}
  <2>1. Written(kind, 3) = {Row(kind, 2)}
    BY <1>2, <1>3
  <2>2. Written(kind, 2) = {}
    BY <1>2, <1>3
  <2> QED
    BY <1>1, <2>1, <2>2
<1>5. Written(kind, 4) = Written(kind, 3)
  BY <1>2, <1>3
<1>6. ASSUME NEW n, NEW k, Before(n) = Before(k) \cup {k}
      PROVE  Written(kind, n) = Written(kind, k) \cup {Row(kind, k)}
  BY <1>3, <1>6
<1>7. /\ Written(kind, 5) = Written(kind, 4) \cup {Row(kind, 4)}
      /\ Written(kind, 6) = Written(kind, 5) \cup {Row(kind, 5)}
      /\ \A k \in 6..8 : Written(kind, k + 1) = Written(kind, k) \cup {Row(kind, k)}
  BY <1>2, <1>6
<1> QED
  BY <1>1, <1>4, <1>5, <1>7

\* The postings are parts of a document.
LEMMA EntriesAreParts ==
  ASSUME NEW kind \in {"ar", "ap"}, NEW k \in 6..8
  PROVE  Entries(kind)[k - 5] \in Part
<1>1. k = 6 \/ k = 7 \/ k = 8
  OBVIOUS
<1>2. Entries(kind)[k - 5] \in ToSet(Entries(kind))
  BY <1>1 DEF Entries, ToSet
<1> QED
  BY <1>2 DEF Part

\* A set of numbers that has a bound has its maximum.
LEMMA MaxIsThere ==
  ASSUME NEW S \in SUBSET Nat, S # {}, NEW bound \in Nat, \A n \in S : n <= bound
  PROVE  Max(S) \in S
<1> DEFINE Bounds == {b \in Nat : \A n \in S : n <= b}
<1>1. Bounds \in SUBSET Nat /\ Bounds # {}
  OBVIOUS
<1>2. PICK b \in Bounds : \A c \in Bounds : b <= c
  <2>1. PICK b \in Bounds : \A c \in Bounds : <<c, b>> \notin OpToRel(<, Nat)
    BY <1>1, NatLessThanWellFounded, WFMin, Zenon
  <2>2. \A c \in Bounds : ~(c < b)
    BY <2>1 DEF OpToRel
  <2> QED
    BY <2>2
<1>3. b \in S
  <2>1. SUFFICES ASSUME b \notin S PROVE FALSE
    OBVIOUS
  <2>2. \A n \in S : n < b
    BY <1>2, <2>1
  <2>3. b \in Nat
    OBVIOUS
  <2>4. b # 0
    <3>1. PICK n \in S : n < b
      BY <2>2
    <3>2. n \in Nat
      OBVIOUS
    <3> QED
      BY <2>3, <3>1, <3>2
  <2>5. b - 1 \in Nat /\ \A n \in S : n <= b - 1
    BY <2>2, <2>3, <2>4
  <2>6. b - 1 \in Bounds
    BY <2>5
  <2>7. b <= b - 1
    BY <1>2, <2>6
  <2> QED
    BY <2>3, <2>7
<1>4. \A n \in S : b >= n
  BY <1>2
<1> QED
  BY <1>3, <1>4 DEF Max

-----------------------------------------------------------------------------
(* What a step changes. *)

Moves(p) == Advance(p) \/ SkipItem(p)

\* What a step of an execution leaves to the others, and what it may book.
Alone(p) ==
    /\ \A q \in Procs \ {p} :
          /\ pc'[q] = pc[q] /\ plan'[q] = plan[q] /\ at'[q] = at[q]
          /\ seeded'[q] = seeded[q] /\ located'[q] = located[q]
          /\ tx'[q] = tx[q] /\ exit'[q] = exit[q]
    /\ entities \subseteq entities' /\ companies \subseteq companies'
    /\ ecas \subseteq ecas' /\ channels \subseteq channels' /\ links \subseteq links'
    /\ booked \subseteq booked'
    /\ nextTrans' \in Nat /\ nextTrans <= nextTrans'
    /\ \A d \in booked' \ booked :
          /\ Live(p) /\ at[p] = 9
          /\ d = Document(p)

\* A contact's statement.
ContactStep(p) ==
    InsertEntity(p) \/ InsertCompany(p) \/ InsertAccount(p) \/ InsertChannels(p)
        \/ InsertLocation(p) \/ LinkLocation(p)

\* A row of a document, in the transaction that is open.
RowStep(p) ==
    WriteHead(p) \/ FindHead(p) \/ WriteDocument(p) \/ WriteLine(p) \/ WritePosting(p)

\* An execution moves on in one of two ways.
LEMMA Moved ==
  ASSUME TypeOK, NEW p \in Procs, InPlace(p), Busy(p), Moves(p)
  PROVE  /\ plan' \in [Procs -> Seq(Items)] /\ at' \in [Procs -> 1..9]
         /\ \A q \in Procs \ {p} : plan'[q] = plan[q] /\ at'[q] = at[q]
         /\ \/ plan'[p] = Tail(plan[p]) /\ at'[p] = 1
            \/ /\ plan'[p] = plan[p] /\ at'[p] = at[p] + 1
               /\ at[p] < IF Cur(p).kind = "contact" THEN 6 ELSE 9
<1>1. CASE SkipItem(p)
  BY <1>1, Skipped
<1>2. CASE Advance(p)
  <2>1. at[p] \in 1..(IF Cur(p).kind = "contact" THEN 6 ELSE 9)
    BY AtHand
  <2> QED
    BY <1>2, <2>1, Advanced
<1> QED
  BY <1>1, <1>2 DEF Moves

\* The statements of a contact: where they are found, and what they leave alone.
LEMMA ContactFacts ==
  ASSUME TypeOK, NEW p \in Procs, InPlace(p), ContactStep(p)
  PROVE  /\ Busy(p) /\ Cur(p).kind = "contact" /\ Cur(p).of \in Contacts
         /\ Moves(p)
         /\ UNCHANGED <<bookVars, pc, tx, exit, starts>>
<1>1. Busy(p) /\ Cur(p).kind = "contact"
  BY Places DEF ContactStep, InsertEntity, InsertCompany, InsertAccount, InsertChannels,
                InsertLocation, LinkLocation
<1>2. Cur(p).of \in Contacts
  BY <1>1, AtHand, ItemKinds
<1>3. Moves(p)
  BY DEF Moves, ContactStep, InsertEntity, InsertCompany, InsertAccount, InsertChannels,
         InsertLocation, LinkLocation
<1>4. UNCHANGED <<bookVars, pc, tx, exit, starts>>
  BY DEF ContactStep, InsertEntity, InsertCompany, InsertAccount, InsertChannels,
         InsertLocation, LinkLocation
<1> QED
  BY <1>1, <1>2, <1>3, <1>4

\* The rows of a document: where they are written, and what they leave alone.
LEMMA RowFacts ==
  ASSUME TypeOK, NEW p \in Procs, InPlace(p), RowStep(p)
  PROVE  /\ Busy(p) /\ Cur(p).kind # "contact" /\ at[p] \in 2..8
         /\ plan'[p] = plan[p] /\ at'[p] = at[p] + 1
         /\ Moves(p)
         /\ UNCHANGED <<contactVars, items, booked, pc, seeded, located, exit, starts>>
         /\ nextTrans' \in Nat \ {0} /\ nextTrans <= nextTrans'
<1>1. Busy(p) /\ Cur(p).kind # "contact" /\ at[p] \in 2..8
  <2>1. \E op \in {"head", "find", "document", "line", "post"} : Runs(p, op)
    BY Zenon DEF RowStep, WriteHead, FindHead, WriteDocument, WriteLine, WritePosting
  <2>2. PICK op \in {"head", "find", "document", "line", "post"} : Runs(p, op)
    BY <2>1
  <2> QED
    BY <2>2, Places
<1>2. Advance(p) /\ UNCHANGED <<contactVars, items, booked, pc, seeded, located, exit, starts>>
  BY DEF RowStep, WriteHead, FindHead, WriteDocument, WriteLine, WritePosting, Write
<1>3. plan'[p] = plan[p] /\ at'[p] = at[p] + 1
  BY <1>1, <1>2, Advanced
<1>4. nextTrans' \in Nat \ {0} /\ nextTrans <= nextTrans'
  <2>1. nextTrans' = nextTrans \/ nextTrans' = nextTrans + 1
    BY Zenon DEF RowStep, WriteHead, FindHead, WriteDocument, WriteLine, WritePosting
  <2>2. nextTrans \in Nat \ {0}
    BY DEF TypeOK
  <2> QED
    BY <2>1, <2>2
<1> QED
  BY <1>1, <1>2, <1>3, <1>4 DEF Moves

\* A step of an execution is none of another's.
LEMMA AloneStep ==
  ASSUME TypeOK, NEW p \in Procs, InPlace(p), TxSound(p), Start(p) \/ Step(p) \/ Crash(p)
  PROVE  Alone(p)
<1> USE DEF contactVars, bookVars
<1>0. /\ pc \in [Procs -> {"idle", "run"}] /\ plan \in [Procs -> Seq(Items)]
      /\ at \in [Procs -> 1..9] /\ seeded \in [Procs -> SUBSET ecas]
      /\ located \in [Procs -> BOOLEAN] /\ tx \in [Procs -> TxType]
      /\ exit \in [Procs -> {"none", "0", "1", "killed"}] /\ nextTrans \in Nat
  BY DEF TypeOK
<1>1. CASE Start(p)
  BY <1>0, <1>1 DEF Start, Alone
<1>2. CASE ContactStep(p)
  <2>1. \A q \in Procs \ {p} : plan'[q] = plan[q] /\ at'[q] = at[q]
    BY <1>2, ContactFacts, Moved
  <2>2. UNCHANGED <<bookVars, pc, tx, exit, starts>>
    BY <1>2, ContactFacts
  <2>3. \A q \in Procs \ {p} : seeded'[q] = seeded[q] /\ located'[q] = located[q]
    BY <1>0, <1>2 DEF ContactStep, InsertEntity, InsertCompany, InsertAccount,
                      InsertChannels, InsertLocation, LinkLocation
  <2>4. /\ entities \subseteq entities' /\ companies \subseteq companies'
        /\ ecas \subseteq ecas' /\ channels \subseteq channels' /\ links \subseteq links'
    BY <1>2 DEF ContactStep, InsertEntity, InsertCompany, InsertAccount,
                InsertChannels, InsertLocation, LinkLocation
  <2> QED
    BY <1>0, <2>1, <2>2, <2>3, <2>4 DEF Alone
<1>3. CASE SkipDocument(p) \/ RollbackDocument(p) \/ BeginDocument(p)
  <2>1. Busy(p) /\ Moves(p)
    BY <1>3, Places DEF SkipDocument, RollbackDocument, BeginDocument, Moves
  <2>2. \A q \in Procs \ {p} : plan'[q] = plan[q] /\ at'[q] = at[q]
    BY <2>1, Moved
  <2>3. UNCHANGED <<contactVars, bookVars, pc, seeded, located, exit, starts>>
    BY <1>3 DEF SkipDocument, RollbackDocument, BeginDocument
  <2>4. \A q \in Procs \ {p} : tx'[q] = tx[q]
    BY <1>0, <1>3 DEF SkipDocument, RollbackDocument, BeginDocument
  <2> QED
    BY <1>0, <2>2, <2>3, <2>4 DEF Alone
<1>4. CASE RowStep(p)
  <2>1. \A q \in Procs \ {p} : plan'[q] = plan[q] /\ at'[q] = at[q]
    BY <1>4, RowFacts, Moved
  <2>2. UNCHANGED <<contactVars, items, booked, pc, seeded, located, exit, starts>>
    BY <1>4, RowFacts
  <2>3. nextTrans' \in Nat /\ nextTrans <= nextTrans'
    BY <1>4, RowFacts
  <2>4. \A q \in Procs \ {p} : tx'[q] = tx[q]
    BY <1>0, <1>4 DEF RowStep, WriteHead, FindHead, WriteDocument, WriteLine, WritePosting, Write
  <2> QED
    BY <2>1, <2>2, <2>3, <2>4 DEF Alone
<1>5. CASE Commit(p)
  <2>1. Busy(p) /\ Moves(p) /\ Cur(p).kind # "contact" /\ at[p] = 9
    BY <1>5, Places DEF Commit, Moves
  <2>2. \A q \in Procs \ {p} : plan'[q] = plan[q] /\ at'[q] = at[q]
    BY <2>1, Moved
  <2>3. \A d \in booked' \ booked : ~tx[p].broken /\ d = Document(p)
    BY <1>5 DEF Commit
  <2>4. ~tx[p].broken => Live(p)
    BY <2>1 DEF Live, Writing
  <2>5. booked \subseteq booked'
    BY <1>5 DEF Commit
  <2> QED
    BY <1>0, <1>5, <2>1, <2>2, <2>3, <2>4, <2>5 DEF Commit, Alone
<1>6. CASE Finish(p)
  BY <1>0, <1>6 DEF Finish, Alone
<1>7. CASE Crash(p)
  BY <1>0, <1>7 DEF Crash, Alone
<1> QED
  BY <1>1, <1>2, <1>3, <1>4, <1>5, <1>6, <1>7 DEF Step, ContactStep, RowStep

\* To the others, a step of p changes nothing of where they are.
LEMMA Same ==
  ASSUME NEW p \in Procs, Alone(p), NEW q \in Procs \ {p}
  PROVE  /\ Busy(q)' <=> Busy(q)
         /\ Cur(q)' = Cur(q) /\ at'[q] = at[q] /\ tx'[q] = tx[q]
         /\ Writing(q)' <=> Writing(q)
         /\ Live(q)' <=> Live(q)
<1>1. pc'[q] = pc[q] /\ plan'[q] = plan[q] /\ at'[q] = at[q] /\ tx'[q] = tx[q]
  BY DEF Alone
<1>2. Cur(q)' = Cur(q)
  BY <1>1 DEF Cur
<1>3. Busy(q)' <=> Busy(q)
  BY <1>1 DEF Busy
<1>4. Writing(q)' <=> Writing(q)
  BY <1>1, <1>2, <1>3 DEF Writing
<1> QED
  BY <1>1, <1>2, <1>3, <1>4 DEF Live

\* Every plan is one of contacts and documents.
LEMMA PlanIsOfItems ==
  /\ Each(seedTenantContact, Customers) \in Seq(Items)
  /\ Each(seedTenantContact, Vendors) \in Seq(Items)
  /\ Each(seedTenantInvoice, Invoices) \in Seq(Items)
  /\ Each(seedTenantBill, Bills) \in Seq(Items)
  /\ seedTenant \in Seq(Items)
<1>1. /\ \A i \in DOMAIN Customers : Customers[i] \in ToSet(Customers)
      /\ \A i \in DOMAIN Vendors : Vendors[i] \in ToSet(Vendors)
      /\ \A i \in DOMAIN Invoices : Invoices[i] \in ToSet(Invoices)
      /\ \A i \in DOMAIN Bills : Bills[i] \in ToSet(Bills)
  BY DEF ToSet
<1>2. /\ Len(Customers) \in Nat /\ DOMAIN Customers = 1..Len(Customers)
      /\ Len(Vendors) \in Nat /\ DOMAIN Vendors = 1..Len(Vendors)
      /\ Len(Invoices) \in Nat /\ DOMAIN Invoices = 1..Len(Invoices)
  BY TenantSeedAssumption
<1>3. Len(Bills) \in Nat /\ DOMAIN Bills = 1..Len(Bills)
  BY TenantSeedAssumption
<1>4. Each(seedTenantContact, Customers) \in Seq(Items)
  <2>1. \A i \in DOMAIN Customers : seedTenantContact(Customers[i]) \in Items
    BY <1>1 DEF Items, Contacts
  <2> QED
    BY <1>2, <2>1, IsASeq DEF Each
<1>5. Each(seedTenantContact, Vendors) \in Seq(Items)
  <2>1. \A i \in DOMAIN Vendors : seedTenantContact(Vendors[i]) \in Items
    BY <1>1 DEF Items, Contacts
  <2> QED
    BY <1>2, <2>1, IsASeq DEF Each
<1>6. Each(seedTenantInvoice, Invoices) \in Seq(Items)
  <2>1. \A i \in DOMAIN Invoices : seedTenantInvoice(Invoices[i]) \in Items
    BY <1>1 DEF Items
  <2> QED
    BY <1>2, <2>1, IsASeq DEF Each
<1>7. Each(seedTenantBill, Bills) \in Seq(Items)
  <2>1. \A i \in DOMAIN Bills : seedTenantBill(Bills[i]) \in Items
    BY <1>1 DEF Items
  <2> QED
    BY <1>3, <2>1, IsASeq DEF Each
<1> QED
  BY <1>4, <1>5, <1>6, <1>7, ConcatProperties DEF seedTenant

-----------------------------------------------------------------------------
(* Locations are there for their links. *)

\* A location is inserted before its link, and linked once.
LEMMA LocationsStep ==
  ASSUME TypeOK, LocationsSuffice, NEW p \in Procs, InPlace(p), TxSound(p),
         Start(p) \/ Step(p) \/ Crash(p)
  PROVE  LocationsSuffice'
<1>1. Alone(p)
  BY AloneStep
<1>2. ASSUME NEW q \in Procs \ {p}, located'[q]
      PROVE  Busy(q)' /\ Cur(q)'.kind = "contact" /\ at'[q] = 6
  BY <1>1, <1>2, Same DEF Alone, LocationsSuffice
<1>3. /\ IsFiniteSet(links) /\ IsFiniteSet(Holders)
      /\ Cardinality(links) \in Nat /\ Cardinality(Holders) \in Nat /\ locations \in Nat
      /\ Cardinality(links) + Cardinality(Holders) <= locations
      /\ located \in [Procs -> BOOLEAN]
  BY FS_CardinalityType DEF LocationsSuffice, TypeOK
<1>4. CASE locations' = locations /\ links' = links /\ located' = [located EXCEPT ![p] = FALSE]
  <2>1. Holders' = Holders \ {p}
    BY <1>3, <1>4 DEF Holders
  <2>2. IsFiniteSet(Holders') /\ Cardinality(Holders') <= Cardinality(Holders)
        /\ Cardinality(Holders') \in Nat
    <3>1. IsFiniteSet(Holders \ {p})
          /\ Cardinality(Holders \ {p})
               = IF p \in Holders THEN Cardinality(Holders) - 1 ELSE Cardinality(Holders)
      BY <1>3, FS_RemoveElement
    <3>2. Cardinality(Holders') \in Nat
      BY <2>1, <3>1, FS_CardinalityType
    <3> QED
      BY <1>3, <2>1, <3>1, <3>2
  <2>3. ~located'[p]
    BY <1>3, <1>4
  <2> QED
    BY <1>2, <1>3, <1>4, <2>2, <2>3 DEF LocationsSuffice
<1>5. CASE ~located[p] /\ locations' = locations /\ links' = links /\ located' = located
  <2>1. located' = [located EXCEPT ![p] = FALSE]
    BY <1>3, <1>5
  <2> QED
    BY <1>4, <1>5, <2>1
<1>6. CASE InsertLocation(p)
  <2>1. Busy(p) /\ Cur(p).kind = "contact" /\ at[p] = 5
    BY <1>6, Places DEF InsertLocation
  <2>2. ~located[p]
    BY <2>1 DEF LocationsSuffice
  <2>3. PICK ok \in BOOLEAN : /\ locations' = locations + (IF ok THEN 1 ELSE 0)
                              /\ located' = [located EXCEPT ![p] = ok]
    BY <1>6 DEF InsertLocation, Outcomes
  <2>4. links' = links
    BY <1>6 DEF InsertLocation
  <2>5. CASE ~ok
    <3>1. located' = located
      BY <1>3, <2>2, <2>3, <2>5
    <3> QED
      BY <1>3, <1>5, <2>2, <2>3, <2>4, <2>5, <3>1
  <2>6. CASE ok
    <3>1. Holders' = Holders \cup {p} /\ p \notin Holders
      BY <1>3, <2>2, <2>3, <2>6 DEF Holders
    <3>2. IsFiniteSet(Holders') /\ Cardinality(Holders') = Cardinality(Holders) + 1
      BY <1>3, <3>1, FS_AddElement
    <3>3. Advance(p)
      BY <1>6 DEF InsertLocation
    <3>4. plan'[p] = plan[p] /\ at'[p] = 6
      BY <2>1, <3>3, Advanced
    <3>5. pc' = pc
      BY <1>6 DEF InsertLocation
    <3>6. Busy(p)' /\ Cur(p)'.kind = "contact" /\ at'[p] = 6
      BY <2>1, <3>4, <3>5 DEF Busy, Cur
    <3> QED
      BY <1>2, <1>3, <2>3, <2>4, <2>6, <3>2, <3>6 DEF LocationsSuffice
  <2> QED
    BY <2>5, <2>6
<1>7. CASE LinkLocation(p)
  <2>1. /\ links' = links \/ (located[p] /\ links' = links \cup {Cur(p).of})
        /\ located' = [located EXCEPT ![p] = FALSE] /\ locations' = locations
    BY <1>7 DEF LinkLocation
  <2>2. CASE links' = links
    BY <1>4, <2>1, <2>2
  <2>3. CASE located[p] /\ links' = links \cup {Cur(p).of}
    <3>1. Holders' = Holders \ {p} /\ p \in Holders
      BY <1>3, <2>1, <2>3 DEF Holders
    <3>2. IsFiniteSet(Holders') /\ Cardinality(Holders') = Cardinality(Holders) - 1
      BY <1>3, <3>1, FS_RemoveElement
    <3>3. IsFiniteSet(links') /\ Cardinality(links') <= Cardinality(links) + 1
          /\ Cardinality(links') \in Nat
      <4>1. IsFiniteSet(links \cup {Cur(p).of})
            /\ Cardinality(links \cup {Cur(p).of})
                 = IF Cur(p).of \in links THEN Cardinality(links) ELSE Cardinality(links) + 1
        BY <1>3, FS_AddElement
      <4>2. Cardinality(links') \in Nat
        BY <2>3, <4>1, FS_CardinalityType
      <4> QED
        BY <1>3, <2>3, <4>1, <4>2
    <3>4. ~located'[p]
      BY <1>3, <2>1
    <3> QED
      BY <1>2, <1>3, <2>1, <3>2, <3>3, <3>4 DEF LocationsSuffice
  <2> QED
    BY <2>1, <2>2, <2>3
<1>8. CASE Crash(p)
  BY <1>4, <1>8 DEF Crash, contactVars
<1>9. CASE InsertEntity(p) \/ InsertCompany(p) \/ InsertAccount(p) \/ InsertChannels(p)
  <2>1. Busy(p) /\ at[p] # 6
    BY <1>9, Places DEF InsertEntity, InsertCompany, InsertAccount, InsertChannels
  <2>2. ~located[p]
    BY <2>1 DEF LocationsSuffice
  <2>3. locations' = locations /\ links' = links /\ located' = located
    BY <1>9 DEF InsertEntity, InsertCompany, InsertAccount, InsertChannels
  <2> QED
    BY <1>5, <2>2, <2>3
<1>10. CASE SkipDocument(p) \/ BeginDocument(p) \/ RollbackDocument(p) \/ RowStep(p) \/ Commit(p)
  <2>1. Busy(p) /\ Cur(p).kind # "contact"
    BY <1>10, Places, RowFacts DEF SkipDocument, BeginDocument, RollbackDocument, Commit
  <2>2. ~located[p]
    BY <2>1 DEF LocationsSuffice
  <2>3. locations' = locations /\ links' = links /\ located' = located
    BY <1>10, RowFacts DEF SkipDocument, BeginDocument, RollbackDocument, Commit, contactVars
  <2> QED
    BY <1>5, <2>2, <2>3
<1>11. CASE Start(p) \/ Finish(p)
  <2>1. ~Busy(p)
    BY <1>11 DEF Start, Finish, Busy
  <2>2. ~located[p]
    BY <2>1 DEF LocationsSuffice
  <2>3. locations' = locations /\ links' = links /\ located' = located
    BY <1>11 DEF Start, Finish, contactVars
  <2> QED
    BY <1>5, <2>2, <2>3
<1> QED
  BY <1>6, <1>7, <1>8, <1>9, <1>10, <1>11 DEF Step, RowStep

-----------------------------------------------------------------------------
(* Types and places. *)

\* A statement in a transaction writes its row, or breaks the transaction.
LEMMA WriteCases ==
  ASSUME TypeOK, NEW p \in Procs, NEW done, NEW allowed, Write(p, done, allowed)
  PROVE  \/ tx' = [tx EXCEPT ![p] = done] /\ allowed /\ ~tx[p].broken
         \/ tx' = [tx EXCEPT ![p] = [tx[p] EXCEPT !.broken = TRUE]]
<1>1. tx \in [Procs -> TxType]
  BY DEF TypeOK
<1> QED
  BY <1>1 DEF Write

\* The headers of the document at hand that are in the books.
Heads(p) == {d.own : d \in {e \in booked : e.kind = Cur(p).kind /\ e.number = Cur(p).of}}

\* The header found is the transaction's own or one in the books.
LEMMA HeadFound ==
  ASSUME TypeOK, BooksSound, NEW p \in Procs, InPlace(p), TxSound(p),
         Runs(p, "find"), ~tx[p].broken
  PROVE  Max({tx[p].own} \cup Heads(p)) \in {tx[p].own} \cup Heads(p)
<1>1. Busy(p) /\ Cur(p).kind # "contact" /\ at[p] = 3
  BY Places
<1>2. Live(p)
  BY <1>1 DEF Live, Writing
<1>3. tx[p].own \in Nat /\ tx[p].own < nextTrans /\ nextTrans \in Nat
  BY <1>1, <1>2 DEF TxSound, LiveSound, TypeOK, TxType
<1>4. \A d \in booked : d.own \in Nat /\ d.own < nextTrans
  BY DEF BooksSound, TypeOK, DocumentType
<1>5. \A n \in {tx[p].own} \cup Heads(p) : n \in Nat /\ n <= nextTrans
  BY <1>3, <1>4 DEF Heads
<1> QED
  BY <1>3, <1>5, MaxIsThere

\* The new row of a transaction is a part of a document.
LEMMA RowTypes ==
  ASSUME TypeOK, BooksSound, NEW p \in Procs, InPlace(p), TxSound(p), RowStep(p)
  PROVE  tx' \in [Procs -> TxType]
<1>1. tx \in [Procs -> TxType] /\ tx[p] \in TxType /\ nextTrans \in Nat
  BY DEF TypeOK
<1>2. Busy(p) /\ Cur(p).kind # "contact" /\ at[p] \in 2..8
  BY RowFacts
<1>3. Cur(p).kind \in {"ar", "ap"}
  BY <1>2, AtHand
<1>4. [tx[p] EXCEPT !.broken = TRUE] \in TxType
  BY <1>1 DEF TxType
<1>5. \A part \in Part : With(p, part) \in TxType
  BY <1>1 DEF TxType, With
<1>6. \A row \in Rows : <<row, 0>> \in Part
  BY DEF Part
<1>7. ASSUME NEW done, NEW allowed, Write(p, done, allowed), ~tx[p].broken => done \in TxType
      PROVE  tx' \in [Procs -> TxType]
  BY <1>1, <1>4, <1>7, WriteCases
<1>8. CASE WriteHead(p)
  <2>1. With(p, <<"head", 0>>) \in TxType
    BY <1>5, <1>6 DEF Rows
  <2>2. [With(p, <<"head", 0>>) EXCEPT !.own = nextTrans] \in TxType
    BY <1>1, <2>1 DEF TxType
  <2> QED
    BY <1>7, <1>8, <2>2 DEF WriteHead
<1>9. CASE FindHead(p)
  <2>1. Runs(p, "find")
        /\ Write(p, [tx[p] EXCEPT !.found = Max({tx[p].own} \cup Heads(p))], TRUE)
    BY <1>9 DEF FindHead, Heads
  <2>2. ASSUME ~tx[p].broken
        PROVE  [tx[p] EXCEPT !.found = Max({tx[p].own} \cup Heads(p))] \in TxType
    <3>1. Max({tx[p].own} \cup Heads(p)) \in {tx[p].own} \cup Heads(p)
      BY <2>1, <2>2, HeadFound
    <3>2. \A n \in Heads(p) : n \in Nat
      BY DEF Heads, TypeOK, DocumentType
    <3>3. tx[p].own \in Nat
      BY <1>1 DEF TxType
    <3> QED
      BY <1>1, <3>1, <3>2, <3>3 DEF TxType
  <2> QED
    BY <1>7, <2>1, <2>2
<1>10. CASE WriteDocument(p)
  <2>1. With(p, <<"document", 0>>) \in TxType
    BY <1>5, <1>6 DEF Rows
  <2> QED
    BY <1>7, <1>10, <2>1 DEF WriteDocument
<1>11. CASE WriteLine(p)
  <2>1. With(p, <<"line", 0>>) \in TxType
    BY <1>5, <1>6 DEF Rows
  <2> QED
    BY <1>7, <1>11, <2>1 DEF WriteLine
<1>12. CASE WritePosting(p)
  <2> DEFINE entry == Entries(Cur(p).kind)[at[p] - 5]
  <2>1. at[p] \in 6..8
    BY <1>12, Places DEF WritePosting
  <2>2. With(p, entry) \in TxType
    BY <1>3, <1>5, <2>1, EntriesAreParts
  <2>3. Write(p, With(p, entry), entry[1] \in Accounts)
    BY <1>12 DEF WritePosting
  <2> QED
    BY <1>7, <2>2, <2>3
<1> QED
  BY <1>8, <1>9, <1>10, <1>11, <1>12 DEF RowStep

\* The foreign keys of a contact's rows.
ContactTypes ==
    /\ ecas \subseteq entities /\ companies \subseteq entities
    /\ entities \subseteq Contacts
    /\ links \subseteq ecas /\ channels \subseteq ecas
    /\ seeded \in [Procs -> SUBSET ecas]
    /\ located \in [Procs -> BOOLEAN]

\* A contact's statements keep them.
LEMMA ContactTypesStep ==
  ASSUME TypeOK, NEW p \in Procs, InPlace(p), Founded(p), ContactStep(p)
  PROVE  ContactTypes' /\ locations' \in Nat
<1>1. ContactTypes /\ locations \in Nat
  BY DEF TypeOK, ContactTypes
<1>2. Busy(p) /\ Cur(p).kind = "contact" /\ Cur(p).of \in Contacts
  BY ContactFacts
<1>3. CASE InsertEntity(p)
  BY <1>1, <1>2, <1>3 DEF InsertEntity, ContactTypes
<1>4. CASE InsertCompany(p)
  <2>1. Cur(p).of \in entities
    BY <1>2, <1>4, Places DEF InsertCompany, Founded
  <2> QED
    BY <1>1, <1>4, <2>1 DEF InsertCompany, ContactTypes
<1>5. CASE InsertAccount(p)
  <2>1. Cur(p).of \in entities
    BY <1>2, <1>5, Places DEF InsertAccount, Founded
  <2> QED
    BY <1>1, <1>5, <2>1 DEF InsertAccount, ContactTypes
<1>6. CASE InsertChannels(p)
  <2>1. Cur(p).of \in ecas
    BY <1>2, <1>6, Places DEF InsertChannels, Founded
  <2> QED
    BY <1>1, <1>6, <2>1 DEF InsertChannels, ContactTypes
<1>7. CASE InsertLocation(p)
  <2>1. PICK ok \in BOOLEAN : /\ locations' = locations + (IF ok THEN 1 ELSE 0)
                              /\ located' = [located EXCEPT ![p] = ok]
    BY <1>7 DEF InsertLocation, Outcomes
  <2>2. locations' \in Nat /\ located' \in [Procs -> BOOLEAN]
    BY <1>1, <2>1 DEF ContactTypes
  <2>3. UNCHANGED <<entities, companies, ecas, channels, links, seeded>>
    BY <1>7 DEF InsertLocation
  <2> QED
    BY <1>1, <2>2, <2>3 DEF ContactTypes
<1>8. CASE LinkLocation(p)
  <2>1. Cur(p).of \in ecas
    BY <1>2, <1>8, Places DEF LinkLocation, Founded
  <2> QED
    BY <1>1, <1>8, <2>1 DEF LinkLocation, ContactTypes
<1> QED
  BY <1>3, <1>4, <1>5, <1>6, <1>7, <1>8 DEF ContactStep

\* No step breaks the types or the foreign keys.
LEMMA TypeStep ==
  ASSUME TypeOK, LocationsSuffice', BooksSound,
         NEW p \in Procs, InPlace(p), Founded(p), TxSound(p),
         Start(p) \/ Step(p) \/ Crash(p)
  PROVE  TypeOK'
<1> USE DEF contactVars, bookVars
<1>1. Alone(p)
  BY AloneStep
<1>2. /\ pc \in [Procs -> {"idle", "run"}] /\ plan \in [Procs -> Seq(Items)]
      /\ at \in [Procs -> 1..9] /\ seeded \in [Procs -> SUBSET ecas]
      /\ located \in [Procs -> BOOLEAN] /\ tx \in [Procs -> TxType]
      /\ exit \in [Procs -> {"none", "0", "1", "killed"}] /\ nextTrans \in Nat \ {0}
      /\ starts \in 0..MaxStarts /\ MaxStarts \in Nat
  BY TenantSeedAssumption DEF TypeOK
<1>3. locations' \in Nat
  <2>1. locations' = locations \/ ContactStep(p)
    BY RowFacts DEF Start, Step, ContactStep, Crash, SkipDocument, BeginDocument,
                    RollbackDocument, RowStep, Commit, Finish
  <2> QED
    BY <2>1, ContactTypesStep DEF TypeOK
<1>4. Cardinality(links') <= locations'
  <2>1. Cardinality(links') \in Nat /\ Cardinality(Holders') \in Nat
    BY FS_CardinalityType DEF LocationsSuffice
  <2>2. Cardinality(links') + Cardinality(Holders') <= locations'
    BY DEF LocationsSuffice
  <2> QED
    BY <1>3, <2>1, <2>2
<1>5. ASSUME pc'[p] = "idle" => plan'[p] = <<>> /\ tx'[p] = NoTx
      PROVE  \A q \in Procs : pc'[q] = "idle" => plan'[q] = <<>> /\ tx'[q] = NoTx
  BY <1>1, <1>5 DEF Alone, TypeOK
<1>6. NoTx \in TxType
  BY DEF NoTx, TxType
<1>7. CASE Start(p)
  <2>1. seedTenant \in Seq(Items)
    BY PlanIsOfItems
  <2>2. /\ pc' \in [Procs -> {"idle", "run"}] /\ plan' \in [Procs -> Seq(Items)]
        /\ at' \in [Procs -> 1..9] /\ seeded' \in [Procs -> SUBSET ecas]
        /\ exit' \in [Procs -> {"none", "0", "1", "killed"}] /\ starts' \in 0..MaxStarts
    <3>1. pc' \in [Procs -> {"idle", "run"}] /\ exit' \in [Procs -> {"none", "0", "1", "killed"}]
      BY <1>2, <1>7 DEF Start
    <3>2. plan' \in [Procs -> Seq(Items)] /\ at' \in [Procs -> 1..9]
      <4>1. \/ plan' = plan /\ at' = at
            \/ plan' = [plan EXCEPT ![p] = seedTenant] /\ at' = [at EXCEPT ![p] = 1]
        BY <1>7 DEF Start
      <4>2. plan \in [Procs -> Seq(Items)] /\ at \in [Procs -> 1..9]
        BY <1>2
      <4>3. at' \in [Procs -> 1..9]
        BY <4>1, <4>2
      <4>4. plan' \in [Procs -> Seq(Items)]
        BY <2>1, <4>1, <4>2
      <4> QED
        BY <4>3, <4>4
    <3>3. seeded' \in [Procs -> SUBSET ecas]
      BY <1>2, <1>7 DEF Start
    <3>4. starts' \in 0..MaxStarts
      BY <1>2, <1>7 DEF Start
    <3> QED
      BY <3>1, <3>2, <3>3, <3>4
  <2>3. pc'[p] = "idle" => plan'[p] = <<>> /\ tx'[p] = NoTx
    BY <1>2, <1>7 DEF Start, TypeOK
  <2> QED
    <3>1. UNCHANGED <<contactVars, bookVars, located, tx>>
      BY <1>7 DEF Start
    <3> QED
      BY <1>3, <1>4, <1>5, <2>2, <2>3, <3>1 DEF TypeOK
<1>8. CASE ContactStep(p)
  <2>1. /\ Busy(p) /\ Cur(p).kind = "contact" /\ Cur(p).of \in Contacts /\ Moves(p)
        /\ UNCHANGED <<bookVars, pc, tx, exit, starts>>
    BY <1>8, ContactFacts
  <2>2. plan' \in [Procs -> Seq(Items)] /\ at' \in [Procs -> 1..9]
    BY <2>1, Moved
  <2>3. pc'[p] # "idle"
    BY <2>1 DEF Busy
  <2>4. ContactTypes'
    BY <1>8, ContactTypesStep
  <2> QED
    <3>1. ecas \subseteq ecas'
      BY <1>1 DEF Alone
    <3>2. \A r \in Procs : pc'[r] = "idle" => plan'[r] = <<>> /\ tx'[r] = NoTx
      BY <1>5, <2>3
    <3>3. \A d \in booked' : d.number \in items' /\ d.contact \in ecas'
      BY <2>1, <3>1 DEF TypeOK
    <3> QED
      BY <1>2, <1>3, <1>4, <2>1, <2>2, <2>4, <3>2, <3>3 DEF TypeOK, ContactTypes
<1>9. CASE SkipDocument(p) \/ BeginDocument(p) \/ RollbackDocument(p)
  <2>1. Busy(p) /\ Cur(p).kind # "contact" /\ Moves(p)
        /\ UNCHANGED <<contactVars, bookVars, pc, seeded, located, exit, starts>>
    BY <1>9, Places DEF SkipDocument, BeginDocument, RollbackDocument, Moves
  <2>2. plan' \in [Procs -> Seq(Items)] /\ at' \in [Procs -> 1..9]
    BY <2>1, Moved
  <2>3. pc'[p] # "idle"
    BY <2>1 DEF Busy
  <2>4. tx' \in [Procs -> TxType]
    <3>1. Cur(p).of \in Numbers /\ Parties(p) \subseteq Contacts
      BY <2>1, AtHand, ItemKinds DEF Parties, TypeOK
    <3>2. CASE BeginDocument(p)
      <4>1. PICK c \in Parties(p) :
              tx' = [tx EXCEPT ![p] = [NoTx EXCEPT !.number = Cur(p).of, !.contact = c,
                                                   !.newItem = Cur(p).of \notin items]]
        BY <3>2 DEF BeginDocument
      <4>2. [NoTx EXCEPT !.number = Cur(p).of, !.contact = c,
                         !.newItem = Cur(p).of \notin items] \in TxType
        BY <3>1 DEF NoTx, TxType
      <4> QED
        BY <1>2, <4>1, <4>2
    <3> QED
      BY <1>2, <1>6, <1>9, <3>2 DEF SkipDocument, RollbackDocument
  <2> QED
    BY <1>3, <1>4, <1>5, <2>1, <2>2, <2>3, <2>4 DEF TypeOK
<1>10. CASE RowStep(p)
  <2>1. Busy(p) /\ Moves(p)
        /\ UNCHANGED <<contactVars, items, booked, pc, seeded, located, exit, starts>>
        /\ nextTrans' \in Nat \ {0}
    BY <1>10, RowFacts
  <2>2. plan' \in [Procs -> Seq(Items)] /\ at' \in [Procs -> 1..9]
    BY <2>1, Moved
  <2>3. tx' \in [Procs -> TxType]
    BY <1>10, RowTypes
  <2>4. pc'[p] # "idle"
    BY <2>1 DEF Busy
  <2> QED
    BY <1>3, <1>4, <1>5, <2>1, <2>2, <2>3, <2>4 DEF TypeOK
<1>11. CASE Commit(p)
  <2>1. Busy(p) /\ Cur(p).kind # "contact" /\ at[p] = 9 /\ Moves(p)
        /\ UNCHANGED <<contactVars, nextTrans, pc, seeded, located, exit, starts>>
    BY <1>11, Places DEF Commit, Moves
  <2>2. plan' \in [Procs -> Seq(Items)] /\ at' \in [Procs -> 1..9]
    BY <2>1, Moved
  <2>3. pc'[p] # "idle"
    BY <2>1 DEF Busy
  <2>4. tx' \in [Procs -> TxType]
    BY <1>2, <1>6, <1>11 DEF Commit
  <2>5. Cur(p).of \in Numbers /\ Cur(p).kind \in {"ar", "ap"}
    BY <2>1, AtHand, ItemKinds
  <2>6. tx[p] \in TxType /\ tx[p].contact \in ecas
    BY <1>2, <2>1 DEF TxSound, Writing, TypeOK
  <2>7. Document(p) \in DocumentType /\ Document(p).number = Cur(p).of
        /\ Document(p).contact \in ecas
    <3>1. ecas \subseteq Contacts
      BY DEF TypeOK
    <3> QED
      BY <2>5, <2>6, <3>1 DEF Document, DocumentType, TxType
  <2>8. /\ items' \subseteq Numbers /\ booked' \subseteq DocumentType
        /\ \A d \in booked' : d.number \in items' /\ d.contact \in ecas
    BY <1>11, <2>5, <2>7 DEF Commit, TypeOK
  <2> QED
    BY <1>3, <1>4, <1>5, <2>1, <2>2, <2>3, <2>4, <2>8 DEF TypeOK
<1>12. CASE Finish(p)
  <2>1. /\ pc' \in [Procs -> {"idle", "run"}]
        /\ exit' \in [Procs -> {"none", "0", "1", "killed"}]
    BY <1>2, <1>12 DEF Finish
  <2>2. plan[p] = <<>> /\ tx[p] = NoTx
    BY <1>12 DEF Finish, TxSound, Writing, Busy
  <2> QED
    BY <1>3, <1>4, <1>5, <1>12, <2>1, <2>2 DEF Finish, TypeOK
<1>13. CASE Crash(p)
  <2>1. /\ pc' \in [Procs -> {"idle", "run"}] /\ plan' \in [Procs -> Seq(Items)]
        /\ at' \in [Procs -> 1..9] /\ located' \in [Procs -> BOOLEAN]
        /\ tx' \in [Procs -> TxType] /\ exit' \in [Procs -> {"none", "0", "1", "killed"}]
        /\ plan'[p] = <<>> /\ tx'[p] = NoTx
    BY <1>2, <1>6, <1>13, EmptySeq DEF Crash
  <2> QED
    BY <1>3, <1>4, <1>5, <1>13, <2>1 DEF Crash, TypeOK
<1> QED
  BY <1>7, <1>8, <1>9, <1>10, <1>11, <1>12, <1>13 DEF Step, ContactStep, RowStep

\* No step leaves its script.
LEMMA PlaceStep ==
  ASSUME TypeOK, NEW p \in Procs, InPlace(p), TxSound(p),
         Start(p) \/ Step(p) \/ Crash(p), NEW q \in Procs, InPlace(q)
  PROVE  InPlace(q)'
<1>1. CASE q # p
  <2>1. Busy(q)' <=> Busy(q)
    BY <1>1, AloneStep, Same
  <2>2. Cur(q)' = Cur(q) /\ at'[q] = at[q]
    BY <1>1, AloneStep, Same
  <2> QED
    BY <2>1, <2>2 DEF InPlace
<1>2. CASE at'[p] = 1 /\ q = p
  <2>1. 1 <= Len(Script(Cur(q).kind))'
    BY DEF Script
  <2>2. at'[q] = 1
    BY <1>2
  <2> QED
    BY <2>1, <2>2, Zenon DEF InPlace
<1>3. CASE Busy(p) /\ Moves(p) /\ q = p
  <2>1. \/ at'[p] = 1
        \/ /\ plan'[p] = plan[p] /\ at'[p] = at[p] + 1
           /\ at[p] < IF Cur(p).kind = "contact" THEN 6 ELSE 9
    BY <1>3, Moved
  <2>2. CASE plan'[p] = plan[p] /\ at'[p] = at[p] + 1
             /\ at[p] < IF Cur(p).kind = "contact" THEN 6 ELSE 9
    <3>1. Cur(p)' = Cur(p)
      BY <2>2 DEF Cur
    <3>2. at \in [Procs -> 1..9]
      BY DEF TypeOK
    <3>3. at[p] \in Nat
      BY <3>2
    <3>4. Len(Script(Cur(p).kind))' = IF Cur(p).kind = "contact" THEN 6 ELSE 9
      BY <3>1 DEF Script
    <3> QED
      BY <1>3, <2>2, <3>3, <3>4 DEF InPlace
  <2> QED
    BY <1>2, <1>3, <2>1, <2>2
<1>4. CASE Start(p) \/ Finish(p) \/ Crash(p)
  <2>1. at \in [Procs -> 1..9]
    BY DEF TypeOK
  <2>2. at'[p] = 1 \/ ~Busy(p)'
    BY <1>4, <2>1 DEF Start, Finish, Crash, Busy, TypeOK
  <2> QED
    BY <1>1, <1>2, <2>2 DEF InPlace
<1>5. CASE ContactStep(p) \/ RowStep(p)
  BY <1>1, <1>3, <1>5, ContactFacts, RowFacts
<1>6. CASE SkipDocument(p) \/ BeginDocument(p) \/ RollbackDocument(p) \/ Commit(p)
  <2>1. Busy(p) /\ Moves(p)
    BY <1>6, Places DEF SkipDocument, BeginDocument, RollbackDocument, Commit, Moves
  <2> QED
    BY <1>1, <1>3, <2>1
<1> QED
  BY <1>4, <1>5, <1>6 DEF Step, ContactStep, RowStep

\* The rows of a contact are written after those they refer to.
LEMMA FoundedStep ==
  ASSUME TypeOK, NEW p \in Procs, InPlace(p), TxSound(p),
         Start(p) \/ Step(p) \/ Crash(p), NEW q \in Procs, Founded(q)
  PROVE  Founded(q)'
<1>1. Alone(p)
  BY AloneStep
<1>2. CASE q # p
  <2>1. (Busy(q)' <=> Busy(q)) /\ Cur(q)' = Cur(q) /\ at'[q] = at[q]
    BY <1>1, <1>2, Same
  <2>2. seeded'[q] = seeded[q] /\ entities \subseteq entities' /\ ecas \subseteq ecas'
    BY <1>1, <1>2 DEF Alone
  <2> QED
    BY <2>1, <2>2 DEF Founded
<1>3. CASE at'[p] = 1 /\ q = p
  BY <1>3 DEF Founded
<1>4. CASE q = p /\ Busy(p) /\ Cur(p).kind # "contact" /\ Moves(p)
  <2>1. at'[p] = 1 \/ plan'[p] = plan[p]
    BY <1>4, Moved
  <2>2. CASE plan'[p] = plan[p]
    <3>1. Cur(p)' = Cur(p)
      BY <2>2 DEF Cur
    <3> QED
      BY <1>4, <3>1 DEF Founded
  <2> QED
    BY <1>3, <1>4, <2>1, <2>2
<1>5. CASE q = p /\ ContactStep(p)
  <2>1. /\ Busy(p) /\ Cur(p).kind = "contact" /\ Moves(p)
        /\ at \in [Procs -> 1..9] /\ seeded \in [Procs -> SUBSET ecas]
    BY <1>5, ContactFacts DEF TypeOK
  <2>2. CASE at'[p] = 1
    BY <1>3, <1>5, <2>2
  <2>3. CASE at'[p] # 1
    <3>1. plan'[p] = plan[p] /\ at'[p] = at[p] + 1 /\ Cur(p)' = Cur(p)
      BY <2>1, <2>3, Moved DEF Cur
    <3>2. ~SkipItem(p)
      BY <2>1, <2>3, Skipped
    <3>3. CASE InsertEntity(p)
      <4>1. at[p] = 1
        BY <3>3, Places DEF InsertEntity
      <4>2. Cur(p).of \in entities'
        BY <3>2, <3>3 DEF InsertEntity
      <4> QED
        BY <1>5, <3>1, <4>1, <4>2 DEF Founded
    <3>4. CASE InsertCompany(p)
      <4>1. at[p] = 2
        BY <3>4, Places DEF InsertCompany
      <4>2. entities' = entities
        BY <3>4 DEF InsertCompany
      <4> QED
        BY <1>5, <2>1, <3>1, <4>1, <4>2 DEF Founded
    <3>5. CASE InsertAccount(p)
      <4>1. at[p] = 3 /\ entities' = entities
        BY <3>5, Places DEF InsertAccount
      <4>2. Cur(p).of \in ecas' /\ seeded' = [seeded EXCEPT ![p] = @ \cup {Cur(p).of}]
        BY <3>2, <3>5 DEF InsertAccount
      <4>3. Cur(p).of \in seeded'[p]
        BY <2>1, <4>2
      <4> QED
        BY <1>5, <2>1, <3>1, <4>1, <4>2, <4>3 DEF Founded
    <3>6. CASE InsertChannels(p) \/ InsertLocation(p) \/ LinkLocation(p)
      <4>1. at[p] > 3 /\ UNCHANGED <<entities, ecas, seeded>>
        BY <3>6, Places DEF InsertChannels, InsertLocation, LinkLocation
      <4>2. at[p] \in Nat
        BY <2>1
      <4> QED
        BY <1>5, <2>1, <3>1, <4>1, <4>2 DEF Founded
    <3> QED
      BY <1>5, <3>3, <3>4, <3>5, <3>6 DEF ContactStep
  <2> QED
    BY <2>2, <2>3
<1>6. CASE q = p /\ (Start(p) \/ Finish(p) \/ Crash(p))
  <2>1. at \in [Procs -> 1..9] /\ pc \in [Procs -> {"idle", "run"}]
    BY DEF TypeOK
  <2>2. at'[p] = 1 \/ ~Busy(p)'
    BY <1>6, <2>1 DEF Start, Finish, Crash, Busy, TypeOK
  <2> QED
    BY <1>3, <1>6, <2>2 DEF Founded
<1>7. CASE q = p /\ (SkipDocument(p) \/ BeginDocument(p) \/ RollbackDocument(p)
                       \/ RowStep(p) \/ Commit(p))
  <2>1. Busy(p) /\ Cur(p).kind # "contact" /\ Moves(p)
    BY <1>7, Places, RowFacts DEF SkipDocument, BeginDocument, RollbackDocument, Commit, Moves
  <2> QED
    BY <1>4, <1>7, <2>1
<1> QED
  BY <1>2, <1>5, <1>6, <1>7 DEF Step, ContactStep, RowStep

-----------------------------------------------------------------------------
(* Transactions. *)

\* What the others commit breaks no transaction's place.
LEMMA OtherTx ==
  ASSUME TypeOK, NEW p \in Procs, InPlace(p), TxSound(p),
         Start(p) \/ Step(p) \/ Crash(p),
         NEW q \in Procs \ {p}, TxSound(q), Apart(p, q)
  PROVE  TxSound(q)'
<1>1. Alone(p)
  BY AloneStep
<1>2. /\ (Writing(q)' <=> Writing(q)) /\ (Live(q)' <=> Live(q))
      /\ Cur(q)' = Cur(q) /\ at'[q] = at[q] /\ tx'[q] = tx[q]
  BY <1>1, Same
<1>3. seeded'[q] = seeded[q]
  BY <1>1 DEF Alone
<1>4. ASSUME Live(q)
      PROVE  LiveSound(q)'
  <2>1. LiveSound(q)
    BY <1>4 DEF TxSound
  <2>2. nextTrans \in Nat /\ nextTrans' \in Nat /\ nextTrans <= nextTrans'
    BY <1>1 DEF Alone, TypeOK
  <2>3. tx[q].own \in Nat /\ at[q] \in 1..9
    BY DEF TypeOK, TxType
  <2>4. ASSUME NEW d \in booked' \ booked
        PROVE  /\ at[q] > 2 => d.own # tx[q].own
               /\ at[q] > 4 /\ Cur(q).kind = "ar" /\ d.kind = "ar" => d.number # Cur(q).of
    <3>1. Live(p) /\ at[p] = 9 /\ d = Document(p)
      BY <1>1 DEF Alone
    <3>2. d.own = tx[p].own /\ d.kind = Cur(p).kind /\ d.number = Cur(p).of
      BY <3>1 DEF Document
    <3> QED
      BY <1>4, <3>1, <3>2 DEF Apart
  <2>5. booked \subseteq booked'
    BY <1>1 DEF Alone
  <2>6. at[q] > 2 => tx[q].own < nextTrans' /\ \A d \in booked' : d.own # tx[q].own
    BY <2>1, <2>2, <2>3, <2>4 DEF LiveSound
  <2>7. at[q] = 4 => \/ tx[q].found = tx[q].own
                     \/ \E d \in booked' : d.found = tx[q].found /\ d.number = Cur(q).of
    BY <2>1, <2>5 DEF LiveSound
  <2>8. at[q] > 4 => tx[q].found = tx[q].own /\ (Cur(q).kind = "ar" =>
            \A d \in booked' : d.kind = "ar" => d.number # Cur(q).of)
    BY <2>1, <2>4 DEF LiveSound, NumberIsFree
  <2> QED
    BY <1>2, <2>1, <2>6, <2>7, <2>8 DEF LiveSound, NumberIsFree
<1> QED
  BY <1>2, <1>3, <1>4 DEF TxSound

\* After these steps no transaction of p is open.
Quiet(p) == ContactStep(p) \/ Start(p) \/ Finish(p) \/ Crash(p)
              \/ SkipDocument(p) \/ RollbackDocument(p) \/ Commit(p)

LEMMA QuietTx ==
  ASSUME TypeOK, NEW p \in Procs, InPlace(p), TxSound(p), Quiet(p)
  PROVE  ~Writing(p)' /\ tx'[p] = NoTx
<1>0. tx \in [Procs -> TxType] /\ at \in [Procs -> 1..9] /\ pc \in [Procs -> {"idle", "run"}]
  BY DEF TypeOK
<1>1. CASE ContactStep(p)
  <2>1. Busy(p) /\ Cur(p).kind = "contact" /\ Moves(p) /\ tx' = tx
    BY <1>1, ContactFacts
  <2>2. at'[p] = 1 \/ plan'[p] = plan[p]
    BY <2>1, Moved
  <2>3. ~Writing(p) /\ tx[p] = NoTx
    BY <2>1 DEF Writing, TxSound
  <2>4. plan'[p] = plan[p] => Cur(p)' = Cur(p)
    BY DEF Cur
  <2> QED
    BY <2>1, <2>2, <2>3, <2>4 DEF Writing
<1>2. CASE Start(p) \/ Finish(p)
  <2>1. ~Writing(p) /\ tx[p] = NoTx /\ tx' = tx
    BY <1>2 DEF Start, Finish, Writing, Busy, TxSound
  <2>2. at'[p] = 1 \/ ~Busy(p)'
    BY <1>0, <1>2 DEF Start, Finish, Busy
  <2> QED
    BY <2>1, <2>2 DEF Writing
<1>3. CASE Crash(p)
  <2>1. tx'[p] = NoTx /\ pc'[p] = "idle"
    BY <1>0, <1>3 DEF Crash
  <2> QED
    BY <2>1 DEF Writing, Busy
<1>4. CASE SkipDocument(p)
  <2>1. Busy(p) /\ at[p] = 1 /\ SkipItem(p) /\ tx' = tx
    BY <1>4, Places DEF SkipDocument
  <2>2. at'[p] = 1
    BY <2>1, Skipped
  <2> QED
    BY <2>1, <2>2 DEF Writing, TxSound
<1>5. CASE RollbackDocument(p)
  <2>1. Busy(p) /\ SkipItem(p) /\ tx'[p] = NoTx
    BY <1>0, <1>5, Places DEF RollbackDocument
  <2>2. at'[p] = 1
    BY <2>1, Skipped
  <2> QED
    BY <2>1, <2>2 DEF Writing
<1>6. CASE Commit(p)
  <2>1. Busy(p) /\ Cur(p).kind # "contact" /\ at[p] = 9 /\ Advance(p) /\ tx'[p] = NoTx
    BY <1>0, <1>6, Places DEF Commit
  <2>2. at'[p] = 1
    BY <2>1, Advanced
  <2> QED
    BY <2>1, <2>2 DEF Writing
<1> QED
  BY <1>1, <1>2, <1>3, <1>4, <1>5, <1>6 DEF Quiet

\* The number and the contact of a transaction stay, and it is no longer live
\* once a statement has failed.
LEMMA RowTx ==
  ASSUME TypeOK, BooksSound, NEW p \in Procs, InPlace(p), TxSound(p), RowStep(p)
  PROVE  TxSound(p)' /\ (Live(p)' => Live(p))
<1>1. /\ Busy(p) /\ Cur(p).kind # "contact" /\ at[p] \in 2..8
      /\ plan'[p] = plan[p] /\ at'[p] = at[p] + 1
      /\ UNCHANGED <<contactVars, items, booked, pc, seeded, located, exit, starts>>
      /\ nextTrans' \in Nat \ {0} /\ nextTrans <= nextTrans'
  BY RowFacts
<1>2. Cur(p)' = Cur(p) /\ Writing(p) /\ Writing(p)'
  BY <1>1 DEF Cur, Busy, Writing
<1>3. /\ tx \in [Procs -> TxType] /\ tx[p] \in TxType
      /\ tx[p].number = Cur(p).of /\ tx[p].contact \in seeded[p]
      /\ nextTrans \in Nat
  BY <1>2 DEF TypeOK, TxSound
<1>4. tx[p].own \in Nat /\ tx[p].broken \in BOOLEAN
  BY <1>3 DEF TxType
<1>5. CASE tx' = [tx EXCEPT ![p] = [tx[p] EXCEPT !.broken = TRUE]]
  <2>1. /\ tx'[p].number = tx[p].number /\ tx'[p].contact = tx[p].contact /\ tx'[p].broken
    BY <1>3, <1>5 DEF TxType
  <2>2. ~Live(p)'
    BY <2>1 DEF Live
  <2> QED
    BY <1>1, <1>2, <1>3, <2>1, <2>2 DEF TxSound
<1>6. ASSUME NEW done, tx' = [tx EXCEPT ![p] = done], ~tx[p].broken,
             done.number = tx[p].number, done.contact = tx[p].contact,
             LiveSound(p)'
      PROVE  TxSound(p)' /\ (Live(p)' => Live(p))
  <2>1. tx'[p] = done
    BY <1>3, <1>6
  <2>2. Live(p)
    BY <1>2, <1>6 DEF Live
  <2> QED
    BY <1>1, <1>2, <1>3, <1>6, <2>1, <2>2 DEF TxSound
<1>7. ~tx[p].broken => LiveSound(p)
  BY <1>2 DEF TxSound, Live
<1>8. \A d \in booked : d.own < nextTrans /\ d.found = d.own /\ d.own \in Nat
  BY DEF BooksSound, TypeOK, DocumentType
<1>9. CASE WriteHead(p)
  <2> DEFINE done == [With(p, <<"head", 0>>) EXCEPT !.own = nextTrans]
  <2>1. at[p] = 2 /\ at'[p] = 3 /\ Write(p, done, TRUE) /\ nextTrans' = nextTrans + 1
    <3>1. Runs(p, "head") /\ Write(p, done, TRUE) /\ nextTrans' = nextTrans + 1
      BY <1>9, Zenon DEF WriteHead
    <3>2. at[p] = 2
      BY <3>1, Places
    <3>3. at'[p] = 3
      BY <1>1, <3>2
    <3> QED
      BY <3>1, <3>2, <3>3, Zenon
  <2>2. CASE tx' = [tx EXCEPT ![p] = done] /\ ~tx[p].broken
    <3>1. /\ done.number = tx[p].number /\ done.contact = tx[p].contact
          /\ done.own = nextTrans /\ done.parts = tx[p].parts \cup {<<"head", 0>>}
      BY <1>3 DEF With, TxType
    <3>2. tx'[p] = done
      BY <1>3, <2>2
    <3>3. tx[p].parts = {}
      BY <1>7, <2>1, <2>2, WrittenSteps DEF LiveSound
    <3>4. done.parts = Written(Cur(p).kind, 3)
      BY <3>1, <3>3, WrittenSteps
    <3>5. nextTrans < nextTrans' /\ \A d \in booked : d.own # nextTrans
      BY <1>3, <1>8, <2>1
    <3>6. LiveSound(p)'
      BY <1>1, <1>2, <2>1, <3>1, <3>2, <3>4, <3>5 DEF LiveSound
    <3> QED
      BY <1>6, <2>2, <3>1, <3>6
  <2> HIDE DEF done
  <2> QED
    BY <1>5, <2>1, <2>2, WriteCases
<1>10. CASE FindHead(p)
  <2> DEFINE done == [tx[p] EXCEPT !.found = Max({tx[p].own} \cup Heads(p))]
  <2>1. at[p] = 3 /\ at'[p] = 4 /\ Runs(p, "find") /\ Write(p, done, TRUE) /\ nextTrans' = nextTrans
    <3>1. Runs(p, "find") /\ Write(p, done, TRUE) /\ nextTrans' = nextTrans
      BY <1>10, Zenon DEF FindHead, Heads
    <3>2. at[p] = 3
      BY <3>1, Places
    <3>3. at'[p] = 4
      BY <1>1, <3>2
    <3> QED
      BY <3>1, <3>2, <3>3, Zenon
  <2>2. CASE tx' = [tx EXCEPT ![p] = done] /\ ~tx[p].broken
    <3>1. /\ done.number = tx[p].number /\ done.contact = tx[p].contact
          /\ done.own = tx[p].own /\ done.parts = tx[p].parts
          /\ done.found = Max({tx[p].own} \cup Heads(p))
      BY <1>3 DEF TxType
    <3>2. tx'[p] = done
      BY <1>3, <2>2
    <3>3. done.found \in {tx[p].own} \cup Heads(p)
      BY <2>1, <2>2, <3>1, HeadFound
    <3>4. \/ done.found = done.own
          \/ \E d \in booked : d.found = done.found /\ d.number = Cur(p).of
      BY <1>8, <3>1, <3>3 DEF Heads
    <3>5. done.parts = Written(Cur(p).kind, 4)
      BY <1>7, <2>1, <2>2, <3>1, WrittenSteps DEF LiveSound
    <3>6. done.own < nextTrans /\ \A d \in booked : d.own # done.own
      BY <1>7, <2>1, <2>2, <3>1 DEF LiveSound
    <3>7. LiveSound(p)'
      <4>1. booked' = booked /\ nextTrans' = nextTrans /\ Cur(p)' = Cur(p) /\ at'[p] = 4
        BY <1>1, <1>2, <2>1, Zenon
      <4>2. tx'[p].parts = Written(Cur(p).kind, 4)
        BY <3>2, <3>5
      <4>3. tx'[p].own < nextTrans /\ \A d \in booked : d.own # tx'[p].own
        BY <3>2, <3>6
      <4>4. \/ tx'[p].found = tx'[p].own
            \/ \E d \in booked : d.found = tx'[p].found /\ d.number = Cur(p).of
        BY <3>2, <3>4
      <4> QED
        BY <4>1, <4>2, <4>3, <4>4 DEF LiveSound
    <3> QED
      BY <1>6, <2>2, <3>1, <3>7
  <2> HIDE DEF done
  <2> QED
    BY <1>5, <2>1, <2>2, WriteCases
<1>11. ASSUME NEW part, NEW allowed, Write(p, With(p, part), allowed),
              nextTrans' = nextTrans, at[p] > 3,
              tx[p].parts = Written(Cur(p).kind, at[p]) =>
                  Written(Cur(p).kind, at[p] + 1) = Written(Cur(p).kind, at[p]) \cup {part},
              allowed /\ LiveSound(p) => tx[p].found = tx[p].own /\ NumberIsFree(p)
       PROVE  TxSound(p)' /\ (Live(p)' => Live(p))
  <2> DEFINE done == With(p, part)
  <2>1. CASE tx' = [tx EXCEPT ![p] = done] /\ allowed /\ ~tx[p].broken
    <3>1. /\ done.number = tx[p].number /\ done.contact = tx[p].contact
          /\ done.own = tx[p].own /\ done.found = tx[p].found
          /\ done.parts = tx[p].parts \cup {part}
      BY <1>3 DEF With, TxType
    <3>2. tx'[p] = done
      BY <1>3, <2>1
    <3>3. LiveSound(p)
      BY <1>7, <2>1
    <3>4. done.parts = Written(Cur(p).kind, at[p] + 1)
      BY <1>11, <3>1, <3>3 DEF LiveSound
    <3>5. done.own < nextTrans /\ \A d \in booked : d.own # done.own
      BY <1>1, <1>11, <3>1, <3>3 DEF LiveSound
    <3>6. done.found = done.own /\ NumberIsFree(p)
      BY <1>11, <2>1, <3>1, <3>3
    <3>7. at'[p] > 4
      BY <1>1, <1>11
    <3>8. LiveSound(p)'
      BY <1>1, <1>2, <1>11, <3>2, <3>4, <3>5, <3>6, <3>7 DEF LiveSound, NumberIsFree
    <3> QED
      BY <1>6, <2>1, <3>1, <3>8
  <2> HIDE DEF done
  <2>2. Write(p, done, allowed)
    BY <1>11 DEF done
  <2> QED
    BY <1>5, <2>1, <2>2, WriteCases
<1>12. CASE WriteDocument(p)
  <2>1. at[p] = 4 /\ Write(p, With(p, <<"document", 0>>), NumberIsNew(p) /\ KeyIsNew(p))
        /\ nextTrans' = nextTrans
    BY <1>12, Places DEF WriteDocument
  <2>2. Written(Cur(p).kind, at[p] + 1) = Written(Cur(p).kind, at[p]) \cup {<<"document", 0>>}
    BY <2>1, WrittenSteps
  <2>3. ASSUME NumberIsNew(p), KeyIsNew(p), LiveSound(p)
        PROVE  tx[p].found = tx[p].own /\ NumberIsFree(p)
    <3>1. \A d \in booked : d.found # tx[p].found
      BY <2>3 DEF KeyIsNew
    <3>2. tx[p].found = tx[p].own
      BY <2>1, <2>3, <3>1 DEF LiveSound
    <3>3. NumberIsFree(p)
      BY <2>3 DEF NumberIsNew, NumberIsFree
    <3> QED
      BY <3>2, <3>3
  <2>4. (NumberIsNew(p) /\ KeyIsNew(p)) /\ LiveSound(p) =>
            tx[p].found = tx[p].own /\ NumberIsFree(p)
    BY <2>3
  <2>5. at[p] > 3
    BY <2>1
  <2> QED
    BY <1>11, <2>1, <2>2, <2>4, <2>5, Zenon
<1>13. CASE WriteLine(p)
  <2>1. at[p] = 5 /\ Write(p, With(p, <<"line", 0>>), LineRole(Cur(p).kind) \in Accounts)
        /\ nextTrans' = nextTrans
    BY <1>13, Places DEF WriteLine
  <2>2. Written(Cur(p).kind, at[p] + 1) = Written(Cur(p).kind, at[p]) \cup {<<"line", 0>>}
    BY <2>1, WrittenSteps
  <2>3. LiveSound(p) => tx[p].found = tx[p].own /\ NumberIsFree(p)
    BY <2>1 DEF LiveSound
  <2> QED
    BY <1>11, <2>1, <2>2, <2>3
<1>14. CASE WritePosting(p)
  <2> DEFINE entry == Entries(Cur(p).kind)[at[p] - 5]
  <2>1. at[p] \in 6..8 /\ Write(p, With(p, entry), entry[1] \in Accounts)
        /\ nextTrans' = nextTrans
    BY <1>14, Places DEF WritePosting
  <2>2. Written(Cur(p).kind, at[p] + 1) = Written(Cur(p).kind, at[p]) \cup {entry}
    BY <2>1, WrittenSteps
  <2>3. LiveSound(p) => tx[p].found = tx[p].own /\ NumberIsFree(p)
    BY <2>1 DEF LiveSound
  <2> HIDE DEF entry
  <2>4. at[p] > 3
    BY <2>1
  <2> QED
    BY <1>11, <2>1, <2>2, <2>3, <2>4
<1> QED
  BY <1>9, <1>10, <1>12, <1>13, <1>14 DEF RowStep

\* A transaction begins without rows.
LEMMA BeginTx ==
  ASSUME TypeOK, NEW p \in Procs, InPlace(p), BeginDocument(p)
  PROVE  TxSound(p)' /\ at'[p] = 2
<1>1. Busy(p) /\ Cur(p).kind # "contact" /\ at[p] = 1 /\ Advance(p)
  BY Places DEF BeginDocument
<1>2. plan'[p] = plan[p] /\ at'[p] = 2
  BY <1>1, Advanced
<1>3. pc' = pc /\ seeded' = seeded
  BY DEF BeginDocument
<1>4. Cur(p)' = Cur(p) /\ Writing(p)'
  BY <1>1, <1>2, <1>3 DEF Cur, Busy, Writing
<1>5. PICK c \in Parties(p) :
        tx' = [tx EXCEPT ![p] = [NoTx EXCEPT !.number = Cur(p).of, !.contact = c,
                                             !.newItem = Cur(p).of \notin items]]
  BY DEF BeginDocument
<1>6. tx \in [Procs -> TxType]
  BY DEF TypeOK
<1>7. tx'[p].number = Cur(p).of /\ tx'[p].contact = c /\ tx'[p].parts = {}
  BY <1>5, <1>6 DEF NoTx
<1>8. c \in seeded[p]
  BY DEF Parties
<1>9. LiveSound(p)'
  BY <1>2, <1>7, WrittenSteps DEF LiveSound
<1> QED
  BY <1>2, <1>3, <1>4, <1>7, <1>8, <1>9 DEF TxSound

\* No step leaves a transaction in an unsound state.
LEMMA TxStep ==
  ASSUME TypeOK, BooksSound, NEW p \in Procs, InPlace(p), TxSound(p),
         Start(p) \/ Step(p) \/ Crash(p)
  PROVE  TxSound(p)'
<1>1. CASE Quiet(p)
  <2>1. ~Writing(p)' /\ tx'[p] = NoTx
    BY <1>1, QuietTx
  <2> QED
    BY <2>1 DEF TxSound, Live
<1>2. CASE RowStep(p)
  BY <1>2, RowTx
<1>3. CASE BeginDocument(p)
  BY <1>3, BeginTx
<1> QED
  BY <1>1, <1>2, <1>3 DEF Step, ContactStep, RowStep, Quiet

-----------------------------------------------------------------------------
(* Executions beside each other, and the books. *)

\* Whoever has written the row of its document holds its number.
LEMMA DocumentHeld ==
  ASSUME NEW kind, NEW n \in Nat, n > 4
  PROVE  <<"document", 0>> \in Written(kind, n)
<1>1. 4 \in {i \in {2, 4, 5, 6, 7, 8} : i < n}
  OBVIOUS
<1>2. Row(kind, 4) = <<"document", 0>>
  BY DEF Row
<1> QED
  BY <1>1, <1>2 DEF Written

\* The header of a transaction is written once.
LEMMA RowOwn ==
  ASSUME TypeOK, NEW p \in Procs, InPlace(p), RowStep(p), at[p] > 2
  PROVE  tx'[p].own = tx[p].own
<1>1. tx \in [Procs -> TxType] /\ tx[p] \in TxType
  BY DEF TypeOK
<1>2. ASSUME NEW done, NEW allowed, Write(p, done, allowed), done.own = tx[p].own
      PROVE  tx'[p].own = tx[p].own
  <2>1. tx'[p] = done \/ tx'[p] = [tx[p] EXCEPT !.broken = TRUE]
    BY <1>1, <1>2, WriteCases
  <2> QED
    BY <1>1, <1>2, <2>1 DEF TxType
<1>3. \A part : With(p, part).own = tx[p].own
  BY <1>1 DEF With, TxType
<1>4. \A found : [tx[p] EXCEPT !.found = found].own = tx[p].own
  BY <1>1 DEF TxType
<1>5. ~WriteHead(p)
  <2>1. ~Runs(p, "head")
    BY Places
  <2> QED
    BY <2>1, Zenon DEF WriteHead
<1>6. CASE FindHead(p)
  <2>1. Write(p, [tx[p] EXCEPT !.found = Max({tx[p].own} \cup Heads(p))], TRUE)
    BY <1>6, Zenon DEF FindHead, Heads
  <2>2. [tx[p] EXCEPT !.found = Max({tx[p].own} \cup Heads(p))].own = tx[p].own
    BY <1>4
  <2> QED
    BY <1>2, <2>1, <2>2
<1>7. CASE WriteDocument(p) \/ WriteLine(p) \/ WritePosting(p)
  <2>1. PICK part, allowed : Write(p, With(p, part), allowed)
    BY <1>7, Zenon DEF WriteDocument, WriteLine, WritePosting
  <2> QED
    BY <1>2, <1>3, <2>1
<1> QED
  BY <1>5, <1>6, <1>7 DEF RowStep

\* A step of p keeps it apart from the others.
LEMMA ApartStep ==
  ASSUME TypeOK, BooksSound, NEW p \in Procs, InPlace(p), TxSound(p),
         Start(p) \/ Step(p) \/ Crash(p),
         NEW q \in Procs \ {p}, TxSound(q), Apart(p, q)
  PROVE  Apart(p, q)'
<1>1. /\ (Live(q)' <=> Live(q)) /\ Cur(q)' = Cur(q) /\ at'[q] = at[q] /\ tx'[q] = tx[q]
  BY AloneStep, Same
<1>2. CASE Quiet(p)
  BY <1>2, QuietTx DEF Apart, Live
<1>3. CASE BeginDocument(p)
  BY <1>3, BeginTx DEF Apart
<1>4. CASE RowStep(p)
  <2> SUFFICES ASSUME Live(p)', Live(q)' PROVE Apart(p, q)'
    BY DEF Apart
  <2>1. Live(p) /\ Live(q) /\ TxSound(p)' /\ LiveSound(p)' /\ LiveSound(q)
    BY <1>1, <1>4, RowTx DEF TxSound
  <2>2. /\ Busy(p) /\ at[p] \in 2..8 /\ plan'[p] = plan[p] /\ at'[p] = at[p] + 1
    BY <1>4, RowFacts
  <2>3. Cur(p)' = Cur(p)
    BY <2>2 DEF Cur
  <2>4. tx \in [Procs -> TxType] /\ tx[q].own \in Nat /\ at[q] \in 1..9
    BY DEF TypeOK, TxType
  <2>5. ASSUME at[q] > 2
        PROVE  tx'[p].own # tx[q].own
    <3>1. CASE WriteHead(p)
      <4> DEFINE done == [With(p, <<"head", 0>>) EXCEPT !.own = nextTrans]
      <4>1. Write(p, done, TRUE)
        BY <3>1, Zenon DEF WriteHead
      <4>2. done.own = nextTrans
        BY <2>4 DEF With, TxType
      <4> HIDE DEF done
      <4>3. tx'[p] = done \/ tx'[p].broken
        <5>1. tx' = [tx EXCEPT ![p] = done]
              \/ tx' = [tx EXCEPT ![p] = [tx[p] EXCEPT !.broken = TRUE]]
          BY <4>1, WriteCases, Zenon
        <5>2. tx[p] \in TxType
          BY <2>4
        <5> QED
          BY <2>4, <5>1, <5>2 DEF TxType
      <4>4. tx'[p].own = nextTrans
        BY <4>2, <4>3 DEF Live
      <4>5. tx[q].own < nextTrans /\ nextTrans \in Nat
        BY <2>1, <2>5 DEF LiveSound, TypeOK
      <4> QED
        BY <2>4, <4>4, <4>5
    <3>2. CASE ~WriteHead(p)
      <4>1. at[p] > 2
        <5>1. \E op \in {"find", "document", "line", "post"} : Runs(p, op)
          BY <1>4, <3>2, Zenon DEF RowStep, FindHead, WriteDocument, WriteLine, WritePosting
        <5>2. PICK op \in {"find", "document", "line", "post"} : Runs(p, op)
          BY <5>1
        <5> QED
          BY <5>2, Places
      <4>2. tx'[p].own = tx[p].own
        BY <1>4, <4>1, RowOwn
      <4> QED
        BY <2>1, <2>5, <4>1, <4>2 DEF Apart
    <3> QED
      BY <3>1, <3>2
  <2>6. ASSUME at'[p] > 4, at[q] > 4, Cur(p).kind = "ar", Cur(q).kind = "ar"
        PROVE  Cur(p).of # Cur(q).of
    <3>1. CASE at[p] > 4
      BY <2>1, <2>6, <3>1 DEF Apart
    <3>2. CASE at[p] = 4
      <4>1. WriteDocument(p)
        <5>1. CASE \E op \in {"head", "find", "line", "post"} : Runs(p, op)
          <6>1. PICK op \in {"head", "find", "line", "post"} : Runs(p, op)
            BY <5>1
          <6> QED
            BY <3>2, <6>1, Places
        <5> QED
          BY <1>4, <5>1, Zenon DEF RowStep, WriteHead, FindHead, WriteLine, WritePosting
      <4>2. ~(~tx[q].broken /\ Holds(q, <<"document", 0>>, Cur(p).of))
        BY <2>6, <4>1 DEF WriteDocument
      <4>3. <<"document", 0>> \in tx[q].parts /\ tx[q].number = Cur(q).of /\ ~tx[q].broken
        BY <2>1, <2>4, <2>6, DocumentHeld DEF LiveSound, TxSound, Live
      <4> QED
        BY <4>2, <4>3 DEF Holds
    <3> QED
      BY <2>2, <2>6, <3>1, <3>2
  <2> QED
    BY <1>1, <2>3, <2>5, <2>6 DEF Apart
<1> QED
  BY <1>2, <1>3, <1>4 DEF Step, ContactStep, RowStep, Quiet

\* What is committed is whole, and no invoice a second time.
LEMMA BooksStep ==
  ASSUME TypeOK, BooksSound, InvoicesOnce, NEW p \in Procs, InPlace(p), TxSound(p),
         Start(p) \/ Step(p) \/ Crash(p)
  PROVE  BooksSound' /\ InvoicesOnce'
<1>1. Alone(p)
  BY AloneStep
<1>2. nextTrans \in Nat /\ nextTrans' \in Nat /\ nextTrans <= nextTrans'
  BY <1>1 DEF Alone, TypeOK
<1>3. \A d \in booked : d.own \in Nat
  BY DEF TypeOK, DocumentType
<1>4. ASSUME NEW d \in booked' \ booked
      PROVE  /\ d = Document(p)
             /\ d.found = d.own /\ d.own < nextTrans' /\ d.parts = Written(d.kind, 9)
             /\ d.kind = "ar" => \A e \in booked : e.kind = "ar" => e.number # d.number
  <2>1. Live(p) /\ at[p] = 9 /\ d = Document(p)
    BY <1>1 DEF Alone
  <2>2. LiveSound(p)
    BY <2>1 DEF TxSound
  <2>3. /\ d.own = tx[p].own /\ d.found = tx[p].found /\ d.parts = tx[p].parts
        /\ d.kind = Cur(p).kind /\ d.number = Cur(p).of
    BY <2>1 DEF Document
  <2>4. tx[p].own \in Nat
    BY DEF TypeOK, TxType
  <2> QED
    BY <1>2, <2>1, <2>2, <2>3, <2>4 DEF LiveSound, NumberIsFree
<1>5. BooksSound'
  BY <1>2, <1>3, <1>4 DEF BooksSound
<1>6. InvoicesOnce'
  BY <1>4 DEF InvoicesOnce
<1> QED
  BY <1>5, <1>6

\* The inductive invariant holds from the start.
LEMMA InitIInv ==
  ASSUME Init
  PROVE  IInv
<1> USE DEF Init
<1>1. TypeOK
  <2>1. NoTx \in TxType
    BY DEF NoTx, TxType
  <2>2. Cardinality(links) <= locations
    BY FS_EmptySet
  <2>3. <<>> \in Seq(Items)
    BY EmptySeq
  <2>4. starts \in 0..MaxStarts
    BY TenantSeedAssumption
  <2>5. plan \in [Procs -> Seq(Items)]
    BY <2>3
  <2> QED
    BY <2>1, <2>2, <2>4, <2>5 DEF TypeOK
<1>2. LocationsSuffice
  <2>1. Holders = {} /\ links = {} /\ locations = 0
    BY DEF Holders
  <2>2. IsFiniteSet(Holders) /\ IsFiniteSet(links)
        /\ Cardinality(Holders) = 0 /\ Cardinality(links) = 0
    BY <2>1, FS_EmptySet
  <2> QED
    BY <2>1, <2>2 DEF LocationsSuffice, Holders
<1>3. \A p \in Procs : ~Busy(p)
  BY DEF Busy
<1>4. \A p \in Procs : InPlace(p) /\ Founded(p) /\ TxSound(p)
  BY <1>3 DEF InPlace, Founded, TxSound, Live, Writing
<1>5. \A p, q \in Procs : Apart(p, q)
  BY <1>3 DEF Apart, Live, Writing
<1> QED
  BY <1>1, <1>2, <1>4, <1>5 DEF IInv, BooksSound, InvoicesOnce

\* Every step keeps it.
LEMMA NextIInv ==
  ASSUME IInv, [Next]_vars
  PROVE  IInv'
<1>1. CASE Next
  <2>1. PICK p \in Procs : Start(p) \/ Step(p) \/ Crash(p)
    BY <1>1 DEF Next
  <2>2. /\ TypeOK /\ LocationsSuffice /\ BooksSound /\ InvoicesOnce
        /\ InPlace(p) /\ Founded(p) /\ TxSound(p)
    BY DEF IInv
  <2>3. LocationsSuffice'
    BY <2>1, <2>2, LocationsStep
  <2>4. TypeOK'
    BY <2>1, <2>2, <2>3, TypeStep
  <2>5. BooksSound' /\ InvoicesOnce'
    BY <2>1, <2>2, BooksStep
  <2>6. ASSUME NEW q \in Procs
        PROVE  InPlace(q)' /\ Founded(q)' /\ TxSound(q)'
    <3>1. InPlace(q) /\ Founded(q) /\ TxSound(q) /\ (q # p => Apart(p, q))
      BY DEF IInv
    <3>2. InPlace(q)'
      BY <2>1, <2>2, <3>1, PlaceStep
    <3>3. Founded(q)'
      BY <2>1, <2>2, <3>1, FoundedStep
    <3>4. TxSound(q)'
      BY <2>1, <2>2, <3>1, TxStep, OtherTx
    <3> QED
      BY <3>2, <3>3, <3>4
  <2>7. ASSUME NEW q \in Procs, NEW r \in Procs, q # r
        PROVE  Apart(q, r)'
    <3>1. \A s \in Procs \ {p} : Apart(p, s)'
      BY <2>1, <2>2, ApartStep DEF IInv
    <3>2. Apart(r, q)' => Apart(q, r)'
      BY DEF Apart
    <3>3. CASE q # p /\ r # p
      <4>1. /\ (Live(q)' <=> Live(q)) /\ Cur(q)' = Cur(q) /\ at'[q] = at[q] /\ tx'[q] = tx[q]
            /\ (Live(r)' <=> Live(r)) /\ Cur(r)' = Cur(r) /\ at'[r] = at[r] /\ tx'[r] = tx[r]
        BY <2>1, <2>2, <3>3, AloneStep, Same
      <4>2. Apart(q, r)
        BY <2>7 DEF IInv
      <4> QED
        BY <4>1, <4>2 DEF Apart
    <3> QED
      BY <2>7, <3>1, <3>2, <3>3
  <2> QED
    BY <2>3, <2>4, <2>5, <2>6, <2>7 DEF IInv
<1>2. CASE UNCHANGED vars
  <2>1. UNCHANGED <<entities, companies, ecas, channels, locations, links, items, nextTrans,
                    booked, pc, plan, at, seeded, located, tx, exit, starts>>
    BY <1>2 DEF vars, contactVars, bookVars
  <2> QED
    BY <2>1 DEF IInv, TypeOK, LocationsSuffice, Holders, BooksSound, InvoicesOnce, InPlace,
                Founded, TxSound, LiveSound, NumberIsFree, Apart, Live, Writing, Busy, Cur
<1> QED
  BY <1>1, <1>2

\* The inductive invariant is one: executions stay apart, and what each of them
\* has open is what it has written so far (seedTenantInvoice, seedTenantBill).
THEOREM Invariance == Spec => []IInv
<1>1. Init => IInv
  BY InitIInv
<1>2. IInv /\ [Next]_vars => IInv'
  BY NextIInv
<1> QED
  BY <1>1, <1>2, PTL DEF Spec

\* Every variable keeps its type, and the foreign keys of the tenant's schema
\* hold: a link has its location, a document its open item and its contact.
THEOREM TypeCorrect == Spec => []TypeOK
<1>1. IInv => TypeOK
  BY DEF IInv
<1> QED
  BY <1>1, Invariance, PTL

\* No invoice number is booked twice, however many executions overlap, are
\* stopped or lose statements.
THEOREM NoInvoiceTwice == Spec => []InvoicesOnce
<1>1. IInv => InvoicesOnce
  BY DEF IInv
<1> QED
  BY <1>1, Invariance, PTL

\* All rows of a document: its header, its row in ar or ap, its line, and three
\* postings that balance.
LEMMA WholeRows ==
  ASSUME NEW kind \in {"ar", "ap"}
  PROVE  \E x, y, z \in Part :
            /\ Written(kind, 9) = {<<"head", 0>>, <<"document", 0>>, <<"line", 0>>, x, y, z}
            /\ x[1] \notin Rows /\ y[1] \notin Rows /\ z[1] \notin Rows
            /\ x # y /\ y # z /\ x # z
            /\ x[2] + y[2] + z[2] = 0
<1> DEFINE x == Entries(kind)[1]
           y == Entries(kind)[2]
           z == Entries(kind)[3]
<1>1. x \in Part /\ y \in Part /\ z \in Part
  <2>1. Entries(kind)[6 - 5] \in Part /\ Entries(kind)[7 - 5] \in Part
        /\ Entries(kind)[8 - 5] \in Part
    BY EntriesAreParts
  <2> QED
    BY <2>1
<1>2. /\ Written(kind, 7) = Written(kind, 6) \cup {x}
      /\ Written(kind, 8) = Written(kind, 7) \cup {y}
      /\ Written(kind, 9) = Written(kind, 8) \cup {z}
  <2>1. \A k \in 6..8 : Written(kind, k + 1) = Written(kind, k) \cup {Entries(kind)[k - 5]}
    BY WrittenSteps
  <2>2. /\ Written(kind, 6 + 1) = Written(kind, 6) \cup {Entries(kind)[6 - 5]}
        /\ Written(kind, 7 + 1) = Written(kind, 7) \cup {Entries(kind)[7 - 5]}
        /\ Written(kind, 8 + 1) = Written(kind, 8) \cup {Entries(kind)[8 - 5]}
    BY <2>1
  <2> QED
    BY <2>2
<1>3. Written(kind, 6) = {<<"head", 0>>, <<"document", 0>>, <<"line", 0>>}
  BY WrittenSteps
<1>4. CASE kind = "ar"
  <2>1. x = <<"ar", Gross>> /\ y = <<"revenue", -Net>> /\ z = <<"gstCollected", -Gst>>
    BY <1>4 DEF Entries
  <2>2. /\ x[1] \notin Rows /\ y[1] \notin Rows /\ z[1] \notin Rows
        /\ x # y /\ y # z /\ x # z
    BY <2>1 DEF Rows
  <2>3. x[2] + y[2] + z[2] = 0
    BY <2>1 DEF Gross, Net, Gst
  <2> HIDE DEF x, y, z
  <2> QED
    BY <1>1, <1>2, <1>3, <2>2, <2>3
<1>5. CASE kind = "ap"
  <2>1. x = <<"ap", -Gross>> /\ y = <<"expense", Net>> /\ z = <<"gstPaid", Gst>>
    BY <1>5 DEF Entries
  <2>2. /\ x[1] \notin Rows /\ y[1] \notin Rows /\ z[1] \notin Rows
        /\ x # y /\ y # z /\ x # z
    BY <2>1 DEF Rows
  <2>3. x[2] + y[2] + z[2] = 0
    BY <2>1 DEF Gross, Net, Gst
  <2> HIDE DEF x, y, z
  <2> QED
    BY <1>1, <1>2, <1>3, <2>2, <2>3
<1> QED
  BY <1>4, <1>5

\* Every document in the books is whole and balances, although no statement of
\* its transaction is looked at and its header is found again by a reference
\* that other executions use as well.
THEOREM DocumentsWhole == Spec => []DocumentsAreWhole
<1>1. ASSUME IInv PROVE DocumentsAreWhole
  <2> SUFFICES ASSUME NEW d \in booked
               PROVE  /\ d.found = d.own
                      /\ Rows \subseteq {r[1] : r \in d.parts}
                      /\ \E x, y, z \in d.parts : /\ Postings(d) = {x, y, z}
                                                  /\ x # y /\ y # z /\ x # z
                                                  /\ x[2] + y[2] + z[2] = 0
    BY DEF DocumentsAreWhole
  <2>1. d.found = d.own /\ d.parts = Written(d.kind, 9)
    BY <1>1 DEF IInv, BooksSound
  <2>2. d.kind \in {"ar", "ap"}
    BY <1>1 DEF IInv, TypeOK, DocumentType
  <2>3. PICK x, y, z \in Part :
            /\ d.parts = {<<"head", 0>>, <<"document", 0>>, <<"line", 0>>, x, y, z}
            /\ x[1] \notin Rows /\ y[1] \notin Rows /\ z[1] \notin Rows
            /\ x # y /\ y # z /\ x # z
            /\ x[2] + y[2] + z[2] = 0
    BY <2>1, <2>2, WholeRows
  <2>4. Rows \subseteq {r[1] : r \in d.parts}
    <3>1. <<"head", 0>>[1] = "head" /\ <<"document", 0>>[1] = "document"
          /\ <<"line", 0>>[1] = "line"
      OBVIOUS
    <3> QED
      BY <2>3, <3>1 DEF Rows
  <2>5. Postings(d) = {x, y, z}
    <3>1. /\ <<"head", 0>>[1] \in Rows /\ <<"document", 0>>[1] \in Rows
          /\ <<"line", 0>>[1] \in Rows
      BY DEF Rows
    <3> QED
      BY <2>3, <3>1 DEF Postings
  <2> QED
    BY <2>1, <2>3, <2>4, <2>5
<1> QED
  BY <1>1, Invariance, PTL

-----------------------------------------------------------------------------
(* Status 0. *)

\* What is no longer in the plan was at hand.
LEMMA TailSet ==
  ASSUME NEW S, NEW s \in Seq(S), s # <<>>
  PROVE  \A x \in ToSet(s) : x = Head(s) \/ x \in ToSet(Tail(s))
<1> SUFFICES ASSUME NEW i \in DOMAIN s, i # 1 PROVE s[i] \in ToSet(Tail(s))
  BY DEF ToSet
<1>1. /\ Len(Tail(s)) = Len(s) - 1 /\ \A j \in 1..Len(Tail(s)) : Tail(s)[j] = s[j + 1]
      /\ Len(s) \in Nat /\ i \in 1..Len(s) /\ DOMAIN Tail(s) = 1..Len(Tail(s))
  BY HeadTailProperties
<1>2. i - 1 \in 1..Len(Tail(s)) /\ (i - 1) + 1 = i
  BY <1>1
<1>3. s[i] = Tail(s)[i - 1] /\ i - 1 \in DOMAIN Tail(s)
  BY <1>1, <1>2
<1> QED
  BY <1>3 DEF ToSet

\* What another execution does loses nothing.
LEMMA OtherProgress ==
  ASSUME NEW p \in Procs, Alone(p), NEW q \in Procs \ {p}, Progress(q)
  PROVE  Progress(q)'
<1>1. /\ (Busy(q)' <=> Busy(q)) /\ (Writing(q)' <=> Writing(q))
      /\ Cur(q)' = Cur(q) /\ at'[q] = at[q] /\ tx'[q] = tx[q]
  BY Same
<1>2. /\ pc'[q] = pc[q] /\ plan'[q] = plan[q] /\ seeded'[q] = seeded[q] /\ located'[q] = located[q]
      /\ entities \subseteq entities' /\ companies \subseteq companies'
      /\ ecas \subseteq ecas' /\ channels \subseteq channels' /\ links \subseteq links'
      /\ booked \subseteq booked'
  BY DEF Alone
<1>3. \A c : Complete(c) => Complete(c)'
  BY <1>2 DEF Complete
<1>4. \A n : Booked(n) => Booked(n)'
  BY <1>2 DEF Booked
<1> SUFFICES ASSUME pc[q] = "run" PROVE Progress(q)'
  BY <1>2 DEF Progress
<1>5. NothingLost(q)'
  BY <1>2, <1>3, <1>4 DEF Progress, NothingLost
<1>6. ContactsFirst(q)'
  BY <1>2 DEF Progress, ContactsFirst
<1>7. HalfDone(q)'
  BY <1>1, <1>2 DEF Progress, HalfDone
<1>8. Writing(q)' /\ tx'[q].broken => Booked(Cur(q).of)'
  BY <1>1, <1>4 DEF Progress
<1> QED
  BY <1>5, <1>6, <1>7, <1>8 DEF Progress

\* The contact or document at hand may go when it is there.
LEMMA DropProgress ==
  ASSUME TypeOK, NEW p \in Procs, InPlace(p), Alone(p), Busy(p), Progress(p),
         plan'[p] = Tail(plan[p]), at'[p] = 1, seeded[p] \subseteq seeded'[p],
         NEW x \in Items, x = Cur(p),
         x.kind = "contact" => Complete(x.of)' /\ x.of \in seeded'[p],
         x.kind # "contact" => Booked(x.of)'
  PROVE  Progress(p)'
<1>1. /\ entities \subseteq entities' /\ companies \subseteq companies'
      /\ ecas \subseteq ecas' /\ channels \subseteq channels' /\ links \subseteq links'
      /\ booked \subseteq booked'
  BY DEF Alone
<1>2. \A c : Complete(c) => Complete(c)'
  BY <1>1 DEF Complete
<1>3. \A n : Booked(n) => Booked(n)'
  BY <1>1 DEF Booked
<1>4. plan[p] \in Seq(Items) /\ plan[p] # <<>>
  BY DEF TypeOK, Busy
<1>5. \A y \in ToSet(plan[p]) : y = x \/ y \in ToSet(plan'[p])
  BY <1>4, TailSet DEF Cur
<1>6. NothingLost(p) /\ ContactsFirst(p)
  BY DEF Progress, Busy
<1>7. NothingLost(p)'
  <2>1. ASSUME NEW c \in Contacts
        PROVE  seedTenantContact(c) \in ToSet(plan'[p]) \/ (Complete(c)' /\ c \in seeded'[p])
    <3>1. CASE seedTenantContact(c) = x
      BY <3>1 DEF seedTenantContact
    <3> QED
      BY <1>2, <1>5, <1>6, <3>1 DEF NothingLost
  <2>2. ASSUME NEW n \in ToSet(Invoices)
        PROVE  seedTenantInvoice(n) \in ToSet(plan'[p]) \/ Booked(n)'
    <3>1. CASE seedTenantInvoice(n) = x
      BY <3>1 DEF seedTenantInvoice
    <3> QED
      BY <1>3, <1>5, <1>6, <3>1 DEF NothingLost
  <2>3. ASSUME NEW b \in ToSet(Bills)
        PROVE  seedTenantBill(b) \in ToSet(plan'[p]) \/ Booked(b.number)'
    <3>1. CASE seedTenantBill(b) = x
      BY <3>1 DEF seedTenantBill
    <3> QED
      BY <1>3, <1>5, <1>6, <3>1 DEF NothingLost
  <2> QED
    BY <2>1, <2>2, <2>3 DEF NothingLost
<1>8. ContactsFirst(p)'
  <2>1. /\ Len(plan'[p]) = Len(plan[p]) - 1 /\ DOMAIN plan'[p] = 1..Len(plan'[p])
        /\ \A j \in 1..Len(plan'[p]) : plan'[p][j] = plan[p][j + 1]
        /\ Len(plan[p]) \in Nat /\ DOMAIN plan[p] = 1..Len(plan[p])
    BY <1>4, HeadTailProperties
  <2>2. ASSUME NEW i \in DOMAIN plan'[p], NEW j \in DOMAIN plan'[p],
               i < j, plan'[p][j].kind = "contact"
        PROVE  plan'[p][i].kind = "contact"
    <3>1. i + 1 \in DOMAIN plan[p] /\ j + 1 \in DOMAIN plan[p] /\ i + 1 < j + 1
      BY <2>1, <2>2
    <3> QED
      BY <1>6, <2>1, <2>2, <3>1 DEF ContactsFirst, InOrder
  <2> QED
    BY <2>2 DEF ContactsFirst, InOrder
<1>9. HalfDone(p)'
  BY DEF HalfDone
<1>10. ~Writing(p)'
  BY DEF Writing
<1> QED
  BY <1>7, <1>8, <1>9, <1>10 DEF Progress

\* The contact or document at hand may stay, with its next statement.
LEMMA StayProgress ==
  ASSUME NEW p \in Procs, Alone(p), Busy(p), Progress(p),
         plan'[p] = plan[p], seeded[p] \subseteq seeded'[p], HalfDone(p)',
         Writing(p)' /\ tx'[p].broken => Booked(Cur(p).of)'
  PROVE  Progress(p)'
<1>1. /\ entities \subseteq entities' /\ companies \subseteq companies'
      /\ ecas \subseteq ecas' /\ channels \subseteq channels' /\ links \subseteq links'
      /\ booked \subseteq booked'
  BY DEF Alone
<1>2. \A c : Complete(c) => Complete(c)'
  BY <1>1 DEF Complete
<1>3. \A n : Booked(n) => Booked(n)'
  BY <1>1 DEF Booked
<1>4. NothingLost(p) /\ ContactsFirst(p)
  BY DEF Progress, Busy
<1>5. NothingLost(p)'
  BY <1>2, <1>3, <1>4 DEF NothingLost
<1>6. ContactsFirst(p)'
  BY <1>4 DEF ContactsFirst
<1> QED
  BY <1>5, <1>6 DEF Progress

\* Concatenations: their elements, and their order when only the first has contacts.
LEMMA Concatenated ==
  ASSUME NEW s \in Seq(Items), NEW t \in Seq(Items)
  PROVE  /\ s \o t \in Seq(Items)
         /\ \A x : x \in ToSet(s \o t) <=> x \in ToSet(s) \/ x \in ToSet(t)
         /\ InOrder(s) /\ (\A x \in ToSet(t) : x.kind # "contact") => InOrder(s \o t)
<1>1. /\ s \o t \in Seq(Items) /\ Len(s \o t) = Len(s) + Len(t)
      /\ Len(s) \in Nat /\ Len(t) \in Nat
      /\ \A i \in 1..(Len(s) + Len(t)) :
            (s \o t)[i] = IF i <= Len(s) THEN s[i] ELSE t[i - Len(s)]
  BY ConcatProperties
<1>2. /\ DOMAIN s = 1..Len(s) /\ DOMAIN t = 1..Len(t)
      /\ DOMAIN (s \o t) = 1..(Len(s) + Len(t))
  BY <1>1
<1>3. \A i \in DOMAIN s : i \in DOMAIN (s \o t) /\ (s \o t)[i] = s[i]
  BY <1>1, <1>2
<1>4. \A i \in DOMAIN t : Len(s) + i \in DOMAIN (s \o t) /\ (s \o t)[Len(s) + i] = t[i]
  <2> SUFFICES ASSUME NEW i \in 1..Len(t)
               PROVE  Len(s) + i \in DOMAIN (s \o t) /\ (s \o t)[Len(s) + i] = t[i]
    BY <1>2
  <2>1. Len(s) + i \in 1..(Len(s) + Len(t)) /\ ~(Len(s) + i <= Len(s))
        /\ (Len(s) + i) - Len(s) = i
    BY <1>1
  <2> QED
    BY <1>1, <1>2, <2>1
<1>5. \A i \in DOMAIN (s \o t) :
         \/ i \in DOMAIN s /\ (s \o t)[i] = s[i]
         \/ /\ i > Len(s) /\ i - Len(s) \in DOMAIN t
            /\ (s \o t)[i] = t[i - Len(s)]
  BY <1>1, <1>2
<1>6. ASSUME NEW x
      PROVE  x \in ToSet(s \o t) <=> x \in ToSet(s) \/ x \in ToSet(t)
  <2>1. ASSUME NEW i \in DOMAIN (s \o t), x = (s \o t)[i]
        PROVE  x \in ToSet(s) \/ x \in ToSet(t)
    BY <1>5, <2>1 DEF ToSet
  <2>2. ASSUME NEW i \in DOMAIN s, x = s[i] PROVE x \in ToSet(s \o t)
    BY <1>3, <2>2 DEF ToSet
  <2>3. ASSUME NEW i \in DOMAIN t, x = t[i] PROVE x \in ToSet(s \o t)
    BY <1>4, <2>3 DEF ToSet
  <2>4. ASSUME NEW u, x \in ToSet(u) PROVE \E i \in DOMAIN u : x = u[i]
    BY <2>4 DEF ToSet
  <2> QED
    BY <2>1, <2>2, <2>3, <2>4
<1>7. ASSUME InOrder(s), \A x \in ToSet(t) : x.kind # "contact",
             NEW i \in DOMAIN (s \o t), NEW j \in DOMAIN (s \o t),
             i < j, (s \o t)[j].kind = "contact"
      PROVE  (s \o t)[i].kind = "contact"
  <2>1. \A k \in DOMAIN t : t[k] \in ToSet(t)
    BY DEF ToSet
  <2>2. j \in DOMAIN s /\ (s \o t)[j] = s[j]
    BY <1>5, <1>7, <2>1
  <2>3. i \in DOMAIN s /\ (s \o t)[i] = s[i]
    BY <1>1, <1>2, <1>3, <1>7, <2>2
  <2> QED
    BY <1>7, <2>2, <2>3 DEF InOrder
<1> QED
  BY <1>1, <1>6, <1>7 DEF InOrder

\* A plan that is made names every contact and document, contacts first.
LEMMA PlanIsWhole ==
  /\ \A c \in Contacts : seedTenantContact(c) \in ToSet(seedTenant)
  /\ \A n \in ToSet(Invoices) : seedTenantInvoice(n) \in ToSet(seedTenant)
  /\ \A b \in ToSet(Bills) : seedTenantBill(b) \in ToSet(seedTenant)
  /\ InOrder(seedTenant)
<1> DEFINE cs == Each(seedTenantContact, Customers)
           vs == Each(seedTenantContact, Vendors)
           ns == Each(seedTenantInvoice, Invoices)
           bs == Each(seedTenantBill, Bills)
<1>1. cs \in Seq(Items) /\ vs \in Seq(Items) /\ ns \in Seq(Items) /\ bs \in Seq(Items)
  BY PlanIsOfItems
<1>2. \A c \in ToSet(Customers) : seedTenantContact(c) \in ToSet(cs)
  BY DEF ToSet, Each
<1>3. \A c \in ToSet(Vendors) : seedTenantContact(c) \in ToSet(vs)
  BY DEF ToSet, Each
<1>4. \A n \in ToSet(Invoices) : seedTenantInvoice(n) \in ToSet(ns)
  BY DEF ToSet, Each
<1>5. \A b \in ToSet(Bills) : seedTenantBill(b) \in ToSet(bs)
  BY DEF ToSet, Each
<1>6. \A x \in ToSet(cs) \cup ToSet(vs) : x.kind = "contact"
  BY DEF ToSet, Each, seedTenantContact
<1>7. \A x \in ToSet(ns) \cup ToSet(bs) : x.kind # "contact"
  BY DEF ToSet, Each, seedTenantInvoice, seedTenantBill
<1>8. seedTenant = ((cs \o vs) \o ns) \o bs
  BY DEF seedTenant
<1> HIDE DEF cs, vs, ns, bs
<1>9. /\ cs \o vs \in Seq(Items)
      /\ \A x : x \in ToSet(cs \o vs) <=> x \in ToSet(cs) \/ x \in ToSet(vs)
  BY <1>1, Concatenated
<1>10. /\ (cs \o vs) \o ns \in Seq(Items)
       /\ \A x : x \in ToSet((cs \o vs) \o ns) <=> x \in ToSet(cs \o vs) \/ x \in ToSet(ns)
  BY <1>1, <1>9, Concatenated
<1>11. \A x : x \in ToSet(seedTenant) <=> x \in ToSet((cs \o vs) \o ns) \/ x \in ToSet(bs)
  BY <1>1, <1>8, <1>10, Concatenated
<1>12. InOrder(cs \o vs)
  <2>1. \A i \in DOMAIN (cs \o vs) : (cs \o vs)[i] \in ToSet(cs \o vs)
    BY DEF ToSet
  <2> QED
    BY <1>6, <1>9, <2>1 DEF InOrder
<1>13. InOrder((cs \o vs) \o ns)
  BY <1>1, <1>7, <1>9, <1>12, Concatenated
<1>14. InOrder(seedTenant)
  BY <1>1, <1>7, <1>8, <1>10, <1>13, Concatenated
<1> QED
  BY <1>2, <1>3, <1>4, <1>5, <1>9, <1>10, <1>11, <1>14 DEF Contacts

\* A contact's statements lose nothing when none of them fails.
LEMMA ContactProgress ==
  ASSUME TypeOK, Prepared, NEW p \in Procs \ Shaky, InPlace(p), Founded(p), TxSound(p),
         Alone(p), ContactStep(p), Progress(p)
  PROVE  Progress(p)'
<1>1. /\ Busy(p) /\ Cur(p).kind = "contact" /\ Moves(p)
      /\ UNCHANGED <<bookVars, pc, tx, exit, starts>>
      /\ Cur(p) \in Items
  BY ContactFacts, AtHand
<1>2. Outcomes(p) = {TRUE}
  BY DEF Outcomes
<1>3. HalfDone(p)
  BY <1>1 DEF Progress, Busy
<1>4. /\ companies \subseteq companies' /\ channels \subseteq channels'
      /\ entities \subseteq entities' /\ ecas \subseteq ecas' /\ links \subseteq links'
  BY DEF Alone
<1>5. seeded \in [Procs -> SUBSET ecas] /\ located \in [Procs -> BOOLEAN] /\ at \in [Procs -> 1..9]
  BY DEF TypeOK
<1>6. ASSUME Advance(p), at[p] < 6, seeded[p] \subseteq seeded'[p],
             at[p] = 2 => Cur(p).of \in companies',
             at[p] = 4 => Cur(p).of \in channels',
             at[p] = 5 => located'[p]
      PROVE  Progress(p)'
  <2>1. plan'[p] = plan[p] /\ at'[p] = at[p] + 1
    BY <1>1, <1>6, Advanced
  <2>2. Cur(p)' = Cur(p)
    BY <2>1 DEF Cur
  <2>3. at[p] \in Nat
    BY <1>5
  <2>4. HalfDone(p)'
    BY <1>1, <1>3, <1>4, <1>6, <2>1, <2>2, <2>3 DEF HalfDone
  <2>5. ~Writing(p)'
    BY <1>1, <2>2 DEF Writing
  <2> QED
    BY <1>1, <1>6, <2>1, <2>4, <2>5, StayProgress
<1>7. CASE InsertEntity(p)
  <2>1. at[p] = 1 /\ Advance(p) /\ seeded' = seeded
    BY <1>2, <1>7, Places DEF InsertEntity
  <2> QED
    BY <1>6, <2>1
<1>8. CASE InsertCompany(p)
  <2>1. at[p] = 2 /\ Advance(p) /\ seeded' = seeded /\ Cur(p).of \in companies'
    BY <1>2, <1>8, Places DEF InsertCompany
  <2> QED
    BY <1>6, <2>1
<1>9. CASE InsertAccount(p)
  <2>1. at[p] = 3
    BY <1>9, Places DEF InsertAccount
  <2>2. Cur(p).of \in ecas'
    BY <1>2, <1>9 DEF InsertAccount
  <2>3. Advance(p) /\ seeded' = [seeded EXCEPT ![p] = @ \cup {Cur(p).of}]
    BY <1>2, <1>9, <2>2 DEF InsertAccount
  <2>4. seeded[p] \subseteq seeded'[p]
    BY <1>5, <2>3
  <2> QED
    BY <1>6, <2>1, <2>3, <2>4
<1>10. CASE InsertChannels(p)
  <2>1. at[p] = 4 /\ Advance(p) /\ seeded' = seeded /\ Cur(p).of \in channels'
    BY <1>2, <1>10, Places DEF InsertChannels
  <2> QED
    BY <1>6, <2>1
<1>11. CASE InsertLocation(p)
  <2>1. at[p] = 5 /\ Advance(p) /\ seeded' = seeded
    BY <1>11, Places DEF InsertLocation
  <2>2. located' = [located EXCEPT ![p] = TRUE]
    BY <1>2, <1>11 DEF InsertLocation
  <2> QED
    BY <1>5, <1>6, <2>1, <2>2
<1>12. CASE LinkLocation(p)
  <2> DEFINE x == Cur(p)
  <2>1. at[p] = 6 /\ Advance(p) /\ seeded' = seeded
    BY <1>12, Places DEF LinkLocation
  <2>2. plan'[p] = Tail(plan[p]) /\ at'[p] = 1
    BY <1>1, <2>1, Advanced
  <2>3. /\ x.of \in entities /\ x.of \in companies /\ x.of \in ecas /\ x.of \in channels
        /\ x.of \in seeded[p] /\ located[p]
    BY <1>1, <1>3, <2>1 DEF Founded, HalfDone
  <2>4. x.of \in links'
    BY <1>2, <1>12, <2>3 DEF LinkLocation, Prepared
  <2>5. PICK y \in Items : y = Cur(p)
    BY <1>1
  <2>6. /\ y.of \in entities' /\ y.of \in companies' /\ y.of \in ecas'
        /\ y.of \in channels' /\ y.of \in links' /\ y.of \in seeded'[p]
    BY <1>4, <2>1, <2>3, <2>4, <2>5
  <2>7. Complete(y.of)'
    BY <2>6 DEF Complete
  <2>8. y.kind = "contact"
    BY <1>1, <2>5
  <2> QED
    BY <1>1, <2>1, <2>2, <2>5, <2>6, <2>7, <2>8, DropProgress
<1> QED
  BY <1>7, <1>8, <1>9, <1>10, <1>11, <1>12 DEF ContactStep

\* When the first document is at hand, every contact is seeded: each document
\* has somebody to go to.
LEMMA PartiesAreThere ==
  ASSUME TypeOK, Prepared, NEW p \in Procs, InPlace(p), Busy(p), Progress(p),
         Cur(p).kind # "contact"
  PROVE  Parties(p) # {}
<1>1. plan[p] \in Seq(Items) /\ plan[p] # <<>> /\ NothingLost(p) /\ ContactsFirst(p)
  BY DEF TypeOK, Busy, Progress
<1>2. 1 \in DOMAIN plan[p] /\ plan[p][1] = Cur(p) /\ DOMAIN plan[p] \subseteq Nat \ {0}
  <2>1. Len(plan[p]) \in Nat /\ Len(plan[p]) # 0 /\ DOMAIN plan[p] = 1..Len(plan[p])
    BY <1>1, EmptySeq
  <2> QED
    BY <1>1, <2>1, HeadTailProperties DEF Cur
<1>3. \A c \in Contacts : c \in seeded[p]
  <2> SUFFICES ASSUME NEW c \in Contacts, seedTenantContact(c) \in ToSet(plan[p]) PROVE FALSE
    BY <1>1 DEF NothingLost
  <2>1. PICK j \in DOMAIN plan[p] : plan[p][j].kind = "contact"
    BY DEF ToSet, seedTenantContact
  <2>2. j = 1 \/ 1 < j
    BY <1>2
  <2> QED
    BY <1>1, <1>2, <2>1, <2>2 DEF ContactsFirst, InOrder
<1>4. Cur(p) \in Items
  BY AtHand
<1>5. CASE Cur(p).kind = "ar"
  <2>1. Cur(p).of \in ToSet(Invoices)
    BY <1>4, <1>5, ItemKinds
  <2>2. PICK c \in ToSet(Customers) : TRUE
    BY <2>1 DEF Prepared
  <2>3. c \in seeded[p]
    BY <1>3 DEF Contacts
  <2> QED
    BY <1>5, <2>3 DEF Parties
<1>6. CASE Cur(p).kind # "ar"
  <2>1. Cur(p).kind = "ap"
    BY <1>4, <1>6, ItemKinds
  <2>2. PICK b \in ToSet(Bills) : Cur(p) = seedTenantBill(b)
    BY <1>4, <2>1, ItemKinds
  <2>3. Cur(p).vendor \in ToSet(Vendors)
    BY <2>2 DEF Prepared, seedTenantBill
  <2>4. Cur(p).vendor \in seeded[p]
    BY <1>3, <2>3 DEF Contacts
  <2> QED
    BY <1>6, <2>4 DEF Parties
<1> QED
  BY <1>5, <1>6

\* A row is refused only when its document is booked.
LEMMA RowProgress ==
  ASSUME TypeOK, BooksSound, Prepared, NEW p \in Procs \ Shaky, InPlace(p), TxSound(p),
         Alone(p), RowStep(p), Progress(p)
  PROVE  Progress(p)'
<1>1. /\ Busy(p) /\ Cur(p).kind # "contact" /\ at[p] \in 2..8
      /\ plan'[p] = plan[p] /\ at'[p] = at[p] + 1
      /\ UNCHANGED <<contactVars, items, booked, pc, seeded, located, exit, starts>>
  BY RowFacts
<1>2. Cur(p)' = Cur(p) /\ Writing(p) /\ seeded[p] \subseteq seeded'[p]
  BY <1>1 DEF Cur, Writing
<1>3. HalfDone(p)'
  BY <1>1, <1>2 DEF HalfDone
<1>4. tx \in [Procs -> TxType] /\ tx[p] \in TxType
  BY DEF TypeOK
<1>5. tx[p].broken => Booked(Cur(p).of)
  BY <1>1, <1>2 DEF Progress, Busy
<1>6. ~tx[p].broken => LiveSound(p)
  BY <1>2 DEF TxSound, Live
<1>7. ASSUME NEW done, NEW allowed, Write(p, done, allowed), ~tx[p].broken,
             allowed, ~tx[p].broken => ~done.broken
      PROVE  ~tx'[p].broken
  BY <1>4, <1>7 DEF Write, Outcomes
<1>8. \A part : ~tx[p].broken => ~With(p, part).broken
  BY <1>4 DEF With, TxType
<1>9. ASSUME tx'[p].broken
      PROVE  Booked(Cur(p).of)
  <2> SUFFICES ASSUME ~tx[p].broken PROVE Booked(Cur(p).of)
    BY <1>5
  <2>1. CASE WriteHead(p)
    <3> DEFINE done == [With(p, <<"head", 0>>) EXCEPT !.own = nextTrans]
    <3>1. Write(p, done, TRUE)
      BY <2>1, Zenon DEF WriteHead
    <3>2. ~done.broken
      BY <1>4 DEF With, TxType
    <3> HIDE DEF done
    <3> QED
      BY <1>7, <1>9, <3>1, <3>2, Zenon
  <2>2. CASE FindHead(p)
    <3> DEFINE done == [tx[p] EXCEPT !.found = Max({tx[p].own} \cup Heads(p))]
    <3>1. Write(p, done, TRUE)
      BY <2>2, Zenon DEF FindHead, Heads
    <3>2. ~done.broken
      BY <1>4 DEF TxType
    <3> HIDE DEF done
    <3> QED
      BY <1>7, <1>9, <3>1, <3>2, Zenon
  <2>3. CASE WriteDocument(p)
    <3>1. Runs(p, "document")
          /\ Write(p, With(p, <<"document", 0>>), NumberIsNew(p) /\ KeyIsNew(p))
      BY <2>3, Zenon DEF WriteDocument
    <3>2. ~(NumberIsNew(p) /\ KeyIsNew(p))
      BY <1>7, <1>8, <1>9, <3>1, Zenon
    <3>3. CASE ~NumberIsNew(p)
      BY <3>3 DEF NumberIsNew, Booked
    <3>4. CASE ~KeyIsNew(p)
      <4>1. PICK e \in booked : e.found = tx[p].found
        BY <3>4 DEF KeyIsNew
      <4>2. e.own = e.found /\ at[p] = 4 /\ LiveSound(p)
        BY <1>6, <3>1, Places DEF BooksSound
      <4>3. e.own # tx[p].own
        BY <4>2 DEF LiveSound
      <4>4. tx[p].found # tx[p].own
        BY <4>1, <4>2, <4>3
      <4> QED
        BY <4>2, <4>4 DEF LiveSound, Booked
    <3> QED
      BY <3>2, <3>3, <3>4
  <2>4. CASE WriteLine(p)
    <3>1. Write(p, With(p, <<"line", 0>>), LineRole(Cur(p).kind) \in Accounts)
      BY <2>4, Zenon DEF WriteLine
    <3>2. LineRole(Cur(p).kind) \in Accounts
      BY DEF Prepared, Roles, LineRole
    <3> QED
      BY <1>7, <1>8, <1>9, <3>1, <3>2, Zenon
  <2>5. CASE WritePosting(p)
    <3> DEFINE entry == Entries(Cur(p).kind)[at[p] - 5]
    <3>1. Runs(p, "post") /\ Write(p, With(p, entry), entry[1] \in Accounts)
      BY <2>5, Zenon DEF WritePosting
    <3>2. at[p] - 5 \in 1..3
      BY <3>1, Places
    <3>3. entry[1] \in Accounts
      BY <3>2 DEF Prepared, Roles, Entries
    <3> HIDE DEF entry
    <3> QED
      BY <1>7, <1>8, <1>9, <3>1, <3>3, Zenon
  <2> QED
    BY <2>1, <2>2, <2>3, <2>4, <2>5 DEF RowStep
<1>10. Booked(Cur(p).of) => Booked(Cur(p).of)'
  BY <1>1, <1>2 DEF Booked
<1> QED
  BY <1>1, <1>2, <1>3, <1>9, <1>10, StayProgress

\* No step of an execution that loses no statement loses anything.
LEMMA OwnProgress ==
  ASSUME TypeOK, BooksSound, Prepared, NEW p \in Procs \ Shaky,
         InPlace(p), Founded(p), TxSound(p), Start(p) \/ Step(p) \/ Crash(p), Progress(p)
  PROVE  Progress(p)'
<1>1. Alone(p)
  BY AloneStep
<1>2. /\ pc \in [Procs -> {"idle", "run"}] /\ plan \in [Procs -> Seq(Items)]
      /\ at \in [Procs -> 1..9] /\ tx \in [Procs -> TxType]
  BY DEF TypeOK
<1>3. CASE Start(p)
  <2> SUFFICES ASSUME pc'[p] = "run" PROVE Progress(p)'
    BY DEF Progress
  <2>1. plan'[p] = seedTenant /\ at'[p] = 1
    BY <1>2, <1>3 DEF Start
  <2>2. NothingLost(p)' /\ ContactsFirst(p)'
    BY <2>1, PlanIsWhole DEF NothingLost, ContactsFirst
  <2> QED
    BY <2>1, <2>2 DEF Progress, HalfDone, Writing
<1>4. CASE ContactStep(p)
  BY <1>1, <1>4, ContactProgress
<1>5. CASE SkipDocument(p)
  <2>1. Busy(p) /\ Cur(p).kind # "contact" /\ Parties(p) = {}
    BY <1>5, Places DEF SkipDocument
  <2> QED
    BY <2>1, PartiesAreThere
<1>6. CASE RollbackDocument(p)
  BY <1>6 DEF RollbackDocument
<1>7. CASE BeginDocument(p)
  <2>1. Busy(p) /\ Cur(p).kind # "contact" /\ at[p] = 1 /\ Advance(p) /\ seeded' = seeded /\ pc' = pc
    BY <1>7, Places DEF BeginDocument
  <2>2. plan'[p] = plan[p]
    BY <2>1, Advanced
  <2>3. Cur(p)' = Cur(p)
    BY <2>2 DEF Cur
  <2>4. ~tx'[p].broken
    BY <1>2, <1>7 DEF BeginDocument, NoTx
  <2>5. HalfDone(p)'
    BY <2>1, <2>3 DEF HalfDone
  <2> QED
    BY <1>1, <2>1, <2>2, <2>4, <2>5, StayProgress
<1>8. CASE RowStep(p)
  BY <1>1, <1>8, RowProgress
<1>9. CASE Commit(p)
  <2>1. Busy(p) /\ Cur(p).kind # "contact" /\ at[p] = 9 /\ Advance(p) /\ seeded' = seeded
        /\ Cur(p) \in Items
    BY <1>9, Places, AtHand DEF Commit
  <2>2. plan'[p] = Tail(plan[p]) /\ at'[p] = 1
    BY <2>1, Advanced
  <2>3. PICK x \in Items : x = Cur(p)
    BY <2>1
  <2>4. Booked(x.of)'
    <3>1. CASE tx[p].broken
      <4>1. Booked(x.of)
        BY <2>1, <2>3, <3>1 DEF Progress, Writing, Busy
      <4> QED
        BY <1>1, <4>1 DEF Alone, Booked
    <3>2. CASE ~tx[p].broken
      <4>1. Document(p) \in booked' /\ Document(p).number = Cur(p).of
        BY <1>9, <3>2 DEF Commit, Document
      <4> QED
        BY <2>3, <4>1 DEF Booked
    <3> QED
      BY <3>1, <3>2
  <2>5. x.kind # "contact"
    BY <2>1, <2>3
  <2> QED
    BY <1>1, <2>1, <2>2, <2>3, <2>4, <2>5, DropProgress
<1>10. CASE Finish(p) \/ Crash(p)
  <2>1. pc'[p] = "idle"
    BY <1>2, <1>10 DEF Finish, Crash
  <2> QED
    BY <2>1 DEF Progress
<1> QED
  BY <1>3, <1>4, <1>5, <1>6, <1>7, <1>8, <1>9, <1>10 DEF Step, ContactStep, RowStep

\* Everything of the dataset is there.
AllThere == (\A c \in Contacts : Complete(c)) /\ \A n \in Numbers : Booked(n)

\* An execution that ends with status 0 has left everything.
LEMMA SuccessStep ==
  ASSUME TypeOK, NEW p \in Procs, InPlace(p), TxSound(p), Start(p) \/ Step(p) \/ Crash(p),
         NEW q \in Procs, Progress(q), exit[q] = "0" => AllThere, exit'[q] = "0"
  PROVE  AllThere'
<1>1. Alone(p)
  BY AloneStep
<1>2. AllThere => AllThere'
  BY <1>1 DEF Alone, AllThere, Complete, Booked
<1>3. CASE exit'[q] = exit[q]
  BY <1>2, <1>3
<1>4. CASE exit'[q] # exit[q]
  <2>1. q = p
    BY <1>1, <1>4 DEF Alone
  <2>2. exit \in [Procs -> {"none", "0", "1", "killed"}]
    BY DEF TypeOK
  <2>3. Finish(p)
    <3>1. ~Start(p) /\ ~Crash(p)
      BY <2>1, <2>2 DEF Start, Crash
    <3>2. exit' # exit
      BY <1>4
    <3>3. ~ContactStep(p) /\ ~RowStep(p)
      BY <3>2, ContactFacts, RowFacts
    <3>4. ~SkipDocument(p) /\ ~BeginDocument(p) /\ ~RollbackDocument(p) /\ ~Commit(p)
      BY <3>2 DEF SkipDocument, BeginDocument, RollbackDocument, Commit
    <3> QED
      BY <3>1, <3>3, <3>4 DEF Step, ContactStep, RowStep
  <2>4. NothingLost(p) /\ ToSet(plan[p]) = {}
    BY <2>1, <2>3 DEF Finish, Progress, ToSet
  <2>5. AllThere
    BY <2>4 DEF NothingLost, AllThere, Numbers
  <2> QED
    BY <1>2, <2>5
<1> QED
  BY <1>3, <1>4

\* With the inductive invariant, what executions that lose no statement have
\* done is an invariant of its own.
LEMMA ProgressInvariance ==
  ASSUME Prepared
  PROVE  Spec => []ProgressInv
<1>1. Init => ProgressInv
  BY DEF Init, ProgressInv, Progress, SuccessMeansSeeded
<1>2. ASSUME IInv, IInv', ProgressInv, [Next]_vars
      PROVE  ProgressInv'
  <2>1. CASE Next
    <3>1. PICK p \in Procs : Start(p) \/ Step(p) \/ Crash(p)
      BY <2>1 DEF Next
    <3>2. /\ TypeOK /\ BooksSound /\ InPlace(p) /\ Founded(p) /\ TxSound(p) /\ TypeOK'
      BY <1>2 DEF IInv
    <3>3. Alone(p)
      BY <3>1, <3>2, AloneStep
    <3>4. \A q \in Procs \ Shaky : Progress(q) /\ (exit[q] = "0" => AllThere)
      BY <1>2 DEF ProgressInv, SuccessMeansSeeded, AllThere, Complete, Booked
    <3>5. ASSUME NEW q \in Procs \ Shaky
          PROVE  Progress(q)'
      <4>1. CASE q = p
        BY <3>1, <3>2, <3>4, <4>1, OwnProgress
      <4>2. CASE q # p
        BY <3>3, <3>4, <4>2, OtherProgress
      <4> QED
        BY <4>1, <4>2
    <3>6. ASSUME NEW q \in Procs \ Shaky, exit'[q] = "0"
          PROVE  AllThere'
      <4>1. Progress(q) /\ (exit[q] = "0" => AllThere)
        BY <3>4
      <4> QED
        BY <3>1, <3>2, <3>6, <4>1, SuccessStep
    <3>7. SuccessMeansSeeded'
      <4>1. \A d \in booked' : d.number \in Numbers
        BY <3>2 DEF TypeOK, DocumentType
      <4> QED
        BY <3>6, <4>1 DEF SuccessMeansSeeded, AllThere, Complete, Booked
    <3> QED
      BY <3>5, <3>7 DEF ProgressInv
  <2>2. CASE UNCHANGED vars
    <3>1. UNCHANGED <<entities, companies, ecas, channels, locations, links, items, nextTrans,
                      booked, pc, plan, at, seeded, located, tx, exit, starts>>
      BY <2>2 DEF vars, contactVars, bookVars
    <3> QED
      BY <1>2, <3>1 DEF ProgressInv, Progress, NothingLost, ContactsFirst, HalfDone, Complete,
                        Booked, Writing, Busy, Cur, SuccessMeansSeeded
  <2> QED
    BY <1>2, <2>1, <2>2
<1> QED
  BY <1>1, <1>2, Invariance, PTL DEF Spec

\* "tenant seed complete": an execution that lost no statement and ends with
\* status 0 has left every contact, invoice and bill, whatever others that lose
\* theirs have done beside it - for every dataset that can be loaded at all.
THEOREM SuccessIsSeeded ==
  ASSUME Prepared
  PROVE  Spec => []SuccessMeansSeeded
<1>1. ProgressInv => SuccessMeansSeeded
  BY DEF ProgressInv
<1> QED
  BY <1>1, ProgressInvariance, PTL

-----------------------------------------------------------------------------
(***************************************************************************)
(* The floats of one document (SeedAmounts), for any width of the mantissa *)
(* that leaves room (Fits).  Every float is close to the fraction that it  *)
(* stands for, by a few parts of 2^Bits (Near, IsFloat); what is written   *)
(* of it, to however many places, is close enough to be rounded to the     *)
(* multiple of 1/10^Scale that is meant (AtScaleIs).                       *)
(***************************************************************************)

\* Induction, as a fact about a set.
LEMMA SetInduction ==
  ASSUME NEW S, 0 \in S, \A n \in Nat : n \in S => n + 1 \in S
  PROVE  Nat \subseteq S
<1> SUFFICES ASSUME Nat \ S # {} PROVE FALSE
  OBVIOUS
<1> DEFINE D == Nat \ S
<1>1. PICK x \in D : \A y \in D : <<y, x>> \notin OpToRel(<, Nat)
  BY NatLessThanWellFounded, WFMin, Zenon
<1>2. x \in Nat /\ x # 0
  OBVIOUS
<1>3. x - 1 \in Nat /\ x - 1 < x
  BY <1>2
<1>4. x - 1 \notin D
  BY <1>1, <1>3 DEF OpToRel
<1>5. (x - 1) + 1 = x
  BY <1>2
<1> QED BY <1>3, <1>4, <1>5

\* A set of numbers that is not empty has its least.
LEMMA MinIsThere ==
  ASSUME NEW S \in SUBSET Nat, S # {}
  PROVE  Min(S) \in S /\ \A y \in S : Min(S) <= y
<1>1. PICK x \in S : \A y \in S : <<y, x>> \notin OpToRel(<, Nat)
  BY NatLessThanWellFounded, WFMin, Zenon
<1>2. \A y \in S : ~(y < x)
  BY <1>1 DEF OpToRel
<1>3. x \in Nat /\ \A y \in S : y \in Nat
  OBVIOUS
<1>4. \A y \in S : x <= y
  BY <1>2, <1>3
<1> QED BY <1>1, <1>4 DEF Min

\* The powers of b up to the m-th.
Powers(b, f, m) == f[0] = 1 /\ \A i \in 0..m : i < m => f[i + 1] = b * f[i]

\* There are such tables, and they agree.
LEMMA PowersAgree ==
  ASSUME NEW b \in Nat, NEW f, NEW g, NEW m \in Nat, NEW n \in Nat, m <= n,
         Powers(b, f, m), Powers(b, g, n)
  PROVE  f[m] = g[m]
<1> DEFINE S == {k \in Nat : k <= m => f[k] = g[k]}
<1>1. 0 \in S
  BY DEF Powers
<1>2. ASSUME NEW k \in Nat, k \in S PROVE k + 1 \in S
  <2> SUFFICES ASSUME k + 1 <= m PROVE f[k + 1] = g[k + 1]
    OBVIOUS
  <2>1. k \in 0..m /\ k \in 0..n /\ k < m /\ k < n /\ f[k] = g[k]
    BY <1>2
  <2> QED BY <2>1 DEF Powers
<1> HIDE DEF S
<1>3. m \in S
  BY <1>1, <1>2, SetInduction
<1> QED BY <1>3 DEF S

\* The table of all powers.
Table(b, f) == f = [n \in Nat |-> IF n = 0 THEN 1 ELSE b * f[n - 1]]

LEMMA PowersExist ==
  ASSUME NEW b \in Nat
  PROVE  \E f : Table(b, f)
<1> DEFINE S == {m \in Nat : \E f : Powers(b, f, m)}
<1>1. 0 \in S
  <2>1. Powers(b, [i \in {0} |-> 1], 0)
    BY DEF Powers
  <2> QED BY <2>1
<1>2. ASSUME NEW m \in Nat, m \in S PROVE m + 1 \in S
  <2>1. PICK f : Powers(b, f, m)
    BY <1>2
  <2> DEFINE g == [i \in 0..(m + 1) |-> IF i <= m THEN f[i] ELSE b * f[m]]
  <2>2. g[0] = 1
    BY <2>1 DEF Powers
  <2>3. ASSUME NEW i \in 0..(m + 1), i < m + 1 PROVE g[i + 1] = b * g[i]
    <3>1. g[i] = f[i] /\ i \in 0..m
      BY <2>3
    <3>2. CASE i < m
      <4>1. g[i + 1] = f[i + 1]
        BY <3>2
      <4> QED BY <2>1, <3>1, <3>2, <4>1 DEF Powers
    <3>3. CASE i = m
      BY <3>1, <3>3
    <3> QED BY <3>1, <3>2, <3>3
  <2> HIDE DEF g
  <2>4. Powers(b, g, m + 1)
    BY <2>2, <2>3 DEF Powers
  <2> QED BY <2>4
<1> HIDE DEF S
<1>3. \A m \in Nat : \E f : Powers(b, f, m)
  BY <1>1, <1>2, SetInduction DEF S
<1> DEFINE t(m) == CHOOSE f : Powers(b, f, m)
           p == [m \in Nat |-> t(m)[m]]
<1>4. \A m \in Nat : Powers(b, t(m), m)
  BY <1>3
<1> HIDE DEF t
<1>5. ASSUME NEW n \in Nat PROVE p[n] = IF n = 0 THEN 1 ELSE b * p[n - 1]
  <2>1. CASE n = 0
    BY <1>4, <2>1 DEF Powers
  <2>2. CASE n # 0
    <3>1. PICK m \in Nat : m = n - 1 /\ n = m + 1 /\ m <= n /\ m \in 0..n /\ m < n
      BY <2>2
    <3>2. Powers(b, t(m), m) /\ Powers(b, t(n), n)
      BY <1>4
    <3>3. t(n)[m + 1] = b * t(n)[m]
      BY <3>1, <3>2 DEF Powers
    <3>4. t(m)[m] = t(n)[m]
      BY <3>1, <3>2, PowersAgree
    <3>5. p[n] = t(n)[n] /\ p[m] = t(m)[m]
      OBVIOUS
    <3> HIDE DEF p
    <3> QED BY <2>2, <3>1, <3>3, <3>4, <3>5
  <2> QED BY <2>1, <2>2
<1>6. p = [n \in Nat |-> p[n]]
  OBVIOUS
<1> HIDE DEF p
<1>7. p = [n \in Nat |-> IF n = 0 THEN 1 ELSE b * p[n - 1]]
  BY <1>5, <1>6
<1> QED BY <1>7 DEF Table

\* What a table of powers is.
LEMMA PowersStep ==
  ASSUME NEW b \in Nat, b # 0, NEW p, Table(b, p)
  PROVE  /\ p[0] = 1 /\ \A n \in Nat : p[n] \in Nat /\ p[n] # 0 /\ p[n + 1] = b * p[n]
         /\ \A m, n \in Nat : p[m + n] = p[m] * p[n]
<1>1. p[0] = 1 /\ \A n \in Nat : p[n + 1] = b * p[n]
  <2>1. p[0] = 1
    BY DEF Table
  <2>2. ASSUME NEW n \in Nat PROVE p[n + 1] = b * p[n]
    <3>1. n + 1 \in Nat /\ n + 1 # 0 /\ (n + 1) - 1 = n
      OBVIOUS
    <3>2. p[n + 1] = IF n + 1 = 0 THEN 1 ELSE b * p[(n + 1) - 1]
      BY <3>1 DEF Table
    <3> QED BY <3>1, <3>2
  <2> QED BY <2>1, <2>2
<1> DEFINE S == {n \in Nat : p[n] \in Nat /\ p[n] # 0}
<1>2. 0 \in S
  BY <1>1
<1>3. ASSUME NEW n \in Nat, n \in S PROVE n + 1 \in S
  <2>1. PICK q \in Nat : q = p[n] /\ q # 0
    BY <1>3
  <2>2. b * q \in Nat /\ b * q # 0
    BY <2>1
  <2> QED BY <1>1, <2>1, <2>2
<1> HIDE DEF S
<1>4. \A n \in Nat : p[n] \in Nat /\ p[n] # 0
  BY <1>2, <1>3, SetInduction DEF S
<1>5. ASSUME NEW m \in Nat, NEW n \in Nat PROVE p[m + n] = p[m] * p[n]
  <2> DEFINE D == {k \in Nat : p[m + k] = p[m] * p[k]}
  <2>1. 0 \in D
    <3>1. m + 0 = m /\ p[m] \in Nat
      BY <1>4
    <3> QED BY <1>1, <3>1
  <2>2. ASSUME NEW k \in Nat, k \in D PROVE k + 1 \in D
    <3>1. m + (k + 1) = (m + k) + 1 /\ m + k \in Nat
      OBVIOUS
    <3>2. PICK x \in Nat, y \in Nat, z \in Nat : x = p[m + k] /\ y = p[m] /\ z = p[k]
      BY <1>4, <3>1
    <3>3. p[m + (k + 1)] = b * x /\ p[k + 1] = b * z /\ x = y * z
      BY <1>1, <2>2, <3>1, <3>2
    <3>4. b * (y * z) = y * (b * z)
      OBVIOUS
    <3> QED BY <3>2, <3>3, <3>4
  <2> HIDE DEF D
  <2>3. n \in D
    BY <2>1, <2>2, SetInduction
  <2> QED BY <2>3 DEF D
<1> QED BY <1>1, <1>4, <1>5

LEMMA TwoPowers ==
  /\ Two[0] = 1
  /\ \A n \in Nat : Two[n] \in Nat /\ Two[n] # 0 /\ Two[n + 1] = 2 * Two[n]
  /\ \A m, n \in Nat : Two[m + n] = Two[m] * Two[n]
<1>1. \E f : Table(2, f)
  BY PowersExist
<1>2. Table(2, Two)
  BY <1>1, Zenon DEF Two, Table
<1>3. 2 \in Nat /\ 2 # 0
  OBVIOUS
<1> QED BY <1>2, <1>3, PowersStep

LEMMA TenPowers ==
  /\ Ten[0] = 1
  /\ \A n \in Nat : Ten[n] \in Nat /\ Ten[n] # 0 /\ Ten[n + 1] = 10 * Ten[n]
  /\ \A m, n \in Nat : Ten[m + n] = Ten[m] * Ten[n]
<1>1. \E f : Table(10, f)
  BY PowersExist
<1>2. Table(10, Ten)
  BY <1>1, Zenon DEF Ten, Table
<1>3. 10 \in Nat /\ 10 # 0
  OBVIOUS
<1> QED BY <1>2, <1>3, PowersStep

\* The same for a power at hand.
LEMMA TwoIs ==
  ASSUME NEW n \in Nat
  PROVE  Two[n] \in Nat /\ Two[n] # 0
BY TwoPowers

LEMMA TwoNext ==
  ASSUME NEW n \in Nat
  PROVE  Two[n + 1] = 2 * Two[n]
BY TwoPowers

LEMMA TenIs ==
  ASSUME NEW n \in Nat
  PROVE  Ten[n] \in Nat /\ Ten[n] # 0
BY TenPowers

LEMMA TenNext ==
  ASSUME NEW n \in Nat
  PROVE  Ten[n + 1] = 10 * Ten[n]
BY TenPowers

LEMMA TwoSum ==
  ASSUME NEW m \in Nat, NEW n \in Nat, NEW k \in Nat, k = m + n
  PROVE  Two[k] = Two[m] * Two[n]
BY TwoPowers

LEMMA TenSum ==
  ASSUME NEW m \in Nat, NEW n \in Nat, NEW k \in Nat, k = m + n
  PROVE  Ten[k] = Ten[m] * Ten[n]
BY TenPowers

\* Multiplying both sides, and taking a factor out.
LEMMA TimesLe == ASSUME NEW a \in Int, NEW b \in Int, NEW c \in Nat, a <= b PROVE a * c <= b * c
OBVIOUS

LEMMA TimesMore == ASSUME NEW a \in Nat, a # 0, NEW c \in Nat PROVE c <= a * c
<1>1. 1 * c <= a * c
  BY TimesLe
<1> QED BY <1>1

LEMMA CancelLe ==
  ASSUME NEW a \in Int, NEW b \in Int, NEW c \in Nat, c # 0, a * c <= b * c
  PROVE  a <= b
<1> SUFFICES ASSUME b + 1 <= a PROVE FALSE
  OBVIOUS
<1>1. (b + 1) * c <= a * c
  BY TimesLe
<1>2. (b + 1) * c = b * c + c
  OBVIOUS
<1> QED BY <1>1, <1>2

\* m / P is a / b, up to e parts of N.
Near(N, m, P, a, b, e) ==
    /\ N * (m * b) <= (N + e) * (a * P)
    /\ (N - e) * (a * P) <= N * (m * b)

\* A fraction may be expanded.
LEMMA NearExpand ==
  ASSUME NEW N \in Nat, NEW m \in Nat, NEW P \in Nat, NEW a \in Nat, NEW b \in Nat, NEW e \in Nat,
         NEW c \in Nat, Near(N, m, P, a, b, e)
  PROVE  Near(N, m, P, a * c, b * c, e)
<1>1. PICK x \in Int, y \in Int, z \in Int :
         x = N * (m * b) /\ y = (N + e) * (a * P) /\ z = (N - e) * (a * P)
  OBVIOUS
<1>2. x * c <= y * c /\ z * c <= x * c
  BY <1>1, TimesLe DEF Near
<1>3. /\ x * c = N * (m * (b * c))
      /\ y * c = (N + e) * ((a * c) * P) /\ z * c = (N - e) * ((a * c) * P)
  BY <1>1
<1> QED BY <1>2, <1>3 DEF Near

\* And reduced.
LEMMA NearReduce ==
  ASSUME NEW N \in Nat, NEW m \in Nat, NEW P \in Nat, NEW a \in Nat, NEW b \in Nat, NEW e \in Nat,
         NEW c \in Nat, c # 0, Near(N, m, P, a * c, b * c, e)
  PROVE  Near(N, m, P, a, b, e)
<1>1. PICK x \in Int, y \in Int, z \in Int :
         x = N * (m * b) /\ y = (N + e) * (a * P) /\ z = (N - e) * (a * P)
  OBVIOUS
<1>2. /\ x * c = N * (m * (b * c))
      /\ y * c = (N + e) * ((a * c) * P) /\ z * c = (N - e) * ((a * c) * P)
  BY <1>1
<1>3. x * c <= y * c /\ z * c <= x * c
  BY <1>2 DEF Near
<1>4. x <= y /\ z <= x
  BY <1>3, CancelLe
<1> QED BY <1>1, <1>4 DEF Near

\* A larger error.
LEMMA NearWider ==
  ASSUME NEW N \in Nat, NEW m \in Nat, NEW P \in Nat, NEW a \in Nat, NEW b \in Nat, NEW e \in Nat,
         NEW d \in Nat, e <= d, Near(N, m, P, a, b, e)
  PROVE  Near(N, m, P, a, b, d)
<1>1. PICK y \in Nat : y = a * P
  OBVIOUS
<1>2. (N + e) * y <= (N + d) * y /\ (N - d) * y <= (N - e) * y
  BY TimesLe
<1>3. PICK x \in Nat : x = N * (m * b)
  OBVIOUS
<1>4. x <= (N + e) * y /\ (N - e) * y <= x
  BY <1>1, <1>3 DEF Near
<1>5. PICK r \in Int, s \in Int, t \in Int, u \in Int :
         r = (N + e) * y /\ s = (N + d) * y /\ t = (N - d) * y /\ u = (N - e) * y
  OBVIOUS
<1>6. x <= s /\ t <= x
  BY <1>2, <1>4, <1>5
<1> QED BY <1>1, <1>3, <1>5, <1>6 DEF Near

\* Two fractions multiplied.
LEMMA NearTimes ==
  ASSUME NEW N \in Nat, N # 0,
         NEW m1 \in Nat, NEW P1 \in Nat, NEW a1 \in Nat, NEW b1 \in Nat, Near(N, m1, P1, a1, b1, 1),
         NEW m2 \in Nat, NEW P2 \in Nat, NEW a2 \in Nat, NEW b2 \in Nat, Near(N, m2, P2, a2, b2, 1)
  PROVE  Near(N, m1 * m2, P1 * P2, a1 * a2, b1 * b2, 3)
<1>1. PICK x1 \in Nat, y1 \in Nat, x2 \in Nat, y2 \in Nat :
         x1 = m1 * b1 /\ y1 = a1 * P1 /\ x2 = m2 * b2 /\ y2 = a2 * P2
  OBVIOUS
<1>2. /\ N * x1 <= (N + 1) * y1 /\ (N - 1) * y1 <= N * x1
      /\ N * x2 <= (N + 1) * y2 /\ (N - 1) * y2 <= N * x2
  BY <1>1 DEF Near
<1>3. PICK X \in Nat, Y \in Nat : X = x1 * x2 /\ Y = y1 * y2
  OBVIOUS
<1>4. N * (N * X) <= ((N + 1) * (N + 1)) * Y
  <2>1. (N * x1) * (N * x2) <= ((N + 1) * y1) * (N * x2)
    BY <1>2, TimesLe
  <2>2. (N * x2) * ((N + 1) * y1) <= ((N + 1) * y2) * ((N + 1) * y1)
    BY <1>2, TimesLe
  <2>3. (N * x1) * (N * x2) = N * (N * X)
    BY <1>3
  <2>4. ((N + 1) * y2) * ((N + 1) * y1) = ((N + 1) * (N + 1)) * Y
    BY <1>3
  <2>5. ((N + 1) * y1) * (N * x2) = (N * x2) * ((N + 1) * y1)
    OBVIOUS
  <2> QED BY <2>1, <2>2, <2>3, <2>4, <2>5
<1>5. ((N - 1) * (N - 1)) * Y <= N * (N * X)
  <2>0. N - 1 \in Nat
    OBVIOUS
  <2>1. ((N - 1) * y1) * ((N - 1) * y2) <= (N * x1) * ((N - 1) * y2)
    BY <1>2, <2>0, TimesLe
  <2>2. ((N - 1) * y2) * (N * x1) <= (N * x2) * (N * x1)
    BY <1>2, TimesLe
  <2>3. (N * x2) * (N * x1) = N * (N * X)
    BY <1>3
  <2>4. ((N - 1) * y1) * ((N - 1) * y2) = ((N - 1) * (N - 1)) * Y
    BY <1>3
  <2>5. (N * x1) * ((N - 1) * y2) = ((N - 1) * y2) * (N * x1)
    OBVIOUS
  <2> QED BY <2>1, <2>2, <2>3, <2>4, <2>5
<1>6. (N + 1) * (N + 1) <= N * (N + 3) /\ N * (N - 3) <= (N - 1) * (N - 1)
  OBVIOUS
<1>7. ((N + 1) * (N + 1)) * Y <= (N * (N + 3)) * Y /\ (N * (N - 3)) * Y <= ((N - 1) * (N - 1)) * Y
  BY <1>6, TimesLe
<1>8. PICK U \in Int, V \in Int, W \in Int : U = N * X /\ V = (N + 3) * Y /\ W = (N - 3) * Y
  OBVIOUS
<1>9. U * N <= V * N /\ W * N <= U * N
  <2>1. N * (N * X) = U * N /\ (N * (N + 3)) * Y = V * N /\ (N * (N - 3)) * Y = W * N
    BY <1>8
  <2>2. PICK r \in Int, s \in Int : r = ((N + 1) * (N + 1)) * Y /\ s = ((N - 1) * (N - 1)) * Y
    OBVIOUS
  <2> QED BY <1>4, <1>5, <1>7, <2>1, <2>2
<1>10. U <= V /\ W <= U
  BY <1>9, CancelLe
<1>11. X = (m1 * m2) * (b1 * b2) /\ Y = (a1 * a2) * (P1 * P2)
  BY <1>1, <1>3
<1> QED BY <1>8, <1>10, <1>11 DEF Near

\* Two of them added, over a common power of two.
LEMMA NearPlus ==
  ASSUME NEW N \in Nat, NEW b \in Nat, NEW e \in Nat, NEW P \in Nat,
         NEW m1 \in Nat, NEW P1 \in Nat, NEW a1 \in Nat, NEW F1 \in Nat, Near(N, m1, P1, a1, b, e),
         NEW m2 \in Nat, NEW P2 \in Nat, NEW a2 \in Nat, NEW F2 \in Nat, Near(N, m2, P2, a2, b, e),
         P = P1 * F1, P = P2 * F2
  PROVE  Near(N, m1 * F1 + m2 * F2, P, a1 + a2, b, e)
<1>1. PICK x1 \in Nat, y1 \in Nat, x2 \in Nat, y2 \in Nat :
         x1 = m1 * b /\ y1 = a1 * P1 /\ x2 = m2 * b /\ y2 = a2 * P2
  OBVIOUS
<1>2. /\ N * x1 <= (N + e) * y1 /\ (N - e) * y1 <= N * x1
      /\ N * x2 <= (N + e) * y2 /\ (N - e) * y2 <= N * x2
  BY <1>1 DEF Near
<1>3. /\ (N * x1) * F1 <= ((N + e) * y1) * F1 /\ ((N - e) * y1) * F1 <= (N * x1) * F1
      /\ (N * x2) * F2 <= ((N + e) * y2) * F2 /\ ((N - e) * y2) * F2 <= (N * x2) * F2
  BY <1>2, TimesLe
<1>4. PICK X1 \in Nat, Y1 \in Nat, X2 \in Nat, Y2 \in Nat :
         X1 = x1 * F1 /\ Y1 = y1 * F1 /\ X2 = x2 * F2 /\ Y2 = y2 * F2
  OBVIOUS
<1>5. /\ N * X1 <= (N + e) * Y1 /\ (N - e) * Y1 <= N * X1
      /\ N * X2 <= (N + e) * Y2 /\ (N - e) * Y2 <= N * X2
  <2>1. (N * x1) * F1 = N * X1 /\ (N * x2) * F2 = N * X2
    BY <1>4
  <2>2. ((N + e) * y1) * F1 = (N + e) * Y1 /\ ((N + e) * y2) * F2 = (N + e) * Y2
    BY <1>4
  <2>3. ((N - e) * y1) * F1 = (N - e) * Y1 /\ ((N - e) * y2) * F2 = (N - e) * Y2
    BY <1>4
  <2> QED BY <1>3, <2>1, <2>2, <2>3
<1>6. N * (X1 + X2) <= (N + e) * (Y1 + Y2) /\ (N - e) * (Y1 + Y2) <= N * (X1 + X2)
  <2>1. /\ N * (X1 + X2) = N * X1 + N * X2
        /\ (N + e) * (Y1 + Y2) = (N + e) * Y1 + (N + e) * Y2
        /\ (N - e) * (Y1 + Y2) = (N - e) * Y1 + (N - e) * Y2
    OBVIOUS
  <2>2. PICK r1 \in Int, r2 \in Int, s1 \in Int, s2 \in Int, t1 \in Int, t2 \in Int :
           /\ r1 = N * X1 /\ r2 = N * X2 /\ s1 = (N + e) * Y1 /\ s2 = (N + e) * Y2
           /\ t1 = (N - e) * Y1 /\ t2 = (N - e) * Y2
    OBVIOUS
  <2>3. r1 + r2 <= s1 + s2 /\ t1 + t2 <= r1 + r2
    BY <1>5, <2>2
  <2> QED BY <2>1, <2>2, <2>3
<1>7. X1 + X2 = (m1 * F1 + m2 * F2) * b
  BY <1>1, <1>4
<1>8. Y1 + Y2 = (a1 + a2) * P
  <2>1. Y1 = a1 * (P1 * F1) /\ Y2 = a2 * (P2 * F2)
    BY <1>1, <1>4
  <2> QED BY <2>1
<1> QED BY <1>6, <1>7, <1>8 DEF Near

\* m / P' is n / P narrowed: S takes the bits off that are too many.
Narrowed(N, m, S, n) == N * (m * S) <= (N + 1) * n /\ (N - 1) * n <= N * (m * S)

LEMMA NearNarrowed ==
  ASSUME NEW N \in Nat, N # 0, NEW e \in Nat, e <= N,
         NEW n \in Nat, NEW P \in Nat, NEW a \in Nat, NEW b \in Nat, Near(N, n, P, a, b, e),
         NEW m \in Nat, NEW S \in Nat, S # 0, Narrowed(N, m, S, n),
         NEW R \in Nat, P = R * S
  PROVE  Near(N, m, R, a, b, 2 * e + 1)
<1>1. PICK x \in Nat, y \in Nat, u \in Nat : x = n * b /\ y = a * R /\ u = m * b
  OBVIOUS
<1>2. N * x <= (N + e) * (y * S) /\ (N - e) * (y * S) <= N * x
  <2>1. a * P = y * S
    BY <1>1
  <2> QED BY <1>1, <2>1 DEF Near
<1>3. N * (u * S) <= (N + 1) * x /\ (N - 1) * x <= N * (u * S)
  <2>1. (N * (m * S)) * b <= ((N + 1) * n) * b /\ ((N - 1) * n) * b <= (N * (m * S)) * b
    BY TimesLe DEF Narrowed
  <2>2. /\ (N * (m * S)) * b = N * (u * S)
        /\ ((N + 1) * n) * b = (N + 1) * x /\ ((N - 1) * n) * b = (N - 1) * x
    BY <1>1
  <2> QED BY <2>1, <2>2
<1>4. PICK w \in Nat, z \in Nat : w = u * S /\ z = y * S
  OBVIOUS
<1>5. (N * w) * N <= ((N + 1) * (N + e)) * z
  <2>1. (N * w) * N <= ((N + 1) * x) * N
    BY <1>3, <1>4, TimesLe
  <2>2. (N * x) * (N + 1) <= ((N + e) * z) * (N + 1)
    BY <1>2, <1>4, TimesLe
  <2>3. ((N + 1) * x) * N = (N * x) * (N + 1)
    OBVIOUS
  <2>4. ((N + e) * z) * (N + 1) = ((N + 1) * (N + e)) * z
    OBVIOUS
  <2> QED BY <2>1, <2>2, <2>3, <2>4
<1>6. ((N - 1) * (N - e)) * z <= (N * w) * N
  <2>0. N - 1 \in Nat
    OBVIOUS
  <2>1. ((N - e) * z) * (N - 1) <= (N * x) * (N - 1)
    BY <1>2, <1>4, <2>0, TimesLe
  <2>2. ((N - 1) * x) * N <= (N * w) * N
    BY <1>3, <1>4, TimesLe
  <2>3. (N * x) * (N - 1) = ((N - 1) * x) * N
    OBVIOUS
  <2>4. ((N - e) * z) * (N - 1) = ((N - 1) * (N - e)) * z
    OBVIOUS
  <2> QED BY <2>1, <2>2, <2>3, <2>4
<1>7. /\ (N + 1) * (N + e) <= N * (N + (2 * e + 1))
      /\ N * (N - (2 * e + 1)) <= (N - 1) * (N - e)
  <2>1. PICK k \in Nat : N = k + 1
    <3>1. N - 1 \in Nat /\ N = (N - 1) + 1
      OBVIOUS
    <3> QED BY <3>1
  <2>2. e * k \in Nat
    BY <2>1
  <2>3. N * (N + (2 * e + 1)) = (N + 1) * (N + e) + e * k
    BY <2>1
  <2>4. (N - 1) * (N - e) = N * (N - (2 * e + 1)) + (e * k + 2 * e)
    BY <2>1
  <2>5. PICK r \in Int, s \in Int, t \in Int, v \in Int, d \in Nat :
          /\ r = (N + 1) * (N + e) /\ s = N * (N + (2 * e + 1)) /\ d = e * k
          /\ t = N * (N - (2 * e + 1)) /\ v = (N - 1) * (N - e)
    BY <2>1, <2>2
  <2> QED BY <2>3, <2>4, <2>5
<1>8. /\ ((N + 1) * (N + e)) * z <= (N * (N + (2 * e + 1))) * z
      /\ (N * (N - (2 * e + 1))) * z <= ((N - 1) * (N - e)) * z
  BY <1>7, TimesLe
<1>9. PICK X \in Int, Y \in Int, Z \in Int :
         X = N * u /\ Y = (N + (2 * e + 1)) * y /\ Z = (N - (2 * e + 1)) * y
  OBVIOUS
<1>10. PICK c \in Nat : c = S * N /\ c # 0
  OBVIOUS
<1>11. X * c <= Y * c /\ Z * c <= X * c
  <2>1. (N * w) * N = X * c
    BY <1>4, <1>9, <1>10
  <2>2. (N * (N + (2 * e + 1))) * z = Y * c
    BY <1>4, <1>9, <1>10
  <2>3. (N * (N - (2 * e + 1))) * z = Z * c
    BY <1>4, <1>9, <1>10
  <2>4. PICK r \in Int, s \in Int : r = ((N + 1) * (N + e)) * z /\ s = ((N - 1) * (N - e)) * z
    OBVIOUS
  <2> QED BY <1>5, <1>6, <1>8, <2>1, <2>2, <2>3, <2>4
<1>12. X <= Y /\ Z <= X
  BY <1>10, <1>11, CancelLe
<1> QED BY <1>1, <1>9, <1>12 DEF Near

\* The nearest integer is no further than a half.
LEMMA HalfEvenIs ==
  ASSUME NEW p \in Nat, NEW q \in Nat, q # 0
  PROVE  /\ HalfEven(p, q) \in Nat
         /\ 2 * (HalfEven(p, q) * q) <= 2 * p + q /\ 2 * p <= 2 * (HalfEven(p, q) * q) + q
<1>1. PICK n \in Nat, r \in Nat : n = p \div q /\ r = p % q /\ p = q * n + r /\ r < q
  OBVIOUS
<1>2. PICK h : h = HalfEven(p, q)
  OBVIOUS
<1>3. h = IF 2 * r > q \/ (2 * r = q /\ n % 2 = 1) THEN n + 1 ELSE n
  BY <1>1, <1>2 DEF HalfEven
<1>4. PICK x \in Nat : x = q * n
  OBVIOUS
<1>5. CASE 2 * r >= q /\ h = n + 1
  <2>1. h * q = x + q
    BY <1>4, <1>5
  <2> QED BY <1>1, <1>2, <1>4, <1>5, <2>1
<1>6. CASE 2 * r <= q /\ h = n
  <2>1. h * q = x
    BY <1>4, <1>6
  <2> QED BY <1>1, <1>2, <1>4, <1>6, <2>1
<1> QED BY <1>1, <1>3, <1>5, <1>6

\* Of two numbers, the larger.
LEMMA MaxOfTwo ==
  ASSUME NEW a \in Nat, NEW b \in Nat
  PROVE  Max({a, b}) \in {a, b} /\ a <= Max({a, b}) /\ b <= Max({a, b})
<1>1. \E x \in {a, b} : \A y \in {a, b} : x >= y
  BY a <= b \/ b <= a
<1>2. Max({a, b}) \in {a, b} /\ \A y \in {a, b} : Max({a, b}) >= y
  BY <1>1 DEF Max
<1> QED BY <1>2

\* A larger power is a multiple of a smaller one.
LEMMA TwoLess ==
  ASSUME NEW a \in Nat, NEW b \in Nat, a <= b
  PROVE  Two[b] = Two[b - a] * Two[a] /\ Two[a] <= Two[b] /\ b - a \in Nat
<1>1. PICK c \in Nat : c = b - a /\ b = c + a
  <2>1. b - a \in Nat /\ b = (b - a) + a
    OBVIOUS
  <2> QED BY <2>1
<1>2. PICK x \in Nat, y \in Nat : x = Two[a] /\ y = Two[c] /\ y # 0
  BY <1>1, TwoIs
<1>3. Two[b] = y * x
  BY <1>1, <1>2, TwoPowers
<1>4. x <= y * x
  <2>1. y - 1 \in Nat /\ (y - 1) * x \in Nat /\ y * x = (y - 1) * x + x
    BY <1>2
  <2> QED BY <2>1
<1> QED BY <1>1, <1>2, <1>3, <1>4

LEMMA TenLess ==
  ASSUME NEW a \in Nat, NEW b \in Nat, a <= b
  PROVE  Ten[b] = Ten[b - a] * Ten[a] /\ Ten[a] <= Ten[b] /\ b - a \in Nat
<1>1. PICK c \in Nat : c = b - a /\ b = c + a
  <2>1. b - a \in Nat /\ b = (b - a) + a
    OBVIOUS
  <2> QED BY <2>1
<1>2. PICK x \in Nat, y \in Nat : x = Ten[a] /\ y = Ten[c] /\ y # 0
  BY <1>1, TenIs
<1>3. Ten[b] = y * x
  BY <1>1, <1>2, TenPowers
<1>4. x <= y * x
  <2>1. y - 1 \in Nat /\ (y - 1) * x \in Nat /\ y * x = (y - 1) * x + x
    BY <1>2
  <2> QED BY <2>1
<1> QED BY <1>1, <1>2, <1>3, <1>4

\* The width, and what fits in it.
Width == Bits \in Nat /\ Bits # 0

LEMMA Halves ==
  ASSUME Width
  PROVE  /\ Two[Bits] \in Nat /\ Two[Bits - 1] \in Nat /\ Bits - 1 \in Nat
         /\ Two[Bits] = 2 * Two[Bits - 1] /\ Two[Bits - 1] # 0
<1>1. Bits - 1 \in Nat /\ (Bits - 1) + 1 = Bits
  BY DEF Width
<1>2. Two[Bits] \in Nat
  BY TwoIs DEF Width
<1> QED BY <1>1, <1>2, TwoIs, TwoNext

\* A quotient that is in range is rounded with the error of one bit.
LEMMA RoundNear ==
  ASSUME Width, NEW p \in Nat, NEW q \in Nat, q # 0, p < q * Two[Bits],
         p = 0 \/ q <= 2 * (p * Two[Bits])
  PROVE  \E m, k \in Nat : /\ Round(p, q) = <<m, k>> /\ m <= Two[Bits]
                           /\ Near(Two[Bits], m, Two[k], p, q, 1)
<1>1. PICK N \in Nat, H \in Nat : N = Two[Bits] /\ H = Two[Bits - 1] /\ N = 2 * H /\ H # 0
  BY Halves
<1>2. CASE p = 0
  <2>1. Round(p, q) = <<0, 0>>
    BY <1>2 DEF Round
  <2>2. Near(N, 0, Two[0], p, q, 1)
    BY <1>2, TwoPowers DEF Near
  <2> QED BY <1>1, <2>1, <2>2
<1>3. CASE p # 0
  <2> DEFINE S == {j \in Nat : q * H <= p * Two[j]}
             In(j) == p * Two[j] >= q * H /\ p * Two[j] < q * N
  <2>1. 2 * Bits \in S
    <3>1. 2 * Bits = Bits + Bits /\ 2 * Bits \in Nat /\ Bits \in Nat
      BY DEF Width
    <3>2. Two[2 * Bits] = N * N
      <4>1. Two[2 * Bits] = Two[Bits] * Two[Bits]
        BY <3>1, TwoSum
      <4> QED BY <1>1, <4>1
    <3>3. PICK x \in Nat : x = p * N /\ q <= 2 * x
      BY <1>1, <1>3
    <3>4. q * H <= (2 * x) * H
      BY <3>3, TimesLe
    <3>5. (2 * x) * H = p * (N * N)
      BY <1>1, <3>3
    <3> QED BY <3>1, <3>2, <3>4, <3>5
  <2>2. PICK k \in S : \A y \in S : k <= y
    <3>1. S \in SUBSET Nat /\ S # {}
      BY <2>1
    <3> QED BY <3>1, MinIsThere
  <2>3. k \in Nat /\ q * H <= p * Two[k] /\ k <= 2 * Bits
    BY <2>1, <2>2
  <2>4. p * Two[k] < q * N
    <3>1. CASE k = 0
      <4>1. Two[k] = 1 /\ q * N \in Nat
        BY <3>1, TwoPowers
      <4> QED BY <1>1, <4>1
    <3>2. CASE k # 0
      <4>1. PICK l \in Nat : l = k - 1 /\ k = l + 1 /\ l < k
        BY <2>3, <3>2
      <4>2. l \notin S
        BY <2>2, <2>3, <4>1
      <4>3. PICK x \in Nat, y \in Nat : x = p * Two[l] /\ y = q * H
        BY <4>1, TwoIs
      <4>4. x < y
        BY <4>2, <4>3
      <4>5. p * Two[k] = 2 * x /\ q * N = 2 * y
        <5>1. PICK t \in Nat : t = Two[l] /\ Two[k] = 2 * t
          BY <4>1, TwoIs, TwoNext
        <5> QED BY <1>1, <4>3, <5>1
      <4> QED BY <4>4, <4>5
    <3> QED BY <3>1, <3>2
  <2>5. \E j \in 0..(2 * Bits) : In(j)
    <3>1. k \in 0..(2 * Bits)
      BY <2>3 DEF Width
    <3>2. p * Two[k] \in Nat /\ q * H \in Nat
      BY <2>3, TwoIs
    <3> QED BY <2>3, <2>4, <3>1, <3>2
  <2>6. PICK j : j = CHOOSE i \in 0..(2 * Bits) : In(i)
    OBVIOUS
  <2>7. j \in 0..(2 * Bits) /\ In(j)
    BY <2>5, <2>6
  <2>8. Round(p, q) = <<HalfEven(p * Two[j], q), j>>
    BY <1>1, <1>3, <2>6, Zenon DEF Round
  <2>9. PICK T \in Nat, n \in Nat : T = Two[j] /\ n = p * T /\ j \in Nat
    <3>1. j \in Nat
      BY <2>7
    <3>2. Two[j] \in Nat
      BY <3>1, TwoIs
    <3> QED BY <3>1, <3>2
  <2>10. q * H <= n /\ n < q * N
    <3>1. q * H \in Nat /\ q * N \in Nat
      OBVIOUS
    <3> QED BY <2>7, <2>9, <3>1
  <2>11. PICK m \in Nat : m = HalfEven(n, q) /\ 2 * (m * q) <= 2 * n + q /\ 2 * n <= 2 * (m * q) + q
    BY HalfEvenIs
  <2>12. m <= N
    <3>1. SUFFICES ASSUME N + 1 <= m PROVE FALSE
      BY <2>11
    <3>2. (N + 1) * q <= m * q
      BY <2>11, <3>1, TimesLe
    <3>3. PICK y \in Nat, z \in Nat : y = q * N /\ z = m * q
      OBVIOUS
    <3>4. (N + 1) * q = y + q
      BY <3>3
    <3> QED BY <2>10, <2>11, <3>2, <3>3, <3>4
  <2>13. Near(N, m, T, p, q, 1)
    <3>1. PICK z \in Nat, y \in Nat : z = m * q /\ y = q * H
      BY <2>11
    <3>2. q * N = 2 * y
      BY <1>1, <3>1
    <3>3. 2 * z <= 2 * n + q /\ 2 * n <= 2 * z + q /\ y <= n
      BY <2>10, <2>11, <3>1
    <3>4. (2 * z) * N <= (2 * n + q) * N /\ (2 * n) * N <= (2 * z + q) * N
      BY <3>3, TimesLe
    <3>5. PICK a \in Nat, b \in Nat : a = N * z /\ b = N * n
      OBVIOUS
    <3>6. /\ (2 * z) * N = 2 * a /\ (2 * n) * N = 2 * b
          /\ (2 * n + q) * N = 2 * b + 2 * y /\ (2 * z + q) * N = 2 * a + 2 * y
      BY <3>2, <3>5
    <3>7. a <= b + n /\ b <= a + n
      BY <3>3, <3>4, <3>6
    <3>8. (N + 1) * n = b + n /\ (N - 1) * n = b - n
      BY <3>5
    <3> QED BY <2>9, <3>1, <3>5, <3>7, <3>8 DEF Near
  <2> QED BY <1>1, <2>8, <2>9, <2>11, <2>12, <2>13
<1> QED BY <1>2, <1>3

\* What is near a fraction is less than twice it, and more than half of it.
LEMMA NearValue ==
  ASSUME NEW N \in Nat, N # 0, NEW m \in Nat, NEW P \in Nat, NEW a \in Nat, NEW b \in Nat,
         NEW e \in Nat, 2 * e <= N, Near(N, m, P, a, b, e)
  PROVE  m * b <= 2 * (a * P) /\ a * P <= 2 * (m * b)
<1>1. PICK x \in Nat, y \in Nat : x = m * b /\ y = a * P
  OBVIOUS
<1>2. N * x <= (N + e) * y /\ (N - e) * y <= N * x
  BY <1>1 DEF Near
<1>3. PICK u \in Nat, v \in Nat, w \in Nat : u = N * x /\ v = N * y /\ w = e * y
  OBVIOUS
<1>4. (N + e) * y = v + w /\ (N - e) * y = v - w
  BY <1>3
<1>5. (2 * e) * y <= N * y /\ (2 * e) * y = 2 * w
  <2>1. (2 * e) * y = 2 * w
    BY <1>3
  <2> QED BY <2>1, TimesLe
<1>6. u <= 2 * v /\ v <= 2 * u
  BY <1>2, <1>3, <1>4, <1>5
<1>7. x * N <= (2 * y) * N /\ y * N <= (2 * x) * N
  <2>1. x * N = u /\ y * N = v /\ (2 * y) * N = 2 * v /\ (2 * x) * N = 2 * u
    BY <1>3
  <2> QED BY <1>6, <2>1
<1>8. x <= 2 * y /\ y <= 2 * x
  BY <1>7, CancelLe
<1> QED BY <1>1, <1>8

\* One that is well in range is in range.
LEMMA NearBelow ==
  ASSUME NEW N \in Nat, N # 0, NEW m \in Nat, NEW P \in Nat, P # 0, NEW a \in Nat, NEW b \in Nat,
         NEW e \in Nat, 2 * e <= N, Near(N, m, P, a, b, e), NEW M \in Nat, 2 * a < M * b
  PROVE  m < M * P
<1>1. m * b <= 2 * (a * P)
  BY NearValue
<1>2. SUFFICES ASSUME M * P <= m PROVE FALSE
  OBVIOUS
<1>3. PICK y \in Nat : y = M * P
  OBVIOUS
<1>4. y * b <= m * b
  BY <1>2, <1>3, TimesLe
<1>5. (2 * a + 1) * P <= (M * b) * P
  <2>1. 2 * a + 1 <= M * b /\ M * b \in Nat
    OBVIOUS
  <2> QED BY <2>1, TimesLe
<1>6. PICK z \in Nat : z = a * P /\ (2 * a + 1) * P = 2 * z + P
  OBVIOUS
<1>7. (M * b) * P = y * b
  BY <1>3
<1>8. PICK u \in Nat, v \in Nat : u = y * b /\ v = m * b
  BY <1>3
<1> QED BY <1>1, <1>4, <1>5, <1>6, <1>7, <1>8

\* A number too wide for the mantissa is narrowed with the error of one bit.
LEMMA NarrowNear ==
  ASSUME Width, NEW n \in Nat, NEW k \in Nat, n <= Two[Bits] * Two[Bits], n < Two[Bits] * Two[k]
  PROVE  \E m, l, S \in Nat : /\ Narrow(n, k) = <<m, l>> /\ m <= Two[Bits] /\ S # 0
                              /\ Two[k] = Two[l] * S /\ Narrowed(Two[Bits], m, S, n)
<1>1. PICK N \in Nat, H \in Nat : N = Two[Bits] /\ H = Two[Bits - 1] /\ N = 2 * H /\ H # 0
  BY Halves
<1>2. Bits \in Nat /\ Bits - 1 \in Nat
  BY DEF Width
<1> DEFINE J == {j \in 0..Bits + 1 : n < Two[Bits + j]}
<1>3. PICK s : s = Min(J)
  OBVIOUS
<1>4. s \in J /\ \A j \in J : s <= j
  <2>1. Bits + 1 \in J
    <3>1. PICK c \in Nat : c = Bits + (Bits + 1)
      BY <1>2
    <3>2. Two[c] = Two[Bits] * Two[Bits + 1] /\ Two[Bits + 1] = 2 * Two[Bits]
      BY <1>2, <3>1, TwoSum, TwoNext
    <3>3. PICK x \in Nat : x = N * N /\ x # 0 /\ n <= x
      BY <1>1
    <3>4. Two[c] = 2 * x
      <4>1. Two[c] = N * (2 * N)
        BY <1>1, <3>2, Zenon
      <4>2. N * (2 * N) = 2 * x
        BY <3>3
      <4> QED BY <4>1, <4>2
    <3> QED BY <1>2, <3>1, <3>3, <3>4
  <2>2. J \in SUBSET Nat /\ J # {}
    BY <1>2, <2>1
  <2> QED BY <1>3, <2>2, MinIsThere
<1>5. s \in Nat /\ s <= Bits + 1 /\ n < Two[Bits + s] /\ Bits + s \in Nat
  BY <1>2, <1>4
<1>6. PICK S \in Nat : S = Two[s] /\ S # 0
  BY <1>5, TwoIs
<1>7. Two[Bits + s] = N * S
  <2>1. PICK r \in Nat : r = Bits + s
    BY <1>5
  <2>2. Two[r] = Two[Bits] * Two[s]
    BY <1>2, <1>5, <2>1, TwoSum
  <2> QED BY <1>1, <1>6, <2>1, <2>2
<1>8. s # 0 => H * S <= n
  <2> SUFFICES ASSUME s # 0 PROVE H * S <= n
    OBVIOUS
  <2>1. PICK t \in Nat : t = s - 1 /\ s = t + 1 /\ t < s
    BY <1>5
  <2>2. PICK r \in Nat : r = Bits + t
    BY <1>2, <2>1
  <2>3. PICK T \in Nat : T = Two[t]
    BY <2>1, TwoIs
  <2>4. Two[r] = N * T
    <3>1. Two[r] = Two[Bits] * Two[t]
      BY <1>2, <2>1, <2>2, TwoSum
    <3> QED BY <1>1, <2>3, <3>1
  <2>5. S = 2 * T
    BY <1>6, <2>1, <2>3, TwoNext
  <2>6. N * T = H * S /\ N * T \in Nat
    BY <1>1, <2>5
  <2>7. t \in 0..Bits + 1
    BY <1>2, <1>5, <2>1
  <2>8. ~(s <= t) /\ t \notin J
    BY <1>4, <1>5, <2>1
  <2>9. ~(n < Two[Bits + t])
    BY <2>7, <2>8
  <2> QED BY <2>2, <2>4, <2>6, <2>9
<1>9. s <= k
  <2> SUFFICES ASSUME k < s PROVE FALSE
    BY <1>5
  <2>1. s # 0 /\ k + 1 <= s /\ k + 1 \in Nat
    BY <1>5
  <2>2. Two[k + 1] <= S /\ Two[k + 1] = 2 * Two[k]
    BY <1>5, <1>6, <2>1, TwoLess, TwoNext
  <2>3. PICK P \in Nat : P = Two[k]
    BY TwoIs
  <2>4. (2 * P) * H <= S * H
    BY <1>1, <2>2, <2>3, TimesLe
  <2>5. PICK x \in Nat, y \in Nat : x = N * P /\ y = H * S
    OBVIOUS
  <2>6. (2 * P) * H = x /\ S * H = y
    BY <1>1, <2>5
  <2> QED BY <1>1, <1>8, <2>1, <2>3, <2>4, <2>5, <2>6
<1>10. PICK l \in Nat : l = k - s /\ Two[k] = Two[l] * S
  BY <1>5, <1>6, <1>9, TwoLess
<1>11. PICK m \in Nat : m = HalfEven(n, S) /\ 2 * (m * S) <= 2 * n + S /\ 2 * n <= 2 * (m * S) + S
  BY <1>6, HalfEvenIs
<1>12. Narrow(n, k) = <<m, l>>
  BY <1>3, <1>6, <1>10, <1>11 DEF Narrow
<1>13. m <= N
  <2>1. SUFFICES ASSUME N + 1 <= m PROVE FALSE
    BY <1>11
  <2>2. (N + 1) * S <= m * S
    BY <1>11, <2>1, TimesLe
  <2>3. PICK y \in Nat, z \in Nat : y = N * S /\ z = m * S
    OBVIOUS
  <2>4. (N + 1) * S = y + S
    BY <2>3
  <2> QED BY <1>5, <1>6, <1>7, <1>11, <2>2, <2>3, <2>4
<1>14. Narrowed(N, m, S, n)
  <2>1. PICK z \in Nat : z = m * S
    OBVIOUS
  <2>2. PICK a \in Nat, b \in Nat : a = N * z /\ b = N * n
    OBVIOUS
  <2>3. (N + 1) * n = b + n /\ (N - 1) * n = b - n
    BY <2>2
  <2>4. CASE s = 0
    <3>1. S = 1
      BY <1>6, <2>4, TwoPowers
    <3>2. m = n
      BY <1>11, <3>1
    <3>3. z = n /\ a = b
      BY <2>1, <2>2, <3>1, <3>2
    <3> QED BY <2>1, <2>2, <2>3, <3>3 DEF Narrowed
  <2>5. CASE s # 0
    <3>1. PICK y \in Nat : y = H * S /\ y <= n
      BY <1>8, <2>5
    <3>2. N * S = 2 * y
      BY <1>1, <3>1
    <3>3. (2 * z) * N <= (2 * n + S) * N /\ (2 * n) * N <= (2 * z + S) * N
      <4>1. 2 * z <= 2 * n + S /\ 2 * n <= 2 * z + S
        BY <1>11, <2>1
      <4> QED BY <4>1, TimesLe
    <3>4. /\ (2 * z) * N = 2 * a /\ (2 * n) * N = 2 * b
          /\ (2 * n + S) * N = 2 * b + 2 * y /\ (2 * z + S) * N = 2 * a + 2 * y
      BY <2>2, <3>2
    <3>5. a <= b + n /\ b <= a + n
      BY <3>1, <3>3, <3>4
    <3> QED BY <2>1, <2>2, <2>3, <3>5 DEF Narrowed
  <2> QED BY <2>4, <2>5
<1> QED BY <1>1, <1>6, <1>10, <1>11, <1>12, <1>13, <1>14

\* A float that stands for a fraction, up to e bits.
IsFloat(x, a, b, e) ==
    \E m, k \in Nat : x = <<m, k>> /\ m <= Two[Bits] /\ Near(Two[Bits], m, Two[k], a, b, e)

LEMMA NarrowIs ==
  ASSUME Width, NEW n \in Nat, NEW k \in Nat, NEW a \in Nat, NEW b \in Nat, NEW e \in Nat,
         2 * e <= Two[Bits], Near(Two[Bits], n, Two[k], a, b, e),
         n <= Two[Bits] * Two[Bits], 2 * a < Two[Bits] * b
  PROVE  IsFloat(Narrow(n, k), a, b, 2 * e + 1)
<1>1. PICK N \in Nat, P \in Nat : N = Two[Bits] /\ N # 0 /\ P = Two[k] /\ P # 0
  BY Halves, TwoIs DEF Width
<1>2. n < N * P
  BY <1>1, NearBelow
<1>3. PICK m \in Nat, l \in Nat, S \in Nat : /\ Narrow(n, k) = <<m, l>> /\ m <= N /\ S # 0
                                             /\ P = Two[l] * S /\ Narrowed(N, m, S, n)
  BY <1>1, <1>2, NarrowNear
<1>4. PICK R \in Nat : R = Two[l]
  BY TwoIs
<1>5. Near(N, m, R, a, b, 2 * e + 1)
  <2>1. e <= N /\ P = R * S /\ Near(N, n, P, a, b, e)
    BY <1>1, <1>3, <1>4
  <2> QED BY <1>1, <1>3, <1>4, <2>1, NearNarrowed
<1> QED BY <1>1, <1>3, <1>4, <1>5 DEF IsFloat

\* The product of two floats.
LEMMA TimesIs ==
  ASSUME Width, NEW x, NEW y, NEW a \in Nat, NEW b \in Nat, NEW c \in Nat, NEW d \in Nat,
         IsFloat(x, a, b, 1), IsFloat(y, c, d, 1),
         6 <= Two[Bits], 2 * (a * c) < Two[Bits] * (b * d)
  PROVE  IsFloat(Times(x, y), a * c, b * d, 7)
<1>1. PICK N \in Nat : N = Two[Bits] /\ N # 0
  BY Halves DEF Width
<1>2. PICK m \in Nat, k \in Nat : x = <<m, k>> /\ m <= N /\ Near(N, m, Two[k], a, b, 1)
  BY <1>1 DEF IsFloat
<1>3. PICK n \in Nat, l \in Nat : y = <<n, l>> /\ n <= N /\ Near(N, n, Two[l], c, d, 1)
  BY <1>1 DEF IsFloat
<1>4. PICK P \in Nat, R \in Nat : P = Two[k] /\ R = Two[l]
  BY TwoIs
<1>5. PICK j \in Nat : j = k + l
  OBVIOUS
<1>6. Two[j] = P * R
  <2>1. Two[j] = Two[k] * Two[l]
    BY <1>5, TwoSum
  <2> QED BY <1>4, <2>1
<1>7. PICK u \in Nat, p \in Nat, q \in Nat : u = m * n /\ p = a * c /\ q = b * d
  OBVIOUS
<1>8. Near(N, u, Two[j], p, q, 3)
  <2>1. Near(N, m, P, a, b, 1) /\ Near(N, n, R, c, d, 1)
    BY <1>2, <1>3, <1>4
  <2>2. Near(N, m * n, P * R, a * c, b * d, 3)
    BY <1>1, <2>1, NearTimes
  <2> QED BY <1>6, <1>7, <2>2
<1>9. u <= N * N
  <2>1. m * n <= N * n /\ n * N <= N * N
    BY <1>2, <1>3, TimesLe
  <2>2. PICK v \in Nat, w \in Nat : v = N * n /\ w = N * N /\ n * N = v
    OBVIOUS
  <2> QED BY <1>7, <2>1, <2>2
<1>10. IsFloat(Narrow(u, j), p, q, 7)
  <2>1. 2 * 3 <= Two[Bits] /\ 2 * 3 + 1 = 7 /\ 3 \in Nat
    OBVIOUS
  <2>2. u <= Two[Bits] * Two[Bits] /\ 2 * p < Two[Bits] * q /\ Near(Two[Bits], u, Two[j], p, q, 3)
    BY <1>1, <1>7, <1>8, <1>9
  <2>3. IsFloat(Narrow(u, j), p, q, 2 * 3 + 1)
    BY <2>1, <2>2, NarrowIs
  <2> QED BY <2>1, <2>3
<1>11. Times(x, y) = Narrow(u, j)
  BY <1>2, <1>3, <1>5, <1>7 DEF Times
<1> QED BY <1>7, <1>10, <1>11

\* Their sum, over one denominator.  Neither is too small beside the other for
\* the sum to be narrowed.
LEMMA PlusIs ==
  ASSUME Width, NEW x, NEW y, NEW a \in Nat, NEW c \in Nat, NEW b \in Nat, b # 0,
         IsFloat(x, a, b, 7), IsFloat(y, c, b, 7),
         14 <= Two[Bits], 2 * (a + c) < Two[Bits] * b,
         a = 0 <=> c = 0, 4 * (a + c) <= Two[Bits]
  PROVE  IsFloat(Plus(x, y), a + c, b, 15)
<1>1. PICK N \in Nat : N = Two[Bits] /\ N # 0 /\ 14 <= N
  BY Halves DEF Width
<1>2. PICK m \in Nat, k \in Nat : x = <<m, k>> /\ m <= N /\ Near(N, m, Two[k], a, b, 7)
  BY <1>1 DEF IsFloat
<1>3. PICK n \in Nat, l \in Nat : y = <<n, l>> /\ n <= N /\ Near(N, n, Two[l], c, b, 7)
  BY <1>1 DEF IsFloat
<1>4. PICK j \in Nat : j = Max({k, l}) /\ k <= j /\ l <= j /\ (j = k \/ j = l)
  BY MaxOfTwo
<1>5. PICK P \in Nat : P = Two[j] /\ P # 0
  BY TwoIs
<1>6. PICK P1 \in Nat, F1 \in Nat : /\ P1 = Two[k] /\ F1 = Two[j - k]
                                    /\ P = P1 * F1 /\ P1 # 0
  <2>1. j - k \in Nat /\ Two[j] = Two[j - k] * Two[k]
    BY <1>4, TwoLess
  <2>2. PICK u \in Nat, v \in Nat : u = Two[k] /\ v = Two[j - k] /\ u # 0
    BY <2>1, TwoIs
  <2> QED BY <1>5, <2>1, <2>2
<1>7. PICK P2 \in Nat, F2 \in Nat : /\ P2 = Two[l] /\ F2 = Two[j - l]
                                    /\ P = P2 * F2 /\ P2 # 0
  <2>1. j - l \in Nat /\ Two[j] = Two[j - l] * Two[l]
    BY <1>4, TwoLess
  <2>2. PICK u \in Nat, v \in Nat : u = Two[l] /\ v = Two[j - l] /\ u # 0
    BY <2>1, TwoIs
  <2> QED BY <1>5, <2>1, <2>2
<1>8. PICK u \in Nat, p \in Nat : u = m * F1 + n * F2 /\ p = a + c
  OBVIOUS
<1>9. Near(N, u, P, p, b, 7)
  BY <1>1, <1>2, <1>3, <1>6, <1>7, <1>8, NearPlus
<1>0. 7 \in Nat /\ 2 * 7 <= N
  BY <1>1
<1>10. u * b <= 2 * (p * P)
  BY <1>0, <1>1, <1>9, NearValue
<1>11. u <= N * N
  <2>1. CASE p = 0
    <3>1. u * b <= 0
      BY <1>10, <2>1
    <3>2. u * b <= 0 * b
      BY <3>1
    <3>3. u <= 0
      BY <3>2, CancelLe
    <3> QED BY <3>3
  <2>2. CASE p # 0
    <3>1. a # 0 /\ c # 0
      BY <1>8, <2>2
    \* The finer of the two floats has no more than N, and is worth 1/b at least.
    <3>2. P <= 2 * (N * b)
      <4>1. ASSUME NEW r \in Nat, r <= N, NEW f \in Nat, f # 0, Near(N, r, P, f, b, 7)
            PROVE  P <= 2 * (N * b)
        <5>1. f * P <= 2 * (r * b)
          BY <1>0, <1>1, <4>1, NearValue
        <5>2. r * b <= N * b /\ 1 * P <= f * P
          BY <4>1, TimesLe
        <5>3. PICK v \in Nat, w \in Nat, z \in Nat : v = r * b /\ w = N * b /\ z = f * P
          OBVIOUS
        <5> QED BY <5>1, <5>2, <5>3
      <4>2. CASE j = k
        <5>1. P = P1
          BY <1>5, <1>6, <4>2
        <5> QED BY <1>2, <1>6, <3>1, <4>1, <5>1
      <4>3. CASE j = l
        <5>1. P = P2
          BY <1>5, <1>7, <4>3
        <5> QED BY <1>3, <1>7, <3>1, <4>1, <5>1
      <4> QED BY <1>4, <4>2, <4>3
    <3>3. PICK v \in Nat, w \in Nat : v = N * b /\ w = p * v
      OBVIOUS
    <3>4. P * p <= (2 * v) * p
      BY <3>2, <3>3, TimesLe
    <3>5. u * b <= (4 * p) * v
      <4>1. (2 * v) * p = 2 * w /\ (4 * p) * v = 4 * w /\ P * p = p * P
        BY <3>3
      <4>2. PICK z \in Nat, t \in Nat : z = p * P /\ t = u * b
        OBVIOUS
      <4> QED BY <1>10, <3>4, <4>1, <4>2
    <3>6. (4 * p) * v <= N * v
      BY <1>1, <1>8, TimesLe
    <3>7. u * b <= (N * N) * b
      <4>1. N * v = (N * N) * b
        BY <3>3
      <4>2. PICK z \in Nat, s \in Nat, t \in Nat : z = (4 * p) * v /\ s = u * b /\ t = N * v
        OBVIOUS
      <4> QED BY <3>5, <3>6, <4>1, <4>2
    <3> QED BY <3>7, CancelLe
  <2> QED BY <2>1, <2>2
<1>12. IsFloat(Narrow(u, j), p, b, 15)
  <2>1. 2 * 7 <= Two[Bits] /\ 2 * 7 + 1 = 15 /\ 7 \in Nat
    OBVIOUS
  <2>2. u <= Two[Bits] * Two[Bits] /\ 2 * p < Two[Bits] * b /\ Near(Two[Bits], u, Two[j], p, b, 7)
    BY <1>1, <1>5, <1>8, <1>9, <1>11
  <2>3. IsFloat(Narrow(u, j), p, b, 2 * 7 + 1)
    BY <2>1, <2>2, NarrowIs
  <2> QED BY <2>1, <2>3
<1>13. Plus(x, y) = Narrow(u, j)
  <2>1. Max({x[2], y[2]}) = j /\ x[1] = m /\ y[1] = n /\ x[2] = k /\ y[2] = l
    BY <1>2, <1>3, <1>4
  <2> QED BY <1>6, <1>7, <1>8, <2>1, Zenon DEF Plus
<1> QED BY <1>8, <1>12, <1>13

\* What a quotient is, and how to know it from its bounds.
LEMMA DivBelow ==
  ASSUME NEW c \in Nat, NEW D \in Nat, D # 0
  PROVE  c \div D \in Nat /\ (c \div D) * D <= c
OBVIOUS

LEMMA DivIs ==
  ASSUME NEW c \in Nat, NEW D \in Nat, NEW i \in Nat, D * i <= c, c < D * i + D
  PROVE  c \div D = i
<1>1. D # 0
  OBVIOUS
<1>2. PICK n \in Nat, r \in Nat : n = c \div D /\ c = D * n + r /\ r < D
  BY <1>1
<1>3. PICK x \in Nat, y \in Nat : x = D * n /\ y = D * i
  OBVIOUS
<1>4. x < y + D /\ y < x + D
  BY <1>2, <1>3
<1>5. CASE n + 1 <= i
  <2>1. (n + 1) * D <= i * D
    BY <1>5, TimesLe
  <2>2. (n + 1) * D = x + D /\ i * D = y
    BY <1>3
  <2> QED BY <1>4, <2>1, <2>2
<1>6. CASE i + 1 <= n
  <2>1. (i + 1) * D <= n * D
    BY <1>6, TimesLe
  <2>2. (i + 1) * D = y + D /\ n * D = x
    BY <1>3
  <2> QED BY <1>4, <2>1, <2>2
<1> QED BY <1>2, <1>5, <1>6

\* m / P is within three fiftieths of 1 / Q of i / Q.
Close(m, P, i, Q) ==
    /\ 50 * (m * Q) <= 50 * (i * P) + 3 * P
    /\ 50 * (i * P) <= 50 * (m * Q) + 3 * P

\* Fifteen parts of N are that close when N is a thousand times the room needed.
LEMMA CloseIs ==
  ASSUME NEW N \in Nat, N # 0, NEW m \in Nat, NEW P \in Nat, NEW i \in Nat, NEW Q \in Nat,
         Near(N, m, P, i, Q, 15), NEW B \in Nat, i <= 4 * B, 1000 * B <= N
  PROVE  Close(m, P, i, Q)
<1>1. PICK x \in Nat, y \in Nat, s \in Nat : x = m * Q /\ y = i * P /\ s = B * P
  OBVIOUS
<1>2. N * x <= (N + 15) * y /\ (N - 15) * y <= N * x
  BY <1>1 DEF Near
<1>3. PICK u \in Nat, v \in Nat, w \in Nat : u = N * x /\ v = N * y /\ w = N * P
  OBVIOUS
<1>4. (N + 15) * y = v + 15 * y /\ (N - 15) * y = v - 15 * y
  BY <1>3
<1>5. y <= 4 * s /\ 1000 * s <= w
  <2>1. i * P <= (4 * B) * P /\ (1000 * B) * P <= N * P
    BY TimesLe
  <2>2. (4 * B) * P = 4 * s /\ (1000 * B) * P = 1000 * s
    BY <1>1
  <2> QED BY <1>1, <1>3, <2>1, <2>2
<1>6. 50 * u <= 50 * v + 3 * w /\ 50 * v <= 50 * u + 3 * w
  BY <1>2, <1>3, <1>4, <1>5
<1>7. (50 * x) * N <= (50 * y + 3 * P) * N /\ (50 * y) * N <= (50 * x + 3 * P) * N
  <2>1. /\ (50 * x) * N = 50 * u /\ (50 * y + 3 * P) * N = 50 * v + 3 * w
        /\ (50 * y) * N = 50 * v /\ (50 * x + 3 * P) * N = 50 * u + 3 * w
    BY <1>3
  <2> QED BY <1>6, <2>1
<1>8. 50 * x <= 50 * y + 3 * P /\ 50 * y <= 50 * x + 3 * P
  BY <1>7, CancelLe
<1> QED BY <1>1, <1>8 DEF Close

\* What is close to a multiple of 1 / Q and within one bit of another is meant to
\* be the same.
LEMMA SameInteger ==
  ASSUME NEW N \in Nat, N # 0, NEW m \in Nat, NEW P \in Nat, P # 0, NEW i \in Nat, NEW j \in Nat,
         NEW Q \in Nat, Close(m, P, i, Q), Near(N, m, P, j, Q, 1),
         NEW B \in Nat, B # 0, i <= 4 * B, 1000 * B <= N
  PROVE  j = i
<1>1. PICK x \in Nat, y \in Nat, z \in Nat, s \in Nat : x = m * Q /\ y = j * P /\ z = i * P /\ s = B * P
  OBVIOUS
<1>2. N * x <= (N + 1) * y /\ (N - 1) * y <= N * x
  BY <1>1 DEF Near
<1>3. PICK u \in Nat, v \in Nat, w \in Nat : u = N * x /\ v = N * y /\ w = N * P
  OBVIOUS
<1>4. (N + 1) * y = v + y /\ (N - 1) * y = v - y
  BY <1>3
<1>5. z <= 4 * s /\ 1000 * s <= w /\ P <= s
  <2>1. i * P <= (4 * B) * P /\ (1000 * B) * P <= N * P /\ 1 * P <= B * P
    BY TimesLe
  <2>2. (4 * B) * P = 4 * s /\ (1000 * B) * P = 1000 * s
    BY <1>1
  <2> QED BY <1>1, <1>3, <2>1, <2>2
<1>6. 50 * x <= 50 * z + 3 * P /\ 50 * z <= 50 * x + 3 * P
  BY <1>1 DEF Close
<1>7. y <= 2 * x
  <2>1. 1 \in Nat /\ 2 * 1 <= N
    OBVIOUS
  <2> QED BY <1>1, <2>1, NearValue
<1>8. 100 * u <= 100 * v + w /\ 100 * v <= 100 * u + w
  BY <1>2, <1>3, <1>4, <1>5, <1>6, <1>7
<1>9. (100 * x) * N <= (100 * y + P) * N /\ (100 * y) * N <= (100 * x + P) * N
  <2>1. /\ (100 * x) * N = 100 * u /\ (100 * y + P) * N = 100 * v + w
        /\ (100 * y) * N = 100 * v /\ (100 * x + P) * N = 100 * u + w
    BY <1>3
  <2> QED BY <1>8, <2>1
<1>10. 100 * x <= 100 * y + P /\ 100 * y <= 100 * x + P
  BY <1>9, CancelLe
<1>11. 100 * y <= 100 * z + 7 * P /\ 100 * z <= 100 * y + 7 * P
  BY <1>6, <1>10
<1>12. CASE j + 1 <= i
  <2>1. (j + 1) * P <= i * P
    BY <1>12, TimesLe
  <2>2. (j + 1) * P = y + P
    BY <1>1
  <2> QED BY <1>1, <1>11, <2>1, <2>2
<1>13. CASE i + 1 <= j
  <2>1. (i + 1) * P <= j * P
    BY <1>13, TimesLe
  <2>2. (i + 1) * P = z + P
    BY <1>1
  <2> QED BY <1>1, <1>11, <2>1, <2>2
<1> QED BY <1>12, <1>13

\* a / T is m / P to the nearest multiple of 1 / T.
Rounded(a, P, m, T) ==
    /\ 2 * (a * P) <= 2 * (m * T) + P
    /\ 2 * (m * T) <= 2 * (a * P) + P

\* What is close to i / Q is still nearest to it after it has been written to more
\* places, V for each of Q, or to as many.
Nearest(a, V, Z, i) == (2 * (a * Z) + V * Z) \div (2 * (V * Z)) = i

LEMMA StillNearest ==
  ASSUME NEW m \in Nat, NEW P \in Nat, P # 0, NEW i \in Nat, NEW Q \in Nat, Close(m, P, i, Q),
         NEW V \in Nat, V = 1 \/ V >= 10, NEW Z \in Nat, Z # 0, NEW a \in Nat,
         Rounded(a, P, m, V * Q)
  PROVE  Nearest(a, V, Z, i)
<1>1. PICK x \in Nat, z \in Nat, y \in Nat : x = m * Q /\ z = i * P /\ y = V * i
  OBVIOUS
<1>2. (50 * x) * V <= (50 * z + 3 * P) * V /\ (50 * z) * V <= (50 * x + 3 * P) * V
  <2>1. 50 * x <= 50 * z + 3 * P /\ 50 * z <= 50 * x + 3 * P
    BY <1>1 DEF Close
  <2> QED BY <2>1, TimesLe
<1>3. PICK s \in Nat, t \in Nat, p \in Nat, q \in Nat : s = x * V /\ t = z * V /\ p = P * V /\ q = a * P
  OBVIOUS
<1>4. 50 * s <= 50 * t + 3 * p /\ 50 * t <= 50 * s + 3 * p
  <2>1. /\ (50 * x) * V = 50 * s /\ (50 * z) * V = 50 * t
        /\ (50 * z + 3 * P) * V = 50 * t + 3 * p /\ (50 * x + 3 * P) * V = 50 * s + 3 * p
    BY <1>3
  <2> QED BY <1>2, <2>1
<1>5. 2 * q <= 2 * s + P /\ 2 * s <= 2 * q + P
  <2>1. m * (V * Q) = s
    BY <1>1, <1>3
  <2> QED BY <1>3, <2>1 DEF Rounded
<1>6. 100 * q <= 100 * t + 6 * p + 50 * P /\ 100 * t <= 100 * q + 6 * p + 50 * P
  BY <1>4, <1>5
<1>7. /\ (100 * a) * P <= (100 * y + 6 * V + 50) * P
      /\ (100 * y) * P <= (100 * a + 6 * V + 50) * P
  <2>1. y * P = t
    BY <1>1, <1>3
  <2>2. /\ (100 * a) * P = 100 * q /\ (100 * y) * P = 100 * (y * P)
        /\ (100 * y + 6 * V + 50) * P = 100 * (y * P) + 6 * p + 50 * P
        /\ (100 * a + 6 * V + 50) * P = 100 * q + 6 * p + 50 * P
    BY <1>3
  <2> QED BY <1>6, <2>1, <2>2
<1>8. 100 * a <= 100 * y + 6 * V + 50 /\ 100 * y <= 100 * a + 6 * V + 50
  BY <1>7, CancelLe
<1>9. 2 * y <= 2 * a + V /\ 2 * a + V + 1 <= 2 * y + 2 * V
  BY <1>8
<1>10. (2 * y) * Z <= (2 * a + V) * Z /\ (2 * a + V + 1) * Z <= (2 * y + 2 * V) * Z
  BY <1>9, TimesLe
<1>11. PICK b \in Nat, c \in Nat, d \in Nat : b = a * Z /\ c = V * Z /\ d = y * Z
  OBVIOUS
<1>12. 2 * d <= 2 * b + c /\ 2 * b + c + Z <= 2 * d + 2 * c
  <2>1. /\ (2 * y) * Z = 2 * d /\ (2 * a + V) * Z = 2 * b + c
        /\ (2 * a + V + 1) * Z = 2 * b + c + Z /\ (2 * y + 2 * V) * Z = 2 * d + 2 * c
    BY <1>11
  <2> QED BY <1>10, <2>1
<1>13. (2 * c) * i = 2 * d
  BY <1>1, <1>11
<1>14. (2 * b + c) \div (2 * c) = i
  <2>1. PICK D \in Nat, e \in Nat : D = 2 * c /\ e = 2 * b + c
    OBVIOUS
  <2>2. D * i <= e /\ e < D * i + D
    BY <1>12, <1>13, <2>1
  <2>3. e \div D = i
    BY <2>2, DivIs
  <2> QED BY <2>1, <2>3
<1> QED BY <1>11, <1>14 DEF Nearest

\* What SeedAmounts assumes, one constant at a time.
LEMMA Constants ==
  /\ Bits \in Nat /\ Bits # 0 /\ Unit \in Nat /\ Unit # 0 /\ Rate \in Nat /\ Rate # 0
  /\ Digits \in Nat /\ Digits # 0 /\ MinPrice \in Nat /\ MinPrice # 0
  /\ MaxPrice \in Nat /\ MaxPrice # 0 /\ Steps \in Nat /\ Steps # 0
  /\ Scale \in Nat /\ Scale <= Digits /\ MinPrice <= MaxPrice
<1>1. \A c \in {Bits, Unit, Rate, Digits, MinPrice, MaxPrice, Steps} : c \in Nat /\ c # 0
  BY AmountsAssumption
<1>2. Scale \in 0..Digits /\ MinPrice <= MaxPrice
  BY AmountsAssumption
<1>3. /\ Bits \in Nat /\ Bits # 0 /\ Unit \in Nat /\ Unit # 0 /\ Rate \in Nat /\ Rate # 0
      /\ Digits \in Nat /\ Digits # 0
  BY <1>1
<1>4. /\ MinPrice \in Nat /\ MinPrice # 0 /\ MaxPrice \in Nat /\ MaxPrice # 0
      /\ Steps \in Nat /\ Steps # 0
  BY <1>1
<1> QED BY <1>2, <1>3, <1>4

\* The float to d places.
LEMMA ToPlacesIs ==
  ASSUME NEW m \in Nat, NEW k \in Nat, NEW d \in Nat
  PROVE  ToPlaces(<<m, k>>, d) \in Nat /\ Rounded(ToPlaces(<<m, k>>, d), Two[k], m, Ten[d])
<1>1. PICK P \in Nat, T \in Nat : P = Two[k] /\ P # 0 /\ T = Ten[d]
  BY TwoIs, TenIs
<1>2. PICK x \in Nat, n \in Nat, D \in Nat : x = m * T /\ n = 2 * x + P /\ D = 2 * P /\ D # 0
  BY <1>1
<1>3. PICK a \in Nat, r \in Nat : a = n \div D /\ n = D * a + r /\ r < D
  BY <1>2
<1>4. PICK y \in Nat : y = a * P /\ D * a = 2 * y
  BY <1>2
<1>5. 2 * y <= 2 * x + P /\ 2 * x <= 2 * y + P
  BY <1>2, <1>3, <1>4
<1>6. ToPlaces(<<m, k>>, d) = a
  <2>1. <<m, k>>[1] = m /\ <<m, k>>[2] = k /\ Two[k + 1] = D
    BY <1>1, <1>2, TwoNext
  <2>2. 2 * m * T = 2 * x
    BY <1>2
  <2>3. 2 * m * Ten[d] + Two[k] = n
    BY <1>1, <1>2, <2>2
  <2>4. ToPlaces(<<m, k>>, d) = (2 * m * Ten[d] + Two[k]) \div Two[k + 1]
    BY <2>1 DEF ToPlaces
  <2> QED BY <1>3, <2>1, <2>3, <2>4
<1> QED BY <1>1, <1>2, <1>4, <1>5, <1>6 DEF Rounded

\* Two texts of one float stand for the same fraction.
LEMMA SameIs ==
  ASSUME NEW N \in Nat, NEW m \in Nat, NEW k \in Nat, NEW n \in Nat, NEW l \in Nat,
         SameFloat(<<n, l>>, <<m, k>>), NEW a \in Nat, NEW b \in Nat, NEW e \in Nat,
         Near(N, n, Two[l], a, b, e)
  PROVE  Near(N, m, Two[k], a, b, e)
<1>1. PICK j \in Nat : j = Max({l, k}) /\ k <= j /\ l <= j
  BY MaxOfTwo
<1>2. PICK P \in Nat, F \in Nat : P = Two[k] /\ F = Two[j - k] /\ F # 0 /\ Two[j] = F * P
  <2>1. j - k \in Nat /\ Two[j] = Two[j - k] * Two[k]
    BY <1>1, TwoLess
  <2> QED BY <2>1, TwoIs
<1>3. PICK R \in Nat, G \in Nat : R = Two[l] /\ G = Two[j - l] /\ Two[j] = G * R
  <2>1. j - l \in Nat /\ Two[j] = Two[j - l] * Two[l]
    BY <1>1, TwoLess
  <2> QED BY <2>1, TwoIs
<1>4. n * G = m * F
  <2>1. <<n, l>>[1] = n /\ <<n, l>>[2] = l /\ <<m, k>>[1] = m /\ <<m, k>>[2] = k
    OBVIOUS
  <2> QED BY <1>1, <1>2, <1>3, <2>1 DEF SameFloat
<1>5. G * R = F * P
  BY <1>2, <1>3
<1>6. PICK x \in Int, y \in Int, z \in Int :
         x = N * (n * b) /\ y = (N + e) * (a * R) /\ z = (N - e) * (a * R)
  OBVIOUS
<1>7. x * G <= y * G /\ z * G <= x * G
  BY <1>3, <1>6, TimesLe DEF Near
<1>8. PICK u \in Int, v \in Int, w \in Int :
         u = N * (m * b) /\ v = (N + e) * (a * P) /\ w = (N - e) * (a * P)
  OBVIOUS
<1>9. x * G = u * F /\ y * G = v * F /\ z * G = w * F
  <2>1. x * G = (N * b) * (n * G) /\ u * F = (N * b) * (m * F)
    BY <1>6, <1>8
  <2>2. y * G = ((N + e) * a) * (G * R) /\ v * F = ((N + e) * a) * (F * P)
    BY <1>6, <1>8
  <2>3. z * G = ((N - e) * a) * (G * R) /\ w * F = ((N - e) * a) * (F * P)
    BY <1>6, <1>8
  <2> QED BY <1>4, <1>5, <2>1, <2>2, <2>3
<1>10. u <= v /\ w <= u
  <2>1. u * F <= v * F /\ w * F <= u * F
    BY <1>7, <1>9
  <2> QED BY <1>2, <2>1, CancelLe
<1> QED BY <1>2, <1>8, <1>10 DEF Near

\* Room for the amounts: a thousand times the largest price, counted in tenths of
\* cents as Scale has them, fits in the mantissa.  float64 has it up to prices of
\* ninety million dollars.
Fits ==
    /\ \E w \in Nat : Ten[Scale] = Unit * Rate * w
    /\ 1000 * (MaxPrice * Ten[Scale]) <= Two[Bits]

\* What a column of Scale places would hold of a float is the number that it
\* stands for.
LEMMA AtScaleIs ==
  ASSUME 1000 * (MaxPrice * Ten[Scale]) <= Two[Bits], NEW x, NEW i \in Nat,
         i <= 4 * (MaxPrice * Ten[Scale]), IsFloat(x, i, Ten[Scale], 15)
  PROVE  AtScale(x) = i
<1>0. Width
  BY Constants DEF Width
<1>1. PICK N \in Nat, Q \in Nat, B \in Nat : /\ N = Two[Bits] /\ Q = Ten[Scale] /\ B = MaxPrice * Q
                                             /\ N # 0 /\ Q # 0
  BY Constants, TwoIs, TenIs
<1>2. B # 0 /\ Q <= B /\ 1000 * B <= N /\ i <= 4 * B
  <2>1. 1 * Q <= MaxPrice * Q
    BY Constants, TimesLe
  <2> QED BY <1>1, <2>1, Constants
<1>3. PICK m \in Nat, k \in Nat : x = <<m, k>> /\ Near(N, m, Two[k], i, Q, 15)
  BY <1>1 DEF IsFloat
<1>4. PICK P \in Nat : P = Two[k] /\ P # 0
  BY TwoIs
<1>5. Close(m, P, i, Q)
  BY <1>1, <1>2, <1>3, <1>4, CloseIs
<1> DEFINE J == {e \in 0..Digits : e = Digits \/ SameFloat(Round(ToPlaces(x, e), Ten[e]), x)}
<1>6. PICK d : d = Min(J)
  OBVIOUS
<1>7. d \in 0..Digits /\ d \in Nat /\ (d = Digits \/ SameFloat(Round(ToPlaces(x, d), Ten[d]), x))
  <2>1. Digits \in J /\ J \in SUBSET Nat
    BY Constants
  <2>2. d \in J
    BY <1>6, <2>1, MinIsThere
  <2> QED BY <2>2
<1>8. PICK a \in Nat, T \in Nat : /\ a = ToPlaces(x, d) /\ T = Ten[d] /\ T # 0
                                  /\ Rounded(a, P, m, T)
  BY <1>3, <1>4, <1>7, ToPlacesIs, TenIs
<1>9. PICK Z \in Nat, W \in Nat : Z = Ten[Digits - d] /\ W = Ten[Digits - Scale] /\ Z # 0 /\ W # 0
  <2>1. Digits - d \in Nat /\ Digits - Scale \in Nat
    BY <1>7, Constants
  <2> QED BY <2>1, TenIs
<1>10. AtScale(x) = (2 * (a * Z) + W) \div (2 * W)
  <2>1. Decimal(x) = a * Z
    BY <1>6, <1>8, <1>9, Zenon DEF Decimal
  <2> QED BY <1>9, <2>1 DEF AtScale
<1>11. CASE Scale <= d
  <2>1. PICK V \in Nat : V = Ten[d - Scale] /\ V # 0 /\ T = V * Q /\ d - Scale \in Nat
    <3>1. d - Scale \in Nat /\ Ten[d] = Ten[d - Scale] * Ten[Scale]
      BY <1>7, <1>11, Constants, TenLess
    <3> QED BY <1>1, <1>8, <3>1, TenIs
  <2>2. W = V * Z
    <3>1. PICK r \in Nat, s \in Nat, t \in Nat : r = d - Scale /\ s = Digits - d /\ t = Digits - Scale /\ t = r + s
      BY <1>7, <2>1, Constants
    <3>2. Ten[t] = Ten[r] * Ten[s]
      BY <3>1, TenSum
    <3> QED BY <1>9, <2>1, <3>1, <3>2
  <2>3. V = 1 \/ V >= 10
    <3>1. CASE d = Scale
      <4>1. d - Scale = 0
        BY <3>1, Constants
      <4> QED BY <2>1, <4>1, TenPowers
    <3>2. CASE d # Scale
      <4>1. PICK r \in Nat : r = (d - Scale) - 1 /\ d - Scale = r + 1
        BY <1>7, <1>11, <2>1, <3>2, Constants
      <4>2. Ten[r] \in Nat /\ Ten[r] # 0 /\ V = 10 * Ten[r]
        BY <2>1, <4>1, TenIs, TenNext
      <4> QED BY <4>2
    <3> QED BY <3>1, <3>2
  <2>4. Rounded(a, P, m, V * Q)
    BY <1>8, <2>1
  <2>5. Nearest(a, V, Z, i)
    BY <1>4, <1>5, <1>9, <2>3, <2>4, StillNearest
  <2> QED BY <1>10, <2>2, <2>5 DEF Nearest
<1>12. CASE d < Scale
  <2>1. SameFloat(Round(a, T), x)
    BY <1>7, <1>8, <1>12, Constants
  <2>2. PICK U \in Nat : U = Ten[Scale - d] /\ U # 0 /\ Q = T * U /\ Scale - d \in Nat
    <3>1. Scale - d \in Nat /\ Ten[Scale] = Ten[Scale - d] * Ten[d]
      BY <1>7, <1>12, Constants, TenLess
    <3>2. PICK u \in Nat : u = Ten[Scale - d] /\ u # 0
      BY <3>1, TenIs
    <3>3. Q = T * u
      BY <1>1, <1>8, <3>1, <3>2
    <3> QED BY <3>1, <3>2, <3>3
  <2>3. T <= Q
    <3>1. 1 * T <= U * T
      BY <2>2, TimesLe
    <3>2. U * T = Q
      BY <2>2
    <3> QED BY <3>1, <3>2
  <2>4. a < N
    <3>1. PICK s \in Nat, z \in Nat, y \in Nat, v \in Nat : s = B * P /\ z = i * P /\ y = m * Q /\ v = m * T
      OBVIOUS
    <3>2. i * P <= (4 * B) * P /\ T * m <= Q * m
      BY <1>2, <2>3, TimesLe
    <3>3. (4 * B) * P = 4 * s /\ T * m = v /\ Q * m = y
      BY <3>1
    <3>4. 50 * y <= 50 * z + 3 * P
      BY <1>5, <3>1 DEF Close
    <3>5. a * P <= 4 * s + 2 * P
      <4>1. PICK q \in Nat : q = a * P
        OBVIOUS
      <4>2. 2 * q <= 2 * v + P
        BY <1>8, <3>1, <4>1 DEF Rounded
      <4>3. z <= 4 * s /\ v <= y
        BY <3>1, <3>2, <3>3
      <4> QED BY <3>4, <4>1, <4>2, <4>3
    <3>6. a * P <= (4 * B + 2) * P
      <4>1. (4 * B + 2) * P = 4 * s + 2 * P
        BY <3>1
      <4> QED BY <3>5, <4>1
    <3>7. a <= 4 * B + 2
      BY <1>4, <3>6, CancelLe
    <3> QED BY <1>2, <3>7
  <2>5. a < T * N /\ (a = 0 \/ T <= 2 * (a * N))
    <3>1. N <= T * N /\ (a # 0 => N <= a * N)
      BY <1>8, TimesMore
    <3>3. PICK u \in Nat, v \in Nat : u = T * N /\ v = a * N
      OBVIOUS
    <3> QED BY <1>2, <2>3, <2>4, <3>1, <3>3
  <2>6. PICK n \in Nat, l \in Nat : Round(a, T) = <<n, l>> /\ Near(N, n, Two[l], a, T, 1)
    BY <1>0, <1>1, <1>8, <2>5, RoundNear
  <2>7. Near(N, m, P, a, T, 1)
    <3>1. SameFloat(<<n, l>>, <<m, k>>)
      BY <1>3, <2>1, <2>6
    <3> QED BY <1>4, <2>6, <3>1, SameIs
  <2>8. PICK j \in Nat : j = a * U /\ Near(N, m, P, j, Q, 1)
    <3>1. Near(N, m, P, a * U, T * U, 1)
      BY <2>2, <2>7, NearExpand
    <3>2. a * U \in Nat
      BY <2>2
    <3> QED BY <2>2, <3>1, <3>2
  <2>9. j = i
    BY <1>1, <1>2, <1>4, <1>5, <2>8, SameInteger
  <2>10. Z = U * W
    <3>1. PICK r \in Nat, s \in Nat, t \in Nat : r = Scale - d /\ s = Digits - Scale /\ t = Digits - d /\ t = r + s
      BY <1>7, <2>2, Constants
    <3>2. Ten[t] = Ten[r] * Ten[s]
      BY <3>1, TenSum
    <3> QED BY <1>9, <2>2, <3>1, <3>2
  <2>11. (2 * (a * Z) + W) \div (2 * W) = i
    <3>1. PICK s \in Nat, D \in Nat, c \in Nat : s = i * W /\ D = 2 * W /\ c = 2 * s + W
      OBVIOUS
    <3>2. a * Z = s
      BY <2>8, <2>9, <2>10, <3>1
    <3>3. D * i = 2 * s
      BY <3>1
    <3>4. D * i <= c /\ c < D * i + D
      BY <1>9, <3>1, <3>3
    <3>5. c \div D = i
      BY <3>4, DivIs
    <3> QED BY <3>1, <3>2, <3>5
  <2> QED BY <1>10, <2>11
<1> QED BY <1>7, <1>11, <1>12, Constants

LEMMA RoundIs ==
  ASSUME Width, NEW p \in Nat, NEW q \in Nat, q # 0, p < q * Two[Bits],
         p = 0 \/ q <= 2 * (p * Two[Bits])
  PROVE  IsFloat(Round(p, q), p, q, 1)
BY RoundNear DEF IsFloat

\* A float that stands for a fraction stands for it expanded, and with more error.
LEMMA FloatExpand ==
  ASSUME Width, NEW x, NEW a \in Nat, NEW b \in Nat, NEW e \in Nat, NEW d \in Nat, e <= d,
         IsFloat(x, a, b, e), NEW c \in Nat
  PROVE  IsFloat(x, a * c, b * c, d)
<1>1. PICK N \in Nat : N = Two[Bits]
  BY Halves
<1>2. PICK m \in Nat, k \in Nat : x = <<m, k>> /\ m <= N /\ Near(N, m, Two[k], a, b, e)
  BY <1>1 DEF IsFloat
<1>3. PICK P \in Nat : P = Two[k]
  BY TwoIs
<1>4. Near(N, m, P, a * c, b * c, e)
  BY <1>2, <1>3, NearExpand
<1>5. PICK u \in Nat, v \in Nat : u = a * c /\ v = b * c
  OBVIOUS
<1>6. Near(N, m, P, u, v, d)
  BY <1>4, <1>5, NearWider
<1> QED BY <1>1, <1>2, <1>3, <1>5, <1>6 DEF IsFloat

\* The room there is, term by term.
Room(N, Q, w) ==
    /\ N = Two[Bits] /\ Q = Ten[Scale] /\ Q = Unit * Rate * w /\ w # 0
    /\ 1000 * (MaxPrice * Q) <= N
    /\ Unit <= Q /\ Rate <= Q /\ Unit * Rate <= Q /\ Q <= MaxPrice * Q /\ MaxPrice <= MaxPrice * Q
    /\ Q # 0 /\ 1000 <= N

LEMMA RoomIs ==
  ASSUME Fits
  PROVE  \E N, Q, w \in Nat : Room(N, Q, w)
<1>1. PICK w \in Nat : Ten[Scale] = Unit * Rate * w /\ 1000 * (MaxPrice * Ten[Scale]) <= Two[Bits]
  BY DEF Fits
<1>2. PICK N \in Nat, Q \in Nat : N = Two[Bits] /\ Q = Ten[Scale] /\ Q # 0
  BY Constants, TwoIs, TenIs
<1>3. PICK r \in Nat, u \in Nat, M \in Nat :
         r = Rate /\ u = Unit /\ M = MaxPrice /\ r # 0 /\ u # 0 /\ M # 0
  BY Constants
<1>4. Q = (u * r) * w /\ w # 0
  <2>1. Q = u * r * w
    BY <1>1, <1>2, <1>3
  <2> QED BY <1>2, <2>1
<1>5. PICK s \in Nat : s = u * r /\ s # 0 /\ Q = s * w
  BY <1>3, <1>4
<1>6. s <= w * s /\ u <= r * u /\ r <= u * r
  BY <1>3, <1>4, TimesMore
<1>7. w * s = Q /\ r * u = s
  BY <1>5
<1>8. PICK B \in Nat : B = M * Q
  OBVIOUS
<1>9. Q <= B /\ M <= B
  <2>1. Q <= M * Q /\ M <= Q * M /\ Q * M = M * Q
    BY <1>2, <1>3, TimesMore
  <2> QED BY <1>8, <2>1
<1>10. 1000 * B <= N /\ 1 <= B
  BY <1>1, <1>2, <1>3, <1>8, <1>9
<1>11. N = Two[Bits] /\ Q = Ten[Scale] /\ Q = Unit * Rate * w
  BY <1>1, <1>2
<1>12. 1000 * (MaxPrice * Q) <= N /\ Q <= MaxPrice * Q /\ MaxPrice <= MaxPrice * Q
  BY <1>3, <1>8, <1>9, <1>10
<1>13. Unit <= Q /\ Rate <= Q /\ Unit * Rate <= Q
  BY <1>3, <1>5, <1>6, <1>7
<1>14. Room(N, Q, w)
  BY <1>2, <1>4, <1>10, <1>11, <1>12, <1>13 DEF Room
<1> QED BY <1>14

\* What the floats of a document stand for: the price a fraction drawn between
\* the bounds, the others the c units it was cut to.
AmountsInv ==
    /\ low \in MinPrice..MaxPrice /\ high \in low..MaxPrice
    /\ step \in {"draw", "cut", "tax", "total", "booked"}
    /\ step = "cut" => \E j \in Nat : j <= MaxPrice * Steps /\ IsFloat(price, j, Unit * Steps, 1)
    /\ step \in {"tax", "total", "booked"} =>
          \E c \in Nat : /\ c <= 2 * MaxPrice /\ IsFloat(net, c, Unit, 1)
                         /\ step # "tax" => IsFloat(gst, c, Unit * Rate, 7)
                         /\ step = "booked" => IsFloat(gross, c * (Rate + 1), Unit * Rate, 15)

LEMMA DrawnPrice ==
  ASSUME Fits, NEW j \in Nat, MinPrice * Steps <= j, j <= MaxPrice * Steps
  PROVE  IsFloat(Round(j, Unit * Steps), j, Unit * Steps, 1)
<1>1. PICK N \in Nat, Q \in Nat, w \in Nat : Room(N, Q, w)
  BY RoomIs
<1>2. PICK u \in Nat, t \in Nat, M \in Nat, q \in Nat :
         u = Unit /\ t = Steps /\ M = MaxPrice /\ q = u * t /\ u # 0 /\ t # 0
  BY Constants
<1>3. q # 0
  BY <1>2
<1>4. t <= j
  <2>1. t <= MinPrice * t
    BY <1>2, Constants, TimesMore
  <2>2. PICK s \in Nat : s = MinPrice * t
    BY Constants
  <2> QED BY <1>2, <2>1, <2>2
<1>5. u <= N /\ M < N /\ N # 0
  BY <1>1, <1>2 DEF Room
<1>6. PICK x \in Nat, y \in Nat, z \in Nat : x = t * N /\ y = q * N /\ z = j * N
  OBVIOUS
<1>7. j < y
  <2>1. x <= y
    <3>1. x <= u * x /\ u * x = y
      BY <1>2, <1>6, TimesMore
    <3> QED BY <3>1
  <2>2. (M + 1) * t <= N * t
    BY <1>5, TimesLe
  <2>3. (M + 1) * t = M * t + t /\ N * t = x
    BY <1>6
  <2>4. PICK s \in Nat : s = M * t
    OBVIOUS
  <2> QED BY <1>2, <2>1, <2>2, <2>3, <2>4
<1>8. q <= 2 * z
  <2>1. u * t <= N * t /\ t * N <= j * N
    BY <1>4, <1>5, TimesLe
  <2>2. N * t = x /\ u * t = q
    BY <1>2, <1>6
  <2> QED BY <1>6, <2>1, <2>2
<1>9. IsFloat(Round(j, q), j, q, 1)
  <2>1. Width /\ j < q * Two[Bits] /\ q <= 2 * (j * Two[Bits])
    BY <1>1, <1>6, <1>7, <1>8, Constants DEF Room, Width
  <2> QED BY <1>3, <2>1, RoundIs
<1> QED BY <1>2, <1>9

LEMMA CutPrice ==
  ASSUME Fits, NEW j \in Nat, j <= MaxPrice * Steps, NEW x, IsFloat(x, j, Unit * Steps, 1)
  PROVE  LET c == Floor(Times(x, Round(Unit, 1)))
         IN  c \in Nat /\ c <= 2 * MaxPrice /\ IsFloat(Round(c, Unit), c, Unit, 1)
<1>0. Width
  BY Constants DEF Width
<1>1. PICK N \in Nat, Q \in Nat, w \in Nat : Room(N, Q, w)
  BY RoomIs
<1>2. PICK u \in Nat, t \in Nat, M \in Nat, q \in Nat :
         u = Unit /\ t = Steps /\ M = MaxPrice /\ q = u * t /\ u # 0 /\ t # 0
  BY Constants
<1>3. N = Two[Bits] /\ N # 0 /\ 1000 <= N /\ u < N /\ 1000 * M <= N /\ M # 0
  BY <1>1, <1>2, Constants DEF Room
<1>4. IsFloat(Round(u, 1), u, 1, 1)
  <2>1. u < 1 * Two[Bits]
    BY <1>3
  <2>2. 1 <= 2 * (u * Two[Bits])
    <3>1. N <= u * N /\ u * N \in Nat
      BY <1>2, TimesMore
    <3> QED BY <1>3, <3>1
  <2> QED BY <1>0, <2>1, <2>2, RoundIs
<1>5. PICK a \in Nat, b \in Nat : a = j * u /\ b = q * 1
  OBVIOUS
<1>6. b # 0 /\ b = u * t
  BY <1>2, <1>5
<1>7. a <= M * b
  <2>1. j * u <= (M * t) * u
    BY <1>2, TimesLe
  <2>2. (M * t) * u = M * b
    BY <1>6
  <2> QED BY <1>5, <2>1, <2>2
<1>8. 2 * a < N * b
  <2>1. (2 * M + 1) * b <= N * b
    BY <1>3, TimesLe
  <2>2. PICK s \in Nat, r \in Nat : s = M * b /\ r = N * b
    OBVIOUS
  <2>3. (2 * M + 1) * b = 2 * s + b
    BY <2>2
  <2> QED BY <1>6, <1>7, <2>1, <2>2, <2>3
<1>9. PICK y : y = Times(x, Round(Unit, 1)) /\ IsFloat(y, a, b, 7)
  <2>1. 6 <= Two[Bits] /\ 2 * (j * u) < Two[Bits] * (q * 1)
    BY <1>3, <1>5, <1>8
  <2>2. IsFloat(x, j, q, 1)
    BY <1>2
  <2>3. IsFloat(Times(x, Round(u, 1)), j * u, q * 1, 7)
    BY <1>0, <1>4, <2>1, <2>2, TimesIs
  <2> QED BY <1>2, <1>5, <2>3
<1>10. PICK m \in Nat, k \in Nat : y = <<m, k>> /\ Near(N, m, Two[k], a, b, 7)
  BY <1>3, <1>9 DEF IsFloat
<1>11. PICK P \in Nat : P = Two[k] /\ P # 0
  BY TwoIs
<1>12. m <= (2 * M) * P
  <2>1. 7 \in Nat /\ 2 * 7 <= N
    BY <1>3
  <2>2. m * b <= 2 * (a * P)
    BY <1>3, <1>10, <1>11, <2>1, NearValue
  <2>3. a * P <= (M * b) * P
    BY <1>7, TimesLe
  <2>4. PICK r \in Nat, s \in Nat, v \in Nat : r = a * P /\ s = (M * b) * P /\ v = m * b
    OBVIOUS
  <2>5. 2 * s = ((2 * M) * P) * b
    BY <2>4
  <2>6. m * b <= ((2 * M) * P) * b
    BY <2>2, <2>3, <2>4, <2>5
  <2> QED BY <1>6, <2>6, CancelLe
<1>13. PICK c \in Nat : c = m \div P /\ c * P <= m
  BY <1>11, DivBelow
<1>14. c <= 2 * M
  <2>1. PICK v \in Nat, r \in Nat : v = c * P /\ r = (2 * M) * P
    OBVIOUS
  <2>2. c * P <= (2 * M) * P
    BY <1>12, <1>13, <2>1
  <2> QED BY <1>11, <2>2, CancelLe
<1>15. c = Floor(Times(x, Round(Unit, 1)))
  BY <1>9, <1>10, <1>11, <1>13 DEF Floor
<1>16. IsFloat(Round(c, u), c, u, 1)
  <2>1. c < u * Two[Bits]
    <3>1. N <= u * N
      BY <1>2, TimesMore
    <3>2. PICK s \in Nat : s = u * N
      OBVIOUS
    <3> QED BY <1>3, <1>14, <3>1, <3>2
  <2>2. c = 0 \/ u <= 2 * (c * Two[Bits])
    <3>1. c # 0 => N <= c * N
      BY TimesMore
    <3>2. PICK s \in Nat : s = c * N
      OBVIOUS
    <3> QED BY <1>3, <3>1, <3>2
  <2> QED BY <1>0, <1>2, <2>1, <2>2, RoundIs
<1> QED BY <1>2, <1>14, <1>15, <1>16

LEMMA Taxed ==
  ASSUME Fits, NEW c \in Nat, c <= 2 * MaxPrice, NEW x, IsFloat(x, c, Unit, 1)
  PROVE  IsFloat(Times(x, Round(1, Rate)), c, Unit * Rate, 7)
<1>0. Width
  BY Constants DEF Width
<1>1. PICK N \in Nat, Q \in Nat, w \in Nat : Room(N, Q, w)
  BY RoomIs
<1>2. PICK u \in Nat, r \in Nat, M \in Nat : u = Unit /\ r = Rate /\ M = MaxPrice /\ u # 0 /\ r # 0
  BY Constants
<1>3. N = Two[Bits] /\ N # 0 /\ 1000 <= N /\ r <= N /\ 1000 * M <= N /\ M # 0
  BY <1>1, <1>2, Constants DEF Room
<1>4. N <= r * N
  BY <1>2, TimesMore
<1>5. IsFloat(Round(1, r), 1, r, 1)
  <2>1. PICK s \in Nat : s = r * N
    OBVIOUS
  <2>2. 1 < r * Two[Bits] /\ r <= 2 * (1 * Two[Bits])
    BY <1>3, <1>4, <2>1
  <2> QED BY <1>0, <1>2, <2>2, RoundIs
<1>6. 2 * (c * 1) < Two[Bits] * (u * r)
  <2>1. PICK s \in Nat : s = u * r /\ s # 0
    BY <1>2
  <2>2. N <= s * N /\ s * N = N * s /\ N * s \in Nat
    BY <2>1, TimesMore
  <2> QED BY <1>2, <1>3, <2>1, <2>2
<1>7. IsFloat(Times(x, Round(1, r)), c * 1, u * r, 7)
  <2>1. 6 <= Two[Bits] /\ IsFloat(x, c, u, 1)
    BY <1>2, <1>3
  <2> QED BY <1>0, <1>5, <1>6, <2>1, TimesIs
<1> QED BY <1>2, <1>7

\* The units, the tax on them and both together, counted as Scale has them.
LEMMA Counted ==
  ASSUME Fits, NEW c \in Nat, c <= 2 * MaxPrice
  PROVE  /\ c * (Rate + 1) \in Nat /\ c * Rate \in Nat /\ c * (Rate + 1) = c * Rate + c
         /\ 4 * (c * (Rate + 1)) <= Two[Bits] /\ 2 * (c * (Rate + 1)) < Two[Bits] * (Unit * Rate)
         /\ \A w \in Nat : Ten[Scale] = Unit * Rate * w =>
               c * (Rate + 1) * w <= 4 * (MaxPrice * Ten[Scale])
<1>1. PICK N \in Nat, Q \in Nat, w \in Nat : Room(N, Q, w)
  BY RoomIs
<1>2. PICK u \in Nat, r \in Nat, M \in Nat : u = Unit /\ r = Rate /\ M = MaxPrice /\ u # 0 /\ r # 0
  BY Constants
<1>3. PICK a \in Nat, s \in Nat, y \in Nat : a = c * (r + 1) /\ s = u * r /\ y = M * s /\ s # 0
  BY <1>2
<1>4. a <= 4 * y
  <2>1. (r + 1) * c <= (2 * r) * c /\ c * (2 * r) <= (2 * M) * (2 * r)
    BY <1>2, TimesLe
  <2>2. PICK z \in Nat, v \in Nat : z = M * r /\ v = c * r
    OBVIOUS
  <2>3. (r + 1) * c = a /\ (2 * r) * c = 2 * v /\ c * (2 * r) = 2 * v /\ (2 * M) * (2 * r) = 4 * z
    BY <1>3, <2>2
  <2>4. z <= u * z /\ u * z = y
    BY <1>2, <1>3, <2>2, TimesMore
  <2> QED BY <2>1, <2>2, <2>3, <2>4
<1>5. 1000 * y <= N /\ N # 0
  <2>1. s <= Q /\ 1000 * (M * Q) <= N /\ 1000 <= N
    BY <1>1, <1>2, <1>3 DEF Room
  <2>2. s * M <= Q * M
    BY <2>1, TimesLe
  <2>3. PICK z \in Nat : z = M * Q
    OBVIOUS
  <2>4. s * M = y /\ Q * M = z
    BY <1>3, <2>3
  <2> QED BY <2>1, <2>2, <2>3, <2>4
<1>6. 4 * a <= N /\ 2 * a < N * s
  <2>1. N <= s * N /\ s * N = N * s /\ N * s \in Nat
    BY <1>3, TimesMore
  <2> QED BY <1>4, <1>5, <2>1
<1>7. ASSUME NEW v \in Nat, Ten[Scale] = Unit * Rate * v
      PROVE  c * (Rate + 1) * v <= 4 * (MaxPrice * Ten[Scale])
  <2>1. a * v <= (4 * y) * v
    BY <1>4, TimesLe
  <2>2. Q = s * v
    <3>1. Q = u * r * v
      BY <1>1, <1>2, <1>7 DEF Room
    <3> QED BY <1>3, <3>1
  <2>3. (4 * y) * v = 4 * (M * Q)
    BY <1>3, <2>2
  <2> QED BY <1>1, <1>2, <1>3, <2>1, <2>3 DEF Room
<1>8. a = c * r + c /\ c * r \in Nat
  BY <1>3
<1>9. N = Two[Bits]
  BY <1>1 DEF Room
<1> QED BY <1>2, <1>3, <1>6, <1>7, <1>8, <1>9

LEMMA Totalled ==
  ASSUME Fits, NEW c \in Nat, c <= 2 * MaxPrice, NEW x, IsFloat(x, c, Unit, 1),
         NEW y, IsFloat(y, c, Unit * Rate, 7)
  PROVE  IsFloat(Plus(x, y), c * (Rate + 1), Unit * Rate, 15)
<1>0. Width
  BY Constants DEF Width
<1>1. PICK r \in Nat, u \in Nat : r = Rate /\ u = Unit /\ r # 0 /\ u # 0
  BY Constants
<1>2. PICK a \in Nat, b \in Nat : a = c * r /\ b = u * r
  OBVIOUS
<1>3. b # 0 /\ (a = 0 <=> c = 0)
  BY <1>1, <1>2
<1>4. IsFloat(x, a, b, 7)
  <2>1. 1 \in Nat /\ 7 \in Nat /\ 1 <= 7 /\ IsFloat(x, c, u, 1)
    BY <1>1
  <2>2. IsFloat(x, c * r, u * r, 7)
    BY <1>0, <2>1, FloatExpand
  <2> QED BY <1>2, <2>2
<1>5. IsFloat(y, c, b, 7)
  BY <1>1, <1>2
<1>6. c * (Rate + 1) = a + c /\ 4 * (a + c) <= Two[Bits] /\ 2 * (a + c) < Two[Bits] * b
  BY <1>1, <1>2, Counted
<1>7. 14 <= Two[Bits]
  BY RoomIs DEF Room
<1>8. IsFloat(Plus(x, y), a + c, b, 15)
  BY <1>0, <1>3, <1>4, <1>5, <1>6, <1>7, PlusIs
<1> QED BY <1>1, <1>2, <1>6, <1>8

\* So the three amounts are, at that scale, what they stand for, and balance.
LEMMA BookedBalance ==
  ASSUME Fits, AmountsInv
  PROVE  BalancesAtScale
<1> SUFFICES ASSUME step = "booked" PROVE AtScale(gross) = AtScale(net) + AtScale(gst)
  BY DEF BalancesAtScale
<1>0. Width
  BY Constants DEF Width
<1>1. PICK w \in Nat : Ten[Scale] = Unit * Rate * w /\ 1000 * (MaxPrice * Ten[Scale]) <= Two[Bits]
  BY DEF Fits
<1>2. PICK c \in Nat : /\ c <= 2 * MaxPrice /\ IsFloat(net, c, Unit, 1)
                       /\ IsFloat(gst, c, Unit * Rate, 7)
                       /\ IsFloat(gross, c * (Rate + 1), Unit * Rate, 15)
  BY DEF AmountsInv
<1>3. PICK r \in Nat, u \in Nat, B \in Nat, Q \in Nat :
         r = Rate /\ u = Unit /\ B = MaxPrice * Q /\ Q = Ten[Scale]
  <2>1. PICK q \in Nat : q = Ten[Scale]
    BY Constants, TenIs
  <2>2. MaxPrice * q \in Nat
    BY Constants
  <2> QED BY <2>1, <2>2, Constants
<1>4. PICK i \in Nat, j \in Nat, k \in Nat :
         /\ i = c * (r * w) /\ j = c * w /\ k = (c * (r + 1)) * w /\ k = i + j
  <2>1. (c * (r + 1)) * w = c * (r * w) + c * w
    OBVIOUS
  <2> QED BY <2>1
<1>5. k <= 4 * B /\ i <= 4 * B /\ j <= 4 * B
  <2>1. k <= 4 * B
    BY <1>1, <1>2, <1>3, <1>4, Counted
  <2> QED BY <1>4, <2>1
<1>6. u * (r * w) = Q /\ (u * r) * w = Q
  <2>1. Q = u * r * w
    BY <1>1, <1>3
  <2> QED BY <2>1
<1>7. /\ 1 \in Nat /\ 7 \in Nat /\ 15 \in Nat /\ 1 <= 15 /\ 7 <= 15 /\ 15 <= 15
      /\ r * w \in Nat /\ u * r \in Nat /\ c * (r + 1) \in Nat
  OBVIOUS
<1>8. IsFloat(net, i, Q, 15)
  <2>1. IsFloat(net, c, u, 1)
    BY <1>2, <1>3
  <2>2. IsFloat(net, c * (r * w), u * (r * w), 15)
    BY <1>0, <1>7, <2>1, FloatExpand
  <2> QED BY <1>4, <1>6, <2>2
<1>9. IsFloat(gst, j, Q, 15)
  <2>1. IsFloat(gst, c, u * r, 7)
    BY <1>2, <1>3
  <2>2. IsFloat(gst, c * w, (u * r) * w, 15)
    BY <1>0, <1>7, <2>1, FloatExpand
  <2> QED BY <1>4, <1>6, <2>2
<1>10. IsFloat(gross, k, Q, 15)
  <2>1. PICK g \in Nat, b \in Nat : g = c * (r + 1) /\ b = u * r /\ IsFloat(gross, g, b, 15)
    BY <1>2, <1>3, <1>7
  <2>2. IsFloat(gross, g * w, b * w, 15)
    <3>1. PICK e \in Nat, d \in Nat : e = 15 /\ d = 15 /\ e <= d
      OBVIOUS
    <3>2. IsFloat(gross, g, b, e)
      BY <2>1, <3>1
    <3>3. IsFloat(gross, g * w, b * w, d)
      BY <1>0, <3>1, <3>2, FloatExpand
    <3> QED BY <3>1, <3>3
  <2> QED BY <1>4, <1>6, <2>1, <2>2
<1>11. AtScale(net) = i /\ AtScale(gst) = j /\ AtScale(gross) = k
  <2>1. ASSUME NEW x, NEW n \in Nat, n <= 4 * B, IsFloat(x, n, Q, 15) PROVE AtScale(x) = n
    BY <1>1, <1>3, <2>1, AtScaleIs
  <2> QED BY <1>5, <1>8, <1>9, <1>10, <2>1
<1> QED BY <1>4, <1>11

\* For a mantissa wide enough for the prices, the postings of every document
\* balance once they are rounded.
THEOREM AmountsBalance ==
  ASSUME Fits
  PROVE  AmountsSpec => []BalancesAtScale
<1>1. AmountsInit => AmountsInv
  BY DEF AmountsInit, AmountsInv
<1>2. ASSUME AmountsInv, AmountsNext PROVE AmountsInv'
  <2>1. low \in MinPrice..MaxPrice /\ high \in low..MaxPrice
    BY <1>2 DEF AmountsInv
  <2>2. UNCHANGED <<low, high>>
    BY <1>2 DEF AmountsNext, Draw, Cut, Tax, Total
  <2>3. CASE Draw
    <3>1. PICK j \in (low * Steps)..(high * Steps) : price' = Round(j, Unit * Steps)
      BY <2>3 DEF Draw
    <3>2. j \in Nat /\ MinPrice * Steps <= j /\ j <= MaxPrice * Steps
      <4>1. PICK a \in Nat, b \in Nat, s \in Nat : a = low /\ b = high /\ s = Steps
        BY <2>1, Constants
      <4>2. MinPrice * s <= a * s /\ b * s <= MaxPrice * s
        BY <2>1, <4>1, Constants, TimesLe
      <4>3. PICK v \in Nat, w \in Nat, y \in Nat, z \in Nat :
               v = MinPrice * s /\ w = a * s /\ y = b * s /\ z = MaxPrice * s
        BY Constants
      <4> QED BY <3>1, <4>1, <4>2, <4>3
    <3>3. IsFloat(price', j, Unit * Steps, 1)
      BY <1>2, <3>1, <3>2, DrawnPrice
    <3>4. step' = "cut"
      BY <2>3 DEF Draw
    <3> QED BY <2>1, <2>2, <3>2, <3>3, <3>4 DEF AmountsInv
  <2>4. CASE Cut
    <3>1. step = "cut" /\ step' = "tax" /\ net' = Round(Floor(Times(price, Round(Unit, 1))), Unit)
      BY <2>4 DEF Cut
    <3>2. PICK j \in Nat : j <= MaxPrice * Steps /\ IsFloat(price, j, Unit * Steps, 1)
      BY <1>2, <3>1 DEF AmountsInv
    <3>3. \E c \in Nat : c <= 2 * MaxPrice /\ IsFloat(net', c, Unit, 1)
      BY <1>2, <3>1, <3>2, CutPrice
    <3> QED BY <2>1, <2>2, <3>1, <3>3 DEF AmountsInv
  <2>5. CASE Tax
    <3>1. step = "tax" /\ step' = "total" /\ net' = net /\ gst' = Times(net, Round(1, Rate))
      BY <2>5 DEF Tax
    <3>2. PICK c \in Nat : c <= 2 * MaxPrice /\ IsFloat(net, c, Unit, 1)
      BY <1>2, <3>1 DEF AmountsInv
    <3>3. IsFloat(gst', c, Unit * Rate, 7)
      BY <1>2, <3>1, <3>2, Taxed
    <3> QED BY <2>1, <2>2, <3>1, <3>2, <3>3 DEF AmountsInv
  <2>6. CASE Total
    <3>1. step = "total" /\ step' = "booked" /\ net' = net /\ gst' = gst /\ gross' = Plus(net, gst)
      BY <2>6 DEF Total
    <3>2. PICK c \in Nat : /\ c <= 2 * MaxPrice /\ IsFloat(net, c, Unit, 1)
                           /\ IsFloat(gst, c, Unit * Rate, 7)
      BY <1>2, <3>1 DEF AmountsInv
    <3>3. IsFloat(gross', c * (Rate + 1), Unit * Rate, 15)
      BY <1>2, <3>1, <3>2, Totalled
    <3> QED BY <2>1, <2>2, <3>1, <3>2, <3>3 DEF AmountsInv
  <2> QED BY <1>2, <2>3, <2>4, <2>5, <2>6 DEF AmountsNext
<1>3. AmountsInv /\ [AmountsNext]_amountVars => AmountsInv'
  <2>1. AmountsInv /\ UNCHANGED amountVars => AmountsInv'
    BY DEF AmountsInv, amountVars
  <2> QED BY <1>2, <2>1
<1>4. AmountsInv => BalancesAtScale
  BY BookedBalance
<1> QED BY <1>1, <1>3, <1>4, PTL DEF AmountsSpec

=============================================================================
