------------------------------ MODULE SeedLoad ------------------------------
(***************************************************************************)
(* seed/main.go: load and unload of a dataset in the platform database.    *)
(* Neither uses a transaction: each statement commits on its own, so that  *)
(* executions of the tool interleave statement by statement, and one that  *)
(* stops half way leaves what it has done.  The plan of an execution is    *)
(* the sequence of statements its dataset asks for; an action runs one.    *)
(* Only the platform's tables are here: what load does in the tenant       *)
(* database, which is not idempotent, is in module TenantSeed.             *)
(***************************************************************************)
EXTENDS Integers, FiniteSets, SequencesExt

CONSTANTS
    Procs,      \* executions of the tool
    Datasets,   \* the datasets, see DatasetType
    NoSlug,     \* the empty slug
    Seeded,     \* users the migrations created, as a set of emails
    Stoppable,  \* executions that may be stopped, or lose the database
    Shaky,      \* executions whose lookups may fail
    Misreads,   \* executions that may find a file of their dataset unreadable
    MaxTenants, \* bound: rows of tenants ever inserted
    MaxStarts   \* bound: executions started

(***************************************************************************)
(* A dataset, one of fixtures/datasets:                                    *)
(*   multi    it has a tenants.yaml                                        *)
(*   slug     its name, the slug of its tenant in single-tenant mode       *)
(*   db       the flag --tenant-db-name of its load                        *)
(*   skip     its flag --skip-tenant-data                                  *)
(*   users    users.yaml: usable says that it has an email and a password  *)
(*   tenants  tenants.yaml, where slug is the slug in use, NoSlug when the *)
(*            file has none and none comes of the display name, and        *)
(*            written says that the file has it                            *)
(***************************************************************************)
Account == [email: STRING, usable: BOOLEAN, admin: BOOLEAN, role: STRING]
Assignment == [email: STRING, role: STRING]
TenantEntry == [slug: STRING, written: BOOLEAN, users: Seq(Assignment)]
DatasetType ==
    [multi: BOOLEAN, slug: STRING, db: STRING, skip: BOOLEAN,
     users: Seq(Account), tenants: Seq(TenantEntry)]

ASSUME SeedLoadAssumption ==
    /\ Datasets \subseteq DatasetType /\ Datasets # {}
    /\ NoSlug \in STRING
    /\ \A d \in Datasets : d.slug # NoSlug /\ (d.multi <=> d.tenants # <<>>)
    /\ Seeded \subseteq STRING
    /\ Stoppable \subseteq Procs
    /\ Shaky \subseteq Procs
    /\ Misreads \subseteq Procs
    /\ MaxTenants \in Nat
    /\ MaxStarts \in Nat

VARIABLES
    tenants,   \* rows [id, slug, db]
    users,     \* users[e]: is_platform_admin of the user with email e
    members,   \* rows [user, tenant, role]
    pinned,    \* ids of tenants that a row without ON DELETE CASCADE refers to
    nextId,
    pc,        \* pc[p]: "idle", "load" or "unload"
    ds,        \* ds[p]: dataset at hand
    plan,      \* plan[p]: statements left
    tenantID,  \* tenantID[p]: id of the tenant last upserted
    exit,      \* exit[p]: status of the last execution
    others,    \* others[p]: what disturbed p since it started
    settled,   \* settled[p]: the dataset was complete when p started
    starts

dbVars == <<tenants, users, members, pinned, nextId>>
procVars == <<pc, ds, plan, tenantID, exit, others, settled, starts>>
vars == <<dbVars, procVars>>

Roles == {"owner", "master_accountant", "accountant", "bookkeeper", "viewer"}
defaultRole(role) == IF role \in Roles THEN role ELSE "viewer"

-----------------------------------------------------------------------------
(* Plans. *)

\* Concatenation of f(x) over the elements x of a sequence.
FlatMap(f(_), s) == FlattenSeq([i \in DOMAIN s |-> f(s[i])])

Usable(us) == FlatMap(LAMBDA u : IF u.usable THEN <<u>> ELSE <<>>, us)

UserStmt(u) == [op |-> "user", email |-> u.email, admin |-> u.admin]
MemberStmt(u) == [op |-> "member", email |-> u.email, role |-> defaultRole(u.role)]
LookupStmt(u) == [op |-> "lookup", email |-> u.email]
TenantStmt(slug, db) == [op |-> "tenant", slug |-> slug, db |-> db]

Statement ==
    [op: {"user"}, email: STRING, admin: BOOLEAN]
        \cup [op: {"member"}, email: STRING, role: Roles]
        \cup [op: {"lookup"}, email: STRING]
        \cup [op: {"tenant"}, slug: STRING \ {NoSlug}, db: STRING]
        \cup [op: {"delete"}, slug: STRING]
        \cup [op: {"data"}]

\* The platform rows, then the data of the tenant (module TenantSeed).
loadSingle(d) ==
    LET userAndMember(u) == <<UserStmt(u), MemberStmt(u)>>
    IN  <<TenantStmt(d.slug, d.db)>> \o FlatMap(userAndMember, Usable(d.users))
            \o (IF d.skip THEN <<>> ELSE <<[op |-> "data"]>>)

\* Without users.yaml the users are taken to be there; a tenant that has no
\* slug is passed over.
loadMultiTenant(d, unread) ==
    LET user(u) == <<UserStmt(u)>>
        assign(u) == <<LookupStmt(u), MemberStmt(u)>>
        tenant(t) == IF t.slug = NoSlug THEN <<>>
                     ELSE <<TenantStmt(t.slug, t.slug)>> \o FlatMap(assign, t.users)
    IN  (IF "users" \in unread THEN <<>> ELSE FlatMap(user, Usable(d.users)))
            \o FlatMap(tenant, d.tenants)

\* A tenants.yaml that is absent, empty, unreadable or malformed is all one:
\* the dataset is taken for a single tenant's.
AsMulti(d, unread) == d.multi /\ "tenants" \notin unread

load(d, unread) == IF AsMulti(d, unread) THEN loadMultiTenant(d, unread) ELSE loadSingle(d)

\* unload uses the slug as it stands in tenants.yaml: none is generated.  It
\* ignores --datasets-dir, so that a tenants.yaml kept elsewhere is unread.
unload(d, unread) ==
    LET delete(t) == <<[op |-> "delete", slug |-> IF t.written THEN t.slug ELSE NoSlug]>>
    IN  IF AsMulti(d, unread) THEN FlatMap(delete, d.tenants)
                              ELSE <<[op |-> "delete", slug |-> d.slug]>>

-----------------------------------------------------------------------------
(* What a dataset asks for. *)

Entries(d) == {t \in ToSet(d.tenants) : t.slug # NoSlug}
TenantSlugs(d) == IF d.multi THEN {t.slug : t \in Entries(d)} ELSE {d.slug}
SpelledSlugs(d) == IF d.multi THEN {t.slug : t \in {e \in Entries(d) : e.written}}
                              ELSE {d.slug}

\* Roles for pairs of an email and a tenant's slug: of users.yaml for the tenant
\* with the dataset's name, and of tenants.yaml.
GrantTo(slug, u) == [email |-> u.email, slug |-> slug, role |-> defaultRole(u.role)]

SingleGrants(d) == {GrantTo(d.slug, u) : u \in ToSet(Usable(d.users))}

Grants(d) ==
    IF d.multi THEN UNION {{GrantTo(t.slug, u) : u \in ToSet(t.users)} : t \in Entries(d)}
               ELSE SingleGrants(d)

\* The same in the order of the files.
GrantList(d) ==
    LET grantsTo(slug, us) == [i \in DOMAIN us |-> GrantTo(slug, us[i])]
    IN  IF d.multi THEN FlatMap(LAMBDA t : grantsTo(t.slug, t.users), d.tenants)
                   ELSE grantsTo(d.slug, Usable(d.users))

\* Two entries of tenants.yaml may come to one slug, and are one tenant then:
\* the later role of a user is the one that stays.
Overridden(d, g) ==
    \E j \in DOMAIN GrantList(d) :
        LET later == GrantList(d)[j]
        IN  /\ <<later.email, later.slug>> = <<g.email, g.slug>>
            /\ \A k \in j..Len(GrantList(d)) : GrantList(d)[k] # g

Emails(d) == {u.email : u \in ToSet(Usable(d.users))}

\* The grants whose user is sure to exist when load gets to them.
SureGrants(d) == {g \in Grants(d) : g.email \in Emails(d) \cup Seeded}

IdOf(slug) == {t.id : t \in {r \in tenants : r.slug = slug}}

Granted(g) == \E m \in members : m.user = g.email /\ m.tenant \in IdOf(g.slug)

\* Every row that load of d writes is there.
Present(d, grants) ==
    /\ \A s \in TenantSlugs(d) : IdOf(s) # {}
    /\ Emails(d) \subseteq DOMAIN users
    /\ \A g \in grants : Granted(g)

-----------------------------------------------------------------------------
Init ==
    /\ tenants = {}
    /\ users = [e \in Seeded |-> TRUE]
    /\ members = {}
    /\ pinned = {}
    /\ nextId = 1
    /\ pc = [p \in Procs |-> "idle"]
    /\ ds = [p \in Procs |-> CHOOSE d \in Datasets : TRUE]
    /\ plan = [p \in Procs |-> <<>>]
    /\ tenantID = [p \in Procs |-> 0]
    /\ exit = [p \in Procs |-> "none"]
    /\ others = [p \in Procs |-> {}]
    /\ settled = [p \in Procs |-> FALSE]
    /\ starts = 0

\* A load or an unload of d that cannot read some of its files.
Start(p, d, action, unread) ==
    /\ pc[p] = "idle"
    /\ starts < MaxStarts
    /\ unread # {} => p \in Misreads /\ d.multi
    /\ pc' = [pc EXCEPT ![p] = action]
    /\ ds' = [ds EXCEPT ![p] = d]
    /\ plan' = [plan EXCEPT ![p] = IF action = "load" THEN load(d, unread)
                                                     ELSE unload(d, unread)]
    /\ tenantID' = [tenantID EXCEPT ![p] = 0]
    /\ exit' = [exit EXCEPT ![p] = "none"]
    /\ others' = [others EXCEPT ![p] = IF unread = {} THEN {} ELSE {"lost"}]
    /\ settled' = [settled EXCEPT ![p] = unread = {} /\ Present(d, Grants(d))]
    /\ starts' = starts + 1
    /\ UNCHANGED dbVars

\* No dataset or no directory of that name, an unknown action, no connection,
\* or no users.yaml for a single tenant: nothing is written.
StartRefused(p) ==
    /\ pc[p] = "idle"
    /\ starts < MaxStarts
    /\ p \in Misreads
    /\ exit' = [exit EXCEPT ![p] = "1"]
    /\ starts' = starts + 1
    /\ UNCHANGED <<dbVars, pc, ds, plan, tenantID, others, settled>>

\* The next statement of p is an op; it succeeds and leaves rest to do.
Runs(p, op) == pc[p] # "idle" /\ plan[p] # <<>> /\ Head(plan[p]).op = op
Advance(p, rest) == plan' = [plan EXCEPT ![p] = rest]

\* The other executions at work have been disturbed.
Disturb(p, what) ==
    others' = [q \in Procs |-> IF q # p /\ pc[q] # "idle" THEN others[q] \cup {what}
                                                         ELSE others[q]]

Quit(p, status) ==
    /\ pc' = [pc EXCEPT ![p] = "idle"]
    /\ exit' = [exit EXCEPT ![p] = status]
    /\ plan' = [plan EXCEPT ![p] = <<>>]
    /\ UNCHANGED <<dbVars, ds, tenantID, others, settled, starts>>

-----------------------------------------------------------------------------
(* The statements of load. *)

\* Mutant of UpsertTenant: the conflict is on db_name, not on slug.
UpsertTenantByDb(p) ==
    LET s == Head(plan[p])
        old == {t \in tenants : t.db = s.db}
    IN  /\ Runs(p, "tenant")
        /\ \/ /\ old = {}
              /\ nextId <= MaxTenants
              /\ tenants' = tenants \cup {[id |-> nextId, slug |-> s.slug, db |-> s.db]}
              /\ tenantID' = [tenantID EXCEPT ![p] = nextId]
              /\ nextId' = nextId + 1
           \/ /\ old # {}
              /\ tenantID' = [tenantID EXCEPT ![p] = (CHOOSE t \in old : TRUE).id]
              /\ UNCHANGED <<tenants, nextId>>
        /\ Advance(p, Tail(plan[p]))
        /\ Disturb(p, "wrote")
        /\ UNCHANGED <<users, members, pinned, pc, ds, exit, settled, starts>>

\* Mutant of UpsertTenant: a plain INSERT, refused when the slug exists.
UpsertTenantPlain(p) ==
    LET s == Head(plan[p])
        old == {t \in tenants : t.slug = s.slug}
    IN  /\ Runs(p, "tenant")
        /\ IF old = {} /\ nextId <= MaxTenants /\ s.db \notin {t.db : t \in tenants}
           THEN /\ tenants' = tenants \cup {[id |-> nextId, slug |-> s.slug, db |-> s.db]}
                /\ tenantID' = [tenantID EXCEPT ![p] = nextId]
                /\ nextId' = nextId + 1
                /\ Advance(p, Tail(plan[p]))
                /\ Disturb(p, "wrote")
                /\ UNCHANGED <<users, members, pinned, pc, ds, exit, settled, starts>>
           ELSE Quit(p, "1")

\* INSERT INTO tenants ... ON CONFLICT (slug) DO UPDATE ... RETURNING id: a
\* row with the slug keeps its id and its db_name.
UpsertTenant(p) ==
    LET s == Head(plan[p])
        old == {t \in tenants : t.slug = s.slug}
    IN  /\ Runs(p, "tenant")
        /\ \/ /\ old = {}
              /\ s.db \notin {t.db : t \in tenants}
              /\ nextId <= MaxTenants
              /\ tenants' = tenants \cup {[id |-> nextId, slug |-> s.slug, db |-> s.db]}
              /\ tenantID' = [tenantID EXCEPT ![p] = nextId]
              /\ nextId' = nextId + 1
           \/ /\ old # {}
              /\ tenantID' = [tenantID EXCEPT ![p] = (CHOOSE t \in old : TRUE).id]
              /\ UNCHANGED <<tenants, nextId>>
        /\ Advance(p, Tail(plan[p]))
        /\ Disturb(p, "wrote")
        /\ UNCHANGED <<users, members, pinned, pc, ds, exit, settled, starts>>

\* db_name is UNIQUE too: a new slug with a database in use is an error, not
\* an absence of rows, and the fallback SELECT is not reached.
TenantConflict(p) ==
    /\ Runs(p, "tenant")
    /\ Head(plan[p]).slug \notin {t.slug : t \in tenants}
    /\ Head(plan[p]).db \in {t.db : t \in tenants}
    /\ Quit(p, "1")

UpsertUser(p) ==
    LET s == Head(plan[p])
    IN  /\ Runs(p, "user")
        /\ users' = [e \in DOMAIN users \cup {s.email} |->
                        IF e = s.email THEN s.admin ELSE users[e]]
        /\ Advance(p, Tail(plan[p]))
        /\ Disturb(p, "wrote")
        /\ UNCHANGED <<tenants, members, pinned, nextId, pc, ds, tenantID, exit,
                       settled, starts>>

\* Mutant of LookupUser: a user that is missing ends the tenant's list.
LookupUserBreaks(p) ==
    /\ Runs(p, "lookup")
    /\ Advance(p, IF Head(plan[p]).email \in DOMAIN users THEN Tail(plan[p]) ELSE <<>>)
    /\ UNCHANGED <<dbVars, pc, ds, tenantID, exit, others, settled, starts>>

\* SELECT id FROM users: on any error the membership is skipped with a warning.
LookupUser(p) ==
    /\ Runs(p, "lookup")
    /\ \/ /\ Head(plan[p]).email \in DOMAIN users
          /\ Advance(p, Tail(plan[p]))
          /\ UNCHANGED others
       \/ /\ Head(plan[p]).email \notin DOMAIN users
          /\ Advance(p, Tail(Tail(plan[p])))
          /\ UNCHANGED others
       \/ /\ p \in Shaky
          /\ Advance(p, Tail(Tail(plan[p])))
          /\ others' = [others EXCEPT ![p] = @ \cup {"lost"}]
    /\ UNCHANGED <<dbVars, pc, ds, tenantID, exit, settled, starts>>

\* Mutant of UpsertMembership: the row is written whether or not the tenant is there.
UpsertMembershipUnchecked(p) ==
    LET s == Head(plan[p])
        row == [user |-> s.email, tenant |-> tenantID[p], role |-> s.role]
    IN  /\ Runs(p, "member")
        /\ members' = {m \in members : ~(m.user = row.user /\ m.tenant = row.tenant)}
                         \cup {row}
        /\ Advance(p, Tail(plan[p]))
        /\ Disturb(p, "wrote")
        /\ UNCHANGED <<tenants, users, pinned, nextId, pc, ds, tenantID, exit,
                       settled, starts>>

\* INSERT INTO tenant_memberships ... ON CONFLICT (user_id, tenant_id) DO
\* UPDATE SET role: the tenant with the id at hand must still exist.
UpsertMembership(p) ==
    LET s == Head(plan[p])
        row == [user |-> s.email, tenant |-> tenantID[p], role |-> s.role]
    IN  /\ Runs(p, "member")
        /\ tenantID[p] \in {t.id : t \in tenants}
        /\ members' = {m \in members : ~(m.user = row.user /\ m.tenant = row.tenant)}
                         \cup {row}
        /\ Advance(p, Tail(plan[p]))
        /\ Disturb(p, "wrote")
        /\ UNCHANGED <<tenants, users, pinned, nextId, pc, ds, tenantID, exit,
                       settled, starts>>

\* The tenant has been removed since: the foreign key refuses the row.
MembershipRefused(p) ==
    /\ Runs(p, "member")
    /\ tenantID[p] \notin {t.id : t \in tenants}
    /\ Quit(p, "1")

\* seedTenant writes to the tenant's own database, which is module TenantSeed (a
\* second load books the bills again there), and leaves the platform's tables
\* alone; its failure is an Abort of p.
SeedTenantData(p) ==
    /\ Runs(p, "data")
    /\ Advance(p, Tail(plan[p]))
    /\ UNCHANGED <<dbVars, pc, ds, tenantID, exit, others, settled, starts>>

-----------------------------------------------------------------------------
(* The statements of unload. *)

\* Mutant of DeleteTenant: every tenant of the dataset's users goes too.
DeleteTenantOfUsers(p) ==
    LET gone == {t \in tenants : \/ t.slug = Head(plan[p]).slug
                                 \/ \E m \in members : /\ m.tenant = t.id
                                                       /\ m.user \in Emails(ds[p])}
    IN  /\ Runs(p, "delete")
        /\ \A t \in gone : t.id \notin pinned
        /\ tenants' = tenants \ gone
        /\ members' = {m \in members : m.tenant \notin {t.id : t \in gone}}
        /\ Advance(p, Tail(plan[p]))
        /\ Disturb(p, "deleted")
        /\ UNCHANGED <<users, pinned, nextId, pc, ds, tenantID, exit, settled, starts>>

\* DELETE FROM tenants WHERE slug = $1; memberships cascade.
DeleteTenant(p) ==
    LET gone == {t \in tenants : t.slug = Head(plan[p]).slug}
    IN  /\ Runs(p, "delete")
        /\ \A t \in gone : t.id \notin pinned
        /\ tenants' = tenants \ gone
        /\ members' = {m \in members : m.tenant \notin {t.id : t \in gone}}
        /\ Advance(p, Tail(plan[p]))
        /\ Disturb(p, "deleted")
        /\ UNCHANGED <<users, pinned, nextId, pc, ds, tenantID, exit, settled, starts>>

\* Mutant of DeleteRefused: the error is logged, and the next tenant is deleted.
DeleteRefusedGoesOn(p) ==
    /\ Runs(p, "delete")
    /\ \E t \in tenants : t.slug = Head(plan[p]).slug /\ t.id \in pinned
    /\ Advance(p, Tail(plan[p]))
    /\ UNCHANGED <<dbVars, pc, ds, tenantID, exit, others, settled, starts>>

DeleteRefused(p) ==
    /\ Runs(p, "delete")
    /\ \E t \in tenants : t.slug = Head(plan[p]).slug /\ t.id \in pinned
    /\ Quit(p, "1")

-----------------------------------------------------------------------------
Finish(p) ==
    /\ pc[p] # "idle"
    /\ plan[p] = <<>>
    /\ Quit(p, "0")

\* A statement fails for want of the database, or the tool is stopped.
Abort(p) ==
    /\ p \in Stoppable
    /\ pc[p] # "idle"
    /\ Quit(p, "aborted")

\* The platform writes a row that refers to a tenant and does not cascade.
Pin(id) ==
    /\ id \notin pinned
    /\ pinned' = pinned \cup {id}
    /\ UNCHANGED <<tenants, users, members, nextId, procVars>>

Next ==
    \/ \E p \in Procs, d \in Datasets, action \in {"load", "unload"},
          unread \in SUBSET {"tenants", "users"} : Start(p, d, action, unread)
    \/ \E p \in Procs :
          \/ StartRefused(p) \/ SeedTenantData(p)
          \/ UpsertTenant(p) \/ TenantConflict(p) \/ UpsertUser(p) \/ LookupUser(p)
          \/ UpsertMembership(p) \/ MembershipRefused(p)
          \/ DeleteTenant(p) \/ DeleteRefused(p) \/ Finish(p) \/ Abort(p)
    \/ \E t \in tenants : Pin(t.id)

Spec == Init /\ [][Next]_vars

-----------------------------------------------------------------------------
(* Properties. *)

\* Every variable has its type, and the constraints of the schema hold: slugs
\* and database names are unique, a membership refers to a user, and a row that
\* does not cascade to a tenant.
TypeOK ==
    /\ nextId \in 1..(MaxTenants + 1)
    /\ tenants \subseteq [id: 1..(nextId - 1), slug: STRING \ {NoSlug}, db: STRING]
    /\ \A t, u \in tenants : t.id = u.id \/ t.slug = u.slug \/ t.db = u.db => t = u
    /\ DOMAIN users \subseteq STRING /\ users \in [DOMAIN users -> BOOLEAN]
    /\ members \subseteq [user: DOMAIN users, tenant: 1..(nextId - 1), role: Roles]
    /\ pinned \subseteq {t.id : t \in tenants}
    /\ pc \in [Procs -> {"idle", "load", "unload"}]
    /\ ds \in [Procs -> Datasets]
    /\ plan \in [Procs -> Seq(Statement)]
    /\ tenantID \in [Procs -> 0..(nextId - 1)]
    /\ exit \in [Procs -> {"none", "0", "1", "aborted"}]
    /\ others \in [Procs -> SUBSET {"wrote", "deleted", "lost"}]
    /\ settled \in [Procs -> BOOLEAN]
    /\ \A p \in Procs : pc[p] = "idle" => plan[p] = <<>>

\* Every membership belongs to a tenant that exists and gives a user a role
\* that some dataset grants for that tenant, however loads and unloads of
\* datasets that share users overlap (upsertMembership with an id read before)
\* and although a tenants.yaml may be taken for absent: then, and for single
\* tenants, it is users.yaml that grants.
MembershipsAreGranted ==
    \A m \in members : \E d \in Datasets :
        \E g \in Grants(d) \cup (IF Misreads = {} THEN {} ELSE SingleGrants(d)) :
            /\ g.email = m.user
            /\ g.role = m.role
            /\ m.tenant \in IdOf(g.slug)

Succeeds(p, action) == pc[p] = action /\ exit'[p] = "0"

\* A load that succeeds, with no unload beside it and no lookup lost, leaves
\* every tenant, user and membership of its dataset; with nothing else beside
\* it they carry the role and the profile of the dataset, of several entries
\* for one membership or user those of the last.
LoadIsComplete ==
    [][\A p \in Procs : Succeeds(p, "load") /\ others[p] \subseteq {"wrote"} =>
          /\ Present(ds[p], SureGrants(ds[p]))
          /\ others[p] = {} =>
                /\ \A g \in {h \in SureGrants(ds[p]) : ~Overridden(ds[p], h)} :
                      \E m \in members : /\ m.user = g.email /\ m.role = g.role
                                          /\ m.tenant \in IdOf(g.slug)
                /\ LET us == Usable(ds[p].users) IN
                   \A i \in DOMAIN us :
                      \/ \E j \in DOMAIN us : j > i /\ us[j].email = us[i].email
                      \/ users[us[i].email] = us[i].admin]_vars

\* "(uses ON CONFLICT DO UPDATE on email and slug uniqueness)" (seed/main.go:21):
\* in the platform's tables, and only there, a load of a dataset that is complete,
\* with no unload beside it, adds no row and is refused nothing.  What the same
\* load adds to the tenant's database is another matter (README, section 5).
PlatformReloadAddsNothing ==
    [][\A p \in Procs :
          settled[p] /\ pc[p] = "load" /\ "deleted" \notin others[p] /\ plan'[p] # plan[p] =>
             /\ {<<t.id, t.slug>> : t \in tenants'} = {<<t.id, t.slug>> : t \in tenants}
             /\ DOMAIN users' = DOMAIN users
             /\ Cardinality(members') = Cardinality(members)
             /\ exit'[p] # "1"]_vars

\* An unload that ends with status 0, and beside which nobody wrote, has removed
\* every tenant whose slug the dataset spells out, although a tenant that is
\* pinned cannot be deleted (seed/main.go:292-306).  Tenants whose slug load made
\* from a display name stay: the slug that unload reads is empty.
UnloadIsComplete ==
    [][\A p \in Procs : Succeeds(p, "unload") /\ others[p] \subseteq {"deleted"} =>
          \A s \in SpelledSlugs(ds[p]) : IdOf(s) = {}]_vars

\* Unload removes tenants of its own dataset and their memberships, no user
\* and nothing else ("Users are *not* removed", seed/main.go:284); when it
\* takes a tenants.yaml for absent, the tenant with the dataset's name alone.
UnloadRemovesOnlyItsOwn ==
    [][\A p \in Procs : pc[p] = "unload" /\ plan'[p] # plan[p] =>
          LET own == IF "lost" \in others[p] THEN {ds[p].slug} \cup TenantSlugs(ds[p])
                                            ELSE TenantSlugs(ds[p])
          IN  /\ users' = users
              /\ \A t \in tenants \ tenants' : t.slug \in own
              /\ \A m \in members \ members' : \E s \in own : m.tenant \in IdOf(s)]_vars

=============================================================================
