# ledgius-db: specifications and proofs

ledgius-db holds the PostgreSQL migrations of the Ledgius platform and the tools that apply them and
load data: shell scripts, two Go programs and about ten thousand lines of SQL. Nothing in it is a
server. What makes it hard is that every tool talks to a shared database through statements that
commit one by one, that executions overlap and stop half way, and that errors are often read as an
absence. The modules here describe the tools statement by statement and ask what the database looks
like afterwards, whatever was interleaved, lost, killed or run again.

`PROJECT.json` holds the tables: components, runs, mutants, the lines each definition models, findings,
hazards and theorems. This file explains them.

## 1. The system

| Part | State it keeps | Operations | Talks to |
|---|---|---|---|
| `flyway.sh` | `flyway_schema_history` and whatever the scripts create | `migrate`, `status`, `validate`, `reset` | one database, one `psql` per call |
| `scripts/provision-tenants.sh` | tenant databases, its counters | one loop over the active tenants | the registry, `CREATE DATABASE`, `flyway.sh migrate tenant` |
| `seed/main.go` | `tenants`, `users`, `tenant_memberships` of the platform database | `load`, `unload` | the platform database; `tenant_seed.go` for single-tenant datasets |
| `seed/tenant_seed.go` | contacts, locations, `ar`, `ap`, `acc_trans` of a tenant database | `seedTenant` | the tenant database |
| `migrations/tenant` V1.41, V1.42 | allocations of bank feed lines, rules of reconciliation | the two scripts | the application of either version |
| `migrations/tenant` V1.33, V1.43 | classes of addresses, links, channels | the two scripts | the application, the seeder, databases that LedgerSMB seeded and works on |
| `migrate/main.go` | none of its own; a list and a count while it runs | `--platform`, `--tenant-id`, `--all-tenants`, in any combination | the registry; `platform.RunMigrationsOnDB`, which is not in this repository |
| `init-databases.sh`, `reset-databases.sh` | databases in containers | clone and migrate | LedgerSMB's container |
| `cmd/lsmb-lint` | none | `lint` over directories, `audit` over an inventory | files |
| seeds `R__*.sql` | reference data | replaced by `flyway.sh` when their text changes | readers in the application |

How the parts interact. `provision-tenants.sh` reads the registry that `seed/main.go` writes, and starts
`flyway.sh` on each database; it learns of the outcome from an exit status and from one count over
`flyway_schema_history`. `flyway.sh` gives each script to its own `psql` and records it with another one.
The scripts of `migrations/` meet rows that the applications and the seeder have written meanwhile. Two
executions of the same tool share nothing but the database, and there is no lock anywhere.

What is hard, then: overlapping executions of each tool; a stop between a statement and the row that
records it; statements that fail without being noticed; an application nobody stopped; lookups whose errors read as "not found";
scripts and loads that run a second time over rows that have moved on. `PROJECT.json` lists these
hazards at their lines with the properties that watch them.

What makes each part correct:

- *flyway.sh*: one history row per script, versions in order and without a gap, a row of success only for
  a script that ran to its end, a `migrate` or `validate` that ends with status 0 told the truth, a seed
  that is up to date by its row is whole.
- *provisioner*: status 0 covers every tenant that was listed; a tenant that counts as migrated has every
  version, but for the tenants whose `flyway.sh` stopped without a row of failure, which the script takes for
  migrated too (`claimed`, section 5); a version that failed is never passed over.
- *dataset loader*: a load is complete, and repeated it adds nothing to the platform's tables; an unload takes
  its own tenants, all that the dataset spells out and no other; no membership appears that no dataset grants.
- *tenant seeder*: a booked document has its row, its line and three postings that balance, at the prices
  floats give; no invoice twice; status 0 means that everything is there.
- *migration runner*: status 0 means that every database it was asked for is complete; the failure of one
  tenant does not keep the others from their migrations.
- *linter*: it fails exactly when a statement of a file without exemption creates a trigger, a function or a
  procedure, or when a file went unread; the audit shows no row as further than it is.
- *V1.42*: one active allocation per line, a disabled rule stays off, decisions about allocations survive
  reruns and the old application.
- *V1.43*: both kinds of database end in the same shape; the links of this repository's table stay, and no row of
  either table changes its class.

## 2. The modules

| Module | Models | State in the code |
|---|---|---|
| `Flyway` | `flyway.sh`, one action per committed statement or shell decision | `file` the migration directory, `hist` and `table` the history, `eff` and `ran` what scripts did, `pc`, `at`, `stmt`, `existing`, `errors`, `exit` one execution |
| `MigrationLog` | what a database promises about its versions: applied in order, recorded once applied, undone only by dropping it | abstract: `applied`, `recorded` |
| `Provision` | `provision-tenants.sh`, with `flyway.sh` reduced to its effect on versions, its rows of failure and what its log shows; what a seed leaves behind is in `Flyway` only | the registry, one database per tenant, MIG_LOG, CREATED / MIGRATED / FAILED as sets of tenants |
| `SeedLoad`, `MCSeedLoad` | `load` and `unload` of `seed/main.go` in the platform database | the three tables, and per execution the statements that are left (`plan`) and the id it holds (`tenantID`); `NoSlug` is the name of a tenant nobody wrote down |
| `TenantSeed`, `MCTenantSeed` | `tenant_seed.go`, with one amount per document | tables as sets of contacts, `booked` the committed documents; per execution the contacts and documents that are left (`plan`), the next statement of the first of them (`at[p]`), the open transaction (`tx[p]`) |
| `SeedAmounts` | the price, tax and total of one document of `tenant_seed.go`, in floats of a given width | `price`, `net`, `gst`, `gross` as <<mantissa, exponent>> |
| `Slug` | `generateSlug`, over classes of characters | the string at hand |
| `ReconMigration` | the tables of V1.41, the statements of V1.42 that move data or restrict it (the UPDATEs of `recon_rule` at 87 and of `recon_allocation` at 107 and 117, the defaults of added columns, the index), both applications, the old one beside V1.42 and after it | a row per allocation, the two columns of a line, the old and the new flag of a rule, whether the new column and the index exist |
| `LocationClass` | V1.33 and V1.43, statement by statement, with the writers beside them, LedgerSMB among them | `location_class`, its sequence, `eca_to_location` in either shape with its rows and its index, `contact` |
| `MigrateAll` | `migrate/main.go`, with the library reduced to versions that it adds or fails at | `version` and `broken` of each database, and per execution its flags, `listed`, `todo`, `failures`, `exit` |
| `LsmbLint` | `cmd/lsmb-lint/main.go`: the walk, its regular expressions over words, the tally | the path, the file, the row at hand, `violations`, `counts`, `exit` |

Beside these stand eight modules of theorems, each of which extends the module it is about: `FlywayProofs`,
`ProvisionProofs`, `SeedLoadProofs`, `TenantSeedProofs`, `ReconProofs`, `LocationProofs`, `MigrateAllProofs`,
`LintProofs`. The theorem about `Slug` is in `SeedLoadProofs` and the one about `SeedAmounts` in `TenantSeedProofs`, which
extend both; that is why these two modules have names of their own for what is `Init`, `Next` and `Spec` elsewhere.

`MigrationLog` is refined twice. `Flyway!KeepsLog` maps "applied" to "every statement of the script has
committed" and "recorded" to "has a row with success = true". `Provision!TenantKeepsLog` maps the
coarser `flyway.sh` of the provisioner, which runs inside a loop with other provisioners on the same
database; `Provision` may thus treat a version as one step without assuming more of versions than `Flyway` grants.
Of seeds it assumes nothing: whether they went through is all it takes from a log, and no property of it says that a
seed stays as it is, which is not so when a second runner replaces it (section 3).

Conventions. Files, tenants and versions are numbers in the order the tool visits them, so that "in order"
is arithmetic. The text of a file is an edition and its checksum is the edition itself. An action named
`...Refused` is the same statement as its namesake, met by a constraint. Definitions that follow a comment
`Mutant of X` are variants of `X` with a plausible mistake; no specification uses them, they show that a
property can fail (`PROJECT.json`, "mutants").

### Faults, as constants

What may go wrong is a constant of each module, so that a run names it. `Flyway.Faults` has `stmt`, `query`,
`psql`, `crash`, and three more that describe an environment rather than a failure: `resetRace` (a reset
beside other runners), `outOfOrder` (a version that arrives after a higher one) and `revert` (a file that
goes back to an earlier text). `Provision.Faults` has `none` for a registry without tenants. These four
are switched off in every passing run; section 5 says what happens with them. In `SeedLoad`,
`TenantSeed` and `MigrateAll` the failures belong to executions: calls of a `Shaky` one may fail, a `Stoppable`
one may be killed, one of `Misreads` may find a file of its dataset unreadable. A property can thus speak of
the execution nothing happened to while its neighbour is in trouble. `ReconMigration.OldBeside` says whether the
old application goes on beside V1.42.

### Actions that stand for code elsewhere

The applications of V1.41 and V1.42, the administration that activates tenants, the rows that pin a tenant,
the developer who edits a deployed script and the operator who enters a history row by hand are not in this
repository, and neither is LedgerSMB. Their actions do what the tables and comments provide for and are marked external.

## 3. The runs

Deadlock is not checked: every tool ends, and the executions are bounded by `MaxStarts` or `MaxRuns`.

| Run | Instance | What it shows |
|---|---|---|
| `FlywayPair` | 2 runners, 3 executions of `migrate`, `validate`, `reset`; 2 versions, the second arriving late, 1 wiping seed, 2 statements, 2 editions; statements and lookups fail, runners are killed | history and scripts agree: `OneRowPerScript`, `AppliedInOrder`, `RecordedMeansApplied`, `SuccessfulMigrateIsComplete`, `ValidatePassIsTrue`, `KeepsLog` |
| `FlywaySolo` | 1 runner, 3 executions of every command, 3 editions; unguarded `psql` calls fail too | `UpToDateSeedIsIntact` |
| `ProvisionPair` | 2 provisioners, 2 tenants, 2 versions, 1 change of the registry or of a script; CREATE DATABASE, scripts, seeds, connections and swallowed queries fail | `MigratedHasVersions`, `CleanExitCoversAll`, `TenantKeepsLog` |
| `SeedLoadPair` | 2 executions at a time, 3 in all, of load and unload over 3 datasets that share users, a tenant, a slug and a database name; one execution loses lookups, the other is stopped and misreads its files | `MembershipsAreGranted`, `LoadIsComplete`, `PlatformReloadAddsNothing`, `UnloadIsComplete`, `UnloadRemovesOnlyItsOwn` |
| `TenantSeedPair` | 2 loads of a customer, a vendor, an invoice and a bill, one whose statements may fail, one that may stop and start again | `DocumentsAreWhole`, `InvoicesOnce`, `SuccessMeansSeeded`, and under fairness `EveryRunEnds` |
| `SeedCents` | every price between any two bounds from 1.10 to 1.50, drawn in quarters of a cent, in floats of 13 bits | `BalancesAtScale` |
| `SlugWords` | every name of up to 5 of 6 classes of characters, slugs cut at 3 | `SlugIsWordsJoined` |
| `ReconPair` | 2 lines, 3 allocations, 1 rule, 3 executions of V1.42, the old application never stopped | `OneActivePerLine`, `ConfirmedIsApproved`, `DisabledIsOff`, `MigrationKeepsDecisions` |
| `LocationDrift` | both kinds of database, with rows in either table, 2 contacts, 1 class added at any time, 4 executions | `Reconciled`, `OnePrimary`, `NewIdsAreFree`, `LinksKeepTheirClass` |
| `MigratePair` | 2 executions at a time with any flags, one of which loses calls and is killed; 2 tenants, 2 versions, rows that break a migration of any of the databases; 1 suspension, activation or repair | `CleanExitMeansMigrated`, and under fairness `HealthyTenantsGetMigrated` |
| `LintFiles` | 2 directories of up to 2 entries, every file of up to 4 of 7 kinds of word laid out in any lines; an inventory of up to 3 rows of 5 cells | `VerdictIsExact`, `AuditNeverFlatters` |
| `FlywayFailedRow` | 1 runner, 3 executions | violation: `AppliedGetsRecorded` |

Why the bounds are enough. Two executions are the least that interfere, and each property speaks of one
execution and the database, or of two rows; a third execution adds a rerun after both. Two versions are the
least that have an order, two statements the least that can be cut in half, and a seed that wipes first is
the one that loses something when it is cut. In `FlywaySolo` three editions let a file change while its
earlier change is still half done. Two tenants show what a provisioner leaves out when it stops. In
`SeedLoadPair` three datasets cover both modes, a role that is mapped to the default, a user without
password, one that no one created, one entered twice, a slug that is generated, two names with one slug, and two datasets with one
database name. In `TenantSeedPair` one invoice and one bill are enough for two executions to meet at the open item, at the
unique number, and at the header that is found by its reference. Three allocations give a line a reversed
one and its replacement, and leave one for the other line, for the new application or for a late row of the old
one; rules are independent of each other. Three classes and their ids leave three for a class that is added. Four
executions of the
runner in `LocationDrift` are a V1.33 that fails, a run that is cut, one that ends, and one to spare. Two executions of
the migration runner are one the property speaks of and one that gets in its way; two tenants let the first fail
before the second. A file of four words holds a comment or a statement before a CREATE of two or three words.
`SeedCents` has 13 bits because 13 and 53 differ by a multiple of 20, the period of the binary digits of 1/25 and
so of hundredths: a price in whole cents is rounded there in the same direction as in a float64. What products do
in the narrower format is an analogy; that float64 itself balances is the theorem `AmountsBalance` (section 4).

`UpToDateSeedIsIntact` is checked with one runner on purpose: two runners that replace the same seed at once
can leave it half wiped under an up-to-date row, since nothing orders their statements.

### Fairness

`TenantSeed.FairSpec` asks weak fairness of the steps of each load: a program whose calls return goes on. It does not
ask for starts, and it does not exclude failures or stops; a step that waits for the other's transaction is not enabled until that one ends, which
is what PostgreSQL's lock wait does. `MigrateAll.FairSpec` asks it of each execution of the migration runner, whose
calls return or fail; neither a repair nor a start is fair, and `HealthyTenantsGetMigrated` claims nothing of an
execution that loses calls or is killed, nor of a tenant whose own rows stop its migration. Nothing else is
checked for liveness: the loops of `flyway.sh` and of the provisioner pass each file or line of a fixed list once, and
the migrations have no loop.

## 4. What is proved

Every theorem holds for any values of the constants that satisfy the assumption of its module; where a theorem
needs more, the hypothesis is in its statement and named here. Each module of theorems has one inductive
invariant (`IInv`, or `SafeInv` and what extends it), of which each listed theorem is a consequence.
`PROJECT.json` lists the theorems; the lemmas they rest on stand before them.

| Module | Properties of runs that are theorems | Assuming |
|---|---|---|
| `FlywayProofs` | `TypeOK` | |
| | `OneRowPerScript`, `AppliedInOrder`, `RecordedMeansApplied`, `KeepsLog`, `SuccessfulMigrateIsComplete`, `ValidatePassIsTrue` | `Disciplined` |
| | `UpToDateSeedIsIntact` | `Careful` |
| `ProvisionProofs` | `TypeOK`, `MigratedHasVersions`, `CleanExitCoversAll`, `TenantKeepsLog` | |
| `SeedLoadProofs` | `TypeOK`, `MembershipsAreGranted`, `UnloadRemovesOnlyItsOwn`, `PlatformReloadAddsNothing`, `LoadIsComplete` | |
| | `SlugIsWordsJoined` of `Slug` | |
| `TenantSeedProofs` | `TypeOK`, `InvoicesOnce`, `DocumentsAreWhole` | |
| | `SuccessMeansSeeded` | `Prepared` |
| | `BalancesAtScale` of `SeedAmounts` | `Fits` |
| `ReconProofs` | `TypeOK`, `OneActivePerLine`, `ConfirmedIsApproved`, `DisabledIsOff`, `MigrationKeepsDecisions` | |
| `LocationProofs` | `TypeOK`, `Reconciled`, `OnePrimary`, `NewIdsAreFree`, `LinksKeepTheirClass` | |
| `MigrateAllProofs` | `TypeOK`, `CleanExitMeansMigrated` | |
| `LintProofs` | `VerdictIsExact`, `AuditNeverFlatters` | |

### flyway.sh

`Disciplined`: nobody resets a database other runners are at work on, and versions arrive in order. Both are
needed: without the first a runner goes on in a new, empty database from the middle of its loop; without the second
`flyway.sh` applies the late version after the higher one. Failing statements, failing lookups, failing `psql` calls,
crashes and reverted texts are all allowed.

None of the invariants is inductive. `SafeInv` adds, in named parts, what the code relies on: `Control` (a reset is
alone; before its loops a runner is at the first file; in its loops the unique index exists; the tree holds the
lowest versions), `Passed` (a migrating runner has left every version behind it recorded, which holds because a failure
of any script ends the loop, and which another runner cannot undo), and `Progress` (the statements a runner has
counted have committed). `Passed` gives the order and the refinement's `Apply`; `Progress` gives the truth of the rows;
the index, in place before any row, gives uniqueness. Each part has its own step lemma (`ControlStep`, `PassedStep`,
`ProgressStep`, `HistoryStep`), with one case per kind of write. The refinement maps a committed last statement to
`Apply`, a row to `Record`, a dropped database to `Wipe`, and everything else to stuttering; a lookup that failed makes a
runner repeat a recorded script, which changes neither set.

What an exit status says needs more: `TruthInv` adds `Seen` (each script a runner has behind it was up to date
when it left it, or it has counted an error, and has stayed so) and `RowFound` (the row `validate` holds is the row of
the file at hand). The status is 0 only at the end of the list (`ZeroIsEarned`), where `Seen` covers every file.

`UpToDateSeedIsIntact` has the strongest hypothesis. `Careful` adds to `Disciplined` one runner at a time, no lookup
that fails unnoticed and no text that comes back, and each of the three is needed: a second runner, or one that did not
see the row, wipes the seed under the row; a text that comes back meets its own row over half of the text between.
`IntactInv` says that no row is of a later text than the file (`NoLaterSum`), so that an edited seed is out of date by
its row (`StaleAtWork`) from the edit until all its statements have run (`SeedProgress`).

### provision-tenants.sh

For any number of provisioners and tenants, with every fault of the module. `Local` says where a provisioner is:
`Grounded`, that the database at hand exists and holds every version below the one at hand; `Counted`, that a tenant
that was listed is still to do, counted as migrated, or counted as failed. That these outlive the steps of other
provisioners rests on `Grows`: no database, no history row and no applied version is taken away, since a provisioner
never resets (of seeds, which are wiped and put back, nothing is claimed). `MigratedHasVersions` has two ways to count
a tenant: `flyway.sh` passed every version, or it failed and no row of failure is found. In the second case
`Grounded` says what the log stands for: a log that ends in a failed version leaves a row that outlives every other
provisioner, so that the count sees it, and a log that ends in a seed has every version behind it. Status 0 leaves nothing to do and nothing
failed, and so covers the list. `EveryTenantKeepsLog` states the refinement of `MigrationLog` for each tenant;
`TenantKeepsLog`, which a run checks, is its instance for the first.

### seed/main.go

A membership is written with an id that was read some statements earlier, and meanwhile an unload may remove the
tenant and a load may make another. `Sound` says what an execution still relies on: every statement left in its plan
comes under the tenant it was meant for (`Planned`), the id at hand is the one of that tenant or of none any more
(`AtHand`; ids are not used twice), and a dataset that was complete when the load began stays complete while no unload
runs beside it (`StaysComplete`). `OneRow` has the memberships finite and one per user and tenant. That a plan has this
form when it is made is a fact about concatenations of any length; it is shown by induction on the sets they range
over (`SetInduction`, below).

`LoadIsComplete` needs the converse of `Planned`, and `CompleteInv` is it: of a load beside which nothing was
deleted, what the database lacks of its dataset is still in its plan, each grant under its tenant (`Covers`); and while
nobody else writes, the last statement of the plan about a membership or a user asks for the role or profile that is
meant to stay, or the row has it already (`LastWord`). The second part is not implied by the first: the files may name a
row twice, and then a load that has written all of its rows may have left the wrong one. A fresh plan has both because
it has the grants of the files in their order (`Mirror`), which is carried along the concatenations piece by
piece (`MirrorConcat`), and the users in theirs (`OfUsers`). Lookups need the users to be there before them
(`UsersFirst`): a lookup that finds no user drops the membership.

`SlugIsWordsJoined`, for names of any length and any limit. The string at hand is a `Reduct` of the name: characters of
it in their order, all but some hyphens, with one left of every run. Each `ReplaceAll` gives a reduct of its string, and
reducts of reducts are reducts (`ReductTrans`: what is near in the shorter string comes from one run of the longer).
When no two hyphens meet any more, what stands between the first and the last letter is, place by place, what a slug
shows (`TrimShows`), and a sequence that is read off a set of places in order is unique (`PicksUnique`).

### seed/tenant_seed.go

What a transaction has written is a function of the place of its next statement, unless it is broken (`TxSound`,
`Written`); two executions inside the same document have headers of their own, and of two that insert one number one
waits (`Apart`). A COMMIT then books a whole document. `Founded` has the earlier rows of a contact in place for the
later ones, `LocationsSuffice` a location for every link, `BooksSound` the rows of every booked document, all of them and under
its own header.

`SuccessMeansSeeded` holds for the executions that lose no statement, whatever the others lose. `Prepared` says that
the dataset can be loaded at all: the accounts that the postings name exist, and the class of billing addresses; the
vendor of a bill is a vendor of the dataset; there is a customer for the invoices. Without the accounts of the open items
the code refuses to start; without any of the others it leaves out what needs it without a word and ends with status 0. `ProgressInv` says that what is no longer in the plan of such an execution is in
the database, that contacts come before documents, and that a document that broke was booked by another execution.

`BalancesAtScale`, for mantissas of any width, any bounds and any price between them. `Fits` says that the scale counts
the net and the tax in whole numbers (10^`Scale` is a multiple of `Unit` * `Rate`) and that the mantissa has room for a
thousand times the largest price at that scale. For cents, a tax of a tenth and float64 that is tenths of a cent and prices
of up to 90 million dollars. `AmountsInv` says which fraction each float stands for and to how many
parts of 2^`Bits` (`IsFloat`): each rounding (`RoundNear`, `NarrowNear`) adds one, a product of two floats that are off by
one comes to seven (`TimesIs`), the sum to fifteen (`PlusIs`). So an amount is within three fiftieths of a tenth of a
cent of the one that is meant (`CloseIs`). What is written of it is then rounded to the one meant (`AtScaleIs`):
if it has more places than the scale, because the writing adds half of its last place at most (`StillNearest`); if it has
fewer, because it then reads back as the same float, and there is no room for two multiples near one float
(`SameInteger`). The run of 13 bits does not satisfy `Fits`; it shows that the property holds with less room still.

### The migrations

V1.42, for any lines, any number of allocations and runs, with or without the old application beside it. Uniqueness
at the end is not preserved by a rerun, which could wake rows the index never saw. `IInv` adds that the index
implies the column, that with the column every row is active, that rows are unique whenever the index is there
(`NewIsUnique` for an INSERT, `StillUnique` for an UPDATE), that between the UPDATE and the end confirmed rows are
approved, but for those the old application has written since, and that from the UPDATE of the rules on a disabled rule
is off, but for those that either application has switched since. `MigrationKeepsDecisions` says of rules only what the
code grants: a rerun switches none on, and off only those whose old flag is still set.

V1.43, for any number of contacts, added classes and runs, on both kinds of database, whatever rows LedgerSMB has
written. `Linked` has ids 1 and 2 mean billing and shipping from the moment the new table exists, so that the upsert
of V1.33 and the pins of V1.43 then leave those rows as they are; before V1.33 is recorded, a database of LedgerSMB has
its own classes there, among which the upsert is refused. What is left are the statements that delete or renumber a
class, and they meet a foreign key: a DELETE, or an UPDATE of an id, that a row of either table refers to is refused
with the whole script (`PinKeeps`). The rows of LedgerSMB's table are the only ones a statement drops, together with that
table. `Progress` has what each statement finds done, the sequence ahead of the ids among it, and `Done` what the row
of V1.43 stands for.

### migrate/main.go

With any of the executions failing or killed. The property says nothing of an execution that has not ended; `Local`
adds what an execution has behind it (`Passed`: a job before the one at hand is complete, a tenant of the list is
still to do, counted as a failure, or complete) and that it is at a job it was asked for (`AtJob`). That `Passed`
outlives the steps of other executions is `OthersKept`, and rests on `Grows`: no step takes a version away. `Frame` then
leaves each action with the facts of its own execution.

### cmd/lsmb-lint

`LintExact` is about one file and is where the work is: under the layout that `LaidOut` names, the regular expression,
which is a matter of lines, finds a CREATE exactly where a statement, which is a matter of semicolons and comments,
begins with one. The two theorems add where the walk is and what it has counted (`VerdictInv`), and, for
the audit, that up to each status it has counted at least as many rows as the status column has (`AuditInv`), since the
status it takes is never a later one than that column's.

### Induction

The induction theorems of the library take an operator as a parameter, which the provers cannot instantiate. Where a
proof must speak of sequences or sets of any size it goes through `WFMin` instead: a set of natural numbers that is not
empty has a least element. `SetInduction` (in `SeedLoadProofs` and `TenantSeedProofs`) is induction stated for a set of numbers, and
`MaxIsThere` (in `TenantSeedProofs`) says that a bounded set of numbers has its maximum; that the powers of
two and ten are what their recursion says is proved that way (`PowersExist`). It does not carry over to
recursive definitions over data in general, but it does to a concatenation (`FlattenSeq`, taken piece by piece in
`FlattenSteps`), which is how `Slug` and the plans of `SeedLoad` are written.

### With TLC only

- `EveryRunEnds` of `TenantSeed`, `HealthyTenantsGetMigrated`: liveness under fairness.
- `AppliedGetsRecorded` of `Flyway`, which is violated.
- `UnloadIsComplete` of `SeedLoad`.

## 5. Where code and words disagree

One disagreement has a run of its own. `flyway.sh:97` writes a row of failure that keeps the row of a later
success out (`FlywayFailedRow`): the script runs in full, its INSERT is refused by the unique index, and every later
`migrate` does the same.

Others were met on the way. They are in the models, and can be seen by stating the property, but have no run:

- `flyway.sh`: `validate` passes with seeds that were never applied (line 172); a seed whose new text failed
  half way is skipped once the text is rolled back (117, fault `revert`); a failed lookup executes a recorded
  version again (78, fault `query`); a lower version that
  arrives late is applied after the higher ones (70, fault `outOfOrder`), and `AppliedInOrder` is not stated for it.
- `provision-tenants.sh`: a `flyway.sh` that lost a race or a connection, or refused a modified script, leaves no row of
  failure, so its tenant is counted as migrated although versions may be missing (121, `claimed` in the model, which
  `MigratedHasVersions` leaves out); the list of tenants is read once, and a tenant activated meanwhile waits for the
  next run (65); the guard against an empty registry is an
  error of `test` and not true (67, fault `none`).
- `seed/main.go`: line 20 says that a load "can be run repeatedly without duplicating rows". In the platform's tables
  that is so (`PlatformReloadAddsNothing`); in the tenant's database, which the same load fills (142), it is not: see
  `tenant_seed.go`. A tenant whose slug was generated is not unloaded (292, `written` in the model); `unload` looks
  under `fixtures/datasets` only (288); a second load does not change `db_name` (388); a failed lookup of a user
  reads as a missing user (264, `Shaky`); the slug is trimmed before it is cut (481); a conflict of `db_name` is
  expected as an absence of rows and arrives as an error, so that the fallback is never taken (395,
  `TenantConflict`); a malformed `tenants.yaml` is taken for none and the load goes on as single-tenant (160,
  `Misreads`); two names with one slug become one tenant with the users of both (462, `Overridden`).
- `tenant_seed.go`: a reload books every bill again (329) and adds a location per contact that nothing refers to
  (266), so that `TenantSeed` promises `InvoicesOnce` and nothing of the kind for bills; the errors of the postings and of
  the COMMIT are dropped, and the invoice is counted (304), so that a document lost as a whole is not reported and
  `SuccessMeansSeeded` leaves out the executions that lose statements; a price is cut
  and not rounded to cents, so that 1.13 may be charged as 1.12, below the `min_price` that
  `fixtures/datasets/looking-good/services.yaml:10` calls the lowest price charged (188, `Cut`).
- V1.42: a reversed allocation becomes approved (120); a line keeps "imported" beside its allocation (16); where an
  allocation was reversed and made again the index cannot be built (150, `BuildRefused`); a row that the old
  application confirms after the UPDATE stays proposed until V1.42 runs again (117, `late`); a rule that a user of the
  new application has enabled, and whose old flag is still set, is switched off by a rerun (87).
- `cmd/lsmb-lint`: a CREATE that follows another statement on its line, and a CREATE CONSTRAINT TRIGGER, are not seen
  (40; `LaidOut` names the layout under which the verdict is exact); the audit takes a status from any cell although
  its comment speaks of the fourth field (185), and a line longer than the scanner's buffer ends it without a
  word (180, `AuditEnds`).
- V1.33 and V1.43: the runner stops at the V1.33 that V1.43 was written to repair, so that the model needs an
  operator (`EnterRow`); V1.43 drops the rows of LedgerSMB's table with the table (136), which its comment calls
  safe because no row of Ledgius is among them; where such rows refer to a class that V1.43 deletes or moves (60, 76, 88)
  it is refused, on every attempt, until they are gone; a second execution of V1.43 deletes a class added since that
  nothing refers to, and is refused by one that is in use (60); between the new table and
  its index the seeder can link a contact twice, and the index is refused from then on (153).

## 6. What is not modelled

- Data whose content no property is about: dates, descriptions, password hashes, display columns, the rows of
  seeds and of charts of accounts.
- `TenantSeed` gives each document net 10 and GST 1; what floats do to a price is in `SeedAmounts`, for the price
  range of its run. The database keeps every digit it is sent, and the three decimals of a document need not add up to
  zero: `BalancesAtScale` speaks of them rounded.
- `--dry-run`, `--datasets-dir`, the output of `status`, the summary the linter prints.
- What `platform.RunMigrationsOnDB` does inside a database: it is not in the repository. `MigrateAll` lets it add versions
  one by one, fail at any of them, and go on from there.
- The columns and tables of V1.42 that no statement fills; the other versions of the tenant track, which are
  mostly `CREATE TABLE IF NOT EXISTS`.
- `init-databases.sh` and `reset-databases.sh`: containers, `createdb` and `pg_dump` are external, and what is left is
  a loop that ignores every status. The Makefile: one command per target.
- A script replaced between its checksum and its execution; readers of a seed that is being replaced.

## 7. Plan

Written first, because everything rests on it: `Flyway` with its proofs, then its caller `Provision`, then the
tools that write data (`SeedLoad`, `TenantSeed`, `Slug`), then the migrations that move data (`ReconMigration`,
`LocationClass`), then the second runner (`MigrateAll`), the linter and the amounts. To come, in this order:

1. `InitDatabases`: two runners of the tenant migrations side by side, one of them without ON_ERROR_STOP and
   without a history; which of `MigrationLog` survives.
2. `SeedRefresh`: a reader beside a seed that deletes and inserts statement by statement.
3. The platform versions that move data: plan inheritance (V1.10, V1.11), change of tenant status (V1.20), and
   of the tenant track the guards of the audit log (V1.07) and the precision of V1.53.
