----------------------------- MODULE MCSeedLoad -----------------------------
(* Small datasets for SeedLoad, shaped like those of fixtures/datasets. *)
EXTENDS SeedLoad

User(email, admin, role) ==
    [email |-> email, usable |-> TRUE, admin |-> admin, role |-> role]

\* looking-good: one tenant, its users in users.yaml; one without a password.
Single ==
    [multi |-> FALSE, slug |-> "looking-good", db |-> "ledgius", skip |-> FALSE,
     users |-> <<User("ann", FALSE, "owner"),
                 [email |-> "nobody", usable |-> FALSE, admin |-> FALSE, role |-> "owner"],
                 User("bob", FALSE, "admin")>>,
     tenants |-> <<>>]

\* test-tenants: several tenants that share users with the migrations and
\* with the other dataset; "eve" is in no users.yaml.  The slug of test-farm
\* is generated, from two display names; from a third one none comes.
Multi ==
    [multi |-> TRUE, slug |-> "test-tenants", db |-> "ledgius", skip |-> FALSE,
     users |-> <<User("ann", TRUE, "owner")>>,
     tenants |-> <<[slug |-> "test-farm", written |-> FALSE,
                    users |-> <<[email |-> "eve", role |-> "owner"],
                                [email |-> "matt", role |-> "viewer"]>>],
                   [slug |-> "looking-good", written |-> TRUE,
                    users |-> <<[email |-> "ann", role |-> "bookkeeper"]>>],
                   [slug |-> "test-farm", written |-> FALSE,
                    users |-> <<[email |-> "matt", role |-> "owner"]>>],
                   [slug |-> NoSlug, written |-> FALSE,
                    users |-> <<[email |-> "ann", role |-> "viewer"]>>]>>]

\* Another dataset with the default database, and a user entered twice.
Small ==
    [multi |-> FALSE, slug |-> "demo", db |-> "ledgius", skip |-> TRUE,
     users |-> <<User("bob", TRUE, "owner"), User("bob", FALSE, "viewer")>>,
     tenants |-> <<>>]

Shared == {Single, Multi, Small}
=============================================================================
