--------------------------- MODULE SeedLoadProofs ---------------------------
(***************************************************************************)
(* For any number of executions and any datasets: every membership is one  *)
(* that some dataset grants, an unload removes nothing but its own, a load *)
(* of a dataset that is complete adds no row, and one that nobody disturbs *)
(* leaves its dataset complete (the second part of the module).  A third   *)
(* part is about the slug of a tenant that comes without one.              *)
(*                                                                         *)
(* An execution writes memberships with an id that it read some statements *)
(* before.  What is left of a plan says for which tenant they are meant    *)
(* (Context), and the id at hand is that of the tenant meant or of none    *)
(* any more (AtHand).  That every plan has this form when it is made is   *)
(* shown by induction along the concatenations it is made of.              *)
(***************************************************************************)
EXTENDS SeedLoad, Slug, SequenceTheorems, FiniteSetTheorems, WellFoundedInduction, TLAPS

\* What the datasets grant between them.
GrantedBy(d) == Grants(d) \cup (IF Misreads = {} THEN {} ELSE SingleGrants(d))
Allowed == UNION {GrantedBy(d) : d \in Datasets}

\* The tenants, users and memberships that an execution may write, and the
\* tenants it may remove: those of its dataset, when it has read all of it.
SlugsFor(d, exact) == IF exact THEN TenantSlugs(d) ELSE {d.slug} \cup TenantSlugs(d)
LoadWarrant(d, exact) ==
    [grants |-> IF exact THEN Grants(d) ELSE GrantedBy(d),
     slugs |-> SlugsFor(d, exact), emails |-> Emails(d), deletes |-> {}]
UnloadWarrant(d, exact) ==
    [grants |-> {}, slugs |-> {}, emails |-> {}, deletes |-> {NoSlug} \cup SlugsFor(d, exact)]

Warranted(w, stmt) ==
    /\ stmt.op = "tenant" => stmt.slug \in w.slugs
    /\ stmt.op = "user" => stmt.email \in w.emails
    /\ stmt.op = "delete" => stmt.slug \in w.deletes

NamesTenants(w) == \A g \in w.grants : g.slug # NoSlug

\* The i-th statement of s comes under the tenant of that slug: the last one
\* before it in s or, when there is none, the one at hand.
Context(s, i, slug, at) ==
    \/ \E j \in 1..(i - 1) : /\ s[j].op = "tenant" /\ s[j].slug = slug
                             /\ \A k \in (j + 1)..i : s[k].op # "tenant"
    \/ slug = at /\ \A k \in 1..i : s[k].op # "tenant"

\* The first n statements of s are warranted.  Each membership among them is
\* granted for the tenant it comes under, and follows a statement that makes
\* sure of its user.
FitsTo(w, s, n, known, at) ==
    \A i \in 1..n :
        /\ s[i].op = "member" =>
              /\ IF i = 1 THEN s[i].email \in known
                 ELSE s[i - 1].op \in {"user", "lookup"} /\ s[i - 1].email = s[i].email
              /\ \E g \in w.grants : /\ g.email = s[i].email /\ g.role = s[i].role
                                     /\ Context(s, i, g.slug, at)
        /\ s[i].op = "lookup" => i < n /\ s[i + 1].op = "member"
        /\ Warranted(w, s[i])

Fits(w, s, known, at) == FitsTo(w, s, Len(s), known, at)

Exact(p) == settled[p] \/ "lost" \notin others[p]
WarrantOf(p) == IF pc[p] = "unload" THEN UnloadWarrant(ds[p], "lost" \notin others[p])
                                    ELSE LoadWarrant(ds[p], Exact(p))

\* The id at hand, if it is still in use, is that of the tenant meant; without
\* an unload beside it, it is in use.
AtHand(p, at) ==
    /\ \A t \in tenants : t.id = tenantID[p] => t.slug = at
    /\ pc[p] = "load" /\ "deleted" \notin others[p] /\ at # NoSlug =>
          \E t \in tenants : t.id = tenantID[p]

Planned(p) ==
    \E at \in STRING : Fits(WarrantOf(p), plan[p], DOMAIN users, at) /\ AtHand(p, at)

MembersGranted ==
    \A m \in members : \E g \in Allowed :
        /\ g.email = m.user /\ g.role = m.role
        /\ \E t \in tenants : t.id = m.tenant /\ t.slug = g.slug

\* The primary key of user_tenant_memberships.
OneRow ==
    /\ IsFiniteSet(members)
    /\ \A m, n \in members : m.user = n.user /\ m.tenant = n.tenant => m = n

\* A dataset that was complete when its load started stays so.
StaysComplete(p) ==
    settled[p] /\ pc[p] = "load" /\ "deleted" \notin others[p] =>
        Present(ds[p], Grants(ds[p]))

Sound(p) ==
    /\ Planned(p)
    /\ StaysComplete(p)
    /\ pc[p] # "idle" => exit[p] = "none"

IInv == TypeOK /\ MembersGranted /\ OneRow /\ \A p \in Procs : Sound(p)

-----------------------------------------------------------------------------
(* Concatenations. *)

\* Induction, with a set for the predicate.
LEMMA SetInduction ==
  ASSUME NEW S, 0 \in S, \A n \in Nat : n \in S => n + 1 \in S
  PROVE  Nat \subseteq S
<1> SUFFICES ASSUME Nat \ S # {} PROVE FALSE
  OBVIOUS
<1> DEFINE D == Nat \ S
<1>1. PICK x \in D : \A y \in D : <<y, x>> \notin OpToRel(<, Nat)
  BY NatLessThanWellFounded, WFMin, Zenon
<1>2. x \in Nat /\ x # 0
  OBVIOUS
<1>3. x - 1 \in Nat /\ x - 1 < x
  BY <1>2
<1>4. x - 1 \notin D
  <2>1. ASSUME x - 1 \in D PROVE FALSE
    <3>1. <<x - 1, x>> \notin {ss \in Nat \X Nat : ss[1] < ss[2]}
      BY <1>1, <2>1 DEF OpToRel
    <3> QED BY <1>2, <1>3, <3>1
  <2> QED BY <2>1
<1>5. (x - 1) + 1 \in S
  BY <1>3, <1>4
<1> QED BY <1>2, <1>5

\* The recursive function of FlattenSeq exists.
LEMMA FlattenExists ==
  ASSUME NEW ss, NEW n \in Nat
  PROVE  \E f : f = [i \in 1..n |-> IF i = 1 THEN ss[i] ELSE f[i - 1] \o ss[i]]
<1> DEFINE Is(f, m) == \A i \in 1..m : f[i] = IF i = 1 THEN ss[i] ELSE f[i - 1] \o ss[i]
           S == {m \in Nat : \E f : Is(f, m)}
<1>1. 0 \in S
  <2>1. Is([i \in 1..0 |-> i], 0)
    OBVIOUS
  <2> QED BY <2>1
<1>2. ASSUME NEW m \in Nat, m \in S PROVE m + 1 \in S
  <2>1. PICK f : Is(f, m)
    BY <1>2
  <2> DEFINE new == IF m = 0 THEN ss[1] ELSE f[m] \o ss[m + 1]
             g == [i \in 1..(m + 1) |-> IF i <= m THEN f[i] ELSE new]
  <2>2. ASSUME NEW i \in 1..(m + 1)
        PROVE  g[i] = IF i = 1 THEN ss[i] ELSE g[i - 1] \o ss[i]
    <3> HIDE DEF new
    <3>1. CASE i <= m
      <4>1. i \in 1..m /\ (i # 1 => i - 1 \in 1..m)
        BY <3>1
      <4>2. g[i] = f[i] /\ (i # 1 => g[i - 1] = f[i - 1])
        BY <3>1, <4>1
      <4>3. f[i] = IF i = 1 THEN ss[i] ELSE f[i - 1] \o ss[i]
        BY <2>1, <4>1
      <4> QED BY <4>2, <4>3
    <3>2. CASE i = m + 1
      <4>1. g[i] = new /\ (i # 1 => g[i - 1] = f[m])
        BY <3>2
      <4> QED BY <3>2, <4>1 DEF new
    <3> QED BY <3>1, <3>2
  <2> HIDE DEF g
  <2>3. Is(g, m + 1)
    BY <2>2
  <2>4. \E h : Is(h, m + 1)
    BY <2>3
  <2> HIDE DEF Is
  <2> QED BY <2>4
<1> HIDE DEF S
<1>3. n \in S
  BY <1>1, <1>2, SetInduction
<1>4. PICK f : Is(f, n)
  BY <1>3 DEF S
<1> DEFINE g == [i \in 1..n |-> f[i]]
<1>5. ASSUME NEW i \in 1..n PROVE f[i] = IF i = 1 THEN ss[i] ELSE g[i - 1] \o ss[i]
  <2>1. i # 1 => g[i - 1] = f[i - 1]
    OBVIOUS
  <2> HIDE DEF g
  <2> QED BY <1>4, <2>1
<1>6. g = [i \in 1..n |-> IF i = 1 THEN ss[i] ELSE g[i - 1] \o ss[i]]
  BY <1>5
<1> QED BY <1>6

\* The concatenation of members of C is one, when C is closed.
LEMMA FlattenStays ==
  ASSUME NEW C, <<>> \in C, \A a, b \in C : a \o b \in C,
         NEW ss, NEW n \in Nat, DOMAIN ss = 1..n, Len(ss) = n, n = 0 => ss = <<>>,
         \A i \in 1..n : ss[i] \in C
  PROVE  FlattenSeq(ss) \in C
<1>1. CASE n = 0
  BY <1>1 DEF FlattenSeq
<1>2. CASE n # 0
  <2> DEFINE f == CHOOSE g : g = [i \in 1..Len(ss) |->
                                    IF i = 1 THEN ss[i] ELSE g[i - 1] \o ss[i]]
  <2>1. f = [i \in 1..n |-> IF i = 1 THEN ss[i] ELSE f[i - 1] \o ss[i]]
    BY FlattenExists
  <2>2. FlattenSeq(ss) = f[n]
    BY <1>2 DEF FlattenSeq
  <2> HIDE DEF f
  <2> DEFINE S == {m \in Nat : m \in 1..n => f[m] \in C}
  <2>3. 0 \in S
    OBVIOUS
  <2>4. ASSUME NEW m \in Nat, m \in S PROVE m + 1 \in S
    <3>1. CASE m + 1 \in 1..n
      <4>1. f[m + 1] = IF m + 1 = 1 THEN ss[m + 1] ELSE f[(m + 1) - 1] \o ss[m + 1]
        BY <2>1, <3>1
      <4>2. (m + 1) - 1 = m /\ (m # 0 => m \in 1..n)
        BY <3>1
      <4> QED BY <2>4, <3>1, <4>1, <4>2
    <3> QED BY <3>1
  <2> HIDE DEF S
  <2>5. n \in S
    BY <2>3, <2>4, SetInduction
  <2> QED BY <1>2, <2>2, <2>5 DEF S
<1> QED BY <1>1, <1>2

-----------------------------------------------------------------------------
(* Plans. *)

\* The tenant at hand after n statements, if the one before them is at.
Leaves(s, n, slug, at) ==
    \/ \E j \in 1..n : /\ s[j].op = "tenant" /\ s[j].slug = slug
                       /\ \A k \in (j + 1)..n : s[k].op # "tenant"
    \/ slug = at /\ \A k \in 1..n : s[k].op # "tenant"

\* Whole plans, and the plans of memberships of one tenant.
Whole(w) == {s \in Seq(Statement) : Fits(w, s, {}, NoSlug)}
Under(w, slug) ==
    {s \in Seq(Statement) : /\ Fits(w, s, {}, slug)
                            /\ \A i \in 1..Len(s) : s[i].op # "tenant"}

\* No grant is for a tenant without a slug: loadMultiTenant passes over it.
LEMMA GrantsNameTenant ==
  ASSUME NEW d \in Datasets PROVE \A exact : NamesTenants(LoadWarrant(d, exact))
<1>1. ASSUME NEW g \in SingleGrants(d) PROVE g.slug # NoSlug
  BY <1>1, SeedLoadAssumption DEF SingleGrants, GrantTo
<1>2. ASSUME NEW g \in Grants(d) PROVE g.slug # NoSlug
  <2>1. CASE d.multi
    BY <1>2, <2>1 DEF Grants, GrantTo, Entries
  <2>2. CASE ~d.multi
    BY <1>1, <1>2, <2>2 DEF Grants
  <2> QED BY <2>1, <2>2
<1> QED BY <1>1, <1>2 DEF NamesTenants, LoadWarrant, GrantedBy

\* A membership of b keeps its tenant when the statements of a come before.
LEMMA ContextShift ==
  ASSUME NEW a, NEW b, NEW s, NEW la \in Nat, NEW lb \in Nat,
         \A k \in 1..la : s[k] = a[k], \A k \in 1..lb : s[la + k] = b[k],
         NEW at, NEW bt, NEW slug, slug # NoSlug, bt = NoSlug \/ Leaves(a, la, bt, at),
         NEW m \in 1..lb, Context(b, m, slug, bt)
  PROVE  Context(s, la + m, slug, at)
<1>1. \A k \in la + 1..la + m : k - la \in 1..m /\ k - la \in 1..lb /\ la + (k - la) = k
  OBVIOUS
<1>2. \A k \in la + 1..la + m : s[k] = b[k - la]
  BY <1>1
<1>3. CASE \E j \in 1..(m - 1) : /\ b[j].op = "tenant" /\ b[j].slug = slug
                                 /\ \A k \in (j + 1)..m : b[k].op # "tenant"
  <2>1. PICK j \in 1..(m - 1) : /\ b[j].op = "tenant" /\ b[j].slug = slug
                                /\ \A k \in (j + 1)..m : b[k].op # "tenant"
    BY <1>3
  <2>2. la + j \in 1..((la + m) - 1) /\ j \in 1..lb
    OBVIOUS
  <2>3. \A k \in ((la + j) + 1)..(la + m) : k - la \in (j + 1)..m /\ k \in la + 1..la + m
    OBVIOUS
  <2>4. \A k \in ((la + j) + 1)..(la + m) : s[k].op # "tenant"
    BY <1>2, <2>1, <2>3
  <2> QED BY <2>1, <2>2, <2>4 DEF Context
<1>4. CASE slug = bt /\ \A k \in 1..m : b[k].op # "tenant"
  <2>1. \A k \in la + 1..la + m : s[k].op # "tenant"
    BY <1>1, <1>2, <1>4
  <2>2. CASE \E j \in 1..la : /\ a[j].op = "tenant" /\ a[j].slug = slug
                              /\ \A k \in (j + 1)..la : a[k].op # "tenant"
    <3>1. PICK j \in 1..la : /\ a[j].op = "tenant" /\ a[j].slug = slug
                             /\ \A k \in (j + 1)..la : a[k].op # "tenant"
      BY <2>2
    <3>2. j \in 1..((la + m) - 1)
      OBVIOUS
    <3>3. \A k \in (j + 1)..(la + m) : \/ k \in la + 1..la + m
                                       \/ k \in (j + 1)..la /\ k \in 1..la
      OBVIOUS
    <3>4. \A k \in (j + 1)..(la + m) : s[k].op # "tenant"
      BY <2>1, <3>1, <3>3
    <3> QED BY <3>1, <3>2, <3>4 DEF Context
  <2>3. CASE slug = at /\ \A k \in 1..la : a[k].op # "tenant"
    <3>1. \A k \in 1..(la + m) : k \in la + 1..la + m \/ k \in 1..la
      OBVIOUS
    <3> QED BY <2>1, <2>3, <3>1 DEF Context
  <2> QED BY <1>4, <2>2, <2>3 DEF Leaves
<1> QED BY <1>3, <1>4 DEF Context

\* Statements that fit may follow one another, if those of b are meant for the
\* tenant that a leaves, or choose theirs.
LEMMA FitsTogether ==
  ASSUME NEW a, NEW b, NEW s, NEW la \in Nat, NEW lb \in Nat,
         \A k \in 1..la : s[k] = a[k], \A k \in 1..lb : s[la + k] = b[k],
         NEW w, NamesTenants(w), NEW known, NEW at, NEW bt,
         FitsTo(w, a, la, known, at), FitsTo(w, b, lb, {}, bt),
         bt = NoSlug \/ Leaves(a, la, bt, at)
  PROVE  FitsTo(w, s, la + lb, known, at)
<1> DEFINE Member(i) ==
             /\ IF i = 1 THEN s[i].email \in known
                ELSE s[i - 1].op \in {"user", "lookup"} /\ s[i - 1].email = s[i].email
             /\ \E g \in w.grants : /\ g.email = s[i].email /\ g.role = s[i].role
                                    /\ Context(s, i, g.slug, at)
           Lookup(i) == i < la + lb /\ s[i + 1].op = "member"
<1>1. ASSUME NEW i \in 1..la
      PROVE  /\ s[i].op = "member" => Member(i)
             /\ s[i].op = "lookup" => Lookup(i)
             /\ Warranted(w, s[i])
  <2>1. /\ i # 1 => i - 1 \in 1..la
        /\ i < la => i + 1 \in 1..la /\ i < la + lb
        /\ \A k \in 1..i : k \in 1..la
    OBVIOUS
  <2>2. s[i] = a[i] /\ (i # 1 => s[i - 1] = a[i - 1]) /\ (i < la => s[i + 1] = a[i + 1])
    BY <2>1
  <2>3. \A slug : Context(a, i, slug, at) => Context(s, i, slug, at)
    <3>1. \A k \in 1..i : s[k] = a[k]
      BY <2>1
    <3>2. \A j \in 1..(i - 1) : j \in 1..i /\ \A k \in (j + 1)..i : k \in 1..i
      OBVIOUS
    <3> QED BY <3>1, <3>2 DEF Context
  <2> QED BY <2>1, <2>2, <2>3 DEF FitsTo
<1>2. ASSUME NEW m \in 1..lb
      PROVE  /\ s[la + m].op = "member" => Member(la + m)
             /\ s[la + m].op = "lookup" => Lookup(la + m)
             /\ Warranted(w, s[la + m])
  <2>1. /\ m # 1 => m - 1 \in 1..lb /\ (la + m) - 1 = la + (m - 1) /\ la + m # 1
        /\ m < lb => m + 1 \in 1..lb /\ (la + m) + 1 = la + (m + 1) /\ la + m < la + lb
    OBVIOUS
  <2>2. /\ s[la + m] = b[m] /\ (m # 1 => s[(la + m) - 1] = b[m - 1])
        /\ m < lb => s[(la + m) + 1] = b[m + 1]
    BY <2>1
  <2>3. \A slug : slug # NoSlug /\ Context(b, m, slug, bt) => Context(s, la + m, slug, at)
    BY ContextShift
  <2> QED BY <2>1, <2>2, <2>3 DEF FitsTo, NamesTenants
<1>3. ASSUME NEW i \in 1..(la + lb) PROVE i \in 1..la \/ \E m \in 1..lb : i = la + m
  <2>1. CASE i > la
    <3>1. i - la \in 1..lb /\ i = la + (i - la)
      BY <2>1
    <3> QED BY <3>1
  <2> QED BY <2>1
<1>4. ASSUME NEW i \in 1..(la + lb)
      PROVE  /\ s[i].op = "member" => Member(i)
             /\ s[i].op = "lookup" => Lookup(i)
             /\ Warranted(w, s[i])
  <2>1. CASE i \in 1..la
    BY <1>1, <2>1
  <2>2. CASE \E m \in 1..lb : i = la + m
    <3> HIDE DEF Member, Lookup
    <3> QED BY <1>2, <2>2
  <2> QED BY <1>3, <2>1, <2>2
<1> QED BY <1>4 DEF FitsTo

\* What is known of the concatenation of two sequences.
LEMMA Concat ==
  ASSUME NEW a \in Seq(Statement), NEW b \in Seq(Statement)
  PROVE  /\ a \o b \in Seq(Statement) /\ Len(a \o b) = Len(a) + Len(b)
         /\ \A k \in 1..Len(a) : (a \o b)[k] = a[k]
         /\ \A k \in 1..Len(b) : (a \o b)[Len(a) + k] = b[k]
<1>1. a \o b \in Seq(Statement) /\ Len(a \o b) = Len(a) + Len(b)
  BY ConcatProperties
<1>2. ASSUME NEW k \in 1..Len(a) PROVE (a \o b)[k] = a[k]
  BY ConcatProperties
<1>3. ASSUME NEW k \in 1..Len(b) PROVE (a \o b)[Len(a) + k] = b[k]
  <2>1. Len(a) \in Nat /\ Len(b) \in Nat
    OBVIOUS
  <2>2. Len(a) + k \in Len(a) + 1..Len(a) + Len(b) /\ (Len(a) + k) - Len(a) = k
    BY <2>1
  <2> QED BY <2>2, ConcatProperties
<1> QED BY <1>1, <1>2, <1>3

\* The same of sequences.
LEMMA FitsConcat ==
  ASSUME NEW a \in Seq(Statement), NEW b \in Seq(Statement), NEW w, NamesTenants(w),
         NEW known, NEW at, NEW bt, Fits(w, a, known, at), Fits(w, b, {}, bt),
         bt = NoSlug \/ Leaves(a, Len(a), bt, at)
  PROVE  Fits(w, a \o b, known, at)
<1>1. Len(a) \in Nat /\ Len(b) \in Nat
  OBVIOUS
<1>2. FitsTo(w, a, Len(a), known, at) /\ FitsTo(w, b, Len(b), {}, bt)
  BY DEF Fits
<1>3. /\ \A k \in 1..Len(a) : (a \o b)[k] = a[k]
      /\ \A k \in 1..Len(b) : (a \o b)[Len(a) + k] = b[k]
      /\ Len(a \o b) = Len(a) + Len(b)
  BY Concat
<1>4. FitsTo(w, a \o b, Len(a) + Len(b), known, at)
  BY <1>1, <1>2, <1>3, FitsTogether, Zenon
<1> QED BY <1>3, <1>4 DEF Fits

\* Whole plans may follow one another.
LEMMA WholeConcat ==
  ASSUME NEW w, NamesTenants(w) PROVE \A a, b \in Whole(w) : a \o b \in Whole(w)
BY FitsConcat, Concat DEF Whole

\* So may the memberships of one tenant.
LEMMA UnderConcat ==
  ASSUME NEW w, NamesTenants(w), NEW slug
  PROVE  \A a, b \in Under(w, slug) : a \o b \in Under(w, slug)
<1> SUFFICES ASSUME NEW a \in Under(w, slug), NEW b \in Under(w, slug)
             PROVE  a \o b \in Under(w, slug)
  OBVIOUS
<1>1. /\ a \in Seq(Statement) /\ Fits(w, a, {}, slug) /\ \A k \in 1..Len(a) : a[k].op # "tenant"
      /\ b \in Seq(Statement) /\ Fits(w, b, {}, slug) /\ \A k \in 1..Len(b) : b[k].op # "tenant"
  BY DEF Under
<1>2. Fits(w, a \o b, {}, slug)
  BY <1>1, FitsConcat DEF Leaves
<1>3. ASSUME NEW k \in 1..Len(a \o b) PROVE (a \o b)[k].op # "tenant"
  <2> DEFINE la == Len(a)
             lb == Len(b)
  <2>1. la \in Nat /\ lb \in Nat /\ Len(a \o b) = la + lb
    BY <1>1, Concat
  <2>2. CASE k \in 1..la
    BY <1>1, <2>2, Concat
  <2>3. CASE k \notin 1..la
    <3> HIDE DEF la, lb
    <3>1. k - la \in 1..lb /\ k = la + (k - la)
      BY <2>1, <2>3
    <3> QED BY <1>1, <3>1, Concat DEF la, lb
  <2> QED BY <2>2, <2>3
<1> QED BY <1>1, <1>2, <1>3, Concat DEF Under

\* The empty plan.
LEMMA NothingFits == \A w : <<>> \in Whole(w) /\ \A slug : <<>> \in Under(w, slug)
<1>1. <<>> \in Seq(Statement) /\ Len(<<>>) = 0
  OBVIOUS
<1> QED BY <1>1 DEF Whole, Under, Fits, FitsTo

\* A plan of one statement that is about no membership.
LEMMA OneFits ==
  ASSUME NEW w, NEW s \in Statement, s.op \notin {"member", "lookup"}, Warranted(w, s)
  PROVE  <<s>> \in Whole(w)
<1>1. <<s>> \in Seq(Statement) /\ Len(<<s>>) = 1 /\ <<s>>[1] = s
  OBVIOUS
<1> QED BY <1>1 DEF Whole, Fits, FitsTo

\* The statements are statements.
LEMMA StatementsTyped ==
  ASSUME NEW u, u.email \in STRING
  PROVE  /\ u.admin \in BOOLEAN => UserStmt(u) \in Statement
         /\ MemberStmt(u) \in Statement
         /\ LookupStmt(u) \in Statement
  BY DEF UserStmt, MemberStmt, LookupStmt, defaultRole, Roles, Statement

\* A membership that is granted, after the statement about its user.
LEMMA PairFits ==
  ASSUME NEW w, NEW slug, NEW u, u.email \in STRING, GrantTo(slug, u) \in w.grants,
         NEW s \in Statement, s.op \in {"user", "lookup"}, s.email = u.email, Warranted(w, s)
  PROVE  <<s, MemberStmt(u)>> \in Under(w, slug)
<1> DEFINE m == MemberStmt(u)
<1>1. m \in Statement /\ m.op = "member" /\ m.email = u.email /\ m.role = defaultRole(u.role)
  BY StatementsTyped DEF MemberStmt
<1>2. \E g \in w.grants : g.email = m.email /\ g.role = m.role /\ g.slug = slug
  BY <1>1 DEF GrantTo
<1> HIDE DEF m
<1> DEFINE q == <<s, m>>
<1>3. q \in Seq(Statement) /\ Len(q) = 2 /\ q[1] = s /\ q[2] = m
  BY <1>1
<1> HIDE DEF q
<1>4. \A k \in 1..2 : q[k].op # "tenant"
  BY <1>1, <1>3
<1>5. Context(q, 2, slug, slug)
  BY <1>4 DEF Context
<1>6. FitsTo(w, q, 2, {}, slug)
  <2>1. Warranted(w, m)
    BY <1>1 DEF Warranted
  <2> QED BY <1>1, <1>2, <1>3, <1>5, <2>1 DEF FitsTo
<1>7. q \in Under(w, slug)
  BY <1>3, <1>4, <1>6 DEF Under, Fits
<1> QED BY <1>7 DEF q, m

\* A tenant with its memberships.
LEMMA TenantFits ==
  ASSUME NEW w, NamesTenants(w), NEW slug \in STRING \ {NoSlug}, NEW db \in STRING,
         slug \in w.slugs, NEW c \in Under(w, slug)
  PROVE  <<TenantStmt(slug, db)>> \o c \in Whole(w)
<1> DEFINE s == TenantStmt(slug, db)
<1>1. s \in Statement /\ s.op = "tenant" /\ s.slug = slug
  BY DEF TenantStmt, Statement
<1> HIDE DEF s
<1>2. <<s>> \in Seq(Statement) /\ Len(<<s>>) = 1 /\ <<s>>[1] = s
  BY <1>1
<1>3. Fits(w, <<s>>, {}, NoSlug)
  <2>1. Warranted(w, s)
    BY <1>1 DEF Warranted
  <2> QED BY <1>1, <1>2, <2>1 DEF Fits, FitsTo
<1>4. Leaves(<<s>>, Len(<<s>>), slug, NoSlug)
  BY <1>1, <1>2 DEF Leaves
<1>5. c \in Seq(Statement) /\ Fits(w, c, {}, slug)
  BY DEF Under
<1>6. Fits(w, <<s>> \o c, {}, NoSlug) /\ <<s>> \o c \in Seq(Statement)
  BY <1>2, <1>3, <1>4, <1>5, FitsConcat, Concat
<1> QED BY <1>6 DEF Whole, s

\* The images of the elements of a sequence, concatenated.
LEMMA FlatMapStays ==
  ASSUME NEW C, <<>> \in C, \A a, b \in C : a \o b \in C,
         NEW X, NEW s \in Seq(X), NEW g, g = [i \in DOMAIN s |-> g[i]],
         \A i \in DOMAIN s : g[i] \in C
  PROVE  FlattenSeq(g) \in C
<1>1. Len(s) \in Nat /\ DOMAIN s = 1..Len(s)
  OBVIOUS
<1>2. g \in [1..Len(s) -> C]
  BY <1>1
<1>3. g \in Seq(C) /\ Len(g) = Len(s)
  BY <1>1, <1>2
<1>4. Len(s) = 0 => g = <<>>
  BY <1>3
<1> QED BY <1>1, <1>2, <1>3, <1>4, FlattenStays

\* The usable users are users.
LEMMA UsableTyped == ASSUME NEW us \in Seq(Account) PROVE Usable(us) \in Seq(Account)
<1> DEFINE C == Seq(Account)
           g == [i \in DOMAIN us |-> IF us[i].usable THEN <<us[i]>> ELSE <<>>]
<1>1. <<>> \in C /\ \A a, b \in C : a \o b \in C
  BY ConcatProperties
<1>2. \A i \in DOMAIN us : g[i] \in C
  OBVIOUS
<1>3. g = [i \in DOMAIN us |-> g[i]]
  OBVIOUS
<1> HIDE DEF C, g
<1>4. FlattenSeq(g) \in C
  BY <1>1, <1>2, <1>3, FlatMapStays
<1> QED BY <1>4 DEF Usable, FlatMap, g, C

\* The grants of a single tenant count when a load may take a dataset for one.
LEMMA LoadSingleWhole ==
  ASSUME NEW d \in Datasets, NEW exact, d.multi => Misreads # {} /\ ~exact
  PROVE  loadSingle(d) \in Whole(LoadWarrant(d, exact))
<1> DEFINE us == Usable(d.users)
           g == [i \in DOMAIN us |-> <<UserStmt(us[i]), MemberStmt(us[i])>>]
           w == LoadWarrant(d, exact)
           C == Under(w, d.slug)
           c == FlattenSeq(g)
           data == IF d.skip THEN <<>> ELSE <<[op |-> "data"]>>
<1>1. d.slug \in STRING \ {NoSlug} /\ d.db \in STRING /\ us \in Seq(Account)
  BY UsableTyped, SeedLoadAssumption DEF DatasetType
<1> HIDE DEF us
<1>2. ASSUME NEW i \in DOMAIN us PROVE g[i] \in C
  <2> DEFINE u == us[i]
  <2>1. u \in Account /\ u \in ToSet(us)
    BY <1>1 DEF ToSet
  <2> HIDE DEF u
  <2>2. u.email \in STRING /\ u.admin \in BOOLEAN
    BY <2>1 DEF Account
  <2>3. GrantTo(d.slug, u) \in SingleGrants(d)
    BY <2>1 DEF SingleGrants, us
  <2>4. GrantTo(d.slug, u) \in w.grants
    BY <2>3 DEF LoadWarrant, GrantedBy, Grants
  <2>5. UserStmt(u) \in Statement /\ UserStmt(u).op = "user" /\ UserStmt(u).email = u.email
    BY <2>2, StatementsTyped DEF UserStmt
  <2>6. Warranted(w, UserStmt(u))
    <3>1. u.email \in w.emails
      BY <2>1 DEF LoadWarrant, Emails, us
    <3> QED BY <2>5, <3>1 DEF Warranted
  <2> HIDE DEF w
  <2>7. <<UserStmt(u), MemberStmt(u)>> \in Under(w, d.slug)
    BY <2>2, <2>4, <2>5, <2>6, PairFits
  <2> QED BY <2>7 DEF u
<1>3. g = [i \in DOMAIN us |-> g[i]]
  OBVIOUS
<1>4. <<>> \in C /\ \A a, b \in C : a \o b \in C
  BY NothingFits, UnderConcat, GrantsNameTenant
<1> HIDE DEF g, C
<1>5. c \in C
  BY <1>1, <1>2, <1>3, <1>4, FlatMapStays
<1> HIDE DEF c
<1>6. <<TenantStmt(d.slug, d.db)>> \o c \in Whole(w)
  <2>1. d.slug \in w.slugs /\ NamesTenants(w)
    BY GrantsNameTenant DEF LoadWarrant, SlugsFor, TenantSlugs
  <2> HIDE DEF w
  <2> QED BY <1>1, <1>5, <2>1, TenantFits DEF C
<1>7. data \in Whole(w)
  <2>1. /\ [op |-> "data"] \in Statement /\ [op |-> "data"].op = "data"
        /\ Warranted(w, [op |-> "data"])
    BY DEF Statement, Warranted
  <2> HIDE DEF w
  <2> QED BY <2>1, OneFits, NothingFits
<1> HIDE DEF data
<1>8. (<<TenantStmt(d.slug, d.db)>> \o c) \o data \in Whole(w)
  BY <1>6, <1>7, WholeConcat, GrantsNameTenant
<1> QED BY <1>8 DEF loadSingle, FlatMap, c, g, us, data

\* A tenant of tenants.yaml.
LEMMA LoadTenantWhole ==
  ASSUME NEW d \in Datasets, d.multi, NEW exact, NEW t \in ToSet(d.tenants), t.slug # NoSlug
  PROVE  <<TenantStmt(t.slug, t.slug)>>
            \o FlattenSeq([i \in DOMAIN t.users |-> <<LookupStmt(t.users[i]),
                                                      MemberStmt(t.users[i])>>])
               \in Whole(LoadWarrant(d, exact))
<1> DEFINE us == t.users
           g == [i \in DOMAIN us |-> <<LookupStmt(us[i]), MemberStmt(us[i])>>]
           w == LoadWarrant(d, exact)
           C == Under(w, t.slug)
           c == FlattenSeq(g)
<1>1. t \in TenantEntry
  <2>1. d.tenants \in Seq(TenantEntry)
    BY SeedLoadAssumption DEF DatasetType
  <2> QED BY <2>1 DEF ToSet
<1>2. t.slug \in STRING /\ us \in Seq(Assignment)
  BY <1>1 DEF TenantEntry
<1> HIDE DEF us
<1>3. ASSUME NEW i \in DOMAIN us PROVE g[i] \in C
  <2> DEFINE u == us[i]
  <2>1. u \in Assignment /\ u \in ToSet(us)
    BY <1>2 DEF ToSet
  <2> HIDE DEF u
  <2>2. t \in Entries(d)
    BY DEF Entries
  <2>3. GrantTo(t.slug, u) \in Grants(d)
    BY <2>1, <2>2 DEF Grants, us
  <2>4. GrantTo(t.slug, u) \in w.grants
    BY <2>3 DEF LoadWarrant, GrantedBy
  <2>5. LookupStmt(u) \in Statement /\ LookupStmt(u).op = "lookup" /\ LookupStmt(u).email = u.email
    BY <2>1, StatementsTyped DEF LookupStmt, Assignment
  <2>6. Warranted(w, LookupStmt(u))
    BY <2>5 DEF Warranted
  <2> HIDE DEF w
  <2>7. <<LookupStmt(u), MemberStmt(u)>> \in Under(w, t.slug)
    BY <2>1, <2>4, <2>5, <2>6, PairFits DEF Assignment
  <2> QED BY <2>7 DEF u
<1>4. g = [i \in DOMAIN us |-> g[i]]
  OBVIOUS
<1>5. <<>> \in C /\ \A a, b \in C : a \o b \in C
  BY NothingFits, UnderConcat, GrantsNameTenant
<1> HIDE DEF g, C
<1>6. c \in C
  BY <1>2, <1>3, <1>4, <1>5, FlatMapStays
<1> HIDE DEF c
<1>7. <<TenantStmt(t.slug, t.slug)>> \o c \in Whole(w)
  <2>1. t.slug \in w.slugs /\ NamesTenants(w)
    BY GrantsNameTenant DEF LoadWarrant, SlugsFor, TenantSlugs, Entries
  <2> HIDE DEF w
  <2> QED BY <1>2, <1>6, <2>1, TenantFits DEF C
<1> QED BY <1>7 DEF c, g, us

\* A dataset of several tenants.
LEMMA LoadMultiWhole ==
  ASSUME NEW d \in Datasets, d.multi, NEW unread, NEW exact
  PROVE  loadMultiTenant(d, unread) \in Whole(LoadWarrant(d, exact))
<1> DEFINE w == LoadWarrant(d, exact)
           us == Usable(d.users)
           g == [i \in DOMAIN us |-> <<UserStmt(us[i])>>]
           assigned(t) == FlattenSeq([i \in DOMAIN t.users |-> <<LookupStmt(t.users[i]),
                                                                MemberStmt(t.users[i])>>])
           ts == d.tenants
           h == [i \in DOMAIN ts |-> IF ts[i].slug = NoSlug THEN <<>>
                                     ELSE <<TenantStmt(ts[i].slug, ts[i].slug)>>
                                             \o assigned(ts[i])]
           a == IF "users" \in unread THEN <<>> ELSE FlattenSeq(g)
           b == FlattenSeq(h)
<1>1. us \in Seq(Account) /\ ts \in Seq(TenantEntry)
  BY UsableTyped, SeedLoadAssumption DEF DatasetType
<1> HIDE DEF us
<1>2. <<>> \in Whole(w) /\ \A x, y \in Whole(w) : x \o y \in Whole(w)
  BY NothingFits, WholeConcat, GrantsNameTenant
<1>3. ASSUME NEW i \in DOMAIN us PROVE g[i] \in Whole(w)
  <2> DEFINE u == us[i]
  <2>1. u \in Account /\ u \in ToSet(us)
    BY <1>1 DEF ToSet
  <2> HIDE DEF u
  <2>2. UserStmt(u) \in Statement /\ UserStmt(u).op = "user"
    BY <2>1, StatementsTyped DEF UserStmt, Account
  <2>3. Warranted(w, UserStmt(u))
    <3>1. u.email \in w.emails /\ UserStmt(u).email = u.email
      BY <2>1 DEF LoadWarrant, Emails, UserStmt, us
    <3> QED BY <2>2, <3>1 DEF Warranted
  <2> HIDE DEF w
  <2>4. <<UserStmt(u)>> \in Whole(w)
    BY <2>2, <2>3, OneFits
  <2> QED BY <2>4 DEF u
<1>4. ASSUME NEW i \in DOMAIN ts PROVE h[i] \in Whole(w)
  <2>1. CASE ts[i].slug = NoSlug
    BY <1>2, <2>1
  <2>2. CASE ts[i].slug # NoSlug
    <3> DEFINE t == ts[i]
    <3>1. t \in ToSet(d.tenants)
      BY DEF ToSet
    <3> HIDE DEF t
    <3>2. t.slug # NoSlug
      BY <2>2 DEF t
    <3>3. <<TenantStmt(t.slug, t.slug)>> \o assigned(t) \in Whole(w)
      BY <3>1, <3>2, LoadTenantWhole
    <3>4. h[i] = <<TenantStmt(t.slug, t.slug)>> \o assigned(t)
      BY <2>2 DEF t
    <3> QED BY <3>3, <3>4
  <2> QED BY <2>1, <2>2
<1>5. g = [i \in DOMAIN us |-> g[i]] /\ h = [i \in DOMAIN ts |-> h[i]]
  OBVIOUS
<1> HIDE DEF g, h, ts, w
<1>6. a \in Whole(w)
  BY <1>1, <1>2, <1>3, <1>5, FlatMapStays
<1>7. b \in Whole(w)
  BY <1>1, <1>2, <1>4, <1>5, FlatMapStays
<1> HIDE DEF a, b
<1>8. a \o b \in Whole(w)
  BY <1>2, <1>6, <1>7
<1> QED BY <1>8 DEF loadMultiTenant, FlatMap, a, b, g, h, us, ts, w

\* Deletions.
Deletion(own) == [op: {"delete"}, slug: own]

\* An unload consists of deletions, of nothing but its own tenants.
LEMMA UnloadDeletes ==
  ASSUME NEW d \in Datasets, NEW unread, NEW exact, unread # {} => d.multi /\ ~exact
  PROVE  unload(d, unread) \in Seq(Deletion({NoSlug} \cup SlugsFor(d, exact)))
<1> DEFINE D == Deletion({NoSlug} \cup SlugsFor(d, exact))
           ts == d.tenants
           slug(t) == IF t.written THEN t.slug ELSE NoSlug
           g == [i \in DOMAIN ts |-> <<[op |-> "delete", slug |-> slug(ts[i])]>>]
           C == Seq(D)
<1>1. CASE AsMulti(d, unread)
  <2>1. ts \in Seq(TenantEntry) /\ d.multi
    BY <1>1, SeedLoadAssumption DEF DatasetType, AsMulti
  <2>2. ASSUME NEW i \in DOMAIN ts PROVE g[i] \in C
    <3>1. ts[i] \in ToSet(d.tenants)
      BY DEF ToSet
    <3>2. ts[i].slug = NoSlug \/ ts[i].slug \in SlugsFor(d, exact)
      BY <2>1, <3>1 DEF SlugsFor, TenantSlugs, Entries
    <3>3. slug(ts[i]) \in {NoSlug} \cup SlugsFor(d, exact)
      BY <3>2
    <3> HIDE DEF slug
    <3>4. [op |-> "delete", slug |-> slug(ts[i])] \in D
      BY <3>3 DEF Deletion
    <3> HIDE DEF D
    <3> QED BY <3>4
  <2>3. <<>> \in C /\ \A a, b \in C : a \o b \in C
    <3> HIDE DEF D
    <3> QED BY ConcatProperties
  <2>4. g = [i \in DOMAIN ts |-> g[i]]
    OBVIOUS
  <2> HIDE DEF g, ts, C
  <2>5. FlattenSeq(g) \in C
    BY <2>1, <2>2, <2>3, <2>4, FlatMapStays
  <2> QED BY <1>1, <2>5 DEF unload, FlatMap, g, ts, C
<1>2. CASE ~AsMulti(d, unread)
  <2>1. d.slug \in SlugsFor(d, exact)
    BY <1>2 DEF SlugsFor, TenantSlugs, AsMulti
  <2>2. [op |-> "delete", slug |-> d.slug] \in D
    BY <2>1 DEF Deletion
  <2> HIDE DEF D
  <2>3. <<[op |-> "delete", slug |-> d.slug]>> \in Seq(D)
    BY <2>2
  <2> QED BY <1>2, <2>3 DEF unload, D
<1> QED BY <1>1, <1>2

\* Plans of deletions are whole.
LEMMA DeletesWhole ==
  ASSUME NEW own, own \subseteq STRING, NEW s \in Seq(Deletion(own)), NEW w, own \subseteq w.deletes
  PROVE  s \in Whole(w)
<1> DEFINE D == Deletion(own)
<1>1. \A x \in D : x \in Statement /\ x.op = "delete" /\ x.slug \in w.deletes
  BY DEF Statement, Deletion
<1> HIDE DEF D
<1>2. s \in [1..Len(s) -> D] /\ Len(s) \in Nat
  <2>1. s \in Seq(D)
    BY DEF D
  <2> QED BY <2>1
<1>3. \A i \in 1..Len(s) : s[i].op = "delete" /\ Warranted(w, s[i])
  BY <1>1, <1>2 DEF Warranted
<1>4. s \in Seq(Statement)
  BY <1>1, <1>2
<1> QED BY <1>3, <1>4 DEF Whole, Fits, FitsTo

\* The slugs a dataset is about are names.
LEMMA SlugsTyped ==
  ASSUME NEW d \in Datasets, NEW exact
  PROVE  SlugsFor(d, exact) \subseteq STRING \ {NoSlug}
<1>1. d.slug \in STRING \ {NoSlug} /\ d.tenants \in Seq(TenantEntry)
  BY SeedLoadAssumption DEF DatasetType
<1>2. ASSUME NEW t \in Entries(d) PROVE t.slug \in STRING \ {NoSlug}
  <2>1. t \in TenantEntry
    BY <1>1 DEF Entries, ToSet
  <2> QED BY <2>1 DEF Entries, TenantEntry
<1> QED BY <1>1, <1>2 DEF SlugsFor, TenantSlugs

-----------------------------------------------------------------------------
(* What is left of a plan. *)

\* After the first statement of s its rest t fits: that statement may have
\* chosen a tenant, and made sure of a user.
LEMMA FitsDrop ==
  ASSUME NEW s, NEW t, NEW n \in Nat, \A k \in 1..n : t[k] = s[k + 1],
         NEW w, NEW known, NEW at, FitsTo(w, s, n + 1, known, at),
         NEW known2, s[1].op \in {"user", "lookup"} => s[1].email \in known2,
         NEW at2, at2 = IF s[1].op = "tenant" THEN s[1].slug ELSE at
  PROVE  FitsTo(w, t, n, known2, at2)
<1>1. ASSUME NEW i \in 1..n, NEW slug, Context(s, i + 1, slug, at)
      PROVE  Context(t, i, slug, at2)
  <2>1. \A k \in 1..i : t[k] = s[k + 1] /\ k + 1 \in 1..i + 1
    OBVIOUS
  <2>2. CASE \E j \in 1..i : /\ s[j].op = "tenant" /\ s[j].slug = slug
                             /\ \A k \in (j + 1)..(i + 1) : s[k].op # "tenant"
    <3>1. PICK j \in 1..i : /\ s[j].op = "tenant" /\ s[j].slug = slug
                            /\ \A k \in (j + 1)..(i + 1) : s[k].op # "tenant"
      BY <2>2
    <3>2. \A k \in j..i : k \in 1..i /\ k + 1 \in (j + 1)..(i + 1)
      OBVIOUS
    <3>3. \A k \in j..i : t[k].op # "tenant"
      BY <2>1, <3>1, <3>2
    <3>4. CASE j = 1
      BY <3>1, <3>3, <3>4 DEF Context
    <3>5. CASE j # 1
      <4>1. j - 1 \in 1..(i - 1) /\ j - 1 \in 1..i /\ (j - 1) + 1 = j
        BY <3>5
      <4>2. t[j - 1] = s[j]
        BY <2>1, <4>1
      <4> QED BY <3>1, <3>3, <4>1, <4>2 DEF Context
    <3> QED BY <3>4, <3>5
  <2>3. CASE slug = at /\ \A k \in 1..i + 1 : s[k].op # "tenant"
    <3>1. s[1].op # "tenant" /\ \A k \in 1..i : t[k].op # "tenant"
      BY <2>1, <2>3
    <3> QED BY <2>3, <3>1 DEF Context
  <2>4. (i + 1) - 1 = i
    OBVIOUS
  <2> QED BY <1>1, <2>2, <2>3, <2>4 DEF Context
<1>2. ASSUME NEW i \in 1..n, t[i].op = "member"
      PROVE  /\ IF i = 1 THEN t[i].email \in known2
                ELSE t[i - 1].op \in {"user", "lookup"} /\ t[i - 1].email = t[i].email
             /\ \E g \in w.grants : /\ g.email = t[i].email /\ g.role = t[i].role
                                    /\ Context(t, i, g.slug, at2)
  <2>1. /\ t[i] = s[i + 1] /\ i + 1 \in 1..n + 1 /\ i + 1 # 1 /\ (i + 1) - 1 = i
        /\ i # 1 => i - 1 \in 1..n /\ (i - 1) + 1 = i
    OBVIOUS
  <2>2. /\ s[i].op \in {"user", "lookup"} /\ s[i].email = t[i].email
        /\ \E g \in w.grants : /\ g.email = t[i].email /\ g.role = t[i].role
                               /\ Context(s, i + 1, g.slug, at)
    BY <1>2, <2>1 DEF FitsTo
  <2>3. i # 1 => t[i - 1] = s[i]
    BY <2>1
  <2> QED BY <1>1, <2>2, <2>3
<1>3. ASSUME NEW i \in 1..n, t[i].op = "lookup" PROVE i < n /\ t[i + 1].op = "member"
  <2>1. t[i] = s[i + 1] /\ i + 1 \in 1..n + 1 /\ (i + 1 < n + 1 => i + 1 \in 1..n /\ i < n)
    OBVIOUS
  <2>2. i + 1 < n + 1 /\ s[(i + 1) + 1].op = "member"
    BY <1>3, <2>1 DEF FitsTo
  <2> QED BY <2>1, <2>2
<1>4. ASSUME NEW i \in 1..n PROVE Warranted(w, t[i])
  <2>1. t[i] = s[i + 1] /\ i + 1 \in 1..n + 1
    OBVIOUS
  <2> QED BY <2>1 DEF FitsTo
<1> QED BY <1>2, <1>3, <1>4 DEF FitsTo

\* The tail of a sequence of statements.
LEMMA TailOf ==
  ASSUME NEW s \in Seq(Statement), s # <<>>
  PROVE  /\ Tail(s) \in Seq(Statement) /\ Len(s) \in Nat /\ Len(Tail(s)) \in Nat
         /\ Len(s) = Len(Tail(s)) + 1
         /\ \A k \in 1..Len(Tail(s)) : Tail(s)[k] = s[k + 1]
         /\ Head(s) = s[1] /\ s[1] \in Statement /\ 1 \in 1..Len(s)
<1>1. Len(s) \in Nat /\ Len(s) # 0
  BY EmptySeq
<1>2. Tail(s) \in Seq(Statement) /\ Len(Tail(s)) = Len(s) - 1
      /\ \A k \in 1..Len(Tail(s)) : Tail(s)[k] = s[k + 1]
  BY HeadTailProperties
<1>3. Head(s) = s[1] /\ 1 \in 1..Len(s)
  BY <1>1
<1>4. s[1] \in Statement
  BY <1>3
<1> QED BY <1>1, <1>2, <1>3, <1>4

\* The same of sequences.
LEMMA FitsTail ==
  ASSUME NEW s \in Seq(Statement), s # <<>>,
         NEW w, NEW known, NEW at, Fits(w, s, known, at),
         NEW known2, Head(s).op \in {"user", "lookup"} => Head(s).email \in known2,
         NEW at2, at2 = IF Head(s).op = "tenant" THEN Head(s).slug ELSE at
  PROVE  Fits(w, Tail(s), known2, at2)
<1>1. /\ FitsTo(w, s, Len(Tail(s)) + 1, known, at) /\ Len(Tail(s)) \in Nat /\ Head(s) = s[1]
      /\ \A k \in 1..Len(Tail(s)) : Tail(s)[k] = s[k + 1]
  BY TailOf DEF Fits
<1>2. FitsTo(w, Tail(s), Len(Tail(s)), known2, at2)
  BY <1>1, FitsDrop, Zenon
<1> QED BY <1>2 DEF Fits

\* A plan that does with some users and a warrant does with more.
LEMMA FitsMore ==
  ASSUME NEW s, NEW w, NEW known, NEW at, Fits(w, s, known, at),
         NEW known2, known \subseteq known2, NEW w2, w.grants \subseteq w2.grants,
         w.slugs \subseteq w2.slugs, w.emails \subseteq w2.emails, w.deletes \subseteq w2.deletes
  PROVE  Fits(w2, s, known2, at)
<1>1. \A x : Warranted(w, x) => Warranted(w2, x)
  BY DEF Warranted
<1> QED BY <1>1 DEF Fits, FitsTo

\* A membership at the head of a plan is granted for the tenant at hand.
LEMMA MemberAtHead ==
  ASSUME NEW s \in Seq(Statement), s # <<>>, NEW w, NEW known, NEW at,
         Fits(w, s, known, at), Head(s).op = "member"
  PROVE  /\ Head(s).email \in known
         /\ \E g \in w.grants : g.email = Head(s).email /\ g.role = Head(s).role /\ g.slug = at
<1>1. Head(s) = s[1] /\ 1 \in 1..Len(s)
  BY TailOf
<1>2. s[1].email \in known /\ \E g \in w.grants : /\ g.email = s[1].email /\ g.role = s[1].role
                                                  /\ Context(s, 1, g.slug, at)
  BY <1>1 DEF Fits, FitsTo
<1>3. \A slug : Context(s, 1, slug, at) => slug = at
  BY DEF Context
<1> QED BY <1>1, <1>2, <1>3

\* The first statement is warranted.
LEMMA HeadWarranted ==
  ASSUME NEW s \in Seq(Statement), s # <<>>, NEW w, NEW known, NEW at, Fits(w, s, known, at)
  PROVE  Warranted(w, Head(s))
BY TailOf DEF Fits, FitsTo

\* A lookup is never the last statement, and the membership after it can be
\* passed over with it.
LEMMA LookupAtHead ==
  ASSUME NEW s \in Seq(Statement), s # <<>>, NEW w, NEW known, NEW at,
         Fits(w, s, known, at), Head(s).op = "lookup"
  PROVE  /\ Tail(s) # <<>> /\ Tail(Tail(s)) \in Seq(Statement)
         /\ Fits(w, Tail(Tail(s)), known, at)
<1>1. Head(s) = s[1] /\ 1 \in 1..Len(s) /\ Len(s) \in Nat
  BY TailOf
<1>2. 1 < Len(s) /\ s[2].op = "member"
  BY <1>1 DEF Fits, FitsTo
<1>3. /\ Tail(s) \in Seq(Statement) /\ Len(s) = Len(Tail(s)) + 1 /\ Len(Tail(s)) \in Nat
      /\ \A k \in 1..Len(Tail(s)) : Tail(s)[k] = s[k + 1]
  BY TailOf
<1>4. Tail(s) # <<>> /\ Tail(s)[1] = s[2]
  <2>1. Len(Tail(s)) # 0
    BY <1>1, <1>2, <1>3
  <2>2. Tail(s) # <<>>
    BY <2>1, EmptySeq
  <2>3. 1 \in 1..Len(Tail(s)) /\ 1 + 1 = 2
    BY <1>3, <2>1
  <2> QED BY <1>3, <2>2, <2>3
<1>5. Head(Tail(s)) = Tail(s)[1]
  BY <1>3, <1>4, TailOf
<1> DEFINE known2 == known \cup {Head(s).email}
<1>6. Fits(w, Tail(s), known2, at)
  BY <1>1, <1>2, FitsTail
<1>7. Fits(w, Tail(Tail(s)), known, at)
  BY <1>2, <1>3, <1>4, <1>5, <1>6, FitsTail
<1> QED BY <1>3, <1>4, <1>7, TailOf

-----------------------------------------------------------------------------
(* The inductive invariant. *)

\* Every load has a whole plan.
LEMMA LoadWhole ==
  ASSUME NEW d \in Datasets, NEW unread, NEW exact, unread # {} => Misreads # {} /\ ~exact
  PROVE  load(d, unread) \in Whole(LoadWarrant(d, exact))
<1>1. CASE AsMulti(d, unread)
  BY <1>1, LoadMultiWhole DEF load, AsMulti
<1>2. CASE ~AsMulti(d, unread)
  <2>1. d.multi => Misreads # {} /\ ~exact
    BY <1>2 DEF AsMulti
  <2> QED BY <1>2, <2>1, LoadSingleWhole DEF load
<1> QED BY <1>1, <1>2

\* The fields of a statement.
LEMMA Fields ==
  ASSUME NEW s \in Statement
  PROVE  /\ s.op = "tenant" => s.slug \in STRING \ {NoSlug} /\ s.db \in STRING
         /\ s.op = "user" => s.email \in STRING /\ s.admin \in BOOLEAN
         /\ s.op = "member" => s.email \in STRING /\ s.role \in Roles
BY DEF Statement

\* Warrants only grow, and go no further than the datasets.
LEMMA WarrantGrows ==
  ASSUME NEW q \in Procs, pc'[q] = pc[q], ds'[q] = ds[q], settled'[q] = settled[q],
         others[q] \subseteq others'[q]
  PROVE  /\ WarrantOf(q).grants \subseteq WarrantOf(q)'.grants
         /\ WarrantOf(q).slugs \subseteq WarrantOf(q)'.slugs
         /\ WarrantOf(q).emails \subseteq WarrantOf(q)'.emails
         /\ WarrantOf(q).deletes \subseteq WarrantOf(q)'.deletes
<1>1. /\ "lost" \notin others'[q] => "lost" \notin others[q]
      /\ Exact(q)' => Exact(q)
  BY DEF Exact
<1>2. CASE pc[q] = "unload"
  BY <1>1, <1>2 DEF WarrantOf, UnloadWarrant, SlugsFor
<1>3. CASE pc[q] # "unload"
  BY <1>1, <1>3 DEF WarrantOf, LoadWarrant, SlugsFor, GrantedBy
<1> QED BY <1>2, <1>3

\* What is warranted is what some dataset grants.
LEMMA WarrantAllowed ==
  ASSUME TypeOK, NEW q \in Procs PROVE WarrantOf(q).grants \subseteq Allowed
<1>1. ds[q] \in Datasets
  BY DEF TypeOK
<1> QED BY <1>1 DEF WarrantOf, UnloadWarrant, LoadWarrant, Allowed, GrantedBy

\* No row has been lost since.
Grows ==
    /\ tenants \subseteq tenants'
    /\ \A m \in members : \E n \in members' : n.user = m.user /\ n.tenant = m.tenant

\* A complete dataset stays so while rows only come.
LEMMA CompleteStays ==
  ASSUME NEW q \in Procs, StaysComplete(q),
         pc'[q] = pc[q], ds'[q] = ds[q], settled'[q] = settled[q],
         others[q] \subseteq others'[q], DOMAIN users \subseteq DOMAIN users',
         pc[q] = "load" /\ "deleted" \notin others'[q] => Grows
  PROVE  StaysComplete(q)'
<1> SUFFICES ASSUME settled[q], pc[q] = "load", "deleted" \notin others'[q]
             PROVE  Present(ds[q], Grants(ds[q]))'
  BY DEF StaysComplete
<1>1. Present(ds[q], Grants(ds[q])) /\ Grows
  BY DEF StaysComplete
<1>2. \A s : IdOf(s) \subseteq IdOf(s)'
  BY <1>1 DEF Grows, IdOf
<1>3. \A g : Granted(g) => Granted(g)'
  BY <1>1, <1>2 DEF Grows, Granted
<1> HIDE DEF IdOf, Granted
<1> QED BY <1>1, <1>2, <1>3 DEF Present

\* An execution stays as it was beside the step of another.
LEMMA BesideSound ==
  ASSUME TypeOK, NEW q \in Procs, Sound(q),
         plan'[q] = plan[q], tenantID'[q] = tenantID[q], pc'[q] = pc[q], ds'[q] = ds[q],
         settled'[q] = settled[q], pc[q] # "idle" => exit'[q] = exit[q],
         others[q] \subseteq others'[q], DOMAIN users \subseteq DOMAIN users',
         \A t \in tenants' : t.id = tenantID[q] => t \in tenants,
         pc[q] = "load" /\ "deleted" \notin others'[q] => Grows
  PROVE  Sound(q)'
<1>1. PICK at \in STRING : Fits(WarrantOf(q), plan[q], DOMAIN users, at) /\ AtHand(q, at)
  BY DEF Sound, Planned
<1>2. Fits(WarrantOf(q)', plan'[q], DOMAIN users', at)
  BY <1>1, FitsMore, WarrantGrows
<1>3. AtHand(q, at)'
  BY <1>1 DEF AtHand, Grows
<1>4. StaysComplete(q)'
  BY CompleteStays DEF Sound
<1> QED BY <1>1, <1>2, <1>3, <1>4 DEF Sound, Planned

\* An execution that has nothing left.
LEMMA IdleSound ==
  ASSUME TypeOK, NEW q \in Procs, Sound(q), plan'[q] = <<>>, tenantID'[q] = tenantID[q],
         tenants' = tenants, pc'[q] = "idle"
  PROVE  Sound(q)'
<1>1. PICK at \in STRING : AtHand(q, at)
  BY DEF Sound, Planned
<1>2. Len(plan'[q]) = 0
  OBVIOUS
<1>3. AtHand(q, at)'
  BY <1>1 DEF AtHand
<1> QED BY <1>1, <1>2, <1>3 DEF Sound, Planned, Fits, FitsTo, StaysComplete

\* An execution that has run its first statement.
LEMMA TailSound ==
  ASSUME TypeOK, NEW p \in Procs, Sound(p), plan[p] # <<>>, plan'[p] = Tail(plan[p]),
         NEW at \in STRING, Fits(WarrantOf(p), plan[p], DOMAIN users, at),
         NEW at2 \in STRING,
         at2 = IF Head(plan[p]).op = "tenant" THEN Head(plan[p]).slug ELSE at,
         Head(plan[p]).op \in {"user", "lookup"} => Head(plan[p]).email \in DOMAIN users',
         AtHand(p, at2)', DOMAIN users \subseteq DOMAIN users',
         pc'[p] = pc[p], ds'[p] = ds[p], settled'[p] = settled[p], others'[p] = others[p],
         exit'[p] = exit[p], pc[p] = "load" => Grows
  PROVE  Sound(p)'
<1> DEFINE s == plan[p]
<1>1. s \in Seq(Statement)
  BY DEF TypeOK
<1>2. Fits(WarrantOf(p), Tail(s), DOMAIN users', at2)
  BY <1>1, FitsTail
<1>3. Fits(WarrantOf(p)', Tail(s), DOMAIN users', at2)
  BY <1>2, FitsMore, WarrantGrows
<1>4. Planned(p)'
  BY <1>3 DEF Planned
<1>5. StaysComplete(p)'
  BY CompleteStays DEF Sound
<1> QED BY <1>4, <1>5 DEF Sound

\* Every membership stays granted when the step writes neither memberships
\* nor tenants, and stays one of its kind.
LEMMA GrantedStays ==
  ASSUME MembersGranted, OneRow, members' = members, tenants \subseteq tenants'
  PROVE  MembersGranted' /\ OneRow'
<1>1. OneRow'
  BY DEF OneRow
<1>2. ASSUME NEW m \in members'
      PROVE  \E g \in Allowed : /\ g.email = m.user /\ g.role = m.role
                                /\ \E t \in tenants' : t.id = m.tenant /\ t.slug = g.slug
  BY DEF MembersGranted
<1> QED BY <1>1, <1>2 DEF MembersGranted

\* It holds at the start.
LEMMA InitIInv == Init => IInv
<1> SUFFICES ASSUME Init PROVE IInv
  OBVIOUS
<1>1. TypeOK
  <2>1. (CHOOSE d \in Datasets : TRUE) \in Datasets
    BY SeedLoadAssumption
  <2>2. <<>> \in Seq(Statement)
    OBVIOUS
  <2>3. nextId \in 1..(MaxTenants + 1) /\ nextId - 1 = 0
    BY SeedLoadAssumption DEF Init
  <2>4. tenants = {} /\ members = {} /\ pinned = {}
    BY DEF Init
  <2>5. DOMAIN users \subseteq STRING /\ users \in [DOMAIN users -> BOOLEAN]
    BY SeedLoadAssumption DEF Init
  <2>6. /\ pc \in [Procs -> {"idle", "load", "unload"}]
        /\ ds \in [Procs -> Datasets]
        /\ plan \in [Procs -> Seq(Statement)]
        /\ tenantID \in [Procs -> 0..(nextId - 1)]
        /\ exit \in [Procs -> {"none", "0", "1", "aborted"}]
        /\ others \in [Procs -> SUBSET {"wrote", "deleted", "lost"}]
        /\ settled \in [Procs -> BOOLEAN]
        /\ \A p \in Procs : pc[p] = "idle" => plan[p] = <<>>
    BY <2>1, <2>2, <2>3 DEF Init
  <2> QED BY <2>3, <2>4, <2>5, <2>6 DEF TypeOK
<1>2. MembersGranted /\ OneRow
  BY FS_EmptySet DEF Init, MembersGranted, OneRow
<1>3. ASSUME NEW p \in Procs PROVE Sound(p)
  <2>1. plan[p] = <<>> /\ Len(plan[p]) = 0 /\ tenants = {} /\ pc[p] = "idle"
    BY DEF Init
  <2>2. Fits(WarrantOf(p), plan[p], DOMAIN users, NoSlug) /\ AtHand(p, NoSlug)
    BY <2>1 DEF Fits, FitsTo, AtHand
  <2> QED BY <2>1, <2>2, SeedLoadAssumption DEF Sound, Planned, StaysComplete
<1> QED BY <1>1, <1>2, <1>3 DEF IInv

\* The start of an execution.
LEMMA StartStep ==
  ASSUME IInv, NEW p \in Procs, NEW d \in Datasets, NEW action \in {"load", "unload"},
         NEW unread \in SUBSET {"tenants", "users"}, Start(p, d, action, unread)
  PROVE  IInv'
<1>1. TypeOK /\ MembersGranted /\ OneRow /\ \A q \in Procs : Sound(q)
  BY DEF IInv
<1>2. unread # {} => Misreads # {} /\ d.multi
  BY DEF Start
<1> DEFINE new == IF action = "load" THEN load(d, unread) ELSE unload(d, unread)
           exact == unread = {}
           w == IF action = "load" THEN LoadWarrant(d, exact) ELSE UnloadWarrant(d, exact)
<1>3. new \in Whole(w)
  <2>1. CASE action = "load"
    BY <1>2, <2>1, LoadWhole
  <2>2. CASE action = "unload"
    <3> DEFINE own == {NoSlug} \cup SlugsFor(d, exact)
    <3>1. own \subseteq STRING
      BY SlugsTyped, SeedLoadAssumption
    <3>2. unload(d, unread) \in Seq(Deletion(own))
      BY <1>2, UnloadDeletes
    <3>3. own \subseteq UnloadWarrant(d, exact).deletes
      BY DEF UnloadWarrant
    <3> HIDE DEF own
    <3>4. unload(d, unread) \in Whole(UnloadWarrant(d, exact))
      BY <3>1, <3>2, <3>3, DeletesWhole
    <3> QED BY <2>2, <3>4
  <2> QED BY <2>1, <2>2
<1> HIDE DEF new
<1>4. /\ plan' = [plan EXCEPT ![p] = new] /\ pc' = [pc EXCEPT ![p] = action]
      /\ ds' = [ds EXCEPT ![p] = d] /\ tenantID' = [tenantID EXCEPT ![p] = 0]
      /\ others' = [others EXCEPT ![p] = IF unread = {} THEN {} ELSE {"lost"}]
      /\ settled' = [settled EXCEPT ![p] = unread = {} /\ Present(d, Grants(d))]
      /\ exit' = [exit EXCEPT ![p] = "none"]
      /\ UNCHANGED dbVars
  BY DEF Start, new
<1>5. TypeOK'
  <2>1. new \in Seq(Statement)
    BY <1>3 DEF Whole
  <2>2. settled' \in [Procs -> BOOLEAN]
    BY <1>1, <1>4 DEF TypeOK
  <2>3. /\ pc' \in [Procs -> {"idle", "load", "unload"}]
        /\ ds' \in [Procs -> Datasets]
        /\ plan' \in [Procs -> Seq(Statement)]
        /\ exit' \in [Procs -> {"none", "0", "1", "aborted"}]
        /\ others' \in [Procs -> SUBSET {"wrote", "deleted", "lost"}]
        /\ \A q \in Procs : pc'[q] = "idle" => plan'[q] = <<>>
    BY <1>1, <1>4, <2>1 DEF TypeOK
  <2>4. tenantID' \in [Procs -> 0..(nextId - 1)]
    BY <1>1, <1>4, SeedLoadAssumption DEF TypeOK
  <2> QED BY <1>1, <1>4, <2>2, <2>3, <2>4 DEF TypeOK, dbVars
<1>6. MembersGranted' /\ OneRow'
  BY <1>1, <1>4, GrantedStays DEF dbVars
<1>7. ASSUME NEW q \in Procs PROVE Sound(q)'
  <2>1. CASE q # p
    <3>1. Grows
      BY <1>4 DEF Grows, dbVars
    <3> QED BY <1>1, <1>4, <2>1, <3>1, BesideSound DEF dbVars, TypeOK
  <2>2. CASE q = p
    <3>1. /\ plan'[p] = new /\ pc'[p] = action /\ ds'[p] = d /\ tenantID'[p] = 0
          /\ others'[p] = IF unread = {} THEN {} ELSE {"lost"}
          /\ settled'[p] = (unread = {} /\ Present(d, Grants(d))) /\ exit'[p] = "none"
      BY <1>1, <1>4 DEF TypeOK
    <3>2. WarrantOf(p)' = w
      BY <3>1 DEF WarrantOf, Exact
    <3> HIDE DEF w
    <3>3. Fits(w, new, {}, NoSlug)
      BY <1>3 DEF Whole
    <3>4. Fits(w, new, DOMAIN users', NoSlug)
      BY <3>3, FitsMore
    <3>5. \A t \in tenants' : t.id # 0
      BY <1>1, <1>4 DEF TypeOK, dbVars
    <3>6. AtHand(p, NoSlug)'
      BY <3>1, <3>5 DEF AtHand
    <3>7. Planned(p)'
      BY <3>1, <3>2, <3>4, <3>6, SeedLoadAssumption DEF Planned
    <3>8. StaysComplete(p)'
      <4> SUFFICES ASSUME settled'[p] PROVE Present(ds[p], Grants(ds[p]))'
        BY DEF StaysComplete
      <4>1. Present(d, Grants(d))
        BY <3>1
      <4> QED BY <1>4, <3>1, <4>1 DEF Present, Granted, IdOf, dbVars
    <3> QED BY <2>2, <3>1, <3>7, <3>8 DEF Sound
  <2> QED BY <2>1, <2>2
<1> QED BY <1>5, <1>6, <1>7 DEF IInv

\* An execution that ends.
LEMMA QuitStep ==
  ASSUME IInv, NEW p \in Procs, NEW status \in {"0", "1", "aborted"}, Quit(p, status)
  PROVE  IInv'
<1>1. TypeOK /\ MembersGranted /\ OneRow /\ \A q \in Procs : Sound(q)
  BY DEF IInv
<1>2. /\ pc' = [pc EXCEPT ![p] = "idle"] /\ exit' = [exit EXCEPT ![p] = status]
      /\ plan' = [plan EXCEPT ![p] = <<>>]
      /\ UNCHANGED <<dbVars, ds, tenantID, others, settled>>
  BY DEF Quit
<1>3. TypeOK'
  <2>1. <<>> \in Seq(Statement)
    OBVIOUS
  <2> QED BY <1>1, <1>2, <2>1 DEF TypeOK, dbVars
<1>4. MembersGranted' /\ OneRow'
  BY <1>1, <1>2, GrantedStays DEF dbVars
<1>5. ASSUME NEW q \in Procs PROVE Sound(q)'
  <2>1. CASE q # p
    <3>1. Grows
      BY <1>2 DEF Grows, dbVars
    <3> QED BY <1>1, <1>2, <2>1, <3>1, BesideSound DEF dbVars, TypeOK
  <2>2. CASE q = p
    <3>1. plan'[p] = <<>> /\ tenantID'[p] = tenantID[p] /\ tenants' = tenants /\ pc'[p] = "idle"
      BY <1>1, <1>2 DEF TypeOK, dbVars
    <3> QED BY <1>1, <2>2, <3>1, IdleSound
  <2> QED BY <2>1, <2>2
<1> QED BY <1>3, <1>4, <1>5 DEF IInv

\* An execution that is refused.
LEMMA RefusedStep == ASSUME IInv, NEW p \in Procs, StartRefused(p) PROVE IInv'
<1>1. TypeOK /\ MembersGranted /\ OneRow /\ \A q \in Procs : Sound(q)
  BY DEF IInv
<1>2. /\ exit' = [exit EXCEPT ![p] = "1"]
      /\ UNCHANGED <<dbVars, pc, ds, plan, tenantID, others, settled>>
  BY DEF StartRefused
<1>3. TypeOK'
  BY <1>1, <1>2 DEF TypeOK, dbVars
<1>4. MembersGranted' /\ OneRow'
  BY <1>1, <1>2, GrantedStays DEF dbVars
<1>5. ASSUME NEW q \in Procs PROVE Sound(q)'
  <2>1. Grows
    BY <1>2 DEF Grows, dbVars
  <2>2. pc[q] # "idle" => exit'[q] = exit[q]
    BY <1>1, <1>2 DEF StartRefused, TypeOK
  <2> QED BY <1>1, <1>2, <2>1, <2>2, BesideSound DEF dbVars
<1> QED BY <1>3, <1>4, <1>5 DEF IInv

\* What a statement does to the rest of its execution and to the others.
LEMMA AdvanceTyped ==
  ASSUME TypeOK, NEW p \in Procs, NEW op, Runs(p, op),
         Advance(p, Tail(plan[p])), UNCHANGED <<pc, ds, exit, settled>>
  PROVE  /\ plan' \in [Procs -> Seq(Statement)] /\ plan'[p] = Tail(plan[p])
         /\ \A q \in Procs \ {p} : plan'[q] = plan[q]
         /\ pc' \in [Procs -> {"idle", "load", "unload"}]
         /\ ds' \in [Procs -> Datasets]
         /\ exit' \in [Procs -> {"none", "0", "1", "aborted"}]
         /\ settled' \in [Procs -> BOOLEAN]
         /\ \A q \in Procs : pc'[q] = "idle" => plan'[q] = <<>>
         /\ plan[p] # <<>> /\ pc[p] # "idle"
         /\ Head(plan[p]) \in Statement /\ Head(plan[p]).op = op
<1>1. plan[p] \in Seq(Statement) /\ plan[p] # <<>> /\ pc[p] # "idle" /\ Head(plan[p]).op = op
  BY DEF TypeOK, Runs
<1>2. Tail(plan[p]) \in Seq(Statement) /\ Head(plan[p]) \in Statement
  BY <1>1, TailOf
<1>3. plan' = [plan EXCEPT ![p] = Tail(plan[p])]
  BY DEF Advance
<1> QED BY <1>1, <1>2, <1>3 DEF TypeOK

\* The marks of the others.
LEMMA DisturbTyped ==
  ASSUME TypeOK, NEW p \in Procs, NEW what \in {"wrote", "deleted"}, Disturb(p, what)
  PROVE  /\ others' \in [Procs -> SUBSET {"wrote", "deleted", "lost"}]
         /\ others'[p] = others[p]
         /\ \A q \in Procs : others[q] \subseteq others'[q]
         /\ \A q \in Procs \ {p} : pc[q] # "idle" => what \in others'[q]
BY DEF TypeOK, Disturb

\* Users only come.
LEMMA UserStep == ASSUME IInv, NEW p \in Procs, UpsertUser(p) PROVE IInv'
<1>1. TypeOK /\ MembersGranted /\ OneRow /\ \A q \in Procs : Sound(q)
  BY DEF IInv
<1> DEFINE s == Head(plan[p])
<1>2. /\ Runs(p, "user") /\ Advance(p, Tail(plan[p])) /\ Disturb(p, "wrote")
      /\ users' = [e \in DOMAIN users \cup {s.email} |->
                      IF e = s.email THEN s.admin ELSE users[e]]
      /\ UNCHANGED <<tenants, members, pinned, nextId, pc, ds, tenantID, exit, settled>>
  BY DEF UpsertUser
<1>3. s \in Statement /\ s.op = "user" /\ s.email \in STRING /\ s.admin \in BOOLEAN
  BY <1>1, <1>2, AdvanceTyped, Fields
<1> HIDE DEF s
<1>4. /\ DOMAIN users' = DOMAIN users \cup {s.email} /\ DOMAIN users' \subseteq STRING
      /\ users' \in [DOMAIN users' -> BOOLEAN]
  BY <1>1, <1>2, <1>3 DEF TypeOK
<1>5. TypeOK'
  <2>1. members' \subseteq [user: DOMAIN users', tenant: 1..(nextId' - 1), role: Roles]
    BY <1>1, <1>2, <1>4 DEF TypeOK
  <2>2. tenantID' \in [Procs -> 0..(nextId' - 1)]
    BY <1>1, <1>2 DEF TypeOK
  <2>3. /\ nextId' \in 1..(MaxTenants + 1)
        /\ tenants' \subseteq [id: 1..(nextId' - 1), slug: STRING \ {NoSlug}, db: STRING]
        /\ \A t, u \in tenants' : t.id = u.id \/ t.slug = u.slug \/ t.db = u.db => t = u
        /\ pinned' \subseteq {t.id : t \in tenants'}
    BY <1>1, <1>2 DEF TypeOK
  <2> QED BY <1>1, <1>2, <1>4, <2>1, <2>2, <2>3, AdvanceTyped, DisturbTyped DEF TypeOK
<1>6. MembersGranted' /\ OneRow'
  BY <1>1, <1>2, GrantedStays
<1>7. ASSUME NEW q \in Procs PROVE Sound(q)'
  <2>1. Grows
    BY <1>2 DEF Grows
  <2>2. CASE q # p
    BY <1>1, <1>2, <1>4, <2>1, <2>2, AdvanceTyped, DisturbTyped, BesideSound
  <2>3. CASE q = p
    <3>1. PICK at \in STRING : Fits(WarrantOf(p), plan[p], DOMAIN users, at) /\ AtHand(p, at)
      BY <1>1 DEF Sound, Planned
    <3>2. /\ plan[p] # <<>> /\ plan'[p] = Tail(plan[p]) /\ Head(plan[p]).op = "user"
          /\ pc'[p] = pc[p] /\ ds'[p] = ds[p] /\ others'[p] = others[p]
          /\ settled'[p] = settled[p] /\ exit'[p] = exit[p]
          /\ Head(plan[p]).email \in DOMAIN users'
      BY <1>1, <1>2, <1>3, <1>4, AdvanceTyped, DisturbTyped DEF s
    <3>3. AtHand(p, at)'
      BY <1>2, <3>1, <3>2 DEF AtHand
    <3> QED BY <1>1, <1>4, <2>1, <2>3, <3>1, <3>2, <3>3, TailSound
  <2> QED BY <2>2, <2>3
<1> QED BY <1>5, <1>6, <1>7 DEF IInv

\* Intervals that grow.
LEMMA Ranges ==
  ASSUME NEW a \in Nat, NEW b \in Nat, a <= b
  PROVE  /\ 1..(a - 1) \subseteq 1..(b - 1) /\ 0..(a - 1) \subseteq 0..(b - 1)
         /\ 1..(b - 1) \subseteq 0..(b - 1)
OBVIOUS

\* A new tenant has a new id, which no execution has at hand.
LEMMA TenantStep == ASSUME IInv, NEW p \in Procs, UpsertTenant(p) PROVE IInv'
<1>1. TypeOK /\ MembersGranted /\ OneRow /\ \A q \in Procs : Sound(q)
  BY DEF IInv
<1> DEFINE s == Head(plan[p])
           old == {t \in tenants : t.slug = s.slug}
           new == [id |-> nextId, slug |-> s.slug, db |-> s.db]
<1>2. /\ Runs(p, "tenant") /\ Advance(p, Tail(plan[p])) /\ Disturb(p, "wrote")
      /\ UNCHANGED <<users, members, pinned, pc, ds, exit, settled>>
  BY DEF UpsertTenant
<1>3. s \in Statement /\ s.op = "tenant" /\ s.slug \in STRING \ {NoSlug} /\ s.db \in STRING
  BY <1>1, <1>2, AdvanceTyped, Fields
<1>4. \/ /\ old = {} /\ s.db \notin {t.db : t \in tenants} /\ nextId <= MaxTenants
         /\ tenants' = tenants \cup {new} /\ nextId' = nextId + 1
         /\ tenantID' = [tenantID EXCEPT ![p] = nextId]
      \/ /\ old # {}
         /\ tenantID' = [tenantID EXCEPT ![p] = (CHOOSE t \in old : TRUE).id]
         /\ tenants' = tenants /\ nextId' = nextId
  BY DEF UpsertTenant
<1> HIDE DEF s
<1>5. nextId \in Nat /\ nextId >= 1 /\ nextId <= MaxTenants + 1 /\ MaxTenants \in Nat
  BY <1>1, SeedLoadAssumption DEF TypeOK
<1>6. \A t \in tenants : t.id \in 1..(nextId - 1)
  BY <1>1 DEF TypeOK
<1>7. /\ nextId' \in 1..(MaxTenants + 1) /\ nextId <= nextId' /\ tenants \subseteq tenants'
      /\ tenants' \subseteq [id: 1..(nextId' - 1), slug: STRING \ {NoSlug}, db: STRING]
      /\ \A t, u \in tenants' : t.id = u.id \/ t.slug = u.slug \/ t.db = u.db => t = u
      /\ tenantID'[p] \in 1..(nextId' - 1)
      /\ tenantID' = [tenantID EXCEPT ![p] = tenantID'[p]]
      /\ \A t \in tenants' : /\ t.id = tenantID'[p] => t.slug = s.slug
                             /\ t.id < nextId => t \in tenants
      /\ \E t \in tenants' : t.id = tenantID'[p]
  <2>1. CASE old = {}
    <3>1. tenants' = tenants \cup {new} /\ nextId' = nextId + 1 /\ nextId <= MaxTenants
          /\ tenantID' = [tenantID EXCEPT ![p] = nextId] /\ tenantID'[p] = nextId
          /\ \A t \in tenants : t.slug # s.slug /\ t.db # s.db
      BY <1>1, <1>4, <2>1 DEF TypeOK
    <3>2. new.id = nextId /\ new.slug = s.slug /\ new.db = s.db
      OBVIOUS
    <3>3. new \in [id: 1..nextId, slug: STRING \ {NoSlug}, db: STRING]
      BY <1>3, <1>5
    <3>4. tenants \subseteq [id: 1..nextId, slug: STRING \ {NoSlug}, db: STRING]
      BY <1>1, <1>5 DEF TypeOK
    <3>5. \A t \in tenants : t.id # nextId
      BY <1>5, <1>6
    <3>6. \A t, u \in tenants : t.id = u.id \/ t.slug = u.slug \/ t.db = u.db => t = u
      BY <1>1 DEF TypeOK
    <3> HIDE DEF new
    <3>7. (nextId + 1) - 1 = nextId /\ nextId + 1 \in 1..(MaxTenants + 1) /\ nextId <= nextId + 1
          /\ nextId \in 1..nextId
      BY <1>5, <3>1
    <3>8. \A t, u \in tenants' : t.id = u.id \/ t.slug = u.slug \/ t.db = u.db => t = u
      BY <3>1, <3>2, <3>5, <3>6
    <3>9. \A t \in tenants' : /\ t.id = nextId => t.slug = s.slug
                              /\ t.id < nextId => t \in tenants
      BY <1>5, <3>1, <3>2, <3>5
    <3>10. \E t \in tenants' : t.id = nextId
      BY <3>1, <3>2
    <3> QED BY <3>1, <3>3, <3>4, <3>7, <3>8, <3>9, <3>10
  <2>2. CASE old # {}
    <3> DEFINE row == CHOOSE t \in old : TRUE
    <3>1. row \in tenants /\ row.slug = s.slug
      BY <2>2
    <3> HIDE DEF row
    <3>2. tenantID' = [tenantID EXCEPT ![p] = row.id] /\ tenants' = tenants /\ nextId' = nextId
      BY <1>4, <2>2 DEF row
    <3>3. tenantID'[p] = row.id /\ row.id \in 1..(nextId - 1)
      BY <1>1, <1>6, <3>1, <3>2 DEF TypeOK
    <3> QED BY <1>1, <1>5, <3>1, <3>2, <3>3 DEF TypeOK
  <2> QED BY <2>1, <2>2
<1> HIDE DEF old, new
<1>8. 1..(nextId - 1) \subseteq 1..(nextId' - 1) /\ 0..(nextId - 1) \subseteq 0..(nextId' - 1)
      /\ 1..(nextId' - 1) \subseteq 0..(nextId' - 1)
  <2>1. nextId' \in Nat /\ nextId \in Nat /\ nextId <= nextId'
    BY <1>5, <1>7
  <2> QED BY <2>1, Ranges
<1>9. TypeOK'
  <2>1. members' \subseteq [user: DOMAIN users', tenant: 1..(nextId' - 1), role: Roles]
    BY <1>1, <1>2, <1>8 DEF TypeOK
  <2>2. tenantID' \in [Procs -> 0..(nextId' - 1)]
    BY <1>1, <1>7, <1>8 DEF TypeOK
  <2>3. DOMAIN users' \subseteq STRING /\ users' \in [DOMAIN users' -> BOOLEAN]
    BY <1>1, <1>2 DEF TypeOK
  <2>4. pinned' \subseteq {t.id : t \in tenants'}
    BY <1>1, <1>2, <1>7 DEF TypeOK
  <2> QED BY <1>1, <1>2, <1>7, <2>1, <2>2, <2>3, <2>4, AdvanceTyped, DisturbTyped DEF TypeOK
<1>10. MembersGranted' /\ OneRow'
  BY <1>1, <1>2, <1>7, GrantedStays
<1>11. ASSUME NEW q \in Procs PROVE Sound(q)'
  <2>1. Grows
    BY <1>2, <1>7 DEF Grows
  <2>2. CASE q # p
    <3>1. tenantID'[q] = tenantID[q] /\ tenantID[q] < nextId
      BY <1>1, <1>5, <1>7, <2>2 DEF TypeOK
    <3>2. \A t \in tenants' : t.id = tenantID[q] => t \in tenants
      BY <1>7, <3>1
    <3> QED BY <1>1, <1>2, <2>1, <2>2, <3>1, <3>2, AdvanceTyped, DisturbTyped, BesideSound
  <2>3. CASE q = p
    <3>1. PICK at \in STRING : Fits(WarrantOf(p), plan[p], DOMAIN users, at)
      BY <1>1 DEF Sound, Planned
    <3>2. /\ plan[p] # <<>> /\ plan'[p] = Tail(plan[p]) /\ Head(plan[p]).op = "tenant"
          /\ Head(plan[p]).slug = s.slug /\ s.slug \in STRING
          /\ DOMAIN users' = DOMAIN users
          /\ pc'[p] = pc[p] /\ ds'[p] = ds[p] /\ others'[p] = others[p]
          /\ settled'[p] = settled[p] /\ exit'[p] = exit[p]
      BY <1>1, <1>2, <1>3, AdvanceTyped, DisturbTyped DEF s
    <3>3. PICK slug \in STRING : slug = Head(plan[p]).slug
      BY <3>2
    <3>4. AtHand(p, slug)'
      BY <1>7, <3>2, <3>3 DEF AtHand
    <3> QED BY <1>1, <2>1, <2>3, <3>1, <3>2, <3>3, <3>4, TailSound
  <2> QED BY <2>2, <2>3
<1> QED BY <1>9, <1>10, <1>11 DEF IInv

\* A lookup changes nothing in the database.
LEMMA LookupStep == ASSUME IInv, NEW p \in Procs, LookupUser(p) PROVE IInv'
<1>1. TypeOK /\ MembersGranted /\ OneRow /\ \A q \in Procs : Sound(q)
  BY DEF IInv
<1> DEFINE s == plan[p]
<1>2. /\ Runs(p, "lookup")
      /\ UNCHANGED <<dbVars, pc, ds, tenantID, exit, settled>>
  BY DEF LookupUser
<1>3. /\ s \in Seq(Statement) /\ s # <<>> /\ Head(s).op = "lookup" /\ pc[p] # "idle"
      /\ Tail(s) \in Seq(Statement)
  BY <1>1, <1>2, TailOf DEF TypeOK, Runs
<1>4. PICK at \in STRING : Fits(WarrantOf(p), plan[p], DOMAIN users, at) /\ AtHand(p, at)
  BY <1>1 DEF Sound, Planned
<1>5. Tail(Tail(s)) \in Seq(Statement) /\ Fits(WarrantOf(p), Tail(Tail(s)), DOMAIN users, at)
  BY <1>3, <1>4, LookupAtHead
<1>6. Head(s).email \in DOMAIN users => Fits(WarrantOf(p), Tail(s), DOMAIN users, at)
  BY <1>3, <1>4, FitsTail
<1>7. PICK rest \in Seq(Statement) : /\ plan' = [plan EXCEPT ![p] = rest]
                                     /\ Fits(WarrantOf(p), rest, DOMAIN users, at)
  BY <1>3, <1>5, <1>6 DEF LookupUser, Advance
<1>8. others' = others \/ others' = [others EXCEPT ![p] = @ \cup {"lost"}]
  BY DEF LookupUser
<1> HIDE DEF s
<1>9. /\ others' \in [Procs -> SUBSET {"wrote", "deleted", "lost"}]
      /\ \A q \in Procs : /\ others[q] \subseteq others'[q]
                          /\ "deleted" \in others'[q] => "deleted" \in others[q]
  <2>1. \A q \in Procs : others[q] \in SUBSET {"wrote", "deleted", "lost"}
    BY <1>1 DEF TypeOK
  <2>2. others[p] \cup {"lost"} \in SUBSET {"wrote", "deleted", "lost"}
    BY <2>1
  <2>3. others \in [Procs -> SUBSET {"wrote", "deleted", "lost"}]
    BY <1>1 DEF TypeOK
  <2> QED BY <1>8, <2>2, <2>3
<1>10. TypeOK'
  BY <1>1, <1>2, <1>3, <1>7, <1>9 DEF TypeOK, dbVars
<1>11. MembersGranted' /\ OneRow'
  BY <1>1, <1>2, GrantedStays DEF dbVars
<1>12. ASSUME NEW q \in Procs PROVE Sound(q)'
  <2>1. Grows
    BY <1>2 DEF Grows, dbVars
  <2>2. CASE q # p
    <3>1. plan'[q] = plan[q]
      BY <1>1, <1>7, <2>2 DEF TypeOK
    <3> QED BY <1>1, <1>2, <1>9, <2>1, <3>1, BesideSound DEF dbVars
  <2>3. CASE q = p
    <3>1. plan'[p] = rest
      BY <1>1, <1>7 DEF TypeOK
    <3>2. Fits(WarrantOf(p)', rest, DOMAIN users', at)
      BY <1>2, <1>7, <1>9, FitsMore, WarrantGrows DEF dbVars
    <3>3. AtHand(p, at)'
      BY <1>2, <1>4, <1>9 DEF AtHand, dbVars
    <3>4. StaysComplete(p)'
      BY <1>1, <1>2, <1>9, <2>1, CompleteStays DEF Sound, dbVars
    <3> QED BY <1>1, <1>2, <2>3, <3>1, <3>2, <3>3, <3>4 DEF Sound, Planned
  <2> QED BY <2>2, <2>3
<1> QED BY <1>10, <1>11, <1>12 DEF IInv

\* A membership is written for the tenant it is meant for: the id at hand is
\* in use, so that it is still that of the tenant.
LEMMA MemberStep == ASSUME IInv, NEW p \in Procs, UpsertMembership(p) PROVE IInv'
<1>1. TypeOK /\ MembersGranted /\ OneRow /\ \A q \in Procs : Sound(q)
  BY DEF IInv
<1> DEFINE s == Head(plan[p])
           row == [user |-> s.email, tenant |-> tenantID[p], role |-> s.role]
<1>2. /\ Runs(p, "member") /\ Advance(p, Tail(plan[p])) /\ Disturb(p, "wrote")
      /\ tenantID[p] \in {t.id : t \in tenants}
      /\ members' = {m \in members : ~(m.user = row.user /\ m.tenant = row.tenant)}
                       \cup {row}
      /\ UNCHANGED <<tenants, users, pinned, nextId, pc, ds, tenantID, exit, settled>>
  BY DEF UpsertMembership
<1>3. s \in Statement /\ s.op = "member" /\ s.role \in Roles /\ plan[p] \in Seq(Statement)
      /\ plan[p] # <<>>
  BY <1>1, <1>2, AdvanceTyped, Fields DEF TypeOK
<1>4. PICK at \in STRING : Fits(WarrantOf(p), plan[p], DOMAIN users, at) /\ AtHand(p, at)
  BY <1>1 DEF Sound, Planned
<1>5. /\ s.email \in DOMAIN users
      /\ \E g \in Allowed : g.email = s.email /\ g.role = s.role /\ g.slug = at
  BY <1>1, <1>3, <1>4, MemberAtHead, WarrantAllowed
<1> HIDE DEF s
<1>6. row.user = s.email /\ row.tenant = tenantID[p] /\ row.role = s.role
  OBVIOUS
<1>7. row \in [user: DOMAIN users, tenant: 1..(nextId - 1), role: Roles]
  <2>1. tenantID[p] \in 1..(nextId - 1)
    BY <1>1, <1>2 DEF TypeOK
  <2> QED BY <1>3, <1>5, <2>1
<1> HIDE DEF row
<1>8. TypeOK'
  <2>1. members' \subseteq [user: DOMAIN users', tenant: 1..(nextId' - 1), role: Roles]
    BY <1>1, <1>2, <1>7 DEF TypeOK
  <2>2. /\ nextId' \in 1..(MaxTenants + 1)
        /\ tenants' \subseteq [id: 1..(nextId' - 1), slug: STRING \ {NoSlug}, db: STRING]
        /\ \A t, u \in tenants' : t.id = u.id \/ t.slug = u.slug \/ t.db = u.db => t = u
        /\ DOMAIN users' \subseteq STRING /\ users' \in [DOMAIN users' -> BOOLEAN]
        /\ pinned' \subseteq {t.id : t \in tenants'}
        /\ tenantID' \in [Procs -> 0..(nextId' - 1)]
    BY <1>1, <1>2 DEF TypeOK
  <2> QED BY <1>1, <1>2, <2>1, <2>2, AdvanceTyped, DisturbTyped DEF TypeOK
<1>9. MembersGranted'
  <2>1. ASSUME NEW m \in members'
        PROVE  \E g \in Allowed : /\ g.email = m.user /\ g.role = m.role
                                  /\ \E t \in tenants' : t.id = m.tenant /\ t.slug = g.slug
    <3>1. CASE m \in members
      BY <1>1, <1>2, <3>1 DEF MembersGranted
    <3>2. CASE m = row
      <4>1. PICK t \in tenants : t.id = tenantID[p] /\ t.slug = at
        BY <1>2, <1>4 DEF AtHand
      <4> QED BY <1>2, <1>5, <1>6, <3>2, <4>1
    <3> QED BY <1>2, <3>1, <3>2
  <2> QED BY <2>1 DEF MembersGranted
<1>10. OneRow'
  <2> DEFINE kept == {m \in members : ~(m.user = row.user /\ m.tenant = row.tenant)}
  <2>1. IsFiniteSet(kept)
    BY <1>1, FS_Subset DEF OneRow
  <2>2. IsFiniteSet(members')
    BY <1>2, <2>1, FS_AddElement
  <2>3. \A m, n \in members' : m.user = n.user /\ m.tenant = n.tenant => m = n
    BY <1>1, <1>2 DEF OneRow
  <2> QED BY <2>2, <2>3 DEF OneRow
<1>11. ASSUME NEW q \in Procs PROVE Sound(q)'
  <2>1. Grows
    BY <1>2 DEF Grows
  <2>2. CASE q # p
    BY <1>1, <1>2, <2>1, <2>2, AdvanceTyped, DisturbTyped, BesideSound
  <2>3. CASE q = p
    <3>1. /\ plan[p] # <<>> /\ plan'[p] = Tail(plan[p]) /\ Head(plan[p]).op = "member"
          /\ pc'[p] = pc[p] /\ ds'[p] = ds[p] /\ others'[p] = others[p]
          /\ settled'[p] = settled[p] /\ exit'[p] = exit[p]
      BY <1>1, <1>2, AdvanceTyped, DisturbTyped
    <3>2. AtHand(p, at)'
      BY <1>2, <1>4, <3>1 DEF AtHand
    <3> QED BY <1>1, <1>2, <1>4, <2>1, <2>3, <3>1, <3>2, TailSound
  <2> QED BY <2>2, <2>3
<1> QED BY <1>8, <1>9, <1>10, <1>11 DEF IInv

\* The tenant's data are elsewhere.
LEMMA DataStep == ASSUME IInv, NEW p \in Procs, SeedTenantData(p) PROVE IInv'
<1>1. TypeOK /\ MembersGranted /\ OneRow /\ \A q \in Procs : Sound(q)
  BY DEF IInv
<1>2. /\ Runs(p, "data") /\ Advance(p, Tail(plan[p]))
      /\ UNCHANGED <<dbVars, pc, ds, tenantID, exit, others, settled>>
  BY DEF SeedTenantData
<1>3. TypeOK'
  <2>1. /\ nextId' \in 1..(MaxTenants + 1)
        /\ tenants' \subseteq [id: 1..(nextId' - 1), slug: STRING \ {NoSlug}, db: STRING]
        /\ \A t, u \in tenants' : t.id = u.id \/ t.slug = u.slug \/ t.db = u.db => t = u
        /\ DOMAIN users' \subseteq STRING /\ users' \in [DOMAIN users' -> BOOLEAN]
        /\ members' \subseteq [user: DOMAIN users', tenant: 1..(nextId' - 1), role: Roles]
        /\ pinned' \subseteq {t.id : t \in tenants'}
        /\ tenantID' \in [Procs -> 0..(nextId' - 1)]
        /\ others' \in [Procs -> SUBSET {"wrote", "deleted", "lost"}]
    BY <1>1, <1>2 DEF TypeOK, dbVars
  <2> QED BY <1>1, <1>2, <2>1, AdvanceTyped DEF TypeOK
<1>4. MembersGranted' /\ OneRow'
  BY <1>1, <1>2, GrantedStays DEF dbVars
<1>5. ASSUME NEW q \in Procs PROVE Sound(q)'
  <2>1. Grows
    BY <1>2 DEF Grows, dbVars
  <2>2. CASE q # p
    BY <1>1, <1>2, <2>1, <2>2, AdvanceTyped, BesideSound DEF dbVars
  <2>3. CASE q = p
    <3>1. PICK at \in STRING : Fits(WarrantOf(p), plan[p], DOMAIN users, at) /\ AtHand(p, at)
      BY <1>1 DEF Sound, Planned
    <3>2. /\ plan[p] # <<>> /\ plan'[p] = Tail(plan[p]) /\ Head(plan[p]).op = "data"
      BY <1>1, <1>2, AdvanceTyped
    <3>3. AtHand(p, at)'
      BY <1>2, <3>1 DEF AtHand, dbVars
    <3> QED BY <1>1, <1>2, <2>1, <2>3, <3>1, <3>2, <3>3, TailSound DEF dbVars
  <2> QED BY <2>2, <2>3
<1> QED BY <1>3, <1>4, <1>5 DEF IInv

\* A deletion takes the memberships with the tenant.
LEMMA DeleteStep == ASSUME IInv, NEW p \in Procs, DeleteTenant(p) PROVE IInv'
<1>1. TypeOK /\ MembersGranted /\ OneRow /\ \A q \in Procs : Sound(q)
  BY DEF IInv
<1> DEFINE gone == {t \in tenants : t.slug = Head(plan[p]).slug}
<1>2. /\ Runs(p, "delete") /\ Advance(p, Tail(plan[p])) /\ Disturb(p, "deleted")
      /\ \A t \in gone : t.id \notin pinned
      /\ tenants' = tenants \ gone
      /\ members' = {m \in members : m.tenant \notin {t.id : t \in gone}}
      /\ UNCHANGED <<users, pinned, nextId, pc, ds, tenantID, exit, settled>>
  BY DEF DeleteTenant
<1>3. gone \subseteq tenants
  OBVIOUS
<1> HIDE DEF gone
<1>4. TypeOK'
  <2>1. members' \subseteq [user: DOMAIN users', tenant: 1..(nextId' - 1), role: Roles]
    BY <1>1, <1>2 DEF TypeOK
  <2>2. /\ nextId' \in 1..(MaxTenants + 1)
        /\ tenants' \subseteq [id: 1..(nextId' - 1), slug: STRING \ {NoSlug}, db: STRING]
        /\ \A t, u \in tenants' : t.id = u.id \/ t.slug = u.slug \/ t.db = u.db => t = u
        /\ DOMAIN users' \subseteq STRING /\ users' \in [DOMAIN users' -> BOOLEAN]
        /\ tenantID' \in [Procs -> 0..(nextId' - 1)]
    BY <1>1, <1>2 DEF TypeOK
  <2>3. pinned' \subseteq {t.id : t \in tenants'}
    BY <1>1, <1>2 DEF TypeOK
  <2> QED BY <1>1, <1>2, <2>1, <2>2, <2>3, AdvanceTyped, DisturbTyped DEF TypeOK
<1>5. MembersGranted'
  <2>1. ASSUME NEW m \in members'
        PROVE  \E g \in Allowed : /\ g.email = m.user /\ g.role = m.role
                                  /\ \E t \in tenants' : t.id = m.tenant /\ t.slug = g.slug
    <3>1. PICK g \in Allowed : /\ g.email = m.user /\ g.role = m.role
                               /\ \E t \in tenants : t.id = m.tenant /\ t.slug = g.slug
      BY <1>1, <1>2 DEF MembersGranted
    <3>2. PICK t \in tenants : t.id = m.tenant /\ t.slug = g.slug
      BY <3>1
    <3>3. t \in tenants'
      BY <1>2, <3>2
    <3> QED BY <3>1, <3>2, <3>3
  <2> QED BY <2>1 DEF MembersGranted
<1>6. OneRow'
  BY <1>1, <1>2, FS_Subset DEF OneRow
<1>7. PICK at \in STRING : Fits(WarrantOf(p), plan[p], DOMAIN users, at) /\ AtHand(p, at)
  BY <1>1 DEF Sound, Planned
<1>8. pc[p] # "load"
  <2>1. Warranted(WarrantOf(p), Head(plan[p]))
    BY <1>1, <1>2, <1>7, HeadWarranted DEF TypeOK, Runs
  <2>2. pc[p] = "load" => WarrantOf(p).deletes = {}
    BY DEF WarrantOf, LoadWarrant
  <2> QED BY <1>2, <2>1, <2>2 DEF Warranted, Runs
<1>9. ASSUME NEW q \in Procs PROVE Sound(q)'
  <2>1. CASE q # p
    BY <1>1, <1>2, <2>1, AdvanceTyped, DisturbTyped, BesideSound
  <2>2. CASE q = p
    <3>1. /\ plan[p] # <<>> /\ plan'[p] = Tail(plan[p]) /\ Head(plan[p]).op = "delete"
          /\ pc'[p] = pc[p] /\ ds'[p] = ds[p] /\ others'[p] = others[p]
          /\ settled'[p] = settled[p] /\ exit'[p] = exit[p]
      BY <1>1, <1>2, AdvanceTyped, DisturbTyped
    <3>2. AtHand(p, at)'
      BY <1>2, <1>7, <1>8, <3>1 DEF AtHand
    <3> QED BY <1>1, <1>2, <1>7, <1>8, <2>2, <3>1, <3>2, TailSound
  <2> QED BY <2>1, <2>2
<1> QED BY <1>4, <1>5, <1>6, <1>9 DEF IInv

\* The platform pins a tenant that is there.
LEMMA PinStep == ASSUME IInv, NEW u \in tenants, Pin(u.id) PROVE IInv'
<1>1. TypeOK /\ MembersGranted /\ OneRow /\ \A q \in Procs : Sound(q)
  BY DEF IInv
<1>2. pinned' = pinned \cup {u.id} /\ UNCHANGED <<tenants, users, members, nextId, procVars>>
  BY DEF Pin
<1>3. TypeOK'
  <2>1. pinned' \subseteq {t.id : t \in tenants'}
    BY <1>1, <1>2 DEF TypeOK
  <2> QED BY <1>1, <1>2, <2>1 DEF TypeOK, procVars
<1>4. MembersGranted' /\ OneRow'
  BY <1>1, <1>2, GrantedStays
<1>5. ASSUME NEW q \in Procs PROVE Sound(q)'
  <2>1. Grows
    BY <1>2 DEF Grows
  <2> QED BY <1>1, <1>2, <2>1, BesideSound DEF procVars
<1> QED BY <1>3, <1>4, <1>5 DEF IInv

\* A step that changes nothing.
LEMMA StutterStep == IInv /\ UNCHANGED vars => IInv'
<1> SUFFICES ASSUME IInv, UNCHANGED vars PROVE IInv'
  OBVIOUS
<1>1. TypeOK /\ MembersGranted /\ OneRow /\ \A q \in Procs : Sound(q)
  BY DEF IInv
<1>2. TypeOK'
  BY <1>1 DEF TypeOK, vars, dbVars, procVars
<1>3. MembersGranted' /\ OneRow'
  BY <1>1, GrantedStays DEF vars, dbVars
<1>4. ASSUME NEW q \in Procs PROVE Sound(q)'
  <2>1. Grows
    BY DEF Grows, vars, dbVars
  <2> QED BY <1>1, <2>1, BesideSound DEF vars, dbVars, procVars
<1> QED BY <1>2, <1>3, <1>4 DEF IInv

\* The invariant is inductive.
LEMMA NextIInv == IInv /\ [Next]_vars => IInv'
<1> SUFFICES ASSUME IInv, [Next]_vars PROVE IInv'
  OBVIOUS
<1>1. ASSUME NEW p \in Procs, NEW d \in Datasets, NEW action \in {"load", "unload"},
             NEW unread \in SUBSET {"tenants", "users"}, Start(p, d, action, unread)
      PROVE  IInv'
  BY <1>1, StartStep
<1>2. ASSUME NEW p \in Procs,
             \/ TenantConflict(p) \/ MembershipRefused(p) \/ DeleteRefused(p)
             \/ Finish(p) \/ Abort(p)
      PROVE  IInv'
  <2>1. \E status \in {"0", "1", "aborted"} : Quit(p, status)
    BY <1>2 DEF TenantConflict, MembershipRefused, DeleteRefused, Finish, Abort
  <2> QED BY <2>1, QuitStep
<1>3. ASSUME NEW p \in Procs,
             \/ StartRefused(p) \/ SeedTenantData(p) \/ UpsertTenant(p) \/ UpsertUser(p)
             \/ LookupUser(p) \/ UpsertMembership(p) \/ DeleteTenant(p)
      PROVE  IInv'
  BY <1>3, RefusedStep, DataStep, TenantStep, UserStep, LookupStep, MemberStep, DeleteStep
<1>4. ASSUME NEW t \in tenants, Pin(t.id) PROVE IInv'
  BY <1>4, PinStep
<1>5. CASE UNCHANGED vars
  BY <1>5, StutterStep
<1>6. CASE Next
  BY <1>1, <1>2, <1>3, <1>4, <1>6 DEF Next
<1> QED BY <1>5, <1>6

-----------------------------------------------------------------------------
(* What is true of every behaviour. *)

\* The invariant holds throughout.
THEOREM Invariance == Spec => []IInv
BY InitIInv, NextIInv, PTL DEF Spec

\* Every variable has its type; slugs, database names and ids are unique, a
\* membership refers to a user, and a pinned tenant stays.
THEOREM TypeCorrect == Spec => []TypeOK
<1>1. IInv => TypeOK
  BY DEF IInv
<1> QED BY <1>1, Invariance, PTL

\* Every membership gives a user a role that a dataset grants for a tenant
\* that exists, whatever loads and unloads overlap.
THEOREM MembershipsGranted == Spec => []MembershipsAreGranted
<1>1. IInv => MembershipsAreGranted
  <2> SUFFICES ASSUME IInv, NEW m \in members
               PROVE  \E d \in Datasets :
                        \E g \in Grants(d) \cup (IF Misreads = {} THEN {} ELSE SingleGrants(d)) :
                            /\ g.email = m.user
                            /\ g.role = m.role
                            /\ m.tenant \in IdOf(g.slug)
    BY DEF MembershipsAreGranted
  <2>1. PICK g \in Allowed : /\ g.email = m.user /\ g.role = m.role
                             /\ \E t \in tenants : t.id = m.tenant /\ t.slug = g.slug
    BY DEF IInv, MembersGranted
  <2>2. m.tenant \in IdOf(g.slug)
    BY <2>1 DEF IdOf
  <2>3. PICK d \in Datasets : g \in GrantedBy(d)
    BY DEF Allowed
  <2> QED BY <2>1, <2>2, <2>3 DEF GrantedBy
<1> QED BY <1>1, Invariance, PTL

\* The steps that change the plan of an execution at work are its own.
LEMMA OwnStep ==
  ASSUME TypeOK, Next, NEW p \in Procs, pc[p] # "idle", plan'[p] # plan[p]
  PROVE  \/ TenantConflict(p) \/ MembershipRefused(p) \/ DeleteRefused(p)
         \/ Finish(p) \/ Abort(p)
         \/ SeedTenantData(p) \/ UpsertTenant(p) \/ UpsertUser(p) \/ LookupUser(p)
         \/ UpsertMembership(p) \/ DeleteTenant(p)
<1>1. CASE \E q \in Procs, d \in Datasets, action \in {"load", "unload"},
              unread \in SUBSET {"tenants", "users"} : Start(q, d, action, unread)
  BY <1>1 DEF Start, TypeOK
<1>2. CASE \E q \in Procs : StartRefused(q)
  BY <1>2 DEF StartRefused
<1>3. ASSUME NEW q \in Procs,
             \/ TenantConflict(q) \/ MembershipRefused(q) \/ DeleteRefused(q)
             \/ Finish(q) \/ Abort(q)
      PROVE  q = p
  <2>1. plan' = [plan EXCEPT ![q] = <<>>]
    BY <1>3 DEF TenantConflict, MembershipRefused, DeleteRefused, Finish, Abort, Quit
  <2> QED BY <2>1 DEF TypeOK
<1>4. ASSUME NEW q \in Procs,
             \/ SeedTenantData(q) \/ UpsertTenant(q) \/ UpsertUser(q) \/ LookupUser(q)
             \/ UpsertMembership(q) \/ DeleteTenant(q)
      PROVE  q = p
  <2>1. \E rest : plan' = [plan EXCEPT ![q] = rest]
    BY <1>4 DEF SeedTenantData, UpsertTenant, UpsertUser, LookupUser, UpsertMembership,
                DeleteTenant, Advance
  <2> QED BY <2>1 DEF TypeOK
<1>5. CASE \E t \in tenants : Pin(t.id)
  BY <1>5 DEF Pin, procVars
<1> QED BY <1>1, <1>2, <1>3, <1>4, <1>5 DEF Next

\* What the next statement of an execution may be about.
LEMMA NextStatement ==
  ASSUME IInv, NEW p \in Procs, plan[p] # <<>>
  PROVE  /\ Warranted(WarrantOf(p), Head(plan[p]))
         /\ Head(plan[p]).op = "member" =>
               \E g \in WarrantOf(p).grants :
                  /\ g.email = Head(plan[p]).email
                  /\ \A t \in tenants : t.id = tenantID[p] => t.slug = g.slug
                  /\ pc[p] = "load" /\ "deleted" \notin others[p] /\ g.slug # NoSlug =>
                        \E t \in tenants : t.id = tenantID[p]
<1>1. plan[p] \in Seq(Statement)
  BY DEF IInv, TypeOK
<1>2. PICK at \in STRING : Fits(WarrantOf(p), plan[p], DOMAIN users, at) /\ AtHand(p, at)
  BY DEF IInv, Sound, Planned
<1>3. Head(plan[p]).op = "member" =>
         \E g \in WarrantOf(p).grants : g.email = Head(plan[p]).email /\ g.slug = at
  BY <1>1, <1>2, MemberAtHead
<1> QED BY <1>1, <1>2, <1>3, HeadWarranted DEF AtHand

\* A step of an unload.
LEMMA UnloadStep ==
  ASSUME IInv, Next, NEW p \in Procs, pc[p] = "unload", plan'[p] # plan[p]
  PROVE  LET own == SlugsFor(ds[p], "lost" \notin others[p]) IN
         /\ users' = users
         /\ \A t \in tenants \ tenants' : t.slug \in own
         /\ \A m \in members \ members' : \E s \in own : m.tenant \in IdOf(s)
<1> DEFINE own == SlugsFor(ds[p], "lost" \notin others[p])
<1>1. TypeOK
  BY DEF IInv
<1>2. WarrantOf(p).slugs = {} /\ WarrantOf(p).emails = {} /\ WarrantOf(p).grants = {}
      /\ WarrantOf(p).deletes = {NoSlug} \cup own
  BY DEF WarrantOf, UnloadWarrant
<1>3. plan[p] # <<>> => /\ Head(plan[p]).op \notin {"tenant", "user", "member"}
                        /\ Head(plan[p]).op = "delete" => Head(plan[p]).slug \in {NoSlug} \cup own
  BY <1>2, NextStatement DEF Warranted
<1> HIDE DEF own
<1>4. CASE \/ TenantConflict(p) \/ MembershipRefused(p) \/ DeleteRefused(p)
           \/ Finish(p) \/ Abort(p) \/ SeedTenantData(p) \/ LookupUser(p)
  BY <1>4 DEF TenantConflict, MembershipRefused, DeleteRefused, Finish, Abort, Quit,
              SeedTenantData, LookupUser, dbVars
<1>5. ~UpsertTenant(p) /\ ~UpsertUser(p) /\ ~UpsertMembership(p)
  BY <1>3 DEF UpsertTenant, UpsertUser, UpsertMembership, Runs
<1>6. CASE DeleteTenant(p)
  <2> DEFINE slug == Head(plan[p]).slug
  <2>1. slug \in {NoSlug} \cup own
    BY <1>3, <1>6 DEF DeleteTenant, Runs
  <2> HIDE DEF slug
  <2>2. \A t \in tenants : t.slug = slug => t.slug \in own
    BY <1>1, <2>1 DEF TypeOK
  <2>3. /\ users' = users
        /\ \A t \in tenants \ tenants' : t.slug = slug
        /\ \A m \in members \ members' : \E t \in tenants : t.slug = slug /\ m.tenant = t.id
    BY <1>6 DEF DeleteTenant, slug
  <2>4. ASSUME NEW m \in members \ members' PROVE \E s \in own : m.tenant \in IdOf(s)
    <3>1. PICK t \in tenants : t.slug = slug /\ m.tenant = t.id
      BY <2>3
    <3> QED BY <2>2, <3>1 DEF IdOf
  <2> QED BY <2>2, <2>3, <2>4 DEF own
<1> QED BY <1>1, <1>4, <1>5, <1>6, OwnStep DEF own

\* An unload removes tenants of its own dataset with their memberships, and
\* nothing else, whatever runs beside it.
THEOREM UnloadKeepsTheRest == Spec => UnloadRemovesOnlyItsOwn
<1> DEFINE A == \A p \in Procs : pc[p] = "unload" /\ plan'[p] # plan[p] =>
                    LET own == IF "lost" \in others[p] THEN {ds[p].slug} \cup TenantSlugs(ds[p])
                                                       ELSE TenantSlugs(ds[p])
                    IN  /\ users' = users
                        /\ \A t \in tenants \ tenants' : t.slug \in own
                        /\ \A m \in members \ members' : \E s \in own : m.tenant \in IdOf(s)
<1>1. ASSUME IInv, Next PROVE A
  <2> SUFFICES ASSUME NEW p \in Procs, pc[p] = "unload", plan'[p] # plan[p]
               PROVE  LET own == SlugsFor(ds[p], "lost" \notin others[p]) IN
                      /\ users' = users
                      /\ \A t \in tenants \ tenants' : t.slug \in own
                      /\ \A m \in members \ members' : \E s \in own : m.tenant \in IdOf(s)
    BY DEF SlugsFor
  <2> QED BY <1>1, UnloadStep
<1>2. IInv /\ [Next]_vars => [A]_vars
  BY <1>1
<1>3. [][A]_vars => UnloadRemovesOnlyItsOwn
  BY PTL DEF UnloadRemovesOnlyItsOwn
<1> QED BY <1>2, <1>3, Invariance, PTL DEF Spec

\* A membership that is there is replaced, not added.
LEMMA MemberReplaced ==
  ASSUME OneRow, NEW row, NEW m \in members, m.user = row.user, m.tenant = row.tenant,
         members' = {n \in members : ~(n.user = row.user /\ n.tenant = row.tenant)} \cup {row}
  PROVE  Cardinality(members') = Cardinality(members)
<1> DEFINE kept == members \ {m}
<1>1. {n \in members : ~(n.user = row.user /\ n.tenant = row.tenant)} = kept
  BY DEF OneRow
<1>2. IsFiniteSet(members) /\ IsFiniteSet(kept) /\ Cardinality(kept) = Cardinality(members) - 1
      /\ Cardinality(members) \in Nat
  BY FS_RemoveElement, FS_CardinalityType DEF OneRow
<1>3. row \notin kept
  BY <1>1
<1>4. members' = kept \cup {row}
  BY <1>1
<1> HIDE DEF kept
<1>5. Cardinality(members') = Cardinality(kept) + 1
  BY <1>2, <1>3, <1>4, FS_AddElement
<1> QED BY <1>2, <1>5

\* A step of a load of a dataset that is complete.
LEMMA ReloadStep ==
  ASSUME IInv, Next, NEW p \in Procs, settled[p], pc[p] = "load", "deleted" \notin others[p],
         plan'[p] # plan[p]
  PROVE  /\ {<<t.id, t.slug>> : t \in tenants'} = {<<t.id, t.slug>> : t \in tenants}
         /\ DOMAIN users' = DOMAIN users
         /\ Cardinality(members') = Cardinality(members)
         /\ exit'[p] # "1"
<1>1. TypeOK /\ OneRow /\ Sound(p) /\ ds[p] \in Datasets
  BY DEF IInv, TypeOK
<1>2. exit[p] = "none" /\ Present(ds[p], Grants(ds[p]))
  BY <1>1 DEF Sound, StaysComplete
<1>3. /\ WarrantOf(p).slugs = TenantSlugs(ds[p]) /\ WarrantOf(p).emails = Emails(ds[p])
      /\ WarrantOf(p).grants = Grants(ds[p]) /\ WarrantOf(p).deletes = {}
  BY DEF WarrantOf, LoadWarrant, Exact, SlugsFor
<1>4. NamesTenants(WarrantOf(p))
  BY <1>1, GrantsNameTenant DEF WarrantOf
<1>5. plan[p] # <<>> /\ Head(plan[p]).op = "tenant" =>
         \E t \in tenants : t.slug = Head(plan[p]).slug
  BY <1>2, <1>3, NextStatement DEF Warranted, Present, IdOf
<1>6. plan[p] # <<>> /\ Head(plan[p]).op = "user" => Head(plan[p]).email \in DOMAIN users
  BY <1>2, <1>3, NextStatement DEF Warranted, Present
<1>7. plan[p] # <<>> => Head(plan[p]).op # "delete"
  BY <1>3, NextStatement DEF Warranted
<1>8. ASSUME plan[p] # <<>>, Head(plan[p]).op = "member"
      PROVE  /\ \E t \in tenants : t.id = tenantID[p]
             /\ \E m \in members : m.user = Head(plan[p]).email /\ m.tenant = tenantID[p]
  <2>1. PICK g \in WarrantOf(p).grants :
                  /\ g.email = Head(plan[p]).email
                  /\ \A t \in tenants : t.id = tenantID[p] => t.slug = g.slug
                  /\ g.slug # NoSlug => \E t \in tenants : t.id = tenantID[p]
    BY <1>8, NextStatement
  <2>2. PICK t \in tenants : t.id = tenantID[p] /\ t.slug = g.slug
    BY <1>4, <2>1 DEF NamesTenants
  <2>3. PICK m \in members : m.user = g.email /\ m.tenant \in IdOf(g.slug)
    BY <1>2, <1>3, <2>1 DEF Present, Granted
  <2>4. m.tenant = tenantID[p]
    BY <1>1, <2>2, <2>3 DEF IdOf, TypeOK
  <2> QED BY <2>1, <2>2, <2>3, <2>4
<1>9. CASE Finish(p) \/ Abort(p)
  BY <1>1, <1>9 DEF Finish, Abort, Quit, dbVars, TypeOK
<1>10. ~TenantConflict(p) /\ ~MembershipRefused(p) /\ ~DeleteRefused(p) /\ ~DeleteTenant(p)
  BY <1>5, <1>7, <1>8 DEF TenantConflict, MembershipRefused, DeleteRefused, DeleteTenant, Runs
<1>11. CASE SeedTenantData(p) \/ LookupUser(p)
  BY <1>2, <1>11 DEF SeedTenantData, LookupUser, dbVars
<1>12. CASE UpsertTenant(p)
  BY <1>2, <1>5, <1>12 DEF UpsertTenant, Runs
<1>13. CASE UpsertUser(p)
  BY <1>2, <1>6, <1>13 DEF UpsertUser, Runs
<1>14. CASE UpsertMembership(p)
  <2> DEFINE row == [user |-> Head(plan[p]).email, tenant |-> tenantID[p],
                     role |-> Head(plan[p]).role]
  <2>1. /\ members' = {n \in members : ~(n.user = row.user /\ n.tenant = row.tenant)} \cup {row}
        /\ UNCHANGED <<tenants, users, exit>>
    BY <1>14 DEF UpsertMembership
  <2>2. PICK m \in members : m.user = row.user /\ m.tenant = row.tenant
    BY <1>8, <1>14 DEF UpsertMembership, Runs
  <2> HIDE DEF row
  <2>3. Cardinality(members') = Cardinality(members)
    BY <1>1, <2>1, <2>2, MemberReplaced
  <2> QED BY <1>2, <2>1, <2>3
<1> QED BY <1>1, <1>9, <1>10, <1>11, <1>12, <1>13, <1>14, OwnStep

\* Loading again a dataset that is complete adds no row to the tables of the
\* platform and is refused nothing there, so long as no unload runs beside it.
THEOREM PlatformLoadIsIdempotent == Spec => PlatformReloadAddsNothing
<1> DEFINE A == \A p \in Procs :
                  settled[p] /\ pc[p] = "load" /\ "deleted" \notin others[p] /\ plan'[p] # plan[p] =>
                     /\ {<<t.id, t.slug>> : t \in tenants'} = {<<t.id, t.slug>> : t \in tenants}
                     /\ DOMAIN users' = DOMAIN users
                     /\ Cardinality(members') = Cardinality(members)
                     /\ exit'[p] # "1"
<1>1. ASSUME IInv, Next PROVE A
  BY <1>1, ReloadStep
<1>2. IInv /\ [Next]_vars => [A]_vars
  BY <1>1
<1>3. [][A]_vars => PlatformReloadAddsNothing
  BY PTL DEF PlatformReloadAddsNothing
<1> QED BY <1>2, <1>3, Invariance, PTL DEF Spec

-----------------------------------------------------------------------------
(***************************************************************************)
(* A load that is not disturbed is complete.  What it has not written yet  *)
(* it still has in its plan (Covers), under the tenant that it is for; and *)
(* when nobody else writes, the last statement about a membership or a     *)
(* user is the one the dataset means to stay (LastWord).                   *)
(***************************************************************************)

\* A load beside which nothing was deleted, and that has read everything.
Undisturbed(p) == pc[p] = "load" /\ others[p] \subseteq {"wrote"}

\* The tenant that p has at hand.
Has(p, at) ==
    IF tenantID[p] \in {t.id : t \in tenants}
    THEN \E t \in tenants : t.id = tenantID[p] /\ t.slug = at
    ELSE at = NoSlug

\* The statements of s about the user e, and about a membership.
AboutUser(s, e) == {i \in 1..Len(s) : s[i].op = "user" /\ s[i].email = e}
AboutMember(s, e, slug, at) ==
    {i \in 1..Len(s) : s[i].op = "member" /\ s[i].email = e /\ Context(s, i, slug, at)}

\* The tenant at hand after the first statement of s.
After(s, at) == IF Head(s).op = "tenant" THEN Head(s).slug ELSE at

\* Lookups come after the users.
UsersFirst(s) ==
    \A i, j \in 1..Len(s) : i < j /\ s[i].op = "lookup" => s[j].op # "user"

Covers(d, s, at) ==
    /\ \A slug \in TenantSlugs(d) :
          IdOf(slug) # {} \/ \E i \in 1..Len(s) : s[i].op = "tenant" /\ s[i].slug = slug
    /\ \A e \in Emails(d) : e \in DOMAIN users \/ AboutUser(s, e) # {}
    /\ \A g \in SureGrants(d) : Granted(g) \/ AboutMember(s, g.email, g.slug, at) # {}
    /\ UsersFirst(s)

\* The last of these statements asks for the role, or the profile.
LastRole(s, about, role) == \A i \in about : s[i].role = role \/ \E j \in about : j > i
LastAdmin(s, about, admin) == \A i \in about : s[i].admin = admin \/ \E j \in about : j > i

RowStands(g) ==
    \E m \in members : m.user = g.email /\ m.role = g.role /\ m.tenant \in IdOf(g.slug)

\* The i-th user is not entered again.
IsLast(us, i) == \A j \in DOMAIN us : j > i => us[j].email # us[i].email

LastWord(d, s, at) ==
    /\ \A g \in SureGrants(d) :
          LET about == AboutMember(s, g.email, g.slug, at)
          IN  ~Overridden(d, g) => /\ LastRole(s, about, g.role)
                                   /\ about = {} => RowStands(g)
    /\ LET us == Usable(d.users) IN
       \A i \in DOMAIN us :
          LET about == AboutUser(s, us[i].email)
          IN  IsLast(us, i) => /\ LastAdmin(s, about, us[i].admin)
                               /\ about = {} => users[us[i].email] = us[i].admin

OnTheWay(p) ==
    \E at \in STRING :
        /\ Has(p, at)
        /\ Covers(ds[p], plan[p], at)
        /\ others[p] = {} => LastWord(ds[p], plan[p], at)

\* Every load that is not disturbed is on its way to be complete.
CompleteInv ==
    /\ Seeded \subseteq DOMAIN users
    /\ \A p \in Procs : Undisturbed(p) => OnTheWay(p)

\* The context of a statement, seen from the statement before.
LEMMA ContextTail ==
  ASSUME NEW s, NEW t, NEW n \in Nat, \A k \in 1..n : t[k] = s[k + 1],
         NEW at, NEW at2, at2 = IF s[1].op = "tenant" THEN s[1].slug ELSE at,
         NEW i \in 1..n, NEW slug
  PROVE  Context(t, i, slug, at2) <=> Context(s, i + 1, slug, at)
<1>1. \A k \in 2..(i + 1) : k - 1 \in 1..i /\ k - 1 \in 1..n /\ (k - 1) + 1 = k
  OBVIOUS
<1>2. \A k \in 2..(i + 1) : s[k] = t[k - 1]
  BY <1>1
<1>3. \A k \in 1..i : k + 1 \in 2..(i + 1) /\ t[k] = s[k + 1]
  OBVIOUS
<1>4. ASSUME Context(t, i, slug, at2) PROVE Context(s, i + 1, slug, at)
  <2>1. CASE \E j \in 1..(i - 1) : /\ t[j].op = "tenant" /\ t[j].slug = slug
                                   /\ \A k \in (j + 1)..i : t[k].op # "tenant"
    <3>1. PICK j \in 1..(i - 1) : /\ t[j].op = "tenant" /\ t[j].slug = slug
                                  /\ \A k \in (j + 1)..i : t[k].op # "tenant"
      BY <2>1
    <3>2. j + 1 \in 1..((i + 1) - 1) /\ j \in 1..i
      OBVIOUS
    <3>3. \A k \in ((j + 1) + 1)..(i + 1) : k \in 2..(i + 1) /\ k - 1 \in (j + 1)..i
      OBVIOUS
    <3> QED BY <1>2, <1>3, <3>1, <3>2, <3>3 DEF Context
  <2>2. CASE slug = at2 /\ \A k \in 1..i : t[k].op # "tenant"
    <3>1. \A k \in 2..(i + 1) : s[k].op # "tenant"
      BY <1>1, <1>2, <2>2
    <3>2. CASE s[1].op = "tenant"
      <4>1. 1 \in 1..((i + 1) - 1) /\ 1 + 1 = 2
        OBVIOUS
      <4> QED BY <2>2, <3>1, <3>2, <4>1 DEF Context
    <3>3. CASE s[1].op # "tenant"
      <4>1. \A k \in 1..(i + 1) : k = 1 \/ k \in 2..(i + 1)
        OBVIOUS
      <4> QED BY <2>2, <3>1, <3>3, <4>1 DEF Context
    <3> QED BY <3>2, <3>3
  <2> QED BY <1>4, <2>1, <2>2 DEF Context
<1>5. ASSUME Context(s, i + 1, slug, at) PROVE Context(t, i, slug, at2)
  <2>1. CASE \E j \in 1..((i + 1) - 1) : /\ s[j].op = "tenant" /\ s[j].slug = slug
                                         /\ \A k \in (j + 1)..(i + 1) : s[k].op # "tenant"
    <3>1. PICK j \in 1..((i + 1) - 1) : /\ s[j].op = "tenant" /\ s[j].slug = slug
                                        /\ \A k \in (j + 1)..(i + 1) : s[k].op # "tenant"
      BY <2>1
    <3>2. CASE j = 1
      <4>1. \A k \in 1..i : k + 1 \in (j + 1)..(i + 1)
        BY <3>2
      <4> QED BY <1>3, <3>1, <3>2, <4>1 DEF Context
    <3>3. CASE j # 1
      <4>1. j - 1 \in 1..(i - 1) /\ j \in 2..(i + 1)
        BY <3>3
      <4>2. \A k \in ((j - 1) + 1)..i : k \in 1..i /\ k + 1 \in (j + 1)..(i + 1)
        BY <3>3
      <4> QED BY <1>2, <1>3, <3>1, <4>1, <4>2 DEF Context
    <3> QED BY <3>2, <3>3
  <2>2. CASE slug = at /\ \A k \in 1..(i + 1) : s[k].op # "tenant"
    <3>1. 1 \in 1..(i + 1) /\ \A k \in 1..i : k + 1 \in 1..(i + 1)
      OBVIOUS
    <3> QED BY <1>3, <2>2, <3>1 DEF Context
  <2> QED BY <1>5, <2>1, <2>2 DEF Context
<1> QED BY <1>4, <1>5

\* What is left about a membership when the first statement has run.
LEMMA MemberTail ==
  ASSUME NEW s \in Seq(Statement), s # <<>>, NEW at, NEW e, NEW slug
  PROVE  /\ AboutMember(Tail(s), e, slug, After(s, at))
               = {i \in 1..Len(Tail(s)) : i + 1 \in AboutMember(s, e, slug, at)}
         /\ AboutMember(s, e, slug, at) \in SUBSET (1..(Len(Tail(s)) + 1))
         /\ 1 \in AboutMember(s, e, slug, at) <=>
               Head(s).op = "member" /\ Head(s).email = e /\ slug = at
<1> DEFINE n == Len(Tail(s))
<1>1. /\ n \in Nat /\ Len(s) = n + 1 /\ \A k \in 1..n : Tail(s)[k] = s[k + 1]
      /\ Head(s) = s[1] /\ 1 \in 1..Len(s)
  BY TailOf
<1> HIDE DEF n
<1>2. \A i \in 1..n : i + 1 \in 1..Len(s)
  BY <1>1
<1>3. \A i \in 1..n : Context(Tail(s), i, slug, After(s, at)) <=> Context(s, i + 1, slug, at)
  <2>1. After(s, at) = IF s[1].op = "tenant" THEN s[1].slug ELSE at
    BY <1>1 DEF After
  <2> QED BY <1>1, <2>1, ContextTail
<1>4. Context(s, 1, slug, at) <=> slug = at /\ s[1].op # "tenant"
  <2>1. 1..(1 - 1) = {} /\ 1..1 = {1}
    OBVIOUS
  <2> QED BY <2>1 DEF Context
<1>5. AboutMember(Tail(s), e, slug, After(s, at)) = {i \in 1..n : i + 1 \in AboutMember(s, e, slug, at)}
  BY <1>1, <1>2, <1>3 DEF AboutMember, n
<1>6. 1 \in AboutMember(s, e, slug, at) <=>
         Head(s).op = "member" /\ Head(s).email = e /\ slug = at
  BY <1>1, <1>4 DEF AboutMember
<1>7. AboutMember(s, e, slug, at) \subseteq 1..(n + 1)
  BY <1>1 DEF AboutMember
<1> QED BY <1>5, <1>6, <1>7 DEF n

\* The same of a user.
LEMMA UserTail ==
  ASSUME NEW s \in Seq(Statement), s # <<>>, NEW e
  PROVE  /\ AboutUser(Tail(s), e) = {i \in 1..Len(Tail(s)) : i + 1 \in AboutUser(s, e)}
         /\ AboutUser(s, e) \in SUBSET (1..(Len(Tail(s)) + 1))
         /\ 1 \in AboutUser(s, e) <=> Head(s).op = "user" /\ Head(s).email = e
<1> DEFINE n == Len(Tail(s))
<1>1. /\ n \in Nat /\ Len(s) = n + 1 /\ \A k \in 1..n : Tail(s)[k] = s[k + 1]
      /\ Head(s) = s[1] /\ 1 \in 1..Len(s)
  BY TailOf
<1> HIDE DEF n
<1>2. \A i \in 1..n : i + 1 \in 1..Len(s)
  BY <1>1
<1>3. AboutUser(Tail(s), e) = {i \in 1..n : i + 1 \in AboutUser(s, e)}
  BY <1>1, <1>2 DEF AboutUser, n
<1>4. 1 \in AboutUser(s, e) <=> Head(s).op = "user" /\ Head(s).email = e
  BY <1>1 DEF AboutUser
<1>5. AboutUser(s, e) \subseteq 1..(n + 1)
  BY <1>1 DEF AboutUser
<1> QED BY <1>3, <1>4, <1>5 DEF n

\* Nothing is left that was not there, and what is gone was first.
LEMMA ShiftEmpty ==
  ASSUME NEW n \in Nat, NEW a \in SUBSET (1..(n + 1)), {i \in 1..n : i + 1 \in a} = {}
  PROVE  a \subseteq {1}
<1>1. \A i \in a : i = 1 \/ (i - 1 \in 1..n /\ (i - 1) + 1 = i)
  OBVIOUS
<1> QED BY <1>1

\* The last statement stays the last one.
LEMMA LastStays ==
  ASSUME NEW s \in Seq(Statement), s # <<>>, NEW n \in Nat, Len(s) = n + 1,
         \A k \in 1..n : Tail(s)[k] = s[k + 1],
         NEW a \in SUBSET (1..(n + 1)), NEW b, b = {i \in 1..n : i + 1 \in a}, NEW role
  PROVE  /\ LastRole(s, a, role) => LastRole(Tail(s), b, role)
         /\ LastAdmin(s, a, role) => LastAdmin(Tail(s), b, role)
<1>1. \A i \in b : i \in 1..n /\ i + 1 \in a /\ Tail(s)[i] = s[i + 1]
  OBVIOUS
<1>2. \A i \in b, j \in a : j > i + 1 => j - 1 \in b /\ j - 1 > i
  OBVIOUS
<1> QED BY <1>1, <1>2 DEF LastRole, LastAdmin

\* When the last one is first, it asks for what is meant.
LEMMA LastIsFirst ==
  ASSUME NEW s, NEW a, a = {1}, NEW role
  PROVE  /\ LastRole(s, a, role) => s[1].role = role
         /\ LastAdmin(s, a, role) => s[1].admin = role
<1>1. ~ 1 > 1
  OBVIOUS
<1> QED BY <1>1 DEF LastRole, LastAdmin
\* A membership that is granted stays granted, an id that is in use stays.
LEMMA GrowsKeeps ==
  ASSUME Grows
  PROVE  /\ \A slug : IdOf(slug) \subseteq IdOf(slug)'
         /\ \A g : Granted(g) => Granted(g)'
<1>1. \A slug : IdOf(slug) \subseteq IdOf(slug)'
  BY DEF Grows, IdOf
<1>2. \A g : Granted(g) => Granted(g)'
  BY <1>1 DEF Grows, Granted
<1> QED BY <1>1, <1>2

\* The tenant at hand is the same beside the steps of others.
LEMMA HasStays ==
  ASSUME NEW q \in Procs, NEW at, Has(q, at), tenants \subseteq tenants',
         tenantID'[q] = tenantID[q], \A t \in tenants' : t.id = tenantID[q] => t \in tenants
  PROVE  Has(q, at)'
<1>1. tenantID'[q] \in {t.id : t \in tenants'} <=> tenantID[q] \in {t.id : t \in tenants}
  OBVIOUS
<1> QED BY <1>1 DEF Has

\* A load is on its way beside the step of another execution.
LEMMA BesideOnTheWay ==
  ASSUME NEW q \in Procs, Undisturbed(q) => OnTheWay(q), Undisturbed(q)',
         plan'[q] = plan[q], tenantID'[q] = tenantID[q], pc'[q] = pc[q], ds'[q] = ds[q],
         others[q] \subseteq others'[q], Grows, DOMAIN users \subseteq DOMAIN users',
         \A t \in tenants' : t.id = tenantID[q] => t \in tenants,
         others'[q] = {} => users' = users /\ members' = members
  PROVE  OnTheWay(q)'
<1>1. Undisturbed(q)
  BY DEF Undisturbed
<1>2. PICK at \in STRING : /\ Has(q, at)
                           /\ Covers(ds[q], plan[q], at)
                           /\ others[q] = {} => LastWord(ds[q], plan[q], at)
  BY <1>1 DEF OnTheWay
<1>3. Has(q, at)'
  BY <1>2, HasStays DEF Grows
<1> DEFINE d == ds[q]
           s == plan[q]
<1>4. d' = d /\ s' = s
  OBVIOUS
<1> HIDE DEF d, s
<1>5. Covers(d, s, at)'
  BY <1>2, <1>4, GrowsKeeps DEF Covers, d, s
<1>6. ASSUME others'[q] = {} PROVE LastWord(d, s, at)'
  <2>1. LastWord(d, s, at) /\ users' = users /\ members' = members
    BY <1>2, <1>6 DEF d, s
  <2>2. \A g : RowStands(g) => RowStands(g)'
    BY <2>1, GrowsKeeps DEF RowStands
  <2> QED BY <1>4, <2>1, <2>2 DEF LastWord
<1> QED BY <1>3, <1>4, <1>5, <1>6 DEF OnTheWay, d, s

\* A load is on its way after its own statement.
LEMMA OwnOnTheWay ==
  ASSUME NEW p \in Procs, NEW at, NEW at2 \in STRING,
         NEW s \in Seq(Statement), s = plan[p], s # <<>>, plan'[p] = Tail(s),
         at2 = After(s, at),
         Covers(ds[p], s, at), others[p] = {} => LastWord(ds[p], s, at), Has(p, at2)',
         ds'[p] = ds[p], others'[p] = others[p], Grows, DOMAIN users \subseteq DOMAIN users',
         Head(s).op = "tenant" => IdOf(Head(s).slug)' # {},
         Head(s).op = "user" => Head(s).email \in DOMAIN users',
         \A g : Head(s).op = "member" /\ g.email = Head(s).email /\ g.slug = at => Granted(g)',
         \A g : RowStands(g) /\ ~(Head(s).op = "member" /\ g.email = Head(s).email
                                     /\ g.slug = at) => RowStands(g)',
         \A g : /\ Head(s).op = "member" /\ g.email = Head(s).email /\ g.slug = at
                /\ g.role = Head(s).role
                => RowStands(g)',
         \A e \in DOMAIN users : ~(Head(s).op = "user" /\ e = Head(s).email) => users'[e] = users[e],
         Head(s).op = "user" => users'[Head(s).email] = Head(s).admin
  PROVE  OnTheWay(p)'
<1> DEFINE d == ds[p]
           t == Tail(s)
           n == Len(t)
<1>1. n \in Nat /\ Len(s) = n + 1 /\ \A k \in 1..n : t[k] = s[k + 1]
  BY TailOf
<1>2. d' = d /\ Covers(d, s, at) /\ (others[p] = {} => LastWord(d, s, at)) /\ Head(s) = s[1]
  BY TailOf
<1>3. \A i \in 1..Len(s) : i = 1 \/ (i - 1 \in 1..n /\ t[i - 1] = s[i])
  BY <1>1
<1>4. ASSUME NEW e, NEW slug
      PROVE  /\ AboutMember(t, e, slug, at2) = {i \in 1..n : i + 1 \in AboutMember(s, e, slug, at)}
             /\ AboutMember(s, e, slug, at) \in SUBSET (1..(n + 1))
             /\ AboutMember(t, e, slug, at2) = {} => AboutMember(s, e, slug, at) \subseteq {1}
             /\ 1 \in AboutMember(s, e, slug, at) <=>
                   Head(s).op = "member" /\ Head(s).email = e /\ slug = at
  <2> DEFINE a == AboutMember(s, e, slug, at)
             b == AboutMember(t, e, slug, at2)
  <2>1. /\ b = {i \in 1..n : i + 1 \in a} /\ a \in SUBSET (1..(n + 1))
        /\ 1 \in a <=> Head(s).op = "member" /\ Head(s).email = e /\ slug = at
    BY MemberTail
  <2> HIDE DEF a, b, n
  <2>2. b = {} => a \subseteq {1}
    BY <1>1, <2>1, ShiftEmpty
  <2> QED BY <2>1, <2>2 DEF a, b
<1>5. ASSUME NEW e
      PROVE  /\ AboutUser(t, e) = {i \in 1..n : i + 1 \in AboutUser(s, e)}
             /\ AboutUser(s, e) \in SUBSET (1..(n + 1))
             /\ AboutUser(t, e) = {} => AboutUser(s, e) \subseteq {1}
             /\ 1 \in AboutUser(s, e) <=> Head(s).op = "user" /\ Head(s).email = e
  <2> DEFINE a == AboutUser(s, e)
             b == AboutUser(t, e)
  <2>1. /\ b = {i \in 1..n : i + 1 \in a} /\ a \in SUBSET (1..(n + 1))
        /\ 1 \in a <=> Head(s).op = "user" /\ Head(s).email = e
    BY UserTail
  <2> HIDE DEF a, b, n
  <2>2. b = {} => a \subseteq {1}
    BY <1>1, <2>1, ShiftEmpty
  <2> QED BY <2>1, <2>2 DEF a, b
<1> HIDE DEF d, n, t
<1>6. Covers(d, t, at2)'
  <2>1. ASSUME NEW slug \in TenantSlugs(d)
        PROVE  IdOf(slug)' # {} \/ \E i \in 1..Len(t) : t[i].op = "tenant" /\ t[i].slug = slug
    <3>1. IdOf(slug) # {} => IdOf(slug)' # {}
      BY GrowsKeeps
    <3>2. CASE \E i \in 1..Len(s) : s[i].op = "tenant" /\ s[i].slug = slug
      <4>1. PICK i \in 1..Len(s) : s[i].op = "tenant" /\ s[i].slug = slug
        BY <3>2
      <4> QED BY <1>2, <1>3, <4>1 DEF n
    <3> QED BY <1>2, <3>1, <3>2 DEF Covers
  <2>2. ASSUME NEW e \in Emails(d) PROVE e \in DOMAIN users' \/ AboutUser(t, e) # {}
    <3>1. e \in DOMAIN users \/ AboutUser(s, e) # {}
      BY <1>2 DEF Covers
    <3> QED BY <1>4, <1>5, <3>1
  <2>3. ASSUME NEW g \in SureGrants(d)
        PROVE  Granted(g)' \/ AboutMember(t, g.email, g.slug, at2) # {}
    <3>1. Granted(g) \/ AboutMember(s, g.email, g.slug, at) # {}
      BY <1>2 DEF Covers
    <3>2. Granted(g) => Granted(g)'
      BY GrowsKeeps
    <3> QED BY <1>4, <1>5, <3>1, <3>2
  <2>4. UsersFirst(t)
    <3>1. ASSUME NEW i \in 1..n, NEW j \in 1..n, i < j, t[i].op = "lookup"
          PROVE  t[j].op # "user"
      <4>1. i + 1 \in 1..Len(s) /\ j + 1 \in 1..Len(s) /\ i + 1 < j + 1
        BY <1>1, <3>1
      <4>2. t[i] = s[i + 1] /\ t[j] = s[j + 1]
        BY <1>1
      <4> QED BY <1>2, <3>1, <4>1, <4>2 DEF Covers, UsersFirst
    <3> QED BY <3>1 DEF UsersFirst, n
  <2> QED BY <1>2, <2>1, <2>2, <2>3, <2>4 DEF Covers
<1>7. ASSUME others[p] = {} PROVE LastWord(d, t, at2)'
  <2>1. LastWord(d, s, at)
    BY <1>2, <1>7
  <2>2. ASSUME NEW g \in SureGrants(d), ~Overridden(d, g)
        PROVE  LET about == AboutMember(t, g.email, g.slug, at2)
               IN  /\ LastRole(t, about, g.role)
                   /\ about = {} => RowStands(g)'
    <3> DEFINE a == AboutMember(s, g.email, g.slug, at)
               b == AboutMember(t, g.email, g.slug, at2)
    <3>1. LastRole(s, a, g.role) /\ (a = {} => RowStands(g))
      BY <2>1, <2>2 DEF LastWord
    <3>2. /\ a \in SUBSET (1..(n + 1)) /\ b = {i \in 1..n : i + 1 \in a}
          /\ b = {} => a \subseteq {1}
          /\ 1 \in a <=> Head(s).op = "member" /\ Head(s).email = g.email /\ g.slug = at
      BY <1>4, <1>5
    <3> HIDE DEF a, b
    <3>3. LastRole(t, b, g.role)
      BY <1>1, <3>1, <3>2, LastStays DEF t
    <3>4. CASE b = {} /\ 1 \in a
      <4>1. a = {1}
        BY <3>2, <3>4
      <4>2. s[1].role = g.role
        BY <3>1, <4>1, LastIsFirst
      <4> QED BY <1>2, <3>2, <3>3, <3>4, <4>2 DEF b
    <3>5. CASE b = {} /\ 1 \notin a
      <4>1. a = {}
        BY <3>2, <3>5
      <4> QED BY <3>1, <3>2, <3>3, <3>5, <4>1 DEF b
    <3> QED BY <3>3, <3>4, <3>5 DEF b
  <2>3. ASSUME NEW i \in DOMAIN Usable(d.users), IsLast(Usable(d.users), i)
        PROVE  LET u == Usable(d.users)[i]
                   about == AboutUser(t, u.email)
               IN  /\ LastAdmin(t, about, u.admin)
                   /\ about = {} => users'[u.email] = u.admin
    <3> DEFINE u == Usable(d.users)[i]
               a == AboutUser(s, u.email)
               b == AboutUser(t, u.email)
    <3>1. LastAdmin(s, a, u.admin) /\ (a = {} => users[u.email] = u.admin)
      BY <2>1, <2>3 DEF LastWord
    <3>0. a = {} => u.email \in DOMAIN users
      <4>1. u.email \in Emails(d)
        BY DEF Emails, ToSet
      <4> QED BY <1>2, <4>1 DEF Covers
    <3>2. /\ a \in SUBSET (1..(n + 1)) /\ b = {j \in 1..n : j + 1 \in a}
          /\ b = {} => a \subseteq {1}
          /\ 1 \in a <=> Head(s).op = "user" /\ Head(s).email = u.email
      BY <1>4, <1>5
    <3> HIDE DEF a, b, u
    <3>3. LastAdmin(t, b, u.admin)
      BY <1>1, <3>1, <3>2, LastStays DEF t
    <3>4. CASE b = {} /\ 1 \in a
      <4>1. a = {1}
        BY <3>2, <3>4
      <4>2. s[1].admin = u.admin
        BY <3>1, <4>1, LastIsFirst
      <4> QED BY <1>2, <3>2, <3>3, <3>4, <4>2 DEF b, u
    <3>5. CASE b = {} /\ 1 \notin a
      <4>1. a = {}
        BY <3>2, <3>5
      <4> QED BY <3>0, <3>1, <3>2, <3>3, <3>5, <4>1 DEF b, u
    <3> QED BY <3>3, <3>4, <3>5 DEF b, u
  <2> QED BY <1>2, <2>2, <2>3 DEF LastWord
<1>8. plan'[p] = t /\ others'[p] = others[p]
  BY DEF t
<1> QED BY <1>2, <1>6, <1>7, <1>8 DEF OnTheWay, d

\* The others are on their way beside a statement that writes.
LEMMA BesideWrite ==
  ASSUME TypeOK, CompleteInv, NEW p \in Procs, NEW op, Runs(p, op), Advance(p, Tail(plan[p])),
         Disturb(p, "wrote"), UNCHANGED <<pc, ds, exit, settled>>, Grows,
         DOMAIN users \subseteq DOMAIN users',
         \A q \in Procs \ {p} : /\ tenantID'[q] = tenantID[q]
                                /\ \A t \in tenants' : t.id = tenantID[q] => t \in tenants,
         Undisturbed(p)' => OnTheWay(p)'
  PROVE  CompleteInv'
<1>1. ASSUME NEW q \in Procs \ {p}, Undisturbed(q)' PROVE OnTheWay(q)'
  <2>1. plan'[q] = plan[q] /\ pc'[q] = pc[q] /\ ds'[q] = ds[q] /\ others[q] \subseteq others'[q]
    BY AdvanceTyped, DisturbTyped
  <2>2. pc[q] # "idle"
    BY <1>1 DEF Undisturbed
  <2>3. others'[q] # {}
    BY <2>2, DisturbTyped
  <2>4. Undisturbed(q) => OnTheWay(q)
    BY DEF CompleteInv
  <2> QED BY <1>1, <2>1, <2>3, <2>4, BesideOnTheWay
<1>2. ASSUME NEW q \in Procs, Undisturbed(q)' PROVE OnTheWay(q)'
  BY <1>1, <1>2
<1>3. (Seeded \subseteq DOMAIN users)'
  BY DEF CompleteInv
<1> QED BY <1>2, <1>3 DEF CompleteInv

\* A load that is undisturbed after its own statement was so before.
LEMMA OwnUndisturbed ==
  ASSUME NEW p \in Procs, others'[p] = others[p], pc'[p] = pc[p],
         CompleteInv, Undisturbed(p)'
  PROVE  \E at \in STRING : /\ Has(p, at) /\ Covers(ds[p], plan[p], at)
                            /\ others[p] = {} => LastWord(ds[p], plan[p], at)
BY DEF CompleteInv, Undisturbed, OnTheWay

\* Upserting a user, of any execution, leaves every load on its way.
LEMMA UserOnTheWay ==
  ASSUME IInv, CompleteInv, NEW p \in Procs, UpsertUser(p) PROVE CompleteInv'
<1>1. TypeOK
  BY DEF IInv
<1>0. PICK s, h : s = plan[p] /\ h = Head(s)
  OBVIOUS
<1>2. /\ Runs(p, "user") /\ Advance(p, Tail(plan[p])) /\ Disturb(p, "wrote")
      /\ users' = [e \in DOMAIN users \cup {h.email} |->
                      IF e = h.email THEN h.admin ELSE users[e]]
      /\ UNCHANGED <<tenants, members, pinned, nextId, pc, ds, tenantID, exit, settled>>
  BY <1>0 DEF UpsertUser
<1>3. /\ s \in Seq(Statement) /\ s # <<>> /\ plan'[p] = Tail(s) /\ h.op = "user"
      /\ others'[p] = others[p] /\ pc'[p] = pc[p] /\ ds'[p] = ds[p]
  BY <1>0, <1>1, <1>2, AdvanceTyped, DisturbTyped DEF TypeOK
<1>4. DOMAIN users' = DOMAIN users \cup {h.email} /\ Grows /\ users'[h.email] = h.admin
  BY <1>2 DEF Grows
<1>5. ASSUME Undisturbed(p)' PROVE OnTheWay(p)'
  <2>1. PICK at \in STRING : /\ Has(p, at) /\ Covers(ds[p], s, at)
                             /\ others[p] = {} => LastWord(ds[p], s, at)
    BY <1>3, <1>5, OwnUndisturbed, <1>0
  <2>2. After(s, at) = at
    BY <1>3, <1>0 DEF After
  <2>3. Has(p, at)'
    BY <1>2, <2>1 DEF Has
  <2>4. \A g : RowStands(g) => RowStands(g)'
    BY <1>2 DEF RowStands, IdOf
  <2>5. \A e \in DOMAIN users : e # h.email => users'[e] = users[e]
    BY <1>2
  <2> QED BY <1>3, <1>4, <2>1, <2>2, <2>3, <2>4, <2>5, OwnOnTheWay, <1>0
<1> QED BY <1>1, <1>2, <1>4, <1>5, BesideWrite

\* So does upserting a tenant: a row that is there keeps its id.
LEMMA TenantOnTheWay ==
  ASSUME IInv, CompleteInv, NEW p \in Procs, UpsertTenant(p) PROVE CompleteInv'
<1>1. TypeOK
  BY DEF IInv
<1>0. PICK s, h : s = plan[p] /\ h = Head(s)
  OBVIOUS
<1> DEFINE old == {t \in tenants : t.slug = h.slug}
           new == [id |-> nextId, slug |-> h.slug, db |-> h.db]
<1>2. /\ Runs(p, "tenant") /\ Advance(p, Tail(plan[p])) /\ Disturb(p, "wrote")
      /\ \/ /\ tenants' = tenants \cup {new}
            /\ tenantID' = [tenantID EXCEPT ![p] = nextId]
         \/ /\ old # {}
            /\ tenantID' = [tenantID EXCEPT ![p] = (CHOOSE t \in old : TRUE).id]
            /\ tenants' = tenants
      /\ UNCHANGED <<users, members, pinned, pc, ds, exit, settled>>
  BY <1>0 DEF UpsertTenant
<1>3. /\ s \in Seq(Statement) /\ s # <<>> /\ plan'[p] = Tail(s) /\ h.op = "tenant"
      /\ others'[p] = others[p] /\ pc'[p] = pc[p] /\ ds'[p] = ds[p] /\ h \in Statement
  BY <1>0, <1>1, <1>2, AdvanceTyped, DisturbTyped DEF TypeOK
<1>4. h.slug \in STRING
  BY <1>3, Fields
<1>5. Grows
  BY <1>2 DEF Grows
<1>6. /\ tenantID \in [Procs -> 0..(nextId - 1)]
      /\ \A t \in tenants : t.id # nextId
      /\ \A q \in Procs : tenantID[q] # nextId
  BY <1>1 DEF TypeOK
<1>7. new.id = nextId /\ new.slug = h.slug
  OBVIOUS
<1> HIDE DEF new
<1>8. ASSUME NEW q \in Procs \ {p}
      PROVE  /\ tenantID'[q] = tenantID[q]
             /\ \A t \in tenants' : t.id = tenantID[q] => t \in tenants
  BY <1>2, <1>6, <1>7
<1>9. \E t \in tenants' : t.id = tenantID'[p] /\ t.slug = h.slug
  <2>1. CASE old # {} /\ tenantID' = [tenantID EXCEPT ![p] = (CHOOSE t \in old : TRUE).id]
             /\ tenants' = tenants
    <3>1. (CHOOSE t \in old : TRUE) \in old
      BY <2>1
    <3> QED BY <1>6, <2>1, <3>1
  <2>2. CASE tenants' = tenants \cup {new} /\ tenantID' = [tenantID EXCEPT ![p] = nextId]
    BY <1>6, <1>7, <2>2
  <2> QED BY <1>2, <2>1, <2>2
<1>10. ASSUME Undisturbed(p)' PROVE OnTheWay(p)'
  <2>1. PICK at \in STRING : /\ Covers(ds[p], s, at)
                             /\ others[p] = {} => LastWord(ds[p], s, at)
    BY <1>3, <1>10, OwnUndisturbed, <1>0
  <2>2. After(s, at) = h.slug
    BY <1>3, <1>0 DEF After
  <2>3. Has(p, h.slug)'
    BY <1>9 DEF Has
  <2>4. \A g : RowStands(g) => RowStands(g)'
    BY <1>2, <1>5, GrowsKeeps DEF RowStands
  <2>5. IdOf(h.slug)' # {}
    BY <1>9 DEF IdOf
  <2> QED BY <1>2, <1>3, <1>4, <1>5, <2>1, <2>2, <2>3, <2>4, <2>5, OwnOnTheWay, <1>0
<1> QED BY <1>1, <1>2, <1>5, <1>8, <1>10, BesideWrite

\* So does upserting a membership: the role is that of the last statement for
\* it, and another execution that changes it disturbs.
LEMMA MemberOnTheWay ==
  ASSUME IInv, CompleteInv, NEW p \in Procs, UpsertMembership(p) PROVE CompleteInv'
<1>1. TypeOK
  BY DEF IInv
<1>0. PICK s, h : s = plan[p] /\ h = Head(s)
  OBVIOUS
<1> DEFINE row == [user |-> h.email, tenant |-> tenantID[p], role |-> h.role]
<1>2. /\ Runs(p, "member") /\ Advance(p, Tail(plan[p])) /\ Disturb(p, "wrote")
      /\ tenantID[p] \in {t.id : t \in tenants}
      /\ members' = {m \in members : ~(m.user = row.user /\ m.tenant = row.tenant)} \cup {row}
      /\ UNCHANGED <<tenants, users, pinned, nextId, pc, ds, tenantID, exit, settled>>
  BY <1>0 DEF UpsertMembership
<1>3. /\ s \in Seq(Statement) /\ s # <<>> /\ plan'[p] = Tail(s) /\ h.op = "member"
      /\ others'[p] = others[p] /\ pc'[p] = pc[p] /\ ds'[p] = ds[p]
  BY <1>0, <1>1, <1>2, AdvanceTyped, DisturbTyped DEF TypeOK
<1>4. row.user = h.email /\ row.tenant = tenantID[p] /\ row.role = h.role
  OBVIOUS
<1> HIDE DEF row
<1>5. Grows
  <2>1. ASSUME NEW m \in members PROVE \E n \in members' : n.user = m.user /\ n.tenant = m.tenant
    BY <1>2
  <2> QED BY <1>2, <2>1 DEF Grows
<1>6. ASSUME Undisturbed(p)' PROVE OnTheWay(p)'
  <2>1. PICK at \in STRING : /\ Has(p, at) /\ Covers(ds[p], s, at)
                             /\ others[p] = {} => LastWord(ds[p], s, at)
    BY <1>3, <1>6, OwnUndisturbed, <1>0
  <2>2. After(s, at) = at
    BY <1>3, <1>0 DEF After
  <2>3. Has(p, at)'
    BY <1>2, <2>1 DEF Has
  <2>4. PICK own \in tenants : own.id = tenantID[p] /\ own.slug = at
    BY <1>2, <2>1 DEF Has
  <2>5. \A slug : IdOf(slug)' = IdOf(slug)
    BY <1>2 DEF IdOf
  <2>6. tenantID[p] \in IdOf(at) /\ \A slug : tenantID[p] \in IdOf(slug) => slug = at
    BY <1>1, <2>4 DEF IdOf, TypeOK
  <2>7. \A g : g.email = h.email /\ g.slug = at => Granted(g)'
    BY <1>2, <1>4, <2>5, <2>6 DEF Granted
  <2>8. \A g : g.email = h.email /\ g.slug = at /\ g.role = h.role => RowStands(g)'
    BY <1>2, <1>4, <2>5, <2>6 DEF RowStands
  <2>9. ASSUME NEW g, RowStands(g), ~(g.email = h.email /\ g.slug = at) PROVE RowStands(g)'
    <3>1. PICK m \in members : m.user = g.email /\ m.role = g.role /\ m.tenant \in IdOf(g.slug)
      BY <2>9 DEF RowStands
    <3>2. m \in members'
      BY <1>2, <1>4, <2>6, <2>9, <3>1
    <3> QED BY <2>5, <3>1, <3>2 DEF RowStands
  <2> QED BY <1>2, <1>3, <1>5, <2>1, <2>2, <2>3, <2>7, <2>8, <2>9, OwnOnTheWay, <1>0
<1> QED BY <1>1, <1>2, <1>5, <1>6, BesideWrite

\* Seeding the data of a tenant changes no row of the platform.
LEMMA DataOnTheWay ==
  ASSUME IInv, CompleteInv, NEW p \in Procs, SeedTenantData(p) PROVE CompleteInv'
<1>1. TypeOK
  BY DEF IInv
<1>0. PICK s : s = plan[p]
  OBVIOUS
<1>2. /\ Runs(p, "data") /\ Advance(p, Tail(plan[p]))
      /\ UNCHANGED <<tenants, users, members, pinned, nextId, pc, ds, tenantID, exit, others,
                     settled>>
  BY DEF SeedTenantData, dbVars
<1>3. /\ s \in Seq(Statement) /\ s # <<>> /\ plan'[p] = Tail(s) /\ Head(s).op = "data"
      /\ others'[p] = others[p] /\ pc'[p] = pc[p] /\ ds'[p] = ds[p]
      /\ \A q \in Procs \ {p} : plan'[q] = plan[q]
  BY <1>0, <1>1, <1>2, AdvanceTyped DEF TypeOK
<1>4. Grows
  BY <1>2 DEF Grows
<1>5. ASSUME Undisturbed(p)' PROVE OnTheWay(p)'
  <2>1. PICK at \in STRING : /\ Has(p, at) /\ Covers(ds[p], s, at)
                             /\ others[p] = {} => LastWord(ds[p], s, at)
    BY <1>3, <1>5, OwnUndisturbed, <1>0
  <2>2. After(s, at) = at
    BY <1>3 DEF After
  <2>3. Has(p, at)'
    BY <1>2, <2>1 DEF Has
  <2>4. \A g : RowStands(g) => RowStands(g)'
    BY <1>2 DEF RowStands, IdOf
  <2> QED BY <1>2, <1>3, <1>4, <2>1, <2>2, <2>3, <2>4, OwnOnTheWay, <1>0
<1>6. ASSUME NEW q \in Procs \ {p}, Undisturbed(q)' PROVE OnTheWay(q)'
  BY <1>2, <1>3, <1>4, <1>6, BesideOnTheWay DEF CompleteInv
<1> QED BY <1>2, <1>5, <1>6 DEF CompleteInv

\* What is left when a statement of no one's business is passed over.
LEMMA PassedOver ==
  ASSUME NEW d, NEW s \in Seq(Statement), s # <<>>, NEW at, Covers(d, s, at),
         Head(s).op \notin {"tenant", "user"},
         \A g \in SureGrants(d) : ~(Head(s).op = "member" /\ Head(s).email = g.email)
  PROVE  /\ Covers(d, Tail(s), at)
         /\ LastWord(d, s, at) => LastWord(d, Tail(s), at)
<1> DEFINE t == Tail(s)
           n == Len(t)
<1>1. n \in Nat /\ Len(s) = n + 1 /\ (\A k \in 1..n : t[k] = s[k + 1]) /\ Head(s) = s[1]
  BY TailOf
<1>2. \A i \in 1..Len(s) : i = 1 \/ (i - 1 \in 1..n /\ t[i - 1] = s[i])
  BY <1>1
<1>3. After(s, at) = at
  BY DEF After
<1>4. ASSUME NEW g \in SureGrants(d)
      PROVE  LET a == AboutMember(s, g.email, g.slug, at)
                 b == AboutMember(t, g.email, g.slug, at)
             IN  a \in SUBSET (1..(n + 1)) /\ b = {i \in 1..n : i + 1 \in a} /\ (b = {} => a = {})
  <2> DEFINE a == AboutMember(s, g.email, g.slug, at)
             b == AboutMember(t, g.email, g.slug, at)
  <2>1. b = {i \in 1..n : i + 1 \in a} /\ a \in SUBSET (1..(n + 1)) /\ 1 \notin a
    BY <1>3, MemberTail
  <2> HIDE DEF a, b, n
  <2>2. b = {} => a = {}
    BY <1>1, <2>1, ShiftEmpty
  <2> QED BY <2>1, <2>2 DEF a, b
<1>5. ASSUME NEW e
      PROVE  LET a == AboutUser(s, e)
                 b == AboutUser(t, e)
             IN  a \in SUBSET (1..(n + 1)) /\ b = {i \in 1..n : i + 1 \in a} /\ (b = {} => a = {})
  <2> DEFINE a == AboutUser(s, e)
             b == AboutUser(t, e)
  <2>1. b = {i \in 1..n : i + 1 \in a} /\ a \in SUBSET (1..(n + 1)) /\ 1 \notin a
    BY UserTail
  <2> HIDE DEF a, b, n
  <2>2. b = {} => a = {}
    BY <1>1, <2>1, ShiftEmpty
  <2> QED BY <2>1, <2>2 DEF a, b
<1>6. \A a, b, role : a \in SUBSET (1..(n + 1)) /\ b = {i \in 1..n : i + 1 \in a} =>
         /\ LastRole(s, a, role) => LastRole(t, b, role)
         /\ LastAdmin(s, a, role) => LastAdmin(t, b, role)
  BY <1>1, LastStays
<1> HIDE DEF n, t
<1>7. Covers(d, t, at)
  <2>1. ASSUME NEW slug \in TenantSlugs(d)
        PROVE  IdOf(slug) # {} \/ \E i \in 1..Len(t) : t[i].op = "tenant" /\ t[i].slug = slug
    <3>1. CASE \E i \in 1..Len(s) : s[i].op = "tenant" /\ s[i].slug = slug
      <4>1. PICK i \in 1..Len(s) : s[i].op = "tenant" /\ s[i].slug = slug
        BY <3>1
      <4> QED BY <1>1, <1>2, <4>1 DEF n
    <3> QED BY <3>1 DEF Covers
  <2>2. UsersFirst(t)
    <3>1. ASSUME NEW i \in 1..n, NEW j \in 1..n, i < j, t[i].op = "lookup"
          PROVE  t[j].op # "user"
      <4>1. i + 1 \in 1..Len(s) /\ j + 1 \in 1..Len(s) /\ i + 1 < j + 1
        BY <1>1, <3>1
      <4>2. t[i] = s[i + 1] /\ t[j] = s[j + 1]
        BY <1>1
      <4> QED BY <3>1, <4>1, <4>2 DEF Covers, UsersFirst
    <3> QED BY <3>1 DEF UsersFirst, n
  <2> QED BY <1>4, <1>5, <2>1, <2>2 DEF Covers
<1>8. ASSUME LastWord(d, s, at) PROVE LastWord(d, t, at)
  <2>1. ASSUME NEW g \in SureGrants(d), ~Overridden(d, g)
        PROVE  LET about == AboutMember(t, g.email, g.slug, at)
               IN  LastRole(t, about, g.role) /\ (about = {} => RowStands(g))
    BY <1>4, <1>6, <1>8, <2>1 DEF LastWord
  <2>2. ASSUME NEW i \in DOMAIN Usable(d.users), IsLast(Usable(d.users), i)
        PROVE  LET u == Usable(d.users)[i]
                   about == AboutUser(t, u.email)
               IN  LastAdmin(t, about, u.admin) /\ (about = {} => users[u.email] = u.admin)
    BY <1>5, <1>6, <1>8, <2>2 DEF LastWord
  <2> QED BY <2>1, <2>2 DEF LastWord
<1> QED BY <1>7, <1>8 DEF t

\* It does not matter when the rows are looked at, while they are the same.
LEMMA SameRows ==
  ASSUME NEW d, NEW s, NEW at, UNCHANGED dbVars
  PROVE  /\ Covers(d, s, at) => Covers(d, s, at)'
         /\ LastWord(d, s, at) => LastWord(d, s, at)'
<1>1. tenants' = tenants /\ users' = users /\ members' = members
  BY DEF dbVars
<1>2. \A slug : IdOf(slug)' = IdOf(slug)
  BY <1>1 DEF IdOf
<1>3. \A g : (Granted(g) => Granted(g)') /\ (RowStands(g) => RowStands(g)')
  BY <1>1, <1>2 DEF Granted, RowStands
<1> QED BY <1>1, <1>2, <1>3 DEF Covers, LastWord

\* So does the lookup of a user: the users come first, and those that are there
\* stay, so that no membership is skipped.
LEMMA LookupOnTheWay ==
  ASSUME IInv, CompleteInv, NEW p \in Procs, LookupUser(p) PROVE CompleteInv'
<1>1. TypeOK /\ Sound(p)
  BY DEF IInv
<1>0. PICK s, h : s = plan[p] /\ h = Head(s)
  OBVIOUS
<1>2. /\ pc[p] # "idle" /\ s # <<>> /\ h.op = "lookup" /\ s \in Seq(Statement)
      /\ \/ h.email \in DOMAIN users /\ Advance(p, Tail(s)) /\ UNCHANGED others
         \/ h.email \notin DOMAIN users /\ Advance(p, Tail(Tail(s))) /\ UNCHANGED others
         \/ Advance(p, Tail(Tail(s))) /\ others' = [others EXCEPT ![p] = @ \cup {"lost"}]
      /\ UNCHANGED dbVars /\ UNCHANGED <<pc, ds, tenantID>>
  BY <1>0, <1>1 DEF LookupUser, Runs, TypeOK
<1>3. Grows /\ tenants' = tenants /\ users' = users /\ members' = members
  BY <1>2 DEF Grows, dbVars
<1>4. ASSUME NEW q \in Procs \ {p}, Undisturbed(q)' PROVE OnTheWay(q)'
  <2>1. plan'[q] = plan[q] /\ others'[q] = others[q]
    BY <1>1, <1>2 DEF Advance, TypeOK
  <2> QED BY <1>2, <1>3, <1>4, <2>1, BesideOnTheWay DEF CompleteInv
<1>5. ASSUME Undisturbed(p)' PROVE OnTheWay(p)'
  <2>1. /\ others'[p] = others[p]
        /\ \/ Advance(p, Tail(s))
           \/ h.email \notin DOMAIN users /\ Advance(p, Tail(Tail(s)))
    <3>1. "lost" \notin others'[p]
      BY <1>5 DEF Undisturbed
    <3> QED BY <1>1, <1>2, <3>1 DEF TypeOK
  <2>2. PICK at \in STRING : /\ Has(p, at) /\ Covers(ds[p], s, at)
                             /\ others[p] = {} => LastWord(ds[p], s, at)
    BY <1>0, <1>2, <1>5, <2>1, OwnUndisturbed
  <2>3. Has(p, at)'
    BY <1>2, <1>3, <2>2 DEF Has
  <2>4. PICK d : d = ds[p]
    OBVIOUS
  <2>5. PICK t : t = Tail(s)
    OBVIOUS
  <2>6. /\ Covers(d, t, at)
        /\ others[p] = {} => LastWord(d, t, at)
    BY <1>0, <1>2, <2>2, <2>4, <2>5, PassedOver
  <2>7. CASE plan'[p] = t
    <3> QED BY <1>2, <2>1, <2>3, <2>4, <2>6, <2>7, SameRows DEF OnTheWay
  <2>8. CASE h.email \notin DOMAIN users /\ plan'[p] = Tail(t)
    <3>1. PICK at0 : Fits(WarrantOf(p), s, DOMAIN users, at0)
      BY <1>0, <1>1 DEF Sound, Planned
    <3>2. t # <<>> /\ t \in Seq(Statement)
      BY <1>0, <1>2, <2>5, <3>1, LookupAtHead, TailOf
    <3>3. Head(t).op = "member" /\ Head(t).email = h.email
      <4>1. s[1] = h /\ 1 \in 1..Len(s) /\ Len(s) \in Nat
        BY <1>0, <1>2, TailOf
      <4>2. 1 < Len(s) /\ s[2].op = "member"
        BY <1>2, <3>1, <4>1 DEF Fits, FitsTo
      <4>3. 2 \in 1..Len(s) /\ 2 - 1 = 1
        BY <4>1, <4>2
      <4>4. s[2].email = s[1].email
        BY <3>1, <4>2, <4>3 DEF Fits, FitsTo
      <4>5. Head(t) = s[2]
        <5>1. Head(t) = t[1] /\ 1 \in 1..Len(t)
          BY <3>2, TailOf
        <5>2. \A k \in 1..Len(t) : t[k] = s[k + 1]
          BY <1>2, <2>5, TailOf
        <5> QED BY <5>1, <5>2
      <4> QED BY <4>1, <4>2, <4>4, <4>5
    <3>4. ASSUME NEW g \in SureGrants(d) PROVE g.email # h.email
      <4>1. h.email \notin Seeded
        BY <2>8 DEF CompleteInv
      <4>2. h.email \notin Emails(d)
        <5> SUFFICES ASSUME h.email \in Emails(d) PROVE FALSE
          OBVIOUS
        <5>1. AboutUser(s, h.email) # {} /\ UsersFirst(s)
          BY <2>2, <2>4, <2>8 DEF Covers
        <5>2. PICK j \in 1..Len(s) : s[j].op = "user"
          BY <5>1 DEF AboutUser
        <5>3. s[1] = h /\ 1 \in 1..Len(s)
          BY <1>0, <1>2, TailOf
        <5>4. 1 < j
          BY <1>2, <5>2, <5>3
        <5> QED BY <1>2, <5>1, <5>2, <5>3, <5>4 DEF UsersFirst
      <4> QED BY <4>1, <4>2 DEF SureGrants
    <3>5. /\ Covers(d, Tail(t), at)
          /\ others[p] = {} => LastWord(d, Tail(t), at)
      BY <2>6, <3>2, <3>3, <3>4, PassedOver
    <3> QED BY <1>2, <2>1, <2>3, <2>4, <2>8, <3>5, SameRows DEF OnTheWay
  <2>9. plan'[p] = t \/ (h.email \notin DOMAIN users /\ plan'[p] = Tail(t))
    BY <1>1, <2>1, <2>5 DEF Advance, TypeOK
  <2> QED BY <2>7, <2>8, <2>9
<1> QED BY <1>3, <1>4, <1>5 DEF CompleteInv

\* Rows stay as they are beside a step that only has to do with one execution.
LEMMA ElsewhereOnTheWay ==
  ASSUME CompleteInv, NEW q \in Procs, UNCHANGED dbVars, plan'[q] = plan[q], pc'[q] = pc[q],
         tenantID'[q] = tenantID[q], ds'[q] = ds[q], others'[q] = others[q], Undisturbed(q)'
  PROVE  OnTheWay(q)'
<1>1. Grows /\ tenants' = tenants /\ users' = users /\ members' = members
  BY DEF Grows, dbVars
<1> QED BY <1>1, BesideOnTheWay DEF CompleteInv

\* Deleting a tenant disturbs all other executions, and a load deletes none.
LEMMA DeleteOnTheWay ==
  ASSUME IInv, CompleteInv, NEW p \in Procs, DeleteTenant(p) PROVE CompleteInv'
<1>1. TypeOK /\ Sound(p)
  BY DEF IInv
<1>2. /\ Runs(p, "delete") /\ Advance(p, Tail(plan[p])) /\ Disturb(p, "deleted")
      /\ UNCHANGED <<users, pc, ds, exit, settled>>
  BY DEF DeleteTenant
<1>3. pc[p] # "load"
  <2> SUFFICES ASSUME pc[p] = "load" PROVE FALSE
    OBVIOUS
  <2>1. PICK at \in STRING : Fits(WarrantOf(p), plan[p], DOMAIN users, at)
    BY <1>1 DEF Sound, Planned
  <2>2. plan[p] # <<>> /\ Head(plan[p]).op = "delete" /\ plan[p] \in Seq(Statement)
    BY <1>1, <1>2 DEF Runs, TypeOK
  <2>3. Warranted(WarrantOf(p), Head(plan[p]))
    BY <2>1, <2>2, HeadWarranted
  <2>4. WarrantOf(p).deletes = {}
    BY DEF WarrantOf, LoadWarrant
  <2> QED BY <2>2, <2>3, <2>4 DEF Warranted
<1>4. ASSUME NEW q \in Procs PROVE ~Undisturbed(q)'
  <2>1. q # p /\ pc[q] # "idle" => "deleted" \in others'[q]
    BY <1>1, <1>2, DisturbTyped
  <2> QED BY <1>2, <1>3, <2>1 DEF Undisturbed
<1> QED BY <1>2, <1>4 DEF CompleteInv

\* An execution that ends is not on its way any more, and changes no row.
LEMMA QuitOnTheWay ==
  ASSUME IInv, CompleteInv, NEW p \in Procs, NEW status, Quit(p, status) PROVE CompleteInv'
<1>1. TypeOK
  BY DEF IInv
<1>2. /\ UNCHANGED <<dbVars, ds, tenantID, others>> /\ pc'[p] = "idle"
      /\ \A q \in Procs \ {p} : pc'[q] = pc[q] /\ plan'[q] = plan[q]
  BY <1>1 DEF Quit, TypeOK
<1>3. ASSUME NEW q \in Procs, Undisturbed(q)' PROVE OnTheWay(q)'
  <2>1. q # p
    BY <1>2, <1>3 DEF Undisturbed
  <2> QED BY <1>2, <1>3, <2>1, ElsewhereOnTheWay
<1> QED BY <1>2, <1>3 DEF CompleteInv, dbVars

\* A step that changes none of it.
LEMMA RestOnTheWay ==
  ASSUME CompleteInv, UNCHANGED <<tenants, users, members, pc, ds, plan, tenantID, others>>
  PROVE  CompleteInv'
<1>1. Grows
  BY DEF Grows
<1>2. ASSUME NEW q \in Procs, Undisturbed(q)' PROVE OnTheWay(q)'
  BY <1>1, <1>2, BesideOnTheWay DEF CompleteInv
<1> QED BY <1>2 DEF CompleteInv

\* Starting an execution with a plan that has all in it.
LEMMA StartOnTheWay ==
  ASSUME IInv, CompleteInv, NEW p \in Procs, NEW d \in Datasets, NEW action \in {"load", "unload"},
         NEW unread \in SUBSET {"tenants", "users"}, Start(p, d, action, unread),
         Covers(d, load(d, {}), NoSlug), LastWord(d, load(d, {}), NoSlug)
  PROVE  CompleteInv'
<1>1. TypeOK
  BY DEF IInv
<1>2. PICK new : new = IF action = "load" THEN load(d, unread) ELSE unload(d, unread)
  OBVIOUS
<1>3. /\ plan' = [plan EXCEPT ![p] = new] /\ pc' = [pc EXCEPT ![p] = action]
      /\ ds' = [ds EXCEPT ![p] = d] /\ tenantID' = [tenantID EXCEPT ![p] = 0]
      /\ others' = [others EXCEPT ![p] = IF unread = {} THEN {} ELSE {"lost"}]
      /\ UNCHANGED dbVars
  BY <1>2 DEF Start
<1>4. ASSUME NEW q \in Procs \ {p}, Undisturbed(q)' PROVE OnTheWay(q)'
  <2>1. /\ plan'[q] = plan[q] /\ pc'[q] = pc[q] /\ ds'[q] = ds[q]
        /\ tenantID'[q] = tenantID[q] /\ others'[q] = others[q]
    BY <1>1, <1>3 DEF TypeOK
  <2> QED BY <1>3, <1>4, <2>1, ElsewhereOnTheWay
<1>5. ASSUME Undisturbed(p)' PROVE OnTheWay(p)'
  <2>1. /\ plan'[p] = new /\ pc'[p] = action /\ ds'[p] = d /\ tenantID'[p] = 0
        /\ others'[p] = IF unread = {} THEN {} ELSE {"lost"}
    BY <1>1, <1>3 DEF TypeOK
  <2>2. unread = {} /\ action = "load"
    BY <1>5, <2>1 DEF Undisturbed
  <2>3. plan'[p] = load(d, {})
    BY <1>2, <2>1, <2>2
  <2>4. \A t \in tenants' : t.id # 0
    BY <1>1, <1>3 DEF TypeOK, dbVars
  <2>5. Has(p, NoSlug)'
    BY <2>1, <2>4 DEF Has
  <2>6. PICK s : s = load(d, {})
    OBVIOUS
  <2>7. Covers(d, s, NoSlug)' /\ LastWord(d, s, NoSlug)'
    BY <1>3, <2>6, SameRows
  <2> QED BY <2>1, <2>3, <2>5, <2>6, <2>7, SeedLoadAssumption DEF OnTheWay
<1> QED BY <1>3, <1>4, <1>5 DEF CompleteInv, dbVars

-----------------------------------------------------------------------------
(* What a plan has in it when it is made. *)

\* f is the concatenation of n pieces, piece by piece.
Piecewise(f, X, n, ss) ==
    /\ ss \in [1..n -> Seq(X)] /\ f \in [0..n -> Seq(X)]
    /\ f[0] = <<>> /\ f[n] = FlattenSeq(ss)
    /\ \A k \in 1..n : f[k] = f[k - 1] \o ss[k]

\* Every concatenation of pieces is made piece by piece.
LEMMA FlattenSteps ==
  ASSUME NEW X, NEW n \in Nat, NEW ss \in [1..n -> Seq(X)]
  PROVE  \E f : Piecewise(f, X, n, ss)
<1>0. Len(ss) = n /\ (n = 0 => ss = <<>>)
  <2>1. ss \in Seq(Seq(X))
    OBVIOUS
  <2> QED BY <2>1
<1> DEFINE c == CHOOSE g : g = [i \in 1..Len(ss) |-> IF i = 1 THEN ss[i] ELSE g[i - 1] \o ss[i]]
<1>2. c = [i \in 1..n |-> IF i = 1 THEN ss[i] ELSE c[i - 1] \o ss[i]]
  BY <1>0, FlattenExists
<1>3. FlattenSeq(ss) = IF n = 0 THEN <<>> ELSE c[n]
  BY <1>0 DEF FlattenSeq
<1> HIDE DEF c
<1> DEFINE f == [k \in 0..n |-> IF k = 0 THEN <<>> ELSE c[k]]
<1>4. ASSUME NEW k \in 1..n PROVE f[k] = f[k - 1] \o ss[k]
  <2>1. c[k] = IF k = 1 THEN ss[k] ELSE c[k - 1] \o ss[k]
    BY <1>2
  <2>2. ss[k] \in Seq(X)
    OBVIOUS
  <2>3. CASE k = 1
    <3>1. f[k] = ss[k] /\ f[k - 1] = <<>>
      BY <2>1, <2>3
    <3>2. <<>> \o ss[k] = ss[k]
      BY <2>2, ConcatEmptySeq, Zenon
    <3> QED BY <3>1, <3>2
  <2>4. CASE k # 1
    <3>1. f[k] = c[k] /\ k - 1 \in 1..n
      BY <2>4
    <3>2. f[k - 1] = c[k - 1]
      BY <2>4, <3>1
    <3> QED BY <2>1, <2>4, <3>1, <3>2
  <2> QED BY <2>3, <2>4
<1>5. f[0] = <<>> /\ f[n] = FlattenSeq(ss) /\ f = [k \in 0..n |-> f[k]]
  BY <1>3
<1> HIDE DEF f
<1> DEFINE S == {k \in Nat : k \in 0..n => f[k] \in Seq(X)}
<1>6. 0 \in S
  BY <1>5
<1>7. ASSUME NEW k \in Nat, k \in S PROVE k + 1 \in S
  <2> SUFFICES ASSUME k + 1 \in 0..n PROVE f[k + 1] \in Seq(X)
    OBVIOUS
  <2>1. k + 1 \in 1..n /\ (k + 1) - 1 = k /\ k \in 0..n
    OBVIOUS
  <2>2. f[k + 1] = f[k] \o ss[k + 1]
    BY <1>4, <2>1
  <2>3. f[k] \in Seq(X) /\ ss[k + 1] \in Seq(X)
    BY <1>7, <2>1
  <2>4. f[k] \o ss[k + 1] \in Seq(X)
    BY <2>3
  <2> QED BY <2>2, <2>4
<1> HIDE DEF S
<1>8. Nat \subseteq S
  BY <1>6, <1>7, SetInduction
<1>9. \A k \in 0..n : f[k] \in Seq(X)
  BY <1>8 DEF S
<1>11. f \in [0..n -> Seq(X)]
  BY <1>5, <1>9
<1>10. Piecewise(f, X, n, ss)
  BY <1>4, <1>5, <1>11 DEF Piecewise
<1> QED BY <1>10

\* c is a and then b.
Joined(a, b, c) ==
    /\ Len(a) \in Nat /\ Len(b) \in Nat /\ Len(c) = Len(a) + Len(b)
    /\ \A k \in 1..Len(a) : c[k] = a[k]
    /\ \A k \in 1..Len(b) : c[Len(a) + k] = b[k]

\* \o is this.
LEMMA ConcatJoins ==
  ASSUME NEW X, NEW a \in Seq(X), NEW b \in Seq(X)
  PROVE  a \o b \in Seq(X) /\ Joined(a, b, a \o b)
BY DEF Joined

\* The next piece.
LEMMA NextPiece ==
  ASSUME NEW X, NEW n \in Nat, NEW ss \in [1..n -> Seq(X)], NEW f, Piecewise(f, X, n, ss),
         NEW m \in Nat, m + 1 \in 0..n
  PROVE  m \in 0..n /\ m + 1 \in 1..n /\ Joined(f[m], ss[m + 1], f[m + 1])
<1>1. m \in 0..n /\ m + 1 \in 1..n /\ (m + 1) - 1 = m
  OBVIOUS
<1>2. f[m] \in Seq(X) /\ ss[m + 1] \in Seq(X) /\ f[m + 1] = f[m] \o ss[m + 1]
  BY <1>1 DEF Piecewise
<1> QED BY <1>1, <1>2, ConcatJoins

\* Every element of a piece is in the concatenation.
LEMMA FlattenHas ==
  ASSUME NEW X, NEW n \in Nat, NEW ss, NEW f, Piecewise(f, X, n, ss),
         NEW i \in 1..n, NEW j \in 1..Len(ss[i])
  PROVE  Contains(f[n], ss[i][j])
<1>1. ss \in [1..n -> Seq(X)]
  BY DEF Piecewise
<1> DEFINE Has2(m) == \E k \in 1..Len(f[m]) : f[m][k] = ss[i][j]
           S == {m \in Nat : m \in i..n => Has2(m)}
<1>2. 0 \in S
  OBVIOUS
<1>3. ASSUME NEW m \in Nat, m \in S PROVE m + 1 \in S
  <2> SUFFICES ASSUME m + 1 \in i..n PROVE Has2(m + 1)
    OBVIOUS
  <2>1. m + 1 \in 0..n
    OBVIOUS
  <2>0. Joined(f[m], ss[m + 1], f[m + 1])
    BY <1>1, <2>1, NextPiece
  <2>2. PICK a, b, c : a = f[m] /\ b = ss[m + 1] /\ c = f[m + 1]
    OBVIOUS
  <2>3. Joined(a, b, c)
    BY <2>0, <2>2
  <2>4. \A k : (k \in 1..Len(a) => k \in 1..Len(c) /\ c[k] = a[k]) /\
               (k \in 1..Len(b) => Len(a) + k \in 1..Len(c) /\ c[Len(a) + k] = b[k])
    BY ONLY <2>3 DEF Joined
  <2>5. CASE m + 1 = i
    BY <2>2, <2>4, <2>5
  <2>6. CASE m + 1 # i
    <3>1. m \in i..n
      BY <2>6
    <3>2. PICK k \in 1..Len(a) : a[k] = ss[i][j]
      BY <1>3, <2>2, <3>1
    <3> QED BY <2>2, <2>4, <3>2
  <2> QED BY <2>5, <2>6
<1> HIDE DEF S
<1>4. n \in S
  BY <1>2, <1>3, SetInduction
<1> QED BY <1>4 DEF S, Contains

\* One statement for each.
LEMMA FlattenSingles ==
  ASSUME NEW X, NEW n \in Nat, NEW ss \in [1..n -> Seq(X)], \A k \in 1..n : Len(ss[k]) = 1
  PROVE  /\ FlattenSeq(ss) \in Seq(X) /\ Len(FlattenSeq(ss)) = n
         /\ \A i \in 1..n : FlattenSeq(ss)[i] = ss[i][1]
<1>1. PICK f : Piecewise(f, X, n, ss)
  BY FlattenSteps
<1> DEFINE Is(m) == Len(f[m]) = m /\ \A i \in 1..m : f[m][i] = ss[i][1]
           S == {m \in Nat : m \in 0..n => Is(m)}
<1>2. 0 \in S
  BY <1>1 DEF Piecewise
<1>3. ASSUME NEW m \in Nat, m \in S PROVE m + 1 \in S
  <2> SUFFICES ASSUME m + 1 \in 0..n PROVE Is(m + 1)
    OBVIOUS
  <2>0. m + 1 \in 0..n
    OBVIOUS
  <2>1. m \in 0..n /\ m + 1 \in 1..n /\ Joined(f[m], ss[m + 1], f[m + 1])
    BY <1>1, <2>0, NextPiece
  <2>2. PICK a, b, c : a = f[m] /\ b = ss[m + 1] /\ c = f[m + 1]
    OBVIOUS
  <2>3. /\ Joined(a, b, c) /\ Len(a) = m /\ Len(b) = 1 /\ b[1] = ss[m + 1][1]
        /\ \A i \in 1..m : a[i] = ss[i][1]
    BY <1>3, <2>1, <2>2
  <2>4. Len(c) = m + 1 /\ c[m + 1] = b[1] /\ \A k \in 1..m : c[k] = a[k]
    BY ONLY <2>3, m \in Nat DEF Joined
  <2>5. \A k \in 1..(m + 1) : k \in 1..m \/ k = m + 1
    OBVIOUS
  <2>6. Len(c) = m + 1 /\ \A i \in 1..(m + 1) : c[i] = ss[i][1]
    BY <2>3, <2>4, <2>5
  <2> QED BY <2>2, <2>6
<1> HIDE DEF S
<1>4. n \in S
  BY <1>2, <1>3, SetInduction
<1>5. Is(n)
  BY <1>4 DEF S
<1> QED BY <1>1, <1>5 DEF Piecewise

\* Two statements for each.
LEMMA FlattenPairs ==
  ASSUME NEW X, NEW n \in Nat, NEW ss \in [1..n -> Seq(X)], \A k \in 1..n : Len(ss[k]) = 2
  PROVE  /\ FlattenSeq(ss) \in Seq(X) /\ Len(FlattenSeq(ss)) = 2 * n
         /\ \A i \in 1..n : /\ FlattenSeq(ss)[2 * i - 1] = ss[i][1]
                            /\ FlattenSeq(ss)[2 * i] = ss[i][2]
<1>1. PICK f : Piecewise(f, X, n, ss)
  BY FlattenSteps
<1> DEFINE Is(m) == /\ Len(f[m]) = 2 * m
                    /\ \A i \in 1..m : f[m][2 * i - 1] = ss[i][1] /\ f[m][2 * i] = ss[i][2]
           S == {m \in Nat : m \in 0..n => Is(m)}
<1>2. 0 \in S
  BY <1>1 DEF Piecewise
<1>3. ASSUME NEW m \in Nat, m \in S PROVE m + 1 \in S
  <2> SUFFICES ASSUME m + 1 \in 0..n PROVE Is(m + 1)
    OBVIOUS
  <2>0. m + 1 \in 0..n
    OBVIOUS
  <2>1. m \in 0..n /\ m + 1 \in 1..n /\ Joined(f[m], ss[m + 1], f[m + 1])
    BY <1>1, <2>0, NextPiece
  <2>2. PICK a, b, c : a = f[m] /\ b = ss[m + 1] /\ c = f[m + 1]
    OBVIOUS
  <2>3. /\ Joined(a, b, c) /\ Len(a) = 2 * m /\ Len(b) = 2
        /\ b[1] = ss[m + 1][1] /\ b[2] = ss[m + 1][2]
        /\ \A i \in 1..m : a[2 * i - 1] = ss[i][1] /\ a[2 * i] = ss[i][2]
    BY <1>3, <2>1, <2>2
  <2>4. /\ Len(c) = 2 * (m + 1) /\ c[2 * (m + 1) - 1] = b[1] /\ c[2 * (m + 1)] = b[2]
        /\ \A k \in 1..2 * m : c[k] = a[k]
    <3>1. /\ Len(c) = 2 * m + 2 /\ c[2 * m + 1] = b[1] /\ c[2 * m + 2] = b[2]
          /\ \A k \in 1..2 * m : c[k] = a[k]
      BY ONLY <2>3, m \in Nat DEF Joined
    <3>2. 2 * (m + 1) = 2 * m + 2 /\ 2 * (m + 1) - 1 = 2 * m + 1
      OBVIOUS
    <3> QED BY <3>1, <3>2
  <2>5. ASSUME NEW i \in 1..(m + 1)
        PROVE  c[2 * i - 1] = ss[i][1] /\ c[2 * i] = ss[i][2]
    <3>1. CASE i = m + 1
      BY <2>3, <2>4, <3>1
    <3>2. CASE i # m + 1
      <4>1. i \in 1..m /\ 2 * i - 1 \in 1..2 * m /\ 2 * i \in 1..2 * m
        BY <3>2
      <4> QED BY <2>3, <2>4, <4>1
    <3> QED BY <3>1, <3>2
  <2> QED BY <2>2, <2>4, <2>5
<1> HIDE DEF S
<1>4. n \in S
  BY <1>2, <1>3, SetInduction
<1>5. Is(n)
  BY <1>4 DEF S
<1> QED BY <1>1, <1>5 DEF Piecewise

\* The grants of which s has the memberships, in their order, each under its
\* tenant: those of L that are for a tenant with a name.
Named(L) == {j \in 1..Len(L) : L[j].slug # NoSlug}
MirroredBy(f, s, L) ==
    /\ f \in [Named(L) -> 1..Len(s)]
    /\ \A j, k \in Named(L) : j < k => f[j] < f[k]
    /\ \A i \in 1..Len(s) : s[i].op = "member" => \E j \in Named(L) : i = f[j]
    /\ \A j \in Named(L) :
          /\ s[f[j]].op = "member" /\ s[f[j]].email = L[j].email /\ s[f[j]].role = L[j].role
          /\ Context(s, f[j], L[j].slug, NoSlug)
Mirror(s, L) == \E f : MirroredBy(f, s, L)

\* The tenant of a statement does not depend on what comes after.
LEMMA ContextPrefix ==
  ASSUME NEW a, NEW s, NEW la \in Nat, \A k \in 1..la : s[k] = a[k],
         NEW i \in 1..la, NEW slug, NEW at, Context(a, i, slug, at)
  PROVE  Context(s, i, slug, at)
<1>1. \A k \in 1..i : s[k] = a[k]
  OBVIOUS
<1>2. \A j \in 1..(i - 1) : j \in 1..i /\ \A k \in (j + 1)..i : k \in 1..i
  OBVIOUS
<1> QED BY <1>1, <1>2 DEF Context

\* A statement is under one tenant.
LEMMA ContextUnique ==
  ASSUME NEW s, NEW i \in Nat, NEW at, NEW x, NEW y, Context(s, i, x, at), Context(s, i, y, at)
  PROVE  x = y
<1> DEFINE IsAt(j, slug) == /\ s[j].op = "tenant" /\ s[j].slug = slug
                            /\ \A k \in (j + 1)..i : s[k].op # "tenant"
<1>1. CASE \E j \in 1..(i - 1) : IsAt(j, x)
  <2>1. PICK j \in 1..(i - 1) : IsAt(j, x)
    BY <1>1
  <2>2. j \in 1..i
    OBVIOUS
  <2>3. PICK k \in 1..(i - 1) : IsAt(k, y)
    BY <2>1, <2>2 DEF Context
  <2>4. ~ j < k /\ ~ k < j
    <3>1. j < k => k \in (j + 1)..i
      OBVIOUS
    <3>2. k < j => j \in (k + 1)..i
      OBVIOUS
    <3> QED BY <2>1, <2>3, <3>1, <3>2
  <2>5. j = k
    BY <2>4
  <2> QED BY <2>1, <2>3, <2>5
<1>2. CASE x = at /\ \A k \in 1..i : s[k].op # "tenant"
  <2>1. \A j \in 1..(i - 1) : j \in 1..i
    OBVIOUS
  <2> QED BY <1>2, <2>1 DEF Context
<1> QED BY <1>1, <1>2 DEF Context

\* What mirrors two lists piece by piece mirrors the two together.
LEMMA MirrorConcat ==
  ASSUME NEW a, NEW b, NEW s, NEW K, NEW L, NEW M, Joined(a, b, s), Joined(K, L, M),
         Mirror(a, K), Mirror(b, L)
  PROVE  Mirror(s, M)
<1>1. PICK f, g : MirroredBy(f, a, K) /\ MirroredBy(g, b, L)
  BY DEF Mirror
<1>2. PICK la \in Nat, lb \in Nat, lk \in Nat, ll \in Nat :
         /\ la = Len(a) /\ lb = Len(b) /\ lk = Len(K) /\ ll = Len(L)
         /\ Len(s) = la + lb /\ Len(M) = lk + ll
  BY DEF Joined
<1>3. /\ \A k \in 1..la : s[k] = a[k]
      /\ \A k \in 1..lb : s[la + k] = b[k]
      /\ \A k \in 1..lk : M[k] = K[k]
      /\ \A k \in 1..ll : M[lk + k] = L[k]
  BY <1>2 DEF Joined
<1>4. /\ Named(K) = {j \in 1..lk : K[j].slug # NoSlug}
      /\ Named(L) = {j \in 1..ll : L[j].slug # NoSlug}
      /\ Named(M) = {j \in 1..(lk + ll) : M[j].slug # NoSlug}
  BY <1>2 DEF Named
<1>5. ASSUME NEW j \in Named(M)
      PROVE  /\ j <= lk => j \in Named(K) /\ M[j] = K[j]
             /\ ~ j <= lk => j - lk \in Named(L) /\ M[j] = L[j - lk]
  <2>1. j \in 1..(lk + ll) /\ M[j].slug # NoSlug
    BY <1>4
  <2>2. CASE j <= lk
    <3>1. j \in 1..lk
      BY <2>1, <2>2
    <3> QED BY <1>3, <1>4, <2>1, <2>2, <3>1
  <2>3. CASE ~ j <= lk
    <3>1. j - lk \in 1..ll /\ lk + (j - lk) = j
      BY <2>1, <2>3
    <3>2. M[j] = L[j - lk]
      BY <1>3, <3>1
    <3> QED BY <1>4, <2>1, <2>3, <3>1, <3>2
  <2> QED BY <2>1, <2>2, <2>3
<1>6. /\ \A j \in Named(K) : j \in Named(M) /\ j <= lk /\ j \in Nat
      /\ \A j \in Named(L) : lk + j \in Named(M) /\ ~ lk + j <= lk /\ (lk + j) - lk = j
      /\ \A j \in Named(M) : j \in Nat
  <2>1. ASSUME NEW j \in Named(K) PROVE j \in Named(M) /\ j <= lk
    <3>1. j \in 1..lk /\ K[j].slug # NoSlug
      BY <1>4
    <3>2. j \in 1..(lk + ll) /\ M[j] = K[j] /\ j <= lk
      BY <1>3, <3>1
    <3> QED BY <1>4, <3>1, <3>2
  <2>2. ASSUME NEW j \in Named(L) PROVE lk + j \in Named(M) /\ ~ lk + j <= lk /\ (lk + j) - lk = j
    <3>1. j \in 1..ll /\ L[j].slug # NoSlug
      BY <1>4
    <3>2. lk + j \in 1..(lk + ll) /\ M[lk + j] = L[j] /\ ~ lk + j <= lk /\ (lk + j) - lk = j
      BY <1>3, <3>1
    <3> QED BY <1>4, <3>1, <3>2
  <2> QED BY <1>4, <2>1, <2>2
<1>7. /\ f \in [Named(K) -> 1..la] /\ g \in [Named(L) -> 1..lb]
      /\ \A i, j \in Named(K) : i < j => f[i] < f[j]
      /\ \A i, j \in Named(L) : i < j => g[i] < g[j]
  BY <1>1, <1>2 DEF MirroredBy
<1> DEFINE h == [j \in Named(M) |-> IF j <= lk THEN f[j] ELSE la + g[j - lk]]
<1>8. \A j \in Named(M) : h[j] = IF j <= lk THEN f[j] ELSE la + g[j - lk]
  OBVIOUS
<1>9. h \in [Named(M) -> 1..Len(s)]
  <2>1. ASSUME NEW j \in Named(M) PROVE h[j] \in 1..(la + lb)
    <3> HIDE DEF h
    <3>1. CASE j <= lk
      <4>1. h[j] = f[j] /\ f[j] \in 1..la
        BY <1>5, <1>7, <1>8, <3>1
      <4> QED BY <4>1
    <3>2. CASE ~ j <= lk
      <4>1. h[j] = la + g[j - lk] /\ g[j - lk] \in 1..lb
        BY <1>5, <1>7, <1>8, <3>2
      <4> QED BY <4>1
    <3> QED BY <3>1, <3>2
  <2> QED BY <1>2, <2>1
<1> HIDE DEF h
<1>10. ASSUME NEW i \in Named(M), NEW j \in Named(M), i < j PROVE h[i] < h[j]
  <2>1. CASE j <= lk
    <3>1. i <= lk
      BY <1>6, <1>10, <2>1
    <3>2. h[i] = f[i] /\ h[j] = f[j] /\ i \in Named(K) /\ j \in Named(K)
      BY <1>5, <1>8, <2>1, <3>1
    <3> QED BY <1>7, <1>10, <3>2
  <2>2. CASE ~ j <= lk /\ i <= lk
    <3>1. h[i] = f[i] /\ f[i] \in 1..la /\ h[j] = la + g[j - lk] /\ g[j - lk] \in 1..lb
      BY <1>5, <1>7, <1>8, <2>2
    <3> QED BY <3>1
  <2>3. CASE ~ j <= lk /\ ~ i <= lk
    <3>1. /\ h[i] = la + g[i - lk] /\ h[j] = la + g[j - lk]
          /\ i - lk \in Named(L) /\ j - lk \in Named(L)
      BY <1>5, <1>8, <2>3
    <3>2. i - lk < j - lk
      BY <1>6, <1>10
    <3>3. g[i - lk] < g[j - lk] /\ g[i - lk] \in 1..lb /\ g[j - lk] \in 1..lb
      BY <1>7, <3>1, <3>2
    <3> QED BY <3>1, <3>3
  <2> QED BY <2>1, <2>2, <2>3
<1>11. ASSUME NEW i \in 1..Len(s), s[i].op = "member" PROVE \E j \in Named(M) : i = h[j]
  <2>1. CASE i <= la
    <3>1. i \in 1..la /\ a[i].op = "member"
      BY <1>2, <1>3, <1>11, <2>1
    <3>2. PICK j \in Named(K) : i = f[j]
      BY <1>1, <1>2, <3>1 DEF MirroredBy
    <3> QED BY <1>6, <1>8, <3>2
  <2>2. CASE i > la
    <3>1. i - la \in 1..lb /\ la + (i - la) = i
      BY <1>2, <2>2
    <3>2. b[i - la].op = "member"
      BY <1>3, <1>11, <3>1
    <3>3. PICK j \in Named(L) : i - la = g[j]
      BY <1>1, <1>2, <3>1, <3>2 DEF MirroredBy
    <3>4. h[lk + j] = la + g[j]
      BY <1>6, <1>8
    <3> QED BY <1>6, <3>1, <3>3, <3>4
  <2> QED BY <1>2, <2>1, <2>2
<1>12. ASSUME NEW j \in Named(M)
       PROVE  /\ s[h[j]].op = "member" /\ s[h[j]].email = M[j].email
              /\ s[h[j]].role = M[j].role /\ Context(s, h[j], M[j].slug, NoSlug)
  <2>1. CASE j <= lk
    <3>1. h[j] = f[j] /\ j \in Named(K) /\ M[j] = K[j] /\ f[j] \in 1..la
      BY <1>5, <1>7, <1>8, <2>1
    <3>2. /\ a[f[j]].op = "member" /\ a[f[j]].email = K[j].email /\ a[f[j]].role = K[j].role
          /\ Context(a, f[j], K[j].slug, NoSlug)
      BY <1>1, <3>1 DEF MirroredBy
    <3>3. Context(s, f[j], K[j].slug, NoSlug)
      BY <1>3, <3>1, <3>2, ContextPrefix
    <3> QED BY <1>3, <3>1, <3>2, <3>3
  <2>2. CASE ~ j <= lk
    <3>1. h[j] = la + g[j - lk] /\ j - lk \in Named(L) /\ M[j] = L[j - lk] /\ g[j - lk] \in 1..lb
      BY <1>5, <1>7, <1>8, <2>2
    <3>2. PICK k, m : k = j - lk /\ m = g[j - lk]
      OBVIOUS
    <3>3. /\ b[m].op = "member" /\ b[m].email = L[k].email /\ b[m].role = L[k].role
          /\ Context(b, m, L[k].slug, NoSlug) /\ L[k].slug # NoSlug /\ m \in 1..lb
      BY <1>1, <1>4, <3>1, <3>2 DEF MirroredBy
    <3>4. Context(s, la + m, L[k].slug, NoSlug)
      BY <1>3, <3>3, ContextShift
    <3> QED BY <1>3, <3>1, <3>2, <3>3, <3>4
  <2> QED BY <2>1, <2>2
<1>13. MirroredBy(h, s, M)
  BY <1>9, <1>10, <1>11, <1>12 DEF MirroredBy
<1> QED BY <1>13 DEF Mirror

\* Statements that are not about memberships, and grants to nobody.
LEMMA MirrorNothing ==
  ASSUME NEW s, NEW L, Named(L) = {}, \A i \in 1..Len(s) : s[i].op # "member"
  PROVE  Mirror(s, L)
<1> DEFINE f == [j \in {} |-> 1]
<1>1. MirroredBy(f, s, L)
  BY DEF MirroredBy
<1> QED BY <1>1 DEF Mirror

\* The positions in a list of n pairs.
LEMMA OddOrEven ==
  ASSUME NEW n \in Nat, NEW k \in 1..2 * n
  PROVE  \E i \in 1..n : k = 2 * i - 1 \/ k = 2 * i
<1> DEFINE i == (k + 1) \div 2
<1>1. i \in Int /\ (k + 1 = 2 * i \/ k + 1 = 2 * i + 1)
  OBVIOUS
<1> HIDE DEF i
<1>2. i \in 1..n /\ (k = 2 * i - 1 \/ k = 2 * i)
  BY <1>1
<1> QED BY <1>2

\* The plan of a tenant with its memberships.
LEMMA TenantMirror ==
  ASSUME NEW slug \in STRING \ {NoSlug}, NEW db \in STRING,
         NEW c \in Seq(Statement), NEW L, Len(L) \in Nat, Len(c) = 2 * Len(L),
         \A i \in 1..Len(L) :
            /\ c[2 * i - 1].op \in {"user", "lookup"} /\ c[2 * i].op = "member"
            /\ c[2 * i].email = L[i].email /\ c[2 * i].role = L[i].role
            /\ L[i].slug = slug
  PROVE  Mirror(<<TenantStmt(slug, db)>> \o c, L)
<1>0. PICK h, s : h = TenantStmt(slug, db) /\ s = <<h>> \o c
  OBVIOUS
<1>14. PICK n \in Nat : n = Len(L)
  OBVIOUS
<1>1. h \in Statement /\ h.op = "tenant" /\ h.slug = slug
  BY <1>0 DEF TenantStmt, Statement
<1>2. <<h>> \in Seq(Statement) /\ Len(<<h>>) = 1 /\ <<h>>[1] = h
  BY <1>1
<1>3. /\ Len(s) = 1 + 2 * n /\ s[1] = h
      /\ \A k \in 1..2 * n : s[1 + k] = c[k]
  <2>1. PICK a : a = <<h>>
    OBVIOUS
  <2>2. /\ Len(a \o c) = Len(a) + Len(c)
        /\ \A k \in 1..Len(a) : (a \o c)[k] = a[k]
        /\ \A k \in 1..Len(c) : (a \o c)[Len(a) + k] = c[k]
    BY <1>2, <2>1, Concat
  <2>3. Len(a) = 1 /\ a[1] = h /\ s = a \o c /\ 1 \in 1..1
    BY <1>0, <1>2, <2>1
  <2> HIDE <2>1
  <2> QED BY <1>14, <2>2, <2>3
<1>4. ASSUME NEW i \in 1..n
      PROVE  /\ 2 * i + 1 \in 1..(1 + 2 * n) /\ 2 * i \in 1..(1 + 2 * n)
             /\ s[2 * i].op \in {"user", "lookup"} /\ s[2 * i + 1].op = "member"
             /\ s[2 * i + 1].email = L[i].email /\ s[2 * i + 1].role = L[i].role
  <2>1. /\ 2 * i - 1 \in 1..2 * n /\ 1 + (2 * i - 1) = 2 * i
        /\ 2 * i \in 1..2 * n /\ 1 + 2 * i = 2 * i + 1
    OBVIOUS
  <2>2. s[2 * i] = c[2 * i - 1] /\ s[2 * i + 1] = c[2 * i]
    BY <1>3, <1>14, <2>1
  <2> QED BY <1>14, <2>1, <2>2
<1>5. \A k \in 1..(1 + 2 * n) : \/ k = 1
                                \/ \E i \in 1..n : k = 2 * i \/ k = 2 * i + 1
  <2>1. ASSUME NEW k \in 1..(1 + 2 * n), k # 1
        PROVE  \E i \in 1..n : k = 2 * i \/ k = 2 * i + 1
    <3>1. k - 1 \in 1..2 * n
      BY <2>1
    <3>2. PICK i \in 1..n : k - 1 = 2 * i - 1 \/ k - 1 = 2 * i
      BY <3>1, OddOrEven
    <3>3. k = 2 * i \/ k = 2 * i + 1
      BY <3>2
    <3> QED BY <3>3
  <2> QED BY <2>1
<1>6. ASSUME NEW k \in 2..(1 + 2 * n) PROVE s[k].op # "tenant"
  <2>0. k \in 1..(1 + 2 * n) /\ k # 1
    OBVIOUS
  <2>1. PICK i \in 1..n : k = 2 * i \/ k = 2 * i + 1
    BY <1>5, <2>0
  <2>2. CASE k = 2 * i
    BY <1>4, <2>2
  <2>3. CASE k = 2 * i + 1
    BY <1>4, <2>3
  <2> QED BY <2>1, <2>2, <2>3
<1>7. Named(L) = 1..n
  BY <1>14 DEF Named
<1> DEFINE f == [j \in 1..n |-> 2 * j + 1]
<1>8. f \in [1..n -> 1..(1 + 2 * n)]
  OBVIOUS
<1>9. \A j, k \in 1..n : j < k => f[j] < f[k]
  OBVIOUS
<1>10. \A j \in 1..n : f[j] = 2 * j + 1
  OBVIOUS
<1> HIDE DEF f
<1>11. ASSUME NEW i \in 1..(1 + 2 * n), s[i].op = "member" PROVE \E j \in 1..n : i = f[j]
  <2>1. i # 1
    BY <1>1, <1>3, <1>11
  <2>2. PICK j \in 1..n : i = 2 * j \/ i = 2 * j + 1
    BY <1>5, <2>1
  <2>3. s[2 * j].op \in {"user", "lookup"}
    BY <1>4
  <2>4. i = 2 * j + 1
    BY <1>11, <2>2, <2>3
  <2> QED BY <1>10, <2>4
<1>12. ASSUME NEW j \in 1..n
       PROVE  /\ s[f[j]].op = "member" /\ s[f[j]].email = L[j].email
              /\ s[f[j]].role = L[j].role /\ Context(s, f[j], L[j].slug, NoSlug)
  <2>1. L[j].slug = slug
    BY <1>14
  <2>2. PICK i : i = f[j] /\ i \in 2..(1 + 2 * n) /\ 1 \in 1..(i - 1)
    BY <1>10
  <2>3. \A k \in (1 + 1)..i : s[k].op # "tenant"
    <3>1. \A k \in (1 + 1)..i : k \in 2..(1 + 2 * n)
      BY <2>2
    <3> QED BY <1>6, <3>1
  <2>4. Context(s, i, slug, NoSlug)
    BY <1>1, <1>3, <2>2, <2>3 DEF Context
  <2> QED BY <1>4, <1>10, <2>1, <2>2, <2>4
<1>13. MirroredBy(f, s, L)
  <2>1. f \in [Named(L) -> 1..Len(s)]
    BY <1>3, <1>7, <1>8
  <2>2. \A i \in 1..Len(s) : s[i].op = "member" => \E j \in Named(L) : i = f[j]
    BY <1>3, <1>7, <1>11
  <2> QED BY <1>7, <1>9, <1>12, <2>1, <2>2 DEF MirroredBy
<1> QED BY <1>0, <1>13 DEF Mirror

\* The users of which s has the statements, in their order.
OfUsers(s, us) ==
    \E f \in [1..Len(us) -> 1..Len(s)] :
        /\ \A j, k \in 1..Len(us) : j < k => f[j] < f[k]
        /\ \A i \in 1..Len(s) : s[i].op = "user" => \E j \in 1..Len(us) : i = f[j]
        /\ \A j \in 1..Len(us) : /\ s[f[j]].op = "user" /\ s[f[j]].email = us[j].email
                                 /\ s[f[j]].admin = us[j].admin

\* The last statement about a user is that of its last entry.
LEMMA FreshUsers ==
  ASSUME NEW d \in Datasets, NEW s, OfUsers(s, Usable(d.users))
  PROVE  /\ \A e \in Emails(d) : AboutUser(s, e) # {}
         /\ \A i \in DOMAIN Usable(d.users) :
               LET u == Usable(d.users)[i]
                   about == AboutUser(s, u.email)
               IN  IsLast(Usable(d.users), i) => LastAdmin(s, about, u.admin) /\ about # {}
<1>1. PICK us : us = Usable(d.users)
  OBVIOUS
<1>2. us \in Seq(Account) /\ DOMAIN us = 1..Len(us) /\ Len(us) \in Nat
  BY <1>1, UsableTyped, SeedLoadAssumption DEF DatasetType
<1>3. PICK f \in [1..Len(us) -> 1..Len(s)] :
        /\ \A j, k \in 1..Len(us) : j < k => f[j] < f[k]
        /\ \A i \in 1..Len(s) : s[i].op = "user" => \E j \in 1..Len(us) : i = f[j]
        /\ \A j \in 1..Len(us) : /\ s[f[j]].op = "user" /\ s[f[j]].email = us[j].email
                                 /\ s[f[j]].admin = us[j].admin
  BY <1>1 DEF OfUsers
<1>4. \A j \in 1..Len(us) : f[j] \in AboutUser(s, us[j].email)
  BY <1>3 DEF AboutUser
<1>5. ASSUME NEW e \in Emails(d) PROVE AboutUser(s, e) # {}
  <2>1. PICK j \in DOMAIN us : e = us[j].email
    BY <1>1 DEF Emails, ToSet
  <2> QED BY <1>2, <1>4, <2>1
<1>6. ASSUME NEW i \in DOMAIN us, IsLast(us, i)
      PROVE  LastAdmin(s, AboutUser(s, us[i].email), us[i].admin)
  <2>1. ASSUME NEW k \in AboutUser(s, us[i].email), s[k].admin # us[i].admin
        PROVE  \E m \in AboutUser(s, us[i].email) : m > k
    <3>1. k \in 1..Len(s) /\ s[k].op = "user" /\ s[k].email = us[i].email
      BY DEF AboutUser
    <3>2. PICK j \in 1..Len(us) : k = f[j]
      BY <1>3, <3>1
    <3>3. us[j].email = us[i].email /\ us[j].admin # us[i].admin
      BY <1>3, <2>1, <3>1, <3>2
    <3>4. ~ j > i /\ j # i
      BY <1>2, <1>6, <3>3 DEF IsLast
    <3>5. j < i /\ i \in 1..Len(us)
      BY <1>2, <3>4
    <3>6. f[j] < f[i] /\ f[i] \in Int /\ f[j] \in Int
      BY <1>3, <3>5
    <3>7. f[i] > k
      BY <3>2, <3>6
    <3> QED BY <1>4, <3>5, <3>7
  <2> QED BY <2>1 DEF LastAdmin
<1> QED BY <1>1, <1>2, <1>4, <1>5, <1>6

\* The last statement about a membership is that of its last grant.
LEMMA FreshMembers ==
  ASSUME NEW d \in Datasets, NEW s, Mirror(s, GrantList(d)), Len(GrantList(d)) \in Nat,
         DOMAIN GrantList(d) = 1..Len(GrantList(d)),
         NEW g \in Grants(d), \E j \in 1..Len(GrantList(d)) : GrantList(d)[j] = g
  PROVE  LET about == AboutMember(s, g.email, g.slug, NoSlug) IN
         /\ about # {}
         /\ ~Overridden(d, g) => LastRole(s, about, g.role)
<1>1. PICK L : L = GrantList(d)
  OBVIOUS
<1>2. PICK f : MirroredBy(f, s, L)
  BY <1>1 DEF Mirror
<1> DEFINE about == AboutMember(s, g.email, g.slug, NoSlug)
<1>3. g.slug # NoSlug
  <2>1. g \in LoadWarrant(d, TRUE).grants
    BY DEF LoadWarrant
  <2> QED BY <2>1, GrantsNameTenant DEF NamesTenants
<1>4. \A j \in 1..Len(L) : L[j] = g => f[j] \in about /\ j \in Named(L)
  BY <1>2, <1>3 DEF Named, MirroredBy, AboutMember
<1>5. \A j \in Named(L) : j \in 1..Len(L) /\ f[j] \in 1..Len(s)
  BY <1>2 DEF Named, MirroredBy
<1>6. Len(L) \in Nat /\ DOMAIN L = 1..Len(L) /\ \E j \in 1..Len(L) : L[j] = g
  BY <1>1
<1>7. about # {}
  BY <1>4, <1>6
<1>8. ASSUME ~Overridden(d, g), NEW i \in about, s[i].role # g.role
      PROVE  \E k \in about : k > i
  <2>1. i \in 1..Len(s) /\ s[i].op = "member" /\ s[i].email = g.email /\ Context(s, i, g.slug, NoSlug)
    BY DEF AboutMember
  <2>2. PICK j \in Named(L) : i = f[j]
    BY <1>2, <2>1 DEF MirroredBy
  <2>3. /\ L[j].email = g.email /\ L[j].role # g.role /\ Context(s, i, L[j].slug, NoSlug)
    BY <1>2, <1>8, <2>1, <2>2 DEF MirroredBy
  <2>4. i \in Nat
    BY <2>1
  <2>5. L[j].slug = g.slug
    BY <2>1, <2>3, <2>4, ContextUnique
  <2>6. j \in 1..Len(L)
    BY <1>5
  <2>7. PICK k \in j..Len(L) : L[k] = g
    <3>1. ~(/\ <<L[j].email, L[j].slug>> = <<g.email, g.slug>>
            /\ \A k \in j..Len(L) : L[k] # g)
      BY <1>1, <1>6, <1>8, <2>6 DEF Overridden
    <3> QED BY <2>3, <2>5, <3>1
  <2>8. k \in 1..Len(L) /\ j < k
    <3>1. k # j
      BY <2>3, <2>7
    <3> QED BY <1>6, <2>6, <3>1
  <2>9. f[k] \in about /\ f[j] < f[k]
    <3>1. f[k] \in about /\ k \in Named(L)
      BY <1>4, <2>7, <2>8
    <3> QED BY <1>2, <2>8, <3>1 DEF MirroredBy
  <2>10. f[k] \in Int /\ f[j] \in Int
    BY <1>4, <1>5, <2>7, <2>8
  <2> QED BY <2>2, <2>9, <2>10
<1> QED BY <1>7, <1>8 DEF LastRole

\* The plan of an entry of tenants.yaml, and its grants.
Assigned(us) == FlattenSeq([i \in DOMAIN us |-> <<LookupStmt(us[i]), MemberStmt(us[i])>>])
TenantPlan(t) ==
    IF t.slug = NoSlug THEN <<>> ELSE <<TenantStmt(t.slug, t.slug)>> \o Assigned(t.users)
TenantGrants(t) == [i \in DOMAIN t.users |-> GrantTo(t.slug, t.users[i])]
GrantType == [email: STRING, slug: STRING, role: Roles]
NoUsers == {s \in Seq(Statement) : \A i \in 1..Len(s) : s[i].op # "user"}

\* The plan of one tenant has its tenant first, and then its grants.
LEMMA TenantFresh ==
  ASSUME NEW t \in TenantEntry
  PROVE  /\ TenantGrants(t) \in Seq(GrantType) /\ Len(TenantGrants(t)) = Len(t.users)
         /\ TenantPlan(t) \in NoUsers
         /\ Mirror(TenantPlan(t), TenantGrants(t))
         /\ t.slug # NoSlug =>
               \E i \in 1..Len(TenantPlan(t)) : /\ TenantPlan(t)[i].op = "tenant"
                                                /\ TenantPlan(t)[i].slug = t.slug
<1>1. PICK us, n : us = t.users /\ n = Len(us)
  OBVIOUS
<1>2. us \in Seq(Assignment) /\ n \in Nat /\ DOMAIN us = 1..n /\ t.slug \in STRING
  BY <1>1 DEF TenantEntry
<1>3. ASSUME NEW i \in 1..n PROVE us[i] \in Assignment /\ us[i].email \in STRING
  <2>1. us[i] \in Assignment
    BY <1>2
  <2> QED BY <2>1 DEF Assignment
<1>4. PICK L : L = TenantGrants(t)
  OBVIOUS
<1>5. L = [i \in 1..n |-> GrantTo(t.slug, us[i])]
  BY <1>1, <1>2, <1>4 DEF TenantGrants
<1>6. ASSUME NEW i \in 1..n
      PROVE  /\ L[i] = GrantTo(t.slug, us[i]) /\ GrantTo(t.slug, us[i]) \in GrantType
             /\ L[i].slug = t.slug /\ L[i].email = us[i].email
             /\ L[i].role = defaultRole(us[i].role)
  BY <1>2, <1>3, <1>5 DEF GrantTo, GrantType, defaultRole, Roles
<1>7. L \in [1..n -> GrantType]
  BY <1>5, <1>6
<1>8. L \in Seq(GrantType) /\ Len(L) = n
  <2> HIDE DEF GrantType
  <2> QED BY <1>2, <1>7
<1> DEFINE g == [i \in DOMAIN us |-> <<LookupStmt(us[i]), MemberStmt(us[i])>>]
<1>9. g \in [1..n -> Seq(Statement)] /\ \A i \in 1..n : Len(g[i]) = 2
  <2>1. \A i \in 1..n : LookupStmt(us[i]) \in Statement /\ MemberStmt(us[i]) \in Statement
    BY <1>3, StatementsTyped
  <2> QED BY <1>2, <2>1
<1>10. \A i \in 1..n : g[i][1] = LookupStmt(us[i]) /\ g[i][2] = MemberStmt(us[i])
  BY <1>2
<1> HIDE DEF g
<1>11. PICK c : c = Assigned(us)
  OBVIOUS
<1>12. c = FlattenSeq(g)
  BY <1>11 DEF Assigned, g
<1>13. /\ c \in Seq(Statement) /\ Len(c) = 2 * n
       /\ \A i \in 1..n : c[2 * i - 1] = LookupStmt(us[i]) /\ c[2 * i] = MemberStmt(us[i])
  BY <1>2, <1>9, <1>10, <1>12, FlattenPairs
<1>16. ASSUME NEW i \in 1..n
       PROVE  /\ c[2 * i - 1].op = "lookup" /\ c[2 * i].op = "member"
              /\ c[2 * i].email = L[i].email /\ c[2 * i].role = L[i].role
  <2>1. c[2 * i - 1] = LookupStmt(us[i]) /\ c[2 * i] = MemberStmt(us[i])
    BY <1>13
  <2>2. L[i].email = us[i].email /\ L[i].role = defaultRole(us[i].role)
    BY <1>6
  <2> QED BY ONLY <2>1, <2>2 DEF LookupStmt, MemberStmt
<1>14. CASE t.slug = NoSlug
  <2>1. TenantPlan(t) = <<>> /\ Len(<<>>) = 0
    BY <1>14 DEF TenantPlan
  <2>2. Named(L) = {}
    BY <1>6, <1>8, <1>14 DEF Named
  <2>3. Mirror(<<>>, L)
    BY <2>1, <2>2, MirrorNothing
  <2> QED BY <1>1, <1>4, <1>8, <1>14, <2>1, <2>3 DEF NoUsers
<1>15. CASE t.slug # NoSlug
  <2>1. PICK h, s : h = TenantStmt(t.slug, t.slug) /\ s = <<h>> \o c
    OBVIOUS
  <2>2. h \in Statement /\ h.op = "tenant" /\ h.slug = t.slug
    BY <1>2, <1>15, <2>1 DEF TenantStmt, Statement
  <2>3. TenantPlan(t) = s
    BY <1>1, <1>11, <1>15, <2>1 DEF TenantPlan
  <2>4. <<h>> \in Seq(Statement) /\ Len(<<h>>) = 1 /\ <<h>>[1] = h
    BY <2>2
  <2>5. s \in Seq(Statement) /\ Joined(<<h>>, c, s)
    BY <1>13, <2>1, <2>4, ConcatJoins
  <2>6. \A i \in 1..2 * n : c[i].op # "user"
    <3>1. ASSUME NEW i \in 1..2 * n PROVE c[i].op # "user"
      <4>1. PICK k \in 1..n : i = 2 * k - 1 \/ i = 2 * k
        BY <1>2, OddOrEven
      <4>2. c[2 * k - 1].op # "user" /\ c[2 * k].op # "user"
        BY <1>16
      <4> QED BY <4>1, <4>2
    <3> QED BY <3>1
  <2>7. /\ Len(s) = 1 + 2 * n /\ s[1] = h
        /\ \A i \in 1..2 * n : s[1 + i] = c[i]
    <3>1. PICK a : a = <<h>>
      OBVIOUS
    <3>2. Joined(a, c, s) /\ Len(a) = 1 /\ a[1] = h
      BY <2>4, <2>5, <3>1
    <3> QED BY ONLY <3>2, <1>13, <1>2 DEF Joined
  <2>8. s \in NoUsers
    <3>1. ASSUME NEW i \in 1..Len(s) PROVE s[i].op # "user"
      <4>1. CASE i = 1
        BY <2>2, <2>7, <4>1
      <4>2. CASE i # 1
        <5>1. i - 1 \in 1..2 * n /\ 1 + (i - 1) = i
          BY <1>2, <2>7, <4>2
        <5> QED BY <2>6, <2>7, <5>1
      <4> QED BY <4>1, <4>2
    <3> QED BY <2>5, <3>1 DEF NoUsers
  <2>9. Mirror(s, L)
    <3>1. \A i \in 1..Len(L) :
             /\ c[2 * i - 1].op \in {"user", "lookup"} /\ c[2 * i].op = "member"
             /\ c[2 * i].email = L[i].email /\ c[2 * i].role = L[i].role
             /\ L[i].slug = t.slug
      BY <1>6, <1>8, <1>16
    <3>2. Mirror(<<TenantStmt(t.slug, t.slug)>> \o c, L)
      BY <1>2, <1>8, <1>13, <1>15, <3>1, TenantMirror
    <3> QED BY <2>1, <3>2
  <2>10. 1 \in 1..Len(s)
    BY <1>2, <2>7
  <2> QED BY <1>1, <1>4, <1>8, <2>2, <2>3, <2>7, <2>8, <2>9, <2>10
<1> QED BY <1>14, <1>15

\* The plans of the tenants together have the grants of the tenants together.
LEMMA TenantsMirror ==
  ASSUME NEW ts \in Seq(TenantEntry),
         NEW h, h = [i \in DOMAIN ts |-> TenantPlan(ts[i])],
         NEW L, L = [i \in DOMAIN ts |-> TenantGrants(ts[i])]
  PROVE  /\ FlattenSeq(L) \in Seq(GrantType)
         /\ FlattenSeq(h) \in NoUsers
         /\ Mirror(FlattenSeq(h), FlattenSeq(L))
<1>1. PICK n \in Nat : n = Len(ts) /\ DOMAIN ts = 1..n /\ \A i \in 1..n : ts[i] \in TenantEntry
  OBVIOUS
<1>2. \A i \in 1..n : /\ h[i] = TenantPlan(ts[i]) /\ L[i] = TenantGrants(ts[i])
                      /\ h[i] \in NoUsers /\ h[i] \in Seq(Statement) /\ L[i] \in Seq(GrantType)
                      /\ Mirror(h[i], L[i])
  BY <1>1, TenantFresh DEF NoUsers
<1>3. h \in [1..n -> Seq(Statement)] /\ L \in [1..n -> Seq(GrantType)]
  BY <1>1, <1>2
<1>4. PICK f, g : Piecewise(f, Statement, n, h) /\ Piecewise(g, GrantType, n, L)
  BY <1>3, FlattenSteps
<1> DEFINE S == {m \in Nat : m \in 0..n => Mirror(f[m], g[m])}
<1>5. 0 \in S
  <2>1. f[0] = <<>> /\ g[0] = <<>> /\ Len(<<>>) = 0
    BY <1>4 DEF Piecewise
  <2>2. Mirror(<<>>, <<>>)
    BY <2>1, MirrorNothing DEF Named
  <2> QED BY <2>1, <2>2
<1>6. ASSUME NEW m \in Nat, m \in S PROVE m + 1 \in S
  <2> SUFFICES ASSUME m + 1 \in 0..n PROVE Mirror(f[m + 1], g[m + 1])
    OBVIOUS
  <2>1. m + 1 \in 0..n
    OBVIOUS
  <2>2. m \in 0..n /\ m + 1 \in 1..n /\ Joined(f[m], h[m + 1], f[m + 1])
    BY <1>3, <1>4, <2>1, NextPiece
  <2>3. Joined(g[m], L[m + 1], g[m + 1])
    BY <1>3, <1>4, <2>1, NextPiece
  <2>4. Mirror(f[m], g[m]) /\ Mirror(h[m + 1], L[m + 1])
    BY <1>2, <1>6, <2>2
  <2> QED BY <2>2, <2>3, <2>4, MirrorConcat
<1> HIDE DEF S
<1>7. n \in S
  BY <1>5, <1>6, SetInduction
<1>8. Mirror(FlattenSeq(h), FlattenSeq(L))
  BY <1>4, <1>7 DEF S, Piecewise
<1>9. FlattenSeq(L) \in Seq(GrantType)
  BY <1>4 DEF Piecewise
<1>10. FlattenSeq(h) \in NoUsers
  <2>1. <<>> \in NoUsers
    BY DEF NoUsers
  <2>2. ASSUME NEW a \in NoUsers, NEW b \in NoUsers PROVE a \o b \in NoUsers
    <3>1. PICK c : c = a \o b
      OBVIOUS
    <3>2. a \in Seq(Statement) /\ b \in Seq(Statement)
      BY DEF NoUsers
    <3>3. c \in Seq(Statement) /\ Joined(a, b, c)
      BY <3>1, <3>2, ConcatJoins
    <3>4. ASSUME NEW i \in 1..Len(c) PROVE c[i].op # "user"
      <4>1. CASE i <= Len(a)
        <5>1. i \in 1..Len(a) /\ c[i] = a[i]
          BY <3>3, <4>1 DEF Joined
        <5> QED BY <5>1 DEF NoUsers
      <4>2. CASE ~ i <= Len(a)
        <5>1. i - Len(a) \in 1..Len(b) /\ Len(a) + (i - Len(a)) = i
          BY <3>3, <4>2 DEF Joined
        <5>2. c[i] = b[i - Len(a)]
          BY <3>3, <5>1 DEF Joined
        <5> QED BY <5>1, <5>2 DEF NoUsers
      <4> QED BY <4>1, <4>2
    <3> QED BY <3>1, <3>3, <3>4 DEF NoUsers
  <2>3. h \in Seq(NoUsers) /\ DOMAIN h = 1..n
    BY <1>1, <1>2
  <2>4. Len(h) = n /\ (n = 0 => h = <<>>)
    BY <2>3
  <2> QED BY <1>2, <2>1, <2>2, <2>3, <2>4, FlattenStays
<1> QED BY <1>8, <1>9, <1>10

\* A plan that has all that its dataset is about.
Ready(d, s) ==
    /\ \A slug \in TenantSlugs(d) : \E i \in 1..Len(s) : s[i].op = "tenant" /\ s[i].slug = slug
    /\ OfUsers(s, Usable(d.users)) /\ UsersFirst(s)
    /\ GrantList(d) \in Seq(GrantType) /\ Mirror(s, GrantList(d))
    /\ \A g \in Grants(d) : \E j \in 1..Len(GrantList(d)) : GrantList(d)[j] = g

\* Such a plan covers its dataset, and the last word in it is the one meant.
LEMMA ReadyCovers ==
  ASSUME NEW d \in Datasets, NEW s, Ready(d, s)
  PROVE  Covers(d, s, NoSlug) /\ LastWord(d, s, NoSlug)
<1>1. /\ \A e \in Emails(d) : AboutUser(s, e) # {}
      /\ \A i \in DOMAIN Usable(d.users) :
            LET u == Usable(d.users)[i]
                about == AboutUser(s, u.email)
            IN  IsLast(Usable(d.users), i) => LastAdmin(s, about, u.admin) /\ about # {}
  BY FreshUsers DEF Ready
<1>2. ASSUME NEW g \in SureGrants(d)
      PROVE  LET about == AboutMember(s, g.email, g.slug, NoSlug) IN
             /\ about # {}
             /\ ~Overridden(d, g) => LastRole(s, about, g.role)
  <2>1. g \in Grants(d)
    BY DEF SureGrants
  <2>2. Len(GrantList(d)) \in Nat /\ DOMAIN GrantList(d) = 1..Len(GrantList(d))
    <3>1. PICK L : L = GrantList(d)
      OBVIOUS
    <3>2. L \in Seq(GrantType)
      BY <3>1 DEF Ready
    <3>3. Len(L) \in Nat /\ DOMAIN L = 1..Len(L)
      BY <3>2
    <3> QED BY <3>1, <3>3
  <2> QED BY <2>1, <2>2, FreshMembers DEF Ready
<1>3. Covers(d, s, NoSlug)
  BY <1>1, <1>2 DEF Covers, Ready
<1>4. LastWord(d, s, NoSlug)
  BY <1>1, <1>2 DEF LastWord
<1> QED BY <1>3, <1>4

\* The plan for a dataset of a single tenant.
LEMMA SingleReady ==
  ASSUME NEW d \in Datasets, ~d.multi PROVE Ready(d, loadSingle(d))
<1>1. PICK us : us = Usable(d.users)
  OBVIOUS
<1>2. /\ us \in Seq(Account) /\ d.slug \in STRING \ {NoSlug} /\ d.slug \in STRING
      /\ d.db \in STRING
  BY <1>1, UsableTyped, SeedLoadAssumption DEF DatasetType
<1>3. PICK n \in Nat : n = Len(us)
  BY <1>2
<1>4. DOMAIN us = 1..n /\ \A i \in 1..n : us[i] \in Account
  BY <1>2, <1>3
<1>5. ASSUME NEW i \in 1..n PROVE us[i].email \in STRING /\ us[i].admin \in BOOLEAN
  BY <1>4 DEF Account
<1> DEFINE g == [i \in DOMAIN us |-> <<UserStmt(us[i]), MemberStmt(us[i])>>]
<1>6. g \in [1..n -> Seq(Statement)] /\ \A i \in 1..n : Len(g[i]) = 2
  <2>1. \A i \in 1..n : UserStmt(us[i]) \in Statement /\ MemberStmt(us[i]) \in Statement
    BY <1>5, StatementsTyped
  <2> QED BY <1>4, <2>1
<1>7. \A i \in 1..n : g[i][1] = UserStmt(us[i]) /\ g[i][2] = MemberStmt(us[i])
  BY <1>4
<1> HIDE DEF g
<1>8. PICK c : c = FlattenSeq(g)
  OBVIOUS
<1>9. /\ c \in Seq(Statement) /\ Len(c) = 2 * n
      /\ \A i \in 1..n : c[2 * i - 1] = UserStmt(us[i]) /\ c[2 * i] = MemberStmt(us[i])
  BY <1>6, <1>7, <1>8, FlattenPairs
<1>10. PICK L : L = GrantList(d)
  OBVIOUS
<1>11. L = [i \in 1..n |-> GrantTo(d.slug, us[i])]
  BY <1>1, <1>4, <1>10 DEF GrantList
<1>12. ASSUME NEW i \in 1..n
       PROVE  /\ L[i] = GrantTo(d.slug, us[i]) /\ L[i] \in GrantType
              /\ L[i].slug = d.slug /\ L[i].email = us[i].email
              /\ L[i].role = defaultRole(us[i].role)
  BY <1>2, <1>5, <1>11 DEF GrantTo, GrantType, defaultRole, Roles
<1>13. L \in Seq(GrantType) /\ Len(L) = n
  <2>1. L \in [1..n -> GrantType]
    BY <1>11, <1>12
  <2> HIDE DEF GrantType
  <2> QED BY <2>1
<1>14. ASSUME NEW i \in 1..n
       PROVE  /\ c[2 * i - 1].op = "user" /\ c[2 * i - 1].email = us[i].email
              /\ c[2 * i - 1].admin = us[i].admin
              /\ c[2 * i].op = "member" /\ c[2 * i].email = L[i].email /\ c[2 * i].role = L[i].role
  <2>1. c[2 * i - 1] = UserStmt(us[i]) /\ c[2 * i] = MemberStmt(us[i])
    BY <1>9
  <2>2. L[i].email = us[i].email /\ L[i].role = defaultRole(us[i].role)
    BY <1>12
  <2> QED BY ONLY <2>1, <2>2 DEF UserStmt, MemberStmt
<1>15. PICK h, data, a, s : /\ h = TenantStmt(d.slug, d.db)
                            /\ data = IF d.skip THEN <<>> ELSE <<[op |-> "data"]>>
                            /\ a = <<h>> \o c /\ s = a \o data
  OBVIOUS
<1>16. s = loadSingle(d)
  BY <1>1, <1>8, <1>15 DEF loadSingle, FlatMap, g
<1>17. h \in Statement /\ h.op = "tenant" /\ h.slug = d.slug
  BY <1>2, <1>15 DEF TenantStmt, Statement
<1>18. <<h>> \in Seq(Statement) /\ Len(<<h>>) = 1 /\ <<h>>[1] = h
  BY <1>17
<1>19. data \in Seq(Statement) /\ Len(data) \in Nat /\ \A i \in 1..Len(data) : data[i].op = "data"
  <2>1. [op |-> "data"] \in Statement /\ [op |-> "data"].op = "data"
    BY DEF Statement
  <2> QED BY <1>15, <2>1
<1>20. /\ a \in Seq(Statement) /\ Len(a) = 1 + 2 * n /\ a[1] = h
       /\ \A i \in 1..2 * n : a[1 + i] = c[i]
  <2>1. a \in Seq(Statement) /\ Joined(<<h>>, c, a)
    BY <1>9, <1>15, <1>18, ConcatJoins
  <2>2. PICK b : b = <<h>>
    OBVIOUS
  <2>3. Joined(b, c, a) /\ Len(b) = 1 /\ b[1] = h
    BY <1>18, <2>1, <2>2
  <2>4. 1 \in 1..1
    OBVIOUS
  <2>5. Len(a) = 1 + 2 * n /\ a[1] = h /\ \A i \in 1..2 * n : a[1 + i] = c[i]
    BY <1>9, <2>3, <2>4 DEF Joined
  <2> QED BY <2>1, <2>5
<1>21. s \in Seq(Statement) /\ Joined(a, data, s)
  BY <1>15, <1>19, <1>20, ConcatJoins
<1>22. /\ Len(s) = 1 + 2 * n + Len(data)
       /\ \A i \in 1..(1 + 2 * n) : s[i] = a[i]
       /\ \A i \in 1..Len(data) : s[1 + 2 * n + i] = data[i]
  BY <1>20, <1>21 DEF Joined
<1>23. s[1] = h /\ \A i \in 1..n : s[2 * i] = c[2 * i - 1] /\ s[2 * i + 1] = c[2 * i]
  <2>1. 1 \in 1..(1 + 2 * n)
    OBVIOUS
  <2>2. ASSUME NEW i \in 1..n
        PROVE  s[2 * i] = c[2 * i - 1] /\ s[2 * i + 1] = c[2 * i]
    <3>1. /\ 2 * i - 1 \in 1..2 * n /\ 1 + (2 * i - 1) = 2 * i /\ 2 * i \in 1..(1 + 2 * n)
          /\ 2 * i \in 1..2 * n /\ 1 + 2 * i = 2 * i + 1 /\ 2 * i + 1 \in 1..(1 + 2 * n)
      OBVIOUS
    <3> QED BY <1>20, <1>22, <3>1
  <2> QED BY <1>20, <1>22, <2>1, <2>2
<1>24. ASSUME NEW i \in 1..Len(s)
       PROVE  \/ i = 1
              \/ \E j \in 1..n : i = 2 * j \/ i = 2 * j + 1
              \/ s[i].op = "data"
  <2>1. CASE i \in 2..(1 + 2 * n)
    <3>1. i - 1 \in 1..2 * n
      BY <2>1
    <3>2. PICK j \in 1..n : i - 1 = 2 * j - 1 \/ i - 1 = 2 * j
      BY <3>1, OddOrEven
    <3>3. i = 2 * j \/ i = 2 * j + 1
      BY <3>2
    <3> QED BY <3>3
  <2>2. CASE i > 1 + 2 * n
    <3>1. i - (1 + 2 * n) \in 1..Len(data) /\ 1 + 2 * n + (i - (1 + 2 * n)) = i
      BY <1>19, <1>22, <2>2
    <3>2. s[i] = data[i - (1 + 2 * n)]
      BY <1>22, <3>1
    <3> QED BY <1>19, <3>1, <3>2
  <2> QED BY <2>1, <2>2
<1>25. OfUsers(s, us)
  <2> DEFINE f == [j \in 1..n |-> 2 * j]
  <2>1. f \in [1..n -> 1..Len(s)]
    <3>1. \A j \in 1..n : 2 * j \in 1..Len(s)
      BY <1>19, <1>22
    <3> QED BY <3>1
  <2>2. \A j \in 1..n : f[j] = 2 * j
    OBVIOUS
  <2> HIDE DEF f
  <2>3. \A j, k \in 1..n : j < k => f[j] < f[k]
    BY <2>2
  <2>4. ASSUME NEW i \in 1..Len(s), s[i].op = "user" PROVE \E j \in 1..n : i = f[j]
    <3>1. PICK j \in 1..n : i = 2 * j \/ i = 2 * j + 1
      BY <1>17, <1>23, <1>24, <2>4
    <3>2. s[2 * j + 1].op = "member"
      BY <1>14, <1>23
    <3> QED BY <2>2, <2>4, <3>1, <3>2
  <2>5. \A j \in 1..n : /\ s[f[j]].op = "user" /\ s[f[j]].email = us[j].email
                        /\ s[f[j]].admin = us[j].admin
    BY <1>14, <1>23, <2>2
  <2> QED BY <1>3, <2>1, <2>3, <2>4, <2>5 DEF OfUsers
<1>26. UsersFirst(s)
  <2>1. ASSUME NEW i \in 1..Len(s) PROVE s[i].op # "lookup"
    <3>1. CASE \E j \in 1..n : i = 2 * j \/ i = 2 * j + 1
      <4>1. PICK j \in 1..n : i = 2 * j \/ i = 2 * j + 1
        BY <3>1
      <4>2. s[2 * j].op = "user" /\ s[2 * j + 1].op = "member"
        BY <1>14, <1>23
      <4> QED BY <4>1, <4>2
    <3> QED BY <1>17, <1>23, <1>24, <3>1
  <2> QED BY <2>1 DEF UsersFirst
<1>27. Mirror(s, L)
  <2>1. \A i \in 1..Len(L) :
           /\ c[2 * i - 1].op \in {"user", "lookup"} /\ c[2 * i].op = "member"
           /\ c[2 * i].email = L[i].email /\ c[2 * i].role = L[i].role
           /\ L[i].slug = d.slug
    BY <1>12, <1>13, <1>14
  <2>2. Mirror(<<TenantStmt(d.slug, d.db)>> \o c, L)
    BY <1>2, <1>9, <1>13, <2>1, TenantMirror
  <2>3. Mirror(data, <<>>)
    BY <1>19, MirrorNothing DEF Named
  <2>4. Joined(L, <<>>, L)
    BY <1>13 DEF Joined
  <2> QED BY <1>15, <1>21, <2>2, <2>3, <2>4, MirrorConcat
<1>28. \A slug \in TenantSlugs(d) : \E i \in 1..Len(s) : s[i].op = "tenant" /\ s[i].slug = slug
  <2>1. 1 \in 1..Len(s)
    BY <1>19, <1>22
  <2> QED BY <1>17, <1>23, <2>1 DEF TenantSlugs
<1>29. ASSUME NEW x \in Grants(d) PROVE \E j \in 1..Len(L) : L[j] = x
  <2>1. PICK u \in ToSet(us) : x = GrantTo(d.slug, u)
    BY <1>1 DEF Grants, SingleGrants
  <2>2. PICK j \in 1..n : u = us[j]
    BY <1>4, <2>1 DEF ToSet
  <2> QED BY <1>12, <1>13, <2>1, <2>2
<1> QED BY <1>1, <1>10, <1>13, <1>16, <1>25, <1>26, <1>27, <1>28, <1>29 DEF Ready

\* The plan for a dataset of several tenants.
LEMMA MultiReady ==
  ASSUME NEW d \in Datasets, d.multi PROVE Ready(d, loadMultiTenant(d, {}))
<1>1. PICK us, ts : us = Usable(d.users) /\ ts = d.tenants
  OBVIOUS
<1>2. us \in Seq(Account) /\ ts \in Seq(TenantEntry)
  BY <1>1, UsableTyped, SeedLoadAssumption DEF DatasetType
<1>3. PICK n \in Nat : n = Len(us)
  BY <1>2
<1>4. DOMAIN us = 1..n /\ \A i \in 1..n : us[i] \in Account
  BY <1>2, <1>3
<1>5. PICK nt \in Nat : nt = Len(ts) /\ DOMAIN ts = 1..nt /\ \A i \in 1..nt : ts[i] \in TenantEntry
  BY <1>2
<1> DEFINE g == [i \in DOMAIN us |-> <<UserStmt(us[i])>>]
           h == [i \in DOMAIN ts |-> TenantPlan(ts[i])]
           G == [i \in DOMAIN ts |-> TenantGrants(ts[i])]
<1>6. g \in [1..n -> Seq(Statement)] /\ \A i \in 1..n : Len(g[i]) = 1 /\ g[i][1] = UserStmt(us[i])
  <2>1. ASSUME NEW i \in 1..n PROVE UserStmt(us[i]) \in Statement
    <3>1. us[i] \in Account
      BY <1>4
    <3>2. us[i].email \in STRING /\ us[i].admin \in BOOLEAN
      BY <3>1 DEF Account
    <3> QED BY <3>2, StatementsTyped
  <2> QED BY <1>4, <2>1
<1>7. /\ h \in [1..nt -> Seq(Statement)] /\ G \in [1..nt -> Seq(GrantType)]
      /\ \A i \in 1..nt : h[i] = TenantPlan(ts[i]) /\ G[i] = TenantGrants(ts[i])
  <2>1. \A i \in 1..nt : TenantPlan(ts[i]) \in Seq(Statement) /\ TenantGrants(ts[i]) \in Seq(GrantType)
    BY <1>5, TenantFresh DEF NoUsers
  <2> QED BY <1>5, <2>1
<1>8. PICK a, b, s, L : a = FlattenSeq(g) /\ b = FlattenSeq(h) /\ s = a \o b /\ L = FlattenSeq(G)
  OBVIOUS
<1>9. s = loadMultiTenant(d, {})
  BY <1>1, <1>8 DEF loadMultiTenant, FlatMap, TenantPlan, Assigned, g, h
<1>10. L = GrantList(d)
  BY <1>1, <1>8 DEF GrantList, FlatMap, TenantGrants, G
<1>11. L \in Seq(GrantType) /\ b \in NoUsers /\ Mirror(b, L)
  BY <1>2, <1>8, TenantsMirror
<1> HIDE DEF g, h, G
<1>12. a \in Seq(Statement) /\ Len(a) = n /\ \A i \in 1..n : a[i] = UserStmt(us[i])
  <2>1. g \in [1..n -> Seq(Statement)]
    BY <1>6
  <2>2. \A i \in 1..n : Len(g[i]) = 1
    BY <1>6
  <2>3. /\ FlattenSeq(g) \in Seq(Statement) /\ Len(FlattenSeq(g)) = n
        /\ \A i \in 1..n : FlattenSeq(g)[i] = g[i][1]
    BY ONLY n \in Nat, <2>1, <2>2, FlattenSingles
  <2>4. a = FlattenSeq(g)
    BY <1>8
  <2> QED BY <1>6, <2>3, <2>4
<1>13. ASSUME NEW i \in 1..n
       PROVE  a[i].op = "user" /\ a[i].email = us[i].email /\ a[i].admin = us[i].admin
  <2>1. a[i] = UserStmt(us[i])
    BY <1>12
  <2> QED BY ONLY <2>1 DEF UserStmt
<1>14. b \in Seq(Statement) /\ Len(b) \in Nat /\ \A i \in 1..Len(b) : b[i].op # "user"
  BY <1>11 DEF NoUsers
<1>15. Joined(a, b, s)
  BY <1>8, <1>12, <1>14, ConcatJoins
<1>16. /\ Len(s) = n + Len(b)
       /\ \A i \in 1..n : s[i] = a[i]
       /\ \A i \in 1..Len(b) : s[n + i] = b[i]
  BY <1>12, <1>15 DEF Joined
<1>17. ASSUME NEW i \in 1..Len(s)
       PROVE  IF i <= n THEN s[i].op = "user" ELSE s[i].op # "user"
  <2>1. CASE i <= n
    <3>1. i \in 1..n
      BY <2>1
    <3> QED BY <1>13, <1>16, <2>1, <3>1
  <2>2. CASE ~ i <= n
    <3>1. i - n \in 1..Len(b) /\ n + (i - n) = i
      BY <1>14, <1>16, <2>2
    <3>2. s[i] = b[i - n]
      BY <1>16, <3>1
    <3> QED BY <1>14, <2>2, <3>1, <3>2
  <2> QED BY <2>1, <2>2
<1>18. OfUsers(s, us)
  <2> DEFINE f == [j \in 1..n |-> j]
  <2>1. f \in [1..n -> 1..Len(s)]
    BY <1>14, <1>16
  <2>2. \A j \in 1..n : f[j] = j
    OBVIOUS
  <2> HIDE DEF f
  <2>3. \A j, k \in 1..n : j < k => f[j] < f[k]
    BY <2>2
  <2>4. ASSUME NEW i \in 1..Len(s), s[i].op = "user" PROVE \E j \in 1..n : i = f[j]
    <3>1. i <= n
      BY <1>17, <2>4
    <3>2. i \in 1..n
      BY <3>1
    <3> QED BY <2>2, <3>2
  <2>5. \A j \in 1..n : /\ s[f[j]].op = "user" /\ s[f[j]].email = us[j].email
                        /\ s[f[j]].admin = us[j].admin
    BY <1>13, <1>16, <2>2
  <2> QED BY <1>3, <2>1, <2>3, <2>4, <2>5 DEF OfUsers
<1>19. UsersFirst(s)
  <2>1. ASSUME NEW i \in 1..Len(s), NEW j \in 1..Len(s), i < j, s[i].op = "lookup"
        PROVE  s[j].op # "user"
    <3>1. ~ i <= n
      BY <1>17, <2>1
    <3>2. ~ j <= n
      BY <2>1, <3>1
    <3> QED BY <1>17, <3>2
  <2> QED BY <2>1 DEF UsersFirst
<1>20. Mirror(s, L)
  <2>1. Mirror(a, <<>>)
    <3>1. \A i \in 1..Len(a) : a[i].op # "member"
      BY <1>12, <1>13
    <3>2. Named(<<>>) = {}
      BY DEF Named
    <3> QED BY <3>1, <3>2, MirrorNothing
  <2>2. Joined(<<>>, L, L)
    BY <1>11 DEF Joined
  <2> QED BY <1>11, <1>15, <2>1, <2>2, MirrorConcat
<1>21. ASSUME NEW slug \in TenantSlugs(d)
       PROVE  \E i \in 1..Len(s) : s[i].op = "tenant" /\ s[i].slug = slug
  <2>1. PICK k \in 1..nt : ts[k].slug = slug /\ slug # NoSlug
    BY <1>1, <1>5 DEF TenantSlugs, Entries, ToSet
  <2>2. PICK i \in 1..Len(h[k]) : h[k][i].op = "tenant" /\ h[k][i].slug = slug
    BY <1>5, <1>7, <2>1, TenantFresh
  <2>3. PICK j \in 1..Len(b) : b[j] = h[k][i]
    <3>1. PICK f : Piecewise(f, Statement, nt, h)
      BY <1>7, FlattenSteps
    <3>2. Contains(f[nt], h[k][i])
      BY ONLY nt \in Nat, k \in 1..nt, i \in 1..Len(h[k]), <3>1, FlattenHas
    <3>3. f[nt] = b
      BY <1>8, <3>1 DEF Piecewise
    <3> QED BY <3>2, <3>3 DEF Contains
  <2>4. n + j \in 1..Len(s) /\ s[n + j] = b[j]
    BY <1>14, <1>16
  <2> QED BY <2>2, <2>3, <2>4
<1>22. ASSUME NEW x \in Grants(d) PROVE \E j \in 1..Len(L) : L[j] = x
  <2>1. PICK t \in Entries(d) : \E u \in ToSet(t.users) : x = GrantTo(t.slug, u)
    BY DEF Grants
  <2>2. PICK k \in 1..nt : t = ts[k]
    BY <1>1, <1>5 DEF Entries, ToSet
  <2>3. PICK j \in DOMAIN t.users : x = GrantTo(t.slug, t.users[j])
    BY <2>1 DEF ToSet
  <2>4. G[k] = TenantGrants(t)
    BY <1>7, <2>2
  <2>5. G[k][j] = x /\ Len(G[k]) = Len(t.users)
    <3>1. G[k][j] = x
      BY <2>3, <2>4 DEF TenantGrants
    <3>2. t \in TenantEntry
      BY <1>5, <2>2
    <3> QED BY <2>4, <3>1, <3>2, TenantFresh
  <2>6. j \in 1..Len(G[k])
    <3>1. t.users \in Seq(Assignment)
      BY <1>5, <2>2 DEF TenantEntry
    <3>2. DOMAIN t.users = 1..Len(t.users)
      BY <3>1
    <3> QED BY <2>5, <3>2
  <2>7. PICK f : Piecewise(f, GrantType, nt, G)
    BY <1>7, FlattenSteps
  <2>8. Contains(f[nt], G[k][j])
    BY ONLY nt \in Nat, k \in 1..nt, <2>6, <2>7, FlattenHas
  <2>9. f[nt] = L
    BY <1>8, <2>7 DEF Piecewise
  <2> QED BY <2>5, <2>8, <2>9 DEF Contains
<1> QED BY <1>1, <1>9, <1>10, <1>11, <1>18, <1>19, <1>20, <1>21, <1>22 DEF Ready

\* Every load that reads all of its dataset starts with a complete plan.
LEMMA LoadReady == ASSUME NEW d \in Datasets PROVE Ready(d, load(d, {}))
BY SingleReady, MultiReady DEF load, AsMulti

\* CompleteInv is inductive, relative to IInv.
LEMMA NextComplete ==
  ASSUME IInv, CompleteInv, [Next]_vars
  PROVE  CompleteInv'
<1>1. ASSUME NEW p \in Procs, NEW d \in Datasets, NEW action \in {"load", "unload"},
             NEW unread \in SUBSET {"tenants", "users"}, Start(p, d, action, unread)
      PROVE  CompleteInv'
  BY <1>1, LoadReady, ReadyCovers, StartOnTheWay
<1>2. ASSUME NEW p \in Procs, StartRefused(p) PROVE CompleteInv'
  BY <1>2, RestOnTheWay DEF StartRefused, dbVars
<1>3. ASSUME NEW p \in Procs,
             \/ SeedTenantData(p) \/ UpsertTenant(p) \/ UpsertUser(p) \/ LookupUser(p)
             \/ UpsertMembership(p) \/ DeleteTenant(p)
      PROVE  CompleteInv'
  BY <1>3, DataOnTheWay, TenantOnTheWay, UserOnTheWay, LookupOnTheWay, MemberOnTheWay,
     DeleteOnTheWay
<1>4. ASSUME NEW p \in Procs,
             \/ TenantConflict(p) \/ MembershipRefused(p) \/ DeleteRefused(p)
             \/ Finish(p) \/ Abort(p)
      PROVE  CompleteInv'
  BY <1>4, QuitOnTheWay DEF TenantConflict, MembershipRefused, DeleteRefused, Finish, Abort
<1>5. ASSUME NEW t \in tenants, Pin(t.id) PROVE CompleteInv'
  BY <1>5, RestOnTheWay DEF Pin, procVars
<1>6. CASE UNCHANGED vars
  BY <1>6, RestOnTheWay DEF vars, dbVars, procVars
<1> QED BY <1>1, <1>2, <1>3, <1>4, <1>5, <1>6 DEF Next

\* What a load that succeeds leaves behind.
LEMMA FinishComplete ==
  ASSUME IInv, CompleteInv, Next, NEW p \in Procs, Succeeds(p, "load"),
         others[p] \subseteq {"wrote"}
  PROVE  /\ Present(ds[p], SureGrants(ds[p]))
         /\ others[p] = {} =>
               /\ \A g \in {x \in SureGrants(ds[p]) : ~Overridden(ds[p], x)} : RowStands(g)
               /\ LET us == Usable(ds[p].users) IN
                  \A i \in DOMAIN us : IsLast(us, i) => users[us[i].email] = us[i].admin
<1>1. pc[p] = "load" /\ exit'[p] = "0" /\ TypeOK /\ exit[p] = "none"
  BY DEF Succeeds, IInv, Sound
<1>2. plan[p] = <<>>
  <2>1. CASE \E q \in Procs, d \in Datasets, action \in {"load", "unload"},
                unread \in SUBSET {"tenants", "users"} : Start(q, d, action, unread)
    BY <1>1, <2>1 DEF Start, TypeOK
  <2>2. CASE \E q \in Procs : StartRefused(q)
    BY <1>1, <2>2 DEF StartRefused, TypeOK
  <2>3. CASE \E q \in Procs : \/ TenantConflict(q) \/ MembershipRefused(q) \/ DeleteRefused(q)
                              \/ Abort(q)
    BY <1>1, <2>3 DEF TenantConflict, MembershipRefused, DeleteRefused, Abort, Quit, TypeOK
  <2>4. CASE \E q \in Procs : Finish(q)
    BY <1>1, <2>4 DEF Finish, Quit, TypeOK
  <2>5. CASE \E q \in Procs : \/ SeedTenantData(q) \/ UpsertTenant(q) \/ UpsertUser(q)
                              \/ LookupUser(q) \/ UpsertMembership(q) \/ DeleteTenant(q)
    BY <1>1, <2>5 DEF SeedTenantData, UpsertTenant, UpsertUser, LookupUser,
                      UpsertMembership, DeleteTenant
  <2>6. CASE \E t \in tenants : Pin(t.id)
    BY <1>1, <2>6 DEF Pin, procVars
  <2> QED BY <2>1, <2>2, <2>3, <2>4, <2>5, <2>6 DEF Next
<1>3. PICK at : /\ Covers(ds[p], plan[p], at)
                /\ others[p] = {} => LastWord(ds[p], plan[p], at)
  BY <1>1 DEF CompleteInv, Undisturbed, OnTheWay
<1>4. \A e, slug : AboutUser(<<>>, e) = {} /\ AboutMember(<<>>, e, slug, at) = {}
  BY DEF AboutUser, AboutMember
<1>5. Present(ds[p], SureGrants(ds[p]))
  BY <1>2, <1>3, <1>4 DEF Covers, Present
<1>6. others[p] = {} =>
         /\ \A g \in {x \in SureGrants(ds[p]) : ~Overridden(ds[p], x)} : RowStands(g)
         /\ LET us == Usable(ds[p].users) IN
            \A i \in DOMAIN us : IsLast(us, i) => users[us[i].email] = us[i].admin
  BY <1>2, <1>3, <1>4 DEF LastWord
<1> QED BY <1>5, <1>6

\* A load that succeeds has written all of its dataset, though others write
\* the same rows between its statements; and when none does, what stays is
\* what the last entry of the files for a row says.
THEOREM LoadComplete == Spec => LoadIsComplete
<1> DEFINE A == \A p \in Procs : Succeeds(p, "load") /\ others[p] \subseteq {"wrote"} =>
          /\ Present(ds[p], SureGrants(ds[p]))
          /\ others[p] = {} =>
                /\ \A g \in {h \in SureGrants(ds[p]) : ~Overridden(ds[p], h)} :
                      \E m \in members : /\ m.user = g.email /\ m.role = g.role
                                          /\ m.tenant \in IdOf(g.slug)
                /\ LET us == Usable(ds[p].users) IN
                   \A i \in DOMAIN us :
                      \/ \E j \in DOMAIN us : j > i /\ us[j].email = us[i].email
                      \/ users[us[i].email] = us[i].admin
<1>1. Init => CompleteInv
  BY DEF Init, CompleteInv, Undisturbed
<1>2. IInv /\ CompleteInv /\ [Next]_vars => CompleteInv'
  BY NextComplete
<1>3. IInv /\ CompleteInv /\ [Next]_vars => [A]_vars
  <2>1. ASSUME IInv, CompleteInv, Next, NEW p \in Procs, Succeeds(p, "load"),
               others[p] \subseteq {"wrote"}
        PROVE  /\ Present(ds[p], SureGrants(ds[p]))
               /\ others[p] = {} =>
                     /\ \A g \in {h \in SureGrants(ds[p]) : ~Overridden(ds[p], h)} :
                           \E m \in members : /\ m.user = g.email /\ m.role = g.role
                                               /\ m.tenant \in IdOf(g.slug)
                     /\ LET us == Usable(ds[p].users) IN
                        \A i \in DOMAIN us :
                           \/ \E j \in DOMAIN us : j > i /\ us[j].email = us[i].email
                           \/ users[us[i].email] = us[i].admin
    BY <2>1, FinishComplete DEF RowStands, IsLast
  <2> QED BY <2>1
<1>4. LoadIsComplete <=> [][A]_vars
  BY DEF LoadIsComplete
<1> HIDE DEF A
<1> QED BY <1>1, <1>2, <1>3, <1>4, Invariance, PTL DEF Spec

-----------------------------------------------------------------------------
(***************************************************************************)
(* The slug of a tenant that comes without one (Slug), for a name of any   *)
(* length and any limit.  Each statement leaves of the name what a slug    *)
(* shows: it takes hyphens out of a run and never the last of them         *)
(* (Reduct), until none is beside another; between the first and the last  *)
(* letter then stands, for each run, one hyphen.                           *)
(***************************************************************************)

\* t is the sequence s at the positions in S, in their order, which are f.
Picks(f, s, S, t) ==
    /\ f \in [1..Len(t) -> S]
    /\ \A j, k \in 1..Len(t) : j < k => f[j] < f[k]
    /\ \A i \in S : \E k \in 1..Len(t) : f[k] = i
    /\ \A k \in 1..Len(t) : t[k] = s[f[k]]

\* A set of numbers that is not empty has its least.
LEMMA LeastIsThere ==
  ASSUME NEW S \in SUBSET Nat, S # {}
  PROVE  \E x \in S : \A y \in S : x <= y
<1>1. PICK x \in S : \A y \in S : <<y, x>> \notin OpToRel(<, Nat)
  BY NatLessThanWellFounded, WFMin, Zenon
<1>2. \A y \in S : ~(y < x)
  BY <1>1 DEF OpToRel
<1>3. x \in Nat /\ \A y \in S : y \in Nat
  OBVIOUS
<1>4. \A y \in S : x <= y
  BY <1>2, <1>3
<1> QED BY <1>4

\* That sequence is the only one of its kind.
LEMMA PicksUnique ==
  ASSUME NEW X, NEW t \in Seq(X), NEW u \in Seq(X), NEW s, NEW S \in SUBSET Nat, NEW f, NEW g,
         Picks(f, s, S, t), Picks(g, s, S, u)
  PROVE  t = u
<1>0. PICK m \in Nat, n \in Nat : m = Len(t) /\ n = Len(u)
  OBVIOUS
<1>1. /\ \A k \in 1..m : f[k] \in S /\ f[k] \in Nat
      /\ \A k \in 1..n : g[k] \in S /\ g[k] \in Nat
  BY <1>0 DEF Picks
<1>2. /\ \A j, k \in 1..m : j < k => f[j] < f[k]
      /\ \A j, k \in 1..n : j < k => g[j] < g[k]
      /\ \A i \in S : (\E k \in 1..m : f[k] = i) /\ (\E k \in 1..n : g[k] = i)
  BY <1>0 DEF Picks
<1> DEFINE D == {k \in Nat : k \in 1..m /\ k \in 1..n /\ f[k] # g[k]}
<1>3. D = {}
  <2> SUFFICES ASSUME D # {} PROVE FALSE
    OBVIOUS
  <2>1. PICK k \in D : \A j \in D : k <= j
    BY LeastIsThere
  <2>2. k \in 1..m /\ k \in 1..n /\ f[k] # g[k]
    OBVIOUS
  <2>3. \A j \in 1..(k - 1) : f[j] = g[j]
    BY <2>1, <2>2
  <2> HIDE DEF D
  <2>4. f[k] \in S /\ g[k] \in S /\ f[k] \in Nat /\ g[k] \in Nat
    BY <1>1, <2>2
  <2>5. CASE f[k] < g[k]
    <3>1. PICK j \in 1..n : g[j] = f[k]
      BY <1>2, <2>4
    <3>2. ~(k < j)
      BY <1>2, <2>2, <2>4, <2>5, <3>1
    <3>3. j \in 1..(k - 1)
      BY <2>2, <2>5, <3>1, <3>2
    <3>4. f[j] = f[k] /\ j \in 1..m /\ j < k
      BY <2>2, <2>3, <3>1, <3>3
    <3> QED BY <1>2, <2>2, <2>4, <3>4
  <2>6. CASE g[k] < f[k]
    <3>1. PICK j \in 1..m : f[j] = g[k]
      BY <1>2, <2>4
    <3>2. ~(k < j)
      BY <1>2, <2>2, <2>4, <2>6, <3>1
    <3>3. j \in 1..(k - 1)
      BY <2>2, <2>6, <3>1, <3>2
    <3>4. g[j] = g[k] /\ j \in 1..n /\ j < k
      BY <2>2, <2>3, <3>1, <3>3
    <3> QED BY <1>2, <2>2, <2>4, <3>4
  <2> QED BY <2>2, <2>4, <2>5, <2>6
<1>4. \A k \in 1..m : k \in 1..n => f[k] = g[k]
  BY <1>3
<1> HIDE DEF D
<1>5. ~(m < n)
  <2> SUFFICES ASSUME m < n PROVE FALSE
    OBVIOUS
  <2>1. n \in 1..n /\ n \notin 1..m /\ g[n] \in S
    BY <1>1
  <2>2. PICK k \in 1..m : f[k] = g[n]
    BY <1>2, <2>1
  <2>3. k \in 1..n /\ k < n /\ g[k] = g[n] /\ g[k] \in Nat
    BY <1>1, <1>4, <2>2
  <2> QED BY <1>2, <2>1, <2>3
<1>6. ~(n < m)
  <2> SUFFICES ASSUME n < m PROVE FALSE
    OBVIOUS
  <2>1. m \in 1..m /\ m \notin 1..n /\ f[m] \in S
    BY <1>1
  <2>2. PICK k \in 1..n : g[k] = f[m]
    BY <1>2, <2>1
  <2>3. k \in 1..m /\ k < m /\ f[k] = f[m] /\ f[k] \in Nat
    BY <1>1, <1>4, <2>2
  <2> QED BY <1>2, <2>1, <2>3
<1>7. m = n
  BY <1>5, <1>6
<1>8. \A k \in 1..m : t[k] = u[k]
  <2>1. \A k \in 1..m : t[k] = s[f[k]] /\ u[k] = s[g[k]]
    BY <1>0, <1>7 DEF Picks
  <2> QED BY <1>4, <1>7, <2>1
<1> QED BY <1>0, <1>7, <1>8, SeqEqual

\* One that has a bound has its greatest.
LEMMA GreatestIsThere ==
  ASSUME NEW S \in SUBSET Nat, S # {}, NEW bound \in Nat, \A n \in S : n <= bound
  PROVE  \E x \in S : \A y \in S : y <= x
<1> DEFINE B == {b \in Nat : \A n \in S : n <= b}
<1>1. B \in SUBSET Nat /\ B # {}
  OBVIOUS
<1>2. PICK b \in B : \A c \in B : b <= c
  BY <1>1, LeastIsThere
<1>3. b \in Nat /\ \A n \in S : n \in Nat /\ n <= b
  OBVIOUS
<1>4. b \in S
  <2> SUFFICES ASSUME b \notin S PROVE FALSE
    OBVIOUS
  <2>1. \A n \in S : n # b
    OBVIOUS
  <2>2. \A n \in S : n <= b - 1
    BY <1>3, <2>1
  <2>3. b # 0
    <3>1. PICK n \in S : TRUE
      OBVIOUS
    <3> QED BY <1>3, <2>2, <3>1
  <2>4. b - 1 \in B
    BY <1>3, <2>2, <2>3
  <2>5. b <= b - 1
    BY <1>2, <2>4
  <2> QED BY <1>3, <2>5
<1> QED BY <1>3, <1>4

\* Keep is this sequence.
LEMMA KeepPicks ==
  ASSUME NEW X, NEW s \in Seq(X), NEW S \in SUBSET (1..Len(s))
  PROVE  /\ Keep(s, S) \in Seq(X)
         /\ \E f : Picks(f, s, S, Keep(s, S))
<1>0. PICK n \in Nat : n = Len(s) /\ DOMAIN s = 1..n /\ \A i \in 1..n : s[i] \in X
  OBVIOUS
<1> DEFINE ss == [i \in DOMAIN s |-> IF i \in S THEN <<s[i]>> ELSE <<>>]
<1>1. ss \in [1..n -> Seq(X)] /\ \A i \in 1..n : ss[i] = IF i \in S THEN <<s[i]>> ELSE <<>>
  BY <1>0
<1>2. Keep(s, S) = FlattenSeq(ss)
  BY Zenon DEF Keep, FlattenSeq
<1> HIDE DEF ss
<1>3. PICK p : Piecewise(p, X, n, ss)
  BY <1>1, FlattenSteps
<1> DEFINE Upto(m) == S \cap 1..m
<1>61. Upto(0) = {} /\ Upto(n) = S
  <2>1. 1..0 = {}
    OBVIOUS
  <2>2. S \subseteq 1..n
    BY <1>0
  <2> QED BY <2>1, <2>2
<1>62. ASSUME NEW m \in Nat
       PROVE  /\ Upto(m + 1) = IF m + 1 \in S THEN Upto(m) \cup {m + 1} ELSE Upto(m)
              /\ m + 1 \notin Upto(m) /\ \A i \in Upto(m) : i \in Nat /\ i < m + 1
  <2>1. \A i : i \in 1..(m + 1) <=> i \in 1..m \/ i = m + 1
    OBVIOUS
  <2>2. m + 1 \notin 1..m /\ \A i \in 1..m : i \in Nat /\ i < m + 1
    OBVIOUS
  <2> QED BY <2>1, <2>2
<1> HIDE DEF Upto
<1> DEFINE I == {m \in Nat : m \in 0..n => \E f : Picks(f, s, Upto(m), p[m])}
<1>4. 0 \in I
  <2>1. p[0] = <<>> /\ Upto(0) = {}
    BY <1>3, <1>61 DEF Piecewise
  <2> DEFINE none == [k \in 1..0 |-> k]
  <2>2. Picks(none, s, {}, <<>>)
    BY DEF Picks
  <2> QED BY <2>1, <2>2
<1>5. ASSUME NEW m \in Nat, m \in I PROVE m + 1 \in I
  <2> SUFFICES ASSUME m + 1 \in 0..n PROVE \E f : Picks(f, s, Upto(m + 1), p[m + 1])
    OBVIOUS
  <2>1. m \in 0..n /\ m + 1 \in 1..n /\ Joined(p[m], ss[m + 1], p[m + 1])
    BY <1>1, <1>3, NextPiece
  <2>2. PICK a, b, c, U, V : /\ a = p[m] /\ b = ss[m + 1] /\ c = p[m + 1]
                             /\ U = Upto(m) /\ V = Upto(m + 1)
    OBVIOUS
  <2>3. PICK f : Picks(f, s, U, a)
    BY <1>5, <2>1, <2>2
  <2>4. Joined(a, b, c)
    BY <2>1, <2>2
  <2>5. PICK l \in Nat : l = Len(a)
    BY <2>4 DEF Joined
  <2>6. /\ V = IF m + 1 \in S THEN U \cup {m + 1} ELSE U
        /\ m + 1 \notin U /\ \A i \in U : i \in Nat /\ i < m + 1
    BY <1>62, <2>2
  <2>7. b = IF m + 1 \in S THEN <<s[m + 1]>> ELSE <<>>
    BY <1>1, <2>1, <2>2
  <2>8. CASE m + 1 \notin S
    <3>1. Len(c) = l /\ \A k \in 1..l : c[k] = a[k]
      BY <2>4, <2>5, <2>7, <2>8 DEF Joined
    <3>2. Picks(f, s, V, c)
      BY <2>3, <2>5, <2>6, <2>8, <3>1 DEF Picks
    <3> QED BY <2>2, <3>2
  <2>9. CASE m + 1 \in S
    <3>1. Len(b) = 1 /\ b[1] = s[m + 1]
      BY <2>7, <2>9
    <3>2. Len(c) = l + 1 /\ c[l + 1] = s[m + 1] /\ \A k \in 1..l : c[k] = a[k]
      BY <2>4, <2>5, <3>1 DEF Joined
    <3> DEFINE h == [k \in 1..(l + 1) |-> IF k <= l THEN f[k] ELSE m + 1]
    <3>3. \A k \in 1..(l + 1) : k \in 1..l \/ k = l + 1
      OBVIOUS
    <3>4. h[l + 1] = m + 1 /\ \A k \in 1..l : h[k] = f[k]
      OBVIOUS
    <3>5. h \in [1..(l + 1) -> V]
      BY <2>3, <2>5, <2>6, <2>9 DEF Picks
    <3> HIDE DEF h
    <3>6. \A k \in 1..l : f[k] \in U /\ f[k] < m + 1 /\ c[k] = s[f[k]]
      BY <2>3, <2>5, <2>6, <3>2 DEF Picks
    <3>7. ASSUME NEW j \in 1..(l + 1), NEW k \in 1..(l + 1), j < k PROVE h[j] < h[k]
      <4>1. j \in 1..l
        BY <3>7
      <4>2. CASE k \in 1..l
        BY <2>3, <2>5, <3>4, <3>7, <4>1, <4>2 DEF Picks
      <4>3. CASE k = l + 1
        BY <3>4, <3>6, <4>1, <4>3
      <4> QED BY <3>3, <4>2, <4>3
    <3>8. ASSUME NEW i \in V PROVE \E k \in 1..(l + 1) : h[k] = i
      <4>1. CASE i = m + 1
        BY <3>4, <4>1
      <4>2. CASE i \in U
        <5>1. PICK k \in 1..l : f[k] = i
          BY <2>3, <2>5, <4>2 DEF Picks
        <5>2. k \in 1..(l + 1)
          OBVIOUS
        <5> QED BY <3>4, <5>1, <5>2
      <4> QED BY <2>6, <2>9, <4>1, <4>2
    <3>9. \A k \in 1..(l + 1) : c[k] = s[h[k]]
      BY <3>2, <3>3, <3>4, <3>6
    <3>10. Picks(h, s, V, c)
      BY <3>2, <3>5, <3>7, <3>8, <3>9 DEF Picks
    <3> QED BY <2>2, <3>10
  <2> QED BY <2>8, <2>9
<1> HIDE DEF I
<1>7. n \in I
  BY <1>4, <1>5, SetInduction
<1>8. \E f : Picks(f, s, S, p[n])
  BY <1>61, <1>7 DEF I
<1>9. p[n] = FlattenSeq(ss) /\ p[n] \in Seq(X)
  BY <1>3 DEF Piecewise
<1> QED BY <1>2, <1>8, <1>9

\* All the characters between two positions are hyphens.
Hyphens(p, i, j) == \A k \in 1..Len(p) : i <= k /\ k <= j => p[k] = "-"
Near(p, i, j) ==
    \/ i = j
    \/ i < j /\ Hyphens(p, i, j)
    \/ j < i /\ Hyphens(p, j, i)

\* s is p but for some of its hyphens, of which it has at least one of each run;
\* f says where the characters of s come from.
Reduct(f, p, s) ==
    /\ f \in [1..Len(s) -> 1..Len(p)]
    /\ \A j, k \in 1..Len(s) : j < k => f[j] < f[k]
    /\ \A k \in 1..Len(s) : s[k] = p[f[k]]
    /\ \A i \in 1..Len(p) : \E k \in 1..Len(s) : Near(p, i, f[k])

Text == Seq(Chars)

\* A character that is no hyphen stays, and stays once.
LEMMA LetterStays ==
  ASSUME NEW p \in Text, NEW s \in Text, NEW f, Reduct(f, p, s),
         NEW i \in 1..Len(p), p[i] # "-"
  PROVE  \E k \in 1..Len(s) : f[k] = i /\ s[k] # "-"
<1>1. PICK k \in 1..Len(s) : Near(p, i, f[k])
  BY DEF Reduct
<1>2. f[k] \in 1..Len(p) /\ s[k] = p[f[k]]
  BY DEF Reduct
<1>3. f[k] = i
  <2>1. i \in Int /\ f[k] \in Int /\ i <= i
    BY <1>2
  <2>2. ~(Hyphens(p, i, f[k]) /\ i < f[k])
    BY <2>1 DEF Hyphens
  <2>3. ~(Hyphens(p, f[k], i) /\ f[k] < i)
    BY <2>1 DEF Hyphens
  <2> QED BY <1>1, <2>2, <2>3 DEF Near
<1> QED BY <1>2, <1>3

\* The order of the places is that of the characters.
LEMMA OrderBack ==
  ASSUME NEW p \in Text, NEW s \in Text, NEW f, Reduct(f, p, s),
         NEW j \in 1..Len(s), NEW k \in 1..Len(s), f[j] < f[k]
  PROVE  j < k
<1>1. f[j] \in Int /\ f[k] \in Int /\ j \in Int /\ k \in Int
  BY DEF Reduct
<1>2. j # k
  BY <1>1
<1>3. ~(k < j)
  BY <1>1 DEF Reduct
<1> QED BY <1>1, <1>2, <1>3

\* Being joined by hyphens is transitive.
LEMMA NearTrans ==
  ASSUME NEW p \in Text, NEW i \in 1..Len(p), NEW j \in 1..Len(p), NEW k \in 1..Len(p),
         Near(p, i, j), Near(p, j, k)
  PROVE  Near(p, i, k)
<1>1. CASE i = j \/ j = k \/ i = k
  BY <1>1 DEF Near
<1>2. CASE i # j /\ j # k /\ i # k
  <2>1. \/ i < j /\ Hyphens(p, i, j)
        \/ j < i /\ Hyphens(p, j, i)
    BY <1>2 DEF Near
  <2>2. \/ j < k /\ Hyphens(p, j, k)
        \/ k < j /\ Hyphens(p, k, j)
    BY <1>2 DEF Near
  <2>3. CASE i < k
    <3>1. ASSUME NEW c \in 1..Len(p), i <= c, c <= k PROVE p[c] = "-"
      <4>1. \/ i <= c /\ c <= j /\ i < j
            \/ j <= c /\ c <= i /\ j < i
            \/ j <= c /\ c <= k /\ j < k
            \/ k <= c /\ c <= j /\ k < j
        BY <1>2, <3>1
      <4> QED BY <1>2, <2>1, <2>2, <4>1 DEF Hyphens
    <3> QED BY <2>3, <3>1 DEF Near, Hyphens
  <2>4. CASE k < i
    <3>1. ASSUME NEW c \in 1..Len(p), k <= c, c <= i PROVE p[c] = "-"
      <4>1. \/ i <= c /\ c <= j /\ i < j
            \/ j <= c /\ c <= i /\ j < i
            \/ j <= c /\ c <= k /\ j < k
            \/ k <= c /\ c <= j /\ k < j
        BY <1>2, <3>1
      <4> QED BY <1>2, <2>1, <2>2, <4>1 DEF Hyphens
    <3> QED BY <2>4, <3>1 DEF Near, Hyphens
  <2> QED BY <1>2, <2>3, <2>4
<1> QED BY <1>1, <1>2

\* A run of s comes from one run of p.
LEMMA RunsStay ==
  ASSUME NEW p \in Text, NEW s \in Text, NEW f, Reduct(f, p, s),
         NEW j \in 1..Len(s), NEW k \in 1..Len(s), j < k, Hyphens(s, j, k)
  PROVE  Hyphens(p, f[j], f[k]) /\ f[j] < f[k]
<1>1. ASSUME NEW i \in 1..Len(p), f[j] <= i, i <= f[k], p[i] # "-" PROVE FALSE
  <2>1. PICK c \in 1..Len(s) : f[c] = i /\ s[c] # "-"
    BY <1>1, LetterStays
  <2>2. f[j] \in Int /\ f[k] \in Int /\ f[c] \in Int /\ s[j] = "-" /\ s[k] = "-"
    <3>1. j <= j /\ j <= k /\ k <= k
      OBVIOUS
    <3>2. s[j] = "-" /\ s[k] = "-"
      BY <3>1 DEF Hyphens
    <3>3. \A x \in 1..Len(s) : f[x] \in 1..Len(p)
      BY DEF Reduct
    <3> QED BY <2>1, <3>2, <3>3
  <2>3. f[j] < f[c] /\ f[c] < f[k]
    <3>1. c # j /\ c # k
      BY <2>1, <2>2
    <3>2. f[c] # f[j] /\ f[c] # f[k]
      BY <2>1, <2>2 DEF Reduct
    <3> QED BY <1>1, <2>1, <2>2, <3>2
  <2>4. j < c /\ c < k
    BY <2>3, OrderBack
  <2> QED BY <2>1, <2>4 DEF Hyphens
<1> QED BY <1>1 DEF Hyphens, Reduct

\* What is left after two reductions is left after one.
LEMMA ReductTrans ==
  ASSUME NEW p \in Text, NEW s \in Text, NEW t \in Text, NEW f, NEW g,
         Reduct(f, p, s), Reduct(g, s, t)
  PROVE  \E h : Reduct(h, p, t)
<1> DEFINE h == [k \in 1..Len(t) |-> f[g[k]]]
<1>1. \A k \in 1..Len(t) : g[k] \in 1..Len(s) /\ t[k] = s[g[k]]
  BY DEF Reduct
<1>2. \A k \in 1..Len(s) : f[k] \in 1..Len(p) /\ s[k] = p[f[k]]
  BY DEF Reduct
<1>3. h \in [1..Len(t) -> 1..Len(p)] /\ \A k \in 1..Len(t) : h[k] = f[g[k]] /\ t[k] = p[h[k]]
  BY <1>1, <1>2
<1> HIDE DEF h
<1>4. ASSUME NEW j \in 1..Len(t), NEW k \in 1..Len(t), j < k PROVE h[j] < h[k]
  <2>1. g[j] < g[k]
    BY <1>4 DEF Reduct
  <2>2. f[g[j]] < f[g[k]]
    BY <1>1, <2>1 DEF Reduct
  <2> QED BY <1>3, <2>2
<1>5. ASSUME NEW i \in 1..Len(p) PROVE \E k \in 1..Len(t) : Near(p, i, h[k])
  <2>1. PICK c \in 1..Len(s) : Near(p, i, f[c])
    BY DEF Reduct
  <2>2. PICK k \in 1..Len(t) : Near(s, c, g[k])
    BY DEF Reduct
  <2>3. g[k] \in 1..Len(s) /\ f[c] \in 1..Len(p) /\ f[g[k]] \in 1..Len(p)
    BY <1>1, <1>2
  <2>4. Near(p, f[c], f[g[k]])
    <3>1. CASE c = g[k]
      BY <3>1 DEF Near
    <3>2. CASE c < g[k] /\ Hyphens(s, c, g[k])
      BY <2>3, <3>2, RunsStay DEF Near
    <3>3. CASE g[k] < c /\ Hyphens(s, g[k], c)
      BY <2>3, <3>3, RunsStay DEF Near
    <3> QED BY <2>2, <3>1, <3>2, <3>3 DEF Near
  <2>5. Near(p, i, f[g[k]])
    BY <2>1, <2>3, <2>4, NearTrans
  <2> QED BY <1>3, <2>5
<1>6. Reduct(h, p, t)
  BY <1>3, <1>4, <1>5 DEF Reduct
<1> QED BY <1>6

\* One ReplaceAll leaves a hyphen of each run: the first of a pair.
LEMMA PairsReduce ==
  ASSUME NEW s \in Text
  PROVE  ReplacePairs(s) \in Text /\ \E f : Reduct(f, s, ReplacePairs(s))
<1> DEFINE S == DOMAIN s \ Second(s)
<1>1. PICK n \in Nat : n = Len(s) /\ DOMAIN s = 1..n
  BY DEF Text
<1>2. S \in SUBSET (1..Len(s))
  BY <1>1
<1>3. PICK t : t = ReplacePairs(s)
  OBVIOUS
<1>4. t = Keep(s, S)
  BY <1>3, Zenon DEF ReplacePairs
<1>5. \A i \in 1..n : i \notin S => i \in Second(s)
  BY <1>1
<1>6. ASSUME NEW i \in Second(s) PROVE i - 1 \in S /\ i \in 1..n /\ s[i] = "-" /\ s[i - 1] = "-"
  <2>1. PICK r \in 1..i : /\ \A j \in r..i : s[j] = "-"
                          /\ r = 1 \/ s[r - 1] # "-"
                          /\ (i - r) % 2 = 1
    BY DEF Second
  <2>2. i \in 1..n
    BY <1>1 DEF Second
  <2>3. r # i
    BY <2>1, <2>2
  <2>4. i - 1 \in 1..n /\ i - 1 \in r..i /\ i \in r..i
    BY <2>2, <2>3
  <2>5. i - 1 \notin Second(s)
    <3> SUFFICES ASSUME i - 1 \in Second(s) PROVE FALSE
      OBVIOUS
    <3>1. PICK q \in 1..(i - 1) : /\ \A j \in q..(i - 1) : s[j] = "-"
                                  /\ q = 1 \/ s[q - 1] # "-"
                                  /\ ((i - 1) - q) % 2 = 1
      BY DEF Second
    <3>2. ~(q < r)
      <4> SUFFICES ASSUME q < r PROVE FALSE
        OBVIOUS
      <4>1. r - 1 \in q..(i - 1) /\ r # 1
        BY <2>2, <2>3
      <4> QED BY <2>1, <3>1, <4>1
    <3>3. ~(r < q)
      <4> SUFFICES ASSUME r < q PROVE FALSE
        OBVIOUS
      <4>1. q - 1 \in r..i /\ q # 1
        BY <2>2, <2>3
      <4> QED BY <2>1, <3>1, <4>1
    <3>4. q = r
      BY <2>2, <3>2, <3>3
    <3>5. PICK d \in Int : d = i - r
      BY <2>2
    <3>6. d % 2 = 1 /\ (d - 1) % 2 = 1
      <4>1. (i - 1) - q = d - 1
        BY <2>2, <3>4, <3>5
      <4> QED BY <2>1, <3>1, <3>5, <4>1
    <3> QED BY <3>6
  <2> QED BY <1>1, <2>1, <2>2, <2>4, <2>5
<1> HIDE DEF S
<1>7. t \in Text /\ \E f : Picks(f, s, S, t)
  BY <1>2, <1>4, KeepPicks DEF Text
<1>8. PICK f : Picks(f, s, S, t)
  BY <1>7
<1>9. /\ \A j, k \in 1..Len(t) : j < k => f[j] < f[k]
      /\ \A i \in S : \E k \in 1..Len(t) : f[k] = i
      /\ \A k \in 1..Len(t) : t[k] = s[f[k]]
  BY <1>8 DEF Picks
<1>10. f \in [1..Len(t) -> 1..Len(s)]
  BY <1>2, <1>8 DEF Picks
<1>11. ASSUME NEW i \in 1..Len(s) PROVE \E k \in 1..Len(t) : Near(s, i, f[k])
  <2>1. CASE i \in S
    BY <1>9, <2>1 DEF Near
  <2>2. CASE i \notin S
    <3>1. i - 1 \in S /\ s[i] = "-" /\ s[i - 1] = "-" /\ i \in Int
      BY <1>1, <1>5, <1>6, <2>2
    <3>2. PICK k \in 1..Len(t) : f[k] = i - 1
      BY <1>9, <3>1
    <3>3. Hyphens(s, i - 1, i)
      <4>1. ASSUME NEW c \in 1..Len(s), i - 1 <= c, c <= i PROVE s[c] = "-"
        <5>1. c = i - 1 \/ c = i
          BY <3>1, <4>1
        <5> QED BY <3>1, <5>1
      <4> QED BY <4>1 DEF Hyphens
    <3>4. i - 1 < i
      BY <3>1
    <3> QED BY <3>2, <3>3, <3>4 DEF Near
  <2> QED BY <2>1, <2>2
<1>12. Reduct(f, s, t)
  BY <1>9, <1>10, <1>11 DEF Reduct
<1> QED BY <1>3, <1>7, <1>12

\* The positions of p that a slug shows.
ShownOf(p) ==
    {i \in DOMAIN p : p[i] = "-" => /\ i < Len(p)
                                    /\ p[i + 1] # "-"
                                    /\ \E j \in 1..(i - 1) : p[j] # "-"}

\* What is left between the first and the last letter, when no two hyphens meet,
\* is what a slug shows.
LEMMA TrimShows ==
  ASSUME NEW p \in Text, NEW s \in Text, NEW f, Reduct(f, p, s), ~Doubled(s)
  PROVE  Trim(s) \in Text /\ \E g : Picks(g, p, ShownOf(p), Trim(s))
<1>1. PICK n \in Nat, m \in Nat : n = Len(p) /\ DOMAIN p = 1..n /\ m = Len(s) /\ DOMAIN s = 1..m
  BY DEF Text
<1>2. /\ \A k \in 1..m : f[k] \in 1..n /\ s[k] = p[f[k]]
      /\ \A j, k \in 1..m : j < k => f[j] < f[k]
  BY <1>1 DEF Reduct
<1>3. \A i \in 1..n : p[i] # "-" => \E k \in 1..m : f[k] = i /\ s[k] # "-"
  BY <1>1, LetterStays
<1>4. \A k \in 1..m : k + 1 \in 1..m => ~(s[k] = "-" /\ s[k + 1] = "-")
  BY <1>1 DEF Doubled
<1> DEFINE L == {i \in DOMAIN s : s[i] # "-"}
           Stays == ShownOf(p)
<1>5. L \in SUBSET Nat /\ \A i : i \in L <=> i \in 1..m /\ s[i] # "-"
  BY <1>1
<1>6. PICK t : t = Trim(s)
  OBVIOUS
<1>7. t = IF L = {} THEN <<>> ELSE SubSeq(s, Min(L), Max(L))
  BY <1>6, Zenon DEF Trim
<1>8. \A i : i \in Stays <=> /\ i \in 1..n
                             /\ p[i] = "-" => /\ i < n /\ p[i + 1] # "-"
                                              /\ \E j \in 1..(i - 1) : p[j] # "-"
  BY <1>1 DEF ShownOf
<1> HIDE DEF L, Stays
<1>9. CASE L = {}
  <2>1. \A i \in 1..n : p[i] = "-"
    BY <1>3, <1>5, <1>9
  <2>2. Stays = {}
    <3> SUFFICES ASSUME NEW i \in Stays PROVE FALSE
      OBVIOUS
    <3>1. i \in 1..n /\ i < n /\ p[i + 1] # "-"
      BY <1>8, <2>1
    <3>2. i + 1 \in 1..n
      BY <3>1
    <3> QED BY <2>1, <3>1, <3>2
  <2> DEFINE none == [k \in 1..0 |-> k]
  <2>3. Picks(none, p, {}, <<>>)
    BY DEF Picks
  <2>4. t = <<>> /\ <<>> \in Text
    BY <1>7, <1>9 DEF Text
  <2> QED BY <1>6, <2>2, <2>3, <2>4 DEF Stays
<1>10. CASE L # {}
  <2>1. PICK a \in L, b \in L : \A i \in L : a <= i /\ i <= b
    <3>1. \E a \in L : \A i \in L : a <= i
      BY <1>5, <1>10, LeastIsThere
    <3>2. \E b \in L : \A i \in L : i <= b
      <4>1. \A i \in L : i <= m
        BY <1>5
      <4>2. L \in SUBSET Nat
        BY <1>5
      <4> QED BY <1>10, <4>1, <4>2, m \in Nat, GreatestIsThere
    <3> QED BY <3>1, <3>2
  <2>2. a \in 1..m /\ b \in 1..m /\ a <= b /\ s[a] # "-" /\ s[b] # "-"
    BY <1>5, <2>1
  <2>3. Min(L) = a /\ Max(L) = b
    <3>1. \A i \in L : i \in Nat
      BY <1>5
    <3>2. \A x \in L : (\A y \in L : x <= y) => x = a
      BY <2>1, <3>1
    <3>3. \A x \in L : (\A y \in L : x >= y) => x = b
      BY <2>1, <3>1
    <3>4. \A y \in L : a <= y /\ b >= y
      BY <2>1, <3>1
    <3> QED BY <2>1, <3>2, <3>3, <3>4 DEF Min, Max
  <2>4. PICK l \in Nat : l = b - a + 1
    BY <2>2
  <2>5. t \in Text /\ Len(t) = l /\ \A k \in 1..l : t[k] = s[(a - 1) + k]
    <3>1. t = SubSeq(s, a, b)
      BY <1>7, <1>10, <2>3
    <3>2. \A i \in a..b : i \in 1..m
      BY <2>2
    <3>3. \A i \in a..b : s[i] \in Chars
      BY <1>1, <3>2 DEF Text
    <3> QED BY <1>1, <2>2, <2>4, <3>1, <3>3, SubSeqProperties DEF Text
  <2>6. \A k \in 1..l : (a - 1) + k \in a..b
    BY <2>2, <2>4
  \* The place shown of the k-th character of s.
  <2> DEFINE h(k) == IF s[k] # "-" THEN f[k] ELSE f[k + 1] - 1
  <2>7. \A i \in 1..n : p[i] # "-" => \E k \in a..b : f[k] = i /\ s[k] # "-"
    <3> SUFFICES ASSUME NEW i \in 1..n, p[i] # "-" PROVE \E k \in a..b : f[k] = i /\ s[k] # "-"
      OBVIOUS
    <3>1. PICK k \in 1..m : f[k] = i /\ s[k] # "-"
      BY <1>3
    <3>2. a <= k /\ k <= b
      BY <1>5, <2>1, <3>1
    <3>3. k \in a..b
      BY <2>2, <3>2
    <3> QED BY <3>1, <3>3
  <2>8. ASSUME NEW k \in a..b, s[k] = "-"
        PROVE  /\ k + 1 \in a..b /\ a < k /\ s[k + 1] # "-"
               /\ f[k + 1] - 1 \in Stays /\ p[f[k + 1] - 1] = "-"
               /\ f[k] <= f[k + 1] - 1
    <3>1. k \in 1..m /\ a < k /\ k < b
      <4>1. k # a /\ k # b
        BY <2>2, <2>8
      <4> QED BY <2>2, <4>1
    <3>2. k + 1 \in a..b /\ k + 1 \in 1..m
      BY <2>2, <3>1
    <3>3. s[k + 1] # "-"
      BY <1>4, <2>8, <3>1, <3>2
    <3>4. PICK x \in Nat, q \in Nat : x = f[k] /\ q = f[k + 1] /\ x \in 1..n /\ q \in 1..n
      BY <1>2, <3>1, <3>2
    <3>5. x < q
      BY <1>2, <3>1, <3>2, <3>4
    <3>6. p[q - 1] = "-"
      <4> SUFFICES ASSUME p[q - 1] # "-" PROVE FALSE
        OBVIOUS
      <4>1. q - 1 \in 1..n
        BY <3>4, <3>5
      <4>2. PICK c \in 1..m : f[c] = q - 1 /\ s[c] # "-"
        BY <1>3, <4>1
      <4>3. c # k /\ x # q - 1
        BY <1>2, <2>8, <3>1, <3>4, <4>2
      <4>4. x < q - 1
        BY <3>4, <3>5, <4>3
      <4>5. f[k] < f[c] /\ f[c] < f[k + 1]
        BY <3>4, <4>2, <4>4
      <4>6. k < c /\ c < k + 1
        BY <1>1, <3>1, <3>2, <4>5, OrderBack
      <4> QED BY <3>1, <4>6
    <3>7. q - 1 \in Stays
      <4>1. q - 1 \in 1..n /\ q - 1 < n /\ (q - 1) + 1 = q
        BY <3>4, <3>5
      <4>2. p[q] # "-"
        BY <1>2, <3>2, <3>3, <3>4
      <4>3. f[a] \in 1..n /\ f[a] < x /\ p[f[a]] # "-"
        BY <1>2, <2>2, <3>1, <3>4
      <4>4. f[a] \in 1..((q - 1) - 1)
        BY <3>4, <3>5, <4>3
      <4> QED BY <1>8, <4>1, <4>2, <4>3, <4>4
    <3>8. f[k] <= f[k + 1] - 1
      BY <3>4, <3>5
    <3> QED BY <3>1, <3>2, <3>3, <3>4, <3>6, <3>7, <3>8
  <2>9. ASSUME NEW k \in a..b
        PROVE  /\ h(k) \in Stays /\ h(k) \in Nat /\ f[k] \in Nat
               /\ s[k] = p[h(k)] /\ f[k] <= h(k)
    <3>1. k \in 1..m
      BY <2>2
    <3>2. f[k] \in 1..n /\ s[k] = p[f[k]]
      BY <1>2, <3>1
    <3>3. CASE s[k] # "-"
      BY <1>8, <3>2, <3>3
    <3>4. CASE s[k] = "-"
      <4>1. h(k) \in Stays /\ p[h(k)] = "-" /\ f[k] <= h(k)
        BY <2>8, <3>4
      <4>2. h(k) \in 1..n
        BY <1>8, <4>1
      <4> QED BY <3>2, <3>4, <4>1, <4>2
    <3> QED BY <3>3, <3>4
  <2>10. ASSUME NEW j \in a..b, NEW k \in a..b, j < k PROVE h(j) < h(k)
    <3>1. j \in 1..m /\ j + 1 \in a..b /\ j + 1 \in 1..m /\ k \in 1..m
      BY <2>2, <2>10
    <3>2. f[j] \in Nat /\ f[j + 1] \in Nat /\ f[k] \in Nat /\ h(k) \in Nat /\ h(j) \in Nat
      BY <2>9, <3>1
    <3>3. h(j) < f[j + 1]
      BY <1>2, <3>1, <3>2
    <3>4. f[j + 1] <= f[k]
      <4>1. j + 1 = k \/ j + 1 < k
        BY <2>10, <3>1
      <4> QED BY <1>2, <3>1, <3>2, <4>1
    <3>5. f[k] <= h(k)
      BY <2>9
    <3> HIDE DEF h
    <3> QED BY <3>2, <3>3, <3>4, <3>5
  <2>11. ASSUME NEW i \in Stays PROVE \E k \in a..b : h(k) = i
    <3>1. i \in 1..n
      BY <1>8
    <3>2. CASE p[i] # "-"
      BY <2>7, <3>1, <3>2
    <3>3. CASE p[i] = "-"
      <4>1. i < n /\ p[i + 1] # "-" /\ \E j \in 1..(i - 1) : p[j] # "-"
        BY <1>8, <3>3
      <4>2. i + 1 \in 1..n
        BY <3>1, <4>1
      <4>3. PICK c \in a..b : f[c] = i + 1 /\ s[c] # "-"
        BY <2>7, <4>1, <4>2
      <4>4. PICK j \in 1..(i - 1) : p[j] # "-"
        BY <4>1
      <4>5. j \in 1..n /\ j < i
        BY <3>1
      <4>6. PICK d \in a..b : f[d] = j /\ s[d] # "-"
        BY <2>7, <4>4, <4>5
      <4>7. d \in 1..m /\ c \in 1..m /\ f[d] < f[c]
        BY <2>2, <3>1, <4>3, <4>5, <4>6
      <4>8. d < c
        BY <1>1, <4>7, OrderBack
      <4>9. c - 1 \in a..b /\ c - 1 \in 1..m /\ (c - 1) + 1 = c
        BY <2>2, <4>8
      <4>10. PICK k \in 1..m : Near(p, i, f[k])
        BY <1>1, <3>1 DEF Reduct
      <4>11. f[k] \in 1..n
        BY <1>2
      <4>12. f[k] <= i /\ \A x \in 1..n : f[k] <= x /\ x <= i => p[x] = "-"
        <5>1. ~(i < f[k] /\ Hyphens(p, i, f[k]))
          <6> SUFFICES ASSUME i < f[k], Hyphens(p, i, f[k]) PROVE FALSE
            OBVIOUS
          <6>1. i <= i + 1 /\ i + 1 <= f[k]
            BY <3>1, <4>11
          <6> QED BY <1>1, <4>1, <4>2, <6>1 DEF Hyphens
        <5>2. CASE i = f[k]
          <6>1. i <= i /\ \A x \in 1..n : i <= x /\ x <= i => x = i
            BY <3>1
          <6> QED BY <3>3, <5>2, <6>1
        <5>3. CASE f[k] < i /\ Hyphens(p, f[k], i)
          <6>1. f[k] <= i
            BY <3>1, <4>11, <5>3
          <6> QED BY <1>1, <5>3, <6>1 DEF Hyphens
        <5> QED BY <4>10, <5>1, <5>2, <5>3 DEF Near
      <4>13. f[k] < f[c]
        BY <3>1, <4>3, <4>11, <4>12
      <4>14. k < c
        BY <1>1, <4>7, <4>13, OrderBack
      <4>15. k = c - 1 \/ k < c - 1
        BY <4>9, <4>14
      <4>16. f[c - 1] \in 1..n /\ f[k] <= f[c - 1]
        BY <1>2, <4>9, <4>11, <4>15
      <4>17. f[c - 1] < f[c]
        <5>1. c - 1 < c
          BY <4>9
        <5> QED BY <1>2, <4>7, <4>9, <5>1
      <4>18. f[c - 1] <= i
        BY <3>1, <4>3, <4>16, <4>17
      <4>19. s[c - 1] = "-"
        BY <1>2, <4>9, <4>12, <4>16, <4>18
      <4>20. h(c - 1) = f[c] - 1 /\ f[c] - 1 = i
        BY <3>1, <4>3, <4>9, <4>19
      <4> QED BY <4>9, <4>20
    <3> QED BY <3>2, <3>3
  <2> HIDE DEF h
  <2> DEFINE g == [k \in 1..l |-> h((a - 1) + k)]
  <2>12. g \in [1..l -> Stays] /\ \A k \in 1..l : g[k] = h((a - 1) + k)
    BY <2>6, <2>9
  <2> HIDE DEF g
  <2>13. ASSUME NEW j \in 1..l, NEW k \in 1..l, j < k PROVE g[j] < g[k]
    <3>1. (a - 1) + j < (a - 1) + k
      BY <2>2, <2>13
    <3> QED BY <2>6, <2>10, <2>12, <3>1
  <2>14. ASSUME NEW i \in Stays PROVE \E k \in 1..l : g[k] = i
    <3>1. PICK k \in a..b : h(k) = i
      BY <2>11
    <3>2. k - (a - 1) \in 1..l /\ (a - 1) + (k - (a - 1)) = k
      BY <2>2, <2>4
    <3> QED BY <2>12, <3>1, <3>2
  <2>15. \A k \in 1..l : t[k] = p[g[k]]
    BY <2>5, <2>6, <2>9, <2>12
  <2>16. Picks(g, p, Stays, t)
    BY <2>5, <2>12, <2>13, <2>14, <2>15 DEF Picks
  <2> QED BY <1>6, <2>5, <2>16 DEF Stays
<1> QED BY <1>9, <1>10

\* What the string at hand is at each statement: a reduction of the name until
\* no two hyphens meet, and then what a slug shows of the name.
SlugInv ==
    /\ displayName \in Text
    /\ step # "done" => generated \in Text
    /\ step \in {"lower", "strip", "collapse", "trim", "cut", "done"}
    /\ step = "lower" => generated = displayName
    /\ step = "strip" => generated = Lower(displayName)
    /\ step \in {"collapse", "trim"} => \E f : Reduct(f, Plain, generated)
    /\ step = "trim" => ~Doubled(generated)
    /\ step = "cut" => generated = Keep(Plain, Shown)
    /\ SlugIsWordsJoined

\* The name as it is before hyphens are collapsed.
LEMMA PlainIsText ==
  ASSUME displayName \in Text
  PROVE  /\ Lower(displayName) \in Text
         /\ Plain \in Text /\ Plain = Strip(Hyphenate(Lower(displayName)))
<1>1. \A s \in Text : \E n \in Nat : n = Len(s) /\ DOMAIN s = 1..n /\ \A i \in 1..n : s[i] \in Chars
  BY DEF Text
<1>2. ASSUME NEW s \in Text PROVE Lower(s) \in Text
  <2>1. PICK n \in Nat : n = Len(s) /\ DOMAIN s = 1..n /\ \A i \in 1..n : s[i] \in Chars
    BY <1>1
  <2>2. Lower(s) \in [1..n -> Chars]
    BY <2>1 DEF Lower, Chars
  <2> QED BY <2>2 DEF Text
<1>3. ASSUME NEW s \in Text PROVE Hyphenate(s) \in Text
  <2>1. PICK n \in Nat : n = Len(s) /\ DOMAIN s = 1..n /\ \A i \in 1..n : s[i] \in Chars
    BY <1>1
  <2>2. Hyphenate(s) \in [1..n -> Chars]
    BY <2>1 DEF Hyphenate, Chars
  <2> QED BY <2>2 DEF Text
<1>4. ASSUME NEW s \in Text PROVE Strip(s) \in Text
  <2> DEFINE S == {i \in DOMAIN s : s[i] \in Kept}
  <2>1. S \in SUBSET (1..Len(s))
    BY <1>1
  <2>2. Strip(s) = Keep(s, S)
    BY DEF Strip
  <2> HIDE DEF S
  <2> QED BY <2>1, <2>2, KeepPicks DEF Text
<1> QED BY <1>2, <1>3, <1>4 DEF Plain

\* Nothing is taken from a string that is not.
LEMMA ReductWhole == ASSUME NEW p \in Text PROVE \E f : Reduct(f, p, p)
<1> DEFINE f == [k \in 1..Len(p) |-> k]
<1>1. f \in [1..Len(p) -> 1..Len(p)] /\ \A k \in 1..Len(p) : f[k] = k
  OBVIOUS
<1> HIDE DEF f
<1>2. Reduct(f, p, p)
  BY <1>1 DEF Reduct, Near
<1> QED BY <1>2

\* The statements keep it.
LEMMA SlugStep == ASSUME SlugInv, SlugNext PROVE SlugInv'
<1>1. /\ displayName \in Text /\ (step # "done" => generated \in Text) /\ displayName' = displayName
      /\ Plain' = Plain /\ Shown' = Shown
  <2>1. displayName' = displayName
    BY DEF SlugNext, ToLower, Replace, Collapse, Collapsed, TrimHyphens, Cut, Then
  <2>2. Plain' = Plain
    BY <2>1 DEF Plain
  <2>3. Shown' = Shown
    BY <2>2 DEF Shown
  <2> QED BY <2>1, <2>2, <2>3 DEF SlugInv
<1>2. Lower(displayName) \in Text /\ Plain \in Text /\ Plain = Strip(Hyphenate(Lower(displayName)))
  BY <1>1, PlainIsText
<1>3. CASE ToLower
  <2>1. step = "lower" /\ step' = "strip" /\ generated' = Lower(generated)
    BY <1>3 DEF ToLower, Then
  <2> QED BY <1>1, <1>2, <2>1 DEF SlugInv, SlugIsWordsJoined
<1>4. CASE Replace
  <2>1. step = "strip" /\ step' = "collapse" /\ generated' = Strip(Hyphenate(generated))
    BY <1>4 DEF Replace, Then
  <2>2. generated' = Plain
    BY <1>2, <2>1 DEF SlugInv
  <2>3. \E f : Reduct(f, Plain, generated')
    BY <1>2, <2>2, ReductWhole
  <2> QED BY <1>1, <1>2, <2>1, <2>2, <2>3 DEF SlugInv, SlugIsWordsJoined
<1>5. CASE Collapse
  <2>1. step = "collapse" /\ step' = "collapse" /\ generated' = ReplacePairs(generated)
    BY <1>5 DEF Collapse, Then
  <2>2. generated' \in Text /\ \E f : Reduct(f, generated, generated')
    BY <1>1, <2>1, PairsReduce
  <2>3. \E f : Reduct(f, Plain, generated)
    BY <2>1 DEF SlugInv
  <2>4. \E f : Reduct(f, Plain, generated')
    BY <1>1, <1>2, <2>1, <2>2, <2>3, ReductTrans
  <2> QED BY <1>1, <2>1, <2>2, <2>4 DEF SlugInv, SlugIsWordsJoined
<1>6. CASE Collapsed
  <2>1. step = "collapse" /\ step' = "trim" /\ generated' = generated /\ ~Doubled(generated)
    BY <1>6 DEF Collapsed, Then
  <2> QED BY <1>1, <2>1 DEF SlugInv, SlugIsWordsJoined
<1>7. CASE TrimHyphens
  <2>1. step = "trim" /\ step' = "cut" /\ generated' = Trim(generated)
    BY <1>7 DEF TrimHyphens, Then
  <2>2. PICK p, t, S, u : p = Plain /\ t = Trim(generated) /\ S = Shown /\ u = Keep(p, S)
    OBVIOUS
  <2>3. t \in Text /\ \E g : Picks(g, p, ShownOf(p), t)
    BY <1>1, <1>2, <2>1, <2>2, TrimShows DEF SlugInv
  <2>4. S = ShownOf(p)
    BY <2>2 DEF ShownOf, Shown
  <2>5. S \in SUBSET (1..Len(p)) /\ S \in SUBSET Nat
    <3>1. DOMAIN p = 1..Len(p) /\ 1..Len(p) \subseteq Nat
      BY <1>2, <2>2 DEF Text
    <3> QED BY <2>4, <3>1 DEF ShownOf
  <2>6. u \in Text /\ \E g : Picks(g, p, S, u)
    BY <1>2, <2>2, <2>5, KeepPicks DEF Text
  <2>7. t = u
    BY <2>3, <2>4, <2>5, <2>6, PicksUnique DEF Text
  <2> QED BY <1>1, <2>1, <2>2, <2>3, <2>7 DEF SlugInv, SlugIsWordsJoined
<1>8. CASE Cut
  <2>1. step = "cut" /\ step' = "done" /\ generated' = Truncate(generated)
    BY <1>8 DEF Cut, Then
  <2>2. PICK t, u : t = generated /\ u = generated' /\ t \in Text
    BY <1>1, <2>1
  <2>5. SubSeq(t, 1, Len(t)) = t
    BY <2>2, SubSeqFull DEF Text
  <2>3. u = SubSeq(t, 1, IF Len(t) > MaxSlug THEN MaxSlug ELSE Len(t))
    BY <2>1, <2>2, <2>5 DEF Truncate
  <2>4. t = Keep(Plain, Shown)
    BY <2>1, <2>2 DEF SlugInv
  <2> QED BY <1>1, <2>1, <2>2, <2>3, <2>4 DEF SlugInv, SlugIsWordsJoined
<1> QED BY <1>3, <1>4, <1>5, <1>6, <1>7, <1>8 DEF SlugNext

\* The slug of a name of any length, under any limit, is its words joined by
\* single hyphens and cut.
THEOREM SlugOfWords == SlugSpec => []SlugIsWordsJoined
<1>1. SlugInit => SlugInv
  <2> SUFFICES ASSUME SlugInit PROVE SlugInv
    OBVIOUS
  <2>1. PICK k \in 0..MaxName : displayName \in [1..k -> Chars]
    BY DEF SlugInit, SeqsUpTo
  <2>3. k \in Nat
    BY <2>1
  <2>4. displayName \in Text
    BY <2>1, <2>3 DEF Text
  <2> QED BY <2>4 DEF SlugInit, SlugInv, SlugIsWordsJoined
<1>2. SlugInv /\ [SlugNext]_slugVars => SlugInv'
  <2>1. ASSUME SlugInv, SlugNext PROVE SlugInv'
    BY <2>1, SlugStep
  <2>2. ASSUME SlugInv, UNCHANGED slugVars PROVE SlugInv'
    <3>1. displayName' = displayName /\ generated' = generated /\ step' = step
      BY <2>2 DEF slugVars
    <3>2. Plain' = Plain
      BY <3>1 DEF Plain
    <3>3. Shown' = Shown
      BY <3>2 DEF Shown
    <3> QED BY <2>2, <3>1, <3>2, <3>3 DEF SlugInv, SlugIsWordsJoined
  <2> QED BY <2>1, <2>2
<1>3. SlugInv => SlugIsWordsJoined
  BY DEF SlugInv
<1> QED BY <1>1, <1>2, <1>3, PTL DEF SlugSpec

=============================================================================
