-------------------------------- MODULE Slug --------------------------------
(***************************************************************************)
(* seed/main.go, generateSlug: the slug, and with it the database name, of *)
(* a tenant whose tenants.yaml has only a display name.  A character is    *)
(* what the algorithm tells apart: a letter or digit in lower case, one in *)
(* upper case, a separator that becomes a hyphen, a hyphen, and one that   *)
(* is dropped.  Trimming white space has no effect of its own: what it     *)
(* removes would be dropped, or trimmed as a hyphen.  Its names are its    *)
(* own, so that SeedLoadProofs extends it beside SeedLoad.                 *)
(***************************************************************************)
EXTENDS Integers, SequencesExt, FiniteSetsExt

CONSTANTS
    MaxName,  \* bound: length of a display name
    MaxSlug   \* 63 in the code, the limit of PostgreSQL

ASSUME SlugAssumption == MaxName \in Nat /\ MaxSlug \in Nat \ {0}

Chars == {"a", "b", "B", " ", "-", "'"}
Kept == {"a", "b", "-"}

\* All sequences of up to n elements of S.
SeqsUpTo(S, n) == UNION {[1..k -> S] : k \in 0..n}

-----------------------------------------------------------------------------
(* The steps of the algorithm. *)

\* The elements of s at the positions in S, in their order.
Keep(s, S) == FlattenSeq([i \in DOMAIN s |-> IF i \in S THEN <<s[i]>> ELSE <<>>])

Lower(s) == [i \in DOMAIN s |-> IF s[i] = "B" THEN "b" ELSE s[i]]

\* The replacer turns separators into hyphens and drops what the loop below
\* would drop.
Hyphenate(s) == [i \in DOMAIN s |-> IF s[i] = " " THEN "-" ELSE s[i]]
Strip(s) == Keep(s, {i \in DOMAIN s : s[i] \in Kept})

Doubled(s) == \E i \in 1..(Len(s) - 1) : s[i] = "-" /\ s[i + 1] = "-"

\* One strings.ReplaceAll(s, "--", "-"): pairs are found from left to right, so
\* that every second hyphen of a run goes.
Second(s) ==
    {i \in DOMAIN s :
        \E r \in 1..i : /\ \A j \in r..i : s[j] = "-"
                        /\ r = 1 \/ s[r - 1] # "-"
                        /\ (i - r) % 2 = 1}
ReplacePairs(s) == Keep(s, DOMAIN s \ Second(s))

\* strings.Trim(s, "-").
Trim(s) ==
    LET letters == {i \in DOMAIN s : s[i] # "-"}
    IN  IF letters = {} THEN <<>> ELSE SubSeq(s, Min(letters), Max(letters))

Truncate(s) == IF Len(s) > MaxSlug THEN SubSeq(s, 1, MaxSlug) ELSE s

-----------------------------------------------------------------------------
(* The algorithm, one statement a step. *)

VARIABLES
    displayName,  \* the display name
    generated,    \* s
    step          \* the statement to come

slugVars == <<displayName, generated, step>>

SlugInit ==
    /\ displayName \in SeqsUpTo(Chars, MaxName)
    /\ generated = displayName
    /\ step = "lower"

Then(at, next, s) ==
    /\ step = at
    /\ step' = next
    /\ generated' = s
    /\ UNCHANGED displayName

ToLower == Then("lower", "strip", Lower(generated))
Replace == Then("strip", "collapse", Strip(Hyphenate(generated)))

\* Mutant of Collapse: if in the place of for.
CollapseOnce == Then("collapse", "trim", ReplacePairs(generated))

Collapse == Doubled(generated) /\ Then("collapse", "collapse", ReplacePairs(generated))
Collapsed == ~Doubled(generated) /\ Then("collapse", "trim", generated)
TrimHyphens == Then("trim", "cut", Trim(generated))
Cut == Then("cut", "done", Truncate(generated))

SlugNext == ToLower \/ Replace \/ Collapse \/ Collapsed \/ TrimHyphens \/ Cut

SlugSpec == SlugInit /\ [][SlugNext]_slugVars

-----------------------------------------------------------------------------
(* Properties. *)

\* The characters of the name that are kept, and which of them a slug shows: a
\* letter, or the last hyphen before a letter when a letter came before.
Plain == Strip(Hyphenate(Lower(displayName)))
Shown ==
    {i \in DOMAIN Plain :
        Plain[i] = "-" => /\ i < Len(Plain)
                          /\ Plain[i + 1] # "-"
                          /\ \E j \in 1..(i - 1) : Plain[j] # "-"}

\* "lowercase, hyphens for spaces, strip special chars ... max 63 chars": the
\* words of the name, joined by single hyphens and cut to the maximum.
SlugIsWordsJoined ==
    step = "done" =>
        LET full == Keep(Plain, Shown)
        IN  generated = SubSeq(full, 1, IF Len(full) > MaxSlug THEN MaxSlug ELSE Len(full))

=============================================================================
