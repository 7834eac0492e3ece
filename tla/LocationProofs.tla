--------------------------- MODULE LocationProofs ---------------------------
(***************************************************************************)
(* For any number of contacts, added classes, runs and ids: V1.43 leaves   *)
(* the classes and tables it promises, and no statement takes an address   *)
(* from a contact or changes its class, except that LedgerSMB's table goes *)
(* with its rows.                                                          *)
(*                                                                         *)
(* The heart is Linked: from the moment the new table exists, ids 1 and 2  *)
(* have their final meaning, and V1.33 gets past its first statement only  *)
(* where LedgerSMB's classes are not, so that it writes over nothing that  *)
(* is linked; the statements of V1.43 that move a class are held back by   *)
(* the foreign key (PinKeeps).                                             *)
(***************************************************************************)
EXTENDS LocationClass, WellFoundedInduction, TLAPS

\* Ids 1 and 2 mean what the application takes them for.
ClassesPinned ==
    /\ {1, 2} \subseteq DOMAIN class
    /\ class[1] = "billing" /\ class[2] = "shipping"

\* No id in use is beyond the sequence.
SequenceAhead == \A id \in DOMAIN class : id <= seq

\* LedgerSMB's third class, which V1.33 cannot write over.
LegacyClass == 3 \in DOMAIN class /\ class[3] = "shipping"

\* The new table exists only on pinned classes, LedgerSMB's only on its classes
\* while V1.33 has no row.
Linked ==
    /\ shape = "ledgius" \/ pc \in {"createLinks", "setSequence", "reshape"} => ClassesPinned
    /\ shape = "none" => \A c \in Contacts, id \in Ids : links[c][id] = 0
    /\ shape = "ledgersmb" /\ "V1.33" \notin recorded => LegacyClass
    /\ pc \in V133 => "V1.33" \notin recorded
    /\ pc \in V143 => "V1.33" \in recorded
    /\ index => PrimaryUnique

\* What the statements of V1.43 have behind them.
Progress ==
    /\ pc \in {"reshape", "reindex", "recreateChannels", "record143"} => SequenceAhead
    /\ pc \in {"reindex", "recreateChannels", "record143"} => shape = "ledgius"
    /\ pc \in {"recreateChannels", "record143"} => index
    /\ pc = "record143" => channels

\* What the row of V1.43 stands for.
Done ==
    "V1.43" \in recorded =>
        pc = "off" /\ SequenceAhead /\ shape = "ledgius" /\ index /\ channels

IInv == TypeOK /\ Linked /\ Progress /\ Done

\* What a step of a script keeps (the body of LinksKeepTheirClass).
KeepsClass ==
    /\ links' = links \/ (shape = "ledgersmb" /\ shape' = "ledgius")
    /\ \A c \in Contacts, id \in DOMAIN class : links[c][id] > 0 =>
          id \in DOMAIN class' /\ class'[id] = class[id]

-----------------------------------------------------------------------------
\* A set of ids that is not empty has a greatest one.
LEMMA MaxIsGreatest ==
  ASSUME NEW S, S \subseteq Ids, S # {}
  PROVE  Max(S) \in S /\ \A y \in S : y <= Max(S)
<1> DEFINE D == {MaxId - y : y \in S}
<1>1. D \subseteq Nat /\ D # {}
  <2>1. \A y \in S : MaxId - y \in Nat
    BY LocationAssumption DEF Ids
  <2> QED BY <2>1
<1>2. PICK d \in D : \A e \in D : <<e, d>> \notin OpToRel(<, Nat)
  BY <1>1, NatLessThanWellFounded, WFMin, Zenon
<1>3. PICK x \in S : d = MaxId - x
  OBVIOUS
<1>4. ASSUME NEW y \in S PROVE x >= y
  <2>1. <<MaxId - y, d>> \notin {ss \in Nat \X Nat : ss[1] < ss[2]}
    BY <1>2 DEF OpToRel
  <2>2. MaxId - y \in Nat /\ d \in Nat /\ x \in Nat /\ y \in Nat
    BY <1>1, LocationAssumption DEF Ids
  <2> QED BY <1>3, <2>1, <2>2, LocationAssumption
<1>5. \E x_1 \in S : \A y \in S : x_1 >= y
  BY <1>4
<1>6. Max(S) \in S /\ \A y \in S : Max(S) >= y
  BY <1>5 DEF Max
<1> QED BY <1>6, LocationAssumption DEF Ids

\* The classes are not touched.
LEMMA ClassesKept ==
  ASSUME UNCHANGED <<class, links>>
  PROVE  KeepsClass
BY DEF KeepsClass

-----------------------------------------------------------------------------
(* The steps that leave the classes and the links alone. *)

\* The runner starts.
LEMMA RunKeeps ==
  ASSUME IInv, Run
  PROVE  IInv' /\ KeepsClass
<1>1. TypeOK'
  BY LocationAssumption DEF IInv, TypeOK, V133, V143, Run, tables
<1>2. Linked'
  BY DEF IInv, TypeOK, Linked, LegacyClass, V133, V143, PrimaryUnique, ClassesPinned,
     Run, tables
<1>3. Progress'
  BY DEF IInv, Progress, SequenceAhead, Run, tables
<1>4. Done'
  BY DEF IInv, Done, SequenceAhead, Run, tables
<1>5. KeepsClass
  BY ClassesKept DEF Run, tables
<1> QED BY <1>1, <1>2, <1>3, <1>4, <1>5 DEF IInv

\* The operator enters the row of V1.33.
LEMMA EnterRowKeeps ==
  ASSUME IInv, EnterRow
  PROVE  IInv' /\ KeepsClass
<1>1. TypeOK'
  BY DEF IInv, TypeOK, V133, V143, Ids, EnterRow, tables
<1>2. Linked'
  BY DEF IInv, TypeOK, Linked, LegacyClass, V133, V143, PrimaryUnique, ClassesPinned,
     EnterRow, tables
<1>3. Progress'
  BY DEF IInv, Progress, SequenceAhead, EnterRow, tables
<1>4. Done'
  BY DEF IInv, Done, SequenceAhead, EnterRow, tables
<1>5. KeepsClass
  BY ClassesKept DEF EnterRow, tables
<1> QED BY <1>1, <1>2, <1>3, <1>4, <1>5 DEF IInv

\* The row of V1.33.
LEMMA Record133Keeps ==
  ASSUME IInv, Record133
  PROVE  IInv' /\ KeepsClass
<1>1. TypeOK'
  BY DEF IInv, TypeOK, V133, V143, Ids, Record133, tables
<1>2. Linked'
  BY DEF IInv, TypeOK, Linked, LegacyClass, V133, V143, PrimaryUnique, ClassesPinned,
     Record133, tables
<1>3. Progress'
  BY DEF IInv, Progress, SequenceAhead, Record133, tables
<1>4. Done'
  BY DEF IInv, Done, SequenceAhead, Record133, tables
<1>5. KeepsClass
  BY ClassesKept DEF Record133, tables
<1> QED BY <1>1, <1>2, <1>3, <1>4, <1>5 DEF IInv

\* The row of V1.43, once its statements are behind it.
LEMMA Record143Keeps ==
  ASSUME IInv, Record143
  PROVE  IInv' /\ KeepsClass
<1>1. TypeOK'
  BY DEF IInv, TypeOK, V133, V143, Ids, Record143, tables
<1>2. Linked'
  BY DEF IInv, TypeOK, Linked, LegacyClass, V133, V143, PrimaryUnique, ClassesPinned,
     Record143, tables
<1>3. Progress'
  BY DEF IInv, Progress, SequenceAhead, Record143, tables
<1>4. Done'
  BY DEF IInv, Done, SequenceAhead, Record143, tables, Progress, Linked
<1>5. KeepsClass
  BY ClassesKept DEF Record143, tables
<1> QED BY <1>1, <1>2, <1>3, <1>4, <1>5 DEF IInv

\* A run that ends before its row changes nothing else.
LEMMA StopKeeps ==
  ASSUME IInv,
         Crash \/ SeedRefused \/ IndexRefused \/ DeleteRefused \/ PinRefused \/ ReindexRefused
  PROVE  IInv' /\ KeepsClass
<1>1. TypeOK'
  BY DEF IInv, TypeOK, V133, V143, Ids, Crash, SeedRefused, IndexRefused,
     DeleteRefused, PinRefused, ReindexRefused, Stop, tables
<1>2. Linked'
  BY DEF IInv, TypeOK, Linked, LegacyClass, V133, V143, PrimaryUnique, ClassesPinned,
     Crash, SeedRefused, IndexRefused, DeleteRefused, PinRefused, ReindexRefused, Stop,
     tables
<1>3. Progress'
  BY DEF IInv, Progress, SequenceAhead, Crash, SeedRefused, IndexRefused,
     DeleteRefused, PinRefused, ReindexRefused, Stop, tables
<1>4. Done'
  BY DEF IInv, Done, SequenceAhead, Crash, SeedRefused, IndexRefused, DeleteRefused,
     PinRefused, ReindexRefused, Stop, tables
<1>5. KeepsClass
  BY ClassesKept DEF Crash, SeedRefused, IndexRefused, DeleteRefused, PinRefused,
     ReindexRefused, Stop, tables
<1> QED BY <1>1, <1>2, <1>3, <1>4, <1>5 DEF IInv

\* The table of links is created where there is none.
LEMMA CreateLinksKeeps ==
  ASSUME IInv, CreateLinks
  PROVE  IInv' /\ KeepsClass
<1>1. TypeOK'
  BY DEF IInv, TypeOK, V133, V143, Ids, CreateLinks, Goto
<1>2. Linked'
  BY DEF IInv, TypeOK, Linked, LegacyClass, V133, V143, PrimaryUnique, ClassesPinned,
     CreateLinks, Goto
<1>3. Progress'
  BY DEF IInv, Progress, SequenceAhead, CreateLinks, Goto
<1>4. Done'
  BY DEF IInv, Done, SequenceAhead, CreateLinks, Goto
<1>5. KeepsClass
  BY ClassesKept DEF CreateLinks, Goto
<1> QED BY <1>1, <1>2, <1>3, <1>4, <1>5 DEF IInv

\* The index is created on rows that satisfy it.
LEMMA IndexLinksKeeps ==
  ASSUME IInv, IndexLinks \/ Reindex
  PROVE  IInv' /\ KeepsClass
<1>1. TypeOK'
  BY DEF IInv, TypeOK, V133, V143, Ids, IndexLinks, Reindex, Goto, Indexable
<1>2. Linked'
  BY DEF IInv, TypeOK, Linked, LegacyClass, V133, V143, PrimaryUnique, ClassesPinned,
     IndexLinks, Reindex, Goto, Indexable
<1>3. Progress'
  BY DEF IInv, Progress, SequenceAhead, IndexLinks, Reindex, Goto, Indexable,
     Indexable, TypeOK
<1>4. Done'
  BY DEF IInv, Done, SequenceAhead, IndexLinks, Reindex, Goto, Indexable, Progress
<1>5. KeepsClass
  BY ClassesKept DEF IndexLinks, Reindex, Goto, Indexable
<1> QED BY <1>1, <1>2, <1>3, <1>4, <1>5 DEF IInv

\* The table of channels, in V1.33.
LEMMA CreateChannelsKeeps ==
  ASSUME IInv, CreateChannels
  PROVE  IInv' /\ KeepsClass
<1>1. TypeOK'
  BY DEF IInv, TypeOK, V133, V143, Ids, CreateChannels, Goto
<1>2. Linked'
  BY DEF IInv, TypeOK, Linked, LegacyClass, V133, V143, PrimaryUnique, ClassesPinned,
     CreateChannels, Goto
<1>3. Progress'
  BY DEF IInv, Progress, SequenceAhead, CreateChannels, Goto
<1>4. Done'
  BY DEF IInv, Done, SequenceAhead, CreateChannels, Goto
<1>5. KeepsClass
  BY ClassesKept DEF CreateChannels, Goto
<1> QED BY <1>1, <1>2, <1>3, <1>4, <1>5 DEF IInv

\* The rows that refer to every class are deleted.
LEMMA ClearLegacyKeeps ==
  ASSUME IInv, ClearLegacy
  PROVE  IInv' /\ KeepsClass
<1>1. TypeOK'
  BY DEF IInv, TypeOK, V133, V143, Ids, ClearLegacy, Goto
<1>2. Linked'
  BY DEF IInv, TypeOK, Linked, LegacyClass, V133, V143, PrimaryUnique, ClassesPinned,
     ClearLegacy, Goto
<1>3. Progress'
  BY DEF IInv, Progress, SequenceAhead, ClearLegacy, Goto
<1>4. Done'
  BY DEF IInv, Done, SequenceAhead, ClearLegacy, Goto
<1>5. KeepsClass
  BY ClassesKept DEF ClearLegacy, Goto
<1> QED BY <1>1, <1>2, <1>3, <1>4, <1>5 DEF IInv

\* The table of channels, in V1.43.
LEMMA RecreateChannelsKeeps ==
  ASSUME IInv, RecreateChannels
  PROVE  IInv' /\ KeepsClass
<1>1. TypeOK'
  BY DEF IInv, TypeOK, V133, V143, Ids, RecreateChannels, Goto
<1>2. Linked'
  BY DEF IInv, TypeOK, Linked, LegacyClass, V133, V143, PrimaryUnique, ClassesPinned,
     RecreateChannels, Goto
<1>3. Progress'
  BY DEF IInv, Progress, SequenceAhead, RecreateChannels, Goto
<1>4. Done'
  BY DEF IInv, Done, SequenceAhead, RecreateChannels, Goto
<1>5. KeepsClass
  BY ClassesKept DEF RecreateChannels, Goto
<1> QED BY <1>1, <1>2, <1>3, <1>4, <1>5 DEF IInv

-----------------------------------------------------------------------------
(* The statements that move a class or a link. *)

\* V1.33 writes both classes over what is there, which changes the meaning
\* of nothing that is linked.
LEMMA SeedClassesKeeps ==
  ASSUME IInv, SeedClasses
  PROVE  IInv' /\ KeepsClass
<1>1. TypeOK'
  <2>1. DOMAIN Upserted = DOMAIN class \cup {1, 2} /\ {1, 2} \subseteq Ids
    BY LocationAssumption DEF Upserted, Ids
  <2>2. /\ Upserted[1] = "billing" /\ Upserted[2] = "shipping"
        /\ \A id \in DOMAIN class \ {1, 2} : Upserted[id] = class[id]
    BY DEF Upserted
  <2>3. \A id \in DOMAIN class \ {1, 2} : class[id] \notin {"billing", "shipping"}
    BY DEF SeedClasses, ClassesFit, IdOf
  <2>4. Upserted \in [DOMAIN Upserted -> {"billing", "sales", "shipping"} \cup Added]
    BY DEF IInv, TypeOK, Upserted
  <2>5. \A i, j \in DOMAIN Upserted : Upserted[i] = Upserted[j] => i = j
    BY <2>1, <2>2, <2>3 DEF IInv, TypeOK
  <2>6. class' = Upserted
    BY DEF SeedClasses
  <2> QED BY <2>1, <2>4, <2>5, <2>6 DEF IInv, TypeOK, V133, V143, SeedClasses, Goto
<1>2. Linked'
  BY DEF IInv, TypeOK, Linked, LegacyClass, V133, V143, PrimaryUnique, ClassesPinned,
     SeedClasses, Upserted, Goto, ClassesFit, IdOf
<1>3. Progress'
  BY DEF IInv, Progress, SequenceAhead, SeedClasses, Goto
<1>4. Done'
  BY DEF IInv, Done, SequenceAhead, SeedClasses, Goto
<1>5. KeepsClass
  <2>1. shape # "ledgersmb"
    BY DEF IInv, TypeOK, Linked, LegacyClass, V133, SeedClasses, ClassesFit, IdOf
  <2>2. \A c \in Contacts, id \in DOMAIN class : links[c][id] > 0 => ClassesPinned
    BY <2>1 DEF IInv, TypeOK, Linked
  <2> QED BY <2>2 DEF KeepsClass, ClassesPinned, SeedClasses, Upserted, Goto
<1> QED BY <1>1, <1>2, <1>3, <1>4, <1>5 DEF IInv

\* Only classes that nothing refers to are deleted.
LEMMA DeleteOthersKeeps ==
  ASSUME IInv, DeleteOthers
  PROVE  IInv' /\ KeepsClass
<1>1. TypeOK'
  <2> DEFINE ids == DOMAIN class \ Others
  <2>1. class' = [id \in ids |-> class[id]]
    BY DEF DeleteOthers, Keep
  <2>2. DOMAIN class' = ids /\ \A id \in ids : class'[id] = class[id]
    BY <2>1
  <2>3. class' \in [DOMAIN class' -> {"billing", "sales", "shipping"} \cup Added]
    BY <2>1, <2>2 DEF IInv, TypeOK
  <2>4. \A c \in Contacts, id \in Ids : links[c][id] > 0 => id \in ids
    BY DEF IInv, TypeOK, DeleteOthers, Referred
  <2>5. /\ UNCHANGED <<seq, legacy, shape, links, index, channels, recorded, exit, runs>>
        /\ pc' = "pinClasses"
    BY DEF DeleteOthers, Goto
  <2> HIDE DEF ids
  <2>6. ids \subseteq DOMAIN class
    BY DEF ids
  <2> QED BY <2>2, <2>3, <2>4, <2>5, <2>6 DEF IInv, TypeOK, V133, V143
<1>2. Linked'
  BY DEF IInv, TypeOK, Linked, LegacyClass, V133, V143, PrimaryUnique, ClassesPinned,
     DeleteOthers, Goto, Keep, Others
<1>3. Progress'
  BY DEF IInv, Progress, SequenceAhead, DeleteOthers, Goto, Keep, Others
<1>4. Done'
  BY DEF IInv, Done, SequenceAhead, DeleteOthers, Goto, Keep, Others
<1>5. KeepsClass
  <2>1. \A c \in Contacts, id \in DOMAIN class : links[c][id] > 0 => id \notin Others
    BY DEF IInv, TypeOK, DeleteOthers, Referred
  <2> QED BY <2>1 DEF KeepsClass, DeleteOthers, Keep, Goto
<1> QED BY <1>1, <1>2, <1>3, <1>4, <1>5 DEF IInv

\* Pinning a class twice, at two ids, leaves both where they were put; what was
\* already at its id stays, and so does every other row.
LEMMA PinnedClasses ==
  ASSUME IInv
  PROVE  LET new == Pinned("shipping", 2, Pinned("billing", 1, class)) IN
         /\ DOMAIN new \subseteq DOMAIN class \cup {1, 2}
         /\ {1, 2} \subseteq DOMAIN new /\ new[1] = "billing" /\ new[2] = "shipping"
         /\ \A id \in DOMAIN new \ {1, 2} :
               new[id] = class[id] /\ class[id] \notin {"billing", "shipping"}
         /\ new \in [DOMAIN new -> {"billing", "sales", "shipping"} \cup Added]
<1> DEFINE one == Pinned("billing", 1, class)
           new == Pinned("shipping", 2, one)
<1>1. /\ DOMAIN one = {1} \cup {j \in DOMAIN class : class[j] # "billing"}
      /\ \A i \in DOMAIN one : one[i] = IF i = 1 THEN "billing" ELSE class[i]
  BY DEF Pinned
<1> HIDE DEF one
<1>2. /\ DOMAIN new = {2} \cup {j \in DOMAIN one : one[j] # "shipping"}
      /\ \A i \in DOMAIN new : new[i] = IF i = 2 THEN "shipping" ELSE one[i]
      /\ new = [i \in DOMAIN new |-> new[i]]
  BY DEF Pinned
<1> HIDE DEF new
<1>3. /\ DOMAIN new \subseteq DOMAIN class \cup {1, 2}
      /\ {1, 2} \subseteq DOMAIN new /\ new[1] = "billing" /\ new[2] = "shipping"
      /\ \A id \in DOMAIN new \ {1, 2} :
            new[id] = class[id] /\ class[id] \notin {"billing", "shipping"}
  BY <1>1, <1>2
<1>4. \A id \in DOMAIN new : new[id] \in {"billing", "sales", "shipping"} \cup Added
  BY <1>3 DEF IInv, TypeOK
<1>5. new \in [DOMAIN new -> {"billing", "sales", "shipping"} \cup Added]
  BY <1>2, <1>4
<1> QED BY <1>3, <1>5 DEF new, one

\* A row that others refer to neither moves nor goes.
LEMMA PinKeeps ==
  ASSUME NEW name, NEW id, NEW rows, NEW j \in DOMAIN rows,
         Pinnable(name, id, rows), Referred(j)
  PROVE  j \in DOMAIN Pinned(name, id, rows) /\ Pinned(name, id, rows)[j] = rows[j]
<1> DEFINE now == {i \in DOMAIN rows : rows[i] = name}
<1>1. now = {} => j # id
  BY DEF Pinnable
<1>2. now \notin {{}, {id}} => j \notin now \cup {id}
  BY DEF Pinnable
<1>3. j = id => rows[j] = name
  BY <1>1, <1>2
<1>4. j # id => rows[j] # name
  BY <1>1, <1>2
<1> QED BY <1>3, <1>4 DEF Pinned

\* Both classes are pinned, and every row that is referred to stays.
LEMMA BothPinsKeep ==
  ASSUME IInv, PinClasses, NEW j \in DOMAIN class, Referred(j)
  PROVE  j \in DOMAIN class' /\ class'[j] = class[j]
<1> DEFINE one == Pinned("billing", 1, class)
<1>1. j \in DOMAIN one /\ one[j] = class[j]
  BY PinKeeps DEF PinClasses
<1>2. Pinnable("shipping", 2, one) /\ class' = Pinned("shipping", 2, one)
  BY DEF PinClasses
<1> HIDE DEF one
<1> QED BY <1>1, <1>2, PinKeeps

\* The classes are pinned, and no class that is linked moves.
LEMMA PinClassesKeeps ==
  ASSUME IInv, PinClasses
  PROVE  IInv' /\ KeepsClass
<1>1. TypeOK'
  <2>1. /\ DOMAIN class' \subseteq DOMAIN class \cup {1, 2}
        /\ {1, 2} \subseteq DOMAIN class' /\ class'[1] = "billing" /\ class'[2] = "shipping"
        /\ \A id \in DOMAIN class' \ {1, 2} :
              class'[id] = class[id] /\ class[id] \notin {"billing", "shipping"}
        /\ class' \in [DOMAIN class' -> {"billing", "sales", "shipping"} \cup Added]
    BY PinnedClasses DEF PinClasses
  <2>2. DOMAIN class' \subseteq Ids
    BY <2>1, LocationAssumption DEF IInv, TypeOK, Ids
  <2>3. \A i, j \in DOMAIN class' : class'[i] = class'[j] => i = j
    BY <2>1 DEF IInv, TypeOK
  <2>4. \A c \in Contacts, id \in Ids : links[c][id] > 0 => id \in DOMAIN class'
    BY BothPinsKeep DEF IInv, TypeOK, Referred
  <2>5. /\ UNCHANGED <<seq, legacy, shape, links, index, channels, recorded, exit, runs>>
        /\ pc' = "setSequence"
    BY DEF PinClasses, Goto
  <2> QED BY <2>1, <2>2, <2>3, <2>4, <2>5 DEF IInv, TypeOK, V133, V143
<1>2. Linked'
  <2>1. ClassesPinned'
    BY PinnedClasses DEF PinClasses, ClassesPinned
  <2> QED BY <2>1 DEF IInv, TypeOK, Linked, LegacyClass, V133, V143, PrimaryUnique,
     PinClasses,
                      Goto
<1>3. Progress'
  BY DEF IInv, Progress, SequenceAhead, PinClasses, Goto
<1>4. Done'
  BY DEF IInv, Done, SequenceAhead, PinClasses, Goto
<1>5. KeepsClass
  <2>1. \A c \in Contacts, id \in DOMAIN class : links[c][id] > 0 => Referred(id)
    BY DEF Referred
  <2>2. links' = links
    BY DEF PinClasses
  <2> QED BY <2>1, <2>2, BothPinsKeep DEF KeepsClass
<1> QED BY <1>1, <1>2, <1>3, <1>4, <1>5 DEF IInv

\* The new value of the sequence is the highest id in use, or 2.
LEMMA SequenceValue ==
  ASSUME IInv, SetSequence
  PROVE  seq' \in Ids /\ \A id \in DOMAIN class : id <= seq'
<1> DEFINE S == DOMAIN class \cup {2}
<1>1. S \subseteq Ids /\ S # {}
  BY LocationAssumption DEF IInv, TypeOK, Ids
<1>2. seq' = Max(S)
  BY DEF SetSequence
<1> HIDE DEF S
<1>3. seq' \in S /\ \A y \in S : y <= seq'
  BY <1>1, <1>2, MaxIsGreatest
<1> QED BY <1>1, <1>3 DEF S

\* The sequence is set behind the highest id in use.
LEMMA SetSequenceKeeps ==
  ASSUME IInv, SetSequence
  PROVE  IInv' /\ KeepsClass
<1>1. TypeOK'
  BY SequenceValue, LocationAssumption DEF IInv, TypeOK, V133, V143, SetSequence, Goto, Ids
<1>2. Linked'
  BY DEF IInv, TypeOK, Linked, LegacyClass, V133, V143, PrimaryUnique, ClassesPinned,
     SetSequence, Goto
<1>3. Progress'
  BY SequenceValue DEF Progress, SequenceAhead, SetSequence, Goto
<1>4. Done'
  BY DEF IInv, Done, SequenceAhead, SetSequence, Goto
<1>5. KeepsClass
  BY ClassesKept DEF SetSequence, Goto
<1> QED BY <1>1, <1>2, <1>3, <1>4, <1>5 DEF IInv

\* The table is replaced only where it is LedgerSMB's, or where there is none.
LEMMA ReshapeKeeps ==
  ASSUME IInv, Reshape
  PROVE  IInv' /\ KeepsClass
<1>1. TypeOK'
  <2>1. links' \in [Contacts -> [Ids -> 0..MaxLinks]]
    BY LocationAssumption DEF IInv, TypeOK, Reshape, NoLinks
  <2>2. \A c \in Contacts, id \in Ids : links'[c][id] > 0 => id \in DOMAIN class
    BY DEF IInv, TypeOK, Reshape, NoLinks
  <2> QED BY <2>1, <2>2 DEF IInv, TypeOK, V133, V143, Reshape, Goto
<1>2. Linked'
  BY DEF IInv, TypeOK, Linked, LegacyClass, V133, V143, PrimaryUnique, ClassesPinned,
     Reshape, Goto, NoLinks, PrimaryUnique
<1>3. Progress'
  BY DEF IInv, Progress, SequenceAhead, Reshape, Goto, NoLinks, PrimaryUnique
<1>4. Done'
  BY DEF IInv, Done, SequenceAhead, Reshape, Goto, NoLinks, PrimaryUnique
<1>5. KeepsClass
  <2>1. CASE shape = "ledgius"
    BY <2>1, ClassesKept DEF Reshape
  <2>2. CASE shape = "ledgersmb"
    BY <2>2 DEF KeepsClass, Reshape
  <2>3. CASE shape = "none"
    <3>1. \A c \in Contacts, id \in Ids : links[c][id] = 0
      BY <2>3 DEF IInv, Linked
    <3>2. links = NoLinks
      BY <3>1 DEF IInv, TypeOK, NoLinks
    <3> QED BY <2>3, <3>2, ClassesKept DEF Reshape
  <2> QED BY <2>1, <2>2, <2>3 DEF IInv, TypeOK
<1> QED BY <1>1, <1>2, <1>3, <1>4, <1>5 DEF IInv

-----------------------------------------------------------------------------
(* The application and the loader, at any point of a script. *)

\* An address is linked to a class that exists, in either table; the index lets
\* in one.
LEMMA LinkKeeps ==
  ASSUME IInv, NEW c \in Contacts, NEW id \in Ids, Link(c, id) \/ LegacyLink(c, id)
  PROVE  IInv' /\ pc' = pc
<1>1. TypeOK'
  <2>1. /\ links'[c][id] = links[c][id] + 1
        /\ \A d \in Contacts, i \in Ids : <<d, i>> # <<c, id>> => links'[d][i] = links[d][i]
    BY DEF IInv, TypeOK, Link, LegacyLink, AddLink
  <2>2. links' \in [Contacts -> [Ids -> 0..MaxLinks]]
    BY LocationAssumption DEF IInv, TypeOK, Link, LegacyLink, AddLink
  <2> QED BY <2>1, <2>2, LocationAssumption DEF IInv, TypeOK, Link, LegacyLink, AddLink
<1>2. Linked'
  <2>1. /\ links'[c][id] = links[c][id] + 1
        /\ \A d \in Contacts, i \in Ids : <<d, i>> # <<c, id>> => links'[d][i] = links[d][i]
    BY DEF IInv, TypeOK, Link, LegacyLink, AddLink
  <2>2. index => PrimaryUnique'
    BY <2>1, LocationAssumption DEF IInv, TypeOK, Linked, PrimaryUnique, Link,
       LegacyLink, AddLink
  <2> QED BY <2>2 DEF IInv, TypeOK, Linked, LegacyClass, V133, V143, ClassesPinned,
     Link, LegacyLink,
                      AddLink
<1>3. SequenceAhead => SequenceAhead'
  BY DEF SequenceAhead, Link, LegacyLink, AddLink
<1>4. Progress' /\ Done'
  BY <1>3 DEF IInv, Link, LegacyLink, AddLink, Progress, Done
<1> QED BY <1>1, <1>2, <1>3, <1>4 DEF IInv, Link, LegacyLink, AddLink, LegacyLink, AddLink

\* An address is removed.
LEMMA UnlinkKeeps ==
  ASSUME IInv, NEW c \in Contacts, NEW id \in Ids, Unlink(c, id)
  PROVE  IInv' /\ pc' = pc
<1>1. TypeOK'
  <2>1. /\ links'[c][id] = links[c][id] - 1
        /\ \A d \in Contacts, i \in Ids : <<d, i>> # <<c, id>> => links'[d][i] = links[d][i]
    BY DEF IInv, TypeOK, Unlink
  <2>2. links' \in [Contacts -> [Ids -> 0..MaxLinks]]
    BY LocationAssumption DEF IInv, TypeOK, Unlink
  <2> QED BY <2>1, <2>2, LocationAssumption DEF IInv, TypeOK, Unlink
<1>2. Linked'
  <2>1. /\ links'[c][id] = links[c][id] - 1
        /\ \A d \in Contacts, i \in Ids : <<d, i>> # <<c, id>> => links'[d][i] = links[d][i]
    BY DEF IInv, TypeOK, Unlink
  <2>2. index => PrimaryUnique'
    BY <2>1, LocationAssumption DEF IInv, TypeOK, Linked, PrimaryUnique, Unlink
  <2>3. \A d \in Contacts, i \in Ids : links'[d][i] > 0 => links[d][i] > 0
    BY <2>1, LocationAssumption DEF IInv, TypeOK, Unlink
  <2> QED BY <2>2, <2>3 DEF IInv, TypeOK, Linked, LegacyClass, V133, V143,
     ClassesPinned, Unlink
<1>3. SequenceAhead => SequenceAhead'
  BY DEF SequenceAhead, Unlink
<1>4. Progress' /\ Done'
  BY <1>3 DEF IInv, Unlink, Progress, Done
<1> QED BY <1>1, <1>2, <1>3, <1>4 DEF IInv, Unlink

\* A class is added at the next value of the sequence, unless a row has that id.
LEMMA AddClassKeeps ==
  ASSUME IInv, NEW name \in Added, AddClass(name)
  PROVE  IInv' /\ pc' = pc
<1>1. TypeOK'
  <2>1. CASE class' = class
    BY <2>1, LocationAssumption DEF IInv, TypeOK, AddClass
  <2>2. CASE class' # class
    <3>1. /\ seq + 1 \in Ids \ DOMAIN class
          /\ DOMAIN class' = DOMAIN class \cup {seq + 1}
          /\ class'[seq + 1] = name
          /\ \A id \in DOMAIN class : class'[id] = class[id] /\ class[id] # name
      BY <2>2, LocationAssumption DEF IInv, TypeOK, AddClass, Ids, IdOf
    <3>2. class' \in [DOMAIN class' -> {"billing", "sales", "shipping"} \cup Added]
      BY <2>2, <3>1 DEF IInv, TypeOK, AddClass
    <3>3. \A i, j \in DOMAIN class' : class'[i] = class'[j] => i = j
      BY <3>1 DEF IInv, TypeOK
    <3>4. seq' \in 0..MaxId
      BY LocationAssumption DEF IInv, TypeOK, AddClass
    <3> QED BY <3>1, <3>2, <3>3, <3>4 DEF IInv, TypeOK, AddClass
  <2> QED BY <2>1, <2>2
<1>2. Linked'
  <2>1. ClassesPinned => ClassesPinned'
    BY DEF AddClass, ClassesPinned
  <2>2. LegacyClass => LegacyClass'
    BY DEF AddClass, LegacyClass
  <2> QED BY <2>1, <2>2 DEF IInv, Linked, V133, V143, PrimaryUnique, AddClass
<1>3. SequenceAhead => SequenceAhead'
  BY LocationAssumption DEF SequenceAhead, AddClass, IInv, TypeOK, Ids
<1>4. Progress' /\ Done'
  BY <1>3 DEF IInv, AddClass, Progress, Done
<1> QED BY <1>1, <1>2, <1>3, <1>4 DEF IInv, AddClass

-----------------------------------------------------------------------------
(* The invariant. *)

\* It holds in both kinds of database that V1.33 meets.
LEMMA InitHolds == Init => IInv
<1> SUFFICES ASSUME Init PROVE IInv
  OBVIOUS
<1>1. TypeOK
  <2>1. DOMAIN class \subseteq Ids
    BY LocationAssumption DEF Init, Ids
  <2>2. class \in [DOMAIN class -> {"billing", "sales", "shipping"} \cup Added]
    <3>1. CASE class = << >>
      BY <3>1
    <3>2. CASE class = <<"billing", "sales", "shipping">>
      <4>1. class = [i \in DOMAIN class |-> class[i]]
        BY <3>2
      <4>2. \A i \in DOMAIN class : class[i] \in {"billing", "sales", "shipping"}
        BY <3>2
      <4> QED BY <4>1, <4>2
    <3> QED BY <3>1, <3>2 DEF Init
  <2>3. \A i, j \in DOMAIN class : class[i] = class[j] => i = j
    BY DEF Init
  <2>4. links \in [Contacts -> [Ids -> 0..MaxLinks]]
    BY LocationAssumption DEF Init, NoLinks
  <2>5. \A c \in Contacts, id \in Ids : links[c][id] = 0
    BY DEF Init, NoLinks
  <2>6. seq \in 0..MaxId /\ runs \in 0..MaxRuns
    BY LocationAssumption DEF Init
  <2>7. {legacy, index, channels} \subseteq BOOLEAN
    BY DEF Init
  <2> QED BY <2>1, <2>2, <2>3, <2>4, <2>5, <2>6, <2>7 DEF Init, TypeOK
<1>2. Linked
  BY DEF Init, Linked, LegacyClass, V133, V143, NoLinks
<1>3. Progress /\ Done
  BY DEF Init, Progress, Done
<1> QED BY <1>1, <1>2, <1>3 DEF IInv

\* The steps of the runner, the scripts and the operator keep it, and keep the
\* class of every link.
Script ==
    \/ Run \/ EnterRow \/ Record133 \/ Record143 \/ Crash
    \/ SeedClasses \/ SeedRefused \/ CreateLinks \/ IndexLinks \/ IndexRefused
    \/ CreateChannels
    \/ ClearLegacy \/ DeleteOthers \/ DeleteRefused \/ PinClasses
    \/ PinRefused \/ SetSequence \/ Reshape \/ Reindex \/ ReindexRefused \/ RecreateChannels

\* Each of their steps keeps the invariant and the class of every link.
LEMMA ScriptKeeps == ASSUME IInv, Script PROVE IInv' /\ KeepsClass
BY RunKeeps, EnterRowKeeps, Record133Keeps, Record143Keeps, StopKeeps, SeedClassesKeeps,
   CreateLinksKeeps, IndexLinksKeeps, CreateChannelsKeeps, ClearLegacyKeeps,
   DeleteOthersKeeps, PinClassesKeeps, SetSequenceKeeps, ReshapeKeeps,
   RecreateChannelsKeeps DEF Script

\* A step is one of theirs, or does not move the script.
LEMMA StepHolds ==
  ASSUME IInv, [Next]_vars
  PROVE  IInv' /\ (pc' # pc => KeepsClass)
<1>1. CASE Script
  BY <1>1, ScriptKeeps
<1>2. CASE \E c \in Contacts, id \in Ids : Link(c, id) \/ LegacyLink(c, id) \/ Unlink(c, id)
  BY <1>2, LinkKeeps, UnlinkKeeps
<1>3. CASE \E name \in Added : AddClass(name)
  BY <1>3, AddClassKeeps
<1>4. CASE UNCHANGED vars
  BY <1>4 DEF vars, tables, IInv, TypeOK, Linked, LegacyClass, V133, V143, Progress,
     Done, PrimaryUnique,
     ClassesPinned, SequenceAhead
<1> QED BY <1>1, <1>2, <1>3, <1>4 DEF Next, Script

\* It holds in every state the program reaches.
THEOREM Invariance == Spec => []IInv
<1>1. IInv /\ [Next]_vars => IInv'
  BY StepHolds
<1> QED BY <1>1, InitHolds, PTL DEF Spec

\* The variables keep their types, and the tables their keys.
THEOREM TypeCorrect == Spec => []TypeOK
<1>1. IInv => TypeOK
  BY DEF IInv
<1> QED BY <1>1, Invariance, PTL

\* V1.43 leaves the classes and the tables that the application takes as given.
THEOREM IsReconciled == Spec => []Reconciled
<1>1. IInv => Reconciled
  BY DEF IInv, Linked, Progress, Done, ClassesPinned, Reconciled
<1> QED BY <1>1, Invariance, PTL

\* No contact has two primary addresses of a class.
THEOREM PrimaryIsOne == Spec => []OnePrimary
<1>1. IInv => OnePrimary
  BY DEF IInv, Linked, Done, OnePrimary
<1> QED BY <1>1, Invariance, PTL

\* A class that is added finds its id free.
THEOREM SequenceIsAhead == Spec => []NewIdsAreFree
<1>1. IInv => NewIdsAreFree
  BY DEF IInv, Done, SequenceAhead, NewIdsAreFree
<1> QED BY <1>1, Invariance, PTL

\* No statement drops a row of this repository's table or changes what the class
\* of a row means; LedgerSMB's rows go with its table.
THEOREM LinksAreKept == Spec => LinksKeepTheirClass
<1>1. IInv /\ [Next]_vars => [pc' # pc => KeepsClass]_vars
  BY StepHolds
<1>2. (pc' # pc => KeepsClass) <=>
        (pc' # pc =>
            /\ links' = links \/ (shape = "ledgersmb" /\ shape' = "ledgius")
            /\ \A c \in Contacts, id \in DOMAIN class : links[c][id] > 0 =>
                  id \in DOMAIN class' /\ class'[id] = class[id])
  BY DEF KeepsClass
<1> QED BY <1>1, <1>2, Invariance, PTL DEF Spec, LinksKeepTheirClass

=============================================================================
