------------------------- MODULE AccessStoreProofs -------------------------
(***************************************************************************)
(* The records and their continuations stay together, and the entries      *)
(* implement the table of AccessTable, proved for every number of entries, *)
(* every set of cards, PINs and doors, and all records the commands may    *)
(* bring.                                                                  *)
(***************************************************************************)
EXTENDS AccessStore, Integers, WellFoundedInduction, SequenceTheorems, TLAPS

Entry == [type : Types, used : BOOLEAN, doors : SUBSET Doors, data : Numbers]

Double(e) == Entries(e.type) = 2

(* A record with a card and a PIN has its continuation behind it ... *)
Paired(m) ==
  \A i \in Idx : Double(m[i]) =>
    /\ ~IsContinuation(m[i])
    /\ i + 1 \in Idx /\ IsContinuation(m[i + 1]) /\ m[i + 1].type = {"PIN"}

(* ... there is no other continuation ... *)
Owned(m) == \A i \in Idx : IsContinuation(m[i]) => i > 0 /\ Double(m[i - 1])

(* ... and only a record is ever marked as used. *)
MarksRecords(m) ==
  \A i \in Idx : m[i].used => ~IsEmpty(m[i]) /\ ~IsContinuation(m[i])

Layout(m) == m \in [Idx -> Entry] /\ Paired(m) /\ Owned(m) /\ MarksRecords(m)

(* Whatever happens, no record goes over the end of the memory. *)
Fits(m) == m \in [Idx -> Entry] /\ \A i \in Idx : Double(m[i]) => i + 1 \in Idx

IInv == Fits(mem) /\ (damage = "none" => Layout(mem))

-----------------------------------------------------------------------------
(* Operators *)

(* The least index of a set is in the set.                                 *)
LEMMA FirstIsIn ==
  ASSUME NEW S \in SUBSET Nat, S # {}
  PROVE  First(S) \in S /\ \A j \in S : First(S) <= j
<1>1. \A r, p \in Nat : r < p => <<r, p>> \in OpToRel(<, Nat)
  BY Zenon DEF OpToRel
<1>2. PICK p \in S : \A r \in S : ~(<<r, p>> \in OpToRel(<, Nat))
  BY WFMin, NatLessThanWellFounded, Zenon
<1>3. \A r \in S : ~(r < p)
  BY <1>1, <1>2, Zenon
<1>4. \A r \in S : p <= r
  BY <1>3
<1> QED BY <1>4 DEF First

(* Indexes are numbers below Size, and the ones before an index are too.   *)
LEMMA IdxNat ==
  /\ Idx \subseteq Nat
  /\ \A i \in Idx : i < Size /\ (i > 0 => i - 1 \in Idx)
BY StoreAssumption DEF Idx

(* A record takes one entry, or two when it has a card and a PIN.          *)
LEMMA EntriesOf ==
  /\ \A t : Entries(t) \in {1, 2}
  /\ Entries({}) = 1 /\ Entries({"PIN"}) = 1
  /\ \A t \in Types : Entries(t) = 2 <=> HasCard(t) /\ HasPin(t)
  /\ \A t \in Types : t # {} <=> HasCard(t) \/ HasPin(t)
<1>1. \A t \in Types : HasCard(t) /\ HasPin(t) => t = {"CARD", "PIN"}
  BY DEF Types, HasCard, HasPin
<1>2. \A t \in Types : t # {} <=> HasCard(t) \/ HasPin(t)
  BY DEF Types, HasCard, HasPin
<1>3. {} # {"CARD", "PIN"} /\ {"PIN"} # {"CARD", "PIN"}
  <2>1. "CARD" \in {"CARD", "PIN"} /\ "CARD" \notin {} /\ "CARD" \notin {"PIN"}
    OBVIOUS
  <2> QED BY <2>1
<1> QED BY <1>1, <1>2, <1>3 DEF Entries, HasCard, HasPin

(* An entry that one block of a command is for holds that block after it,  *)
(* and the other entries are as they were.                                 *)
LEMMA AfterBlocks ==
  ASSUME NEW blocks, NEW i \in Idx
  PROVE  /\ (\A n \in DOMAIN blocks : blocks[n].at # i) => After(blocks)[i] = mem[i]
         /\ \A n \in DOMAIN blocks :
              /\ n \in Nat /\ blocks[n].at = i
              /\ \A k \in DOMAIN blocks : blocks[k].at = i => k = n
              => After(blocks)[i] = blocks[n].entry
<1> DEFINE here == {n \in DOMAIN blocks : blocks[n].at = i}
<1>1. After(blocks)[i] = IF here = {} THEN mem[i] ELSE blocks[First(here)].entry
  BY DEF After
<1>2. ASSUME NEW n \in DOMAIN blocks, n \in Nat, blocks[n].at = i,
             \A k \in DOMAIN blocks : blocks[k].at = i => k = n
      PROVE  After(blocks)[i] = blocks[n].entry
  <2>1. here = {n}
    BY <1>2
  <2>2. First(here) = n
    BY <2>1, <1>2, FirstIsIn
  <2> QED BY <1>1, <2>1, <2>2
<1> QED BY <1>1, <1>2

(* One block.                                                              *)
LEMMA AfterOne ==
  ASSUME NEW i \in Idx, NEW e, NEW j \in Idx
  PROVE  After(<<Block(i, e)>>)[j] = IF j = i THEN e ELSE mem[j]
<1> DEFINE b == <<Block(i, e)>>
<1>1. DOMAIN b = {1} /\ b[1].at = i /\ b[1].entry = e
  BY DEF Block
<1> QED BY <1>1, AfterBlocks

(* Two blocks side by side.                                                *)
LEMMA AfterTwo ==
  ASSUME NEW i \in Idx, NEW e, NEW f, NEW j \in Idx
  PROVE  After(<<Block(i, e), Block(i + 1, f)>>)[j] =
           IF j = i THEN e ELSE IF j = i + 1 THEN f ELSE mem[j]
<1> DEFINE b == <<Block(i, e), Block(i + 1, f)>>
<1>1. /\ DOMAIN b = {1, 2}
      /\ b[1].at = i /\ b[1].entry = e /\ b[2].at = i + 1 /\ b[2].entry = f
  BY DEF Block
<1>2. i \in Nat /\ i # i + 1
  BY IdxNat
<1>3. CASE j = i
  BY <1>1, <1>2, <1>3, AfterBlocks
<1>4. CASE j = i + 1
  BY <1>1, <1>2, <1>4, AfterBlocks
<1>5. CASE j # i /\ j # i + 1
  BY <1>1, <1>5, AfterBlocks
<1> QED BY <1>3, <1>4, <1>5

-----------------------------------------------------------------------------
(* Writing a record *)

Clean(e) == e.type = {} /\ e.doors = {} /\ ~e.used

(* An entry that stands alone: a record of one entry, or none. *)
Alone(e) == ~Double(e) /\ ~IsContinuation(e) /\ (e.used => ~IsEmpty(e))

(* A cleared entry is an empty one.                                        *)
LEMMA ClearIs ==
  ASSUME NEW i \in Idx, mem \in [Idx -> Entry]
  PROVE  /\ Clear(i) = Block(i, EntryWith(Blank, mem[i].data))
         /\ EntryWith(Blank, mem[i].data) \in Entry
         /\ Clean(EntryWith(Blank, mem[i].data))
         /\ Alone(EntryWith(Blank, mem[i].data))
<1>1. mem[i].data \in Numbers
  BY DEF Entry
<1>2. EntryWith(Blank, mem[i].data)
        = [type |-> {}, used |-> FALSE, doors |-> {}, data |-> mem[i].data]
  BY DEF Blank, EntryWith
<1>3. {} \in Types /\ {} \in SUBSET Doors
  BY DEF Types
<1> QED BY <1>1, <1>2, <1>3, EntriesOf
        DEF Clear, Entry, Clean, Alone, Double, IsContinuation, IsEmpty

AloneBlocks(i, r, e) ==
  /\ Alone(e)
  /\ WriteBlocks(i, r) = IF Double(mem[i]) THEN <<Block(i, e), Clear(i + 1)>>
                         ELSE <<Block(i, e)>>

PairBlocks(i, r, e, f) ==
  /\ Double(e) /\ ~IsContinuation(e) /\ ~IsEmpty(e)
  /\ f.type = {"PIN"} /\ f.doors = {} /\ ~f.used
  /\ i + 1 \in Idx
  /\ IsEmpty(mem[i + 1]) \/ IsContinuation(mem[i + 1])
  /\ WriteBlocks(i, r) = <<Block(i, e), Block(i + 1, f)>>

(* The blocks a write consists of: an entry that stands alone, and the     *)
(* continuation that was behind it cleared; or a record and its            *)
(* continuation.                                                           *)
LEMMA BlocksOf ==
  ASSUME NEW i \in Idx, NEW r \in Records, Layout(mem), ~WriteRefused(i, r)
  PROVE  \/ \E e \in Entry : AloneBlocks(i, r, e)
         \/ \E e, f \in Entry : PairBlocks(i, r, e, f)
<1> DEFINE d == Entries(mem[i].type) = 2 /\ IsContinuation(mem[i + 1])
           old == IF d THEN <<Clear(i + 1)>> ELSE << >>
<1>1. d <=> Double(mem[i])
  BY DEF Layout, Paired, Double
<1>2. /\ r.type \in Types /\ r.used \in BOOLEAN /\ r.doors \in SUBSET Doors
      /\ r.card \in Numbers /\ r.pin \in Numbers
  BY DEF Records
<1>3. CASE r.type = {} \/ r.doors = {}
  <2> DEFINE e == EntryWith(Blank, mem[i].data)
  <2>1. NewBlocks(i, r) = << >>
    BY <1>3 DEF NewBlocks
  <2>2. WriteBlocks(i, r) = << >> \o (<<Clear(i)>> \o old)
    BY <2>1 DEF WriteBlocks, LeftOver
  <2>3. WriteBlocks(i, r) = IF d THEN <<Clear(i), Clear(i + 1)>> ELSE <<Clear(i)>>
    BY <2>2
  <2>4. e \in Entry /\ AloneBlocks(i, r, e)
    BY <2>3, <1>1, ClearIs DEF AloneBlocks, Layout
  <2> QED BY <2>4
<1>4. CASE r.type # {} /\ r.doors # {} /\ ~(HasCard(r.type) /\ HasPin(r.type))
  <2> DEFINE e == EntryWith(r, IF HasCard(r.type) THEN r.card ELSE r.pin)
  <2>1. NewBlocks(i, r) = <<Block(i, e)>>
    BY <1>4 DEF NewBlocks
  <2>2. WriteBlocks(i, r) = <<Block(i, e)>> \o (<< >> \o old)
    BY <2>1 DEF WriteBlocks, LeftOver
  <2>3. WriteBlocks(i, r) = IF d THEN <<Block(i, e), Clear(i + 1)>> ELSE <<Block(i, e)>>
    BY <2>2
  <2>4. /\ e.type = r.type /\ e.used = r.used /\ e.doors = r.doors
        /\ e \in Entry
    BY <1>2 DEF EntryWith, Entry
  <2>5. Alone(e)
    BY <2>4, <1>4, <1>2, EntriesOf DEF Alone, Double, IsContinuation, IsEmpty
  <2>6. AloneBlocks(i, r, e)
    BY <2>3, <2>5, <1>1 DEF AloneBlocks
  <2> QED BY <2>4, <2>6
<1>5. CASE r.type # {} /\ r.doors # {} /\ HasCard(r.type) /\ HasPin(r.type)
  <2> DEFINE e == EntryWith(r, r.card)
             f == [type |-> {"PIN"}, used |-> FALSE, doors |-> {}, data |-> r.pin]
  <2>1. NewBlocks(i, r) = <<Block(i, e), Block(i + 1, f)>>
    BY <1>5 DEF NewBlocks
  <2>2. WriteBlocks(i, r) = <<Block(i, e), Block(i + 1, f)>> \o (<< >> \o << >>)
    BY <2>1 DEF WriteBlocks, LeftOver
  <2>3. WriteBlocks(i, r) = <<Block(i, e), Block(i + 1, f)>>
    BY <2>2
  <2>4. /\ e.type = r.type /\ e.used = r.used /\ e.doors = r.doors
        /\ e \in Entry
    BY <1>2 DEF EntryWith, Entry
  <2>6. f.type = {"PIN"} /\ f.used = FALSE /\ f.doors = {} /\ f \in Entry
    <3>1. {"PIN"} \in Types /\ {} \in SUBSET Doors
      BY DEF Types
    <3> QED BY <3>1, <1>2 DEF Entry
  <2>7. Entries(r.type) = 2
    BY <1>2, <1>5, EntriesOf
  <2>8. i + 1 \in Idx /\ (IsEmpty(mem[i + 1]) \/ IsContinuation(mem[i + 1]))
    BY <2>7, IdxNat, StoreAssumption DEF WriteRefused, Idx
  <2>9. Double(e) /\ ~IsContinuation(e) /\ ~IsEmpty(e)
    BY <2>4, <2>7, <1>5 DEF Double, IsContinuation, IsEmpty
  <2>10. PairBlocks(i, r, e, f)
    BY <2>3, <2>6, <2>8, <2>9 DEF PairBlocks
  <2> QED BY <2>4, <2>6, <2>10
<1> QED BY <1>3, <1>4, <1>5

(* After overwrites entries; it never makes the memory larger or smaller.  *)
LEMMA AfterIsFunction ==
  ASSUME NEW blocks
  PROVE  After(blocks) = [i \in Idx |-> After(blocks)[i]]
BY Zenon DEF After

(* A memory that differs from a sound one in an entry that stands alone,   *)
(* with the continuation that was behind it cleared, is sound.             *)
LEMMA SoundAlone ==
  ASSUME Layout(mem), NEW i \in Idx, ~IsContinuation(mem[i]), NEW m \in [Idx -> Entry],
         Alone(m[i]),
         i + 1 \in Idx => IF Double(mem[i]) THEN Clean(m[i + 1]) ELSE m[i + 1] = mem[i + 1],
         \A j \in Idx : j # i /\ j # i + 1 => m[j] = mem[j]
  PROVE  Layout(m)
<1>1. i \in Nat /\ \A j \in Idx : j \in Nat /\ (j > 0 => j - 1 \in Idx)
  BY IdxNat
<1>2. \A e : Clean(e) => ~Double(e) /\ ~IsContinuation(e) /\ ~e.used
  BY EntriesOf DEF Clean, Double, IsContinuation, IsEmpty
<1>3. \A e : IsContinuation(e) /\ e.type = {"PIN"} => ~Double(e)
  BY EntriesOf DEF Double
<1>4. Paired(m)
  <2> SUFFICES ASSUME NEW j \in Idx, Double(m[j])
               PROVE  /\ ~IsContinuation(m[j])
                      /\ j + 1 \in Idx /\ IsContinuation(m[j + 1])
                      /\ m[j + 1].type = {"PIN"}
    BY DEF Paired
  <2>1. j # i
    BY DEF Alone
  <2>2. m[j] = mem[j]
    BY <2>1, <1>2
  <2>3. /\ ~IsContinuation(mem[j])
        /\ j + 1 \in Idx /\ IsContinuation(mem[j + 1]) /\ mem[j + 1].type = {"PIN"}
    BY <2>2 DEF Layout, Paired
  <2>4. j + 1 # i
    BY <2>3
  <2>5. j + 1 # i + 1
    BY <2>1, <1>1
  <2> QED BY <2>2, <2>3, <2>4, <2>5
<1>5. Owned(m)
  <2> SUFFICES ASSUME NEW j \in Idx, IsContinuation(m[j])
               PROVE  j > 0 /\ Double(m[j - 1])
    BY DEF Owned
  <2>1. j # i
    BY DEF Alone
  <2>2. m[j] = mem[j]
    BY <2>1, <1>2
  <2>3. j > 0 /\ Double(mem[j - 1])
    BY <2>2 DEF Layout, Owned
  <2>4. j - 1 # i
    <3> SUFFICES ASSUME j = i + 1 PROVE FALSE
      BY <1>1
    <3>1. Double(mem[i])
      BY <2>3, <1>1
    <3> QED BY <3>1, <1>2
  <2>5. j - 1 \in Idx
    BY <2>3, <1>1
  <2>6. CASE j - 1 # i + 1
    BY <2>3, <2>4, <2>5, <2>6
  <2>7. CASE j - 1 = i + 1
    <3>1. Double(mem[i + 1]) /\ i + 1 \in Idx
      BY <2>3, <2>5, <2>7
    <3>2. ~Double(mem[i])
      BY <3>1, <1>3 DEF Layout, Paired
    <3>3. m[i + 1] = mem[i + 1]
      BY <3>1, <3>2
    <3> QED BY <2>3, <2>7, <3>1, <3>3
  <2> QED BY <2>6, <2>7
<1>6. MarksRecords(m)
  BY <1>2 DEF MarksRecords, Layout, Alone
<1> QED BY <1>4, <1>5, <1>6 DEF Layout

(* So is one with a record and its continuation in place of an entry and   *)
(* of an empty entry, or its continuation, behind it.                      *)
LEMMA SoundPair ==
  ASSUME Layout(mem), NEW i \in Idx, ~IsContinuation(mem[i]), NEW m \in [Idx -> Entry],
         i + 1 \in Idx, IsEmpty(mem[i + 1]) \/ IsContinuation(mem[i + 1]),
         Double(m[i]), ~IsContinuation(m[i]), ~IsEmpty(m[i]),
         m[i + 1].type = {"PIN"}, m[i + 1].doors = {}, ~m[i + 1].used,
         \A j \in Idx : j # i /\ j # i + 1 => m[j] = mem[j]
  PROVE  Layout(m)
<1>1. i \in Nat /\ \A j \in Idx : j \in Nat /\ (j > 0 => j - 1 \in Idx)
  BY IdxNat
<1>2. IsContinuation(m[i + 1]) /\ ~Double(m[i + 1])
  <2>1. Entries({"PIN"}) = 1 /\ {"PIN"} # {}
    BY EntriesOf
  <2>2. Entries({"PIN"}) # 2
    BY <2>1
  <2> QED BY <2>1, <2>2, Zenon DEF IsContinuation, IsEmpty, Double
<1>3. ~Double(mem[i + 1])
  <2>1. Entries({}) # 2 /\ Entries({}) = 1
    BY EntriesOf
  <2>2. IsEmpty(mem[i + 1]) => ~Double(mem[i + 1])
    BY <2>1, Zenon DEF IsEmpty, Double
  <2>3. IsContinuation(mem[i + 1]) => ~Double(mem[i + 1])
    BY DEF Layout, Paired
  <2> QED BY <2>2, <2>3
<1>4. Paired(m)
  <2> SUFFICES ASSUME NEW j \in Idx, Double(m[j])
               PROVE  /\ ~IsContinuation(m[j])
                      /\ j + 1 \in Idx /\ IsContinuation(m[j + 1])
                      /\ m[j + 1].type = {"PIN"}
    BY DEF Paired
  <2>1. CASE j = i
    BY <2>1, <1>2
  <2>2. CASE j # i
    <3>1. j # i + 1 /\ m[j] = mem[j]
      BY <2>2, <1>2
    <3>2. /\ ~IsContinuation(mem[j])
          /\ j + 1 \in Idx /\ IsContinuation(mem[j + 1]) /\ mem[j + 1].type = {"PIN"}
      BY <3>1 DEF Layout, Paired
    <3>3. j + 1 # i /\ j + 1 # i + 1
      BY <3>2, <2>2, <1>1
    <3> QED BY <3>1, <3>2, <3>3
  <2> QED BY <2>1, <2>2
<1>5. Owned(m)
  <2> SUFFICES ASSUME NEW j \in Idx, IsContinuation(m[j])
               PROVE  j > 0 /\ Double(m[j - 1])
    BY DEF Owned
  <2>1. CASE j = i + 1
    BY <2>1, <1>1
  <2>2. CASE j # i + 1
    <3>1. m[j] = mem[j]
      BY <2>2
    <3>2. j > 0 /\ Double(mem[j - 1])
      BY <3>1 DEF Layout, Owned
    <3>3. j - 1 \in Idx /\ j - 1 # i
      <4>1. j \in Nat /\ i \in Nat /\ j > 0 /\ (j > 0 => j - 1 \in Idx)
        BY <3>2, <1>1
      <4>2. j # i + 1
        BY <2>2
      <4> QED BY <4>1, <4>2
    <3>4. j - 1 # i + 1
      BY <3>2, <1>3
    <3> QED BY <3>2, <3>3, <3>4
  <2> QED BY <2>1, <2>2
<1>6. MarksRecords(m)
  BY DEF MarksRecords, Layout
<1> QED BY <1>4, <1>5, <1>6 DEF Layout

(* A write that is not refused, and not torn, leaves the memory sound.     *)
LEMMA WriteRecordSound ==
  ASSUME Layout(mem), NEW i \in Idx, NEW r \in Records, ~WriteRefused(i, r)
  PROVE  Layout(After(WriteBlocks(i, r)))
<1> DEFINE m == After(WriteBlocks(i, r))
<1>1. mem \in [Idx -> Entry] /\ ~IsContinuation(mem[i])
  BY DEF WriteRefused, Layout
<1>2. m = [j \in Idx |-> m[j]]
  BY AfterIsFunction
<1>3. i \in Nat /\ i + 1 # i
  BY IdxNat
<1>4. ASSUME NEW e \in Entry, AloneBlocks(i, r, e)
      PROVE  Layout(m)
  <2> USE <1>4 DEF AloneBlocks
  <2>1. CASE Double(mem[i])
    <3> DEFINE f == EntryWith(Blank, mem[i + 1].data)
    <3>1. i + 1 \in Idx
      BY <2>1 DEF Layout, Paired
    <3>2. Clear(i + 1) = Block(i + 1, f) /\ f \in Entry /\ Clean(f)
      BY <1>1, <3>1, ClearIs
    <3>3. \A j \in Idx : m[j] = IF j = i THEN e ELSE IF j = i + 1 THEN f ELSE mem[j]
      BY <1>4, <2>1, <3>2, AfterTwo
    <3>4. \A j \in Idx : m[j] \in Entry
      BY <3>3, <3>2, <1>1
    <3>5. m \in [Idx -> Entry]
      BY <3>4, <1>2
    <3>6. m[i] = e /\ m[i + 1] = f
      BY <3>1, <3>3, <1>3
    <3>7. \A j \in Idx : j # i /\ j # i + 1 => m[j] = mem[j]
      BY <3>3
    <3> HIDE DEF m, f
    <3> QED BY <1>1, <1>4, <2>1, <3>2, <3>5, <3>6, <3>7, SoundAlone
  <2>2. CASE ~Double(mem[i])
    <3>1. \A j \in Idx : m[j] = IF j = i THEN e ELSE mem[j]
      BY <1>4, <2>2, AfterOne
    <3>2. \A j \in Idx : m[j] \in Entry
      BY <3>1, <1>1
    <3>3. m \in [Idx -> Entry]
      BY <3>2, <1>2
    <3>4. /\ m[i] = e /\ (i + 1 \in Idx => m[i + 1] = mem[i + 1])
          /\ \A j \in Idx : j # i /\ j # i + 1 => m[j] = mem[j]
      BY <3>1, <1>3
    <3> HIDE DEF m
    <3> QED BY <1>1, <1>4, <2>2, <3>3, <3>4, SoundAlone
  <2> QED BY <2>1, <2>2
<1>5. ASSUME NEW e \in Entry, NEW f \in Entry, PairBlocks(i, r, e, f)
      PROVE  Layout(m)
  <2> USE <1>5 DEF PairBlocks
  <2>1. \A j \in Idx : m[j] = IF j = i THEN e ELSE IF j = i + 1 THEN f ELSE mem[j]
    BY <1>5, AfterTwo
  <2>2. \A j \in Idx : m[j] \in Entry
    BY <2>1, <1>1
  <2>3. m \in [Idx -> Entry]
    BY <2>2, <1>2
  <2>4. m[i] = e /\ m[i + 1] = f
    BY <2>1, <1>3, <1>5
  <2>5. \A j \in Idx : j # i /\ j # i + 1 => m[j] = mem[j]
    BY <2>1
  <2> HIDE DEF m
  <2> QED BY <1>1, <1>5, <2>3, <2>4, <2>5, SoundPair
<1> HIDE DEF m
<1>6. Layout(m)
  BY <1>4, <1>5, BlocksOf, Zenon
<1> QED BY <1>6 DEF m

(* A record read from a sound memory is one a command may write, also when *)
(* its mark is cleared.                                                    *)
LEMMA RecordAtIs ==
  ASSUME Fits(mem), NEW i \in Idx
  PROVE  /\ RecordAt(i) \in Records
         /\ Unmarked(i) \in Records
         /\ RecordAt(i).type = mem[i].type /\ RecordAt(i).doors = mem[i].doors
<1> DEFINE card == IF HasCard(mem[i].type) THEN mem[i].data ELSE Zero
           pin == IF ~HasPin(mem[i].type) THEN Zero
                  ELSE IF HasCard(mem[i].type) THEN mem[i + 1].data ELSE mem[i].data
           r(u) == [type |-> mem[i].type, used |-> u, doors |-> mem[i].doors,
                    card |-> card, pin |-> pin]
<1>1. RecordAt(i) = r(mem[i].used)
  BY DEF RecordAt
<1>2. Unmarked(i) = r(FALSE)
  BY <1>1 DEF Unmarked
<1>3. /\ mem[i].type \in Types /\ mem[i].used \in BOOLEAN
      /\ mem[i].doors \in SUBSET Doors /\ mem[i].data \in Numbers
  BY DEF Fits, Entry
<1>4. HasCard(mem[i].type) /\ HasPin(mem[i].type) => mem[i + 1].data \in Numbers
  <2> SUFFICES ASSUME HasCard(mem[i].type), HasPin(mem[i].type)
               PROVE  mem[i + 1].data \in Numbers
    OBVIOUS
  <2>1. Double(mem[i])
    BY <1>3, EntriesOf DEF Double
  <2>2. i + 1 \in Idx
    BY <2>1 DEF Fits
  <2> QED BY <2>2 DEF Fits, Entry
<1>5. card \in Numbers /\ pin \in Numbers
  BY <1>3, <1>4 DEF Numbers
<1>6. /\ ~HasCard(mem[i].type) => card = Zero
      /\ ~HasPin(mem[i].type) => pin = Zero
  OBVIOUS
<1> HIDE DEF card, pin
<1>7. \A u \in BOOLEAN : r(u) \in Records
  BY <1>3, <1>5, <1>6 DEF Records
<1>8. RecordAt(i) \in Records /\ Unmarked(i) \in Records
  BY <1>1, <1>2, <1>3, <1>7, Zenon
<1> QED BY <1>1, <1>8

-----------------------------------------------------------------------------
(* The commands *)

(* A scan stops at entries only, in both versions.                         *)
LEMMA ScanIsIn == \A s : Scan(s) \subseteq Idx /\ Walk(s) \subseteq Idx
BY DEF Scan, Walk

(* The blocks a command may write. *)
Fitting ==
  {b \in [at : Idx, entry : Entry] : Double(b.entry) => b.at + 1 \in Idx}

(* No sequence of them writes over the end of the memory ...               *)
LEMMA AfterFits ==
  ASSUME Fits(mem), NEW blocks \in Seq(Fitting)
  PROVE  Fits(After(blocks))
<1>1. ASSUME NEW i \in Idx
      PROVE  /\ After(blocks)[i] \in Entry
             /\ Double(After(blocks)[i]) => i + 1 \in Idx
  <2> DEFINE here == {n \in DOMAIN blocks : blocks[n].at = i}
  <2>1. After(blocks)[i] = IF here = {} THEN mem[i] ELSE blocks[First(here)].entry
    BY DEF After
  <2>2. CASE here = {}
    BY <2>1, <2>2 DEF Fits
  <2>3. CASE here # {}
    <3>1. here \in SUBSET Nat
      OBVIOUS
    <3>2. First(here) \in here
      BY <2>3, <3>1, FirstIsIn
    <3>3. blocks[First(here)] \in Fitting /\ blocks[First(here)].at = i
      BY <3>2
    <3> HIDE DEF here
    <3> QED BY <2>1, <2>3, <3>3 DEF Fitting
  <2> QED BY <2>2, <2>3
<1> QED BY <1>1, AfterIsFunction DEF Fits

(* ... also when the power fails in one of them.                           *)
LEMMA TornFits ==
  ASSUME Fits(mem), NEW blocks \in Seq(Fitting), NEW n \in DOMAIN blocks,
         NEW m \in Torn(blocks, n)
  PROVE  Fits(m)
<1> DEFINE s == SubSeq(blocks, 1, n - 1)
           a == After(s)
           b == blocks[n]
<1>1. s \in Seq(Fitting) /\ b \in Fitting
  OBVIOUS
<1>2. Fits(a)
  BY <1>1, AfterFits
<1> HIDE DEF s, b
<1>3. /\ b.at \in Idx /\ b.entry \in Entry /\ a[b.at] \in Entry
      /\ Double(b.entry) => b.at + 1 \in Idx
      /\ Double(a[b.at]) => b.at + 1 \in Idx
  BY <1>1, <1>2 DEF Fitting, Fits
<1>4. PICK h \in {a[b.at], b.entry},
           d \in IF a[b.at].data = b.entry.data THEN {a[b.at].data} ELSE Numbers :
           m = [a EXCEPT ![b.at] = EntryWith(h, d)]
  BY DEF Torn, s, b
<1> HIDE DEF a
<1>5. d \in Numbers /\ h \in Entry /\ (Double(h) => b.at + 1 \in Idx)
  BY <1>3 DEF Entry
<1>6. EntryWith(h, d) \in Entry /\ EntryWith(h, d).type = h.type
  BY <1>5 DEF EntryWith, Entry
<1>7. Double(EntryWith(h, d)) => b.at + 1 \in Idx
  BY <1>5, <1>6 DEF Double
<1> QED BY <1>2, <1>3, <1>4, <1>6, <1>7 DEF Fits

(* Clearing an entry fits.                                                 *)
LEMMA ClearFits == Fits(mem) => \A i \in Idx : Clear(i) \in Fitting
<1> SUFFICES ASSUME Fits(mem), NEW i \in Idx PROVE Clear(i) \in Fitting
  OBVIOUS
<1> DEFINE e == EntryWith(Blank, mem[i].data)
<1>1. Clear(i) = Block(i, e) /\ e \in Entry /\ ~Double(e)
  BY ClearIs DEF Fits, Alone
<1> HIDE DEF e
<1> QED BY <1>1 DEF Fitting, Block

(* A write that is not refused fits, also in a damaged memory.             *)
LEMMA WriteFits ==
  ASSUME Fits(mem), NEW i \in Idx, NEW r \in Records, ~WriteRefused(i, r)
  PROVE  WriteBlocks(i, r) \in Seq(Fitting)
<1>1. /\ r.type \in Types /\ r.used \in BOOLEAN /\ r.doors \in SUBSET Doors
      /\ r.card \in Numbers /\ r.pin \in Numbers
  BY DEF Records
<1>2. \A d \in Numbers : EntryWith(r, d) \in Entry /\ EntryWith(r, d).type = r.type
  BY <1>1 DEF EntryWith, Entry
<1>3. NewBlocks(i, r) \in Seq(Fitting)
  <2>1. CASE r.type = {} \/ r.doors = {}
    BY <2>1 DEF NewBlocks
  <2>2. CASE ~(r.type = {} \/ r.doors = {}) /\ ~(HasCard(r.type) /\ HasPin(r.type))
    <3> DEFINE e == EntryWith(r, IF HasCard(r.type) THEN r.card ELSE r.pin)
    <3>1. NewBlocks(i, r) = <<Block(i, e)>>
      BY <2>2 DEF NewBlocks
    <3>2. e \in Entry /\ e.type = r.type
      BY <1>1, <1>2
    <3>3. ~Double(e)
      BY <3>2, <1>1, <2>2, EntriesOf DEF Double
    <3> HIDE DEF e
    <3>4. Block(i, e) \in Fitting
      BY <3>2, <3>3 DEF Fitting, Block
    <3> QED BY <3>1, <3>4
  <2>3. CASE ~(r.type = {} \/ r.doors = {}) /\ HasCard(r.type) /\ HasPin(r.type)
    <3> DEFINE e == EntryWith(r, r.card)
               f == [type |-> {"PIN"}, used |-> FALSE, doors |-> {}, data |-> r.pin]
    <3>1. NewBlocks(i, r) = <<Block(i, e), Block(i + 1, f)>>
      BY <2>3 DEF NewBlocks
    <3>2. Entries(r.type) = 2
      BY <1>1, <2>3, EntriesOf
    <3>3. i + 1 \in Idx
      BY <3>2, IdxNat, StoreAssumption DEF WriteRefused, Idx
    <3>4. f \in Entry
      <4>1. {"PIN"} \in Types /\ {} \in SUBSET Doors
        BY DEF Types
      <4> QED BY <4>1, <1>1 DEF Entry
    <3>5. ~Double(f)
      BY EntriesOf DEF Double
    <3>6. e \in Entry
      BY <1>1, <1>2
    <3> HIDE DEF e, f
    <3>7. Block(i, e) \in Fitting /\ Block(i + 1, f) \in Fitting
      BY <3>3, <3>4, <3>5, <3>6 DEF Fitting, Block
    <3> QED BY <3>1, <3>7
  <2> QED BY <2>1, <2>2, <2>3
<1>4. LeftOver(i, Len(NewBlocks(i, r))) \in Seq(Fitting)
  <2>1. Clear(i) \in Fitting
    BY ClearFits
  <2>2. Entries(mem[i].type) = 2 => Clear(i + 1) \in Fitting
    BY ClearFits DEF Fits, Double
  <2> QED BY <2>1, <2>2 DEF LeftOver
<1> QED BY <1>3, <1>4 DEF WriteBlocks

(* A command keeps its promises if its blocks fit, and if the layout is    *)
(* sound once it was completed; a torn one leaves damage behind.           *)
LEMMA WriteKeeps ==
  ASSUME IInv, NEW blocks \in Seq(Fitting), NEW res, Write(blocks, res),
         damage = "none" => Layout(After(blocks))
  PROVE  IInv'
<1>1. CASE mem' = After(blocks) /\ damage' = damage
  <2>1. Fits(mem') /\ (damage' = "none" => Layout(mem'))
    BY <1>1, AfterFits DEF IInv
  <2> QED BY <2>1 DEF IInv, Fits, Layout, Paired, Owned, MarksRecords
<1>2. CASE /\ \E n \in DOMAIN blocks : mem' \in Torn(blocks, n)
           /\ damage' # "none"
  <2>1. Fits(mem')
    BY <1>2, TornFits DEF IInv
  <2> QED BY <1>2, <2>1 DEF IInv, Fits
<1>3. \/ mem' = After(blocks) /\ damage' = damage
      \/ (\E n \in DOMAIN blocks : mem' \in Torn(blocks, n)) /\ damage' # "none"
  BY Zenon DEF Write
<1> QED BY <1>1, <1>2, <1>3

(* A command that only answers.                                            *)
LEMMA ReturnKeeps ==
  ASSUME IInv, NEW res, Return(res)
  PROVE  IInv'
BY DEF Return, IInv, Fits, Layout, Paired, Owned, MarksRecords

(* eeprom_write_access_record, refused or not.                             *)
LEMMA WriteRecordKeeps ==
  ASSUME IInv, NEW i \in Idx, NEW r \in Records, NEW res, WriteRecord(i, r, res)
  PROVE  IInv'
<1>1. CASE WriteRefused(i, r)
  BY <1>1, ReturnKeeps DEF WriteRecord
<1>2. CASE ~WriteRefused(i, r)
  <2>1. damage = "none" => Layout(After(WriteBlocks(i, r)))
    BY <1>2, WriteRecordSound DEF IInv
  <2>2. WriteBlocks(i, r) \in Seq(Fitting)
    BY <1>2, WriteFits DEF IInv
  <2> QED BY <1>2, <2>1, <2>2, WriteKeeps DEF WriteRecord
<1> QED BY <1>1, <1>2

(* eeprom_save_access_record: it writes where it found the record or a     *)
(* free entry, which are both in the memory.                               *)
LEMMA SaveKeeps ==
  ASSUME IInv, NEW r \in Records, SaveAccessRecord(r)
  PROVE  IInv'
<1> DEFINE found == Loaded(r)
           free == FreeStarts(r.type)
<1>1. found \in SUBSET Idx /\ free \in SUBSET Idx
  BY ScanIsIn DEF Loaded, FreeStarts
<1>2. /\ found # {} => First(found) \in Idx
      /\ free # {} => First(free) \in Idx
  BY <1>1, IdxNat, FirstIsIn
<1>3. \/ Return("OK") \/ Return("refused")
      \/ found # {} /\ WriteRecord(First(found), r, "OK")
      \/ free # {} /\ WriteRecord(First(free), r, "OK")
  BY DEF SaveAccessRecord
<1> HIDE DEF found, free
<1> QED BY <1>2, <1>3, ReturnKeeps, WriteRecordKeeps

(* The version 1 command saves a record like the others.                   *)
LEMMA SetAccessKeeps ==
  ASSUME IInv, NEW type \in {{"CARD"}, {"PIN"}}, NEW key \in Keys, NEW doors,
         SetAccess(type, key, doors)
  PROVE  IInv'
<1>1. V1Record(type, key) \in Records
  <2>1. type \in Types /\ {} \in SUBSET Doors
    BY DEF Types
  <2> QED BY <2>1 DEF V1Record, Records, Numbers
<1> QED BY <1>1, SaveKeeps DEF SetAccess

(* Set access record, which nobody answers for in a damaged memory.        *)
LEMMA SetAccessRecordKeeps ==
  ASSUME IInv, NEW i \in Idx, NEW r \in Records, SetAccessRecord(i, r)
  PROVE  IInv'
<1> DEFINE blocks == WriteBlocks(i, r)
<1>1. CASE WriteRefused(i, r)
  BY <1>1, ReturnKeeps DEF SetAccessRecord
<1>2. CASE ~WriteRefused(i, r)
  <2>1. blocks \in Seq(Fitting)
    BY <1>2, WriteFits DEF IInv
  <2>2. CASE damage = "none"
    <3>1. Layout(After(blocks)) /\ Write(blocks, "OK")
      BY <1>2, <2>2, WriteRecordSound DEF SetAccessRecord, IInv
    <3> HIDE DEF blocks
    <3> QED BY <2>1, <3>1, WriteKeeps
  <2>3. CASE damage # "none"
    <3>1. /\ damage' = "layout"
          /\ mem' = After(blocks) \/ \E n \in DOMAIN blocks : mem' \in Torn(blocks, n)
      BY <1>2, <2>3 DEF SetAccessRecord
    <3> HIDE DEF blocks
    <3>2. Fits(mem')
      BY <2>1, <3>1, AfterFits, TornFits DEF IInv
    <3> QED BY <3>1, <3>2 DEF IInv, Fits
  <2> QED BY <2>2, <2>3
<1> QED BY <1>1, <1>2

(* The wiped memory is sound whatever it was before.                       *)
LEMMA RemoveAllKeeps ==
  ASSUME IInv, RemoveAllAccess
  PROVE  IInv'
<1> DEFINE blocks == [n \in 1 .. Size |-> Clear(n - 1)]
<1>1. Size \in Nat /\ \A n \in 1 .. Size : n - 1 \in Idx
  BY StoreAssumption DEF Idx
<1>2. blocks \in Seq(Fitting)
  <2>1. \A n \in 1 .. Size : Clear(n - 1) \in Fitting
    BY <1>1, ClearFits DEF IInv
  <2> QED BY <1>1, <2>1, IsASeq
<1>3. ASSUME NEW i \in Idx
      PROVE  Clean(After(blocks)[i])
  <2>1. /\ i + 1 \in DOMAIN blocks /\ i + 1 \in Nat /\ blocks[i + 1] = Clear(i)
        /\ \A k \in DOMAIN blocks : blocks[k] = Clear(k - 1) /\ k \in Int
    BY StoreAssumption DEF Idx
  <2>2. \A k : Clear(k).at = k
    BY DEF Clear, Block
  <2>3. \A k \in DOMAIN blocks : blocks[k].at = i => k = i + 1
    BY <2>1, <2>2, IdxNat
  <2>4. After(blocks)[i] = blocks[i + 1].entry
    <3> HIDE DEF blocks
    <3> QED BY <2>1, <2>2, <2>3, AfterBlocks
  <2>5. Clear(i).entry = EntryWith(Blank, mem[i].data)
    BY DEF Clear, Block
  <2>6. Clean(EntryWith(Blank, mem[i].data))
    BY ClearIs DEF IInv, Fits
  <2> HIDE DEF blocks
  <2> QED BY <2>1, <2>4, <2>5, <2>6
<1> HIDE DEF blocks
<1>4. Fits(After(blocks))
  BY <1>2, AfterFits DEF IInv
<1>5. \A e : Clean(e) => ~Double(e) /\ ~IsContinuation(e) /\ ~e.used
  BY EntriesOf DEF Clean, Double, IsContinuation, IsEmpty
<1>6. Layout(After(blocks))
  BY <1>3, <1>4, <1>5 DEF Layout, Fits, Paired, Owned, MarksRecords
<1>7. \/ mem' = After(blocks)
      \/ (\E n \in DOMAIN blocks : mem' \in Torn(blocks, n)) /\ damage' # "none"
  BY Zenon DEF RemoveAllAccess, blocks
<1>8. Fits(mem') /\ (damage' = "none" => Layout(mem'))
  BY <1>2, <1>4, <1>6, <1>7, TornFits DEF IInv
<1> QED BY <1>8 DEF IInv, Fits, Layout, Paired, Owned, MarksRecords

(* Marking the record that a check found keeps its place and its kind.     *)
LEMMA CheckKeeps ==
  ASSUME IInv, NEW request \in Requests, CheckAccess(request)
  PROVE  IInv'
<1> DEFINE fit == {i \in Scan(0) : Opens(RecordAt(i), request)}
           i == First(fit)
           e == [mem[i] EXCEPT !.used = TRUE]
<1>1. CASE fit = {} \/ mem[i].used
  <2>1. Return("denied") \/ Return("granted")
    BY <1>1 DEF CheckAccess
  <2> QED BY <2>1, ReturnKeeps
<1>2. CASE fit # {} /\ ~mem[i].used
  <2>1. fit \in SUBSET Nat /\ fit \subseteq Idx
    BY ScanIsIn, IdxNat
  <2>2. i \in fit
    BY <1>2, <2>1, FirstIsIn
  <2>3. i \in Idx /\ Opens(RecordAt(i), request)
    BY <2>1, <2>2
  <2>4. Write(<<Block(i, e)>>, "granted")
    BY <1>2, Zenon DEF CheckAccess
  <2> HIDE DEF i
  <2>5. mem[i] \in Entry
    BY <2>3 DEF IInv, Fits
  <2>6. e \in Entry /\ e.type = mem[i].type /\ e.doors = mem[i].doors
    BY <2>5 DEF Entry
  <2>7. mem[i].type # {} /\ mem[i].doors # {}
    <3>1. RecordAt(i).type = mem[i].type /\ RecordAt(i).doors = mem[i].doors
      BY <2>3, RecordAtIs DEF IInv
    <3>2. request.type # {}
      BY DEF Requests
    <3> QED BY <2>3, <3>1, <3>2 DEF Opens
  <2> HIDE DEF e
  <2>8. Block(i, e) \in Fitting
    BY <2>3, <2>6 DEF IInv, Fits, Double, Fitting, Block
  <2>9. /\ Double(e) <=> Double(mem[i])
        /\ ~IsContinuation(e) /\ ~IsContinuation(mem[i])
        /\ ~IsEmpty(e) /\ ~IsEmpty(mem[i])
    BY <2>6, <2>7 DEF Double, IsContinuation, IsEmpty
  <2> DEFINE m == After(<<Block(i, e)>>)
  <2>10. /\ m \in [Idx -> Entry]
         /\ \A j \in Idx : m[j] = IF j = i THEN e ELSE mem[j]
    <3>1. \A j \in Idx : m[j] = IF j = i THEN e ELSE mem[j]
      BY <2>3, AfterOne
    <3>2. <<Block(i, e)>> \in Seq(Fitting)
      BY <2>8
    <3>3. Fits(m)
      BY <3>2, AfterFits DEF IInv
    <3> QED BY <3>1, <3>3 DEF Fits
  <2> HIDE DEF m
  <2>11. ASSUME Layout(mem) PROVE Layout(m)
    <3>1. \A j \in Idx :
            /\ Double(m[j]) <=> Double(mem[j])
            /\ IsContinuation(m[j]) <=> IsContinuation(mem[j])
            /\ m[j] # mem[j] => ~IsEmpty(m[j]) /\ ~IsContinuation(m[j])
      BY <2>9, <2>10
    <3>2. \A j \in Idx : IsContinuation(mem[j]) => m[j] = mem[j]
      BY <2>9, <2>10
    <3>3. Paired(m)
      BY <2>11, <3>1, <3>2 DEF Layout, Paired
    <3>4. Owned(m)
      BY <2>11, <3>1, IdxNat DEF Layout, Owned
    <3>5. MarksRecords(m)
      BY <2>11, <3>1 DEF Layout, MarksRecords
    <3> QED BY <2>10, <3>3, <3>4, <3>5 DEF Layout
  <2>12. <<Block(i, e)>> \in Seq(Fitting)
    BY <2>8
  <2>13. damage = "none" => Layout(After(<<Block(i, e)>>))
    BY <2>11 DEF IInv, m
  <2> QED BY <2>4, <2>12, <2>13, WriteKeeps
<1> QED BY <1>1, <1>2

(* Both listings write a record back where they read it.                   *)
LEMMA UsedKeeps ==
  ASSUME IInv, NEW start, GetUsedAccess(start) \/ GetUsedAccessV1(start)
  PROVE  IInv'
<1>1. \A i \in Idx : Unmarked(i) \in Records
  BY RecordAtIs DEF IInv
<1>2. ASSUME NEW i \in Idx, WriteRecord(i, Unmarked(i), "reported")
      PROVE  IInv'
  BY <1>1, <1>2, WriteRecordKeeps
<1>3. CASE GetUsedAccess(start)
  <2> DEFINE from == IF start = 0 THEN 0 ELSE start - 1 + Entries(mem[start - 1].type)
             found == {i \in Scan(from) : mem[i].used}
             i == First(found)
  <2>1. found \in SUBSET Nat /\ found \subseteq Idx
    BY ScanIsIn, IdxNat
  <2>2. found # {} => i \in Idx
    BY <2>1, FirstIsIn
  <2>3. \/ Return("none left") \/ Return("listed")
        \/ found # {} /\ WriteRecord(i, Unmarked(i), "reported")
    BY <1>3 DEF GetUsedAccess
  <2> HIDE DEF found, i
  <2> QED BY <1>2, <2>2, <2>3, ReturnKeeps
<1>4. CASE GetUsedAccessV1(start)
  <2> DEFINE found == {i \in Walk(start) :
                         ~IsContinuation(mem[i]) /\ ~IsEmpty(mem[i]) /\ mem[i].used}
             i == UsedFrom(start)
  <2>1. found \in SUBSET Nat /\ found \subseteq Idx
    BY ScanIsIn, IdxNat
  <2>2. i # Size => i \in Idx
    BY <2>1, FirstIsIn DEF UsedFrom
  <2>3. \/ Return("none left") \/ Return("listed") \/ Return("refused")
        \/ i # Size /\ WriteRecord(i, Unmarked(i), "reported")
    BY <1>4 DEF GetUsedAccessV1
  <2> HIDE DEF i
  <2> QED BY <1>2, <2>2, <2>3, ReturnKeeps
<1> QED BY <1>3, <1>4

-----------------------------------------------------------------------------
(* The flashed memory is empty.                                            *)
LEMMA InitHolds == Init => IInv
<1> SUFFICES ASSUME Init PROVE IInv
  OBVIOUS
<1>1. Blank \in Entry /\ Clean(Blank)
  <2>1. {} \in Types /\ {} \in SUBSET Doors
    BY DEF Types
  <2> QED BY <2>1 DEF Blank, Entry, Numbers, Clean
<1>2. ~Double(Blank) /\ ~IsContinuation(Blank) /\ ~Blank.used
  BY <1>1, EntriesOf DEF Clean, Double, IsContinuation, IsEmpty
<1>3. mem \in [Idx -> Entry] /\ \A i \in Idx : mem[i] = Blank
  BY <1>1 DEF Init
<1> QED BY <1>2, <1>3 DEF IInv, Fits, Layout, Paired, Owned, MarksRecords

(* One step for each command.                                              *)
LEMMA NextKeeps == IInv /\ [Next]_vars => IInv'
<1> SUFFICES ASSUME IInv, [Next]_vars PROVE IInv'
  OBVIOUS
<1>1. ASSUME NEW r \in Inputs, SaveAccessRecord(r) PROVE IInv'
  BY <1>1, SaveKeeps, StoreAssumption
<1>2. ASSUME NEW r \in Inputs, NEW i \in Idx, SetAccessRecord(i, r) PROVE IInv'
  BY <1>2, SetAccessRecordKeeps, StoreAssumption
<1>3. ASSUME NEW type \in {{"CARD"}, {"PIN"}}, NEW key \in Keys, NEW doors \in SUBSET Doors,
             SetAccess(type, key, doors)
      PROVE  IInv'
  BY <1>3, SetAccessKeeps
<1>4. CASE RemoveAllAccess
  BY <1>4, RemoveAllKeeps
<1>5. ASSUME NEW request \in Requests, CheckAccess(request) PROVE IInv'
  BY <1>5, CheckKeeps
<1>6. ASSUME NEW start \in 0 .. Size, GetUsedAccess(start) PROVE IInv'
  BY <1>6, UsedKeeps
<1>7. ASSUME NEW start \in Idx, GetUsedAccessV1(start) PROVE IInv'
  BY <1>7, UsedKeeps
<1>8. CASE UNCHANGED vars
  BY <1>8 DEF vars, IInv, Fits, Layout, Paired, Owned, MarksRecords
<1> QED BY <1>1, <1>2, <1>3, <1>4, <1>5, <1>6, <1>7, <1>8 DEF Next

(* The inductive invariant holds in every state.                           *)
LEMMA Invariant == Spec => []IInv
BY InitHolds, NextKeeps, PTL DEF Spec

(* Until the power fails in a command, every record with a card and a PIN  *)
(* has its continuation, there is no other continuation, and only records  *)
(* are marked.                                                             *)
THEOREM StoreWellFormed == Spec => []WellFormed
<1>1. IInv => WellFormed
  BY DEF IInv, Layout, Paired, Owned, MarksRecords, Double, WellFormed
<1> QED BY <1>1, Invariant, PTL

(* No command reads or writes behind the last entry: a record of two       *)
(* entries never starts at the last one, also after any number of power    *)
(* failures and of commands on what they left.                             *)
THEOREM StoreInBounds ==
  Spec => [](\A i \in Idx : Entries(mem[i].type) = 2 => i + 1 \in Idx)
<1>1. IInv => \A i \in Idx : Entries(mem[i].type) = 2 => i + 1 \in Idx
  BY DEF IInv, Fits, Double
<1> QED BY <1>1, Invariant, PTL

-----------------------------------------------------------------------------
(* The scan *)

Stops(s, A, i) ==
  \/ i = s
  \/ i > s /\ i - 1 \in A /\ Entries(mem[i - 1].type) = 1
  \/ i > s + 1 /\ i - 2 \in A /\ Entries(mem[i - 2].type) = 2

(* The function by which a scan is defined exists, one index after the     *)
(* other: the least one it did not reach would be reached from the ones    *)
(* before.                                                                 *)
LEMMA StopsUpTo ==
  ASSUME NEW s \in Nat, NEW n \in Nat
  PROVE  \E A \in SUBSET Nat : \A i \in Nat : i < n => (i \in A <=> Stops(s, A, i))
<1> DEFINE Reached(k) == \E A \in SUBSET Nat : \A i \in Nat : i < k => (i \in A <=> Stops(s, A, i))
           bad == {k \in Nat : ~Reached(k)}
<1>1. Reached(0)
  <2>1. {} \in SUBSET Nat /\ \A i \in Nat : ~(i < 0)
    OBVIOUS
  <2> QED BY <2>1, Zenon
<1>2. ASSUME NEW k \in Nat, Reached(k)
      PROVE  Reached(k + 1)
  <2>1. PICK A \in SUBSET Nat : \A i \in Nat : i < k => (i \in A <=> Stops(s, A, i))
    BY <1>2
  <2> DEFINE B == {i \in A : i < k} \cup (IF Stops(s, A, k) THEN {k} ELSE {})
  <2>2. B \in SUBSET Nat
    OBVIOUS
  <2>3. \A i \in Nat : i < k => (i \in B <=> i \in A)
    OBVIOUS
  <2>4. k \in B <=> Stops(s, A, k)
    OBVIOUS
  <2> HIDE DEF B
  <2>5. ASSUME NEW i \in Nat, i < k + 1
        PROVE  Stops(s, A, i) <=> Stops(s, B, i)
    <3>1. i > s => i - 1 \in Nat /\ i - 1 < k
      BY <2>5
    <3>2. i > s + 1 => i - 2 \in Nat /\ i - 2 < k
      BY <2>5
    <3> QED BY <2>3, <3>1, <3>2 DEF Stops
  <2>6. ASSUME NEW i \in Nat, i < k + 1
        PROVE  i \in B <=> Stops(s, A, i)
    <3>1. i < k \/ i = k
      BY <2>6
    <3> QED BY <2>1, <2>3, <2>4, <3>1
  <2> QED BY <2>2, <2>5, <2>6
<1> HIDE DEF Reached
<1>3. bad = {}
  <2> SUFFICES ASSUME bad # {} PROVE FALSE
    OBVIOUS
  <2>1. First(bad) \in bad /\ \A k \in bad : First(bad) <= k
    BY FirstIsIn
  <2>2. First(bad) \in Nat /\ First(bad) # 0
    BY <2>1, <1>1
  <2>3. First(bad) - 1 \in Nat /\ First(bad) - 1 \notin bad /\ First(bad) - 1 + 1 = First(bad)
    BY <2>1, <2>2
  <2> QED BY <2>1, <2>3, <1>2
<1>4. Reached(n)
  BY <1>3
<1> QED BY <1>4 DEF Reached

(* Equivalent truth values are equal.                                      *)
LEMMA SameBoolean ==
  ASSUME NEW P \in BOOLEAN, NEW Q \in BOOLEAN, P <=> Q
  PROVE  P = Q
BY Zenon

(* The indexes a scan stops at.                                            *)
LEMMA ScanStops ==
  ASSUME NEW s \in Nat, NEW i \in Idx
  PROVE  i \in Scan(s) <=> Stops(s, Scan(s), i)
<1> DEFINE F(f) == [j \in Idx |-> \/ j = s
                                  \/ j > s /\ f[j - 1] /\ Entries(mem[j - 1].type) = 1
                                  \/ j > s + 1 /\ f[j - 2] /\ Entries(mem[j - 2].type) = 2]
           stop == CHOOSE f : f = F(f)
<1>1. Scan(s) = {j \in Idx : stop[j]}
  BY DEF Scan
<1>2. PICK A \in SUBSET Nat : \A j \in Nat : j < Size => (j \in A <=> Stops(s, A, j))
  BY StopsUpTo, StoreAssumption
<1>3. \A j \in Idx : /\ j \in A <=> Stops(s, A, j)
                     /\ j > s => j - 1 \in Idx
                     /\ j > s + 1 => j - 2 \in Idx
  BY <1>2, IdxNat, StoreAssumption DEF Idx
<1> DEFINE g == [j \in Idx |-> j \in A]
<1>4. g = F(g)
  <2>1. \A j \in Idx : g[j] <=> j \in A
    OBVIOUS
  <2> DEFINE next(j) ==
               \/ j = s
               \/ j > s /\ g[j - 1] /\ Entries(mem[j - 1].type) = 1
               \/ j > s + 1 /\ g[j - 2] /\ Entries(mem[j - 2].type) = 2
  <2>2. \A j \in Idx : (j \in A) = next(j)
    <3> SUFFICES ASSUME NEW j \in Idx PROVE (j \in A) = next(j)
      OBVIOUS
    <3>1. next(j) <=> Stops(s, A, j)
      BY <1>3, <2>1 DEF Stops
    <3>2. (j \in A) <=> Stops(s, A, j)
      BY <1>3
    <3>3. (j \in A) <=> next(j)
      BY <3>1, <3>2, Zenon
    <3>4. (j \in A) \in BOOLEAN
      OBVIOUS
    <3>5. next(j) \in BOOLEAN
      <4> HIDE DEF g
      <4> QED OBVIOUS
    <3> HIDE DEF next
    <3> QED BY <3>3, <3>4, <3>5, SameBoolean, Zenon
  <2>3. F(g) = [j \in Idx |-> next(j)]
    OBVIOUS
  <2> HIDE DEF next, F
  <2>4. [j \in Idx |-> j \in A] = [j \in Idx |-> next(j)]
    BY <2>2, Zenon
  <2> QED BY <2>3, <2>4
<1>5. stop = F(stop)
  <2> HIDE DEF F
  <2> QED BY <1>4
<1> HIDE DEF stop
<1>6. \A j \in Idx : stop[j] <=> \/ j = s
                                 \/ j > s /\ stop[j - 1] /\ Entries(mem[j - 1].type) = 1
                                 \/ j > s + 1 /\ stop[j - 2] /\ Entries(mem[j - 2].type) = 2
  BY <1>5
<1> QED BY <1>1, <1>3, <1>6 DEF Stops


(* An index a scan of the whole memory passes by belongs to the record     *)
(* before it.                                                              *)
LEMMA ScanPasses ==
  ASSUME NEW i \in Idx, i \notin Scan(0)
  PROVE  i > 0 /\ i - 1 \in Scan(0) /\ Double(mem[i - 1])
<1> DEFINE Owned0(k) == k > 0 /\ k - 1 \in Scan(0) /\ Double(mem[k - 1])
           bad == {k \in Idx : k \notin Scan(0) /\ ~Owned0(k)}
<1>1. bad = {}
  <2> SUFFICES ASSUME bad # {} PROVE FALSE
    OBVIOUS
  <2>1. First(bad) \in bad /\ \A k \in bad : First(bad) <= k
    BY FirstIsIn, IdxNat
  <2>2. PICK k \in Idx : k \notin Scan(0) /\ ~Owned0(k) /\ \A j \in bad : k <= j
    BY <2>1
  <2>3. ~Stops(0, Scan(0), k)
    BY <2>2, ScanStops
  <2>4. k \in Nat /\ k > 0
    BY <2>3, IdxNat DEF Stops
  <2>5. k - 1 \in Idx /\ k - 1 \in Nat /\ k - 1 \notin bad
    BY <2>2, <2>4, IdxNat
  <2>6. k - 1 \in Scan(0) \/ Owned0(k - 1)
    BY <2>5
  <2>7. CASE k - 1 \in Scan(0)
    BY <2>2, <2>3, <2>4, <2>7, EntriesOf DEF Stops, Double
  <2>8. CASE Owned0(k - 1)
    <3>1. k - 1 > 0 /\ (k - 1) - 1 = k - 2 /\ k > 0 + 1
      BY <2>4, <2>8
    <3> QED BY <2>3, <2>8, <3>1 DEF Stops, Double
  <2> QED BY <2>6, <2>7, <2>8
<1> QED BY <1>1

-----------------------------------------------------------------------------
(* The records that can be seen *)

Real(e) == ~IsEmpty(e) /\ ~IsContinuation(e)

(* What the memory looks like also after torn commands, as long as nobody  *)
(* has set a record by its position since: a record with a card and a PIN  *)
(* is not followed by another record, and every continuation looks alike.  *)
Loose(m) ==
  /\ m \in [Idx -> Entry]
  /\ \A i \in Idx :
       /\ IsContinuation(m[i]) => m[i].type = {"PIN"}
       /\ Double(m[i]) => i + 1 \in Idx /\ ~Real(m[i + 1])
       /\ m[i].used => Real(m[i])

LInv == IInv /\ (damage # "layout" => Loose(mem))

(* The record that starts at i in the memory m, see RecordAt. *)
RecordIn(m, i) ==
  [type |-> m[i].type, used |-> m[i].used, doors |-> m[i].doors,
   card |-> IF HasCard(m[i].type) THEN m[i].data ELSE Zero,
   pin |-> IF ~HasPin(m[i].type) THEN Zero
           ELSE IF HasCard(m[i].type) THEN m[i + 1].data ELSE m[i].data]

VisibleIn(m) == [i \in {j \in Idx : Real(m[j])} |-> RecordIn(m, i)]

(* An entry is empty, a continuation or a record, which takes two entries  *)
(* with a card and a PIN only.                                             *)
LEMMA KindsOf ==
  /\ \A e : IsContinuation(e) /\ e.type = {"PIN"} => ~Double(e)
  /\ \A e : IsEmpty(e) => ~Double(e)
  /\ \A e : ~Real(e) <=> IsEmpty(e) \/ IsContinuation(e)
  /\ \A e : Clean(e) => ~Real(e) /\ ~Double(e) /\ ~IsContinuation(e) /\ ~e.used
<1>1. Entries({"PIN"}) # 2 /\ Entries({}) # 2
  BY EntriesOf
<1>2. \A e : ~Real(e) <=> IsEmpty(e) \/ IsContinuation(e)
  BY DEF Real
<1>3. \A e : e.type = {"PIN"} \/ e.type = {} => ~Double(e)
  BY <1>1, Zenon DEF Double
<1> QED BY <1>2, <1>3 DEF IsContinuation, IsEmpty, Clean

(* A scan never stops at the second entry of a record ...                  *)
LEMMA ScanIsLone ==
  ASSUME Loose(mem), NEW i \in Scan(0)
  PROVE  i \in Idx /\ (i > 0 => ~Double(mem[i - 1]))
<1>1. i \in Idx /\ i \in Nat
  BY ScanIsIn, IdxNat
<1>2. Stops(0, Scan(0), i)
  BY <1>1, ScanStops
<1>3. ASSUME i > 0 PROVE ~Double(mem[i - 1])
  <2>1. CASE i - 1 \in Scan(0) /\ Entries(mem[i - 1].type) = 1
    BY <2>1 DEF Double
  <2>2. CASE i > 1 /\ i - 2 \in Scan(0) /\ Entries(mem[i - 2].type) = 2
    <3>1. i - 2 \in Idx /\ i - 1 \in Idx /\ (i - 2) + 1 = i - 1
      BY <1>1, <2>2, IdxNat, ScanIsIn
    <3>2. ~Real(mem[(i - 2) + 1])
      BY <2>2, <3>1 DEF Loose, Double
    <3>3. ~Real(mem[i - 1])
      BY <3>1, <3>2
    <3> QED BY <3>1, <3>3, KindsOf DEF Loose
  <2> QED BY <1>1, <1>2, <1>3, <2>1, <2>2 DEF Stops
<1> QED BY <1>1, <1>3

(* ... and stops at every record.                                          *)
LEMMA ScanFinds ==
  ASSUME Loose(mem), NEW i \in Idx, Real(mem[i])
  PROVE  i \in Scan(0)
<1> SUFFICES ASSUME i \notin Scan(0) PROVE FALSE
  OBVIOUS
<1>1. i > 0 /\ i - 1 \in Scan(0) /\ Double(mem[i - 1])
  BY ScanPasses
<1>2. i \in Nat /\ i - 1 \in Idx /\ (i - 1) + 1 = i
  BY <1>1, IdxNat
<1>3. ~Real(mem[(i - 1) + 1])
  BY <1>1, <1>2 DEF Loose
<1> QED BY <1>2, <1>3

(* So the records a check may find are all the records there are.          *)
LEMMA VisibleIs == Loose(mem) => Visible = VisibleIn(mem)
<1> SUFFICES ASSUME Loose(mem) PROVE Visible = VisibleIn(mem)
  OBVIOUS
<1> DEFINE S == {i \in Scan(0) : ~IsEmpty(mem[i]) /\ ~IsContinuation(mem[i])}
           T == {j \in Idx : Real(mem[j])}
<1>1. S = T
  BY ScanFinds, ScanIsIn DEF Real
<1>2. \A i \in T : RecordAt(i) = RecordIn(mem, i)
  BY DEF RecordAt, RecordIn
<1>3. Visible = [i \in S |-> RecordAt(i)]
  BY DEF Visible
<1>4. VisibleIn(mem) = [i \in T |-> RecordIn(mem, i)]
  BY DEF VisibleIn
<1> HIDE DEF S, T
<1> QED BY <1>1, <1>2, <1>3, <1>4

(* The same of the records after a command.                                *)
LEMMA VisibleAfter ==
  ASSUME Loose(mem') PROVE Visible' = VisibleIn(mem')
<1>1. (Loose(mem) => Visible = VisibleIn(mem))'
  BY VisibleIs, PTL
<1> QED BY <1>1 DEF Loose, VisibleIn, RecordIn


-----------------------------------------------------------------------------
(* What a write changes *)

(* What a write at i may leave there, torn or not, and behind it. *)
Leads(e) == ~IsContinuation(e) /\ (e.used => Real(e))
Trails(e) == ~Real(e) /\ ~e.used /\ (IsContinuation(e) => e.type = {"PIN"})

Touched(m, i) ==
  /\ m \in [Idx -> Entry]
  /\ \A j \in Idx : j # i /\ j # i + 1 => m[j] = mem[j]
  /\ Leads(m[i])
  /\ Double(m[i]) => i + 1 \in Idx /\ ~Real(m[i + 1])
  /\ i + 1 \in Idx =>
       m[i + 1] = mem[i + 1] \/ (~Real(mem[i + 1]) /\ Trails(m[i + 1]))

Lone(i) == i \in Idx /\ (i > 0 => ~Double(mem[i - 1]))

(* The memory stays usable ...                                             *)
LEMMA TouchedIsLoose ==
  ASSUME Loose(mem), NEW i, Lone(i), NEW m, Touched(m, i)
  PROVE  Loose(m)
<1>1. i \in Nat /\ i \in Idx /\ \A j \in Idx : j \in Nat
  BY IdxNat DEF Lone
<1>2. ASSUME NEW j \in Idx
      PROVE  /\ IsContinuation(m[j]) => m[j].type = {"PIN"}
             /\ m[j].used => Real(m[j])
  BY <1>1 DEF Touched, Leads, Trails, Loose
<1>3. ASSUME NEW j \in Idx, Double(m[j])
      PROVE  j + 1 \in Idx /\ ~Real(m[j + 1])
  <2>1. CASE j = i
    BY <1>3, <2>1 DEF Touched
  <2>2. CASE j # i /\ m[j] = mem[j]
    <3>1. j + 1 \in Idx /\ ~Real(mem[j + 1])
      BY <1>3, <2>2 DEF Loose
    <3>2. j + 1 # i
      <4> SUFFICES ASSUME j + 1 = i PROVE FALSE
        OBVIOUS
      <4>1. i > 0 /\ i - 1 = j
        BY <1>1
      <4> QED BY <1>3, <2>2, <4>1 DEF Lone
    <3>3. j + 1 # i + 1
      BY <1>1, <2>2
    <3> QED BY <3>1, <3>2, <3>3 DEF Touched
  <2>3. CASE j # i /\ m[j] # mem[j]
    <3>1. j = i + 1 /\ Trails(m[j])
      BY <2>3 DEF Touched
    <3>2. ~Double(m[j])
      BY <3>1, KindsOf DEF Trails
    <3> QED BY <1>3, <3>2
  <2> QED BY <2>1, <2>2, <2>3
<1> QED BY <1>2, <1>3 DEF Loose, Touched

(* ... and no record but the one at i is another one than before.          *)
LEMMA TouchedIsOnlyAt ==
  ASSUME Loose(mem), NEW i, Lone(i), NEW m, Touched(m, i), NEW k \in Idx, k # i
  PROVE  /\ Real(m[k]) <=> Real(mem[k])
         /\ Real(mem[k]) => RecordIn(m, k) = RecordIn(mem, k)
<1>1. i \in Nat /\ i \in Idx /\ k \in Nat
  BY IdxNat DEF Lone
<1>2. Real(m[k]) <=> Real(mem[k])
  BY DEF Touched, Trails
<1>3. ASSUME Real(mem[k])
      PROVE  RecordIn(m, k) = RecordIn(mem, k)
  <2>1. m[k] = mem[k]
    BY <1>3 DEF Touched
  <2>2. ASSUME Double(mem[k]) PROVE m[k + 1] = mem[k + 1]
    <3>1. k + 1 \in Idx
      BY <2>2 DEF Loose
    <3>2. k + 1 # i
      <4> SUFFICES ASSUME k + 1 = i PROVE FALSE
        OBVIOUS
      <4>1. i > 0 /\ i - 1 = k
        BY <1>1
      <4> QED BY <2>2, <4>1 DEF Lone
    <3>3. k + 1 # i + 1
      BY <1>1
    <3> QED BY <3>1, <3>2, <3>3 DEF Touched
  <2>3. HasCard(mem[k].type) /\ HasPin(mem[k].type) => Double(mem[k])
    BY EntriesOf DEF Double, Loose, Entry
  <2> QED BY <2>1, <2>2, <2>3 DEF RecordIn
<1> QED BY <1>2, <1>3

(* The outcomes of a power failure in the first and the second block.      *)
LEMMA TornFirst ==
  ASSUME NEW blocks, NEW i \in Idx, NEW e, blocks[1] = Block(i, e),
         mem \in [Idx -> Entry], e \in Entry, NEW m \in Torn(blocks, 1)
  PROVE  \E h \in {mem[i], e}, d \in Numbers : m = [mem EXCEPT ![i] = EntryWith(h, d)]
<1>1. After(SubSeq(blocks, 1, 1 - 1)) = mem
  <2>1. SubSeq(blocks, 1, 1 - 1) = << >>
    OBVIOUS
  <2>2. After(<< >>) = [j \in Idx |-> mem[j]]
    BY DEF After
  <2> QED BY <2>1, <2>2
<1>2. blocks[1].at = i /\ blocks[1].entry = e
  BY DEF Block
<1>3. mem[i].data \in Numbers
  BY DEF Entry
<1> QED BY <1>1, <1>2, <1>3 DEF Torn

(* The first of two blocks.                                                *)
LEMMA FirstOfTwo == \A x, y : SubSeq(<<x, y>>, 1, 1) = <<x>>
<1> SUFFICES ASSUME NEW x, NEW y PROVE SubSeq(<<x, y>>, 1, 1) = <<x>>
  OBVIOUS
<1>1. <<x, y>> \in Seq({x, y}) /\ <<x>> \in Seq({x, y}) /\ Len(<<x, y>>) = 2
  OBVIOUS
<1>2. SubSeq(<<x, y>>, 1, 1) \in Seq({x, y})
  BY <1>1, SubSeqProperties
<1>3. Len(SubSeq(<<x, y>>, 1, 1)) = 1 /\ SubSeq(<<x, y>>, 1, 1)[1] = x
  BY <1>1, SubSeqProperties
<1>4. Len(<<x>>) = 1 /\ <<x>>[1] = x
  OBVIOUS
<1> DEFINE s == SubSeq(<<x, y>>, 1, 1)
           t == <<x>>
<1>5. s \in Seq({x, y}) /\ t \in Seq({x, y}) /\ Len(s) = Len(t)
      /\ \A k \in 1 .. Len(s) : s[k] = t[k]
  BY <1>1, <1>2, <1>3, <1>4
<1> HIDE DEF s, t
<1>6. s = t
  BY <1>5, SeqEqual
<1> QED BY <1>6 DEF s, t

(* When it fails in the second block the first one is complete.            *)
LEMMA TornSecond ==
  ASSUME NEW i \in Idx, i + 1 \in Idx, NEW e \in Entry, NEW f \in Entry,
         mem \in [Idx -> Entry], NEW m \in Torn(<<Block(i, e), Block(i + 1, f)>>, 2)
  PROVE  \E h \in {mem[i + 1], f}, d \in Numbers :
           \A j \in Idx : m[j] = IF j = i THEN e
                                 ELSE IF j = i + 1 THEN EntryWith(h, d) ELSE mem[j]
<1> DEFINE b == <<Block(i, e), Block(i + 1, f)>>
           a == After(<<Block(i, e)>>)
<1>1. SubSeq(b, 1, 2 - 1) = <<Block(i, e)>>
  <2>1. 2 - 1 = 1
    OBVIOUS
  <2> QED BY <2>1, FirstOfTwo
<1>2. b[2].at = i + 1 /\ b[2].entry = f
  BY DEF Block
<1>3. i # i + 1
  BY IdxNat
<1>4. /\ \A j \in Idx : a[j] = IF j = i THEN e ELSE mem[j]
      /\ a = [j \in Idx |-> a[j]]
  BY AfterOne, AfterIsFunction
<1>5. a[i + 1] = mem[i + 1] /\ mem[i + 1].data \in Numbers
  BY <1>3, <1>4 DEF Entry
<1>6. m \in Torn(b, 2) /\ After(SubSeq(b, 1, 2 - 1)) = a
  BY <1>1
<1> HIDE DEF a, b
<1>7. PICK h \in {mem[i + 1], f}, d \in Numbers : m = [a EXCEPT ![i + 1] = EntryWith(h, d)]
  BY <1>2, <1>5, <1>6 DEF Torn
<1> QED BY <1>3, <1>4, <1>7


(* A torn entry is of the kind of its header.                              *)
LEMMA KindOfTorn ==
  ASSUME NEW h \in Entry, NEW d \in Numbers
  PROVE  /\ EntryWith(h, d) \in Entry
         /\ Double(EntryWith(h, d)) <=> Double(h)
         /\ Leads(EntryWith(h, d)) <=> Leads(h)
         /\ Trails(EntryWith(h, d)) <=> Trails(h)
<1> DEFINE e == EntryWith(h, d)
<1>1. e \in Entry /\ e.type = h.type /\ e.used = h.used /\ e.doors = h.doors
  BY DEF EntryWith, Entry
<1> HIDE DEF e
<1>2. (IsEmpty(e) <=> IsEmpty(h)) /\ (IsContinuation(e) <=> IsContinuation(h))
  BY <1>1 DEF IsEmpty, IsContinuation
<1>3. Real(e) <=> Real(h)
  BY <1>2 DEF Real
<1>4. /\ Double(e) <=> Double(h)
      /\ Leads(e) <=> Leads(h)
      /\ Trails(e) <=> Trails(h)
  BY <1>1, <1>2, <1>3 DEF Double, Leads, Trails
<1> QED BY <1>1, <1>4 DEF e

(* Another entry in place of one.                                          *)
LEMMA HeadTouches ==
  ASSUME mem \in [Idx -> Entry], NEW i \in Idx, NEW x \in Entry, Leads(x),
         Double(x) => i + 1 \in Idx /\ ~Real(mem[i + 1])
  PROVE  Touched([mem EXCEPT ![i] = x], i)
<1>1. i + 1 # i
  BY IdxNat
<1> QED BY <1>1 DEF Touched

(* A record of one entry, or none, or a header that changes.               *)
LEMMA OneTouches ==
  ASSUME Loose(mem), NEW i \in Idx, ~IsContinuation(mem[i]), NEW e \in Entry, Leads(e),
         Double(e) => i + 1 \in Idx /\ ~Real(mem[i + 1])
  PROVE  /\ After(<<Block(i, e)>>) = [mem EXCEPT ![i] = e]
         /\ Touched(After(<<Block(i, e)>>), i)
         /\ \A n \in DOMAIN <<Block(i, e)>> : \A m \in Torn(<<Block(i, e)>>, n) : Touched(m, i)
<1> DEFINE b == <<Block(i, e)>>
<1>1. mem \in [Idx -> Entry]
  BY DEF Loose
<1>2. After(b) = [mem EXCEPT ![i] = e]
  <2>1. /\ \A j \in Idx : After(b)[j] = IF j = i THEN e ELSE mem[j]
        /\ After(b) = [j \in Idx |-> After(b)[j]]
    BY AfterOne, AfterIsFunction
  <2> HIDE DEF b
  <2> QED BY <2>1, <1>1
<1>3. Touched(After(b), i)
  BY <1>1, <1>2, HeadTouches
<1>4. ASSUME NEW m \in Torn(b, 1)
      PROVE  Touched(m, i)
  <2>1. PICK h \in {mem[i], e}, d \in Numbers : m = [mem EXCEPT ![i] = EntryWith(h, d)]
    BY <1>1, <1>4, TornFirst
  <2>2. h \in Entry /\ Leads(h) /\ (Double(h) => i + 1 \in Idx /\ ~Real(mem[i + 1]))
    BY <1>1 DEF Loose, Leads
  <2>3. /\ EntryWith(h, d) \in Entry /\ Leads(EntryWith(h, d))
        /\ Double(EntryWith(h, d)) => i + 1 \in Idx /\ ~Real(mem[i + 1])
    BY <2>2, KindOfTorn
  <2> QED BY <1>1, <2>1, <2>3, HeadTouches
<1>5. DOMAIN b = {1}
  OBVIOUS
<1> HIDE DEF b
<1>6. \A n \in DOMAIN b : \A m \in Torn(b, n) : Touched(m, i)
  BY <1>4, <1>5
<1> QED BY <1>2, <1>3, <1>6 DEF b

(* A record of two entries, or of one in place of two.                     *)
LEMMA TwoTouches ==
  ASSUME Loose(mem), NEW i \in Idx, ~IsContinuation(mem[i]), NEW e \in Entry, Leads(e),
         i + 1 \in Idx, ~Real(mem[i + 1]), NEW f \in Entry, Trails(f)
  PROVE  LET b == <<Block(i, e), Block(i + 1, f)>>
         IN  /\ \A j \in Idx : After(b)[j] = IF j = i THEN e ELSE IF j = i + 1 THEN f ELSE mem[j]
             /\ Touched(After(b), i)
             /\ \A n \in DOMAIN b : \A m \in Torn(b, n) : Touched(m, i)
<1> DEFINE b == <<Block(i, e), Block(i + 1, f)>>
<1>1. mem \in [Idx -> Entry] /\ i + 1 # i
  BY IdxNat DEF Loose
<1>2. ASSUME NEW g \in Entry, Trails(g), NEW m \in [Idx -> Entry],
             \A j \in Idx : m[j] = IF j = i THEN e ELSE IF j = i + 1 THEN g ELSE mem[j]
      PROVE  Touched(m, i)
  <2>1. m[i] = e /\ m[i + 1] = g
    BY <1>1, <1>2
  <2>2. \A j \in Idx : j # i /\ j # i + 1 => m[j] = mem[j]
    BY <1>2
  <2>3. ~Real(g)
    BY <1>2 DEF Trails
  <2> QED BY <1>2, <2>1, <2>2, <2>3 DEF Touched
<1>3. \A j \in Idx : After(b)[j] = IF j = i THEN e ELSE IF j = i + 1 THEN f ELSE mem[j]
  BY AfterTwo
<1>4. Touched(After(b), i)
  <2>1. After(b) = [j \in Idx |-> After(b)[j]]
    BY AfterIsFunction
  <2> HIDE DEF b
  <2>2. After(b) \in [Idx -> Entry]
    BY <1>1, <1>3, <2>1
  <2> QED BY <1>2, <1>3, <2>2
<1>5. ASSUME NEW m \in Torn(b, 1)
      PROVE  Touched(m, i)
  <2>1. b[1] = Block(i, e)
    OBVIOUS
  <2>2. PICK h \in {mem[i], e}, d \in Numbers : m = [mem EXCEPT ![i] = EntryWith(h, d)]
    <3> HIDE DEF b
    <3> QED BY <1>1, <1>5, <2>1, TornFirst
  <2>3. h \in Entry /\ Leads(h)
    BY <1>1 DEF Loose, Leads
  <2>4. EntryWith(h, d) \in Entry /\ Leads(EntryWith(h, d))
    BY <2>3, KindOfTorn
  <2> QED BY <1>1, <2>2, <2>4, HeadTouches
<1>6. ASSUME NEW m \in Torn(b, 2)
      PROVE  Touched(m, i)
  <2>1. PICK h \in {mem[i + 1], f}, d \in Numbers :
          \A j \in Idx : m[j] = IF j = i THEN e ELSE IF j = i + 1 THEN EntryWith(h, d) ELSE mem[j]
    BY <1>1, <1>6, TornSecond
  <2>2. h \in Entry /\ Trails(h)
    BY <1>1 DEF Loose, Trails
  <2>3. EntryWith(h, d) \in Entry /\ Trails(EntryWith(h, d))
    BY <2>2, KindOfTorn
  <2>4. \A j \in Idx : m[j] \in Entry
    BY <1>1, <2>1, <2>3
  <2>5. m = [j \in Idx |-> m[j]]
    <3> DEFINE a == After(SubSeq(b, 1, 2 - 1))
    <3>1. a = [j \in Idx |-> a[j]]
      BY AfterIsFunction
    <3>2. m \in Torn(b, 2)
      BY <1>6
    <3> HIDE DEF b
    <3>3. \E at, x : m = [a EXCEPT ![at] = x]
      BY <3>2 DEF Torn
    <3> HIDE DEF a
    <3> QED BY <3>1, <3>3
  <2>6. m \in [Idx -> Entry]
    BY <2>4, <2>5
  <2> QED BY <1>2, <2>1, <2>3, <2>6
<1>7. DOMAIN b = {1, 2}
  OBVIOUS
<1> HIDE DEF b
<1>8. \A n \in DOMAIN b : \A m \in Torn(b, n) : Touched(m, i)
  BY <1>5, <1>6, <1>7
<1> QED BY <1>3, <1>4, <1>8 DEF b


-----------------------------------------------------------------------------
(* What a write leaves *)

(* The record r is at i, or none when it would let nobody in. *)
HeldIn(m, i, r) ==
  IF Real(m[i]) THEN Abstract!Grants(r) /\ RecordIn(m, i) = r ELSE ~Abstract!Grants(r)

(* A command that writes blocks changes the record at i only. *)
WritesAt(blocks, i) ==
  /\ Touched(After(blocks), i)
  /\ \A n \in DOMAIN blocks : \A m \in Torn(blocks, n) : Touched(m, i)

(* An entry that stands alone, with what was behind it cleared if that was *)
(* its continuation.                                                       *)
LEMMA AloneTouches ==
  ASSUME Loose(mem), NEW i \in Idx, ~IsContinuation(mem[i]),
         NEW e \in Entry, Leads(e), ~Double(e), NEW d, NEW b,
         d <=> Double(mem[i]) /\ IsContinuation(mem[i + 1]),
         b = IF d THEN <<Block(i, e), Clear(i + 1)>> ELSE <<Block(i, e)>>
  PROVE  WritesAt(b, i) /\ After(b)[i] = e
<1>1. CASE d
  <2> DEFINE f == EntryWith(Blank, mem[i + 1].data)
  <2>1. i + 1 \in Idx /\ ~Real(mem[i + 1]) /\ i \in Idx
    BY <1>1 DEF Loose
  <2>2. Clear(i + 1) = Block(i + 1, f) /\ f \in Entry /\ Clean(f)
    BY <2>1, ClearIs DEF Loose
  <2> HIDE DEF f
  <2>3. Trails(f)
    BY <2>2, KindsOf DEF Trails
  <2>4. b = <<Block(i, e), Block(i + 1, f)>>
    BY <1>1, <2>2
  <2>5. /\ After(b)[i] = e
        /\ Touched(After(b), i)
        /\ \A n \in DOMAIN b : \A m \in Torn(b, n) : Touched(m, i)
    BY <2>1, <2>2, <2>3, <2>4, TwoTouches
  <2> QED BY <2>5 DEF WritesAt
<1>2. CASE ~d
  <2>1. b = <<Block(i, e)>>
    BY <1>2
  <2>2. /\ After(b) = [mem EXCEPT ![i] = e]
        /\ Touched(After(b), i)
        /\ \A n \in DOMAIN b : \A m \in Torn(b, n) : Touched(m, i)
    BY <2>1, OneTouches
  <2>3. After(b)[i] = e
    BY <2>2 DEF Loose
  <2> QED BY <2>2, <2>3 DEF WritesAt
<1> QED BY <1>1, <1>2

(* eeprom_write_access_record: what it leaves is the record, and it writes *)
(* at the index of the record only.                                        *)
LEMMA WriteTouches ==
  ASSUME Loose(mem), NEW i \in Idx, NEW r \in Records, ~WriteRefused(i, r)
  PROVE  /\ WritesAt(WriteBlocks(i, r), i)
         /\ HeldIn(After(WriteBlocks(i, r)), i, r)
<1> DEFINE b == WriteBlocks(i, r)
           d == Entries(mem[i].type) = 2 /\ IsContinuation(mem[i + 1])
           old == IF d THEN <<Clear(i + 1)>> ELSE << >>
<1>1. ~IsContinuation(mem[i]) /\ (d <=> Double(mem[i]) /\ IsContinuation(mem[i + 1]))
  BY DEF WriteRefused, Double
<1>2. /\ r.type \in Types /\ r.used \in BOOLEAN /\ r.doors \in SUBSET Doors
      /\ r.card \in Numbers /\ r.pin \in Numbers
      /\ ~HasCard(r.type) => r.card = Zero
      /\ ~HasPin(r.type) => r.pin = Zero
      /\ r = [type |-> r.type, used |-> r.used, doors |-> r.doors,
              card |-> r.card, pin |-> r.pin]
  BY DEF Records
<1>3. CASE r.type = {} \/ r.doors = {}
  <2> DEFINE e == EntryWith(Blank, mem[i].data)
  <2>1. NewBlocks(i, r) = << >>
    BY <1>3 DEF NewBlocks
  <2>2. b = << >> \o (<<Clear(i)>> \o old)
    BY <2>1 DEF WriteBlocks, LeftOver
  <2>3. Clear(i) = Block(i, e) /\ e \in Entry /\ Clean(e)
    BY ClearIs DEF Loose
  <2>4. b = IF d THEN <<Block(i, e), Clear(i + 1)>> ELSE <<Block(i, e)>>
    BY <2>2, <2>3
  <2> HIDE DEF e, b, d
  <2>5. Leads(e) /\ ~Double(e) /\ ~Real(e)
    BY <2>3, KindsOf DEF Leads
  <2>6. WritesAt(b, i) /\ After(b)[i] = e
    BY <1>1, <2>3, <2>4, <2>5, AloneTouches
  <2>7. HeldIn(After(b), i, r)
    BY <1>3, <2>5, <2>6 DEF HeldIn, Abstract!Grants
  <2> QED BY <2>6, <2>7 DEF b
<1>4. CASE r.type # {} /\ r.doors # {} /\ ~(HasCard(r.type) /\ HasPin(r.type))
  <2> DEFINE e == EntryWith(r, IF HasCard(r.type) THEN r.card ELSE r.pin)
  <2>1. NewBlocks(i, r) = <<Block(i, e)>>
    BY <1>4 DEF NewBlocks
  <2>2. b = <<Block(i, e)>> \o (<< >> \o old)
    BY <2>1 DEF WriteBlocks, LeftOver
  <2>3. b = IF d THEN <<Block(i, e), Clear(i + 1)>> ELSE <<Block(i, e)>>
    BY <2>2
  <2>4. /\ e.type = r.type /\ e.used = r.used /\ e.doors = r.doors
        /\ e.data = IF HasCard(r.type) THEN r.card ELSE r.pin
        /\ e \in Entry
    BY <1>2 DEF EntryWith, Entry
  <2> HIDE DEF e, b, d
  <2>5. Leads(e) /\ ~Double(e) /\ Real(e)
    BY <2>4, <1>4, <1>2, EntriesOf DEF Leads, Real, Double, IsContinuation, IsEmpty
  <2>6. WritesAt(b, i) /\ After(b)[i] = e
    BY <1>1, <2>3, <2>4, <2>5, AloneTouches
  <2>7. RecordIn(After(b), i) = r
    BY <1>2, <1>4, <2>4, <2>6 DEF RecordIn
  <2>8. HeldIn(After(b), i, r)
    BY <1>4, <2>5, <2>6, <2>7 DEF HeldIn, Abstract!Grants
  <2> QED BY <2>6, <2>8 DEF b
<1>5. CASE r.type # {} /\ r.doors # {} /\ HasCard(r.type) /\ HasPin(r.type)
  <2> DEFINE e == EntryWith(r, r.card)
             f == [type |-> {"PIN"}, used |-> FALSE, doors |-> {}, data |-> r.pin]
  <2>1. NewBlocks(i, r) = <<Block(i, e), Block(i + 1, f)>>
    BY <1>5 DEF NewBlocks
  <2>2. b = <<Block(i, e), Block(i + 1, f)>> \o (<< >> \o << >>)
    BY <2>1 DEF WriteBlocks, LeftOver
  <2>3. b = <<Block(i, e), Block(i + 1, f)>>
    BY <2>2
  <2>4. /\ e.type = r.type /\ e.used = r.used /\ e.doors = r.doors /\ e.data = r.card
        /\ e \in Entry
    BY <1>2 DEF EntryWith, Entry
  <2>5. f.type = {"PIN"} /\ f.used = FALSE /\ f.doors = {} /\ f.data = r.pin /\ f \in Entry
    <3>1. {"PIN"} \in Types /\ {} \in SUBSET Doors
      BY DEF Types
    <3> QED BY <3>1, <1>2 DEF Entry
  <2>6. Entries(r.type) = 2
    BY <1>2, <1>5, EntriesOf
  <2>7. i + 1 \in Idx /\ i + 1 # i /\ ~Real(mem[i + 1])
    BY <2>6, IdxNat, StoreAssumption, KindsOf DEF WriteRefused, Idx
  <2> HIDE DEF e, f, b
  <2>8. Leads(e) /\ Real(e)
    BY <2>4, <1>5 DEF Leads, Real, IsContinuation, IsEmpty
  <2>9. Trails(f)
    <3>1. ~Real(f)
      BY <2>5, KindsOf DEF IsEmpty, IsContinuation
    <3> QED BY <2>5, <3>1 DEF Trails
  <2>10. /\ \A j \in Idx : After(b)[j] = IF j = i THEN e ELSE IF j = i + 1 THEN f ELSE mem[j]
         /\ WritesAt(b, i)
    BY <1>1, <2>3, <2>4, <2>5, <2>7, <2>8, <2>9, TwoTouches DEF WritesAt
  <2>11. After(b)[i] = e /\ After(b)[i + 1] = f
    BY <2>7, <2>10
  <2>12. RecordIn(After(b), i) = r
    BY <1>2, <1>5, <2>4, <2>5, <2>11 DEF RecordIn
  <2>13. HeldIn(After(b), i, r)
    BY <1>5, <2>8, <2>11, <2>12 DEF HeldIn, Abstract!Grants
  <2> QED BY <2>10, <2>13 DEF b
<1> QED BY <1>3, <1>4, <1>5


-----------------------------------------------------------------------------
(* The commands implement those of the table *)

(* What the table holds: a record at each index where one starts.          *)
LEMMA VisibleFacts ==
  ASSUME NEW m
  PROVE  /\ DOMAIN VisibleIn(m) = {j \in Idx : Real(m[j])}
         /\ \A k \in DOMAIN VisibleIn(m) : VisibleIn(m)[k] = RecordIn(m, k)
BY DEF VisibleIn

(* A command that writes at one index changes the table there only ...     *)
LEMMA OnlyAtSame ==
  ASSUME Loose(mem), NEW i, Lone(i), Touched(mem', i)
  PROVE  Loose(mem') /\ Abstract!OnlyAt(i)
<1>1. Loose(mem')
  BY TouchedIsLoose
<1>2. Visible = VisibleIn(mem) /\ Visible' = VisibleIn(mem')
  BY <1>1, VisibleIs, VisibleAfter
<1>3. \A k \in Idx : k # i =>
        /\ Real(mem'[k]) <=> Real(mem[k])
        /\ Real(mem[k]) => RecordIn(mem', k) = RecordIn(mem, k)
  BY TouchedIsOnlyAt
<1>4. /\ DOMAIN Visible' \ {i} = DOMAIN Visible \ {i}
      /\ \A k \in DOMAIN Visible \ {i} : Visible'[k] = Visible[k]
  BY <1>2, <1>3, VisibleFacts
<1> QED BY <1>1, <1>4, Zenon DEF Abstract!OnlyAt

(* ... and has put there what the memory holds.                            *)
LEMMA HoldsOne ==
  ASSUME Loose(mem'), NEW i \in Idx, NEW rs, NEW r \in rs, HeldIn(mem', i, r)
  PROVE  Abstract!Holds(i, rs)
<1>1. Visible' = VisibleIn(mem')
  BY VisibleAfter
<1>2. i \in DOMAIN Visible' => Visible'[i] = r /\ Abstract!Grants(r)
  BY <1>1, VisibleFacts DEF HeldIn
<1>3. i \notin DOMAIN Visible' => ~Abstract!Grants(r)
  BY <1>1, VisibleFacts DEF HeldIn
<1> QED BY <1>2, <1>3 DEF Abstract!Holds

(* So a command that writes there, completed or torn, is one of the table. *)
LEMMA PutImplements ==
  ASSUME damage # "layout", Loose(mem), NEW i, Lone(i), NEW blocks, WritesAt(blocks, i),
         NEW rs, NEW r \in rs, HeldIn(After(blocks), i, r), NEW res, Write(blocks, res)
  PROVE  Loose(mem') /\ Abstract!PutOneOf(i, rs, res)
<1>1. Touched(mem', i)
  BY DEF Write, WritesAt
<1>2. Loose(mem') /\ Abstract!OnlyAt(i)
  BY <1>1, OnlyAtSame
<1>3. CASE mem' = After(blocks) /\ result' = res /\ UNCHANGED damage
  <2>1. HeldIn(mem', i, r)
    BY <1>3
  <2>2. Abstract!Holds(i, rs)
    BY <1>2, <2>1, HoldsOne DEF Lone
  <2> QED BY <1>2, <1>3, <2>2 DEF Abstract!PutOneOf
<1>4. CASE result' = "power failed" /\ damage' = "record"
  BY <1>2, <1>4 DEF Abstract!PutOneOf
<1> QED BY <1>3, <1>4 DEF Write

(* A command that only answers.                                            *)
LEMMA RefuseImplements ==
  ASSUME NEW res, Return(res)
  PROVE  Abstract!Refuse(res) /\ (Loose(mem) => Loose(mem'))
<1>1. mem' = mem /\ result' = res /\ damage' = damage
  BY DEF Return
<1>2. Visible' = Visible
  BY <1>1 DEF Visible, Scan, RecordAt
<1> QED BY <1>1, <1>2 DEF Abstract!Refuse, Loose


(* A record that is written where one may start.                           *)
LEMMA RecordImplements ==
  ASSUME damage # "layout", Loose(mem), NEW i, Lone(i), NEW r \in Records,
         ~WriteRefused(i, r), NEW rs, r \in rs, NEW res, WriteRecord(i, r, res)
  PROVE  Loose(mem') /\ Abstract!PutOneOf(i, rs, res)
<1>1. /\ WritesAt(WriteBlocks(i, r), i) /\ HeldIn(After(WriteBlocks(i, r)), i, r)
      /\ Write(WriteBlocks(i, r), res)
  BY WriteTouches DEF Lone, WriteRecord
<1> QED BY <1>1, PutImplements

(* A record is never in the middle of another one.                         *)
LEMMA RealIsLone ==
  ASSUME Loose(mem), NEW i \in Idx, Real(mem[i])
  PROVE  /\ Lone(i) /\ i \in DOMAIN Visible
         /\ Visible[i] = RecordAt(i) /\ Abstract!Grants(RecordAt(i))
<1>1. i \in Scan(0)
  BY ScanFinds
<1>2. RecordAt(i).type = mem[i].type /\ RecordAt(i).doors = mem[i].doors
  BY DEF RecordAt
<1>3. Abstract!Grants(RecordAt(i))
  BY <1>2 DEF Abstract!Grants, Real, IsContinuation, IsEmpty
<1>4. Lone(i)
  BY <1>1, ScanIsLone DEF Lone
<1>5. i \in DOMAIN Visible /\ Visible[i] = RecordAt(i)
  BY <1>1 DEF Visible, Real
<1> QED BY <1>3, <1>4, <1>5

(* Whatever is in the table is a record that the scan meets.               *)
LEMMA VisibleIsReal ==
  \A i \in DOMAIN Visible : i \in Idx /\ i \in Scan(0) /\ Real(mem[i]) /\ Visible[i] = RecordAt(i)
BY ScanIsIn DEF Visible, Real

(* Set access: what was found is the record of the same key, and it is not *)
(* refused unless the power has failed before.                             *)
LEMMA SaveImplements ==
  ASSUME LInv, damage # "layout", NEW r \in Records, SaveAccessRecord(r)
  PROVE  Loose(mem') /\ Abstract!Save(r)
<1> DEFINE found == Loaded(r)
           free == FreeStarts(r.type)
           same == {h \in DOMAIN Visible : Abstract!SameKey(Visible[h], r)}
<1>1. Loose(mem)
  BY DEF LInv
<1>2. \A h \in same : h \in Idx /\ h \in found /\ Real(mem[h]) /\ mem[h].type = r.type
  <2> SUFFICES ASSUME NEW h \in same
               PROVE  h \in Idx /\ h \in found /\ Real(mem[h]) /\ mem[h].type = r.type
    OBVIOUS
  <2>1. h \in Idx /\ h \in Scan(0) /\ Real(mem[h]) /\ Visible[h] = RecordAt(h)
    BY VisibleIsReal
  <2>2. SameKey(RecordAt(h), r)
    BY <2>1 DEF SameKey, Abstract!SameKey
  <2>3. RecordAt(h).type = mem[h].type
    BY DEF RecordAt
  <2> QED BY <2>1, <2>2, <2>3 DEF Loaded, SameKey
<1>3. ASSUME r.type = {} PROVE same = {} /\ ~Abstract!Grants(r)
  BY <1>2, <1>3 DEF Real, IsEmpty, Abstract!Grants
<1>4. found = {} => same = {}
  BY <1>2
<1>5. CASE Return("OK") /\ (r.type = {} \/ (found = {} /\ r.doors = {}))
  <2>1. same = {} /\ ~Abstract!Grants(r)
    BY <1>3, <1>4, <1>5 DEF Abstract!Grants
  <2>2. Abstract!Refuse("OK") /\ Loose(mem')
    BY <1>1, <1>5, RefuseImplements
  <2> QED BY <2>1, <2>2 DEF Abstract!Save
<1>6. CASE found = {} /\ Return("refused")
  <2>1. Abstract!Refuse("refused") /\ Loose(mem')
    BY <1>1, <1>6, RefuseImplements
  <2> QED BY <1>4, <1>6, <2>1 DEF Abstract!Save
<1>7. CASE r.type # {} /\ found # {} /\ WriteRecord(First(found), r, "OK")
  <2> DEFINE i == First(found)
  <2>1. found \in SUBSET Nat
    BY ScanIsIn, IdxNat DEF Loaded
  <2>2. i \in found
    BY <1>7, <2>1, FirstIsIn
  <2>3. i \in Scan(0) /\ SameKey(RecordAt(i), r) /\ Lone(i) /\ i \in Idx
    BY <1>1, <2>2, ScanIsLone DEF Loaded, Lone
  <2> HIDE DEF i
  <2>4. mem[i].type = r.type /\ ~IsEmpty(mem[i])
    BY <1>7, <2>3 DEF SameKey, RecordAt, IsEmpty
  <2>5. CASE WriteRefused(i, r)
    <3>1. Abstract!Refuse("refused") /\ Loose(mem')
      BY <1>1, <1>7, <2>5, RefuseImplements DEF WriteRecord, i
    <3>2. damage # "none"
      <4> SUFFICES ASSUME damage = "none" PROVE FALSE
        OBVIOUS
      <4>1. Layout(mem)
        BY DEF LInv, IInv
      <4>2. ~IsContinuation(mem[i])
        BY <2>3, <4>1 DEF Lone, Layout, Owned
      <4>3. Entries(r.type) = 2 => i + 1 \in Idx /\ IsContinuation(mem[i + 1])
        BY <2>3, <2>4, <4>1 DEF Layout, Paired, Double
      <4>4. i + Entries(r.type) <= Size
        BY <2>3, <4>3, EntriesOf, StoreAssumption DEF Idx
      <4> QED BY <2>3, <2>5, <4>2, <4>3, <4>4, StoreAssumption, EntriesOf DEF WriteRefused, Idx
    <3> QED BY <3>1, <3>2 DEF Abstract!Save
  <2>6. CASE ~WriteRefused(i, r)
    <3>1. Loose(mem') /\ Abstract!PutOneOf(i, {r}, "OK")
      BY <1>1, <1>7, <2>3, <2>6, RecordImplements DEF i
    <3>2. Real(mem[i])
      BY <2>4, <2>6 DEF Real, WriteRefused
    <3>3. i \in same
      BY <1>1, <2>3, <3>2, RealIsLone DEF SameKey, Abstract!SameKey
    <3>4. Abstract!Put(i, r, "OK")
      BY <3>1 DEF Abstract!Put
    <3> QED BY <3>1, <3>3, <3>4 DEF Abstract!Save
  <2> QED BY <2>5, <2>6
<1>8. CASE /\ r.type # {} /\ found = {} /\ r.doors # {} /\ free # {}
           /\ WriteRecord(First(free), r, "OK")
  <2> DEFINE i == First(free)
  <2>1. free \in SUBSET Nat
    BY ScanIsIn, IdxNat DEF FreeStarts
  <2>2. i \in free
    BY <1>8, <2>1, FirstIsIn
  <2>3. i \in Scan(0) /\ IsEmpty(mem[i]) /\ Lone(i) /\ i \in Idx
    BY <1>1, <2>2, ScanIsLone DEF FreeStarts, Lone
  <2> HIDE DEF i
  <2>4. CASE WriteRefused(i, r)
    <3>1. Abstract!Refuse("refused") /\ Loose(mem')
      BY <1>1, <1>8, <2>4, RefuseImplements DEF WriteRecord, i
    <3> QED BY <1>4, <1>8, <3>1 DEF Abstract!Save
  <2>5. CASE ~WriteRefused(i, r)
    <3>1. Loose(mem') /\ Abstract!PutOneOf(i, {r}, "OK")
      BY <1>1, <1>8, <2>3, <2>5, RecordImplements DEF i
    <3>2. i \in Idx \ DOMAIN Visible
      BY <2>3, VisibleIsReal DEF Real
    <3>3. Abstract!Put(i, r, "OK") /\ Abstract!Grants(r)
      BY <1>8, <3>1 DEF Abstract!Put, Abstract!Grants
    <3> QED BY <1>4, <1>8, <3>1, <3>2, <3>3 DEF Abstract!Save
  <2> QED BY <2>4, <2>5
<1> HIDE DEF same
<1> QED BY <1>5, <1>6, <1>7, <1>8 DEF SaveAccessRecord


(* Set access record.                                                      *)
LEMMA SetAtImplements ==
  ASSUME LInv, damage # "layout", NEW i \in Idx, NEW r \in Inputs, SetAccessRecord(i, r)
  PROVE  Abstract!SetAt(i) /\ (damage' # "layout" => Loose(mem'))
<1>1. Loose(mem) /\ r \in Records
  BY StoreAssumption DEF LInv
<1>2. CASE WriteRefused(i, r)
  <2>1. Abstract!Refuse("refused") /\ Loose(mem')
    BY <1>1, <1>2, RefuseImplements DEF SetAccessRecord
  <2> QED BY <2>1 DEF Abstract!SetAt
<1>3. CASE ~WriteRefused(i, r) /\ damage = "none"
  <2>1. ~IsContinuation(mem[i]) /\ Layout(mem)
    BY <1>3 DEF WriteRefused, LInv, IInv
  <2>2. Lone(i)
    <3> SUFFICES ASSUME i > 0, Double(mem[i - 1]) PROVE FALSE
      BY DEF Lone
    <3>1. i - 1 \in Idx /\ (i - 1) + 1 = i
      BY IdxNat
    <3>2. IsContinuation(mem[(i - 1) + 1])
      BY <2>1, <3>1 DEF Layout, Paired
    <3> QED BY <2>1, <3>1, <3>2
  <2>3. WriteRecord(i, r, "OK")
    BY <1>3 DEF SetAccessRecord, WriteRecord
  <2>4. Loose(mem') /\ Abstract!PutOneOf(i, Inputs \cup V1Inputs, "OK")
    BY <1>1, <1>3, <2>2, <2>3, RecordImplements
  <2> QED BY <1>3, <2>4 DEF Abstract!SetAt
<1>4. CASE ~WriteRefused(i, r) /\ damage # "none"
  <2>1. damage' = "layout"
    BY <1>4 DEF SetAccessRecord
  <2> QED BY <1>4, <2>1 DEF Abstract!SetAt
<1> QED BY <1>2, <1>3, <1>4


(* Marking changes the mark only.                                          *)
LEMMA MarkedEntry ==
  ASSUME NEW x \in Entry
  PROVE  LET e == [x EXCEPT !.used = TRUE]
         IN  /\ e \in Entry
             /\ e.type = x.type /\ e.doors = x.doors /\ e.data = x.data /\ e.used
BY DEF Entry

(* The same of a record.                                                   *)
LEMMA MarkedRecord ==
  ASSUME NEW x \in Records, NEW u \in BOOLEAN
  PROVE  [x EXCEPT !.used = u] =
           [type |-> x.type, used |-> u, doors |-> x.doors, card |-> x.card, pin |-> x.pin]
BY DEF Records

(* A door lets in whoever a record is for, and marks it.                   *)
LEMMA CheckImplements ==
  ASSUME LInv, damage # "layout", NEW request \in Requests, CheckAccess(request)
  PROVE  Loose(mem') /\ Abstract!Check(request)
<1> DEFINE fit == {i \in Scan(0) : Opens(RecordAt(i), request)}
           seen == {h \in DOMAIN Visible : Opens(Visible[h], request)}
           i == First(fit)
           e == [mem[i] EXCEPT !.used = TRUE]
           r == [Visible[i] EXCEPT !.used = TRUE]
<1>1. Loose(mem)
  BY DEF LInv
<1>2. \A k \in fit : k \in Idx /\ Real(mem[k])
  <2> SUFFICES ASSUME NEW k \in fit PROVE k \in Idx /\ Real(mem[k])
    OBVIOUS
  <2>1. RecordAt(k).type = mem[k].type /\ RecordAt(k).doors = mem[k].doors
    BY DEF RecordAt
  <2>2. request.type # {} /\ request.door \in RecordAt(k).doors /\ RecordAt(k).type = request.type
    BY DEF Requests, Opens
  <2> QED BY <2>1, <2>2, ScanIsIn DEF Real, IsContinuation, IsEmpty
<1>3. fit = seen
  BY <1>1, <1>2, RealIsLone, VisibleIsReal
<1>4. CASE fit = {}
  <2>1. Abstract!Refuse("denied") /\ Loose(mem')
    BY <1>1, <1>4, RefuseImplements DEF CheckAccess
  <2> QED BY <1>3, <1>4, <2>1 DEF Abstract!Check
<1>5. CASE fit # {}
  <2>1. i \in fit
    <3>1. fit \in SUBSET Nat
      BY ScanIsIn, IdxNat
    <3> QED BY <1>5, <3>1, FirstIsIn
  <2>2. i \in Idx /\ Real(mem[i]) /\ i \in seen
    BY <1>2, <1>3, <2>1
  <2>3. \/ mem[i].used /\ Return("granted")
        \/ ~mem[i].used /\ Write(<<Block(i, e)>>, "granted")
    BY <1>5, Zenon DEF CheckAccess
  <2> HIDE DEF fit, seen, i
  <2>4. /\ Lone(i) /\ Visible[i] = RecordAt(i) /\ Abstract!Grants(Visible[i])
        /\ Visible[i] = RecordIn(mem, i)
    BY <1>1, <2>2, RealIsLone DEF RecordIn, RecordAt
  <2>5. /\ mem[i] \in Entry /\ e \in Entry
        /\ e.type = mem[i].type /\ e.doors = mem[i].doors /\ e.data = mem[i].data /\ e.used
    <3>1. mem[i] \in Entry
      BY <1>1, <2>2 DEF Loose
    <3> QED BY <3>1, MarkedEntry
  <2>6. r = [type |-> mem[i].type, used |-> TRUE, doors |-> mem[i].doors,
             card |-> RecordIn(mem, i).card, pin |-> RecordIn(mem, i).pin]
    <3>1. Visible[i] \in Records
      BY <2>2, <2>4, RecordAtIs DEF LInv, IInv
    <3>2. r = [type |-> Visible[i].type, used |-> TRUE, doors |-> Visible[i].doors,
               card |-> Visible[i].card, pin |-> Visible[i].pin]
      BY <3>1, MarkedRecord
    <3>3. Visible[i].type = mem[i].type /\ Visible[i].doors = mem[i].doors
      BY <2>4 DEF RecordIn
    <3> QED BY <2>4, <3>2, <3>3
  <2> HIDE DEF r
  <2>7. Abstract!Grants(r)
    <3>1. r.type = Visible[i].type /\ r.doors = Visible[i].doors
      BY <2>4, <2>6 DEF RecordIn
    <3> QED BY <2>4, <3>1 DEF Abstract!Grants
  <2>8. CASE mem[i].used /\ Return("granted")
    <3>1. mem' = mem /\ Loose(mem') /\ UNCHANGED damage /\ result' = "granted"
      BY <1>1, <2>8 DEF Return, Loose
    <3>2. Touched(mem', i)
      BY <1>1, <2>2, <3>1 DEF Touched, Leads, Loose, Real
    <3>3. r = RecordIn(mem, i)
      <4>1. mem[i].used = TRUE
        BY <2>5, <2>8 DEF Entry
      <4> QED BY <2>6, <4>1 DEF RecordIn
    <3>4. HeldIn(mem', i, r)
      BY <2>2, <2>7, <3>1, <3>3 DEF HeldIn
    <3>5. Abstract!OnlyAt(i) /\ Abstract!Holds(i, {r})
      BY <1>1, <2>2, <2>4, <3>1, <3>2, <3>4, OnlyAtSame, HoldsOne
    <3>6. Abstract!Put(i, r, "granted")
      BY <3>1, <3>5 DEF Abstract!Put, Abstract!PutOneOf
    <3> QED BY <2>2, <3>1, <3>6 DEF Abstract!Check, r, seen
  <2>9. CASE ~mem[i].used /\ Write(<<Block(i, e)>>, "granted")
    <3> HIDE DEF e
    <3>1. (IsEmpty(e) <=> IsEmpty(mem[i])) /\ (IsContinuation(e) <=> IsContinuation(mem[i]))
      BY <2>5 DEF IsEmpty, IsContinuation
    <3>2. Real(e) /\ Leads(e) /\ ~IsContinuation(mem[i]) /\ (Double(e) <=> Double(mem[i]))
      BY <2>2, <2>5, <3>1 DEF Real, Leads, Double
    <3>3. Double(e) => i + 1 \in Idx /\ ~Real(mem[i + 1])
      BY <1>1, <2>2, <3>2 DEF Loose
    <3> DEFINE b == <<Block(i, e)>>
    <3>4. WritesAt(b, i) /\ After(b) = [mem EXCEPT ![i] = e]
      BY <1>1, <2>2, <2>5, <3>2, <3>3, OneTouches DEF WritesAt
    <3> HIDE DEF b
    <3>5. After(b)[i] = e /\ After(b)[i + 1] = mem[i + 1]
      BY <1>1, <2>2, <3>4, IdxNat DEF Loose
    <3>6. RecordIn(After(b), i) = r
      <4>1. RecordIn(After(b), i) =
              [type |-> mem[i].type, used |-> TRUE, doors |-> mem[i].doors,
               card |-> RecordIn(mem, i).card, pin |-> RecordIn(mem, i).pin]
        BY <2>5, <3>5 DEF RecordIn, Entry
      <4> QED BY <2>6, <4>1
    <3>7. HeldIn(After(b), i, r)
      BY <2>7, <3>2, <3>5, <3>6 DEF HeldIn
    <3>8. Loose(mem') /\ Abstract!PutOneOf(i, {r}, "granted")
      BY <1>1, <2>4, <2>9, <3>4, <3>7, PutImplements DEF b
    <3>9. Abstract!Put(i, r, "granted")
      BY <3>8 DEF Abstract!Put
    <3> QED BY <2>2, <3>8, <3>9 DEF Abstract!Check, r, seen
  <2> QED BY <2>3, <2>8, <2>9
<1> QED BY <1>4, <1>5

(* The listings.                                                           *)
LEMMA UsedImplements ==
  ASSUME LInv, damage # "layout", NEW start, GetUsedAccess(start) \/ GetUsedAccessV1(start)
  PROVE  Loose(mem') /\ Abstract!ClearUsed
<1> DEFINE used == {h \in DOMAIN Visible : Visible[h].used}
<1>1. Loose(mem)
  BY DEF LInv
<1>2. ASSUME NEW i \in Idx, mem[i].used
      PROVE  i \in used /\ Lone(i) /\ Unmarked(i) = [Visible[i] EXCEPT !.used = FALSE]
  <2>1. Real(mem[i])
    BY <1>1, <1>2 DEF Loose
  <2>2. Lone(i) /\ i \in DOMAIN Visible /\ Visible[i] = RecordAt(i)
    BY <1>1, <2>1, RealIsLone
  <2>3. Visible[i].used
    BY <1>2, <2>2 DEF RecordAt
  <2>4. Unmarked(i) = [RecordAt(i) EXCEPT !.used = FALSE]
    <3>1. RecordAt(i) \in Records
      BY RecordAtIs DEF LInv, IInv
    <3> QED BY <3>1, MarkedRecord DEF Unmarked
  <2> QED BY <2>2, <2>3, <2>4
<1>3. CASE Return("none left")
  <2>1. Abstract!Refuse("none left") /\ Loose(mem')
    BY <1>1, <1>3, RefuseImplements
  <2> QED BY <2>1 DEF Abstract!ClearUsed
<1>4. ASSUME NEW i \in Idx, mem[i].used,
             Return("listed") \/ Return("refused") \/ WriteRecord(i, Unmarked(i), "reported")
      PROVE  Loose(mem') /\ Abstract!ClearUsed
  <2>1. i \in used /\ Lone(i) /\ Unmarked(i) = [Visible[i] EXCEPT !.used = FALSE]
    BY <1>2, <1>4
  <2>2. CASE Return("listed")
    <3>1. Abstract!Refuse("listed") /\ Loose(mem')
      BY <1>1, <2>2, RefuseImplements
    <3> QED BY <2>1, <3>1 DEF Abstract!ClearUsed
  <2>3. CASE \/ Return("refused")
             \/ WriteRefused(i, Unmarked(i)) /\ WriteRecord(i, Unmarked(i), "reported")
    <3>1. Return("refused")
      BY <2>3 DEF WriteRecord
    <3>2. Abstract!Refuse("refused") /\ Loose(mem')
      BY <1>1, <3>1, RefuseImplements
    <3> QED BY <2>1, <3>2 DEF Abstract!ClearUsed
  <2>4. CASE ~WriteRefused(i, Unmarked(i)) /\ WriteRecord(i, Unmarked(i), "reported")
    <3>1. Unmarked(i) \in Records
      BY RecordAtIs DEF LInv, IInv
    <3> DEFINE r == Unmarked(i)
    <3> HIDE DEF r
    <3>2. Loose(mem') /\ Abstract!PutOneOf(i, {r}, "reported")
      BY <1>1, <2>1, <2>4, <3>1, RecordImplements DEF r
    <3>3. Abstract!Put(i, r, "reported")
      BY <3>2 DEF Abstract!Put
    <3> QED BY <2>1, <3>2, <3>3 DEF Abstract!ClearUsed, r
  <2> QED BY <1>4, <2>2, <2>3, <2>4
<1>5. CASE GetUsedAccess(start)
  <2> DEFINE from == IF start = 0 THEN 0 ELSE start - 1 + Entries(mem[start - 1].type)
             found == {i \in Scan(from) : mem[i].used}
             i == First(found)
  <2>1. found # {} => i \in Idx /\ mem[i].used
    <3>1. found \in SUBSET Nat /\ found \subseteq Idx
      BY ScanIsIn, IdxNat
    <3>2. found # {} => i \in found
      BY <3>1, FirstIsIn
    <3> QED BY <3>1, <3>2
  <2>2. \/ Return("none left")
        \/ found # {} /\ (Return("listed") \/ WriteRecord(i, Unmarked(i), "reported"))
    BY <1>5 DEF GetUsedAccess
  <2> HIDE DEF found, i
  <2> QED BY <1>3, <1>4, <2>1, <2>2
<1>6. CASE GetUsedAccessV1(start)
  <2> DEFINE found == {i \in Walk(start) :
                         ~IsContinuation(mem[i]) /\ ~IsEmpty(mem[i]) /\ mem[i].used}
             i == UsedFrom(start)
  <2>1. i # Size => i \in Idx /\ mem[i].used
    <3>1. found \in SUBSET Nat /\ found \subseteq Idx
      BY ScanIsIn, IdxNat
    <3>2. found # {} => First(found) \in found
      BY <3>1, FirstIsIn
    <3>3. i = IF found = {} THEN Size ELSE First(found)
      BY DEF UsedFrom
    <3> QED BY <3>1, <3>2, <3>3
  <2>2. \/ Return("none left")
        \/ i # Size /\ (Return("listed") \/ Return("refused")
                          \/ WriteRecord(i, Unmarked(i), "reported"))
    BY <1>6 DEF GetUsedAccessV1
  <2> HIDE DEF i
  <2> QED BY <1>3, <1>4, <2>1, <2>2
<1> QED BY <1>5, <1>6


(* A wiped entry keeps its number.                                         *)
Wiped(m, j) == m[j] = mem[j] \/ (Clean(m[j]) /\ m[j].data = mem[j].data)

(* The first blocks of several.                                            *)
LEMMA PrefixIs ==
  ASSUME NEW b, NEW q \in Nat
  PROVE  DOMAIN SubSeq(b, 1, q) = 1 .. q /\ \A k \in 1 .. q : SubSeq(b, 1, q)[k] = b[k]
<1> DEFINE S == {b[k] : k \in 1 .. q}
           s == SubSeq(b, 1, q)
<1>1. \A k \in 1 .. q : b[k] \in S
  OBVIOUS
<1> HIDE DEF S
<1>2. /\ s \in Seq(S) /\ Len(s) = (IF 1 <= q THEN q - 1 + 1 ELSE 0)
      /\ \A k \in 1 .. q - 1 + 1 : s[k] = b[1 + k - 1]
  BY <1>1, SubSeqProperties
<1> HIDE DEF s
<1>3. Len(s) = q /\ DOMAIN s = 1 .. Len(s)
  BY <1>2
<1>4. \A k \in 1 .. q : k \in 1 .. q - 1 + 1 /\ 1 + k - 1 = k
  OBVIOUS
<1>5. \A k \in 1 .. q : s[k] = b[k]
  BY <1>2, <1>4
<1> QED BY <1>3, <1>5 DEF s

TornOn(a, b) ==
  {[a EXCEPT ![b.at] = EntryWith(h, d)] :
     h \in {a[b.at], b.entry},
     d \in IF a[b.at].data = b.entry.data THEN {a[b.at].data} ELSE Numbers}

(* A torn block on top of the ones before it.                              *)
LEMMA TornIs ==
  \A blocks, n : Torn(blocks, n) = TornOn(After(SubSeq(blocks, 1, n - 1)), blocks[n])
BY DEF Torn, TornOn

(* The blocks of a wipe, torn anywhere, leave every entry wiped or as it   *)
(* was.                                                                    *)
LEMMA TornWipes ==
  ASSUME mem \in [Idx -> Entry], NEW blocks, blocks = [n \in 1 .. Size |-> Clear(n - 1)],
         NEW n \in 1 .. Size, NEW m \in Torn(blocks, n)
  PROVE  m \in [Idx -> Entry] /\ \A j \in Idx : Wiped(m, j)
<1> DEFINE s == SubSeq(blocks, 1, n - 1)
           a == After(s)
           W(x, j) == x \in Entry /\ (x = mem[j] \/ (Clean(x) /\ x.data = mem[j].data))
<1>1. \A k \in 1 .. Size : k - 1 \in Idx /\ k \in Nat /\ k \in Int
  BY StoreAssumption DEF Idx
<1>2. \A j \in Idx : /\ Clear(j).at = j
                     /\ W(Clear(j).entry, j)
                     /\ Clear(j).entry.data = mem[j].data
                     /\ mem[j] \in Entry
  <2> SUFFICES ASSUME NEW j \in Idx
               PROVE  /\ Clear(j).at = j
                      /\ W(Clear(j).entry, j)
                      /\ Clear(j).entry.data = mem[j].data
                      /\ mem[j] \in Entry
    OBVIOUS
  <2>1. /\ Clear(j) = Block(j, EntryWith(Blank, mem[j].data))
        /\ EntryWith(Blank, mem[j].data) \in Entry
        /\ Clean(EntryWith(Blank, mem[j].data))
    BY ClearIs
  <2>2. EntryWith(Blank, mem[j].data).data = mem[j].data
    BY DEF EntryWith
  <2>3. Clear(j).at = j /\ Clear(j).entry = EntryWith(Blank, mem[j].data)
    BY <2>1 DEF Block
  <2> QED BY <2>1, <2>2, <2>3
<1>3. /\ \A k \in DOMAIN s : k \in Nat /\ s[k] = Clear(k - 1) /\ k - 1 \in Idx
  <2>1. n - 1 \in Int /\ n - 1 \in Nat /\ n - 1 < Size
    BY <1>1, StoreAssumption
  <2>2. \A k \in 1 .. n - 1 : k \in 1 .. Size /\ blocks[k] = Clear(k - 1)
    BY <2>1, StoreAssumption
  <2>3. DOMAIN s = 1 .. n - 1 /\ \A k \in 1 .. n - 1 : s[k] = blocks[k]
    <3> DEFINE q == n - 1
    <3>1. q \in Nat
      BY <2>1
    <3> HIDE DEF q
    <3>2. /\ DOMAIN SubSeq(blocks, 1, q) = 1 .. q
          /\ \A k \in 1 .. q : SubSeq(blocks, 1, q)[k] = blocks[k]
      BY <3>1, PrefixIs
    <3> QED BY <3>2 DEF q
  <2> HIDE DEF s
  <2> QED BY <1>1, <2>2, <2>3
<1>4. \A j \in Idx : W(a[j], j)
  <2> SUFFICES ASSUME NEW j \in Idx PROVE W(a[j], j)
    OBVIOUS
  <2> DEFINE here == {k \in DOMAIN s : s[k].at = j}
  <2>1. a[j] = IF here = {} THEN mem[j] ELSE s[First(here)].entry
    BY DEF After
  <2>2. CASE here = {}
    BY <1>2, <2>1, <2>2
  <2>3. CASE here # {}
    <3> HIDE DEF s, a
    <3>1. here \in SUBSET Nat
      BY <1>3
    <3>2. First(here) \in here
      BY <2>3, <3>1, FirstIsIn
    <3>3. s[First(here)] = Clear(First(here) - 1) /\ First(here) - 1 \in Idx
      BY <1>3, <3>2
    <3>4. First(here) - 1 = j
      BY <1>2, <3>2, <3>3
    <3> HIDE DEF here
    <3> QED BY <1>2, <2>1, <2>3, <3>3, <3>4
  <2> HIDE DEF here, s, a
  <2> QED BY <2>2, <2>3
<1>5. a = [j \in Idx |-> a[j]]
  BY AfterIsFunction
<1> DEFINE i == n - 1
<1>6. i \in Idx /\ blocks[n].at = i /\ blocks[n].entry = Clear(i).entry
  BY <1>1, <1>2
<1> HIDE DEF s, a, W, i
<1>7. a[i].data = Clear(i).entry.data /\ a[i] \in Entry /\ W(a[i], i)
  BY <1>2, <1>4, <1>6 DEF W
<1>8. PICK h \in {a[i], Clear(i).entry} : m = [a EXCEPT ![i] = EntryWith(h, a[i].data)]
  <2> DEFINE b == blocks[n]
  <2>1. m \in Torn(blocks, n) /\ b.at = i /\ b.entry = Clear(i).entry
    BY <1>6
  <2>2. After(SubSeq(blocks, 1, n - 1)) = a
    BY DEF a, s
  <2>3. m \in TornOn(a, b)
    BY <2>1, <2>2, TornIs, Zenon
  <2> HIDE DEF a, b
  <2> QED BY <1>7, <2>1, <2>3 DEF TornOn
<1>9. h \in Entry /\ h.data = a[i].data /\ W(h, i)
  BY <1>2, <1>6, <1>7 DEF W
<1>10. EntryWith(h, a[i].data) = h
  BY <1>9 DEF EntryWith, Entry
<1>11. \A j \in Idx : W(m[j], j)
  BY <1>4, <1>5, <1>6, <1>8, <1>9, <1>10
<1>12. m = [j \in Idx |-> m[j]]
  BY <1>5, <1>8
<1> QED BY <1>11, <1>12 DEF W, Wiped


(* Wiping some entries removes records and changes none.                   *)
LEMMA WipedKeeps ==
  ASSUME Loose(mem), NEW m \in [Idx -> Entry], \A j \in Idx : Wiped(m, j)
  PROVE  /\ Loose(m)
         /\ \A k \in Idx : Real(m[k]) => Real(mem[k]) /\ RecordIn(m, k) = RecordIn(mem, k)
<1>1. \A j \in Idx : m[j] = mem[j] \/ (Clean(m[j]) /\ ~Real(m[j]) /\ ~Double(m[j])
                                       /\ ~IsContinuation(m[j]) /\ ~m[j].used)
  BY KindsOf DEF Wiped
<1>2. Loose(m)
  BY <1>1 DEF Loose
<1>3. ASSUME NEW k \in Idx, Real(m[k])
      PROVE  Real(mem[k]) /\ RecordIn(m, k) = RecordIn(mem, k)
  <2>1. m[k] = mem[k]
    BY <1>1, <1>3
  <2>2. Double(mem[k]) => m[k + 1].data = mem[k + 1].data
    BY DEF Loose, Wiped
  <2>3. HasCard(mem[k].type) /\ HasPin(mem[k].type) => Double(mem[k])
    BY EntriesOf DEF Double, Loose, Entry
  <2> QED BY <1>3, <2>1, <2>2, <2>3 DEF RecordIn
<1> QED BY <1>2, <1>3

(* A memory without records is an empty table.                             *)
LEMMA NoneIsEmpty ==
  ASSUME NEW m, \A j \in Idx : ~Real(m[j])
  PROVE  VisibleIn(m) = << >>
<1>1. {j \in Idx : Real(m[j])} = {}
  OBVIOUS
<1> QED BY <1>1 DEF VisibleIn

(* The wiped table is empty, whatever was there before.                    *)
LEMMA AllWiped ==
  ASSUME Fits(mem), NEW blocks, blocks = [n \in 1 .. Size |-> Clear(n - 1)],
         mem' = After(blocks)
  PROVE  Loose(mem') /\ Visible' = << >>
<1>1. \A n \in 1 .. Size : n - 1 \in Idx /\ n \in Nat
  BY StoreAssumption DEF Idx
<1>2. \A j \in Idx : Clear(j).at = j /\ Clean(Clear(j).entry) /\ Clear(j).entry \in Entry
  BY ClearIs DEF Fits, Block
<1>3. ASSUME NEW j \in Idx
      PROVE  Clean(mem'[j]) /\ mem'[j] \in Entry
  <2>1. j + 1 \in 1 .. Size /\ j + 1 \in Nat /\ (j + 1) - 1 = j
    BY StoreAssumption DEF Idx
  <2>2. \A n \in DOMAIN blocks : blocks[n].at = n - 1 /\ n \in Nat
    BY <1>1, <1>2
  <2>3. blocks[j + 1] = Clear(j) /\ j + 1 \in DOMAIN blocks /\ j \in Int
    BY <2>1, IdxNat
  <2>4. \A k \in DOMAIN blocks : blocks[k].at = j => k = j + 1
    BY <2>2, <2>3
  <2>5. After(blocks)[j] = blocks[j + 1].entry
    <3>1. blocks[j + 1].at = j
      BY <1>2, <2>3
    <3> QED BY <2>1, <2>3, <2>4, <3>1, AfterBlocks, Zenon
  <2> QED BY <1>2, <2>3, <2>5
<1>4. mem' = [j \in Idx |-> mem'[j]]
  BY AfterIsFunction
<1>5. mem' \in [Idx -> Entry] /\ \A j \in Idx : ~Real(mem'[j])
  BY <1>3, <1>4, KindsOf
<1>6. Loose(mem')
  BY <1>3, <1>5, KindsOf DEF Loose
<1>7. VisibleIn(mem') = << >>
  BY <1>5, NoneIsEmpty
<1> QED BY <1>6, <1>7, VisibleAfter

(* Remove all access.                                                      *)
LEMMA RemoveAllImplements ==
  ASSUME LInv, RemoveAllAccess
  PROVE  /\ damage' # "layout" => Loose(mem')
         /\ Abstract!RemoveAll \/ (damage = "layout" /\ damage' = "layout")
<1> DEFINE blocks == [n \in 1 .. Size |-> Clear(n - 1)]
<1>1. CASE mem' = After(blocks) /\ result' = "OK" /\ damage' = "none"
  <2>1. Fits(mem)
    BY DEF LInv, IInv
  <2> HIDE DEF blocks
  <2>2. Loose(mem') /\ Visible' = << >>
    BY <1>1, <2>1, AllWiped DEF blocks
  <2> QED BY <1>1, <2>2 DEF Abstract!RemoveAll
<1>2. ASSUME NEW n \in DOMAIN blocks, mem' \in Torn(blocks, n), result' = "power failed",
             damage' = IF damage = "layout" THEN "layout" ELSE "record"
      PROVE  /\ damage' # "layout" => Loose(mem')
             /\ Abstract!RemoveAll \/ (damage = "layout" /\ damage' = "layout")
  <2>1. CASE damage = "layout"
    BY <1>2, <2>1
  <2>2. CASE damage # "layout"
    <3>1. Loose(mem) /\ n \in 1 .. Size
      BY <2>2 DEF LInv
    <3>2. mem' \in [Idx -> Entry] /\ \A j \in Idx : Wiped(mem', j)
      BY <1>2, <3>1, TornWipes DEF Loose
    <3>3. /\ Loose(mem')
          /\ \A k \in Idx : Real(mem'[k]) => /\ Real(mem[k])
                                             /\ RecordIn(mem', k) = RecordIn(mem, k)
      BY <3>1, <3>2, WipedKeeps
    <3>4. Visible = VisibleIn(mem) /\ Visible' = VisibleIn(mem')
      BY <3>1, <3>3, VisibleIs, VisibleAfter
    <3>5. /\ DOMAIN Visible' \subseteq DOMAIN Visible
          /\ \A k \in DOMAIN Visible' : Visible'[k] = Visible[k]
      BY <3>3, <3>4, VisibleFacts
    <3> QED BY <1>2, <2>2, <3>3, <3>5 DEF Abstract!RemoveAll
  <2> QED BY <2>1, <2>2
<1> QED BY <1>1, <1>2 DEF RemoveAllAccess

(* The flashed memory is an empty table.                                   *)
LEMMA InitRefines == Init => LInv /\ Abstract!TableInit
<1> SUFFICES ASSUME Init PROVE LInv /\ Abstract!TableInit
  OBVIOUS
<1>1. IInv /\ damage = "none" /\ result = "OK" /\ \A i \in Idx : mem[i] = Blank
  BY InitHolds DEF Init
<1>2. Clean(Blank)
  BY DEF Clean, Blank
<1>3. Loose(mem) /\ \A i \in Idx : ~Real(mem[i])
  BY <1>1, <1>2, KindsOf DEF IInv, Fits, Loose
<1>4. Visible = << >>
  BY <1>3, NoneIsEmpty, VisibleIs
<1> QED BY <1>1, <1>3, <1>4 DEF LInv, Abstract!TableInit

(* Every command is one of the table's.                                    *)
LEMMA StepRefines == LInv /\ [Next]_vars => LInv' /\ [Abstract!TableNext]_(Abstract!tableVars)
<1> DEFINE Goal == (damage' # "layout" => Loose(mem')) /\ [Abstract!TableNext]_(Abstract!tableVars)
<1> SUFFICES ASSUME LInv, [Next]_vars PROVE Goal
  <2>1. LInv /\ [Next]_vars => IInv'
    BY NextKeeps DEF LInv
  <2> QED BY <2>1 DEF LInv, Loose
<1>1. CASE UNCHANGED vars
  <2>1. mem' = mem /\ damage' = damage /\ result' = result
    BY <1>1 DEF vars
  <2>2. Visible' = Visible
    BY <2>1 DEF Visible, Scan, RecordAt
  <2> QED BY <2>1, <2>2 DEF LInv, Loose, Abstract!tableVars
<1>2. CASE RemoveAllAccess
  BY <1>2, RemoveAllImplements DEF Abstract!TableNext
<1>3. ASSUME Next, ~RemoveAllAccess, damage = "layout"
      PROVE  Goal
  <2>1. damage' = "layout"
    BY <1>3 DEF Next, SaveAccessRecord, SetAccess, SetAccessRecord, CheckAccess, GetUsedAccess,
                GetUsedAccessV1, WriteRecord, Write, Return
  <2> QED BY <1>3, <2>1 DEF Abstract!TableNext
<1>4. ASSUME damage # "layout", NEW r \in Inputs, SaveAccessRecord(r)
      PROVE  Goal
  <2>1. Loose(mem') /\ Abstract!Save(r)
    BY <1>4, SaveImplements, StoreAssumption
  <2> QED BY <1>4, <2>1 DEF Abstract!TableNext, Abstract!Keeps
<1>5. ASSUME damage # "layout", NEW r \in Inputs, NEW i \in Idx, SetAccessRecord(i, r)
      PROVE  Goal
  <2>1. Abstract!SetAt(i) /\ (damage' # "layout" => Loose(mem'))
    BY <1>5, SetAtImplements
  <2> QED BY <1>5, <2>1 DEF Abstract!TableNext, Abstract!Keeps
<1>6. ASSUME damage # "layout", NEW type \in {{"CARD"}, {"PIN"}}, NEW key \in Keys,
             NEW doors \in SUBSET Doors, SetAccess(type, key, doors)
      PROVE  Goal
  <2> DEFINE r == V1Record(type, key)
  <2>1. r \in V1Inputs
    BY DEF V1Inputs
  <2>2. r \in Records
    <3>1. type \in Types /\ {} \in SUBSET Doors
      BY DEF Types
    <3> QED BY <3>1 DEF V1Record, Records, Numbers
  <2>3. SaveAccessRecord(r)
    BY <1>6 DEF SetAccess
  <2> HIDE DEF r
  <2>4. Loose(mem') /\ Abstract!Save(r)
    BY <1>6, <2>2, <2>3, SaveImplements
  <2> QED BY <1>6, <2>1, <2>4 DEF Abstract!TableNext, Abstract!Keeps
<1>7. ASSUME damage # "layout", NEW request \in Requests, CheckAccess(request)
      PROVE  Goal
  <2>1. Loose(mem') /\ Abstract!Check(request)
    BY <1>7, CheckImplements
  <2> QED BY <1>7, <2>1 DEF Abstract!TableNext, Abstract!Keeps
<1>8. ASSUME damage # "layout", NEW start, GetUsedAccess(start) \/ GetUsedAccessV1(start)
      PROVE  Goal
  <2>1. Loose(mem') /\ Abstract!ClearUsed
    BY <1>8, UsedImplements
  <2> QED BY <1>8, <2>1 DEF Abstract!TableNext, Abstract!Keeps
<1> HIDE DEF Goal
<1> QED BY <1>1, <1>2, <1>3, <1>4, <1>5, <1>6, <1>7, <1>8 DEF Next

(* The entries implement the table: every command, also one in which the   *)
(* power fails and every one after that, changes no record but its own, a  *)
(* check succeeds for exactly the records that were set, and set access    *)
(* refuses only a new record in an undamaged memory; until a record is set *)
(* by its position in a damaged one.                                       *)
THEOREM ImplementsTable == Spec => Refines
BY InitRefines, StepRefines, PTL DEF Spec, Refines, Abstract!Table

=============================================================================
