----------------------------- MODULE AccessStore -----------------------------
(***************************************************************************)
(* The access records in the EEPROM: eeprom.c, the parts of eeprom-v1.c    *)
(* and acl.c that read and write them, and the commands of ctrl-cmd.c on   *)
(* them.  A record takes one entry, or two when it has a card and a PIN:   *)
(* the second entry is a continuation, known by its empty door mask.       *)
(*                                                                         *)
(* Everything here runs in works of the main loop, one after the other, so *)
(* a command is one action; but the power may fail at any of its writes.   *)
(* A command is a sequence of blocks to write, each an entry at an index;  *)
(* a torn block has the old or the new header, which is one byte, and any  *)
(* number behind it when its number was being changed.                     *)
(*                                                                         *)
(* A card and a PIN are numbers of the same size, and every PIN is fixed.  *)
(***************************************************************************)
EXTENDS Naturals, Sequences

CONSTANTS
  Size,    \* NUM_ACCESS_RECORDS
  Keys,    \* the cards and PINs in use
  Zero,    \* the number 0, of an unused entry and of what a record has not
  Doors,
  Inputs   \* the records the commands bring

Idx == 0 .. Size - 1
Numbers == Keys \cup {Zero}
Types == SUBSET {"CARD", "PIN"}

HasCard(type) == "CARD" \in type
HasPin(type) == "PIN" \in type
Entries(type) == IF type = {"CARD", "PIN"} THEN 2 ELSE 1
IsEmpty(e) == e.type = {}
IsContinuation(e) == ~IsEmpty(e) /\ e.doors = {}

(* A record in memory; the parts its type does not have are Zero. *)
Records ==
  {r \in [type : Types, used : BOOLEAN, doors : SUBSET Doors, card : Numbers, pin : Numbers] :
     (~HasCard(r.type) => r.card = Zero) /\ (~HasPin(r.type) => r.pin = Zero)}

ASSUME StoreAssumption ==
  /\ Size \in Nat /\ Zero \notin Keys
  /\ \A r \in Inputs : /\ r \in Records
                       /\ HasCard(r.type) => r.card \in Keys
                       /\ HasPin(r.type) => r.pin \in Keys

VARIABLES
  mem,     \* config.access
  damage,  \* history: the power failed in a command, see AccessTable
  result   \* what the last command or check returned

vars == <<mem, damage, result>>

Blank == [type |-> {}, used |-> FALSE, doors |-> {}, data |-> Zero]

(* The image that is flashed with the firmware is all zero. *)
Init == mem = [i \in Idx |-> Blank] /\ damage = "none" /\ result = "OK"

-----------------------------------------------------------------------------
(* Reading *)

(* The indexes a scan from s stops at: it jumps over the second entry. *)
Scan(s) ==
  LET stop[i \in Idx] ==
        \/ i = s
        \/ i > s /\ stop[i - 1] /\ Entries(mem[i - 1].type) = 1
        \/ i > s + 1 /\ stop[i - 2] /\ Entries(mem[i - 2].type) = 2
  IN  {i \in Idx : stop[i]}

First(S) == CHOOSE i \in S : \A j \in S : i <= j

(* eeprom_read_access_record_data *)
RecordAt(i) ==
  LET e == mem[i]
  IN  [type |-> e.type, used |-> e.used, doors |-> e.doors,
       card |-> IF HasCard(e.type) THEN e.data ELSE Zero,
       pin |-> IF ~HasPin(e.type) THEN Zero
               ELSE IF HasCard(e.type) THEN mem[i + 1].data ELSE e.data]

SameKey(r, s) == r.type = s.type /\ r.card = s.card /\ r.pin = s.pin

(* eeprom_load_access_record: the header filter looks at the type only. *)
Loaded(r) == {i \in Scan(0) : SameKey(RecordAt(i), r)}

(* eeprom_find_free_entry: the starts of enough empty entries the scan     *)
(* meets in a row.                                                         *)
FreeStarts(type) ==
  LET free == {k \in Scan(0) : IsEmpty(mem[k])}
  IN  {i \in free : i .. i + Entries(type) - 1 \subseteq free}

-----------------------------------------------------------------------------
(* Writing *)

Block(i, e) == [at |-> i, entry |-> e]

(* The header of h with a number behind it. *)
EntryWith(h, data) == [type |-> h.type, used |-> h.used, doors |-> h.doors, data |-> data]

(* eeprom_entry_clear writes a header only. *)
Clear(i) == Block(i, EntryWith(Blank, mem[i].data))

(* eeprom_write_access_record, why it refuses ... *)
WriteRefused(i, r) ==
  \/ i + Entries(r.type) > Size
  \/ IsContinuation(mem[i])
  \/ /\ Entries(r.type) = 2
     /\ ~IsEmpty(mem[i + 1]) /\ ~IsContinuation(mem[i + 1])

(* ... the entries it writes ... *)
NewBlocks(i, r) ==
  IF r.type = {} \/ r.doors = {} THEN << >>
  ELSE IF HasCard(r.type) /\ HasPin(r.type)
       THEN <<Block(i, EntryWith(r, r.card)),
              Block(i + 1, [type |-> {"PIN"}, used |-> FALSE, doors |-> {}, data |-> r.pin])>>
       ELSE <<Block(i, EntryWith(r, IF HasCard(r.type) THEN r.card ELSE r.pin))>>

(* Mutant: what is left of a longer record is not cleared.                 *)
LeftOver_Kept(i, n) == IF n = 0 THEN <<Clear(i)>> ELSE << >>

(* ... and what it clears behind n of them: the rest of the old record. *)
LeftOver(i, n) ==
  (IF n = 0 THEN <<Clear(i)>> ELSE << >>) \o
  (IF n < 2 /\ Entries(mem[i].type) = 2 /\ IsContinuation(mem[i + 1])
   THEN <<Clear(i + 1)>> ELSE << >>)

WriteBlocks(i, r) == NewBlocks(i, r) \o LeftOver(i, Len(NewBlocks(i, r)))

After(blocks) ==
  [i \in Idx |-> LET here == {n \in DOMAIN blocks : blocks[n].at = i}
                 IN  IF here = {} THEN mem[i] ELSE blocks[First(here)].entry]

(* The power fails while blocks[n] is written. *)
Torn(blocks, n) ==
  LET m == After(SubSeq(blocks, 1, n - 1))
      b == blocks[n]
      old == m[b.at]
  IN  {[m EXCEPT ![b.at] = EntryWith(h, d)] :
         h \in {old, b.entry},
         d \in IF old.data = b.entry.data THEN {old.data} ELSE Numbers}

(* A command writes the blocks and returns res. *)
Write(blocks, res) ==
  \/ mem' = After(blocks) /\ result' = res
     /\ UNCHANGED damage
  \/ \E n \in DOMAIN blocks : mem' \in Torn(blocks, n)
     /\ result' = "power failed"
     /\ damage' = IF damage = "layout" THEN "layout" ELSE "record"

Return(res) == result' = res /\ UNCHANGED <<mem, damage>>

WriteRecord(i, r, res) ==
  IF WriteRefused(i, r) THEN Return("refused") ELSE Write(WriteBlocks(i, r), res)

-----------------------------------------------------------------------------
(* The commands *)

(* Mutant: a record is looked for by its card or its PIN alone.            *)
SaveAccessRecord_AnyType(r) ==
  LET found == {i \in Scan(0) : /\ HasCard(r.type) => RecordAt(i).card = r.card
                                /\ HasPin(r.type) => RecordAt(i).pin = r.pin}
      free == FreeStarts(r.type)
  IN  \/ r.type = {} /\ Return("OK")
      \/ r.type # {} /\ found # {} /\ WriteRecord(First(found), r, "OK")
      \/ r.type # {} /\ found = {} /\ r.doors = {} /\ Return("OK")
      \/ r.type # {} /\ found = {} /\ r.doors # {} /\ free = {} /\ Return("refused")
      \/ /\ r.type # {} /\ found = {} /\ r.doors # {} /\ free # {}
         /\ WriteRecord(First(free), r, "OK")

(* eeprom_save_access_record: the command set access. *)
SaveAccessRecord(r) ==
  LET found == Loaded(r)
      free == FreeStarts(r.type)
  IN  \/ r.type = {} /\ Return("OK")
      \/ r.type # {} /\ found # {} /\ WriteRecord(First(found), r, "OK")
      \/ r.type # {} /\ found = {} /\ r.doors = {} /\ Return("OK")
      \/ r.type # {} /\ found = {} /\ r.doors # {} /\ free = {} /\ Return("refused")
      \/ /\ r.type # {} /\ found = {} /\ r.doors # {} /\ free # {}
         /\ WriteRecord(First(free), r, "OK")

(* Set access, version 1: a card or a PIN.  The doors of the command do    *)
(* not reach the record. *)
V1Record(type, key) ==
  [type |-> type, used |-> FALSE, doors |-> {},
   card |-> IF HasCard(type) THEN key ELSE Zero,
   pin |-> IF HasPin(type) THEN key ELSE Zero]

SetAccess(type, key, doors) == SaveAccessRecord(V1Record(type, key))

(* Set access record: by its index.  Version 1 can say less, and refuses   *)
(* a card with a PIN. *)
SetAccessRecord(i, r) ==
  IF WriteRefused(i, r) THEN Return("refused")
  ELSE IF damage = "none" THEN Write(WriteBlocks(i, r), "OK")
  ELSE /\ \/ mem' = After(WriteBlocks(i, r)) /\ result' = "OK"
          \/ \E n \in DOMAIN WriteBlocks(i, r) :
               mem' \in Torn(WriteBlocks(i, r), n) /\ result' = "power failed"
       /\ damage' = "layout"

(* Every entry; the code skips the empty ones, which are clear already.    *)
RemoveAllAccess ==
  LET blocks == [n \in 1 .. Size |-> Clear(n - 1)]
  IN  \/ mem' = After(blocks) /\ result' = "OK" /\ damage' = "none"
      \/ \E n \in DOMAIN blocks : mem' \in Torn(blocks, n)
         /\ result' = "power failed"
         /\ damage' = IF damage = "layout" THEN "layout" ELSE "record"

(* acl.c: the first record of the type that has the door, and the same     *)
(* card and PIN.                                                           *)
Opens(r, request) ==
  /\ r.type = request.type /\ request.door \in r.doors
  /\ r.card = request.card /\ r.pin = request.pin

Requests ==
  {q \in [type : Types \ {{}}, door : Doors, card : Numbers, pin : Numbers] :
     (HasCard(q.type) <=> q.card # Zero) /\ (HasPin(q.type) <=> q.pin # Zero)}

CheckAccess(request) ==
  LET fit == {i \in Scan(0) : Opens(RecordAt(i), request)}
      i == First(fit)
      marked == [mem[i] EXCEPT !.used = TRUE]
  IN  IF fit = {} THEN Return("denied")
      ELSE IF mem[i].used THEN Return("granted")
      ELSE Write(<<Block(i, marked)>>, "granted")

(* The record at i with its mark cleared. *)
Unmarked(i) ==
  LET r == RecordAt(i)
  IN  [type |-> r.type, used |-> FALSE, doors |-> r.doors, card |-> r.card, pin |-> r.pin]

(* Get used access: the next used record behind the given one, which is    *)
(* marked as not used when the command asks for that.                      *)
GetUsedAccess(start) ==
  LET from == IF start = 0 THEN 0 ELSE start - 1 + Entries(mem[start - 1].type)
      found == {i \in Scan(from) : mem[i].used}
      i == First(found)
  IN  IF found = {} THEN Return("none left")
      ELSE \/ Return("listed")
           \/ WriteRecord(i, Unmarked(i), "reported")

(* Version 1 walks over the indexes; the loop adds one more after a        *)
(* continuation.                                                           *)
Walk(s) ==
  LET met[i \in Idx] ==
        \/ i = s
        \/ i > s /\ met[i - 1] /\ ~IsContinuation(mem[i - 1])
        \/ i > s + 1 /\ met[i - 2] /\ IsContinuation(mem[i - 2])
  IN  {i \in Idx : met[i]}

UsedFrom(start) ==
  LET found == {i \in Walk(start) :
                  ~IsContinuation(mem[i]) /\ ~IsEmpty(mem[i]) /\ mem[i].used}
  IN  IF found = {} THEN Size ELSE First(found)

GetUsedAccessV1(start) ==
  LET i == UsedFrom(start)
  IN  IF i = Size THEN Return("none left")
      ELSE \/ Return("listed")
           \/ Entries(mem[i].type) = 2 /\ Return("refused")
           \/ /\ Entries(mem[i].type) = 1
              /\ WriteRecord(i, Unmarked(i), "reported")

Next ==
  \/ \E r \in Inputs : SaveAccessRecord(r) \/ \E i \in Idx : SetAccessRecord(i, r)
  \/ \E type \in {{"CARD"}, {"PIN"}}, key \in Keys, doors \in SUBSET Doors :
       SetAccess(type, key, doors)
  \/ RemoveAllAccess
  \/ \E request \in Requests : CheckAccess(request)
  \/ \E start \in 0 .. Size : GetUsedAccess(start)
  \/ \E start \in Idx : GetUsedAccessV1(start)

Spec == Init /\ [][Next]_vars

-----------------------------------------------------------------------------
(* Until the power fails: a record with a card and a PIN has its           *)
(* continuation behind it, which lets nobody in, and there is no other     *)
(* continuation, so that no entry is lost to the search for a free one.    *)
WellFormed ==
  damage = "none" =>
    \A i \in Idx :
      /\ Entries(mem[i].type) = 2 =>
           /\ ~IsContinuation(mem[i])
           /\ i + 1 \in Idx /\ IsContinuation(mem[i + 1]) /\ mem[i + 1].type = {"PIN"}
      /\ IsContinuation(mem[i]) => i > 0 /\ Entries(mem[i - 1].type) = 2
      /\ mem[i].used => ~IsEmpty(mem[i]) /\ ~IsContinuation(mem[i])

(* The records a check may find. *)
Visible ==
  [i \in {i \in Scan(0) : ~IsEmpty(mem[i]) /\ ~IsContinuation(mem[i])} |-> RecordAt(i)]

(* The entries implement the table of AccessTable: a command changes its   *)
(* own record and no other, also when the power fails in the middle of it, *)
(* and also after that; a check succeeds for exactly the records set.      *)
V1Inputs == {V1Record(type, key) : type \in {{"CARD"}, {"PIN"}}, key \in Keys}

Abstract ==
  INSTANCE AccessTable WITH
    Handles <- Idx, Records <- Inputs \cup V1Inputs, table <- Visible

Refines == Abstract!Table

(* "Go through all the records" (ctrl-cmd.c): no used record lies between  *)
(* the index the listing starts at and the one it returns.                 *)
UsedAccessComplete ==
  damage = "none" =>
    \A start \in Idx : \A i \in start .. UsedFrom(start) - 1 : ~mem[i].used

(* "Add or remove access to a card and/or pin" (AVRDoorCtrl.py): once the  *)
(* command has answered OK the record lets exactly its doors be opened.    *)
SetAccessGrants ==
  [][\A type \in {{"CARD"}, {"PIN"}}, key \in Keys, doors \in SUBSET Doors \ {{}} :
       SetAccess(type, key, doors) /\ result' = "OK" =>
         \E i \in DOMAIN Visible' :
           /\ Visible'[i].type = type /\ Visible'[i].doors = doors
           /\ key \in {Visible'[i].card, Visible'[i].pin}]_vars

=============================================================================
