---------------------------- MODULE AccessTable ----------------------------
(***************************************************************************)
(* What the commands and the doors rely on of the access records: a table  *)
(* in which one command changes one record.  A handle stands for a         *)
(* position; how the records are laid out, and that some take two          *)
(* entries, is hidden.  A power failure spoils at most the record that the *)
(* command was changing, and the table stays usable.                       *)
(***************************************************************************)
CONSTANTS
  Handles,
  Records,      \* the records the commands bring
  Requests,
  Opens(_, _)   \* a record lets a request pass

VARIABLES
  table,   \* the records, a function on the handles in use
  damage,  \* "none", "record": the power failed in a command; "layout":
           \* after that a record was set by its position
  result   \* what the last command or check returned

tableVars == <<table, damage, result>>

TableInit == table = << >> /\ damage = "none" /\ result = "OK"

SameKey(r, s) == r.type = s.type /\ r.card = s.card /\ r.pin = s.pin

(* The table afterwards differs at h only. *)
OnlyAt(h) ==
  LET old == table
      new == table'
  IN  /\ DOMAIN new \ {h} = DOMAIN old \ {h}
      /\ \A k \in DOMAIN old \ {h} : new[k] = old[k]

Grants(r) == r.type # {} /\ r.doors # {}

(* A record of rs is at h, and none when it would let nobody in. *)
Holds(h, rs) ==
  LET new == table'
      grants == {r \in rs : Grants(r)}
  IN  IF h \in DOMAIN new THEN new[h] \in grants ELSE grants # rs

(* The command ends with one of rs at h, or the power fails while it       *)
(* writes there.                                                           *)
PutOneOf(h, rs, res) ==
  \/ result' = res /\ UNCHANGED damage /\ Holds(h, rs) /\ OnlyAt(h)
  \/ result' = "power failed" /\ damage' = "record" /\ OnlyAt(h)

Put(h, r, res) == PutOneOf(h, {r}, res)

Refuse(res) == result' = res /\ UNCHANGED <<table, damage>>

(* Set access: the record of the same key is replaced or removed, a new    *)
(* one is made.  Only a new record can be refused, unless the power has    *)
(* failed before.                                                          *)
Save(r) ==
  LET same == {h \in DOMAIN table : SameKey(table[h], r)}
  IN  \/ \E h \in same : Put(h, r, "OK")
      \/ same = {} /\ Grants(r) /\ \E h \in Handles \ DOMAIN table : Put(h, r, "OK")
      \/ same = {} /\ ~Grants(r) /\ Refuse("OK")
      \/ (same = {} \/ damage # "none") /\ Refuse("refused")

(* Set any record by its position. *)
SetAt(h) ==
  \/ damage # "none" /\ damage' = "layout"
  \/ damage = "none" /\ PutOneOf(h, Records, "OK")
  \/ Refuse("refused")

(* A check succeeds exactly if a record lets the request pass; one that    *)
(* does is marked. *)
Check(req) ==
  LET fit == {h \in DOMAIN table : Opens(table[h], req)}
  IN  \/ fit = {} /\ Refuse("denied")
      \/ \E h \in fit : Put(h, [table[h] EXCEPT !.used = TRUE], "granted")

(* A marked record is reported and its mark cleared or, when the command   *)
(* only lists it, kept; or there is none.                                  *)
ClearUsed ==
  LET used == {h \in DOMAIN table : table[h].used}
  IN  \/ \E h \in used : Put(h, [table[h] EXCEPT !.used = FALSE], "reported")
      \/ Refuse("none left")
      \/ used # {} /\ (Refuse("listed") \/ Refuse("refused"))

(* Wiping the table also ends the effects of an earlier power failure. *)
RemoveAll ==
  \/ table' = << >> /\ damage' = "none" /\ result' = "OK"
  \/ /\ DOMAIN table' \subseteq DOMAIN table
     /\ \A h \in DOMAIN table' : table'[h] = table[h]
     /\ damage' = "record" /\ result' = "power failed"

Keeps ==
  \/ \E h \in Handles : SetAt(h)
  \/ \E r \in Records : Save(r)
  \/ \E req \in Requests : Check(req)
  \/ ClearUsed

(* Nothing is promised for a damaged layout until it is wiped. *)
TableNext ==
  \/ damage = "layout" /\ damage' = "layout"
  \/ damage # "layout" /\ Keeps
  \/ RemoveAll

Table == TableInit /\ [][TableNext]_tableVars

=============================================================================
