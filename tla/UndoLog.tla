------------------------------ MODULE UndoLog ------------------------------
(***************************************************************************)
(* The reorg discipline that the overlay indexes (glyph, wave, realm,      *)
(* swap, predict, royalty, analytics) share: at a flush, the value that    *)
(* each written key had in the DB is recorded once under the height the    *)
(* write belongs to (_record_undo); backup(height) puts these values back; *)
(* records that have left the reorg window are deleted.                    *)
(*                                                                         *)
(* A table is a function from keys to values, an undo log a function from  *)
(* heights to [key -> previous value], a value being {} or {v}.            *)
(***************************************************************************)
EXTENDS Integers, Functions

(* utxo_db.get *)
Get(table, k) == IF k \in DOMAIN table THEN {table[k]} ELSE {}

(* The table after a batch that puts the values puts and deletes the keys
   dels. *)
Written(table, puts, dels) ==
    [k \in (DOMAIN table \ dels) \cup DOMAIN puts |->
        IF k \in DOMAIN puts THEN puts[k] ELSE table[k]]

(* _record_undo of the keys keysAt[h] for each height h, before the batch. *)
Recorded(undo, table, keysAt) ==
    [h \in DOMAIN undo \cup DOMAIN keysAt |->
        IF h \in DOMAIN keysAt THEN [k \in keysAt[h] |-> Get(table, k)] ELSE undo[h]]

(* backup: the table with what the record says; without a record, as it is. *)
Reverted(table, undo, h) ==
    IF h \notin DOMAIN undo THEN table
    ELSE LET gone == {k \in DOMAIN undo[h] : undo[h][k] = {}}
             back == DOMAIN undo[h] \ gone
         IN  Written(table, [k \in back |-> CHOOSE v \in undo[h][k] : TRUE], gone)

Forgotten(undo, h) == Restrict(undo, DOMAIN undo \ {h})

(* _prune_old_undo_keys deletes up to here, when the DB is at height. *)
PruneTo(height, limit) ==
    LET keep == height - limit + 1
    IN  IF keep < 0 THEN -1 ELSE keep - 1

(* Mutant: the window is one height short. *)
Pruned_one_more(undo, last, to) ==
    Restrict(undo, {h \in DOMAIN undo : h <= last \/ h > to + 1})

Pruned(undo, last, to) == Restrict(undo, {h \in DOMAIN undo : h <= last \/ h > to})
=============================================================================
