------------------------------ MODULE RowCache ------------------------------
(***************************************************************************)
(* The cache of an overlay index: rows that wait for the flush, each with  *)
(* the height of its last change, under which the flush records what the   *)
(* DB had (UndoLog).  WAVE names, realms, listings, markets and analytics  *)
(* differ in their rows and not in this, so one cache, one table and one   *)
(* undo log stand for those of all five: their keys carry different        *)
(* prefixes, and each prunes by the same heights.                          *)
(***************************************************************************)
EXTENDS TxFeed

(* rows: key -> {value}, or {} when the flush shall delete it; early: <<height, key>>
   -> the value before, for undo that is recorded when the change is made. *)
NoRows == [rows |-> << >>, heights |-> << >>, early |-> << >>]

Stage(c, rows, h) ==
    [c EXCEPT !.rows = rows @@ @, !.heights = [k \in DOMAIN rows |-> h] @@ @]

(* What a reader finds: the cache first, then the DB. *)
Row(c, t, k) == IF k \in DOMAIN c.rows THEN c.rows[k] ELSE Get(t, k)
Has(c, t, k) == Row(c, t, k) # {}
The(S) == CHOOSE x \in S : TRUE

FlushedRows(c, t) ==
    LET gone == {k \in DOMAIN c.rows : c.rows[k] = {}}
    IN  Written(t, [k \in DOMAIN c.rows \ gone |-> The(c.rows[k])], gone)

(* Undo recorded early counts, and spares the key at its height. *)
RecordedRows(undo, c, t) ==
    LET heights == Range(c.heights) \cup {e[1] : e \in DOMAIN c.early}
        At(h) == [k \in {e[2] : e \in {x \in DOMAIN c.early : x[1] = h}} |-> c.early[<<h, k>>]]
                 @@ [k \in {x \in DOMAIN c.heights : c.heights[x] = h} |-> Get(t, k)]
    IN  [h \in DOMAIN undo \cup heights |-> IF h \in heights THEN At(h) ELSE undo[h]]

(* Rows changed at h and at another height since the last flush, of which one undo
   record has to stand for both. *)
MixedRows(c, old, h) ==
    {k \in DOMAIN old.heights : c.heights[k] = h /\ old.heights[k] # h
                                /\ <<h, k>> \notin DOMAIN c.early}
=============================================================================
