---------------------------- MODULE RoyaltyIndex ----------------------------
(***************************************************************************)
(* Listings for sale with royalties (server/royalty_index.py).  A beacon   *)
(* names a token; an output of the same tx sells it; the listing is open   *)
(* until that output is spent.  Rows: RLm the listing, RLr, RLs and RLa    *)
(* the open ones by token, by seller and by height of creation.            *)
(***************************************************************************)
EXTENDS RowCache

(* parse_royalty_sale_script; an output's sale is {} or {[ref, seller, price,
   royalties]}. *)
parse_royalty_sale_script(o) == {s \in o.sale : s.royalties # {} /\ s.price >= 1}

(* parse_royalty_beacon: the first, of a known version *)
ListingBeacon(tx) ==
    LET all == SelectSeq(tx.beacons, LAMBDA b : b.kind = "listing")
    IN  IF all = << >> THEN {} ELSE {b \in {Head(all)} : b.version = 1}

_build_record(o, sale, h) ==
    [ref |-> sale.ref, seller |-> sale.seller, price |-> sale.price,
     value |-> o.value, height |-> h, open |-> TRUE, closed |-> 0]

(* Mutant: by the height of the last change. *)
ActiveKeys_by_change(id, rec) ==
    {<<"RLr", rec.ref, id>>, <<"RLs", rec.seller, id>>,
     <<"RLa", IF rec.open THEN rec.height ELSE rec.closed, id>>}

ActiveKeys(id, rec) ==
    {<<"RLr", rec.ref, id>>, <<"RLs", rec.seller, id>>, <<"RLa", rec.height, id>>}

(* The record, and the keys of the lists, which go when it is no longer open. *)
ListingRows(id, rec) ==
    (<<"RLm", id>> :> {rec})
    @@ [k \in ActiveKeys(id, rec) |-> IF rec.open THEN {""} ELSE {}]

_close_listing_if_open(c, t, op, h) ==
    LET rec == The(Row(c, t, <<"RLm", op>>))
    IN  IF Row(c, t, <<"RLm", op>>) = {} THEN c
        ELSE IF ~rec.open THEN c
        ELSE Stage(c, ListingRows(op, [rec EXCEPT !.open = FALSE, !.closed = h]), h)

(* Closes first; then the first output that sells the beacon's token. *)
RoyaltyProcessTx(c, t, tx, h) ==
    LET closed == FoldSet(LAMBDA op, v : _close_listing_if_open(v, t, op, h), c, tx.spends)
        Sells(o) == \E s \in parse_royalty_sale_script(o) :
                        \E b \in ListingBeacon(tx) : s.ref = b.ref
        sellers == SelectSeq(tx.outs, Sells)
    IN  IF sellers = << >> THEN closed
        ELSE LET o == Head(sellers)
             IN  Stage(closed, ListingRows(o.op, _build_record(o, The(parse_royalty_sale_script(o)), h)), h)

(* get_listings: from the flushed lists, what the record says is open. *)
get_listings(c, t, list, by) ==
    LET keys == {k \in DOMAIN t : k[1] = list /\ (by = {} \/ k[2] \in by)}
    IN  {Last(k) : k \in {x \in keys : \E rec \in Row(c, t, <<"RLm", Last(x)>>) : rec.open}}
=============================================================================
