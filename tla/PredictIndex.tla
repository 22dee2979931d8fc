---------------------------- MODULE PredictIndex ----------------------------
(***************************************************************************)
(* Prediction markets (server/predict_index.py): a beacon names a market   *)
(* and its two shares, and counts if the tx spends the outpoint that the   *)
(* market's ref names, its first output is the market's singleton and the  *)
(* next two anchor the shares.  Rows: PM market -> record, PH height and   *)
(* market.                                                                 *)
(***************************************************************************)
EXTENDS RowCache

(* parse_market_beacon; a beacon is [kind, ref, yes, no, params, question]. *)
MarketBeacon(tx) ==
    LET all == SelectSeq(tx.beacons, LAMBDA b : b.kind = "market" /\ b.question # "none")
    IN  IF all = << >> THEN {} ELSE {Head(all)}

(* An output's state is {} or {[form, refs, singleton, params, status]}: what
   parse_stateful splits off, and the refs in the code behind it. *)
parse_singleton_state(o) == {s \in o.state : s.form = "market"}

is_anchor_for(o, share, market) ==
    \E s \in o.state : s.form = "anchor" /\ {share, market} \subseteq s.refs

(* The three outputs are what the beacon says of them. *)
Genuine(tx, b) ==
    /\ b.ref \in tx.spends
    /\ Len(tx.outs) >= 3
    /\ \E s \in parse_singleton_state(tx.outs[1]) :
          s.singleton = b.ref /\ {b.yes, b.no} \subseteq s.refs
    /\ is_anchor_for(tx.outs[2], b.yes, b.ref)
    /\ is_anchor_for(tx.outs[3], b.no, b.ref)

(* The parameters are the chain's, not the beacon's. *)
MarketRecord(tx, b, h) ==
    LET s == The(parse_singleton_state(tx.outs[1]))
    IN  [yes |-> b.yes, no |-> b.no, params |-> s.params, status |-> s.status,
         question |-> b.question, matches |-> b.params = s.params, height |-> h]

PredictProcessTx(c, tx, h) ==
    LET genuine == {b \in MarketBeacon(tx) : Genuine(tx, b)}
        b == The(genuine)
    IN  IF genuine = {} THEN c
        ELSE Stage(c, (<<"PM", b.ref>> :> {MarketRecord(tx, b, h)}) @@ (<<"PH", h, b.ref>> :> {""}), h)

get_market(c, t, ref) == Row(c, t, <<"PM", ref>>)

(* The newest first; flushed markets only. *)
list_markets(t, offset, limit) ==
    LET keys == {k \in DOMAIN t : k[1] = "PH"}
        sorted == SortSeq(FoldSet(LAMBDA k, q : Append(q, k), << >>, keys), LAMBDA a, b : a[2] > b[2])
        known == SelectSeq(SubSeq(sorted, offset + 1, Len(sorted)),
                           LAMBDA k : <<"PM", k[3]>> \in DOMAIN t)
    IN  [n \in 1 .. Min({limit, Len(known)}) |-> known[n][3]]
=============================================================================
