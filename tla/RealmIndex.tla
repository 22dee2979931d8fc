----------------------------- MODULE RealmIndex -----------------------------
(***************************************************************************)
(* The directory of realms (server/realm_index.py): tokens whose metadata  *)
(* describes a realm, by the realm's id; the first mint of an id counts.   *)
(* Rows: RM id -> record, RS singleton -> id.                              *)
(***************************************************************************)
EXTENDS RowCache

CONSTANTS
    RealmIds,   \* the well-formed ids
    RealmKinds  \* REALM_KINDS

(* extract_realm_fields; a reveal's realm is {} or {[id, kind, owner, name]}. *)
extract_realm_fields(env) ==
    {r \in env.realm : r.id \in RealmIds /\ r.kind \in RealmKinds /\ r.owner # "none"}

(* The first singleton of the first output, or of any. *)
_pick_singleton(tx) ==
    LET Nfts(refs) == SelectSeq(refs, LAMBDA r : r.kind = "nft")
        candidates == (IF tx.outs = << >> THEN << >> ELSE Nfts(tx.outs[1].refs)) \o Nfts(PushedRefs(tx))
    IN  IF candidates = << >> THEN {} ELSE {Head(candidates).ref}

(* The realm's row, and its singleton's unless another realm has it. *)
Settled(c, t, fields, singleton, h) ==
    Stage(c,
          (<<"RM", fields.id>> :> {[id |-> fields.id, kind |-> fields.kind, name |-> fields.name,
                                    owner |-> fields.owner, ref |-> singleton, height |-> h]})
          @@ [k \in {<<"RS", s>> : s \in {x \in singleton : ~Has(c, t, <<"RS", x>>)}} |-> {fields.id}],
          h)

RealmProcessTx(c, t, tx, h) ==
    LET found == UNION {extract_realm_fields(env) : env \in EnvelopeOf(tx)}
        fields == The(found)
    IN  IF found = {} \/ Has(c, t, <<"RM", fields.id>>) THEN c
        ELSE Settled(c, t, fields, _pick_singleton(tx), h)

(* backfill_from_glyph_db: the first token of an id, and its ref in any case. *)
RealmBackfill(c, t, tokens) ==
    IF \E k \in DOMAIN t : k[1] = "RM" THEN c
    ELSE FoldLeft(LAMBDA v, token :
            LET found == extract_realm_fields(token.env)
            IN  IF found = {} \/ Has(v, t, <<"RM", The(found).id>>) THEN v
                ELSE Stage(Settled(v, t, The(found), {token.ref}, token.deployed),
                           (<<"RS", token.ref>> :> {The(found).id}), token.deployed),
            c, tokens)

-----------------------------------------------------------------------------
(* Queries; holders is what the token index says: ref -> owners. *)

(* _resolve_owner, _record_to_api: the singleton's holder, or the minter. *)
CurrentOwner(record, holders) ==
    LET held == UNION {IF r \in DOMAIN holders THEN holders[r] ELSE {} : r \in record.ref}
    IN  IF held = {} THEN record.owner ELSE The(held)

get_by_id(c, t, id) == Row(c, t, <<"RM", id>>)

realm_list(c, t, kind, owner, holders) ==
    {r \in UNION {Row(c, t, k) : k \in {x \in DOMAIN t \cup DOMAIN c.rows : x[1] = "RM"}} :
        kind \in {"any", r.kind} /\ owner \in {"any", CurrentOwner(r, holders)}}

(* A realm staged by a backfill or a block is in one of the two. *)
total_realms(c, t) ==
    Cardinality({k \in DOMAIN t : k[1] = "RM"}) + Cardinality({k \in DOMAIN c.rows : k[1] = "RM"})
=============================================================================
