----------------------------- MODULE WaveIndex -----------------------------
(***************************************************************************)
(* WAVE names (server/wave_index.py).  A name is a sequence of characters; *)
(* its first registration is canonical, later ones are kept as duplicates. *)
(* The singleton of the claim output carries the name: who holds it owns   *)
(* the name and may point it at another target.                            *)
(*                                                                         *)
(* Rows, by prefix: WT the prefix tree, WN name -> claim, WD a duplicate,  *)
(* WZ claim -> zone, WO claim -> owner, WR owner and claim, WSG singleton  *)
(* -> name.  A ref is <<tx, output>>, a tx being named by its first output.*)
(***************************************************************************)
EXTENDS RowCache

CONSTANTS
    WaveChars,  \* the characters, in the order of their indexes
    MaxName,    \* WAVE_MAX_NAME_LENGTH
    Genesis,    \* the ref of the root
    Addresses,  \* the valid payment addresses
    HotLimit    \* hot_name_limit

(* A reveal [p, name, domain, target, targetType, display, realm]: the protocols, the
   name, its parent's name (<< >> for the root), the rest of the metadata. *)

VARIABLE waHot  \* hot_names: name -> [ref, owner, zone]

char_to_output_index(char) == CHOOSE i \in DOMAIN WaveChars : WaveChars[i] = char

validate_wave_name(name) ==
    /\ name # << >> /\ Len(name) <= MaxName
    /\ name[1] # "-" /\ Last(name) # "-"
    /\ \/ \A i \in 1 .. Len(name) - 1 : name[i] # "-" \/ name[i + 1] # "-"
       \/ IsPrefix(<<"x", "n", "-", "-">>, name)
    /\ Range(name) \subseteq Range(WaveChars)

validate_target_address(target) == target \in Addresses

NoZone == [address |-> "none", display |-> "none"]
ZoneOf(env) ==
    [address |-> IF validate_target_address(env.target) THEN env.target ELSE "none",
     display |-> env.display]

ClaimRef(tx) == <<tx.outs[1].op, 0>>

-----------------------------------------------------------------------------
(* process_tx *)

_resolve_name_to_ref(c, t, name) == Row(c, t, <<"WN", name>>)

_resolve_singleton_to_name(c, t, singleton) == Row(c, t, <<"WSG", singleton>>)

_get_zone_records(c, t, ref) == Row(c, t, <<"WZ", ref>>)
_get_owner(c, t, ref) == Row(c, t, <<"WO", ref>>)

(* The claims whose singleton the tx spends: <<singleton, claim>>. *)
SpentClaims(c, t, tx) ==
    UNION {{s} \X UNION {_resolve_name_to_ref(c, t, n) : n \in _resolve_singleton_to_name(c, t, s)} :
              s \in SpentSingletons(tx)}

(* The base address of the first output that carries the singleton on. *)
NewOwner(tx, singleton) ==
    LET next == SelectSeq(tx.outs, LAMBDA o : Carries(o, singleton, "nft"))
    IN  IF next = << >> THEN {} ELSE {Head(next).owner}

_maybe_update_owner(c, t, tx, h) ==
    FoldSet(LAMBDA claim, v :
                IF NewOwner(tx, claim[1]) \in {{}, _get_owner(v, t, claim[2])} THEN v
                ELSE Stage(v, (<<"WO", claim[2]>> :> NewOwner(tx, claim[1])), h),
            c, SpentClaims(c, t, tx))

(* Mutant: what the key held is taken from the DB. *)
EarlyUndo_from_db(c, t, key, h) == (<<h, key>> :> Get(t, key))

(* _record_undo_from_cache: once for a height and key *)
EarlyUndo(c, t, key, h) == (<<h, key>> :> Row(c, t, key))

(* A mod: the zone keeps its other records. *)
_maybe_apply_target_update(c, t, tx, h, env) ==
    LET Retarget(claim, v) ==
            LET key == <<"WZ", claim[2]>>
                zone == IF Has(v, t, key) THEN The(Row(v, t, key)) ELSE NoZone
                staged == Stage(v, (key :> {[zone EXCEPT !.address = env.target]}), h)
            IN  IF zone.address = env.target THEN v
                ELSE [staged EXCEPT !.early = @ @@ EarlyUndo(v, t, key, h)]
    IN  IF env.targetType # "address" \/ ~validate_target_address(env.target) THEN c
        ELSE FoldSet(Retarget, c, SpentClaims(c, t, tx))

(* Each character leads from a ref to the next: to the branch output of the same
   index, the last one to the claim. *)
_index_name_in_tree(name, parent, claim) ==
    LET Node(i) == IF i = 1 THEN parent
                   ELSE <<claim[1], char_to_output_index(name[i - 1])>>
    IN  FoldLeftDomain(LAMBDA rows, i :
            (<<"WT", Node(i), char_to_output_index(name[i])>> :>
                {IF i = Len(name) THEN claim ELSE Node(i + 1)}) @@ rows,
            << >>, name)

(* The first writer keeps a singleton. *)
ClaimSingletons(c, t, tx, name, h) ==
    LET new == {s \in Singletons(tx.outs[1]) : ~Has(c, t, <<"WSG", s>>)}
    IN  Stage(c, [k \in {<<"WSG", s>> : s \in new} |-> {name}], h)

ParentOf(c, t, env) ==
    IF env.domain = << >> THEN {Genesis} ELSE _resolve_name_to_ref(c, t, env.domain)

Register(c, t, tx, h, i, env) ==
    LET claim == ClaimRef(tx)
        inTree == Stage(c, _index_name_in_tree(env.name, The(ParentOf(c, t, env)), claim), h)
        named == IF Has(c, t, <<"WN", env.name>>)
                 THEN Stage(inTree, (<<"WD", env.name, h, i>> :> {claim}), h)
                 ELSE ClaimSingletons(Stage(inTree, (<<"WN", env.name>> :> {claim}), h),
                                      t, tx, env.name, h)
    IN  Stage(named, (<<"WZ", claim>> :> {ZoneOf(env)}) @@ (<<"WO", claim>> :> {tx.outs[1].owner}), h)

(* Owners first, transfers having no reveal. *)
WaveProcessTx(c, t, tx, h, i) ==
    LET moved == _maybe_update_owner(c, t, tx, h)
        env == The(EnvelopeOf(tx))
    IN  IF EnvelopeOf(tx) = {} THEN moved
        ELSE IF "WAVE" \notin env.p THEN _maybe_apply_target_update(moved, t, tx, h, env)
        ELSE IF ~validate_wave_name(env.name) \/ ParentOf(moved, t, env) = {} THEN moved
        ELSE Register(moved, t, tx, h, i, env)

(* The claims whose zone the tx sets anew: their hot names are dropped. *)
Retargeted(c, old) ==
    {k[2] : k \in {x \in DOMAIN c.rows : x[1] = "WZ" /\ Row(old, << >>, x) # c.rows[x]}}

_invalidate_hot_name_by_ref(refs) ==
    waHot' = Restrict(waHot, {n \in DOMAIN waHot : waHot[n].ref \notin refs})

-----------------------------------------------------------------------------
(* flush: the reverse rows are written with the owners and never deleted. *)
WaveFlushed(c) ==
    LET owners == {k \in DOMAIN c.rows : k[1] = "WO"}
        Held(k) == <<"WR", The(c.rows[k]), k[2]>>
        reverse == {Held(k) : k \in owners}
    IN  [c EXCEPT !.rows = [k \in reverse |-> {""}] @@ @,
                  !.heights = [r \in reverse |->
                      c.heights[CHOOSE k \in owners : Held(k) = r]] @@ @]

(* backfill_from_glyph_db: the tokens' names, by ref; the last of a name stays. No
   owner and no singleton is written. *)
WaveBackfill(c, t, tokens) ==
    IF \E k \in DOMAIN t \cup DOMAIN c.rows : k[1] = "WN" THEN c
    ELSE FoldLeft(LAMBDA v, token :
            IF "WAVE" \notin token.env.p \/ ~validate_wave_name(token.env.name)
                \/ token.env.domain # << >> THEN v
            ELSE LET claim == <<token.ref, 0>>
                 IN  Stage(v, _index_name_in_tree(token.env.name, Genesis, claim)
                              @@ (<<"WN", token.env.name>> :> {claim})
                              @@ (<<"WZ", claim>> :> {[address |-> token.env.target,
                                                       display |-> token.env.display]}),
                           token.deployed),
            c, tokens)

-----------------------------------------------------------------------------
(* Queries *)

(* resolve, past the hot names. *)
Resolved(c, t, name) ==
    {[ref |-> ref, owner |-> _get_owner(c, t, ref), zone |-> _get_zone_records(c, t, ref)] :
        ref \in _resolve_name_to_ref(c, t, name)}

resolve(c, t, name) == IF name \in DOMAIN waHot THEN {waHot[name]} ELSE Resolved(c, t, name)

(* What resolve leaves in memory. *)
Resolve(c, t, name) ==
    waHot' = IF name \in DOMAIN waHot \/ Cardinality(DOMAIN waHot) >= HotLimit
                \/ Resolved(c, t, name) = {}
             THEN waHot ELSE (name :> The(Resolved(c, t, name))) @@ waHot

_get_duplicate_registrations(c, t, name) ==
    {[height |-> k[3], idx |-> k[4], ref |-> The(Row(c, t, k))] :
        k \in {x \in DOMAIN c.rows \cup DOMAIN t : x[1] = "WD" /\ x[2] = name}}

check_available(c, t, name) == validate_wave_name(name) /\ _resolve_name_to_ref(c, t, name) = {}

(* Flushed rows only. *)
get_subdomains(c, t, parent) ==
    {<<char, The(Get(t, <<"WT", ref, char_to_output_index(char)>>))>> :
        <<char, ref>> \in {<<x, r>> \in Range(WaveChars) \X _resolve_name_to_ref(c, t, parent) :
            Get(t, <<"WT", r, char_to_output_index(x)>>) # {}}}

(* A row that an earlier owner left is passed over. *)
reverse_lookup(c, t, owner) ==
    {k[3] : k \in {x \in DOMAIN t : x[1] = "WR" /\ x[2] = owner
                                    /\ _get_owner(c, t, x[3]) = {owner}}}

list_names(t) == {t[k] : k \in {x \in DOMAIN t : x[1] = "WN"}}

wave_stats(c, t) ==
    [p \in {"WN", "WZ", "WO"} |->
        Cardinality({k \in DOMAIN t : k[1] = p})
        + Cardinality({k \in DOMAIN c.rows : k[1] = p \/ (p = "WN" /\ k[1] = "WD")})]
=============================================================================
