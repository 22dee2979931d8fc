------------------------------ MODULE UtxoUndo ------------------------------
(***************************************************************************)
(* How a block's transactions change the UTXO tables and the ref tables of *)
(* RXinDexer, through the block processor's caches, and how a reorg takes  *)
(* them back with the block's undo records.                                *)
(*   electrumx/server/block_processor.py: advance_txs, _backup_txs         *)
(*   electrumx/server/db.py: flush_utxo_db                                 *)
(*                                                                         *)
(* An outpoint is <<tx, idx>>; a ref is the outpoint it was minted from. A *)
(* ref table of the DB is a function or a set on its keys: 'ri' of the     *)
(* outpoints that carry refs, 'rm' ref -> minting tx, 'rl' singleton ref   *)
(* -> tx of its last move. 'rb' is written and deleted with 'ri' and the   *)
(* paired 'h' and 'u' rows of a UTXO are one row here. Every height keeps  *)
(* its undo records: the window that limits them is ChainStore's.          *)
(***************************************************************************)
EXTENDS Integers, FiniteSets, Sequences, SequencesExt

CONSTANTS
  Blocks, NoBlock,
  Parent,      \* block -> its prevhash
  Height,      \* block -> height, -1 for NoBlock
  BlockTxs,    \* block -> sequence of its txs
  Inputs,      \* tx -> sequence of the outpoints it spends
  Outputs,     \* tx -> sequence of outputs: hashX, singletons and normals
               \* (sets of refs), indexable (what _output_indexable says)
  HashPrefix,  \* tx -> the first bytes of its hash, the 'h' table's key
  HashXs

Tips == Blocks \cup {NoBlock}
Txs == DOMAIN Outputs

\* txs of the chain up to a tip, in order: a tx's number is its place in it
ChainTxs[t \in Tips] ==
  IF t = NoBlock THEN <<>> ELSE ChainTxs[Parent[t]] \o BlockTxs[t]
tx_count(t) == Len(ChainTxs[t])

\* Blocks form a tree rooted at NoBlock
ASSUME BlockAssumption ==
  /\ Height[NoBlock] = -1
  /\ \A b \in Blocks :
       Parent[b] \in Tips /\ Height[b] \in Nat /\ Height[b] = Height[Parent[b]] + 1

\* the txs of the blocks, with their inputs and outputs
ASSUME TxAssumption ==
  /\ \A b \in Blocks : BlockTxs[b] \in Seq(Txs)
  /\ \A x \in Txs :
       /\ Inputs[x] \in Seq(Txs \X Nat)
       /\ Len(Outputs[x]) \in Nat /\ DOMAIN Outputs[x] = 1..Len(Outputs[x])
       /\ \A i \in DOMAIN Outputs[x] : Outputs[x][i].hashX \in HashXs

\* What the daemon's consensus rules grant of the txs of any chain: none is
\* there twice, each input is an indexable output of an earlier tx, and no
\* output is spent twice.
ASSUME LegalAssumption ==
  \A b \in Blocks : \A n \in DOMAIN ChainTxs[b] : LET x == ChainTxs[b][n] IN
    /\ \A m \in 1..n - 1 : ChainTxs[b][m] # x
    /\ \A k \in DOMAIN Inputs[x] :
         /\ \E m \in 1..n - 1 : \E i \in DOMAIN Outputs[ChainTxs[b][m]] :
              /\ Inputs[x][k] = <<ChainTxs[b][m], i - 1>>
              /\ Outputs[ChainTxs[b][m]][i].indexable
         /\ \A j \in 1..k - 1 : Inputs[x][j] # Inputs[x][k]
         /\ \A m \in 1..n - 1 : Inputs[x][k] \notin ToSet(Inputs[ChainTxs[b][m]])

\* the refs that an outpoint carries
RefsAt(op) == LET o == Outputs[op[1]][op[2] + 1] IN o.singletons \cup o.normals

\* What they grant of refs: an output carries one only if its tx spends the
\* outpoint of that name or an output that carries it.
ASSUME RefAssumption ==
  \A b \in Blocks : \A n \in DOMAIN ChainTxs[b] : LET x == ChainTxs[b][n] IN
    \A i \in DOMAIN Outputs[x] : Outputs[x][i].indexable =>
      \A r \in RefsAt(<<x, i - 1>>) :
        \E k \in DOMAIN Inputs[x] : r = Inputs[x][k] \/ r \in RefsAt(Inputs[x][k])

VARIABLES
  tip,     \* bp.tip
  pc,      \* "run", "flush_backup" inside a reorg, "stopped" by an exception
  mem,     \* the block processor's caches
  db,      \* the UTXO DB and the file of tx hashes
  dbTip,   \* the tip of the DB's state entry
  blurred  \* history variable: refs moved twice between two flushes

vars == <<tip, pc, mem, db, dbTip, blurred>>

\* An empty function, a function without some of its keys, f before g: what is
\* not in f is looked up in g, and a function with one more value.
Empty == [k \in {} |-> k]
Without(f, keys) == [k \in DOMAIN f \ keys |-> f[k]]
Over(f, g) ==
  [k \in DOMAIN f \cup DOMAIN g |-> IF k \in DOMAIN f THEN f[k] ELSE g[k]]
With(f, key, v) == Over([k \in {key} |-> v], f)

NoMem == [utxos |-> Empty,        \* utxo_cache: outpoint -> [hashX, num]
          refs |-> {},            \* ref_cache
          mints |-> Empty,        \* ref_mint_cache
          locs |-> Empty,         \* ref_loc_cache
          deletes |-> {},         \* db_deletes
          undo_infos |-> Empty,   \* height -> undo info waiting for a flush
          loc_undo_infos |-> Empty,
          headers |-> {}]         \* blocks whose hashes are not in the files

\* what the loop of one block adds to the caches
Scratch == [undo |-> <<>>, loc_undo |-> Empty, minted |-> {}, failed |-> FALSE]

\* The shape of the caches and tables. Undo info and location undo info are
\* stored for the same heights: _backup_txs raises when either is missing.
TypeOK ==
  /\ tip \in Tips /\ dbTip \in Tips
  /\ pc \in {"run", "flush_backup", "stopped"}
  /\ DOMAIN mem = DOMAIN NoMem
  /\ mem.headers \subseteq Blocks
  /\ \A op \in DOMAIN mem.utxos : mem.utxos[op].hashX \in HashXs
  /\ \A r \in db.hu : r.hashX \in HashXs /\ r.num \in Nat /\ r.idx \in Nat
  /\ DOMAIN db.undo = DOMAIN db.loc_undo

Init ==
  /\ tip = NoBlock /\ dbTip = NoBlock
  /\ pc = "run"
  /\ mem = NoMem
  /\ db = [hu |-> {}, ri |-> {}, rm |-> Empty, rl |-> Empty,
           undo |-> Empty, loc_undo |-> Empty, hashes |-> Empty]
  /\ blurred = {}

----------------------------------------------------------------------------
(* Spending: spend_utxo *)

\* rows under the key prefix of an outpoint; when there are several, the tx
\* hash of a row's tx number tells which is meant; one alone is not checked
Candidates(op) == {r \in db.hu : r.prefix = HashPrefix[op[1]] /\ r.idx = op[2]}
Matching(op) ==
  {r \in Candidates(op) : Cardinality(Candidates(op)) > 1
                             => db.hashes[r.num] = op[1]}

\* the value spend_utxo returns
UtxoOf(w, op) ==
  IF op \in DOMAIN w.utxos THEN w.utxos[op]
  ELSE LET r == CHOOSE r \in Matching(op) : TRUE
       IN [hashX |-> r.hashX, num |-> r.num]

Spendable(w, op) == op \in DOMAIN w.utxos \/ Matching(op) # {}

spend_utxo(w, op) ==
  IF op \in DOMAIN w.utxos
    THEN [w EXCEPT !.utxos = Without(@, {op})]
  ELSE IF Matching(op) # {}
    THEN [w EXCEPT !.deletes =
                      @ \cup {<<"hu", CHOOSE r \in Matching(op) : TRUE>>}]
  ELSE [w EXCEPT !.failed = TRUE]          \* ChainError

----------------------------------------------------------------------------
(* Advancing *)

SpendInput(w, op) ==
  IF Spendable(w, op)
    THEN [spend_utxo(w, op) EXCEPT !.undo = Append(@, UtxoOf(w, op))]
    ELSE spend_utxo(w, op)

\* an output of tx t, whose number is num: the UTXO, and its refs. A ref that
\* the tx spends as an outpoint is minted here; another singleton has moved,
\* and its location before this block is noted for undo, from the DB.
AddOutput(w, t, num, i) ==
  LET out == Outputs[t][i]
      op == <<t, i - 1>>
      spent == ToSet(Inputs[t])
      moved == out.singletons \ spent
      minted == w.minted \cup (out.singletons \cap spent)
      noted == {r \in moved \cap DOMAIN db.rl :
                  r \notin minted /\ r \notin DOMAIN w.loc_undo}
  IN IF ~out.indexable THEN w
     ELSE [w EXCEPT
       !.utxos = With(@, op, [hashX |-> out.hashX, num |-> num]),
       !.refs = IF out.singletons \cup out.normals = {} THEN @ ELSE @ \cup {op},
       !.mints = Over([r \in (out.singletons \cup out.normals) \cap spent |-> t], @),
       !.locs = Over([r \in moved |-> t], @),
       !.minted = minted,
       !.loc_undo = Over([r \in noted |-> db.rl[r]], @)]

AdvanceTx(w, t, num) ==
  FoldLeft(LAMBDA v, i : AddOutput(v, t, num, i),
           FoldLeft(SpendInput, w, Inputs[t]),
           [i \in 1..Len(Outputs[t]) |-> i])

\* advance_txs on the block's txs, in order
AdvanceTxs(w, b) ==
  FoldLeft(LAMBDA v, n : AdvanceTx(v, BlockTxs[b][n], tx_count(Parent[b]) + n - 1),
           w, [n \in 1..Len(BlockTxs[b]) |-> n])

Advance(b) ==
  LET w == AdvanceTxs(Over(mem, Scratch), b) IN
  /\ pc = "run"
  /\ Parent[b] = tip
  /\ tip' = b
  /\ pc' = IF w.failed THEN "stopped" ELSE "run"
  /\ mem' = [[f \in DOMAIN mem |-> w[f]] EXCEPT
               !.undo_infos = With(@, Height[b], w.undo),
               !.loc_undo_infos = With(@, Height[b], w.loc_undo),
               !.headers = @ \cup {b}]
  /\ blurred' = blurred \cup
       {r \in DOMAIN mem.locs : \E n \in DOMAIN BlockTxs[b] :
          \E i \in DOMAIN Outputs[BlockTxs[b][n]] :
            r \in Outputs[BlockTxs[b][n]][i].singletons}
  /\ UNCHANGED <<db, dbTip>>

----------------------------------------------------------------------------
(* Committing: flush_utxo_db, and before it the hashes of flush_fs *)

Deleted(table) == {k[2] : k \in {d \in mem.deletes : d[1] = table}}

\* mutant: the deletes of the batch come after its puts
flush_utxo_db_deletes_last ==
  [hu |-> (db.hu \cup
             {[prefix |-> HashPrefix[op[1]], idx |-> op[2],
               num |-> mem.utxos[op].num, hashX |-> mem.utxos[op].hashX]
                : op \in DOMAIN mem.utxos}) \ Deleted("hu"),
   ri |-> (db.ri \cup mem.refs) \ Deleted("ri"),
   rm |-> Without(Over(mem.mints, db.rm), Deleted("rm")),
   rl |-> Without(Over(mem.locs, db.rl), Deleted("rl")),
   undo |-> Over(mem.undo_infos, db.undo),
   loc_undo |-> Over(mem.loc_undo_infos, db.loc_undo)]

\* mutant: a height whose block moved no ref gets no location undo record
flush_utxo_db_skips_empty_undo ==
  [hu |-> (db.hu \ Deleted("hu")) \cup
            {[prefix |-> HashPrefix[op[1]], idx |-> op[2],
              num |-> mem.utxos[op].num, hashX |-> mem.utxos[op].hashX]
               : op \in DOMAIN mem.utxos},
   ri |-> (db.ri \ Deleted("ri")) \cup mem.refs,
   rm |-> Over(mem.mints, Without(db.rm, Deleted("rm"))),
   rl |-> Over(mem.locs, Without(db.rl, Deleted("rl"))),
   undo |-> Over(mem.undo_infos, db.undo),
   loc_undo |-> Over([h \in {k \in DOMAIN mem.loc_undo_infos :
                                mem.loc_undo_infos[k] # Empty} |->
                        mem.loc_undo_infos[h]], db.loc_undo)]

\* in the batch the deletes come first
flush_utxo_db ==
  [hu |-> (db.hu \ Deleted("hu")) \cup
            {[prefix |-> HashPrefix[op[1]], idx |-> op[2],
              num |-> mem.utxos[op].num, hashX |-> mem.utxos[op].hashX]
               : op \in DOMAIN mem.utxos},
   ri |-> (db.ri \ Deleted("ri")) \cup mem.refs,
   rm |-> Over(mem.mints, Without(db.rm, Deleted("rm"))),
   rl |-> Over(mem.locs, Without(db.rl, Deleted("rl"))),
   undo |-> Over(mem.undo_infos, db.undo),
   loc_undo |-> Over(mem.loc_undo_infos, db.loc_undo)]

\* tx number -> tx of the blocks advanced since the last flush
NewHashes ==
  [n \in UNION {tx_count(Parent[b])..tx_count(b) - 1 : b \in mem.headers} |->
     ChainTxs[tip][n + 1]]

Flush ==
  /\ pc = "run" /\ tip # dbTip
  /\ db' = Over(flush_utxo_db, [hashes |-> Over(NewHashes, db.hashes)])
  /\ mem' = NoMem
  /\ dbTip' = tip
  /\ UNCHANGED <<tip, pc, blurred>>

----------------------------------------------------------------------------
(* Backing up *)

\* mutant: an outpoint's ref row is deleted only if the ref was cached
delete_potential_refs_cached_only(w, op) ==
  [w EXCEPT !.refs = @ \ {op},
            !.deletes = IF op \in w.refs THEN @ \cup {<<"ri", op>>} ELSE @]

\* a row that is both cached and stored is an IndexError
delete_potential_refs(w, op) ==
  [w EXCEPT !.refs = @ \ {op},
            !.deletes = @ \cup {<<"ri", op>>},
            !.failed = @ \/ (op \in w.refs /\ op \in db.ri)]

\* mutant: refs minted by the block stay in 'rm'
DeleteRefs_keeps_mints(w, refs, spent) ==
  [w EXCEPT
     !.mints = Without(@, refs \cap spent),
     !.locs = Without(@, refs \ spent),
     !.deletes = @ \cup {<<"rl", r>> : r \in (refs \ spent) \cap DOMAIN db.rl}]

\* the mints and locations the refs of an output were given by the block
DeleteRefs(w, refs, spent) ==
  [w EXCEPT
     !.mints = Without(@, refs \cap spent),
     !.locs = Without(@, refs \ spent),
     !.deletes = @ \cup {<<"rm", r>> : r \in refs \cap spent \cap DOMAIN db.rm}
                   \cup {<<"rl", r>> : r \in (refs \ spent) \cap DOMAIN db.rl},
     !.failed = @ \/ refs \cap spent \cap DOMAIN w.mints \cap DOMAIN db.rm # {}
                  \/ (refs \ spent) \cap DOMAIN w.locs \cap DOMAIN db.rl # {}]

\* mutant: outputs that were never added are spent too
UndoOutput_all(w, t, i) ==
  LET out == Outputs[t][i] IN
  DeleteRefs(delete_potential_refs(spend_utxo(w, <<t, i - 1>>), <<t, i - 1>>),
             out.singletons \cup out.normals, ToSet(Inputs[t]))

UndoOutput(w, t, i) ==
  LET out == Outputs[t][i]
      op == <<t, i - 1>>
  IN IF ~out.indexable THEN w
     ELSE DeleteRefs(delete_potential_refs(spend_utxo(w, op), op),
                     out.singletons \cup out.normals, ToSet(Inputs[t]))

\* an input gets back the last value of the undo info not yet used
RestoreInput(w, op) ==
  IF w.undo = <<>> THEN [w EXCEPT !.failed = TRUE]
  ELSE [w EXCEPT !.utxos = With(@, op, Last(w.undo)), !.undo = Front(@)]

\* mutant: the inputs of a tx are restored in their own order
BackupTx_inputs_forward(w, t) ==
  FoldLeft(RestoreInput,
           FoldLeft(LAMBDA v, i : UndoOutput(v, t, i), w,
                    [i \in 1..Len(Outputs[t]) |-> i]),
           Inputs[t])

BackupTx(w, t) ==
  FoldLeft(RestoreInput,
           FoldLeft(LAMBDA v, i : UndoOutput(v, t, i), w,
                    [i \in 1..Len(Outputs[t]) |-> i]),
           Reverse(Inputs[t]))

\* _backup_txs: the txs from the last to the first, then the locations the
\* refs had before the block
BackupTxs(w, b) ==
  LET v == FoldLeft(BackupTx, w, Reverse(BlockTxs[b]))
  IN [v EXCEPT !.locs = Over(v.loc_undo, @), !.failed = @ \/ v.undo # <<>>]

\* _backup_block, all being flushed: raises without undo info, which every
\* height has here
BackupBlock ==
  LET w == BackupTxs(
             Over(mem, [Scratch EXCEPT !.undo = db.undo[Height[tip]],
                                       !.loc_undo = db.loc_undo[Height[tip]]]),
             tip)
  IN
  /\ pc = "run" /\ tip = dbTip /\ tip # NoBlock /\ Height[tip] > 0
  /\ tip' = Parent[tip]
  /\ pc' = IF w.failed THEN "stopped" ELSE "flush_backup"
  /\ mem' = [f \in DOMAIN mem |-> w[f]]
  /\ UNCHANGED <<db, dbTip, blurred>>

\* flush_backup leaves the files alone
FlushBackup ==
  /\ pc = "flush_backup"
  /\ db' = Over(flush_utxo_db, [hashes |-> db.hashes])
  /\ mem' = NoMem
  /\ dbTip' = tip
  /\ pc' = "run"
  /\ UNCHANGED <<tip, blurred>>

\* a kill, and the restart from the DB's state
Crash ==
  /\ pc # "stopped"
  /\ pc' = "run"
  /\ tip' = dbTip
  /\ mem' = NoMem
  /\ UNCHANGED <<db, dbTip, blurred>>

Next ==
  \/ \E b \in Blocks : Advance(b)
  \/ Flush
  \/ BackupBlock \/ FlushBackup
  \/ Crash

Spec == Init /\ [][Next]_vars

----------------------------------------------------------------------------
(* What the tables should hold: functions of the committed chain alone *)

TxsOf(t) == ToSet(ChainTxs[t])
OutpointsOf(t) ==
  UNION {{<<x, i - 1>> : i \in {j \in DOMAIN Outputs[x] : Outputs[x][j].indexable}}
           : x \in TxsOf(t)}
SpentBy(t) == UNION {ToSet(Inputs[x]) : x \in TxsOf(t)}
NumOf(t, x) == (CHOOSE n \in DOMAIN ChainTxs[t] : ChainTxs[t][n] = x) - 1

\* txs whose outputs mint, or move, a ref, in chain order
MintsOf(t, r) == {x \in TxsOf(t) : r \in ToSet(Inputs[x])
                    /\ \E op \in OutpointsOf(t) : op[1] = x /\ r \in RefsAt(op)}
MovesOf(t, r) == {x \in TxsOf(t) : r \notin ToSet(Inputs[x])
                    /\ \E op \in OutpointsOf(t) :
                         op[1] = x /\ r \in Outputs[x][op[2] + 1].singletons}
AllRefs(t) == UNION {RefsAt(op) : op \in OutpointsOf(t)}
LastOf(t, S) == CHOOSE x \in S : \A y \in S : NumOf(t, y) <= NumOf(t, x)

----------------------------------------------------------------------------
(* Properties *)

\* However the tip was reached - in one flush or many, over reorgs, through
\* crashes, with the same tx in two branches under two tx numbers, or two txs
\* sharing a hash prefix - the 'h' and 'u' tables hold exactly the unspent
\* outputs of the committed chain, with the tx number each has in that chain.
UtxosExact ==
  db.hu = {[prefix |-> HashPrefix[op[1]], idx |-> op[2],
            num |-> NumOf(dbTip, op[1]),
            hashX |-> Outputs[op[1]][op[2] + 1].hashX]
             : op \in OutpointsOf(dbTip) \ SpentBy(dbTip)}

\* No legal chain makes spend_utxo miss, finds a ref both cached and stored,
\* or ends a backup with undo values left over: the ChainErrors, IndexErrors
\* and asserts of advance_txs and _backup_txs, each of which stops indexing.
NeverStops == pc # "stopped"

\* 'ri' has exactly the outpoints of the committed chain that carry refs,
\* spent ones too.
RefsExact == db.ri = {op \in OutpointsOf(dbTip) : RefsAt(op) # {}}

\* 'rm' names the minting tx of every ref of the committed chain, no other.
MintsExact ==
  /\ DOMAIN db.rm = {r \in AllRefs(dbTip) : MintsOf(dbTip, r) # {}}
  /\ \A r \in DOMAIN db.rm : db.rm[r] \in MintsOf(dbTip, r)

\* 'rl' is where singleton r last moved on the committed chain
LocExact(r) ==
  /\ r \in DOMAIN db.rl <=> MovesOf(dbTip, r) # {}
  /\ r \in DOMAIN db.rl => db.rl[r] = LastOf(dbTip, MovesOf(dbTip, r))

Refs == UNION {{<<x, i - 1>> : i \in DOMAIN Outputs[x]} : x \in Txs}

\* refs that one output carries as a singleton and one as a normal ref
Mixed == {r \in Refs : \E x, y \in Txs :
            /\ \E i \in DOMAIN Outputs[x] : r \in Outputs[x][i].singletons
            /\ \E i \in DOMAIN Outputs[y] : r \in Outputs[y][i].normals}

\* A singleton that never moved twice between two flushes, and is nowhere a
\* normal ref, is where the committed chain last moved it, after any reorg.
\* (_backup_txs deletes the location of normal refs too, and advance_txs keeps
\* undo information for those of singletons alone.)
LocsExact == \A r \in Refs \ (blurred \cup Mixed) : LocExact(r)

\* _backup_txs (block_processor.py 1083) says of a deleted location: "This
\* will be recreated later from undo data if it existed before this block."
\* It is not when the earlier move was still in the cache.
LocsRestored == \A r \in Refs : LocExact(r)
=============================================================================
