---------------------------- MODULE MempoolSync ----------------------------
(***************************************************************************)
(* What a subscriber of an address is told: the mempool's refresh          *)
(* (server/mempool.py), the block processor's reports and Notifications    *)
(* (server/controller.py), which merges the two by height.                 *)
(*                                                                         *)
(* The status of an address is computed from the DB, which a flush moves,  *)
(* and from the mempool's txs, which a refresh moves; a subscriber hears   *)
(* of it only if the address is in the touched set of a notification. The  *)
(* refresh awaits the daemon and the DB four times, and at each the daemon *)
(* may change branch or mempool and the block processor advance, flush, or *)
(* undo blocks.                                                            *)
(*                                                                         *)
(* A tx has one output here, which Spends names its spender by: two txs    *)
(* that spend the same one conflict.                                       *)
(***************************************************************************)
EXTENDS Integers, FiniteSets, Functions, SequencesExt

CONSTANTS
    Txs,        \* every transaction
    Spends,     \* tx -> the txs whose output it spends
    Touches,    \* tx -> the hashXs of its inputs and outputs
    Contents,   \* name of a block -> its txs
    Blocks,     \* each as its chain: the sequence of the names up to it
    FirstTip,   \* the chain the daemon and the index start on
    FirstPool,  \* the daemon's first mempool
    MaxArrivals \* bound: txs that reach the daemon's mempool later

HashXs == UNION {Touches[t] : t \in Txs}

Confirmed(b) == UNION {Contents[b[i]] : i \in DOMAIN b}
SpentIn(S) == UNION {Spends[t] : t \in S}

Names == DOMAIN Contents

(* The txs of S spend different outputs. *)
NoConflict(S) == \A t, u \in S : t # u => Spends[t] \cap Spends[u] = {}

(* Txs that can be in a mempool together on top of chain b: those of S whose
   inputs are unspent in the chain or come from another of them. *)
Acceptable(S, b) ==
    LET fit == {t \in S \ Confirmed(b) : Spends[t] \cap SpentIn(Confirmed(b)) = {}}
        Closed(R) == SpentIn(R) \subseteq R \cup Confirmed(b)
    IN  UNION {R \in SUBSET fit : Closed(R)}

ASSUME TreeAssumption ==
    /\ Contents \in [Names -> SUBSET Txs]
    /\ Blocks \subseteq Seq(Names)
    /\ FirstTip \in Blocks /\ FirstTip # << >>
    /\ \A b \in Blocks :
          /\ IsPrefix(FirstTip, b)
          /\ \A n \in Len(FirstTip) .. Len(b) : SubSeq(b, 1, n) \in Blocks
ASSUME TxAssumption ==
    /\ Spends \in [Txs -> SUBSET Txs]
    /\ DOMAIN Touches = Txs
    /\ FirstPool \subseteq Txs
    /\ MaxArrivals \in Nat
(* What the daemon has checked: no chain and no mempool spends an output twice. *)
ASSUME ConsensusAssumption ==
    /\ \A b \in Blocks : NoConflict(Confirmed(b))
    /\ NoConflict(FirstPool) /\ Acceptable(FirstPool, FirstTip) = FirstPool

VARIABLES
    (* the daemon *)
    best,       \* its best block
    pool,       \* its mempool
    arrivals,   \* txs that have reached it (bound)
    cached,     \* Daemon._height
    (* the block processor and the DB *)
    bp,         \* "idle", "advanced" or "backup"
    tip,        \* bp.tip
    dbTip,      \* the DB's: the chain a look-up sees
    bpTouched,  \* bp.touched
    fork,       \* where the reorg under way goes back to
    (* MemPool *)
    mp,         \* where _refresh_hashes is
    height,     \* its height local
    all,        \* its hashes local
    fetched,    \* the new txs it has received
    found,      \* the prevouts (by their tx) the DB has for them
    txs,        \* MemPool.txs
    touched,    \* its touched local
    (* Notifications *)
    touchedMp,  \* _touched_mp and _touched_bp: height -> hashXs
    touchedBp,
    highest,    \* _highest_block
    (* a session that has subscribed to every hashX *)
    notified,   \* SessionManager.notified_height
    told,       \* the status of each when it was last notified
    (* history: what only the properties look at *)
    missed      \* hashXs whose last report was dropped or replaced, or went out
                \* before the DB held the blocks it was about

daemonVars == <<best, pool, arrivals>>
bpVars == <<bp, tip, dbTip, bpTouched, fork>>
mpVars == <<mp, height, all, fetched, found, txs, touched>>
notifyVars == <<touchedMp, touchedBp, highest, notified, told, missed>>
vars == <<daemonVars, cached, bpVars, mpVars, notifyVars>>

(* The status of an address: its confirmed txs with their heights in the chain
   of the DB, and its txs in the mempool. *)
StatusOf(x, chain, unconfirmed) ==
    [history |-> {e \in Txs \X DOMAIN chain :
                     e[1] \in Contents[chain[e[2]]] /\ x \in Touches[e[1]]},
     mempool |-> {t \in unconfirmed : x \in Touches[t]}]

TouchedBy(S) == UNION {Touches[t] : t \in S}

-----------------------------------------------------------------------------
(* The daemon. On a change of branch its mempool takes back the txs that are no
   longer confirmed, unless they conflict. *)

NewBest(b) ==
    /\ best' = b
    /\ pool' = Acceptable(pool \cup (Confirmed(best) \ Confirmed(b)), b)
    /\ UNCHANGED <<arrivals, cached, bpVars, mpVars, notifyVars>>

DaemonGrows == \E b \in Blocks : Front(b) = best /\ NewBest(b)

DaemonSwitches ==
    \E b \in Blocks : Len(b) > Len(best) /\ ~IsPrefix(best, b) /\ NewBest(b)

TxArrives ==
    /\ arrivals < MaxArrivals
    /\ \E t \in Txs \ (pool \cup Confirmed(best)) :
          /\ Acceptable(pool \cup {t}, best) = pool \cup {t}
          /\ Spends[t] \cap SpentIn(pool) = {}
          /\ pool' = pool \cup {t}
    /\ arrivals' = arrivals + 1
    /\ UNCHANGED <<best, cached, bpVars, mpVars, notifyVars>>

(* The prefetcher asks for the height. *)
PollHeight ==
    /\ cached # Len(best)
    /\ cached' = Len(best)
    /\ UNCHANGED <<daemonVars, bpVars, mpVars, notifyVars>>

-----------------------------------------------------------------------------
(* Notifications *)

(* Mutant: a report waits for the other side's at its very height. *)
NotifyHeight_only_common(mps, bps, h) ==
    LET common == DOMAIN mps \cap DOMAIN bps
    IN  {n \in common : \A m \in common : m <= n}

(* _maybe_notify: with mempool and block reports mps and bps, by height, and the
   highest block h, the height whose report goes out, or none. *)
NotifyHeight(mps, bps, h) ==
    LET common == DOMAIN mps \cap DOMAIN bps
    IN  IF common # {} THEN {Max(common)}
        ELSE IF DOMAIN mps # {} /\ Max(DOMAIN mps) = h THEN {h}
        ELSE {}

With(f, n, S) == [m \in DOMAIN f \cup {n} |-> IF m = n THEN S ELSE f[m]]

(* What is reported of heights S. *)
Reported(f, S) == UNION {f[m] : m \in DOMAIN f \cap S}

(* A report that touches the session's addresses xs or is of a new height: those
   that last had txs in the mempool are looked at again (_notify_inner). *)
WithUnconfirmed(heights, xs) ==
    xs \cup {x \in HashXs : /\ told[x].mempool # {}
                            /\ xs # {} \/ heights \ {notified} # {}}

(* The session computes the statuses of the addresses xs from chain and mempool
   as they are when the report goes out (_notify_sessions, _notify_inner). *)
Tell(heights, chain, xs) ==
    /\ told' = [x \in HashXs |->
                   IF x \in xs THEN StatusOf(x, chain, txs) ELSE told[x]]
    /\ notified' = IF heights \subseteq {notified} THEN notified
                   ELSE Min({Len(chain)} \cup heights)

(* Mutant: the mempool's reports for lower heights stay. *)
MaybeNotify_keeps_old(mps, bps, h, chain) ==
    LET at == NotifyHeight(mps, bps, h)
        upTo == UNION {0 .. n : n \in at}
        xs == WithUnconfirmed(at, Reported(mps, at) \cup Reported(bps, upTo))
    IN  /\ touchedMp' = Restrict(mps, DOMAIN mps \ at)
        /\ touchedBp' = Restrict(bps, DOMAIN bps \ upTo)
        /\ Tell(at, chain, xs)
        /\ missed' = missed \ xs

(* What a new report for the same height has replaced. *)
Replaced(old, new) == UNION {old[n] \ new[n] : n \in DOMAIN old}

(* The mempool's touched addresses of that height go out with those of every
   block up to it; what the mempool reported for lower heights is dropped. *)
MaybeNotify(mps, bps, h, chain) ==
    LET at == NotifyHeight(mps, bps, h)
        upTo == UNION {0 .. n : n \in at}
        xs == WithUnconfirmed(at, Reported(mps, at) \cup Reported(bps, upTo))
        dropped == Reported(mps, upTo \ at)
        replaced == Replaced(touchedMp, mps) \cup Replaced(touchedBp, bps)
    IN  /\ touchedMp' = Restrict(mps, DOMAIN mps \ upTo)
        /\ touchedBp' = Restrict(bps, DOMAIN bps \ upTo)
        /\ Tell(at, chain, xs)
        /\ missed' = LET due == missed \cup dropped \cup replaced
                     IN  IF \A n \in at : n <= Len(chain) THEN due \ xs
                         ELSE due \cup xs

-----------------------------------------------------------------------------
(* The block processor, as far as the DB and the reports go *)

(* _advance_block; the prefetcher had the block, so its height was polled. *)
Advance ==
    /\ bp \in {"idle", "advanced"}
    /\ \E b \in Blocks : /\ Front(b) = tip
                         /\ IsPrefix(b, best) /\ Len(b) <= cached
                         /\ tip' = b
                         /\ bpTouched' = bpTouched \cup TouchedBy(Contents[Last(b)])
    /\ bp' = "advanced"
    /\ UNCHANGED <<daemonVars, cached, dbTip, fork, mpVars, notifyVars>>

(* The end of a batch: flush at the height the daemon last reported, or when the
   caches are full, and notifications.on_block, before any other task runs. *)
on_block ==
    /\ bp = "advanced"
    /\ \E chain \in {tip} \cup (IF Len(tip) = cached THEN {} ELSE {dbTip}) :
          /\ dbTip' = chain
          /\ MaybeNotify(touchedMp, With(touchedBp, Len(tip), bpTouched), Len(tip), chain)
    /\ highest' = Len(tip)
    /\ bpTouched' = {}
    /\ bp' = "idle"
    /\ UNCHANGED <<daemonVars, cached, tip, fork, mpVars>>

(* The next block does not connect: the batch ends without a report, and
   _reorg_chain starts.  Flush, find where the chains part, and undo and flush
   block by block down to there.  The addresses of the undone blocks stay in
   touched until the next report. *)
StartReorg ==
    /\ bp \in {"idle", "advanced"}
    /\ Len(tip) < cached /\ ~IsPrefix(tip, best)
    /\ dbTip' = tip
    /\ fork' = LongestCommonPrefix({tip, best})
    /\ bp' = "backup"
    /\ UNCHANGED <<daemonVars, cached, tip, bpTouched, mpVars, notifyVars>>

(* Mutant: the addresses of the undone block are not touched. *)
BackupBlock_untouched ==
    /\ bp = "backup"
    /\ tip' = Front(tip) /\ dbTip' = Front(tip)
    /\ bp' = IF Front(tip) = fork THEN "idle" ELSE "backup"
    /\ UNCHANGED <<daemonVars, cached, bpTouched, fork, mpVars, notifyVars>>

BackupBlock ==
    /\ bp = "backup"
    /\ tip' = Front(tip) /\ dbTip' = Front(tip)
    /\ bpTouched' = bpTouched \cup TouchedBy(Contents[Last(tip)])
    /\ bp' = IF Front(tip) = fork THEN "idle" ELSE "backup"
    /\ UNCHANGED <<daemonVars, cached, fork, mpVars, notifyVars>>

-----------------------------------------------------------------------------
(* MemPool._refresh_hashes *)

MpStart ==
    /\ mp = "sleep"
    /\ height' = cached
    /\ mp' = "hashes"
    /\ UNCHANGED <<daemonVars, cached, bpVars, all, fetched, found, txs, touched,
                   notifyVars>>

MpHashes ==
    /\ mp = "hashes"
    /\ all' = pool
    /\ mp' = "height"
    /\ UNCHANGED <<daemonVars, cached, bpVars, height, fetched, found, txs, touched,
                   notifyVars>>

(* The height has changed meanwhile: start again.  The DB is at another height:
   DBSyncError, sleep.  Both leave touched as it is. *)
MpRetry ==
    /\ mp = "height"
    /\ cached' = Len(best)
    /\ height # Len(best) \/ height # Len(dbTip)
    /\ mp' = "sleep"
    /\ UNCHANGED <<daemonVars, bpVars, height, all, fetched, found, txs, touched,
                   notifyVars>>

(* Mutant: the txs that have disappeared stay. *)
MpProcess_keeps_gone ==
    /\ mp = "height"
    /\ height = Len(best) /\ height = Len(dbTip)
    /\ cached' = Len(best)
    /\ touched' = touched \cup TouchedBy(txs \ all)
    /\ mp' = IF all \subseteq txs THEN "report" ELSE "fetch"
    /\ UNCHANGED <<daemonVars, bpVars, height, all, fetched, found, txs,
                   notifyVars>>

(* The txs that have disappeared go, up to the first await of
   _process_mempool. *)
MpProcess ==
    /\ mp = "height"
    /\ height = Len(best) /\ height = Len(dbTip)
    /\ cached' = Len(best)
    /\ txs' = txs \cap all
    /\ touched' = touched \cup TouchedBy(txs \ all)
    /\ mp' = IF all \subseteq txs THEN "report" ELSE "fetch"
    /\ UNCHANGED <<daemonVars, bpVars, height, all, fetched, found, notifyVars>>

(* _fetch_and_accept: the raw txs the daemon still has, in its mempool or in a
   block. *)
MpFetch ==
    /\ mp = "fetch"
    /\ fetched' = (all \ txs) \cap (pool \cup Confirmed(best))
    /\ mp' = "lookup"
    /\ UNCHANGED <<daemonVars, cached, bpVars, height, all, found, txs, touched,
                   notifyVars>>

(* lookup_utxos for the prevouts outside the mempool's hashes. *)
MpLookup ==
    /\ mp = "lookup"
    /\ found' = {p \in SpentIn(fetched) \ all :
                    p \in Confirmed(dbTip) /\ p \notin SpentIn(Confirmed(dbTip))}
    /\ mp' = "accept"
    /\ UNCHANGED <<daemonVars, cached, bpVars, height, all, fetched, txs, touched,
                   notifyVars>>

(* One pass of _accept_transactions after another, until none accepts more; the
   rest is dropped: the least set that a pass adds nothing to. *)
Accepted(new, known) ==
    LET Final(R) == \A t \in new : Spends[t] \subseteq known \cup txs \cup R => t \in R
    IN  {t \in new : \A R \in SUBSET new : Final(R) => t \in R}

MpAccept ==
    /\ mp = "accept"
    /\ txs' = txs \cup Accepted(fetched, found)
    /\ touched' = touched \cup TouchedBy(Accepted(fetched, found))
    /\ fetched' = {} /\ found' = {}
    /\ mp' = "report"
    /\ UNCHANGED <<daemonVars, cached, bpVars, height, all, notifyVars>>

(* api.on_mempool, with the height of the start; touched is given away. *)
on_mempool ==
    /\ mp = "report"
    /\ MaybeNotify(With(touchedMp, height, touched), touchedBp, highest, dbTip)
    /\ touched' = {}
    /\ all' = {}
    /\ mp' = "sleep"
    /\ UNCHANGED <<daemonVars, cached, bpVars, height, fetched, found, txs, highest>>

-----------------------------------------------------------------------------

Init ==
    /\ best = FirstTip /\ tip = FirstTip /\ dbTip = FirstTip /\ fork = FirstTip
    /\ pool = FirstPool /\ arrivals = 0
    /\ cached = Len(FirstTip) /\ highest = Len(FirstTip) /\ notified = Len(FirstTip)
    /\ bp = "idle" /\ bpTouched = {}
    /\ mp = "sleep" /\ height = 0
    /\ all = {} /\ fetched = {} /\ found = {}
    /\ txs = {} /\ touched = {}
    /\ touchedMp = << >> /\ touchedBp = << >>
    /\ told = [x \in HashXs |-> StatusOf(x, FirstTip, {})]
    /\ missed = {}

ProcessBlocks == Advance \/ on_block \/ StartReorg \/ BackupBlock

Refresh ==
    \/ MpStart \/ MpHashes \/ MpRetry \/ MpProcess
    \/ MpFetch \/ MpLookup \/ MpAccept \/ on_mempool

Next ==
    \/ DaemonGrows \/ DaemonSwitches \/ TxArrives \/ PollHeight
    \/ ProcessBlocks \/ Refresh

Fairness == WF_vars(ProcessBlocks) /\ WF_vars(Refresh) /\ WF_vars(PollHeight)

Spec == Init /\ [][Next]_vars /\ Fairness

-----------------------------------------------------------------------------
(* Properties *)

StatusNow == [x \in HashXs |-> StatusOf(x, dbTip, txs)]

(* Everybody has caught up with everybody: index and mempool with the daemon,
   nothing waits to be reported. *)
Quiet ==
    /\ tip = best /\ dbTip = best /\ bp = "idle" /\ bpTouched = {}
    /\ txs = pool /\ mp = "sleep" /\ touched = {}
    /\ DOMAIN touchedMp = {} /\ DOMAIN touchedBp = {}

(* The type of every variable.  Notifications keeps no report that it has
   passed over: at most one of the mempool's waits. *)
TypeOK ==
    /\ {best, tip, dbTip, fork} \subseteq Blocks
    /\ {pool, all, fetched, found, txs} \subseteq SUBSET Txs
    /\ {bpTouched, touched, missed} \subseteq SUBSET HashXs
    /\ bp \in {"idle", "advanced", "backup"}
    /\ mp \in {"sleep", "hashes", "height", "fetch", "lookup", "accept", "report"}
    /\ {cached, height, highest, notified} \subseteq Nat
    /\ \A f \in {touchedMp, touchedBp} :
          /\ DOMAIN f \subseteq {Len(b) : b \in Blocks}
          /\ Range(f) \subseteq SUBSET HashXs
    /\ \A m, n \in DOMAIN touchedMp : m = n
    /\ DOMAIN told = HashXs

(* The mempool never holds two txs that spend the same output, whatever becomes
   of the daemon's mempool and chain between the four answers of a refresh
   (_process_mempool drops what has disappeared before it accepts). *)
NoDoubleSpend == NoConflict(txs)

(* When everything has come to rest, a subscriber knows the status of its
   address, unless its last report is one that Notifications drops (the
   mempool's for a lower height, _maybe_notify), replaces (a reorg came before
   it went out and the next batch ends at the same height, on_block), or sent
   while the DB did not hold the block it was about (_advance_blocks reports a
   batch that it does not flush).  Nothing else is lost: not what a reorg
   undoes, not what two batches report before one refresh, not what a refresh
   that ends in DBSyncError had gathered. *)
ToldUnlessMissed ==
    Quiet => \A x \in HashXs \ missed : told[x] = StatusNow[x]

(* Once the daemon is quiet, its chain and mempool are the server's, and no
   report waits any more. *)
Settles ==
    <>[](/\ tip = best /\ dbTip = best /\ txs = pool
         /\ DOMAIN touchedMp = {} /\ DOMAIN touchedBp = {})

(* docs/protocol-methods.rst:471: "The client will receive a notification when
   the status of the script hash changes."  It does not when the mempool ends a
   refresh begun before a block after that block is reported. *)
AllTold == Quiet => told = StatusNow
=============================================================================
