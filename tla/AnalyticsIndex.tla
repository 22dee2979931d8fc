--------------------------- MODULE AnalyticsIndex ---------------------------
(***************************************************************************)
(* Balances of addresses and what is summed over them                      *)
(* (server/analytics_index.py): how many addresses hold how much, how old  *)
(* the unspent coins are, what moved each day.  Rows: AB address ->        *)
(* balance, AD its display, AU outpoint -> [birth, value], AS a summary,   *)
(* AY day -> [moved, active, new].                                         *)
(*                                                                         *)
(* backfill() fills the rows of an old DB from its UTXO table while blocks *)
(* are processed: chunk by chunk, with a cursor to resume from.            *)
(***************************************************************************)
EXTENDS RowCache

CONSTANTS
    BalanceBuckets, \* the thresholds, ascending from 0
    AgeBuckets,     \* the same in days
    BlocksPerDay,   \* 144
    ChunkSize       \* BACKFILL_CHUNK_SIZE

BucketOf(buckets, n) == FoldLeft(LAMBDA b, x : IF n >= x THEN x ELSE b, 0, buckets)
_estimate_block_day(h) == h \div BlocksPerDay
AgeOf(h, birth) ==
    BucketOf(AgeBuckets, Max({0, _estimate_block_day(h) - _estimate_block_day(birth)}))
None(buckets) == [x \in Range(buckets) |-> 0]

_get_summary(c, t, name, default) ==
    IF Has(c, t, <<"AS", name>>) THEN The(Row(c, t, <<"AS", name>>)) ELSE default
_get_daily(c, t, day) ==
    IF Has(c, t, <<"AY", day>>) THEN The(Row(c, t, <<"AY", day>>))
    ELSE [moved |-> 0, active |-> 0, new |-> 0]

(* A balance whose row waits to be deleted is read from the DB. *)
_get_balance(c, t, owner) ==
    LET key == <<"AB", owner>>
        cached == IF key \in DOMAIN c.rows THEN c.rows[key] ELSE {}
    IN  IF cached # {} THEN The(cached) ELSE IF key \in DOMAIN t THEN t[key] ELSE 0

_put_balance(c, h, owner, n) == Stage(c, (<<"AB", owner>> :> IF n <= 0 THEN {} ELSE {n}), h)

-----------------------------------------------------------------------------
(* process_block: all spends of the block, then all outputs.  s is the cache with the
   sums so far. *)

(* The count and the amount of the balance's bucket, by n addresses. *)
Counted2(s, balance, n) ==
    LET b == BucketOf(BalanceBuckets, balance)
    IN  IF n < 0 /\ balance <= 0 THEN s
        ELSE [s EXCEPT !.counts[b] = Max({0, @ + n}), !.amounts[b] = Max({0, @ + n * balance})]

Rebalanced(s, t, h, owner, delta) ==
    LET before == _get_balance(s.c, t, owner)
        after == Max({0, before + delta})
        left == Counted2(s, before, -1)
        put == [left EXCEPT !.c = _put_balance(@, h, owner, after)]
    IN  IF after > 0 \/ delta >= 0 THEN Counted2(put, after, 1) ELSE put

(* The spent output, its owner's balance being settled. *)
OutputGone(s, t, h, op) ==
    LET meta == Row(s.c, t, <<"AU", op>>)
        aged == IF meta = {} THEN s
                ELSE [s EXCEPT !.ages[AgeOf(h, The(meta).birth)] = Max({0, @ - The(meta).value})]
    IN  [aged EXCEPT !.c = Stage(@, (<<"AU", op>> :> {}), h), !.daily.moved = @ + Output[op].value]

Spent(s, t, h, op) ==
    OutputGone(Rebalanced(s, t, h, Output[op].owner, -Output[op].value), t, h, op)

(* The new output, likewise; fresh are 1 or no addresses not seen before. *)
OutputKept(s, t, h, o, fresh) ==
    LET shown == <<"AD", o.owner>>
        display == IF Has(s.c, t, shown) THEN s.c ELSE Stage(s.c, (shown :> {o.owner}), h)
    IN  [s EXCEPT !.c = Stage(display, (<<"AU", o.op>> :> {[birth |-> h, value |-> o.value]}), h),
                  !.ages[0] = @ + o.value, !.daily.new = @ + fresh]

Credited(s, t, h, o) ==
    OutputKept(Rebalanced(s, t, h, o.owner, o.value), t, h, o,
               IF _get_balance(s.c, t, o.owner) = 0 THEN 1 ELSE 0)

SpendsOf(txs) == UNION {tx.spends : tx \in Range(txs)}
OutputsOf(txs) == FlattenSeq([i \in DOMAIN txs |-> txs[i].outs])

Summaries(s, h, active) ==
    Stage(s.c, (<<"AY", _estimate_block_day(h)>> :> {[s.daily EXCEPT !.active = @ + active]})
               @@ (<<"AS", "counts">> :> {s.counts}) @@ (<<"AS", "amounts">> :> {s.amounts})
               @@ (<<"AS", "ages">> :> {s.ages}) @@ (<<"AS", "last">> :> {h}), h)

AnalyticsProcessBlock(c, t, txs, h) ==
    LET start == [c |-> c,
                  counts |-> _get_summary(c, t, "counts", None(BalanceBuckets)),
                  amounts |-> _get_summary(c, t, "amounts", None(BalanceBuckets)),
                  ages |-> _get_summary(c, t, "ages", None(AgeBuckets)),
                  daily |-> _get_daily(c, t, _estimate_block_day(h))]
        spent == FoldSet(LAMBDA op, s : Eagerly(s, LAMBDA u : Spent(u, t, h, op)), start, SpendsOf(txs))
        s == FoldLeft(LAMBDA u, o : Eagerly(u, LAMBDA v : Credited(v, t, h, o)), spent, OutputsOf(txs))
    IN  IF SpendsOf(txs) = {} /\ OutputsOf(txs) = << >> THEN c
        ELSE Summaries(s, h, Cardinality({o.owner : o \in Range(OutputsOf(txs))}))
-----------------------------------------------------------------------------
(* Queries *)

(* get_balance_distribution *)
get_balance_distribution(c, t) ==
    [b \in Range(BalanceBuckets) |->
        [count |-> _get_summary(c, t, "counts", None(BalanceBuckets))[b],
         amount |-> _get_summary(c, t, "amounts", None(BalanceBuckets))[b]]]

(* _recompute_balance_distribution *)
Recomputed(t) ==
    [b \in Range(BalanceBuckets) |->
        Cardinality({k \in DOMAIN t : k[1] = "AB" /\ BucketOf(BalanceBuckets, t[k]) = b})]

(* get_top_addresses: one scan serves all pages. *)
get_top_addresses(t, limit, offset) ==
    LET keys == {k \in DOMAIN t : k[1] = "AB"}
        sorted == SortSeq(FoldSet(LAMBDA k, q : Append(q, k), << >>, keys), LAMBDA a, b : t[a] > t[b])
    IN  [total |-> Cardinality(keys), rows |-> SubSeq(sorted, offset + 1, Min({offset + limit, Len(sorted)}))]

(* get_movement: the days up to that of the last processed height *)
get_movement(c, t, days) ==
    LET today == _estimate_block_day(_get_summary(c, t, "last", 0))
    IN  [d \in Max({0, today - days + 1}) .. today |->
            IF <<"AY", d>> \in DOMAIN t THEN t[<<"AY", d>>] ELSE [moved |-> 0, active |-> 0, new |-> 0]]

-----------------------------------------------------------------------------
(* backfill: a task [phase, left, sums, ages, height], the outpoints still to scan
   and what has been summed up.  It reads the UTXO table as it was when the scan
   began and writes past the cache. *)

(* The UTXO table's rows are in the order of their addresses. *)
OutpointOrder ==
    LET InSomeOrder(S) == FoldSet(LAMBDA x, q : Append(q, x), << >>, S)
        owners == InSomeOrder({o.owner : o \in AllOutputs})
    IN  FlattenSeq([n \in DOMAIN owners |->
            InSomeOrder({o.op : o \in {x \in AllOutputs : x.owner = owners[n]}})])
Position(op) == CHOOSE n \in DOMAIN OutpointOrder : OutpointOrder[n] = op

BirthIn(chain, op) ==
    CHOOSE h \in DOMAIN chain : \E tx \in Range(BlockTxs[chain[h]]) : op \in {o.op : o \in Range(tx.outs)}

(* Begun and not ended, never done, or a distribution that knows only young coins. *)
_needs_backfill(t) ==
    LET ages == _get_summary(NoRows, t, "ages", None(AgeBuckets))
    IN  \/ <<"BFP">> \in DOMAIN t
        \/ <<"AS", "last">> \notin DOMAIN t
        \/ ages[0] > 0 /\ \A x \in Range(AgeBuckets) \ {0} : ages[x] = 0

Resumes(t) == <<"BFC">> \in DOMAIN t

(* Rows up to the cursor are skipped. *)
Begun(t, chain, h) ==
    LET unspent == {o.op : o \in UnspentAfter(chain)}
        Left(op) == op \in unspent /\ (Resumes(t) => Position(op) > Position(t[<<"BFC">>]))
    IN  [phase |-> "scan", left |-> SelectSeq(OutpointOrder, Left), sums |-> << >>,
         ages |-> None(AgeBuckets), height |-> h]

(* Mutant: each chunk is summed alone. *)
Summed_alone(task, n, chain) ==
    FoldLeft(LAMBDA v, op :
                LET o == Output[op]
                    sum == IF o.owner \in DOMAIN v.sums THEN v.sums[o.owner] ELSE 0
                IN  [v EXCEPT !.sums = (o.owner :> sum + o.value) @@ @],
             [task EXCEPT !.left = SubSeq(@, n + 1, Len(@)), !.sums = << >>], SubSeq(task.left, 1, n))

(* A chunk's sums; its AU and AD rows. *)
Summed(task, n, chain) ==
    FoldLeft(LAMBDA v, op :
                LET o == Output[op]
                    age == AgeOf(task.height, BirthIn(chain, op))
                    sum == IF o.owner \in DOMAIN v.sums THEN v.sums[o.owner] ELSE 0
                IN  [v EXCEPT !.sums = (o.owner :> sum + o.value) @@ @, !.ages[age] = @ + o.value],
             [task EXCEPT !.left = SubSeq(@, n + 1, Len(@))], SubSeq(task.left, 1, n))

ChunkRows(task, n, chain) ==
    LET ops == Range(SubSeq(task.left, 1, n))
    IN  [k \in {<<"AU", op>> : op \in ops} |->
            [birth |-> BirthIn(chain, k[2]), value |-> Output[k[2]].value]]
        @@ [k \in {<<"AD", Output[op].owner>> : op \in ops} |-> k[2]]

(* The last writes: balances and sums from the scan, the marks gone. *)
FinalRows(task) ==
    LET In(b) == {o \in DOMAIN task.sums : BucketOf(BalanceBuckets, task.sums[o]) = b}
        amount(b) == FoldSet(LAMBDA o, n : n + task.sums[o], 0, In(b))
    IN  [k \in {<<"AB", o>> : o \in DOMAIN task.sums} |-> task.sums[k[2]]]
        @@ (<<"AS", "counts">> :> [b \in Range(BalanceBuckets) |-> Cardinality(In(b))])
        @@ (<<"AS", "amounts">> :> [b \in Range(BalanceBuckets) |-> amount(b)])
        @@ (<<"AS", "ages">> :> task.ages) @@ (<<"AS", "last">> :> task.height)

(* One chunk between two awaits: [task, table]. *)
BackfillChunk(task, t, chain) ==
    IF Len(task.left) >= ChunkSize
    THEN [task |-> Summed(task, ChunkSize, chain),
          table |-> Written(t, ChunkRows(task, ChunkSize, chain)
                               @@ (<<"BFC">> :> task.left[ChunkSize]), {})]
    ELSE LET n == Len(task.left)
             done == Summed(task, n, chain)
         IN  [task |-> [phase |-> "done"],
              table |-> Written(t, ChunkRows(task, n, chain) @@ FinalRows(done), {<<"BFC">>, <<"BFP">>})]
=============================================================================
