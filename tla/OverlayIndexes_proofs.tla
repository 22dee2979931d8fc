----------------------- MODULE OverlayIndexes_proofs -----------------------
(***************************************************************************)
(* Proofs about the overlay indexes along the chain.                       *)
(*                                                                         *)
(* First what the shared undo discipline guarantees for every table: if    *)
(* all the keys of a flush are recorded under one height, backing up that  *)
(* height restores the table.                                              *)
(*                                                                         *)
(* Then the order book.  Its invariant BookInv holds a table for each      *)
(* height that a backup may still reach: each agrees in itself and with    *)
(* the chain up to that height, and from each the undo record of its       *)
(* height leads to the one below.  From it follow TablesAgree and          *)
(* BookFollowsChain, for every chain of blocks.                            *)
(***************************************************************************)
EXTENDS OverlayIndexes, NaturalSets, SequenceTheorems

(* Reading a key of a function gives its value, of another key nothing. *)
LEMMA GetIsExact ==
    ASSUME NEW K, NEW V, NEW table \in [K -> V], NEW k
    PROVE  /\ k \in K => Get(table, k) = {table[k]}
           /\ k \notin K => Get(table, k) = {}
BY DEF Get

(* The record of a height holds the values before the batch (_record_undo). *)
LEMMA RecordHoldsOldValues ==
    ASSUME NEW undo, NEW table, NEW keysAt, NEW h \in DOMAIN keysAt
    PROVE  /\ h \in DOMAIN Recorded(undo, table, keysAt)
           /\ Recorded(undo, table, keysAt)[h] = [k \in keysAt[h] |-> Get(table, k)]
BY DEF Recorded

(* backup(h) right after the flush that wrote only keys recorded under h leaves
   the table as it was before the flush, rows deleted by the flush included. *)
THEOREM BackupUndoesFlush ==
    ASSUME NEW K, NEW V, NEW table \in [K -> V],
           NEW puts, NEW dels, NEW undo, NEW keysAt,
           NEW h \in DOMAIN keysAt,
           DOMAIN puts \cup dels \subseteq keysAt[h]
    PROVE  Reverted(Written(table, puts, dels), Recorded(undo, table, keysAt), h) = table
<1> DEFINE log == Recorded(undo, table, keysAt)
           new == Written(table, puts, dels)
           gone == {k \in DOMAIN log[h] : log[h][k] = {}}
           back == DOMAIN log[h] \ gone
           old == [k \in back |-> CHOOSE v \in log[h][k] : TRUE]
<1>1. /\ h \in DOMAIN log
      /\ log[h] = [k \in keysAt[h] |-> Get(table, k)]
  BY RecordHoldsOldValues
<1>2. gone = keysAt[h] \ K /\ back = keysAt[h] \cap K
  <2>1. DOMAIN log[h] = keysAt[h]
    BY <1>1
  <2>2. ASSUME NEW k \in keysAt[h]
        PROVE  log[h][k] = {} <=> k \notin K
    <3>1. log[h][k] = Get(table, k)
      BY <1>1
    <3>2. CASE k \in K
      BY <3>1, <3>2, GetIsExact
    <3>3. CASE k \notin K
      BY <3>1, <3>3, GetIsExact
    <3> QED BY <3>2, <3>3
  <2> HIDE DEF log
  <2> QED BY <2>1, <2>2
<1>3. \A k \in back : old[k] = table[k]
  <2> SUFFICES ASSUME NEW k \in back
               PROVE  old[k] = table[k]
    OBVIOUS
  <2>1. k \in keysAt[h] /\ k \in K
    BY <1>2
  <2>2. log[h][k] = {table[k]}
    BY <1>1, <2>1, GetIsExact
  <2>3. old[k] = CHOOSE v \in log[h][k] : TRUE
    OBVIOUS
  <2> QED BY <2>2, <2>3
<1>4. Reverted(new, log, h) = Written(new, old, gone)
  BY <1>1 DEF Reverted
<1>5. /\ DOMAIN new = (K \ dels) \cup DOMAIN puts
      /\ \A k \in DOMAIN new \ DOMAIN puts : new[k] = table[k]
  BY DEF Written
<1>6. DOMAIN old = back
  OBVIOUS
<1> HIDE DEF log, new, gone, back, old
<1>7. (DOMAIN new \ gone) \cup back = K
  BY <1>2, <1>5
<1>8. Written(new, old, gone) = [k \in K |-> IF k \in back THEN old[k] ELSE new[k]]
  BY <1>6, <1>7 DEF Written
<1>9. ASSUME NEW k \in K
      PROVE  (IF k \in back THEN old[k] ELSE new[k]) = table[k]
  <2>1. CASE k \in back
    BY <2>1, <1>3
  <2>2. CASE k \notin back
    <3>1. k \notin keysAt[h]
      BY <2>2, <1>2
    <3>2. k \in DOMAIN new \ DOMAIN puts
      BY <3>1, <1>5
    <3> QED BY <2>2, <3>2, <1>5
  <2> QED BY <2>1, <2>2
<1>10. Written(new, old, gone) = [k \in K |-> table[k]]
  BY <1>8, <1>9
<1> QED BY <1>4, <1>10 DEF log, new

-----------------------------------------------------------------------------
(* The tables *)

Alike(T, U) == \A k : Get(T, k) = Get(U, k)

\* A batch, key by key.
LEMMA GetWritten ==
    ASSUME NEW T, NEW puts, NEW dels, NEW k
    PROVE  Get(Written(T, puts, dels), k) = IF k \in DOMAIN puts THEN {puts[k]}
                                            ELSE IF k \in dels THEN {} ELSE Get(T, k)
BY DEF Get, Written

\* A record holds of each key the value it had, or that it had none.
Fits(record) == \A q \in DOMAIN record : record[q] = {} \/ \E v : record[q] = {v}

\* A backup, key by key.
LEMMA GetReverted ==
    ASSUME NEW T, NEW undo, NEW h, NEW k, h \in DOMAIN undo => Fits(undo[h])
    PROVE  Get(Reverted(T, undo, h), k) =
             IF h \in DOMAIN undo /\ k \in DOMAIN undo[h] THEN undo[h][k] ELSE Get(T, k)
<1>1. CASE h \notin DOMAIN undo
  BY <1>1 DEF Reverted
<1>2. CASE h \in DOMAIN undo
  <2> DEFINE gone == {q \in DOMAIN undo[h] : undo[h][q] = {}}
             back == DOMAIN undo[h] \ gone
             old == [q \in back |-> CHOOSE v \in undo[h][q] : TRUE]
  <2>1. Reverted(T, undo, h) = Written(T, old, gone)
    BY <1>2 DEF Reverted
  <2>2. DOMAIN old = back /\ \A q \in back : {old[q]} = undo[h][q]
    <3>1. ASSUME NEW q \in back PROVE {old[q]} = undo[h][q]
      <4>1. PICK v : undo[h][q] = {v}
        BY <1>2 DEF Fits
      <4> QED
        BY <4>1
    <3> QED
      BY <3>1
  <2>3. \A q : q \in DOMAIN undo[h] <=> q \in back \/ q \in gone
    OBVIOUS
  <2>4. \A q \in gone : undo[h][q] = {} /\ q \notin back
    OBVIOUS
  <2> HIDE DEF old, gone, back
  <2>5. Get(Written(T, old, gone), k) = IF k \in DOMAIN old THEN {old[k]}
                                        ELSE IF k \in gone THEN {} ELSE Get(T, k)
    BY GetWritten
  <2> QED
    BY <1>2, <2>1, <2>2, <2>3, <2>4, <2>5
<1> QED
  BY <1>1, <1>2

\* The keys of an order.
LEMMA OrderKeys ==
    /\ \A id : OrderKey(id)[1] = "order" /\ OrderKey(id)[2] = id /\ Last(OrderKey(id)) = id
    /\ \A id, o : \A k \in PairKeys(id, o) \cup MakerKeys(id, o) :
         k[1] # "order" /\ Last(k) = id
<1>1. \A id : OrderKey(id)[1] = "order" /\ OrderKey(id)[2] = id /\ Last(OrderKey(id)) = id
  BY DEF OrderKey, Last
<1>2. ASSUME NEW id, NEW o, NEW k \in PairKeys(id, o) PROVE k[1] # "order" /\ Last(k) = id
  <2>1. PICK p : k = <<"pair", p, o.price, id>>
    BY DEF PairKeys
  <2> QED
    BY <2>1 DEF Last
<1>3. ASSUME NEW id, NEW o, NEW k \in MakerKeys(id, o) PROVE k[1] # "order" /\ Last(k) = id
  <2>1. PICK m : k = <<"maker", m, id>>
    BY DEF MakerKeys
  <2> QED
    BY <2>1 DEF Last
<1> QED
  BY <1>1, <1>2, <1>3

\* Those of an order that is in the cache, in all and but for its own row.
Keyed(id) == PairKeys(id, orderCache[id]) \cup MakerKeys(id, orderCache[id])
KeysOf(ids) == {OrderKey(id) : id \in ids} \cup IndexKeys(ids)

LEMMA IndexKeysAre ==
    /\ \A ids, k : k \in IndexKeys(ids) <=> \E id \in ids : k \in Keyed(id)
    /\ \A id : \A k \in Keyed(id) : k[1] # "order" /\ Last(k) = id
<1>1. \A ids, k : k \in IndexKeys(ids) <=> \E id \in ids : k \in Keyed(id)
  BY DEF IndexKeys, Keyed
<1> QED
  BY <1>1, OrderKeys DEF Keyed

\* The orders that are open
Open(S) == {o \in S : o.status = "open"}

\* A table whose rows agree
Sound(T) ==
  /\ \A k : Get(T, k) # {} /\ k[1] = "order" => k = OrderKey(k[2])
  /\ \A k : Get(T, k) # {} /\ k[1] # "order" => Get(T, OrderKey(Last(k))) # {}
  /\ \A id : \A o \in Get(T, OrderKey(id)) :
       /\ "status" \in DOMAIN o
       /\ \A k \in PairKeys(id, o) \cup MakerKeys(id, o) : Get(T, k) # {} <=> o.status = "open"

\* What a flush of some orders of the cache would write
FlushOf(ids) ==
  LET open == {id \in ids : orderCache[id].status = "open"}
      rows == [k \in {OrderKey(id) : id \in ids} |-> orderCache[k[2]]]
  IN  Written(Written(swTable, rows, {}), [k \in IndexKeys(open) |-> ""], IndexKeys(ids \ open))

\* It, key by key.
LEMMA FlushOfRows ==
    ASSUME NEW ids
    PROVE  /\ \A id \in ids : Get(FlushOf(ids), OrderKey(id)) = {orderCache[id]}
           /\ \A id \in ids : \A k \in Keyed(id) :
                Get(FlushOf(ids), k) = IF orderCache[id].status = "open" THEN {""} ELSE {}
           /\ \A k : k \notin KeysOf(ids) => Get(FlushOf(ids), k) = Get(swTable, k)
<1> DEFINE open == {id \in ids : orderCache[id].status = "open"}
           K == {OrderKey(id) : id \in ids}
           rows == [k \in K |-> orderCache[k[2]]]
           listed == [k \in IndexKeys(open) |-> ""]
           dels == IndexKeys(ids \ open)
<1>1. FlushOf(ids) = Written(Written(swTable, rows, {}), listed, dels)
  BY DEF FlushOf
<1>2. /\ DOMAIN rows = K /\ \A id \in ids : rows[OrderKey(id)] = orderCache[id]
      /\ DOMAIN listed = IndexKeys(open) /\ \A k \in IndexKeys(open) : listed[k] = ""
  BY OrderKeys
<1>3. \A k : Get(FlushOf(ids), k) = IF k \in DOMAIN listed THEN {listed[k]}
                                    ELSE IF k \in dels THEN {}
                                    ELSE IF k \in DOMAIN rows THEN {rows[k]} ELSE Get(swTable, k)
  <2> HIDE DEF rows, listed, dels
  <2> QED
    BY <1>1, GetWritten
<1>4. \A k : k \in IndexKeys(open) \/ k \in dels <=> k \in IndexKeys(ids)
  BY IndexKeysAre
<1>5. \A id \in ids : \A k \in Keyed(id) :
        (k \in IndexKeys(open) <=> id \in open) /\ (k \in IndexKeys(ids))
  BY IndexKeysAre
<1>6. \A id : OrderKey(id) \notin IndexKeys(ids)
  BY IndexKeysAre, OrderKeys
<1>7. \A k : k \in KeysOf(ids) <=> k \in K \/ k \in IndexKeys(ids)
  BY DEF KeysOf
<1>8. \A id \in ids : OrderKey(id) \in K
  OBVIOUS
<1>9. \A id \in ids : id \in open <=> orderCache[id].status = "open"
  OBVIOUS
<1> HIDE DEF open, K, rows, listed, dels
<1>10. \A id \in ids : Get(FlushOf(ids), OrderKey(id)) = {orderCache[id]}
  BY <1>2, <1>3, <1>4, <1>6, <1>8
<1>11. ASSUME NEW id \in ids, NEW k \in Keyed(id)
       PROVE  Get(FlushOf(ids), k) = IF orderCache[id].status = "open" THEN {""} ELSE {}
  BY <1>2, <1>3, <1>4, <1>5, <1>9
<1>12. \A k : k \notin KeysOf(ids) => Get(FlushOf(ids), k) = Get(swTable, k)
  BY <1>2, <1>3, <1>4, <1>7
<1> QED
  BY <1>10, <1>11, <1>12

\* The keys of an order, without knowing which, have it last.
LEMMA KeyOfOrder ==
    ASSUME NEW ids, NEW k
    PROVE  k \in KeysOf(ids) => Last(k) \in ids /\ (k = OrderKey(Last(k)) \/ k \in Keyed(Last(k)))
BY OrderKeys, IndexKeysAre DEF KeysOf

\* A flush leaves rows that agree.
LEMMA FlushOfSound ==
    ASSUME Sound(swTable), NEW ids, \A id \in ids : "status" \in DOMAIN orderCache[id]
    PROVE  Sound(FlushOf(ids))
<1>1. /\ \A id \in ids : Get(FlushOf(ids), OrderKey(id)) = {orderCache[id]}
      /\ \A id \in ids : \A k \in Keyed(id) :
           Get(FlushOf(ids), k) = IF orderCache[id].status = "open" THEN {""} ELSE {}
      /\ \A k : k \notin KeysOf(ids) => Get(FlushOf(ids), k) = Get(swTable, k)
  BY FlushOfRows
<1>2. ASSUME NEW k, Get(FlushOf(ids), k) # {}, k[1] = "order" PROVE k = OrderKey(k[2])
  <2>1. CASE k \in KeysOf(ids)
    <3>1. k = OrderKey(Last(k)) \/ k \in Keyed(Last(k))
      BY <2>1, KeyOfOrder
    <3>2. k = OrderKey(Last(k))
      BY <1>2, <3>1, IndexKeysAre
    <3>3. OrderKey(Last(k))[2] = Last(k)
      BY OrderKeys
    <3> QED
      BY <3>2, <3>3
  <2>2. CASE k \notin KeysOf(ids)
    BY <1>1, <1>2, <2>2 DEF Sound
  <2> QED
    BY <2>1, <2>2
<1>3. ASSUME NEW k, Get(FlushOf(ids), k) # {}, k[1] # "order"
      PROVE  Get(FlushOf(ids), OrderKey(Last(k))) # {}
  <2>1. CASE Last(k) \in ids
    BY <1>1, <2>1
  <2>2. CASE Last(k) \notin ids
    <3>1. k \notin KeysOf(ids) /\ OrderKey(Last(k)) \notin KeysOf(ids)
      BY <2>2, KeyOfOrder, OrderKeys
    <3> QED
      BY <1>1, <1>3, <3>1 DEF Sound
  <2> QED
    BY <2>1, <2>2
<1>4. ASSUME NEW id, NEW o \in Get(FlushOf(ids), OrderKey(id))
      PROVE  /\ "status" \in DOMAIN o
             /\ \A k \in PairKeys(id, o) \cup MakerKeys(id, o) :
                  Get(FlushOf(ids), k) # {} <=> o.status = "open"
  <2>1. CASE id \in ids
    <3>1. o = orderCache[id]
      BY <1>1, <1>4, <2>1
    <3> QED
      BY <1>1, <2>1, <3>1 DEF Keyed
  <2>2. CASE id \notin ids
    <3>1. /\ OrderKey(id) \notin KeysOf(ids)
          /\ \A k \in PairKeys(id, o) \cup MakerKeys(id, o) : k \notin KeysOf(ids)
      BY <2>2, KeyOfOrder, OrderKeys
    <3>2. o \in Get(swTable, OrderKey(id))
      BY <1>1, <1>4, <3>1
    <3> QED
      BY <1>1, <3>1, <3>2 DEF Sound
  <2> QED
    BY <2>1, <2>2
<1> QED
  BY <1>2, <1>3, <1>4 DEF Sound

\* Tables that read alike agree alike.
LEMMA AlikeSound ==
    ASSUME NEW T, NEW U, Alike(T, U), Sound(T)
    PROVE  Sound(U)
BY DEF Alike, Sound

-----------------------------------------------------------------------------
(* The book of a chain *)

After(c, a) == Later(c, a) \/ (c[1] = a[1] /\ c[2] = a[2] /\ c[3] > a[3])

\* The advertisements of an order in the txs of X, and the order that they leave: none, or the
\* last, which no later tx spends.
AdsOf(b, X, id) == {a \in AdsIn(b) : <<a[1], a[2]>> \in X /\ AdAt(b, a).id = id}
Stands(b, X, id, a) ==
  /\ \A d \in AdsOf(b, X, id) : ~After(d, a)
  /\ \A x \in X : Later(x, a) => id \notin TxAt(b, x).spends
Left(b, X, id) == {OrderOf(AdAt(b, a)) : a \in {c \in AdsOf(b, X, id) : Stands(b, X, id, c)}}

\* the chain up to a height, the txs up to a height
Pre(b, k) == SubSeq(b, 1, k)
Through(b, k) == {x \in TxsAt(b) : x[1] <= k}
BookFor(b, id) == Left(b, TxsAt(b), id)

\* The txs and advertisements of a chain.
LEMMA TxsAre ==
    ASSUME NEW b, NEW x
    PROVE  x \in TxsAt(b) <=> /\ x = <<x[1], x[2]>> /\ x[1] \in DOMAIN b
                              /\ x[2] \in DOMAIN BlockTxs[b[x[1]]]
BY DEF TxsAt

LEMMA AdsAre ==
    ASSUME NEW b, NEW a
    PROVE  a \in AdsIn(b) <=> /\ a = <<a[1], a[2], a[3]>> /\ <<a[1], a[2]>> \in TxsAt(b)
                              /\ a[3] \in DOMAIN TxAt(b, a).ads
                              /\ Admitted(AdAt(b, a), RefsAfter(SubSeq(b, 1, a[1] - 1)))
<1> DEFINE Counts(x, j) == Admitted(TxAt(b, x).ads[j], RefsAfter(SubSeq(b, 1, x[1] - 1)))
<1>1. a \in AdsIn(b) <=> \E x \in TxsAt(b) : \E j \in DOMAIN TxAt(b, x).ads :
                            Counts(x, j) /\ a = <<x[1], x[2], j>>
  BY DEF AdsIn
<1>2. ASSUME NEW x, NEW j, a = <<x[1], x[2], j>>
      PROVE  /\ TxAt(b, a) = TxAt(b, x) /\ AdAt(b, a) = TxAt(b, x).ads[j]
             /\ a[1] = x[1] /\ a[2] = x[2] /\ a[3] = j
  BY <1>2 DEF TxAt, AdAt
<1>3. ASSUME a \in AdsIn(b)
      PROVE  /\ a = <<a[1], a[2], a[3]>> /\ <<a[1], a[2]>> \in TxsAt(b)
             /\ a[3] \in DOMAIN TxAt(b, a).ads
             /\ Admitted(AdAt(b, a), RefsAfter(SubSeq(b, 1, a[1] - 1)))
  <2>1. PICK x \in TxsAt(b) : \E j \in DOMAIN TxAt(b, x).ads : Counts(x, j) /\ a = <<x[1], x[2], j>>
    BY <1>1, <1>3
  <2>2. x = <<x[1], x[2]>>
    BY <2>1, TxsAre
  <2> QED
    BY <1>2, <2>1, <2>2
<1>4. ASSUME a = <<a[1], a[2], a[3]>>, <<a[1], a[2]>> \in TxsAt(b),
             a[3] \in DOMAIN TxAt(b, a).ads,
             Admitted(AdAt(b, a), RefsAfter(SubSeq(b, 1, a[1] - 1)))
      PROVE  a \in AdsIn(b)
  <2>1. PICK x \in TxsAt(b) : x = <<a[1], a[2]>>
    BY <1>4
  <2>2. x[1] = a[1] /\ x[2] = a[2] /\ a = <<x[1], x[2], a[3]>>
    BY <1>4, <2>1
  <2>3. a[3] \in DOMAIN TxAt(b, x).ads /\ Counts(x, a[3])
    BY <1>2, <1>4, <2>2
  <2> HIDE DEF Counts
  <2> QED
    BY <1>1, <2>2, <2>3
<1> QED
  BY <1>3, <1>4

\* BookOf, order by order.
LEMMA BookIs ==
    ASSUME NEW b, NEW y
    PROVE  y \in BookOf(b) <=> y = <<y[1], y[2]>> /\ y[2] \in BookFor(b, y[1])
<1> DEFINE Replaced(a) == \E c \in AdsIn(b) : AdAt(b, c).id = AdAt(b, a).id /\ After(c, a)
           Spent(a) == \E x \in TxsAt(b) : Later(x, a) /\ AdAt(b, a).id \in TxAt(b, x).spends
<1>1. y \in BookOf(b) <=> \E a \in AdsIn(b) : /\ ~Replaced(a) /\ ~Spent(a)
                                              /\ y = <<AdAt(b, a).id, OrderOf(AdAt(b, a))>>
  BY DEF BookOf, After
<1>2. \A a : \A id : a \in AdsOf(b, TxsAt(b), id) <=> a \in AdsIn(b) /\ AdAt(b, a).id = id
  BY AdsAre DEF AdsOf
<1>3. ASSUME NEW id, NEW a \in AdsIn(b), AdAt(b, a).id = id
      PROVE  Stands(b, TxsAt(b), id, a) <=> ~Replaced(a) /\ ~Spent(a)
  BY <1>2, <1>3 DEF Stands
<1> HIDE DEF Replaced, Spent
<1>4. \A id, o : o \in BookFor(b, id) <=> \E a \in AdsIn(b) : /\ ~Replaced(a) /\ ~Spent(a)
                                              /\ AdAt(b, a).id = id /\ o = OrderOf(AdAt(b, a))
  BY <1>2, <1>3 DEF BookFor, Left
<1> QED
  BY <1>1, <1>4

\* The parts of a prefix.
LEMMA PrefixIs ==
    ASSUME NEW S, NEW b \in Seq(S), NEW k \in 0 .. Len(b)
    PROVE  /\ Pre(b, k) \in Seq(S) /\ Len(Pre(b, k)) = k /\ DOMAIN Pre(b, k) = 1 .. k
           /\ \A i \in 1 .. k : Pre(b, k)[i] = b[i]
           /\ \A j \in 0 .. k : Pre(Pre(b, k), j) = Pre(b, j)
           /\ Pre(b, Len(b)) = b
           /\ Len(b) # 0 => Front(b) = Pre(b, Len(b) - 1)
<1>1. Len(b) \in Nat /\ DOMAIN b = 1 .. Len(b) /\ \A i \in 1 .. k : i \in 1 .. Len(b)
  BY LenProperties
<1>2. ASSUME NEW c \in Seq(S), NEW j \in 0 .. Len(c)
      PROVE  Pre(c, j) \in Seq(S) /\ Len(Pre(c, j)) = j /\ \A i \in 1 .. j : Pre(c, j)[i] = c[i]
  <2>1. Len(c) \in Nat
    BY LenProperties
  <2> QED
    BY <2>1, SubSeqProperties DEF Pre
<1>3. /\ Pre(b, k) \in Seq(S) /\ Len(Pre(b, k)) = k
      /\ \A i \in 1 .. k : Pre(b, k)[i] = b[i]
  BY <1>2
<1>4. DOMAIN Pre(b, k) = 1 .. k
  BY <1>3, LenProperties
<1>5. ASSUME NEW j \in 0 .. k PROVE Pre(Pre(b, k), j) = Pre(b, j)
  <2>1. /\ Pre(Pre(b, k), j) \in Seq(S) /\ Len(Pre(Pre(b, k), j)) = j
        /\ \A i \in 1 .. j : Pre(Pre(b, k), j)[i] = Pre(b, k)[i]
    BY <1>2, <1>3
  <2>2. /\ Pre(b, j) \in Seq(S) /\ Len(Pre(b, j)) = j
        /\ \A i \in 1 .. j : Pre(b, j)[i] = b[i]
    BY <1>1, <1>2
  <2>3. \A i \in 1 .. j : Pre(Pre(b, k), j)[i] = Pre(b, j)[i]
    BY <1>1, <1>3, <2>1, <2>2
  <2> QED
    BY <2>1, <2>2, <2>3, SeqEqual
<1>6. Pre(b, Len(b)) = b
  BY SubSeqFull DEF Pre
<1>7. Len(b) # 0 => Front(b) = Pre(b, Len(b) - 1)
  BY DEF Front, Pre
<1> QED
  BY <1>3, <1>4, <1>5, <1>6, <1>7

Chains == Seq(DOMAIN BlockTxs)

\* The book of a prefix is what its txs leave.
LEMMA BookOfPrefix ==
    ASSUME NEW b \in Chains, NEW k \in 0 .. Len(b), NEW id
    PROVE  BookFor(Pre(b, k), id) = Left(b, Through(b, k), id)
<1> DEFINE c == Pre(b, k)
<1>1. /\ DOMAIN c = 1 .. k /\ \A i \in 1 .. k : c[i] = b[i] /\ c \in Chains
      /\ DOMAIN b = 1 .. Len(b) /\ Len(b) \in Nat
      /\ \A j \in 0 .. k : Pre(c, j) = Pre(b, j)
  BY PrefixIs, LenProperties DEF Chains
<1> HIDE DEF c
<1>2. \A x : x \in TxsAt(c) <=> x \in Through(b, k)
  <2>1. ASSUME NEW x PROVE x \in TxsAt(c) <=> x \in Through(b, k)
    <3>1. x[1] \in DOMAIN c <=> x[1] \in DOMAIN b /\ x[1] <= k
      BY <1>1
    <3>2. x[1] \in DOMAIN c => c[x[1]] = b[x[1]]
      BY <1>1
    <3> QED
      BY <3>1, <3>2, TxsAre DEF Through
  <2> QED
    BY <2>1
<1>3. \A x : x[1] \in 1 .. k => TxAt(c, x) = TxAt(b, x) /\ AdAt(c, x) = AdAt(b, x)
  BY <1>1 DEF TxAt, AdAt
<1>4. \A x \in TxsAt(c) : x[1] \in 1 .. k
  BY <1>1, TxsAre
<1>5. \A a : a \in AdsIn(c) <=> a \in AdsIn(b) /\ <<a[1], a[2]>> \in Through(b, k)
  <2>1. ASSUME NEW a, <<a[1], a[2]>> \in TxsAt(c)
        PROVE  a \in AdsIn(c) <=> a \in AdsIn(b) /\ <<a[1], a[2]>> \in Through(b, k)
    <3>1. a[1] \in 1 .. k
      BY <1>1, <2>1, TxsAre
    <3>2. a[1] - 1 \in 0 .. k
      BY <1>1, <3>1
    <3>3. SubSeq(c, 1, a[1] - 1) = SubSeq(b, 1, a[1] - 1)
      BY <1>1, <3>2 DEF Pre
    <3>4. TxAt(c, a) = TxAt(b, a) /\ AdAt(c, a) = AdAt(b, a)
      BY <1>3, <3>1
    <3>5. <<a[1], a[2]>> \in TxsAt(b) /\ <<a[1], a[2]>> \in Through(b, k)
      BY <1>2, <2>1 DEF Through
    <3>6. a \in AdsIn(c) <=> /\ a = <<a[1], a[2], a[3]>> /\ <<a[1], a[2]>> \in TxsAt(c)
                             /\ a[3] \in DOMAIN TxAt(c, a).ads
                             /\ Admitted(AdAt(c, a), RefsAfter(SubSeq(c, 1, a[1] - 1)))
      BY AdsAre
    <3>7. a \in AdsIn(b) <=> /\ a = <<a[1], a[2], a[3]>> /\ <<a[1], a[2]>> \in TxsAt(b)
                             /\ a[3] \in DOMAIN TxAt(b, a).ads
                             /\ Admitted(AdAt(b, a), RefsAfter(SubSeq(b, 1, a[1] - 1)))
      BY AdsAre
    <3> QED
      BY <2>1, <3>3, <3>4, <3>5, <3>6, <3>7
  <2> QED
    BY <1>2, <2>1, AdsAre
<1>6. \A a : <<a[1], a[2]>> \in Through(b, k) => a[1] \in 1 .. k
  BY <1>2, <1>4
<1>7. \A a : a \in AdsOf(c, TxsAt(c), id) <=> a \in AdsOf(b, Through(b, k), id)
  BY <1>2, <1>3, <1>5, <1>6 DEF AdsOf
<1>8. \A a \in AdsOf(c, TxsAt(c), id) : AdAt(c, a) = AdAt(b, a)
  BY <1>3, <1>6, <1>7 DEF AdsOf
<1>9. \A a : Stands(c, TxsAt(c), id, a) <=> Stands(b, Through(b, k), id, a)
  BY <1>2, <1>3, <1>4, <1>7 DEF Stands
<1> QED
  BY <1>7, <1>8, <1>9 DEF BookFor, Left, c

-----------------------------------------------------------------------------
(* What a tx changes in the book *)

\* the txs up to the k-th of the last block, the places of the advertisements of an order that count
LastTxs(b) == BlockTxs[b[Len(b)]]
UpToTx(b, k) == {x \in TxsAt(b) : x[1] < Len(b) \/ x[2] <= k}
NewAds(ads, ri, id) == {j \in DOMAIN ads : ads[j].id = id /\ Admitted(ads[j], ri)}

\* Blocks and txs have sequences.
LEMMA FeedIs ==
    ASSUME NEW name \in DOMAIN BlockTxs
    PROVE  LET txs == BlockTxs[name] IN
           /\ Len(txs) \in Nat /\ DOMAIN txs = 1 .. Len(txs)
           /\ \A i \in DOMAIN txs :
                Len(txs[i].ads) \in Nat /\ DOMAIN txs[i].ads = 1 .. Len(txs[i].ads)
<1> DEFINE txs == BlockTxs[name]
<1>1. txs \in Seq(Range(txs)) /\ \A i \in DOMAIN txs : txs[i].ads \in Seq(Range(txs[i].ads))
  BY FeedAssumption
<1> HIDE DEF txs
<1>2. Len(txs) \in Nat /\ DOMAIN txs = 1 .. Len(txs)
  BY <1>1, LenProperties
<1>3. \A i \in DOMAIN txs : Len(txs[i].ads) \in Nat /\ DOMAIN txs[i].ads = 1 .. Len(txs[i].ads)
  BY <1>1, LenProperties
<1> QED
  BY <1>2, <1>3 DEF txs

\* The last block's txs follow those of the blocks before.
LEMMA LastBlock ==
    ASSUME NEW b \in Chains, Len(b) # 0
    PROVE  /\ Len(b) \in Nat \ {0} /\ Len(b) - 1 \in 0 .. Len(b) /\ b[Len(b)] \in DOMAIN BlockTxs
           /\ Len(LastTxs(b)) \in Nat /\ DOMAIN LastTxs(b) = 1 .. Len(LastTxs(b))
           /\ \A x \in TxsAt(b) : /\ x = <<x[1], x[2]>> /\ x[1] \in 1 .. Len(b) /\ x[2] \in Nat
                                  /\ x[1] = Len(b) => x[2] \in 1 .. Len(LastTxs(b))
           /\ \A i \in 1 .. Len(LastTxs(b)) :
                /\ <<Len(b), i>> \in TxsAt(b)
                /\ TxAt(b, <<Len(b), i>>) = LastTxs(b)[i]
           /\ UpToTx(b, 0) = Through(b, Len(b) - 1) /\ UpToTx(b, Len(LastTxs(b))) = TxsAt(b)
<1>1. /\ Len(b) \in Nat \ {0} /\ DOMAIN b = 1 .. Len(b)
      /\ \A i \in 1 .. Len(b) : b[i] \in DOMAIN BlockTxs
  BY LenProperties, ElementOfSeq DEF Chains
<1>2. Len(LastTxs(b)) \in Nat /\ DOMAIN LastTxs(b) = 1 .. Len(LastTxs(b))
  BY <1>1, FeedIs DEF LastTxs
<1>3. ASSUME NEW x \in TxsAt(b)
      PROVE  /\ x = <<x[1], x[2]>> /\ x[1] \in 1 .. Len(b) /\ x[2] \in Nat \ {0}
             /\ x[1] = Len(b) => x[2] \in 1 .. Len(LastTxs(b))
  <2>1. x = <<x[1], x[2]>> /\ x[1] \in DOMAIN b /\ x[2] \in DOMAIN BlockTxs[b[x[1]]]
    BY TxsAre
  <2>2. DOMAIN BlockTxs[b[x[1]]] = 1 .. Len(BlockTxs[b[x[1]]]) /\ Len(BlockTxs[b[x[1]]]) \in Nat
    BY <1>1, <2>1, FeedIs
  <2> QED
    BY <1>1, <2>1, <2>2 DEF LastTxs
<1>4. ASSUME NEW i \in 1 .. Len(LastTxs(b))
      PROVE  <<Len(b), i>> \in TxsAt(b) /\ TxAt(b, <<Len(b), i>>) = LastTxs(b)[i]
  BY <1>1, <1>2, TxsAre DEF LastTxs, TxAt
<1>5. UpToTx(b, 0) = Through(b, Len(b) - 1)
  <2>1. ASSUME NEW x \in TxsAt(b)
        PROVE  (x[1] < Len(b) \/ x[2] <= 0) <=> x[1] <= Len(b) - 1
    BY <1>1, <1>3
  <2> QED
    BY <2>1 DEF UpToTx, Through
<1>6. UpToTx(b, Len(LastTxs(b))) = TxsAt(b)
  <2>1. ASSUME NEW x \in TxsAt(b)
        PROVE  x[1] < Len(b) \/ x[2] <= Len(LastTxs(b))
    BY <1>1, <1>2, <1>3
  <2> QED
    BY <2>1 DEF UpToTx
<1> QED
  BY <1>1, <1>2, <1>3, <1>4, <1>5, <1>6

\* The last advertisement of a tx stands; without one the order stays unless it is spent.
LEMMA TxBook ==
    ASSUME NEW b \in Chains, Len(b) # 0, NEW i \in 1 .. Len(LastTxs(b)), NEW id
    PROVE  LET tx == LastTxs(b)[i]
               J == NewAds(tx.ads, RefsAfter(Pre(b, Len(b) - 1)), id) IN
           /\ \A m \in J : (\A j \in J : j <= m) =>
                Left(b, UpToTx(b, i), id) = {OrderOf(tx.ads[m])}
           /\ J = {} => Left(b, UpToTx(b, i), id) =
                          IF id \in tx.spends THEN {} ELSE Left(b, UpToTx(b, i - 1), id)
<1> DEFINE h == Len(b)
           tx == LastTxs(b)[i]
           J == NewAds(tx.ads, RefsAfter(Pre(b, h - 1)), id)
           X == UpToTx(b, i - 1)
           Y == UpToTx(b, i)
           x == <<h, i>>
           A == AdsOf(b, X, id)
           B == AdsOf(b, Y, id)
           at(j) == <<h, i, j>>
<1>1. /\ h \in Nat \ {0} /\ b[h] \in DOMAIN BlockTxs /\ Len(LastTxs(b)) \in Nat
      /\ \A y \in TxsAt(b) : y = <<y[1], y[2]>> /\ y[1] \in 1 .. h /\ y[2] \in Nat
      /\ x \in TxsAt(b) /\ TxAt(b, x) = tx
  BY LastBlock
<1>2. i \in Nat /\ i \in DOMAIN BlockTxs[b[h]] /\ tx = BlockTxs[b[h]][i]
  BY <1>1, FeedIs DEF LastTxs
<1>3. DOMAIN tx.ads = 1 .. Len(tx.ads) /\ Len(tx.ads) \in Nat
  BY <1>1, <1>2, FeedIs
<1>4. \A j : TxAt(b, at(j)) = tx /\ AdAt(b, at(j)) = tx.ads[j]
             /\ at(j)[1] = h /\ at(j)[2] = i /\ at(j)[3] = j
  BY <1>1 DEF TxAt, AdAt
<1>5. \A y : y \in Y <=> y \in X \/ y = x
  <2>1. ASSUME NEW y \in TxsAt(b)
        PROVE  (y[1] < h \/ y[2] <= i) <=> (y[1] < h \/ y[2] <= i - 1) \/ y = x
    BY <1>1, <1>2
  <2> QED
    BY <1>1, <2>1 DEF UpToTx
<1>6. \A y : Later(y, x) <=> y[1] > h \/ (y[1] = h /\ y[2] > i)
  BY DEF Later
<1>7. \A y \in X : /\ Later(x, y) /\ ~Later(y, x) /\ y # x
                   /\ ~(y[1] = h /\ y[2] = i) /\ y \in TxsAt(b)
  <2>1. ASSUME NEW y \in X
        PROVE  /\ Later(x, y) /\ ~Later(y, x) /\ y # x
               /\ ~(y[1] = h /\ y[2] = i) /\ y \in TxsAt(b)
    <3>1. y \in TxsAt(b) /\ (y[1] < h \/ y[2] <= i - 1)
      BY DEF UpToTx
    <3>2. y[1] \in 1 .. h /\ y[2] \in Nat
      BY <1>1, <3>1
    <3> QED
      BY <1>1, <1>2, <3>1, <3>2 DEF Later
  <2> QED
    BY <2>1
<1>8. ~Later(x, x) /\ \A y, z : y[1] = z[1] /\ y[2] = z[2] => \A t : Later(t, y) <=> Later(t, z)
  BY <1>1, <1>2 DEF Later
<1>9. \A a : a \in B <=> a \in A \/ \E j \in J : a = at(j)
  <2>1. \A a : a \in B <=> a \in A \/ (a \in AdsIn(b) /\ <<a[1], a[2]>> = x /\ AdAt(b, a).id = id)
    BY <1>5 DEF AdsOf
  <2>2. ASSUME NEW a, a \in AdsIn(b), <<a[1], a[2]>> = x, AdAt(b, a).id = id
        PROVE  \E j \in J : a = at(j)
    <3>1. /\ a = <<a[1], a[2], a[3]>> /\ a[3] \in DOMAIN TxAt(b, a).ads
          /\ Admitted(AdAt(b, a), RefsAfter(SubSeq(b, 1, a[1] - 1)))
      BY <2>2, AdsAre
    <3>2. a[1] = h /\ a[2] = i
      BY <2>2
    <3>3. a = at(a[3])
      BY <3>1, <3>2
    <3> QED
      BY <1>4, <2>2, <3>1, <3>2, <3>3 DEF NewAds, Pre
  <2>3. ASSUME NEW j \in J
        PROVE  at(j) \in AdsIn(b) /\ <<at(j)[1], at(j)[2]>> = x /\ AdAt(b, at(j)).id = id
    <3>1. j \in DOMAIN tx.ads /\ tx.ads[j].id = id /\ Admitted(tx.ads[j], RefsAfter(Pre(b, h - 1)))
      BY DEF NewAds
    <3> QED
      BY <1>1, <1>4, <3>1, AdsAre DEF Pre
  <2> QED
    BY <2>1, <2>2, <2>3
<1>10. \A a \in A : <<a[1], a[2]>> \in X
  BY DEF AdsOf
<1>11. \A a \in A : Later(x, a) /\ \A j : After(at(j), a) /\ ~After(a, at(j))
  <2>1. ASSUME NEW a \in A
        PROVE  Later(x, a) /\ \A j : After(at(j), a) /\ ~After(a, at(j))
    <3> DEFINE y == <<a[1], a[2]>>
    <3>1. Later(x, y) /\ ~Later(y, x) /\ ~(a[1] = h /\ a[2] = i)
      BY <1>7, <1>10
    <3> QED
      BY <1>4, <3>1 DEF After, Later
  <2> QED
    BY <2>1
<1>12. \A j, m \in J : (After(at(j), at(m)) <=> j > m) /\ j \in Nat
  <2>1. \A j \in J : j \in Nat
    BY <1>3 DEF NewAds
  <2>2. \A j, m \in J : ~Later(at(j), at(m))
    BY <1>1, <1>2, <1>4 DEF Later
  <2> QED
    BY <1>4, <2>1, <2>2 DEF After
<1>13. \A j \in J : ~\E y \in Y : Later(y, at(j))
  <2>1. \A y \in Y : ~Later(y, x)
    BY <1>5, <1>7, <1>8
  <2> QED
    BY <1>4, <2>1 DEF Later
<1> HIDE DEF h, tx, J, X, Y, x, A, B, at
<1>14. ASSUME NEW m \in J, \A j \in J : j <= m PROVE Left(b, Y, id) = {OrderOf(tx.ads[m])}
  <2>1. Stands(b, Y, id, at(m))
    <3>1. \A d \in B : ~After(d, at(m))
      BY <1>9, <1>11, <1>12, <1>14
    <3> QED
      BY <1>13, <3>1 DEF Stands, B
  <2>2. ASSUME NEW a \in B, Stands(b, Y, id, a) PROVE a = at(m)
    <3>1. at(m) \in B /\ ~After(at(m), a)
      BY <1>9, <2>2 DEF Stands, B
    <3>2. a \notin A
      BY <1>11, <3>1
    <3>3. PICK j \in J : a = at(j)
      BY <1>9, <3>2
    <3>4. ~(m > j) /\ j <= m /\ j \in Nat /\ m \in Nat
      BY <1>12, <1>14, <3>1, <3>3
    <3> QED
      BY <3>3, <3>4
  <2>3. at(m) \in B /\ AdAt(b, at(m)) = tx.ads[m]
    BY <1>4, <1>9
  <2> QED
    BY <2>1, <2>2, <2>3 DEF Left, B
<1>15. ASSUME J = {}
       PROVE  Left(b, Y, id) = IF id \in tx.spends THEN {} ELSE Left(b, X, id)
  <2>1. \A a : a \in B <=> a \in A
    BY <1>9, <1>15
  <2>2. ASSUME NEW a \in A
        PROVE  Stands(b, Y, id, a) <=> Stands(b, X, id, a) /\ id \notin tx.spends
    <3>1. (\A d \in B : ~After(d, a)) <=> (\A d \in A : ~After(d, a))
      BY <2>1
    <3>2. (\A y \in Y : Later(y, a) => id \notin TxAt(b, y).spends)
            <=> /\ \A y \in X : Later(y, a) => id \notin TxAt(b, y).spends
                /\ id \notin tx.spends
      BY <1>1, <1>5, <1>11
    <3> QED
      BY <3>1, <3>2 DEF Stands, A, B
  <2> QED
    BY <2>1, <2>2 DEF Left, A, B
<1> QED
  BY <1>14, <1>15 DEF h, tx, J, X, Y

-----------------------------------------------------------------------------
(* The loops over txs and advertisements *)

AdStep(h, ri, v, ad) ==
  IF Admitted(ad, ri) THEN Staged(v, [id \in {ad.id} |-> OrderOf(ad)], h) ELSE v
TxStep(h, c, v, tx) == ProcessTx(v, tx, h, RefsAfter(c))
AdLoop == INSTANCE StepFold WITH Step <- AdStep
TxLoop == INSTANCE StepFold WITH Step <- TxStep

AdsAdded(w, ads, h, ri) ==
  FoldLeft(LAMBDA v, ad : IF Admitted(ad, ri)
                          THEN Staged(v, [id \in {ad.id} |-> OrderOf(ad)], h) ELSE v,
           w, ads)
TxsDone(w, txs, h, c) == FoldLeft(LAMBDA v, tx : ProcessTx(v, tx, h, RefsAfter(c)), w, txs)

\* The cache has a height for each order; an order in it stayed, or was put at height h.
WellFormed(w) ==
  /\ DOMAIN w.cache = DOMAIN w.heights
  /\ \A id \in DOMAIN w.cache : "status" \in DOMAIN w.cache[id]
Stayed(v, w, id) ==
  /\ id \in DOMAIN v.cache <=> id \in DOMAIN w.cache
  /\ id \in DOMAIN w.cache => v.cache[id] = w.cache[id] /\ v.heights[id] = w.heights[id]
PutAt(v, id, h) == id \in DOMAIN v.cache /\ v.heights[id] = h

\* Staging orders.
LEMMA StagedIs ==
    ASSUME NEW w, WellFormed(w), NEW orders, NEW h,
           \A id \in DOMAIN orders : "status" \in DOMAIN orders[id]
    PROVE  LET v == Staged(w, orders, h) IN
           /\ WellFormed(v)
           /\ \A id \in DOMAIN orders : PutAt(v, id, h) /\ v.cache[id] = orders[id]
           /\ \A id : id \notin DOMAIN orders => Stayed(v, w, id)
<1> DEFINE v == Staged(w, orders, h)
<1>1. /\ v.cache = [id \in DOMAIN w.cache \cup DOMAIN orders |->
                      IF id \in DOMAIN orders THEN orders[id] ELSE w.cache[id]]
      /\ v.heights = [id \in DOMAIN w.heights \cup DOMAIN orders |->
                        IF id \in DOMAIN orders THEN h ELSE w.heights[id]]
  BY DEF Staged, Written
<1> HIDE DEF v
<1>2. WellFormed(v)
  BY <1>1 DEF WellFormed
<1>3. \A id \in DOMAIN orders : PutAt(v, id, h) /\ v.cache[id] = orders[id]
  BY <1>1 DEF PutAt
<1>4. \A id : id \notin DOMAIN orders => Stayed(v, w, id)
  BY <1>1 DEF Stayed, WellFormed
<1> QED
  BY <1>2, <1>3, <1>4 DEF v

\* The loop over the advertisements of a tx: the last of an order that counts is in the cache.
LEMMA AdsAddedIs ==
    ASSUME NEW w, WellFormed(w), NEW ads, Len(ads) \in Nat, DOMAIN ads = 1 .. Len(ads),
           NEW h, NEW ri
    PROVE  LET v == AdsAdded(w, ads, h, ri) IN
           /\ WellFormed(v)
           /\ \A id : NewAds(ads, ri, id) = {} => Stayed(v, w, id)
           /\ \A id : \A m \in NewAds(ads, ri, id) : (\A j \in NewAds(ads, ri, id) : j <= m) =>
                PutAt(v, id, h) /\ v.cache[id] = OrderOf(ads[m])
<1> DEFINE n == Len(ads)
           J(id) == NewAds(ads, ri, id)
           Good(k, v) ==
             /\ WellFormed(v)
             /\ \A id : (\A j \in J(id) : j > k) => Stayed(v, w, id)
             /\ \A id : \A m \in J(id) : (m <= k /\ \A j \in J(id) : j <= k => j <= m) =>
                  PutAt(v, id, h) /\ v.cache[id] = OrderOf(ads[m])
<1>1. PICK a : /\ a[0] = w
               /\ \A k \in 1 .. n : a[k] = AdStep(h, ri, a[k - 1], ads[k])
               /\ AdsAdded(w, ads, h, ri) = a[n]
  <2>1. PICK a : AdLoop!Loop(h, ri, w, ads, a)
    BY AdLoop!FoldsAre
  <2>2. AdLoop!Fold(h, ri, w, ads) = AdsAdded(w, ads, h, ri)
    BY DEF AdLoop!Fold, AdLoop!FoldLeft, FoldLeft, AdLoop!MapThenFoldSet, MapThenFoldSet,
           AdLoop!Max, Max, AdsAdded, AdStep
  <2> QED
    BY <2>1, <2>2 DEF AdLoop!Loop
<1>2. \A id : \A j \in J(id) : j \in 1 .. n /\ ads[j].id = id /\ Admitted(ads[j], ri)
  BY DEF NewAds
<1>3. \A j \in 1 .. n : Admitted(ads[j], ri) => j \in J(ads[j].id)
  BY DEF NewAds
<1>4. n \in Nat
  OBVIOUS
<1> HIDE DEF J, n
<1>5. \A k \in 0 .. n : Good(k, a[k])
  <2> DEFINE T == {k \in 0 .. n : Good(k, a[k])}
  <2>1. 0 \in T
    <3>1. \A id : \A j \in J(id) : ~(j <= 0)
      BY <1>2
    <3>2. \A id : Stayed(w, w, id)
      BY DEF Stayed
    <3> QED
      BY <1>1, <1>4, <3>1, <3>2
  <2>2. ASSUME NEW k \in 1 .. n, k - 1 \in T PROVE k \in T
    <3> DEFINE u == a[k - 1]
               v == a[k]
               ad == ads[k]
    <3>1. Good(k - 1, u) /\ v = AdStep(h, ri, u, ad) /\ k \in 0 .. n /\ k \in Nat
      BY <1>1, <1>4, <2>2
    <3> HIDE DEF u, v, ad, Good
    <3>2. CASE ~Admitted(ad, ri)
      <4>1. v = u
        BY <3>1, <3>2 DEF AdStep
      <4>2. \A id : \A j \in J(id) : j # k
        BY <1>2, <3>2 DEF ad
      <4>3. \A id : \A j \in J(id) : (j <= k <=> j <= k - 1) /\ (j > k <=> j > k - 1)
        BY <1>2, <3>1, <4>2
      <4>4. Good(k, u)
        BY <3>1, <4>3 DEF Good
      <4> QED
        BY <3>1, <4>1, <4>4 DEF v
    <3>3. CASE Admitted(ad, ri)
      <4> DEFINE orders == [id \in {ad.id} |-> OrderOf(ad)]
      <4>1. v = Staged(u, orders, h)
        BY <3>1, <3>3 DEF AdStep
      <4>2. /\ DOMAIN orders = {ad.id} /\ orders[ad.id] = OrderOf(ad)
            /\ "status" \in DOMAIN OrderOf(ad)
        BY DEF OrderOf
      <4> HIDE DEF orders
      <4>3. /\ WellFormed(v)
            /\ PutAt(v, ad.id, h) /\ v.cache[ad.id] = OrderOf(ad)
            /\ \A id : id # ad.id => Stayed(v, u, id)
        <5>1. WellFormed(u)
          BY <3>1 DEF Good
        <5>2. \A id \in DOMAIN orders : "status" \in DOMAIN orders[id]
          BY <4>2
        <5> QED
          BY <4>1, <4>2, <5>1, <5>2, StagedIs
      <4>4. k \in J(ad.id)
        BY <1>3, <3>3 DEF ad
      <4>5. ASSUME NEW id, \A j \in J(id) : j > k PROVE Stayed(v, w, id)
        <5>1. id # ad.id
          BY <3>1, <4>4, <4>5
        <5>2. \A j \in J(id) : j > k - 1
          BY <1>2, <3>1, <4>5
        <5>3. Stayed(v, u, id) /\ Stayed(u, w, id)
          BY <3>1, <4>3, <5>1, <5>2 DEF Good
        <5> QED
          BY <5>3 DEF Stayed
      <4>6. ASSUME NEW id, NEW m \in J(id), m <= k, \A j \in J(id) : j <= k => j <= m
            PROVE  PutAt(v, id, h) /\ v.cache[id] = OrderOf(ads[m])
        <5>1. CASE id = ad.id
          <6>1. m = k
            <7>1. k \in J(id)
              BY <4>4, <5>1
            <7>2. m \in 1 .. n
              BY <1>2
            <7>3. m \in Nat /\ k \in Nat
              BY <1>4, <3>1, <7>2
            <7>4. k <= m
              BY <4>6, <7>1, <7>3
            <7> QED
              BY <4>6, <7>3, <7>4
          <6> QED
            BY <4>3, <5>1, <6>1 DEF ad
        <5>2. CASE id # ad.id
          <6>1. m # k
            BY <1>2, <4>6, <5>2 DEF ad
          <6>2. m <= k - 1 /\ \A j \in J(id) : j <= k - 1 => j <= m
            BY <1>2, <3>1, <4>6, <6>1
          <6>3. PutAt(u, id, h) /\ u.cache[id] = OrderOf(ads[m])
            BY <3>1, <4>6, <6>2 DEF Good
          <6>4. Stayed(v, u, id)
            BY <4>3, <5>2
          <6> QED
            BY <6>3, <6>4 DEF Stayed, PutAt
        <5> QED
          BY <5>1, <5>2
      <4>7. Good(k, v)
        BY <4>3, <4>5, <4>6 DEF Good
      <4> QED
        BY <3>1, <4>7 DEF v
    <3> QED
      BY <3>2, <3>3
  <2> HIDE DEF T
  <2>3. \A k \in 0 .. n : k \in T
    BY <1>4, <2>1, <2>2, UpTo
  <2> QED
    BY <2>3 DEF T
<1>6. PICK v : v = a[n]
  OBVIOUS
<1>7. Good(n, v)
  BY <1>4, <1>5, <1>6
<1>8. \A id : \A j \in J(id) : j <= n
  BY <1>2, <1>4
<1>9. /\ WellFormed(v)
      /\ \A id : J(id) = {} => Stayed(v, w, id)
      /\ \A id : \A m \in J(id) : (\A j \in J(id) : j <= m) =>
           PutAt(v, id, h) /\ v.cache[id] = OrderOf(ads[m])
  BY <1>7, <1>8
<1> HIDE DEF Good
<1> QED
  BY <1>1, <1>6, <1>9 DEF J, n

\* Reading an order gives at most one.
LEMMA OneOrder ==
    ASSUME NEW w, NEW id
    PROVE  /\ get_order(w, id) = {} \/ \E o : get_order(w, id) = {o}
           /\ \A v : Stayed(v, w, id) => get_order(v, id) = get_order(w, id)
           /\ id \in DOMAIN w.cache => get_order(w, id) = {w.cache[id]}
BY DEF get_order, Get, Stayed

\* _close_order_if_open: an open order that the tx spends is filled, the others stay.
LEMMA ClosedIs ==
    ASSUME Sound(swTable), NEW w, WellFormed(w), NEW spends, NEW h
    PROVE  LET v == Closed(w, spends, h) IN
           /\ WellFormed(v)
           /\ \A id : Stayed(v, w, id) \/ PutAt(v, id, h)
           /\ \A id : Open(get_order(v, id)) =
                        IF id \in spends THEN {} ELSE Open(get_order(w, id))
<1> DEFINE open == {id \in spends : \E o \in get_order(w, id) : o.status = "open"}
           filled(id) == [(CHOOSE o \in get_order(w, id) : TRUE)
                            EXCEPT !.status = "filled", !.closed = h]
           orders == [id \in open |-> filled(id)]
           v == Closed(w, spends, h)
<1>1. v = Staged(w, orders, h)
  BY DEF Closed
<1>2. ASSUME NEW id, NEW o \in get_order(w, id) PROVE "status" \in DOMAIN o
  <2>1. CASE id \in DOMAIN w.cache
    BY <1>2, <2>1 DEF get_order, WellFormed
  <2>2. CASE id \notin DOMAIN w.cache
    BY <1>2, <2>2 DEF get_order, Sound
  <2> QED
    BY <2>1, <2>2
<1>3. ASSUME NEW id \in open PROVE "status" \in DOMAIN filled(id) /\ filled(id).status = "filled"
  <2>1. PICK o : get_order(w, id) = {o}
    BY OneOrder
  <2>2. (CHOOSE p \in get_order(w, id) : TRUE) = o /\ "status" \in DOMAIN o
    BY <1>2, <2>1
  <2>3. filled(id) = [o EXCEPT !.status = "filled", !.closed = h]
    BY <2>2
  <2> HIDE DEF filled
  <2> QED
    BY <2>2, <2>3
<1>4. DOMAIN orders = open /\ \A id \in open : orders[id] = filled(id)
  OBVIOUS
<1>5. \A id : id \in open <=> id \in spends /\ Open(get_order(w, id)) # {}
  BY DEF Open
<1> HIDE DEF open, filled, orders, v
<1>6. /\ WellFormed(v)
      /\ \A id \in open : PutAt(v, id, h) /\ v.cache[id] = orders[id]
      /\ \A id : id \notin open => Stayed(v, w, id)
  <2>1. \A id \in DOMAIN orders : "status" \in DOMAIN orders[id]
    BY <1>3, <1>4
  <2> QED
    BY <1>1, <1>4, <2>1, StagedIs
<1>7. ASSUME NEW id
      PROVE  Open(get_order(v, id)) = IF id \in spends THEN {} ELSE Open(get_order(w, id))
  <2>1. CASE id \in open
    <3>1. get_order(v, id) = {orders[id]} /\ orders[id].status = "filled"
      BY <1>3, <1>4, <1>6, <2>1, OneOrder DEF PutAt
    <3> QED
      BY <1>5, <2>1, <3>1 DEF Open
  <2>2. CASE id \notin open
    <3>1. get_order(v, id) = get_order(w, id)
      BY <1>6, <2>2, OneOrder
    <3> QED
      BY <1>5, <2>2, <3>1
  <2> QED
    BY <2>1, <2>2
<1> QED
  BY <1>6, <1>7 DEF v

\* One tx.
LEMMA TxStepIs ==
    ASSUME Sound(swTable), NEW w, WellFormed(w), NEW tx, Len(tx.ads) \in Nat,
           DOMAIN tx.ads = 1 .. Len(tx.ads), NEW h, NEW ri
    PROVE  LET v == ProcessTx(w, tx, h, ri)
               J(id) == NewAds(tx.ads, ri, id) IN
           /\ WellFormed(v)
           /\ \A id : Stayed(v, w, id) \/ PutAt(v, id, h)
           /\ \A id : \A m \in J(id) : (\A j \in J(id) : j <= m) =>
                Open(get_order(v, id)) = {OrderOf(tx.ads[m])}
           /\ \A id : J(id) = {} =>
                Open(get_order(v, id)) = IF id \in tx.spends THEN {} ELSE Open(get_order(w, id))
<1> DEFINE u == Closed(w, tx.spends, h)
           v == ProcessTx(w, tx, h, ri)
           J(id) == NewAds(tx.ads, ri, id)
<1>1. /\ WellFormed(u)
      /\ \A id : Stayed(u, w, id) \/ PutAt(u, id, h)
      /\ \A id : Open(get_order(u, id)) =
                   IF id \in tx.spends THEN {} ELSE Open(get_order(w, id))
  <2>1. PICK s : s = tx.spends
    OBVIOUS
  <2>2. u = Closed(w, s, h)
    BY <2>1
  <2> HIDE DEF u
  <2>3. WellFormed(u) /\ \A id : Stayed(u, w, id) \/ PutAt(u, id, h)
    BY <2>2, ClosedIs
  <2>4. ASSUME NEW id
        PROVE  Open(get_order(u, id)) = IF id \in s THEN {} ELSE Open(get_order(w, id))
    BY <2>2, ClosedIs
  <2> QED
    BY <2>1, <2>3, <2>4
<1>2. v = AdsAdded(u, tx.ads, h, ri)
  BY DEF ProcessTx, AdsAdded
<1> HIDE DEF u
<1>3. /\ WellFormed(v)
      /\ \A id : J(id) = {} => Stayed(v, u, id)
      /\ \A id : \A m \in J(id) : (\A j \in J(id) : j <= m) =>
           PutAt(v, id, h) /\ v.cache[id] = OrderOf(tx.ads[m])
  BY <1>1, <1>2, AdsAddedIs
<1>4. \A id : \A j \in J(id) : j \in 1 .. Len(tx.ads)
  BY DEF NewAds
<1> HIDE DEF v, J
<1>5. ASSUME NEW id, J(id) # {} PROVE \E m \in J(id) : \A j \in J(id) : j <= m
  <2>1. J(id) \subseteq Nat /\ \A j \in J(id) : j <= Len(tx.ads)
    BY <1>4
  <2>2. Max(J(id)) \in J(id) /\ \A j \in J(id) : j <= Max(J(id))
    BY <1>5, <2>1, MaxFacts
  <2> QED
    BY <2>2
<1>6. ASSUME NEW id PROVE Stayed(v, w, id) \/ PutAt(v, id, h)
  <2>1. CASE J(id) = {}
    BY <1>1, <1>3, <2>1 DEF Stayed, PutAt
  <2>2. CASE J(id) # {}
    BY <1>3, <1>5, <2>2
  <2> QED
    BY <2>1, <2>2
<1>7. ASSUME NEW id, NEW m \in J(id), \A j \in J(id) : j <= m
      PROVE  Open(get_order(v, id)) = {OrderOf(tx.ads[m])}
  <2>1. id \in DOMAIN v.cache /\ v.cache[id] = OrderOf(tx.ads[m])
    BY <1>3, <1>7 DEF PutAt
  <2>2. get_order(v, id) = {OrderOf(tx.ads[m])}
    BY <2>1, OneOrder
  <2> QED
    BY <2>2 DEF Open, OrderOf
<1>8. ASSUME NEW id, J(id) = {}
      PROVE  Open(get_order(v, id)) = IF id \in tx.spends THEN {} ELSE Open(get_order(w, id))
  <2>1. get_order(v, id) = get_order(u, id)
    BY <1>3, <1>8, OneOrder
  <2> QED
    BY <1>1, <2>1
<1> QED
  BY <1>3, <1>6, <1>7, <1>8 DEF v, J

\* whether the DB's refs and the chain's refs admit the same advertisements of an order
Clear(b, c, id) ==
  \A i \in DOMAIN LastTxs(b) : \A j \in DOMAIN LastTxs(b)[i].ads :
    LET ad == LastTxs(b)[i].ads[j]
    IN  ad.id = id => (Admitted(ad, RefsAfter(c)) <=> Admitted(ad, RefsAfter(Pre(b, Len(b) - 1))))

\* The loop over the txs of a block takes the book of the chain before it to that of the chain.
LEMMA BlockIs ==
    ASSUME Sound(swTable), NEW b \in Chains, Len(b) # 0, NEW c, NEW w, WellFormed(w)
    PROVE  LET v == TxsDone(w, LastTxs(b), Len(b), c) IN
           /\ WellFormed(v)
           /\ \A id : Stayed(v, w, id) \/ PutAt(v, id, Len(b))
           /\ \A id : /\ Clear(b, c, id)
                      /\ Open(get_order(w, id)) = Left(b, Through(b, Len(b) - 1), id)
                      => Open(get_order(v, id)) = BookFor(b, id)
<1> DEFINE h == Len(b)
           txs == LastTxs(b)
           n == Len(txs)
           Follows(k, u) == \A id : /\ Clear(b, c, id)
                                    /\ Open(get_order(w, id)) = Left(b, UpToTx(b, 0), id)
                                    => Open(get_order(u, id)) = Left(b, UpToTx(b, k), id)
           StaysOrPut(u) == WellFormed(u) /\ \A id : Stayed(u, w, id) \/ PutAt(u, id, h)
<1>1. /\ h \in Nat \ {0} /\ n \in Nat /\ DOMAIN txs = 1 .. n /\ b[h] \in DOMAIN BlockTxs
      /\ UpToTx(b, 0) = Through(b, h - 1) /\ UpToTx(b, n) = TxsAt(b)
  BY LastBlock
<1>2. \A i \in 1 .. n : Len(txs[i].ads) \in Nat /\ DOMAIN txs[i].ads = 1 .. Len(txs[i].ads)
  BY <1>1, FeedIs DEF LastTxs
<1>3. PICK a : /\ a[0] = w
               /\ \A k \in 1 .. n : a[k] = TxStep(h, c, a[k - 1], txs[k])
               /\ TxsDone(w, txs, h, c) = a[n]
  <2>1. PICK a : TxLoop!Loop(h, c, w, txs, a)
    <3> HIDE DEF txs
    <3> QED
      BY <1>1, TxLoop!FoldsAre
  <2>2. TxLoop!Fold(h, c, w, txs) = TxsDone(w, txs, h, c)
    BY DEF TxLoop!Fold, TxLoop!FoldLeft, FoldLeft, TxLoop!MapThenFoldSet, MapThenFoldSet,
           TxLoop!Max, Max, TxsDone, TxStep
  <2> HIDE DEF txs
  <2> QED
    BY <2>1, <2>2 DEF TxLoop!Loop
<1>4. \A k \in 0 .. n : StaysOrPut(a[k]) /\ Follows(k, a[k])
  <2> DEFINE T == {k \in 0 .. n : StaysOrPut(a[k]) /\ Follows(k, a[k])}
  <2>1. 0 \in T
    <3>1. \A id : Stayed(w, w, id)
      BY DEF Stayed
    <3> QED
      BY <1>1, <1>3, <3>1
  <2>2. ASSUME NEW k \in 1 .. n, k - 1 \in T PROVE k \in T
    <3> DEFINE u == a[k - 1]
               v == a[k]
               tx == txs[k]
               ri == RefsAfter(c)
               J(id) == NewAds(tx.ads, ri, id)
    <3>1. /\ StaysOrPut(u) /\ Follows(k - 1, u) /\ v = ProcessTx(u, tx, h, ri) /\ k \in 0 .. n
          /\ Len(tx.ads) \in Nat /\ DOMAIN tx.ads = 1 .. Len(tx.ads)
      <4> HIDE DEF txs
      <4> QED
        BY <1>1, <1>2, <1>3, <2>2 DEF TxStep
    <3> HIDE DEF u, v, ri
    <3>2. WellFormed(v) /\ \A id : Stayed(v, u, id) \/ PutAt(v, id, h)
      <4> HIDE DEF tx
      <4> QED
        BY <3>1, TxStepIs
    <3>3. /\ \A id : \A m \in J(id) : (\A j \in J(id) : j <= m) =>
               Open(get_order(v, id)) = {OrderOf(tx.ads[m])}
          /\ \A id : J(id) = {} =>
               Open(get_order(v, id)) = IF id \in tx.spends THEN {} ELSE Open(get_order(u, id))
      <4> HIDE DEF tx
      <4> QED
        BY <3>1, TxStepIs
    <3>4. StaysOrPut(v)
      BY <3>1, <3>2 DEF Stayed, PutAt
    <3>5. ASSUME NEW id, Clear(b, c, id), Open(get_order(w, id)) = Left(b, UpToTx(b, 0), id)
          PROVE  Open(get_order(v, id)) = Left(b, UpToTx(b, k), id)
      <4>1. J(id) = NewAds(tx.ads, RefsAfter(Pre(b, h - 1)), id)
        BY <1>1, <3>5 DEF Clear, NewAds, ri
      <4>2. Open(get_order(u, id)) = Left(b, UpToTx(b, k - 1), id)
        BY <3>1, <3>5
      <4>3. /\ \A m \in J(id) : (\A j \in J(id) : j <= m) =>
                 Left(b, UpToTx(b, k), id) = {OrderOf(tx.ads[m])}
            /\ J(id) = {} => Left(b, UpToTx(b, k), id) =
                               IF id \in tx.spends THEN {} ELSE Left(b, UpToTx(b, k - 1), id)
        BY <4>1, TxBook
      <4>4. J(id) \subseteq Nat /\ \A j \in J(id) : j <= Len(tx.ads)
        BY <3>1 DEF NewAds
      <4> HIDE DEF J, tx
      <4>5. CASE J(id) = {}
        BY <3>3, <4>2, <4>3, <4>5
      <4>6. CASE J(id) # {}
        <5>1. PICK m \in J(id) : \A j \in J(id) : j <= m
          BY <3>1, <4>4, <4>6, MaxFacts
        <5> QED
          BY <3>3, <4>3, <5>1
      <4> QED
        BY <4>5, <4>6
    <3>6. Follows(k, v)
      BY <3>5
    <3> QED
      BY <3>1, <3>4, <3>6 DEF v
  <2> HIDE DEF T
  <2>3. \A k \in 0 .. n : k \in T
    BY <1>1, <2>1, <2>2, UpTo
  <2> QED
    BY <2>3 DEF T
<1>5. PICK v : v = a[n]
  OBVIOUS
<1> HIDE DEF n, txs
<1>6. StaysOrPut(v) /\ Follows(n, v)
  BY <1>1, <1>4, <1>5
<1>7. \A id : /\ Clear(b, c, id)
              /\ Open(get_order(w, id)) = Left(b, Through(b, h - 1), id)
              => Open(get_order(v, id)) = BookFor(b, id)
  BY <1>1, <1>6 DEF BookFor
<1> QED
  BY <1>3, <1>5, <1>6, <1>7 DEF txs

-----------------------------------------------------------------------------
(* The invariant of the book *)

Staging == [cache |-> orderCache, heights |-> orderHeight]

\* What the orders cached at heights up to m, over the rows of the DB, show as open.
OpenAt(m, id) ==
  IF id \in DOMAIN orderCache /\ orderHeight[id] <= m THEN Open({orderCache[id]})
  ELSE Open(Get(swTable, OrderKey(id)))

ChainsFit ==
  /\ tip \in Blocks /\ dbTip \in Blocks
  /\ Len(dbTip) <= Len(tip) /\ dbTip = Pre(tip, Len(dbTip))
  /\ top \in Int /\ Len(dbTip) <= top /\ top - ReorgLimit <= Len(dbTip)
CacheFollows ==
  /\ WellFormed(Staging)
  /\ \A id \in DOMAIN orderHeight : orderHeight[id] \in Len(dbTip) + 1 .. Len(tip)
  /\ \A m \in Len(dbTip) .. Len(tip) : \A id :
       id \notin blurred => OpenAt(m, id) = BookFor(Pre(tip, m), id)
RecordsFit ==
  \A h \in DOMAIN swUndo : h \in 0 .. Len(dbTip) /\ Fits(swUndo[h])

\* The tables that backups would go through: of each height that may be reached, one that
\* agrees in itself and with the chain up to there, and from each the undo record of the
\* height leads to the one below.
Window == {k \in 0 .. Len(dbTip) : k >= top - ReorgLimit}
Tables(H) ==
  /\ Alike(H[Len(dbTip)], swTable)
  /\ \A k \in Window :
       /\ Sound(H[k])
       /\ \A id : id \notin blurred => Open(Get(H[k], OrderKey(id))) = BookFor(Pre(dbTip, k), id)
       /\ k - 1 \in Window => Alike(H[k - 1], Reverted(H[k], swUndo, k))
BookInv == ChainsFit /\ CacheFollows /\ RecordsFit /\ \E H : Tables(H)

\* Blocks are chains of known heights.
LEMMA BlocksAre ==
    ASSUME NEW b \in Blocks
    PROVE  /\ b \in Chains /\ Len(b) \in Nat
           /\ b # FirstTip => Len(b) # 0 /\ Front(b) \in Blocks /\ Front(b) = Pre(b, Len(b) - 1)
                              /\ Len(Front(b)) = Len(b) - 1
<1>1. b \in Chains /\ Len(b) \in Nat
  BY BlocksAssumption, LenProperties DEF Chains
<1>2. b # FirstTip => b # << >> /\ Front(b) \in Blocks
  BY BlocksAssumption
<1>3. b # << >> => Len(b) # 0
  BY <1>1, EmptySeq DEF Chains
<1>4. Len(b) # 0 => Front(b) = Pre(b, Len(b) - 1) /\ Len(Pre(b, Len(b) - 1)) = Len(b) - 1
  <2>1. Len(b) # 0 => Len(b) - 1 \in 0 .. Len(b)
    BY <1>1
  <2> QED
    BY <1>1, <2>1, PrefixIs DEF Chains
<1> QED
  BY <1>1, <1>2, <1>3, <1>4

\* The table of the DB is the top one.
LEMMA TopTable ==
    ASSUME BookInv
    PROVE  /\ Len(dbTip) \in Window /\ Len(dbTip) \in Nat /\ Len(tip) \in Nat
           /\ Sound(swTable)
           /\ \A id : id \notin blurred => Open(Get(swTable, OrderKey(id))) = BookFor(dbTip, id)
<1>1. PICK H : Tables(H)
  BY DEF BookInv
<1>2. dbTip \in Chains /\ Len(dbTip) \in Nat /\ Len(tip) \in Nat
  BY BlocksAre DEF BookInv, ChainsFit
<1>3. Len(dbTip) \in Window
  <2>1. ReorgLimit \in Nat /\ top \in Int /\ top - ReorgLimit <= Len(dbTip)
    BY BlocksAssumption DEF BookInv, ChainsFit
  <2> QED
    BY <1>2, <2>1 DEF Window
<1>4. Sound(swTable)
  BY <1>1, <1>3, AlikeSound DEF Tables
<1>5. Pre(dbTip, Len(dbTip)) = dbTip
  <2>1. Len(dbTip) \in 0 .. Len(dbTip)
    BY <1>2
  <2> QED
    BY <1>2, <2>1, PrefixIs DEF Chains
<1>6. \A id : Get(H[Len(dbTip)], OrderKey(id)) = Get(swTable, OrderKey(id))
  BY <1>1 DEF Tables, Alike
<1> QED
  BY <1>1, <1>2, <1>3, <1>4, <1>5, <1>6 DEF Tables

\* At the start nothing is open.
LEMMA BookInit == Init => BookInv
<1> SUFFICES ASSUME Init PROVE BookInv
  OBVIOUS
<1> DEFINE F == FirstTip
           H == [k \in 0 .. Len(F) |-> << >>]
<1>1. /\ tip = F /\ dbTip = F /\ top = Len(F) /\ orderCache = << >> /\ orderHeight = << >>
      /\ swTable = << >> /\ swUndo = << >> /\ DOMAIN << >> = {}
  BY DEF Init, SwapInit
<1>2. F \in Blocks /\ F \in Chains /\ Len(F) \in Nat /\ Len(F) \in 0 .. Len(F) /\ Pre(F, Len(F)) = F
  <2>1. F \in Blocks /\ F \in Chains /\ Len(F) \in Nat
    BY BlocksAssumption, BlocksAre
  <2> QED
    BY <2>1, PrefixIs DEF Chains
<1>3. \A k \in 0 .. Len(F) : \A id : BookFor(Pre(F, k), id) = {}
  <2>1. AdsIn(F) = {}
    <3>1. ASSUME NEW a \in AdsIn(F) PROVE FALSE
      <4>1. <<a[1], a[2]>> \in TxsAt(F) /\ a[3] \in DOMAIN TxAt(F, a).ads
        BY AdsAre
      <4>2. TxAt(F, <<a[1], a[2]>>) = TxAt(F, a)
        BY DEF TxAt
      <4>3. TxAt(F, <<a[1], a[2]>>).ads = << >>
        BY <4>1, BlocksAssumption
      <4> QED
        BY <1>1, <4>1, <4>2, <4>3
    <3> QED
      BY <3>1
  <2>2. ASSUME NEW k \in 0 .. Len(F), NEW id PROVE BookFor(Pre(F, k), id) = {}
    <3>1. BookFor(Pre(F, k), id) = Left(F, Through(F, k), id)
      BY <1>2, BookOfPrefix
    <3> QED
      BY <2>1, <3>1 DEF Left, AdsOf
  <2> QED
    BY <2>2
<1>4. \A k : Get(<< >>, k) = {}
  BY <1>1 DEF Get
<1>5. ChainsFit
  BY <1>1, <1>2, BlocksAssumption DEF ChainsFit
<1>6. CacheFollows
  <2>1. WellFormed(Staging) /\ DOMAIN orderHeight = {} /\ DOMAIN orderCache = {}
    BY <1>1 DEF WellFormed, Staging
  <2>2. ASSUME NEW m \in Len(dbTip) .. Len(tip), NEW id
        PROVE  OpenAt(m, id) = BookFor(Pre(tip, m), id)
    BY <1>1, <1>2, <1>3, <1>4, <2>1 DEF OpenAt, Open
  <2> QED
    BY <2>1, <2>2 DEF CacheFollows
<1>7. RecordsFit
  BY <1>1 DEF RecordsFit
<1>8. Tables(H)
  <2>1. \A k \in 0 .. Len(F) : H[k] = << >>
    OBVIOUS
  <2>2. Sound(<< >>)
    BY <1>4 DEF Sound
  <2>3. \A k : Reverted(<< >>, swUndo, k) = << >>
    BY <1>1 DEF Reverted
  <2>4. \A k \in Window : k \in 0 .. Len(F)
    BY <1>1 DEF Window
  <2> HIDE DEF H
  <2>5. Alike(H[Len(dbTip)], swTable)
    BY <1>1, <1>2, <2>1 DEF Alike
  <2>6. ASSUME NEW k \in Window
        PROVE  /\ Sound(H[k])
               /\ \A id : Open(Get(H[k], OrderKey(id))) = BookFor(Pre(dbTip, k), id)
               /\ k - 1 \in Window => Alike(H[k - 1], Reverted(H[k], swUndo, k))
    BY <1>1, <1>3, <1>4, <2>1, <2>2, <2>3, <2>4 DEF Alike, Open
  <2> QED
    BY <2>5, <2>6 DEF Tables
<1> QED
  BY <1>5, <1>6, <1>7, <1>8 DEF BookInv

-----------------------------------------------------------------------------
(* The steps of the book *)

\* The cache after a flush, a backup or a restart: empty, over a table that has the book.
LEMMA AtRest ==
    ASSUME DOMAIN orderCache' = {}, DOMAIN orderHeight' = {}, tip' = dbTip', tip' \in Chains,
           \A id : id \notin blurred' => Open(Get(swTable', OrderKey(id))) = BookFor(tip', id)
    PROVE  CacheFollows'
<1>1. PICK n : n = Len(tip')
  OBVIOUS
<1>2. n \in Nat /\ n \in 0 .. n
  BY <1>1, LenProperties DEF Chains
<1>3. Pre(tip', n) = tip'
  BY <1>1, <1>2, PrefixIs DEF Chains
<1>4. WellFormed(Staging)'
  BY DEF WellFormed, Staging
<1>5. \A m \in Len(dbTip') .. Len(tip') : m = n
  BY <1>1, <1>2
<1>6. ASSUME NEW id, id \notin blurred' PROVE OpenAt(n, id)' = BookFor(Pre(tip', n), id)
  <2>1. OpenAt(n, id)' = Open(Get(swTable', OrderKey(id)))
    BY DEF OpenAt
  <2> QED
    BY <1>3, <1>6, <2>1
<1> QED
  BY <1>4, <1>5, <1>6 DEF CacheFollows

\* A block is given to the index (advance_txs).
LEMMA BookAdvance ==
    ASSUME BookInv, NEW b \in Blocks \ {FirstTip}, Front(b) = tip, tip' = b,
           SwapAdvance(b, dbTip), dbTip' = dbTip, top' = top
    PROVE  BookInv'
<1> DEFINE w == TxsDone(Staging, LastTxs(b), Len(b), dbTip)
<1>1. /\ b \in Chains /\ Len(b) \in Nat /\ Len(b) # 0 /\ Len(tip) = Len(b) - 1
      /\ tip = Pre(b, Len(tip)) /\ Len(dbTip) \in Nat /\ Len(dbTip) <= Len(tip)
      /\ Len(tip) \in Nat /\ Len(tip) \in 0 .. Len(b)
  <2>1. /\ b \in Chains /\ Len(b) \in Nat /\ Len(b) # 0 /\ Len(tip) = Len(b) - 1
        /\ tip = Pre(b, Len(b) - 1)
    BY BlocksAre
  <2>2. Len(dbTip) \in Nat /\ Len(tip) \in Nat /\ Len(dbTip) <= Len(tip)
    BY TopTable DEF BookInv, ChainsFit
  <2> QED
    BY <2>1, <2>2
<1>2. ASSUME NEW m \in 0 .. Len(tip) PROVE Pre(b, m) = Pre(tip, m)
  <2>1. Pre(Pre(b, Len(tip)), m) = Pre(b, m)
    BY <1>1, PrefixIs DEF Chains
  <2> QED
    BY <1>1, <2>1
<1>3. Pre(b, Len(b)) = b /\ Pre(tip, Len(tip)) = tip
  <2>1. Len(b) \in 0 .. Len(b) /\ Len(tip) \in 0 .. Len(tip) /\ tip \in Chains
    BY <1>1, BlocksAre DEF BookInv, ChainsFit
  <2>2. Pre(b, Len(b)) = b
    BY <1>1, <2>1, PrefixIs DEF Chains
  <2>3. Pre(tip, Len(tip)) = tip
    BY <2>1, PrefixIs DEF Chains
  <2> QED
    BY <2>2, <2>3
<1>4. /\ orderCache' = w.cache /\ orderHeight' = w.heights
      /\ swTable' = swTable /\ swUndo' = swUndo
  BY DEF SwapAdvance, TxsDone, Staging, LastTxs, Last
<1>5. blurred' = blurred
        \cup {id \in DOMAIN orderHeight : w.heights[id] # orderHeight[id]}
        \cup {ad.id : ad \in {a \in UNION {Range(LastTxs(b)[i].ads) : i \in DOMAIN LastTxs(b)} :
                                 Admitted(a, RefsAfter(dbTip)) # Admitted(a, RefsAfter(tip))}}
  BY DEF SwapAdvance, TxsDone, Staging, LastTxs, Last
<1>6. /\ WellFormed(w)
      /\ \A id : Stayed(w, Staging, id) \/ PutAt(w, id, Len(b))
      /\ \A id : /\ Clear(b, dbTip, id)
                 /\ Open(get_order(Staging, id)) = Left(b, Through(b, Len(b) - 1), id)
                 => Open(get_order(w, id)) = BookFor(b, id)
  <2>1. WellFormed(Staging) /\ Sound(swTable)
    BY TopTable DEF BookInv, CacheFollows
  <2>2. PICK v : v = w
    OBVIOUS
  <2>3. WellFormed(v) /\ \A id : Stayed(v, Staging, id) \/ PutAt(v, id, Len(b))
    BY <1>1, <2>1, <2>2, BlockIs
  <2>4. ASSUME NEW id, Clear(b, dbTip, id),
               Open(get_order(Staging, id)) = Left(b, Through(b, Len(b) - 1), id)
        PROVE  Open(get_order(v, id)) = BookFor(b, id)
    BY <1>1, <2>1, <2>2, <2>4, BlockIs
  <2> HIDE DEF w
  <2> QED
    BY <2>2, <2>3, <2>4
<1> HIDE DEF w
<1>7. /\ Staging.cache = orderCache /\ Staging.heights = orderHeight
      /\ DOMAIN orderCache = DOMAIN orderHeight /\ DOMAIN w.cache = DOMAIN w.heights
  BY <1>6 DEF Staging, WellFormed, BookInv, CacheFollows
<1>8. \A id \in DOMAIN orderCache : orderHeight[id] \in Len(dbTip) + 1 .. Len(tip)
  BY <1>7 DEF BookInv, CacheFollows
<1>9. ASSUME NEW id, id \notin blurred'
      PROVE  /\ id \notin blurred /\ Clear(b, dbTip, id)
             /\ id \in DOMAIN orderHeight => w.heights[id] = orderHeight[id]
  <2>1. id \notin blurred /\ (id \in DOMAIN orderHeight => w.heights[id] = orderHeight[id])
    BY <1>5, <1>9
  <2>2. ASSUME NEW i \in DOMAIN LastTxs(b), NEW j \in DOMAIN LastTxs(b)[i].ads,
               LastTxs(b)[i].ads[j].id = id
        PROVE  LET ad == LastTxs(b)[i].ads[j] IN
               Admitted(ad, RefsAfter(dbTip)) <=> Admitted(ad, RefsAfter(Pre(b, Len(b) - 1)))
    <3> DEFINE ad == LastTxs(b)[i].ads[j]
    <3>1. ad \in UNION {Range(LastTxs(b)[k].ads) : k \in DOMAIN LastTxs(b)}
      BY DEF Range
    <3>2. ad.id = id
      BY <2>2
    <3> HIDE DEF ad
    <3>3. ~(Admitted(ad, RefsAfter(dbTip)) # Admitted(ad, RefsAfter(tip)))
      BY <1>5, <1>9, <3>1, <3>2
    <3>4. tip = Pre(b, Len(b) - 1)
      BY <1>1
    <3>5. Admitted(ad, RefsAfter(dbTip)) = Admitted(ad, RefsAfter(Pre(b, Len(b) - 1)))
      BY <3>3, <3>4
    <3> QED
      BY <3>5 DEF ad
  <2> QED
    BY <2>1, <2>2 DEF Clear
<1>10. ASSUME NEW id, id \notin blurred'
       PROVE  Open(get_order(w, id)) = BookFor(b, id)
  <2>1. OpenAt(Len(tip), id) = BookFor(tip, id)
    <3>1. Len(tip) \in Len(dbTip) .. Len(tip) /\ id \notin blurred
      BY <1>1, <1>9, <1>10
    <3>2. OpenAt(Len(tip), id) = BookFor(Pre(tip, Len(tip)), id)
      BY <3>1 DEF BookInv, CacheFollows
    <3> QED
      BY <1>3, <3>2
  <2>2. OpenAt(Len(tip), id) = Open(get_order(Staging, id))
    BY <1>1, <1>7, <1>8 DEF OpenAt, get_order
  <2>3. BookFor(tip, id) = Left(b, Through(b, Len(b) - 1), id)
    <3>1. BookFor(Pre(b, Len(tip)), id) = Left(b, Through(b, Len(tip)), id)
      BY <1>1, BookOfPrefix
    <3> QED
      BY <1>1, <3>1
  <2> QED
    BY <1>6, <1>9, <1>10, <2>1, <2>2, <2>3
<1>11. ASSUME NEW id \in DOMAIN w.cache PROVE w.heights[id] \in Len(dbTip) + 1 .. Len(b)
  <2>1. CASE Stayed(w, Staging, id)
    BY <1>1, <1>7, <1>8, <2>1 DEF Stayed
  <2>2. CASE PutAt(w, id, Len(b))
    BY <1>1, <2>2 DEF PutAt
  <2> QED
    BY <1>6, <2>1, <2>2
<1>12. ASSUME NEW m \in Len(dbTip) .. Len(tip), NEW id, id \notin blurred'
       PROVE  OpenAt(m, id)' = OpenAt(m, id)
  <2>1. CASE id \in DOMAIN orderCache
    <3>1. w.heights[id] = orderHeight[id] /\ orderHeight[id] \in Len(dbTip) + 1 .. Len(tip)
      BY <1>7, <1>8, <1>9, <1>12, <2>1
    <3>2. ~PutAt(w, id, Len(b))
      BY <1>1, <3>1 DEF PutAt
    <3>3. Stayed(w, Staging, id)
      BY <1>6, <3>2
    <3> QED
      BY <1>4, <1>7, <2>1, <3>3 DEF OpenAt, Stayed
  <2>2. CASE id \notin DOMAIN orderCache
    <3>1. id \in DOMAIN w.cache => w.heights[id] = Len(b) /\ ~(Len(b) <= m)
      BY <1>1, <1>6, <1>7, <2>2 DEF Stayed, PutAt
    <3> QED
      BY <1>4, <2>2, <3>1 DEF OpenAt
  <2> QED
    BY <2>1, <2>2
<1>13. CacheFollows'
  <2>1. WellFormed(Staging)'
    BY <1>4, <1>6 DEF WellFormed, Staging
  <2>2. \A id \in DOMAIN orderHeight' : orderHeight'[id] \in Len(dbTip') + 1 .. Len(tip')
    BY <1>4, <1>7, <1>11
  <2>3. ASSUME NEW m \in Len(dbTip) .. Len(b), NEW id, id \notin blurred'
        PROVE  OpenAt(m, id)' = BookFor(Pre(b, m), id)
    <3>1. CASE m = Len(b)
      <4>1. OpenAt(m, id)' = Open(get_order(w, id))
        BY <1>1, <1>4, <1>7, <1>11, <3>1 DEF OpenAt, get_order
      <4> QED
        BY <1>3, <1>10, <2>3, <3>1, <4>1
    <3>2. CASE m # Len(b)
      <4>1. m \in Len(dbTip) .. Len(tip) /\ m \in 0 .. Len(tip)
        BY <1>1, <3>2
      <4>2. OpenAt(m, id) = BookFor(Pre(tip, m), id)
        BY <1>9, <2>3, <4>1 DEF BookInv, CacheFollows
      <4> QED
        BY <1>2, <1>12, <2>3, <4>1, <4>2
    <3> QED
      BY <3>1, <3>2
  <2> QED
    BY <2>1, <2>2, <2>3 DEF CacheFollows
<1>14. ChainsFit'
  <2>1. Len(dbTip) \in 0 .. Len(tip) /\ dbTip = Pre(tip, Len(dbTip))
    BY <1>1 DEF BookInv, ChainsFit
  <2> QED
    BY <1>1, <1>2, <2>1 DEF BookInv, ChainsFit
<1>15. RecordsFit'
  BY <1>4 DEF BookInv, RecordsFit
<1>16. PICK H : Tables(H)
  BY DEF BookInv
<1>17. Tables(H)'
  <2>1. Window' = Window
    BY DEF Window
  <2>2. \A id : id \notin blurred' => id \notin blurred
    BY <1>5
  <2> QED
    BY <1>4, <1>16, <2>1, <2>2 DEF Tables
<1> QED
  BY <1>13, <1>14, <1>15, <1>17 DEF BookInv

\* The process starts again with what is flushed.
LEMMA BookRestart ==
    ASSUME BookInv, tip' = dbTip, dbTip' = dbTip, top' = top, SwapRestart
    PROVE  BookInv'
<1>1. /\ orderCache' = << >> /\ orderHeight' = << >>
      /\ swTable' = swTable /\ swUndo' = swUndo /\ blurred' = blurred
  BY DEF SwapRestart
<1>2. dbTip \in Chains /\ Len(dbTip) \in Nat /\ dbTip = Pre(dbTip, Len(dbTip))
  <2>1. dbTip \in Chains /\ Len(dbTip) \in Nat /\ Len(dbTip) \in 0 .. Len(dbTip)
    BY BlocksAre DEF BookInv, ChainsFit
  <2> QED
    BY <2>1, PrefixIs DEF Chains
<1>3. CacheFollows'
  <2>1. \A id : id \notin blurred' => Open(Get(swTable', OrderKey(id))) = BookFor(tip', id)
    BY <1>1, TopTable
  <2>2. tip' = dbTip' /\ tip' \in Chains /\ DOMAIN orderCache' = {} /\ DOMAIN orderHeight' = {}
    BY <1>1, <1>2
  <2> QED
    BY <2>1, <2>2, AtRest
<1>4. ChainsFit' /\ RecordsFit'
  <2>1. ChainsFit'
    BY <1>2 DEF BookInv, ChainsFit
  <2>2. RecordsFit /\ dbTip' = dbTip /\ swUndo' = swUndo
    BY <1>1 DEF BookInv
  <2>3. RecordsFit'
    BY <2>2 DEF RecordsFit
  <2> QED
    BY <2>1, <2>3
<1>5. Window' = Window
  BY DEF Window
<1>6. PICK H : Tables(H)
  BY DEF BookInv
<1>7. Tables(H)'
  BY <1>1, <1>5, <1>6 DEF Tables
<1> QED
  BY <1>3, <1>4, <1>7 DEF BookInv

\* the orders cached at heights up to k
Stage(k) == {id \in DOMAIN orderCache : orderHeight[id] <= k}

\* What a flush of them leaves agrees, and shows them as open that are.
LEMMA StageRows ==
    ASSUME BookInv, NEW k \in Int
    PROVE  /\ Sound(FlushOf(Stage(k)))
           /\ \A id : Open(Get(FlushOf(Stage(k)), OrderKey(id))) = OpenAt(k, id)
<1>1. Sound(swTable)
  BY TopTable
<1>2. \A id \in Stage(k) : "status" \in DOMAIN orderCache[id]
  BY DEF BookInv, CacheFollows, WellFormed, Staging, Stage
<1>3. Sound(FlushOf(Stage(k)))
  <2> HIDE DEF Stage
  <2> QED
    BY <1>1, <1>2, FlushOfSound
<1>4. ASSUME NEW id PROVE Open(Get(FlushOf(Stage(k)), OrderKey(id))) = OpenAt(k, id)
  <2>1. CASE id \in Stage(k)
    <3>1. Get(FlushOf(Stage(k)), OrderKey(id)) = {orderCache[id]}
      BY <2>1, FlushOfRows
    <3> QED
      BY <2>1, <3>1 DEF OpenAt, Stage
  <2>2. CASE id \notin Stage(k)
    <3>1. OrderKey(id) \notin KeysOf(Stage(k))
      <4>1. Last(OrderKey(id)) = id
        BY OrderKeys
      <4> QED
        BY <2>2, <4>1, KeyOfOrder
    <3>2. Get(FlushOf(Stage(k)), OrderKey(id)) = Get(swTable, OrderKey(id))
      BY <3>1, FlushOfRows
    <3> QED
      BY <2>2, <3>2 DEF OpenAt, Stage
  <2> QED
    BY <2>1, <2>2
<1> QED
  BY <1>3, <1>4

\* Of no order it leaves the table as it is.
LEMMA NoStage ==
    ASSUME NEW k, Stage(k) = {}
    PROVE  Alike(FlushOf(Stage(k)), swTable)
<1>1. KeysOf(Stage(k)) = {}
  BY IndexKeysAre DEF KeysOf
<1>2. \A q : q \notin KeysOf(Stage(k)) => Get(FlushOf(Stage(k)), q) = Get(swTable, q)
  BY FlushOfRows
<1> QED
  BY <1>1, <1>2 DEF Alike

\* The undo record of a height leads from the orders up to it to those below it.
LEMMA StageStep ==
    ASSUME BookInv, NEW k \in Int, NEW ids, ids = {id \in DOMAIN orderHeight : orderHeight[id] = k},
           NEW log, k \in DOMAIN log => ids # {} /\ log[k] = [q \in KeysOf(ids) |-> Get(swTable, q)],
           k \notin DOMAIN log => ids = {}
    PROVE  Alike(FlushOf(Stage(k - 1)), Reverted(FlushOf(Stage(k)), log, k))
<1>1. /\ DOMAIN orderCache = DOMAIN orderHeight
      /\ \A id \in DOMAIN orderHeight : orderHeight[id] \in Int
  <2>1. Len(dbTip) \in Nat /\ Len(tip) \in Nat
    BY TopTable
  <2> QED
    BY <2>1 DEF BookInv, CacheFollows, WellFormed, Staging
<1>2. \A id : (id \in Stage(k) <=> id \in Stage(k - 1) \/ id \in ids)
              /\ ~(id \in Stage(k - 1) /\ id \in ids)
  BY <1>1 DEF Stage
<1> DEFINE A == Stage(k - 1)
           B == Stage(k)
<1> HIDE DEF A, B
<1>3. /\ \A id \in A : Get(FlushOf(A), OrderKey(id)) = {orderCache[id]}
      /\ \A id \in A : \A q \in Keyed(id) :
           Get(FlushOf(A), q) = IF orderCache[id].status = "open" THEN {""} ELSE {}
      /\ \A q : q \notin KeysOf(A) => Get(FlushOf(A), q) = Get(swTable, q)
  BY FlushOfRows
<1>4. /\ \A id \in B : Get(FlushOf(B), OrderKey(id)) = {orderCache[id]}
      /\ \A id \in B : \A q \in Keyed(id) :
           Get(FlushOf(B), q) = IF orderCache[id].status = "open" THEN {""} ELSE {}
      /\ \A q : q \notin KeysOf(B) => Get(FlushOf(B), q) = Get(swTable, q)
  BY FlushOfRows
<1>5. \A q : Get(swTable, q) = {} \/ \E v : Get(swTable, q) = {v}
  BY DEF Get
<1>6. ASSUME NEW q
      PROVE  Get(Reverted(FlushOf(B), log, k), q) =
               IF k \in DOMAIN log /\ q \in DOMAIN log[k] THEN log[k][q] ELSE Get(FlushOf(B), q)
  <2>1. k \in DOMAIN log => Fits(log[k])
    BY <1>5 DEF Fits
  <2>2. PICK T : T = FlushOf(B)
    OBVIOUS
  <2>3. Get(Reverted(T, log, k), q) =
          IF k \in DOMAIN log /\ q \in DOMAIN log[k] THEN log[k][q] ELSE Get(T, q)
    BY <2>1, GetReverted
  <2> QED
    BY <2>2, <2>3
<1>7. ASSUME NEW q, q \in KeysOf(ids)
      PROVE  Get(Reverted(FlushOf(B), log, k), q) = Get(FlushOf(A), q)
  <2>1. ids # {}
    BY <1>7, KeyOfOrder
  <2>2. Get(Reverted(FlushOf(B), log, k), q) = Get(swTable, q)
    BY <1>6, <1>7, <2>1
  <2>3. Last(q) \in ids
    BY <1>7, KeyOfOrder
  <2>4. Last(q) \notin A
    BY <1>2, <2>3 DEF A
  <2>5. q \notin KeysOf(A)
    BY <2>4, KeyOfOrder
  <2> QED
    BY <1>3, <2>2, <2>5
<1>8. ASSUME NEW q, q \notin KeysOf(ids)
      PROVE  Get(Reverted(FlushOf(B), log, k), q) = Get(FlushOf(A), q)
  <2>1. Get(Reverted(FlushOf(B), log, k), q) = Get(FlushOf(B), q)
    BY <1>6, <1>8
  <2>2. \A S : \A id \in S : OrderKey(id) \in KeysOf(S) /\ \A p \in Keyed(id) : p \in KeysOf(S)
    BY IndexKeysAre DEF KeysOf
  <2>3. CASE q \in KeysOf(B)
    <3>1. Last(q) \in B /\ (q = OrderKey(Last(q)) \/ q \in Keyed(Last(q)))
      BY <2>3, KeyOfOrder
    <3>2. Last(q) \notin ids
      BY <1>8, <2>2, <3>1
    <3>3. Last(q) \in A
      BY <1>2, <3>1, <3>2 DEF A, B
    <3>4. CASE q = OrderKey(Last(q))
      BY <1>3, <1>4, <2>1, <3>1, <3>3, <3>4
    <3>5. CASE q \in Keyed(Last(q))
      BY <1>3, <1>4, <2>1, <3>1, <3>3, <3>5
    <3> QED
      BY <3>1, <3>4, <3>5
  <2>4. CASE q \notin KeysOf(B)
    <3>1. q \notin KeysOf(A)
      <4>1. ASSUME q \in KeysOf(A) PROVE FALSE
        <5>1. Last(q) \in A /\ (q = OrderKey(Last(q)) \/ q \in Keyed(Last(q)))
          BY <4>1, KeyOfOrder
        <5>2. Last(q) \in B
          BY <1>2, <5>1 DEF A, B
        <5> QED
          BY <2>2, <2>4, <5>1, <5>2
      <4> QED
        BY <4>1
    <3> QED
      BY <1>3, <1>4, <2>1, <2>4, <3>1
  <2> QED
    BY <2>3, <2>4
<1> QED
  BY <1>7, <1>8 DEF Alike, A, B

\* Tables that read alike are still so after the same backup.
LEMMA RevertedAlike ==
    ASSUME NEW T, NEW U, Alike(T, U), NEW undo, NEW h, h \in DOMAIN undo => Fits(undo[h])
    PROVE  Alike(Reverted(T, undo, h), Reverted(U, undo, h))
<1>1. ASSUME NEW q PROVE Get(Reverted(T, undo, h), q) = Get(Reverted(U, undo, h), q)
  <2>1. Get(Reverted(T, undo, h), q) =
          IF h \in DOMAIN undo /\ q \in DOMAIN undo[h] THEN undo[h][q] ELSE Get(T, q)
    BY GetReverted
  <2>2. Get(Reverted(U, undo, h), q) =
          IF h \in DOMAIN undo /\ q \in DOMAIN undo[h] THEN undo[h][q] ELSE Get(U, q)
    BY GetReverted
  <2> QED
    BY <2>1, <2>2 DEF Alike
<1> QED
  BY <1>1 DEF Alike

\* A backup reads nothing of the log but the record of its height.
LEMMA SameRecord ==
    ASSUME NEW T, NEW log, NEW undo, NEW h, h \in DOMAIN log <=> h \in DOMAIN undo,
           h \in DOMAIN undo => log[h] = undo[h]
    PROVE  Reverted(T, log, h) = Reverted(T, undo, h)
<1> DEFINE Back(r) ==
             LET gone == {k \in DOMAIN r : r[k] = {}}
                 back == DOMAIN r \ gone
             IN  Written(T, [k \in back |-> CHOOSE v \in r[k] : TRUE], gone)
<1>1. Reverted(T, log, h) = IF h \in DOMAIN log THEN Back(log[h]) ELSE T
  BY DEF Reverted
<1>2. Reverted(T, undo, h) = IF h \in DOMAIN undo THEN Back(undo[h]) ELSE T
  BY DEF Reverted
<1> HIDE DEF Back
<1> QED
  BY <1>1, <1>2

\* The orders cached at a height
StagedAt(k) == {id \in DOMAIN orderHeight : orderHeight[id] = k}

\* The undo records after a flush: of the heights in the cache new ones, of those below that a
\* backup may still reach the old ones.
LEMMA CommitRecords ==
    ASSUME BookInv, SwapFlush(Len(tip)), NEW k \in Int
    PROVE  /\ StagedAt(k) # {} =>
                k \in DOMAIN swUndo' /\ swUndo'[k] = [q \in KeysOf(StagedAt(k)) |-> Get(swTable, q)]
           /\ StagedAt(k) = {} /\ k \in DOMAIN swUndo' => k \in DOMAIN swUndo /\ swUndo'[k] = swUndo[k]
           /\ StagedAt(k) = {} /\ k \in DOMAIN swUndo /\ k > Len(tip) - ReorgLimit => k \in DOMAIN swUndo'
<1> DEFINE to == PruneTo(Len(tip), ReorgLimit)
           kept == {h \in DOMAIN swUndo : h <= swPruned \/ h > to}
           P == Pruned(swUndo, swPruned, to)
<1>1. swUndo' = Recorded(P, swTable, KeysAt)
  BY DEF SwapFlush
<1>2. DOMAIN P = kept /\ \A h \in kept : P[h] = swUndo[h]
  BY DEF Pruned, Restrict
<1>3. DOMAIN KeysAt = Range(orderHeight) /\ \A h \in Range(orderHeight) : KeysAt[h] = KeysOf(StagedAt(h))
  BY DEF KeysAt, KeysOf, StagedAt
<1>4. k \in Range(orderHeight) <=> StagedAt(k) # {}
  BY DEF Range, StagedAt
<1>5. k \in DOMAIN swUndo /\ k > Len(tip) - ReorgLimit => k \in kept
  <2>1. k \in DOMAIN swUndo => k \in 0 .. Len(dbTip)
    BY DEF BookInv, RecordsFit
  <2>2. Len(tip) \in Nat /\ ReorgLimit \in Nat /\ Len(dbTip) \in Nat
    BY TopTable, BlocksAssumption
  <2>3. k \in Nat /\ k > Len(tip) - ReorgLimit => k > to
    BY <2>2 DEF PruneTo
  <2> HIDE DEF to
  <2> QED
    BY <2>1, <2>2, <2>3
<1> HIDE DEF P, kept
<1>6. /\ DOMAIN swUndo' = DOMAIN P \cup DOMAIN KeysAt
      /\ \A h \in DOMAIN P \cup DOMAIN KeysAt :
           swUndo'[h] = IF h \in DOMAIN KeysAt THEN [q \in KeysAt[h] |-> Get(swTable, q)] ELSE P[h]
  <2>1. swUndo' = [h \in DOMAIN P \cup DOMAIN KeysAt |->
                     IF h \in DOMAIN KeysAt THEN [q \in KeysAt[h] |-> Get(swTable, q)] ELSE P[h]]
    BY <1>1 DEF Recorded
  <2> QED
    BY <2>1
<1>7. k \in kept => k \in DOMAIN swUndo
  BY DEF kept
<1>8. ASSUME StagedAt(k) # {}
      PROVE  k \in DOMAIN swUndo' /\ swUndo'[k] = [q \in KeysOf(StagedAt(k)) |-> Get(swTable, q)]
  <2>1. k \in DOMAIN KeysAt /\ KeysAt[k] = KeysOf(StagedAt(k))
    BY <1>3, <1>4, <1>8
  <2> QED
    BY <1>6, <2>1
<1>9. ASSUME StagedAt(k) = {}, k \in DOMAIN swUndo' PROVE k \in DOMAIN swUndo /\ swUndo'[k] = swUndo[k]
  BY <1>2, <1>3, <1>4, <1>6, <1>7, <1>9
<1>10. ASSUME StagedAt(k) = {}, k \in DOMAIN swUndo, k > Len(tip) - ReorgLimit PROVE k \in DOMAIN swUndo'
  BY <1>2, <1>5, <1>6, <1>10
<1> QED
  BY <1>8, <1>9, <1>10

\* A flush writes the cache (flush_dbs).
LEMMA BookCommit ==
    ASSUME BookInv, Len(tip) # Len(dbTip), tip' = tip, dbTip' = tip,
           top' = Max({top, Len(tip)}), SwapFlush(Len(tip))
    PROVE  BookInv'
<1> DEFINE n == Len(tip)
           n0 == Len(dbTip)
<1>1. /\ n \in Nat /\ n0 \in Nat /\ n0 < n /\ tip \in Blocks /\ dbTip \in Blocks /\ tip \in Chains
      /\ dbTip = Pre(tip, n0) /\ top \in Int /\ n0 <= top /\ top - ReorgLimit <= n0
      /\ ReorgLimit \in Nat
  <2>1. /\ n \in Nat /\ n0 \in Nat /\ tip \in Blocks /\ dbTip \in Blocks /\ n0 <= n
        /\ dbTip = Pre(tip, n0) /\ top \in Int /\ n0 <= top /\ top - ReorgLimit <= n0
    BY TopTable DEF BookInv, ChainsFit
  <2> QED
    BY <2>1, BlocksAre, BlocksAssumption
<1>2. /\ DOMAIN orderCache = DOMAIN orderHeight
      /\ \A id \in DOMAIN orderHeight : orderHeight[id] \in n0 + 1 .. n
      /\ \A m \in n0 .. n : \A id : id \notin blurred => OpenAt(m, id) = BookFor(Pre(tip, m), id)
  BY DEF BookInv, CacheFollows, WellFormed, Staging
<1>3. PICK H : Tables(H)
  BY DEF BookInv
<1>4. /\ orderCache' = << >> /\ orderHeight' = << >> /\ blurred' = blurred
      /\ swTable' = FlushOf(Stage(n))
  <2>1. Stage(n) = DOMAIN orderCache
    <3>1. \A id \in DOMAIN orderCache : orderHeight[id] <= n
      BY <1>1, <1>2
    <3> QED
      BY <3>1 DEF Stage
  <2>2. FlushedTable = FlushOf(DOMAIN orderCache)
    BY DEF FlushedTable, FlushOf
  <2> QED
    BY <2>1, <2>2 DEF SwapFlush
<1>5. top' \in Int /\ top' >= top /\ top' >= n /\ top' - ReorgLimit <= n
  <2>1. top \in Nat
    BY <1>1
  <2>2. CASE top <= n
    <3>1. {top, n} \subseteq Nat /\ n \in {top, n} /\ \A j \in {top, n} : j <= n
      BY <1>1, <2>1, <2>2
    <3>2. Max({top, n}) = n
      BY <3>1, MaxIs
    <3> QED
      BY <1>1, <2>1, <2>2, <3>2
  <2>3. CASE ~(top <= n)
    <3>1. {top, n} \subseteq Nat /\ top \in {top, n} /\ \A j \in {top, n} : j <= top
      BY <1>1, <2>1, <2>3
    <3>2. Max({top, n}) = top
      BY <3>1, MaxIs
    <3> QED
      BY <1>1, <2>1, <2>3, <3>2
  <2> QED
    BY <2>2, <2>3
<1>6. PICK high \in Int : high = top' - ReorgLimit
  BY <1>1, <1>5
<1>7. PICK low \in Int : low = top - ReorgLimit
  BY <1>1
<1>18. low <= high /\ n - ReorgLimit <= high
  BY <1>1, <1>5, <1>6, <1>7
<1>19. Window = {k \in 0 .. n0 : k >= low} /\ Window' = {k \in 0 .. n : k >= high}
  BY <1>6, <1>7 DEF Window
<1> DEFINE W == {k \in 0 .. n : k >= high}
<1>8. \A k \in Int : StagedAt(k) # {} => k \in n0 + 1 .. n
  BY <1>2 DEF StagedAt
<1>9. \A k \in DOMAIN swUndo : k \in 0 .. n0 /\ Fits(swUndo[k])
  BY DEF BookInv, RecordsFit
<1>10. Pre(tip, n) = tip /\ \A k \in 0 .. n0 : Pre(tip, k) = Pre(dbTip, k)
  <2>1. n \in 0 .. n /\ n0 \in 0 .. n
    BY <1>1
  <2> QED
    BY <1>1, <2>1, PrefixIs DEF Chains
<1> HIDE DEF n, n0
<1>11. ASSUME NEW k \in Int
       PROVE  /\ StagedAt(k) # {} => /\ k \in DOMAIN swUndo'
                                     /\ swUndo'[k] = [q \in KeysOf(StagedAt(k)) |-> Get(swTable, q)]
              /\ StagedAt(k) = {} /\ k \in DOMAIN swUndo' => k \in DOMAIN swUndo /\ swUndo'[k] = swUndo[k]
              /\ StagedAt(k) = {} /\ k \in DOMAIN swUndo /\ k > n - ReorgLimit => k \in DOMAIN swUndo'
  BY CommitRecords DEF n
<1>12. ChainsFit'
  BY <1>1, <1>5, <1>10 DEF ChainsFit, n
<1>13. CacheFollows'
  <2>1. ASSUME NEW id, id \notin blurred'
        PROVE  Open(Get(swTable', OrderKey(id))) = BookFor(tip', id)
    <3>1. Open(Get(FlushOf(Stage(n)), OrderKey(id))) = OpenAt(n, id)
      BY <1>1, StageRows
    <3>2. n \in n0 .. n
      BY <1>1
    <3>3. OpenAt(n, id) = BookFor(Pre(tip, n), id)
      BY <1>2, <1>4, <2>1, <3>2
    <3> QED
      BY <1>4, <1>10, <3>1, <3>3
  <2>2. tip' = dbTip' /\ tip' \in Chains /\ DOMAIN orderCache' = {} /\ DOMAIN orderHeight' = {}
    BY <1>1, <1>4
  <2> QED
    BY <2>1, <2>2, AtRest
<1>14. RecordsFit'
  <2>1. ASSUME NEW k \in DOMAIN swUndo' PROVE k \in 0 .. n /\ Fits(swUndo'[k])
    <3>0. k \in Int
      <4>1. DOMAIN swUndo' \subseteq DOMAIN swUndo \cup Range(orderHeight)
        BY DEF SwapFlush, Recorded, Pruned, Restrict, KeysAt
      <4>2. \A j \in Range(orderHeight) : j \in Int
        BY <1>1, <1>2 DEF Range
      <4> QED
        BY <1>1, <1>9, <2>1, <4>1, <4>2
    <3>1. CASE StagedAt(k) # {}
      <4>1. swUndo'[k] = [q \in KeysOf(StagedAt(k)) |-> Get(swTable, q)]
        BY <1>11, <3>0, <3>1
      <4>2. \A q : Get(swTable, q) = {} \/ \E v : Get(swTable, q) = {v}
        BY DEF Get
      <4>3. Fits(swUndo'[k])
        BY <4>1, <4>2 DEF Fits
      <4>4. k \in n0 + 1 .. n
        BY <1>8, <3>0, <3>1
      <4> QED
        BY <1>1, <4>3, <4>4
    <3>2. CASE StagedAt(k) = {}
      <4>1. k \in DOMAIN swUndo /\ swUndo'[k] = swUndo[k]
        BY <1>11, <2>1, <3>0, <3>2
      <4>2. k \in 0 .. n0 /\ Fits(swUndo[k])
        BY <1>9, <4>1
      <4> QED
        BY <1>1, <4>1, <4>2
    <3> QED
      BY <3>1, <3>2
  <2> QED
    BY <2>1 DEF RecordsFit, n
<1>15. PICK G : \A k \in 0 .. n : G[k] = IF k <= n0 THEN H[k] ELSE FlushOf(Stage(k))
  <2> DEFINE F == [k \in 0 .. n |-> IF k <= n0 THEN H[k] ELSE FlushOf(Stage(k))]
  <2>1. \A k \in 0 .. n : F[k] = IF k <= n0 THEN H[k] ELSE FlushOf(Stage(k))
    OBVIOUS
  <2> QED
    BY <2>1
<1>16. Alike(G[n0], swTable) /\ \A k \in n0 .. n : Alike(G[k], FlushOf(Stage(k)))
  <2>1. Alike(G[n0], swTable)
    BY <1>1, <1>3, <1>15 DEF Tables, n0
  <2>2. Stage(n0) = {}
    BY <1>1, <1>2 DEF Stage
  <2>3. Alike(FlushOf(Stage(n0)), swTable)
    BY <2>2, NoStage
  <2>4. ASSUME NEW k \in n0 .. n PROVE Alike(G[k], FlushOf(Stage(k)))
    <3>1. CASE k = n0
      BY <2>1, <2>3, <3>1 DEF Alike
    <3>2. CASE k # n0
      <4>1. G[k] = FlushOf(Stage(k))
        BY <1>1, <1>15, <3>2
      <4> QED
        BY <4>1 DEF Alike
    <3> QED
      BY <3>1, <3>2
  <2> QED
    BY <2>1, <2>4
<1>17. Tables(G)'
  <2>1. Alike(G[n], swTable')
    BY <1>1, <1>4, <1>16
  <2>2. ASSUME NEW k \in W
        PROVE  /\ Sound(G[k])
               /\ \A id : id \notin blurred' => Open(Get(G[k], OrderKey(id))) = BookFor(Pre(tip, k), id)
               /\ k - 1 \in W => Alike(G[k - 1], Reverted(G[k], swUndo', k))
    <3>1. k \in 0 .. n /\ k \in Int /\ k >= high
      BY <1>1, <1>19, <2>2
    <3>2. CASE k <= n0
      <4>1. k \in Window /\ G[k] = H[k] /\ k \in 0 .. n0
        BY <1>1, <1>15, <1>18, <1>19, <3>1, <3>2
      <4>2. /\ Sound(H[k])
            /\ \A id : id \notin blurred => Open(Get(H[k], OrderKey(id))) = BookFor(Pre(dbTip, k), id)
            /\ k - 1 \in Window => Alike(H[k - 1], Reverted(H[k], swUndo, k))
        BY <1>3, <4>1 DEF Tables
      <4>3. ASSUME k - 1 \in W PROVE Alike(G[k - 1], Reverted(G[k], swUndo', k))
        <5>1. /\ k - 1 \in Window /\ k - 1 \in 0 .. n /\ k - 1 <= n0 /\ k > n - ReorgLimit
          <6>1. k - 1 \in 0 .. n /\ k - 1 >= high
            BY <1>19, <4>3
          <6>2. k - 1 \in 0 .. n0 /\ k - 1 >= low /\ k > n - ReorgLimit
            BY <1>1, <1>18, <3>1, <3>2, <6>1
          <6> QED
            BY <1>1, <1>19, <6>1, <6>2
        <5>2. G[k - 1] = H[k - 1]
          BY <1>15, <5>1
        <5>3. StagedAt(k) = {}
          BY <1>1, <1>8, <3>1, <3>2
        <5>4. /\ k \in DOMAIN swUndo' <=> k \in DOMAIN swUndo
              /\ k \in DOMAIN swUndo => swUndo'[k] = swUndo[k]
          BY <1>11, <3>1, <5>1, <5>3
        <5>5. Reverted(H[k], swUndo', k) = Reverted(H[k], swUndo, k)
          BY <5>4, SameRecord
        <5> QED
          BY <4>1, <4>2, <5>1, <5>2, <5>5
      <4> QED
        BY <1>4, <1>10, <4>1, <4>2, <4>3
    <3>3. CASE ~(k <= n0)
      <4>1. G[k] = FlushOf(Stage(k)) /\ k \in n0 .. n /\ k - 1 \in n0 .. n /\ k - 1 \in 0 .. n
        BY <1>1, <1>15, <3>1, <3>3
      <4>2. Sound(G[k])
        BY <3>1, <4>1, StageRows
      <4>3. ASSUME NEW id, id \notin blurred'
            PROVE  Open(Get(G[k], OrderKey(id))) = BookFor(Pre(tip, k), id)
        <5>1. Open(Get(FlushOf(Stage(k)), OrderKey(id))) = OpenAt(k, id)
          BY <3>1, StageRows
        <5> QED
          BY <1>2, <1>4, <4>1, <4>3, <5>1
      <4>4. Alike(FlushOf(Stage(k - 1)), Reverted(FlushOf(Stage(k)), swUndo', k))
        <5>1. k \in DOMAIN swUndo' =>
                StagedAt(k) # {} /\ swUndo'[k] = [q \in KeysOf(StagedAt(k)) |-> Get(swTable, q)]
          <6>1. k \notin DOMAIN swUndo
            BY <1>1, <1>9, <3>1, <3>3
          <6> QED
            BY <1>11, <3>1, <6>1
        <5>2. k \notin DOMAIN swUndo' => StagedAt(k) = {}
          BY <1>11, <3>1
        <5>3. PICK log : log = swUndo'
          OBVIOUS
        <5>4. Alike(FlushOf(Stage(k - 1)), Reverted(FlushOf(Stage(k)), log, k))
          <6>1. StagedAt(k) = {id \in DOMAIN orderHeight : orderHeight[id] = k}
            BY DEF StagedAt
          <6> QED
            BY <3>1, <5>1, <5>2, <5>3, <6>1, StageStep
        <5> QED
          BY <5>3, <5>4
      <4>5. Alike(G[k - 1], Reverted(G[k], swUndo', k))
        <5>1. Alike(G[k - 1], FlushOf(Stage(k - 1)))
          BY <1>16, <4>1
        <5> QED
          BY <4>1, <4>4, <5>1 DEF Alike
      <4> QED
        BY <4>2, <4>3, <4>5
    <3> QED
      BY <3>2, <3>3
  <2> QED
    BY <1>19, <2>1, <2>2 DEF Tables, n
<1> QED
  BY <1>12, <1>13, <1>14, <1>17 DEF BookInv

\* A block is undone (flush_backup).
LEMMA BookBackup ==
    ASSUME BookInv, tip = dbTip, tip # FirstTip, Len(tip) > top - ReorgLimit,
           tip' = Front(tip), dbTip' = Front(tip), top' = top, SwapBackup(Len(tip))
    PROVE  BookInv'
<1> DEFINE n == Len(tip)
<1>1. /\ n \in Nat /\ n # 0 /\ tip \in Chains /\ Front(tip) \in Blocks /\ Front(tip) \in Chains
      /\ Front(tip) = Pre(tip, n - 1) /\ Len(Front(tip)) = n - 1
      /\ top \in Int /\ n <= top /\ ReorgLimit \in Nat
  <2>1. tip \in Blocks /\ top \in Int /\ n <= top
    BY DEF BookInv, ChainsFit
  <2> QED
    BY <2>1, BlocksAre, BlocksAssumption
<1>2. PICK H : Tables(H)
  BY DEF BookInv
<1>3. PICK low \in Int : low = top - ReorgLimit
  BY <1>1
<1>4. Window = {k \in 0 .. n : k >= low} /\ Window' = {k \in 0 .. n - 1 : k >= low}
  BY <1>1, <1>3 DEF Window
<1>5. n > low
  BY <1>3
<1>6. /\ orderCache' = orderCache /\ orderHeight' = orderHeight /\ blurred' = blurred
      /\ swTable' = Reverted(swTable, swUndo, n)
      /\ DOMAIN swUndo' = DOMAIN swUndo \ {n}
      /\ \A k \in DOMAIN swUndo' : swUndo'[k] = swUndo[k]
  BY DEF SwapBackup, Forgotten, Restrict
<1>7. Pre(tip, n) = tip /\ \A k \in 0 .. n - 1 : Pre(Front(tip), k) = Pre(tip, k)
  <2>1. n \in 0 .. Len(tip) /\ n - 1 \in 0 .. Len(tip)
    BY <1>1
  <2>2. Pre(tip, n) = tip
    BY <1>1, <2>1, PrefixIs DEF Chains
  <2>3. PICK m \in 0 .. Len(tip) : m = n - 1
    BY <2>1
  <2>4. \A k \in 0 .. m : Pre(Pre(tip, m), k) = Pre(tip, k)
    BY <1>1, PrefixIs DEF Chains
  <2> QED
    BY <1>1, <2>2, <2>3, <2>4
<1>8. \A k \in DOMAIN swUndo : k \in 0 .. n /\ Fits(swUndo[k])
  BY DEF BookInv, RecordsFit
<1>9. Alike(H[n], swTable)
  BY <1>2 DEF Tables
<1>10. \A k \in Window :
         /\ Sound(H[k])
         /\ \A id : id \notin blurred => Open(Get(H[k], OrderKey(id))) = BookFor(Pre(tip, k), id)
         /\ k - 1 \in Window => Alike(H[k - 1], Reverted(H[k], swUndo, k))
  BY <1>2 DEF Tables
<1>11. DOMAIN orderCache = {} /\ DOMAIN orderHeight = {}
  <2>1. /\ DOMAIN orderCache = DOMAIN orderHeight
        /\ \A id \in DOMAIN orderHeight : orderHeight[id] \in n + 1 .. n
    BY DEF BookInv, CacheFollows, WellFormed, Staging
  <2>2. n + 1 .. n = {}
    BY <1>1
  <2> QED
    BY <2>1, <2>2
<1> HIDE DEF n
<1>12. Alike(H[n - 1], swTable')
  <2>1. n \in Window /\ n - 1 \in Window
    BY <1>1, <1>4, <1>5
  <2>2. Alike(H[n - 1], Reverted(H[n], swUndo, n))
    BY <1>10, <2>1
  <2>3. Alike(Reverted(H[n], swUndo, n), Reverted(swTable, swUndo, n))
    BY <1>8, <1>9, RevertedAlike
  <2> QED
    BY <1>6, <2>2, <2>3 DEF Alike
<1>13. ChainsFit'
  <2>1. Len(dbTip') \in 0 .. Len(dbTip') /\ dbTip' \in Chains
    BY <1>1
  <2>2. dbTip' = Pre(tip', Len(dbTip'))
    BY <2>1, PrefixIs DEF Chains
  <2>3. top' - ReorgLimit <= Len(dbTip') /\ Len(dbTip') <= top'
    BY <1>1, <1>3, <1>5
  <2> QED
    BY <1>1, <2>2, <2>3 DEF ChainsFit
<1>14. CacheFollows'
  <2>1. ASSUME NEW id, id \notin blurred'
        PROVE  Open(Get(swTable', OrderKey(id))) = BookFor(tip', id)
    <3>1. n - 1 \in Window
      BY <1>1, <1>4, <1>5
    <3>2. Open(Get(H[n - 1], OrderKey(id))) = BookFor(Pre(tip, n - 1), id)
      BY <1>6, <1>10, <2>1, <3>1
    <3> QED
      BY <1>1, <1>12, <3>2 DEF Alike
  <2>2. tip' = dbTip' /\ tip' \in Chains /\ DOMAIN orderCache' = {} /\ DOMAIN orderHeight' = {}
    BY <1>1, <1>6, <1>11
  <2> QED
    BY <2>1, <2>2, AtRest
<1>15. RecordsFit'
  <2>1. ASSUME NEW k \in DOMAIN swUndo' PROVE k \in 0 .. n - 1 /\ Fits(swUndo'[k])
    BY <1>1, <1>6, <1>8
  <2> QED
    BY <1>1, <2>1 DEF RecordsFit
<1> DEFINE W == {k \in 0 .. n - 1 : k >= low}
<1>16. Tables(H)'
  <2>1. ASSUME NEW k \in W
        PROVE  /\ Sound(H[k])
               /\ \A id : id \notin blurred' =>
                    Open(Get(H[k], OrderKey(id))) = BookFor(Pre(Front(tip), k), id)
               /\ k - 1 \in W => Alike(H[k - 1], Reverted(H[k], swUndo', k))
    <3>1. k \in Window /\ k \in 0 .. n - 1 /\ k # n
      BY <1>1, <1>4
    <3>2. ASSUME k - 1 \in W PROVE Alike(H[k - 1], Reverted(H[k], swUndo', k))
      <4>1. k - 1 \in Window
        BY <1>1, <1>4, <3>2
      <4>2. /\ k \in DOMAIN swUndo' <=> k \in DOMAIN swUndo
            /\ k \in DOMAIN swUndo => swUndo'[k] = swUndo[k]
        BY <1>6, <3>1
      <4>3. Reverted(H[k], swUndo', k) = Reverted(H[k], swUndo, k)
        BY <4>2, SameRecord
      <4> QED
        BY <1>10, <3>1, <4>1, <4>3
    <3> QED
      BY <1>6, <1>7, <1>10, <3>1, <3>2
  <2>2. Alike(H[Len(dbTip')], swTable')
    BY <1>1, <1>12
  <2> QED
    BY <1>4, <2>1, <2>2 DEF Tables
<1> QED
  BY <1>13, <1>14, <1>15, <1>16 DEF BookInv

\* What leaves the chain and the book as they are.
LEMMA BookStays ==
    ASSUME BookInv, tip' = tip, dbTip' = dbTip, top' = top, swVars' = swVars
    PROVE  BookInv'
<1>1. /\ orderCache' = orderCache /\ orderHeight' = orderHeight /\ swTable' = swTable
      /\ swUndo' = swUndo /\ blurred' = blurred
  BY DEF swVars
<1>2. ChainsFit'
  BY DEF BookInv, ChainsFit
<1>3. CacheFollows'
  BY <1>1 DEF BookInv, CacheFollows, WellFormed, Staging, OpenAt
<1>4. RecordsFit'
  BY <1>1 DEF BookInv, RecordsFit
<1>5. PICK H : Tables(H)
  BY DEF BookInv
<1>6. Window' = Window
  BY DEF Window
<1>7. Tables(H)'
  BY <1>1, <1>5, <1>6 DEF Tables
<1> QED
  BY <1>2, <1>3, <1>4, <1>7 DEF BookInv

\* Every step.
LEMMA BookNext == BookInv /\ [Next]_vars => BookInv'
<1> SUFFICES ASSUME BookInv, [Next]_vars PROVE BookInv'
  OBVIOUS
<1>1. ASSUME Commit PROVE BookInv'
  <2>1. /\ Len(tip) # Len(dbTip) /\ tip' = tip /\ dbTip' = tip
        /\ top' = Max({top, Len(tip)}) /\ SwapFlush(Len(tip))
    BY <1>1 DEF Commit
  <2> QED
    BY <2>1, BookCommit
<1>2. CASE Advance
  <2>1. PICK b \in Blocks \ {FirstTip} : /\ Front(b) = tip /\ tip' = b /\ SwapAdvance(b, dbTip)
                                         /\ dbTip' = dbTip /\ top' = top
    BY <1>2 DEF Advance
  <2> QED
    BY <2>1, BookAdvance
<1>3. CASE Flush
  BY <1>1, <1>3 DEF Flush
<1>4. CASE FlushKilled
  BY <1>1, <1>4 DEF FlushKilled
<1>5. CASE Backup
  <2>1. /\ tip = dbTip /\ tip # FirstTip /\ Len(tip) > top - ReorgLimit
        /\ tip' = Front(tip) /\ dbTip' = Front(tip) /\ top' = top /\ SwapBackup(Len(tip))
    BY <1>5 DEF Backup
  <2> QED
    BY <2>1, BookBackup
<1>6. CASE Restart
  <2>1. tip' = dbTip /\ dbTip' = dbTip /\ top' = top /\ SwapRestart
    BY <1>6 DEF Restart
  <2> QED
    BY <2>1, BookRestart
<1>7. CASE RecordKeyReveal \/ AskContracts \/ Deny \/ UNCHANGED vars
  <2>1. tip' = tip /\ dbTip' = dbTip /\ top' = top /\ swVars' = swVars
    BY <1>7 DEF RecordKeyReveal, AskContracts, Deny, vars
  <2> QED
    BY <2>1, BookStays
<1> QED
  BY <1>2, <1>3, <1>4, <1>5, <1>6, <1>7 DEF Next

\* The invariant, for every chain of blocks.
LEMMA BookAlways == Spec => []BookInv
<1> QED
  BY BookInit, BookNext, PTL DEF Spec

(* The rows of the three tables agree, at every moment: an order is in its pair's book and
   in its maker's list while it is open and no longer, and what is listed has an order,
   whatever the blocks, flushes, reorgs within the limit and restarts. *)
THEOREM TablesAlwaysAgree == Spec => []TablesAgree
<1>1. BookInv => TablesAgree
  <2> SUFFICES ASSUME BookInv PROVE TablesAgree
    OBVIOUS
  <2>1. Sound(swTable)
    BY TopTable
  <2>2. \A k : Get(swTable, k) # {} <=> k \in DOMAIN swTable
    BY DEF Get
  <2>3. \A id : id \in OrderIds <=> OrderKey(id) \in DOMAIN swTable
    BY <2>1, <2>2, OrderKeys DEF OrderIds, Sound
  <2>4. ASSUME NEW id \in OrderIds,
               NEW k \in PairKeys(id, swTable[OrderKey(id)]) \cup MakerKeys(id, swTable[OrderKey(id)])
        PROVE  k \in DOMAIN swTable <=> swTable[OrderKey(id)].status = "open"
    <3>1. swTable[OrderKey(id)] \in Get(swTable, OrderKey(id))
      BY <2>3 DEF Get
    <3> QED
      BY <2>1, <2>2, <3>1 DEF Sound
  <2>5. ASSUME NEW k \in DOMAIN swTable, k[1] # "order" PROVE Last(k) \in OrderIds
    BY <2>1, <2>2, <2>3, <2>5 DEF Sound
  <2> QED
    BY <2>4, <2>5 DEF TablesAgree
<1> QED
  BY <1>1, BookAlways, PTL

(* The open orders of the DB are those of its chain, for every chain and every order of
   blocks, flushes, reorgs within the limit and restarts, but for the orders whose rows depend
   on where the flushes fell. *)
THEOREM BookAlwaysFollows == Spec => []BookFollowsChain
<1>1. BookInv => BookFollowsChain
  <2> SUFFICES ASSUME BookInv PROVE BookFollowsChain
    OBVIOUS
  <2>1. /\ Sound(swTable)
        /\ \A id : id \notin blurred => Open(Get(swTable, OrderKey(id))) = BookFor(dbTip, id)
    BY TopTable
  <2>2. \A k : Get(swTable, k) # {} <=> k \in DOMAIN swTable
    BY DEF Get
  <2>3. \A id : id \in OrderIds <=> OrderKey(id) \in DOMAIN swTable
    BY <2>1, <2>2, OrderKeys DEF OrderIds, Sound
  <2>4. \A y : y \in OpenOrders <=> y = <<y[1], y[2]>> /\ y[2] \in Open(Get(swTable, OrderKey(y[1])))
    <3>1. \A y : y \in OpenOrders <=>
            \E id \in OrderIds : /\ swTable[OrderKey(id)].status = "open"
                                 /\ y = <<id, swTable[OrderKey(id)]>>
      BY DEF OpenOrders
    <3>2. \A id, o : o \in Open(Get(swTable, OrderKey(id))) <=>
            id \in OrderIds /\ o = swTable[OrderKey(id)] /\ o.status = "open"
      BY <2>3 DEF Open, Get
    <3>3. ASSUME NEW y, y \in OpenOrders
          PROVE  y = <<y[1], y[2]>> /\ y[2] \in Open(Get(swTable, OrderKey(y[1])))
      <4>1. PICK id \in OrderIds : /\ swTable[OrderKey(id)].status = "open"
                                   /\ y = <<id, swTable[OrderKey(id)]>>
        BY <3>1, <3>3
      <4>2. y[1] = id /\ y[2] = swTable[OrderKey(id)]
        BY <4>1
      <4> QED
        BY <3>2, <4>1, <4>2
    <3>4. ASSUME NEW y, y = <<y[1], y[2]>>, y[2] \in Open(Get(swTable, OrderKey(y[1])))
          PROVE  y \in OpenOrders
      BY <3>1, <3>2, <3>4
    <3> QED
      BY <3>3, <3>4
  <2>5. \A y : y \in BookOf(dbTip) <=> y = <<y[1], y[2]>> /\ y[2] \in BookFor(dbTip, y[1])
    BY BookIs
  <2>6. \A y : y[1] \notin blurred => (y \in OpenOrders <=> y \in BookOf(dbTip))
    BY <2>1, <2>4, <2>5
  <2>7. BookAt[dbTip] = BookOf(dbTip)
    BY DEF BookAt, BookInv, ChainsFit
  <2> QED
    BY <2>6, <2>7 DEF BookFollowsChain
<1> QED
  BY <1>1, BookAlways, PTL
=============================================================================
