------------------------- MODULE ChainStore_proofs -------------------------
(***************************************************************************)
(* Proofs about ChainStore: for every tree of blocks, every history, every *)
(* reorg limit and any number of flushes, kills and reorgs.                *)
(*                                                                         *)
(* The invariant is built in five layers, each inductive given the ones    *)
(* below it: types and control, the memory of the block processor against  *)
(* the committed state, the rows of the history DB, the flat files, and    *)
(* the UTXO tables with the records that undo their blocks.                *)
(***************************************************************************)
EXTENDS ChainStore, TLAPS

InBackup == {"backup_history", "backup_utxos"}
Flushing == {"flush_txcounts", "flush_hashes", "flush_history", "flush_utxos"}

\* Layer 1: types, and what the control state says of the counters
Control ==
  /\ pc \in Flushing => tip \in Blocks
  /\ pc \in Flushing \ {"flush_utxos"} => histFlushCount < MaxFlushes
  /\ pc = "run" /\ tip = NoBlock => dbTip = NoBlock
  /\ pc = "backup" => tip = dbTip /\ backups \in 1..Height[tip]
  /\ pc \in InBackup =>
       /\ dbTip \in Blocks /\ tip = Parent[dbTip]
       /\ backups \in 1..Height[dbTip]
       /\ undo[Height[dbTip]] \in Blocks
TypeInv == TypeOK /\ Control

\* blocks connected since the last commit
New == Chain[tip] \ Chain[dbTip]

\* Layer 2: the memory of the block processor, and the two flush counts
Memory ==
  /\ pc \in {"down", "opening"} \cup InBackup \cup {"backup"} =>
       headers = {} /\ unflushed = {}
  /\ pc \in {"run"} \cup Flushing =>
       /\ dbTip \in Chain[tip] \cup {NoBlock}
       /\ pc \in {"run", "flush_txcounts", "flush_hashes"} => headers = New
       /\ pc \in {"flush_history", "flush_utxos"} => headers = {}
       /\ unflushed = IF pc = "flush_utxos" THEN {} ELSE Entries(New)
  /\ pc = "backup_history" => HashXsOf(dbTip) \subseteq touched
Counts ==
  /\ utxoFlushCount <= histFlushCount
  /\ pc \notin {"down", "flush_utxos", "backup_utxos"} =>
       utxoFlushCount = histFlushCount
  /\ pc = "flush_utxos" => utxoFlushCount < histFlushCount
  /\ lost \subseteq Chain[dbTip]
MemInv == Memory /\ Counts

\* Layer 3: the rows of the history DB
NewRows == {<<r[1], r[3]>> : r \in {s \in hist : s[2] > utxoFlushCount}}
HistInv ==
  /\ HistoryExact
  /\ RowsInOrder
  /\ pc = "flush_utxos" => NewRows = Entries(New)
  /\ pc = "backup_utxos" => \A r \in hist : r[2] <= utxoFlushCount

\* Layer 4: the flat files cover the committed chain, and each file the
\* uncommitted blocks too once the running flush has written it
FilesInv ==
  /\ FilesCoverTip
  /\ pc \in Flushing => \A b \in Chain[tip] : headersFile[Height[b]] = b
  /\ pc \in Flushing \ {"flush_txcounts"} =>
       \A b \in Chain[tip] : txCountsFile[Height[b]] = TxCount[b]
  /\ pc \in {"flush_history", "flush_utxos"} =>
       \A b \in Chain[tip] : \A n \in TxNums(b) : hashesFile[n] = b

\* Layer 5: the UTXO tables, their cache and the undo records. Blocks still
\* to be committed have their undo info in memory if they are in the window of
\* the daemon's height (which only grows); a block being backed up has its own
\* undo record, though the window may since have moved past it.
Caches ==
  /\ Height[tip] <= daemonHeight /\ Height[dbTip] <= daemonHeight
  /\ utxoCache = IF pc \in {"run"} \cup Flushing THEN New ELSE {}
  /\ undoInfos \subseteq utxoCache
UndoKept ==
  pc \in {"run"} \cup Flushing =>
    \A b \in New : Height[b] >= min_undo_height(daemonHeight) =>
      b \in undoInfos /\ rawBlocks[Height[b]] \in {NoBlock, b}
UndoOwn == pc \in InBackup => pastLimit \/ undo[Height[dbTip]] = dbTip
UndoInv == Caches /\ UtxosMatchTip /\ UndoReady /\ UndoKept /\ UndoOwn

IInv == TypeInv /\ MemInv /\ HistInv /\ FilesInv /\ UndoInv

----------------------------------------------------------------------------
(* The tree of blocks *)

\* A chain has its tip, and with a block the block's whole chain.
LEMMA ChainBasics ==
  /\ \A b \in Blocks : b \in Chain[b]
  /\ \A t \in Tips : Chain[t] \subseteq Blocks
  /\ \A t \in Tips : \A b \in Chain[t] : Chain[b] \subseteq Chain[t]
  /\ \A t \in Tips : t \in Chain[t] \cup {NoBlock}
  BY TreeAssumption DEF Tips

\* A block's height, tx counts and tx numbers are within the bounds.
LEMMA HeightTypes ==
  ASSUME NEW b \in Blocks
  PROVE  /\ Height[b] \in 0..MaxHeight
         /\ Parent[b] \in Tips
         /\ TxCount[b] \in Nat
         /\ TxCount[Parent[b]] \in Nat
         /\ TxNums(b) \subseteq 0..MaxTxCount-1
  BY TreeAssumption, BoundAssumption DEF Tips, TxNums

\* a block is in no chain of its ancestors
LEMMA ChainOfParent ==
  ASSUME NEW b \in Blocks
  PROVE  Chain[Parent[b]] = Chain[b] \ {b}
<1>1. Chain[b] = Chain[Parent[b]] \cup {b} /\ Parent[b] \in Tips
  BY TreeAssumption
<1>2. b \notin Chain[Parent[b]]
  <2>1. CASE Parent[b] = NoBlock
    BY <2>1, TreeAssumption
  <2>2. CASE Parent[b] \in Blocks
    <3>1. SUFFICES ASSUME b \in Chain[Parent[b]] PROVE FALSE
      OBVIOUS
    <3>2. Height[b] <= Height[Parent[b]]
      BY <2>2, <3>1, TreeAssumption DEF Tips
    <3> QED
      BY <2>2, <3>2, TreeAssumption DEF Tips
  <2> QED
    BY <1>1, <2>1, <2>2 DEF Tips
<1> QED
  BY <1>1, <1>2

\* along a chain, the heights and tx numbers after a point are above it
LEMMA AfterInChain ==
  ASSUME NEW t \in Tips, NEW d \in Chain[t] \cup {NoBlock},
         NEW c \in Chain[t] \ Chain[d]
  PROVE  /\ Height[d] < Height[c]
         /\ TxCount[d] <= TxCount[Parent[c]]
<1>1. t \in Blocks /\ c \in Blocks /\ d \in Tips /\ Parent[c] \in Tips
  BY TreeAssumption DEF Tips
<1>2. CASE d = NoBlock
  BY <1>1, <1>2, TreeAssumption DEF Tips
<1>3. CASE d \in Chain[t]
  <2>1. d \in Blocks /\ d \in Chain[c] /\ d # c
    BY <1>1, <1>3, ChainBasics, TreeAssumption
  <2>2. d \in Chain[Parent[c]]
    BY <1>1, <2>1, ChainOfParent
  <2>3. Parent[c] \in Blocks
    BY <1>1, <2>2, TreeAssumption DEF Tips
  <2>4. TxCount[d] <= TxCount[Parent[c]]
    BY <2>2, <2>3, TreeAssumption
  <2>5. Height[d] < Height[c]
    BY <1>1, <2>1, TreeAssumption
  <2> QED
    BY <2>4, <2>5
<1> QED
  BY <1>2, <1>3

\* one block per height, and per tx number, along a chain
LEMMA OnePerPlace ==
  ASSUME NEW t \in Tips, NEW b \in Chain[t], NEW c \in Chain[t], b # c
  PROVE  Height[b] # Height[c] /\ TxNums(b) \cap TxNums(c) = {}
<1>1. t \in Blocks /\ b \in Blocks /\ c \in Blocks
  BY TreeAssumption DEF Tips
<1>2. ASSUME NEW x \in Chain[t], NEW y \in Chain[t], x # y, x \in Chain[y]
      PROVE  Height[x] < Height[y] /\ TxCount[x] <= TxCount[Parent[y]]
  <2>1. x \in Blocks /\ y \in Blocks /\ y \in Tips
    BY <1>1, <1>2, TreeAssumption DEF Tips
  <2>2. y \notin Chain[x]
    BY <1>2, <2>1, TreeAssumption DEF Tips
  <2> QED
    BY <1>2, <2>1, <2>2, ChainBasics, AfterInChain
<1>3. b \in Chain[c] \/ c \in Chain[b]
  BY <1>1, TreeAssumption
<1>4. CASE b \in Chain[c]
  BY <1>1, <1>2, <1>4, HeightTypes DEF TxNums
<1>5. CASE c \in Chain[b]
  BY <1>1, <1>2, <1>5, HeightTypes DEF TxNums
<1> QED
  BY <1>3, <1>4, <1>5

----------------------------------------------------------------------------
(* Layer 1: types and control *)

USE DEF Phases, Flushing, InBackup, Tips

\* Writing blocks into a table by height gives such a table.
LEMMA TablesTyped ==
  ASSUME NEW table \in [0..MaxHeight -> Tips], NEW S \in SUBSET Blocks
  PROVE  WithBlocks(table, S) \in [0..MaxHeight -> Tips]
<1> DEFINE At(h) == CHOOSE b \in S : Height[b] = h
<1>1. \A h : (\E b \in S : Height[b] = h) => At(h) \in Blocks
  OBVIOUS
<1>2. DOMAIN table = 0..MaxHeight
  OBVIOUS
<1> HIDE DEF At
<1>3. WithBlocks(table, S) =
        [h \in 0..MaxHeight |->
           IF \E b \in S : Height[b] = h THEN At(h) ELSE table[h]]
  BY <1>2 DEF WithBlocks, At
<1> QED
  BY <1>1, <1>3

\* The initial state is typed.
LEMMA TypeInit == Init => TypeInv
<1> SUFFICES ASSUME Init PROVE TypeInv
  OBVIOUS
<1>1. TypeOK
  <2>1. pastLimit \in BOOLEAN
    BY Zenon DEF Init
  <2>2. /\ headersFile \in [0..MaxHeight -> Tips]
        /\ txCountsFile \in [0..MaxHeight -> Nat]
        /\ hashesFile \in [0..MaxTxCount-1 -> Tips]
        /\ rawBlocks \in [0..MaxHeight -> Tips]
        /\ undo \in [0..MaxHeight -> Tips]
    BY DEF Init
  <2> QED
    BY BoundAssumption, <2>1, <2>2 DEF Init, TypeOK
<1>2. Control
  BY DEF Init, Control
<1> QED
  BY <1>1, <1>2 DEF TypeInv

\* Undoing one of n blocks leaves one fewer to undo, of one fewer.
LEMMA CountDown ==
  ASSUME NEW n \in Int, NEW m \in 1..n, m # 1
  PROVE  m - 1 \in 1..(n - 1)
  OBVIOUS

\* Every step keeps the types and what the control state says.
LEMMA TypeStep == TypeInv /\ [Next]_vars => TypeInv'
<1> SUFFICES ASSUME TypeInv, [Next]_vars PROVE TypeInv'
  OBVIOUS
<1> USE DEF TypeInv, TypeOK, Control
<1> USE BoundAssumption
<1>0. /\ \A t \in Tips : Height[t] \in Int /\ TxCount[t] \in Nat
      /\ Height[NoBlock] = -1
      /\ \A b \in Blocks : Parent[b] \in Tips /\ Height[b] \in 0..MaxHeight
                           /\ Height[Parent[b]] = Height[b] - 1
  BY TreeAssumption
<1>1. CASE OpenHistory
  BY <1>1 DEF OpenHistory, clear_excess, memory, files, utxoDB, ghosts, histDB
<1>2. CASE FinishOpen
  <2>1. \A table \in [0..MaxHeight -> Tips] :
          clear_excess_undo_info(table) \in [0..MaxHeight -> Tips]
    BY DEF clear_excess_undo_info
  <2>2. undo' \in [0..MaxHeight -> Tips] /\ rawBlocks' \in [0..MaxHeight -> Tips]
    BY <1>2, <2>1 DEF FinishOpen
  <2> QED
    BY <1>2, <2>2 DEF FinishOpen, histDB, ghosts
<1>3. ASSUME NEW b \in Blocks, Advance(b) PROVE TypeInv'
  <2>1. Touches[b] \subseteq HashXs \X Nat /\ HashXsOf(b) \subseteq HashXs
    BY DataAssumption DEF HashXsOf
  <2>2. rawBlocks' \in [0..MaxHeight -> Tips]
    BY <1>3 DEF Advance, write_raw_block
  <2>3. TypeOK'
    BY <1>3, <2>1, <2>2 DEF Advance, histDB, utxoDB, ghosts
  <2>4. Control'
    BY <1>0, <1>3 DEF Advance
  <2> QED
    BY <2>3, <2>4
<1>4. CASE EndBatch
  BY <1>4 DEF EndBatch, files, histDB, utxoDB, ghosts
<1>5. CASE DaemonGrows
  BY <1>5 DEF DaemonGrows, memory, files, histDB, utxoDB, ghosts
<1>6. CASE FlushHeaders
  <2>1. tip \in Blocks
    BY <1>6 DEF FlushHeaders
  <2>2. WithBlocks(headersFile, headers) \in [0..MaxHeight -> Tips]
    BY TablesTyped
  <2>3. TypeOK'
    BY <1>6, <2>2 DEF FlushHeaders, memory, histDB, utxoDB, ghosts
  <2>4. Control'
    BY <1>6, <2>1 DEF FlushHeaders, memory, histDB, utxoDB
  <2> QED
    BY <2>3, <2>4
<1>7. CASE FlushTxCounts
  <2>1. txCountsFile' \in [0..MaxHeight -> Nat]
    <3> DEFINE At(h) == CHOOSE b \in headers : Height[b] = h
    <3>1. \A h : (\E b \in headers : Height[b] = h) => At(h) \in Blocks
      OBVIOUS
    <3>2. \A h : (\E b \in headers : Height[b] = h) => TxCount[At(h)] \in Nat
      BY <1>0, <3>1
    <3>3. txCountsFile' = [h \in 0..MaxHeight |->
                             IF \E b \in headers : Height[b] = h
                               THEN TxCount[At(h)] ELSE txCountsFile[h]]
      BY <1>7 DEF FlushTxCounts
    <3> HIDE DEF At
    <3> QED
      BY <3>2, <3>3
  <2> QED
    BY <1>7, <2>1 DEF FlushTxCounts, memory, histDB, utxoDB, ghosts
<1>8. CASE FlushHashes
  <2>1. hashesFile' \in [0..MaxTxCount-1 -> Tips]
    <3> DEFINE At(n) == CHOOSE b \in headers : n \in TxNums(b)
    <3>1. \A n : (\E b \in headers : n \in TxNums(b)) => At(n) \in Blocks
      OBVIOUS
    <3>2. hashesFile' = [n \in 0..MaxTxCount-1 |->
                           IF \E b \in headers : n \in TxNums(b)
                             THEN At(n) ELSE hashesFile[n]]
      BY <1>8 DEF FlushHashes
    <3> HIDE DEF At
    <3> QED
      BY <3>1, <3>2
  <2> QED
    BY <1>8, <2>1 DEF FlushHashes, histDB, utxoDB, ghosts
<1>9. CASE FlushHistory
  <2>1. hist' \subseteq HashXs \X Nat \X Nat
    BY <1>9 DEF FlushHistory
  <2> QED
    BY <1>9, <2>1 DEF FlushHistory, files, utxoDB, ghosts
<1>10. CASE FlushUtxos
  BY <1>10, TablesTyped DEF FlushUtxos, files, histDB, ghosts
<1>11. ASSUME NEW n \in 1..MaxHeight, StartReorg(n) PROVE TypeInv'
  BY <1>0, <1>11 DEF StartReorg, files, histDB, utxoDB, ghosts
<1>12. CASE BackupBlock
  <2>1. tip \in Blocks /\ Parent[tip] \in Tips
    BY <1>0, <1>12 DEF BackupBlock
  <2>2. HashXsOf(tip) \subseteq HashXs
    BY <2>1, DataAssumption DEF HashXsOf
  <2>3. undo[Height[tip]] \in Blocks
    BY <1>0, <1>12, <2>1 DEF BackupBlock
  <2>4. TypeOK'
    BY <1>12, <2>1, <2>2 DEF BackupBlock, files, histDB, utxoDB
  <2>5. Control'
    BY <1>12, <2>1, <2>3 DEF BackupBlock, utxoDB
  <2> QED
    BY <2>4, <2>5
<1>13. CASE BackupFails
  BY <1>13 DEF BackupFails, Forget, files, histDB, utxoDB, ghosts
<1>14. CASE BackupHistory
  <2>1. hist' \subseteq hist
    BY <1>14 DEF BackupHistory, BackedUp
  <2> QED
    BY <1>14, <2>1 DEF BackupHistory, memory, files, utxoDB, ghosts
<1>15. CASE BackupUtxos
  <2>1. /\ dbTip \in Blocks /\ tip = Parent[dbTip] /\ tip \in Tips
        /\ backups \in 1..Height[dbTip] /\ Height[tip] = Height[dbTip] - 1
        /\ undo[Height[dbTip]] \in Blocks
    BY <1>0, <1>15 DEF BackupUtxos
  <2>2. TypeOK'
    BY <1>15, <2>1 DEF BackupUtxos, files, histDB
  <2>3. Control'
    <3>1. CASE backups = 1
      BY <1>15, <2>1, <3>1 DEF BackupUtxos
    <3>2. CASE backups # 1
      <4>1. Height[dbTip] \in Int
        BY <2>1, HeightTypes
      <4>2. backups - 1 \in 1..Height[tip]
        BY <2>1, <3>2, <4>1, CountDown
      <4> QED
        BY <1>15, <2>1, <3>2, <4>2 DEF BackupUtxos
    <3> QED
      BY <3>1, <3>2
  <2> QED
    BY <2>2, <2>3
<1>16. CASE Crash
  BY <1>16 DEF Crash, Forget, files, histDB, utxoDB
<1>17. CASE UNCHANGED vars
  BY <1>17 DEF vars, memory, files, histDB, utxoDB, ghosts
<1> QED
  BY <1>1, <1>2, <1>3, <1>4, <1>5, <1>6, <1>7, <1>8, <1>9, <1>10, <1>11,
     <1>12, <1>13, <1>14, <1>15, <1>16, <1>17 DEF Next

\* Type correctness, with the counters of a running reorg in their range: a
\* reorg never backs up the genesis block nor more blocks than it counted.
THEOREM TypeCorrect == Spec => []TypeOK
<1>1. TypeInv => TypeOK
  BY DEF TypeInv
<1> QED
  BY <1>1, TypeInit, TypeStep, PTL DEF Spec

----------------------------------------------------------------------------
(* Layer 2: memory and flush counts *)

\* No blocks, no history entries.
LEMMA EntriesOfNone == \A S : Entries(S \ S) = {} /\ Entries({}) = {}
  BY DEF Entries

\* At the start the memory holds nothing.
LEMMA MemInit == Init => MemInv
  BY TreeAssumption DEF Init, MemInv, Memory, Counts

\* Every step keeps the memory that of the blocks between the two tips.
LEMMA MemStep ==
  TypeInv /\ TypeInv' /\ MemInv /\ [Next]_vars => MemInv'
<1> SUFFICES ASSUME TypeInv, TypeInv', MemInv, [Next]_vars PROVE MemInv'
  OBVIOUS
<1> USE DEF MemInv, Memory, Counts, New
<1>a. /\ histFlushCount \in Nat /\ utxoFlushCount \in Nat
      /\ tip \in Tips /\ dbTip \in Tips /\ pc \in Phases
      /\ tip' \in Tips /\ dbTip' \in Tips
  BY BoundAssumption DEF TypeInv, TypeOK
<1>1. CASE OpenHistory
  BY <1>a, <1>1
  DEF OpenHistory, clear_excess, memory, files, utxoDB, ghosts, histDB
<1>2. CASE FinishOpen
  <2>1. dbTip \in Chain[dbTip] \cup {NoBlock}
    BY <1>a, ChainBasics
  <2>2. Entries(Chain[dbTip] \ Chain[dbTip]) = {}
    BY EntriesOfNone
  <2> QED
    BY <1>2, <2>1, <2>2 DEF FinishOpen, histDB, ghosts
<1>3. ASSUME NEW b \in Blocks, Advance(b) PROVE MemInv'
  <2>1. Chain[b] = Chain[tip] \cup {b} /\ b \notin Chain[tip]
    BY <1>3, ChainOfParent, ChainBasics DEF Advance
  <2>2. Chain[dbTip] \subseteq Chain[tip]
    BY <1>a, <1>3, ChainBasics, TreeAssumption DEF Advance
  <2>3. Chain[b] \ Chain[dbTip] = New \cup {b}
    BY <2>1, <2>2
  <2>4. Entries(Chain[b] \ Chain[dbTip]) = Entries(New) \cup Touches[b]
    BY <2>3 DEF Entries
  <2>5. dbTip \in Chain[b] \cup {NoBlock}
    BY <1>3, <2>1 DEF Advance
  <2> QED
    BY <1>3, <2>3, <2>4, <2>5 DEF Advance, histDB, utxoDB, ghosts
<1>4. CASE EndBatch
  BY <1>4 DEF EndBatch, files, histDB, utxoDB, ghosts
<1>5. CASE DaemonGrows
  BY <1>5 DEF DaemonGrows, memory, files, histDB, utxoDB, ghosts
<1>6. CASE FlushHeaders
  BY <1>6 DEF FlushHeaders, memory, histDB, utxoDB, ghosts
<1>7. CASE FlushTxCounts
  BY <1>7 DEF FlushTxCounts, memory, histDB, utxoDB, ghosts
<1>8. CASE FlushHashes
  BY <1>8 DEF FlushHashes, histDB, utxoDB, ghosts
<1>9. CASE FlushHistory
  BY <1>a, <1>9 DEF FlushHistory, files, utxoDB, ghosts
<1>10. CASE FlushUtxos
  <2>1. tip \in Chain[tip] \cup {NoBlock}
    BY <1>a, ChainBasics
  <2>2. Entries(Chain[tip] \ Chain[tip]) = {}
    BY EntriesOfNone
  <2>3. Chain[dbTip] \subseteq Chain[tip]
    BY <1>a, <1>10, ChainBasics, TreeAssumption DEF FlushUtxos
  <2> QED
    BY <1>a, <1>10, <2>1, <2>2, <2>3 DEF FlushUtxos, files, histDB, ghosts
<1>11. ASSUME NEW n \in 1..MaxHeight, StartReorg(n) PROVE MemInv'
  <2>1. New = {}
    BY <1>11 DEF StartReorg
  <2>2. Entries(New) = {}
    BY <2>1, EntriesOfNone
  <2> QED
    BY <1>11, <2>1, <2>2 DEF StartReorg, files, histDB, utxoDB, ghosts
<1>12. CASE BackupBlock
  <2>1. tip = dbTip
    BY <1>12 DEF BackupBlock, TypeInv, Control
  <2> QED
    BY <1>12, <2>1 DEF BackupBlock, files, histDB, utxoDB
<1>13. CASE BackupFails
  BY <1>a, <1>13 DEF BackupFails, Forget, files, histDB, utxoDB, ghosts
<1>14. CASE BackupHistory
  BY <1>a, <1>14 DEF BackupHistory, memory, files, utxoDB, ghosts
<1>15. CASE BackupUtxos
  <2>1. dbTip \in Blocks /\ tip = Parent[dbTip]
    BY <1>15 DEF BackupUtxos, TypeInv, Control
  <2>2. lost \ {dbTip} \subseteq Chain[tip]
    BY <2>1, ChainOfParent
  <2>3. tip \in Chain[tip] \cup {NoBlock}
    BY <1>a, ChainBasics
  <2>4. Entries(Chain[tip] \ Chain[tip]) = {}
    BY EntriesOfNone
  <2> QED
    BY <1>a, <1>15, <2>1, <2>2, <2>3, <2>4 DEF BackupUtxos, files, histDB
<1>16. CASE Crash
  <2>1. pc = "backup_utxos" => dbTip \in Chain[dbTip]
    BY ChainBasics DEF TypeInv, Control
  <2> QED
    BY <1>a, <1>16, <2>1 DEF Crash, Forget, files, histDB, utxoDB
<1>17. CASE UNCHANGED vars
  BY <1>17 DEF vars, memory, files, histDB, utxoDB, ghosts
<1> QED
  BY <1>1, <1>2, <1>3, <1>4, <1>5, <1>6, <1>7, <1>8, <1>9, <1>10, <1>11,
     <1>12, <1>13, <1>14, <1>15, <1>16, <1>17 DEF Next

----------------------------------------------------------------------------
(* Layer 3: the rows of the history DB *)

\* the entries of a block take the tx numbers of its txs
LEMMA EntryPlace ==
  ASSUME NEW b \in Blocks, NEW e \in Touches[b]
  PROVE  /\ e \in HashXs \X Nat /\ e = <<e[1], e[2]>>
         /\ TxCount[Parent[b]] <= e[2] /\ e[2] < TxCount[b]
         /\ TxCount[b] \in Nat /\ TxCount[Parent[b]] \in Nat
  BY DataAssumption, HeightTypes

\* an entry of an earlier block of a chain is below the tx numbers of a later one
LEMMA EntriesAscend ==
  ASSUME NEW t \in Tips, NEW d \in Chain[t] \cup {NoBlock},
         NEW b \in Chain[d], NEW c \in Chain[t] \ Chain[d],
         NEW e \in Touches[b], NEW f \in Touches[c]
  PROVE  e[2] < f[2]
<1>1. d \in Blocks /\ b \in Blocks /\ c \in Blocks /\ d \in Tips
  BY TreeAssumption DEF Tips
<1>2. TxCount[b] <= TxCount[d] /\ TxCount[d] <= TxCount[Parent[c]]
  BY <1>1, AfterInChain, TreeAssumption
<1>3. TxCount[d] \in Nat
  BY <1>1, HeightTypes
<1> QED
  BY <1>1, <1>2, <1>3, EntryPlace

\* HistInv speaks of the history DB, the committed state and the phase only
LEMMA HistFrame ==
  ASSUME HistInv,
         UNCHANGED <<hist, histFlushCount, utxoFlushCount, dbTip, lost>>,
         \/ pc' = pc /\ tip' = tip
         \/ /\ pc \notin {"flush_utxos", "backup_utxos"}
            /\ pc' \notin {"flush_utxos", "backup_utxos"}
  PROVE  HistInv' /\ Recovered' = Recovered
<1>1. Recovered' = Recovered /\ NewRows' = NewRows
  BY DEF Recovered, NewRows
<1>2. Missing' = Missing
  BY DEF Missing
<1>3. HistoryExact'
  BY <1>1, <1>2 DEF HistInv, HistoryExact
<1>4. RowsInOrder'
  BY DEF HistInv, RowsInOrder
<1> QED
  BY <1>1, <1>3, <1>4 DEF HistInv, New

\* At the start there is no history.
LEMMA HistInit == Init => HistInv
<1> SUFFICES ASSUME Init PROVE HistInv
  OBVIOUS
<1>1. Chain[dbTip] \ Missing = {} /\ Recovered = {}
  BY TreeAssumption DEF Init, Recovered
<1> QED
  BY <1>1, EntriesOfNone DEF Init, HistInv, HistoryExact, RowsInOrder

\* History.flush adds rows that a restart would not recover yet.
LEMMA HistFlush ==
  ASSUME TypeInv, MemInv, HistInv, FlushHistory
  PROVE  HistInv' /\ Recovered' = Recovered
<1> DEFINE id == histFlushCount + 1
           new == {<<e[1], id, e[2]>> : e \in Entries(New)}
<1>1. /\ histFlushCount \in Nat /\ utxoFlushCount = histFlushCount
      /\ \A r \in hist : r[2] <= histFlushCount /\ r[2] \in Nat /\ r[3] \in Nat
      /\ unflushed = Entries(New)
      /\ tip \in Tips /\ dbTip \in Chain[tip] \cup {NoBlock}
      /\ pc' = "flush_utxos" /\ pc = "flush_history"
  BY BoundAssumption
  DEF TypeInv, TypeOK, MemInv, Memory, Counts, HistInv, RowsInOrder, FlushHistory
<1>2. UNCHANGED <<utxoFlushCount, dbTip, tip, lost>> /\ histFlushCount' = id
  BY DEF FlushHistory, utxoDB, ghosts
<1>3. hist' = hist \cup new
  BY <1>1 DEF FlushHistory
<1>4. \A e \in Entries(New) : e \in HashXs \X Nat /\ e = <<e[1], e[2]>>
  <2>1. New \subseteq Blocks
    BY <1>1, ChainBasics DEF New
  <2> QED
    BY <2>1, EntryPlace DEF Entries
<1>5. \A r \in new : r[2] = id /\ <<r[1], r[3]>> \in Entries(New) /\ r[3] \in Nat
  BY <1>4
<1>6. Recovered' = Recovered
  <2>1. \A r \in hist' : r[2] <= utxoFlushCount' <=> r \in hist
    BY <1>1, <1>2, <1>3, <1>5
  <2>2. {s \in hist' : s[2] <= utxoFlushCount'} = {s \in hist : s[2] <= utxoFlushCount}
    BY <1>1, <1>3, <2>1
  <2> QED
    BY <2>2 DEF Recovered
<1>7. HistoryExact'
  BY <1>1, <1>2, <1>6 DEF HistInv, HistoryExact, Missing
<1>8. NewRows' = Entries(New)'
  <2>1. {s \in hist' : s[2] > utxoFlushCount'} = new
    BY <1>1, <1>2, <1>3, <1>5
  <2>2. NewRows' = {<<r[1], r[3]>> : r \in new}
    BY <2>1 DEF NewRows
  <2>3. {<<r[1], r[3]>> : r \in new} = Entries(New)
    <3>1. {<<r[1], r[3]>> : r \in new} \subseteq Entries(New)
      BY <1>5
    <3>2. ASSUME NEW e \in Entries(New)
          PROVE  e \in {<<r[1], r[3]>> : r \in new}
      <4>1. <<e[1], id, e[2]>> \in new
        OBVIOUS
      <4>2. <<e[1], id, e[2]>>[1] = e[1] /\ <<e[1], id, e[2]>>[3] = e[2]
        OBVIOUS
      <4>3. e = <<e[1], e[2]>>
        BY <1>4
      <4> HIDE DEF new
      <4> QED
        BY <4>1, <4>2, <4>3
    <3> QED
      BY <3>1, <3>2
  <2> QED
    BY <1>2, <2>2, <2>3 DEF New
<1>9. ASSUME NEW r \in hist, NEW s \in new PROVE r[3] < s[3]
  <2>1. <<r[1], r[3]>> \in Recovered
    BY <1>1 DEF Recovered
  <2>2. <<r[1], r[3]>> \in Entries(Chain[dbTip])
    BY <2>1 DEF HistInv, HistoryExact, Entries
  <2>3. PICK b \in Chain[dbTip] : <<r[1], r[3]>> \in Touches[b]
    BY <2>2 DEF Entries
  <2>4. PICK c \in New : <<s[1], s[3]>> \in Touches[c]
    BY <1>5 DEF Entries
  <2> QED
    BY <1>1, <2>3, <2>4, EntriesAscend DEF New
<1>10. RowsInOrder'
  <2>1. ASSUME NEW r \in hist', NEW s \in hist', r[1] = s[1], r[2] < s[2]
        PROVE  r[3] < s[3]
    <3>1. r \notin new
      BY <1>1, <1>3, <1>5, <2>1
    <3>2. CASE s \in new
      BY <1>3, <1>9, <3>1, <3>2
    <3>3. CASE s \in hist
      BY <1>3, <2>1, <3>1, <3>3 DEF HistInv, RowsInOrder
    <3> QED
      BY <1>3, <3>2, <3>3
  <2>2. \A r \in hist' : r[2] <= histFlushCount'
    BY <1>1, <1>2, <1>3, <1>5
  <2> QED
    BY <2>1, <2>2 DEF RowsInOrder
<1> QED
  BY <1>1, <1>6, <1>7, <1>8, <1>10 DEF HistInv, Entries, New

\* flush_utxo_db with its flush count makes the new blocks' rows recoverable.
LEMMA HistCommit ==
  ASSUME TypeInv, MemInv, HistInv, FlushUtxos
  PROVE  HistInv' /\ Recovered' = Recovered \cup Entries(New)
<1>1. /\ histFlushCount \in Nat /\ utxoFlushCount \in Nat
      /\ utxoFlushCount < histFlushCount
      /\ hist \subseteq HashXs \X Nat \X Nat
      /\ \A r \in hist : r[2] <= histFlushCount
      /\ tip \in Tips /\ dbTip \in Chain[tip] \cup {NoBlock}
      /\ pc = "flush_utxos" /\ lost \subseteq Chain[dbTip]
  BY BoundAssumption
  DEF TypeInv, TypeOK, MemInv, Memory, Counts, HistInv, RowsInOrder, FlushUtxos
<1>2. /\ UNCHANGED <<hist, histFlushCount, lost>>
      /\ utxoFlushCount' = histFlushCount /\ dbTip' = tip /\ pc' = "run"
  BY DEF FlushUtxos, histDB, ghosts
<1>3. Recovered' = Recovered \cup NewRows
  <2>1. {s \in hist : s[2] <= histFlushCount} =
          {s \in hist : s[2] <= utxoFlushCount}
          \cup {s \in hist : s[2] > utxoFlushCount}
    BY <1>1
  <2> QED
    BY <1>2, <2>1 DEF Recovered, NewRows
<1>4. Recovered = Entries(Chain[dbTip] \ lost) /\ NewRows = Entries(New)
  BY <1>1 DEF HistInv, HistoryExact, Missing
<1>5. Chain[dbTip] \subseteq Chain[tip]
  BY <1>1, ChainBasics, TreeAssumption
<1>6. Chain[tip] \ lost = (Chain[dbTip] \ lost) \cup New
  BY <1>1, <1>5 DEF New
<1>7. Entries(Chain[tip] \ lost) = Entries(Chain[dbTip] \ lost) \cup Entries(New)
  BY <1>6 DEF Entries
<1>8. Missing' = lost
  BY <1>2 DEF Missing
<1>9. HistoryExact'
  BY <1>2, <1>3, <1>4, <1>7, <1>8 DEF HistoryExact, Entries
<1>10. RowsInOrder'
  BY <1>2 DEF HistInv, RowsInOrder
<1> QED
  BY <1>2, <1>3, <1>4, <1>9, <1>10 DEF HistInv

\* History.backup takes away exactly the tip's entries
LEMMA HistTrim ==
  ASSUME TypeInv, MemInv, HistInv, BackupHistory
  PROVE  HistInv' /\ Recovered' = Recovered \ Touches[dbTip]
<1>1. /\ histFlushCount \in Nat /\ utxoFlushCount = histFlushCount
      /\ hist \subseteq HashXs \X Nat \X Nat
      /\ \A r \in hist : r[2] <= histFlushCount
      /\ dbTip \in Blocks /\ tip = Parent[dbTip]
      /\ HashXsOf(dbTip) \subseteq touched
      /\ pc = "backup_history"
  BY BoundAssumption
  DEF TypeInv, TypeOK, Control, MemInv, Memory, Counts, HistInv, RowsInOrder,
      BackupHistory
<1>2. /\ UNCHANGED <<utxoFlushCount, dbTip, tip, lost>>
      /\ hist' = BackedUp(touched, TxCount[tip]) /\ pc' = "backup_utxos"
      /\ histFlushCount' = histFlushCount + 1
  BY DEF BackupHistory, memory, utxoDB, ghosts
<1>3. hist' \subseteq hist
  BY <1>2 DEF BackedUp
<1>4. Recovered = Entries(Chain[dbTip] \ lost)
  BY <1>1 DEF HistInv, HistoryExact, Missing
<1>5. Recovered = {<<r[1], r[3]>> : r \in hist}
      /\ Recovered' = {<<r[1], r[3]>> : r \in hist'}
  <2>1. {s \in hist : s[2] <= utxoFlushCount} = hist
        /\ {s \in hist' : s[2] <= utxoFlushCount'} = hist'
    BY <1>1, <1>2, <1>3
  <2> QED
    BY <2>1 DEF Recovered
<1>6. ASSUME NEW r \in hist
      PROVE  r \in hist' <=> <<r[1], r[3]>> \notin Touches[dbTip]
  <2>1. PICK b \in Chain[dbTip] : <<r[1], r[3]>> \in Touches[b]
    BY <1>4, <1>5 DEF Entries
  <2>2. b \in Blocks /\ r[3] \in Nat /\ r[1] \in HashXs
    BY <1>1, <2>1, ChainBasics
  <2>3. TxCount[tip] \in Nat
    BY <1>1, HeightTypes
  <2>4. CASE <<r[1], r[3]>> \in Touches[dbTip]
    <3>1. TxCount[tip] <= r[3] /\ r[1] \in touched
      BY <1>1, <2>4, EntryPlace DEF HashXsOf
    <3>2. \A s \in hist : s[1] = r[1] /\ s[2] > r[2] => s[3] >= TxCount[tip]
      <4>1. ASSUME NEW s \in hist, s[1] = r[1], s[2] > r[2]
            PROVE  s[3] >= TxCount[tip]
        <5>1. r[3] < s[3]
          BY <1>1, <4>1 DEF HistInv, RowsInOrder
        <5> QED
          BY <1>1, <2>2, <2>3, <3>1, <5>1
      <4> QED
        BY <4>1
    <3>3. r \notin hist'
      BY <1>1, <1>2, <2>2, <2>3, <3>1, <3>2 DEF BackedUp
    <3> QED
      BY <2>4, <3>3
  <2>5. CASE <<r[1], r[3]>> \notin Touches[dbTip]
    <3>1. b \in Chain[tip]
      BY <1>1, <2>1, <2>5, ChainOfParent
    <3>2. tip \in Blocks
      BY <1>1, <3>1, TreeAssumption DEF Tips
    <3>3. TxCount[b] <= TxCount[tip]
      BY <3>1, <3>2, TreeAssumption
    <3>4. r[3] < TxCount[tip]
      BY <2>1, <2>2, <2>3, <3>3, EntryPlace
    <3> QED
      BY <1>2, <2>5, <3>4 DEF BackedUp
  <2> QED
    BY <2>4, <2>5
<1>7. Recovered' = Recovered \ Touches[dbTip]
  BY <1>3, <1>5, <1>6
<1>8. Entries(Chain[dbTip] \ lost) \ Touches[dbTip]
        = Entries(Chain[dbTip] \ (lost \cup {dbTip}))
  <2>1. ASSUME NEW b \in Chain[dbTip] \ {dbTip}, NEW e \in Touches[b]
        PROVE  e \notin Touches[dbTip]
    <3>1. b \in Chain[tip] /\ b \in Blocks
      BY <1>1, <2>1, ChainOfParent, ChainBasics
    <3>2. tip \in Blocks
      BY <1>1, <3>1, TreeAssumption DEF Tips
    <3>3. TxCount[b] <= TxCount[tip] /\ TxCount[tip] \in Nat
      BY <3>1, <3>2, TreeAssumption DEF Tips
    <3> QED
      BY <1>1, <3>1, <3>3, EntryPlace
  <2> QED
    BY <2>1 DEF Entries
<1>9. HistoryExact'
  BY <1>2, <1>4, <1>7, <1>8 DEF HistoryExact, Missing, Entries
<1>10. RowsInOrder'
  BY <1>1, <1>2, <1>3 DEF HistInv, RowsInOrder
<1>11. \A r \in hist' : r[2] <= utxoFlushCount'
  BY <1>1, <1>2, <1>3
<1> QED
  BY <1>2, <1>7, <1>9, <1>10, <1>11 DEF HistInv

\* The UTXO batch of flush_backup completes the loss of the undone block's entries.
LEMMA HistRetract ==
  ASSUME TypeInv, MemInv, HistInv, BackupUtxos
  PROVE  HistInv' /\ Recovered' = Recovered \ Touches[dbTip]
<1>1. /\ histFlushCount \in Nat /\ utxoFlushCount <= histFlushCount
      /\ hist \subseteq HashXs \X Nat \X Nat
      /\ \A r \in hist : r[2] <= utxoFlushCount
      /\ utxoFlushCount \in Nat
      /\ dbTip \in Blocks /\ tip = Parent[dbTip]
      /\ pc = "backup_utxos"
  BY BoundAssumption
  DEF TypeInv, TypeOK, Control, MemInv, Memory, Counts, HistInv, RowsInOrder,
      BackupUtxos
<1>2. /\ UNCHANGED <<hist, histFlushCount>>
      /\ utxoFlushCount' = histFlushCount /\ dbTip' = tip
      /\ lost' = lost \ {dbTip} /\ pc' \in {"run", "backup"}
  BY DEF BackupUtxos, histDB
<1>3. Recovered' = Recovered
  <2>1. {s \in hist : s[2] <= utxoFlushCount} = {s \in hist : s[2] <= histFlushCount}
    BY <1>1
  <2> QED
    BY <1>2, <2>1 DEF Recovered
<1>4. Recovered = Entries(Chain[dbTip] \ (lost \cup {dbTip}))
  BY <1>1 DEF HistInv, HistoryExact, Missing
<1>5. Chain[tip] \ (lost \ {dbTip}) = Chain[dbTip] \ (lost \cup {dbTip})
  BY <1>1, ChainOfParent
<1>6. Missing' = lost \ {dbTip}
  BY <1>2 DEF Missing
<1>7. HistoryExact'
  BY <1>2, <1>3, <1>4, <1>5, <1>6 DEF HistoryExact, Entries
<1>8. RowsInOrder'
  BY <1>2 DEF HistInv, RowsInOrder
<1>9. Recovered \cap Touches[dbTip] = {}
  <2>1. ASSUME NEW e \in Recovered PROVE e \notin Touches[dbTip]
    <3>1. PICK b \in Chain[tip] : e \in Touches[b]
      BY <1>1, <1>4, ChainOfParent DEF Entries
    <3>2. tip \in Blocks /\ b \in Blocks
      BY <1>1, <3>1, ChainBasics, HeightTypes, TreeAssumption DEF Tips
    <3>3. TxCount[b] <= TxCount[tip] /\ TxCount[tip] \in Nat
      BY <3>1, <3>2, TreeAssumption DEF Tips
    <3> QED
      BY <1>1, <3>1, <3>2, <3>3, EntryPlace
  <2> QED
    BY <2>1
<1> QED
  BY <1>2, <1>3, <1>7, <1>8, <1>9 DEF HistInv

\* clear_excess removes only rows that are not recoverable.
LEMMA HistOpen ==
  ASSUME TypeInv, MemInv, HistInv, OpenHistory
  PROVE  HistInv' /\ Recovered' = Recovered
<1>1. /\ histFlushCount \in Nat /\ utxoFlushCount \in Nat
      /\ hist \subseteq HashXs \X Nat \X Nat
      /\ pc = "down" /\ utxoFlushCount <= histFlushCount
  BY BoundAssumption DEF TypeInv, TypeOK, MemInv, Counts, OpenHistory
<1>2. /\ UNCHANGED <<utxoFlushCount, dbTip, lost>> /\ pc' = "opening"
      /\ hist' \subseteq hist
      /\ \A r \in hist : r[2] <= utxoFlushCount => r \in hist'
      /\ \A r \in hist' : r[2] <= histFlushCount'
  BY <1>1
  DEF OpenHistory, clear_excess, utxoDB, ghosts, histDB, HistInv, RowsInOrder
<1>3. Recovered' = Recovered
  <2>1. {s \in hist' : s[2] <= utxoFlushCount'} = {s \in hist : s[2] <= utxoFlushCount}
    BY <1>2
  <2> QED
    BY <2>1 DEF Recovered
<1>4. HistoryExact'
  BY <1>1, <1>2, <1>3 DEF HistInv, HistoryExact, Missing
<1>5. RowsInOrder'
  BY <1>2 DEF HistInv, RowsInOrder
<1> QED
  BY <1>2, <1>3, <1>4, <1>5 DEF HistInv

\* A kill changes no row.
LEMMA HistCrash ==
  ASSUME HistInv, Crash PROVE HistInv' /\ Recovered' = Recovered
<1>1. UNCHANGED <<hist, histFlushCount, utxoFlushCount, dbTip>> /\ pc' = "down"
  BY DEF Crash, histDB, utxoDB
<1>2. Missing' = Missing
  BY <1>1 DEF Crash, Missing
<1>3. Recovered' = Recovered
  BY <1>1 DEF Recovered
<1>4. HistoryExact' /\ RowsInOrder'
  BY <1>1, <1>2, <1>3 DEF HistInv, HistoryExact, RowsInOrder
<1> QED
  BY <1>1, <1>3, <1>4 DEF HistInv

\* Every step keeps the rows in order and what is recovered that of the chain.
LEMMA HistStep ==
  TypeInv /\ MemInv /\ HistInv /\ [Next]_vars => HistInv'
<1> SUFFICES ASSUME TypeInv, MemInv, HistInv, [Next]_vars PROVE HistInv'
  OBVIOUS
<1>1. CASE FinishOpen
  BY <1>1, HistFrame DEF FinishOpen, histDB, ghosts
<1>2. ASSUME NEW b \in Blocks, Advance(b) PROVE HistInv'
  BY <1>2, HistFrame DEF Advance, histDB, utxoDB, ghosts
<1>3. CASE EndBatch
  BY <1>3, HistFrame DEF EndBatch, histDB, utxoDB, ghosts
<1>4. CASE DaemonGrows
  BY <1>4, HistFrame DEF DaemonGrows, memory, histDB, utxoDB, ghosts
<1>5. CASE FlushHeaders
  BY <1>5, HistFrame DEF FlushHeaders, memory, histDB, utxoDB, ghosts
<1>6. CASE FlushTxCounts
  BY <1>6, HistFrame DEF FlushTxCounts, memory, histDB, utxoDB, ghosts
<1>7. CASE FlushHashes
  BY <1>7, HistFrame DEF FlushHashes, histDB, utxoDB, ghosts
<1>8. ASSUME NEW n \in 1..MaxHeight, StartReorg(n) PROVE HistInv'
  BY <1>8, HistFrame DEF StartReorg, histDB, utxoDB, ghosts
<1>9. CASE BackupBlock
  BY <1>9, HistFrame DEF BackupBlock, histDB, utxoDB
<1>10. CASE BackupFails
  BY <1>10, HistFrame DEF BackupFails, histDB, utxoDB, ghosts
<1>11. CASE UNCHANGED vars
  BY <1>11, HistFrame DEF vars, memory, histDB, utxoDB, ghosts
<1> QED
  BY <1>1, <1>2, <1>3, <1>4, <1>5, <1>6, <1>7, <1>8, <1>9, <1>10, <1>11,
     HistOpen, HistFlush, HistCommit, HistTrim, HistRetract, HistCrash DEF Next

----------------------------------------------------------------------------
(* Layer 4: the flat files *)

\* A step that touches no file and begins no flush keeps them.
LEMMA FilesFrame ==
  ASSUME FilesInv,
         UNCHANGED <<headersFile, txCountsFile, hashesFile, dbTip>>,
         (pc' = pc /\ tip' = tip) \/ pc' \notin Flushing
  PROVE  FilesInv'
  BY DEF FilesInv, FilesCoverTip

\* At the start the DB's chain is empty and covered.
LEMMA FilesInit == Init => FilesInv
  BY TreeAssumption DEF Init, FilesInv, FilesCoverTip

\* what the three writes of a flush start from
LEMMA FlushSource ==
  ASSUME TypeInv, MemInv, pc \in {"run", "flush_txcounts", "flush_hashes"}
  PROVE  /\ headers = New /\ headers \subseteq Chain[tip]
         /\ tip \in Tips /\ dbTip \in Tips
         /\ Chain[dbTip] \subseteq Chain[tip] /\ Chain[tip] \subseteq Blocks
         /\ Chain[tip] = Chain[dbTip] \cup headers
<1>1. tip \in Tips /\ dbTip \in Tips /\ dbTip \in Chain[tip] \cup {NoBlock}
      /\ headers = New
  BY DEF TypeInv, TypeOK, MemInv, Memory
<1>2. Chain[dbTip] \subseteq Chain[tip] /\ Chain[tip] \subseteq Blocks
  BY <1>1, ChainBasics, TreeAssumption
<1> QED
  BY <1>1, <1>2 DEF New

\* Writing the headers of the new blocks keeps those of the DB's chain.
LEMMA FilesHeaders ==
  ASSUME TypeInv, MemInv, FilesInv, FlushHeaders PROVE FilesInv'
<1>1. /\ headers = New /\ headers \subseteq Chain[tip] /\ tip \in Tips
      /\ Chain[tip] = Chain[dbTip] \cup headers /\ Chain[tip] \subseteq Blocks
      /\ headersFile \in [0..MaxHeight -> Tips]
  BY FlushSource DEF FlushHeaders, TypeInv, TypeOK
<1>2. /\ UNCHANGED <<txCountsFile, hashesFile, dbTip, tip>>
      /\ headersFile' = WithBlocks(headersFile, headers)
      /\ pc' = "flush_txcounts"
  BY DEF FlushHeaders, memory, utxoDB
<1>3. ASSUME NEW b \in Chain[tip] PROVE headersFile'[Height[b]] = b
  <2>1. \A c \in headers : Height[c] = Height[b] => c = b
    BY <1>1, OnePerPlace
  <2>2. Height[b] \in 0..MaxHeight
    BY <1>1, HeightTypes
  <2>3. CASE b \in headers
    BY <1>1, <1>2, <2>1, <2>2, <2>3 DEF WithBlocks
  <2>4. CASE b \notin headers
    BY <1>1, <1>2, <2>1, <2>2, <2>4 DEF WithBlocks, FilesInv, FilesCoverTip
  <2> QED
    BY <2>3, <2>4
<1> QED
  BY <1>1, <1>2, <1>3 DEF FilesInv, FilesCoverTip

\* So does writing their tx counts.
LEMMA FilesTxCounts ==
  ASSUME TypeInv, MemInv, FilesInv, FlushTxCounts PROVE FilesInv'
<1>1. /\ headers = New /\ headers \subseteq Chain[tip] /\ tip \in Tips
      /\ Chain[tip] = Chain[dbTip] \cup headers /\ Chain[tip] \subseteq Blocks
  BY FlushSource DEF FlushTxCounts
<1>2. /\ UNCHANGED <<headersFile, hashesFile, dbTip, tip>>
      /\ pc = "flush_txcounts" /\ pc' = "flush_hashes"
  BY DEF FlushTxCounts, memory, utxoDB
<1>3. ASSUME NEW b \in Chain[tip] PROVE txCountsFile'[Height[b]] = TxCount[b]
  <2>1. \A c \in headers : Height[c] = Height[b] => c = b
    BY <1>1, OnePerPlace
  <2>2. Height[b] \in 0..MaxHeight
    BY <1>1, HeightTypes
  <2>3. CASE b \in headers
    BY <1>1, <1>2, <2>1, <2>2, <2>3 DEF FlushTxCounts
  <2>4. CASE b \notin headers
    BY <1>1, <1>2, <2>1, <2>2, <2>4 DEF FlushTxCounts, FilesInv, FilesCoverTip
  <2> QED
    BY <2>3, <2>4
<1> QED
  BY <1>1, <1>2, <1>3 DEF FilesInv, FilesCoverTip

\* So does writing their tx hashes.
LEMMA FilesHashes ==
  ASSUME TypeInv, MemInv, FilesInv, FlushHashes PROVE FilesInv'
<1>1. /\ headers = New /\ headers \subseteq Chain[tip] /\ tip \in Tips
      /\ Chain[tip] = Chain[dbTip] \cup headers /\ Chain[tip] \subseteq Blocks
  BY FlushSource DEF FlushHashes
<1>2. /\ UNCHANGED <<headersFile, txCountsFile, dbTip, tip>>
      /\ pc = "flush_hashes" /\ pc' = "flush_history"
  BY DEF FlushHashes, utxoDB
<1>3. ASSUME NEW b \in Chain[tip], NEW n \in TxNums(b) PROVE hashesFile'[n] = b
  <2>1. \A c \in headers : n \in TxNums(c) => c = b
    BY <1>1, OnePerPlace
  <2>2. n \in 0..MaxTxCount-1
    BY <1>1, HeightTypes
  <2>3. CASE b \in headers
    BY <1>1, <1>2, <2>1, <2>2, <2>3 DEF FlushHashes
  <2>4. CASE b \notin headers
    BY <1>1, <1>2, <2>1, <2>2, <2>4 DEF FlushHashes, FilesInv, FilesCoverTip
  <2> QED
    BY <2>3, <2>4
<1> QED
  BY <1>1, <1>2, <1>3 DEF FilesInv, FilesCoverTip

\* Every step keeps the DB's chain in the files.
LEMMA FilesStep ==
  TypeInv /\ MemInv /\ FilesInv /\ [Next]_vars => FilesInv'
<1> SUFFICES ASSUME TypeInv, MemInv, FilesInv, [Next]_vars PROVE FilesInv'
  OBVIOUS
<1>1. CASE OpenHistory
  BY <1>1, FilesFrame DEF OpenHistory, files, utxoDB
<1>2. CASE FinishOpen
  BY <1>2, FilesFrame DEF FinishOpen
<1>3. ASSUME NEW b \in Blocks, Advance(b) PROVE FilesInv'
  BY <1>3, FilesFrame DEF Advance, utxoDB
<1>4. CASE EndBatch
  BY <1>4, FilesFrame DEF EndBatch, files, utxoDB
<1>5. CASE DaemonGrows
  BY <1>5, FilesFrame DEF DaemonGrows, memory, files, utxoDB
<1>6. CASE FlushHistory
  <2>1. /\ UNCHANGED <<headersFile, txCountsFile, hashesFile, dbTip, tip>>
        /\ pc = "flush_history" /\ pc' = "flush_utxos"
    BY <1>6 DEF FlushHistory, files, utxoDB
  <2> QED
    BY <2>1 DEF FilesInv, FilesCoverTip
<1>7. CASE FlushUtxos
  <2>1. /\ UNCHANGED <<headersFile, txCountsFile, hashesFile>>
        /\ dbTip' = tip /\ pc = "flush_utxos" /\ pc' = "run"
    BY <1>7 DEF FlushUtxos, files
  <2> QED
    BY <2>1 DEF FilesInv, FilesCoverTip
<1>8. ASSUME NEW n \in 1..MaxHeight, StartReorg(n) PROVE FilesInv'
  BY <1>8, FilesFrame DEF StartReorg, files, utxoDB
<1>9. CASE BackupBlock
  BY <1>9, FilesFrame DEF BackupBlock, files, utxoDB
<1>10. CASE BackupFails
  BY <1>10, FilesFrame DEF BackupFails, files, utxoDB
<1>11. CASE BackupHistory
  BY <1>11, FilesFrame DEF BackupHistory, files, utxoDB
<1>12. CASE BackupUtxos
  <2>1. /\ UNCHANGED <<headersFile, txCountsFile, hashesFile>>
        /\ dbTip' = tip /\ pc' \in {"run", "backup"}
    BY <1>12 DEF BackupUtxos, files
  <2>2. Chain[tip] \subseteq Chain[dbTip]
    BY <1>12, ChainOfParent DEF BackupUtxos, TypeInv, Control
  <2> QED
    BY <2>1, <2>2 DEF FilesInv, FilesCoverTip
<1>13. CASE Crash
  BY <1>13, FilesFrame DEF Crash, files, utxoDB
<1>14. CASE UNCHANGED vars
  BY <1>14, FilesFrame DEF vars, memory, files, utxoDB
<1> QED
  BY <1>1, <1>2, <1>3, <1>4, <1>5, <1>6, <1>7, <1>8, <1>9, <1>10, <1>11,
     <1>12, <1>13, <1>14, FilesHeaders, FilesTxCounts, FilesHashes DEF Next

----------------------------------------------------------------------------
(* Layer 5: the UTXO tables and the undo records *)

\* At the start there is nothing to undo.
LEMMA UndoInit == Init => UndoInv
  BY TreeAssumption
  DEF Init, UndoInv, Caches, UtxosMatchTip, UndoReady, UndoKept, UndoOwn, New

\* what Layer 5 needs of the layers below, and of the heights
LEMMA UndoTypes ==
  ASSUME TypeInv, MemInv
  PROVE  /\ tip \in Tips /\ dbTip \in Tips /\ pc \in Phases
         /\ Height[tip] \in Int /\ Height[dbTip] \in Int
         /\ daemonHeight \in 0..MaxHeight /\ daemonHeight \in Int
         /\ Chain[tip] \subseteq Blocks /\ Chain[dbTip] \subseteq Blocks
         /\ \A b \in Blocks : Height[b] \in 0..MaxHeight /\ Height[b] \in Int
         /\ ReorgLimit \in Int
         /\ pc \in {"run"} \cup Flushing => Chain[dbTip] \subseteq Chain[tip]
<1>1. /\ tip \in Tips /\ dbTip \in Tips /\ pc \in Phases
      /\ daemonHeight \in 0..MaxHeight
      /\ pc \in {"run"} \cup Flushing => dbTip \in Chain[tip] \cup {NoBlock}
  BY DEF TypeInv, TypeOK, MemInv, Memory
<1>2. Chain[tip] \subseteq Blocks /\ Chain[dbTip] \subseteq Blocks
  BY <1>1, ChainBasics
<1>3. pc \in {"run"} \cup Flushing => Chain[dbTip] \subseteq Chain[tip]
  BY <1>1, ChainBasics, TreeAssumption
<1>4. /\ Height[tip] \in Int /\ Height[dbTip] \in Int
      /\ \A b \in Blocks : Height[b] \in 0..MaxHeight /\ Height[b] \in Int
  BY <1>1, TreeAssumption
<1>5. ReorgLimit \in Int /\ MaxHeight \in Int
  BY BoundAssumption
<1> QED
  BY <1>1, <1>2, <1>3, <1>4, <1>5

\* Layer 5 speaks of these variables and, but for Caches, of four phases
LEMMA UndoFrame ==
  ASSUME UndoInv,
         UNCHANGED <<tip, utxoCache, undoInfos, rawBlocks, utxos, undo, dbTip,
                     daemonHeight, pastLimit>>,
         \/ pc' = pc
         \/ {pc, pc'} \subseteq {"run"} \cup Flushing
         \/ {pc, pc'} \subseteq {"down", "opening", "backup"}
         \/ {pc, pc'} \subseteq InBackup
  PROVE  UndoInv'
<1>1. Caches'
  BY DEF UndoInv, Caches, New
<1>2. UtxosMatchTip' /\ UndoReady'
  BY DEF UndoInv, UtxosMatchTip, UndoReady
<1>3. UndoKept' /\ UndoOwn'
  BY DEF UndoInv, UndoKept, UndoOwn, New
<1> QED
  BY <1>1, <1>2, <1>3 DEF UndoInv

\* a process that stops forgets what it has not committed
LEMMA UndoForget ==
  ASSUME TypeInv, MemInv, UndoInv, Forget, pc' = "down",
         UNCHANGED <<rawBlocks, utxos, undo, dbTip, daemonHeight, pastLimit>>
  PROVE  UndoInv'
<1>1. Caches'
  BY UndoTypes, TreeAssumption DEF UndoInv, Caches, Forget
<1>2. UtxosMatchTip' /\ UndoReady'
  BY DEF UndoInv, UtxosMatchTip, UndoReady
<1>3. UndoKept' /\ UndoOwn'
  BY DEF UndoKept, UndoOwn
<1> QED
  BY <1>1, <1>2, <1>3 DEF UndoInv

\* clear_excess_undo_info removes only records below the window.
LEMMA UndoFinishOpen ==
  ASSUME TypeInv, MemInv, UndoInv, FinishOpen PROVE UndoInv'
<1>1. /\ UNCHANGED <<utxoCache, undoInfos, utxos, dbTip, daemonHeight, pastLimit>>
      /\ undo' = clear_excess_undo_info(undo)
      /\ rawBlocks' = clear_excess_undo_info(rawBlocks)
      /\ tip' = dbTip /\ pc = "opening" /\ pc' = "run"
      /\ undo \in [0..MaxHeight -> Tips] /\ rawBlocks \in [0..MaxHeight -> Tips]
  BY DEF FinishOpen, ghosts, TypeInv, TypeOK
<1>2. New' = {}
  BY <1>1 DEF New
<1>3. Caches'
  BY <1>1, <1>2 DEF UndoInv, Caches
<1>4. UtxosMatchTip'
  BY <1>1 DEF UndoInv, UtxosMatchTip
<1>5. UndoReady'
  <2>1. SUFFICES ASSUME NEW b \in Chain[dbTip],
                        Height[b] >= min_undo_height(daemonHeight)
                 PROVE  undo'[Height[b]] = b /\ rawBlocks'[Height[b]] \in {NoBlock, b}
    BY <1>1 DEF UndoReady, min_undo_height
  <2>2. undo[Height[b]] = b /\ rawBlocks[Height[b]] \in {NoBlock, b}
    BY <2>1 DEF UndoInv, UndoReady
  <2>3. Height[b] \in 0..MaxHeight /\ ~(Height[b] < min_undo_height(Height[dbTip]))
    BY <2>1, UndoTypes DEF UndoInv, Caches, min_undo_height
  <2> QED
    BY <1>1, <2>2, <2>3 DEF clear_excess_undo_info
<1>6. UndoKept' /\ UndoOwn'
  BY <1>1, <1>2 DEF UndoKept, UndoOwn
<1> QED
  BY <1>3, <1>4, <1>5, <1>6 DEF UndoInv

\* A block inside the window brings its undo information and its raw block.
LEMMA UndoAdvance ==
  ASSUME TypeInv, MemInv, UndoInv, NEW b \in Blocks, Advance(b) PROVE UndoInv'
<1>1. /\ UNCHANGED <<utxos, undo, dbTip, daemonHeight, pastLimit, pc>>
      /\ tip' = b /\ pc = "run" /\ Parent[b] = tip /\ Height[b] <= daemonHeight
      /\ utxoCache' = utxoCache \cup {b}
      /\ undoInfos' = IF Height[b] >= min_undo_height(daemonHeight)
                        THEN undoInfos \cup {b} ELSE undoInfos
      /\ rawBlocks \in [0..MaxHeight -> Tips]
  BY DEF Advance, utxoDB, ghosts, TypeInv, TypeOK
<1>2. /\ Chain[b] = Chain[tip] \cup {b} /\ b \notin Chain[tip]
      /\ Chain[dbTip] \subseteq Chain[tip] /\ b \in Tips
  BY <1>1, ChainOfParent, ChainBasics, UndoTypes
<1>3. New' = New \cup {b}
  BY <1>1, <1>2 DEF New
<1>4. Caches'
  BY <1>1, <1>3 DEF UndoInv, Caches
<1>5. \A c \in Chain[tip] :
        Height[c] >= min_undo_height(daemonHeight) =>
          rawBlocks'[Height[c]] \in {NoBlock, rawBlocks[Height[c]]}
  <2>1. SUFFICES ASSUME NEW c \in Chain[tip]
                 PROVE  rawBlocks'[Height[c]] \in {NoBlock, rawBlocks[Height[c]]}
    OBVIOUS
  <2>2. Height[c] # Height[b] /\ Height[c] \in 0..MaxHeight
    BY <1>2, UndoTypes, OnePerPlace
  <2> QED
    BY <1>1, <2>2 DEF Advance, write_raw_block
<1>6. UtxosMatchTip'
  BY <1>1 DEF UndoInv, UtxosMatchTip
<1>7. UndoReady'
  <2>1. SUFFICES ASSUME NEW c \in Chain[dbTip],
                        Height[c] >= min_undo_height(daemonHeight)
                 PROVE  undo[Height[c]] = c /\ rawBlocks'[Height[c]] \in {NoBlock, c}
    BY <1>1 DEF UndoReady, min_undo_height
  <2> QED
    BY <1>2, <1>5, <2>1 DEF UndoInv, UndoReady
<1>8. UndoKept'
  <2>1. SUFFICES ASSUME NEW c \in New \cup {b},
                        Height[c] >= min_undo_height(daemonHeight)
                 PROVE  c \in undoInfos' /\ rawBlocks'[Height[c]] \in {NoBlock, c}
    BY <1>1, <1>3 DEF UndoKept, min_undo_height
  <2>2. CASE c = b
    BY <1>1, <2>1, <2>2, UndoTypes DEF Advance, write_raw_block
  <2>3. CASE c \in New
    <3>1. c \in undoInfos /\ rawBlocks[Height[c]] \in {NoBlock, c}
      BY <1>1, <2>1, <2>3 DEF UndoInv, UndoKept
    <3> QED
      BY <1>1, <1>5, <2>1, <2>3, <3>1 DEF New
  <2> QED
    BY <2>1, <2>2, <2>3
<1>9. UndoOwn'
  BY <1>1 DEF UndoOwn
<1> QED
  BY <1>4, <1>6, <1>7, <1>8, <1>9 DEF UndoInv

\* a taller daemon chain only narrows the window
LEMMA UndoGrows ==
  ASSUME TypeInv, MemInv, UndoInv, DaemonGrows PROVE UndoInv'
<1>1. /\ UNCHANGED <<tip, utxoCache, undoInfos, rawBlocks, utxos, undo, dbTip,
                     pastLimit, pc>>
      /\ daemonHeight' = daemonHeight + 1
  BY DEF DaemonGrows, memory, files, utxoDB, ghosts
<1>2. New' = New
  BY <1>1 DEF New
<1>3. Caches'
  BY <1>1, <1>2, UndoTypes DEF UndoInv, Caches
<1>4. \A c \in Blocks : Height[c] >= min_undo_height(daemonHeight)' =>
                        Height[c] >= min_undo_height(daemonHeight)
  BY <1>1, UndoTypes DEF min_undo_height
<1>5. UndoReady'
  BY <1>1, <1>4, UndoTypes DEF UndoInv, UndoReady
<1>6. UndoKept'
  BY <1>1, <1>2, <1>4, UndoTypes DEF UndoInv, UndoKept, New
<1>7. UtxosMatchTip' /\ UndoOwn'
  BY <1>1 DEF UndoInv, UtxosMatchTip, UndoOwn
<1> QED
  BY <1>3, <1>5, <1>6, <1>7 DEF UndoInv

\* The UTXO batch stores the tables of the new tip with the undo records.
LEMMA UndoCommit ==
  ASSUME TypeInv, MemInv, UndoInv, FlushUtxos PROVE UndoInv'
<1>1. /\ UNCHANGED <<tip, rawBlocks, daemonHeight, pastLimit>>
      /\ utxos' = utxos \cup utxoCache
      /\ undo' = WithBlocks(undo, undoInfos)
      /\ dbTip' = tip /\ utxoCache' = {} /\ undoInfos' = {}
      /\ pc = "flush_utxos" /\ pc' = "run"
      /\ undo \in [0..MaxHeight -> Tips]
  BY DEF FlushUtxos, files, ghosts, TypeInv, TypeOK
<1>2. /\ utxoCache = New /\ undoInfos \subseteq New
      /\ Chain[tip] = Chain[dbTip] \cup New /\ tip \in Tips
  BY <1>1, UndoTypes DEF UndoInv, Caches, New
<1>3. New' = {}
  BY <1>1 DEF New
<1>4. Caches'
  BY <1>1, <1>3 DEF UndoInv, Caches
<1>5. UtxosMatchTip'
  BY <1>1, <1>2 DEF UndoInv, UtxosMatchTip
<1>6. UndoReady'
  <2>1. SUFFICES ASSUME NEW b \in Chain[tip],
                        Height[b] >= min_undo_height(daemonHeight)
                 PROVE  undo'[Height[b]] = b /\ rawBlocks[Height[b]] \in {NoBlock, b}
    BY <1>1 DEF UndoReady, min_undo_height
  <2>2. Height[b] \in 0..MaxHeight /\ \A c \in undoInfos : Height[c] = Height[b] => c = b
    BY <1>2, UndoTypes, OnePerPlace
  <2>3. CASE b \in New
    <3>1. b \in undoInfos /\ rawBlocks[Height[b]] \in {NoBlock, b}
      BY <1>1, <2>1, <2>3 DEF UndoInv, UndoKept
    <3> QED
      BY <1>1, <2>2, <3>1 DEF WithBlocks
  <2>4. CASE b \notin New
    <3>1. b \in Chain[dbTip]
      BY <1>2, <2>4
    <3>2. undo[Height[b]] = b /\ rawBlocks[Height[b]] \in {NoBlock, b}
      BY <2>1, <3>1 DEF UndoInv, UndoReady
    <3>3. ~ \E c \in undoInfos : Height[c] = Height[b]
      BY <1>2, <2>2, <2>4
    <3> QED
      BY <1>1, <2>2, <3>2, <3>3 DEF WithBlocks
  <2> QED
    BY <2>3, <2>4
<1>7. UndoKept' /\ UndoOwn'
  BY <1>1, <1>3 DEF UndoKept, UndoOwn
<1> QED
  BY <1>4, <1>5, <1>6, <1>7 DEF UndoInv

\* flush(True) has left nothing uncommitted
LEMMA UndoReorg ==
  ASSUME UndoInv, NEW n \in 1..MaxHeight, StartReorg(n) PROVE UndoInv'
<1>1. /\ UNCHANGED <<tip, utxoCache, undoInfos, rawBlocks, utxos, undo, dbTip,
                     daemonHeight, pastLimit>>
      /\ pc = "run" /\ pc' = "backup" /\ tip = dbTip
  BY DEF StartReorg, files, utxoDB, ghosts
<1>2. New = {}
  BY <1>1 DEF New
<1>3. Caches'
  BY <1>1, <1>2 DEF UndoInv, Caches
<1>4. UtxosMatchTip' /\ UndoReady' /\ UndoKept' /\ UndoOwn'
  BY <1>1 DEF UndoInv, UtxosMatchTip, UndoReady, UndoKept, UndoOwn
<1> QED
  BY <1>3, <1>4 DEF UndoInv

\* within the window, the undo record that is read is the block's own
LEMMA UndoBackupBlock ==
  ASSUME TypeInv, MemInv, UndoInv, BackupBlock PROVE UndoInv'
<1>1. /\ UNCHANGED <<utxoCache, undoInfos, rawBlocks, utxos, undo, dbTip,
                     daemonHeight>>
      /\ pc = "backup" /\ pc' = "backup_history"
      /\ tip = dbTip /\ tip \in Blocks /\ tip' = Parent[tip]
      /\ pastLimit' = (pastLimit \/ Height[tip] < min_undo_height(daemonHeight))
  <2>1. tip = dbTip /\ backups \in 1..Height[tip]
    BY DEF BackupBlock, TypeInv, Control
  <2>2. tip \in Blocks
    BY <2>1, UndoTypes, TreeAssumption
  <2> QED
    BY <2>1, <2>2 DEF BackupBlock, files, utxoDB
<1>2. Height[Parent[tip]] < Height[tip] /\ Height[Parent[tip]] \in Int
  BY <1>1, TreeAssumption
<1>3. Caches'
  BY <1>1, <1>2, UndoTypes DEF UndoInv, Caches
<1>4. UtxosMatchTip' /\ UndoReady'
  BY <1>1 DEF UndoInv, UtxosMatchTip, UndoReady
<1>5. UndoKept'
  BY <1>1 DEF UndoKept
<1>6. UndoOwn'
  <2>1. tip \in Chain[dbTip] /\ Height[tip] \in Int
        /\ min_undo_height(daemonHeight) \in Int
    BY <1>1, ChainBasics, UndoTypes DEF min_undo_height
  <2>2. CASE Height[tip] < min_undo_height(daemonHeight)
    BY <1>1, <2>2 DEF UndoOwn
  <2>3. CASE Height[tip] >= min_undo_height(daemonHeight)
    BY <1>1, <2>1, <2>3 DEF UndoInv, UndoReady, UndoOwn
  <2> QED
    BY <2>1, <2>2, <2>3
<1> QED
  BY <1>3, <1>4, <1>5, <1>6 DEF UndoInv

\* The UTXO batch of flush_backup takes the tip's block out of the tables.
LEMMA UndoRetract ==
  ASSUME TypeInv, MemInv, UndoInv, BackupUtxos PROVE UndoInv'
<1>1. /\ UNCHANGED <<tip, utxoCache, undoInfos, rawBlocks, undo, daemonHeight,
                     pastLimit>>
      /\ utxos' = (utxos \ {dbTip}) \cup
                    (IF undo[Height[dbTip]] = dbTip THEN {} ELSE {undo[Height[dbTip]]})
      /\ dbTip' = tip /\ dbTip \in Blocks /\ tip = Parent[dbTip]
      /\ pc = "backup_utxos" /\ pc' \in {"run", "backup"}
  BY DEF BackupUtxos, files, TypeInv, Control
<1>2. Chain[tip] = Chain[dbTip] \ {dbTip}
  BY <1>1, ChainOfParent
<1>3. New' = {} /\ utxoCache = {}
  BY <1>1 DEF New, UndoInv, Caches
<1>4. Caches'
  BY <1>1, <1>3 DEF UndoInv, Caches
<1>5. UtxosMatchTip'
  BY <1>1, <1>2 DEF UndoInv, UtxosMatchTip, UndoOwn
<1>6. UndoReady'
  BY <1>1, <1>2 DEF UndoInv, UndoReady
<1>7. UndoKept' /\ UndoOwn'
  BY <1>1, <1>3 DEF UndoKept, UndoOwn
<1> QED
  BY <1>4, <1>5, <1>6, <1>7 DEF UndoInv

\* Every step keeps the tables and undo records those of the committed chain.
LEMMA UndoStep ==
  TypeInv /\ MemInv /\ UndoInv /\ [Next]_vars => UndoInv'
<1> SUFFICES ASSUME TypeInv, MemInv, UndoInv, [Next]_vars PROVE UndoInv'
  OBVIOUS
<1>1. CASE OpenHistory
  BY <1>1, UndoFrame DEF OpenHistory, memory, files, utxoDB, ghosts
<1>2. CASE EndBatch
  BY <1>2, UndoFrame DEF EndBatch, files, utxoDB, ghosts
<1>3. CASE FlushHeaders
  BY <1>3, UndoFrame DEF FlushHeaders, memory, utxoDB, ghosts
<1>4. CASE FlushTxCounts
  BY <1>4, UndoFrame DEF FlushTxCounts, memory, utxoDB, ghosts
<1>5. CASE FlushHashes
  BY <1>5, UndoFrame DEF FlushHashes, utxoDB, ghosts
<1>6. CASE FlushHistory
  BY <1>6, UndoFrame DEF FlushHistory, files, utxoDB, ghosts
<1>7. CASE BackupFails
  BY <1>7, UndoForget DEF BackupFails, files, utxoDB, ghosts
<1>8. CASE BackupHistory
  BY <1>8, UndoFrame DEF BackupHistory, memory, files, utxoDB, ghosts
<1>9. CASE Crash
  BY <1>9, UndoForget DEF Crash, files, utxoDB
<1>10. CASE UNCHANGED vars
  BY <1>10, UndoFrame DEF vars, memory, files, utxoDB, ghosts
<1> QED
  BY <1>1, <1>2, <1>3, <1>4, <1>5, <1>6, <1>7, <1>8, <1>9, <1>10,
     UndoFinishOpen, UndoAdvance, UndoGrows, UndoCommit, UndoReorg,
     UndoBackupBlock, UndoRetract DEF Next

----------------------------------------------------------------------------
(* The theorems *)

\* The five layers hold in every state.
LEMMA Inductive == Spec => []IInv
<1>1. Init => IInv
  BY TypeInit, MemInit, HistInit, FilesInit, UndoInit DEF IInv
<1>2. IInv /\ [Next]_vars => IInv'
  BY TypeStep, MemStep, HistStep, FilesStep, UndoStep DEF IInv
<1> QED
  BY <1>1, <1>2, PTL DEF Spec

\* Whatever the flushes, reorgs and kills, a restart recovers the history of
\* the committed chain, less that of blocks whose backup a kill cut in two
\* (History.flush, History.backup, History.clear_excess).
THEOREM HistoryIsExact == Spec => []HistoryExact
<1>1. IInv => HistoryExact
  BY DEF IInv, HistInv
<1> QED
  BY <1>1, Inductive, PTL

\* Rows of a hashX are in tx order under ids already given out, although
\* clear_excess gives ids back and reorgs give tx numbers back.
THEOREM RowsStayInOrder == Spec => []RowsInOrder
<1>1. IInv => RowsInOrder
  BY DEF IInv, HistInv
<1> QED
  BY <1>1, Inductive, PTL

\* The files under meta/ always describe the committed chain (DB.flush_fs).
THEOREM FilesAlwaysCoverTip == Spec => []FilesCoverTip
<1>1. IInv => FilesCoverTip
  BY DEF IInv, FilesInv
<1> QED
  BY <1>1, Inductive, PTL

\* Unless a reorg went below the undo window, the UTXO tables hold exactly the
\* committed chain, through kills, partial flushes and switches of branch
\* (flush_utxo_db, _backup_block).
THEOREM TablesMatchTip == Spec => []UtxosMatchTip
<1>1. IInv => UtxosMatchTip
  BY DEF IInv, UndoInv
<1> QED
  BY <1>1, Inductive, PTL

\* Every committed block in the window of the daemon's height can be undone:
\* its record and raw block are its own (flush_undo_infos, write_raw_block,
\* clear_excess_undo_info).
THEOREM WindowCanBeUndone == Spec => []UndoReady
<1>1. IInv => UndoReady
  BY DEF IInv, UndoInv
<1> QED
  BY <1>1, Inductive, PTL

\* The initial state is one of the abstract index.
LEMMA AbstractInit == Init => Abstract!Init
  BY DEF Init, Abstract!Init, Recovered

\* What a restart recovers depends on these three alone.
LEMMA AbstractFrame ==
  ASSUME UNCHANGED <<hist, utxoFlushCount, dbTip>>
  PROVE  UNCHANGED <<dbTip, Recovered>>
  BY DEF Recovered

\* Every step is one of the abstract index, or none.
LEMMA AbstractStep == IInv /\ [Next]_vars => [Abstract!Next]_(Abstract!vars)
<1> SUFFICES ASSUME IInv, [Next]_vars
             PROVE  Abstract!Next \/ UNCHANGED <<dbTip, Recovered>>
  BY DEF Abstract!vars
<1>a. TypeInv /\ MemInv /\ HistInv
  BY DEF IInv
<1>1. CASE OpenHistory
  BY <1>a, <1>1, HistOpen DEF OpenHistory, utxoDB
<1>2. CASE FinishOpen
  BY <1>2, AbstractFrame DEF FinishOpen, histDB
<1>3. ASSUME NEW b \in Blocks, Advance(b) PROVE UNCHANGED <<dbTip, Recovered>>
  BY <1>3, AbstractFrame DEF Advance, histDB, utxoDB
<1>4. CASE EndBatch
  BY <1>4, AbstractFrame DEF EndBatch, histDB, utxoDB
<1>5. CASE DaemonGrows
  BY <1>5, AbstractFrame DEF DaemonGrows, histDB, utxoDB
<1>6. CASE FlushHeaders
  BY <1>6, AbstractFrame DEF FlushHeaders, histDB, utxoDB
<1>7. CASE FlushTxCounts
  BY <1>7, AbstractFrame DEF FlushTxCounts, histDB, utxoDB
<1>8. CASE FlushHashes
  BY <1>8, AbstractFrame DEF FlushHashes, histDB, utxoDB
<1>9. CASE FlushHistory
  BY <1>a, <1>9, HistFlush DEF FlushHistory, utxoDB
<1>10. CASE FlushUtxos
  <2>1. tip \in Blocks /\ Chain[dbTip] \subseteq Chain[tip]
    BY <1>a, <1>10, ChainBasics, TreeAssumption
    DEF FlushUtxos, TypeInv, TypeOK, Control, MemInv, Memory
  <2>2. dbTip' = tip /\ Recovered' = Recovered \cup Entries(New)
    BY <1>a, <1>10, HistCommit DEF FlushUtxos
  <2>3. Abstract!Extend(tip)
    BY <2>1, <2>2 DEF Abstract!Extend, Entries, New
  <2> QED
    BY <2>1, <2>3 DEF Abstract!Next
<1>11. ASSUME NEW n \in 1..MaxHeight, StartReorg(n)
       PROVE  UNCHANGED <<dbTip, Recovered>>
  BY <1>11, AbstractFrame DEF StartReorg, histDB, utxoDB
<1>12. CASE BackupBlock
  BY <1>12, AbstractFrame DEF BackupBlock, histDB, utxoDB
<1>13. CASE BackupFails
  BY <1>13, AbstractFrame DEF BackupFails, histDB, utxoDB
<1>14. CASE BackupHistory
  <2>1. dbTip \in Blocks /\ dbTip' = dbTip
    BY <1>a, <1>14 DEF BackupHistory, TypeInv, Control, utxoDB
  <2>2. dbTip # NoBlock
    BY <2>1, TreeAssumption
  <2>3. Abstract!Trim
    BY <1>a, <1>14, <2>1, <2>2, HistTrim DEF Abstract!Trim
  <2> QED
    BY <2>3 DEF Abstract!Next
<1>15. CASE BackupUtxos
  <2>1. dbTip \in Blocks /\ dbTip' = Parent[dbTip]
    BY <1>a, <1>15 DEF BackupUtxos, TypeInv, Control
  <2>2. dbTip # NoBlock
    BY <2>1, TreeAssumption
  <2>3. Abstract!Retract
    BY <1>a, <1>15, <2>1, <2>2, HistRetract DEF Abstract!Retract
  <2> QED
    BY <2>3 DEF Abstract!Next
<1>16. CASE Crash
  BY <1>a, <1>16, HistCrash DEF Crash, utxoDB
<1>17. CASE UNCHANGED vars
  BY <1>17, AbstractFrame DEF vars, histDB, utxoDB
<1> QED
  BY <1>1, <1>2, <1>3, <1>4, <1>5, <1>6, <1>7, <1>8, <1>9, <1>10, <1>11,
     <1>12, <1>13, <1>14, <1>15, <1>16, <1>17 DEF Next

\* The stores implement DurableIndex: what a restart recovers changes only by
\* a whole flush, or by one block of a reorg, at every moment of a kill.
THEOREM StoresImplementDurableIndex == Spec => Refines
<1>1. Spec => Abstract!Init /\ [][Abstract!Next]_(Abstract!vars)
  BY AbstractInit, AbstractStep, Inductive, PTL DEF Spec
<1> QED
  BY <1>1 DEF Refines, Abstract!Spec
=============================================================================
