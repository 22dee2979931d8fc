------------------------ MODULE ServingParts_proofs ------------------------
(***************************************************************************)
(* Proofs about three parts of ServingParts.  ClientReads: for every set   *)
(* of addresses, every height and any number of reorganisations and        *)
(* requests.  HistoryCompaction: for every set of addresses, every size of *)
(* the rows and any number of flushes, backups, compactions and kills.     *)
(* PoolTokens: for all txs, sessions and subscriptions, and any number of  *)
(* refreshes, blocks and blocks undone.                                    *)
(***************************************************************************)
EXTENDS ServingParts, NaturalSets, FiniteSetTheorems, SequenceTheorems, TLAPS

-----------------------------------------------------------------------------
(* ClientReads: the inductive invariant, in four layers *)

Record == [branch : Nat, touches : SUBSET HashXs]
Phases == {"idle", "flush", "report", "reflush", "hashes", "backup", "reset", "stopped"}
Writing == phase \in {"flush", "reflush", "backup"}
Readers == Callers \cup {"client"}
AddressReads == {"balance", "utxos", "history", "status"}

(* Layer 1: the stores.  The history's rows are written first; the UTXO rows are the first
   blocks of the chain, or one block more while that block is undone.  What an unflushed
   block touched is still gathered or has been dropped. *)
Chains ==
    /\ blocks \in Seq(Record) /\ histRows \in Seq(Record) /\ utxoRows \in Seq(Record)
    /\ daemonHeight \in 1 .. MaxHeight /\ Len(blocks) \in 1 .. daemonHeight
    /\ phase \in Phases /\ signalled \in BOOLEAN
    /\ reorgs \in Nat /\ reorgCount \in Nat /\ dbHeight \in Nat
    /\ phase \in {"reflush", "hashes"} => Len(blocks) > 1
    /\ phase \in {"flush", "report"} => ~signalled
Rows ==
    /\ histRows = IF Writing THEN blocks ELSE utxoRows
    /\ phase # "backup" =>
         /\ dbHeight = Len(utxoRows) /\ dbHeight <= Len(blocks)
         /\ \A h \in 1 .. dbHeight : utxoRows[h] = blocks[h]
    /\ phase \in {"hashes", "reset"} => dbHeight = Len(blocks)
    /\ phase = "backup" =>
         /\ dbHeight = Len(blocks) /\ Len(utxoRows) = dbHeight + 1
         /\ \A h \in 1 .. dbHeight : utxoRows[h] = blocks[h]
         /\ utxoRows[dbHeight + 1].touches \subseteq touched
Unflushed ==
    /\ phase # "backup" =>
         \A h \in dbHeight + 1 .. Len(blocks) : blocks[h].touches \subseteq touched \cup lapsed.dropped
    /\ phase = "report" => dbHeight = Len(blocks) \/ touched \subseteq lapsed.dropped
Stores == Chains /\ Rows /\ Unflushed

(* Layer 2: the coroutines.  A caller awaits a header or a status only in a notification,
   and is free for the next one when that is over. *)
LapsedFields == {"dropped", "rows", "txs", "statuses", "told"}
NoteFields == {"at", "height", "touched", "todo"}
JobFields == {"op", "key", "at", "found", "looked", "fresh", "count"}
Shapes ==
    /\ highest \in Nat /\ DOMAIN touchedBp \subseteq 1 .. MaxHeight
    /\ touched \subseteq HashXs /\ \A o \in DOMAIN touchedBp : touchedBp[o] \subseteq HashXs
    /\ DOMAIN lapsed = LapsedFields
    /\ DOMAIN balances = HashXs /\ DOMAIN utxoLists = HashXs /\ DOMAIN told = HashXs
    /\ DOMAIN histories = HashXs /\ DOMAIN statuses = HashXs
    /\ DOMAIN txHashes = 1 .. MaxHeight /\ DOMAIN txsAt = 1 .. MaxHeight
JobPlace(j) ==
    /\ j.at \in {"none", "thread", "read", "back"} /\ j.fresh \in BOOLEAN
    /\ j.op \in AddressReads \cup {"none", "txs", "header"}
    /\ j.at = "none" <=> j.op = "none"
    /\ j.op = "none" => j = NoJob
    /\ j.op \in AddressReads => j.key \in HashXs
    /\ j.op = "txs" => j.key \in 1 .. MaxHeight
    /\ j.at = "read" => j.looked \subseteq DOMAIN j.found
    /\ j.op \in {"txs", "header"} =>
         j.looked = {} /\ (j.found = << >> \/ j.key \in DOMAIN j.found)
NotePlace(c) ==
    /\ notes[c].at \in {"none", "header", "sessions"}
    /\ notes[c].at = "none" => notes[c] = NoNote /\ jobs[c].op = "none"
    /\ notes[c].at = "header" => jobs[c].op = "header" /\ notes[c].todo = {}
    /\ notes[c].at = "sessions" => jobs[c].op \in {"none", "status"}
Jobs ==
    /\ DOMAIN jobs = Readers
    /\ \A t \in Readers :
         DOMAIN jobs[t] = JobFields /\ JobPlace(jobs[t]) /\ jobs[t].count \in 0 .. reorgCount
Notes ==
    /\ DOMAIN notes = Callers
    /\ \A c \in Callers :
         /\ DOMAIN notes[c] = NoteFields /\ NotePlace(c)
         /\ notes[c].touched \subseteq HashXs /\ notes[c].todo \subseteq HashXs
Turns ==
    /\ phase \in {"flush", "report"} => notes["bp"] = NoNote
    /\ refreshing \in Nat /\ (refreshing # 0 => notes["mp"] = NoNote)
    /\ jobs["client"].op # "header"
Tasks == Shapes /\ Jobs /\ Notes /\ Turns

(* Layer 3: answers.  What a thread has read is the answer of the rows as long as nothing was
   written since, whatever it took from the cache of tx hashes; so the caches of the DB hold
   the rows' answers, less what has lapsed.  A block's tx is remembered only by a job that
   no reorganisation has come between. *)
FreshReads ==
    \A t \in Readers : jobs[t].at \in {"read", "back"} /\ jobs[t].fresh =>
        /\ ~Writing
        /\ jobs[t].op \in AddressReads => jobs[t].found = Answer(utxoRows, jobs[t].key)
KnownHashes ==
    phase # "backup" =>
        \A n \in 1 .. MaxHeight :
            \/ n \in lapsed.txs \/ txHashes[n] = Absent
            \/ n <= dbHeight /\ txHashes[n] = histRows[n].branch
CachedRows ==
    \A x \in HashXs : \A cache \in {balances, utxoLists} :
        cache[x] \in {Absent, Answer(utxoRows, x)} \/ x \in lapsed.rows
Undone == signalled \/ phase \in {"backup", "reset", "stopped"}
OfBlock(j) ==
    j.op = "txs" /\ j.at \in {"read", "back"} /\ j.count = reorgCount /\ j.key \in DOMAIN j.found =>
        j.key <= dbHeight /\ j.found[j.key] = histRows[j.key].branch
KnownBlocks ==
    ~Undone =>
        /\ \A n \in 1 .. MaxHeight :
             txsAt[n] = Absent \/ (n <= dbHeight /\ txsAt[n] = histRows[n].branch)
        /\ \A t \in Readers : OfBlock(jobs[t])
Answers == FreshReads /\ KnownHashes /\ CachedRows /\ KnownBlocks

(* Layer 4: what the session manager remembers is the rows' answer, unless it has lapsed or a
   touched set with the address is still on its way.  After a reorganisation the reports about
   blocks undone count too, until the caches are emptied; for what a session was told they
   always count. *)
Asking(x) == \E c \in Callers : notes[c].at = "header" /\ x \in notes[c].touched
Telling(x) ==
    \E c \in Callers : x \in notes[c].todo \/ (jobs[c].op = "status" /\ jobs[c].key = x)
Counting == IF Undone THEN DOMAIN touchedBp ELSE OwnReports
Due(x) == x \in touched \/ Asking(x) \/ \E o \in Counting : x \in touchedBp[o]
DueToClients(x) ==
    \/ x \in touched \/ Asking(x) \/ Telling(x)
    \/ \E o \in DOMAIN touchedBp : x \in touchedBp[o]
Remembered ==
    \A x \in HashXs : \A cache \in {histories, statuses} :
        cache[x] \in {Absent, Answer(utxoRows, x)} \/ x \in lapsed.statuses \/ Due(x)
Told ==
    \A x \in HashXs :
        told[x] \in {Absent, Answer(utxoRows, x)} \/ x \in lapsed.told \/ DueToClients(x)
Informed == Remembered /\ Told

ReadsInv == Stores /\ Tasks /\ Answers /\ Informed

-----------------------------------------------------------------------------
(* Answers and heights *)

(* Blocks that do not touch an address leave its answer as it is. *)
LEMMA SameAnswer ==
    ASSUME NEW s \in Seq(Record), NEW t \in Seq(Record), NEW x,
           Len(s) <= Len(t), \A h \in 1 .. Len(s) : s[h] = t[h],
           \A h \in Len(s) + 1 .. Len(t) : x \notin t[h].touches
    PROVE  Answer(s, x) = Answer(t, x)
<1>1. Len(s) \in Nat /\ Len(t) \in Nat /\ DOMAIN s = 1 .. Len(s) /\ DOMAIN t = 1 .. Len(t)
  BY LenProperties
<1>2. {h \in DOMAIN s : x \in s[h].touches} = {h \in DOMAIN t : x \in t[h].touches}
  <2>1. ASSUME NEW h \in DOMAIN t, x \in t[h].touches PROVE h \in DOMAIN s
    BY <1>1, <2>1
  <2> QED
    BY <1>1, <2>1
<1>3. \A h \in DOMAIN s : s[h] = t[h]
  BY <1>1
<1> QED
  BY <1>2, <1>3 DEF Answer

\* A sequence of blocks, and one with another block.
LEMMA RecordParts ==
    ASSUME NEW s \in Seq(Record)
    PROVE  /\ Len(s) \in Nat /\ DOMAIN s = 1 .. Len(s)
           /\ \A h \in 1 .. Len(s) : s[h] \in Record
           /\ \A b \in Record : /\ Append(s, b) \in Seq(Record) /\ Len(Append(s, b)) = Len(s) + 1
                                /\ Append(s, b)[Len(s) + 1] = b
                                /\ \A h \in 1 .. Len(s) : Append(s, b)[h] = s[h]
<1>1. Len(s) \in Nat /\ DOMAIN s = 1 .. Len(s) /\ \A h \in 1 .. Len(s) : s[h] \in Record
  BY LenProperties, ElementOfSeq
<1> QED
  BY <1>1, AppendProperties

(* The chain without its last block. *)
LEMMA FrontParts ==
    ASSUME NEW s \in Seq(Record), Len(s) > 1
    PROVE  /\ Front(s) \in Seq(Record) /\ Len(Front(s)) = Len(s) - 1
           /\ \A h \in 1 .. Len(s) - 1 : Front(s)[h] = s[h]
<1>1. Len(s) \in Nat /\ 1 \in Int /\ Len(s) - 1 \in 1 .. Len(s)
  BY LenProperties
<1>2. Front(s) = SubSeq(s, 1, Len(s) - 1)
  BY DEF Front
<1>3. /\ SubSeq(s, 1, Len(s) - 1) \in Seq(Record)
      /\ Len(SubSeq(s, 1, Len(s) - 1)) = Len(s) - 1
      /\ \A h \in 1 .. Len(s) - 1 : SubSeq(s, 1, Len(s) - 1)[h] = s[h]
  BY <1>1, SubSeqProperties
<1> QED
  BY <1>2, <1>3

(* The reported height is a natural number, 0 for none. *)
LEMMA NotifyHeightIs ==
    ASSUME NEW tbp, NEW tmp, NEW top \in Nat, DOMAIN tbp \subseteq 1 .. MaxHeight
    PROVE  NotifyHeight(tbp, tmp, top) \in Nat
<1>1. MaxHeight \in Nat
  BY ReadsAssumption
<1>2. ASSUME DOMAIN tbp \cap tmp # {} PROVE Max(DOMAIN tbp \cap tmp) \in Nat
  <2>1. DOMAIN tbp \cap tmp \subseteq Nat /\ \A n \in DOMAIN tbp \cap tmp : n <= MaxHeight
    BY <1>1
  <2> HIDE DEF NotifyHeight
  <2>2. Max(DOMAIN tbp \cap tmp) \in DOMAIN tbp \cap tmp
    BY <1>1, <1>2, <2>1, MaxFacts
  <2> QED
    BY <2>1, <2>2
<1> QED
  BY <1>2 DEF NotifyHeight

(* The addresses of the reports a notification takes. *)
Popped(tbp, h) == UNION {tbp[o] : o \in {o \in DOMAIN tbp : o <= h}}

(* What a notification does: the reports up to its height, 0 for none, go; at another height
   than the notified one its header is asked for first. *)
NotifyEffect(c, tbp, top, replaced, h, kept) ==
    /\ highest' = top
    /\ touchedBp' = [o \in {o \in DOMAIN tbp : o > h} |-> tbp[o]]
    /\ lapsed' = [lapsed EXCEPT
           !.statuses = @ \cup Differing(kept, {histories, statuses}, utxoRows),
           !.told = @ \cup Differing(replaced, {told}, utxoRows)]
    /\ \/ h = 0 /\ kept = {} /\ notes' = notes /\ jobs' = jobs
       \/ /\ h # 0 /\ kept = Popped(tbp, h) /\ jobs' = jobs
          /\ notes' = [notes EXCEPT ![c] =
                         [at |-> "sessions", height |-> h, touched |-> Popped(tbp, h),
                          todo |-> {x \in Popped(tbp, h) : told[x] # Absent}]]
       \/ /\ h # 0 /\ kept = {}
          /\ jobs' = [jobs EXCEPT ![c] = Asked("header", Min({h, dbHeight}))]
          /\ notes' = [notes EXCEPT ![c] =
                         [at |-> "header", height |-> Min({h, dbHeight}),
                          touched |-> Popped(tbp, h), todo |-> {}]]

\* What a call of _maybe_notify does, at the height it picks.
LEMMA Notifies ==
    ASSUME NEW c \in Callers, NEW tbp, NEW tmp, NEW top \in Nat, NEW replaced,
           DOMAIN tbp \subseteq 1 .. MaxHeight, MaybeNotify(c, tbp, tmp, top, replaced)
    PROVE  \E h, kept : h \in Nat /\ NotifyEffect(c, tbp, top, replaced, h, kept)
<1> DEFINE h == NotifyHeight(tbp, tmp, top)
           kept == IF h # 0 /\ h = notified THEN Popped(tbp, h) ELSE {}
<1>1. h \in Nat
  BY NotifyHeightIs
<1>2. /\ highest' = top
      /\ touchedBp' = [o \in {o \in DOMAIN tbp : o > h} |-> tbp[o]]
      /\ lapsed' = [lapsed EXCEPT
             !.statuses = @ \cup Differing(kept, {histories, statuses}, utxoRows),
             !.told = @ \cup Differing(replaced, {told}, utxoRows)]
  BY DEF MaybeNotify, Popped
<1>3. CASE h = 0
  <2>1. kept = {} /\ notes' = notes /\ jobs' = jobs
    BY <1>3 DEF MaybeNotify
  <2> HIDE DEF h, kept
  <2> QED
    BY <1>1, <1>2, <1>3, <2>1 DEF NotifyEffect
<1>4. CASE h # 0 /\ h = notified
  <2>1. kept = Popped(tbp, h) /\ jobs' = jobs
    BY <1>4 DEF MaybeNotify
  <2>2. notes' = [notes EXCEPT ![c] =
                    [at |-> "sessions", height |-> h, touched |-> Popped(tbp, h),
                     todo |-> {x \in Popped(tbp, h) : told[x] # Absent}]]
    BY <1>4 DEF MaybeNotify, Popped
  <2> HIDE DEF h, kept
  <2> QED
    BY <1>1, <1>2, <1>4, <2>1, <2>2 DEF NotifyEffect
<1>5. CASE h # 0 /\ h # notified
  <2>1. kept = {} /\ jobs' = [jobs EXCEPT ![c] = Asked("header", Min({h, dbHeight}))]
    BY <1>5 DEF MaybeNotify
  <2>2. notes' = [notes EXCEPT ![c] =
                    [at |-> "header", height |-> Min({h, dbHeight}),
                     touched |-> Popped(tbp, h), todo |-> {}]]
    BY <1>5 DEF MaybeNotify, Popped
  <2> HIDE DEF h, kept
  <2> QED
    BY <1>1, <1>2, <1>5, <2>1, <2>2 DEF NotifyEffect
<1> QED
  BY <1>3, <1>4, <1>5

(* What the client awaits. *)
LEMMA ClientJob ==
    ASSUME Tasks, jobs["client"].at # "none"
    PROVE  jobs["client"].op \in AddressReads \cup {"txs"}
BY DEF Tasks, Turns, Jobs, JobPlace, Readers

(* What an answer does to the caches, by the operation. *)
LEMMA AnsweredIs ==
    ASSUME Answered, NEW j, j = jobs["client"]
    PROVE  /\ ~Blocking /\ j.at = "back" /\ jobs' = [jobs EXCEPT !["client"] = NoJob]
           /\ j.op = "txs" /\ j.found # << >> => j.count = reorgCount
           /\ txsAt' = IF j.op = "txs" /\ j.found # << >> THEN [txsAt EXCEPT ![j.key] = j.found[j.key]]
                       ELSE txsAt
           /\ UNCHANGED <<chainVars, dbVars, notifyVars, txHashes, reorgCount, requests>>
           /\ \/ /\ j.op = "status"
                 /\ histories' = [histories EXCEPT ![j.key] = j.found]
                 /\ statuses' = [statuses EXCEPT ![j.key] = j.found]
                 /\ told' = [told EXCEPT ![j.key] = j.found]
                 /\ lapsed' = Lapse(j.key, j.found, j.fresh)
                 /\ UNCHANGED <<balances, utxoLists>>
              \/ /\ j.op = "history"
                 /\ histories' = [histories EXCEPT ![j.key] = j.found]
                 /\ lapsed' = [lapsed EXCEPT !.statuses =
                       IF ~j.fresh /\ j.found # Answer(utxoRows, j.key) THEN @ \cup {j.key} ELSE @]
                 /\ UNCHANGED <<balances, utxoLists, statuses, told>>
              \/ /\ j.op \in {"balance", "utxos"}
                 /\ utxoLists' = [utxoLists EXCEPT ![j.key] = j.found]
                 /\ balances' = IF j.op = "balance" THEN [balances EXCEPT ![j.key] = j.found] ELSE balances
                 /\ lapsed' = [lapsed EXCEPT !.rows =
                       IF ~j.fresh /\ j.found # Answer(utxoRows, j.key) THEN @ \cup {j.key} ELSE @]
                 /\ UNCHANGED <<histories, statuses, told>>
              \/ /\ j.op \notin AddressReads /\ (j.op = "txs" => lapsed' = lapsed)
                 /\ UNCHANGED <<balances, utxoLists, histories, statuses, told>>
<1>1. /\ ~Blocking /\ j.at = "back" /\ jobs' = [jobs EXCEPT !["client"] = NoJob]
      /\ j.op = "txs" /\ j.found # << >> => j.count = reorgCount
      /\ txsAt' = IF j.op = "txs" /\ j.found # << >> THEN [txsAt EXCEPT ![j.key] = j.found[j.key]]
                  ELSE txsAt
      /\ UNCHANGED <<chainVars, dbVars, notifyVars, txHashes, reorgCount, requests>>
  BY DEF Answered
<1>2. CASE j.op = "status"
  BY <1>1, <1>2 DEF Answered, GotStatus
<1>3. CASE j.op = "history"
  BY <1>1, <1>3 DEF Answered
<1>4. CASE j.op \in {"balance", "utxos"}
  BY <1>1, <1>4 DEF Answered
<1>5. CASE j.op \notin AddressReads
  BY <1>1, <1>5 DEF Answered, AddressReads
<1> QED
  BY <1>1, <1>2, <1>3, <1>4, <1>5 DEF AddressReads

-----------------------------------------------------------------------------
(* Layer 1: only the block processor's steps touch the stores. *)

\* Indexing a block keeps the first layer.
LEMMA AdvanceStores ==
    ASSUME Stores, Shapes, NEW touches \in SUBSET HashXs, Advance(touches)
    PROVE  Stores'
<1> DEFINE b == [branch |-> reorgs, touches |-> touches]
<1>1. /\ phase = "idle" /\ ~signalled /\ Len(blocks) < daemonHeight
      /\ blocks' = Append(blocks, b) /\ touched' = touched \cup touches
      /\ \/ phase' = "flush" /\ histRows' = blocks' /\ lapsed' = lapsed
         \/ /\ phase' = "report" /\ histRows' = histRows
            /\ lapsed' = [lapsed EXCEPT !.dropped = @ \cup touched']
      /\ UNCHANGED <<daemonHeight, reorgs, signalled, utxoRows, dbHeight, reorgCount>>
  BY DEF Advance, BpRuns, mgrCaches
<1>2. b \in Record /\ b.touches = touches
  BY DEF Stores, Chains, Record
<1> HIDE DEF b
<1>3. /\ blocks \in Seq(Record) /\ Len(blocks) \in Nat /\ dbHeight \in Nat
      /\ blocks' \in Seq(Record) /\ Len(blocks') = Len(blocks) + 1
      /\ blocks'[Len(blocks) + 1] = b
      /\ \A h \in 1 .. Len(blocks) : blocks'[h] = blocks[h]
  BY <1>1, <1>2, RecordParts DEF Stores, Chains
<1>4. Chains'
  <2>1. histRows' \in Seq(Record) /\ phase' \in {"flush", "report"}
    BY <1>1, <1>3 DEF Stores, Chains
  <2>2. daemonHeight' \in 1 .. MaxHeight /\ Len(blocks') \in 1 .. daemonHeight'
    BY <1>1, <1>3, ReadsAssumption DEF Stores, Chains
  <2>3. reorgs' \in Nat /\ reorgCount' \in Nat /\ dbHeight' \in Nat /\ utxoRows' \in Seq(Record)
    BY <1>1 DEF Stores, Chains
  <2>4. signalled' \in BOOLEAN /\ ~signalled'
    BY <1>1 DEF Stores, Chains
  <2> QED
    BY <1>3, <2>1, <2>2, <2>3, <2>4 DEF Chains, Phases
<1>5. Rows'
  <2>1. /\ dbHeight' = Len(utxoRows') /\ dbHeight' <= Len(blocks')
        /\ \A h \in 1 .. dbHeight' : utxoRows'[h] = blocks'[h]
    BY <1>1, <1>3 DEF Stores, Rows
  <2> QED
    BY <1>1, <2>1 DEF Stores, Rows, Writing
<1>6. Unflushed'
  <2>1. lapsed.dropped \subseteq lapsed'.dropped
    BY <1>1 DEF Shapes, LapsedFields
  <2>2. phase' = "report" => touched' \subseteq lapsed'.dropped
    BY <1>1 DEF Shapes, LapsedFields
  <2>3. ASSUME NEW h \in dbHeight + 1 .. Len(blocks')
        PROVE  blocks'[h].touches \subseteq touched' \cup lapsed'.dropped
    <3>1. CASE h \in dbHeight + 1 .. Len(blocks)
      <4>1. h \in 1 .. Len(blocks) /\ blocks[h].touches \subseteq touched \cup lapsed.dropped
        BY <1>1, <1>3, <3>1 DEF Stores, Unflushed
      <4> QED
        BY <1>1, <1>3, <2>1, <4>1
    <3>2. CASE h = Len(blocks) + 1
      BY <1>1, <1>2, <1>3, <3>2
    <3> QED
      BY <1>3, <3>1, <3>2
  <2> QED
    BY <1>1, <2>2, <2>3 DEF Unflushed
<1> QED
  BY <1>4, <1>5, <1>6 DEF Stores

\* The second write of a flush, of the UTXO rows, keeps it.
LEMMA FlushStores ==
    ASSUME Stores, FlushRows
    PROVE  Stores'
<1>1. /\ phase \in {"flush", "reflush"} /\ dbHeight' = Len(blocks) /\ utxoRows' = blocks
      /\ phase' = IF phase = "flush" THEN "report" ELSE "hashes"
      /\ UNCHANGED <<blocks, daemonHeight, touched, reorgs, signalled, histRows, reorgCount>>
  BY DEF FlushRows, mgrCaches
<1>2. Len(blocks) \in Nat
  BY LenProperties DEF Stores, Chains
<1> QED
  BY <1>1, <1>2 DEF Stores, Chains, Phases, Rows, Writing, Unflushed

\* The first write of a backup, of the history, keeps it.
LEMMA BackupStores ==
    ASSUME Stores, BackupHistory
    PROVE  Stores'
<1>1. /\ phase = "hashes" /\ phase' = "backup"
      /\ blocks' = Front(blocks) /\ histRows' = Front(blocks) /\ dbHeight' = Len(blocks) - 1
      /\ touched' = touched \cup Last(blocks).touches
      /\ UNCHANGED <<daemonHeight, reorgs, signalled, utxoRows, lapsed, reorgCount>>
  BY DEF BackupHistory, mgrCaches
<1>2. blocks \in Seq(Record) /\ Len(blocks) \in Nat /\ Len(blocks) > 1
  BY <1>1, LenProperties DEF Stores, Chains
<1>3. /\ blocks' \in Seq(Record) /\ Len(blocks') = Len(blocks) - 1
      /\ \A h \in 1 .. Len(blocks) - 1 : blocks'[h] = blocks[h]
  BY <1>1, <1>2, FrontParts
<1>4. Chains'
  BY <1>1, <1>2, <1>3 DEF Stores, Chains, Phases
<1>5. Rows'
  <2>1. /\ dbHeight = Len(blocks) /\ dbHeight = Len(utxoRows)
        /\ \A h \in 1 .. dbHeight : utxoRows[h] = blocks[h]
    BY <1>1 DEF Stores, Rows
  <2>2. utxoRows[Len(blocks)].touches \subseteq touched'
    BY <1>1, <1>2, <2>1 DEF Last
  <2> QED
    BY <1>1, <1>2, <1>3, <2>1, <2>2 DEF Rows, Writing
<1> QED
  BY <1>1, <1>4, <1>5 DEF Stores, Unflushed

\* Every step keeps the first layer.
LEMMA StoresStep ==
    ASSUME Stores, Tasks, ReadsNext
    PROVE  Stores'
<1> USE DEF Tasks
<1>1. ASSUME UNCHANGED <<chainVars, dbVars, reorgCount>>, lapsed'.dropped = lapsed.dropped
      PROVE  Stores'
  BY <1>1 DEF chainVars, dbVars, Stores, Chains, Rows, Writing, Unflushed
<1>2. ASSUME NEW f, NEW g, lapsed' = [lapsed EXCEPT !.statuses = f, !.told = g]
      PROVE  lapsed'.dropped = lapsed.dropped
  BY <1>2 DEF Shapes, LapsedFields
<1>3. CASE RefreshStarts
  BY <1>1, <1>3 DEF RefreshStarts, mgrCaches
<1>4. CASE on_mempool
  <2>1. lapsed'.dropped = lapsed.dropped
    BY <1>4, <1>2 DEF on_mempool, MaybeNotify
  <2> QED
    BY <1>1, <1>4, <2>1 DEF on_mempool, mgrCaches
<1>5. CASE _handle_chain_reorgs
  <2>1. lapsed'.dropped = lapsed.dropped
    BY <1>5 DEF _handle_chain_reorgs, Shapes, LapsedFields
  <2>2. /\ signalled' = FALSE /\ reorgCount' = reorgCount + 1
        /\ UNCHANGED <<blocks, daemonHeight, touched, phase, reorgs, histRows, utxoRows, dbHeight>>
    BY <1>5 DEF _handle_chain_reorgs, dbVars
  <2>3. signalled' \in BOOLEAN /\ ~signalled'
    BY <2>2
  <2>4. Chains'
    BY <2>2, <2>3 DEF Stores, Chains
  <2> QED
    BY <2>1, <2>2, <2>4 DEF Stores, Rows, Writing, Unflushed
<1>6. ASSUME NEW t \in Readers, ThreadReads(t) \/ ThreadStores(t) PROVE Stores'
  <2>1. lapsed'.dropped = lapsed.dropped
    BY <1>6 DEF ThreadReads, ThreadStores, Shapes, LapsedFields
  <2> QED
    BY <1>1, <1>6, <2>1 DEF ThreadReads, ThreadStores, mgrCaches
<1>7. ASSUME NEW c \in Callers, HeaderRead(c) \/ NotifyInner(c) \/ StatusRead(c) PROVE Stores'
  <2>1. lapsed'.dropped = lapsed.dropped
    BY <1>7 DEF HeaderRead, NotifyInner, StatusRead, GotStatus, Lapse, Shapes, LapsedFields
  <2> QED
    BY <1>1, <1>7, <2>1 DEF HeaderRead, NotifyInner, StatusRead, mgrCaches
<1>8. ASSUME NEW c \in Callers, HeaderLost(c) PROVE Stores'
  BY <1>8 DEF HeaderLost, Blocking, dbVars, mgrCaches, Stores, Chains, Phases, Rows, Writing, Unflushed
<1>9. CASE DaemonGrows
  <2>1. /\ daemonHeight < MaxHeight /\ daemonHeight' = daemonHeight + 1
        /\ UNCHANGED <<blocks, touched, phase, reorgs, signalled, dbVars, reorgCount, lapsed>>
    BY <1>9 DEF DaemonGrows, mgrCaches
  <2>2. daemonHeight' \in 1 .. MaxHeight /\ Len(blocks) \in 1 .. daemonHeight'
    BY <2>1, ReadsAssumption DEF Stores, Chains
  <2> QED
    BY <2>1, <2>2 DEF dbVars, Stores, Chains, Rows, Writing, Unflushed
<1>10. CASE on_block
  <2>1. lapsed'.dropped = lapsed.dropped
    BY <1>10, <1>2 DEF on_block, MaybeNotify
  <2>2. /\ phase = "report" /\ phase' = "idle" /\ touched' = {}
        /\ UNCHANGED <<blocks, daemonHeight, reorgs, signalled, dbVars, reorgCount>>
    BY <1>10 DEF on_block, mgrCaches
  <2> QED
    BY <2>1, <2>2, LenProperties DEF dbVars, Stores, Chains, Phases, Rows, Writing, Unflushed
<1>11. CASE StartReorg
  <2>1. /\ phase = "idle" /\ Len(blocks) > 1 /\ reorgs' = reorgs + 1
        /\ \/ dbHeight = Len(blocks) /\ phase' = "hashes" /\ histRows' = histRows
           \/ phase' = "reflush" /\ histRows' = blocks
        /\ UNCHANGED <<blocks, daemonHeight, touched, signalled, utxoRows, dbHeight, reorgCount, lapsed>>
    BY <1>11 DEF StartReorg, BpRuns, mgrCaches
  <2> QED
    BY <2>1 DEF Stores, Chains, Phases, Rows, Writing, Unflushed
<1>12. CASE BackupRows
  <2>1. lapsed'.dropped = lapsed.dropped
    BY <1>12 DEF BackupRows, Shapes, LapsedFields
  <2>2. /\ phase = "backup" /\ phase' = "reset" /\ utxoRows' = blocks
        /\ UNCHANGED <<blocks, daemonHeight, touched, reorgs, signalled, histRows, dbHeight, reorgCount>>
    BY <1>12 DEF BackupRows, mgrCaches
  <2> QED
    BY <2>1, <2>2, LenProperties DEF Stores, Chains, Phases, Rows, Writing, Unflushed
<1>13. CASE ReorgDone
  BY <1>13 DEF ReorgDone, dbVars, mgrCaches, Stores, Chains, Phases, Rows, Writing, Unflushed
<1>14. CASE Processor
  BY <1>10, <1>11, <1>12, <1>13, <1>14, AdvanceStores, FlushStores, BackupStores DEF Processor
<1>15. ASSUME NEW x \in HashXs,
              \/ get_balance(x) \/ all_utxos(x) \/ limited_history(x)
              \/ hashX_subscribe(x) \/ unsubscribe_hashX(x)
       PROVE  Stores'
  <2>1. lapsed'.dropped = lapsed.dropped
    BY <1>15 DEF get_balance, all_utxos, limited_history, hashX_subscribe, unsubscribe_hashX, Lapse,
                 Shapes, LapsedFields
  <2> QED
    BY <1>1, <1>15, <2>1 DEF get_balance, all_utxos, limited_history, hashX_subscribe,
                             unsubscribe_hashX, mgrCaches
<1>16. ASSUME NEW h \in 1 .. MaxHeight, tx_hashes_at_blockheight(h) PROVE Stores'
  BY <1>1, <1>16 DEF tx_hashes_at_blockheight, mgrCaches
<1>17. ASSUME NEW t \in Readers, ReadsAgain(t) PROVE Stores'
  BY <1>1, <1>17 DEF ReadsAgain, mgrCaches
<1>18. CASE Answered
  <2>1. lapsed'.dropped = lapsed.dropped
    BY <1>18, AnsweredIs, ClientJob DEF Lapse, Shapes, LapsedFields
  <2> QED
    BY <1>1, <1>18, <2>1, AnsweredIs
<1> QED
  BY <1>3, <1>4, <1>5, <1>6, <1>7, <1>8, <1>9, <1>14, <1>15, <1>16, <1>17, <1>18
     DEF ReadsNext, Threads, Notified, Client, Jobs

-----------------------------------------------------------------------------
(* Layer 2: the ways a step changes the jobs. *)

\* A coroutine without a read.
LEMMA NoJobIs ==
    /\ DOMAIN NoJob = JobFields /\ NoJob.at = "none" /\ NoJob.op = "none" /\ NoJob.looked = {}
    /\ NoJob.found = << >> /\ NoJob.fresh = TRUE /\ NoJob.count = 0
BY DEF NoJob, JobFields

\* A caller without a notification.
LEMMA NoNoteIs ==
    DOMAIN NoNote = NoteFields /\ NoNote.at = "none" /\ NoNote.todo = {} /\ NoNote.touched = {}
BY DEF NoNote, NoteFields

\* Nothing looked up, nothing found.
LEMMA NothingRead == ASSUME NEW S, S = {}, NEW f PROVE [n \in S |-> f[n].branch] = << >>
OBVIOUS

(* Nothing is asked or answered. *)
LEMMA JobsKept ==
    ASSUME Jobs, reorgCount \in Nat, jobs' = jobs, reorgCount' \in {reorgCount, reorgCount + 1}
    PROVE  Jobs'
<1>1. 0 .. reorgCount \subseteq 0 .. reorgCount'
  OBVIOUS
<1> QED
  BY <1>1 DEF Jobs, JobPlace

\* A coroutine asks for a read.
LEMMA JobAsked ==
    ASSUME Jobs, reorgCount \in Nat, UNCHANGED reorgCount, NEW t \in Readers, NEW op, NEW key,
           \/ op \in AddressReads /\ key \in HashXs
           \/ op = "txs" /\ key \in 1 .. MaxHeight
           \/ op = "header",
           jobs' = [jobs EXCEPT ![t] = Asked(op, key)]
    PROVE  /\ Jobs' /\ jobs'[t] = Asked(op, key) /\ jobs'[t].op = op
           /\ \A u \in Readers : u # t => jobs'[u] = jobs[u]
<1>1. /\ DOMAIN jobs' = Readers /\ jobs'[t] = Asked(op, key)
      /\ \A u \in Readers : u # t => jobs'[u] = jobs[u]
  BY DEF Jobs
<1>2. DOMAIN jobs'[t] = JobFields /\ JobPlace(jobs'[t])
  <2>1. op # "none" /\ op \in AddressReads \cup {"txs", "header"}
    BY DEF AddressReads
  <2>2. /\ DOMAIN jobs'[t] = JobFields
        /\ jobs'[t].op = op /\ jobs'[t].key = key /\ jobs'[t].at = "thread"
        /\ jobs'[t].looked = {} /\ jobs'[t].found = << >>
        /\ jobs'[t].fresh = TRUE
    BY <1>1, NoJobIs DEF Asked, JobFields
  <2> QED
    BY <2>1, <2>2 DEF JobPlace, AddressReads
<1>3. jobs'[t].op = op /\ jobs'[t].count \in 0 .. reorgCount'
  <2>1. jobs'[t].op = op /\ jobs'[t].count \in {0, reorgCount}
    BY <1>1, NoJobIs DEF Asked, JobFields
  <2> QED
    BY <2>1
<1> QED
  BY <1>1, <1>2, <1>3 DEF Jobs

\* A coroutine is done with its read.
LEMMA JobFreed ==
    ASSUME Jobs, reorgCount \in Nat, UNCHANGED reorgCount, NEW t \in Readers,
           jobs' = [jobs EXCEPT ![t] = NoJob]
    PROVE  Jobs' /\ jobs'[t] = NoJob /\ \A u \in Readers : u # t => jobs'[u] = jobs[u]
<1>1. /\ DOMAIN jobs' = Readers /\ jobs'[t] = NoJob
      /\ \A u \in Readers : u # t => jobs'[u] = jobs[u]
  BY DEF Jobs
<1>2. DOMAIN jobs'[t] = JobFields /\ JobPlace(jobs'[t])
  BY <1>1, NoJobIs DEF JobPlace, AddressReads
<1>3. jobs'[t].count \in 0 .. reorgCount'
  BY <1>1, NoJobIs
<1> QED
  BY <1>1, <1>2, <1>3 DEF Jobs

\* A write makes what threads have read old.
LEMMA JobsOvertaken ==
    ASSUME Jobs, UNCHANGED reorgCount, jobs' = Overtaken
    PROVE  /\ Jobs'
           /\ \A t \in Readers :
                /\ jobs'[t].op = jobs[t].op /\ jobs'[t].at = jobs[t].at /\ jobs'[t].key = jobs[t].key
                /\ jobs'[t].found = jobs[t].found /\ jobs'[t].count = jobs[t].count
                /\ jobs'[t].at \in {"read", "back"} => ~jobs'[t].fresh
<1>1. DOMAIN jobs' = Readers
  BY DEF Jobs, Overtaken
<1>2. ASSUME NEW t \in Readers
      PROVE  /\ DOMAIN jobs'[t] = JobFields /\ JobPlace(jobs'[t])
             /\ jobs'[t].op = jobs[t].op /\ jobs'[t].at = jobs[t].at /\ jobs'[t].key = jobs[t].key
             /\ jobs'[t].found = jobs[t].found /\ jobs'[t].count = jobs[t].count
             /\ jobs'[t].at \in {"read", "back"} => ~jobs'[t].fresh
  <2>1. CASE jobs[t].at \in {"read", "back"}
    <3>1. /\ DOMAIN jobs'[t] = JobFields /\ jobs'[t].fresh = FALSE
          /\ jobs'[t].op = jobs[t].op /\ jobs'[t].at = jobs[t].at /\ jobs'[t].key = jobs[t].key
          /\ jobs'[t].found = jobs[t].found /\ jobs'[t].count = jobs[t].count
          /\ jobs'[t].looked = jobs[t].looked
      BY <2>1 DEF Jobs, Overtaken, JobFields
    <3>2. JobPlace(jobs[t]) /\ jobs[t].op # "none"
      BY <2>1 DEF Jobs, JobPlace
    <3> QED
      BY <2>1, <3>1, <3>2 DEF JobPlace
  <2>2. CASE jobs[t].at \notin {"read", "back"}
    BY <2>2 DEF Jobs, Overtaken, JobPlace
  <2> QED
    BY <2>1, <2>2
<1> QED
  BY <1>1, <1>2 DEF Jobs

\* A thread reads.
LEMMA JobReads ==
    ASSUME Jobs, NEW t \in Readers, ThreadReads(t)
    PROVE  /\ Jobs'
           /\ jobs'[t].op = jobs[t].op /\ jobs'[t].key = jobs[t].key
           /\ jobs'[t].count = jobs[t].count /\ jobs'[t].found = Found(jobs[t])
           /\ jobs'[t].at \in {"read", "back"}
           /\ jobs'[t].fresh = (~Blocking /\ DOMAIN Found(jobs[t]) \cap lapsed.txs = {})
           /\ \A u \in Readers : u # t => jobs'[u] = jobs[u]
<1> DEFINE f == Found(jobs[t])
           lookups == IF jobs[t].op \in {"txs", "header"} THEN {}
                      ELSE {n \in DOMAIN f : txHashes[n] = Absent}
<1>1. /\ jobs[t].at = "thread" /\ UNCHANGED reorgCount
      /\ jobs' = [jobs EXCEPT ![t].at = IF lookups = {} THEN "back" ELSE "read", ![t].found = f,
                              ![t].looked = lookups,
                              ![t].fresh = ~Blocking /\ DOMAIN f \cap lapsed.txs = {}]
  BY DEF ThreadReads, mgrCaches
<1>2. lookups \subseteq DOMAIN f /\ (jobs[t].op \in {"txs", "header"} => lookups = {})
  OBVIOUS
<1>3. jobs[t].op \in {"txs", "header"} => f = << >> \/ jobs[t].key \in DOMAIN f
  <2>1. ASSUME jobs[t].op \in {"txs", "header"}
        PROVE  f = [n \in {jobs[t].key} \cap 1 .. dbHeight |-> histRows[n].branch]
    BY <2>1 DEF Found
  <2>2. CASE jobs[t].key \in 1 .. dbHeight
    BY <2>1, <2>2
  <2>3. CASE jobs[t].key \notin 1 .. dbHeight
    BY <2>1, <2>3, NothingRead
  <2> QED
    BY <2>2, <2>3
<1> HIDE DEF f, lookups
<1>4. /\ DOMAIN jobs' = Readers /\ \A u \in Readers : u # t => jobs'[u] = jobs[u]
      /\ DOMAIN jobs'[t] = JobFields
      /\ jobs'[t].op = jobs[t].op /\ jobs'[t].key = jobs[t].key /\ jobs'[t].count = jobs[t].count
      /\ jobs'[t].found = f /\ jobs'[t].looked = lookups
      /\ jobs'[t].at = IF lookups = {} THEN "back" ELSE "read"
      /\ jobs'[t].fresh = (~Blocking /\ DOMAIN f \cap lapsed.txs = {})
  BY <1>1 DEF Jobs, JobFields
<1>5. JobPlace(jobs'[t])
  <2>1. JobPlace(jobs[t]) /\ jobs[t].op # "none"
    BY <1>1 DEF Jobs, JobPlace
  <2>2. jobs'[t].at \in {"read", "back"} /\ jobs'[t].fresh \in BOOLEAN
    BY <1>4
  <2>3. jobs'[t].looked \subseteq DOMAIN jobs'[t].found
    BY <1>2, <1>4
  <2>4. jobs'[t].op \in {"txs", "header"} =>
          jobs'[t].looked = {} /\ (jobs'[t].found = << >> \/ jobs'[t].key \in DOMAIN jobs'[t].found)
    BY <1>2, <1>3, <1>4
  <2> QED
    BY <1>4, <2>1, <2>2, <2>3, <2>4 DEF JobPlace
<1>6. Jobs'
  BY <1>1, <1>4, <1>5 DEF Jobs
<1> QED
  BY <1>4, <1>6 DEF f

\* A thread stores the hashes it looked up.
LEMMA JobStores ==
    ASSUME Jobs, NEW t \in Readers, ThreadStores(t)
    PROVE  /\ Jobs'
           /\ \A u \in Readers :
                /\ jobs'[u].op = jobs[u].op /\ jobs'[u].key = jobs[u].key
                /\ jobs'[u].count = jobs[u].count /\ jobs'[u].found = jobs[u].found
                /\ jobs'[u].fresh = jobs[u].fresh
                /\ jobs'[u].at \in {"read", "back"} <=> jobs[u].at \in {"read", "back"}
<1>1. /\ jobs[t].at = "read" /\ UNCHANGED reorgCount
      /\ jobs' = [jobs EXCEPT ![t].at = "back", ![t].looked = {}]
  BY DEF ThreadStores, mgrCaches
<1>2. /\ DOMAIN jobs' = Readers /\ \A u \in Readers : u # t => jobs'[u] = jobs[u]
      /\ DOMAIN jobs'[t] = JobFields /\ jobs'[t].at = "back" /\ jobs'[t].looked = {}
      /\ jobs'[t].op = jobs[t].op /\ jobs'[t].key = jobs[t].key /\ jobs'[t].count = jobs[t].count
      /\ jobs'[t].found = jobs[t].found /\ jobs'[t].fresh = jobs[t].fresh
  BY <1>1 DEF Jobs, JobFields
<1>3. JobPlace(jobs[t]) /\ jobs[t].op # "none"
  BY <1>1 DEF Jobs, JobPlace
<1>4. JobPlace(jobs'[t])
  BY <1>1, <1>2, <1>3 DEF JobPlace
<1>5. Jobs'
  BY <1>1, <1>2, <1>4 DEF Jobs
<1> QED
  BY <1>1, <1>2, <1>5

-----------------------------------------------------------------------------
(* Layer 2, step by step. *)

\* Notifications keep their places when no read changes hands.
LEMMA NotesKept ==
    ASSUME Notes, notes' = notes, \A c \in Callers : jobs'[c].op = jobs[c].op
    PROVE  Notes'
BY DEF Notes, NotePlace

(* Another note for one caller. *)
LEMMA NoteGiven ==
    ASSUME Notes, NEW c \in Callers, NEW place \in {"none", "header", "sessions"}, NEW note,
           DOMAIN note = NoteFields, note.at = place,
           note.touched \subseteq HashXs, note.todo \subseteq HashXs, notes' = [notes EXCEPT ![c] = note],
           place = "none" => note = NoNote /\ jobs'[c].op = "none",
           place = "header" => note.todo = {} /\ jobs'[c].op = "header",
           place = "sessions" => jobs'[c].op \in {"none", "status"},
           \A d \in Callers : d # c => jobs'[d].op = jobs[d].op
    PROVE  Notes' /\ \A d \in Callers : d # c => notes'[d] = notes[d]
<1>1. /\ DOMAIN notes' = Callers /\ notes'[c] = note
      /\ \A d \in Callers : d # c => notes'[d] = notes[d]
  BY DEF Notes
<1>2. NotePlace(c)'
  BY <1>1 DEF NotePlace
<1>3. ASSUME NEW d \in Callers, d # c PROVE NotePlace(d)'
  BY <1>1, <1>3 DEF Notes, NotePlace
<1> QED
  BY <1>1, <1>2, <1>3 DEF Notes

(* Who reads, and who of them calls Notifications. *)
LEMMA ReadersAre == Callers \subseteq Readers /\ "client" \in Readers /\ "client" \notin Callers
                    /\ "bp" \in Callers /\ "mp" \in Callers
BY DEF Readers, Callers

(* A notification's effect on the tasks. *)
LEMMA NotifyTasks ==
    ASSUME Tasks, NEW c \in Callers, NEW tbp, NEW tmp, NEW top \in Nat, NEW replaced,
           DOMAIN tbp \subseteq 1 .. MaxHeight, \A o \in DOMAIN tbp : tbp[o] \subseteq HashXs,
           touched' \subseteq HashXs, MaybeNotify(c, tbp, tmp, top, replaced),
           notes[c] = NoNote, reorgCount \in Nat, UNCHANGED reorgCount,
           UNCHANGED <<balances, utxoLists, told, histories, statuses, txHashes, txsAt>>
    PROVE  /\ Shapes' /\ Jobs' /\ Notes'
           /\ \A d \in Callers : d # c => notes'[d] = notes[d]
           /\ jobs'["client"] = jobs["client"]
<1>1. PICK h, kept : h \in Nat /\ NotifyEffect(c, tbp, top, replaced, h, kept)
  BY Notifies
<1>2. Shapes'
  <2>1. DOMAIN lapsed' = LapsedFields
    BY <1>1 DEF NotifyEffect, Tasks, Shapes
  <2>2. highest' \in Nat /\ DOMAIN touchedBp' \subseteq 1 .. MaxHeight
    BY <1>1 DEF NotifyEffect
  <2>3. \A o \in DOMAIN touchedBp' : touchedBp'[o] \subseteq HashXs
    BY <1>1 DEF NotifyEffect
  <2> QED
    BY <2>1, <2>2, <2>3 DEF Tasks, Shapes
<1>3. Popped(tbp, h) \subseteq HashXs
  BY DEF Popped
<1>4. jobs[c].op = "none"
  BY NoNoteIs DEF Tasks, Notes, NotePlace
<1>5. CASE notes' = notes /\ jobs' = jobs
  BY <1>2, <1>5, JobsKept, NotesKept DEF Tasks
<1>6. ASSUME NEW note, note = [at |-> "sessions", height |-> h, touched |-> Popped(tbp, h),
                               todo |-> {x \in Popped(tbp, h) : told[x] # Absent}],
             jobs' = jobs, notes' = [notes EXCEPT ![c] = note]
      PROVE  Jobs' /\ Notes' /\ \A d \in Callers : d # c => notes'[d] = notes[d]
  <2>1. Jobs'
    BY <1>6, JobsKept DEF Tasks
  <2>2. /\ DOMAIN note = NoteFields /\ note.at = "sessions"
        /\ note.touched \subseteq HashXs /\ note.todo \subseteq HashXs
    BY <1>6, <1>3 DEF NoteFields
  <2> QED
    BY <1>4, <1>6, <2>1, <2>2, NoteGiven DEF Tasks
<1>7. ASSUME NEW note, note = [at |-> "header", height |-> Min({h, dbHeight}),
                               touched |-> Popped(tbp, h), todo |-> {}],
             jobs' = [jobs EXCEPT ![c] = Asked("header", Min({h, dbHeight}))],
             notes' = [notes EXCEPT ![c] = note]
      PROVE  /\ Jobs' /\ Notes' /\ \A d \in Callers : d # c => notes'[d] = notes[d]
             /\ jobs'["client"] = jobs["client"]
  <2>1. Jobs' /\ jobs'[c].op = "header" /\ \A u \in Readers : u # c => jobs'[u] = jobs[u]
    BY <1>7, ReadersAre, JobAsked DEF Tasks
  <2>2. /\ DOMAIN note = NoteFields /\ note.at = "header" /\ note.todo = {}
        /\ note.touched \subseteq HashXs
    BY <1>7, <1>3 DEF NoteFields
  <2>3. Notes' /\ \A d \in Callers : d # c => notes'[d] = notes[d]
    BY <1>7, <2>1, <2>2, ReadersAre, NoteGiven DEF Tasks
  <2> QED
    BY <2>1, <2>3, ReadersAre
<1>8. jobs'["client"] = jobs["client"]
  BY <1>1, <1>7 DEF NotifyEffect
<1> QED
  BY <1>1, <1>2, <1>5, <1>6, <1>7, <1>8 DEF NotifyEffect

\* The block processor's report keeps the second layer.
LEMMA BlockTasks ==
    ASSUME Stores, Tasks, on_block
    PROVE  Tasks'
<1> DEFINE all == [o \in DOMAIN touchedBp \cup {Len(blocks)} |->
                     IF o = Len(blocks) THEN touched ELSE touchedBp[o]]
           gone == (UNION {touchedBp[o] : o \in DOMAIN touchedBp \cap {Len(blocks)}}) \ touched
<1>1. /\ phase = "report" /\ phase' = "idle" /\ MaybeNotify("bp", all, touchedMp, Len(blocks), gone)
      /\ UNCHANGED <<refreshing, reorgCount, dbCaches, mgrCaches, told>>
  BY DEF on_block, mgrCaches
<1>2. /\ DOMAIN all = DOMAIN touchedBp \cup {Len(blocks)}
      /\ \A o \in DOMAIN all : all[o] \subseteq HashXs
  BY DEF Tasks, Shapes
<1> HIDE DEF all, gone
<1>3. Len(blocks) \in Nat /\ DOMAIN all \subseteq 1 .. MaxHeight
  BY <1>2, ReadsAssumption DEF Stores, Chains, Tasks, Shapes
<1>4. notes["bp"] = NoNote /\ reorgCount \in Nat
  BY <1>1 DEF Tasks, Turns, Stores, Chains
<1>5. /\ Shapes' /\ Jobs' /\ Notes' /\ notes'["mp"] = notes["mp"]
      /\ jobs'["client"] = jobs["client"]
  <2>1. touched' \subseteq HashXs
    BY DEF on_block
  <2> QED
    BY <1>1, <1>2, <1>3, <1>4, <2>1, ReadersAre, NotifyTasks DEF dbCaches, mgrCaches, Callers
<1> QED
  BY <1>1, <1>5 DEF Tasks, Turns

\* So does the mempool's.
LEMMA MempoolTasks ==
    ASSUME Stores, Tasks, on_mempool
    PROVE  Tasks'
<1>1. /\ ~Blocking /\ refreshing # 0 /\ refreshing' = 0
      /\ MaybeNotify("mp", touchedBp, touchedMp \cup {refreshing}, highest, {})
      /\ UNCHANGED <<phase, reorgCount, dbCaches, mgrCaches, told>>
  BY DEF on_mempool, chainVars, mgrCaches
<1>2. notes["mp"] = NoNote /\ reorgCount \in Nat
  BY <1>1 DEF Tasks, Turns, Stores, Chains
<1>3. /\ highest \in Nat /\ DOMAIN touchedBp \subseteq 1 .. MaxHeight
      /\ \A o \in DOMAIN touchedBp : touchedBp[o] \subseteq HashXs
      /\ touched' \subseteq HashXs
  BY DEF Tasks, Shapes, on_mempool, chainVars
<1>4. /\ Shapes' /\ Jobs' /\ Notes' /\ notes'["bp"] = notes["bp"]
      /\ jobs'["client"] = jobs["client"]
  BY <1>1, <1>2, <1>3, ReadersAre, NotifyTasks DEF dbCaches, mgrCaches, Callers
<1> QED
  BY <1>1, <1>4 DEF Tasks, Turns, Blocking

(* A step of a notification under way. *)
LEMMA CallerTasks ==
    ASSUME Stores, Tasks, NEW c \in Callers, HeaderRead(c) \/ NotifyInner(c) \/ StatusRead(c)
    PROVE  Tasks'
<1>1. /\ ~Blocking /\ notes[c].at \in {"header", "sessions"} /\ notes[c] # NoNote
      /\ UNCHANGED <<phase, refreshing, reorgCount, txHashes, txsAt, balances, utxoLists, highest,
                     touched, touchedBp>>
  BY NoNoteIs DEF HeaderRead, NotifyInner, StatusRead, chainVars, dbCaches, notifyVars
<1>2. Shapes'
  <2>1. DOMAIN lapsed' = LapsedFields
    BY DEF HeaderRead, NotifyInner, StatusRead, GotStatus, Lapse, Tasks, Shapes
  <2>2. DOMAIN told' = HashXs /\ DOMAIN histories' = HashXs /\ DOMAIN statuses' = HashXs
    BY DEF HeaderRead, NotifyInner, StatusRead, GotStatus, Tasks, Shapes
  <2> QED
    BY <1>1, <2>1, <2>2 DEF Tasks, Shapes
<1>3. reorgCount \in Nat /\ c \in Readers
  BY ReadersAre DEF Stores, Chains
<1>4. notes[c].at = "sessions" => jobs[c].op \in {"none", "status"}
  BY DEF Tasks, Notes, NotePlace
<1>5. /\ Jobs' /\ Notes' /\ jobs'["client"] = jobs["client"]
      /\ \A d \in Callers : d # c => notes'[d] = notes[d]
  <2>1. CASE HeaderRead(c)
    <3> DEFINE note == [notes[c] EXCEPT !.at = "sessions",
                                        !.todo = {x \in notes[c].touched : told[x] # Absent}]
    <3>1. jobs' = [jobs EXCEPT ![c] = NoJob]
      BY <2>1 DEF HeaderRead
    <3>2. /\ DOMAIN note = NoteFields /\ note.at = "sessions"
          /\ note.touched \subseteq HashXs /\ note.todo \subseteq HashXs
          /\ notes' = [notes EXCEPT ![c] = note]
      BY <2>1 DEF HeaderRead, Tasks, Notes, NoteFields
    <3>3. Jobs' /\ jobs'[c] = NoJob /\ \A u \in Readers : u # c => jobs'[u] = jobs[u]
      BY <1>1, <1>3, <3>1, JobFreed DEF Tasks
    <3> HIDE DEF note
    <3>4. Notes' /\ \A d \in Callers : d # c => notes'[d] = notes[d]
      BY <3>2, <3>3, NoJobIs, ReadersAre, NoteGiven DEF Tasks
    <3> QED
      BY <3>3, <3>4, ReadersAre
  <2>2. CASE NotifyInner(c)
    <3>1. CASE notes[c].todo = {}
      <4>1. jobs' = jobs /\ notes' = [notes EXCEPT ![c] = NoNote] /\ jobs[c] = NoJob
        BY <2>2, <3>1 DEF NotifyInner
      <4>2. Jobs'
        BY <1>1, <1>3, <4>1, JobsKept DEF Tasks
      <4> QED
        BY <4>1, <4>2, NoJobIs, NoNoteIs, NoteGiven DEF Tasks
    <3>2. CASE notes[c].todo # {}
      <4>1. PICK x \in notes[c].todo :
                 /\ notes' = [notes EXCEPT ![c].todo = @ \ {x}]
                 /\ jobs' = jobs \/ jobs' = [jobs EXCEPT ![c] = Asked("status", x)]
        BY <2>2, <3>2 DEF NotifyInner
      <4> DEFINE note == [notes[c] EXCEPT !.todo = @ \ {x}]
      <4>2. /\ DOMAIN note = NoteFields /\ note.at = "sessions"
            /\ note.touched \subseteq HashXs /\ note.todo \subseteq HashXs
            /\ notes' = [notes EXCEPT ![c] = note]
        BY <2>2, <4>1 DEF NotifyInner, Tasks, Notes, NoteFields
      <4> HIDE DEF note
      <4>3. CASE jobs' = jobs
        <5>1. Jobs'
          BY <1>1, <1>3, <4>3, JobsKept DEF Tasks
        <5>2. jobs'[c].op \in {"none", "status"}
          BY <1>4, <2>2, <4>3 DEF NotifyInner
        <5> QED
          BY <4>2, <4>3, <5>1, <5>2, NoteGiven DEF Tasks
      <4>4. CASE jobs' = [jobs EXCEPT ![c] = Asked("status", x)]
        <5>1. x \in HashXs
          BY DEF Tasks, Notes
        <5>2. Jobs' /\ jobs'[c].op = "status" /\ \A u \in Readers : u # c => jobs'[u] = jobs[u]
          BY <1>1, <1>3, <4>4, <5>1, JobAsked DEF Tasks, AddressReads
        <5>3. Notes' /\ \A d \in Callers : d # c => notes'[d] = notes[d]
          BY <4>2, <5>2, ReadersAre, NoteGiven DEF Tasks
        <5> QED
          BY <5>2, <5>3, ReadersAre
      <4> QED
        BY <4>1, <4>3, <4>4
    <3> QED
      BY <3>1, <3>2
  <2>3. CASE StatusRead(c)
    <3>1. notes' = notes /\ jobs' = [jobs EXCEPT ![c] = NoJob] /\ notes[c].at = "sessions"
      BY <2>3 DEF StatusRead, notifyVars
    <3>2. Jobs' /\ jobs'[c] = NoJob /\ \A u \in Readers : u # c => jobs'[u] = jobs[u]
      BY <1>1, <1>3, <3>1, JobFreed DEF Tasks
    <3>3. Notes'
      <4>1. ASSUME NEW d \in Callers PROVE NotePlace(d)'
        <5>1. CASE d = c
          BY <3>1, <3>2, <5>1, NoJobIs, NoNoteIs DEF NotePlace
        <5>2. CASE d # c
          BY <3>1, <3>2, <5>2, ReadersAre DEF Tasks, Notes, NotePlace
        <5> QED
          BY <5>1, <5>2
      <4> QED
        BY <3>1, <4>1 DEF Tasks, Notes
    <3> QED
      BY <3>1, <3>2, <3>3, ReadersAre
  <2> QED
    BY <2>1, <2>2, <2>3
<1>6. Turns'
  BY <1>1, <1>5, ReadersAre DEF Tasks, Turns, Blocking
<1> QED
  BY <1>2, <1>5, <1>6 DEF Tasks

(* A step of the block processor that gives no note. *)
LEMMA ProcessorTasks ==
    ASSUME Stores, Tasks, UNCHANGED <<highest, refreshing, touchedBp, notes, reorgCount>>,
           touched' \subseteq HashXs,
           DOMAIN lapsed' = LapsedFields, UNCHANGED <<told, histories, statuses, txsAt>>,
           DOMAIN balances' = HashXs, DOMAIN utxoLists' = HashXs, DOMAIN txHashes' = 1 .. MaxHeight,
           jobs' = jobs \/ jobs' = Overtaken,
           phase' \in {"flush", "report"} =>
             phase \in {"flush", "report"} \/ notes["bp"] = NoNote
    PROVE  Tasks'
<1>1. Shapes'
  BY DEF Tasks, Shapes
<1>2. Jobs' /\ \A t \in Readers : jobs'[t].op = jobs[t].op
  BY JobsKept, JobsOvertaken DEF Tasks, Stores, Chains
<1>3. Notes'
  BY <1>2, ReadersAre, NotesKept DEF Tasks
<1>4. Turns'
  BY <1>2, ReadersAre DEF Tasks, Turns
<1> QED
  BY <1>1, <1>2, <1>3, <1>4 DEF Tasks

(* A step of the client or of a thread: no note is given and no address touched. *)
LEMMA ClientTasks ==
    ASSUME Tasks, UNCHANGED <<phase, highest, refreshing, touched, touchedBp, notes>>,
           DOMAIN lapsed' = LapsedFields, DOMAIN balances' = HashXs, DOMAIN utxoLists' = HashXs,
           DOMAIN told' = HashXs, DOMAIN histories' = HashXs, DOMAIN statuses' = HashXs,
           DOMAIN txHashes' = 1 .. MaxHeight, DOMAIN txsAt' = 1 .. MaxHeight,
           Jobs', \A c \in Callers : jobs'[c].op = jobs[c].op, jobs'["client"].op # "header"
    PROVE  Tasks'
<1>1. Shapes'
  BY DEF Tasks, Shapes
<1>2. Notes'
  BY NotesKept DEF Tasks
<1> QED
  BY <1>1, <1>2 DEF Tasks, Turns

(* A request of the client: it reads, or is answered at once. *)
LEMMA Requested ==
    ASSUME Tasks, reorgCount \in Nat, UNCHANGED reorgCount, NEW op, NEW key,
           \/ op \in AddressReads /\ key \in HashXs
           \/ op = "txs" /\ key \in 1 .. MaxHeight,
           Read(op, key) \/ jobs' = jobs
    PROVE  /\ Jobs' /\ (\A c \in Callers : jobs'[c] = jobs[c]) /\ jobs'["client"].op # "header"
<1>1. CASE Read(op, key)
  <2>1. jobs' = [jobs EXCEPT !["client"] = Asked(op, key)] /\ op # "header"
    BY <1>1 DEF Read, AddressReads
  <2>2. /\ Jobs' /\ jobs'["client"].op = op
        /\ \A u \in Readers : u # "client" => jobs'[u] = jobs[u]
    BY <2>1, ReadersAre, JobAsked DEF Tasks
  <2> QED
    BY <2>1, <2>2, ReadersAre
<1>2. CASE jobs' = jobs
  BY <1>2, JobsKept DEF Tasks, Turns
<1> QED
  BY <1>1, <1>2

\* Every step keeps the second layer.
LEMMA TasksStep ==
    ASSUME Stores, Tasks, ReadsNext
    PROVE  Tasks'
<1>1. reorgCount \in Nat /\ Len(blocks) \in Nat
  BY LenProperties DEF Stores, Chains
<1>2. CASE DaemonGrows
  BY <1>2, ProcessorTasks DEF DaemonGrows, notifyVars, dbCaches, mgrCaches, sessionVars, Tasks, Shapes
<1>3. CASE RefreshStarts
  <2>1. /\ ~Blocking /\ notes["mp"] = NoNote /\ refreshing' = dbHeight /\ dbHeight \in Nat
        /\ UNCHANGED <<chainVars, highest, touchedBp, notes, dbCaches, mgrCaches, sessionVars, lapsed>>
    BY <1>3 DEF RefreshStarts, Stores, Chains
  <2>2. Jobs'
    BY <1>1, <2>1, JobsKept DEF mgrCaches, sessionVars, Tasks
  <2>3. Notes'
    BY <2>1, NotesKept DEF sessionVars, Tasks
  <2>4. Shapes'
    BY <2>1 DEF chainVars, dbCaches, mgrCaches, sessionVars, Tasks, Shapes
  <2> QED
    BY <2>1, <2>2, <2>3, <2>4 DEF Tasks, Turns, chainVars, sessionVars
<1>4. CASE _handle_chain_reorgs
  <2>1. /\ reorgCount' = reorgCount + 1
        /\ UNCHANGED <<blocks, touched, phase, highest, refreshing, touchedBp, notes, balances,
                       utxoLists, txHashes, told, jobs>>
    BY <1>4 DEF _handle_chain_reorgs, notifyVars, dbCaches, sessionVars
  <2>2. Jobs'
    BY <1>1, <2>1, JobsKept DEF Tasks
  <2>3. /\ DOMAIN lapsed' = LapsedFields /\ DOMAIN txsAt' = 1 .. MaxHeight
        /\ DOMAIN histories' = HashXs /\ DOMAIN statuses' = HashXs
    BY <1>4 DEF _handle_chain_reorgs, Tasks, Shapes
  <2> QED
    BY <2>1, <2>2, <2>3, ClientTasks DEF Tasks, Shapes, Turns
<1>5. ASSUME NEW t \in Readers, ThreadReads(t) PROVE Tasks'
  <2>1. Jobs' /\ \A u \in Readers : jobs'[u].op = jobs[u].op
    BY <1>5, JobReads DEF Tasks
  <2> QED
    BY <1>5, <2>1, ReadersAre, ClientTasks
       DEF ThreadReads, chainVars, notifyVars, dbCaches, mgrCaches, Tasks, Shapes, Turns
<1>6. ASSUME NEW t \in Readers, ThreadStores(t) PROVE Tasks'
  <2>1. Jobs' /\ \A u \in Readers : jobs'[u].op = jobs[u].op
    BY <1>6, JobStores DEF Tasks
  <2>2. DOMAIN lapsed' = LapsedFields /\ DOMAIN txHashes' = 1 .. MaxHeight
    BY <1>6 DEF ThreadStores, Tasks, Shapes
  <2> QED
    BY <1>6, <2>1, <2>2, ReadersAre, ClientTasks
       DEF ThreadStores, chainVars, notifyVars, mgrCaches, Tasks, Shapes, Turns
<1>7. ASSUME NEW c \in Callers, HeaderLost(c) PROVE Tasks'
  BY <1>7, ProcessorTasks DEF HeaderLost, notifyVars, dbCaches, mgrCaches, sessionVars, Tasks, Shapes
<1>8. ASSUME NEW touches \in SUBSET HashXs, Advance(touches) PROVE Tasks'
  <2>1. /\ notes["bp"] = NoNote /\ touched' = touched \cup touches
        /\ jobs' = jobs \/ jobs' = Overtaken
        /\ lapsed' = lapsed \/ lapsed' = [lapsed EXCEPT !.dropped = @ \cup touched']
        /\ UNCHANGED <<notifyVars, dbCaches, mgrCaches, told>>
    BY <1>8 DEF Advance, BpRuns
  <2>2. DOMAIN lapsed' = LapsedFields /\ touched' \subseteq HashXs
    BY <2>1 DEF Tasks, Shapes
  <2> QED
    BY <2>1, <2>2, ProcessorTasks DEF notifyVars, dbCaches, mgrCaches, Tasks, Shapes
<1>9. CASE FlushRows
  <2>1. /\ phase \in {"flush", "reflush"} /\ phase' = IF phase = "flush" THEN "report" ELSE "hashes"
        /\ jobs' = Overtaken /\ UNCHANGED <<touched, notifyVars, txHashes, mgrCaches, told>>
    BY <1>9 DEF FlushRows
  <2>2. DOMAIN lapsed' = LapsedFields /\ DOMAIN balances' = HashXs /\ DOMAIN utxoLists' = HashXs
    BY <1>9 DEF FlushRows, invalidate_balance_cache, Tasks, Shapes
  <2> QED
    BY <2>1, <2>2, ProcessorTasks DEF notifyVars, mgrCaches, Tasks, Shapes
<1>10. CASE StartReorg
  <2>1. phase' \in {"hashes", "reflush"} /\ (jobs' = jobs \/ jobs' = Overtaken)
    BY <1>10 DEF StartReorg
  <2> QED
    BY <1>10, <2>1, ProcessorTasks DEF StartReorg, notifyVars, dbCaches, mgrCaches, Tasks, Shapes
<1>11. CASE BackupHistory
  <2>1. touched' \subseteq HashXs
    <3>1. blocks \in Seq(Record) /\ Len(blocks) \in 1 .. Len(blocks)
      BY <1>1 DEF Stores, Chains
    <3>2. Last(blocks) \in Record
      BY <3>1, RecordParts DEF Last
    <3> QED
      BY <1>11, <3>2 DEF BackupHistory, Record, Tasks, Shapes
  <2> QED
    BY <1>11, <2>1, ProcessorTasks DEF BackupHistory, notifyVars, dbCaches, mgrCaches, Tasks, Shapes
<1>12. CASE BackupRows
  <2>1. /\ DOMAIN lapsed' = LapsedFields /\ DOMAIN balances' = HashXs /\ DOMAIN utxoLists' = HashXs
        /\ DOMAIN txHashes' = 1 .. MaxHeight
    BY <1>12 DEF BackupRows, Tasks, Shapes
  <2> QED
    BY <1>12, <2>1, ProcessorTasks DEF BackupRows, notifyVars, mgrCaches, Tasks, Shapes
<1>13. CASE ReorgDone
  BY <1>13, ProcessorTasks DEF ReorgDone, notifyVars, dbCaches, mgrCaches, sessionVars, Tasks, Shapes
<1>14. CASE Processor
  BY <1>8, <1>9, <1>10, <1>11, <1>12, <1>13, <1>14, BlockTasks DEF Processor
<1>15. ASSUME NEW x \in HashXs,
              \/ get_balance(x) \/ all_utxos(x) \/ limited_history(x)
              \/ hashX_subscribe(x) \/ unsubscribe_hashX(x)
       PROVE  Tasks'
  <2>1. /\ UNCHANGED <<chainVars, notifyVars, txHashes, txsAt, reorgCount>>
        /\ \E op \in AddressReads : Read(op, x) \/ jobs' = jobs
    BY <1>15 DEF get_balance, all_utxos, limited_history, hashX_subscribe, unsubscribe_hashX,
                 dbCaches, mgrCaches, AddressReads
  <2>2. /\ DOMAIN lapsed' = LapsedFields /\ DOMAIN balances' = HashXs /\ DOMAIN utxoLists' = HashXs
        /\ DOMAIN told' = HashXs /\ DOMAIN histories' = HashXs /\ DOMAIN statuses' = HashXs
    BY <1>15 DEF get_balance, all_utxos, limited_history, hashX_subscribe, unsubscribe_hashX,
                 dbCaches, mgrCaches, Lapse, Tasks, Shapes
  <2>3. Jobs' /\ (\A c \in Callers : jobs'[c] = jobs[c]) /\ jobs'["client"].op # "header"
    BY <1>1, <2>1, Requested
  <2> QED
    BY <2>1, <2>2, <2>3, ClientTasks DEF chainVars, notifyVars, Tasks, Shapes
<1>16. ASSUME NEW h \in 1 .. MaxHeight, tx_hashes_at_blockheight(h) PROVE Tasks'
  <2>1. Jobs' /\ (\A c \in Callers : jobs'[c] = jobs[c]) /\ jobs'["client"].op # "header"
    BY <1>1, <1>16, Requested DEF tx_hashes_at_blockheight, mgrCaches
  <2> QED
    BY <1>16, <2>1, ClientTasks
       DEF tx_hashes_at_blockheight, chainVars, notifyVars, dbCaches, mgrCaches, Tasks, Shapes
<1>17. ASSUME NEW t \in Readers, ReadsAgain(t) PROVE Tasks'
  <2>1. /\ jobs[t].at = "back" /\ jobs' = [jobs EXCEPT ![t] = Asked(jobs[t].op, jobs[t].key)]
        /\ UNCHANGED reorgCount
    BY <1>17 DEF ReadsAgain, Tasks, Jobs, mgrCaches
  <2>2. \/ jobs[t].op \in AddressReads /\ jobs[t].key \in HashXs
        \/ jobs[t].op = "txs" /\ jobs[t].key \in 1 .. MaxHeight
        \/ jobs[t].op = "header"
    BY <2>1 DEF Tasks, Jobs, JobPlace
  <2>3. Jobs' /\ \A u \in Readers : jobs'[u].op = jobs[u].op
    BY <1>1, <2>1, <2>2, JobAsked DEF Tasks
  <2> QED
    BY <1>17, <2>3, ReadersAre, ClientTasks
       DEF ReadsAgain, chainVars, notifyVars, dbCaches, mgrCaches, Tasks, Shapes, Turns
<1>18. CASE Answered
  <2>1. /\ jobs["client"].at = "back" /\ jobs' = [jobs EXCEPT !["client"] = NoJob]
        /\ UNCHANGED <<chainVars, notifyVars, txHashes, reorgCount>>
    BY <1>18 DEF Answered
  <2>2. /\ Jobs' /\ jobs'["client"] = NoJob
        /\ \A u \in Readers : u # "client" => jobs'[u] = jobs[u]
    BY <1>1, <2>1, ReadersAre, JobFreed DEF Tasks
  <2>3. /\ DOMAIN lapsed' = LapsedFields /\ DOMAIN balances' = HashXs /\ DOMAIN utxoLists' = HashXs
        /\ DOMAIN told' = HashXs /\ DOMAIN histories' = HashXs /\ DOMAIN statuses' = HashXs
        /\ DOMAIN txsAt' = 1 .. MaxHeight
    BY <1>18, <2>1, AnsweredIs, ClientJob DEF Lapse, Tasks, Shapes
  <2> QED
    BY <2>1, <2>2, <2>3, NoJobIs, ReadersAre, ClientTasks DEF chainVars, notifyVars, Tasks, Shapes
<1> QED
  BY <1>2, <1>3, <1>4, <1>5, <1>6, <1>7, <1>14, <1>15, <1>16, <1>17, <1>18, MempoolTasks, CallerTasks
     DEF ReadsNext, Threads, Notified, Client, Tasks, Jobs

-----------------------------------------------------------------------------
(* Layer 3: answers. *)

(* No job has read anew. *)
JobsKeep ==
    \A t \in Readers : jobs'[t].at \in {"read", "back"} =>
        /\ jobs[t].at \in {"read", "back"} /\ (jobs'[t].fresh => jobs[t].fresh)
        /\ jobs'[t].op = jobs[t].op /\ jobs'[t].key = jobs[t].key
        /\ jobs'[t].found = jobs[t].found /\ jobs'[t].count = jobs[t].count

\* Asking for a read makes no answer fresh.
LEMMA AskedKeeps ==
    ASSUME Jobs, NEW t \in Readers, NEW op, NEW key, jobs' = [jobs EXCEPT ![t] = Asked(op, key)]
    PROVE  JobsKeep
<1>1. jobs'[t].at = "thread" /\ \A u \in Readers : u # t => jobs'[u] = jobs[u]
  BY NoJobIs DEF Jobs, Asked, JobFields
<1> QED
  BY <1>1 DEF JobsKeep

\* Nor does ending one.
LEMMA FreedKeeps ==
    ASSUME Jobs, NEW t \in Readers, jobs' = [jobs EXCEPT ![t] = NoJob]
    PROVE  JobsKeep
<1>1. jobs'[t].at = "none" /\ \A u \in Readers : u # t => jobs'[u] = jobs[u]
  BY NoJobIs DEF Jobs
<1> QED
  BY <1>1 DEF JobsKeep

\* After a write no answer is fresh.
LEMMA OvertakenKeeps ==
    ASSUME Jobs, UNCHANGED reorgCount, jobs' = Overtaken
    PROVE  JobsKeep /\ FreshReads'
<1>1. \A t \in Readers :
        /\ jobs'[t].op = jobs[t].op /\ jobs'[t].at = jobs[t].at /\ jobs'[t].key = jobs[t].key
        /\ jobs'[t].found = jobs[t].found /\ jobs'[t].count = jobs[t].count
        /\ jobs'[t].at \in {"read", "back"} => ~jobs'[t].fresh
  BY JobsOvertaken
<1> QED
  BY <1>1 DEF JobsKeep, FreshReads

\* Fresh answers stay the rows' while the rows stay.
LEMMA FreshKept ==
    ASSUME Answers, JobsKeep, utxoRows' = utxoRows, ~Writing' \/ UNCHANGED phase
    PROVE  FreshReads'
BY DEF Answers, JobsKeep, FreshReads, Writing

(* The history's rows up to the DB's height stay. *)
RowsStay ==
    /\ dbHeight' \in Nat /\ dbHeight <= dbHeight'
    /\ \A n \in 1 .. dbHeight : histRows'[n] = histRows[n]

\* Cached hashes stay those of the rows while the history's rows stay.
LEMMA HashesKept ==
    ASSUME Stores, Answers, RowsStay, txHashes' = txHashes, lapsed'.txs = lapsed.txs,
           phase # "backup" \/ phase' = "backup"
    PROVE  KnownHashes'
<1>1. ASSUME NEW n \in 1 .. MaxHeight, n <= dbHeight PROVE n <= dbHeight' /\ histRows'[n] = histRows[n]
  BY <1>1, ReadsAssumption DEF RowsStay, Stores, Chains
<1> QED
  BY <1>1 DEF Answers, KnownHashes

\* Cached balances and lists stay the rows' while the rows stay.
LEMMA RowsKept ==
    ASSUME Answers, UNCHANGED <<utxoRows, balances, utxoLists>>, lapsed'.rows = lapsed.rows
    PROVE  CachedRows'
BY DEF Answers, CachedRows

\* Remembered txs of blocks stay those of the rows while the rows stay.
LEMMA BlocksKept ==
    ASSUME Stores, Tasks, Answers, RowsStay, JobsKeep, UNCHANGED <<txsAt, reorgCount>>,
           Undone => Undone'
    PROVE  KnownBlocks'
<1>1. ASSUME NEW n \in 1 .. MaxHeight, n <= dbHeight PROVE n <= dbHeight' /\ histRows'[n] = histRows[n]
  BY <1>1, ReadsAssumption DEF RowsStay, Stores, Chains
<1>2. ASSUME ~Undone', NEW t \in Readers PROVE OfBlock(jobs[t])
  BY <1>2 DEF Answers, KnownBlocks
<1>3. ASSUME ~Undone', NEW t \in Readers PROVE OfBlock(jobs[t])'
  <2> SUFFICES ASSUME jobs'[t].op = "txs", jobs'[t].at \in {"read", "back"},
                      jobs'[t].count = reorgCount', jobs'[t].key \in DOMAIN jobs'[t].found
               PROVE  /\ jobs'[t].key <= dbHeight'
                      /\ jobs'[t].found[jobs'[t].key] = histRows'[jobs'[t].key].branch
    BY DEF OfBlock
  <2>1. /\ jobs[t].op = "txs" /\ jobs[t].key = jobs'[t].key /\ jobs[t].found = jobs'[t].found
        /\ jobs[t].key <= dbHeight /\ jobs[t].found[jobs[t].key] = histRows[jobs[t].key].branch
    BY <1>2, <1>3 DEF JobsKeep, OfBlock
  <2>2. jobs[t].key \in 1 .. MaxHeight
    BY <2>1 DEF Tasks, Jobs, JobPlace
  <2> QED
    BY <1>1, <2>1, <2>2
<1>4. ASSUME ~Undone', NEW n \in 1 .. MaxHeight
      PROVE  txsAt'[n] = Absent \/ (n <= dbHeight' /\ txsAt'[n] = histRows'[n].branch)
  BY <1>1, <1>4 DEF Answers, KnownBlocks
<1> QED
  BY <1>3, <1>4 DEF KnownBlocks

(* A step that leaves the chain, the DB and its caches alone. *)
LEMMA QuietAnswers ==
    ASSUME Stores, Tasks, Answers, JobsKeep,
           UNCHANGED <<phase, signalled, dbVars, dbCaches, txsAt, reorgCount>>,
           lapsed'.txs = lapsed.txs, lapsed'.rows = lapsed.rows
    PROVE  Answers'
<1>1. RowsStay
  BY DEF dbVars, RowsStay, Stores, Chains
<1>2. FreshReads' /\ CachedRows'
  BY FreshKept, RowsKept DEF dbVars, dbCaches
<1>3. KnownHashes'
  BY <1>1, HashesKept DEF dbCaches
<1>4. KnownBlocks'
  BY <1>1, BlocksKept DEF Undone
<1> QED
  BY <1>2, <1>3, <1>4 DEF Answers

(* Outside a backup the rows' answers are about heights the DB has. *)
LEMMA AnswerHeights ==
    ASSUME Stores, phase # "backup", ~Writing, NEW x, NEW n \in DOMAIN Answer(utxoRows, x)
    PROVE  /\ n \in 1 .. dbHeight /\ n \in 1 .. MaxHeight /\ histRows = utxoRows
           /\ Answer(utxoRows, x)[n] = histRows[n].branch
<1>1. /\ histRows = utxoRows /\ dbHeight = Len(utxoRows) /\ dbHeight <= Len(blocks)
      /\ DOMAIN utxoRows = 1 .. dbHeight
  BY LenProperties DEF Stores, Chains, Rows
<1>2. n \in DOMAIN utxoRows /\ Answer(utxoRows, x)[n] = utxoRows[n].branch
  BY DEF Answer
<1>3. dbHeight \in Nat /\ Len(blocks) \in Nat /\ Len(blocks) <= MaxHeight /\ MaxHeight \in Nat
  BY ReadsAssumption DEF Stores, Chains
<1> QED
  BY <1>1, <1>2, <1>3

(* What a thread reads when nothing is being written, with no lapsed hash in it, is the rows'
   answer. *)
LEMMA FoundIs ==
    ASSUME Stores, Answers, NEW j, j.op \in AddressReads, ~Blocking,
           DOMAIN Found(j) \cap lapsed.txs = {}
    PROVE  Found(j) = Answer(utxoRows, j.key)
<1>1. phase # "backup" /\ ~Writing
  BY DEF Blocking, Writing
<1>2. histRows = utxoRows
  BY <1>1 DEF Stores, Rows
<1>3. Found(j) = [n \in DOMAIN Answer(utxoRows, j.key) |-> fs_tx_hash(n)]
  <2>1. CASE j.op \in {"balance", "utxos"}
    BY <2>1 DEF Found
  <2>2. CASE j.op \in {"history", "status"}
    BY <1>2, <2>2 DEF Found
  <2> QED
    BY <2>1, <2>2 DEF AddressReads
<1>4. ASSUME NEW n \in DOMAIN Answer(utxoRows, j.key)
      PROVE  fs_tx_hash(n) = Answer(utxoRows, j.key)[n]
  <2>1. /\ n \in 1 .. dbHeight /\ n \in 1 .. MaxHeight
        /\ Answer(utxoRows, j.key)[n] = histRows[n].branch
    BY <1>1, AnswerHeights
  <2>2. n \notin lapsed.txs
    BY <1>3
  <2>3. txHashes[n] = Absent \/ txHashes[n] = histRows[n].branch
    BY <1>1, <2>1, <2>2 DEF Answers, KnownHashes
  <2>4. ~(n > dbHeight)
    BY <2>1 DEF Stores, Chains
  <2> QED
    BY <2>1, <2>3, <2>4 DEF fs_tx_hash
<1>5. Answer(utxoRows, j.key)
        = [n \in DOMAIN Answer(utxoRows, j.key) |-> Answer(utxoRows, j.key)[n]]
  BY DEF Answer
<1> HIDE DEF Found
<1> QED
  BY <1>3, <1>4, <1>5

\* A thread's read keeps the third layer.
LEMMA ReadAnswers ==
    ASSUME Stores, Tasks, Answers, NEW t \in Readers, ThreadReads(t)
    PROVE  Answers'
<1>1. /\ jobs'[t].op = jobs[t].op /\ jobs'[t].key = jobs[t].key
      /\ jobs'[t].count = jobs[t].count /\ jobs'[t].found = Found(jobs[t])
      /\ jobs'[t].fresh = (~Blocking /\ DOMAIN Found(jobs[t]) \cap lapsed.txs = {})
      /\ \A u \in Readers : u # t => jobs'[u] = jobs[u]
  BY JobReads DEF Tasks
<1>2. UNCHANGED <<chainVars, dbVars, dbCaches, mgrCaches, lapsed>>
  BY DEF ThreadReads
<1>3. FreshReads'
  <2>1. ASSUME NEW u \in Readers, jobs'[u].at \in {"read", "back"}, jobs'[u].fresh
        PROVE  /\ ~Writing'
               /\ jobs'[u].op \in AddressReads => jobs'[u].found = Answer(utxoRows, jobs'[u].key)
    <3>1. CASE u = t
      <4>1. ~Blocking /\ DOMAIN Found(jobs[t]) \cap lapsed.txs = {}
        BY <1>1, <2>1, <3>1
      <4>2. jobs[t].op \in AddressReads => Found(jobs[t]) = Answer(utxoRows, jobs[t].key)
        BY <4>1, FoundIs
      <4>3. ~Writing'
        BY <1>2, <4>1 DEF chainVars, Blocking, Writing
      <4> QED
        BY <1>1, <3>1, <4>2, <4>3
    <3>2. CASE u # t
      BY <1>1, <1>2, <2>1, <3>2 DEF Answers, FreshReads, chainVars, Writing
    <3> QED
      BY <3>1, <3>2
  <2>2. utxoRows' = utxoRows
    BY <1>2 DEF dbVars
  <2> QED
    BY <2>1, <2>2 DEF FreshReads
<1>4. KnownHashes' /\ CachedRows'
  BY <1>2 DEF Answers, KnownHashes, CachedRows, chainVars, dbVars, dbCaches
<1>5. KnownBlocks'
  <2>1. ASSUME ~Undone', NEW u \in Readers PROVE OfBlock(jobs[u])'
    <3>1. CASE u = t
      <4>1. ASSUME jobs[t].op = "txs", jobs[t].key \in DOMAIN Found(jobs[t])
            PROVE  /\ jobs[t].key <= dbHeight
                   /\ Found(jobs[t])[jobs[t].key] = histRows[jobs[t].key].branch
        <5>1. Found(jobs[t]) = [n \in {jobs[t].key} \cap 1 .. dbHeight |-> histRows[n].branch]
          BY <4>1 DEF Found
        <5> QED
          BY <4>1, <5>1
      <4> QED
        BY <1>1, <1>2, <3>1, <4>1 DEF OfBlock, dbVars
    <3>2. CASE u # t
      <4>1. OfBlock(jobs[u])
        BY <1>2, <2>1 DEF Answers, KnownBlocks, Undone, chainVars
      <4> QED
        BY <1>1, <1>2, <3>2, <4>1 DEF OfBlock, dbVars, mgrCaches
    <3> QED
      BY <3>1, <3>2
  <2>2. ~Undone' => \A n \in 1 .. MaxHeight :
          txsAt'[n] = Absent \/ (n <= dbHeight' /\ txsAt'[n] = histRows'[n].branch)
    BY <1>2 DEF Answers, KnownBlocks, Undone, chainVars, dbVars, mgrCaches
  <2> QED
    BY <2>1, <2>2 DEF KnownBlocks
<1> QED
  BY <1>3, <1>4, <1>5 DEF Answers

\* So does the storing of hashes.
LEMMA StoreAnswers ==
    ASSUME Stores, Tasks, Answers, NEW t \in Readers, ThreadStores(t)
    PROVE  Answers'
<1>1. \A u \in Readers :
        /\ jobs'[u].op = jobs[u].op /\ jobs'[u].key = jobs[u].key
        /\ jobs'[u].count = jobs[u].count /\ jobs'[u].found = jobs[u].found
        /\ jobs'[u].fresh = jobs[u].fresh
        /\ jobs'[u].at \in {"read", "back"} <=> jobs[u].at \in {"read", "back"}
  BY JobStores DEF Tasks
<1>2. /\ jobs[t].at = "read" /\ UNCHANGED <<chainVars, dbVars, balances, utxoLists, mgrCaches>>
      /\ txHashes' = [n \in DOMAIN txHashes |->
                        IF n \in jobs[t].looked THEN jobs[t].found[n] ELSE txHashes[n]]
      /\ lapsed' = [lapsed EXCEPT !.txs = IF jobs[t].fresh THEN @ ELSE @ \cup jobs[t].looked]
  BY DEF ThreadStores
<1>3. JobsKeep
  BY <1>1 DEF JobsKeep
<1>4. RowsStay
  BY <1>2 DEF dbVars, RowsStay, Stores, Chains
<1>5. FreshReads' /\ CachedRows'
  <2>1. lapsed'.rows = lapsed.rows
    BY <1>2 DEF Tasks, Shapes, LapsedFields
  <2> QED
    BY <1>2, <1>3, <2>1, FreshKept, RowsKept DEF chainVars, dbVars
<1>6. KnownBlocks'
  BY <1>2, <1>3, <1>4, BlocksKept DEF Undone, chainVars, mgrCaches
<1>7. KnownHashes'
  <2> SUFFICES ASSUME phase # "backup", NEW n \in 1 .. MaxHeight, n \notin lapsed'.txs,
                      txHashes'[n] # Absent
               PROVE  n <= dbHeight /\ txHashes'[n] = histRows[n].branch
    BY <1>2 DEF KnownHashes, chainVars, dbVars
  <2>1. lapsed'.txs = IF jobs[t].fresh THEN lapsed.txs ELSE lapsed.txs \cup jobs[t].looked
    BY <1>2 DEF Tasks, Shapes, LapsedFields
  <2>2. txHashes'[n] = IF n \in jobs[t].looked THEN jobs[t].found[n] ELSE txHashes[n]
    BY <1>2 DEF Tasks, Shapes
  <2>3. CASE n \in jobs[t].looked
    <3>1. /\ jobs[t].fresh /\ n \in DOMAIN jobs[t].found
          /\ jobs[t].op \in AddressReads
      BY <1>2, <2>1, <2>3 DEF Tasks, Jobs, JobPlace
    <3>2. ~Writing /\ jobs[t].found = Answer(utxoRows, jobs[t].key)
      BY <1>2, <3>1 DEF Answers, FreshReads
    <3>3. n \in 1 .. dbHeight /\ Answer(utxoRows, jobs[t].key)[n] = histRows[n].branch
      BY <3>1, <3>2, AnswerHeights
    <3> QED
      BY <2>2, <2>3, <3>2, <3>3
  <2>4. CASE n \notin jobs[t].looked
    BY <2>1, <2>2, <2>4 DEF Answers, KnownHashes
  <2> QED
    BY <2>3, <2>4
<1> QED
  BY <1>5, <1>6, <1>7 DEF Answers

(* The history's rows stay over every step but the backup's first. *)
LEMMA ProcessorRows ==
    ASSUME Stores, Stores', phase # "backup", phase' # "backup",
           dbHeight <= dbHeight', UNCHANGED utxoRows \/ utxoRows' = blocks,
           UNCHANGED blocks \/ (Len(blocks) <= Len(blocks') /\ \A h \in 1 .. Len(blocks) : blocks'[h] = blocks[h])
    PROVE  RowsStay
<1>1. /\ dbHeight \in Nat /\ dbHeight' \in Nat /\ Len(blocks) \in Nat /\ Len(blocks') \in Nat
      /\ dbHeight <= Len(blocks) /\ \A h \in 1 .. dbHeight : utxoRows[h] = blocks[h]
      /\ \A h \in 1 .. dbHeight' : utxoRows'[h] = blocks'[h]
  BY DEF Stores, Chains, Rows
<1>2. \A h \in 1 .. dbHeight : blocks'[h] = blocks[h]
  BY <1>1
<1>3. \A h \in 1 .. dbHeight : histRows[h] = blocks[h]
  BY <1>1 DEF Stores, Rows
<1>4. \A h \in 1 .. dbHeight : histRows'[h] = blocks'[h]
  BY <1>1 DEF Stores, Rows
<1> QED
  BY <1>1, <1>2, <1>3, <1>4 DEF RowsStay

\* So does indexing a block.
LEMMA AdvanceAnswers ==
    ASSUME Stores, Stores', Tasks, Answers, NEW touches \in SUBSET HashXs, Advance(touches)
    PROVE  Answers'
<1>1. /\ phase = "idle" /\ ~signalled /\ blocks' = Append(blocks, [branch |-> reorgs, touches |-> touches])
      /\ UNCHANGED <<signalled, utxoRows, dbHeight, dbCaches, txsAt, reorgCount>>
      /\ \/ phase' = "flush" /\ jobs' = Overtaken /\ lapsed' = lapsed
         \/ /\ phase' = "report" /\ jobs' = jobs
            /\ lapsed' = [lapsed EXCEPT !.dropped = @ \cup touched']
  BY DEF Advance, BpRuns, mgrCaches
<1>2. RowsStay
  <2>1. [branch |-> reorgs, touches |-> touches] \in Record
    BY DEF Stores, Chains, Record
  <2>2. /\ Len(blocks) \in Nat /\ Len(blocks') = Len(blocks) + 1
        /\ \A h \in 1 .. Len(blocks) : blocks'[h] = blocks[h]
    BY <1>1, <2>1, RecordParts DEF Stores, Chains
  <2>3. dbHeight <= dbHeight' /\ Len(blocks) <= Len(blocks')
    BY <1>1, <2>2 DEF Stores, Chains
  <2> QED
    BY <1>1, <2>2, <2>3, ProcessorRows
<1>3. JobsKeep /\ FreshReads'
  <2>1. CASE jobs' = Overtaken
    BY <1>1, <2>1, OvertakenKeeps DEF Tasks
  <2>2. CASE jobs' = jobs /\ phase' = "report"
    <3>1. JobsKeep /\ ~Writing'
      BY <2>2 DEF JobsKeep, Writing
    <3> QED
      BY <1>1, <3>1, FreshKept
  <2> QED
    BY <1>1, <2>1, <2>2
<1>4. lapsed'.txs = lapsed.txs /\ lapsed'.rows = lapsed.rows
  BY <1>1 DEF Tasks, Shapes, LapsedFields
<1>5. KnownHashes' /\ CachedRows'
  BY <1>1, <1>2, <1>4, HashesKept, RowsKept DEF dbCaches
<1>6. KnownBlocks'
  BY <1>1, <1>2, <1>3, BlocksKept DEF Undone
<1> QED
  BY <1>3, <1>5, <1>6 DEF Answers

\* So does the second write of a flush, which invalidates what is touched.
LEMMA FlushAnswers ==
    ASSUME Stores, Stores', Tasks, Answers, FlushRows
    PROVE  Answers'
<1>1. /\ phase \in {"flush", "reflush"} /\ phase' = IF phase = "flush" THEN "report" ELSE "hashes"
      /\ dbHeight' = Len(blocks) /\ utxoRows' = blocks /\ jobs' = Overtaken
      /\ balances' = [x \in HashXs |-> IF x \in touched THEN Absent ELSE balances[x]]
      /\ utxoLists' = [x \in HashXs |-> IF x \in touched THEN Absent ELSE utxoLists[x]]
      /\ UNCHANGED <<blocks, touched, signalled, histRows, txHashes, txsAt, reorgCount>>
  BY DEF FlushRows, invalidate_balance_cache, mgrCaches
<1>2. RowsStay
  <2>1. dbHeight <= dbHeight'
    BY <1>1 DEF Stores, Rows
  <2> QED
    BY <1>1, <2>1, ProcessorRows
<1>3. JobsKeep /\ FreshReads'
  BY <1>1, OvertakenKeeps DEF Tasks
<1>4. lapsed'.txs = lapsed.txs /\ lapsed'.rows = (lapsed.rows \cup lapsed.dropped) \ touched
  BY DEF FlushRows, Tasks, Shapes, LapsedFields
<1>5. KnownHashes'
  BY <1>1, <1>2, <1>4, HashesKept
<1>6. KnownBlocks'
  BY <1>1, <1>2, <1>3, BlocksKept DEF Undone
<1>7. CachedRows'
  <2>1. ASSUME NEW x \in HashXs, NEW old, NEW new,
               old \in {Absent, Answer(utxoRows, x)} \/ x \in lapsed.rows,
               new = IF x \in touched THEN Absent ELSE old
        PROVE  new \in {Absent, Answer(blocks, x)} \/ x \in lapsed'.rows
    <3>1. CASE x \in touched \/ x \in lapsed.rows \/ x \in lapsed.dropped
      BY <1>4, <2>1, <3>1
    <3>2. CASE x \notin touched /\ x \notin lapsed.rows /\ x \notin lapsed.dropped
      <4>1. /\ utxoRows \in Seq(Record) /\ blocks \in Seq(Record)
            /\ Len(utxoRows) <= Len(blocks) /\ \A h \in 1 .. Len(utxoRows) : utxoRows[h] = blocks[h]
            /\ dbHeight = Len(utxoRows)
        BY <1>1 DEF Stores, Chains, Rows
      <4>2. \A h \in Len(utxoRows) + 1 .. Len(blocks) : x \notin blocks[h].touches
        BY <1>1, <3>2, <4>1 DEF Stores, Unflushed
      <4>3. Answer(utxoRows, x) = Answer(blocks, x)
        BY <4>1, <4>2, SameAnswer
      <4> QED
        BY <2>1, <3>2, <4>3
    <3> QED
      BY <3>1, <3>2
  <2>2. ASSUME NEW x \in HashXs
        PROVE  /\ balances'[x] \in {Absent, Answer(blocks, x)} \/ x \in lapsed'.rows
               /\ utxoLists'[x] \in {Absent, Answer(blocks, x)} \/ x \in lapsed'.rows
    BY <1>1, <2>1 DEF Answers, CachedRows
  <2> QED
    BY <1>1, <2>2 DEF CachedRows
<1> QED
  BY <1>3, <1>5, <1>6, <1>7 DEF Answers

\* So does the start of a reorganisation, which may flush first.
LEMMA StartAnswers ==
    ASSUME Stores, Stores', Tasks, Answers, StartReorg
    PROVE  Answers'
<1>1. /\ phase = "idle"
      /\ \/ phase' = "hashes" /\ jobs' = jobs
         \/ phase' = "reflush" /\ jobs' = Overtaken
      /\ UNCHANGED <<blocks, signalled, utxoRows, dbHeight, dbCaches, txsAt, reorgCount, lapsed>>
  BY DEF StartReorg, BpRuns, mgrCaches
<1>2. RowsStay
  <2>1. dbHeight <= dbHeight'
    BY <1>1 DEF Stores, Chains
  <2> QED
    BY <1>1, <2>1, ProcessorRows
<1>3. JobsKeep /\ FreshReads'
  <2>1. CASE jobs' = Overtaken
    BY <1>1, <2>1, OvertakenKeeps DEF Tasks
  <2>2. CASE jobs' = jobs /\ phase' = "hashes"
    <3>1. JobsKeep /\ ~Writing'
      BY <2>2 DEF JobsKeep, Writing
    <3> QED
      BY <1>1, <3>1, FreshKept
  <2> QED
    BY <1>1, <2>1, <2>2
<1>4. KnownHashes' /\ CachedRows'
  BY <1>1, <1>2, HashesKept, RowsKept DEF dbCaches
<1>5. KnownBlocks'
  BY <1>1, <1>2, <1>3, BlocksKept DEF Undone
<1> QED
  BY <1>3, <1>4, <1>5 DEF Answers

(* While a block is undone nothing is claimed of the tx hashes; then all of them go. *)
LEMMA BackupAnswers ==
    ASSUME Stores, Tasks, Answers, BackupHistory
    PROVE  Answers'
<1>1. /\ phase' = "backup" /\ jobs' = Overtaken
      /\ UNCHANGED <<utxoRows, dbCaches, reorgCount, lapsed>>
  BY DEF BackupHistory, mgrCaches
<1>2. FreshReads' /\ CachedRows'
  BY <1>1, OvertakenKeeps, RowsKept DEF Tasks, dbCaches
<1> QED
  BY <1>1, <1>2 DEF Answers, KnownHashes, KnownBlocks, Undone

\* So does the second write of a backup, which empties the caches.
LEMMA WipeAnswers ==
    ASSUME Stores, Tasks, Answers, BackupRows
    PROVE  Answers'
<1>1. /\ phase' = "reset" /\ jobs' = Overtaken /\ UNCHANGED reorgCount
      /\ balances' = [x \in HashXs |-> Absent] /\ utxoLists' = [x \in HashXs |-> Absent]
      /\ txHashes' = [n \in 1 .. MaxHeight |-> Absent]
  BY DEF BackupRows, mgrCaches
<1>2. FreshReads'
  BY <1>1, OvertakenKeeps DEF Tasks
<1> QED
  BY <1>1, <1>2 DEF Answers, KnownHashes, CachedRows, KnownBlocks, Undone

(* The session manager hears of the reorganisation: what jobs have read of blocks is of an
   earlier count. *)
LEMMA HandleAnswers ==
    ASSUME Stores, Tasks, Answers, _handle_chain_reorgs
    PROVE  Answers'
<1>1. /\ reorgCount' = reorgCount + 1 /\ txsAt' = [n \in 1 .. MaxHeight |-> Absent]
      /\ UNCHANGED <<phase, dbVars, dbCaches, jobs>>
      /\ lapsed'.rows = lapsed.rows /\ lapsed'.txs = lapsed.txs
  BY DEF _handle_chain_reorgs, chainVars, sessionVars, Tasks, Shapes, LapsedFields
<1>2. JobsKeep
  BY <1>1 DEF JobsKeep
<1>3. RowsStay
  BY <1>1 DEF dbVars, RowsStay, Stores, Chains
<1>4. FreshReads' /\ CachedRows' /\ KnownHashes'
  BY <1>1, <1>2, <1>3, FreshKept, RowsKept, HashesKept DEF dbVars, dbCaches
<1>5. \A t \in Readers : jobs'[t].count # reorgCount'
  BY <1>1 DEF Tasks, Jobs, Stores, Chains
<1>6. KnownBlocks'
  BY <1>1, <1>5 DEF KnownBlocks, OfBlock
<1> QED
  BY <1>4, <1>6 DEF Answers

(* An answer is cached: it is the rows', or it is late and lapses. *)
LEMMA AnsweredAnswers ==
    ASSUME Stores, Tasks, Answers, Answered
    PROVE  Answers'
<1> DEFINE j == jobs["client"]
<1>1. /\ ~Blocking /\ j.at = "back" /\ jobs' = [jobs EXCEPT !["client"] = NoJob]
      /\ j.op = "txs" /\ j.found # << >> => j.count = reorgCount
      /\ txsAt' = IF j.op = "txs" /\ j.found # << >> THEN [txsAt EXCEPT ![j.key] = j.found[j.key]]
                  ELSE txsAt
      /\ UNCHANGED <<chainVars, dbVars, txHashes, reorgCount>>
  BY AnsweredIs
<1>2. JobPlace(j) /\ j.op \in AddressReads \cup {"txs"}
  BY <1>1, ReadersAre, ClientJob DEF Tasks, Jobs
<1>3. JobsKeep
  BY <1>1, ReadersAre, FreedKeeps DEF Tasks
<1>4. RowsStay
  BY <1>1 DEF dbVars, RowsStay, Stores, Chains
<1>5. FreshReads'
  BY <1>1, <1>3, FreshKept DEF chainVars, dbVars
<1>6. lapsed'.txs = lapsed.txs
  BY <1>2, AnsweredIs DEF Lapse, Tasks, Shapes, LapsedFields, AddressReads
<1>7. KnownHashes'
  BY <1>1, <1>4, <1>6, HashesKept DEF chainVars
<1>8. CachedRows'
  <2>1. CASE j.op \notin {"balance", "utxos"}
    <3>1. UNCHANGED <<balances, utxoLists>> /\ lapsed'.rows = lapsed.rows
      BY <1>2, <2>1, AnsweredIs DEF Lapse, Tasks, Shapes, LapsedFields, AddressReads
    <3> QED
      BY <1>1, <3>1, RowsKept DEF dbVars
  <2>2. CASE j.op \in {"balance", "utxos"}
    <3>1. /\ utxoLists' = [utxoLists EXCEPT ![j.key] = j.found]
          /\ balances' = IF j.op = "balance" THEN [balances EXCEPT ![j.key] = j.found] ELSE balances
          /\ lapsed' = [lapsed EXCEPT !.rows =
                IF ~j.fresh /\ j.found # Answer(utxoRows, j.key) THEN @ \cup {j.key} ELSE @]
      BY <2>2, AnsweredIs DEF AddressReads
    <3>2. lapsed'.rows = IF ~j.fresh /\ j.found # Answer(utxoRows, j.key) THEN lapsed.rows \cup {j.key}
                         ELSE lapsed.rows
      BY <3>1 DEF Tasks, Shapes, LapsedFields
    <3>3. j.fresh => j.found = Answer(utxoRows, j.key)
      BY <1>1, <2>2, ReadersAre DEF Answers, FreshReads, AddressReads
    <3>4. j.found = Answer(utxoRows, j.key) \/ j.key \in lapsed'.rows
      BY <3>2, <3>3
    <3> HIDE DEF j
    <3>5. ASSUME NEW x \in HashXs
          PROVE  /\ balances'[x] \in {Absent, Answer(utxoRows, x)} \/ x \in lapsed'.rows
                 /\ utxoLists'[x] \in {Absent, Answer(utxoRows, x)} \/ x \in lapsed'.rows
      <4>1. /\ balances[x] \in {Absent, Answer(utxoRows, x)} \/ x \in lapsed'.rows
            /\ utxoLists[x] \in {Absent, Answer(utxoRows, x)} \/ x \in lapsed'.rows
        BY <3>2 DEF Answers, CachedRows
      <4>2. /\ balances'[x] = IF x = j.key /\ j.op = "balance" THEN j.found ELSE balances[x]
            /\ utxoLists'[x] = IF x = j.key THEN j.found ELSE utxoLists[x]
        BY <3>1 DEF Tasks, Shapes
      <4> QED
        BY <3>4, <4>1, <4>2
    <3>6. utxoRows' = utxoRows
      BY <1>1 DEF dbVars
    <3> QED
      BY <3>5, <3>6 DEF CachedRows
  <2> QED
    BY <2>1, <2>2
<1>9. KnownBlocks'
  <2>1. CASE ~(j.op = "txs" /\ j.found # << >>)
    BY <1>1, <1>3, <1>4, <2>1, BlocksKept DEF Undone, chainVars
  <2>2. CASE j.op = "txs" /\ j.found # << >>
    <3>1. /\ txsAt' = [txsAt EXCEPT ![j.key] = j.found[j.key]] /\ j.count = reorgCount
          /\ j.key \in DOMAIN j.found /\ j.key \in 1 .. MaxHeight
      BY <1>1, <1>2, <2>2 DEF JobPlace
    <3>2. ~Undone => j.key <= dbHeight /\ j.found[j.key] = histRows[j.key].branch
      BY <1>1, <2>2, <3>1, ReadersAre DEF Answers, KnownBlocks, OfBlock
    <3>3. /\ UNCHANGED <<phase, signalled, dbHeight, histRows, reorgCount>>
          /\ Undone' = Undone
      BY <1>1 DEF chainVars, dbVars, Undone
    <3>4. ASSUME ~Undone, NEW t \in Readers PROVE OfBlock(jobs[t])'
      <4>1. OfBlock(jobs[t])
        BY <3>4 DEF Answers, KnownBlocks
      <4> QED
        BY <1>3, <3>3, <4>1 DEF JobsKeep, OfBlock
    <3> HIDE DEF j
    <3>5. ASSUME ~Undone, NEW n \in 1 .. MaxHeight
          PROVE  txsAt'[n] = Absent \/ (n <= dbHeight /\ txsAt'[n] = histRows[n].branch)
      <4>1. txsAt'[n] = IF n = j.key THEN j.found[j.key] ELSE txsAt[n]
        BY <3>1 DEF Tasks, Shapes
      <4> QED
        BY <3>2, <3>5, <4>1 DEF Answers, KnownBlocks
    <3> QED
      BY <3>3, <3>4, <3>5 DEF KnownBlocks
  <2> QED
    BY <2>1, <2>2
<1> QED
  BY <1>5, <1>7, <1>8, <1>9 DEF Answers

\* So does a request that is answered from the cache.
LEMMA BalanceAnswers ==
    ASSUME Stores, Tasks, Answers, NEW x \in HashXs, get_balance(x)
    PROVE  Answers'
<1>1. UNCHANGED <<chainVars, dbVars, utxoLists, txHashes, mgrCaches, lapsed>>
  BY DEF get_balance
<1>2. CASE balances' = balances
  <2>1. JobsKeep
    <3>1. CASE jobs' = jobs
      BY <3>1 DEF JobsKeep
    <3>2. CASE jobs' # jobs
      BY <3>2, ReadersAre, AskedKeeps DEF get_balance, Read, Tasks
    <3> QED
      BY <3>1, <3>2
  <2> QED
    BY <1>1, <1>2, <2>1, QuietAnswers DEF chainVars, dbCaches, mgrCaches
<1>3. CASE jobs' = jobs /\ balances' = [balances EXCEPT ![x] = utxoLists[x]]
  <2>1. JobsKeep /\ RowsStay
    BY <1>1, <1>3 DEF JobsKeep, dbVars, RowsStay, Stores, Chains
  <2>2. FreshReads' /\ KnownHashes' /\ KnownBlocks'
    BY <1>1, <2>1, FreshKept, HashesKept, BlocksKept DEF chainVars, dbVars, mgrCaches, Undone
  <2>3. CachedRows'
    BY <1>1, <1>3 DEF Answers, CachedRows, dbVars, Tasks, Shapes
  <2> QED
    BY <2>2, <2>3 DEF Answers
<1> QED
  BY <1>2, <1>3 DEF get_balance

\* Every step keeps the third layer.
LEMMA AnswersStep ==
    ASSUME Stores, Tasks, Answers, ReadsNext
    PROVE  Answers'
<1>1. Stores'
  BY StoresStep
<1>2. ASSUME jobs' = jobs PROVE JobsKeep
  BY <1>2 DEF JobsKeep
<1>3. ASSUME NEW f, NEW g, lapsed' = [lapsed EXCEPT !.statuses = f, !.told = g]
      PROVE  lapsed'.txs = lapsed.txs /\ lapsed'.rows = lapsed.rows
  BY <1>3 DEF Tasks, Shapes, LapsedFields
<1>4. CASE DaemonGrows
  BY <1>2, <1>4, QuietAnswers DEF DaemonGrows, mgrCaches, sessionVars
<1>5. CASE RefreshStarts
  BY <1>2, <1>5, QuietAnswers DEF RefreshStarts, chainVars, mgrCaches, sessionVars
<1>6. ASSUME NEW c \in Callers, NEW tbp, NEW tmp, NEW top \in Nat, NEW replaced,
             DOMAIN tbp \subseteq 1 .. MaxHeight, MaybeNotify(c, tbp, tmp, top, replaced)
      PROVE  JobsKeep /\ lapsed'.txs = lapsed.txs /\ lapsed'.rows = lapsed.rows
  <2>1. PICK h, kept : h \in Nat /\ NotifyEffect(c, tbp, top, replaced, h, kept)
    BY <1>6, Notifies
  <2>2. JobsKeep
    BY <1>2, <2>1, ReadersAre, AskedKeeps DEF NotifyEffect, Tasks
  <2> QED
    BY <1>3, <2>1, <2>2 DEF NotifyEffect
<1>7. CASE on_mempool
  <2>1. JobsKeep /\ lapsed'.txs = lapsed.txs /\ lapsed'.rows = lapsed.rows
    BY <1>6, <1>7, ReadersAre DEF on_mempool, Tasks, Shapes
  <2> QED
    BY <1>7, <2>1, QuietAnswers DEF on_mempool, chainVars, mgrCaches
<1>8. ASSUME NEW c \in Callers, HeaderRead(c) \/ NotifyInner(c) \/ StatusRead(c) PROVE Answers'
  <2>1. /\ UNCHANGED <<phase, signalled, dbVars, dbCaches, txsAt, reorgCount>>
        /\ lapsed'.txs = lapsed.txs /\ lapsed'.rows = lapsed.rows
    <3>1. UNCHANGED <<phase, signalled, dbVars, dbCaches, txsAt, reorgCount>>
      BY <1>8 DEF HeaderRead, NotifyInner, StatusRead, chainVars
    <3> QED
      BY <1>8, <3>1 DEF HeaderRead, NotifyInner, StatusRead, GotStatus, Lapse, Tasks, Shapes, LapsedFields
  <2>2. \/ jobs' = jobs \/ jobs' = [jobs EXCEPT ![c] = NoJob]
        \/ \E x : jobs' = [jobs EXCEPT ![c] = Asked("status", x)]
    BY <1>8 DEF HeaderRead, NotifyInner, StatusRead
  <2>3. JobsKeep
    BY <1>2, <2>2, ReadersAre, AskedKeeps, FreedKeeps DEF Tasks
  <2> QED
    BY <2>1, <2>3, QuietAnswers
<1>9. ASSUME NEW c \in Callers, HeaderLost(c) PROVE Answers'
  <2>1. /\ phase' = "stopped" /\ ~Blocking
        /\ UNCHANGED <<signalled, dbVars, dbCaches, mgrCaches, jobs, lapsed>>
    BY <1>9 DEF HeaderLost, sessionVars
  <2>2. JobsKeep /\ RowsStay /\ ~Writing' /\ phase # "backup"
    BY <1>2, <2>1 DEF dbVars, RowsStay, Stores, Chains, Writing, Blocking
  <2>3. FreshReads' /\ CachedRows' /\ KnownHashes'
    BY <2>1, <2>2, FreshKept, RowsKept, HashesKept DEF dbVars, dbCaches
  <2> QED
    BY <2>1, <2>3 DEF Answers, KnownBlocks, Undone
<1>10. CASE on_block
  <2>1. /\ phase = "report" /\ phase' = "idle"
        /\ UNCHANGED <<signalled, dbVars, dbCaches, txsAt, reorgCount>>
    BY <1>10 DEF on_block, mgrCaches
  <2>2. JobsKeep /\ lapsed'.txs = lapsed.txs /\ lapsed'.rows = lapsed.rows
    <3> DEFINE all == [o \in DOMAIN touchedBp \cup {Len(blocks)} |->
                         IF o = Len(blocks) THEN touched ELSE touchedBp[o]]
    <3>1. DOMAIN all = DOMAIN touchedBp \cup {Len(blocks)}
      OBVIOUS
    <3>2. \E gone : MaybeNotify("bp", all, touchedMp, Len(blocks), gone)
      BY <1>10 DEF on_block
    <3> HIDE DEF all
    <3>3. Len(blocks) \in Nat /\ DOMAIN all \subseteq 1 .. MaxHeight
      BY <3>1, ReadsAssumption DEF Stores, Chains, Tasks, Shapes
    <3> QED
      BY <1>6, <3>2, <3>3, ReadersAre
  <2>3. RowsStay /\ ~Writing' /\ ~Writing
    BY <2>1 DEF dbVars, RowsStay, Stores, Chains, Writing
  <2>4. FreshReads' /\ CachedRows' /\ KnownHashes'
    BY <2>1, <2>2, <2>3, FreshKept, RowsKept, HashesKept DEF dbVars, dbCaches
  <2>5. KnownBlocks'
    BY <2>1, <2>2, <2>3, BlocksKept DEF Undone
  <2> QED
    BY <2>4, <2>5 DEF Answers
<1>11. CASE ReorgDone
  <2>1. /\ phase = "reset" /\ phase' = "idle" /\ signalled'
        /\ UNCHANGED <<dbVars, dbCaches, mgrCaches, jobs, lapsed>>
    BY <1>11 DEF ReorgDone, sessionVars
  <2>2. JobsKeep /\ RowsStay /\ ~Writing'
    BY <1>2, <2>1 DEF dbVars, RowsStay, Stores, Chains, Writing
  <2>3. FreshReads' /\ CachedRows' /\ KnownHashes'
    BY <2>1, <2>2, FreshKept, RowsKept, HashesKept DEF dbVars, dbCaches
  <2> QED
    BY <2>1, <2>3 DEF Answers, KnownBlocks, Undone
<1>12. CASE Processor
  BY <1>1, <1>10, <1>11, <1>12, AdvanceAnswers, FlushAnswers, StartAnswers, BackupAnswers, WipeAnswers
     DEF Processor
<1>13. ASSUME NEW x \in HashXs,
              \/ all_utxos(x) \/ limited_history(x) \/ hashX_subscribe(x) \/ unsubscribe_hashX(x)
       PROVE  Answers'
  <2>1. UNCHANGED <<phase, signalled, dbVars, dbCaches, txsAt, reorgCount>>
    BY <1>13 DEF all_utxos, limited_history, hashX_subscribe, unsubscribe_hashX, chainVars, mgrCaches
  <2>2. lapsed'.txs = lapsed.txs /\ lapsed'.rows = lapsed.rows
    BY <1>13 DEF all_utxos, limited_history, hashX_subscribe, unsubscribe_hashX, Lapse, Tasks, Shapes,
                 LapsedFields
  <2>3. \/ jobs' = jobs
        \/ \E op : jobs' = [jobs EXCEPT !["client"] = Asked(op, x)]
    BY <1>13 DEF all_utxos, limited_history, hashX_subscribe, unsubscribe_hashX, Read
  <2>4. JobsKeep
    BY <1>2, <2>3, ReadersAre, AskedKeeps DEF Tasks
  <2> QED
    BY <2>1, <2>2, <2>4, QuietAnswers
<1>14. ASSUME NEW h \in 1 .. MaxHeight, tx_hashes_at_blockheight(h) PROVE Answers'
  <2>1. JobsKeep
    BY <1>14, ReadersAre, AskedKeeps DEF tx_hashes_at_blockheight, Read, Tasks
  <2> QED
    BY <1>14, <2>1, QuietAnswers DEF tx_hashes_at_blockheight, chainVars, mgrCaches
<1>15. ASSUME NEW t \in Readers, ReadsAgain(t) PROVE Answers'
  <2>1. jobs' = [jobs EXCEPT ![t] = Asked(jobs[t].op, jobs[t].key)]
    BY <1>15 DEF ReadsAgain, Tasks, Jobs
  <2>2. JobsKeep
    BY <2>1, AskedKeeps DEF Tasks
  <2> QED
    BY <1>15, <2>2, QuietAnswers DEF ReadsAgain, chainVars, mgrCaches
<1> QED
  BY <1>4, <1>5, <1>7, <1>8, <1>9, <1>12, <1>13, <1>14, <1>15,
     ReadAnswers, StoreAnswers, HandleAnswers, BalanceAnswers, AnsweredAnswers
     DEF ReadsNext, Threads, Notified, Client, Tasks, Jobs

-----------------------------------------------------------------------------
(* Layer 4: what is remembered and told. *)

\* A report that counts is one that waits.
LEMMA CountedReports ==
    ASSUME NEW o \in Counting
    PROVE  o \in DOMAIN touchedBp
BY DEF Counting, OwnReports

\* What the session manager is yet to hear of, the clients are too.
LEMMA DueIsDueToClients ==
    ASSUME NEW x, Due(x)
    PROVE  DueToClients(x)
BY CountedReports DEF Due, DueToClients

(* The touched sets on their way only grow. *)
LEMMA DueKept ==
    ASSUME touched \subseteq touched', UNCHANGED <<notes, touchedBp>>, Counting \subseteq Counting',
           NEW x, Due(x)
    PROVE  Due(x)'
BY DEF Due, Asking

\* What clients are yet to hear of stays so while nothing is reported.
LEMMA DueToClientsKept ==
    ASSUME touched \subseteq touched', UNCHANGED <<notes, touchedBp>>,
           \A c \in Callers : jobs'[c].op = jobs[c].op /\ jobs'[c].key = jobs[c].key,
           NEW x, DueToClients(x)
    PROVE  DueToClients(x)'
BY DEF DueToClients, Asking, Telling

\* A step that reports nothing and changes no status keeps the fourth layer.
LEMMA InformedKept ==
    ASSUME Informed, UNCHANGED <<utxoRows, histories, statuses, told>>,
           lapsed'.statuses = lapsed.statuses, lapsed'.told = lapsed.told,
           touched \subseteq touched', UNCHANGED <<notes, touchedBp>>, Counting \subseteq Counting',
           \A c \in Callers : jobs'[c].op = jobs[c].op /\ jobs'[c].key = jobs[c].key
    PROVE  Informed'
<1>1. Remembered'
  BY DueKept DEF Informed, Remembered
<1>2. Told'
  BY DueToClientsKept DEF Informed, Told
<1> QED
  BY <1>1, <1>2 DEF Informed

(* An address not in Differing has the present answer, or none, in both caches. *)
LEMMA DifferingIs ==
    ASSUME NEW xs, NEW a, NEW b, NEW now, NEW x \in xs, x \notin Differing(xs, {a, b}, now)
    PROVE  a[x] \in {Absent, Answer(now, x)} /\ b[x] \in {Absent, Answer(now, x)}
BY DEF Differing

(* The same of one cache. *)
LEMMA DifferingOne ==
    ASSUME NEW xs, NEW a, NEW now, NEW x \in xs, x \notin Differing(xs, {a}, now)
    PROVE  a[x] \in {Absent, Answer(now, x)}
BY DEF Differing

(* A notification takes reports: their addresses are asked a header for, or told at once. *)
LEMMA NotifyInformed ==
    ASSUME Tasks, Informed, NEW c \in Callers, NEW tbp, NEW tmp, NEW top \in Nat, NEW replaced,
           DOMAIN tbp \subseteq 1 .. MaxHeight, \A o \in DOMAIN tbp : tbp[o] \subseteq HashXs,
           MaybeNotify(c, tbp, tmp, top, replaced), notes[c] = NoNote,
           UNCHANGED <<utxoRows, histories, statuses, told>>,
           NEW S, S \subseteq DOMAIN tbp, S \cap DOMAIN touchedBp' \subseteq Counting',
           \A x : Due(x) => Asking(x) \/ x \in touched' \/ \E o \in S : x \in tbp[o],
           \A x : DueToClients(x) =>
               \/ Asking(x) \/ Telling(x) \/ x \in touched' \/ x \in replaced
               \/ \E o \in DOMAIN tbp : x \in tbp[o]
    PROVE  Informed'
<1>1. PICK h, kept : h \in Nat /\ NotifyEffect(c, tbp, top, replaced, h, kept)
  BY Notifies
<1>2. /\ touchedBp' = [o \in {o \in DOMAIN tbp : o > h} |-> tbp[o]]
      /\ lapsed'.statuses = lapsed.statuses \cup Differing(kept, {histories, statuses}, utxoRows)
      /\ lapsed'.told = lapsed.told \cup Differing(replaced, {told}, utxoRows)
  BY <1>1 DEF NotifyEffect, Tasks, Shapes, LapsedFields
<1>3. notes[c].at = "none" /\ notes[c].todo = {} /\ jobs[c].op = "none" /\ DOMAIN notes = Callers
      /\ DOMAIN jobs = Readers
  BY NoNoteIs DEF Tasks, Notes, NotePlace, Jobs
<1>4. ASSUME NEW x, Asking(x) PROVE Asking(x)'
  BY <1>1, <1>3, <1>4 DEF NotifyEffect, Asking
<1>5. ASSUME NEW x, Telling(x) PROVE Telling(x)'
  <2>1. PICK d \in Callers : x \in notes[d].todo \/ (jobs[d].op = "status" /\ jobs[d].key = x)
    BY <1>5 DEF Telling
  <2>2. d # c
    BY <1>3, <2>1
  <2>3. notes'[d] = notes[d] /\ jobs'[d] = jobs[d]
    BY <1>1, <1>3, <2>2, ReadersAre DEF NotifyEffect
  <2> QED
    BY <2>1, <2>3 DEF Telling
<1>6. ASSUME NEW x, NEW o \in DOMAIN tbp, x \in tbp[o], o > h
      PROVE  o \in DOMAIN touchedBp' /\ x \in touchedBp'[o]
  BY <1>2, <1>6
<1>7. ASSUME NEW x \in HashXs, NEW o \in DOMAIN tbp, x \in tbp[o], ~(o > h)
      PROVE  /\ x \in kept \/ Asking(x)'
             /\ told[x] = Absent \/ Telling(x)' \/ Asking(x)'
  <2>1. h # 0 /\ o <= h /\ x \in Popped(tbp, h)
    <3>1. o \in 1 .. MaxHeight /\ h \in Nat
      BY <1>1
    <3>2. h # 0 /\ o <= h
      BY <1>7, <3>1
    <3> QED
      BY <1>7, <3>2 DEF Popped
  <2>2. CASE kept = Popped(tbp, h) /\ notes' = [notes EXCEPT ![c] =
                 [at |-> "sessions", height |-> h, touched |-> Popped(tbp, h),
                  todo |-> {y \in Popped(tbp, h) : told[y] # Absent}]]
    <3>1. notes'[c].todo = {y \in Popped(tbp, h) : told[y] # Absent}
      BY <1>3, <2>2
    <3> QED
      BY <2>1, <2>2, <3>1 DEF Telling
  <2>3. CASE notes' = [notes EXCEPT ![c] =
                 [at |-> "header", height |-> Min({h, dbHeight}), touched |-> Popped(tbp, h),
                  todo |-> {}]]
    <3>1. notes'[c].at = "header" /\ notes'[c].touched = Popped(tbp, h)
      BY <1>3, <2>3
    <3> QED
      BY <2>1, <3>1 DEF Asking
  <2> QED
    BY <1>1, <2>1, <2>2, <2>3 DEF NotifyEffect
<1>8. Remembered'
  <2> SUFFICES ASSUME NEW x \in HashXs, x \notin lapsed'.statuses, ~Due(x)'
               PROVE  /\ histories[x] \in {Absent, Answer(utxoRows, x)}
                      /\ statuses[x] \in {Absent, Answer(utxoRows, x)}
    BY DEF Remembered
  <2>1. CASE ~Due(x)
    BY <1>2, <2>1 DEF Informed, Remembered
  <2>2. CASE Due(x)
    <3>1. ~Asking(x)' /\ x \notin touched'
      BY DEF Due
    <3>2. PICK o \in S : x \in tbp[o]
      BY <1>4, <2>2, <3>1
    <3>3. ~(o > h)
      <4>1. ASSUME o > h PROVE o \in Counting' /\ x \in touchedBp'[o]
        BY <1>6, <3>2, <4>1
      <4> QED
        BY <4>1 DEF Due
    <3>4. x \in kept
      BY <1>7, <3>1, <3>2, <3>3
    <3> QED
      BY <1>2, <3>4, DifferingIs
  <2> QED
    BY <2>1, <2>2
<1>9. Told'
  <2> SUFFICES ASSUME NEW x \in HashXs, x \notin lapsed'.told, ~DueToClients(x)'
               PROVE  told[x] \in {Absent, Answer(utxoRows, x)}
    BY DEF Told
  <2>1. CASE ~DueToClients(x)
    BY <1>2, <2>1 DEF Informed, Told
  <2>2. CASE x \in replaced
    BY <1>2, <2>2, DifferingOne
  <2>3. CASE DueToClients(x) /\ x \notin replaced
    <3>1. ~Asking(x)' /\ ~Telling(x)' /\ x \notin touched'
      BY DEF DueToClients
    <3>2. PICK o \in DOMAIN tbp : x \in tbp[o]
      BY <1>4, <1>5, <2>3, <3>1
    <3>3. ~(o > h)
      BY <1>6, <3>2 DEF DueToClients
    <3> QED
      BY <1>7, <3>1, <3>2, <3>3
  <2> QED
    BY <2>1, <2>2, <2>3
<1> QED
  BY <1>8, <1>9 DEF Informed

\* The mempool's report keeps it.
LEMMA MempoolInformed ==
    ASSUME Stores, Tasks, Informed, on_mempool
    PROVE  Informed'
<1>1. /\ refreshing # 0 /\ MaybeNotify("mp", touchedBp, touchedMp \cup {refreshing}, highest, {})
      /\ UNCHANGED <<chainVars, dbVars, histories, statuses, told>>
  BY DEF on_mempool, mgrCaches
<1>2. /\ notes["mp"] = NoNote /\ highest \in Nat /\ DOMAIN touchedBp \subseteq 1 .. MaxHeight
      /\ \A o \in DOMAIN touchedBp : touchedBp[o] \subseteq HashXs
  BY <1>1 DEF Tasks, Turns, Shapes
<1>3. Counting \subseteq DOMAIN touchedBp
  BY CountedReports
<1>4. Counting \cap DOMAIN touchedBp' \subseteq Counting'
  BY <1>1 DEF Counting, OwnReports, Undone, chainVars
<1>5. \A x : Due(x) => Asking(x) \/ x \in touched' \/ \E o \in Counting : x \in touchedBp[o]
  BY <1>1 DEF Due, chainVars
<1>6. \A x : DueToClients(x) =>
        \/ Asking(x) \/ Telling(x) \/ x \in touched' \/ x \in {}
        \/ \E o \in DOMAIN touchedBp : x \in touchedBp[o]
  BY <1>1 DEF DueToClients, chainVars
<1>7. UNCHANGED <<utxoRows, histories, statuses, told>>
  BY <1>1 DEF dbVars
<1> QED
  BY <1>1, <1>2, <1>3, <1>4, <1>5, <1>6, <1>7, ReadersAre, NotifyInformed

(* A block's report takes the place of one for its height about another block. *)
LEMMA BlockInformed ==
    ASSUME Stores, Tasks, Informed, on_block
    PROVE  Informed'
<1> DEFINE all == [o \in DOMAIN touchedBp \cup {Len(blocks)} |->
                     IF o = Len(blocks) THEN touched ELSE touchedBp[o]]
           gone == (UNION {touchedBp[o] : o \in DOMAIN touchedBp \cap {Len(blocks)}}) \ touched
           S == {o \in DOMAIN all : o <= Len(blocks)}
<1>1. /\ phase = "report" /\ phase' = "idle" /\ touched' = {}
      /\ MaybeNotify("bp", all, touchedMp, Len(blocks), gone)
      /\ UNCHANGED <<blocks, signalled, utxoRows, histories, statuses, told>>
  BY DEF on_block, dbVars, mgrCaches
<1>2. notes["bp"] = NoNote /\ ~signalled /\ Len(blocks) \in Nat /\ Len(blocks) \in 1 .. MaxHeight
  BY <1>1, ReadsAssumption DEF Tasks, Turns, Stores, Chains
<1>3. DOMAIN all = DOMAIN touchedBp \cup {Len(blocks)} /\ DOMAIN all \subseteq 1 .. MaxHeight
  BY <1>2 DEF Tasks, Shapes
<1>4. \A o \in DOMAIN all : all[o] \subseteq HashXs
  BY DEF Tasks, Shapes
<1>5. S \subseteq DOMAIN all /\ S \cap DOMAIN touchedBp' \subseteq Counting'
  BY <1>1 DEF Counting, OwnReports, Undone
<1>6. ASSUME NEW x, x \in touched PROVE Len(blocks) \in S /\ x \in all[Len(blocks)]
  BY <1>2, <1>3, <1>6
<1>7. ASSUME NEW x, Due(x) PROVE Asking(x) \/ \E o \in S : x \in all[o]
  <2>1. ASSUME NEW o \in Counting, x \in touchedBp[o] PROVE o \in S /\ x \in all[o]
    <3>1. o \in DOMAIN touchedBp /\ o < Len(blocks)
      BY <1>1, <1>2, <2>1 DEF Counting, OwnReports, Undone
    <3>2. o \in Nat /\ o <= Len(blocks) /\ o # Len(blocks)
      BY <1>2, <3>1 DEF Tasks, Shapes
    <3> QED
      BY <2>1, <3>1, <3>2
  <2> HIDE DEF all, S
  <2> QED
    BY <1>6, <1>7, <2>1 DEF Due
<1>8. ASSUME NEW x, DueToClients(x)
      PROVE  Asking(x) \/ Telling(x) \/ x \in gone \/ \E o \in DOMAIN all : x \in all[o]
  <2>1. ASSUME NEW o \in DOMAIN touchedBp, x \in touchedBp[o], x \notin touched, x \notin gone
        PROVE  o \in DOMAIN all /\ x \in all[o]
    <3>1. ASSUME o = Len(blocks) PROVE FALSE
      <4>1. x \in gone
        BY <2>1, <3>1
      <4> QED
        BY <2>1, <4>1
    <3> QED
      BY <2>1, <3>1
  <2>2. S \subseteq DOMAIN all
    OBVIOUS
  <2> HIDE DEF all, S, gone
  <2> QED
    BY <1>6, <1>8, <2>1, <2>2 DEF DueToClients
<1> HIDE DEF all, S, gone
<1> QED
  BY <1>1, <1>2, <1>3, <1>4, <1>5, <1>7, <1>8, ReadersAre, NotifyInformed

(* The header is there: what the notification touched is forgotten, and its sessions' turn
   comes. *)
LEMMA HeaderInformed ==
    ASSUME Tasks, Informed, NEW c \in Callers, HeaderRead(c)
    PROVE  Informed'
<1>1. /\ notes[c].at = "header" /\ notes[c].todo = {} /\ jobs[c].op = "header"
      /\ DOMAIN notes = Callers /\ DOMAIN notes[c] = NoteFields /\ DOMAIN jobs = Readers
  BY DEF HeaderRead, Tasks, Notes, NotePlace, Jobs
<1>2. /\ histories' = [x \in HashXs |-> IF x \in notes[c].touched THEN Absent ELSE histories[x]]
      /\ statuses' = [x \in HashXs |-> IF x \in notes[c].touched THEN Absent ELSE statuses[x]]
      /\ jobs' = [jobs EXCEPT ![c] = NoJob]
      /\ notes' = [notes EXCEPT ![c].at = "sessions",
                                ![c].todo = {x \in notes[c].touched : told[x] # Absent}]
      /\ UNCHANGED <<touched, touchedBp, utxoRows, told, phase, signalled, blocks>>
  BY DEF HeaderRead, chainVars, dbVars
<1>3. lapsed'.statuses = lapsed.statuses \ notes[c].touched /\ lapsed'.told = lapsed.told
  BY DEF HeaderRead, Tasks, Shapes, LapsedFields
<1>4. /\ notes'[c].todo = {x \in notes[c].touched : told[x] # Absent}
      /\ \A d \in Callers : d # c => notes'[d] = notes[d] /\ jobs'[d] = jobs[d]
  BY <1>1, <1>2, ReadersAre DEF NoteFields
<1>5. Counting' = Counting
  BY <1>2 DEF Counting, OwnReports, Undone
<1>6. ASSUME NEW x, x \notin notes[c].touched
      PROVE  (Asking(x) => Asking(x)') /\ (Telling(x) => Telling(x)')
  BY <1>1, <1>4, <1>6 DEF Asking, Telling
<1>7. ASSUME NEW x, x \in notes[c].touched, told[x] # Absent PROVE Telling(x)'
  BY <1>4, <1>7 DEF Telling
<1>8. Remembered'
  <2>1. ASSUME NEW x \in HashXs, x \in notes[c].touched
        PROVE  histories'[x] = Absent /\ statuses'[x] = Absent
    BY <1>2, <2>1
  <2>2. ASSUME NEW x \in HashXs, x \notin notes[c].touched
        PROVE  /\ histories'[x] = histories[x] /\ statuses'[x] = statuses[x]
               /\ x \in lapsed.statuses => x \in lapsed'.statuses
               /\ Due(x) => Due(x)'
    <3>1. histories'[x] = histories[x] /\ statuses'[x] = statuses[x]
      BY <1>2, <2>2
    <3>2. Due(x) => Due(x)'
      BY <1>2, <1>5, <1>6, <2>2 DEF Due
    <3> QED
      BY <1>3, <2>2, <3>1, <3>2
  <2> QED
    BY <1>2, <2>1, <2>2 DEF Informed, Remembered
<1>9. Told'
  <2>1. ASSUME NEW x \in HashXs, told[x] # Absent, DueToClients(x) PROVE DueToClients(x)'
    BY <1>2, <1>6, <1>7, <2>1 DEF DueToClients
  <2> QED
    BY <1>2, <1>3, <2>1 DEF Informed, Told
<1> QED
  BY <1>8, <1>9 DEF Informed

(* A status given to a subscriber, and kept: found is what a cache or a thread had. *)
LEMMA StatusGiven ==
    ASSUME Tasks, Informed, UNCHANGED <<utxoRows, touched, touchedBp>>, Counting' = Counting,
           NEW x \in HashXs, NEW found, NEW fresh \in BOOLEAN, lapsed' = Lapse(x, found, fresh),
           histories' = histories \/ histories' = [histories EXCEPT ![x] = found],
           statuses' = [statuses EXCEPT ![x] = found],
           \/ told' = [told EXCEPT ![x] = found]
           \/ told' = [told EXCEPT ![x] = IF @ = Absent THEN Absent ELSE found],
           fresh => found = Answer(utxoRows, x) \/ found = Absent \/ Due(x),
           \A y : Asking(y) => Asking(y)',
           \A y : y # x /\ Telling(y) => Telling(y)'
    PROVE  Informed'
<1>1. /\ lapsed'.told = IF fresh \/ found = Answer(utxoRows, x) THEN lapsed.told \ {x}
                        ELSE lapsed.told \cup {x}
      /\ lapsed'.statuses = IF fresh \/ found = Answer(utxoRows, x) THEN lapsed.statuses
                            ELSE lapsed.statuses \cup {x}
  BY DEF Lapse, Tasks, Shapes, LapsedFields
<1>2. \A y : Due(y) => Due(y)'
  BY DEF Due
<1>3. ASSUME NEW y, y # x, DueToClients(y) PROVE DueToClients(y)'
  BY <1>3 DEF DueToClients
<1>4. found = Absent \/ found = Answer(utxoRows, x) \/ Due(x)
        \/ (x \in lapsed'.told /\ x \in lapsed'.statuses)
  BY <1>1
<1>5. Remembered'
  <2>1. ASSUME NEW y \in HashXs
        PROVE  /\ histories'[y] \in {Absent, Answer(utxoRows, y)} \/ y \in lapsed'.statuses \/ Due(y)
               /\ statuses'[y] \in {Absent, Answer(utxoRows, y)} \/ y \in lapsed'.statuses \/ Due(y)
    <3>1. /\ histories[y] \in {Absent, Answer(utxoRows, y)} \/ y \in lapsed'.statuses \/ Due(y)
          /\ statuses[y] \in {Absent, Answer(utxoRows, y)} \/ y \in lapsed'.statuses \/ Due(y)
      BY <1>1 DEF Informed, Remembered
    <3>2. /\ histories'[y] = histories[y] \/ (y = x /\ histories'[y] = found)
          /\ statuses'[y] = statuses[y] \/ (y = x /\ statuses'[y] = found)
      BY DEF Tasks, Shapes
    <3> QED
      BY <1>4, <3>1, <3>2
  <2> QED
    BY <1>2, <2>1 DEF Remembered
<1>6. Told'
  <2>1. ASSUME NEW y \in HashXs, y # x
        PROVE  told'[y] \in {Absent, Answer(utxoRows, y)} \/ y \in lapsed'.told \/ DueToClients(y)'
    <3>1. told'[y] = told[y] /\ (y \in lapsed.told => y \in lapsed'.told)
      BY <1>1, <2>1 DEF Tasks, Shapes
    <3> QED
      BY <1>3, <2>1, <3>1 DEF Informed, Told
  <2>2. told'[x] \in {Absent, Answer(utxoRows, x)} \/ x \in lapsed'.told \/ DueToClients(x)'
    <3>1. told'[x] \in {Absent, found}
      BY DEF Tasks, Shapes
    <3>2. Due(x) => DueToClients(x)'
      BY DEF Due, DueToClients, Counting, OwnReports
    <3> QED
      BY <1>4, <3>1, <3>2
  <2> QED
    BY <2>1, <2>2 DEF Told
<1> QED
  BY <1>5, <1>6 DEF Informed

\* So does a session that looks at the addresses of a notification.
LEMMA InnerInformed ==
    ASSUME Tasks, Informed, NEW c \in Callers, NotifyInner(c)
    PROVE  Informed'
<1>1. /\ notes[c].at = "sessions" /\ jobs[c] = NoJob
      /\ DOMAIN notes = Callers /\ DOMAIN notes[c] = NoteFields /\ DOMAIN jobs = Readers
      /\ notes[c].todo \subseteq HashXs
      /\ UNCHANGED <<touched, touchedBp, utxoRows, phase, signalled, blocks, histories>>
  BY DEF NotifyInner, Tasks, Notes, Jobs, chainVars, dbVars
<1>2. Counting' = Counting
  BY <1>1 DEF Counting, OwnReports, Undone
<1>3. jobs[c].op = "none"
  BY <1>1, NoJobIs
<1>4. CASE notes[c].todo = {}
  <2>1. /\ notes' = [notes EXCEPT ![c] = NoNote]
        /\ UNCHANGED <<statuses, told, jobs, lapsed>>
    BY <1>4 DEF NotifyInner
  <2>2. \A y : (Asking(y) => Asking(y)') /\ (Telling(y) => Telling(y)')
    BY <1>1, <1>4, <2>1 DEF Asking, Telling
  <2>3. \A y : (Due(y) => Due(y)') /\ (DueToClients(y) => DueToClients(y)')
    BY <1>1, <1>2, <2>2 DEF Due, DueToClients
  <2> QED
    BY <1>1, <2>1, <2>3 DEF Informed, Remembered, Told
<1>5. CASE notes[c].todo # {}
  <2>1. PICK x \in notes[c].todo :
             /\ notes' = [notes EXCEPT ![c].todo = @ \ {x}]
             /\ IF CachedStatus(x) = Absent
                THEN jobs' = [jobs EXCEPT ![c] = Asked("status", x)] /\ UNCHANGED <<statuses, told, lapsed>>
                ELSE /\ statuses' = [statuses EXCEPT ![x] = CachedStatus(x)]
                     /\ told' = [told EXCEPT ![x] = IF @ = Absent THEN @ ELSE CachedStatus(x)]
                     /\ lapsed' = Lapse(x, CachedStatus(x), x \notin lapsed.statuses)
                     /\ UNCHANGED jobs
    BY <1>5 DEF NotifyInner
  <2>2. /\ notes'[c].todo = notes[c].todo \ {x} /\ notes'[c].at = "sessions"
        /\ \A d \in Callers : d # c => notes'[d] = notes[d]
    BY <1>1, <2>1 DEF NoteFields
  <2>3. \A y : Asking(y) => Asking(y)'
    BY <1>1, <2>2 DEF Asking
  <2>4. \A d \in Callers : d # c => jobs'[d] = jobs[d]
    BY <1>1, <2>1, ReadersAre
  <2>5. ASSUME NEW y, y # x, Telling(y) PROVE Telling(y)'
    <3>1. PICK d \in Callers : y \in notes[d].todo \/ (jobs[d].op = "status" /\ jobs[d].key = y)
      BY <2>5 DEF Telling
    <3> QED
      BY <1>3, <2>2, <2>4, <2>5, <3>1 DEF Telling
  <2>6. CASE CachedStatus(x) = Absent
    <3>1. jobs'[c].op = "status" /\ jobs'[c].key = x
      <4>1. jobs' = [jobs EXCEPT ![c] = Asked("status", x)]
        BY <2>1, <2>6
      <4> QED
        BY <1>1, <4>1, ReadersAre, NoJobIs DEF Asked, JobFields
    <3>2. Telling(x)'
      BY <3>1 DEF Telling
    <3>3. \A y : (Due(y) => Due(y)') /\ (DueToClients(y) => DueToClients(y)')
      BY <1>1, <1>2, <2>3, <2>5, <3>2 DEF Due, DueToClients
    <3> QED
      BY <1>1, <2>1, <2>6, <3>3 DEF Informed, Remembered, Told
  <2>7. CASE CachedStatus(x) # Absent
    <3>1. x \in HashXs
      BY <1>1
    <3>2. x \notin lapsed.statuses =>
            CachedStatus(x) = Answer(utxoRows, x) \/ CachedStatus(x) = Absent \/ Due(x)
      BY <3>1 DEF CachedStatus, Informed, Remembered
    <3>3. told' = [told EXCEPT ![x] = IF @ = Absent THEN Absent ELSE CachedStatus(x)]
      BY <2>1, <2>7
    <3> QED
      BY <1>1, <1>2, <2>1, <2>3, <2>5, <2>7, <3>1, <3>2, <3>3, StatusGiven
  <2> QED
    BY <2>6, <2>7
<1> QED
  BY <1>4, <1>5

(* The status read for a notification. *)
LEMMA ReadInformed ==
    ASSUME Tasks, Answers, Informed, NEW c \in Callers, StatusRead(c)
    PROVE  Informed'
<1> DEFINE x == jobs[c].key
<1>1. /\ notes[c].at = "sessions" /\ jobs[c].at = "back"
      /\ lapsed' = Lapse(x, jobs[c].found, jobs[c].fresh)
      /\ histories' = [histories EXCEPT ![x] = jobs[c].found]
      /\ statuses' = [statuses EXCEPT ![x] = jobs[c].found]
      /\ jobs' = [jobs EXCEPT ![c] = NoJob]
      /\ UNCHANGED <<touched, touchedBp, utxoRows, phase, signalled, blocks, notes>>
  BY DEF StatusRead, GotStatus, chainVars, dbVars, notifyVars
<1>2. told' = [told EXCEPT ![x] = IF @ = Absent THEN Absent ELSE jobs[c].found]
  <2>1. c # "client"
    BY ReadersAre
  <2> QED
    BY <2>1 DEF StatusRead, GotStatus, Tasks, Shapes
<1>3. JobPlace(jobs[c]) /\ jobs[c].op = "status" /\ x \in HashXs /\ jobs[c].fresh \in BOOLEAN
  <2>1. JobPlace(jobs[c]) /\ jobs[c].op = "status"
    BY <1>1, ReadersAre DEF Tasks, Jobs, JobPlace, Notes, NotePlace
  <2> QED
    BY <2>1 DEF JobPlace, AddressReads
<1>4. jobs[c].fresh => jobs[c].found = Answer(utxoRows, x)
  BY <1>1, <1>3, ReadersAre DEF Answers, FreshReads, AddressReads
<1>5. Counting' = Counting
  BY <1>1 DEF Counting, OwnReports, Undone
<1>6. \A y : Asking(y) => Asking(y)'
  BY <1>1 DEF Asking
<1>7. ASSUME NEW y, y # x, Telling(y) PROVE Telling(y)'
  <2>1. \A d \in Callers : d # c => jobs'[d] = jobs[d]
    BY <1>1, ReadersAre DEF Tasks, Jobs
  <2> QED
    BY <1>1, <1>7, <2>1 DEF Telling
<1> HIDE DEF x
<1> QED
  BY <1>1, <1>2, <1>3, <1>4, <1>5, <1>6, <1>7, StatusGiven

(* A flush: what changes an answer is touched, or waits in a report, or was silent. *)
LEMMA FlushInformed ==
    ASSUME Stores, Tasks, Informed, FlushRows
    PROVE  Informed'
<1> DEFINE silent == lapsed.dropped \ (touched \cup UNION {touchedBp[o] : o \in OwnReports})
<1>1. /\ phase \in {"flush", "reflush"} /\ phase' = IF phase = "flush" THEN "report" ELSE "hashes"
      /\ utxoRows' = blocks /\ jobs' = Overtaken
      /\ UNCHANGED <<blocks, touched, signalled, notes, touchedBp, histories, statuses, told, reorgCount>>
  BY DEF FlushRows, notifyVars, mgrCaches
<1>2. /\ lapsed'.statuses = lapsed.statuses \cup Differing(silent, {histories, statuses}, blocks)
      /\ lapsed'.told = lapsed.told \cup Differing(silent, {told}, blocks)
  BY DEF FlushRows, Tasks, Shapes, LapsedFields
<1>3. Counting \subseteq Counting'
  BY <1>1 DEF Counting, OwnReports, Undone
<1>4. \A c \in Callers : jobs'[c].op = jobs[c].op /\ jobs'[c].key = jobs[c].key
  BY <1>1, JobsOvertaken, ReadersAre DEF Tasks
<1>5. OwnReports \subseteq Counting
  BY DEF Counting, OwnReports
<1>6. \A x : (Due(x) => Due(x)') /\ (DueToClients(x) => DueToClients(x)')
  BY <1>1, <1>3, <1>4, DueKept, DueToClientsKept
<1>7. ASSUME NEW x \in HashXs, ~Due(x), x \notin silent
      PROVE  Answer(utxoRows, x) = Answer(blocks, x)
  <2>1. x \notin touched /\ \A o \in OwnReports : x \notin touchedBp[o]
    BY <1>5, <1>7 DEF Due
  <2>2. x \notin lapsed.dropped
    BY <1>7, <2>1
  <2>3. /\ utxoRows \in Seq(Record) /\ blocks \in Seq(Record)
        /\ Len(utxoRows) <= Len(blocks) /\ \A h \in 1 .. Len(utxoRows) : utxoRows[h] = blocks[h]
        /\ dbHeight = Len(utxoRows)
    BY <1>1 DEF Stores, Chains, Rows
  <2>4. \A h \in Len(utxoRows) + 1 .. Len(blocks) : x \notin blocks[h].touches
    BY <1>1, <2>1, <2>2, <2>3 DEF Stores, Unflushed
  <2> QED
    BY <2>3, <2>4, SameAnswer
<1> HIDE DEF silent
<1>8. Remembered'
  <2> SUFFICES ASSUME NEW x \in HashXs, x \notin lapsed'.statuses, ~Due(x)'
               PROVE  /\ histories[x] \in {Absent, Answer(blocks, x)}
                      /\ statuses[x] \in {Absent, Answer(blocks, x)}
    BY <1>1 DEF Remembered
  <2>1. CASE x \in silent
    BY <1>2, <2>1, DifferingIs
  <2>2. CASE x \notin silent
    <3>1. ~Due(x) /\ x \notin lapsed.statuses
      BY <1>2, <1>6
    <3>2. Answer(utxoRows, x) = Answer(blocks, x)
      BY <1>7, <2>2, <3>1
    <3> QED
      BY <3>1, <3>2 DEF Informed, Remembered
  <2> QED
    BY <2>1, <2>2
<1>9. Told'
  <2> SUFFICES ASSUME NEW x \in HashXs, x \notin lapsed'.told, ~DueToClients(x)'
               PROVE  told[x] \in {Absent, Answer(blocks, x)}
    BY <1>1 DEF Told
  <2>1. CASE x \in silent
    BY <1>2, <2>1, DifferingOne
  <2>2. CASE x \notin silent
    <3>1. ~DueToClients(x) /\ x \notin lapsed.told
      BY <1>2, <1>6
    <3>2. Answer(utxoRows, x) = Answer(blocks, x)
      BY <1>7, <2>2, <3>1, DueIsDueToClients
    <3> QED
      BY <3>1, <3>2 DEF Informed, Told
  <2> QED
    BY <2>1, <2>2
<1> QED
  BY <1>8, <1>9 DEF Informed

(* The undone block's addresses are touched. *)
LEMMA WipeInformed ==
    ASSUME Stores, Tasks, Informed, BackupRows
    PROVE  Informed'
<1>1. /\ phase = "backup" /\ phase' = "reset" /\ utxoRows' = blocks /\ jobs' = Overtaken
      /\ lapsed'.statuses = lapsed.statuses /\ lapsed'.told = lapsed.told
      /\ UNCHANGED <<blocks, touched, signalled, notes, touchedBp, histories, statuses, told, reorgCount>>
  BY DEF BackupRows, notifyVars, mgrCaches, Tasks, Shapes, LapsedFields
<1>2. Counting \subseteq Counting'
  BY <1>1 DEF Counting, Undone
<1>3. \A c \in Callers : jobs'[c].op = jobs[c].op /\ jobs'[c].key = jobs[c].key
  BY <1>1, JobsOvertaken, ReadersAre DEF Tasks
<1>4. \A x : (Due(x) => Due(x)') /\ (DueToClients(x) => DueToClients(x)')
  BY <1>1, <1>2, <1>3, DueKept, DueToClientsKept
<1>5. ASSUME NEW x, x \notin touched PROVE Answer(blocks, x) = Answer(utxoRows, x)
  <2>1. /\ blocks \in Seq(Record) /\ utxoRows \in Seq(Record) /\ dbHeight \in Nat
        /\ dbHeight = Len(blocks) /\ Len(utxoRows) = dbHeight + 1
        /\ \A h \in 1 .. dbHeight : utxoRows[h] = blocks[h]
        /\ utxoRows[dbHeight + 1].touches \subseteq touched
    BY <1>1 DEF Stores, Chains, Rows
  <2>2. /\ Len(blocks) <= Len(utxoRows) /\ \A h \in 1 .. Len(blocks) : blocks[h] = utxoRows[h]
        /\ \A h \in Len(blocks) + 1 .. Len(utxoRows) : x \notin utxoRows[h].touches
    BY <1>5, <2>1
  <2> QED
    BY <2>1, <2>2, SameAnswer
<1>6. ASSUME NEW x, ~Due(x) \/ ~DueToClients(x) PROVE Answer(blocks, x) = Answer(utxoRows, x)
  BY <1>5, <1>6 DEF Due, DueToClients
<1>7. Remembered'
  BY <1>1, <1>4, <1>6 DEF Informed, Remembered
<1>8. Told'
  BY <1>1, <1>4, <1>6 DEF Informed, Told
<1> QED
  BY <1>7, <1>8 DEF Informed

\* So does a request's answer.
LEMMA AnsweredInformed ==
    ASSUME Stores, Tasks, Answers, Informed, Answered
    PROVE  Informed'
<1> DEFINE j == jobs["client"]
<1>1. /\ ~Blocking /\ j.at = "back" /\ jobs' = [jobs EXCEPT !["client"] = NoJob]
      /\ UNCHANGED <<chainVars, dbVars, notifyVars>>
  BY AnsweredIs
<1>2. JobPlace(j) /\ j.op \in AddressReads \cup {"txs"} /\ j.fresh \in BOOLEAN
  BY <1>1, ReadersAre, ClientJob DEF Tasks, Jobs, JobPlace
<1>3. j.op \in AddressReads =>
        /\ j.key \in HashXs
        /\ j.fresh => j.found = Answer(utxoRows, j.key)
  BY <1>1, <1>2, ReadersAre DEF Answers, FreshReads, JobPlace
<1>4. /\ UNCHANGED <<blocks, touched, phase, signalled, utxoRows, touchedBp, notes>>
      /\ \A c \in Callers : jobs'[c] = jobs[c]
  BY <1>1, ReadersAre DEF chainVars, dbVars, notifyVars, Tasks, Jobs
<1>5. Counting' = Counting
  BY <1>4 DEF Counting, OwnReports, Undone
<1>6. CASE j.op \notin {"status", "history"}
  <2>1. UNCHANGED <<histories, statuses, told>>
    BY <1>2, <1>6, AnsweredIs DEF AddressReads
  <2>2. lapsed'.statuses = lapsed.statuses /\ lapsed'.told = lapsed.told
    BY <1>2, <1>6, AnsweredIs DEF AddressReads, Tasks, Shapes, LapsedFields
  <2> QED
    BY <1>4, <1>5, <2>1, <2>2, InformedKept
<1>7. CASE j.op = "status"
  <2>1. /\ histories' = [histories EXCEPT ![j.key] = j.found]
        /\ statuses' = [statuses EXCEPT ![j.key] = j.found]
        /\ told' = [told EXCEPT ![j.key] = j.found]
        /\ lapsed' = Lapse(j.key, j.found, j.fresh)
    BY <1>7, AnsweredIs DEF AddressReads
  <2>2. \A y : (Asking(y) => Asking(y)') /\ (Telling(y) => Telling(y)')
    BY <1>4 DEF Asking, Telling
  <2>3. j.key \in HashXs /\ (j.fresh => j.found = Answer(utxoRows, j.key))
    BY <1>3, <1>7 DEF AddressReads
  <2> HIDE DEF j
  <2> QED
    BY <1>2, <1>4, <1>5, <2>1, <2>2, <2>3, StatusGiven
<1>8. CASE j.op = "history"
  <2>1. /\ histories' = [histories EXCEPT ![j.key] = j.found]
        /\ lapsed' = [lapsed EXCEPT !.statuses =
              IF ~j.fresh /\ j.found # Answer(utxoRows, j.key) THEN @ \cup {j.key} ELSE @]
        /\ UNCHANGED <<statuses, told>>
    BY <1>8, AnsweredIs DEF AddressReads
  <2>2. /\ lapsed'.told = lapsed.told
        /\ lapsed'.statuses = IF ~j.fresh /\ j.found # Answer(utxoRows, j.key)
                              THEN lapsed.statuses \cup {j.key} ELSE lapsed.statuses
    BY <2>1 DEF Tasks, Shapes, LapsedFields
  <2>3. j.found = Answer(utxoRows, j.key) \/ j.key \in lapsed'.statuses
    BY <1>3, <1>8, <2>2 DEF AddressReads
  <2>4. \A y : (Due(y) => Due(y)') /\ (DueToClients(y) => DueToClients(y)')
    BY <1>4, <1>5, DueKept, DueToClientsKept
  <2> HIDE DEF j
  <2>5. ASSUME NEW y \in HashXs
        PROVE  histories'[y] = histories[y] \/ (y = j.key /\ histories'[y] = j.found)
    BY <2>1 DEF Tasks, Shapes
  <2>6. Remembered'
    <3>1. ASSUME NEW y \in HashXs
          PROVE  /\ histories'[y] \in {Absent, Answer(utxoRows, y)} \/ y \in lapsed'.statuses \/ Due(y)
                 /\ statuses[y] \in {Absent, Answer(utxoRows, y)} \/ y \in lapsed'.statuses \/ Due(y)
      <4>1. /\ histories[y] \in {Absent, Answer(utxoRows, y)} \/ y \in lapsed'.statuses \/ Due(y)
            /\ statuses[y] \in {Absent, Answer(utxoRows, y)} \/ y \in lapsed'.statuses \/ Due(y)
        BY <2>2 DEF Informed, Remembered
      <4> QED
        BY <2>3, <2>5, <4>1
    <3> QED
      BY <1>4, <2>1, <2>4, <3>1 DEF Remembered
  <2>7. Told'
    BY <1>4, <2>1, <2>2, <2>4 DEF Informed, Told
  <2> QED
    BY <2>6, <2>7 DEF Informed
<1> QED
  BY <1>6, <1>7, <1>8

\* So does a client that subscribes or unsubscribes.
LEMMA SubscriberInformed ==
    ASSUME Tasks, Informed, NEW x \in HashXs, hashX_subscribe(x) \/ unsubscribe_hashX(x)
    PROVE  Informed'
<1>1. /\ UNCHANGED <<chainVars, dbVars, notifyVars, histories>>
      /\ jobs' = jobs \/ jobs' = [jobs EXCEPT !["client"] = Asked("status", x)]
  BY DEF hashX_subscribe, unsubscribe_hashX, Read, mgrCaches, sessionVars
<1>2. /\ UNCHANGED <<blocks, touched, phase, signalled, utxoRows, touchedBp, notes>>
      /\ \A c \in Callers : jobs'[c] = jobs[c]
  BY <1>1, ReadersAre DEF chainVars, dbVars, notifyVars, Tasks, Jobs
<1>3. Counting' = Counting
  BY <1>2 DEF Counting, OwnReports, Undone
<1>4. \A y : (Asking(y) => Asking(y)') /\ (Telling(y) => Telling(y)')
  BY <1>2 DEF Asking, Telling
<1>5. CASE hashX_subscribe(x)
  <2>1. CASE CachedStatus(x) = Absent
    <3>1. UNCHANGED <<statuses, told, lapsed>>
      BY <1>5, <2>1 DEF hashX_subscribe
    <3> QED
      BY <1>1, <1>2, <1>3, <3>1, InformedKept
  <2>2. CASE CachedStatus(x) # Absent
    <3>1. /\ statuses' = [statuses EXCEPT ![x] = CachedStatus(x)]
          /\ told' = [told EXCEPT ![x] = CachedStatus(x)]
          /\ lapsed' = Lapse(x, CachedStatus(x), x \notin lapsed.statuses)
      BY <1>5, <2>2 DEF hashX_subscribe
    <3>2. x \notin lapsed.statuses =>
            CachedStatus(x) = Answer(utxoRows, x) \/ CachedStatus(x) = Absent \/ Due(x)
      BY DEF CachedStatus, Informed, Remembered
    <3> QED
      BY <1>1, <1>2, <1>3, <1>4, <3>1, <3>2, StatusGiven
  <2> QED
    BY <2>1, <2>2
<1>6. CASE unsubscribe_hashX(x)
  <2>1. told' = [told EXCEPT ![x] = Absent] /\ statuses' = statuses
    BY <1>6 DEF unsubscribe_hashX, mgrCaches
  <2>2. lapsed'.statuses = lapsed.statuses /\ lapsed'.told = lapsed.told \ {x}
    BY <1>6 DEF unsubscribe_hashX, Tasks, Shapes, LapsedFields
  <2>3. \A y : (Due(y) => Due(y)') /\ (DueToClients(y) => DueToClients(y)')
    BY <1>2, <1>3, DueKept, DueToClientsKept
  <2>4. told'[x] = Absent /\ \A y \in HashXs : y # x => told'[y] = told[y]
    BY <2>1 DEF Tasks, Shapes
  <2> QED
    BY <1>1, <1>2, <2>1, <2>2, <2>3, <2>4 DEF Informed, Remembered, Told
<1> QED
  BY <1>5, <1>6

\* Every step keeps the fourth layer.
LEMMA InformedStep ==
    ASSUME Stores, Tasks, Answers, Informed, ReadsNext
    PROVE  Informed'
<1> DEFINE SameCallers == \A c \in Callers : jobs'[c].op = jobs[c].op /\ jobs'[c].key = jobs[c].key
<1>1. ASSUME UNCHANGED <<blocks, touched, phase, signalled, utxoRows, touchedBp, notes, histories,
                         statuses, told>>,
             lapsed'.statuses = lapsed.statuses, lapsed'.told = lapsed.told, SameCallers
      PROVE  Informed'
  <2>1. Counting' = Counting
    BY <1>1 DEF Counting, OwnReports, Undone
  <2> QED
    BY <1>1, <2>1, InformedKept
<1>2. ASSUME jobs' = Overtaken, UNCHANGED reorgCount PROVE SameCallers
  BY <1>2, JobsOvertaken, ReadersAre DEF Tasks
<1>3. CASE DaemonGrows
  BY <1>1, <1>3 DEF DaemonGrows, dbVars, notifyVars, mgrCaches, sessionVars
<1>4. CASE RefreshStarts
  BY <1>1, <1>4 DEF RefreshStarts, chainVars, dbVars, mgrCaches, sessionVars
<1>5. CASE _handle_chain_reorgs
  <2>1. /\ histories' = [x \in HashXs |-> Absent] /\ statuses' = [x \in HashXs |-> Absent]
        /\ lapsed'.told = lapsed.told
        /\ UNCHANGED <<touched, notes, touchedBp, utxoRows, jobs, told>>
    BY <1>5 DEF _handle_chain_reorgs, dbVars, notifyVars, sessionVars, Tasks, Shapes, LapsedFields
  <2>2. Remembered'
    BY <2>1 DEF Remembered
  <2>3. Told'
    BY <2>1, DueToClientsKept DEF Informed, Told
  <2> QED
    BY <2>2, <2>3 DEF Informed
<1>6. ASSUME NEW t \in Readers, ThreadReads(t) \/ ThreadStores(t) PROVE Informed'
  <2>1. /\ lapsed'.statuses = lapsed.statuses /\ lapsed'.told = lapsed.told
        /\ UNCHANGED <<chainVars, dbVars, notifyVars, mgrCaches, told>>
    BY <1>6 DEF ThreadReads, ThreadStores, Tasks, Shapes, LapsedFields
  <2>2. SameCallers
    BY <1>6, JobReads, JobStores, ReadersAre DEF Tasks
  <2> QED
    BY <1>1, <2>1, <2>2 DEF chainVars, dbVars, notifyVars, mgrCaches
<1>7. ASSUME NEW c \in Callers, HeaderLost(c) PROVE Informed'
  <2>1. /\ Undone' /\ Counting \subseteq Counting'
    BY <1>7 DEF HeaderLost, notifyVars, Counting, OwnReports, Undone
  <2> QED
    BY <1>7, <2>1, InformedKept DEF HeaderLost, dbVars, notifyVars, mgrCaches, sessionVars
<1>8. ASSUME NEW touches \in SUBSET HashXs, Advance(touches) PROVE Informed'
  <2>1. /\ phase = "idle" /\ phase' \in {"flush", "report"} /\ touched' = touched \cup touches
        /\ blocks' = Append(blocks, [branch |-> reorgs, touches |-> touches])
        /\ ~signalled /\ (jobs' = jobs \/ jobs' = Overtaken)
        /\ UNCHANGED <<signalled, utxoRows, notifyVars, mgrCaches, told>>
    BY <1>8 DEF Advance, BpRuns
  <2>2. lapsed'.statuses = lapsed.statuses /\ lapsed'.told = lapsed.told
    BY <1>8 DEF Advance, Tasks, Shapes, LapsedFields
  <2>3. SameCallers
    BY <1>2, <2>1 DEF mgrCaches
  <2>4. Counting \subseteq Counting'
    <3>1. Len(blocks') = Len(blocks) + 1 /\ Len(blocks) \in Nat
      <4>1. [branch |-> reorgs, touches |-> touches] \in Record
        BY DEF Stores, Chains, Record
      <4> QED
        BY <2>1, <4>1, RecordParts DEF Stores, Chains
    <3>2. DOMAIN touchedBp \subseteq Nat /\ touchedBp' = touchedBp
      BY <2>1 DEF Tasks, Shapes, notifyVars
    <3>3. \A o \in DOMAIN touchedBp : o <= Len(blocks) => o < Len(blocks')
      BY <3>1, <3>2
    <3> QED
      BY <2>1, <3>2, <3>3 DEF Counting, OwnReports, Undone
  <2> QED
    BY <2>1, <2>2, <2>3, <2>4, InformedKept DEF notifyVars, mgrCaches
<1>9. CASE StartReorg
  <2>1. /\ phase = "idle" /\ phase' \in {"hashes", "reflush"} /\ (jobs' = jobs \/ jobs' = Overtaken)
        /\ UNCHANGED <<blocks, touched, signalled, utxoRows, notifyVars, mgrCaches, told, lapsed>>
    BY <1>9 DEF StartReorg, BpRuns
  <2>2. SameCallers
    BY <1>2, <2>1 DEF mgrCaches
  <2>3. Counting \subseteq Counting'
    BY <2>1 DEF Counting, OwnReports, Undone, notifyVars
  <2> QED
    BY <2>1, <2>2, <2>3, InformedKept DEF notifyVars, mgrCaches
<1>10. CASE BackupHistory
  <2>1. /\ phase' = "backup" /\ touched \subseteq touched' /\ jobs' = Overtaken
        /\ UNCHANGED <<utxoRows, notifyVars, mgrCaches, told, lapsed>>
    BY <1>10 DEF BackupHistory
  <2>2. SameCallers
    BY <1>2, <2>1 DEF mgrCaches
  <2>3. Counting \subseteq Counting'
    BY <2>1 DEF Counting, OwnReports, Undone, notifyVars
  <2> QED
    BY <2>1, <2>2, <2>3, InformedKept DEF notifyVars, mgrCaches
<1>11. CASE ReorgDone
  <2>1. Counting \subseteq Counting'
    BY <1>11 DEF ReorgDone, Counting, OwnReports, Undone, notifyVars
  <2> QED
    BY <1>11, <2>1, InformedKept DEF ReorgDone, dbVars, notifyVars, mgrCaches, sessionVars
<1>12. CASE Processor
  BY <1>8, <1>9, <1>10, <1>11, <1>12, FlushInformed, BlockInformed, WipeInformed DEF Processor
<1>13. ASSUME NEW t \in Readers, NEW op,
              jobs' = [jobs EXCEPT ![t] = Asked(op, jobs[t].key)], op = jobs[t].op \/ t = "client"
       PROVE  SameCallers
  BY <1>13, ReadersAre, NoJobIs DEF Asked, JobFields, Tasks, Jobs
<1>14. ASSUME NEW key, NEW op, jobs' = [jobs EXCEPT !["client"] = Asked(op, key)] PROVE SameCallers
  BY <1>14, ReadersAre DEF Tasks, Jobs
<1>15. ASSUME NEW x \in HashXs, get_balance(x) \/ all_utxos(x) \/ limited_history(x)
       PROVE  Informed'
  <2>1. SameCallers
    BY <1>14, <1>15 DEF get_balance, all_utxos, limited_history, Read
  <2> QED
    BY <1>1, <1>15, <2>1
       DEF get_balance, all_utxos, limited_history, chainVars, dbVars, notifyVars, mgrCaches
<1>16. ASSUME NEW h \in 1 .. MaxHeight, tx_hashes_at_blockheight(h) PROVE Informed'
  <2>1. SameCallers
    BY <1>14, <1>16 DEF tx_hashes_at_blockheight, Read
  <2> QED
    BY <1>1, <1>16, <2>1
       DEF tx_hashes_at_blockheight, chainVars, dbVars, notifyVars, mgrCaches
<1>17. ASSUME NEW t \in Readers, ReadsAgain(t) PROVE Informed'
  <2>1. jobs' = [jobs EXCEPT ![t] = Asked(jobs[t].op, jobs[t].key)]
    BY <1>17 DEF ReadsAgain, Tasks, Jobs
  <2>2. SameCallers
    BY <1>13, <2>1
  <2> QED
    BY <1>1, <1>17, <2>2 DEF ReadsAgain, chainVars, dbVars, notifyVars, mgrCaches
<1> HIDE DEF SameCallers
<1> QED
  BY <1>3, <1>4, <1>5, <1>6, <1>7, <1>12, <1>15, <1>16, <1>17, MempoolInformed, HeaderInformed,
     InnerInformed, ReadInformed, SubscriberInformed, AnsweredInformed
     DEF ReadsNext, Threads, Notified, Client, Tasks, Jobs

-----------------------------------------------------------------------------
(* The theorem *)

\* The invariant holds initially.
LEMMA ReadsInitially ==
    ASSUME ReadsInit
    PROVE  ReadsInv
<1> DEFINE first == <<[branch |-> 0, touches |-> HashXs]>>
<1>1. /\ blocks = first /\ histRows = first /\ utxoRows = first /\ dbHeight = 1
      /\ daemonHeight = 1 /\ touched = {} /\ phase = "idle" /\ reorgs = 0 /\ signalled = FALSE
      /\ touchedBp = << >> /\ highest = 1 /\ refreshing = 0
      /\ notes = [c \in Callers |-> NoNote]
      /\ balances = [x \in HashXs |-> Absent] /\ utxoLists = [x \in HashXs |-> Absent]
      /\ histories = [x \in HashXs |-> Absent] /\ statuses = [x \in HashXs |-> Absent]
      /\ told \in {[x \in HashXs |-> Absent], [x \in HashXs |-> Answer(first, x)]}
      /\ txHashes = [n \in 1 .. MaxHeight |-> Absent] /\ txsAt = [n \in 1 .. MaxHeight |-> Absent]
      /\ reorgCount = 0
      /\ jobs = [t \in Callers \cup {"client"} |-> NoJob]
      /\ lapsed = [dropped |-> {}, rows |-> {}, txs |-> {}, statuses |-> {}, told |-> {}]
  BY DEF ReadsInit
<1>2. first \in Seq(Record) /\ Len(first) = 1
  BY DEF Record
<1> HIDE DEF first
<1>3. Stores
  <2>1. Chains
    <3>1. /\ blocks \in Seq(Record) /\ Len(blocks) = 1 /\ daemonHeight = 1 /\ dbHeight = 1
          /\ reorgs = 0 /\ reorgCount = 0
      BY <1>1, <1>2
    <3>2. phase \in Phases /\ signalled \in BOOLEAN /\ ~signalled
      BY <1>1 DEF Phases
    <3>3. 1 \in 1 .. MaxHeight
      BY ReadsAssumption
    <3> QED
      BY <1>1, <3>1, <3>2, <3>3 DEF Chains
  <2>2. Rows /\ Unflushed
    BY <1>1, <1>2 DEF Rows, Unflushed, Writing
  <2> QED
    BY <2>1, <2>2 DEF Stores
<1>4. Tasks
  <2>1. Shapes
    BY <1>1 DEF Shapes, LapsedFields
  <2>2. JobPlace(NoJob)
    BY NoJobIs DEF JobPlace, AddressReads
  <2>3. Jobs
    BY <1>1, <2>2, NoJobIs DEF Jobs, Readers
  <2>4. Notes
    BY <1>1, NoJobIs, NoNoteIs DEF Notes, NotePlace
  <2>5. Turns
    BY <1>1, NoJobIs, NoNoteIs, ReadersAre DEF Turns
  <2> QED
    BY <2>1, <2>3, <2>4, <2>5 DEF Tasks
<1>5. Answers
  <2>1. \A t \in Readers : jobs[t].at = "none"
    BY <1>1, NoJobIs DEF Readers
  <2> QED
    BY <1>1, <2>1 DEF Answers, FreshReads, KnownHashes, CachedRows, KnownBlocks, OfBlock
<1>6. Informed
  BY <1>1 DEF Informed, Remembered, Told
<1> QED
  BY <1>3, <1>4, <1>5, <1>6 DEF ReadsInv

\* Every step keeps the invariant.
LEMMA ReadsInvariant ==
    ASSUME ReadsInv, [ReadsNext]_readVars
    PROVE  ReadsInv'
<1>1. CASE ReadsNext
  BY <1>1, StoresStep, TasksStep, AnswersStep, InformedStep DEF ReadsInv
<1>2. CASE UNCHANGED readVars
  <2> USE <1>2 DEF readVars, chainVars, dbVars, notifyVars, dbCaches, mgrCaches, sessionVars
  <2>1. Stores'
    BY DEF ReadsInv, Stores, Chains, Rows, Writing, Unflushed
  <2>2. Tasks'
    BY DEF ReadsInv, Tasks, Shapes, Jobs, Notes, NotePlace, Turns
  <2>3. Answers'
    BY DEF ReadsInv, Answers, FreshReads, Writing, KnownHashes, CachedRows, KnownBlocks, Undone, OfBlock
  <2>4. Informed'
    BY DEF ReadsInv, Informed, Remembered, Told, Due, DueToClients, Asking, Telling, Counting,
           OwnReports, Undone
  <2> QED
    BY <2>1, <2>2, <2>3, <2>4 DEF ReadsInv
<1> QED
  BY <1>1, <1>2

\* The invariant implies the property.
LEMMA ReadsFollow ==
    ASSUME ReadsInv
    PROVE  AnswersFollowRows
<1>1. RowAnswers
  BY DEF ReadsInv, Answers, CachedRows, RowAnswers
<1>2. TxAnswers
  <2>1. 1 .. dbHeight \subseteq 1 .. MaxHeight \/ phase = "backup"
    BY ReadsAssumption DEF ReadsInv, Stores, Chains, Rows
  <2> QED
    BY <2>1 DEF ReadsInv, Answers, KnownHashes, KnownBlocks, Undone, TxAnswers
<1>3. StatusAnswers
  <2>1. ASSUME NEW x \in HashXs, Settled(x)
        PROVE  /\ histRows = utxoRows
               /\ histories[x] \in {Absent, Answer(utxoRows, x)} \/ x \in lapsed.statuses
               /\ statuses[x] \in {Absent, Answer(utxoRows, x)} \/ x \in lapsed.statuses
               /\ told[x] \in {Absent, Answer(utxoRows, x)} \/ x \in lapsed.told
    <3>1. histRows = utxoRows
      BY <2>1 DEF Settled, ReadsInv, Stores, Rows, Writing
    <3>2. ~Asking(x)
      BY <2>1, NoNoteIs DEF Settled, Asking
    <3>3. ~Telling(x)
      BY <2>1, NoNoteIs DEF Settled, Telling, ReadsInv, Tasks, Notes, NotePlace
    <3>4. ~DueToClients(x)
      BY <2>1, <3>2, <3>3 DEF Settled, DueToClients
    <3>5. ~Due(x)
      BY <3>4, DueIsDueToClients
    <3> QED
      BY <3>1, <3>4, <3>5 DEF ReadsInv, Informed, Remembered, Told
  <2> QED
    BY <2>1 DEF StatusAnswers
<1> QED
  BY <1>1, <1>2, <1>3 DEF AnswersFollowRows

(* Whatever the number of addresses, heights, reorganisations and requests, cached answers,
   tx hashes, histories and statuses are the DB's, and so is what subscribers were told, but
   for the lapses each of the three parts names. *)
THEOREM AnswersAlwaysFollow == ReadsInit /\ [][ReadsNext]_readVars => []AnswersFollowRows
<1>1. ReadsInit => ReadsInv
  BY ReadsInitially
<1>2. ReadsInv /\ [ReadsNext]_readVars => ReadsInv'
  BY ReadsInvariant
<1>3. ReadsInv => AnswersFollowRows
  BY ReadsFollow
<1> QED
  BY <1>1, <1>2, <1>3, PTL

-----------------------------------------------------------------------------
(* HistoryCompaction: the inductive invariant *)

(* An address's rows hold the tx numbers N: ascending in each row, and from row to row in the
   order of the keys; no row is empty. *)
Rising(s) == \A i, j \in DOMAIN s : i < j => s[i] < s[j]
RowsHold(r, N) ==
    /\ DOMAIN r \in SUBSET Nat
    /\ \A k \in DOMAIN r : r[k] \in Seq(Nat) /\ r[k] # << >> /\ Rising(r[k])
    /\ \A j, k \in DOMAIN r : j < k => \A m \in Range(r[j]), n \in Range(r[k]) : m < n
    /\ N = UNION {Range(r[k]) : k \in DOMAIN r}

(* The numbers of an address's txs up to n; the rows up to a key; rows that compaction would
   leave as they are. *)
Numbers(txs, x, n) == {m \in 1 .. n : x \in txs[m]}
RowsTo(r, b) == [k \in {k \in DOMAIN r : k <= b} |-> r[k]]
Bounded(r, b) == \A k \in DOMAIN r : k <= b
Compact(r) ==
    /\ DOMAIN r = DOMAIN Chunks(TxNums(r))
    /\ \A k \in DOMAIN r : r[k] = Chunks(TxNums(r))[k]

(* What the variables hold, and which commits each process may be between. *)
States == [flush_count : Nat, comp_flush_count : Nat \cup {-1}, comp_cursor : Nat \cup {-1}]
CompactionTypes ==
    /\ chain \in Seq(SUBSET Hashes)
    /\ history \in States /\ histState \in States
    /\ saved \in Nat /\ utxoFlush \in Nat /\ flushed \in Nat
    /\ proc \in {"down", "serving", "compacting"} /\ at \in {"idle", "flushed", "compacted"}
    /\ proc = "down" => at = "idle"
    /\ at = "flushed" => proc = "serving"
    /\ at = "compacted" => proc = "compacting"
    /\ proc = "serving" => history.comp_cursor = -1
    /\ proc = "compacting" /\ at = "idle" => history.comp_flush_count \in Nat /\ history.comp_cursor \in Hashes
    /\ proc # "down" => history.flush_count = histState.flush_count

(* The rows that opening would leave; while nothing runs they are the saved history, with keys
   that the next flush is past. *)
Opened(x) == IF Excess THEN RowsTo(rows[x], utxoFlush) ELSE rows[x]
Down ==
    proc = "down" =>
      /\ saved <= Len(chain)
      /\ \A x \in Hashes : RowsHold(Opened(x), Numbers(chain, x, saved)) /\ Bounded(Opened(x), Cleared.flush_count)

(* While something runs they are the flushed history. *)
Up ==
    proc # "down" =>
      /\ flushed <= Len(chain)
      /\ at # "flushed" => saved = flushed
      /\ \A x \in Hashes : RowsHold(rows[x], Numbers(chain, x, flushed))

(* The server's keys, and its flush count, which the UTXO DB's may be ahead of. *)
Serving ==
    proc = "serving" =>
      /\ \A x \in Hashes : Bounded(rows[x], history.flush_count)
      /\ at = "idle" => history.flush_count <= utxoFlush

(* Between the commits of a flush, the rows below its key are the saved history. *)
Flushed ==
    at = "flushed" =>
      /\ histState = history /\ flushed = Len(chain)
      /\ history.flush_count \in 1 .. utxoFlush + 1
      /\ saved <= Len(chain) =>
           \A x \in Hashes : RowsHold(RowsTo(rows[x], history.flush_count - 1), Numbers(chain, x, saved))

(* The addresses before a cursor are compact, those from it on as the server left them.  A
   cursor on disk is that of a pass whose rows are on disk; and once the history DB's count is
   below the UTXO DB's, all rows are compact. *)
RewrittenTo(state) ==
    \A x \in Hashes : x < state.comp_cursor => Bounded(rows[x], state.comp_flush_count) /\ Compact(rows[x])
Compacting ==
    /\ proc = "compacting" /\ at = "idle" =>
         /\ history.flush_count <= utxoFlush
         /\ RewrittenTo(history)
         /\ \A x \in Hashes : x >= history.comp_cursor => Bounded(rows[x], history.flush_count)
    /\ at = "compacted" =>
         /\ history.comp_cursor = -1 /\ histState = history
         /\ \A x \in Hashes : Bounded(rows[x], history.flush_count) /\ Compact(rows[x])
    /\ histState.comp_cursor # -1 => at = "idle" /\ histState.flush_count <= utxoFlush /\ RewrittenTo(histState)
         /\ histState.comp_flush_count \in Nat /\ histState.comp_cursor \in Hashes
    /\ at = "idle" /\ histState.flush_count < utxoFlush =>
         \A x \in Hashes : Bounded(rows[x], histState.flush_count) /\ Compact(rows[x])

(* After one of the three kills nothing is promised. *)
Recoverable == Down /\ Up /\ Serving /\ Flushed /\ Compacting
CompactionInv == CompactionTypes /\ (trouble \/ Recoverable)

(* Of two ascending sequences with the same numbers that agree below a place, the second has a
   number at that place too, and no greater one. *)
LEMMA NoGreater ==
    ASSUME NEW s \in Seq(Nat), NEW t \in Seq(Nat), Rising(s), Rising(t), Range(s) = Range(t),
           NEW i \in 1 .. Len(s), \A j \in 1 .. Len(s) : j < i => j \in 1 .. Len(t) /\ s[j] = t[j]
    PROVE  i \in 1 .. Len(t) /\ t[i] <= s[i]
<1>1. /\ Len(s) \in Nat /\ DOMAIN s = 1 .. Len(s) /\ Len(t) \in Nat /\ DOMAIN t = 1 .. Len(t)
      /\ \A j \in 1 .. Len(s) : s[j] \in Nat
      /\ \A j \in 1 .. Len(t) : t[j] \in Nat
  BY LenProperties
<1>2. PICK j \in 1 .. Len(t) : s[i] = t[j]
  BY <1>1 DEF Range
<1>3. ~(j < i)
  <2>1. SUFFICES ASSUME j < i PROVE FALSE
    OBVIOUS
  <2>2. j \in 1 .. Len(s)
    BY <1>1, <2>1
  <2>3. s[j] = s[i] /\ s[j] < s[i]
    BY <1>1, <1>2, <2>1, <2>2 DEF Rising
  <2> QED
    BY <1>1, <2>2, <2>3
<1>4. i \in 1 .. Len(t)
  BY <1>1, <1>3
<1>5. i = j \/ t[i] < t[j]
  <2>1. i = j \/ i < j
    BY <1>1, <1>3
  <2>2. i < j => t[i] < t[j]
    BY <1>1, <1>4 DEF Rising
  <2> QED
    BY <2>1, <2>2
<1> QED
  BY <1>1, <1>2, <1>4, <1>5

(* An ascending sequence is determined by its numbers. *)
LEMMA RisingEqual ==
    ASSUME NEW s \in Seq(Nat), NEW t \in Seq(Nat), Rising(s), Rising(t), Range(s) = Range(t)
    PROVE  s = t
<1>1. /\ Len(s) \in Nat /\ DOMAIN s = 1 .. Len(s) /\ Len(t) \in Nat /\ DOMAIN t = 1 .. Len(t)
      /\ \A j \in 1 .. Len(s) : s[j] \in Nat
      /\ \A j \in 1 .. Len(t) : t[j] \in Nat
  BY LenProperties
<1> DEFINE Same(i) == i \in 1 .. Len(s) /\ i \in 1 .. Len(t) /\ s[i] = t[i]
           D == {i \in 1 .. Len(s) \cup 1 .. Len(t) : ~Same(i)}
<1>2. CASE D = {}
  <2>1. /\ \A i \in 1 .. Len(s) : i \in 1 .. Len(t)
        /\ \A i \in 1 .. Len(t) : i \in 1 .. Len(s)
    BY <1>2
  <2>2. Len(s) = Len(t)
    <3>1. Len(s) # 0 => Len(s) \in 1 .. Len(s)
      BY <1>1
    <3>2. Len(t) # 0 => Len(t) \in 1 .. Len(t)
      BY <1>1
    <3>3. (Len(s) # 0 => Len(s) <= Len(t)) /\ (Len(t) # 0 => Len(t) <= Len(s))
      BY <1>1, <2>1, <3>1, <3>2
    <3>4. Len(s) \in Nat /\ Len(t) \in Nat
      BY <1>1
    <3>5. CASE Len(s) = 0
      BY <3>3, <3>4, <3>5
    <3>6. CASE Len(s) # 0
      BY <3>3, <3>4, <3>6
    <3> QED
      BY <3>5, <3>6
  <2>3. \A i \in 1 .. Len(s) : s[i] = t[i]
    BY <1>2
  <2> QED
    BY <2>2, <2>3, SeqEqual
<1>3. CASE D # {}
  <2>1. D \in SUBSET Nat
    BY <1>1
  <2>2. PICK i \in D : \A j \in D : i <= j
    <3> HIDE DEF D
    <3> QED
      BY <1>3, <2>1, LeastElement
  <2>3. \A j \in 1 .. Len(s) \cup 1 .. Len(t) : j < i => Same(j)
    <3>1. i \in Nat /\ 1 .. Len(s) \cup 1 .. Len(t) \subseteq Nat
      BY <1>1, <2>2
    <3>2. ASSUME NEW j \in 1 .. Len(s) \cup 1 .. Len(t), j < i PROVE j \notin D
      <4>1. ~(i <= j)
        BY <3>1, <3>2
      <4> QED
        BY <2>2, <4>1
    <3> QED
      BY <3>2
  <2>4. i \in 1 .. Len(s) => i \in 1 .. Len(t) /\ t[i] <= s[i]
    BY <2>3, NoGreater
  <2>5. i \in 1 .. Len(t) => i \in 1 .. Len(s) /\ s[i] <= t[i]
    <3>1. Range(t) = Range(s)
      OBVIOUS
    <3> QED
      BY <2>3, <3>1, NoGreater
  <2>6. Same(i)
    BY <1>1, <2>2, <2>4, <2>5
  <2> QED
    BY <2>2, <2>6
<1> QED
  BY <1>2, <1>3

(* One sequence after another, both ascending and the second above the first. *)
LEMMA RisingOn ==
    ASSUME NEW s \in Seq(Nat), NEW t \in Seq(Nat), Rising(s), Rising(t),
           \A m \in Range(s), n \in Range(t) : m < n
    PROVE  s \o t \in Seq(Nat) /\ Rising(s \o t) /\ Range(s \o t) = Range(s) \cup Range(t)
<1>1. /\ Len(s) \in Nat /\ DOMAIN s = 1 .. Len(s) /\ Len(t) \in Nat /\ DOMAIN t = 1 .. Len(t)
      /\ \A j \in 1 .. Len(s) : s[j] \in Nat
      /\ \A j \in 1 .. Len(t) : t[j] \in Nat
  BY LenProperties
<1> DEFINE u == s \o t
<1>2. /\ u \in Seq(Nat) /\ Len(u) = Len(s) + Len(t)
      /\ \A i \in 1 .. Len(s) + Len(t) : u[i] = IF i <= Len(s) THEN s[i] ELSE t[i - Len(s)]
  BY ConcatProperties
<1>3. DOMAIN u = 1 .. Len(s) + Len(t)
  BY <1>2, LenProperties
<1> HIDE DEF u
<1>4. \A i \in 1 .. Len(s) : s[i] \in Range(s) /\ u[i] = s[i] /\ i \in DOMAIN u
  <2>1. \A i \in 1 .. Len(s) : s[i] \in Range(s)
    BY <1>1 DEF Range
  <2>2. \A i \in 1 .. Len(s) : i \in 1 .. Len(s) + Len(t) /\ i <= Len(s)
    BY <1>1
  <2> QED
    BY <1>2, <1>3, <2>1, <2>2
<1>5. \A i \in 1 .. Len(t) : t[i] \in Range(t) /\ u[i + Len(s)] = t[i] /\ i + Len(s) \in DOMAIN u
  <2>1. \A i \in 1 .. Len(t) : t[i] \in Range(t)
    BY <1>1 DEF Range
  <2>2. \A i \in 1 .. Len(t) :
          i + Len(s) \in 1 .. Len(s) + Len(t) /\ ~(i + Len(s) <= Len(s)) /\ i + Len(s) - Len(s) = i
    BY <1>1
  <2> QED
    BY <1>2, <1>3, <2>1, <2>2
<1>6. ASSUME NEW i \in DOMAIN u
      PROVE  i \in 1 .. Len(s) \/ i - Len(s) \in 1 .. Len(t)
  BY <1>1, <1>3
<1>7. Range(u) = Range(s) \cup Range(t)
  <2>1. \A i \in DOMAIN u : u[i] \in Range(s) \cup Range(t)
    BY <1>1, <1>2, <1>3, <1>4, <1>5, <1>6
  <2>2. \A m \in Range(s) \cup Range(t) : m \in Range(u)
    BY <1>1, <1>4, <1>5 DEF Range
  <2> QED
    BY <2>1, <2>2 DEF Range
<1>8. Rising(u)
  <2> SUFFICES ASSUME NEW i \in DOMAIN u, NEW j \in DOMAIN u, i < j PROVE u[i] < u[j]
    BY DEF Rising
  <2>1. CASE j \in 1 .. Len(s)
    <3>1. i \in 1 .. Len(s)
      BY <1>1, <1>3, <2>1
    <3> QED
      BY <1>1, <1>4, <2>1, <3>1 DEF Rising
  <2>2. CASE j \notin 1 .. Len(s) /\ i \in 1 .. Len(s)
    <3>1. j - Len(s) \in 1 .. Len(t) /\ u[j] = t[j - Len(s)]
      BY <1>1, <1>2, <1>3, <2>2
    <3> QED
      BY <1>4, <1>5, <2>2, <3>1
  <2>3. CASE j \notin 1 .. Len(s) /\ i \notin 1 .. Len(s)
    <3>1. j - Len(s) \in 1 .. Len(t) /\ i - Len(s) \in 1 .. Len(t) /\ i - Len(s) < j - Len(s)
      BY <1>1, <1>3, <2>3
    <3>2. u[j] = t[j - Len(s)]
      BY <1>1, <1>2, <1>3, <2>3
    <3>3. u[i] = t[i - Len(s)]
      BY <1>1, <1>2, <1>3, <2>3
    <3>4. t[i - Len(s)] < t[j - Len(s)]
      BY <1>1, <3>1 DEF Rising
    <3> QED
      BY <3>2, <3>3, <3>4
  <2> QED
    BY <2>1, <2>2, <2>3
<1> QED
  BY <1>2, <1>7, <1>8 DEF u

(* A part of an ascending sequence. *)
LEMMA RisingPart ==
    ASSUME NEW s \in Seq(Nat), Rising(s), NEW m \in Nat \ {0}, NEW n \in Nat, n <= Len(s)
    PROVE  LET u == SubSeq(s, m, n) IN
           /\ u \in Seq(Nat) /\ Rising(u) /\ Range(u) = {s[i] : i \in m .. n}
           /\ u # << >> <=> m <= n
<1>1. /\ Len(s) \in Nat /\ DOMAIN s = 1 .. Len(s)
      /\ \A j \in 1 .. Len(s) : s[j] \in Nat
  BY LenProperties
<1> DEFINE u == SubSeq(s, m, n)
<1>2. CASE m > n
  <2>1. u = << >>
    BY <1>2, SubSeqEmpty
  <2>2. Range(u) = {} /\ m .. n = {} /\ u \in Seq(Nat) /\ DOMAIN u = {}
    BY <1>2, <2>1 DEF Range
  <2> QED
    BY <1>2, <2>1, <2>2 DEF Rising
<1>3. CASE m <= n
  <2>1. /\ u \in Seq(Nat) /\ Len(u) = n - m + 1
        /\ \A i \in 1 .. n - m + 1 : u[i] = s[m + i - 1]
    BY <1>1, <1>3, SubSeqProperties
  <2>2. DOMAIN u = 1 .. n - m + 1
    BY <2>1, LenProperties
  <2> HIDE DEF u
  <2>3. Rising(u)
    <3> SUFFICES ASSUME NEW i \in DOMAIN u, NEW j \in DOMAIN u, i < j PROVE u[i] < u[j]
      BY DEF Rising
    <3>0. i \in 1 .. n - m + 1 /\ j \in 1 .. n - m + 1
      BY <2>2
    <3>1. m + i - 1 \in DOMAIN s /\ m + j - 1 \in DOMAIN s /\ m + i - 1 < m + j - 1
      <4>1. /\ m + i - 1 \in Int /\ 1 <= m + i - 1 /\ m + i - 1 <= Len(s)
            /\ m + j - 1 \in Int /\ 1 <= m + j - 1 /\ m + j - 1 <= Len(s)
        <5>1. i \in Int /\ 1 <= i /\ i <= n - m + 1 /\ j \in Int /\ 1 <= j /\ j <= n - m + 1
          BY <3>0
        <5>2. n \in Int /\ m \in Int /\ 1 <= m /\ n <= Len(s) /\ Len(s) \in Nat
          BY <1>1
        <5>3. m + i - 1 \in Int /\ m + j - 1 \in Int
          BY <5>1, <5>2
        <5>4. 1 <= m + i - 1 /\ m + i - 1 <= Len(s)
          BY <5>1, <5>2
        <5>5. 1 <= m + j - 1 /\ m + j - 1 <= Len(s)
          BY <5>1, <5>2
        <5> QED
          BY <5>3, <5>4, <5>5
      <4>2. m + i - 1 < m + j - 1
        BY <3>0
      <4> QED
        BY <1>1, <4>1, <4>2
    <3>2. s[m + i - 1] < s[m + j - 1]
      BY <3>1 DEF Rising
    <3>3. u[i] = s[m + i - 1] /\ u[j] = s[m + j - 1]
      BY <2>1, <3>0
    <3> QED
      BY <3>2, <3>3
  <2>4. Range(u) = {s[i] : i \in m .. n}
    <3>1. \A i \in DOMAIN u : u[i] \in {s[k] : k \in m .. n}
      <4>1. \A i \in 1 .. n - m + 1 : m + i - 1 \in m .. n
        OBVIOUS
      <4> QED
        BY <2>1, <2>2, <4>1
    <3>2. ASSUME NEW i \in m .. n PROVE s[i] \in Range(u)
      <4>1. i - m + 1 \in 1 .. n - m + 1 /\ m + (i - m + 1) - 1 = i
        OBVIOUS
      <4>2. u[i - m + 1] = s[m + (i - m + 1) - 1]
        BY <2>1, <4>1
      <4> QED
        BY <2>2, <4>1, <4>2 DEF Range
    <3> QED
      BY <3>1, <3>2 DEF Range
  <2>5. u # << >>
    BY <1>3, <2>2
  <2> QED
    BY <1>3, <2>1, <2>3, <2>4, <2>5 DEF u
<1> QED
  BY <1>2, <1>3
-----------------------------------------------------------------------------
(* HistoryCompaction: what its operators compute *)

(* get_txnums reads a row; the two loops as sequences of steps. *)
ReadRow(r, d, nums, key) == RowRead(r, nums, key)
RowLoop == INSTANCE StepFold WITH Step <- ReadRow
NoteLoop == INSTANCE StepFold WITH Step <- Noted

(* The rows of an address in the order of their keys give its numbers in ascending order. *)
LEMMA TxNumsAre ==
    ASSUME NEW r, NEW N, RowsHold(r, N), NEW b \in Nat, Bounded(r, b)
    PROVE  TxNums(r) \in Seq(Nat) /\ Rising(TxNums(r)) /\ Range(TxNums(r)) = N
<1> DEFINE Keys == {0} \cup {key + 1 : key \in DOMAIN r}
           n == Max(Keys)
           seq == [k \in 1 .. n |-> k - 1]
           Below(k) == {j \in DOMAIN r : j < k}
           Good(k, v) == v \in Seq(Nat) /\ Rising(v) /\ Range(v) = UNION {Range(r[j]) : j \in Below(k)}
<1>1. DOMAIN r \subseteq Nat /\ \A k \in DOMAIN r : k <= b
  BY DEF RowsHold, Bounded
<1>2. n \in Nat /\ \A k \in DOMAIN r : k < n
  <2>1. Keys \subseteq Nat /\ 0 \in Keys /\ \A k \in Keys : k <= b + 1
    BY <1>1
  <2>2. \A k \in DOMAIN r : k + 1 \in Keys
    OBVIOUS
  <2> HIDE DEF Keys
  <2>3. n \in Keys /\ \A k \in Keys : k <= n
    <3>1. Keys # {} /\ b + 1 \in Nat
      BY <2>1
    <3> QED
      BY <2>1, <3>1, MaxFacts
  <2> HIDE DEF n
  <2> QED
    BY <1>1, <2>1, <2>2, <2>3
<1>3. TxNums(r) = FoldLeft(LAMBDA nums, key : RowRead(r, nums, key), << >>, seq)
  BY DEF TxNums
<1> HIDE DEF n, Keys
<1>4. DOMAIN seq = 1 .. n /\ Len(seq) = n /\ \A k \in 1 .. n : seq[k] = k - 1
  BY <1>2
<1> HIDE DEF seq
<1>5. PICK a : /\ a[0] = << >>
               /\ \A k \in 1 .. n : a[k] = RowRead(r, a[k - 1], seq[k])
               /\ TxNums(r) = a[n]
  <2>1. PICK a : RowLoop!Loop(r, 0, << >>, seq, a)
    BY <1>2, <1>4, RowLoop!FoldsAre
  <2>2. RowLoop!Fold(r, 0, << >>, seq) = TxNums(r)
    BY <1>3 DEF RowLoop!Fold, RowLoop!FoldLeft, FoldLeft, RowLoop!MapThenFoldSet, MapThenFoldSet,
           RowLoop!Max, Max, ReadRow
  <2> QED
    BY <1>4, <2>1, <2>2 DEF RowLoop!Loop, ReadRow
<1> DEFINE S == {k \in 0 .. n : Good(k, a[k])}
<1>6. 0 \in S
  <2>1. Below(0) = {}
    BY <1>1
  <2>2. << >> \in Seq(Nat) /\ DOMAIN << >> = {}
    OBVIOUS
  <2>3. Rising(<< >>) /\ Range(<< >>) = {}
    BY <2>2 DEF Rising, Range
  <2>4. UNION {Range(r[j]) : j \in Below(0)} = {}
    <3> HIDE DEF Below
    <3> QED
      BY <2>1
  <2>5. a[0] = << >>
    BY <1>5
  <2>6. Good(0, a[0])
    BY <2>2, <2>3, <2>4, <2>5
  <2> HIDE DEF Good
  <2> QED
    BY <1>2, <2>6
<1>7. ASSUME NEW k \in 1 .. n, k - 1 \in S PROVE k \in S
  <2>1. k \in 0 .. n /\ Good(k - 1, a[k - 1]) /\ a[k] = RowRead(r, a[k - 1], k - 1)
    BY <1>2, <1>4, <1>5, <1>7
  <2>2. CASE k - 1 \in DOMAIN r
    <3>1. Below(k) = Below(k - 1) \cup {k - 1}
      BY <1>1, <2>2
    <3>2. r[k - 1] \in Seq(Nat) /\ Rising(r[k - 1])
      BY <2>2 DEF RowsHold
    <3>3. \A m \in Range(a[k - 1]), i \in Range(r[k - 1]) : m < i
      BY <2>1, <2>2 DEF RowsHold
    <3>4. a[k] = a[k - 1] \o r[k - 1]
      BY <2>1, <2>2 DEF RowRead
    <3>5. a[k] \in Seq(Nat) /\ Rising(a[k]) /\ Range(a[k]) = Range(a[k - 1]) \cup Range(r[k - 1])
      BY <2>1, <3>2, <3>3, <3>4, RisingOn
    <3>6. Range(a[k]) = UNION {Range(r[j]) : j \in Below(k)}
      <4> HIDE DEF Below
      <4> QED
        BY <2>1, <3>1, <3>5
    <3> QED
      BY <2>1, <3>5, <3>6
  <2>3. CASE k - 1 \notin DOMAIN r
    <3>1. Below(k) = Below(k - 1)
      BY <1>1, <2>3
    <3>2. a[k] = a[k - 1]
      BY <2>1, <2>3 DEF RowRead
    <3> QED
      BY <2>1, <3>1, <3>2
  <2> QED
    BY <2>2, <2>3
<1>8. n \in S
  <2> HIDE DEF S
  <2>1. \A k \in 0 .. n : k \in S
    BY <1>2, <1>6, <1>7, UpTo
  <2> QED
    BY <1>2, <2>1
<1>9. Below(n) = DOMAIN r
  BY <1>2
<1> QED
  BY <1>5, <1>8, <1>9 DEF RowsHold

(* The txs of an address in a part of the chain, as a set and as they are noted. *)
Between(txs, x, from, to) == {i \in from .. to : x \in txs[i]}
NotedFrom(txs, x, from, to) ==
    FoldLeft(LAMBDA nums, i : Noted(txs, x, nums, i), << >>, [k \in 1..(to - from + 1) |-> from + k - 1])

(* What is noted of an address's txs is their numbers in ascending order. *)
LEMMA NotedAre ==
    ASSUME NEW txs, NEW x, NEW from \in Nat \ {0}, NEW to \in Nat, from <= to + 1
    PROVE  LET all == NotedFrom(txs, x, from, to) IN
           all \in Seq(Nat) /\ Rising(all) /\ Range(all) = Between(txs, x, from, to)
<1> DEFINE all == NotedFrom(txs, x, from, to)
           n == to - from + 1
           seq == [k \in 1 .. n |-> from + k - 1]
           Some(k) == {i \in from .. from + k - 1 : x \in txs[i]}
           Good(k, v) == v \in Seq(Nat) /\ Rising(v) /\ Range(v) = Some(k)
<1>1. n \in Nat /\ from + n - 1 = to
  OBVIOUS
<1>2. all = FoldLeft(LAMBDA nums, i : Noted(txs, x, nums, i), << >>, seq)
  BY DEF NotedFrom
<1> HIDE DEF n, all
<1>3. DOMAIN seq = 1 .. n /\ Len(seq) = n /\ \A k \in 1 .. n : seq[k] = from + k - 1
  BY <1>1
<1> HIDE DEF seq
<1>4. PICK a : /\ a[0] = << >>
               /\ \A k \in 1 .. n : a[k] = Noted(txs, x, a[k - 1], seq[k])
               /\ all = a[n]
  <2>1. PICK a : NoteLoop!Loop(txs, x, << >>, seq, a)
    BY <1>1, <1>3, NoteLoop!FoldsAre
  <2>2. NoteLoop!Fold(txs, x, << >>, seq) = all
    BY <1>2 DEF NoteLoop!Fold, NoteLoop!FoldLeft, FoldLeft, NoteLoop!MapThenFoldSet, MapThenFoldSet,
           NoteLoop!Max, Max
  <2> QED
    BY <1>3, <2>1, <2>2 DEF NoteLoop!Loop
<1> DEFINE S == {k \in 0 .. n : Good(k, a[k])}
<1>5. 0 \in S
  <2>1. Some(0) = {}
    OBVIOUS
  <2>2. << >> \in Seq(Nat) /\ DOMAIN << >> = {}
    OBVIOUS
  <2>3. Rising(<< >>) /\ Range(<< >>) = {}
    BY <2>2 DEF Rising, Range
  <2>4. a[0] = << >>
    BY <1>4
  <2>5. Good(0, a[0])
    BY <2>1, <2>2, <2>3, <2>4
  <2> HIDE DEF Good
  <2> QED
    BY <1>1, <2>5
<1>6. ASSUME NEW k \in 1 .. n, k - 1 \in S PROVE k \in S
  <2> DEFINE i == from + k - 1
  <2>1. k \in 0 .. n /\ Good(k - 1, a[k - 1]) /\ a[k] = Noted(txs, x, a[k - 1], i) /\ i \in Nat
    BY <1>1, <1>3, <1>4, <1>6
  <2>0. from .. from + k - 1 = from .. from + (k - 1) - 1 \cup {i}
    OBVIOUS
  <2>2. CASE x \in txs[i]
    <3>1. Some(k) = Some(k - 1) \cup {i}
      BY <2>0, <2>2
    <3>2. /\ << i >> \in Seq(Nat) /\ Rising(<< i >>) /\ Range(<< i >>) = {i}
      BY <2>1 DEF Rising, Range
    <3>3. \A m \in Range(a[k - 1]), j \in Range(<< i >>) : m < j
      BY <2>1, <3>2
    <3>4. a[k] = a[k - 1] \o << i >>
      BY <2>1, <2>2, AppendIsConcat DEF Noted
    <3>5. a[k] \in Seq(Nat) /\ Rising(a[k]) /\ Range(a[k]) = Range(a[k - 1]) \cup Range(<< i >>)
      BY <2>1, <3>2, <3>3, <3>4, RisingOn
    <3> QED
      BY <2>1, <3>1, <3>2, <3>5
  <2>3. CASE x \notin txs[i]
    <3>1. Some(k) = Some(k - 1)
      BY <2>0, <2>3
    <3>2. a[k] = a[k - 1]
      BY <2>1, <2>3 DEF Noted
    <3> QED
      BY <2>1, <3>1, <3>2
  <2> QED
    BY <2>2, <2>3
<1>7. n \in S
  <2> HIDE DEF S
  <2>1. \A k \in 0 .. n : k \in S
    BY <1>1, <1>5, <1>6, UpTo
  <2> QED
    BY <1>1, <2>1
<1> QED
  BY <1>1, <1>4, <1>7 DEF all, Between

(* Division by the size of a row. *)
LEMMA Divided ==
    ASSUME NEW n \in Nat, NEW m \in Nat \ {0}
    PROVE  (n \div m) \in Nat /\ (n \div m) * m <= n /\ n < ((n \div m) + 1) * m
  OBVIOUS

(* It keeps the order. *)
LEMMA DividedInOrder ==
    ASSUME NEW n \in Nat, NEW p \in Nat, NEW m \in Nat \ {0}, n <= p
    PROVE  (n \div m) <= (p \div m)
  OBVIOUS

(* A row that there is has its first number in the history. *)
LEMMA NoLargerThan ==
    ASSUME NEW L \in Nat, NEW k \in Nat, NEW m \in Nat \ {0}, k <= (L - 1) \div m
    PROVE  k * m + 1 <= L
  OBVIOUS

(* Where the rows end, in their order. *)
LEMMA ProductsInOrder ==
    ASSUME NEW j \in Nat, NEW k \in Nat, NEW m \in Nat \ {0}
    PROVE  k <= k * m /\ (j < k => (j + 1) * m <= k * m)
<1>1. k <= k * m
  OBVIOUS
<1>2. j < k => (j + 1) * m <= k * m
  OBVIOUS
<1> QED
  BY <1>1, <1>2

(* The rows that compaction makes of a history hold it. *)
LEMMA ChunksAre ==
    ASSUME NEW full \in Seq(Nat), Rising(full)
    PROVE  /\ RowsHold(Chunks(full), Range(full))
           /\ \E b \in Nat : Bounded(Chunks(full), b)
<1> DEFINE L == Len(full)
           R == RowEntries
           r == Chunks(full)
           to(k) == Min({(k + 1) * R, L})
<1>1. /\ L \in Nat /\ DOMAIN full = 1 .. L /\ \A i \in 1 .. L : full[i] \in Nat
      /\ R \in Nat \ {0}
  BY LenProperties, CompactionAssumption
<1>2. /\ DOMAIN r = 0 .. ((L - 1) \div R)
      /\ \A k \in DOMAIN r : r[k] = SubSeq(full, k * R + 1, to(k))
  BY DEF Chunks
<1> HIDE DEF r, L, R
<1>3. ASSUME NEW k \in DOMAIN r
      PROVE  k \in Nat /\ k * R \in Nat /\ k * R + 1 <= L /\ (k + 1) * R \in Nat /\ k * R + 1 <= (k + 1) * R
  <2>1. (L - 1) \div R \in Int
    BY <1>1
  <2>2. k \in Nat /\ k <= (L - 1) \div R
    BY <1>2, <2>1
  <2>3. k * R + 1 <= L
    BY <1>1, <2>2, NoLargerThan
  <2>4. k * R \in Nat /\ (k + 1) * R \in Nat /\ k * R + 1 <= (k + 1) * R
    BY <1>1, <2>2
  <2> QED
    BY <2>2, <2>3, <2>4
<1>4. ASSUME NEW k \in DOMAIN r
      PROVE  to(k) \in Nat /\ k * R + 1 <= to(k) /\ to(k) <= L /\ to(k) <= (k + 1) * R
             /\ (to(k) = L \/ to(k) = (k + 1) * R)
  <2> DEFINE x == (k + 1) * R
  <2>1. x \in Nat /\ L \in Nat /\ k * R + 1 <= L /\ k * R + 1 <= x /\ k * R \in Nat
    BY <1>1, <1>3
  <2>2. to(k) = Min({x, L})
    OBVIOUS
  <2> HIDE DEF x, to
  <2>3. (x <= L => Min({x, L}) = x) /\ (L <= x => Min({x, L}) = L)
    BY <2>1 DEF Min
  <2>4. CASE x <= L
    BY <2>1, <2>2, <2>3, <2>4 DEF x
  <2>5. CASE L <= x
    BY <2>1, <2>2, <2>3, <2>5 DEF x
  <2> QED
    BY <2>1, <2>4, <2>5
<1> HIDE DEF to
<1>5. ASSUME NEW k \in DOMAIN r
      PROVE  /\ r[k] \in Seq(Nat) /\ r[k] # << >> /\ Rising(r[k])
             /\ Range(r[k]) = {full[i] : i \in k * R + 1 .. to(k)}
  <2>1. k * R + 1 \in Nat \ {0} /\ to(k) \in Nat /\ k * R + 1 <= to(k) /\ to(k) <= Len(full)
    BY <1>3, <1>4 DEF L
  <2>2. r[k] = SubSeq(full, k * R + 1, to(k))
    BY <1>2
  <2> QED
    BY <2>1, <2>2, RisingPart
<1>6. ASSUME NEW j \in DOMAIN r, NEW k \in DOMAIN r, j < k,
             NEW m \in Range(r[j]), NEW n \in Range(r[k])
      PROVE  m < n
  <2>1. PICK i \in j * R + 1 .. to(j) : m = full[i]
    BY <1>5
  <2>2. PICK h \in k * R + 1 .. to(k) : n = full[h]
    BY <1>5
  <2>3. (j + 1) * R <= k * R
    BY <1>1, <1>3, <1>6, ProductsInOrder
  <2>4. i \in DOMAIN full /\ h \in DOMAIN full /\ i < h
    <3>1. /\ j * R \in Nat /\ k * R \in Nat /\ (j + 1) * R \in Nat
          /\ to(j) \in Nat /\ to(j) <= (j + 1) * R /\ to(j) <= L /\ to(k) \in Nat /\ to(k) <= L
      BY <1>3, <1>4
    <3>2. i \in Nat /\ j * R + 1 <= i /\ i <= to(j) /\ h \in Nat /\ k * R + 1 <= h /\ h <= to(k)
      BY <2>1, <2>2, <3>1
    <3>3. i < h
      BY <2>3, <3>1, <3>2
    <3>4. 1 <= i /\ i <= L /\ 1 <= h /\ h <= L
      BY <1>1, <3>1, <3>2
    <3> QED
      BY <1>1, <3>2, <3>3, <3>4
  <2> QED
    BY <2>1, <2>2, <2>4 DEF Rising
<1>7. ASSUME NEW i \in DOMAIN full
      PROVE  \E k \in DOMAIN r : full[i] \in Range(r[k])
  <2> DEFINE k == (i - 1) \div R
  <2>1. i \in 1 .. L /\ i - 1 \in Nat
    BY <1>1
  <2>2. k \in Nat /\ k * R <= i - 1 /\ i - 1 < (k + 1) * R
    BY <1>1, <2>1, Divided
  <2>3. k <= (L - 1) \div R
    <3>1. L - 1 \in Nat /\ i - 1 <= L - 1
      BY <1>1, <2>1
    <3> QED
      BY <1>1, <2>1, <3>1, DividedInOrder
  <2> HIDE DEF k
  <2>4. k \in DOMAIN r
    <3>1. (L - 1) \div R \in Int
      BY <1>1
    <3> QED
      BY <1>2, <2>2, <2>3, <3>1
  <2>5. i \in k * R + 1 .. to(k)
    <3>1. k * R \in Nat /\ (k + 1) * R \in Nat /\ to(k) \in Nat /\ (to(k) = L \/ to(k) = (k + 1) * R)
      BY <1>3, <1>4, <2>4
    <3>2. k * R + 1 <= i /\ i <= L /\ i <= (k + 1) * R /\ i \in Nat
      BY <2>1, <2>2, <3>1, <1>1
    <3> QED
      BY <3>1, <3>2
  <2> QED
    BY <1>5, <2>4, <2>5
<1>8. Range(full) = UNION {Range(r[k]) : k \in DOMAIN r}
  <2>1. \A n \in Range(full) : \E k \in DOMAIN r : n \in Range(r[k])
    BY <1>7 DEF Range
  <2>2. ASSUME NEW k \in DOMAIN r, NEW n \in Range(r[k]) PROVE n \in Range(full)
    <3>1. PICK i \in k * R + 1 .. to(k) : n = full[i]
      BY <1>5, <2>2
    <3>2. k * R + 1 \in Nat /\ to(k) \in Nat /\ to(k) <= L /\ k * R \in Nat
      BY <1>3, <1>4
    <3>3. i \in DOMAIN full
      BY <1>1, <3>1, <3>2
    <3> QED
      BY <3>1, <3>3 DEF Range
  <2> QED
    BY <2>1, <2>2
<1>9. \A k \in DOMAIN r : k \in Nat /\ k <= L
  <2> SUFFICES ASSUME NEW k \in DOMAIN r PROVE k \in Nat /\ k <= L
    OBVIOUS
  <2>1. k \in Nat /\ k * R + 1 <= L
    BY <1>3
  <2>2. k <= k * R
    BY <1>1, <2>1, ProductsInOrder
  <2> QED
    BY <1>1, <2>1, <2>2
<1>10. RowsHold(r, Range(full))
  BY <1>5, <1>6, <1>8, <1>9 DEF RowsHold
<1> QED
  BY <1>1, <1>9, <1>10 DEF Bounded, r, L

(* Rows are what their keys and entries are. *)
LEMMA RowsSame ==
    ASSUME NEW r, NEW s, NEW N, RowsHold(r, N), DOMAIN s = DOMAIN r, \A k \in DOMAIN r : s[k] = r[k]
    PROVE  RowsHold(s, N)
  BY DEF RowsHold

(* Compaction of rows: the same numbers in rows of the fixed size. *)
LEMMA CompactedIs ==
    ASSUME NEW r, NEW N, RowsHold(r, N), NEW b \in Nat, Bounded(r, b)
    PROVE  /\ RowsHold(Compacted(r), N) /\ Compact(Compacted(r))
           /\ DOMAIN Compacted(r) = DOMAIN Chunks(TxNums(r))
           /\ \E d \in Nat : Bounded(Chunks(TxNums(r)), d)
<1> DEFINE full == TxNums(r)
           chunks == Chunks(full)
           same == {k \in DOMAIN r \cap DOMAIN chunks : r[k] = chunks[k]}
           c == Compacted(r)
<1>1. full \in Seq(Nat) /\ Rising(full) /\ Range(full) = N
  BY TxNumsAre
<1> HIDE DEF full
<1>2. RowsHold(chunks, N) /\ \E d \in Nat : Bounded(chunks, d)
  BY <1>1, ChunksAre
<1>3. c = Batched(r, DOMAIN r \ same, Restrict(chunks, DOMAIN chunks \ same))
  BY DEF Compacted, full
<1>4. DOMAIN c = DOMAIN chunks /\ \A k \in DOMAIN chunks : c[k] = chunks[k]
  <2> HIDE DEF chunks
  <2>1. DOMAIN Restrict(chunks, DOMAIN chunks \ same) = DOMAIN chunks \ same
    BY DEF Restrict
  <2>2. \A k \in DOMAIN chunks \ same : Restrict(chunks, DOMAIN chunks \ same)[k] = chunks[k]
    BY DEF Restrict
  <2> QED
    BY <1>3, <2>1, <2>2 DEF Batched
<1> HIDE DEF chunks, c
<1>5. RowsHold(c, N)
  BY <1>2, <1>4, RowsSame
<1>6. TxNums(c) = full
  <2>1. PICK d \in Nat : Bounded(chunks, d)
    BY <1>2
  <2>2. Bounded(c, d)
    BY <1>4, <2>1 DEF Bounded
  <2>3. TxNums(c) \in Seq(Nat) /\ Rising(TxNums(c)) /\ Range(TxNums(c)) = N
    BY <1>5, <2>2, TxNumsAre
  <2> QED
    BY <1>1, <2>3, RisingEqual
<1>7. Compact(c)
  BY <1>4, <1>6 DEF Compact, chunks
<1> QED
  BY <1>2, <1>4, <1>5, <1>7 DEF chunks, c, full

(* Where an ascending row is cut. *)
LEMMA BisectIs ==
    ASSUME NEW s \in Seq(Nat), Rising(s), NEW c \in Nat
    PROVE  /\ bisect(s, c) \in Nat /\ bisect(s, c) <= Len(s)
           /\ \A i \in 1 .. Len(s) : i <= bisect(s, c) <=> s[i] <= c
<1>1. Len(s) \in Nat /\ DOMAIN s = 1 .. Len(s) /\ \A i \in 1 .. Len(s) : s[i] \in Nat
  BY LenProperties
<1> DEFINE D == {i \in 0 .. Len(s) : i = 0 \/ s[i] <= c}
           b == bisect(s, c)
<1>2. b = Max(D)
  BY DEF bisect
<1>3. D \subseteq Nat /\ 0 \in D /\ \A i \in D : i <= Len(s)
  BY <1>1
<1>4. b \in D /\ \A i \in D : i <= b
  <2> HIDE DEF D, b
  <2>1. D # {}
    BY <1>3
  <2> QED
    BY <1>1, <1>2, <1>3, <2>1, MaxFacts
<1> HIDE DEF b
<1>5. b \in 0 .. Len(s) /\ (b = 0 \/ s[b] <= c)
  BY <1>4
<1>6. ASSUME NEW i \in 1 .. Len(s) PROVE i <= b <=> s[i] <= c
  <2>1. s[i] <= c => i <= b
    <3>1. s[i] <= c => i \in D
      BY <1>1
    <3> QED
      BY <1>4, <3>1
  <2>2. ASSUME i <= b PROVE s[i] <= c
    <3>1. b \in 1 .. Len(s) /\ s[b] <= c /\ i \in Nat
      BY <1>1, <1>5, <2>2
    <3>2. i = b \/ i < b
      BY <2>2, <3>1
    <3>3. i < b => s[i] < s[b]
      BY <1>1, <3>1 DEF Rising
    <3> QED
      BY <1>1, <3>1, <3>2, <3>3
  <2> QED
    BY <2>1, <2>2
<1> QED
  BY <1>1, <1>5, <1>6 DEF b

(* A backup leaves the numbers up to a count. *)
LEMMA BackedUpAre ==
    ASSUME NEW r, NEW N, RowsHold(r, N), NEW b \in Nat, Bounded(r, b), NEW c \in Nat
    PROVE  /\ RowsHold(BackedUp(r, c), {n \in N : n <= c})
           /\ DOMAIN BackedUp(r, c) \subseteq DOMAIN r
<1> DEFINE low(k) == SubSeq(r[k], 1, bisect(r[k], c))
           kept == {k \in DOMAIN r : low(k) # << >>}
           q == BackedUp(r, c)
           Lower(k) == {n \in Range(r[k]) : n <= c}
<1>1. DOMAIN q = kept /\ \A k \in kept : q[k] = IF k = Max(kept) THEN low(k) ELSE r[k]
  BY DEF BackedUp
<1> HIDE DEF q
<1>2. ASSUME NEW k \in DOMAIN r
      PROVE  /\ low(k) \in Seq(Nat) /\ Rising(low(k)) /\ Range(low(k)) = Lower(k)
             /\ k \in kept <=> Lower(k) # {}
             /\ Range(r[k]) \subseteq Nat
  <2> DEFINE s == r[k]
             m == bisect(s, c)
  <2>1. s \in Seq(Nat) /\ Rising(s)
    BY DEF RowsHold
  <2> HIDE DEF s
  <2>2. Len(s) \in Nat /\ DOMAIN s = 1 .. Len(s) /\ \A i \in 1 .. Len(s) : s[i] \in Nat
    BY <2>1, LenProperties
  <2>3. m \in Nat /\ m <= Len(s) /\ \A i \in 1 .. Len(s) : i <= m <=> s[i] <= c
    BY <2>1, BisectIs
  <2> HIDE DEF m
  <2>4. LET u == SubSeq(s, 1, m) IN
        /\ u \in Seq(Nat) /\ Rising(u) /\ Range(u) = {s[i] : i \in 1 .. m}
        /\ u # << >> <=> 1 <= m
    <3>1. 1 \in Nat \ {0}
      OBVIOUS
    <3> QED
      BY <2>1, <2>3, <3>1, RisingPart
  <2>5. {s[i] : i \in 1 .. m} = {n \in Range(s) : n <= c}
    <3>1. \A i \in 1 .. m : i \in 1 .. Len(s) /\ i <= m
      BY <2>2, <2>3
    <3>2. \A i \in 1 .. Len(s) : s[i] <= c => i \in 1 .. m
      BY <2>2, <2>3
    <3> QED
      BY <2>2, <2>3, <3>1, <3>2 DEF Range
  <2>6. 1 <= m <=> {n \in Range(s) : n <= c} # {}
    <3>1. 1 <= m => s[1] \in {s[i] : i \in 1 .. m}
      BY <2>3
    <3>2. ~(1 <= m) => 1 .. m = {}
      BY <2>3
    <3> QED
      BY <2>5, <3>1, <3>2
  <2>7. Range(s) \subseteq Nat
    BY <2>2 DEF Range
  <2> QED
    BY <2>4, <2>5, <2>6, <2>7 DEF s, m
<1>3. ASSUME NEW k \in kept
      PROVE  q[k] \in Seq(Nat) /\ q[k] # << >> /\ Rising(q[k]) /\ Range(q[k]) = Lower(k)
  <2>1. CASE k = Max(kept)
    BY <1>1, <1>2, <1>3, <2>1
  <2>2. CASE k # Max(kept)
    <3>1. kept \subseteq Nat /\ kept # {} /\ \A j \in kept : j <= b
      <4>1. DOMAIN r \subseteq Nat /\ \A j \in DOMAIN r : j <= b
        BY DEF RowsHold, Bounded
      <4> QED
        BY <4>1
    <3> DEFINE j == Max(kept)
    <3>2. j \in kept /\ k < j
      <4> HIDE DEF kept
      <4>1. j \in kept /\ \A i \in kept : i <= j
        BY <3>1, MaxFacts
      <4> HIDE DEF j
      <4>2. k <= j /\ k \in Nat /\ j \in Nat /\ k # j
        BY <2>2, <3>1, <4>1 DEF j
      <4> QED
        BY <4>1, <4>2
    <3> HIDE DEF j
    <3>3. k \in DOMAIN r /\ j \in DOMAIN r
      BY <3>2
    <3>4. PICK n \in Range(r[j]) : n <= c
      BY <1>2, <3>2, <3>3
    <3>5. ASSUME NEW i \in Range(r[k]) PROVE i <= c
      <4>1. i < n
        BY <3>2, <3>3 DEF RowsHold
      <4>2. i \in Nat /\ n \in Nat
        BY <1>2, <3>3
      <4> QED
        BY <3>4, <4>1, <4>2
    <3>6. q[k] = r[k]
      BY <1>1, <2>2
    <3> QED
      BY <3>3, <3>5, <3>6 DEF RowsHold
  <2> QED
    BY <2>1, <2>2
<1>4. \A j, k \in kept : j < k => \A m \in Range(q[j]), n \in Range(q[k]) : m < n
  <2>1. \A k \in kept : k \in DOMAIN r /\ Range(q[k]) \subseteq Range(r[k])
    BY <1>3
  <2> HIDE DEF kept
  <2> QED
    BY <2>1 DEF RowsHold
<1>5. {n \in N : n <= c} = UNION {Range(q[k]) : k \in kept}
  <2>1. ASSUME NEW n \in N, n <= c PROVE \E k \in kept : n \in Range(q[k])
    <3>1. PICK k \in DOMAIN r : n \in Range(r[k])
      BY DEF RowsHold
    <3>2. n \in Lower(k)
      BY <2>1, <3>1
    <3>3. k \in kept
      BY <1>2, <3>2
    <3> QED
      BY <1>3, <3>2, <3>3
  <2>2. ASSUME NEW k \in kept, NEW n \in Range(q[k]) PROVE n \in N /\ n <= c
    <3>1. n \in Lower(k) /\ k \in DOMAIN r
      BY <1>3
    <3> QED
      BY <3>1 DEF RowsHold
  <2> QED
    BY <2>1, <2>2
<1>6. kept \subseteq DOMAIN r /\ DOMAIN r \in SUBSET Nat
  BY DEF RowsHold
<1>7. RowsHold(q, {n \in N : n <= c})
  <2> HIDE DEF kept
  <2> QED
    BY <1>1, <1>3, <1>4, <1>5, <1>6 DEF RowsHold
<1> QED
  BY <1>1, <1>6, <1>7 DEF q

(* A row above the others, with higher numbers. *)
LEMMA NewRowIs ==
    ASSUME NEW r, NEW N, RowsHold(r, N), NEW K \in Nat, \A k \in DOMAIN r : k < K,
           NEW new \in Seq(Nat), new # << >>, Rising(new), \A m \in N, n \in Range(new) : m < n,
           NEW q, DOMAIN q = DOMAIN r \cup {K}, q[K] = new, \A k \in DOMAIN r : q[k] = r[k]
    PROVE  RowsHold(q, N \cup Range(new))
<1>1. DOMAIN r \in SUBSET Nat /\ K \notin DOMAIN r
  BY DEF RowsHold
<1>2. DOMAIN q = DOMAIN r \cup {K} /\ q[K] = new /\ \A k \in DOMAIN r : q[k] = r[k]
  OBVIOUS
<1>3. \A k \in DOMAIN q : q[k] \in Seq(Nat) /\ q[k] # << >> /\ Rising(q[k])
  BY <1>2 DEF RowsHold
<1>4. ASSUME NEW j \in DOMAIN q, NEW k \in DOMAIN q, j < k, NEW m \in Range(q[j]), NEW n \in Range(q[k])
      PROVE  m < n
  <2>1. j \in DOMAIN r
    BY <1>1, <1>2, <1>4
  <2>2. m \in Range(r[j]) /\ m \in N
    BY <1>2, <2>1 DEF RowsHold
  <2>3. CASE k = K
    BY <1>2, <2>2, <2>3
  <2>4. CASE k \in DOMAIN r
    BY <1>2, <1>4, <2>1, <2>2, <2>4 DEF RowsHold
  <2> QED
    BY <1>2, <2>3, <2>4
<1>5. N \cup Range(new) = UNION {Range(q[k]) : k \in DOMAIN q}
  <2>1. N = UNION {Range(r[k]) : k \in DOMAIN r}
    BY DEF RowsHold
  <2> QED
    BY <1>2, <2>1
<1> QED
  BY <1>1, <1>2, <1>3, <1>4, <1>5 DEF RowsHold
-----------------------------------------------------------------------------
(* HistoryCompaction: every step keeps the invariant *)

(* The invariant where nothing was lost. *)
Flushable == CompactionTypes /\ Recoverable

(* Two chains that are the same up to a number. *)
LEMMA NumbersKept ==
    ASSUME NEW txs, NEW more, NEW n \in Nat, \A i \in 1 .. n : more[i] = txs[i], NEW x
    PROVE  Numbers(more, x, n) = Numbers(txs, x, n)
  BY DEF Numbers

(* The range of the prefixes. *)
LEMMA HashesAre == \E k \in Nat \ {0} : Hashes = 1 .. k /\ EndCursor = k + 1
<1> DEFINE k == Cardinality(Hashes)
<1>1. k \in Nat \ {0} /\ Hashes = 1 .. k
  BY CompactionAssumption
<1> HIDE DEF k
<1>2. Max(Hashes) = k
  <2>1. Hashes \subseteq Nat /\ k \in Hashes /\ \A n \in Hashes : n <= k
    BY <1>1
  <2> QED
    BY <2>1, MaxIs
<1> QED
  BY <1>1, <1>2 DEF EndCursor

(* A tx advanced. *)
LEMMA AdvanceKeeps ==
    ASSUME Flushable, NEW hashXs \in Touches, AdvanceTx(hashXs)
    PROVE  CompactionTypes' /\ Recoverable'
<1>1. /\ proc = "serving" /\ at = "idle" /\ chain' = Append(chain, hashXs) /\ chain \in Seq(SUBSET Hashes)
      /\ hashXs \in SUBSET Hashes
      /\ UNCHANGED <<rows, histState, saved, utxoFlush, proc, at, history, flushed>>
  BY CompactionAssumption DEF AdvanceTx, Flushable, CompactionTypes, diskVars
<1>2. /\ chain' \in Seq(SUBSET Hashes) /\ Len(chain') = Len(chain) + 1 /\ Len(chain) \in Nat
      /\ \A i \in 1 .. Len(chain) : chain'[i] = chain[i]
  BY <1>1, AppendProperties, LenProperties
<1>3. CompactionTypes'
  BY <1>1, <1>2 DEF CompactionTypes, Flushable
<1>4. flushed \in Nat /\ flushed <= Len(chain)
  BY <1>1 DEF Flushable, CompactionTypes, Recoverable, Up
<1>5. \A x \in Hashes : Numbers(chain', x, flushed) = Numbers(chain, x, flushed)
  <2>1. \A i \in 1 .. flushed : chain'[i] = chain[i]
    BY <1>2, <1>4
  <2> QED
    BY <1>4, <2>1, NumbersKept
<1>6. Up'
  BY <1>1, <1>2, <1>4, <1>5 DEF Up, Flushable, Recoverable
<1>7. Down' /\ Flushed'
  BY <1>1 DEF Down, Flushed
<1>8. Serving' /\ Compacting'
  BY <1>1 DEF Serving, Compacting, RewrittenTo, Flushable, Recoverable
<1> QED
  BY <1>3, <1>6, <1>7, <1>8 DEF Recoverable

(* What every idle server has. *)
LEMMA IdleServer ==
    ASSUME Flushable, proc = "serving", at = "idle"
    PROVE  /\ history \in States /\ history.comp_cursor = -1 /\ history.flush_count = histState.flush_count
           /\ history.flush_count \in Nat /\ history.flush_count <= utxoFlush /\ utxoFlush \in Nat
           /\ chain \in Seq(SUBSET Hashes) /\ Len(chain) \in Nat /\ DOMAIN chain = 1 .. Len(chain)
           /\ saved = flushed /\ flushed <= Len(chain) /\ flushed \in Nat
           /\ \A x \in Hashes : RowsHold(rows[x], Numbers(chain, x, flushed))
                                /\ Bounded(rows[x], history.flush_count)
<1>1. /\ history \in States /\ chain \in Seq(SUBSET Hashes) /\ utxoFlush \in Nat /\ flushed \in Nat
      /\ history.comp_cursor = -1 /\ history.flush_count = histState.flush_count
  BY DEF Flushable, CompactionTypes
<1>2. history.flush_count \in Nat
  BY <1>1 DEF States
<1>3. Len(chain) \in Nat /\ DOMAIN chain = 1 .. Len(chain)
  BY <1>1, LenProperties
<1> QED
  BY <1>1, <1>2, <1>3 DEF Flushable, Recoverable, Up, Serving

(* A flush writes a row per address. *)
LEMMA FlushKeeps ==
    ASSUME Flushable, FlushHistory
    PROVE  CompactionTypes' /\ Recoverable'
<1> DEFINE F == history.flush_count
           new(x) == TxsOf(x, flushed + 1, Len(chain))
<1>1. /\ proc = "serving" /\ at = "idle" /\ flushed < Len(chain)
      /\ history' = [history EXCEPT !.flush_count = F + 1] /\ histState' = history'
      /\ flushed' = Len(chain) /\ at' = "flushed"
      /\ UNCHANGED <<chain, saved, utxoFlush, proc>>
  BY DEF FlushHistory
<1>2. /\ history \in States /\ history.comp_cursor = -1
      /\ F \in Nat /\ F <= utxoFlush /\ utxoFlush \in Nat
      /\ chain \in Seq(SUBSET Hashes) /\ Len(chain) \in Nat /\ DOMAIN chain = 1 .. Len(chain)
      /\ saved = flushed /\ flushed <= Len(chain) /\ flushed \in Nat
      /\ \A x \in Hashes : RowsHold(rows[x], Numbers(chain, x, flushed)) /\ Bounded(rows[x], F)
  BY <1>1, IdleServer
<1>3. history' \in States /\ history'.flush_count = F + 1 /\ history'.comp_cursor = -1
  BY <1>1, <1>2 DEF States
<1>4. \A x \in Hashes : rows'[x] = IF new(x) = << >> THEN rows[x]
                                    ELSE Batched(rows[x], {}, [k \in {F + 1} |-> new(x)])
  BY <1>3 DEF FlushHistory
<1> HIDE DEF F
<1>5. ASSUME NEW x \in Hashes
      PROVE  /\ RowsHold(rows'[x], Numbers(chain, x, Len(chain)))
             /\ Bounded(rows'[x], F + 1)
             /\ RowsHold(RowsTo(rows'[x], F), Numbers(chain, x, saved))
  <2> DEFINE all == new(x)
             r == rows[x]
             N == Numbers(chain, x, flushed)
  <2>0. F \in Nat
    BY <1>2
  <2>1. /\ all \in Seq(Nat) /\ Rising(all)
        /\ Range(all) = Between(chain, x, flushed + 1, Len(chain))
    <3>1. all = NotedFrom(chain, x, flushed + 1, Len(chain))
      BY DEF TxsOf, NotedFrom
    <3>2. flushed + 1 \in Nat \ {0} /\ flushed + 1 <= Len(chain) + 1
      BY <1>2
    <3>3. Len(chain) \in Nat
      BY <1>2
    <3> HIDE DEF all
    <3> QED
      BY <3>1, <3>2, <3>3, NotedAre
  <2>2. RowsHold(r, N) /\ \A k \in DOMAIN r : k \in Nat /\ k <= F
    BY <1>2 DEF Bounded, RowsHold
  <2>3. rows'[x] = IF all = << >> THEN r ELSE Batched(r, {}, [k \in {F + 1} |-> all])
    BY <1>4
  <2> DEFINE q == rows'[x]
  <2> HIDE DEF all, r, q
  <2>4. Numbers(chain, x, Len(chain)) = N \cup Range(all)
    <3>1. 1 .. Len(chain) = 1 .. flushed \cup flushed + 1 .. Len(chain)
      BY <1>2
    <3> QED
      BY <2>1, <3>1 DEF Numbers, Between
  <2>5. RowsHold(q, N \cup Range(all)) /\ DOMAIN q \subseteq DOMAIN r \cup {F + 1}
        /\ DOMAIN r \subseteq DOMAIN q /\ \A k \in DOMAIN r : q[k] = r[k]
    <3>1. CASE all = << >>
      <4>1. Range(all) = {} /\ q = r
        BY <2>3, <3>1 DEF Range, q
      <4>2. N \cup Range(all) = N
        BY <4>1
      <4> QED
        BY <2>2, <4>1, <4>2
    <3>2. CASE all # << >>
      <4> DEFINE K == F + 1
      <4>1. \A m \in N, n \in Range(all) : m < n
        BY <1>2, <2>1 DEF Numbers, Between
      <4>2. K \in Nat /\ \A k \in DOMAIN r : k < K
        BY <2>0, <2>2
      <4>3. q = Batched(r, {}, [k \in {K} |-> all])
        BY <2>3, <3>2 DEF q
      <4>4. RowsHold(r, N) /\ all \in Seq(Nat) /\ Rising(all)
        BY <2>1, <2>2
      <4> HIDE DEF N, K
      <4>5. DOMAIN q = DOMAIN r \cup {K} /\ q[K] = all /\ \A k \in DOMAIN r : q[k] = r[k]
        <5>1. K \notin DOMAIN r
          BY <4>2
        <5> QED
          BY <4>3, <5>1 DEF Batched
      <4>6. RowsHold(q, N \cup Range(all))
        BY <3>2, <4>1, <4>2, <4>4, <4>5, NewRowIs
      <4> QED
        BY <4>5, <4>6 DEF K
    <3> QED
      BY <3>1, <3>2
  <2>6. Bounded(q, F + 1)
    <3>1. \A k \in DOMAIN q : k \in DOMAIN r \/ k = F + 1
      BY <2>5
    <3>2. \A k \in DOMAIN r : k <= F + 1
      BY <2>0, <2>2
    <3> QED
      BY <2>0, <3>1, <3>2 DEF Bounded
  <2>7. DOMAIN RowsTo(q, F) = DOMAIN r /\ \A k \in DOMAIN r : RowsTo(q, F)[k] = r[k]
    <3>1. DOMAIN RowsTo(q, F) = {k \in DOMAIN q : k <= F} /\ \A k \in DOMAIN q : k <= F => RowsTo(q, F)[k] = q[k]
      BY DEF RowsTo
    <3>2. ~(F + 1 <= F)
      BY <2>0
    <3>3. {k \in DOMAIN q : k <= F} = DOMAIN r
      BY <2>2, <2>5, <3>2
    <3> QED
      BY <2>2, <2>5, <3>1, <3>3
  <2>8. RowsHold(RowsTo(q, F), N)
    BY <2>2, <2>7, RowsSame
  <2> QED
    BY <1>2, <2>4, <2>5, <2>6, <2>8 DEF q
<1>6. CompactionTypes'
  BY <1>1, <1>2, <1>3 DEF CompactionTypes, Flushable
<1>7. Down'
  BY <1>1 DEF Down
<1>8. Up'
  BY <1>1, <1>2, <1>5 DEF Up
<1>9. Serving'
  BY <1>1, <1>3, <1>5 DEF Serving
<1>10. Flushed'
  <2>1. F + 1 \in 1 .. utxoFlush + 1 /\ F + 1 - 1 = F
    BY <1>2
  <2>2. history'.flush_count \in 1 .. utxoFlush' + 1 /\ history'.flush_count - 1 = F
    <3>1. history'.flush_count = F + 1 /\ utxoFlush' = utxoFlush
      BY <1>1, <1>3
    <3>2. history'.flush_count \in 1 .. utxoFlush' + 1
      BY <2>1, <3>1
    <3>3. history'.flush_count - 1 = F
      <4>1. F \in Nat
        BY <1>2
      <4> QED
        BY <3>1, <4>1
    <3> QED
      BY <3>2, <3>3
  <2>3. ASSUME NEW x \in Hashes
        PROVE  RowsHold(RowsTo(rows'[x], history'.flush_count - 1), Numbers(chain', x, saved'))
    BY <1>1, <1>5, <2>2
  <2> QED
    BY <1>1, <2>2, <2>3 DEF Flushed
<1>11. Compacting'
  BY <1>1, <1>3 DEF Compacting
<1> QED
  BY <1>6, <1>7, <1>8, <1>9, <1>10, <1>11 DEF Recoverable

(* A block is undone. *)
LEMMA BackupKeeps ==
    ASSUME Flushable, Backup
    PROVE  CompactionTypes' /\ Recoverable'
<1> DEFINE F == history.flush_count
<1>1. /\ proc = "serving" /\ at = "idle" /\ chain # << >> /\ saved = Len(chain)
      /\ history' = [history EXCEPT !.flush_count = F + 1] /\ histState' = history'
      /\ \A x \in Hashes : rows'[x] = IF x \in Last(chain) THEN BackedUp(rows[x], saved - 1) ELSE rows[x]
      /\ chain' = Front(chain) /\ flushed' = saved - 1 /\ at' = "flushed"
      /\ UNCHANGED <<saved, utxoFlush, proc>>
  BY DEF Backup
<1>2. /\ history \in States /\ history.comp_cursor = -1
      /\ F \in Nat /\ F <= utxoFlush /\ utxoFlush \in Nat
      /\ chain \in Seq(SUBSET Hashes) /\ Len(chain) \in Nat /\ DOMAIN chain = 1 .. Len(chain)
      /\ saved = flushed /\ flushed \in Nat
      /\ \A x \in Hashes : RowsHold(rows[x], Numbers(chain, x, flushed)) /\ Bounded(rows[x], F)
  BY <1>1, IdleServer
<1>3. history' \in States /\ history'.flush_count = F + 1 /\ history'.comp_cursor = -1
  BY <1>1, <1>2 DEF States
<1> HIDE DEF F
<1> DEFINE n == saved - 1
<1>4. /\ n \in Nat /\ n + 1 = Len(chain) /\ saved = n + 1 /\ chain' \in Seq(SUBSET Hashes) /\ Len(chain') = n
      /\ (\A i \in 1 .. n : chain'[i] = chain[i]) /\ Last(chain) = chain[n + 1]
  <2>1. Len(chain) # 0
    BY <1>1, <1>2, EmptySeq
  <2>2. n \in Nat /\ n + 1 = Len(chain) /\ n = Len(chain) - 1 /\ saved = n + 1
    BY <1>1, <1>2, <2>1
  <2>3. chain' = SubSeq(chain, 1, n)
    BY <1>1, <2>2 DEF Front
  <2>4. Last(chain) = chain[n + 1]
    BY <2>2 DEF Last
  <2> HIDE DEF n
  <2>5. /\ chain' \in Seq(SUBSET Hashes) /\ Len(chain') = IF 1 <= n THEN n - 1 + 1 ELSE 0
        /\ \A i \in 1 .. n - 1 + 1 : chain'[i] = chain[1 + i - 1]
    <3>1. 1 \in 1 .. Len(chain) + 1 /\ n \in 0 .. Len(chain) /\ 1 \in Int /\ n \in Int
          /\ \A i \in 1 .. n : i \in 1 .. Len(chain)
      BY <1>2, <2>2
    <3>2. \A i \in 1 .. n : chain[i] \in SUBSET Hashes
      BY <1>2, <3>1, ElementOfSeq
    <3> QED
      BY <2>3, <3>1, <3>2, SubSeqProperties
  <2>6. Len(chain') = n /\ \A i \in 1 .. n : chain'[i] = chain[i]
    <3>1. n - 1 + 1 = n /\ \A i \in 1 .. n : 1 + i - 1 = i
      BY <2>2
    <3>2. Len(chain') = n
      <4>1. n \in Nat /\ Len(chain') = IF 1 <= n THEN n ELSE 0
        BY <2>2, <2>5, <3>1
      <4> QED
        BY <4>1
    <3>3. \A i \in 1 .. n : chain'[i] = chain[i]
      BY <2>5, <3>1
    <3> QED
      BY <3>2, <3>3
  <2> QED
    BY <2>2, <2>4, <2>5, <2>6
<1> HIDE DEF n
<1>5. ASSUME NEW x \in Hashes
      PROVE  RowsHold(rows'[x], Numbers(chain', x, n)) /\ Bounded(rows'[x], F + 1)
  <2> DEFINE N == Numbers(chain, x, n + 1)
  <2>1. RowsHold(rows[x], N) /\ Bounded(rows[x], F)
    BY <1>1, <1>2, <1>4
  <2>2. Numbers(chain', x, n) = Numbers(chain, x, n)
    BY <1>4, NumbersKept
  <2>3. 1 .. n + 1 = 1 .. n \cup {n + 1}
    BY <1>4
  <2>4. CASE x \in Last(chain)
    <3>1. rows'[x] = BackedUp(rows[x], n)
      BY <1>1, <2>4 DEF n
    <3>2. {i \in N : i <= n} = Numbers(chain, x, n)
      BY <1>4, <2>3 DEF Numbers
    <3> HIDE DEF N
    <3>3. RowsHold(rows'[x], {i \in N : i <= n}) /\ DOMAIN rows'[x] \subseteq DOMAIN rows[x]
      BY <1>2, <1>4, <2>1, <3>1, BackedUpAre
    <3>4. DOMAIN rows[x] \subseteq Nat
      BY <2>1 DEF RowsHold
    <3>5. Bounded(rows'[x], F + 1)
      BY <1>2, <2>1, <3>3, <3>4 DEF Bounded
    <3> QED
      BY <2>2, <3>2, <3>3, <3>5
  <2>5. CASE x \notin Last(chain)
    <3>1. rows'[x] = rows[x]
      BY <1>1, <2>5
    <3>2. N = Numbers(chain, x, n)
      BY <1>4, <2>3, <2>5 DEF Numbers
    <3>4. DOMAIN rows[x] \subseteq Nat
      BY <2>1 DEF RowsHold
    <3>5. Bounded(rows'[x], F + 1)
      BY <1>2, <2>1, <3>1, <3>4 DEF Bounded
    <3> QED
      BY <2>1, <2>2, <3>1, <3>2, <3>5
  <2> QED
    BY <2>4, <2>5
<1>6. CompactionTypes'
  BY <1>1, <1>2, <1>3, <1>4 DEF CompactionTypes, Flushable, n
<1>7. Down'
  BY <1>1 DEF Down
<1>8. Up'
  BY <1>1, <1>4, <1>5 DEF Up, n
<1>9. Serving'
  BY <1>1, <1>3, <1>5 DEF Serving
<1>10. Flushed'
  <2>1. F + 1 \in 1 .. utxoFlush + 1
    BY <1>2
  <2>2. ~(n + 1 <= n)
    BY <1>4
  <2> QED
    BY <1>1, <1>3, <1>4, <2>1, <2>2 DEF Flushed, n
<1>11. Compacting'
  BY <1>1, <1>3 DEF Compacting
<1> QED
  BY <1>6, <1>7, <1>8, <1>9, <1>10, <1>11 DEF Recoverable

(* The UTXO DB's batch. *)
LEMMA CommitKeeps ==
    ASSUME Flushable, CommitUtxos
    PROVE  CompactionTypes' /\ Recoverable'
<1>1. /\ proc = "serving" /\ at = "flushed" /\ at' = "idle"
      /\ utxoFlush' = history.flush_count /\ saved' = Len(chain)
      /\ UNCHANGED <<chain, rows, histState, proc, history, flushed>>
  BY DEF CommitUtxos
<1>2. /\ history \in States /\ histState = history /\ flushed = Len(chain) /\ history.comp_cursor = -1
      /\ chain \in Seq(SUBSET Hashes) /\ history.flush_count \in Nat /\ flushed <= Len(chain)
      /\ \A x \in Hashes : RowsHold(rows[x], Numbers(chain, x, flushed)) /\ Bounded(rows[x], history.flush_count)
  BY <1>1 DEF Flushable, CompactionTypes, Recoverable, Up, Serving, Flushed, States
<1>3. Len(chain) \in Nat
  BY <1>2, LenProperties
<1>4. CompactionTypes'
  BY <1>1, <1>2, <1>3 DEF CompactionTypes, Flushable
<1>5. Down' /\ Flushed'
  BY <1>1 DEF Down, Flushed
<1>6. Up' /\ Serving'
  BY <1>1, <1>2 DEF Up, Serving
<1>7. ~(history.flush_count < history.flush_count)
  BY <1>2
<1>8. Compacting'
  BY <1>1, <1>2, <1>7 DEF Compacting
<1> QED
  BY <1>4, <1>5, <1>6, <1>8 DEF Recoverable

(* A server that stops, between the blocks. *)
LEMMA IdleStops ==
    ASSUME Flushable, proc = "serving", at = "idle", proc' = "down", at' = "idle",
           UNCHANGED <<chain, rows, histState, saved, utxoFlush, history, flushed>>
    PROVE  CompactionTypes' /\ Recoverable'
<1>1. /\ history.flush_count = histState.flush_count
      /\ history.flush_count \in Nat /\ history.flush_count <= utxoFlush /\ utxoFlush \in Nat
      /\ saved = flushed /\ flushed <= Len(chain)
      /\ \A x \in Hashes : RowsHold(rows[x], Numbers(chain, x, flushed))
                           /\ Bounded(rows[x], history.flush_count)
  BY IdleServer
<1>2. CompactionTypes'
  BY DEF CompactionTypes, Flushable
<1>3. ~Excess
  BY <1>1 DEF Excess
<1>4. ~Excess' /\ Cleared' = histState /\ \A x \in Hashes : Opened(x)' = rows[x]
  BY <1>3 DEF Excess, Cleared, Opened
<1>5. Down'
  BY <1>1, <1>4 DEF Down
<1>6. Up' /\ Serving' /\ Flushed'
  BY DEF Up, Serving, Flushed
<1>7. Compacting'
  BY DEF Compacting, RewrittenTo, Flushable, Recoverable
<1> QED
  BY <1>2, <1>5, <1>6, <1>7 DEF Recoverable

(* A kill that the code recovers from. *)
LEMMA KillKeeps ==
    ASSUME Flushable, Kill, ~KilledInBackup, ~KilledBehind, ~KilledPast
    PROVE  CompactionTypes' /\ Recoverable'
<1>1. /\ proc # "down" /\ proc' = "down" /\ at' = "idle"
      /\ UNCHANGED <<chain, rows, histState, saved, utxoFlush, history, flushed>>
  BY DEF Kill, diskVars
<1>2. CompactionTypes'
  BY <1>1 DEF CompactionTypes, Flushable
<1>3. Up' /\ Serving' /\ Flushed'
  BY <1>1 DEF Up, Serving, Flushed
<1>4. /\ history \in States /\ histState \in States /\ utxoFlush \in Nat /\ saved \in Nat /\ flushed \in Nat
      /\ history.flush_count = histState.flush_count /\ histState.flush_count \in Nat
      /\ at \in {"idle", "flushed", "compacted"}
      /\ flushed <= Len(chain) /\ Len(chain) \in Nat
      /\ \A x \in Hashes : RowsHold(rows[x], Numbers(chain, x, flushed)) /\ DOMAIN rows[x] \subseteq Nat
  BY <1>1, LenProperties DEF Flushable, CompactionTypes, Recoverable, Up, States, RowsHold
<1>5. CASE proc = "serving" /\ at = "idle"
  BY <1>1, <1>5, IdleStops
<1>6. CASE proc = "serving" /\ at = "flushed"
  <2>1. /\ histState = history /\ flushed = Len(chain) /\ history.flush_count \in 1 .. utxoFlush + 1
        /\ saved <= Len(chain)
        /\ history.comp_cursor = -1
        /\ ~(history.flush_count <= utxoFlush)
    BY <1>4, <1>6 DEF Flushable, Recoverable, Flushed, KilledInBackup, KilledBehind, CompactionTypes
  <2>2. history.flush_count = utxoFlush + 1 /\ history.flush_count - 1 = utxoFlush
    BY <1>4, <2>1
  <2>3. Excess /\ Cleared = [histState EXCEPT !.flush_count = utxoFlush]
    BY <1>4, <2>1, <2>2 DEF Excess, Cleared
  <2>4. Excess' /\ Cleared'.flush_count = utxoFlush /\ \A x \in Hashes : Opened(x)' = RowsTo(rows[x], utxoFlush)
    BY <1>1, <1>4, <2>3 DEF Excess, Cleared, Opened, States
  <2>5. \A x \in Hashes : RowsHold(RowsTo(rows[x], utxoFlush), Numbers(chain, x, saved))
    BY <1>6, <2>1, <2>2 DEF Flushable, Recoverable, Flushed
  <2>6. \A x \in Hashes : Bounded(RowsTo(rows[x], utxoFlush), utxoFlush)
    BY DEF RowsTo, Bounded
  <2>7. Down'
    BY <1>1, <2>1, <2>4, <2>5, <2>6 DEF Down
  <2>8. ~(histState.flush_count < utxoFlush)
    BY <1>4, <2>1, <2>2
  <2>9. Compacting'
    BY <1>1, <2>1, <2>8 DEF Compacting
  <2> QED
    BY <1>2, <1>3, <2>7, <2>9 DEF Recoverable
<1>7. CASE proc = "compacting"
  <2>1. saved = flushed /\ \A x \in Hashes : \A k \in DOMAIN rows[x] : k <= utxoFlush
    <3>1. \A x \in Hashes : \A k \in DOMAIN rows[x] : k \in Nat /\ ~(k > utxoFlush)
      BY <1>4, <1>7 DEF KilledPast
    <3>2. at # "flushed"
      BY <1>7 DEF Flushable, CompactionTypes
    <3> QED
      BY <1>1, <1>4, <3>1, <3>2 DEF Flushable, Recoverable, Up
  <2>2. histState.flush_count < utxoFlush =>
          \A x \in Hashes : Bounded(rows[x], histState.flush_count) /\ Compact(rows[x])
    BY <1>4, <1>7 DEF Flushable, Recoverable, Compacting, CompactionTypes
  <2>3. ASSUME NEW x \in Hashes
        PROVE  /\ RowsHold(Opened(x)', Numbers(chain', x, saved'))
               /\ Bounded(Opened(x)', Cleared'.flush_count)
    <3>1. CASE Excess
      <4>1. Opened(x)' = RowsTo(rows[x], utxoFlush) /\ Cleared'.flush_count = utxoFlush
        BY <1>1, <1>4, <3>1 DEF Opened, Excess, Cleared, States
      <4>2. DOMAIN RowsTo(rows[x], utxoFlush) = DOMAIN rows[x]
            /\ \A k \in DOMAIN rows[x] : RowsTo(rows[x], utxoFlush)[k] = rows[x][k]
        BY <2>1 DEF RowsTo
      <4>3. RowsHold(RowsTo(rows[x], utxoFlush), Numbers(chain, x, flushed))
        BY <1>4, <4>2, RowsSame
      <4> QED
        BY <1>1, <2>1, <4>1, <4>2, <4>3 DEF Bounded
    <3>2. CASE ~Excess
      <4>1. Opened(x)' = rows[x] /\ Cleared'.flush_count = histState.flush_count
        BY <1>1, <3>2 DEF Opened, Excess, Cleared
      <4>2. histState.flush_count < utxoFlush \/ histState.flush_count = utxoFlush
        BY <1>4, <3>2 DEF Excess
      <4>3. Bounded(rows[x], histState.flush_count)
        BY <2>1, <2>2, <4>2 DEF Bounded
      <4> QED
        BY <1>1, <1>4, <2>1, <4>1, <4>3
    <3> QED
      BY <3>1, <3>2
  <2>4. Down'
    BY <1>1, <1>4, <2>1, <2>3 DEF Down
  <2>5. Compacting'
    <3>1. histState.comp_cursor # -1 => histState.flush_count <= utxoFlush /\ RewrittenTo(histState)
            /\ histState.comp_flush_count \in Nat /\ histState.comp_cursor \in Hashes
      BY DEF Flushable, Recoverable, Compacting
    <3> QED
      BY <1>1, <2>2, <3>1 DEF Compacting, RewrittenTo
  <2> QED
    BY <1>2, <1>3, <2>4, <2>5 DEF Recoverable
<1>8. /\ proc \in {"serving", "compacting"}
      /\ proc = "serving" => at \in {"idle", "flushed"}
  BY <1>1 DEF Flushable, CompactionTypes
<1> QED
  BY <1>5, <1>6, <1>7, <1>8

(* What opening makes of the stores. *)
LEMMA OpenKeeps ==
    ASSUME Flushable, OpenHistory, proc' \in {"serving", "compacting"}, history' \in States,
           history'.flush_count = Cleared.flush_count, proc' = "serving" => history'.comp_cursor = -1,
           proc' = "compacting" =>
             /\ history'.comp_flush_count \in Nat /\ history'.comp_cursor \in Hashes
             /\ Cleared.comp_cursor = -1 => history'.comp_cursor = 1
             /\ Cleared.comp_cursor # -1 => history'.comp_cursor = Cleared.comp_cursor
             /\ Cleared.comp_flush_count <= history'.comp_flush_count
    PROVE  CompactionTypes' /\ Recoverable'
<1>1. /\ proc = "down" /\ histState' = Cleared /\ flushed' = saved /\ at' = "idle"
      /\ chain' = SubSeq(chain, 1, saved)
      /\ \A x \in Hashes : rows'[x] = Opened(x)
      /\ ~Excess => \A x \in Hashes : rows'[x] = rows[x]
      /\ UNCHANGED <<saved, utxoFlush>>
  BY DEF OpenHistory, Opened, RowsTo, Restrict
<1>2. /\ histState \in States /\ utxoFlush \in Nat /\ saved \in Nat /\ chain \in Seq(SUBSET Hashes)
      /\ saved <= Len(chain) /\ at = "idle"
      /\ \A x \in Hashes : RowsHold(rows'[x], Numbers(chain, x, saved))
                           /\ Bounded(rows'[x], Cleared.flush_count)
  BY <1>1 DEF Flushable, CompactionTypes, Recoverable, Down
<1>3. histState.flush_count \in Nat /\ Len(chain) \in Nat /\ DOMAIN chain = 1 .. Len(chain)
  BY <1>2, LenProperties DEF States
<1>4. /\ Cleared \in States /\ Cleared.flush_count \in Nat /\ Cleared.flush_count <= utxoFlush
      /\ Excess => Cleared.flush_count = utxoFlush
      /\ ~Excess => Cleared = histState
      /\ Cleared.comp_cursor = histState.comp_cursor /\ Cleared.comp_flush_count = histState.comp_flush_count
  BY <1>2, <1>3 DEF Cleared, Excess, States
<1>5. /\ chain' \in Seq(SUBSET Hashes) /\ Len(chain') = saved /\ \A i \in 1 .. saved : chain'[i] = chain[i]
  <2>1. 1 \in Int /\ saved \in Int /\ saved - 1 + 1 = saved /\ \A i \in 1 .. saved : i \in 1 .. Len(chain) /\ 1 + i - 1 = i
    BY <1>2, <1>3
  <2>2. \A i \in 1 .. saved : chain[i] \in SUBSET Hashes
    BY <1>2, <2>1, ElementOfSeq
  <2>3. /\ chain' \in Seq(SUBSET Hashes) /\ Len(chain') = IF 1 <= saved THEN saved - 1 + 1 ELSE 0
        /\ \A i \in 1 .. saved - 1 + 1 : chain'[i] = chain[1 + i - 1]
    BY <1>1, <2>1, <2>2, SubSeqProperties
  <2>4. Len(chain') = IF 1 <= saved THEN saved ELSE 0
    BY <2>1, <2>3
  <2>5. Len(chain') = saved
    BY <1>2, <2>4
  <2>6. \A i \in 1 .. saved : chain'[i] = chain[i]
    BY <2>1, <2>3
  <2> QED
    BY <2>3, <2>5, <2>6
<1>6. \A x \in Hashes : Numbers(chain', x, saved) = Numbers(chain, x, saved)
  BY <1>2, <1>5, NumbersKept
<1>7. CompactionTypes'
  <2>1. history'.flush_count = histState'.flush_count
    BY <1>1
  <2> QED
    BY <1>1, <1>2, <1>4, <1>5, <2>1 DEF CompactionTypes
<1>8. Down' /\ Flushed'
  BY <1>1 DEF Down, Flushed
<1>9. Up'
  <2>1. flushed' <= Len(chain')
    BY <1>1, <1>2, <1>5
  <2>2. \A x \in Hashes : RowsHold(rows'[x], Numbers(chain', x, flushed'))
    BY <1>1, <1>2, <1>6
  <2> QED
    BY <1>1, <2>1, <2>2 DEF Up
<1>10. Serving'
  BY <1>1, <1>2, <1>4 DEF Serving
<1>11. Compacting'
  <2>1. histState.comp_cursor # -1 =>
          /\ ~Excess /\ RewrittenTo(histState)
          /\ histState.comp_flush_count \in Nat /\ histState.comp_cursor \in Hashes
    BY <1>2, <1>3 DEF Flushable, Recoverable, Compacting, Excess
  <2>2. histState'.comp_cursor # -1 =>
          /\ histState'.flush_count <= utxoFlush' /\ RewrittenTo(histState)'
          /\ histState'.comp_flush_count \in Nat /\ histState'.comp_cursor \in Hashes
    BY <1>1, <1>4, <2>1 DEF RewrittenTo
  <2>3. histState'.flush_count < utxoFlush' =>
          \A x \in Hashes : Bounded(rows'[x], histState'.flush_count) /\ Compact(rows'[x])
    <3>1. SUFFICES ASSUME histState'.flush_count < utxoFlush'
                   PROVE  \A x \in Hashes : Bounded(rows'[x], histState'.flush_count) /\ Compact(rows'[x])
      OBVIOUS
    <3>2. ~Excess /\ histState' = histState /\ histState.flush_count < utxoFlush
      BY <1>1, <1>2, <1>4, <3>1
    <3>3. \A x \in Hashes : Bounded(rows[x], histState.flush_count) /\ Compact(rows[x])
      BY <1>2, <3>2 DEF Flushable, Recoverable, Compacting
    <3> QED
      BY <1>1, <3>2, <3>3
  <2>4. CASE proc' = "compacting"
    <3>1. history'.flush_count <= utxoFlush'
      BY <1>1, <1>4
    <3>2. \A x \in Hashes : Bounded(rows'[x], history'.flush_count)
      BY <1>2
    <3>3. ASSUME NEW x \in Hashes, x < history'.comp_cursor
          PROVE  Bounded(rows'[x], history'.comp_flush_count) /\ Compact(rows'[x])
      <4>1. x \in Nat \ {0}
        BY HashesAre
      <4>2. histState.comp_cursor # -1 /\ x < histState.comp_cursor
        BY <1>4, <2>4, <3>3, <4>1
      <4>3. Bounded(rows[x], histState.comp_flush_count) /\ Compact(rows[x]) /\ rows'[x] = rows[x]
        BY <1>1, <2>1, <4>2 DEF RewrittenTo
      <4>4. DOMAIN rows'[x] \subseteq Nat
        BY <1>2 DEF RowsHold
      <4>5. /\ histState.comp_flush_count \in Nat /\ history'.comp_flush_count \in Nat
            /\ histState.comp_flush_count <= history'.comp_flush_count
        BY <1>4, <2>1, <2>4, <4>2
      <4>6. Bounded(rows'[x], history'.comp_flush_count)
        BY <4>3, <4>4, <4>5 DEF Bounded
      <4> QED
        BY <4>3, <4>6
    <3>4. RewrittenTo(history)'
      BY <3>3 DEF RewrittenTo
    <3> QED
      BY <1>1, <2>2, <2>3, <2>4, <3>1, <3>2, <3>4 DEF Compacting
  <2>5. CASE proc' = "serving"
    BY <1>1, <2>2, <2>3, <2>5 DEF Compacting
  <2> QED
    BY <2>4, <2>5
<1> QED
  BY <1>7, <1>8, <1>9, <1>10, <1>11 DEF Recoverable

(* The server opens the stores and cancels a compaction. *)
LEMMA OpenForServingKeeps ==
    ASSUME Flushable, OpenForServing
    PROVE  CompactionTypes' /\ Recoverable'
<1>1. OpenHistory /\ proc' = "serving" /\ history' = State(Cleared.flush_count, -1, -1)
  BY DEF OpenForServing
<1>2. Cleared.flush_count \in Nat
  BY DEF Flushable, CompactionTypes, States, Cleared
<1>3. history' \in States /\ history'.flush_count = Cleared.flush_count /\ history'.comp_cursor = -1
  BY <1>1, <1>2 DEF State, States
<1> QED
  BY <1>1, <1>3, OpenKeeps

(* The script opens them and continues one. *)
LEMMA OpenForCompactingKeeps ==
    ASSUME Flushable, OpenForCompacting
    PROVE  CompactionTypes' /\ Recoverable'
<1> DEFINE c == Cleared.comp_flush_count
           h == IF Cleared.comp_cursor = -1 THEN 1 ELSE Cleared.comp_cursor
<1>1. OpenHistory /\ proc' = "compacting" /\ history' = State(Cleared.flush_count, Max({c, 1}), h)
  BY DEF OpenForCompacting
<1>2. /\ histState \in States /\ Cleared.comp_cursor = histState.comp_cursor
      /\ c = histState.comp_flush_count /\ Cleared.flush_count \in Nat
  BY DEF Flushable, CompactionTypes, States, Cleared
<1>3. h \in Hashes
  <2>1. histState.comp_cursor # -1 => histState.comp_cursor \in Hashes
    BY DEF Flushable, Recoverable, Compacting
  <2>2. 1 \in Hashes
    BY HashesAre
  <2> QED
    BY <1>2, <2>1, <2>2
<1>4. Max({c, 1}) \in Nat /\ c <= Max({c, 1})
  <2>1. c \in Nat \cup {-1}
    BY <1>2 DEF States
  <2> HIDE DEF c
  <2>2. CASE c = -1
    <3>1. Max({c, 1}) = 1
      BY <2>2 DEF Max
    <3> QED
      BY <2>2, <3>1
  <2>3. CASE c \in Nat
    <3>1. CASE c <= 1
      <4>1. Max({c, 1}) = 1
        BY <2>3, <3>1, MaxIs
      <4> QED
        BY <3>1, <4>1
    <3>2. CASE c > 1
      <4>1. Max({c, 1}) = c
        BY <2>3, <3>2, MaxIs
      <4> QED
        BY <2>3, <4>1
    <3> QED
      BY <2>3, <3>1, <3>2
  <2> QED
    BY <2>1, <2>2, <2>3
<1>5. h \in Nat
  BY <1>3, HashesAre
<1> HIDE DEF c, h
<1>6. /\ history' \in States /\ history'.flush_count = Cleared.flush_count
      /\ history'.comp_cursor = h /\ history'.comp_flush_count = Max({c, 1})
  BY <1>1, <1>2, <1>4, <1>5 DEF State, States
<1> QED
  BY <1>1, <1>3, <1>4, <1>6, OpenKeeps DEF c, h

(* The UTXO DB's flush count follows. *)
LEMMA SetFlushCountKeeps ==
    ASSUME Flushable, set_flush_count
    PROVE  CompactionTypes' /\ Recoverable'
<1>1. /\ proc = "compacting" /\ at = "compacted" /\ utxoFlush' = history.flush_count
      /\ proc' = "down" /\ at' = "idle"
      /\ UNCHANGED <<chain, rows, histState, saved, history, flushed>>
  BY DEF set_flush_count
<1>2. /\ history = histState /\ history \in States /\ history.comp_cursor = -1
      /\ saved = flushed /\ flushed <= Len(chain)
      /\ \A x \in Hashes : RowsHold(rows[x], Numbers(chain, x, flushed)) /\ Bounded(rows[x], history.flush_count)
  BY <1>1 DEF Flushable, CompactionTypes, Recoverable, Up, Compacting
<1>3. history.flush_count \in Nat
  BY <1>2 DEF States
<1>4. CompactionTypes'
  BY <1>1, <1>2, <1>3 DEF CompactionTypes, Flushable
<1>5. ~Excess' /\ Cleared' = histState /\ \A x \in Hashes : Opened(x)' = rows[x]
  BY <1>1, <1>2, <1>3 DEF Excess, Cleared, Opened
<1>6. Down'
  BY <1>1, <1>2, <1>5 DEF Down
<1>7. Up' /\ Serving' /\ Flushed'
  BY <1>1 DEF Up, Serving, Flushed
<1>8. Compacting'
  BY <1>1, <1>2, <1>3 DEF Compacting
<1> QED
  BY <1>4, <1>6, <1>7, <1>8 DEF Recoverable

(* A bound for the keys of all addresses. *)
LEMMA CommonBound ==
    ASSUME NEW rowsOf, \A x \in Hashes : \E b \in Nat : Bounded(rowsOf[x], b),
           \A x \in Hashes : DOMAIN rowsOf[x] \subseteq Int
    PROVE  \E b \in Nat : \A x \in Hashes : Bounded(rowsOf[x], b)
<1>1. PICK n \in Nat \ {0} : Hashes = 1 .. n
  BY HashesAre
<1> DEFINE S == {k \in 0 .. n : \E b \in Nat : \A x \in 1 .. k : Bounded(rowsOf[x], b)}
<1>2. 0 \in S
  <2>1. 1 .. 0 = {} /\ 0 \in Nat /\ 0 \in 0 .. n
    OBVIOUS
  <2> QED
    BY <2>1
<1>3. ASSUME NEW k \in 1 .. n, k - 1 \in S PROVE k \in S
  <2>1. PICK a \in Nat : \A x \in 1 .. k - 1 : Bounded(rowsOf[x], a)
    BY <1>3
  <2>2. PICK c \in Nat : Bounded(rowsOf[k], c)
    BY <1>1
  <2>3. \A x \in 1 .. k : x \in Hashes /\ (x \in 1 .. k - 1 \/ x = k)
    BY <1>1
  <2>4. a + c \in Nat
    OBVIOUS
  <2>5. ASSUME NEW x \in 1 .. k, NEW key \in DOMAIN rowsOf[x] PROVE key <= a + c
    <3>1. key \in Int /\ (key <= a \/ key <= c)
      BY <2>1, <2>2, <2>3, <2>5 DEF Bounded
    <3> QED
      BY <3>1
  <2>6. \A x \in 1 .. k : Bounded(rowsOf[x], a + c)
    BY <2>5 DEF Bounded
  <2> QED
    BY <2>4, <2>6
<1>4. n \in S
  <2> HIDE DEF S
  <2>1. \A k \in 0 .. n : k \in S
    BY <1>2, <1>3, UpTo
  <2> QED
    BY <2>1
<1> QED
  BY <1>1, <1>4

(* A pass rewrites the addresses from the cursor on. *)
LEMMA CompactPassKeeps ==
    ASSUME Flushable, NEW cursor \in 2 .. EndCursor, CompactPass(cursor)
    PROVE  CompactionTypes' /\ Recoverable'
<1> DEFINE c == history.comp_cursor
           F == history.flush_count
           P == history.comp_flush_count
           done == {x \in c .. (cursor - 1) : rows[x] # << >>}
           chunks == [x \in Hashes |-> Chunks(TxNums(rows[x]))]
           comp == Max({P} \cup UNION {DOMAIN Chunks(TxNums(rows[x])) : x \in done})
<1>1. /\ proc = "compacting" /\ at = "idle" /\ c # -1 /\ cursor > c
      /\ \A x \in Hashes : rows'[x] = IF x \in done THEN Compacted(rows[x]) ELSE rows[x]
      /\ history' = IF cursor = EndCursor THEN State(comp, -1, -1) ELSE State(F, comp, cursor)
      /\ histState' = history'
      /\ at' = IF cursor = EndCursor THEN "compacted" ELSE "idle"
      /\ UNCHANGED <<chain, saved, utxoFlush, proc, flushed>>
  BY DEF CompactPass
<1>2. PICK n \in Nat \ {0} : Hashes = 1 .. n /\ EndCursor = n + 1
  BY HashesAre
<1>3. /\ F \in Nat /\ P \in Nat /\ c \in Hashes /\ cursor \in 2 .. n + 1 /\ F <= utxoFlush /\ utxoFlush \in Nat
      /\ F = histState.flush_count
      /\ saved = flushed /\ flushed <= Len(chain)
      /\ \A x \in Hashes : RowsHold(rows[x], Numbers(chain, x, flushed))
      /\ \A x \in Hashes : x < c => Bounded(rows[x], P) /\ Compact(rows[x])
      /\ \A x \in Hashes : x >= c => Bounded(rows[x], F)
  BY <1>1, <1>2 DEF Flushable, CompactionTypes, Recoverable, Up, Compacting, RewrittenTo, States
<1>4. done \subseteq Hashes /\ \A x \in Hashes : x < cursor => x < c \/ x \in done \/ rows[x] = << >>
  BY <1>2, <1>3
<1>5. \A x \in Hashes : \E b \in Nat : Bounded(rows[x], b)
  <2>1. \A x \in Hashes : x < c \/ x >= c
    BY <1>2, <1>3
  <2> QED
    BY <1>3, <2>1
<1>6. ASSUME NEW x \in Hashes
      PROVE  /\ RowsHold(Compacted(rows[x]), Numbers(chain, x, flushed)) /\ Compact(Compacted(rows[x]))
             /\ DOMAIN Compacted(rows[x]) = DOMAIN chunks[x]
             /\ \E d \in Nat : Bounded(chunks[x], d)
  <2>1. PICK b \in Nat : Bounded(rows[x], b)
    BY <1>5
  <2> QED
    BY <1>3, <2>1, CompactedIs
<1>7. \A x \in Hashes : DOMAIN chunks[x] \subseteq Nat
  BY <1>6 DEF RowsHold
<1>8. PICK b \in Nat : \A x \in Hashes : Bounded(chunks[x], b)
  <2>1. \A x \in Hashes : DOMAIN chunks[x] \subseteq Int
    BY <1>7
  <2> HIDE DEF chunks
  <2> QED
    BY <1>6, <2>1, CommonBound
<1>9. /\ comp \in Nat /\ P <= comp
      /\ \A x \in done : \A k \in DOMAIN chunks[x] : k <= comp
      /\ comp = P \/ \E x \in done : comp \in DOMAIN chunks[x]
  <2> DEFINE D == {P} \cup UNION {DOMAIN chunks[x] : x \in done}
  <2>1. \A x \in done : chunks[x] = Chunks(TxNums(rows[x]))
    BY <1>4
  <2>2. comp = Max(D)
    BY <2>1
  <2> HIDE DEF chunks, done, comp, P
  <2>3. D \subseteq Nat /\ P \in D
    BY <1>3, <1>4, <1>7
  <2>4. \A k \in D : k <= P + b
    <3>1. ASSUME NEW x \in done, NEW k \in DOMAIN chunks[x] PROVE k <= P + b
      <4>1. k <= b /\ k \in Nat
        BY <1>4, <1>7, <1>8, <3>1 DEF Bounded
      <4> QED
        BY <1>3, <4>1
    <3>2. P <= P + b
      BY <1>3
    <3> QED
      BY <3>1, <3>2
  <2>5. comp \in D /\ \A k \in D : k <= comp
    <3>1. P + b \in Nat /\ D # {}
      BY <1>3
    <3> HIDE DEF D
    <3> QED
      BY <2>2, <2>3, <2>4, <3>1, MaxFacts
  <2> QED
    BY <2>3, <2>5
<1> HIDE DEF comp, chunks
<1>10. ASSUME NEW x \in Hashes
       PROVE  /\ RowsHold(rows'[x], Numbers(chain, x, flushed))
              /\ x < cursor => Bounded(rows'[x], comp) /\ Compact(rows'[x])
              /\ x >= cursor => rows'[x] = rows[x]
  <2>1. CASE x \in done
    <3>1. x < cursor
      BY <1>2, <1>3, <2>1
    <3>2. rows'[x] = Compacted(rows[x])
      BY <1>1, <2>1
    <3>3. Bounded(rows'[x], comp)
      BY <1>6, <1>9, <2>1, <3>2 DEF Bounded
    <3>4. ~(x >= cursor)
      BY <1>2, <1>3, <3>1
    <3> HIDE DEF done
    <3> QED
      BY <1>6, <3>2, <3>3, <3>4
  <2>2. CASE x \notin done
    <3>1. rows'[x] = rows[x]
      BY <1>1, <2>2
    <3>2. x < c => Bounded(rows[x], comp) /\ Compact(rows[x])
      <4>1. DOMAIN rows[x] \subseteq Nat
        BY <1>3 DEF RowsHold
      <4> QED
        BY <1>3, <1>9, <4>1 DEF Bounded
    <3>3. rows[x] = << >> => Bounded(rows[x], comp) /\ Compact(rows[x])
      <4> SUFFICES ASSUME rows[x] = << >> PROVE Bounded(rows[x], comp) /\ Compact(rows[x])
        OBVIOUS
      <4>1. DOMAIN rows[x] = {}
        OBVIOUS
      <4>2. Range(TxNums(rows[x])) = {} /\ TxNums(rows[x]) \in Seq(Nat)
        <5>1. PICK d \in Nat : Bounded(rows[x], d)
          BY <1>5
        <5>2. RowsHold(rows[x], Numbers(chain, x, flushed))
          BY <1>3
        <5>3. Numbers(chain, x, flushed) = {}
          BY <4>1, <5>2 DEF RowsHold
        <5> QED
          BY <5>1, <5>2, <5>3, TxNumsAre
      <4> DEFINE full == TxNums(rows[x])
      <4>3. Len(full) = 0
        <5>1. DOMAIN full = {}
          BY <4>2 DEF Range
        <5>2. Len(full) \in Nat /\ DOMAIN full = 1 .. Len(full)
          BY <4>2, LenProperties
        <5> HIDE DEF full
        <5>3. Len(full) # 0 => 1 \in 1 .. Len(full)
          BY <5>2
        <5> QED
          BY <5>1, <5>2, <5>3
      <4>4. DOMAIN Chunks(full) = {}
        <5>1. DOMAIN Chunks(full) = 0 .. ((Len(full) - 1) \div RowEntries)
          BY DEF Chunks
        <5>2. (0 - 1) \div RowEntries < 0 /\ (0 - 1) \div RowEntries \in Int
          BY CompactionAssumption
        <5> HIDE DEF full
        <5> QED
          BY <4>3, <5>1, <5>2
      <4> QED
        BY <4>1, <4>4 DEF Bounded, Compact
    <3>4. x < cursor => x < c \/ rows[x] = << >>
      BY <1>4, <2>2
    <3> HIDE DEF done
    <3> QED
      BY <1>3, <3>1, <3>2, <3>3, <3>4
  <2> QED
    BY <2>1, <2>2
<1> HIDE DEF done
<1>11. CASE cursor = EndCursor
  <2>1. history' = State(comp, -1, -1) /\ histState' = history' /\ at' = "compacted"
    BY <1>1, <1>11
  <2>2. /\ history' \in States /\ history'.flush_count = comp /\ history'.comp_cursor = -1
    BY <1>9, <2>1 DEF State, States
  <2>3. CompactionTypes'
    BY <1>1, <2>1, <2>2 DEF CompactionTypes, Flushable
  <2>4. Down' /\ Serving' /\ Flushed'
    BY <1>1, <2>1 DEF Down, Serving, Flushed
  <2>5. Up'
    BY <1>1, <1>3, <1>10 DEF Up
  <2>6. \A x \in Hashes : x < cursor
    BY <1>2, <1>11
  <2>7. \A x \in Hashes : Bounded(rows'[x], comp) /\ Compact(rows'[x])
    BY <1>10, <2>6
  <2>8. Compacting'
    BY <2>1, <2>2, <2>7 DEF Compacting
  <2> QED
    BY <2>3, <2>4, <2>5, <2>8 DEF Recoverable
<1>12. CASE cursor # EndCursor
  <2>1. history' = State(F, comp, cursor) /\ histState' = history' /\ at' = "idle"
    BY <1>1, <1>12
  <2>2. cursor \in Hashes /\ cursor \in Nat
    BY <1>2, <1>3, <1>12
  <2>3. /\ history' \in States /\ history'.flush_count = F /\ history'.comp_cursor = cursor
        /\ history'.comp_flush_count = comp
    BY <1>3, <1>9, <2>1, <2>2 DEF State, States
  <2>4. CompactionTypes'
    BY <1>1, <1>9, <2>1, <2>2, <2>3 DEF CompactionTypes, Flushable
  <2>5. Down' /\ Serving' /\ Flushed'
    BY <1>1, <2>1 DEF Down, Serving, Flushed
  <2>6. Up'
    BY <1>1, <1>3, <1>10 DEF Up
  <2>7. RewrittenTo(history)' /\ RewrittenTo(histState)'
    BY <1>10, <2>1, <2>3 DEF RewrittenTo
  <2>8. ASSUME NEW x \in Hashes, x >= cursor PROVE Bounded(rows'[x], F)
    <3>1. x >= c
      BY <1>1, <1>2, <1>3, <2>8
    <3> QED
      BY <1>3, <1>10, <2>8, <3>1
  <2>9. ASSUME F < utxoFlush, NEW x \in Hashes PROVE Bounded(rows'[x], F) /\ Compact(rows'[x])
    <3>1. Bounded(rows[x], F) /\ Compact(rows[x])
      BY <1>1, <1>3, <2>9 DEF Flushable, Recoverable, Compacting
    <3>2. CASE x \in done
      <4>1. rows'[x] = Compacted(rows[x]) /\ DOMAIN Compacted(rows[x]) = DOMAIN chunks[x]
            /\ Compact(Compacted(rows[x]))
        BY <1>1, <1>6, <3>2
      <4>2. DOMAIN rows[x] = DOMAIN chunks[x]
        BY <3>1 DEF Compact, chunks
      <4> QED
        BY <3>1, <4>1, <4>2 DEF Bounded
    <3>3. CASE x \notin done
      BY <1>1, <3>1, <3>3
    <3> QED
      BY <3>2, <3>3
  <2>10. Compacting'
    <3>1. history'.flush_count <= utxoFlush' /\ histState'.flush_count <= utxoFlush'
      BY <1>1, <1>3, <2>1, <2>3
    <3>2. \A x \in Hashes : x >= history'.comp_cursor => Bounded(rows'[x], history'.flush_count)
      BY <2>3, <2>8
    <3>3. histState'.flush_count < utxoFlush' =>
            \A x \in Hashes : Bounded(rows'[x], histState'.flush_count) /\ Compact(rows'[x])
      BY <1>1, <2>1, <2>3, <2>9
    <3>4. histState'.comp_flush_count \in Nat /\ histState'.comp_cursor \in Hashes
      BY <1>9, <2>1, <2>2, <2>3
    <3> QED
      BY <1>1, <2>1, <2>7, <3>1, <3>2, <3>3, <3>4 DEF Compacting
  <2> QED
    BY <2>4, <2>5, <2>6, <2>10 DEF Recoverable
<1> QED
  BY <1>11, <1>12

(* The first state. *)
LEMMA CompactionInitially ==
    ASSUME CompactionInit
    PROVE  CompactionInv
<1>1. /\ chain = << >> /\ rows = [x \in Hashes |-> << >>]
      /\ histState = State(0, -1, -1) /\ history = State(0, -1, -1)
      /\ saved = 0 /\ utxoFlush = 0 /\ flushed = 0 /\ proc = "serving" /\ at = "idle"
  BY DEF CompactionInit
<1>2. /\ history \in States /\ history.flush_count = 0 /\ history.comp_cursor = -1 /\ histState = history
  BY <1>1 DEF State, States
<1>3. chain \in Seq(SUBSET Hashes) /\ Len(chain) = 0
  BY <1>1
<1>4. \A x \in Hashes : rows[x] = << >> /\ DOMAIN << >> = {}
  BY <1>1
<1>5. CompactionTypes
  BY <1>1, <1>2, <1>3 DEF CompactionTypes
<1>6. ASSUME NEW x \in Hashes
      PROVE  Numbers(chain, x, 0) = {} /\ RowsHold(rows[x], {}) /\ Bounded(rows[x], 0)
  <2>1. DOMAIN rows[x] = {}
    BY <1>4
  <2>2. Numbers(chain, x, 0) = {}
    <3>1. 1 .. 0 = {}
      OBVIOUS
    <3> QED
      BY <3>1 DEF Numbers
  <2>3. Bounded(rows[x], 0)
    BY <2>1 DEF Bounded
  <2>4. UNION {Range(rows[x][k]) : k \in DOMAIN rows[x]} = {}
    BY <2>1
  <2>5. RowsHold(rows[x], {})
    <3>1. DOMAIN rows[x] \subseteq Nat
      BY <2>1
    <3>2. \A k \in DOMAIN rows[x] : rows[x][k] \in Seq(Nat) /\ rows[x][k] # << >> /\ Rising(rows[x][k])
      BY <2>1
    <3>3. \A j, k \in DOMAIN rows[x] : j < k =>
            \A m \in Range(rows[x][j]), n \in Range(rows[x][k]) : m < n
      BY <2>1
    <3> QED
      BY <2>4, <3>1, <3>2, <3>3 DEF RowsHold
  <2> QED
    BY <2>2, <2>3, <2>5
<1>7. Up /\ Serving
  <2>1. \A x \in Hashes : RowsHold(rows[x], Numbers(chain, x, flushed))
    BY <1>1, <1>6
  <2>2. \A x \in Hashes : Bounded(rows[x], history.flush_count)
    BY <1>2, <1>6
  <2> QED
    BY <1>1, <1>2, <1>3, <2>1, <2>2 DEF Up, Serving
<1>8. Down /\ Flushed
  BY <1>1 DEF Down, Flushed
<1>9. Compacting
  BY <1>1, <1>2 DEF Compacting
<1> QED
  BY <1>5, <1>7, <1>8, <1>9 DEF CompactionInv, Recoverable

(* Every step keeps the invariant. *)
LEMMA CompactionStep ==
    ASSUME CompactionInv, [CompactionNext]_compactionVars
    PROVE  CompactionInv'
<1>1. CASE UNCHANGED compactionVars
  <2>1. UNCHANGED <<chain, rows, histState, saved, utxoFlush, proc, at, history, flushed, trouble>>
    BY <1>1 DEF compactionVars, diskVars
  <2>2. UNCHANGED <<Excess, Cleared>> /\ \A x \in Hashes : Opened(x)' = Opened(x)
    BY <2>1 DEF Excess, Cleared, Opened
  <2> QED
    BY <2>1, <2>2 DEF CompactionInv, CompactionTypes, Recoverable, Down, Up, Serving, Flushed, Compacting,
      RewrittenTo
<1>2. CASE CompactionNext
  <2>1. ~trouble /\ Flushable
    BY <1>2 DEF CompactionNext, CompactionInv, Flushable
  <2>2. ASSUME NEW hashXs \in Touches, AdvanceTx(hashXs) PROVE CompactionInv'
    BY <2>1, <2>2, AdvanceKeeps DEF CompactionInv
  <2>3. CASE FlushHistory
    BY <2>1, <2>3, FlushKeeps DEF CompactionInv
  <2>4. CASE Backup
    BY <2>1, <2>4, BackupKeeps DEF CompactionInv
  <2>5. CASE CommitUtxos
    BY <2>1, <2>5, CommitKeeps DEF CompactionInv
  <2>6. CASE Shutdown
    <3>1. /\ proc = "serving" /\ at = "idle" /\ proc' = "down" /\ at' = "idle"
          /\ UNCHANGED <<chain, rows, histState, saved, utxoFlush, history, flushed>>
      BY <2>6 DEF Shutdown, diskVars
    <3> QED
      BY <2>1, <3>1, IdleStops DEF CompactionInv
  <2>7. CASE OpenForServing
    BY <2>1, <2>7, OpenForServingKeeps DEF CompactionInv
  <2>8. CASE OpenForCompacting
    BY <2>1, <2>8, OpenForCompactingKeeps DEF CompactionInv
  <2>9. ASSUME NEW cursor \in 2 .. EndCursor, CompactPass(cursor) PROVE CompactionInv'
    BY <2>1, <2>9, CompactPassKeeps DEF CompactionInv
  <2>10. CASE set_flush_count
    BY <2>1, <2>10, SetFlushCountKeeps DEF CompactionInv
  <2>11. CASE Kill
    <3>1. CASE KilledInBackup \/ KilledBehind \/ KilledPast
      <4>1. /\ trouble' /\ proc' = "down" /\ at' = "idle"
            /\ UNCHANGED <<chain, rows, histState, saved, utxoFlush, history, flushed>>
        BY <2>11, <3>1 DEF Kill, diskVars
      <4>2. CompactionTypes'
        BY <2>1, <4>1 DEF Flushable, CompactionTypes
      <4> QED
        BY <4>1, <4>2 DEF CompactionInv
    <3>2. CASE ~(KilledInBackup \/ KilledBehind \/ KilledPast)
      BY <2>1, <2>11, <3>2, KillKeeps DEF CompactionInv
    <3> QED
      BY <3>1, <3>2
  <2> QED
    BY <1>2, <2>2, <2>3, <2>4, <2>5, <2>6, <2>7, <2>8, <2>9, <2>10, <2>11 DEF CompactionNext
<1> QED
  BY <1>1, <1>2

(* What the invariant says of an address's rows. *)
LEMMA HistoryFollows ==
    ASSUME CompactionInv
    PROVE  HistoryKept
<1> SUFFICES ASSUME proc # "down", ~trouble, NEW x \in Hashes
             PROVE  /\ TxNums(rows[x]) = TxsOf(x, 1, flushed)
                    /\ proc = "serving" => \A k \in DOMAIN rows[x] : k <= history.flush_count
  BY DEF HistoryKept
<1>1. Flushable
  BY DEF CompactionInv, Flushable
<1>2. /\ RowsHold(rows[x], Numbers(chain, x, flushed)) /\ flushed \in Nat /\ history \in States
      /\ proc = "serving" => Bounded(rows[x], history.flush_count)
  BY <1>1 DEF Flushable, CompactionTypes, Recoverable, Up, Serving
<1>3. \E b \in Nat : Bounded(rows[x], b)
  <2>1. history.flush_count \in Nat
    BY <1>2 DEF States
  <2>2. CASE proc = "compacting" /\ at = "idle"
    <3>1. PICK n \in Nat : Hashes = 1 .. n
      BY HashesAre
    <3>2. history.comp_cursor \in Hashes /\ history.comp_flush_count \in Nat
      BY <1>1, <2>2 DEF Flushable, CompactionTypes
    <3>3. x < history.comp_cursor \/ x >= history.comp_cursor
      BY <3>1, <3>2
    <3>4. x < history.comp_cursor => Bounded(rows[x], history.comp_flush_count)
      BY <1>1, <2>2 DEF Flushable, Recoverable, Compacting, RewrittenTo
    <3>5. x >= history.comp_cursor => Bounded(rows[x], history.flush_count)
      BY <1>1, <2>2 DEF Flushable, Recoverable, Compacting
    <3> QED
      BY <2>1, <3>2, <3>3, <3>4, <3>5
  <2>3. CASE at = "compacted"
    <3>1. Bounded(rows[x], history.flush_count)
      BY <1>1, <2>3 DEF Flushable, Recoverable, Compacting
    <3> QED
      BY <2>1, <3>1
  <2>4. CASE proc = "serving"
    BY <1>2, <2>1, <2>4
  <2>5. proc = "serving" \/ at = "compacted" \/ (proc = "compacting" /\ at = "idle")
    BY <1>1 DEF Flushable, CompactionTypes
  <2> QED
    BY <2>2, <2>3, <2>4, <2>5
<1> DEFINE all == TxsOf(x, 1, flushed)
<1>4. all \in Seq(Nat) /\ Rising(all) /\ Range(all) = Numbers(chain, x, flushed)
  <2>1. all = NotedFrom(chain, x, 1, flushed)
    BY DEF TxsOf, NotedFrom
  <2>2. Between(chain, x, 1, flushed) = Numbers(chain, x, flushed)
    BY DEF Between, Numbers
  <2>3. 1 \in Nat \ {0} /\ flushed \in Nat /\ 1 <= flushed + 1
    BY <1>2
  <2> HIDE DEF all
  <2> QED
    BY <2>1, <2>2, <2>3, NotedAre
<1> HIDE DEF all
<1>5. /\ TxNums(rows[x]) \in Seq(Nat) /\ Rising(TxNums(rows[x]))
      /\ Range(TxNums(rows[x])) = Numbers(chain, x, flushed)
  BY <1>2, <1>3, TxNumsAre
<1>6. TxNums(rows[x]) = all
  BY <1>4, <1>5, RisingEqual
<1> QED
  BY <1>2, <1>6 DEF Bounded, all

(* Whatever order flushes, backups, openings, passes of the script in any length and kills
   come in, the rows of an address in the order of their keys are its flushed txs, once each
   and in their order, unless one of the three kills came first. *)
THEOREM HistoryAlwaysKept == CompactionInit /\ [][CompactionNext]_compactionVars => []HistoryKept
<1>1. CompactionInit => CompactionInv
  BY CompactionInitially
<1>2. CompactionInv /\ [CompactionNext]_compactionVars => CompactionInv'
  BY CompactionStep
<1>3. CompactionInv => HistoryKept
  BY HistoryFollows
<1> QED
  BY <1>1, <1>2, <1>3, PTL

-----------------------------------------------------------------------------
(* Sums over finite sets *)

(* The sum of f's values over S; the recursion that defines it. *)
Total(f, S) == SumFunctionOnSet(f, S)
AnyOf(S) == CHOOSE x \in S : TRUE
Sums(f, S, h) ==
    h = [s \in SUBSET S |-> IF s = {} THEN 0 ELSE f[AnyOf(s)] + h[s \ {AnyOf(s)}]]

(* Subsets of a finite set are finite, and one element less is one less. *)
LEMMA OneLess ==
    ASSUME NEW S, IsFiniteSet(S), NEW T, T \subseteq S, NEW x \in T
    PROVE  /\ IsFiniteSet(T) /\ IsFiniteSet(T \ {x})
           /\ Cardinality(T) \in Nat \ {0} /\ Cardinality(T \ {x}) = Cardinality(T) - 1
<1>1. IsFiniteSet(T)
  BY FS_Subset
<1>2. Cardinality(T) \in Nat /\ (Cardinality(T) = 0 <=> T = {})
  BY <1>1, FS_CardinalityType, FS_EmptySet
<1>3. IsFiniteSet(T \ {x}) /\ Cardinality(T \ {x}) = Cardinality(T) - 1
  BY <1>1, FS_RemoveElement
<1> QED
  BY <1>1, <1>2, <1>3

(* The recursion has a solution. *)
LEMMA SumsExist ==
    ASSUME NEW f, NEW S, IsFiniteSet(S)
    PROVE  \E h : Sums(f, S, h)
<1> DEFINE n == Cardinality(S)
           Upto(h, k) == \A s \in SUBSET S : Cardinality(s) <= k =>
                           h[s] = IF s = {} THEN 0 ELSE f[AnyOf(s)] + h[s \ {AnyOf(s)}]
           D == {k \in 0 .. n : \E h : DOMAIN h = SUBSET S /\ h = [s \in SUBSET S |-> h[s]] /\ Upto(h, k)}
<1>0. n \in Nat /\ \A s \in SUBSET S : IsFiniteSet(s) /\ Cardinality(s) \in Nat /\ Cardinality(s) <= n
                                         /\ (Cardinality(s) = 0 <=> s = {})
  BY FS_CardinalityType, FS_Subset, FS_EmptySet
<1>1. 0 \in D
  <2> DEFINE h == [s \in SUBSET S |-> 0]
  <2>1. Upto(h, 0)
    <3> SUFFICES ASSUME NEW s \in SUBSET S, Cardinality(s) <= 0
                 PROVE  h[s] = IF s = {} THEN 0 ELSE f[AnyOf(s)] + h[s \ {AnyOf(s)}]
      OBVIOUS
    <3>1. s = {}
      BY <1>0
    <3> QED
      BY <3>1
  <2>2. DOMAIN h = SUBSET S /\ h = [s \in SUBSET S |-> h[s]] /\ 0 \in 0 .. n
    BY <1>0
  <2> HIDE DEF h
  <2> QED
    BY <2>1, <2>2
<1>2. ASSUME NEW k \in 1 .. n, k - 1 \in D PROVE k \in D
  <2>1. PICK h : DOMAIN h = SUBSET S /\ h = [s \in SUBSET S |-> h[s]] /\ Upto(h, k - 1)
    BY <1>2
  <2> DEFINE g == [s \in SUBSET S |->
                     IF Cardinality(s) < k THEN h[s] ELSE f[AnyOf(s)] + h[s \ {AnyOf(s)}]]
  <2>2. ASSUME NEW s \in SUBSET S, Cardinality(s) <= k
        PROVE  g[s] = IF s = {} THEN 0 ELSE f[AnyOf(s)] + g[s \ {AnyOf(s)}]
    <3>0. Cardinality(s) \in Nat /\ k \in Nat \ {0} /\ k - 1 \in Nat
      BY <1>0
    <3>1. CASE s = {}
      <4>1. Cardinality(s) = 0
        BY <1>0, <3>1
      <4>2. g[s] = h[s] /\ Cardinality(s) <= k - 1
        BY <3>0, <4>1
      <4> QED
        BY <2>1, <3>1, <4>2
    <3>2. CASE s # {}
      <4>1. AnyOf(s) \in s
        BY <3>2 DEF AnyOf
      <4>2. Cardinality(s \ {AnyOf(s)}) = Cardinality(s) - 1
        BY <4>1, OneLess
      <4>3. g[s \ {AnyOf(s)}] = h[s \ {AnyOf(s)}]
        <5>1. s \ {AnyOf(s)} \in SUBSET S /\ Cardinality(s \ {AnyOf(s)}) < k
          BY <2>2, <3>0, <4>2
        <5> QED
          BY <5>1
      <4>4. CASE Cardinality(s) < k
        <5>1. h[s] = f[AnyOf(s)] + h[s \ {AnyOf(s)}]
          <6>1. Cardinality(s) <= k - 1
            BY <3>0, <4>4
          <6> QED
            BY <2>1, <3>2, <6>1
        <5>2. g[s] = h[s]
          BY <4>4
        <5> HIDE DEF g
        <5> QED
          BY <3>2, <4>3, <5>1, <5>2
      <4>5. CASE ~(Cardinality(s) < k)
        <5>1. g[s] = f[AnyOf(s)] + h[s \ {AnyOf(s)}]
          BY <4>5
        <5> HIDE DEF g
        <5> QED
          BY <3>2, <4>3, <5>1
      <4> QED
        BY <4>4, <4>5
    <3> QED
      BY <3>1, <3>2
  <2>3. DOMAIN g = SUBSET S /\ g = [s \in SUBSET S |-> g[s]]
    OBVIOUS
  <2>4. k \in 0 .. n
    BY <1>0
  <2> HIDE DEF g
  <2>5. Upto(g, k)
    BY <2>2
  <2> QED
    BY <2>3, <2>4, <2>5
<1>3. n \in D
  <2> HIDE DEF D
  <2>1. n \in 0 .. n
    BY <1>0
  <2> HIDE DEF n
  <2> QED
    BY <1>0, <1>1, <1>2, <2>1, UpTo
<1>4. PICK h : DOMAIN h = SUBSET S /\ h = [s \in SUBSET S |-> h[s]] /\ Upto(h, n)
  BY <1>3
<1>5. \A s \in SUBSET S : h[s] = IF s = {} THEN 0 ELSE f[AnyOf(s)] + h[s \ {AnyOf(s)}]
  BY <1>0, <1>4
<1> QED
  BY <1>4, <1>5 DEF Sums

(* Of two sums over sets that share a subset, both have the same for it. *)
LEMMA SumsAgree ==
    ASSUME NEW f, NEW S, IsFiniteSet(S), NEW R, IsFiniteSet(R), NEW g, NEW h,
           Sums(f, S, g), Sums(f, R, h), NEW T, T \subseteq S, T \subseteq R
    PROVE  g[T] = h[T]
<1> DEFINE n == Cardinality(T)
           D == {k \in 0 .. n : \A s \in SUBSET T : Cardinality(s) = k => g[s] = h[s]}
<1>0. n \in Nat /\ \A s \in SUBSET T : Cardinality(s) \in Nat /\ (Cardinality(s) = 0 <=> s = {})
  BY FS_CardinalityType, FS_Subset, FS_EmptySet
<1>1. 0 \in D
  <2>1. g[{}] = 0 /\ h[{}] = 0
    BY DEF Sums
  <2> QED
    BY <1>0, <2>1
<1>2. ASSUME NEW k \in 1 .. n, k - 1 \in D PROVE k \in D
  <2> SUFFICES ASSUME NEW s \in SUBSET T, Cardinality(s) = k PROVE g[s] = h[s]
    BY <1>0
  <2>1. s # {}
    BY <1>0
  <2>2. AnyOf(s) \in s
    BY <2>1 DEF AnyOf
  <2>3. Cardinality(s \ {AnyOf(s)}) = k - 1
    BY <2>2, OneLess
  <2>4. g[s \ {AnyOf(s)}] = h[s \ {AnyOf(s)}]
    BY <1>2, <2>3
  <2>5. g[s] = f[AnyOf(s)] + g[s \ {AnyOf(s)}] /\ h[s] = f[AnyOf(s)] + h[s \ {AnyOf(s)}]
    BY <2>1 DEF Sums
  <2> QED
    BY <2>4, <2>5
<1>3. n \in D
  <2> HIDE DEF D
  <2>1. n \in 0 .. n
    BY <1>0
  <2> HIDE DEF n
  <2> QED
    BY <1>0, <1>1, <1>2, <2>1, UpTo
<1> QED
  BY <1>0, <1>3

(* A sum is that of an element and the rest. *)
LEMMA TotalIs ==
    ASSUME NEW f, NEW S, IsFiniteSet(S)
    PROVE  Total(f, S) = IF S = {} THEN 0 ELSE f[AnyOf(S)] + Total(f, S \ {AnyOf(S)})
<1>1. \A R : Total(f, R) = (CHOOSE h : Sums(f, R, h))[R]
  BY DEF Total, SumFunctionOnSet, FoldFunctionOnSet, MapThenFoldSet, Sums, AnyOf
<1>2. PICK h : Sums(f, S, h) /\ Total(f, S) = h[S]
  BY <1>1, SumsExist
<1>3. h[S] = IF S = {} THEN 0 ELSE f[AnyOf(S)] + h[S \ {AnyOf(S)}]
  BY <1>2 DEF Sums
<1>4. ASSUME NEW R, R \subseteq S PROVE h[R] = Total(f, R)
  <2>1. IsFiniteSet(R)
    BY <1>4, FS_Subset
  <2>2. PICK g : Sums(f, R, g) /\ Total(f, R) = g[R]
    BY <1>1, <2>1, SumsExist
  <2> QED
    BY <1>2, <1>4, <2>1, <2>2, SumsAgree
<1> QED
  BY <1>2, <1>3, <1>4

(* Sums of numbers are numbers. *)
LEMMA TotalType ==
    ASSUME NEW f, NEW S, IsFiniteSet(S), \A x \in S : f[x] \in Int
    PROVE  Total(f, S) \in Int
<1> DEFINE n == Cardinality(S)
           D == {k \in 0 .. n : \A T \in SUBSET S : Cardinality(T) = k => Total(f, T) \in Int}
<1>0. n \in Nat /\ \A T \in SUBSET S : IsFiniteSet(T) /\ (Cardinality(T) = 0 <=> T = {})
  BY FS_CardinalityType, FS_Subset, FS_EmptySet
<1>1. 0 \in D
  <2>1. Total(f, {}) = 0
    BY FS_EmptySet, TotalIs
  <2> QED
    BY <1>0, <2>1
<1>2. ASSUME NEW k \in 1 .. n, k - 1 \in D PROVE k \in D
  <2> SUFFICES ASSUME NEW T \in SUBSET S, Cardinality(T) = k PROVE Total(f, T) \in Int
    BY <1>0
  <2>1. T # {} /\ IsFiniteSet(T)
    BY <1>0
  <2>2. AnyOf(T) \in T
    BY <2>1 DEF AnyOf
  <2>3. Cardinality(T \ {AnyOf(T)}) = k - 1
    BY <2>2, OneLess
  <2>4. Total(f, T \ {AnyOf(T)}) \in Int /\ f[AnyOf(T)] \in Int
    BY <1>2, <2>2, <2>3
  <2>5. Total(f, T) = f[AnyOf(T)] + Total(f, T \ {AnyOf(T)})
    BY <2>1, TotalIs
  <2> QED
    BY <2>4, <2>5
<1>3. n \in D
  <2> HIDE DEF D
  <2>1. n \in 0 .. n
    BY <1>0
  <2> HIDE DEF n
  <2> QED
    BY <1>0, <1>1, <1>2, <2>1, UpTo
<1> QED
  BY <1>0, <1>3

(* One more element adds its value, whichever elements the recursion takes first. *)
LEMMA TotalAdds ==
    ASSUME NEW f, NEW S, IsFiniteSet(S), \A y \in S : f[y] \in Int, NEW x \in S
    PROVE  Total(f, S) = f[x] + Total(f, S \ {x})
<1> DEFINE n == Cardinality(S)
           D == {k \in 0 .. n : \A T \in SUBSET S : Cardinality(T) = k =>
                                  \A z \in T : Total(f, T) = f[z] + Total(f, T \ {z})}
<1>0. n \in Nat /\ \A T \in SUBSET S : IsFiniteSet(T) /\ (Cardinality(T) = 0 <=> T = {})
  BY FS_CardinalityType, FS_Subset, FS_EmptySet
<1>1. 0 \in D
  BY <1>0
<1>2. ASSUME NEW k \in 1 .. n, k - 1 \in D PROVE k \in D
  <2> SUFFICES ASSUME NEW T \in SUBSET S, Cardinality(T) = k, NEW z \in T
               PROVE  Total(f, T) = f[z] + Total(f, T \ {z})
    BY <1>0
  <2>1. T # {} /\ IsFiniteSet(T)
    BY <1>0
  <2> DEFINE p == AnyOf(T)
  <2>2. p \in T
    BY <2>1 DEF AnyOf
  <2>3. Total(f, T) = f[p] + Total(f, T \ {p})
    BY <2>1, TotalIs
  <2> HIDE DEF p
  <2>4. CASE p = z
    BY <2>3, <2>4
  <2>5. CASE p # z
    <3>1. Cardinality(T \ {p}) = k - 1 /\ Cardinality(T \ {z}) = k - 1
      BY <2>2, OneLess
    <3>2. Total(f, T \ {p}) = f[z] + Total(f, (T \ {p}) \ {z})
      <4>1. T \ {p} \in SUBSET S /\ z \in T \ {p}
        BY <2>5
      <4> QED
        BY <1>2, <3>1, <4>1
    <3>3. Total(f, T \ {z}) = f[p] + Total(f, (T \ {z}) \ {p})
      <4>1. T \ {z} \in SUBSET S /\ p \in T \ {z}
        BY <2>2, <2>5
      <4> QED
        BY <1>2, <3>1, <4>1
    <3>4. (T \ {p}) \ {z} = (T \ {z}) \ {p}
      OBVIOUS
    <3>5. Total(f, (T \ {z}) \ {p}) \in Int /\ f[p] \in Int /\ f[z] \in Int
      <4>1. (T \ {z}) \ {p} \in SUBSET S
        OBVIOUS
      <4> QED
        BY <1>0, <2>2, <4>1, TotalType
    <3>6. Total(f, (T \ {p}) \ {z}) = Total(f, (T \ {z}) \ {p})
      BY <3>4
    <3> DEFINE rest == Total(f, (T \ {z}) \ {p})
    <3>7. /\ Total(f, T) = f[p] + (f[z] + rest) /\ Total(f, T \ {z}) = f[p] + rest
          /\ rest \in Int /\ f[p] \in Int /\ f[z] \in Int
      BY <2>3, <3>2, <3>3, <3>5, <3>6
    <3> HIDE DEF rest
    <3> QED
      BY <3>7
  <2> QED
    BY <2>4, <2>5
<1>3. n \in D
  <2> HIDE DEF D
  <2>1. n \in 0 .. n
    BY <1>0
  <2> HIDE DEF n
  <2> QED
    BY <1>0, <1>1, <1>2, <2>1, UpTo
<1> QED
  BY <1>0, <1>3

(* A set that falls in two. *)
LEMMA TotalUnion ==
    ASSUME NEW f, NEW S, IsFiniteSet(S), NEW R, IsFiniteSet(R), S \cap R = {},
           \A y \in S \cup R : f[y] \in Int
    PROVE  Total(f, S \cup R) = Total(f, S) + Total(f, R)
<1> DEFINE n == Cardinality(R)
           D == {k \in 0 .. n : \A T \in SUBSET R : Cardinality(T) = k =>
                                  Total(f, S \cup T) = Total(f, S) + Total(f, T)}
<1>0. /\ n \in Nat /\ IsFiniteSet(S \cup R)
      /\ \A T \in SUBSET R : IsFiniteSet(T) /\ IsFiniteSet(S \cup T) /\ (Cardinality(T) = 0 <=> T = {})
  BY FS_CardinalityType, FS_Subset, FS_EmptySet, FS_Union
<1>1. 0 \in D
  <2>1. Total(f, {}) = 0 /\ Total(f, S) \in Int /\ S \cup {} = S
    BY FS_EmptySet, TotalIs, TotalType
  <2>2. Total(f, S \cup {}) = Total(f, S) + Total(f, {})
    BY <2>1
  <2> QED
    BY <1>0, <2>2
<1>2. ASSUME NEW k \in 1 .. n, k - 1 \in D PROVE k \in D
  <2> SUFFICES ASSUME NEW T \in SUBSET R, Cardinality(T) = k
               PROVE  Total(f, S \cup T) = Total(f, S) + Total(f, T)
    BY <1>0
  <2>1. PICK x : x \in T
    BY <1>0
  <2>2. Cardinality(T \ {x}) = k - 1
    BY <2>1, OneLess
  <2>3. Total(f, S \cup (T \ {x})) = Total(f, S) + Total(f, T \ {x})
    BY <1>2, <2>2
  <2>4. Total(f, T) = f[x] + Total(f, T \ {x})
    <3>1. IsFiniteSet(T) /\ \A y \in T : f[y] \in Int
      BY <1>0
    <3> QED
      BY <2>1, <3>1, TotalAdds
  <2>5. Total(f, S \cup T) = f[x] + Total(f, (S \cup T) \ {x})
    <3>1. IsFiniteSet(S \cup T) /\ x \in S \cup T /\ \A y \in S \cup T : f[y] \in Int
      BY <1>0, <2>1
    <3> QED
      BY <3>1, TotalAdds
  <2>6. (S \cup T) \ {x} = S \cup (T \ {x})
    BY <2>1
  <2>7. f[x] \in Int /\ Total(f, S) \in Int /\ Total(f, T \ {x}) \in Int
    <3>1. T \ {x} \in SUBSET R
      OBVIOUS
    <3> QED
      BY <1>0, <2>1, <3>1, TotalType
  <2>8. Total(f, (S \cup T) \ {x}) = Total(f, S \cup (T \ {x}))
    BY <2>6
  <2> DEFINE all == Total(f, S)
             rest == Total(f, T \ {x})
  <2>9. /\ Total(f, S \cup T) = f[x] + (all + rest) /\ Total(f, T) = f[x] + rest
        /\ all \in Int /\ rest \in Int /\ f[x] \in Int
    BY <2>3, <2>4, <2>5, <2>7, <2>8
  <2> HIDE DEF all, rest
  <2>10. Total(f, S \cup T) = all + Total(f, T)
    BY <2>9
  <2> QED
    BY <2>10 DEF all
<1>3. n \in D
  <2> HIDE DEF D
  <2>1. n \in 0 .. n
    BY <1>0
  <2> HIDE DEF n
  <2> QED
    BY <1>0, <1>1, <1>2, <2>1, UpTo
<1> QED
  BY <1>0, <1>3

(* Two sums over sets of the same size, element by element: of the same values, or of
   opposite ones. *)
LEMMA TotalMapped ==
    ASSUME NEW f, NEW g, NEW S, IsFiniteSet(S), NEW c, NEW sign \in {1, -1},
           \A x \in S : f[x] \in Int /\ g[c[x]] = IF sign = 1 THEN f[x] ELSE -f[x],
           \A x, y \in S : c[x] = c[y] => x = y
    PROVE  Total(g, {c[x] : x \in S}) = IF sign = 1 THEN Total(f, S) ELSE -Total(f, S)
<1> DEFINE n == Cardinality(S)
           D == {k \in 0 .. n : \A T \in SUBSET S : Cardinality(T) = k =>
                   /\ IsFiniteSet({c[x] : x \in T})
                   /\ Total(g, {c[x] : x \in T}) = IF sign = 1 THEN Total(f, T) ELSE -Total(f, T)}
<1>0. n \in Nat /\ \A T \in SUBSET S : IsFiniteSet(T) /\ (Cardinality(T) = 0 <=> T = {})
  BY FS_CardinalityType, FS_Subset, FS_EmptySet
<1>1. 0 \in D
  <2>1. Total(f, {}) = 0 /\ Total(g, {}) = 0 /\ IsFiniteSet({}) /\ {c[x] : x \in {}} = {}
    BY FS_EmptySet, TotalIs
  <2> QED
    BY <1>0, <2>1
<1>2. ASSUME NEW k \in 1 .. n, k - 1 \in D PROVE k \in D
  <2> SUFFICES ASSUME NEW T \in SUBSET S, Cardinality(T) = k
               PROVE  /\ IsFiniteSet({c[x] : x \in T})
                      /\ Total(g, {c[x] : x \in T}) = IF sign = 1 THEN Total(f, T) ELSE -Total(f, T)
    BY <1>0
  <2>1. PICK x : x \in T
    BY <1>0
  <2> DEFINE U == {c[y] : y \in T}
             V == {c[y] : y \in T \ {x}}
  <2>2. Cardinality(T \ {x}) = k - 1 /\ T \ {x} \in SUBSET S
    BY <2>1, OneLess
  <2>3. IsFiniteSet(V) /\ Total(g, V) = IF sign = 1 THEN Total(f, T \ {x}) ELSE -Total(f, T \ {x})
    BY <1>2, <2>2
  <2>4. U = V \cup {c[x]} /\ c[x] \in U /\ U \ {c[x]} = V
    BY <2>1
  <2>5. \A u \in U : g[u] \in Int
    <3>1. \A y \in T : g[c[y]] \in Int
      OBVIOUS
    <3> QED
      BY <3>1
  <2> HIDE DEF U, V
  <2>6. IsFiniteSet(U)
    BY <2>3, <2>4, FS_AddElement
  <2>7. Total(g, U) = g[c[x]] + Total(g, V)
    BY <2>4, <2>5, <2>6, TotalAdds
  <2>8. Total(f, T) = f[x] + Total(f, T \ {x})
    BY <1>0, <2>1, TotalAdds
  <2>9. f[x] \in Int /\ Total(f, T \ {x}) \in Int
    BY <1>0, <2>1, <2>2, TotalType
  <2>10. Total(g, U) = IF sign = 1 THEN Total(f, T) ELSE -Total(f, T)
    BY <2>1, <2>3, <2>7, <2>8, <2>9
  <2> QED
    BY <2>6, <2>10 DEF U
<1>3. n \in D
  <2> HIDE DEF D
  <2>1. n \in 0 .. n
    BY <1>0
  <2> HIDE DEF n
  <2> QED
    BY <1>0, <1>1, <1>2, <2>1, UpTo
<1> QED
  BY <1>0, <1>3

-----------------------------------------------------------------------------
(* PoolTokens: maps of sets, and the subscriptions *)

(* A key has a member; no key is without. *)
Holds(map, key, member) == key \in DOMAIN map /\ member \in map[key]
NoneEmpty(map) == \A key \in DOMAIN map : map[key] # {}

(* A member joins a key. *)
LEMMA JoinedIs ==
    ASSUME NEW map, NEW key, NEW member
    PROVE  /\ \A k, m : Holds(Joined(map, key, member), k, m) <=> Holds(map, k, m) \/ (k = key /\ m = member)
           /\ DOMAIN Joined(map, key, member) = DOMAIN map \cup {key}
           /\ NoneEmpty(map) => NoneEmpty(Joined(map, key, member))
<1> DEFINE new == Joined(map, key, member)
<1>1. /\ DOMAIN new = DOMAIN map \cup {key}
      /\ new[key] = Of(map, key) \cup {member}
      /\ \A k \in DOMAIN map : k # key => new[k] = map[k]
  BY DEF Joined, Updated
<1>2. \A m : m \in Of(map, key) <=> Holds(map, key, m)
  BY DEF Of, Holds
<1> HIDE DEF new
<1>3. \A k, m : Holds(new, k, m) <=> Holds(map, k, m) \/ (k = key /\ m = member)
  <2> TAKE k, m
  <2>1. CASE k = key
    BY <1>1, <1>2, <2>1 DEF Holds
  <2>2. CASE k # key
    BY <1>1, <2>2 DEF Holds
  <2> QED
    BY <2>1, <2>2
<1>4. NoneEmpty(map) => NoneEmpty(new)
  BY <1>1 DEF NoneEmpty
<1> QED
  BY <1>1, <1>3, <1>4 DEF new

(* A member leaves a key, and the key goes with the last one. *)
LEMMA LeftIs ==
    ASSUME NEW map, NEW key, NEW member
    PROVE  /\ \A k, m : Holds(Left(map, key, member), k, m) <=> Holds(map, k, m) /\ ~(k = key /\ m = member)
           /\ DOMAIN Left(map, key, member) \subseteq DOMAIN map
           /\ NoneEmpty(map) => NoneEmpty(Left(map, key, member))
<1> DEFINE new == Left(map, key, member)
<1>1. CASE key \notin DOMAIN map
  BY <1>1 DEF Left, Holds
<1>2. CASE key \in DOMAIN map /\ map[key] \subseteq {member}
  <2>1. DOMAIN new = DOMAIN map \ {key} /\ \A k \in DOMAIN new : new[k] = map[k]
    BY <1>2 DEF Left, Restrict
  <2> HIDE DEF new
  <2>2. \A k, m : Holds(new, k, m) <=> Holds(map, k, m) /\ ~(k = key /\ m = member)
    BY <1>2, <2>1 DEF Holds
  <2> QED
    BY <2>1, <2>2 DEF new, NoneEmpty
<1>3. CASE key \in DOMAIN map /\ ~(map[key] \subseteq {member})
  <2>1. /\ DOMAIN new = DOMAIN map /\ new[key] = map[key] \ {member}
        /\ \A k \in DOMAIN map : k # key => new[k] = map[k]
    BY <1>3 DEF Left
  <2> HIDE DEF new
  <2>2. \A k, m : Holds(new, k, m) <=> Holds(map, k, m) /\ ~(k = key /\ m = member)
    <3> TAKE k, m
    <3>1. CASE k = key
      BY <1>3, <2>1, <3>1 DEF Holds
    <3>2. CASE k # key
      BY <2>1, <3>2 DEF Holds
    <3> QED
      BY <3>1, <3>2
  <2>3. new[key] # {}
    BY <1>3, <2>1
  <2> QED
    BY <2>1, <2>2, <2>3 DEF new, NoneEmpty
<1> QED
  BY <1>1, <1>2, <1>3

(* A finite set in some order is a sequence of its elements. *)
LEMMA OrderOf ==
    ASSUME NEW S, IsFiniteSet(S), NEW seq \in [1 .. Cardinality(S) -> S], IsInjective(seq)
    PROVE  /\ Len(seq) \in Nat /\ DOMAIN seq = 1 .. Len(seq)
           /\ S = {seq[n] : n \in 1 .. Len(seq)}
<1> DEFINE n == Cardinality(S)
<1>1. n \in Nat
  BY FS_CardinalityType
<1>2. seq \in Surjection(1 .. n, S)
  <2>1. seq \in Injection(1 .. n, S)
    BY DEF Injection
  <2>2. Cardinality(1 .. n) = n
    <3>1. 1 \in Int /\ n \in Int /\ (1 > n => n = 0) /\ n - 1 + 1 = n
      BY <1>1
    <3>2. Cardinality(1 .. n) = IF 1 > n THEN 0 ELSE n - 1 + 1
      BY <3>1, FS_Interval
    <3> QED
      BY <3>1, <3>2
  <2> HIDE DEF n
  <2> QED
    BY <2>1, <2>2, FS_Injection DEF n
<1>3. seq \in [1 .. n -> S] /\ seq \in Seq(S)
  BY <1>1
<1> HIDE DEF n
<1>4. Len(seq) = n /\ DOMAIN seq = 1 .. n
  <2>1. Len(seq) \in Nat /\ DOMAIN seq = 1 .. Len(seq) /\ DOMAIN seq = 1 .. n
    BY <1>3, LenProperties
  <2> QED
    BY <1>1, <1>3, <2>1
<1>5. S = {seq[k] : k \in 1 .. n}
  BY <1>2, <1>3 DEF Surjection
<1> QED
  BY <1>1, <1>4, <1>5

(* So is what SetToSeq makes of it. *)
LEMMA SequenceOf ==
    ASSUME NEW S, IsFiniteSet(S)
    PROVE  /\ Len(SetToSeq(S)) \in Nat /\ DOMAIN SetToSeq(S) = 1 .. Len(SetToSeq(S))
           /\ S = {SetToSeq(S)[n] : n \in 1 .. Len(SetToSeq(S))}
<1>1. \E f \in [1 .. Cardinality(S) -> S] : IsInjective(f)
  BY FS_CardinalityType DEF ExistsBijection, Bijection, Injection
<1>2. SetToSeq(S) \in [1 .. Cardinality(S) -> S] /\ IsInjective(SetToSeq(S))
  BY <1>1 DEF SetToSeq
<1> QED
  BY <1>2, OrderOf

(* A session leaves one key after another. *)
LeaveKey(s, d, map, key) == Left(map, key, s)
LeaveLoop == INSTANCE StepFold WITH Step <- LeaveKey

LeftBy(map, s, K) == FoldLeft(LAMBDA m, key : Left(m, key, s), map, SetToSeq(K))

(* A session leaves every key of a finite set, and no other session does. *)
LEMMA LeftAll ==
    ASSUME NEW map, NEW s, NEW K, IsFiniteSet(K)
    PROVE  LET new == LeftBy(map, s, K) IN
           /\ \A k, m : Holds(new, k, m) <=> Holds(map, k, m) /\ ~(k \in K /\ m = s)
           /\ DOMAIN new \subseteq DOMAIN map
           /\ NoneEmpty(map) => NoneEmpty(new)
<1> DEFINE seq == SetToSeq(K)
           new == LeftBy(map, s, K)
<1>1. Len(seq) \in Nat /\ DOMAIN seq = 1 .. Len(seq) /\ K = {seq[n] : n \in 1 .. Len(seq)}
  BY SequenceOf
<1> DEFINE n == Len(seq)
<1> HIDE DEF seq, new
<1>2. PICK a : /\ a[0] = map /\ new = a[n]
               /\ \A k \in 1 .. n : a[k] = Left(a[k - 1], seq[k], s)
  <2>1. new = LeaveLoop!Fold(s, 0, map, seq)
    BY DEF new, seq, LeftBy, LeaveKey, LeaveLoop!Fold, LeaveLoop!FoldLeft, FoldLeft,
           LeaveLoop!MapThenFoldSet, MapThenFoldSet, LeaveLoop!Max, Max
  <2>2. PICK a : LeaveLoop!Loop(s, 0, map, seq, a)
    BY <1>1, LeaveLoop!FoldsAre
  <2> QED
    BY <2>1, <2>2 DEF LeaveLoop!Loop, LeaveKey
<1> DEFINE Gone(i) == {seq[k] : k \in 1 .. i}
           D == {i \in 0 .. n :
                   /\ \A k, m : Holds(a[i], k, m) <=> Holds(map, k, m) /\ ~(k \in Gone(i) /\ m = s)
                   /\ DOMAIN a[i] \subseteq DOMAIN map
                   /\ NoneEmpty(map) => NoneEmpty(a[i])}
<1> HIDE DEF n
<1>3. 0 \in D
  <2>1. 1 .. 0 = {} /\ 0 \in 0 .. n
    BY <1>1 DEF n
  <2>2. Gone(0) = {}
    BY <2>1
  <2> QED
    BY <1>2, <2>1, <2>2
<1>4. ASSUME NEW i \in 1 .. n, i - 1 \in D PROVE i \in D
  <2>1. n \in Nat /\ i \in 0 .. n
    BY <1>1 DEF n
  <2>2. Gone(i) = Gone(i - 1) \cup {seq[i]}
    <3>1. 1 .. i = (1 .. i - 1) \cup {i}
      BY <2>1
    <3> QED
      BY <3>1
  <2>3. a[i] = Left(a[i - 1], seq[i], s)
    BY <1>2
  <2>4. /\ \A k, m : Holds(a[i], k, m) <=> Holds(a[i - 1], k, m) /\ ~(k = seq[i] /\ m = s)
        /\ DOMAIN a[i] \subseteq DOMAIN a[i - 1]
        /\ NoneEmpty(a[i - 1]) => NoneEmpty(a[i])
    BY <2>3, LeftIs
  <2>5. \A k, m : Holds(a[i - 1], k, m) <=> Holds(map, k, m) /\ ~(k \in Gone(i - 1) /\ m = s)
    BY <1>4
  <2>6. \A k, m : Holds(a[i], k, m) <=> Holds(map, k, m) /\ ~(k \in Gone(i) /\ m = s)
    <3> HIDE DEF Gone
    <3> QED
      BY <2>2, <2>4, <2>5
  <2>7. DOMAIN a[i] \subseteq DOMAIN map /\ (NoneEmpty(map) => NoneEmpty(a[i]))
    BY <1>4, <2>4
  <2> HIDE DEF Gone
  <2> QED
    BY <2>1, <2>6, <2>7
<1>5. n \in D
  <2> HIDE DEF D
  <2>1. n \in Nat /\ n \in 0 .. n
    BY <1>1 DEF n
  <2> QED
    BY <1>3, <1>4, <2>1, UpTo
<1>6. Gone(n) = K
  BY <1>1 DEF n
<1> HIDE DEF Gone
<1> QED
  BY <1>2, <1>5, <1>6 DEF new, seq

(* What the two maps hold: the subscriptions, of sessions that there are, within the cap. *)
Subscriptions ==
    /\ session_subs \in [Sessions -> SUBSET SubKeys]
    /\ \A k, s : Holds(subs, k, s) <=> s \in Sessions /\ k \in session_subs[s]
    /\ NoneEmpty(subs)
    /\ \A s \in Sessions : IsFiniteSet(session_subs[s]) /\ Cardinality(session_subs[s]) <= MaxSubs

(* Nobody is subscribed at first. *)
LEMMA SubscriptionsStart ==
    ASSUME PoolInit
    PROVE  Subscriptions
<1>1. subs = << >> /\ session_subs = [s \in Sessions |-> {}]
  BY DEF PoolInit
<1>2. DOMAIN subs = {}
  BY <1>1
<1>3. IsFiniteSet({}) /\ Cardinality({}) = 0 /\ 0 <= MaxSubs
  BY FS_EmptySet, PoolAssumption
<1> QED
  BY <1>1, <1>2, <1>3 DEF Subscriptions, Holds, NoneEmpty

(* Requests and ends of sessions change both maps alike, within the cap. *)
LEMMA SubscriptionsStep ==
    ASSUME Subscriptions, [PoolNext]_poolVars
    PROVE  Subscriptions'
<1>1. CASE UNCHANGED <<subs, session_subs>>
  BY <1>1 DEF Subscriptions, Holds, NoneEmpty
<1>2. ASSUME NEW s \in Sessions, NEW key \in SubKeys, Subscribe(s, key) PROVE Subscriptions'
  <2>1. /\ subs' = Joined(subs, key, s)
        /\ session_subs' = [session_subs EXCEPT ![s] = @ \cup {key}]
        /\ key \in session_subs[s] \/ Cardinality(session_subs[s]) < MaxSubs
    BY <1>2 DEF Subscribe, subscribed, _check_can_subscribe
  <2>2. /\ session_subs' \in [Sessions -> SUBSET SubKeys]
        /\ session_subs'[s] = session_subs[s] \cup {key}
        /\ \A u \in Sessions : u # s => session_subs'[u] = session_subs[u]
    BY <2>1 DEF Subscriptions
  <2>3. /\ \A k, m : Holds(subs', k, m) <=> Holds(subs, k, m) \/ (k = key /\ m = s)
        /\ NoneEmpty(subs')
    BY <2>1, JoinedIs DEF Subscriptions
  <2>4. \A k, u : Holds(subs', k, u) <=> u \in Sessions /\ k \in session_subs'[u]
    BY <2>2, <2>3 DEF Subscriptions
  <2>5. IsFiniteSet(session_subs'[s]) /\ Cardinality(session_subs'[s]) <= MaxSubs
    <3>1. IsFiniteSet(session_subs[s]) /\ Cardinality(session_subs[s]) \in Nat /\ MaxSubs \in Nat
      BY FS_CardinalityType, PoolAssumption DEF Subscriptions
    <3>2. /\ IsFiniteSet(session_subs[s] \cup {key})
          /\ Cardinality(session_subs[s] \cup {key}) =
               IF key \in session_subs[s] THEN Cardinality(session_subs[s]) ELSE Cardinality(session_subs[s]) + 1
      BY <3>1, FS_AddElement
    <3>3. Cardinality(session_subs[s]) <= MaxSubs
      BY DEF Subscriptions
    <3> QED
      BY <2>1, <2>2, <3>1, <3>2, <3>3
  <2>6. \A u \in Sessions : IsFiniteSet(session_subs'[u]) /\ Cardinality(session_subs'[u]) <= MaxSubs
    BY <2>2, <2>5 DEF Subscriptions
  <2> QED
    BY <2>2, <2>3, <2>4, <2>6 DEF Subscriptions, Holds, NoneEmpty
<1>3. ASSUME NEW s \in Sessions, NEW K, IsFiniteSet(K), NEW new,
             subs' = new, session_subs' = [session_subs EXCEPT ![s] = @ \ K],
             \A k, m : Holds(new, k, m) <=> Holds(subs, k, m) /\ ~(k \in K /\ m = s),
             NoneEmpty(subs) => NoneEmpty(new)
      PROVE  Subscriptions'
  <2>1. /\ session_subs' \in [Sessions -> SUBSET SubKeys]
        /\ session_subs'[s] = session_subs[s] \ K
        /\ \A u \in Sessions : u # s => session_subs'[u] = session_subs[u]
    BY <1>3 DEF Subscriptions
  <2>2. \A k, u : Holds(subs', k, u) <=> u \in Sessions /\ k \in session_subs'[u]
    BY <1>3, <2>1 DEF Subscriptions
  <2>3. IsFiniteSet(session_subs'[s]) /\ Cardinality(session_subs'[s]) <= MaxSubs
    <3>1. IsFiniteSet(session_subs[s]) /\ Cardinality(session_subs[s]) \in Nat /\ MaxSubs \in Nat
      BY FS_CardinalityType, PoolAssumption DEF Subscriptions
    <3>2. session_subs[s] \ K \in SUBSET session_subs[s]
      OBVIOUS
    <3>3. IsFiniteSet(session_subs[s] \ K) /\ Cardinality(session_subs[s] \ K) <= Cardinality(session_subs[s])
      BY <3>1, <3>2, FS_Subset
    <3>4. Cardinality(session_subs[s] \ K) \in Nat /\ Cardinality(session_subs[s]) <= MaxSubs
      BY <3>3, FS_CardinalityType DEF Subscriptions
    <3> QED
      BY <2>1, <3>1, <3>3, <3>4
  <2>4. \A u \in Sessions : IsFiniteSet(session_subs'[u]) /\ Cardinality(session_subs'[u]) <= MaxSubs
    BY <2>1, <2>3 DEF Subscriptions
  <2>5. NoneEmpty(subs')
    BY <1>3 DEF Subscriptions
  <2> QED
    BY <2>1, <2>2, <2>4, <2>5 DEF Subscriptions, Holds, NoneEmpty
<1>4. ASSUME NEW s \in Sessions, NEW key \in SubKeys, Unsubscribe(s, key) PROVE Subscriptions'
  <2>1. subs' = Left(subs, key, s) /\ session_subs' = [session_subs EXCEPT ![s] = @ \ {key}]
    BY <1>4 DEF Unsubscribe
  <2>2. IsFiniteSet({key})
    BY FS_Singleton
  <2>3. /\ \A k, m : Holds(Left(subs, key, s), k, m) <=> Holds(subs, k, m) /\ ~(k \in {key} /\ m = s)
        /\ NoneEmpty(subs) => NoneEmpty(Left(subs, key, s))
    BY LeftIs
  <2> QED
    BY <1>3, <2>1, <2>2, <2>3
<1>5. ASSUME NEW s \in Sessions, unsubscribe_session(s) PROVE Subscriptions'
  <2> DEFINE K == session_subs[s]
             new == LeftBy(subs, s, K)
  <2>1. subs' = new /\ session_subs' = [session_subs EXCEPT ![s] = {}]
    BY <1>5 DEF unsubscribe_session, LeftBy
  <2>2. IsFiniteSet(K) /\ session_subs' = [session_subs EXCEPT ![s] = @ \ K]
    <3>1. session_subs[s] \ K = {}
      OBVIOUS
    <3> QED
      BY <2>1, <3>1 DEF Subscriptions
  <2>3. /\ \A k, m : Holds(new, k, m) <=> Holds(subs, k, m) /\ ~(k \in K /\ m = s)
        /\ NoneEmpty(subs) => NoneEmpty(new)
    BY <2>2, LeftAll
  <2> HIDE DEF new, K
  <2> QED
    BY <1>3, <2>1, <2>2, <2>3
<1> QED
  BY <1>1, <1>2, <1>4, <1>5
     DEF PoolNext, poolVars, subsPart, Refresh, Block, lookup_utxos, _accept_transactions,
         _dispatch_glyph_balance, notify_balance_change, Unblock

(* The property that the run checks follows. *)
LEMMA SubscriptionsAre ==
    ASSUME Subscriptions
    PROVE  SubscriptionsAgree
<1>1. \A s \in Sessions : session_subs[s] = {key \in DOMAIN subs : s \in subs[key]}
  BY DEF Subscriptions, Holds
<1> QED
  BY <1>1 DEF Subscriptions, SubscriptionsAgree, NoneEmpty


-----------------------------------------------------------------------------
(* PoolTokens: the book *)

(* The row of a listed advertisement; of two that share an id, the id is in D. *)
RowOf(l) == [tx |-> l[1], pair |-> l[2].pair, maker |-> l[2].maker]
Singles(L, D) == \A a, b \in L : a[2].id = b[2].id /\ a[2].id \notin D => a = b

(* What a book shows of the ids that are not in D: the advertisements L. *)
OrdersShow(b, L, D) ==
    /\ DOMAIN b = {"orders", "byTx", "byPair", "byMaker"}
    /\ \A id : id \notin D => (id \in DOMAIN b.orders <=> \E l \in L : l[2].id = id)
    /\ \A l \in L : l[2].id \notin D => b.orders[l[2].id] = RowOf(l)
    /\ \A k, id : id \notin D => (Holds(b.byPair, k, id) <=> \E l \in L : l[2].id = id /\ l[2].pair = k)
    /\ \A k, id : id \notin D => (Holds(b.byMaker, k, id) <=> \E l \in L : l[2].id = id /\ l[2].maker = k)
TxsShow(b, L, D) ==
    /\ \A k, id : id \notin D => (Holds(b.byTx, k, id) <=> \E l \in L : l[2].id = id /\ l[1] = k)
    /\ \A k : IsFiniteSet(Of(b.byTx, k))
BookShows(b, L, D) == OrdersShow(b, L, D) /\ TxsShow(b, L, D)

(* One more advertisement. *)
LEMMA AdvertisedShows ==
    ASSUME NEW b, NEW L, NEW D, BookShows(b, L, D), NEW t, NEW ad,
           \A l \in L : l[2].id = ad.id /\ ad.id \notin D => l = <<t, ad>>
    PROVE  BookShows(Advertised(b, t, ad), L \cup {<<t, ad>>}, D)
<1> DEFINE new == Advertised(b, t, ad)
           M == L \cup {<<t, ad>>}
           row == [tx |-> t, pair |-> ad.pair, maker |-> ad.maker]
<1>1. /\ DOMAIN new = {"orders", "byTx", "byPair", "byMaker"}
      /\ new.orders = Updated(b.orders, [id \in {ad.id} |-> row])
      /\ new.byTx = Joined(b.byTx, t, ad.id)
      /\ new.byPair = Joined(b.byPair, ad.pair, ad.id)
      /\ new.byMaker = Joined(b.byMaker, ad.maker, ad.id)
  BY DEF Advertised
<1> HIDE DEF new
<1>2. /\ DOMAIN new.orders = DOMAIN b.orders \cup {ad.id}
      /\ new.orders[ad.id] = row
      /\ \A id \in DOMAIN b.orders : id # ad.id => new.orders[id] = b.orders[id]
  BY <1>1 DEF Updated
<1>3. /\ RowOf(<<t, ad>>) = row /\ <<t, ad>>[1] = t /\ <<t, ad>>[2] = ad
      /\ \A l : l \in M <=> l \in L \/ l = <<t, ad>>
  BY DEF RowOf
<1>4. /\ \A k, id : Holds(new.byPair, k, id) <=> Holds(b.byPair, k, id) \/ (k = ad.pair /\ id = ad.id)
      /\ \A k, id : Holds(new.byMaker, k, id) <=> Holds(b.byMaker, k, id) \/ (k = ad.maker /\ id = ad.id)
      /\ \A k, id : Holds(new.byTx, k, id) <=> Holds(b.byTx, k, id) \/ (k = t /\ id = ad.id)
  <2>1. ASSUME NEW map, NEW key
        PROVE  \A k, id : Holds(Joined(map, key, ad.id), k, id) <=> Holds(map, k, id) \/ (k = key /\ id = ad.id)
    BY JoinedIs
  <2> QED
    BY <1>1, <2>1
<1> HIDE DEF M, row
<1>5. \A id : id \notin D => (id \in DOMAIN new.orders <=> \E l \in M : l[2].id = id)
  BY <1>2, <1>3 DEF BookShows, OrdersShow
<1>6. ASSUME NEW l \in M, l[2].id \notin D PROVE new.orders[l[2].id] = RowOf(l)
  <2>1. CASE l[2].id = ad.id
    <3>1. l = <<t, ad>>
      BY <1>3, <1>6, <2>1
    <3> QED
      BY <1>2, <1>3, <2>1, <3>1
  <2>2. CASE l[2].id # ad.id
    <3>1. l \in L
      BY <1>3, <2>2
    <3>2. l[2].id \in DOMAIN b.orders /\ b.orders[l[2].id] = RowOf(l)
      BY <1>6, <3>1 DEF BookShows, OrdersShow
    <3> QED
      BY <1>2, <2>2, <3>2
  <2> QED
    BY <2>1, <2>2
<1>7. \A k, id : id \notin D => (Holds(new.byPair, k, id) <=> \E l \in M : l[2].id = id /\ l[2].pair = k)
  BY <1>3, <1>4 DEF BookShows, OrdersShow
<1>8. \A k, id : id \notin D => (Holds(new.byMaker, k, id) <=> \E l \in M : l[2].id = id /\ l[2].maker = k)
  BY <1>3, <1>4 DEF BookShows, OrdersShow
<1>9. \A k, id : id \notin D => (Holds(new.byTx, k, id) <=> \E l \in M : l[2].id = id /\ l[1] = k)
  BY <1>3, <1>4 DEF BookShows, TxsShow
<1>10. ASSUME NEW k PROVE IsFiniteSet(Of(new.byTx, k))
  <2>1. Of(new.byTx, k) = IF k = t THEN Of(b.byTx, k) \cup {ad.id} ELSE Of(b.byTx, k)
    <3> DEFINE map == b.byTx
    <3>1. new.byTx = Joined(map, t, ad.id)
      BY <1>1
    <3> HIDE DEF map, new
    <3>2. Of(Joined(map, t, ad.id), k) = IF k = t THEN Of(map, k) \cup {ad.id} ELSE Of(map, k)
      BY DEF Joined, Updated, Of
    <3> QED
      BY <3>1, <3>2 DEF map
  <2>2. IsFiniteSet(Of(b.byTx, k))
    BY DEF BookShows, TxsShow
  <2> QED
    BY <2>1, <2>2, FS_AddElement
<1> QED
  BY <1>1, <1>5, <1>6, <1>7, <1>8, <1>9, <1>10 DEF BookShows, OrdersShow, TxsShow, new, M

(* The advertisements of a tx, one after another. *)
AdStep(t, d, b, ad) == Advertised(b, t, ad)
AdLoop == INSTANCE StepFold WITH Step <- AdStep

(* The advertisements of txs, one by one. *)
LEMMA ListedAre ==
    ASSUME NEW S
    PROVE  /\ \A l : l \in Listed(S) <=> \E t \in S : \E ad \in Range(Ads[t]) : l = <<t, ad>>
           /\ \A l \in Listed(S) : l[1] \in S /\ l = <<l[1], l[2]>>
<1>1. \A l : l \in Listed(S) <=> \E t \in S : \E ad \in Range(Ads[t]) : l = <<t, ad>>
  BY DEF Listed
<1> QED
  BY <1>1

(* A book that has taken in the advertisements of a tx shows them too. *)
LEMMA WithAdsShows ==
    ASSUME NEW b, NEW L, NEW D, BookShows(b, L, D), NEW t \in PoolTxs,
           Singles(L \cup Listed({t}), D)
    PROVE  BookShows(WithAds(b, t), L \cup Listed({t}), D)
<1> DEFINE seq == Ads[t]
           n == Len(seq)
           First(i) == {<<t, seq[k]>> : k \in 1 .. i}
<1>1. n \in Nat /\ DOMAIN seq = 1 .. n
  BY PoolAssumption
<1>2. Listed({t}) = First(n)
  <2>1. Range(seq) = {seq[k] : k \in 1 .. n}
    BY <1>1 DEF Range
  <2> QED
    BY <2>1, ListedAre
<1> HIDE DEF seq
<1>3. PICK a : /\ a[0] = b /\ WithAds(b, t) = a[n]
               /\ \A k \in 1 .. n : a[k] = Advertised(a[k - 1], t, seq[k])
  <2>1. WithAds(b, t) = AdLoop!Fold(t, 0, b, seq)
    BY DEF seq, WithAds, AdStep, AdLoop!Fold, AdLoop!FoldLeft, FoldLeft,
           AdLoop!MapThenFoldSet, MapThenFoldSet, AdLoop!Max, Max
  <2>2. PICK a : AdLoop!Loop(t, 0, b, seq, a)
    BY <1>1, AdLoop!FoldsAre
  <2> QED
    BY <2>1, <2>2 DEF AdLoop!Loop, AdStep
<1> HIDE DEF n
<1> DEFINE S == {i \in 0 .. n : BookShows(a[i], L \cup First(i), D)}
<1>4. 0 \in S
  <2>1. 1 .. 0 = {} /\ 0 \in 0 .. n
    BY <1>1
  <2>2. L \cup First(0) = L
    BY <2>1
  <2> QED
    BY <1>3, <2>1, <2>2
<1>5. ASSUME NEW i \in 1 .. n, i - 1 \in S PROVE i \in S
  <2>1. n \in Nat /\ i \in 0 .. n /\ 1 .. i = (1 .. i - 1) \cup {i} /\ i - 1 \in 0 .. n
    BY <1>1
  <2>2. First(i) = First(i - 1) \cup {<<t, seq[i]>>}
    BY <2>1
  <2>3. First(i) \subseteq Listed({t})
    <3>1. 1 .. i \subseteq 1 .. n
      BY <2>1
    <3> QED
      BY <1>2, <3>1
  <2>4. BookShows(a[i - 1], L \cup First(i - 1), D)
    BY <1>5
  <2> HIDE DEF First
  <2>5. \A l \in L \cup First(i - 1) : l[2].id = seq[i].id /\ seq[i].id \notin D => l = <<t, seq[i]>>
    <3>1. <<t, seq[i]>> \in L \cup Listed({t}) /\ <<t, seq[i]>>[2] = seq[i]
      BY <2>2, <2>3
    <3>2. L \cup First(i - 1) \subseteq L \cup Listed({t})
      BY <2>2, <2>3
    <3> QED
      BY <3>1, <3>2 DEF Singles
  <2>6. BookShows(Advertised(a[i - 1], t, seq[i]), (L \cup First(i - 1)) \cup {<<t, seq[i]>>}, D)
    BY <2>4, <2>5, AdvertisedShows
  <2>7. (L \cup First(i - 1)) \cup {<<t, seq[i]>>} = L \cup First(i)
    BY <2>2
  <2> QED
    BY <1>3, <2>1, <2>6, <2>7
<1>6. n \in S
  <2> HIDE DEF S
  <2> QED
    BY <1>1, <1>4, <1>5, UpTo
<1> QED
  BY <1>2, <1>3, <1>6

(* The advertisements of txs accepted in some order. *)
WithStep(c, d, b, t) == WithAds(b, t)
WithLoop == INSTANCE StepFold WITH Step <- WithStep

(* So does one that has taken in those of txs in some order. *)
LEMMA AcceptedShows ==
    ASSUME NEW b, NEW L, NEW D, BookShows(b, L, D), NEW seq,
           Len(seq) \in Nat, DOMAIN seq = 1 .. Len(seq), \A k \in 1 .. Len(seq) : seq[k] \in PoolTxs,
           Singles(L \cup Listed({seq[k] : k \in 1 .. Len(seq)}), D)
    PROVE  BookShows(FoldLeft(WithAds, b, seq), L \cup Listed({seq[k] : k \in 1 .. Len(seq)}), D)
<1> DEFINE n == Len(seq)
           new == FoldLeft(WithAds, b, seq)
           First(i) == {seq[k] : k \in 1 .. i}
<1>1. PICK a : /\ a[0] = b /\ new = a[n]
               /\ \A k \in 1 .. n : a[k] = WithAds(a[k - 1], seq[k])
  <2>1. new = WithLoop!Fold(0, 0, b, seq)
    BY DEF new, WithStep, WithLoop!Fold, WithLoop!FoldLeft, FoldLeft,
           WithLoop!MapThenFoldSet, MapThenFoldSet, WithLoop!Max, Max
  <2>2. PICK a : WithLoop!Loop(0, 0, b, seq, a)
    BY WithLoop!FoldsAre
  <2> QED
    BY <2>1, <2>2 DEF WithLoop!Loop, WithStep
<1>2. n \in Nat
  OBVIOUS
<1> HIDE DEF new, n
<1> DEFINE S == {i \in 0 .. n : BookShows(a[i], L \cup Listed(First(i)), D)}
<1>3. 0 \in S
  <2>1. 1 .. 0 = {} /\ 0 \in 0 .. n
    BY <1>2
  <2>2. Listed(First(0)) = {}
    BY <2>1 DEF Listed
  <2> HIDE DEF First
  <2> QED
    BY <1>1, <2>1, <2>2
<1>4. ASSUME NEW i \in 1 .. n, i - 1 \in S PROVE i \in S
  <2>1. i \in 0 .. n /\ 1 .. i = (1 .. i - 1) \cup {i} /\ 1 .. i \subseteq 1 .. n
    BY <1>2
  <2>2. First(i) = First(i - 1) \cup {seq[i]} /\ First(i) \subseteq First(n)
    BY <2>1
  <2>3. seq[i] \in PoolTxs
    BY DEF n
  <2>4. BookShows(a[i - 1], L \cup Listed(First(i - 1)), D)
    BY <1>4
  <2>5. Singles(L \cup Listed(First(n)), D)
    BY DEF n
  <2> HIDE DEF First
  <2>6. Listed(First(i)) = Listed(First(i - 1)) \cup Listed({seq[i]}) /\ Listed(First(i)) \subseteq Listed(First(n))
    BY <2>2 DEF Listed
  <2>7. Singles((L \cup Listed(First(i - 1))) \cup Listed({seq[i]}), D)
    BY <2>5, <2>6 DEF Singles
  <2>8. BookShows(a[i], (L \cup Listed(First(i - 1))) \cup Listed({seq[i]}), D)
    BY <1>1, <2>3, <2>4, <2>7, WithAdsShows
  <2>9. (L \cup Listed(First(i - 1))) \cup Listed({seq[i]}) = L \cup Listed(First(i))
    BY <2>6
  <2> QED
    BY <2>1, <2>8, <2>9
<1>5. n \in S
  <2> HIDE DEF S
  <2>1. n \in 0 .. n
    BY <1>2
  <2> QED
    BY <1>2, <1>3, <1>4, <2>1, UpTo
<1> QED
  BY <1>1, <1>5 DEF new, n

(* An order goes, with every advertisement of its id. *)
LEMMA DroppedShows ==
    ASSUME NEW b, NEW L, NEW D, OrdersShow(b, L, D), Singles(L, D), NEW id
    PROVE  /\ OrdersShow(Dropped(b, id), {l \in L : l[2].id # id}, D)
           /\ Dropped(b, id).byTx = b.byTx
<1> DEFINE new == Dropped(b, id)
           M == {l \in L : l[2].id # id}
<1>1. CASE id \notin DOMAIN b.orders
  <2>1. new = b
    BY <1>1 DEF Dropped
  <2>2. id \notin D => M = L
    BY <1>1 DEF OrdersShow
  <2>3. \A l \in L : l[2].id \notin D => l \in M
    BY <2>2
  <2> QED
    BY <2>1, <2>3 DEF OrdersShow
<1>2. CASE id \in DOMAIN b.orders
  <2> DEFINE pair == b.orders[id].pair
             maker == b.orders[id].maker
  <2>1. /\ DOMAIN new = {"orders", "byTx", "byPair", "byMaker"}
        /\ new.orders = Restrict(b.orders, DOMAIN b.orders \ {id}) /\ new.byTx = b.byTx
        /\ new.byPair = Left(b.byPair, pair, id) /\ new.byMaker = Left(b.byMaker, maker, id)
    BY <1>2 DEF Dropped, OrdersShow
  <2>2. ASSUME NEW l \in L, l[2].id = id, id \notin D PROVE l[2].pair = pair /\ l[2].maker = maker
    <3>1. b.orders[id] = RowOf(l)
      BY <2>2 DEF OrdersShow
    <3> QED
      BY <3>1 DEF RowOf
  <2> HIDE DEF new, pair, maker
  <2>3. /\ DOMAIN new.orders = DOMAIN b.orders \ {id}
        /\ \A i \in DOMAIN new.orders : new.orders[i] = b.orders[i]
    BY <2>1 DEF Restrict
  <2>4. /\ \A k, i : Holds(new.byPair, k, i) <=> Holds(b.byPair, k, i) /\ ~(k = pair /\ i = id)
        /\ \A k, i : Holds(new.byMaker, k, i) <=> Holds(b.byMaker, k, i) /\ ~(k = maker /\ i = id)
    BY <2>1, LeftIs
  <2>5. \A l : l \in M <=> l \in L /\ l[2].id # id
    OBVIOUS
  <2> HIDE DEF M
  <2>6. \A i : i \notin D => (i \in DOMAIN new.orders <=> \E l \in M : l[2].id = i)
    BY <2>3, <2>5 DEF OrdersShow
  <2>7. \A l \in M : l[2].id \notin D => new.orders[l[2].id] = RowOf(l)
    BY <2>3, <2>5 DEF OrdersShow
  <2>8. ASSUME NEW k, NEW i, i \notin D
        PROVE  Holds(new.byPair, k, i) <=> \E l \in M : l[2].id = i /\ l[2].pair = k
    <3>1. Holds(b.byPair, k, i) <=> \E l \in L : l[2].id = i /\ l[2].pair = k
      BY <2>8 DEF OrdersShow
    <3> QED
      BY <2>2, <2>4, <2>5, <2>8, <3>1
  <2>9. ASSUME NEW k, NEW i, i \notin D
        PROVE  Holds(new.byMaker, k, i) <=> \E l \in M : l[2].id = i /\ l[2].maker = k
    <3>1. Holds(b.byMaker, k, i) <=> \E l \in L : l[2].id = i /\ l[2].maker = k
      BY <2>9 DEF OrdersShow
    <3> QED
      BY <2>2, <2>4, <2>5, <2>9, <3>1
  <2> QED
    BY <2>1, <2>6, <2>7, <2>8, <2>9 DEF OrdersShow, new, M
<1> QED
  BY <1>1, <1>2

(* Every order of a tx goes, one after another. *)
DropStep(c, d, b, id) == Dropped(b, id)
DropLoop == INSTANCE StepFold WITH Step <- DropStep

(* Without the orders of some ids a book shows the others. *)
LEMMA DroppedAll ==
    ASSUME NEW b, NEW L, NEW D, OrdersShow(b, L, D), Singles(L, D), NEW K, IsFiniteSet(K)
    PROVE  LET new == FoldLeft(Dropped, b, SetToSeq(K)) IN
           /\ OrdersShow(new, {l \in L : l[2].id \notin K}, D)
           /\ new.byTx = b.byTx
<1> DEFINE seq == SetToSeq(K)
           n == Len(seq)
           new == FoldLeft(Dropped, b, seq)
           First(i) == {seq[k] : k \in 1 .. i}
           Rest(i) == {l \in L : l[2].id \notin First(i)}
<1>1. n \in Nat /\ DOMAIN seq = 1 .. n /\ K = First(n)
  BY SequenceOf
<1> HIDE DEF seq
<1>2. PICK a : /\ a[0] = b /\ new = a[n]
               /\ \A k \in 1 .. n : a[k] = Dropped(a[k - 1], seq[k])
  <2>1. new = DropLoop!Fold(0, 0, b, seq)
    BY DEF new, DropStep, DropLoop!Fold, DropLoop!FoldLeft, FoldLeft,
           DropLoop!MapThenFoldSet, MapThenFoldSet, DropLoop!Max, Max
  <2>2. PICK a : DropLoop!Loop(0, 0, b, seq, a)
    BY <1>1, DropLoop!FoldsAre
  <2> QED
    BY <2>1, <2>2 DEF DropLoop!Loop, DropStep
<1> HIDE DEF new, n
<1> DEFINE S == {i \in 0 .. n : OrdersShow(a[i], Rest(i), D) /\ a[i].byTx = b.byTx}
<1>3. 0 \in S
  <2>1. 1 .. 0 = {} /\ 0 \in 0 .. n
    BY <1>1
  <2>2. Rest(0) = L
    BY <2>1
  <2> HIDE DEF Rest
  <2> QED
    BY <1>2, <2>1, <2>2
<1>4. ASSUME NEW i \in 1 .. n, i - 1 \in S PROVE i \in S
  <2>1. i \in 0 .. n /\ 1 .. i = (1 .. i - 1) \cup {i}
    BY <1>1
  <2>2. First(i) = First(i - 1) \cup {seq[i]}
    BY <2>1
  <2>3. OrdersShow(a[i - 1], Rest(i - 1), D) /\ a[i - 1].byTx = b.byTx
    BY <1>4
  <2> HIDE DEF First
  <2>4. Rest(i) = {l \in Rest(i - 1) : l[2].id # seq[i]}
    BY <2>2
  <2>5. Singles(Rest(i - 1), D)
    BY DEF Singles
  <2> HIDE DEF Rest
  <2>6. /\ OrdersShow(Dropped(a[i - 1], seq[i]), {l \in Rest(i - 1) : l[2].id # seq[i]}, D)
        /\ Dropped(a[i - 1], seq[i]).byTx = a[i - 1].byTx
    BY <2>3, <2>5, DroppedShows
  <2>7. OrdersShow(a[i], Rest(i), D) /\ a[i].byTx = b.byTx
    BY <1>2, <2>3, <2>4, <2>6
  <2> QED
    BY <2>1, <2>7
<1>5. n \in S
  <2> HIDE DEF S
  <2>1. n \in 0 .. n
    BY <1>1
  <2> QED
    BY <1>1, <1>3, <1>4, <2>1, UpTo
<1> QED
  BY <1>1, <1>2, <1>5 DEF new, seq

(* A tx leaves the book with its advertisements. *)
LEMMA UnadvertisedShows ==
    ASSUME NEW b, NEW L, NEW D, BookShows(b, L, D), Singles(L, D), NEW t
    PROVE  BookShows(Unadvertised(b, t), {l \in L : l[1] # t}, D)
<1> DEFINE K == Of(b.byTx, t)
           rest == FoldLeft(Dropped, b, SetToSeq(K))
           new == Unadvertised(b, t)
           M == {l \in L : l[2].id \notin K}
           N == {l \in L : l[1] # t}
<1>1. IsFiniteSet(K)
  BY DEF BookShows, TxsShow
<1>2. OrdersShow(rest, M, D) /\ rest.byTx = b.byTx
  <2> HIDE DEF K
  <2> QED
    BY <1>1, DroppedAll DEF BookShows
<1>3. new = [rest EXCEPT !.byTx = Restrict(@, DOMAIN @ \ {t})]
  BY DEF Unadvertised
<1>4. \A id : id \in K <=> Holds(b.byTx, t, id)
  BY DEF Of, Holds
<1> HIDE DEF K, rest, new
<1>5. /\ DOMAIN new = {"orders", "byTx", "byPair", "byMaker"}
      /\ new.orders = rest.orders /\ new.byPair = rest.byPair /\ new.byMaker = rest.byMaker
      /\ new.byTx = Restrict(b.byTx, DOMAIN b.byTx \ {t})
  BY <1>2, <1>3 DEF OrdersShow
<1>6. ASSUME NEW l \in L, l[2].id \notin D PROVE l \in M <=> l \in N
  <2>1. l[2].id \in K <=> \E m \in L : m[2].id = l[2].id /\ m[1] = t
    BY <1>4, <1>6 DEF BookShows, TxsShow
  <2>2. \A m \in L : m[2].id = l[2].id => m = l
    BY <1>6 DEF Singles
  <2> QED
    BY <2>1, <2>2
<1>7. M \subseteq L /\ N \subseteq L
  OBVIOUS
<1>8. \A l : l \in N <=> l \in L /\ l[1] # t
  OBVIOUS
<1> HIDE DEF M, N
<1>9. OrdersShow(new, N, D)
  <2>1. \A id : id \notin D => (id \in DOMAIN new.orders <=> \E l \in N : l[2].id = id)
    BY <1>2, <1>5, <1>6, <1>7 DEF OrdersShow
  <2>2. \A l \in N : l[2].id \notin D => new.orders[l[2].id] = RowOf(l)
    BY <1>2, <1>5, <1>6, <1>7 DEF OrdersShow
  <2>3. \A k, id : id \notin D => (Holds(new.byPair, k, id) <=> \E l \in N : l[2].id = id /\ l[2].pair = k)
    BY <1>2, <1>5, <1>6, <1>7 DEF OrdersShow
  <2>4. \A k, id : id \notin D => (Holds(new.byMaker, k, id) <=> \E l \in N : l[2].id = id /\ l[2].maker = k)
    BY <1>2, <1>5, <1>6, <1>7 DEF OrdersShow
  <2> QED
    BY <1>5, <2>1, <2>2, <2>3, <2>4 DEF OrdersShow
<1>10. /\ \A k, id : Holds(new.byTx, k, id) <=> Holds(b.byTx, k, id) /\ k # t
       /\ \A k : Of(new.byTx, k) = IF k = t THEN {} ELSE Of(b.byTx, k)
  BY <1>5 DEF Restrict, Holds, Of
<1>11. TxsShow(new, N, D)
  <2>1. \A k, id : id \notin D => (Holds(new.byTx, k, id) <=> \E l \in N : l[2].id = id /\ l[1] = k)
    BY <1>8, <1>10 DEF BookShows, TxsShow
  <2>2. \A k : IsFiniteSet(Of(new.byTx, k))
    BY <1>10, FS_EmptySet DEF BookShows, TxsShow
  <2> QED
    BY <2>1, <2>2 DEF TxsShow
<1> QED
  BY <1>9, <1>11 DEF BookShows, new, N

(* Txs leave the book one after another. *)
UnStep(c, d, b, t) == Unadvertised(b, t)
UnLoop == INSTANCE StepFold WITH Step <- UnStep

(* Without some txs a book shows the advertisements of the others. *)
LEMMA RemovedShows ==
    ASSUME NEW b, NEW L, NEW D, BookShows(b, L, D), Singles(L, D), NEW K, IsFiniteSet(K)
    PROVE  BookShows(FoldLeft(Unadvertised, b, SetToSeq(K)), {l \in L : l[1] \notin K}, D)
<1> DEFINE seq == SetToSeq(K)
           n == Len(seq)
           new == FoldLeft(Unadvertised, b, seq)
           First(i) == {seq[k] : k \in 1 .. i}
           Rest(i) == {l \in L : l[1] \notin First(i)}
<1>1. n \in Nat /\ DOMAIN seq = 1 .. n /\ K = First(n)
  BY SequenceOf
<1> HIDE DEF seq
<1>2. PICK a : /\ a[0] = b /\ new = a[n]
               /\ \A k \in 1 .. n : a[k] = Unadvertised(a[k - 1], seq[k])
  <2>1. new = UnLoop!Fold(0, 0, b, seq)
    BY DEF new, UnStep, UnLoop!Fold, UnLoop!FoldLeft, FoldLeft,
           UnLoop!MapThenFoldSet, MapThenFoldSet, UnLoop!Max, Max
  <2>2. PICK a : UnLoop!Loop(0, 0, b, seq, a)
    BY <1>1, UnLoop!FoldsAre
  <2> QED
    BY <2>1, <2>2 DEF UnLoop!Loop, UnStep
<1> HIDE DEF new, n
<1> DEFINE S == {i \in 0 .. n : BookShows(a[i], Rest(i), D)}
<1>3. 0 \in S
  <2>1. 1 .. 0 = {} /\ 0 \in 0 .. n
    BY <1>1
  <2>2. Rest(0) = L
    BY <2>1
  <2> HIDE DEF Rest
  <2> QED
    BY <1>2, <2>1, <2>2
<1>4. ASSUME NEW i \in 1 .. n, i - 1 \in S PROVE i \in S
  <2>1. i \in 0 .. n /\ 1 .. i = (1 .. i - 1) \cup {i}
    BY <1>1
  <2>2. First(i) = First(i - 1) \cup {seq[i]}
    BY <2>1
  <2>3. BookShows(a[i - 1], Rest(i - 1), D)
    BY <1>4
  <2> HIDE DEF First
  <2>4. Rest(i) = {l \in Rest(i - 1) : l[1] # seq[i]}
    BY <2>2
  <2>5. Singles(Rest(i - 1), D)
    BY DEF Singles
  <2> HIDE DEF Rest
  <2>6. BookShows(a[i], Rest(i), D)
    BY <1>2, <2>3, <2>4, <2>5, UnadvertisedShows
  <2> QED
    BY <2>1, <2>6
<1>5. n \in S
  <2> HIDE DEF S
  <2>1. n \in 0 .. n
    BY <1>1
  <2> QED
    BY <1>1, <1>3, <1>4, <2>1, UpTo
<1> QED
  BY <1>1, <1>2, <1>5 DEF new, seq

(* The mempool holds txs, and so does the daemon's list. *)
PoolTypes == poolTxs \in SUBSET PoolTxs /\ hashes \in SUBSET PoolTxs

(* Every step keeps them so. *)
LEMMA PoolTypesStep ==
    ASSUME PoolTypes, [PoolNext]_poolVars
    PROVE  PoolTypes'
<1>1. Acceptable \subseteq hashes
  BY DEF Acceptable
<1> QED
  BY <1>1 DEF PoolTypes, PoolNext, poolVars, chainPart, Refresh, Block, lookup_utxos, _accept_transactions,
         _dispatch_glyph_balance, notify_balance_change, Subscribe, Unsubscribe,
         unsubscribe_session, Unblock

(* The book shows the advertisements of the mempool's txs, of all ids but the doubled ones. *)
BookInv ==
    /\ BookShows(book, Listed(poolTxs), doubled)
    /\ Singles(Listed(poolTxs), doubled)

(* An empty book shows an empty mempool. *)
LEMMA BookStarts ==
    ASSUME PoolInit
    PROVE  BookInv
<1>1. poolTxs = {} /\ book = EmptyBook /\ Listed({}) = {} /\ DOMAIN << >> = {}
  BY DEF PoolInit, Listed
<1>2. \A k : Of(<< >>, k) = {}
  BY <1>1 DEF Of
<1> QED
  BY <1>1, <1>2, FS_EmptySet DEF BookInv, BookShows, OrdersShow, TxsShow, Singles, EmptyBook, Holds

(* What is said of all ids but some holds of all but more. *)
LEMMA ShowsLess ==
    ASSUME NEW b, NEW L, NEW D, NEW E, BookShows(b, L, D), D \subseteq E
    PROVE  BookShows(b, L, E)
BY DEF BookShows, OrdersShow, TxsShow

(* The book goes on showing the mempool's txs as they come and go. *)
LEMMA BookStep ==
    ASSUME BookInv, PoolTypes, [PoolNext]_poolVars
    PROVE  BookInv'
<1>0. IsFiniteSet(poolTxs) /\ IsFiniteSet(hashes)
  BY PoolAssumption, FS_Subset DEF PoolTypes
<1>1. CASE UNCHANGED <<book, poolTxs, doubled>>
  BY <1>1 DEF BookInv
<1>2. ASSUME NEW list \in SUBSET PoolTxs, Refresh(list) PROVE BookInv'
  <2> DEFINE gone == poolTxs \ list
             L == Listed(poolTxs)
  <2>1. /\ book' = FoldLeft(Unadvertised, book, SetToSeq(gone))
        /\ poolTxs' = poolTxs \cap list /\ doubled' = doubled
    BY <1>2 DEF Refresh, remove_txs
  <2>2. IsFiniteSet(gone)
    BY <1>0, FS_Subset
  <2>3. Listed(poolTxs') = {l \in L : l[1] \notin gone}
    <3>1. \A l : l \in Listed(poolTxs') <=> \E t \in poolTxs' : \E ad \in Range(Ads[t]) : l = <<t, ad>>
      BY ListedAre
    <3>2. /\ \A l : l \in L <=> \E t \in poolTxs : \E ad \in Range(Ads[t]) : l = <<t, ad>>
          /\ \A l \in L : l[1] \in poolTxs
      BY ListedAre
    <3>3. ASSUME NEW l PROVE l \in Listed(poolTxs') <=> l \in L /\ l[1] \notin gone
      <4>1. ASSUME l \in Listed(poolTxs') PROVE l \in L /\ l[1] \notin gone
        <5>1. PICK t \in poolTxs' : \E ad \in Range(Ads[t]) : l = <<t, ad>>
          BY <3>1, <4>1
        <5> QED
          BY <2>1, <3>2, <5>1
      <4>2. ASSUME l \in L, l[1] \notin gone PROVE l \in Listed(poolTxs')
        <5>1. PICK t \in poolTxs : \E ad \in Range(Ads[t]) : l = <<t, ad>>
          BY <3>2, <4>2
        <5>2. l[1] = t
          BY <5>1
        <5>3. t \in poolTxs'
          BY <2>1, <4>2, <5>2
        <5> QED
          BY <3>1, <5>1, <5>3
      <4> QED
        BY <4>1, <4>2
    <3> HIDE DEF L, gone
    <3> QED
      BY <3>3
  <2>4. BookShows(FoldLeft(Unadvertised, book, SetToSeq(gone)), {l \in L : l[1] \notin gone}, doubled)
    <3> HIDE DEF L, gone
    <3> QED
      BY <2>2, RemovedShows DEF BookInv, L
  <2>5. Singles({l \in L : l[1] \notin gone}, doubled)
    BY DEF BookInv, Singles
  <2> HIDE DEF L, gone
  <2> QED
    BY <2>1, <2>3, <2>4, <2>5 DEF BookInv
<1>3. ASSUME _accept_transactions PROVE BookInv'
  <2> DEFINE A == Acceptable
             L == Listed(poolTxs)
  <2>1. PICK order \in SetToSeqs(A) : book' = FoldLeft(WithAds, book, order)
    BY <1>3 DEF _accept_transactions, IndexTxs
  <2>2. /\ poolTxs' = poolTxs \cup A
        /\ doubled' = doubled \cup {a[2].id : a \in {a \in Listed(poolTxs') :
                                     \E b \in Listed(poolTxs') : b # a /\ b[2].id = a[2].id}}
    BY <1>3 DEF _accept_transactions
  <2>3. A \subseteq hashes /\ A \subseteq PoolTxs /\ IsFiniteSet(A)
    <3>1. A \subseteq hashes
      BY DEF Acceptable
    <3> HIDE DEF A
    <3> QED
      BY <1>0, <3>1, FS_Subset DEF PoolTypes
  <2> HIDE DEF A
  <2>4. order \in [1 .. Cardinality(A) -> A] /\ IsInjective(order)
    BY <2>1 DEF SetToSeqs, IsInjective
  <2>5. Len(order) \in Nat /\ DOMAIN order = 1 .. Len(order) /\ A = {order[k] : k \in 1 .. Len(order)}
    BY <2>3, <2>4, OrderOf
  <2>6. \A k \in 1 .. Len(order) : order[k] \in PoolTxs
    BY <2>3, <2>5
  <2>7. Listed(poolTxs') = L \cup Listed(A)
    BY <2>2 DEF Listed
  <2>8. Singles(L \cup Listed(A), doubled')
    <3> HIDE DEF L
    <3> QED
      BY <2>2, <2>7 DEF Singles
  <2>9. BookShows(book, L, doubled')
    BY <2>2, ShowsLess DEF BookInv
  <2>10. BookShows(FoldLeft(WithAds, book, order), L \cup Listed(A), doubled')
    <3> HIDE DEF L
    <3> QED
      BY <2>5, <2>6, <2>8, <2>9, AcceptedShows
  <2> QED
    BY <2>1, <2>7, <2>8, <2>10 DEF BookInv
<1> QED
  BY <1>1, <1>2, <1>3
     DEF PoolNext, poolVars, indexPart, pastPart, Block, lookup_utxos, _dispatch_glyph_balance,
         notify_balance_change, Subscribe, Unsubscribe, unsubscribe_session, Unblock

(* The property that the run checks follows. *)
LEMMA OrdersAre ==
    ASSUME BookInv
    PROVE  PoolOrders
<1> DEFINE L == Listed(poolTxs)
           single == {l \in L : l[2].id \notin doubled}
           ids(map) == {e \in UNION {{k} \X map[k] : k \in DOMAIN map} : e[2] \notin doubled}
<1>1. BookShows(book, L, doubled)
  BY DEF BookInv
<1> HIDE DEF L
<1>2. \A l : l \in single <=> l \in L /\ l[2].id \notin doubled
  OBVIOUS
<1>3. ASSUME NEW map PROVE \A e : e \in ids(map) <=> e = <<e[1], e[2]>> /\ Holds(map, e[1], e[2]) /\ e[2] \notin doubled
  BY DEF Holds
<1> HIDE DEF single, ids
<1>4. DOMAIN book.orders \ doubled = {l[2].id : l \in single}
  BY <1>1, <1>2 DEF BookShows, OrdersShow
<1>5. \A l \in single : book.orders[l[2].id] = [tx |-> l[1], pair |-> l[2].pair, maker |-> l[2].maker]
  BY <1>1, <1>2 DEF BookShows, OrdersShow, RowOf
<1>6. ids(book.byPair) = {<<l[2].pair, l[2].id>> : l \in single}
  <2>1. \A e \in ids(book.byPair) : \E l \in single : e = <<l[2].pair, l[2].id>>
    BY <1>1, <1>2, <1>3 DEF BookShows, OrdersShow
  <2>2. ASSUME NEW l \in single PROVE <<l[2].pair, l[2].id>> \in ids(book.byPair)
    <3>1. Holds(book.byPair, l[2].pair, l[2].id) /\ l[2].id \notin doubled
      BY <1>1, <1>2 DEF BookShows, OrdersShow
    <3> QED
      BY <1>3, <3>1
  <2> QED
    BY <2>1, <2>2
<1>7. ids(book.byMaker) = {<<l[2].maker, l[2].id>> : l \in single}
  <2>1. \A e \in ids(book.byMaker) : \E l \in single : e = <<l[2].maker, l[2].id>>
    BY <1>1, <1>2, <1>3 DEF BookShows, OrdersShow
  <2>2. ASSUME NEW l \in single PROVE <<l[2].maker, l[2].id>> \in ids(book.byMaker)
    <3>1. Holds(book.byMaker, l[2].maker, l[2].id) /\ l[2].id \notin doubled
      BY <1>1, <1>2 DEF BookShows, OrdersShow
    <3> QED
      BY <1>3, <3>1
  <2> QED
    BY <2>1, <2>2
<1>8. ids(book.byTx) = {<<l[1], l[2].id>> : l \in single}
  <2>1. \A e \in ids(book.byTx) : \E l \in single : e = <<l[1], l[2].id>>
    BY <1>1, <1>2, <1>3 DEF BookShows, TxsShow
  <2>2. ASSUME NEW l \in single PROVE <<l[1], l[2].id>> \in ids(book.byTx)
    <3>1. Holds(book.byTx, l[1], l[2].id) /\ l[2].id \notin doubled
      BY <1>1, <1>2 DEF BookShows, TxsShow
    <3> QED
      BY <1>3, <3>1
  <2> QED
    BY <2>1, <2>2
<1> QED
  BY <1>4, <1>5, <1>6, <1>7, <1>8 DEF PoolOrders, L, single, ids

-----------------------------------------------------------------------------
(* PoolTokens: the chain and the index *)

(* The txs of the first blocks. *)
Upto(c, j) == UNION {c[i] : i \in 1 .. j}

ChainInv ==
    /\ chainTxs \in Seq(SUBSET PoolTxs) /\ Len(chainTxs) \in Nat \ {0}
    /\ \A j \in 1 .. Len(chainTxs) : Upto(chainTxs, j) \in ConsistentSets

(* The confirmed txs are those of all the blocks, and may stand in one chain. *)
LEMMA ConfirmedIs ==
    ASSUME ChainInv
    PROVE  /\ Confirmed = Upto(chainTxs, Len(chainTxs)) /\ Confirmed \in ConsistentSets
           /\ Confirmed \subseteq PoolTxs
<1>1. DOMAIN chainTxs = 1 .. Len(chainTxs)
  BY LenProperties DEF ChainInv
<1>2. Confirmed = Upto(chainTxs, Len(chainTxs))
  BY <1>1 DEF Confirmed, Range, Upto
<1>3. Len(chainTxs) \in 1 .. Len(chainTxs)
  BY DEF ChainInv
<1> QED
  BY <1>2, <1>3 DEF ChainInv, ConsistentSets

(* The chain starts with its first block. *)
LEMMA ChainStarts ==
    ASSUME PoolInit
    PROVE  ChainInv
<1>1. chainTxs = <<FirstBlock>> /\ FirstBlock \in ConsistentSets /\ FirstBlock \in SUBSET PoolTxs
  BY PoolAssumption DEF PoolInit, ConsistentSets
<1>2. chainTxs \in Seq(SUBSET PoolTxs) /\ Len(chainTxs) = 1 /\ chainTxs[1] = FirstBlock
  BY <1>1
<1>3. Upto(chainTxs, 1) = FirstBlock
  BY <1>2 DEF Upto
<1> QED
  BY <1>1, <1>2, <1>3 DEF ChainInv

(* What holds of the chain holds of the next one. *)
LEMMA LaterConfirmedIs ==
    ASSUME ChainInv'
    PROVE  Confirmed' = Upto(chainTxs', Len(chainTxs')) /\ Confirmed' \in SUBSET PoolTxs
<1>1. DOMAIN chainTxs' = 1 .. Len(chainTxs')
  BY LenProperties DEF ChainInv
<1>2. Confirmed' = Upto(chainTxs', Len(chainTxs'))
  BY <1>1 DEF Confirmed, Range, Upto
<1>3. Len(chainTxs') \in 1 .. Len(chainTxs')
  BY DEF ChainInv
<1> QED
  BY <1>2, <1>3 DEF ChainInv, ConsistentSets

(* A block comes on top of the others: they stay what they were. *)
LEMMA BlockIs ==
    ASSUME ChainInv, NEW txs \in SUBSET PoolTxs, Block(txs)
    PROVE  /\ ChainInv' /\ Confirmed' = Confirmed \cup txs
           /\ Len(chainTxs') = Len(chainTxs) + 1 /\ chainTxs'[Len(chainTxs) + 1] = txs
           /\ \A i \in 1 .. Len(chainTxs) : chainTxs'[i] = chainTxs[i]
           /\ \A i \in 1 .. Len(chainTxs) : Upto(chainTxs', i) = Upto(chainTxs, i)
<1> DEFINE c == chainTxs
           n == Len(chainTxs)
<1>0. c \in Seq(SUBSET PoolTxs) /\ n \in Nat \ {0} /\ DOMAIN c = 1 .. n
  BY LenProperties DEF ChainInv
<1>1. chainTxs' = Append(c, txs) /\ txs \cup Confirmed \in ConsistentSets
  BY DEF Block
<1>2. /\ chainTxs' \in Seq(SUBSET PoolTxs) /\ Len(chainTxs') = n + 1 /\ chainTxs'[n + 1] = txs
      /\ \A i \in 1 .. n : chainTxs'[i] = c[i]
  BY <1>0, <1>1
<1>3. \A i \in 1 .. n : Upto(chainTxs', i) = Upto(c, i)
  <2> SUFFICES ASSUME NEW i \in 1 .. n PROVE Upto(chainTxs', i) = Upto(c, i)
    OBVIOUS
  <2>1. \A k \in 1 .. i : k \in 1 .. n
    BY <1>0
  <2> HIDE DEF c, n
  <2> QED
    BY <1>2, <2>1 DEF Upto
<1>4. Confirmed = Upto(c, n)
  BY ConfirmedIs
<1>5. Upto(chainTxs', n + 1) = Confirmed \cup txs
  <2>1. 1 .. n + 1 = (1 .. n) \cup {n + 1}
    BY <1>0
  <2>2. Upto(chainTxs', n + 1) = Upto(chainTxs', n) \cup txs
    BY <1>2, <2>1 DEF Upto
  <2>3. n \in 1 .. n
    BY <1>0
  <2> QED
    BY <1>3, <1>4, <2>2, <2>3
<1>6. ChainInv'
  <2> SUFFICES ASSUME NEW j \in 1 .. n + 1 PROVE Upto(chainTxs', j) \in ConsistentSets
    BY <1>0, <1>2 DEF ChainInv
  <2>1. CASE j = n + 1
    BY <1>1, <1>5, <2>1
  <2>2. CASE j # n + 1
    <3>1. j \in 1 .. n
      BY <1>0, <2>2
    <3> QED
      BY <1>3, <3>1 DEF ChainInv
  <2> QED
    BY <2>1, <2>2
<1>7. Confirmed' = Confirmed \cup txs
  <2>1. DOMAIN chainTxs' = 1 .. n + 1
    BY <1>2, LenProperties
  <2>2. Confirmed' = Upto(chainTxs', n + 1)
    BY <2>1 DEF Confirmed, Range, Upto
  <2> QED
    BY <1>5, <2>2
<1> QED
  BY <1>1, <1>2, <1>3, <1>6, <1>7

(* The last block goes: the others stay what they were. *)
LEMMA UnblockIs ==
    ASSUME ChainInv, Unblock
    PROVE  /\ ChainInv' /\ Len(chainTxs) > 1 /\ Len(chainTxs') = Len(chainTxs) - 1
           /\ \A i \in 1 .. Len(chainTxs) - 1 : chainTxs'[i] = chainTxs[i]
           /\ \A i \in 1 .. Len(chainTxs) - 1 : Upto(chainTxs', i) = Upto(chainTxs, i)
<1> DEFINE c == chainTxs
           n == Len(chainTxs)
<1>0. c \in Seq(SUBSET PoolTxs) /\ n \in Nat \ {0} /\ DOMAIN c = 1 .. n
  BY LenProperties DEF ChainInv
<1>1. n > 1 /\ chainTxs' = SubSeq(c, 1, n - 1)
  BY DEF Unblock, Front
<1>2. /\ chainTxs' \in Seq(SUBSET PoolTxs) /\ Len(chainTxs') = n - 1
      /\ \A i \in 1 .. n - 1 : chainTxs'[i] = c[i]
  BY <1>0, <1>1
<1>3. \A i \in 1 .. n - 1 : Upto(chainTxs', i) = Upto(c, i)
  <2> SUFFICES ASSUME NEW i \in 1 .. n - 1 PROVE Upto(chainTxs', i) = Upto(c, i)
    OBVIOUS
  <2>1. \A k \in 1 .. i : k \in 1 .. n - 1
    BY <1>0
  <2> HIDE DEF c, n
  <2> QED
    BY <1>2, <2>1 DEF Upto
<1>4. n - 1 \in Nat \ {0} /\ 1 .. n - 1 \subseteq 1 .. n
  BY <1>0, <1>1
<1>5. ChainInv'
  BY <1>2, <1>3, <1>4 DEF ChainInv
<1> QED
  BY <1>1, <1>2, <1>3, <1>5

(* Every block so far leaves txs that may stand in one chain. *)
LEMMA ChainStep ==
    ASSUME ChainInv, [PoolNext]_poolVars
    PROVE  ChainInv'
<1>1. CASE chainTxs' = chainTxs
  BY <1>1 DEF ChainInv
<1> QED
  BY <1>1, BlockIs, UnblockIs
     DEF PoolNext, poolVars, chainPart, Refresh, lookup_utxos, _accept_transactions,
         _dispatch_glyph_balance, notify_balance_change, Subscribe, Unsubscribe, unsubscribe_session

(* Outputs that carry a ref of an owner: those of txs, and those that txs spend. *)
Pays(o, a, r) == Output(o).owner = a /\ r \in Output(o).refs
OutsOf(S, a, r) == {o \in UNION {{t} \X DOMAIN Outs[t] : t \in S} : Pays(o, a, r)}
InsOf(S, a, r) == {o \in UNION {Ins[t] : t \in S} : Pays(o, a, r)}

(* The movements that a tx makes of them. *)
Credit(o, a, r) == [owner |-> a, ref |-> r, delta |-> Output(o).value, of |-> o, by |-> o[1]]
Debit(t, o, a, r) == [owner |-> a, ref |-> r, delta |-> -Output(o).value, of |-> o, by |-> t]
MovesOf(t, a, r) == {Credit(o, a, r) : o \in OutsOf({t}, a, r)} \cup {Debit(t, o, a, r) : o \in InsOf({t}, a, r)}

(* The movements that an index has of a tx; it lists each tx under the pairs it moves. *)
MovIn(g, t) == IF t \in DOMAIN g THEN g[t] ELSE {}
IndexShows(g, by) == \A p, t : Holds(by, p, t) <=> \E m \in MovIn(g, t) : Pair(m) = p

(* What the index has of a tx whose movements of a pair it has seen. *)
IndexInv ==
    /\ DOMAIN glyph_txs \subseteq poolTxs /\ DOMAIN blind = poolTxs
    /\ IndexShows(glyph_txs, glyph_by)
    /\ \A t \in poolTxs : \A a, r : <<a, r>> \notin blind[t] =>
          {m \in MovIn(glyph_txs, t) : Pair(m) = <<a, r>>} = MovesOf(t, a, r)

(* An input names an output of another tx. *)
LEMMA OutputsAre ==
    /\ \A t \in PoolTxs : \A o \in Ins[t] :
          /\ o = <<o[1], o[2]>> /\ o[1] \in PoolTxs \ {t} /\ o[2] \in DOMAIN Outs[o[1]]
          /\ Output(o).value \in Nat
    /\ \A t \in PoolTxs : \A n \in DOMAIN Outs[t] :
          Output(<<t, n>>) = Outs[t][n] /\ Output(<<t, n>>).value \in Nat
<1>1. ASSUME NEW t \in PoolTxs, NEW o \in Ins[t]
      PROVE  o = <<o[1], o[2]>> /\ o[1] \in PoolTxs \ {t} /\ o[2] \in DOMAIN Outs[o[1]]
  BY PoolAssumption
<1> QED
  BY <1>1, PoolAssumption DEF Output

(* The movements of a tx, one by one, and the pairs that it moves unseen. *)
LEMMA MovesAre ==
    ASSUME NEW t, _has_glyph_or_swap_content(t)
    PROVE  /\ \A m \in Movements(t) :
                 \/ \E n \in Visible(t) : \E q \in Known(Output(<<t, n>>).refs) :
                       m = [owner |-> Output(<<t, n>>).owner, ref |-> q,
                            delta |-> 1 * Output(<<t, n>>).value, of |-> <<t, n>>, by |-> t]
                 \/ \E o \in Ins[t] : \E q \in Known(Output(o).refs) :
                       /\ o \in Unspent(Confirmed)
                       /\ m = [owner |-> Output(o).owner, ref |-> q,
                               delta |-> (-1) * Output(o).value, of |-> o, by |-> t]
           /\ \A n \in Visible(t) : \A q \in Known(Output(<<t, n>>).refs) :
                 [owner |-> Output(<<t, n>>).owner, ref |-> q,
                  delta |-> 1 * Output(<<t, n>>).value, of |-> <<t, n>>, by |-> t] \in Movements(t)
           /\ \A o \in Ins[t] : o \in Unspent(Confirmed) => \A q \in Known(Output(o).refs) :
                 [owner |-> Output(o).owner, ref |-> q,
                  delta |-> (-1) * Output(o).value, of |-> o, by |-> t] \in Movements(t)
<1>1. ASSUME NEW m \in Movements(t),
             ~ \E o \in Ins[t] : \E q \in Known(Output(o).refs) :
                 /\ o \in Unspent(Confirmed)
                 /\ m = [owner |-> Output(o).owner, ref |-> q,
                         delta |-> (-1) * Output(o).value, of |-> o, by |-> t]
      PROVE  \E n \in Visible(t) : \E q \in Known(Output(<<t, n>>).refs) :
                 m = [owner |-> Output(<<t, n>>).owner, ref |-> q,
                      delta |-> 1 * Output(<<t, n>>).value, of |-> <<t, n>>, by |-> t]
  BY <1>1 DEF Movements
<1>2. ASSUME NEW n \in Visible(t), NEW q \in Known(Output(<<t, n>>).refs)
      PROVE  [owner |-> Output(<<t, n>>).owner, ref |-> q,
              delta |-> 1 * Output(<<t, n>>).value, of |-> <<t, n>>, by |-> t] \in Movements(t)
  BY DEF Movements
<1>3. ASSUME NEW o \in Ins[t], o \in Unspent(Confirmed), NEW q \in Known(Output(o).refs)
      PROVE  [owner |-> Output(o).owner, ref |-> q,
              delta |-> (-1) * Output(o).value, of |-> o, by |-> t] \in Movements(t)
  BY <1>3 DEF Movements
<1> QED
  BY <1>1, <1>2, <1>3

(* What the indexing of a tx does not see is among the pairs that it moves unseen. *)
LEMMA UnseenAre ==
    ASSUME NEW t
    PROVE  /\ \A n \in DOMAIN Outs[t] : \A r \in UnseenOut(t, n) : <<Output(<<t, n>>).owner, r>> \in Unseen(t)
           /\ \A o \in Ins[t] : \A r \in UnseenIn(t, o) : <<Output(o).owner, r>> \in Unseen(t)
BY DEF Unseen, PairsOf

(* A tx that moves a pair unseen aside, its movements of the pair are indexed as they are. *)
LEMMA MovementsAre ==
    ASSUME NEW t \in PoolTxs, NEW a, NEW r, <<a, r>> \notin Unseen(t)
    PROVE  {m \in Movements(t) : Pair(m) = <<a, r>>} = MovesOf(t, a, r)
<1> DEFINE content == _has_glyph_or_swap_content(t)
<1>1. /\ \A n \in DOMAIN Outs[t] : Output(<<t, n>>) = Outs[t][n] /\ Output(<<t, n>>).value \in Nat
      /\ \A o \in Ins[t] : Output(o).value \in Nat
  BY OutputsAre
<1>2. /\ \A o : o \in OutsOf({t}, a, r) <=> \E n \in DOMAIN Outs[t] : o = <<t, n>> /\ Pays(o, a, r)
      /\ \A o : o \in InsOf({t}, a, r) <=> o \in Ins[t] /\ Pays(o, a, r)
  BY DEF OutsOf, InsOf
<1>3. ASSUME NEW n \in DOMAIN Outs[t], Pays(<<t, n>>, a, r)
      PROVE  ~Outs[t][n].hidden /\ r \in Known(Output(<<t, n>>).refs) /\ Output(<<t, n>>).owner = a
  <2>1. r \in Outs[t][n].refs /\ Output(<<t, n>>).owner = a
    BY <1>1, <1>3 DEF Pays
  <2>2. r \notin UnseenOut(t, n)
    BY <2>1, UnseenAre
  <2>3. ~Outs[t][n].hidden /\ r \in Known(Outs[t][n].refs)
    BY <2>1, <2>2 DEF UnseenOut
  <2> QED
    BY <1>1, <2>1, <2>3
<1>4. ASSUME NEW o \in Ins[t], Pays(o, a, r)
      PROVE  content /\ o \in Unspent(Confirmed) /\ r \in Known(Output(o).refs) /\ Output(o).owner = a
  <2>1. r \in Output(o).refs /\ Output(o).owner = a
    BY <1>4 DEF Pays
  <2>2. r \notin UnseenIn(t, o)
    BY <2>1, UnseenAre
  <2>3. content /\ o \in Unspent(Confirmed)
    BY <2>1, <2>2 DEF UnseenIn
  <2>4. PICK u, n : u \in Confirmed /\ n \in DOMAIN Outs[u] /\ o = <<u, n>>
    BY <2>3 DEF Unspent
  <2>5. r \in Known(Output(o).refs)
    <3>1. Output(o) = Outs[u][n]
      BY <2>4 DEF Output
    <3> QED
      BY <2>1, <2>4, <3>1 DEF Known, _is_known_token
  <2> QED
    BY <2>1, <2>3, <2>5
<1>5. CASE ~content
  <2>1. Movements(t) = {}
    BY <1>5 DEF Movements
  <2>2. \A n \in DOMAIN Outs[t] : Outs[t][n].refs = {}
    BY <1>5 DEF _has_glyph_or_swap_content
  <2>3. OutsOf({t}, a, r) = {}
    <3> SUFFICES ASSUME NEW o \in OutsOf({t}, a, r) PROVE FALSE
      OBVIOUS
    <3>1. PICK n \in DOMAIN Outs[t] : o = <<t, n>> /\ Pays(o, a, r)
      BY <1>2
    <3>2. r \in Output(<<t, n>>).refs
      BY <3>1 DEF Pays
    <3> QED
      BY <1>1, <2>2, <3>2
  <2>4. InsOf({t}, a, r) = {}
    BY <1>2, <1>4, <1>5
  <2> QED
    BY <2>1, <2>3, <2>4 DEF MovesOf
<1>6. CASE content
  <2>1. ASSUME NEW m \in Movements(t), Pair(m) = <<a, r>> PROVE m \in MovesOf(t, a, r)
    <3>1. ASSUME NEW n \in Visible(t), NEW q \in Known(Output(<<t, n>>).refs),
                 m = [owner |-> Output(<<t, n>>).owner, ref |-> q, delta |-> 1 * Output(<<t, n>>).value,
                      of |-> <<t, n>>, by |-> t]
          PROVE  m \in MovesOf(t, a, r)
      <4>1. Output(<<t, n>>).owner = a /\ q = r /\ r \in Output(<<t, n>>).refs
        BY <2>1, <3>1 DEF Pair, Known
      <4>2. n \in DOMAIN Outs[t]
        BY DEF Visible
      <4>3. <<t, n>> \in OutsOf({t}, a, r)
        BY <1>2, <4>1, <4>2 DEF Pays
      <4>4. m = Credit(<<t, n>>, a, r)
        BY <1>1, <3>1, <4>1, <4>2 DEF Credit
      <4> QED
        BY <4>3, <4>4 DEF MovesOf
    <3>2. ASSUME NEW o \in Ins[t], NEW q \in Known(Output(o).refs),
                 m = [owner |-> Output(o).owner, ref |-> q, delta |-> (-1) * Output(o).value,
                      of |-> o, by |-> t]
          PROVE  m \in MovesOf(t, a, r)
      <4>1. Output(o).owner = a /\ q = r /\ r \in Output(o).refs
        BY <2>1, <3>2 DEF Pair, Known
      <4>2. o \in InsOf({t}, a, r)
        BY <1>2, <4>1 DEF Pays
      <4>3. m = Debit(t, o, a, r)
        BY <1>1, <3>2, <4>1 DEF Debit
      <4> QED
        BY <4>2, <4>3 DEF MovesOf
    <3> QED
      BY <1>6, <3>1, <3>2, MovesAre
  <2>2. ASSUME NEW o \in OutsOf({t}, a, r)
        PROVE  Credit(o, a, r) \in Movements(t) /\ Pair(Credit(o, a, r)) = <<a, r>>
    <3>1. PICK n \in DOMAIN Outs[t] : o = <<t, n>> /\ Pays(o, a, r)
      BY <1>2
    <3>2. n \in Visible(t) /\ r \in Known(Output(<<t, n>>).refs) /\ Output(<<t, n>>).owner = a
      BY <1>3, <3>1 DEF Visible
    <3>3. Credit(o, a, r) = [owner |-> Output(<<t, n>>).owner, ref |-> r,
                             delta |-> 1 * Output(<<t, n>>).value, of |-> <<t, n>>, by |-> t]
      BY <1>1, <3>1, <3>2 DEF Credit
    <3>4. Pair(Credit(o, a, r)) = <<a, r>>
      BY DEF Pair, Credit
    <3> QED
      BY <1>6, <3>2, <3>3, <3>4, MovesAre
  <2>3. ASSUME NEW o \in InsOf({t}, a, r)
        PROVE  Debit(t, o, a, r) \in Movements(t) /\ Pair(Debit(t, o, a, r)) = <<a, r>>
    <3>1. o \in Ins[t] /\ Pays(o, a, r)
      BY <1>2
    <3>2. o \in Unspent(Confirmed) /\ r \in Known(Output(o).refs) /\ Output(o).owner = a
      BY <1>4, <3>1
    <3>3. Debit(t, o, a, r) = [owner |-> Output(o).owner, ref |-> r,
                               delta |-> (-1) * Output(o).value, of |-> o, by |-> t]
      BY <1>1, <3>1, <3>2 DEF Debit
    <3>4. Pair(Debit(t, o, a, r)) = <<a, r>>
      BY DEF Pair, Debit
    <3> QED
      BY <1>6, <3>1, <3>2, <3>3, <3>4, MovesAre
  <2>4. \A m : m \in MovesOf(t, a, r) => m \in Movements(t) /\ Pair(m) = <<a, r>>
    BY <2>2, <2>3 DEF MovesOf
  <2> QED
    BY <2>1, <2>4
<1> QED
  BY <1>5, <1>6

(* The index starts empty. *)
LEMMA IndexStarts ==
    ASSUME PoolInit
    PROVE  IndexInv
<1>1. poolTxs = {} /\ glyph_txs = << >> /\ glyph_by = << >> /\ blind = << >> /\ DOMAIN << >> = {}
  BY DEF PoolInit
<1> QED
  BY <1>1 DEF IndexInv, IndexShows, MovIn, Holds

(* What accepted txs add to the index. *)
LEMMA AcceptIs ==
    ASSUME IndexInv, PoolTypes, _accept_transactions
    PROVE  /\ poolTxs' = poolTxs \cup Acceptable /\ Acceptable \cap poolTxs = {} /\ Acceptable \subseteq PoolTxs
           /\ DOMAIN glyph_txs' \subseteq poolTxs'
           /\ \A t : MovIn(glyph_txs', t) = IF t \in Acceptable THEN Movements(t) ELSE MovIn(glyph_txs, t)
           /\ IndexShows(glyph_txs', glyph_by')
           /\ \A p : p \in touched_balance' <=>
                 p \in touched_balance \/ \E t \in Acceptable : \E m \in Movements(t) : Pair(m) = p
<1> DEFINE A == Acceptable
<1>1. /\ poolTxs' = poolTxs \cup A
      /\ \E order \in SetToSeqs(A) : IndexTxs(order)
  BY DEF _accept_transactions
<1>2. A \cap poolTxs = {} /\ A \subseteq hashes /\ A \subseteq PoolTxs
  BY DEF Acceptable, PoolTypes
<1> HIDE DEF A
<1>3. PICK order \in SetToSeqs(A) : IndexTxs(order)
  BY <1>1
<1>4. Range(order) = A
  <2>1. IsFiniteSet(A)
    BY <1>2, PoolAssumption, FS_Subset
  <2>2. order \in [1 .. Cardinality(A) -> A] /\ IsInjective(order)
    BY <1>3 DEF SetToSeqs, IsInjective
  <2>3. DOMAIN order = 1 .. Len(order) /\ A = {order[k] : k \in 1 .. Len(order)}
    BY <2>1, <2>2, OrderOf
  <2> QED
    BY <2>3 DEF Range
<1> DEFINE new == {t \in A : Movements(t) # {}}
           pairs == [t \in new |-> {Pair(m) : m \in Movements(t)}]
<1>5. /\ glyph_txs' = Updated(glyph_txs, [t \in new |-> Movements(t)])
      /\ glyph_by' = [p \in DOMAIN glyph_by \cup UNION Range(pairs) |->
                          Of(glyph_by, p) \cup {t \in new : p \in pairs[t]}]
      /\ touched_balance' = touched_balance \cup UNION Range(pairs)
  BY <1>3, <1>4 DEF IndexTxs
<1>6. \A t : t \in new <=> t \in A /\ Movements(t) # {}
  OBVIOUS
<1>7. DOMAIN pairs = new /\ \A t \in new : pairs[t] = {Pair(m) : m \in Movements(t)}
  OBVIOUS
<1> HIDE DEF new, pairs
<1>8. \A p : p \in UNION Range(pairs) <=> \E t \in A : \E m \in Movements(t) : Pair(m) = p
  <2>1. \A p : p \in UNION Range(pairs) <=> \E t \in new : p \in pairs[t]
    BY <1>7 DEF Range
  <2>2. \A t \in new : \A p : p \in pairs[t] <=> \E m \in Movements(t) : Pair(m) = p
    BY <1>7
  <2> QED
    BY <1>6, <2>1, <2>2
<1>9. /\ DOMAIN glyph_txs' = DOMAIN glyph_txs \cup new
      /\ \A t \in new : glyph_txs'[t] = Movements(t)
      /\ \A t \in DOMAIN glyph_txs \ new : glyph_txs'[t] = glyph_txs[t]
  BY <1>5 DEF Updated
<1>10. ASSUME NEW t PROVE MovIn(glyph_txs', t) = IF t \in A THEN Movements(t) ELSE MovIn(glyph_txs, t)
  <2>1. CASE t \in new
    BY <1>6, <1>9, <2>1 DEF MovIn
  <2>2. CASE t \in A /\ t \notin new
    <3>1. t \notin DOMAIN glyph_txs /\ Movements(t) = {}
      BY <1>2, <1>6, <2>2 DEF IndexInv
    <3> QED
      BY <1>9, <2>2, <3>1 DEF MovIn
  <2>3. CASE t \notin A
    BY <1>6, <1>9, <2>3 DEF MovIn
  <2> QED
    BY <2>1, <2>2, <2>3
<1>11. ASSUME NEW p, NEW t PROVE Holds(glyph_by', p, t) <=> \E m \in MovIn(glyph_txs', t) : Pair(m) = p
  <2>1. Holds(glyph_by', p, t) <=> t \in Of(glyph_by, p) \/ (t \in new /\ p \in pairs[t])
    <3>1. CASE p \in DOMAIN glyph_by \cup UNION Range(pairs)
      <4>1. glyph_by'[p] = Of(glyph_by, p) \cup {u \in new : p \in pairs[u]} /\ p \in DOMAIN glyph_by'
        BY <1>5, <3>1
      <4> QED
        BY <4>1 DEF Holds
    <3>2. CASE p \notin DOMAIN glyph_by \cup UNION Range(pairs)
      <4>1. p \notin DOMAIN glyph_by' /\ Of(glyph_by, p) = {}
        BY <1>5, <3>2 DEF Of
      <4>2. ~(t \in new /\ p \in pairs[t])
        BY <1>7, <3>2 DEF Range
      <4> QED
        BY <4>1, <4>2 DEF Holds
    <3> QED
      BY <3>1, <3>2
  <2>2. t \in Of(glyph_by, p) <=> Holds(glyph_by, p, t)
    BY DEF Of, Holds
  <2>3. Holds(glyph_by, p, t) <=> \E m \in MovIn(glyph_txs, t) : Pair(m) = p
    BY DEF IndexInv, IndexShows
  <2>4. CASE t \in A
    <3>1. MovIn(glyph_txs, t) = {}
      BY <1>2, <2>4 DEF IndexInv, MovIn
    <3>2. (t \in new /\ p \in pairs[t]) <=> \E m \in Movements(t) : Pair(m) = p
      BY <1>6, <1>7, <2>4
    <3>3. MovIn(glyph_txs', t) = Movements(t)
      BY <1>10, <2>4
    <3> QED
      BY <2>1, <2>2, <2>3, <3>1, <3>2, <3>3
  <2>5. CASE t \notin A
    <3>1. MovIn(glyph_txs', t) = MovIn(glyph_txs, t) /\ t \notin new
      BY <1>6, <1>10, <2>5
    <3> QED
      BY <2>1, <2>2, <2>3, <3>1
  <2> QED
    BY <2>4, <2>5
<1>12. DOMAIN glyph_txs' \subseteq poolTxs'
  BY <1>1, <1>6, <1>9 DEF IndexInv
<1> QED
  BY <1>1, <1>2, <1>5, <1>8, <1>10, <1>11, <1>12 DEF IndexShows, A

(* What txs that have gone take from it. *)
LEMMA RefreshIs ==
    ASSUME IndexInv, NEW list, Refresh(list)
    PROVE  /\ poolTxs' = poolTxs \cap list
           /\ DOMAIN glyph_txs' \subseteq poolTxs'
           /\ \A t : MovIn(glyph_txs', t) = IF t \in list THEN MovIn(glyph_txs, t) ELSE {}
           /\ IndexShows(glyph_txs', glyph_by')
           /\ \A p : p \in touched_balance' <=>
                 p \in touched_balance \/ \E t \in poolTxs \ list : \E m \in MovIn(glyph_txs, t) : Pair(m) = p
<1> DEFINE indexed == (poolTxs \ list) \cap DOMAIN glyph_txs
           left == [p \in DOMAIN glyph_by |-> glyph_by[p] \ indexed]
<1>1. /\ poolTxs' = poolTxs \cap list
      /\ glyph_txs' = Restrict(glyph_txs, DOMAIN glyph_txs \ indexed)
      /\ glyph_by' = Restrict(left, {p \in DOMAIN left : left[p] # {}})
      /\ touched_balance' = touched_balance \cup UNION {Moved(t) : t \in indexed}
  BY DEF Refresh, remove_txs
<1>2. \A t : t \in indexed <=> t \in DOMAIN glyph_txs /\ t \notin list
  BY DEF IndexInv
<1>3. DOMAIN left = DOMAIN glyph_by /\ \A p \in DOMAIN glyph_by : left[p] = glyph_by[p] \ indexed
  OBVIOUS
<1>4. \A p : p \in UNION {Moved(t) : t \in indexed} <=> \E t \in indexed : \E m \in glyph_txs[t] : Pair(m) = p
  BY DEF Moved
<1> HIDE DEF indexed, left
<1>5. /\ DOMAIN glyph_txs' = DOMAIN glyph_txs \ indexed
      /\ \A t \in DOMAIN glyph_txs' : glyph_txs'[t] = glyph_txs[t]
  BY <1>1 DEF Restrict
<1>6. ASSUME NEW t PROVE MovIn(glyph_txs', t) = IF t \in list THEN MovIn(glyph_txs, t) ELSE {}
  BY <1>2, <1>5 DEF MovIn
<1>7. ASSUME NEW p, NEW t PROVE Holds(glyph_by', p, t) <=> \E m \in MovIn(glyph_txs', t) : Pair(m) = p
  <2>1. DOMAIN glyph_by' = {q \in DOMAIN left : left[q] # {}} /\ \A q \in DOMAIN glyph_by' : glyph_by'[q] = left[q]
    BY <1>1 DEF Restrict
  <2>2. Holds(glyph_by', p, t) <=> Holds(glyph_by, p, t) /\ t \notin indexed
    BY <1>3, <2>1 DEF Holds
  <2>3. Holds(glyph_by, p, t) <=> \E m \in MovIn(glyph_txs, t) : Pair(m) = p
    BY DEF IndexInv, IndexShows
  <2>4. MovIn(glyph_txs', t) = IF t \in indexed THEN {} ELSE MovIn(glyph_txs, t)
    BY <1>5 DEF MovIn
  <2> QED
    BY <2>2, <2>3, <2>4
<1>8. ASSUME NEW p
      PROVE  (\E t \in indexed : \E m \in glyph_txs[t] : Pair(m) = p) <=>
             (\E t \in poolTxs \ list : \E m \in MovIn(glyph_txs, t) : Pair(m) = p)
  BY <1>2 DEF MovIn, IndexInv
<1>9. DOMAIN glyph_txs' \subseteq poolTxs'
  BY <1>1, <1>2, <1>5 DEF IndexInv
<1> QED
  BY <1>1, <1>4, <1>6, <1>7, <1>8, <1>9 DEF IndexShows

(* The index has the movements of the txs as they come and go, but the unseen ones. *)
LEMMA IndexStep ==
    ASSUME IndexInv, PoolTypes, [PoolNext]_poolVars
    PROVE  IndexInv'
<1>1. CASE UNCHANGED <<poolTxs, glyph_txs, glyph_by, blind>>
  BY <1>1 DEF IndexInv
<1>2. ASSUME NEW list \in SUBSET PoolTxs, Refresh(list) PROVE IndexInv'
  <2>1. blind' = Restrict(blind, DOMAIN blind \cap list)
    BY <1>2 DEF Refresh
  <2>2. /\ poolTxs' = poolTxs \cap list /\ DOMAIN glyph_txs' \subseteq poolTxs'
        /\ \A t \in list : MovIn(glyph_txs', t) = MovIn(glyph_txs, t)
        /\ IndexShows(glyph_txs', glyph_by')
    BY <1>2, RefreshIs
  <2>3. DOMAIN blind' = poolTxs' /\ \A t \in poolTxs' : blind'[t] = blind[t] /\ t \in list /\ t \in poolTxs
    BY <2>1, <2>2 DEF Restrict, IndexInv
  <2>4. ASSUME NEW t \in poolTxs', NEW a, NEW r, <<a, r>> \notin blind'[t]
        PROVE  {m \in MovIn(glyph_txs', t) : Pair(m) = <<a, r>>} = MovesOf(t, a, r)
    <3>1. MovIn(glyph_txs', t) = MovIn(glyph_txs, t) /\ <<a, r>> \notin blind[t] /\ t \in poolTxs
      BY <2>2, <2>3, <2>4
    <3> QED
      BY <3>1 DEF IndexInv
  <2> QED
    BY <2>2, <2>3, <2>4 DEF IndexInv
<1>3. ASSUME _accept_transactions PROVE IndexInv'
  <2> DEFINE A == Acceptable
  <2>1. blind' = Updated(blind, [t \in A |-> Unseen(t)])
    BY <1>3 DEF _accept_transactions
  <2>2. /\ poolTxs' = poolTxs \cup A /\ A \subseteq PoolTxs /\ DOMAIN glyph_txs' \subseteq poolTxs'
        /\ \A t : MovIn(glyph_txs', t) = IF t \in A THEN Movements(t) ELSE MovIn(glyph_txs, t)
        /\ IndexShows(glyph_txs', glyph_by')
    BY <1>3, AcceptIs
  <2> HIDE DEF A
  <2>3. /\ DOMAIN blind' = poolTxs'
        /\ \A t \in A : blind'[t] = Unseen(t)
        /\ \A t \in poolTxs \ A : blind'[t] = blind[t]
    BY <2>1, <2>2 DEF Updated, IndexInv
  <2>4. ASSUME NEW t \in poolTxs', NEW a, NEW r, <<a, r>> \notin blind'[t]
        PROVE  {m \in MovIn(glyph_txs', t) : Pair(m) = <<a, r>>} = MovesOf(t, a, r)
    <3>1. CASE t \in A
      <4>1. MovIn(glyph_txs', t) = Movements(t) /\ <<a, r>> \notin Unseen(t) /\ t \in PoolTxs
        BY <2>2, <2>3, <2>4, <3>1
      <4> QED
        BY <4>1, MovementsAre
    <3>2. CASE t \notin A
      <4>1. MovIn(glyph_txs', t) = MovIn(glyph_txs, t) /\ <<a, r>> \notin blind[t] /\ t \in poolTxs
        BY <2>2, <2>3, <2>4, <3>2
      <4> QED
        BY <4>1 DEF IndexInv
    <3> QED
      BY <3>1, <3>2
  <2> QED
    BY <2>2, <2>3, <2>4 DEF IndexInv
<1> QED
  BY <1>1, <1>2, <1>3
     DEF PoolNext, poolVars, indexPart, pastPart, Block, lookup_utxos, _dispatch_glyph_balance,
         notify_balance_change, Subscribe, Unsubscribe, unsubscribe_session, Unblock

-----------------------------------------------------------------------------
(* PoolTokens: balances *)

(* The value of an output, and what some are worth together. *)
ValueOf == [o \in AllOuts |-> Output(o).value]
Value(T) == Total(ValueOf, T)

(* What a function gives on a finite set is finite. *)
LEMMA ImageFinite ==
    ASSUME NEW S, IsFiniteSet(S), NEW c
    PROVE  IsFiniteSet({c[x] : x \in S})
<1> DEFINE T == {c[x] : x \in S}
           f == [x \in S |-> c[x]]
<1>1. f \in Surjection(S, T)
  BY DEF Surjection
<1> HIDE DEF f, T
<1> QED
  BY <1>1, FS_Surjection DEF T

(* There are finitely many outputs, each with a value. *)
LEMMA AllOutsFinite ==
    IsFiniteSet(AllOuts) /\ \A o \in AllOuts : ValueOf[o] \in Int
<1> DEFINE c == [t \in PoolTxs |-> {t} \X DOMAIN Outs[t]]
<1>1. \A t \in PoolTxs : IsFiniteSet(c[t])
  <2> SUFFICES ASSUME NEW t \in PoolTxs PROVE IsFiniteSet({t} \X DOMAIN Outs[t])
    OBVIOUS
  <2>1. IsFiniteSet({t})
    BY FS_Singleton
  <2>2. IsFiniteSet(1 .. Len(Outs[t])) /\ DOMAIN Outs[t] = 1 .. Len(Outs[t])
    <3>1. 1 \in Int /\ Len(Outs[t]) \in Int /\ DOMAIN Outs[t] = 1 .. Len(Outs[t])
      BY PoolAssumption
    <3> QED
      BY <3>1, FS_Interval
  <2>3. IsFiniteSet(DOMAIN Outs[t])
    BY <2>2
  <2> QED
    BY <2>1, <2>3, FS_Product
<1>2. AllOuts = UNION {c[t] : t \in PoolTxs}
  BY DEF AllOuts
<1>3. IsFiniteSet({c[t] : t \in PoolTxs})
  <2>1. IsFiniteSet(PoolTxs)
    BY PoolAssumption
  <2> HIDE DEF c
  <2> QED
    BY <2>1, ImageFinite
<1>4. IsFiniteSet(AllOuts)
  <2> HIDE DEF c
  <2>1. \A T \in {c[t] : t \in PoolTxs} : IsFiniteSet(T)
    BY <1>1
  <2> QED
    BY <1>2, <1>3, <2>1, FS_UNION
<1>5. ASSUME NEW o \in AllOuts PROVE ValueOf[o] \in Int
  <2>1. PICK t \in PoolTxs : \E n \in DOMAIN Outs[t] : o = <<t, n>>
    BY DEF AllOuts
  <2>2. PICK n \in DOMAIN Outs[t] : o = <<t, n>>
    BY <2>1
  <2>3. Output(o).value \in Nat
    BY <2>2, OutputsAre
  <2> QED
    BY <2>3 DEF ValueOf
<1> QED
  BY <1>4, <1>5

(* Functions with the same values have the same sum. *)
LEMMA TotalSame ==
    ASSUME NEW f, NEW g, NEW S, IsFiniteSet(S), \A x \in S : f[x] \in Int /\ g[x] = f[x]
    PROVE  Total(g, S) = Total(f, S)
<1> DEFINE c == [x \in S |-> x]
<1>1. /\ \A x \in S : f[x] \in Int /\ g[c[x]] = IF 1 = 1 THEN f[x] ELSE -f[x]
      /\ \A x, y \in S : c[x] = c[y] => x = y
      /\ {c[x] : x \in S} = S
  OBVIOUS
<1> HIDE DEF c
<1>2. Total(g, {c[x] : x \in S}) = IF 1 = 1 THEN Total(f, S) ELSE -Total(f, S)
  BY <1>1, TotalMapped
<1> QED
  BY <1>1, <1>2

(* Disjoint sets of outputs are worth together what they are worth each. *)
LEMMA ValuesAdd ==
    ASSUME NEW S, S \subseteq AllOuts
    PROVE  /\ IsFiniteSet(S) /\ Value(S) \in Int
           /\ SumFunction([o \in S |-> Output(o).value]) = Value(S)
           /\ \A R \in SUBSET AllOuts : S \cap R = {} => Value(S \cup R) = Value(S) + Value(R)
<1>1. \A T \in SUBSET AllOuts : IsFiniteSet(T) /\ \A o \in T : ValueOf[o] \in Int
  BY AllOutsFinite, FS_Subset
<1>2. IsFiniteSet(S) /\ Value(S) \in Int
  BY <1>1, TotalType DEF Value
<1>3. SumFunction([o \in S |-> Output(o).value]) = Value(S)
  <2> DEFINE g == [o \in S |-> Output(o).value]
  <2>1. SumFunction(g) = Total(g, S)
    BY DEF SumFunction, Total
  <2>2. \A o \in S : ValueOf[o] \in Int /\ g[o] = ValueOf[o]
    BY <1>1 DEF ValueOf
  <2> HIDE DEF g
  <2>3. SumFunction(g) = Value(S)
    BY <1>2, <2>1, <2>2, TotalSame DEF Value
  <2> QED
    BY <2>3 DEF g
<1>4. ASSUME NEW R \in SUBSET AllOuts, S \cap R = {} PROVE Value(S \cup R) = Value(S) + Value(R)
  <2>1. IsFiniteSet(R) /\ \A o \in S \cup R : ValueOf[o] \in Int
    BY <1>1
  <2> QED
    BY <1>2, <1>4, <2>1, TotalUnion DEF Value
<1> QED
  BY <1>2, <1>3, <1>4

(* A balance is what came in less what went out. *)
LEMMA BalanceIs ==
    ASSUME NEW S \in ConsistentSets, NEW a, NEW r
    PROVE  /\ OutsOf(S, a, r) \subseteq AllOuts /\ InsOf(S, a, r) \subseteq AllOuts
           /\ Value(OutsOf(S, a, r)) \in Int /\ Value(InsOf(S, a, r)) \in Int
           /\ BalanceOf(S, <<a, r>>) = Value(OutsOf(S, a, r)) - Value(InsOf(S, a, r))
<1> DEFINE outs == OutsOf(S, a, r)
           ins == InsOf(S, a, r)
           U == {o \in Unspent(S) : Output(o).owner = <<a, r>>[1] /\ <<a, r>>[2] \in Output(o).refs}
<1>1. S \subseteq PoolTxs /\ Consistent(S)
  BY DEF ConsistentSets
<1>2. /\ \A o : o \in outs <=> Pays(o, a, r) /\ \E t \in S : \E n \in DOMAIN Outs[t] : o = <<t, n>>
      /\ \A o : o \in ins <=> Pays(o, a, r) /\ \E t \in S : o \in Ins[t]
  BY DEF OutsOf, InsOf
<1>3. \A o : o \in U <=> Pays(o, a, r) /\ (\E t \in S : \E n \in DOMAIN Outs[t] : o = <<t, n>>)
                          /\ \A u \in S : o \notin Ins[u]
  BY DEF Unspent, Pays
<1>4. BalanceOf(S, <<a, r>>) = SumFunction([o \in U |-> Output(o).value])
  BY DEF BalanceOf
<1> HIDE DEF outs, ins, U
<1>5. ASSUME NEW o \in ins PROVE \E t \in S : \E n \in DOMAIN Outs[t] : o = <<t, n>>
  <2>1. PICK t \in S : o \in Ins[t]
    BY <1>2
  <2>2. o = <<o[1], o[2]>> /\ o[2] \in DOMAIN Outs[o[1]]
    BY <1>1, <2>1, OutputsAre
  <2>3. o[1] \in S
    BY <1>1, <2>1 DEF Consistent
  <2> QED
    BY <2>2, <2>3
<1>6. outs = U \cup ins /\ U \cap ins = {}
  BY <1>2, <1>3, <1>5
<1>7. outs \subseteq AllOuts
  BY <1>1, <1>2 DEF AllOuts
<1>8. U \subseteq AllOuts /\ ins \subseteq AllOuts
  BY <1>6, <1>7
<1>9. Value(outs) = Value(U) + Value(ins)
  BY <1>6, <1>8, ValuesAdd
<1>10. BalanceOf(S, <<a, r>>) = Value(U) /\ Value(U) \in Int /\ Value(ins) \in Int
  BY <1>4, <1>8, ValuesAdd
<1> QED
  BY <1>7, <1>8, <1>9, <1>10 DEF outs, ins

(* Txs on top of others, none of them twice. *)
OnTop(P, C) == C \in ConsistentSets /\ P \cup C \in ConsistentSets /\ \A t \in P : t \notin C
Gain(P, a, r) == Value(OutsOf(P, a, r)) - Value(InsOf(P, a, r))
Gains(P, C, a, r) ==
    /\ OutsOf(P, a, r) \subseteq AllOuts /\ InsOf(P, a, r) \subseteq AllOuts
    /\ Gain(P, a, r) \in Int /\ BalanceOf(C, <<a, r>>) \in Int
    /\ BalanceOf(P \cup C, <<a, r>>) = BalanceOf(C, <<a, r>>) + Gain(P, a, r)

(* They change a balance by what comes in less what goes out. *)
LEMMA BalanceParts ==
    ASSUME NEW C, NEW P, OnTop(P, C), NEW a, NEW r
    PROVE  Gains(P, C, a, r)
<1>0. C \in ConsistentSets /\ P \cup C \in ConsistentSets /\ \A t \in P : t \notin C
  BY DEF OnTop
<1> DEFINE O(S) == OutsOf(S, a, r)
           I(S) == InsOf(S, a, r)
           all == P \cup C
<1>1. /\ O(all) = O(P) \cup O(C) /\ I(all) = I(P) \cup I(C)
  BY DEF OutsOf, InsOf
<1>2. O(P) \cap O(C) = {}
  BY <1>0 DEF OutsOf
<1>3. I(P) \cap I(C) = {}
  <2> SUFFICES ASSUME NEW o \in I(P), o \in I(C) PROVE FALSE
    OBVIOUS
  <2>1. PICK t \in P : o \in Ins[t]
    BY DEF InsOf
  <2>2. PICK u \in C : o \in Ins[u]
    BY DEF InsOf
  <2>3. t = u
    BY <1>0, <2>1, <2>2 DEF ConsistentSets, Consistent
  <2> QED
    BY <1>0, <2>3
<1>4. /\ O(all) \subseteq AllOuts /\ I(all) \subseteq AllOuts
      /\ BalanceOf(all, <<a, r>>) = Value(O(all)) - Value(I(all))
  BY <1>0, BalanceIs
<1>5. /\ O(C) \subseteq AllOuts /\ I(C) \subseteq AllOuts
      /\ BalanceOf(C, <<a, r>>) = Value(O(C)) - Value(I(C))
  BY <1>0, BalanceIs
<1> HIDE DEF O, I, all
<1>6. O(P) \subseteq AllOuts /\ I(P) \subseteq AllOuts
  BY <1>1, <1>4
<1>7. Value(O(all)) = Value(O(P)) + Value(O(C)) /\ Value(I(all)) = Value(I(P)) + Value(I(C))
  BY <1>1, <1>2, <1>3, <1>5, <1>6, ValuesAdd
<1>8. Value(O(P)) \in Int /\ Value(I(P)) \in Int /\ Value(O(C)) \in Int /\ Value(I(C)) \in Int
  BY <1>5, <1>6, ValuesAdd
<1>9. BalanceOf(C, <<a, r>>) \in Int
  BY <1>5, <1>8
<1>10. BalanceOf(all, <<a, r>>) = BalanceOf(C, <<a, r>>) + (Value(O(P)) - Value(I(P)))
  BY <1>4, <1>5, <1>7, <1>8
<1> QED
  BY <1>6, <1>8, <1>9, <1>10 DEF Gains, Gain, O, I, all

(* The sum that an index answers for a pair: of every movement of it, whatever lists the txs. *)
IndexSum(g, by, p) == SumFunction([m \in {m \in UNION {g[t] : t \in Of(by, p)} : Pair(m) = p} |-> m.delta])

(* The sum is over the movements of the pair in the whole index. *)
LEMMA SumOver ==
    ASSUME NEW g, NEW by, IndexShows(g, by), NEW p, NEW M,
           \A m : m \in M <=> Pair(m) = p /\ \E t : m \in MovIn(g, t)
    PROVE  IndexSum(g, by, p) = SumFunction([m \in M |-> m.delta])
<1> DEFINE N == {m \in UNION {g[t] : t \in Of(by, p)} : Pair(m) = p}
<1>1. ASSUME NEW m PROVE m \in N <=> Pair(m) = p /\ \E t : m \in MovIn(g, t)
  <2>1. m \in N <=> Pair(m) = p /\ \E t \in Of(by, p) : m \in g[t]
    OBVIOUS
  <2>2. \A t : t \in Of(by, p) <=> Holds(by, p, t)
    BY DEF Of, Holds
  <2>3. \A t : Holds(by, p, t) <=> \E l \in MovIn(g, t) : Pair(l) = p
    BY DEF IndexShows
  <2>4. \A t : MovIn(g, t) = IF t \in DOMAIN g THEN g[t] ELSE {}
    BY DEF MovIn
  <2> HIDE DEF N
  <2> QED
    BY <2>1, <2>2, <2>3, <2>4
<1>2. N = M
  <2> HIDE DEF N
  <2> QED
    BY <1>1
<1>3. IndexSum(g, by, p) = SumFunction([m \in N |-> m.delta])
  BY DEF IndexSum
<1> HIDE DEF N
<1> QED
  BY <1>2, <1>3

(* Two indexes with the same movements of a pair answer the same. *)
LEMMA SumSame ==
    ASSUME NEW g, NEW by, IndexShows(g, by), NEW h, NEW hy, IndexShows(h, hy), NEW p,
           \A m : Pair(m) = p => ((\E t : m \in MovIn(g, t)) <=> (\E t : m \in MovIn(h, t)))
    PROVE  IndexSum(g, by, p) = IndexSum(h, hy, p)
<1> DEFINE M == {m \in UNION {g[t] : t \in DOMAIN g} : Pair(m) = p}
<1>1. \A m : m \in M <=> Pair(m) = p /\ \E t : m \in MovIn(g, t)
  BY DEF MovIn
<1> HIDE DEF M
<1>2. \A m : m \in M <=> Pair(m) = p /\ \E t : m \in MovIn(h, t)
  BY <1>1
<1>3. IndexSum(g, by, p) = SumFunction([m \in M |-> m.delta])
  BY <1>1, SumOver
<1>4. IndexSum(h, hy, p) = SumFunction([m \in M |-> m.delta])
  BY <1>2, SumOver
<1> QED
  BY <1>3, <1>4

(* An index of txs, each of which it has seen move a pair, or not. *)
IndexFor(g, by, P, a, r) ==
    /\ IndexShows(g, by) /\ DOMAIN g \subseteq P
    /\ \A t \in P : {m \in MovIn(g, t) : Pair(m) = <<a, r>>} = MovesOf(t, a, r)

(* It answers what comes in less what goes out. *)
LEMMA IndexSumIs ==
    ASSUME NEW P, NEW C, OnTop(P, C), NEW g, NEW by, NEW a, NEW r, IndexFor(g, by, P, a, r)
    PROVE  IndexSum(g, by, <<a, r>>) = Gain(P, a, r)
<1>a. /\ P \cup C \in ConsistentSets /\ IndexShows(g, by) /\ DOMAIN g \subseteq P
      /\ \A t \in P : {m \in MovIn(g, t) : Pair(m) = <<a, r>>} = MovesOf(t, a, r)
  BY DEF OnTop, IndexFor
<1>b. Gains(P, C, a, r)
  BY BalanceParts
<1>c. OutsOf(P, a, r) \subseteq AllOuts /\ InsOf(P, a, r) \subseteq AllOuts
  BY <1>b DEF Gains
<1> DEFINE outs == OutsOf(P, a, r)
           ins == InsOf(P, a, r)
           by_(o) == CHOOSE t \in P : o \in Ins[t]
           cr == [o \in outs |-> Credit(o, a, r)]
           db == [o \in ins |-> Debit(by_(o), o, a, r)]
           Cr == {cr[o] : o \in outs}
           Db == {db[o] : o \in ins}
           M == Cr \cup Db
           delta == [m \in M |-> m.delta]
<1>0. P \subseteq PoolTxs /\ \A o : \A t, u \in P : o \in Ins[t] /\ o \in Ins[u] => t = u
  BY <1>a DEF ConsistentSets, Consistent
<1>1. /\ \A o : o \in outs <=> \E t \in P : o \in OutsOf({t}, a, r)
      /\ \A o : o \in ins <=> \E t \in P : o \in InsOf({t}, a, r)
      /\ \A t \in P : \A o \in InsOf({t}, a, r) : o \in Ins[t]
  BY DEF OutsOf, InsOf
<1> HIDE DEF outs, ins
<1>2. \A t \in P : \A o \in InsOf({t}, a, r) : by_(o) = t
  BY <1>0, <1>1
<1>3. /\ \A o \in outs : cr[o] = Credit(o, a, r)
      /\ \A t \in P : \A o \in InsOf({t}, a, r) : db[o] = Debit(t, o, a, r)
  <2> HIDE DEF by_
  <2>1. \A t \in P : \A o \in InsOf({t}, a, r) : o \in ins
    BY <1>1
  <2> QED
    BY <1>2, <2>1
<1>4. /\ \A m : m \in Cr <=> \E o \in outs : m = cr[o]
      /\ \A m : m \in Db <=> \E o \in ins : m = db[o]
  <2> HIDE DEF cr, db
  <2> QED
    OBVIOUS
<1> HIDE DEF cr, db, Cr, Db, by_
<1>5. ASSUME NEW m PROVE m \in M <=> Pair(m) = <<a, r>> /\ \E t : m \in MovIn(g, t)
  <2>1. (Pair(m) = <<a, r>> /\ \E t : m \in MovIn(g, t)) <=> \E t \in P : m \in MovesOf(t, a, r)
    <3>1. \A t : m \in MovIn(g, t) => t \in P
      BY <1>a DEF MovIn
    <3>2. \A t \in P : m \in MovesOf(t, a, r) <=> m \in MovIn(g, t) /\ Pair(m) = <<a, r>>
      BY <1>a
    <3> QED
      BY <3>1, <3>2
  <2>2. \A t \in P : m \in MovesOf(t, a, r) <=>
            \/ \E o \in OutsOf({t}, a, r) : m = Credit(o, a, r)
            \/ \E o \in InsOf({t}, a, r) : m = Debit(t, o, a, r)
    BY DEF MovesOf
  <2>3. m \in Cr <=> \E t \in P : \E o \in OutsOf({t}, a, r) : m = Credit(o, a, r)
    <3>1. ASSUME m \in Cr PROVE \E t \in P : \E o \in OutsOf({t}, a, r) : m = Credit(o, a, r)
      <4>1. PICK o \in outs : m = cr[o]
        BY <1>4, <3>1
      <4>2. PICK t \in P : o \in OutsOf({t}, a, r)
        BY <1>1
      <4> QED
        BY <1>3, <4>1, <4>2
    <3>2. ASSUME NEW t \in P, NEW o \in OutsOf({t}, a, r), m = Credit(o, a, r) PROVE m \in Cr
      <4>1. o \in outs
        BY <1>1
      <4> QED
        BY <1>3, <1>4, <3>2, <4>1
    <3> QED
      BY <3>1, <3>2
  <2>4. m \in Db <=> \E t \in P : \E o \in InsOf({t}, a, r) : m = Debit(t, o, a, r)
    <3>1. ASSUME m \in Db PROVE \E t \in P : \E o \in InsOf({t}, a, r) : m = Debit(t, o, a, r)
      <4>1. PICK o \in ins : m = db[o]
        BY <1>4, <3>1
      <4>2. PICK t \in P : o \in InsOf({t}, a, r)
        BY <1>1
      <4> QED
        BY <1>3, <4>1, <4>2
    <3>2. ASSUME NEW t \in P, NEW o \in InsOf({t}, a, r), m = Debit(t, o, a, r) PROVE m \in Db
      <4>1. o \in ins
        BY <1>1
      <4> QED
        BY <1>3, <1>4, <3>2, <4>1
    <3> QED
      BY <3>1, <3>2
  <2> QED
    BY <2>1, <2>2, <2>3, <2>4
<1>6. IndexSum(g, by, <<a, r>>) = Total(delta, M)
  <2>1. IndexSum(g, by, <<a, r>>) = SumFunction(delta)
    <3> HIDE DEF M
    <3> QED
      BY <1>a, <1>5, SumOver
  <2>2. DOMAIN delta = M
    OBVIOUS
  <2> HIDE DEF delta, M
  <2> QED
    BY <2>1, <2>2 DEF SumFunction, Total
<1>7. /\ \A o \in outs : cr[o].delta = ValueOf[o] /\ cr[o].of = o /\ cr[o].by = o[1]
      /\ \A o \in ins : /\ db[o].delta = -ValueOf[o] /\ db[o].of = o
                        /\ db[o].by # o[1]
  <2>1. ASSUME NEW o \in outs PROVE cr[o].delta = ValueOf[o] /\ cr[o].of = o /\ cr[o].by = o[1]
    <3>1. ValueOf[o] = Output(o).value
      BY <1>c DEF ValueOf, outs
    <3>2. cr[o] = Credit(o, a, r)
      BY <1>3
    <3> QED
      BY <3>1, <3>2 DEF Credit
  <2>2. ASSUME NEW o \in ins PROVE db[o].delta = -ValueOf[o] /\ db[o].of = o /\ db[o].by # o[1]
    <3>1. ValueOf[o] = Output(o).value
      BY <1>c DEF ValueOf, ins
    <3>2. PICK t \in P : o \in InsOf({t}, a, r)
      BY <1>1
    <3>3. o[1] # t
      <4>1. o \in Ins[t] /\ t \in PoolTxs
        BY <1>0, <1>1, <3>2
      <4> QED
        BY <4>1, OutputsAre
    <3>4. db[o] = Debit(t, o, a, r)
      BY <1>3, <3>2
    <3> QED
      BY <3>1, <3>3, <3>4 DEF Debit
  <2> QED
    BY <2>1, <2>2
<1>8. Cr \cap Db = {}
  <2> SUFFICES ASSUME NEW m \in Cr, m \in Db PROVE FALSE
    OBVIOUS
  <2>1. PICK o \in outs : m = cr[o]
    BY <1>4
  <2>2. PICK i \in ins : m = db[i]
    BY <1>4
  <2>3. m.of = o /\ m.by = o[1]
    BY <1>7, <2>1
  <2>4. m.of = i /\ m.by # i[1]
    BY <1>7, <2>2
  <2> QED
    BY <2>3, <2>4
<1>9. /\ \A o \in outs : ValueOf[o] \in Int
      /\ \A o \in ins : ValueOf[o] \in Int
      /\ IsFiniteSet(outs) /\ IsFiniteSet(ins)
  BY <1>c, AllOutsFinite, FS_Subset DEF outs, ins
<1>10. Cr \subseteq M /\ Db \subseteq M /\ \A m \in M : delta[m] = m.delta
  OBVIOUS
<1> HIDE DEF delta, M
<1>11. Total(delta, Cr) = Value(outs)
  <2>1. \A o \in outs : ValueOf[o] \in Int /\ delta[cr[o]] = IF 1 = 1 THEN ValueOf[o] ELSE -ValueOf[o]
    BY <1>4, <1>7, <1>9, <1>10
  <2>2. \A x, y \in outs : cr[x] = cr[y] => x = y
    BY <1>7
  <2>3. Total(delta, {cr[o] : o \in outs}) = IF 1 = 1 THEN Total(ValueOf, outs) ELSE -Total(ValueOf, outs)
    BY <1>9, <2>1, <2>2, TotalMapped
  <2> QED
    BY <2>3 DEF Cr, Value
<1>12. Total(delta, Db) = -Value(ins)
  <2>1. \A o \in ins : ValueOf[o] \in Int /\ delta[db[o]] = IF -1 = 1 THEN ValueOf[o] ELSE -ValueOf[o]
    BY <1>4, <1>7, <1>9, <1>10
  <2>2. \A x, y \in ins : db[x] = db[y] => x = y
    BY <1>7
  <2>3. Total(delta, {db[o] : o \in ins}) = IF -1 = 1 THEN Total(ValueOf, ins) ELSE -Total(ValueOf, ins)
    BY <1>9, <2>1, <2>2, TotalMapped
  <2> QED
    BY <2>3 DEF Db, Value
<1>13. IsFiniteSet(Cr) /\ IsFiniteSet(Db)
  BY <1>9, ImageFinite DEF Cr, Db
<1>14. \A m \in Cr \cup Db : delta[m] \in Int
  BY <1>4, <1>7, <1>9, <1>10
<1>15. Total(delta, M) = Total(delta, Cr) + Total(delta, Db)
  BY <1>8, <1>13, <1>14, TotalUnion DEF M
<1>16. Value(outs) \in Int /\ Value(ins) \in Int
  BY <1>c, ValuesAdd DEF outs, ins
<1> QED
  BY <1>6, <1>11, <1>12, <1>15, <1>16 DEF Gain, outs, ins

(* The property follows: the index makes up for what the mempool does. *)
LEMMA BalancesAre ==
    ASSUME ChainInv, IndexInv, PoolTypes
    PROVE  PoolBalances
<1> SUFFICES ASSUME Refreshed, NEW pair \in AllPairs, \A t \in poolTxs : pair \notin blind[t]
             PROVE  confirmed_balance(pair) + get_unconfirmed_glyph_balance(pair)
                       = BalanceOf(poolTxs \cup Confirmed, pair)
  BY DEF PoolBalances
<1>1. PICK o : pair \in PairsOf(o, Output(o).refs)
  BY DEF AllPairs
<1>2. PICK r : pair = <<Output(o).owner, r>>
  BY <1>1 DEF PairsOf
<1>3. OnTop(poolTxs, Confirmed)
  BY ConfirmedIs DEF Refreshed, OnTop
<1>4. PICK a : pair = <<a, r>>
  BY <1>2
<1>5. IndexFor(glyph_txs, glyph_by, poolTxs, a, r)
  BY <1>4 DEF IndexInv, IndexFor
<1>6. IndexSum(glyph_txs, glyph_by, <<a, r>>) = Gain(poolTxs, a, r)
  BY <1>3, <1>5, IndexSumIs
<1>7. Gains(poolTxs, Confirmed, a, r)
  BY <1>3, BalanceParts
<1>8. /\ confirmed_balance(pair) = BalanceOf(Confirmed, pair)
      /\ get_unconfirmed_glyph_balance(pair) = IndexSum(glyph_txs, glyph_by, pair)
  BY DEF confirmed_balance, get_unconfirmed_glyph_balance, IndexSum
<1> QED
  BY <1>4, <1>6, <1>7, <1>8 DEF Gains
-----------------------------------------------------------------------------
(* PoolTokens: what subscribers were told *)

(* A block of the chain has moved the pair by a tx that the index has. *)
Confirming(p) ==
    \E i \in 2 .. Len(chainTxs) :
        /\ BalanceOf(Upto(chainTxs, i - 1), p) # BalanceOf(Upto(chainTxs, i), p)
        /\ \E t \in chainTxs[i] : \E m \in MovIn(glyph_txs, t) : Pair(m) = p

(* A subscriber of the pair will be told, or a block has moved it unheard of. *)
Pending(p) == p \in unheard \cup touched_balance \cup toTell \/ Confirming(p)
PairAnswer(p) == confirmed_balance(p) + get_unconfirmed_glyph_balance(p)
IsPair(p) == p = <<p[1], p[2]>>
BalanceKey(p) == <<"balance", p>>
PairTold(x) == x[2][2]

ToldInv ==
    /\ \A p \in touched_balance \cup toTell : IsPair(p)
    /\ toTell # {} => step = "push"
    /\ step \in {"idle", "push"} => touched_balance = {}
    /\ \A x \in DOMAIN toldBalance :
          /\ x = <<x[1], BalanceKey(PairTold(x))>> /\ IsPair(PairTold(x)) /\ Holds(subs, x[2], x[1])
          /\ Pending(PairTold(x)) \/ toldBalance[x] = PairAnswer(PairTold(x))

(* Balances that differ are of a pair that some output carries. *)
LEMMA DifferingPairs ==
    ASSUME NEW S \in SUBSET PoolTxs, NEW U \in SUBSET PoolTxs, NEW p, IsPair(p), BalanceOf(S, p) # BalanceOf(U, p)
    PROVE  p \in AllPairs
<1> SUFFICES ASSUME p \notin AllPairs PROVE FALSE
  OBVIOUS
<1> DEFINE Of_(T) == {o \in Unspent(T) : Output(o).owner = p[1] /\ p[2] \in Output(o).refs}
<1>1. ASSUME NEW T \in SUBSET PoolTxs PROVE Of_(T) = {}
  <2> SUFFICES ASSUME NEW o \in Of_(T) PROVE FALSE
    OBVIOUS
  <2>1. o \in AllOuts
    BY DEF AllOuts, Unspent
  <2>2. p \in PairsOf(o, Output(o).refs)
    BY DEF PairsOf, IsPair
  <2> QED
    BY <2>1, <2>2 DEF AllPairs
<1>2. \A T : BalanceOf(T, p) = SumFunction([o \in Of_(T) |-> Output(o).value])
  BY DEF BalanceOf
<1> HIDE DEF Of_
<1>3. Of_(S) = Of_(U)
  BY <1>1
<1> QED
  BY <1>2, <1>3

(* An answer is a sum of the chain's and of the index's. *)
LEMMA AnswerParts ==
    ASSUME NEW p
    PROVE  /\ PairAnswer(p) = BalanceOf(Confirmed, p) + IndexSum(glyph_txs, glyph_by, p)
           /\ PairAnswer(p)' = BalanceOf(Confirmed', p) + IndexSum(glyph_txs', glyph_by', p)
BY DEF PairAnswer, confirmed_balance, get_unconfirmed_glyph_balance, IndexSum, BalanceOf

(* Who waits to be told of a pair goes on waiting, and who does not has the same answer or waits. *)
StillPending(p) == (Pending(p) => Pending(p)') /\ (Pending(p)' \/ PairAnswer(p)' = PairAnswer(p))

(* When txs go from the mempool, the pairs that they move are touched. *)
LEMMA RefreshTells ==
    ASSUME IndexInv, PoolTypes, NEW list, Refresh(list), NEW p
    PROVE  StillPending(p)
<1>1. chainTxs' = chainTxs /\ unheard' = unheard /\ toTell' = toTell
  BY DEF Refresh, chainPart
<1>2. /\ \A t : MovIn(glyph_txs', t) = IF t \in list THEN MovIn(glyph_txs, t) ELSE {}
      /\ IndexShows(glyph_txs', glyph_by')
      /\ p \in touched_balance' <=>
            p \in touched_balance \/ \E t \in poolTxs \ list : \E m \in MovIn(glyph_txs, t) : Pair(m) = p
  BY RefreshIs
<1>3. IndexShows(glyph_txs, glyph_by) /\ \A t : \A m \in MovIn(glyph_txs, t) : t \in poolTxs
  BY DEF IndexInv, MovIn
<1>4. CASE p \in touched_balance'
  BY <1>4 DEF StillPending, Pending
<1>5. CASE p \notin touched_balance'
  <2>1. \A t : \A m \in MovIn(glyph_txs, t) : Pair(m) = p => t \in list
    BY <1>2, <1>3, <1>5
  <2>2. Confirming(p) => Confirming(p)'
    <3> SUFFICES ASSUME Confirming(p) PROVE Confirming(p)'
      OBVIOUS
    <3>1. PICK i \in 2 .. Len(chainTxs) :
              /\ BalanceOf(Upto(chainTxs, i - 1), p) # BalanceOf(Upto(chainTxs, i), p)
              /\ \E t \in chainTxs[i] : \E m \in MovIn(glyph_txs, t) : Pair(m) = p
      BY DEF Confirming
    <3>2. PICK t \in chainTxs[i] : \E m \in MovIn(glyph_txs, t) : Pair(m) = p
      BY <3>1
    <3>3. \E m \in MovIn(glyph_txs', t) : Pair(m) = p
      BY <1>2, <2>1, <3>2
    <3> QED
      BY <1>1, <3>1, <3>2, <3>3 DEF Confirming
  <2>3. \A m : Pair(m) = p => ((\E t : m \in MovIn(glyph_txs, t)) <=> (\E t : m \in MovIn(glyph_txs', t)))
    BY <1>2, <2>1
  <2>4. IndexSum(glyph_txs, glyph_by, p) = IndexSum(glyph_txs', glyph_by', p)
    BY <1>2, <1>3, <2>3, SumSame
  <2>5. Confirmed' = Confirmed
    BY <1>1 DEF Confirmed
  <2>6. PairAnswer(p)' = PairAnswer(p)
    BY <2>4, <2>5, AnswerParts
  <2>7. Pending(p) => Pending(p)'
    BY <1>1, <1>2, <1>5, <2>2 DEF Pending
  <2> QED
    BY <2>6, <2>7 DEF StillPending
<1> QED
  BY <1>4, <1>5

(* When txs come, the pairs that they move are touched. *)
LEMMA AcceptTells ==
    ASSUME IndexInv, PoolTypes, _accept_transactions, NEW p
    PROVE  StillPending(p)
<1> DEFINE A == Acceptable
<1>1. chainTxs' = chainTxs /\ unheard' = unheard /\ toTell' = toTell
  BY DEF _accept_transactions, chainPart
<1>2. /\ A \cap poolTxs = {}
      /\ \A t : MovIn(glyph_txs', t) = IF t \in A THEN Movements(t) ELSE MovIn(glyph_txs, t)
      /\ IndexShows(glyph_txs', glyph_by')
      /\ p \in touched_balance' <=>
            p \in touched_balance \/ \E t \in A : \E m \in Movements(t) : Pair(m) = p
  BY AcceptIs
<1> HIDE DEF A
<1>3. IndexShows(glyph_txs, glyph_by) /\ \A t : \A m \in MovIn(glyph_txs, t) : t \in poolTxs
  BY DEF IndexInv, MovIn
<1>4. \A t : \A m \in MovIn(glyph_txs, t) : m \in MovIn(glyph_txs', t)
  BY <1>2, <1>3
<1>5. Confirming(p) => Confirming(p)'
  BY <1>1, <1>4 DEF Confirming
<1>6. Pending(p) => Pending(p)'
  BY <1>1, <1>2, <1>5 DEF Pending
<1>7. CASE p \in touched_balance'
  BY <1>6, <1>7 DEF StillPending, Pending
<1>8. CASE p \notin touched_balance'
  <2>1. \A t \in A : \A m \in Movements(t) : Pair(m) # p
    BY <1>2, <1>8
  <2>2. \A m : Pair(m) = p => ((\E t : m \in MovIn(glyph_txs, t)) <=> (\E t : m \in MovIn(glyph_txs', t)))
    BY <1>2, <1>4, <2>1
  <2>3. IndexSum(glyph_txs, glyph_by, p) = IndexSum(glyph_txs', glyph_by', p)
    BY <1>2, <1>3, <2>2, SumSame
  <2>4. Confirmed' = Confirmed
    BY <1>1 DEF Confirmed
  <2>5. PairAnswer(p)' = PairAnswer(p)
    BY <2>3, <2>4, AnswerParts
  <2> QED
    BY <1>6, <2>5 DEF StillPending
<1> QED
  BY <1>7, <1>8

(* A block that changes a balance does it by txs in the index, or unheard. *)
LEMMA BlockTells ==
    ASSUME ChainInv, NEW txs \in SUBSET PoolTxs, Block(txs), NEW p, IsPair(p)
    PROVE  StillPending(p)
<1> DEFINE n == Len(chainTxs)
<1>1. /\ glyph_txs' = glyph_txs /\ glyph_by' = glyph_by
      /\ touched_balance' = touched_balance /\ toTell' = toTell
      /\ unheard' = unheard \cup (Changed(Confirmed, Confirmed \cup txs)
                                    \ UNION {Moved(t) : t \in txs \cap DOMAIN glyph_txs})
      /\ txs \cup Confirmed \in ConsistentSets /\ chainTxs' = Append(chainTxs, txs)
  BY DEF Block, indexPart
<1>2. /\ Len(chainTxs') = n + 1 /\ chainTxs'[n + 1] = txs
      /\ \A i \in 1 .. n : chainTxs'[i] = chainTxs[i]
      /\ \A i \in 1 .. n : Upto(chainTxs', i) = Upto(chainTxs, i)
      /\ Confirmed' = Confirmed \cup txs /\ ChainInv'
  BY BlockIs
<1>3. n \in Nat \ {0} /\ Confirmed = Upto(chainTxs, n) /\ Confirmed \in SUBSET PoolTxs
  BY ConfirmedIs DEF ChainInv
<1>4. Confirmed' = Upto(chainTxs', n + 1)
  BY <1>2, LaterConfirmedIs
<1> HIDE DEF n
<1>5. Confirming(p) => Confirming(p)'
  <2> SUFFICES ASSUME Confirming(p) PROVE Confirming(p)'
    OBVIOUS
  <2>1. PICK i \in 2 .. n :
            /\ BalanceOf(Upto(chainTxs, i - 1), p) # BalanceOf(Upto(chainTxs, i), p)
            /\ \E t \in chainTxs[i] : \E m \in MovIn(glyph_txs, t) : Pair(m) = p
    BY DEF Confirming, n
  <2>2. i \in 1 .. n /\ i - 1 \in 1 .. n /\ i \in 2 .. n + 1
    BY <1>3
  <2>3. Upto(chainTxs', i - 1) = Upto(chainTxs, i - 1) /\ Upto(chainTxs', i) = Upto(chainTxs, i) /\ chainTxs'[i] = chainTxs[i]
    BY <1>2, <2>2
  <2> QED
    BY <1>1, <1>2, <2>1, <2>2, <2>3 DEF Confirming
<1>6. Pending(p) => Pending(p)'
  BY <1>1, <1>5 DEF Pending
<1>7. CASE BalanceOf(Confirmed', p) = BalanceOf(Confirmed, p)
  <2>1. PairAnswer(p)' = PairAnswer(p)
    BY <1>1, <1>7, AnswerParts
  <2> QED
    BY <1>6, <2>1 DEF StillPending
<1>8. CASE BalanceOf(Confirmed', p) # BalanceOf(Confirmed, p)
  <2>1. p \in Changed(Confirmed, Confirmed \cup txs)
    <3>1. Confirmed \cup txs \in SUBSET PoolTxs
      BY <1>3
    <3>2. BalanceOf(Confirmed, p) # BalanceOf(Confirmed \cup txs, p)
      BY <1>2, <1>8
    <3>3. p \in AllPairs
      BY <1>3, <3>1, <3>2, DifferingPairs
    <3> QED
      BY <3>2, <3>3 DEF Changed
  <2>2. CASE p \in UNION {Moved(t) : t \in txs \cap DOMAIN glyph_txs}
    <3>1. PICK t \in txs : t \in DOMAIN glyph_txs /\ p \in Moved(t)
      BY <2>2
    <3>2. \E m \in MovIn(glyph_txs', t) : Pair(m) = p
      BY <1>1, <3>1 DEF Moved, MovIn
    <3>3. n \in 1 .. n /\ n + 1 \in 2 .. n + 1 /\ (n + 1) - 1 = n
      BY <1>3
    <3>4. BalanceOf(Upto(chainTxs', (n + 1) - 1), p) # BalanceOf(Upto(chainTxs', n + 1), p)
      BY <1>2, <1>3, <1>4, <1>8, <3>3
    <3>5. Confirming(p)'
      BY <1>2, <3>1, <3>2, <3>3, <3>4 DEF Confirming
    <3> QED
      BY <1>6, <3>5 DEF StillPending, Pending
  <2>3. CASE p \notin UNION {Moved(t) : t \in txs \cap DOMAIN glyph_txs}
    BY <1>1, <1>6, <2>1, <2>3 DEF StillPending, Pending
  <2> QED
    BY <2>2, <2>3
<1> QED
  BY <1>7, <1>8

(* A block undone that changes a balance is unheard; the others stay as they were. *)
LEMMA UnblockTells ==
    ASSUME ChainInv, Unblock, NEW p, IsPair(p)
    PROVE  StillPending(p)
<1> DEFINE n == Len(chainTxs)
<1>1. /\ glyph_txs' = glyph_txs /\ glyph_by' = glyph_by
      /\ touched_balance' = touched_balance /\ toTell' = toTell
      /\ unheard' = unheard \cup Changed(Confirmed, UNION Range(Front(chainTxs)))
      /\ chainTxs' = Front(chainTxs)
  BY DEF Unblock, indexPart
<1>2. /\ ChainInv' /\ n > 1 /\ Len(chainTxs') = n - 1
      /\ \A i \in 1 .. n - 1 : chainTxs'[i] = chainTxs[i]
      /\ \A i \in 1 .. n - 1 : Upto(chainTxs', i) = Upto(chainTxs, i)
  BY UnblockIs
<1>3. n \in Nat \ {0} /\ Confirmed = Upto(chainTxs, n) /\ Confirmed \in SUBSET PoolTxs
  BY ConfirmedIs DEF ChainInv
<1>4. Confirmed' = Upto(chainTxs', n - 1) /\ Confirmed' \in SUBSET PoolTxs
  BY <1>2, LaterConfirmedIs
<1>5. Confirmed' = UNION Range(Front(chainTxs))
  BY <1>1 DEF Confirmed
<1> HIDE DEF n
<1>6. n - 1 \in 1 .. n - 1 /\ Confirmed' = Upto(chainTxs, n - 1)
  BY <1>2, <1>3, <1>4
<1>7. BalanceOf(Confirmed', p) # BalanceOf(Confirmed, p) => p \in unheard'
  <2> SUFFICES ASSUME BalanceOf(Confirmed', p) # BalanceOf(Confirmed, p) PROVE p \in unheard'
    OBVIOUS
  <2>1. p \in AllPairs
    BY <1>3, <1>4, DifferingPairs
  <2>2. p \in Changed(Confirmed, Confirmed')
    BY <2>1 DEF Changed
  <2> QED
    BY <1>1, <1>5, <2>2
<1>8. Confirming(p) => Confirming(p)' \/ p \in unheard'
  <2> SUFFICES ASSUME Confirming(p), p \notin unheard' PROVE Confirming(p)'
    OBVIOUS
  <2>1. PICK i \in 2 .. n :
            /\ BalanceOf(Upto(chainTxs, i - 1), p) # BalanceOf(Upto(chainTxs, i), p)
            /\ \E t \in chainTxs[i] : \E m \in MovIn(glyph_txs, t) : Pair(m) = p
    BY DEF Confirming, n
  <2>2. i # n
    BY <1>3, <1>6, <1>7, <2>1
  <2>3. i \in 1 .. n - 1 /\ i - 1 \in 1 .. n - 1 /\ i \in 2 .. n - 1
    BY <1>2, <1>3, <2>2
  <2>4. Upto(chainTxs', i - 1) = Upto(chainTxs, i - 1) /\ Upto(chainTxs', i) = Upto(chainTxs, i) /\ chainTxs'[i] = chainTxs[i]
    BY <1>2, <2>3
  <2> QED
    BY <1>1, <1>2, <2>1, <2>3, <2>4 DEF Confirming
<1>9. Pending(p) => Pending(p)'
  BY <1>1, <1>8 DEF Pending
<1>10. p \in unheard' \/ PairAnswer(p)' = PairAnswer(p)
  BY <1>1, <1>7, AnswerParts
<1> QED
  BY <1>9, <1>10 DEF StillPending, Pending

(* Nobody has been told anything at first. *)
LEMMA ToldStarts ==
    ASSUME PoolInit
    PROVE  ToldInv
<1>1. toldBalance = << >> /\ DOMAIN << >> = {} /\ touched_balance = {} /\ toTell = {}
  BY DEF PoolInit
<1> QED
  BY <1>1 DEF ToldInv

(* Who was told and is still subscribed was told right, or waits, if every pair goes on waiting. *)
ToldRows ==
    \A x \in DOMAIN toldBalance :
        /\ x = <<x[1], BalanceKey(PairTold(x))>> /\ IsPair(PairTold(x)) /\ Holds(subs, x[2], x[1])
        /\ Pending(PairTold(x)) \/ toldBalance[x] = PairAnswer(PairTold(x))

(* They stay so when what was told stays and every pair goes on waiting. *)
LEMMA ToldKept ==
    ASSUME ToldRows,
           \A x \in DOMAIN toldBalance' :
              x \in DOMAIN toldBalance /\ toldBalance'[x] = toldBalance[x] /\ Holds(subs', x[2], x[1]),
           \A p : IsPair(p) => StillPending(p)
    PROVE  ToldRows'
<1> SUFFICES ASSUME NEW x \in DOMAIN toldBalance'
             PROVE  /\ x = <<x[1], BalanceKey(PairTold(x))>> /\ IsPair(PairTold(x)) /\ Holds(subs', x[2], x[1])
                    /\ Pending(PairTold(x))' \/ toldBalance'[x] = PairAnswer(PairTold(x))'
  BY DEF ToldRows
<1>1. /\ x \in DOMAIN toldBalance /\ toldBalance'[x] = toldBalance[x] /\ Holds(subs', x[2], x[1])
      /\ x = <<x[1], BalanceKey(PairTold(x))>> /\ IsPair(PairTold(x))
      /\ Pending(PairTold(x)) \/ toldBalance[x] = PairAnswer(PairTold(x))
  BY DEF ToldRows
<1>2. StillPending(PairTold(x))
  BY <1>1
<1> QED
  BY <1>1, <1>2 DEF StillPending

(* Nothing that an answer depends on has changed. *)
LEMMA NothingMoves ==
    ASSUME UNCHANGED <<chainTxs, glyph_txs, glyph_by, touched_balance, toTell, unheard>>, NEW p
    PROVE  StillPending(p)
<1>1. Pending(p)' = Pending(p)
  BY DEF Pending, Confirming
<1>2. Confirmed' = Confirmed
  BY DEF Confirmed
<1>3. PairAnswer(p)' = PairAnswer(p)
  BY <1>2, AnswerParts
<1> QED
  BY <1>1, <1>3 DEF StillPending

(* The subscriptions of who was told stay, unless what was told goes with them. *)
LEMMA UnsubscribeTells ==
    ASSUME Subscriptions, ToldRows, NEW s \in Sessions,
           unsubscribe_session(s) \/ \E key \in SubKeys : Subscribe(s, key) \/ Unsubscribe(s, key)
    PROVE  \A x \in DOMAIN toldBalance' :
              x \in DOMAIN toldBalance /\ toldBalance'[x] = toldBalance[x] /\ Holds(subs', x[2], x[1])
<1>1. \A x \in DOMAIN toldBalance : x = <<x[1], x[2]>> /\ Holds(subs, x[2], x[1])
  BY DEF ToldRows
<1>2. ASSUME NEW key \in SubKeys, Subscribe(s, key)
      PROVE  \A x \in DOMAIN toldBalance' :
                x \in DOMAIN toldBalance /\ toldBalance'[x] = toldBalance[x] /\ Holds(subs', x[2], x[1])
  <2>1. toldBalance' = toldBalance /\ subs' = Joined(subs, key, s)
    BY <1>2 DEF Subscribe, subscribed
  <2>2. \A k, m : Holds(subs, k, m) => Holds(subs', k, m)
    BY <2>1, JoinedIs
  <2> QED
    BY <1>1, <2>1, <2>2
<1>3. ASSUME NEW key \in SubKeys, Unsubscribe(s, key)
      PROVE  \A x \in DOMAIN toldBalance' :
                x \in DOMAIN toldBalance /\ toldBalance'[x] = toldBalance[x] /\ Holds(subs', x[2], x[1])
  <2>1. subs' = Left(subs, key, s) /\ toldBalance' = Restrict(toldBalance, DOMAIN toldBalance \ {<<s, key>>})
    BY <1>3 DEF Unsubscribe
  <2>2. \A x \in DOMAIN toldBalance' :
           x \in DOMAIN toldBalance /\ toldBalance'[x] = toldBalance[x] /\ x # <<s, key>>
    BY <2>1 DEF Restrict
  <2>3. \A k, m : Holds(subs', k, m) <=> Holds(subs, k, m) /\ ~(k = key /\ m = s)
    BY <2>1, LeftIs
  <2> SUFFICES ASSUME NEW x \in DOMAIN toldBalance' PROVE Holds(subs', x[2], x[1])
    BY <2>2
  <2>4. x = <<x[1], x[2]>> /\ Holds(subs, x[2], x[1]) /\ x # <<s, key>>
    BY <1>1, <2>2
  <2>5. ~(x[2] = key /\ x[1] = s)
    BY <2>4
  <2> QED
    BY <2>3, <2>4, <2>5
<1>4. ASSUME unsubscribe_session(s)
      PROVE  \A x \in DOMAIN toldBalance' :
                x \in DOMAIN toldBalance /\ toldBalance'[x] = toldBalance[x] /\ Holds(subs', x[2], x[1])
  <2>1. /\ subs' = LeftBy(subs, s, session_subs[s])
        /\ toldBalance' = Restrict(toldBalance, {x \in DOMAIN toldBalance : x[1] # s})
    BY <1>4 DEF unsubscribe_session, LeftBy
  <2>2. \A x \in DOMAIN toldBalance' :
           x \in DOMAIN toldBalance /\ toldBalance'[x] = toldBalance[x] /\ x[1] # s
    BY <2>1 DEF Restrict
  <2>3. IsFiniteSet(session_subs[s])
    BY DEF Subscriptions
  <2>4. \A k, m : Holds(subs', k, m) <=> Holds(subs, k, m) /\ ~(k \in session_subs[s] /\ m = s)
    BY <2>1, <2>3, LeftAll
  <2> QED
    BY <1>1, <2>2, <2>4
<1> QED
  BY <1>2, <1>3, <1>4

(* Every step of the mempool, the chain and the sessions leaves subscribers told or waiting. *)
LEMMA ToldStep ==
    ASSUME ToldInv, Subscriptions, PoolTypes, ChainInv, IndexInv, [PoolNext]_poolVars
    PROVE  ToldInv'
<1> DEFINE Kept == \A x \in DOMAIN toldBalance' :
                      x \in DOMAIN toldBalance /\ toldBalance'[x] = toldBalance[x] /\ Holds(subs', x[2], x[1])
           Parts == /\ \A p \in touched_balance \cup toTell : IsPair(p)
                    /\ toTell # {} => step = "push"
                    /\ step \in {"idle", "push"} => touched_balance = {}
<1>1. ToldRows /\ Parts
  BY DEF ToldInv, ToldRows
<1>2. ToldRows' /\ Parts' => ToldInv'
  BY DEF ToldInv, ToldRows
<1>3. ToldRows /\ UNCHANGED <<toldBalance, subs>> => Kept
  BY DEF ToldRows
<1>4. \A m : IsPair(Pair(m))
  BY DEF IsPair, Pair
<1>5. CASE UNCHANGED poolVars
  <2>1. UNCHANGED <<chainTxs, glyph_txs, glyph_by, touched_balance, toTell, unheard, step, toldBalance, subs>>
    BY <1>5 DEF poolVars, chainPart, indexPart, subsPart, pastPart
  <2>2. Parts'
    BY <1>1, <2>1
  <2>3. \A p : StillPending(p)
    BY <2>1, NothingMoves
  <2> HIDE DEF Parts
  <2>4. ToldRows'
    BY <1>1, <1>3, <2>1, <2>3, ToldKept
  <2> QED
    BY <1>2, <2>2, <2>4
<1>6. ASSUME NEW list \in SUBSET PoolTxs, Refresh(list) PROVE ToldInv'
  <2>1. /\ step = "idle" /\ step' \in {"notify", "fetch"} /\ toTell' = toTell
        /\ UNCHANGED <<toldBalance, subs>>
    BY <1>6 DEF Refresh, subsPart
  <2>2. \A p : p \in touched_balance' =>
            p \in touched_balance \/ \E t \in poolTxs \ list : \E m \in MovIn(glyph_txs, t) : Pair(m) = p
    BY <1>6, RefreshIs
  <2>3. Parts'
    BY <1>1, <1>4, <2>1, <2>2
  <2>4. \A p : StillPending(p)
    BY <1>6, RefreshTells
  <2> HIDE DEF Parts
  <2>5. ToldRows'
    BY <1>1, <1>3, <2>1, <2>4, ToldKept
  <2> QED
    BY <1>2, <2>3, <2>5
<1>7. ASSUME _accept_transactions PROVE ToldInv'
  <2>1. /\ step = "accept" /\ step' = "notify" /\ toTell' = toTell
        /\ UNCHANGED <<toldBalance, subs>>
    BY <1>7 DEF _accept_transactions, subsPart
  <2>2. \A p : p \in touched_balance' =>
            p \in touched_balance \/ \E t \in Acceptable : \E m \in Movements(t) : Pair(m) = p
    BY <1>7, AcceptIs
  <2>3. Parts'
    BY <1>1, <1>4, <2>1, <2>2
  <2>4. \A p : StillPending(p)
    BY <1>7, AcceptTells
  <2> HIDE DEF Parts
  <2>5. ToldRows'
    BY <1>1, <1>3, <2>1, <2>4, ToldKept
  <2> QED
    BY <1>2, <2>3, <2>5
<1>8. ASSUME NEW list \in SUBSET PoolTxs, Block(list) PROVE ToldInv'
  <2>1. UNCHANGED <<step, toTell, touched_balance, toldBalance, subs>>
    BY <1>8 DEF Block, subsPart, indexPart
  <2>2. Parts'
    BY <1>1, <2>1
  <2>3. \A p : IsPair(p) => StillPending(p)
    BY <1>8, BlockTells
  <2> HIDE DEF Parts
  <2>4. ToldRows'
    BY <1>1, <1>3, <2>1, <2>3, ToldKept
  <2> QED
    BY <1>2, <2>2, <2>4
<1>9. ASSUME Unblock PROVE ToldInv'
  <2>1. UNCHANGED <<step, toTell, touched_balance, toldBalance, subs>>
    BY <1>9 DEF Unblock, subsPart, indexPart
  <2>2. Parts'
    BY <1>1, <2>1
  <2>3. \A p : IsPair(p) => StillPending(p)
    BY <1>9, UnblockTells
  <2> HIDE DEF Parts
  <2>4. ToldRows'
    BY <1>1, <1>3, <2>1, <2>3, ToldKept
  <2> QED
    BY <1>2, <2>2, <2>4
<1>10. ASSUME lookup_utxos PROVE ToldInv'
  <2>1. /\ UNCHANGED <<chainTxs, glyph_txs, glyph_by, touched_balance, toTell, unheard, toldBalance, subs>>
        /\ step = "fetch" /\ step' = "accept"
    BY <1>10 DEF lookup_utxos, chainPart, indexPart, subsPart, pastPart
  <2>2. Parts'
    BY <1>1, <2>1
  <2>3. \A p : StillPending(p)
    BY <2>1, NothingMoves
  <2> HIDE DEF Parts
  <2>4. ToldRows'
    BY <1>1, <1>3, <2>1, <2>3, ToldKept
  <2> QED
    BY <1>2, <2>2, <2>4
<1>11. ASSUME NEW s \in Sessions,
              unsubscribe_session(s) \/ \E key \in SubKeys : Subscribe(s, key) \/ Unsubscribe(s, key)
       PROVE  ToldInv'
  <2>1. UNCHANGED <<chainTxs, glyph_txs, glyph_by, touched_balance, toTell, unheard, step>>
    BY <1>11 DEF Subscribe, Unsubscribe, unsubscribe_session, chainPart, indexPart, pastPart
  <2>2. Parts'
    BY <1>1, <2>1
  <2>3. \A p : StillPending(p)
    BY <2>1, NothingMoves
  <2>4. Kept
    BY <1>1, <1>11, UnsubscribeTells
  <2> HIDE DEF Parts
  <2>5. ToldRows'
    BY <1>1, <2>3, <2>4, ToldKept
  <2> QED
    BY <1>2, <2>2, <2>5
<1>12. ASSUME _dispatch_glyph_balance PROVE ToldInv'
  <2>1. /\ step = "notify" /\ touched_balance' = {}
        /\ toTell' = (IF BalanceKeys = {} THEN {} ELSE touched_balance)
        /\ step' = (IF toTell' = {} THEN "idle" ELSE "push")
        /\ unheard' = unheard \ touched_balance
        /\ UNCHANGED <<chainTxs, glyph_txs, glyph_by, toldBalance, subs>>
    BY <1>12 DEF _dispatch_glyph_balance, chainPart, subsPart
  <2>2. Parts'
    BY <1>1, <2>1
  <2>3. toTell = {}
    BY <1>1, <2>1
  <2>4. CASE BalanceKeys = {}
    <3>1. DOMAIN toldBalance = {}
      <4> SUFFICES ASSUME NEW x \in DOMAIN toldBalance PROVE FALSE
        OBVIOUS
      <4>1. x = <<x[1], BalanceKey(PairTold(x))>> /\ Holds(subs, x[2], x[1])
        BY <1>1 DEF ToldRows
      <4>2. x[2] = BalanceKey(PairTold(x))
        BY <4>1
      <4>3. x[2][1] = "balance"
        BY <4>2 DEF BalanceKey
      <4> QED
        BY <2>4, <4>1, <4>3 DEF Holds, BalanceKeys
    <3>2. ToldRows'
      BY <2>1, <3>1 DEF ToldRows
    <3> QED
      BY <1>2, <2>2, <3>2
  <2>5. CASE BalanceKeys # {}
    <3>1. Confirmed' = Confirmed
      BY <2>1 DEF Confirmed
    <3>2. \A p : Confirming(p)' = Confirming(p)
      BY <2>1 DEF Confirming
    <3>3. \A p : Pending(p) => Pending(p)'
      BY <2>1, <2>3, <2>5, <3>2 DEF Pending
    <3>4. \A p : PairAnswer(p)' = PairAnswer(p)
      BY <2>1, <3>1, AnswerParts
    <3>5. \A p : StillPending(p)
      BY <3>3, <3>4 DEF StillPending
    <3> HIDE DEF Parts
    <3>6. ToldRows'
      BY <1>1, <1>3, <2>1, <3>5, ToldKept
    <3> QED
      BY <1>2, <2>2, <3>6
  <2> QED
    BY <2>4, <2>5
<1>13. ASSUME NEW pair \in toTell, notify_balance_change(pair) PROVE ToldInv'
  <2> DEFINE key == BalanceKey(pair)
             new == {<<s, key>> : s \in Of(subs, key)}
  <2>1. /\ step = "push" /\ toTell' = toTell \ {pair}
        /\ toldBalance' = Updated(toldBalance, [x \in new |-> PairAnswer(pair)])
        /\ step' = (IF toTell' = {} THEN "idle" ELSE "push")
        /\ UNCHANGED <<chainTxs, glyph_txs, glyph_by, touched_balance, unheard, subs>>
    BY <1>13 DEF notify_balance_change, chainPart, indexPart, pastPart, BalanceKey, PairAnswer
  <2>2. Parts'
    BY <1>1, <2>1
  <2>3. Confirmed' = Confirmed
    BY <2>1 DEF Confirmed
  <2>4. \A p : PairAnswer(p)' = PairAnswer(p)
    BY <2>1, <2>3, AnswerParts
  <2>5. \A p : p # pair /\ Pending(p) => Pending(p)'
    <3>1. \A p : Confirming(p)' = Confirming(p)
      BY <2>1 DEF Confirming
    <3> QED
      BY <2>1, <3>1 DEF Pending
  <2>6. \A s : s \in Of(subs, key) <=> Holds(subs, key, s)
    BY DEF Of, Holds
  <2>7. \A x : x \in new <=> \E s : Holds(subs, key, s) /\ x = <<s, key>>
    BY <2>6
  <2> HIDE DEF new, key
  <2>8. /\ \A x \in new : x \in DOMAIN toldBalance' /\ toldBalance'[x] = PairAnswer(pair)
        /\ \A x \in DOMAIN toldBalance' : x \notin new => x \in DOMAIN toldBalance /\ toldBalance'[x] = toldBalance[x]
    BY <2>1 DEF Updated
  <2>9. ToldRows'
    <3> SUFFICES ASSUME NEW x \in DOMAIN toldBalance'
                 PROVE  /\ x = <<x[1], BalanceKey(PairTold(x))>> /\ IsPair(PairTold(x)) /\ Holds(subs', x[2], x[1])
                        /\ Pending(PairTold(x))' \/ toldBalance'[x] = PairAnswer(PairTold(x))'
      BY DEF ToldRows
    <3>1. CASE x \in new
      <4>1. PICK s : Holds(subs, key, s) /\ x = <<s, key>>
        BY <2>7, <3>1
      <4>2. x[1] = s /\ x[2] = key
        BY <4>1
      <4>3. key[2] = pair
        BY DEF key, BalanceKey
      <4>4. PairTold(x) = pair
        BY <4>2, <4>3 DEF PairTold
      <4>5. x = <<x[1], BalanceKey(PairTold(x))>>
        BY <4>1, <4>2, <4>4 DEF key
      <4>6. IsPair(pair)
        BY <1>1
      <4>7. Holds(subs', x[2], x[1])
        BY <2>1, <4>1, <4>2
      <4>8. toldBalance'[x] = PairAnswer(pair)'
        BY <2>4, <2>8, <3>1
      <4> QED
        BY <4>4, <4>5, <4>6, <4>7, <4>8
    <3>2. CASE x \notin new
      <4>1. /\ x \in DOMAIN toldBalance /\ toldBalance'[x] = toldBalance[x]
            /\ x = <<x[1], BalanceKey(PairTold(x))>> /\ IsPair(PairTold(x)) /\ Holds(subs, x[2], x[1])
            /\ Pending(PairTold(x)) \/ toldBalance[x] = PairAnswer(PairTold(x))
        BY <1>1, <2>8, <3>2 DEF ToldRows
      <4>2. PairTold(x) # pair
        <5> SUFFICES ASSUME PairTold(x) = pair PROVE FALSE
          OBVIOUS
        <5>1. x = <<x[1], key>> /\ x[2] = key
          BY <4>1 DEF key
        <5> QED
          BY <2>7, <3>2, <4>1, <5>1
      <4>3. Holds(subs', x[2], x[1])
        BY <2>1, <4>1
      <4>4. Pending(PairTold(x))' \/ toldBalance'[x] = PairAnswer(PairTold(x))'
        BY <2>4, <2>5, <4>1, <4>2
      <4> QED
        BY <4>1, <4>3, <4>4
    <3> QED
      BY <3>1, <3>2
  <2> HIDE DEF Parts
  <2> QED
    BY <1>2, <2>2, <2>9
<1> QED
  BY <1>5, <1>6, <1>7, <1>8, <1>9, <1>10, <1>11, <1>12, <1>13 DEF PoolNext

(* Once the mempool is refreshed nobody waits but for blocks unheard of. *)
LEMMA ToldAre ==
    ASSUME ToldInv, IndexInv, ChainInv
    PROVE  ToldBalances
<1> SUFFICES ASSUME Refreshed, NEW x \in DOMAIN toldBalance
             PROVE  \/ x[2][2] \in unheard
                    \/ toldBalance[x] = confirmed_balance(x[2][2]) + get_unconfirmed_glyph_balance(x[2][2])
  BY DEF ToldBalances
<1>1. touched_balance = {} /\ toTell = {}
  BY DEF Refreshed, ToldInv
<1>2. \A p : ~Confirming(p)
  <2> SUFFICES ASSUME NEW i \in 2 .. Len(chainTxs), NEW t \in chainTxs[i], NEW m \in MovIn(glyph_txs, t)
               PROVE  FALSE
    BY DEF Confirming
  <2>1. t \in poolTxs
    BY DEF MovIn, IndexInv
  <2>2. i \in 1 .. Len(chainTxs)
    BY DEF ChainInv
  <2>3. t \in Upto(chainTxs, Len(chainTxs))
    BY <2>2 DEF Upto
  <2> QED
    BY <2>1, <2>3, ConfirmedIs DEF Refreshed
<1>3. Pending(PairTold(x)) \/ toldBalance[x] = PairAnswer(PairTold(x))
  BY DEF ToldInv
<1> QED
  BY <1>1, <1>2, <1>3 DEF Pending, PairTold, PairAnswer

-----------------------------------------------------------------------------
(* PoolTokens: all of it *)

(* The inductive invariant of the mempool's tokens. *)
PoolInv == Subscriptions /\ PoolTypes /\ BookInv /\ ChainInv /\ IndexInv /\ ToldInv

(* It holds at the start. *)
LEMMA PoolStarts ==
    ASSUME PoolInit
    PROVE  PoolInv
<1>1. PoolTypes
  BY DEF PoolInit, PoolTypes
<1> QED
  BY <1>1, SubscriptionsStart, BookStarts, ChainStarts, IndexStarts, ToldStarts DEF PoolInv

(* Every step keeps it. *)
LEMMA PoolSteps ==
    ASSUME PoolInv, [PoolNext]_poolVars
    PROVE  PoolInv'
<1> USE DEF PoolInv
<1>1. Subscriptions' /\ PoolTypes' /\ ChainInv'
  BY SubscriptionsStep, PoolTypesStep, ChainStep
<1>2. BookInv'
  BY BookStep
<1>3. IndexInv'
  BY IndexStep
<1>4. ToldInv'
  BY ToldStep
<1> QED
  BY <1>1, <1>2, <1>3, <1>4

(* It implies what the run checks. *)
LEMMA PoolFollows ==
    ASSUME PoolInv
    PROVE  PoolViewsFollow
BY SubscriptionsAre, OrdersAre, BalancesAre, ToldAre DEF PoolInv, PoolViewsFollow

(* However the mempool is refreshed while blocks come and are undone, and whoever subscribes and
   leaves: balances, orders, what subscribers were told and the subscriptions are what they
   should be (mempool_glyph.py, glyph_subscriptions.py). *)
THEOREM PoolViewsAlwaysFollow == PoolInit /\ [][PoolNext]_poolVars => []PoolViewsFollow
<1>1. PoolInit => PoolInv
  BY PoolStarts
<1>2. PoolInv /\ [PoolNext]_poolVars => PoolInv'
  BY PoolSteps
<1>3. PoolInv => PoolViewsFollow
  BY PoolFollows
<1> QED
  BY <1>1, <1>2, <1>3, PTL

-----------------------------------------------------------------------------
(* The three parts in what the run checks *)

(* While the behaviour is that of the reads, their invariant holds. *)
ReadsPart == part = "reads" => ReadsInv

(* It holds at the start. *)
LEMMA PartInit ==
    ASSUME Init
    PROVE  ReadsPart
BY ReadsInitially DEF Init, ReadsPart

(* Every step keeps it. *)
LEMMA PartStep ==
    ASSUME ReadsPart, [Next]_servingVars
    PROVE  ReadsPart'
<1>1. part' = part
  BY DEF Next, Reads, Proofs, Compaction, Pool, servingVars
<1>2. ASSUME part = "reads" PROVE [ReadsNext]_readVars
  BY <1>2 DEF Next, Reads, Proofs, Compaction, Pool, servingVars
<1>3. ASSUME part = "reads" PROVE ReadsInv'
  BY <1>2, <1>3, ReadsInvariant DEF ReadsPart
<1> QED
  BY <1>1, <1>3 DEF ReadsPart

(* Clients are always answered from what the DB says, but for the entries that have lapsed:
   ReadsHold (server/db.py and session.py, the caches; controller.py, Notifications). *)
THEOREM ReadsFollowRows == Spec => []ReadsHold
<1>1. ReadsPart => ReadsHold
  BY ReadsFollow DEF ReadsPart, ReadsHold
<1> QED
  BY PartInit, PartStep, <1>1, PTL DEF Spec

(* The history DB is constant while the behaviour is that of another part. *)
LEMMA CompactionPartStep ==
    ASSUME CompactionInv, [Next]_servingVars
    PROVE  CompactionInv'
<1>1. [CompactionNext]_compactionVars
  BY DEF Next, Reads, Proofs, Compaction, Pool, servingVars
<1> QED
  BY <1>1, CompactionStep

(* An address's history is all of its flushed txs, in their order, whatever was compacted,
   cancelled, undone or killed: CompactionHolds (server/history.py). *)
THEOREM CompactionKeepsHistory == Spec => []CompactionHolds
<1>1. Init => CompactionInv
  BY CompactionInitially DEF Init
<1>2. CompactionInv => CompactionHolds
  BY HistoryFollows DEF CompactionHolds
<1> QED
  BY <1>1, <1>2, CompactionPartStep, PTL DEF Spec

(* The mempool's tokens are constant while the behaviour is that of another part. *)
LEMMA PoolPartStep ==
    ASSUME PoolInv, [Next]_servingVars
    PROVE  PoolInv'
<1>1. [PoolNext]_poolVars
  BY DEF Next, Reads, Proofs, Compaction, Pool, servingVars
<1> QED
  BY <1>1, PoolSteps

(* Wallets and traders see the mempool as it is: PoolHolds (server/mempool_glyph.py, mempool.py
   and glyph_subscriptions.py). *)
THEOREM PoolIsSeen == Spec => []PoolHolds
<1>1. Init => PoolInv
  BY PoolStarts DEF Init
<1>2. PoolInv => PoolHolds
  BY PoolFollows DEF PoolHolds
<1> QED
  BY <1>1, <1>2, PoolPartStep, PTL DEF Spec
=============================================================================
