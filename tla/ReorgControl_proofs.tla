------------------------ MODULE ReorgControl_proofs ------------------------
(***************************************************************************)
(* Proofs about ReorgControl: for every tree of blocks, every size of the  *)
(* cache and of a request, and any number of branch switches and of        *)
(* operators' requests.                                                    *)
(***************************************************************************)
EXTENDS ReorgControl, NaturalSets, SequenceTheorems, TLAPS

(* The block of height n on the chain of b. *)
Anc(b, n) == SubSeq(b, 1, n)

-----------------------------------------------------------------------------
(* The inductive invariant, in four layers. *)

Searching == {"calc", "backup", "acquire", "reset", "dead"}

(* Layer 1: types and control.  The semaphore is held exactly while a request
   is under way, which the cache had room for. *)
Control ==
    /\ semaphore <=> pf \in {"hashes", "raw"}
    /\ pf # "raw" => hashes = <<>>
    /\ pf \in {"hashes", "raw"} => Len(blocks) < CacheBlocks
    /\ pf = "hashes" => fetched < pfHeight
    /\ pfHeight <= Height(daemonTip)
    /\ bp # "advance" => queue = <<>>
    /\ bp \in Searching => reorg # NoReorg
    /\ bp = "calc" => count = Natural
TypeInv == TypeOK /\ Control

(* Layer 2: the blocks of sequence s follow on height h one by one. *)
Follow(s, h) == \A i \in 1 .. Len(s) : Height(s[i]) = h + i
Contiguous ==
    /\ Follow(hashes, fetched)
    /\ reorg = NoReorg \/ bp \in {"reset", "advance"} =>
         /\ Follow(queue, Height(tip))
         /\ Follow(blocks, Height(tip) + Len(queue))
         /\ fetched = Height(tip) + Len(queue) + Len(blocks)

(* Layer 3: every block the index has or waits for came from the daemon, whose
   chain has only grown.  As long as the daemon has not switched since the last
   natural reorg began, they are all on its chain, but for the time until that
   reorg has undone what is not shared and dropped what was prefetched.  So a
   block that does not connect shows that it has switched: there are two blocks
   of the tip's height. *)
OnBranch == ~switched /\ ~(count = Natural /\ bp \in {"calc", "backup", "acquire", "dead"})
Known(b) == /\ Height(b) <= Height(daemonTip)
            /\ OnBranch => IsPrefix(b, daemonTip)
AllKnown(s) == \A i \in 1 .. Len(s) : Known(s[i])
Rival(b) == \E c \in Blocks : Height(c) = Height(b) /\ c # b
FromDaemon ==
    /\ Known(tip) /\ AllKnown(queue) /\ AllKnown(blocks) /\ AllKnown(hashes)
    /\ Height(before) <= Height(daemonTip)
Cause ==
    /\ reorg = Natural => bp \in {"wait", "locked"} \cup Searching
    /\ reorg = Natural /\ bp \in {"wait", "locked"} => switched /\ Rival(tip)
Branches == FromDaemon /\ Cause

(* Layer 4: the search for the fork, while the daemon stays on its branch. The
   windows go down without a gap, and the block above the next one is not the
   daemon's, or is the tip; if forks are high, the windows have doubled and do
   not reach block 0.  What is undone then is all that is not shared, and at
   least the tip; after a search down to block 0 the undoing does not end. *)
Shared(n) == Anc(before, n) = Anc(daemonTip, n)
Search ==
    /\ bp = "calc" => tip = before /\ Rival(before)
    /\ bp = "calc" /\ ~switched =>
         /\ window >= 1 /\ start + window \in 0 .. Height(before)
         /\ start + window < Height(before) => ~Shared(start + window)
         /\ ForksAreHigh => start >= 1 /\ start + 2 * window = Height(before) + 1
Undoing ==
    count = Natural /\ ~switched =>
      /\ bp = "acquire" => start >= 1
      /\ ForksAreHigh => bp # "dead" /\ (bp = "backup" => start >= 1)
      /\ bp \in {"backup", "acquire"} /\ start >= 1 =>
           /\ start - 1 \in 1 .. Height(before) - 1
           /\ Shared(start - 1) /\ (start < Height(before) => ~Shared(start))
           /\ Height(tip) \in start - 1 .. Height(before)
           /\ tip = Anc(before, Height(tip))
           /\ bp = "acquire" => Height(tip) < start

IInv == TypeInv /\ Contiguous /\ Branches /\ Search /\ Undoing

-----------------------------------------------------------------------------
(* The tree of blocks *)

\* The ancestor at height n is the first n names.
LEMMA AncSeq ==
    ASSUME NEW b \in Seq(Names), NEW n \in 0 .. Len(b)
    PROVE  /\ Anc(b, n) \in Seq(Names) /\ Len(Anc(b, n)) = n
           /\ \A i \in 1 .. n : Anc(b, n)[i] = b[i]
           /\ n \in Nat /\ Len(b) \in Nat
<1>1. Len(b) \in Nat /\ \A i \in 1 .. n : b[i] \in Names
  BY LenProperties, ElementOfSeq
<1> QED
  BY <1>1, SubSeqProperties DEF Anc

\* A block is its own ancestor at its height, and only Genesis has height 0.
LEMMA BlockFacts ==
    ASSUME NEW b \in Blocks
    PROVE  /\ Height(b) \in Nat
           /\ Anc(b, Height(b)) = b
           /\ Height(b) = 0 <=> b = Genesis
           /\ Genesis \in Blocks
<1>1. b \in Seq(Names) /\ Prefixes(b) \subseteq Blocks
  BY TreeAssumption
<1>2. Len(b) \in Nat
  BY <1>1, LenProperties
<1>3. Anc(b, Height(b)) = b
  BY <1>1, SubSeqFull DEF Anc, Height
<1>4. Len(b) = 0 <=> b = <<>>
  BY <1>1, <1>2, EmptySeq
<1>5. SubSeq(b, 1, 0) = <<>>
  BY SubSeqEmpty
<1>6. <<>> \in Blocks
  <2>1. 0 \in 0 .. Len(b)
    BY <1>2
  <2>2. SubSeq(b, 1, 0) \in Prefixes(b)
    BY <2>1 DEF Prefixes
  <2> QED
    BY <1>1, <1>5, <2>2
<1> QED
  BY <1>2, <1>3, <1>4, <1>6 DEF Height, Genesis

\* Ancestors are blocks of the tree, and their ancestors are the block's.
LEMMA AncFacts ==
    ASSUME NEW b \in Blocks, NEW n \in 0 .. Height(b)
    PROVE  /\ Anc(b, n) \in Blocks
           /\ Height(Anc(b, n)) = n
           /\ \A m \in 0 .. n : Anc(Anc(b, n), m) = Anc(b, m)
<1>1. b \in Seq(Names) /\ Prefixes(b) \subseteq Blocks
  BY TreeAssumption
<1>2. n \in 0 .. Len(b)
  BY DEF Height
<1>3. Anc(b, n) \in Prefixes(b)
  BY <1>2 DEF Anc, Prefixes
<1>4. ASSUME NEW m \in 0 .. n PROVE Anc(Anc(b, n), m) = Anc(b, m)
  <2>1. /\ Anc(b, n) \in Seq(Names) /\ Len(Anc(b, n)) = n
        /\ \A i \in 1 .. n : Anc(b, n)[i] = b[i]
        /\ n \in Nat /\ Len(b) \in Nat
    BY <1>1, <1>2, AncSeq
  <2>2. /\ Anc(Anc(b, n), m) \in Seq(Names) /\ Len(Anc(Anc(b, n), m)) = m
        /\ \A i \in 1 .. m : Anc(Anc(b, n), m)[i] = Anc(b, n)[i]
    BY <2>1, AncSeq
  <2>3. /\ Anc(b, m) \in Seq(Names) /\ Len(Anc(b, m)) = m
        /\ \A i \in 1 .. m : Anc(b, m)[i] = b[i]
    BY <1>1, <1>2, <2>1, AncSeq
  <2>4. \A i \in 1 .. m : Anc(Anc(b, n), m)[i] = Anc(b, m)[i]
    BY <2>1, <2>2, <2>3
  <2> QED
    BY <2>2, <2>3, <2>4, SeqEqual
<1> QED
  BY <1>1, <1>2, <1>3, <1>4, AncSeq DEF Height

\* A parent is the ancestor one below.
LEMMA ParentFacts ==
    ASSUME NEW b \in Blocks, b # Genesis
    PROVE  /\ Parent(b) = Anc(b, Height(b) - 1)
           /\ Parent(b) \in Blocks
           /\ Height(Parent(b)) = Height(b) - 1
           /\ Height(b) >= 1
<1>1. Height(b) \in Nat /\ Height(b) # 0
  BY BlockFacts
<1>2. Height(b) - 1 \in 0 .. Height(b)
  BY <1>1
<1>3. Parent(b) = Anc(b, Height(b) - 1)
  BY DEF Parent, Front, Anc, Height
<1> QED
  BY <1>1, <1>2, <1>3, AncFacts

\* A prefix that is a block is the ancestor at its height.
LEMMA PrefixIsAncestor ==
    ASSUME NEW a \in Blocks, NEW b \in Blocks
    PROVE  IsPrefix(a, b) <=> Height(a) <= Height(b) /\ a = Anc(b, Height(a))
  BY BlockFacts DEF IsPrefix, Height, Anc

(* Two chains that share a block share everything below it. *)
LEMMA AgreeBelow ==
    ASSUME NEW a \in Blocks, NEW b \in Blocks,
           NEW n \in 0 .. Height(a), n <= Height(b), Anc(a, n) = Anc(b, n),
           NEW m \in 0 .. n
    PROVE  Anc(a, m) = Anc(b, m)
<1>1. n \in 0 .. Height(b)
  BY BlockFacts
<1> QED
  BY <1>1, AncFacts

(* The longest common prefix is the last block both chains have. *)
LEMMA ForkIs ==
    ASSUME NEW a \in Blocks, NEW b \in Blocks,
           NEW n \in 0 .. Height(a), n <= Height(b), Anc(a, n) = Anc(b, n),
           n < Height(a) /\ n < Height(b) => Anc(a, n + 1) # Anc(b, n + 1)
    PROVE  Fork(a, b) = Anc(a, n)
<1>1. Height(a) \in Nat /\ Height(b) \in Nat /\ n \in 0 .. Height(b)
  BY BlockFacts
<1>2. \A c : c \in CommonPrefixes({a, b}) <=>
             \E m \in 0 .. n : c = Anc(a, m)
  <2>1. ASSUME NEW m \in 0 .. n PROVE Anc(a, m) \in CommonPrefixes({a, b})
    <3>1. Anc(a, m) = Anc(b, m)
      BY AgreeBelow
    <3>2. m \in 0 .. Height(a) /\ m \in 0 .. Height(b)
      BY <1>1
    <3>3. Anc(a, m) \in Blocks /\ Height(Anc(a, m)) = m
      BY <3>2, AncFacts
    <3>4. IsPrefix(Anc(a, m), a) /\ IsPrefix(Anc(a, m), b)
      BY <3>1, <3>2, <3>3, PrefixIsAncestor
    <3>5. Anc(a, m) \in Prefixes(a)
      BY <3>2 DEF Prefixes, Anc, Height
    <3> QED
      BY <3>4, <3>5 DEF CommonPrefixes
  <2>2. ASSUME NEW c \in CommonPrefixes({a, b})
        PROVE  \E m \in 0 .. n : c = Anc(a, m)
    <3>1. c \in Blocks
      BY TreeAssumption DEF CommonPrefixes
    <3>2. IsPrefix(c, a) /\ IsPrefix(c, b)
      BY DEF CommonPrefixes
    <3>3. /\ Height(c) \in Nat /\ Height(c) <= Height(a) /\ Height(c) <= Height(b)
          /\ c = Anc(a, Height(c)) /\ c = Anc(b, Height(c))
      BY <3>1, <3>2, BlockFacts, PrefixIsAncestor
    <3>4. Height(c) <= n
      <4>1. SUFFICES ASSUME Height(c) > n PROVE FALSE
        BY <1>1, <3>3
      <4>2. n + 1 \in 0 .. Height(c) /\ Height(c) \in 0 .. Height(a)
        BY <1>1, <3>3, <4>1
      <4>3. Anc(a, n + 1) = Anc(b, n + 1)
        BY <3>3, <4>2, AgreeBelow
      <4> QED
        BY <1>1, <3>3, <4>1, <4>3
    <3> QED
      BY <3>3, <3>4
  <2> QED
    BY <2>1, <2>2
<1>3. \A m \in 0 .. n : Len(Anc(a, m)) = m
  BY <1>1, AncFacts DEF Height
<1>4. n \in 0 .. n
  BY <1>1
<1>5. /\ Anc(a, n) \in CommonPrefixes({a, b})
      /\ \A c \in CommonPrefixes({a, b}) : Len(c) <= Len(Anc(a, n))
  <2>1. Anc(a, n) \in CommonPrefixes({a, b})
    BY <1>2, <1>4
  <2>2. ASSUME NEW c \in CommonPrefixes({a, b}) PROVE Len(c) <= Len(Anc(a, n))
    <3>1. PICK m \in 0 .. n : c = Anc(a, m)
      BY <1>2
    <3>2. Len(c) = m /\ Len(Anc(a, n)) = n /\ m <= n
      BY <1>3, <1>4, <3>1
    <3> QED
      BY <3>2
  <2> QED
    BY <2>1, <2>2
<1>6. ASSUME NEW c \in CommonPrefixes({a, b}),
             \A d \in CommonPrefixes({a, b}) : Len(d) <= Len(c)
      PROVE  c = Anc(a, n)
  <2>1. PICK m \in 0 .. n : c = Anc(a, m)
    BY <1>2
  <2>2. n <= m
    BY <1>3, <1>4, <1>5, <1>6, <2>1
  <2> QED
    BY <1>1, <2>1, <2>2
<1> DEFINE Longest(c) == /\ c \in CommonPrefixes({a, b})
                         /\ \A d \in CommonPrefixes({a, b}) : Len(d) <= Len(c)
<1>7. Longest(Anc(a, n)) /\ \A c : Longest(c) => c = Anc(a, n)
  BY <1>5, <1>6
<1>8. Fork(a, b) = CHOOSE c : Longest(c)
  BY Zenon DEF Fork, LongestCommonPrefix
<1> HIDE DEF Longest
<1> QED
  BY <1>7, <1>8
-----------------------------------------------------------------------------
(* Layer 1: types and control *)

(* The blocks the daemon answers a request with. *)
LEMMA HashesFacts ==
    ASSUME NEW b \in Blocks, NEW first \in Nat, NEW n \in Nat,
           first >= 1, first + n - 1 <= Height(b)
    PROVE  /\ Hashes(b, first, n) \in Seq(Blocks)
           /\ Len(Hashes(b, first, n)) = n
           /\ DOMAIN Hashes(b, first, n) = 1 .. n
           /\ \A i \in 1 .. n : Hashes(b, first, n)[i] = Anc(b, first + i - 1)
<1> DEFINE hs == [i \in 1 .. n |-> Anc(b, first + i - 1)]
<1>1. Hashes(b, first, n) = hs
  BY DEF Hashes, Anc
<1>2. \A i \in 1 .. n : first + i - 1 \in 0 .. Height(b)
  BY BlockFacts
<1>3. hs \in [1 .. n -> Blocks]
  BY <1>2, AncFacts
<1>4. hs \in Seq(Blocks)
  BY <1>3, SeqDef
<1>5. Len(hs) = n
  BY <1>3, <1>4
<1> HIDE DEF hs
<1>6. \A i \in 1 .. n : hs[i] = Anc(b, first + i - 1)
  BY DEF hs
<1> QED
  BY <1>1, <1>3, <1>4, <1>5, <1>6

\* The daemon only moves to a higher tip, which it may reach by growing.
LEMMA DaemonMoves ==
    ASSUME daemonTip \in Blocks, DaemonGrows \/ DaemonSwitches
    PROVE  /\ daemonTip' \in Blocks /\ Height(daemonTip) < Height(daemonTip')
           /\ Height(daemonTip) \in Nat /\ Height(daemonTip') \in Nat
           /\ DaemonGrows => IsPrefix(daemonTip, daemonTip')
<1>1. CASE DaemonGrows
  <2>1. /\ daemonTip' \in Blocks /\ daemonTip' # Genesis
        /\ Parent(daemonTip') = daemonTip
    BY <1>1 DEF DaemonGrows
  <2>2. /\ Height(daemonTip) = Height(daemonTip') - 1
        /\ daemonTip = Anc(daemonTip', Height(daemonTip') - 1)
        /\ Height(daemonTip) \in Nat /\ Height(daemonTip') \in Nat
    BY <2>1, ParentFacts, BlockFacts
  <2>3. IsPrefix(daemonTip, daemonTip')
    BY <2>1, <2>2, PrefixIsAncestor
  <2> QED
    BY <2>1, <2>2, <2>3
<1>2. CASE DaemonSwitches
  <2>1. /\ daemonTip' \in Blocks /\ Height(daemonTip') > Height(daemonTip)
        /\ ~IsPrefix(daemonTip, daemonTip')
    BY <1>2 DEF DaemonSwitches
  <2>2. ~DaemonGrows
    <3>1. SUFFICES ASSUME DaemonGrows PROVE FALSE
      OBVIOUS
    <3>2. /\ daemonTip' # Genesis /\ Parent(daemonTip') = daemonTip
      BY <3>1 DEF DaemonGrows
    <3>3. IsPrefix(daemonTip, daemonTip')
      BY <2>1, <3>2, ParentFacts, BlockFacts, PrefixIsAncestor
    <3> QED
      BY <2>1, <3>3
  <2> QED
    BY <2>1, <2>2, BlockFacts
<1> QED
  BY <1>1, <1>2

\* A request never asks past the daemon's height, nor for more than a chunk.
LEMMA RequestFacts ==
    ASSUME NEW at \in Nat, pfHeight \in Nat
    PROVE  /\ RequestCount(at) \in Int
           /\ RequestCount(at) <= pfHeight - at
           /\ RequestCount(at) <= FetchBlocks
           /\ RequestCount(at) > 0 <=> at < pfHeight
  BY BoundsAssumption DEF RequestCount, Least

(* Where the prefetcher may be after the head of its loop. *)
LEMMA LoopExits ==
    ASSUME NEW cached \in Nat, NEW at \in Nat, pfHeight \in Nat,
           refill \in BOOLEAN, PrefetchLoop(cached, at)
    PROVE  /\ pf' \in {"refill", "sleep", "hashes"}
           /\ semaphore' \in BOOLEAN /\ refill' \in BOOLEAN
           /\ semaphore' <=> pf' = "hashes"
           /\ pf' = "hashes" => cached < CacheBlocks /\ at < pfHeight
  BY RequestFacts DEF PrefetchLoop

(* diff_pos stops at the first difference. *)
LEMMA DiffPosFacts ==
    ASSUME NEW n \in Nat, NEW ours, NEW theirs, DOMAIN ours = 1 .. n, Len(ours) = n
    PROVE  /\ DiffPos(ours, theirs) \in 0 .. n
           /\ \A i \in 1 .. DiffPos(ours, theirs) : ours[i] = theirs[i]
           /\ DiffPos(ours, theirs) < n =>
                ours[DiffPos(ours, theirs) + 1] # theirs[DiffPos(ours, theirs) + 1]
<1> DEFINE differ == {i \in DOMAIN ours : ours[i] # theirs[i]}
<1>1. CASE differ = {}
  <2>1. DiffPos(ours, theirs) = n
    BY <1>1 DEF DiffPos
  <2> QED
    BY <1>1, <2>1
<1>2. CASE differ # {}
  <2> DEFINE first == CHOOSE i \in differ : \A j \in differ : i <= j
  <2>1. differ \in SUBSET Nat
    OBVIOUS
  <2>2. \E i \in differ : \A j \in differ : i <= j
    <3> HIDE DEF differ
    <3> QED
      BY <1>2, <2>1, LeastElement
  <2>3. first \in differ /\ \A j \in differ : first <= j
    BY <2>2
  <2>4. DiffPos(ours, theirs) = first - 1
    BY <1>2 DEF DiffPos
  <2>5. first \in 1 .. n /\ ours[first] # theirs[first]
    BY <2>3
  <2>6. ASSUME NEW i \in 1 .. first - 1 PROVE ours[i] = theirs[i]
    <3>1. i \in 1 .. n /\ ~(first <= i)
      BY <2>5
    <3> QED
      BY <2>3, <3>1
  <2> HIDE DEF first
  <2> QED
    BY <2>4, <2>5, <2>6
<1> QED
  BY <1>1, <1>2

(* A turn of the search moves down, or ends it. *)
LEMMA SearchTyped ==
    ASSUME start \in Int, window \in Nat, bp = "calc", CalcStep
    PROVE  start' \in Int /\ window' \in Nat /\ bp' \in {"calc", "backup"}
<1>1. CASE start <= 0
  BY <1>1 DEF CalcStep
<1>2. CASE start > 0
  <2> DEFINE ours == Hashes(tip, start, window)
             n == DiffPos(ours, Hashes(daemonTip, start, window))
  <2>1. DOMAIN ours = 1 .. window /\ Len(ours) = window
    BY DEF Hashes
  <2>2. n \in 0 .. window
    <3> HIDE DEF ours
    <3> QED
      BY <2>1, DiffPosFacts
  <2>3. \/ bp' = "backup" /\ start' = start + n /\ UNCHANGED window
        \/ window' = Least(2 * window, start) /\ start' = start - window' /\ bp' = bp
    BY <1>2 DEF CalcStep
  <2> HIDE DEF n
  <2> QED
    BY <1>2, <2>2, <2>3 DEF Least
<1> QED
  BY <1>1, <1>2

\* The initial state is typed.
LEMMA TypeInit == Init => TypeInv
<1> SUFFICES ASSUME Init PROVE TypeInv
  OBVIOUS
<1>1. daemonTip \in Blocks /\ tip \in Blocks /\ before \in Blocks
  BY TreeAssumption DEF Init
<1>2. Height(daemonTip) \in Nat /\ Height(tip) \in Nat
  BY <1>1, BlockFacts
<1>3. <<>> \in Seq(Blocks) /\ Len(<<>>) = 0
  BY EmptySeq
<1>4. {refill, semaphore, blocksEvent, caughtUp, switched, owed}
         \subseteq BOOLEAN
  BY DEF Init
<1>5. TypeOK
  BY <1>1, <1>2, <1>3, <1>4, BoundsAssumption DEF Init, TypeOK
<1>6. Control
  BY <1>2 DEF Init, Control, Searching, NoReorg
<1> QED
  BY <1>5, <1>6 DEF TypeInv

\* Every step keeps the types and what each task's place says.
LEMMA TypeStep == TypeInv /\ [Next]_vars => TypeInv'
<1> SUFFICES ASSUME TypeInv, [Next]_vars PROVE TypeInv'
  OBVIOUS
<1> USE DEF TypeInv, Searching
<1> USE BoundsAssumption
<1>0. /\ \A b \in Blocks : Height(b) \in Nat /\ Parent(b) \in Blocks
      /\ <<>> \in Seq(Blocks) /\ Len(<<>>) = 0
  <2>1. ASSUME NEW b \in Blocks PROVE Height(b) \in Nat /\ Parent(b) \in Blocks
    <3>1. b = Genesis => Parent(b) = Genesis
      BY SubSeqEmpty DEF Parent, Front, Genesis
    <3> QED
      BY <3>1, ParentFacts, BlockFacts
  <2> QED
    BY <2>1, EmptySeq
<1>1. CASE PfWake
  BY <1>1 DEF PfWake, TypeOK, Control, cacheVars, bpOwn, rangeVars,
     forceVars
<1>2. CASE PfHeight
  BY <1>0, <1>2 DEF PfHeight, TypeOK, Control, cacheVars, bpOwn,
     rangeVars, forceVars
<1>3. CASE PfAcquire
  <2>1. /\ pf' \in {"refill", "sleep", "hashes"}
        /\ semaphore' \in BOOLEAN /\ refill' \in BOOLEAN
        /\ semaphore' <=> pf' = "hashes"
        /\ pf' = "hashes" => Len(blocks) < CacheBlocks /\ fetched < pfHeight
    BY <1>3, LoopExits DEF PfAcquire, TypeOK
  <2> QED
    BY <1>3, <2>1 DEF PfAcquire, TypeOK, Control, bpOwn, rangeVars,
       forceVars
<1>4. CASE PfHashes
  <2> DEFINE n == RequestCount(fetched)
  <2>1. n \in Nat /\ n <= pfHeight - fetched /\ n <= FetchBlocks
    <3>1. fetched \in Nat /\ pfHeight \in Nat /\ fetched < pfHeight
      BY <1>4 DEF PfHashes, TypeOK, Control
    <3> QED
      BY <3>1, RequestFacts
  <2>2. /\ hashes' = Hashes(daemonTip, fetched + 1, n)
        /\ fetched + 1 \in Nat /\ fetched + 1 >= 1
        /\ fetched + 1 + n - 1 <= Height(daemonTip)
    BY <1>0, <1>4, <2>1 DEF PfHashes, TypeOK, Control
  <2> HIDE DEF n
  <2>3. hashes' \in Seq(Blocks) /\ Len(hashes') = n
    BY <2>1, <2>2, HashesFacts DEF TypeOK
  <2> QED
    BY <1>4, <2>1, <2>3 DEF PfHashes, TypeOK, Control, cacheVars,
       bpOwn, rangeVars, forceVars
<1>5. CASE PfRaw
  <2>1. /\ Len(blocks) \in Nat /\ Len(hashes) \in Nat
        /\ blocks \o hashes \in Seq(Blocks)
        /\ Len(blocks \o hashes) = Len(blocks) + Len(hashes)
    BY DEF TypeOK
  <2>2. /\ pf' \in {"refill", "sleep", "hashes"}
        /\ semaphore' \in BOOLEAN /\ refill' \in BOOLEAN
        /\ semaphore' <=> pf' = "hashes"
        /\ pf' = "hashes" => /\ Len(blocks) + Len(hashes) < CacheBlocks
                             /\ fetched + Len(hashes) < pfHeight
    BY <1>5, <2>1, LoopExits DEF PfRaw, TypeOK
  <2> QED
    BY <1>0, <1>5, <2>1, <2>2 DEF PfRaw, TypeOK, Control, bpOwn,
       rangeVars, forceVars
<1>6. CASE PfSlept
  BY <1>6 DEF PfSlept, TypeOK, Control, cacheVars, bpOwn, rangeVars,
     forceVars
<1>7. CASE BpWake
  BY <1>7 DEF BpWake, TypeOK, Control, cacheVars, pfVars, rangeVars,
     forceVars
<1>8. CASE TakeBlocks
  BY <1>0, <1>8 DEF TakeBlocks, TypeOK, Control, pfVars, rangeVars,
     forceVars
<1>9. CASE AdvanceOne
  <2>1. queue # <<>> /\ queue \in Seq(Blocks)
    BY <1>9 DEF AdvanceOne, TypeOK
  <2>2. Head(queue) \in Blocks /\ Tail(queue) \in Seq(Blocks)
    BY <2>1, HeadTailProperties
  <2> QED
    BY <1>9, <2>2 DEF AdvanceOne, TypeOK, Control, cacheVars, pfVars,
       rangeVars, forceVars
<1>10. CASE AdvanceMismatch
  BY <1>0, <1>10 DEF AdvanceMismatch, TypeOK, Control, cacheVars,
     pfVars, rangeVars, forceVars
<1>11. CASE AdvanceDone
  BY <1>11 DEF AdvanceDone, TypeOK, Control, cacheVars, pfVars,
     rangeVars, forceVars
<1>12. CASE StartReorg
  <2>1. start' \in Int /\ window' \in Nat
    <3>1. tip \in Blocks /\ Height(tip) \in Nat /\ (reorg # Natural => reorg \in Nat)
      BY <1>0, <1>12 DEF StartReorg, TypeOK
    <3>2. CASE reorg = Natural
      BY <1>12, <3>1, <3>2 DEF StartReorg
    <3>3. CASE reorg # Natural
      BY <1>12, <3>1, <3>3 DEF StartReorg
    <3> QED
      BY <3>2, <3>3
  <2>2. owed' \in BOOLEAN
    BY <1>12 DEF StartReorg, TypeOK
  <2> QED
    BY <1>12, <2>1, <2>2 DEF StartReorg, TypeOK, Control, cacheVars,
       pfVars
<1>13. CASE CalcStep
  <2>1. bp = "calc" /\ start \in Int /\ window \in Nat
    BY <1>13 DEF CalcStep, TypeOK
  <2>2. start' \in Int /\ window' \in Nat /\ bp' \in {"calc", "backup"}
    BY <1>13, <2>1, SearchTyped
  <2> QED
    BY <1>13, <2>2 DEF CalcStep, TypeOK, Control, cacheVars, pfVars,
       forceVars
<1>14. CASE BackupOne
  BY <1>0, <1>14 DEF BackupOne, TypeOK, Control, cacheVars, pfVars,
     rangeVars, forceVars
<1>15. CASE BackupDone
  BY <1>15 DEF BackupDone, TypeOK, Control, cacheVars, pfVars,
     rangeVars, forceVars
<1>16. CASE ResetAcquire
  BY <1>0, <1>16 DEF ResetAcquire, TypeOK, Control, pfVars, rangeVars,
     forceVars
<1>17. CASE ResetDone
  BY <1>0, <1>17 DEF ResetDone, TypeOK, Control, cacheVars, pfVars,
     rangeVars, forceVars
<1>18. ASSUME NEW n \in ForcedCounts, force_chain_reorg(n) PROVE TypeInv'
  <2>1. n # NoReorg
    BY DEF NoReorg
  <2> QED
    BY <1>18, <2>1 DEF force_chain_reorg, TypeOK, Control, cacheVars, pfVars,
       rangeVars
<1>19. CASE DaemonGrows \/ DaemonSwitches
  <2>1. /\ daemonTip' \in Blocks /\ Height(daemonTip) < Height(daemonTip')
        /\ Height(daemonTip) \in Nat /\ Height(daemonTip') \in Nat
    BY <1>19, DaemonMoves DEF TypeOK
  <2>2. switched' \in BOOLEAN
    BY <1>19 DEF DaemonGrows, DaemonSwitches, TypeOK
  <2>3. UNCHANGED <<cachedHeight, pfVars, cacheVars, bp, tip, queue, blocksEvent,
                    reorg, rangeVars, caughtUp, forceVars>>
    BY <1>19 DEF DaemonGrows, DaemonSwitches
  <2> QED
    BY <2>1, <2>2, <2>3 DEF TypeOK, Control, cacheVars, pfVars, rangeVars,
       forceVars
<1>20. CASE UNCHANGED vars
  BY <1>20 DEF vars, TypeOK, Control, cacheVars, pfVars, rangeVars,
     forceVars
<1> QED
  BY <1>1, <1>2, <1>3, <1>4, <1>5, <1>6, <1>7, <1>8, <1>9, <1>10, <1>11, <1>12,
     <1>13, <1>14, <1>15, <1>16, <1>17, <1>18, <1>19, <1>20
  DEF Next, Prefetch, ProcessBlocks

(* The theorem's fairness plays no part: Init and Next do. *)
THEOREM TypesHold == Spec => []TypeOK
<1>1. TypeInv => TypeOK
  BY DEF TypeInv
<1> QED
  BY <1>1, TypeInit, TypeStep, PTL DEF Spec

-----------------------------------------------------------------------------
(* Layer 2: heights without a gap *)

\* What the later layers use of the types.
LEMMA Typed ==
    ASSUME TypeInv
    PROVE  /\ tip \in Blocks /\ daemonTip \in Blocks /\ before \in Blocks
           /\ Height(tip) \in Nat /\ Height(daemonTip) \in Nat
           /\ Height(before) \in Nat
           /\ queue \in Seq(Blocks) /\ blocks \in Seq(Blocks)
           /\ hashes \in Seq(Blocks)
           /\ Len(queue) \in Nat /\ Len(blocks) \in Nat /\ Len(hashes) \in Nat
           /\ fetched \in Nat /\ pfHeight \in Nat
           /\ \A i \in 1 .. Len(queue) : queue[i] \in Blocks
           /\ \A i \in 1 .. Len(blocks) : blocks[i] \in Blocks
           /\ \A i \in 1 .. Len(hashes) : hashes[i] \in Blocks
<1>1. /\ tip \in Blocks /\ daemonTip \in Blocks /\ before \in Blocks
      /\ queue \in Seq(Blocks) /\ blocks \in Seq(Blocks) /\ hashes \in Seq(Blocks)
      /\ fetched \in Nat /\ pfHeight \in Nat
  BY DEF TypeInv, TypeOK
<1>2. Height(tip) \in Nat /\ Height(daemonTip) \in Nat /\ Height(before) \in Nat
  BY <1>1, BlockFacts
<1>3. Len(queue) \in Nat /\ Len(blocks) \in Nat /\ Len(hashes) \in Nat
  BY <1>1, LenProperties
<1> QED
  BY <1>1, <1>2, <1>3, ElementOfSeq

(* What a request brings, and what it leaves alone. *)
LEMMA Answered ==
    ASSUME TypeInv, PfHashes
    PROVE  \A i \in 1 .. Len(hashes') :
             /\ fetched + i \in 0 .. Height(daemonTip)
             /\ hashes'[i] = Anc(daemonTip, fetched + i)
<1> DEFINE n == RequestCount(fetched)
<1>1. n \in Nat /\ n <= pfHeight - fetched /\ fetched \in Nat /\ pfHeight \in Nat
      /\ pfHeight <= Height(daemonTip) /\ Height(daemonTip) \in Nat
      /\ daemonTip \in Blocks
  <2>1. /\ fetched \in Nat /\ pfHeight \in Nat /\ Height(daemonTip) \in Nat
        /\ daemonTip \in Blocks
    BY Typed
  <2>2. fetched < pfHeight /\ pfHeight <= Height(daemonTip)
    BY DEF PfHashes, TypeInv, Control
  <2> QED
    BY <2>1, <2>2, RequestFacts
<1>2. /\ hashes' = Hashes(daemonTip, fetched + 1, n)
      /\ fetched + 1 \in Nat /\ fetched + 1 >= 1
      /\ fetched + 1 + n - 1 <= Height(daemonTip)
  <2>1. hashes' = Hashes(daemonTip, fetched + 1, n)
    BY DEF PfHashes
  <2> HIDE DEF n
  <2> QED
    BY <1>1, <2>1
<1> HIDE DEF n
<1>3. /\ Len(hashes') = n
      /\ \A i \in 1 .. n : hashes'[i] = Anc(daemonTip, fetched + 1 + i - 1)
  BY <1>1, <1>2, HashesFacts
<1>4. ASSUME NEW i \in 1 .. n
      PROVE  fetched + i \in 0 .. Height(daemonTip) /\ fetched + 1 + i - 1 = fetched + i
  BY <1>1, <1>2
<1> QED
  BY <1>3, <1>4

\* At the start there are no blocks on the way.
LEMMA ContiguousInit == Init => Contiguous
<1> SUFFICES ASSUME Init PROVE Contiguous
  OBVIOUS
<1>1. \A h : Follow(<<>>, h) /\ Len(<<>>) = 0
  BY EmptySeq DEF Follow
<1>2. /\ queue = <<>> /\ blocks = <<>> /\ hashes = <<>>
      /\ fetched = Height(tip) /\ tip \in Blocks
  BY TreeAssumption DEF Init
<1>3. Height(tip) \in Nat
  BY <1>2, BlockFacts
<1> QED
  BY <1>1, <1>2, <1>3 DEF Contiguous

\* Runs of heights that meet make one run.
LEMMA FollowConcat ==
    ASSUME NEW s \in Seq(Blocks), NEW t \in Seq(Blocks), NEW h \in Int,
           Follow(s, h), Follow(t, h + Len(s))
    PROVE  Follow(s \o t, h)
<1>1. Len(s) \in Nat /\ Len(t) \in Nat /\ Len(s \o t) = Len(s) + Len(t)
  BY LenProperties, ConcatProperties
<1>2. ASSUME NEW i \in 1 .. Len(s) + Len(t) PROVE Height((s \o t)[i]) = h + i
  <2>1. (s \o t)[i] = IF i <= Len(s) THEN s[i] ELSE t[i - Len(s)]
    BY ConcatProperties
  <2>2. CASE i <= Len(s)
    BY <1>1, <2>1, <2>2 DEF Follow
  <2>3. CASE i > Len(s)
    <3>1. i - Len(s) \in 1 .. Len(t)
      BY <1>1, <2>3
    <3>2. Height(t[i - Len(s)]) = h + Len(s) + (i - Len(s))
      BY <3>1 DEF Follow
    <3> QED
      BY <1>1, <2>1, <2>3, <3>2
  <2> QED
    BY <1>1, <2>2, <2>3
<1> QED
  BY <1>1, <1>2 DEF Follow

\* Every step keeps queue, prefetched blocks and requests without a gap.
LEMMA ContiguousStep ==
    TypeInv /\ TypeInv' /\ Contiguous /\ [Next]_vars => Contiguous'
<1> SUFFICES ASSUME TypeInv, TypeInv', Contiguous, [Next]_vars PROVE Contiguous'
  OBVIOUS
<1>a. ASSUME UNCHANGED <<tip, queue, blocks, hashes, fetched>>,
             \/ reorg' = reorg /\ bp' = bp
             \/ reorg' # NoReorg /\ bp' \notin {"reset", "advance"}
             \/ reorg' # NoReorg /\ bp' = bp
             \/ reorg' = reorg /\ {bp, bp'} \cap {"reset", "advance"} = {}
      PROVE  Contiguous'
  BY <1>a DEF Contiguous, Follow
<1>b. /\ Height(tip) \in Nat /\ fetched \in Nat
      /\ queue \in Seq(Blocks) /\ blocks \in Seq(Blocks) /\ hashes \in Seq(Blocks)
      /\ Len(queue) \in Nat /\ Len(blocks) \in Nat /\ Len(hashes) \in Nat
      /\ Height(tip') \in Nat
      /\ \A h : Follow(<<>>, h) /\ Len(<<>>) = 0
  <2>1. \A h : Follow(<<>>, h) /\ Len(<<>>) = 0
    BY EmptySeq DEF Follow
  <2>2. Height(tip') \in Nat
    BY BlockFacts DEF TypeInv, TypeOK
  <2> QED
    BY <2>1, <2>2, Typed
<1>1. CASE PfWake
  BY <1>1, <1>a DEF PfWake, cacheVars, bpOwn
<1>2. CASE PfHeight
  BY <1>2, <1>a DEF PfHeight, cacheVars, bpOwn
<1>3. CASE PfAcquire
  BY <1>3, <1>a DEF PfAcquire, bpOwn
<1>4. CASE PfHashes
  <2>1. UNCHANGED <<tip, queue, blocks, fetched, reorg, bp>>
    BY <1>4 DEF PfHashes, cacheVars, bpOwn
  <2>2. Follow(hashes', fetched)
    <3>1. ASSUME NEW i \in 1 .. Len(hashes') PROVE Height(hashes'[i]) = fetched + i
      BY <1>4, Answered, AncFacts, Typed
    <3> QED
      BY <3>1 DEF Follow
  <2> QED
    BY <2>1, <2>2 DEF Contiguous
<1>5. CASE PfRaw
  <2>1. /\ UNCHANGED <<tip, queue, reorg, bp>> /\ hashes' = <<>>
        /\ blocks' = blocks \o hashes /\ fetched' = fetched + Len(hashes)
    BY <1>5 DEF PfRaw, bpOwn
  <2>2. Len(blocks') = Len(blocks) + Len(hashes)
    BY <1>b, <2>1, ConcatProperties
  <2>3. ASSUME reorg = NoReorg \/ bp \in {"reset", "advance"}
        PROVE  /\ Follow(queue, Height(tip))
               /\ Follow(blocks', Height(tip) + Len(queue))
               /\ fetched' = Height(tip) + Len(queue) + Len(blocks')
    <3>1. /\ Follow(blocks, Height(tip) + Len(queue)) /\ Follow(hashes, fetched)
          /\ Follow(queue, Height(tip))
          /\ fetched = Height(tip) + Len(queue) + Len(blocks)
      BY <2>3 DEF Contiguous
    <3>2. Height(tip) + Len(queue) \in Int
      BY <1>b
    <3>3. Follow(blocks', Height(tip) + Len(queue))
      BY <1>b, <2>1, <3>1, <3>2, FollowConcat
    <3> QED
      BY <1>b, <2>1, <2>2, <3>1, <3>3
  <2> QED
    BY <1>b, <2>1, <2>3 DEF Contiguous
<1>6. CASE PfSlept
  BY <1>6, <1>a DEF PfSlept, cacheVars, bpOwn
<1>7. CASE BpWake
  BY <1>7, <1>a DEF BpWake, cacheVars, pfVars
<1>8. CASE TakeBlocks
  <2>1. /\ UNCHANGED <<tip, hashes, fetched, reorg>> /\ reorg = NoReorg
        /\ queue' = blocks /\ blocks' = <<>> /\ queue = <<>>
    BY <1>8 DEF TakeBlocks, pfVars, TypeInv, Control
  <2>2. /\ Follow(blocks, Height(tip) + Len(queue)) /\ Follow(hashes, fetched)
        /\ fetched = Height(tip) + Len(queue) + Len(blocks)
    BY <2>1 DEF Contiguous
  <2>3. Height(tip) + Len(queue) = Height(tip)
    BY <1>b, <2>1
  <2> QED
    BY <1>b, <2>1, <2>2, <2>3 DEF Contiguous
<1>9. CASE AdvanceOne
  <2>1. /\ UNCHANGED <<hashes, fetched, blocks, reorg, bp>> /\ bp = "advance"
        /\ queue # <<>> /\ tip' = Head(queue) /\ queue' = Tail(queue)
    BY <1>9 DEF AdvanceOne, pfVars, cacheVars
  <2>2. /\ Follow(queue, Height(tip)) /\ Follow(hashes, fetched)
        /\ Follow(blocks, Height(tip) + Len(queue))
        /\ fetched = Height(tip) + Len(queue) + Len(blocks)
    BY <2>1 DEF Contiguous
  <2>3. /\ Head(queue) = queue[1] /\ Len(queue) >= 1
        /\ Len(Tail(queue)) = Len(queue) - 1
        /\ \A i \in 1 .. Len(Tail(queue)) : Tail(queue)[i] = queue[i + 1]
    BY <1>b, <2>1, HeadTailProperties, EmptySeq
  <2>4. Height(tip') = Height(tip) + 1
    BY <1>b, <2>1, <2>2, <2>3 DEF Follow
  <2>5. Height(tip') + Len(queue') = Height(tip) + Len(queue)
    BY <1>b, <2>1, <2>3, <2>4
  <2>6. Follow(queue', Height(tip'))
    BY <1>b, <2>1, <2>2, <2>3, <2>4 DEF Follow
  <2> QED
    BY <2>1, <2>2, <2>5, <2>6 DEF Contiguous
<1>10. CASE AdvanceMismatch
  <2>1. /\ UNCHANGED <<hashes, fetched, blocks, tip>>
        /\ reorg' # NoReorg /\ bp' \notin {"reset", "advance"}
    BY <1>10 DEF AdvanceMismatch, pfVars, cacheVars, Natural, NoReorg
  <2> QED
    BY <2>1 DEF Contiguous, Follow
<1>11. CASE AdvanceDone
  BY <1>11 DEF AdvanceDone, pfVars, cacheVars, Contiguous, Follow
<1>12. CASE StartReorg
  BY <1>12, <1>a DEF StartReorg, pfVars, cacheVars
<1>13. CASE CalcStep
  <2>1. UNCHANGED <<tip, queue, blocks, hashes, fetched, reorg>> /\ reorg # NoReorg
        /\ bp' \notin {"reset", "advance"}
    BY <1>13 DEF CalcStep, pfVars, cacheVars, TypeInv, Control, Searching
  <2> QED
    BY <1>a, <2>1
<1>14. CASE BackupOne
  <2>1. UNCHANGED <<queue, blocks, hashes, fetched, reorg>> /\ reorg # NoReorg
        /\ bp' \notin {"reset", "advance"}
    BY <1>14 DEF BackupOne, pfVars, cacheVars, TypeInv, Control, Searching
  <2> QED
    BY <2>1 DEF Contiguous
<1>15. CASE BackupDone
  <2>1. UNCHANGED <<tip, queue, blocks, hashes, fetched, reorg>> /\ reorg # NoReorg
        /\ bp' \notin {"reset", "advance"}
    BY <1>15 DEF BackupDone, pfVars, cacheVars, TypeInv, Control, Searching
  <2> QED
    BY <1>a, <2>1
<1>16. CASE ResetAcquire
  <2>1. /\ UNCHANGED <<tip, queue, hashes>> /\ blocks' = <<>>
        /\ fetched' = Height(tip) /\ queue = <<>> /\ hashes = <<>>
    BY <1>16 DEF ResetAcquire, pfVars, TypeInv, Control
  <2> QED
    BY <1>b, <2>1 DEF Contiguous
<1>17. CASE ResetDone
  BY <1>17 DEF ResetDone, pfVars, cacheVars, Contiguous, Follow
<1>18. ASSUME NEW n \in ForcedCounts, force_chain_reorg(n) PROVE Contiguous'
  <2>1. UNCHANGED <<tip, queue, blocks, hashes, fetched, bp>> /\ reorg' # NoReorg
    BY <1>18, BoundsAssumption DEF force_chain_reorg, pfVars, cacheVars, NoReorg
  <2> QED
    BY <1>a, <2>1
<1>19. CASE DaemonGrows \/ DaemonSwitches
  BY <1>19, <1>a DEF DaemonGrows, DaemonSwitches, pfVars, cacheVars
<1>20. CASE UNCHANGED vars
  BY <1>20, <1>a DEF vars, pfVars, cacheVars
<1> QED
  BY <1>1, <1>2, <1>3, <1>4, <1>5, <1>6, <1>7, <1>8, <1>9, <1>10, <1>11, <1>12,
     <1>13, <1>14, <1>15, <1>16, <1>17, <1>18, <1>19, <1>20
  DEF Next, Prefetch, ProcessBlocks

\* The first two layers hold in every state.
LEMMA InductiveHeights == Spec => [](TypeInv /\ Contiguous)
<1>1. Init => TypeInv /\ Contiguous
  BY TypeInit, ContiguousInit
<1>2. TypeInv /\ Contiguous /\ [Next]_vars => (TypeInv /\ Contiguous)'
  BY TypeStep, ContiguousStep
<1> QED
  BY <1>1, <1>2, PTL DEF Spec

(* Queue, cache and request continue one another by height from the tip:
   neither a reorg nor a request answered late puts fetched_height out of step
   (_prefetch_blocks, reset_height). *)
THEOREM PrefetchStaysContiguous == Spec => []PrefetchContiguous
<1>1. TypeInv /\ Contiguous => PrefetchContiguous
  <2> SUFFICES ASSUME TypeInv, Contiguous, reorg = NoReorg \/ bp = "reset"
               PROVE  /\ \A i \in DOMAIN (queue \o blocks \o hashes) :
                           Height((queue \o blocks \o hashes)[i]) = Height(tip) + i
                      /\ fetched = Height(tip) + Len(queue) + Len(blocks)
    BY DEF PrefetchContiguous
  <2>1. /\ Follow(queue, Height(tip)) /\ Follow(hashes, fetched)
        /\ Follow(blocks, Height(tip) + Len(queue))
        /\ fetched = Height(tip) + Len(queue) + Len(blocks)
    BY DEF Contiguous
  <2>2. /\ queue \o blocks \in Seq(Blocks)
        /\ Len(queue \o blocks) = Len(queue) + Len(blocks)
        /\ queue \o blocks \o hashes \in Seq(Blocks)
        /\ DOMAIN (queue \o blocks \o hashes) = 1 .. Len(queue \o blocks \o hashes)
    <3>1. queue \in Seq(Blocks) /\ blocks \in Seq(Blocks) /\ hashes \in Seq(Blocks)
      BY Typed
    <3>2. /\ queue \o blocks \in Seq(Blocks)
          /\ Len(queue \o blocks) = Len(queue) + Len(blocks)
      BY <3>1, ConcatProperties
    <3>3. queue \o blocks \o hashes \in Seq(Blocks)
      BY <3>1, <3>2, ConcatProperties
    <3> QED
      BY <3>2, <3>3, LenProperties
  <2>3. Follow(queue \o blocks, Height(tip))
    BY <2>1, Typed, FollowConcat
  <2>4. fetched = Height(tip) + Len(queue \o blocks)
    BY <2>1, <2>2, Typed
  <2>5. Follow(queue \o blocks \o hashes, Height(tip))
    <3>1. hashes \in Seq(Blocks) /\ Height(tip) \in Int
      BY Typed
    <3>2. Follow(hashes, Height(tip) + Len(queue \o blocks))
      BY <2>1, <2>4
    <3> QED
      BY <2>2, <2>3, <3>1, <3>2, FollowConcat
  <2> QED
    BY <2>1, <2>2, <2>5 DEF Follow
<1> QED
  BY <1>1, InductiveHeights, PTL

-----------------------------------------------------------------------------
(* Layer 3: where the blocks come from *)

\* The blocks of the daemon's chain are Known.
LEMMA AncKnown ==
    ASSUME TypeInv, NEW n \in 0 .. Height(daemonTip)
    PROVE  Known(Anc(daemonTip, n))
<1>1. /\ daemonTip \in Blocks /\ Anc(daemonTip, n) \in Blocks
      /\ Height(Anc(daemonTip, n)) = n /\ Height(daemonTip) \in Nat
  BY Typed, AncFacts
<1> QED
  BY <1>1, PrefixIsAncestor DEF Known

\* So are the parents of such blocks.
LEMMA ParentKnown ==
    ASSUME TypeInv, NEW b \in Blocks, b # Genesis, Known(b)
    PROVE  Known(Parent(b))
<1>1. /\ Height(b) \in Nat /\ Height(b) - 1 \in 0 .. Height(b)
      /\ Parent(b) = Anc(b, Height(b) - 1) /\ Parent(b) \in Blocks
      /\ Height(Parent(b)) = Height(b) - 1
      /\ daemonTip \in Blocks /\ Height(daemonTip) \in Nat
  BY ParentFacts, BlockFacts, Typed
<1>2. Height(Parent(b)) <= Height(daemonTip)
  BY <1>1 DEF Known
<1>3. ASSUME OnBranch PROVE IsPrefix(Parent(b), daemonTip)
  <2>1. b = Anc(daemonTip, Height(b)) /\ Height(b) \in 0 .. Height(daemonTip)
    BY <1>1, <1>3, PrefixIsAncestor DEF Known
  <2>2. Anc(b, Height(b) - 1) = Anc(daemonTip, Height(b) - 1)
    BY <1>1, <2>1, AncFacts
  <2> QED
    BY <1>1, <1>2, <2>2, PrefixIsAncestor
<1> QED
  BY <1>2, <1>3 DEF Known

(* A chain that grows, or that the daemon leaves for a higher one. *)
LEMMA KnownStays ==
    ASSUME TypeInv, DaemonGrows \/ DaemonSwitches, NEW b \in Blocks, Known(b)
    PROVE  /\ Height(b) <= Height(daemonTip')
           /\ OnBranch' => IsPrefix(b, daemonTip')
<1>1. /\ daemonTip \in Blocks /\ daemonTip' \in Blocks
      /\ Height(b) \in Nat /\ Height(daemonTip) \in Nat /\ Height(daemonTip') \in Nat
      /\ Height(daemonTip) < Height(daemonTip')
      /\ DaemonGrows => IsPrefix(daemonTip, daemonTip')
  BY Typed, DaemonMoves, BlockFacts
<1>2. Height(b) <= Height(daemonTip')
  BY <1>1 DEF Known
<1>3. ASSUME OnBranch' PROVE IsPrefix(b, daemonTip')
  <2>1. DaemonGrows /\ OnBranch
    BY <1>3 DEF DaemonGrows, DaemonSwitches, OnBranch, rangeVars
  <2>2. /\ b = Anc(daemonTip, Height(b)) /\ Height(b) \in 0 .. Height(daemonTip)
        /\ daemonTip = Anc(daemonTip', Height(daemonTip))
        /\ Height(daemonTip) \in 0 .. Height(daemonTip')
    BY <1>1, <2>1, PrefixIsAncestor DEF Known
  <2>3. b = Anc(daemonTip', Height(b))
    BY <1>1, <2>2, AncFacts
  <2> QED
    BY <1>1, <1>2, <2>3, PrefixIsAncestor
<1> QED
  BY <1>2, <1>3

\* The third layer holds initially.
LEMMA BranchesInit == Init => Branches
<1> SUFFICES ASSUME Init PROVE Branches
  OBVIOUS
<1>1. /\ daemonTip \in Blocks /\ tip \in Blocks /\ before = tip
      /\ tip \in Prefixes(daemonTip)
      /\ queue = <<>> /\ blocks = <<>> /\ hashes = <<>> /\ reorg = NoReorg
  BY TreeAssumption DEF Init
<1>2. PICK n \in 0 .. Height(daemonTip) : tip = Anc(daemonTip, n)
  BY <1>1 DEF Prefixes, Anc, Height
<1>3. /\ Height(tip) = n /\ Height(daemonTip) \in Nat /\ Height(tip) <= Height(daemonTip)
  BY <1>1, <1>2, AncFacts, BlockFacts
<1>4. Known(tip)
  BY <1>1, <1>2, <1>3, PrefixIsAncestor DEF Known
<1>5. AllKnown(<<>>)
  BY EmptySeq DEF AllKnown
<1> QED
  BY <1>1, <1>3, <1>4, <1>5 DEF Branches, FromDaemon, Cause, Natural, NoReorg

(* A block that does not connect: the tip and the block's parent are two blocks
   of one height, and one of them is not on the daemon's chain. *)
LEMMA Mismatch ==
    ASSUME TypeInv, Contiguous, FromDaemon, AdvanceMismatch
    PROVE  switched /\ Rival(tip)
<1> DEFINE b == Head(queue)
<1>1. /\ queue # <<>> /\ queue \in Seq(Blocks) /\ Parent(b) # tip /\ bp = "advance"
  BY Typed DEF AdvanceMismatch
<1>2. b = queue[1] /\ 1 \in 1 .. Len(queue) /\ b \in Blocks
  BY <1>1, EmptySeq, HeadTailProperties
<1>3. Height(b) = Height(tip) + 1 /\ Known(b) /\ Known(tip)
  BY <1>1, <1>2 DEF Contiguous, Follow, FromDaemon, AllKnown
<1>4. /\ tip \in Blocks /\ daemonTip \in Blocks /\ Height(tip) \in Nat
      /\ Height(daemonTip) \in Nat
  BY Typed
<1> HIDE DEF b
<1>5. b # Genesis
  BY <1>2, <1>3, <1>4, BlockFacts
<1>6. /\ Parent(b) \in Blocks /\ Height(Parent(b)) = Height(tip)
      /\ Parent(b) = Anc(b, Height(tip))
  BY <1>2, <1>3, <1>4, <1>5, ParentFacts
<1>7. Rival(tip)
  BY <1>1, <1>6 DEF Rival, b
<1>8. switched
  <2>1. SUFFICES ASSUME ~switched PROVE FALSE
    BY DEF TypeInv, TypeOK
  <2>2. OnBranch
    BY <1>1, <2>1 DEF OnBranch
  <2>3. /\ tip = Anc(daemonTip, Height(tip)) /\ b = Anc(daemonTip, Height(b))
        /\ Height(b) \in 0 .. Height(daemonTip) /\ Height(tip) \in 0 .. Height(b)
    BY <1>2, <1>3, <1>4, <2>2, PrefixIsAncestor DEF Known
  <2>4. Anc(b, Height(tip)) = Anc(daemonTip, Height(tip))
    BY <1>4, <2>3, AncFacts
  <2> QED
    BY <1>1, <1>6, <2>3, <2>4 DEF b
<1> QED
  BY <1>7, <1>8

(* Only the end of a natural reorg brings the index back on the daemon's branch. *)
LEMMA StaysOff ==
    ASSUME TypeInv, [Next]_vars, ~ResetAcquire, OnBranch' PROVE OnBranch
<1>1. CASE Prefetch
  BY <1>1 DEF Prefetch, PfWake, PfHeight, PfAcquire, PfHashes, PfRaw, PfSlept, bpOwn,
     rangeVars, OnBranch
<1>2. CASE StartReorg
  <2>1. bp = "locked" /\ count' = reorg /\ bp' \in {"calc", "backup"}
        /\ switched' = (switched /\ reorg # Natural)
    BY <1>2 DEF StartReorg
  <2> QED
    BY <2>1 DEF OnBranch
<1>3. CASE BpWake \/ TakeBlocks \/ AdvanceOne \/ AdvanceMismatch \/ AdvanceDone
            \/ CalcStep \/ BackupOne \/ BackupDone \/ ResetDone
  <2>1. /\ UNCHANGED <<count, switched>>
        /\ \/ bp \in {"wait", "locked", "advance", "reset"}
           \/ bp' \in {"calc", "backup", "acquire", "dead"}
    BY <1>3 DEF BpWake, TakeBlocks, AdvanceOne, AdvanceMismatch, AdvanceDone, CalcStep,
       BackupOne, BackupDone, ResetDone, rangeVars
  <2> QED
    BY <2>1 DEF OnBranch
<1>4. CASE \/ \E n \in ForcedCounts : force_chain_reorg(n)
           \/ DaemonGrows \/ DaemonSwitches \/ UNCHANGED vars
  BY <1>4 DEF force_chain_reorg, DaemonGrows, DaemonSwitches, vars, rangeVars, OnBranch
<1> QED
  BY <1>1, <1>2, <1>3, <1>4 DEF Next, ProcessBlocks

(* When a natural reorg has dropped what was prefetched, its tip is on the branch of a
   daemon that has not switched meanwhile. *)
LEMMA FromDaemonReset ==
    ASSUME TypeInv, FromDaemon, Undoing, ResetAcquire PROVE FromDaemon'
<1>1. /\ UNCHANGED <<tip, queue, hashes, before, daemonTip, switched, count>>
      /\ blocks' = <<>> /\ bp = "acquire" /\ ~semaphore
  BY DEF ResetAcquire, pfVars, rangeVars
<1>2. queue = <<>> /\ hashes = <<>>
  BY <1>1 DEF TypeInv, Control
<1>3. AllKnown(<<>>)'
  BY EmptySeq DEF AllKnown
<1>4. Known(tip)'
  <2>1. SUFFICES ASSUME ~switched PROVE IsPrefix(tip, daemonTip)
    BY <1>1 DEF FromDaemon, Known, OnBranch
  <2>2. CASE count = Natural
    <3>1. /\ start - 1 \in 1 .. Height(before) - 1 /\ Shared(start - 1)
          /\ Height(tip) \in start - 1 .. Height(before)
          /\ tip = Anc(before, Height(tip)) /\ Height(tip) < start
      BY <1>1, <2>1, <2>2 DEF Undoing
    <3>2. /\ tip \in Blocks /\ daemonTip \in Blocks /\ Height(tip) \in Nat
          /\ Height(before) \in Nat /\ start \in Int
          /\ Height(tip) <= Height(daemonTip)
      BY Typed DEF FromDaemon, Known, TypeInv, TypeOK
    <3>3. Height(tip) = start - 1
      BY <3>1, <3>2
    <3> QED
      BY <3>1, <3>2, <3>3, PrefixIsAncestor DEF Shared
  <2>3. CASE count # Natural
    BY <1>1, <2>1, <2>3 DEF FromDaemon, Known, OnBranch
  <2> QED
    BY <2>2, <2>3
<1> QED
  BY <1>1, <1>2, <1>3, <1>4 DEF FromDaemon

\* Every step keeps what is held among what the daemon had.
LEMMA FromDaemonStep ==
    TypeInv /\ FromDaemon /\ Undoing /\ [Next]_vars => FromDaemon'
<1> SUFFICES ASSUME TypeInv, FromDaemon, [Next]_vars, ~ResetAcquire PROVE FromDaemon'
  BY FromDaemonReset
<1>0. OnBranch' => OnBranch
  BY StaysOff
<1>a. ASSUME UNCHANGED <<tip, queue, blocks, hashes, before, daemonTip>>
      PROVE  FromDaemon'
  BY <1>0, <1>a DEF FromDaemon, Known, AllKnown
<1>b. AllKnown(<<>>)'
  BY EmptySeq DEF AllKnown
<1>c. /\ tip \in Blocks /\ Height(daemonTip) \in Nat
      /\ queue \in Seq(Blocks) /\ blocks \in Seq(Blocks) /\ hashes \in Seq(Blocks)
      /\ Len(queue) \in Nat /\ Len(blocks) \in Nat /\ Len(hashes) \in Nat
  BY Typed
<1>1. CASE PfWake \/ PfHeight \/ PfAcquire \/ PfSlept
  BY <1>1, <1>a
  DEF PfWake, PfHeight, PfAcquire, PfSlept, cacheVars, bpOwn, rangeVars
<1>2. CASE PfHashes
  <2>1. UNCHANGED <<tip, queue, blocks, before, daemonTip>>
    BY <1>2 DEF PfHashes, cacheVars, bpOwn, rangeVars
  <2>2. ASSUME NEW i \in 1 .. Len(hashes') PROVE Known(hashes'[i])
    BY <1>2, Answered, AncKnown
  <2> QED
    BY <1>0, <2>1, <2>2 DEF FromDaemon, Known, AllKnown
<1>3. CASE PfRaw
  <2>1. /\ UNCHANGED <<tip, queue, before, daemonTip>> /\ hashes' = <<>>
        /\ blocks' = blocks \o hashes
    BY <1>3 DEF PfRaw, bpOwn, rangeVars
  <2>2. ASSUME NEW i \in 1 .. Len(blocks') PROVE Known(blocks'[i])
    <3>1. /\ Len(blocks') = Len(blocks) + Len(hashes)
          /\ blocks'[i] = IF i <= Len(blocks) THEN blocks[i]
                                              ELSE hashes[i - Len(blocks)]
      BY <1>c, <2>1, ConcatProperties
    <3>2. CASE i <= Len(blocks)
      BY <1>c, <3>1, <3>2 DEF FromDaemon, AllKnown
    <3>3. CASE i > Len(blocks)
      <4>1. i - Len(blocks) \in 1 .. Len(hashes)
        BY <1>c, <3>1, <3>3
      <4>2. Known(hashes[i - Len(blocks)])
        BY <4>1 DEF FromDaemon, AllKnown
      <4> QED
        BY <1>c, <3>1, <3>3, <4>2
    <3> QED
      BY <1>c, <3>1, <3>2, <3>3
  <2> QED
    BY <1>0, <1>b, <2>1, <2>2 DEF FromDaemon, Known, AllKnown
<1>4. CASE TakeBlocks
  <2>1. /\ UNCHANGED <<tip, hashes, before, daemonTip>> /\ queue' = blocks
        /\ blocks' = <<>>
    BY <1>4 DEF TakeBlocks, pfVars, rangeVars
  <2> QED
    BY <1>0, <1>b, <2>1 DEF FromDaemon, Known, AllKnown
<1>5. CASE AdvanceOne
  <2>1. /\ UNCHANGED <<hashes, blocks, before, daemonTip>>
        /\ queue # <<>> /\ tip' = Head(queue) /\ queue' = Tail(queue)
    BY <1>5 DEF AdvanceOne, pfVars, cacheVars, rangeVars
  <2>2. /\ Head(queue) = queue[1] /\ Len(queue) >= 1
        /\ Len(Tail(queue)) = Len(queue) - 1
        /\ \A i \in 1 .. Len(Tail(queue)) : Tail(queue)[i] = queue[i + 1]
    BY <1>c, <2>1, HeadTailProperties, EmptySeq
  <2>3. Known(Head(queue))
    BY <1>c, <2>2 DEF FromDaemon, AllKnown
  <2>4. AllKnown(Tail(queue))
    BY <1>c, <2>2 DEF FromDaemon, AllKnown
  <2> QED
    BY <1>0, <2>1, <2>3, <2>4 DEF FromDaemon, Known, AllKnown
<1>6. CASE AdvanceMismatch
  <2>1. /\ UNCHANGED <<tip, hashes, blocks, before, daemonTip>>
        /\ queue' = <<>>
    BY <1>6 DEF AdvanceMismatch, pfVars, cacheVars, rangeVars
  <2> QED
    BY <1>0, <1>b, <2>1 DEF FromDaemon, Known, AllKnown
<1>7. CASE BpWake \/ AdvanceDone \/ CalcStep \/ BackupDone \/ ResetDone
  BY <1>7, <1>a
  DEF BpWake, AdvanceDone, CalcStep, BackupDone, ResetDone, pfVars,
      cacheVars, rangeVars
<1>8. CASE StartReorg
  <2>1. /\ UNCHANGED <<tip, queue, hashes, blocks, daemonTip>>
        /\ before' = tip
    BY <1>8 DEF StartReorg, pfVars, cacheVars
  <2> QED
    BY <1>0, <2>1 DEF FromDaemon, Known, AllKnown
<1>9. CASE BackupOne
  <2>1. /\ UNCHANGED <<queue, hashes, blocks, before, daemonTip>>
        /\ tip' = tip \/ (tip # Genesis /\ tip' = Parent(tip))
    BY <1>9 DEF BackupOne, pfVars, cacheVars, rangeVars
  <2>2. tip # Genesis => Known(Parent(tip))
    BY <1>c, ParentKnown DEF FromDaemon
  <2> QED
    BY <1>0, <2>1, <2>2 DEF FromDaemon, Known, AllKnown
<1>10. CASE \E n \in ForcedCounts : force_chain_reorg(n)
  BY <1>10, <1>a DEF force_chain_reorg, pfVars, cacheVars, rangeVars
<1>11. CASE DaemonGrows \/ DaemonSwitches
  <2>1. UNCHANGED <<tip, queue, hashes, blocks, before>>
    BY <1>11 DEF DaemonGrows, DaemonSwitches, pfVars, cacheVars, rangeVars
  <2>2. \A b \in Blocks : Known(b) => /\ Height(b) <= Height(daemonTip')
                                      /\ OnBranch' => IsPrefix(b, daemonTip')
    BY <1>11, KnownStays
  <2>3. Height(before) <= Height(daemonTip')
    BY <1>11, Typed, DaemonMoves DEF FromDaemon
  <2>4. Known(tip)'
    BY <1>c, <2>1, <2>2 DEF FromDaemon, Known
  <2>5. AllKnown(queue)' /\ AllKnown(blocks)' /\ AllKnown(hashes)'
    BY <1>c, <2>1, <2>2, Typed DEF FromDaemon, AllKnown, Known
  <2> QED
    BY <2>1, <2>3, <2>4, <2>5 DEF FromDaemon
<1>12. CASE UNCHANGED vars
  BY <1>12, <1>a DEF vars, pfVars, cacheVars, rangeVars
<1> QED
  BY <1>1, <1>2, <1>3, <1>4, <1>5, <1>6, <1>7, <1>8, <1>9, <1>10, <1>11,
     <1>12
  DEF Next, Prefetch, ProcessBlocks

\* Every step keeps a reorg's cause: a block of another branch, or the operator.
LEMMA CauseStep ==
    TypeInv /\ Contiguous /\ Branches /\ [Next]_vars => Cause'
<1> SUFFICES ASSUME TypeInv, Contiguous, FromDaemon, Cause, [Next]_vars PROVE Cause'
  BY DEF Branches
<1>a. ASSUME UNCHANGED <<tip, reorg>>,
             \/ (switched => switched') /\ bp' = bp
             \/ (switched => switched') /\ {bp, bp'} \subseteq {"wait", "locked"}
             \/ bp' \in Searching
      PROVE  Cause'
  BY <1>a DEF Cause, Rival, Searching
<1>b. ASSUME reorg' # Natural PROVE Cause'
  BY <1>b DEF Cause
<1>1. CASE Prefetch
  <2>1. UNCHANGED <<tip, reorg, bp, switched>>
    BY <1>1 DEF Prefetch, PfWake, PfHeight, PfAcquire, PfHashes, PfRaw,
       PfSlept, bpOwn
  <2> QED
    BY <1>a, <2>1
<1>2. CASE BpWake
  BY <1>2, <1>a DEF BpWake
<1>3. CASE TakeBlocks
  BY <1>3, <1>b DEF TakeBlocks, Natural, NoReorg
<1>4. CASE AdvanceOne \/ AdvanceDone
  <2>1. reorg' = reorg /\ bp = "advance"
    BY <1>4 DEF AdvanceOne, AdvanceDone
  <2> QED
    BY <1>b, <2>1 DEF Cause, Searching
<1>5. CASE AdvanceMismatch
  <2>1. switched /\ Rival(tip)
    BY <1>5, Mismatch
  <2>2. UNCHANGED <<tip, switched>> /\ bp' = "wait"
    BY <1>5 DEF AdvanceMismatch
  <2> QED
    BY <2>1, <2>2 DEF Cause, Rival
<1>6. CASE StartReorg
  BY <1>6, <1>a DEF StartReorg, Searching
<1>7. CASE CalcStep \/ BackupDone \/ ResetAcquire
  BY <1>7, <1>a DEF CalcStep, BackupDone, ResetAcquire, Searching
<1>8. CASE BackupOne
  <2>1. UNCHANGED <<reorg, switched>> /\ bp' \in Searching \ {"wait", "locked"}
    BY <1>8 DEF BackupOne, Searching
  <2> QED
    BY <2>1 DEF Cause, Searching
<1>9. CASE ResetDone
  BY <1>9, <1>b DEF ResetDone, Natural, NoReorg
<1>10. CASE \E n \in ForcedCounts : force_chain_reorg(n)
  BY <1>10, <1>b, BoundsAssumption DEF force_chain_reorg, Natural
<1>11. CASE DaemonGrows \/ DaemonSwitches
  BY <1>11, <1>a DEF DaemonGrows, DaemonSwitches
<1>12. CASE UNCHANGED vars
  BY <1>12, <1>a DEF vars
<1> QED
  BY <1>1, <1>2, <1>3, <1>4, <1>5, <1>6, <1>7, <1>8, <1>9, <1>10, <1>11, <1>12
  DEF Next, ProcessBlocks

\* Every step keeps the third layer.
LEMMA BranchesStep ==
    TypeInv /\ Contiguous /\ Branches /\ Undoing /\ [Next]_vars => Branches'
  BY FromDaemonStep, CauseStep DEF Branches

-----------------------------------------------------------------------------
(* Layer 4: the search for the fork *)

\* Two chains that differ at a height part below it.
LEMMA ForkBelow ==
    ASSUME NEW a \in Blocks, NEW b \in Blocks, Height(a) <= Height(b),
           NEW m \in 1 .. Height(a), Anc(a, m) # Anc(b, m)
    PROVE  Fork(a, b) \in Blocks /\ Height(Fork(a, b)) < m
<1> DEFINE differ == {h \in 1 .. Height(a) : Anc(a, h) # Anc(b, h)}
<1>1. Height(a) \in Nat /\ Height(b) \in Nat
  BY BlockFacts
<1>2. \E k \in differ : \A h \in differ : k <= h
  <2>1. differ \in SUBSET Nat /\ differ # {}
    BY <1>1
  <2> HIDE DEF differ
  <2> QED
    BY <2>1, LeastElement
<1>3. PICK k \in differ : \A h \in differ : k <= h
  BY <1>2
<1>4. /\ k \in 1 .. Height(a) /\ Anc(a, k) # Anc(b, k) /\ k <= m
      /\ k - 1 \in 0 .. Height(a) /\ k - 1 <= Height(b)
      /\ k - 1 + 1 = k
  BY <1>1, <1>3
<1>5. Anc(a, k - 1) = Anc(b, k - 1)
  <2>1. CASE k = 1
    <3>1. 0 \in 0 .. Height(a) /\ 0 \in 0 .. Height(b)
      BY <1>1
    <3>2. Anc(a, 0) = Genesis /\ Anc(b, 0) = Genesis
      BY <3>1, AncFacts, BlockFacts
    <3> QED
      BY <2>1, <3>2
  <2>2. CASE k # 1
    <3>1. k - 1 \in 1 .. Height(a) /\ ~(k <= k - 1)
      BY <1>1, <1>4, <2>2
    <3> QED
      BY <1>3, <3>1
  <2> QED
    BY <2>1, <2>2
<1>6. Fork(a, b) = Anc(a, k - 1)
  BY <1>4, <1>5, ForkIs
<1>7. Fork(a, b) \in Blocks /\ Height(Fork(a, b)) = k - 1
  BY <1>4, <1>6, AncFacts
<1> QED
  BY <1>4, <1>7

(* With another block of its height on a branch that leaves it high enough, a
   block is above height 1. *)
LEMMA RivalIsHigh ==
    ASSUME ForksAreHigh, NEW b \in Blocks, Rival(b)
    PROVE  Height(b) >= 2
<1>1. PICK c \in Blocks : Height(c) = Height(b) /\ c # b
  BY DEF Rival
<1>2. /\ Height(b) \in Nat /\ Height(b) # 0
      /\ Anc(b, Height(b)) = b /\ Anc(c, Height(b)) = c
  BY <1>1, BlockFacts
<1>3. SUFFICES ASSUME Height(b) = 1 PROVE FALSE
  BY <1>2
<1>4. Fork(b, c) \in Blocks /\ Height(Fork(b, c)) < 1
  <2>1. 1 \in 1 .. Height(b) /\ Height(b) <= Height(c) /\ Anc(b, 1) # Anc(c, 1)
    BY <1>1, <1>2, <1>3
  <2> QED
    BY <2>1, ForkBelow
<1>5. Height(b) <= 2 * Height(Fork(b, c))
  BY <1>1, <1>2 DEF ForksAreHigh
<1>6. Height(Fork(b, c)) \in Nat
  BY <1>4, BlockFacts
<1> QED
  BY <1>3, <1>4, <1>5, <1>6

(* Where a reorg that undoes the blocks above height f ends. *)
LEMMA TargetIs ==
    ASSUME NEW a \in Blocks, NEW b \in Blocks, Height(a) <= Height(b),
           NEW f \in 0 .. Height(a) - 1, Anc(a, f) = Anc(b, f),
           f + 1 < Height(a) => Anc(a, f + 1) # Anc(b, f + 1)
    PROVE  Anc(a, f) = IF IsPrefix(a, b) THEN Parent(a) ELSE Fork(a, b)
<1>1. /\ Height(a) \in Nat /\ Height(b) \in Nat /\ Anc(a, Height(a)) = a
      /\ f \in 0 .. Height(a) /\ f + 1 \in 0 .. Height(a) /\ f <= Height(b)
  BY BlockFacts
<1>2. CASE IsPrefix(a, b)
  <2>1. a = Anc(b, Height(a)) /\ Height(a) \in 0 .. Height(b)
    BY <1>1, <1>2, PrefixIsAncestor
  <2>2. Anc(a, f + 1) = Anc(b, f + 1)
    BY <1>1, <2>1, AncFacts
  <2>3. f = Height(a) - 1
    BY <1>1, <2>2
  <2>4. a # Genesis
    BY <1>1, BlockFacts
  <2> QED
    BY <1>2, <2>3, <2>4, ParentFacts
<1>3. CASE ~IsPrefix(a, b)
  <2>1. Anc(a, f + 1) # Anc(b, f + 1)
    <3>1. SUFFICES ASSUME Anc(a, f + 1) = Anc(b, f + 1) PROVE FALSE
      OBVIOUS
    <3>2. f + 1 = Height(a)
      BY <1>1, <3>1
    <3> QED
      BY <1>1, <1>3, <3>1, <3>2, PrefixIsAncestor
  <2>2. Fork(a, b) = Anc(a, f)
    BY <1>1, <2>1, ForkIs
  <2> QED
    BY <1>3, <2>2
<1> QED
  BY <1>2, <1>3

\* At the start no search is under way.
LEMMA SearchInit == Init => Search /\ Undoing
  BY DEF Init, Search, Undoing, Natural, NoReorg

(* The search begins at the height below the tip's. *)
LEMMA SearchStarts ==
    ASSUME TypeInv, Branches, StartReorg
    PROVE  Search' /\ Undoing'
<1>1. /\ UNCHANGED <<tip, daemonTip>> /\ bp = "locked" /\ count' = reorg
      /\ before' = tip
      /\ IF reorg = Natural
         THEN bp' = "calc" /\ start' = Height(tip) - 1 /\ window' = 1
         ELSE bp' = "backup"
  BY DEF StartReorg
<1>2. CASE reorg = Natural
  <2>1. Rival(tip)
    BY <1>1, <1>2 DEF Branches, Cause
  <2>2. Height(tip) \in Nat /\ (ForksAreHigh => Height(tip) >= 2)
    BY <2>1, RivalIsHigh, Typed
  <2>3. Rival(before)'
    BY <1>1, <2>1 DEF Rival
  <2>4. Search'
    BY <1>1, <1>2, <2>2, <2>3 DEF Search
  <2>5. Undoing'
    BY <1>1, <1>2 DEF Undoing
  <2> QED
    BY <2>4, <2>5
<1>3. CASE reorg # Natural
  BY <1>1, <1>3 DEF Search, Undoing
<1> QED
  BY <1>2, <1>3

(* One turn of the search, by the daemon that stays on its branch. *)
LEMMA SearchTurns ==
    ASSUME TypeInv, Branches, Search, CalcStep
    PROVE  Search' /\ Undoing'
<1>1. /\ UNCHANGED <<tip, daemonTip, before, count, switched>> /\ bp = "calc"
      /\ tip = before /\ Rival(before) /\ count = Natural
      /\ bp' \in {"calc", "backup"}
  BY DEF CalcStep, Search, TypeInv, Control
<1>2. Rival(before)'
  BY <1>1 DEF Rival
<1>3. CASE switched
  BY <1>1, <1>2, <1>3 DEF Search, Undoing
<1>4. CASE ~switched /\ start <= 0
  <2>1. bp' = "backup" /\ UNCHANGED <<start, window>>
    BY <1>4 DEF CalcStep
  <2>2. ~ForksAreHigh
    BY <1>1, <1>4 DEF Search, TypeInv, TypeOK
  <2> QED
    BY <1>4, <2>1, <2>2 DEF Search, Undoing, TypeInv, TypeOK
<1>5. CASE ~switched /\ ~(start <= 0)
  <2> DEFINE H == Height(before)
             ours == Hashes(before, start, window)
             theirs == Hashes(daemonTip, start, window)
             n == DiffPos(ours, theirs)
  <2>1. /\ start >= 1 /\ window >= 1 /\ start + window <= H
        /\ start + window < H => ~Shared(start + window)
        /\ ForksAreHigh => start + 2 * window = H + 1
    BY <1>1, <1>5 DEF Search, TypeInv, TypeOK
  <2>2. /\ start \in Nat /\ window \in Nat /\ H \in Nat
        /\ before \in Blocks /\ daemonTip \in Blocks
        /\ Height(daemonTip) \in Nat /\ H <= Height(daemonTip)
    <3>1. start \in Int /\ window \in Nat
      BY DEF TypeInv, TypeOK
    <3> QED
      BY <2>1, <3>1, Typed DEF Branches, FromDaemon
  <2> HIDE DEF H
  <2>3. start + window - 1 <= H /\ start + window - 1 <= Height(daemonTip)
    BY <2>1, <2>2
  <2>4. /\ DOMAIN ours = 1 .. window /\ Len(ours) = window
        /\ \A i \in 1 .. window : /\ ours[i] = Anc(before, start + i - 1)
                                  /\ theirs[i] = Anc(daemonTip, start + i - 1)
    BY <2>1, <2>2, <2>3, HashesFacts DEF H
  <2>5. IF n > 0 THEN bp' = "backup" /\ start' = start + n
        ELSE /\ window' = Least(2 * window, start)
             /\ start' = start - window' /\ bp' = bp
    BY <1>1, <1>5 DEF CalcStep
  <2> HIDE DEF ours, theirs
  <2>6. /\ n \in 0 .. window
        /\ \A i \in 1 .. n : ours[i] = theirs[i]
        /\ n < window => ours[n + 1] # theirs[n + 1]
    <3>1. DOMAIN ours = 1 .. window /\ Len(ours) = window /\ window \in Nat
      BY <2>2, <2>4
    <3> QED
      BY <3>1, DiffPosFacts
  <2> HIDE DEF n
  <2>7. CASE n = 0
    <3>1. ~Shared(start)
      <4>1. 0 + 1 = 1 /\ 1 \in 1 .. window /\ start + 1 - 1 = start /\ n < window
        BY <2>1, <2>2, <2>7
      <4> QED
        BY <2>4, <2>6, <2>7, <4>1 DEF Shared
    <3>2. start \in 1 .. H
      BY <2>1, <2>2
    <3>3. ASSUME ForksAreHigh PROVE 2 * window < start
      <4>1. /\ Fork(before, daemonTip) \in Blocks
            /\ Height(Fork(before, daemonTip)) < start
        BY <2>2, <3>1, <3>2, ForkBelow DEF Shared, H
      <4>2. H <= 2 * Height(Fork(before, daemonTip))
        BY <2>2, <3>3 DEF ForksAreHigh, H
      <4>3. Height(Fork(before, daemonTip)) \in Int
        BY <4>1, BlockFacts
      <4> QED
        BY <2>1, <2>2, <3>3, <4>1, <4>2, <4>3
    <3>4. /\ window' \in 1 .. start /\ start' = start - window' /\ bp' = "calc"
          /\ 2 * window < start => window' = 2 * window
      BY <1>1, <2>1, <2>2, <2>5, <2>7 DEF Least
    <3>5. /\ window' >= 1 /\ start' + window' = start /\ start < H
          /\ ForksAreHigh => start' >= 1 /\ start' + 2 * window' = H + 1
      <4>1. window' \in Int /\ start' \in Int /\ window' >= 1 /\ start' + window' = start
        <5>1. start \in Int /\ window' \in Int /\ window' >= 1
          BY <2>2, <3>4
        <5>2. start' = start - window'
          BY <3>4
        <5>3. ASSUME NEW a \in Int, NEW b \in Int, NEW c, c = a - b PROVE c \in Int /\ c + b = a
          BY <5>3
        <5> QED
          BY <5>1, <5>2, <5>3
      <4>2. start < H
        BY <2>1, <2>2
      <4>3. ASSUME ForksAreHigh PROVE start' >= 1 /\ start' + 2 * window' = H + 1
        BY <2>1, <2>2, <3>3, <3>4, <4>3
      <4> QED
        BY <4>1, <4>2, <4>3
    <3>6. Search'
      <4>1. start' + window' \in 0 .. H
        BY <2>1, <2>2, <3>5
      <4>2. ~Shared(start + window)'
        BY <1>1, <3>1, <3>5 DEF Shared
      <4> QED
        BY <1>1, <1>2, <3>4, <3>5, <4>1, <4>2 DEF Search, H
    <3>7. Undoing'
      BY <3>4 DEF Undoing
    <3> QED
      BY <3>6, <3>7
  <2>8. CASE n > 0
    <3>1. bp' = "backup" /\ start' = start + n
      BY <2>5, <2>8
    <3>2. start' - 1 \in 1 .. H - 1
      BY <2>1, <2>2, <2>6, <2>8, <3>1
    <3>3. Shared(start' - 1)
      <4>1. n \in 1 .. n /\ n \in 1 .. window /\ start + n - 1 = start' - 1
        BY <2>2, <2>6, <2>8, <3>1
      <4> QED
        BY <2>4, <2>6, <4>1 DEF Shared
    <3>4. start' < H => ~Shared(start')
      <4>1. CASE n < window
        <5>1. n + 1 \in 1 .. window /\ start + (n + 1) - 1 = start'
          BY <2>2, <2>6, <3>1, <4>1
        <5> QED
          BY <2>4, <2>6, <4>1, <5>1 DEF Shared
      <4>2. CASE n = window
        BY <2>1, <3>1, <4>2
      <4> QED
        BY <2>2, <2>6, <4>1, <4>2
    <3>5. H \in start' - 1 .. H
      BY <2>2, <3>2
    <3>6. before = Anc(before, H)
      BY <2>2, BlockFacts DEF H
    <3>7. Search'
      BY <3>1 DEF Search
    <3>8. Undoing'
      BY <1>1, <3>1, <3>2, <3>3, <3>4, <3>5, <3>6 DEF Undoing, Shared, H
    <3> QED
      BY <3>7, <3>8
  <2> QED
    BY <2>2, <2>6, <2>7, <2>8
<1> QED
  BY <1>3, <1>4, <1>5

(* A block is undone. *)
LEMMA UndoingStep ==
    ASSUME TypeInv, Undoing, BackupOne PROVE Search' /\ Undoing'
<1>1. /\ UNCHANGED <<daemonTip, before, count, start, switched>> /\ bp = "backup"
      /\ Height(tip) >= start /\ bp' # "calc" /\ bp' # "acquire"
      /\ IF tip = Genesis THEN bp' = "dead" /\ UNCHANGED tip
                          ELSE tip' = Parent(tip) /\ UNCHANGED bp
  BY DEF BackupOne, rangeVars
<1>2. Search'
  BY <1>1 DEF Search
<1>3. CASE count = Natural /\ ~switched /\ start >= 1
  <2>1. /\ start - 1 \in 1 .. Height(before) - 1
        /\ Shared(start - 1) /\ (start < Height(before) => ~Shared(start))
        /\ Height(tip) \in start - 1 .. Height(before)
        /\ tip = Anc(before, Height(tip))
    BY <1>1, <1>3 DEF Undoing
  <2>2. /\ tip \in Blocks /\ before \in Blocks /\ Height(tip) \in Nat
        /\ Height(before) \in Nat /\ start \in Int
    BY Typed DEF TypeInv, TypeOK
  <2>3. tip # Genesis
    BY <1>1, <2>1, <2>2, BlockFacts
  <2>4. /\ tip' = Anc(tip, Height(tip) - 1) /\ Height(tip') = Height(tip) - 1
        /\ bp' = "backup"
    BY <1>1, <2>2, <2>3, ParentFacts
  <2>5. Anc(tip, Height(tip) - 1) = Anc(before, Height(tip) - 1)
    <3>1. Height(tip) \in 0 .. Height(before) /\ Height(tip) - 1 \in 0 .. Height(tip)
      BY <1>1, <2>1, <2>2
    <3> QED
      BY <2>1, <2>2, <3>1, AncFacts
  <2>6. Height(tip') \in start - 1 .. Height(before)
    BY <1>1, <2>1, <2>2, <2>4
  <2> QED
    BY <1>1, <1>2, <2>1, <2>4, <2>5, <2>6 DEF Undoing, Shared
<1>4. CASE count = Natural /\ ~switched /\ ~(start >= 1)
  BY <1>1, <1>2, <1>4 DEF Undoing
<1>5. CASE ~(count = Natural /\ ~switched)
  BY <1>1, <1>2, <1>5 DEF Undoing
<1> QED
  BY <1>3, <1>4, <1>5

(* The daemon's chain grows: what is shared stays shared. *)
LEMMA SearchUnderGrowth ==
    ASSUME TypeInv, Branches, Search, Undoing, DaemonGrows
    PROVE  Search' /\ Undoing'
<1>1. UNCHANGED <<bp, tip, before, count, start, window, switched>>
  BY DEF DaemonGrows, rangeVars
<1>2. /\ daemonTip \in Blocks /\ daemonTip' \in Blocks /\ Height(daemonTip) \in Nat
      /\ Height(daemonTip') \in Nat /\ Height(daemonTip) < Height(daemonTip')
      /\ IsPrefix(daemonTip, daemonTip')
      /\ Height(before) \in Nat /\ Height(before) <= Height(daemonTip)
      /\ start \in Int /\ window \in Nat
  BY Typed, DaemonMoves DEF Branches, FromDaemon, TypeInv, TypeOK
<1>3. ASSUME NEW k \in 0 .. Height(before)
      PROVE  Anc(daemonTip', k) = Anc(daemonTip, k)
  <2>1. daemonTip = Anc(daemonTip', Height(daemonTip))
        /\ Height(daemonTip) \in 0 .. Height(daemonTip') /\ k \in 0 .. Height(daemonTip)
    BY <1>2, PrefixIsAncestor
  <2> QED
    BY <1>2, <2>1, AncFacts
<1>4. Search'
  <2>1. CASE bp = "calc" /\ ~switched
    <3>1. /\ window >= 1 /\ start + window \in 0 .. Height(before)
          /\ start + window < Height(before) => ~Shared(start + window)
          /\ ForksAreHigh => start >= 1 /\ start + 2 * window = Height(before) + 1
          /\ tip = before /\ Rival(before)
      BY <2>1 DEF Search
    <3>2. start + window < Height(before) => ~Shared(start + window)'
      BY <1>1, <1>3, <3>1 DEF Shared
    <3> QED
      BY <1>1, <3>1, <3>2 DEF Search, Rival
  <2>2. CASE ~(bp = "calc" /\ ~switched)
    BY <1>1, <2>2 DEF Search, Rival
  <2> QED
    BY <2>1, <2>2
<1>5. Undoing'
  <2>1. CASE count = Natural /\ ~switched /\ bp \in {"backup", "acquire"} /\ start >= 1
    <3>1. /\ start - 1 \in 1 .. Height(before) - 1
          /\ Shared(start - 1) /\ (start < Height(before) => ~Shared(start))
          /\ Height(tip) \in start - 1 .. Height(before)
          /\ tip = Anc(before, Height(tip))
          /\ bp = "acquire" => Height(tip) < start
      BY <2>1 DEF Undoing
    <3>2. start - 1 \in 0 .. Height(before) /\ start \in 0 .. Height(before)
      BY <1>2, <3>1
    <3>3. Shared(start - 1)' /\ (start < Height(before) => ~Shared(start)')
      BY <1>1, <1>3, <3>1, <3>2 DEF Shared
    <3> QED
      BY <1>1, <2>1, <3>1, <3>3 DEF Undoing
  <2>2. CASE ~(count = Natural /\ ~switched /\ bp \in {"backup", "acquire"} /\ start >= 1)
    BY <1>1, <2>2 DEF Undoing
  <2> QED
    BY <2>1, <2>2
<1> QED
  BY <1>4, <1>5

\* Every step keeps the windows adjacent and what is undone above the fork.
LEMMA SearchStep ==
    TypeInv /\ Branches /\ Search /\ Undoing /\ [Next]_vars => Search' /\ Undoing'
<1> SUFFICES ASSUME TypeInv, Branches, Search, Undoing, [Next]_vars
             PROVE  Search' /\ Undoing'
  OBVIOUS
<1>a. ASSUME UNCHANGED <<bp, tip, before, count, start, window, switched, daemonTip>>
      PROVE  Search' /\ Undoing'
  BY <1>a DEF Search, Undoing, Shared, Rival
<1>b. ASSUME bp' \in {"wait", "locked", "advance", "reset"}
      PROVE  Search' /\ Undoing'
  BY <1>b DEF Search, Undoing
<1>1. CASE Prefetch
  <2>1. UNCHANGED <<bp, tip, before, count, start, window, switched, daemonTip>>
    BY <1>1 DEF Prefetch, PfWake, PfHeight, PfAcquire, PfHashes, PfRaw, PfSlept,
       bpOwn, rangeVars
  <2> QED
    BY <1>a, <2>1
<1>2. CASE BpWake \/ TakeBlocks \/ AdvanceOne \/ AdvanceMismatch \/ AdvanceDone
              \/ ResetAcquire \/ ResetDone
  BY <1>2, <1>b DEF BpWake, TakeBlocks, AdvanceOne, AdvanceMismatch, AdvanceDone,
     ResetAcquire, ResetDone
<1>3. CASE BackupDone
  <2>1. /\ UNCHANGED <<tip, before, count, start, switched, daemonTip>>
        /\ bp = "backup" /\ Height(tip) < start /\ bp' = "acquire"
    BY <1>3 DEF BackupDone, rangeVars
  <2>2. start >= 1
    BY <2>1, Typed DEF TypeInv, TypeOK
  <2> QED
    BY <2>1, <2>2 DEF Search, Undoing, Shared
<1>4. CASE \E n \in ForcedCounts : force_chain_reorg(n)
  BY <1>4, <1>a DEF force_chain_reorg, rangeVars
<1>5. CASE DaemonSwitches
  <2>1. UNCHANGED <<bp, tip, before>> /\ switched' = TRUE
    BY <1>5 DEF DaemonSwitches, rangeVars
  <2> QED
    BY <2>1 DEF Search, Undoing, Rival
<1>6. CASE UNCHANGED vars
  BY <1>6, <1>a DEF vars, rangeVars
<1> QED
  BY <1>1, <1>2, <1>3, <1>4, <1>5, <1>6, SearchStarts, SearchTurns, UndoingStep,
     SearchUnderGrowth DEF Next, ProcessBlocks

\* The four layers hold in every state.
LEMMA Inductive == Spec => []IInv
<1>1. Init => IInv
  BY TypeInit, ContiguousInit, BranchesInit, SearchInit DEF IInv
<1>2. IInv /\ [Next]_vars => IInv'
  BY TypeStep, ContiguousStep, BranchesStep, SearchStep DEF IInv
<1> QED
  BY <1>1, <1>2, PTL DEF Spec

(* Every natural reorg has a cause of its own: the daemon has left its branch since the
   last one began.  Forced reorgs, requests answered late and blocks that an earlier reorg
   should have dropped never make a block fail to connect (_advance_blocks,
   _prefetch_blocks, reset_height). *)
THEOREM ReorgsHaveCause == Spec => []NoSpuriousReorg
<1>1. IInv => NoSpuriousReorg
  BY DEF IInv, Branches, Cause, NoSpuriousReorg
<1> QED
  BY <1>1, Inductive, PTL

(* A reorg of a daemon that keeps to its new branch ends exactly at the fork, or
   one block below a tip that is on that branch, and never undoes block 0
   (_calc_reorg_range, _backup_block), if forks are high. *)
THEOREM ReorgsAreExact ==
    ASSUME ForksAreHigh
    PROVE  Spec => []ReorgExact
<1>1. IInv => ReorgExact
  <2> SUFFICES ASSUME IInv, count = Natural, ~switched, bp \in {"acquire", "dead"}
               PROVE  /\ bp # "dead"
                      /\ tip = IF IsPrefix(before, daemonTip) THEN Parent(before)
                               ELSE Fork(before, daemonTip)
    BY DEF ReorgExact
  <2>1. /\ TypeInv /\ bp = "acquire"
        /\ start - 1 \in 1 .. Height(before) - 1
        /\ Shared(start - 1) /\ (start < Height(before) => ~Shared(start))
        /\ Height(tip) \in start - 1 .. Height(before)
        /\ tip = Anc(before, Height(tip)) /\ Height(tip) < start
    BY DEF IInv, Undoing
  <2>2. /\ before \in Blocks /\ daemonTip \in Blocks /\ Height(tip) \in Nat
        /\ Height(before) \in Nat /\ start \in Int
        /\ Height(before) <= Height(daemonTip)
    BY <2>1, Typed DEF IInv, Branches, FromDaemon, TypeInv, TypeOK
  <2>3. Height(tip) = start - 1 /\ start - 1 \in 0 .. Height(before) - 1
        /\ start - 1 + 1 = start
    BY <2>1, <2>2
  <2> QED
    BY <2>1, <2>2, <2>3, TargetIs DEF Shared
<1> QED
  BY <1>1, Inductive, PTL

=============================================================================
