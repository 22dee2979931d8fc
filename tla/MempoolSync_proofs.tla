------------------------ MODULE MempoolSync_proofs -------------------------
(***************************************************************************)
(* Proofs about MempoolSync: for every tree of blocks, every set of txs    *)
(* and of addresses, and any number of txs that reach the daemon.          *)
(***************************************************************************)
EXTENDS MempoolSync, NaturalSets, SequenceTheorems, TLAPS

-----------------------------------------------------------------------------
(* The inductive invariant, in four layers. *)

(* The refresh has passed its check of the heights. *)
Processing == mp \in {"fetch", "lookup", "accept", "report"}

(* Layer 1: what is on disk is a part of the chain of the tip, which is not
   ahead of what the prefetcher polled; a reorg stays above its fork. *)
BlockHeights == {Len(b) : b \in Blocks}
Positions ==
    /\ cached \in BlockHeights /\ (mp # "sleep" => height \in BlockHeights)
    /\ IsPrefix(dbTip, tip)
    /\ Len(tip) <= cached /\ cached <= Len(best)
    /\ bp = "backup" => /\ dbTip = tip /\ Len(tip) < cached
                        /\ IsPrefix(fork, tip) /\ Len(fork) < Len(tip)

(* Layer 2: the mempool's heights only rise, and when one of its reports waits
   for a height that the DB has left behind, that of the DB's height has come
   from the block processor: the next report of the mempool lets both out. *)
Refreshing == IF mp = "sleep" THEN {} ELSE {height}
Reports ==
    /\ \A m, n \in DOMAIN touchedMp : m = n
    /\ \A n \in DOMAIN touchedMp : n <= cached /\ (mp # "sleep" => n <= height)
    /\ height <= cached
    /\ \A n \in DOMAIN touchedMp \cup Refreshing :
          n < Len(dbTip) /\ Len(dbTip) = Len(best) => Len(dbTip) \in DOMAIN touchedBp
    /\ Processing => \A n \in DOMAIN touchedMp : n # height => height \in DOMAIN touchedBp

(* Layer 3: the daemon's mempool is acceptable on its chain, and the server's
   txs are among those that the daemon answered with at one moment. *)
PoolFits ==
    /\ NoConflict(pool)
    /\ pool \cap Confirmed(best) = {}
    /\ SpentIn(pool) \cap SpentIn(Confirmed(best)) = {}
OneAnswer ==
    /\ NoConflict(all) /\ NoConflict(txs)
    /\ Processing => txs \subseteq all
    /\ mp \in {"lookup", "accept"} => fetched \subseteq all
Disjoint == PoolFits /\ OneAnswer

(* Layer 4: a change of status that no report waiting is about has been told;
   what a block on top of the DB's changes is about to be reported, or was
   before its time, and then no report for a height the DB holds can go out
   before the DB holds the block. *)
Pending == missed \cup bpTouched \cup touched
           \cup Reported(touchedBp, DOMAIN touchedBp) \cup Reported(touchedMp, DOMAIN touchedMp)
Unflushed(x) == \E i \in (Len(dbTip) + 1) .. Len(tip) : x \in TouchedBy(Contents[tip[i]])
LastReported == IF bp = "advanced" THEN Len(tip) - 1 ELSE Len(tip)
Early ==
    /\ \A n \in DOMAIN touchedMp : n > Len(dbTip)
    /\ Processing => height > Len(dbTip)
Announced(x) ==
    \/ x \in bpTouched
    \/ x \in Reported(touchedBp, (Len(dbTip) + 1) .. LastReported)
    \/ x \in missed /\ Early
Informed ==
    /\ \A x \in HashXs : Unflushed(x) => Announced(x)
    /\ \A x \in HashXs \ Pending : told[x] = StatusOf(x, dbTip, txs)

TypeInv == TypeOK /\ Positions
IInv == TypeInv /\ Reports /\ Disjoint /\ Informed

-----------------------------------------------------------------------------
(* Chains *)

\* A chain is a sequence of names, no shorter than the first, with txs of Txs.
LEMMA ChainFacts ==
    ASSUME NEW b \in Blocks
    PROVE  /\ b \in Seq(Names) /\ Len(b) \in Nat /\ DOMAIN b = 1 .. Len(b)
           /\ Len(FirstTip) \in Nat /\ 1 <= Len(FirstTip) /\ Len(FirstTip) <= Len(b)
           /\ \A i \in 1 .. Len(b) : Contents[b[i]] \subseteq Txs
           /\ Confirmed(b) \subseteq Txs
<1>1. b \in Seq(Names) /\ FirstTip \in Seq(Names) /\ FirstTip # << >>
  BY TreeAssumption
<1>2. Len(b) \in Nat /\ DOMAIN b = 1 .. Len(b) /\ Len(FirstTip) \in Nat
  BY <1>1, LenProperties
<1>3. 1 <= Len(FirstTip)
  BY <1>1, <1>2, EmptySeq
<1>4. Len(FirstTip) <= Len(b)
  BY TreeAssumption DEF IsPrefix
<1>5. ASSUME NEW i \in 1 .. Len(b) PROVE Contents[b[i]] \subseteq Txs
  <2>1. b[i] \in Names
    BY <1>1, ElementOfSeq
  <2> QED
    BY <2>1, TreeAssumption
<1> QED
  BY <1>1, <1>2, <1>3, <1>4, <1>5 DEF Confirmed

\* What it is to be a prefix, name by name.
LEMMA PrefixFacts ==
    ASSUME NEW a \in Seq(Names), NEW b \in Seq(Names)
    PROVE  IsPrefix(a, b) <=> /\ Len(a) <= Len(b)
                              /\ \A i \in 1 .. Len(a) : a[i] = b[i]
<1>1. Len(a) \in Nat /\ Len(b) \in Nat
  BY LenProperties
<1>2. SubSeq(a, 1, Len(a)) = a
  BY SubSeqFull
<1>3. ASSUME Len(a) <= Len(b)
      PROVE  /\ SubSeq(b, 1, Len(a)) \in Seq(Names)
             /\ Len(SubSeq(b, 1, Len(a))) = Len(a)
             /\ \A i \in 1 .. Len(a) : SubSeq(b, 1, Len(a))[i] = b[i]
  <2>1. \A i \in 1 .. Len(a) : b[i] \in Names
    BY <1>1, <1>3, ElementOfSeq
  <2> QED
    BY <1>1, <1>3, <2>1, SubSeqProperties
<1>4. ASSUME Len(a) <= Len(b), \A i \in 1 .. Len(a) : a[i] = b[i]
      PROVE  a = SubSeq(b, 1, Len(a))
  <2>1. \A i \in 1 .. Len(a) : a[i] = SubSeq(b, 1, Len(a))[i]
    BY <1>3, <1>4
  <2> QED
    BY <1>3, <1>4, <2>1, SeqEqual
<1> QED
  BY <1>2, <1>3, <1>4 DEF IsPrefix

\* The first n names of a chain.
LEMMA PartFacts ==
    ASSUME NEW b \in Seq(Names), NEW n \in 0 .. Len(b)
    PROVE  /\ SubSeq(b, 1, n) \in Seq(Names) /\ Len(SubSeq(b, 1, n)) = n
           /\ \A i \in 1 .. n : SubSeq(b, 1, n)[i] = b[i]
<1>1. Len(b) \in Nat /\ \A i \in 1 .. n : b[i] \in Names
  BY LenProperties, ElementOfSeq
<1> QED
  BY <1>1, SubSeqProperties

\* A chain without its last block is a block, above the first tip.
LEMMA FrontFacts ==
    ASSUME NEW b \in Blocks
    PROVE  /\ Len(Front(b)) = Len(b) - 1
           /\ \A i \in 1 .. Len(b) - 1 : Front(b)[i] = b[i]
           /\ Len(FirstTip) < Len(b) => Front(b) \in Blocks
<1>1. b \in Seq(Names) /\ Len(b) \in Nat /\ 1 <= Len(b) /\ Len(FirstTip) \in Nat
  BY ChainFacts
<1>2. Len(b) - 1 \in 0 .. Len(b)
  BY <1>1
<1>4. /\ Len(SubSeq(b, 1, Len(b) - 1)) = Len(b) - 1
      /\ \A i \in 1 .. Len(b) - 1 : SubSeq(b, 1, Len(b) - 1)[i] = b[i]
  BY <1>1, <1>2, PartFacts
<1>5. ASSUME Len(FirstTip) < Len(b) PROVE Front(b) \in Blocks
  <2>1. Len(b) - 1 \in Len(FirstTip) .. Len(b)
    BY <1>1, <1>5
  <2> QED
    BY <2>1, TreeAssumption DEF Front
<1> QED
  BY <1>4, <1>5 DEF Front

(* A reorg goes back to a block below the tip, on both chains. *)
LEMMA ForkFacts ==
    ASSUME NEW a \in Blocks, NEW b \in Blocks, ~IsPrefix(a, b)
    PROVE  LET c == LongestCommonPrefix({a, b})
           IN  c \in Blocks /\ IsPrefix(c, a) /\ Len(c) < Len(a)
<1> DEFINE CP == CommonPrefixes({a, b})
           P == UNION {Prefixes(s) : s \in {a, b}}
           D == {Len(a) - Len(c) : c \in CP}
<1>1. /\ Len(a) \in Nat /\ a \in Seq(Names) /\ b \in Seq(Names)
      /\ FirstTip \in Blocks /\ FirstTip \in Seq(Names) /\ Len(FirstTip) \in Nat
      /\ Len(FirstTip) <= Len(a)
  BY ChainFacts, TreeAssumption
<1>2. CP = {c \in P : IsPrefix(c, a) /\ IsPrefix(c, b)}
  BY DEF CommonPrefixes
<1>3. FirstTip \in CP
  <2>1. IsPrefix(FirstTip, a) /\ IsPrefix(FirstTip, b)
    BY TreeAssumption
  <2>2. SubSeq(FirstTip, 1, Len(FirstTip)) = FirstTip
    BY <1>1, SubSeqFull
  <2>3. FirstTip = SubSeq(a, 1, Len(FirstTip)) /\ Len(FirstTip) \in 0 .. Len(a)
    BY <1>1, <2>1, <2>2 DEF IsPrefix
  <2>4. FirstTip \in Prefixes(a)
    BY <2>3 DEF Prefixes
  <2> QED
    BY <1>2, <2>1, <2>4
<1>4. ASSUME NEW c \in CP
      PROVE  c \in Seq(Names) /\ Len(c) \in Nat /\ Len(c) <= Len(a)
             /\ c = SubSeq(a, 1, Len(c)) /\ IsPrefix(c, b)
  <2>1. IsPrefix(c, a) /\ IsPrefix(c, b) /\ c \in P
    BY <1>2
  <2>2. PICK s \in {a, b} : c \in Prefixes(s)
    BY <2>1
  <2>3. PICK l \in 0 .. Len(s) : c = SubSeq(s, 1, l)
    BY <2>2 DEF Prefixes
  <2>4. s \in Seq(Names) /\ Len(s) \in Nat
    BY <1>1, <2>2, LenProperties
  <2>5. \A i \in 1 .. l : s[i] \in Names
    BY <2>3, <2>4, ElementOfSeq
  <2>6. c \in Seq(Names)
    BY <2>3, <2>4, <2>5, SubSeqProperties
  <2>7. Len(c) \in Nat /\ SubSeq(c, 1, Len(c)) = c
    BY <2>6, LenProperties, SubSeqFull
  <2> QED
    BY <2>1, <2>6, <2>7 DEF IsPrefix
<1> HIDE DEF CP
<1>5. D \in SUBSET Nat /\ D # {}
  BY <1>1, <1>3, <1>4
<1>6. PICK d \in D : \A n \in D : d <= n
  BY <1>5, LeastElement
<1>7. PICK m \in CP : d = Len(a) - Len(m)
  BY <1>6
<1>8. ASSUME NEW c \in CP PROVE Len(c) <= Len(m)
  <2>1. d <= Len(a) - Len(c)
    BY <1>6
  <2> QED
    BY <1>1, <1>4, <1>7, <2>1
<1> DEFINE top == CHOOSE c \in CP : \A other \in CP : Len(other) <= Len(c)
<1>9. top \in CP /\ \A other \in CP : Len(other) <= Len(top)
  BY <1>8
<1>10. LongestCommonPrefix({a, b}) = top
  BY Zenon DEF LongestCommonPrefix, CP
<1> HIDE DEF top
<1>11. Len(FirstTip) <= Len(top) /\ Len(top) \in Nat /\ Len(top) <= Len(a)
  BY <1>3, <1>4, <1>9
<1>12. top \in Blocks
  <2>1. Len(top) \in Len(FirstTip) .. Len(a)
    BY <1>1, <1>11
  <2>2. top = SubSeq(a, 1, Len(top))
    BY <1>4, <1>9
  <2> QED
    BY <2>1, <2>2, TreeAssumption
<1>13. Len(top) < Len(a) /\ IsPrefix(top, a)
  <2>1. top = SubSeq(a, 1, Len(top)) /\ IsPrefix(top, b) /\ top \in Seq(Names)
    BY <1>4, <1>9
  <2>2. Len(top) # Len(a)
    <3>1. SubSeq(a, 1, Len(a)) = a
      BY <1>1, SubSeqFull
    <3> QED
      BY <2>1, <3>1
  <2>3. SubSeq(top, 1, Len(top)) = top
    BY <2>1, SubSeqFull
  <2> QED
    BY <1>1, <1>11, <2>1, <2>2, <2>3 DEF IsPrefix
<1> QED
  BY <1>10, <1>12, <1>13

-----------------------------------------------------------------------------
(* Statuses *)

\* What txs touch are addresses.
LEMMA TouchedFacts ==
    ASSUME NEW S, S \subseteq Txs
    PROVE  TouchedBy(S) \subseteq HashXs
  BY TxAssumption DEF TouchedBy, HashXs

(* The history of an address does not change with blocks that do not touch it. *)
LEMMA StatusOnLonger ==
    ASSUME NEW a \in Blocks, NEW b \in Blocks, IsPrefix(a, b),
           NEW x \in HashXs, NEW S,
           \A i \in (Len(a) + 1) .. Len(b) : x \notin TouchedBy(Contents[b[i]])
    PROVE  StatusOf(x, b, S) = StatusOf(x, a, S)
<1>1. /\ Len(a) \in Nat /\ Len(b) \in Nat /\ DOMAIN a = 1 .. Len(a) /\ DOMAIN b = 1 .. Len(b)
      /\ a \in Seq(Names) /\ b \in Seq(Names)
  BY ChainFacts
<1>2. Len(a) <= Len(b) /\ \A i \in 1 .. Len(a) : a[i] = b[i]
  BY <1>1, PrefixFacts
<1> DEFINE H(c) == {e \in Txs \X DOMAIN c : e[1] \in Contents[c[e[2]]] /\ x \in Touches[e[1]]}
<1>3. ASSUME NEW t \in Txs, NEW i \in 1 .. Len(b), t \in Contents[b[i]], x \in Touches[t]
      PROVE  i \in 1 .. Len(a)
  <2>1. x \in TouchedBy(Contents[b[i]])
    BY <1>3 DEF TouchedBy
  <2> QED
    BY <1>1, <1>2, <2>1
<1>4. H(b) = H(a)
  <2>1. \A e : e \in H(a) => e \in H(b)
    BY <1>1, <1>2
  <2>2. \A e : e \in H(b) => e \in H(a)
    BY <1>1, <1>2, <1>3
  <2> QED
    BY <2>1, <2>2
<1> QED
  BY <1>4 DEF StatusOf

(* Nor does its mempool part with txs that do not touch it. *)
LEMMA StatusOfOthers ==
    ASSUME NEW S, NEW T, NEW x \in HashXs, NEW b,
           x \notin TouchedBy(S \ T), x \notin TouchedBy(T \ S)
    PROVE  StatusOf(x, b, S) = StatusOf(x, b, T)
<1>1. \A t \in (S \ T) \cup (T \ S) : x \notin Touches[t]
  BY DEF TouchedBy
<1>2. {t \in S : x \in Touches[t]} = {t \in T : x \in Touches[t]}
  BY <1>1
<1> QED
  BY <1>2 DEF StatusOf

-----------------------------------------------------------------------------
(* Reports *)

ReportMap(f) == /\ \A n \in DOMAIN f : n \in Nat
                /\ \A n \in DOMAIN f : f[n] \subseteq HashXs

HasTop(S) == \A T \in SUBSET S : T # {} => \E n \in T : \A m \in T : m <= n

\* _maybe_notify picks the highest common height, or the mempool's highest.
LEMMA NotifyHeightIs ==
    ASSUME NEW mps, NEW bps, NEW h \in Nat,
           ReportMap(mps), ReportMap(bps), HasTop(DOMAIN mps)
    PROVE  LET common == DOMAIN mps \cap DOMAIN bps
           IN  \/ NotifyHeight(mps, bps, h) = {} /\ common = {}
               \/ \E n \in DOMAIN mps :
                     /\ NotifyHeight(mps, bps, h) = {n}
                     /\ \A m \in common : m <= n
                     /\ common = {} => \A m \in DOMAIN mps : m <= n
<1> DEFINE common == DOMAIN mps \cap DOMAIN bps
<1>1. CASE common # {}
  <2>1. PICK n \in common : \A m \in common : m <= n
    BY <1>1 DEF HasTop
  <2>2. common \subseteq Nat
    BY DEF ReportMap
  <2>3. Max(common) = n
    BY <2>1, <2>2, MaxIs
  <2>4. NotifyHeight(mps, bps, h) = {n}
    BY <1>1, <2>3 DEF NotifyHeight
  <2> QED
    BY <1>1, <2>1, <2>4
<1>2. CASE common = {} /\ DOMAIN mps # {} /\ Max(DOMAIN mps) = h
  <2>1. PICK n \in DOMAIN mps : \A m \in DOMAIN mps : m <= n
    BY <1>2 DEF HasTop
  <2>2. DOMAIN mps \subseteq Nat
    BY DEF ReportMap
  <2>3. Max(DOMAIN mps) = n
    BY <2>1, <2>2, MaxIs
  <2>4. NotifyHeight(mps, bps, h) = {h}
    BY <1>2 DEF NotifyHeight
  <2> QED
    BY <1>2, <2>1, <2>3, <2>4
<1>3. CASE common = {} /\ ~(DOMAIN mps # {} /\ Max(DOMAIN mps) = h)
  <2>1. NotifyHeight(mps, bps, h) = {}
    BY <1>3 DEF NotifyHeight
  <2> QED
    BY <1>3, <2>1
<1> QED
  BY <1>1, <1>2, <1>3

(* What goes out, at heights at and to the addresses xs, what stays, and what is
   then missed. *)
Out(at, xs, mps, bps, chain) ==
    LET common == DOMAIN mps \cap DOMAIN bps
        passed(m) == \E n \in at : m <= n
    IN  /\ xs \subseteq HashXs /\ (at = {} => xs = {})
        /\ \/ at = {} /\ common = {}
           \/ \E n \in DOMAIN mps :
                 /\ at = {n}
                 /\ \A m \in common : m <= n
                 /\ common = {} => \A m \in DOMAIN mps : m <= n
        /\ DOMAIN touchedMp' = {m \in DOMAIN mps : ~passed(m)}
        /\ \A m \in DOMAIN touchedMp' : touchedMp'[m] = mps[m]
        /\ DOMAIN touchedBp' = {m \in DOMAIN bps : ~passed(m)}
        /\ \A m \in DOMAIN touchedBp' : touchedBp'[m] = bps[m]
        /\ told' = [x \in HashXs |-> IF x \in xs THEN StatusOf(x, chain, txs) ELSE told[x]]
        /\ \A m \in DOMAIN mps : passed(m) => mps[m] \subseteq xs \cup missed'
        /\ \A m \in DOMAIN bps : passed(m) => bps[m] \subseteq xs
        /\ missed \cup Replaced(touchedMp, mps) \cup Replaced(touchedBp, bps)
              \subseteq xs \cup missed'
        /\ (\E n \in at : n > Len(chain)) => xs \subseteq missed'
        /\ notified' \in Nat /\ missed' \subseteq HashXs

\* What a call of _maybe_notify does to reports, subscribers and missed.
LEMMA NotifyIs ==
    ASSUME NEW mps, NEW bps, NEW h \in Nat, NEW chain \in Blocks,
           ReportMap(mps), ReportMap(bps), HasTop(DOMAIN mps),
           ReportMap(touchedMp), ReportMap(touchedBp), missed \subseteq HashXs,
           notified \in Nat, MaybeNotify(mps, bps, h, chain)
    PROVE  \E at, xs : Out(at, xs, mps, bps, chain)
<1> DEFINE at == NotifyHeight(mps, bps, h)
           upTo == UNION {0 .. n : n \in at}
           direct == Reported(mps, at) \cup Reported(bps, upTo)
           xs == WithUnconfirmed(at, direct)
           common == DOMAIN mps \cap DOMAIN bps
           passed(m) == \E n \in at : m <= n
<1>1. \/ at = {} /\ common = {}
      \/ \E n \in DOMAIN mps :
            /\ at = {n}
            /\ \A m \in common : m <= n
            /\ common = {} => \A m \in DOMAIN mps : m <= n
  BY NotifyHeightIs
<1>2. \A n \in at : n \in Nat
  BY <1>1 DEF ReportMap
<1>3. /\ touchedMp' = Restrict(mps, DOMAIN mps \ upTo)
      /\ touchedBp' = Restrict(bps, DOMAIN bps \ upTo)
      /\ Tell(at, chain, xs)
      /\ missed' = LET due == missed \cup Reported(mps, upTo \ at)
                              \cup (Replaced(touchedMp, mps) \cup Replaced(touchedBp, bps))
                   IN  IF \A n \in at : n <= Len(chain) THEN due \ xs ELSE due \cup xs
  BY DEF MaybeNotify
<1> HIDE DEF at
<1>4. \A m \in Nat : m \in upTo <=> passed(m)
  BY <1>2
<1>5. direct \subseteq HashXs
  BY DEF Reported, ReportMap
<1>6. xs \subseteq HashXs /\ direct \subseteq xs /\ (at = {} => xs = {})
  <2>1. xs \subseteq HashXs /\ direct \subseteq xs
    BY <1>5 DEF WithUnconfirmed
  <2>2. at = {} => direct = {}
    BY DEF Reported
  <2>3. at = {} => xs = {}
    BY <2>2 DEF WithUnconfirmed
  <2> QED
    BY <2>1, <2>3
<1>7. \A m \in DOMAIN mps : m \in at => mps[m] \subseteq xs
  <2>1. \A m \in DOMAIN mps : m \in at => mps[m] \subseteq direct
    BY DEF Reported
  <2> QED
    BY <1>6, <2>1
<1>8. \A m \in DOMAIN bps : passed(m) => bps[m] \subseteq xs
  <2>1. \A m \in DOMAIN bps : m \in upTo => bps[m] \subseteq direct
    BY DEF Reported
  <2> QED
    BY <1>4, <1>6, <2>1 DEF ReportMap
<1> HIDE DEF xs
<1>9. \A m \in DOMAIN mps : m \in upTo /\ m \notin at => mps[m] \subseteq Reported(mps, upTo \ at)
  BY DEF Reported
<1> DEFINE due == missed \cup Reported(mps, upTo \ at)
                  \cup (Replaced(touchedMp, mps) \cup Replaced(touchedBp, bps))
<1>10. /\ due \subseteq xs \cup missed'
       /\ (\E n \in at : n > Len(chain)) => xs \subseteq missed'
  <2>1. missed' = IF \A n \in at : n <= Len(chain) THEN due \ xs ELSE due \cup xs
    BY <1>3
  <2>2. Len(chain) \in Nat
    BY ChainFacts
  <2> HIDE DEF due
  <2> QED
    BY <1>2, <2>1, <2>2
<1>11. \A m \in DOMAIN mps : passed(m) => mps[m] \subseteq xs \cup missed'
  BY <1>4, <1>7, <1>9, <1>10 DEF ReportMap
<1>12. /\ DOMAIN touchedMp' = {m \in DOMAIN mps : ~passed(m)}
       /\ \A m \in DOMAIN touchedMp' : touchedMp'[m] = mps[m]
  <2>1. DOMAIN mps \ upTo = {m \in DOMAIN mps : ~passed(m)}
    BY <1>4 DEF ReportMap
  <2> QED
    BY <1>3, <2>1 DEF Restrict
<1>13. /\ DOMAIN touchedBp' = {m \in DOMAIN bps : ~passed(m)}
       /\ \A m \in DOMAIN touchedBp' : touchedBp'[m] = bps[m]
  <2>1. DOMAIN bps \ upTo = {m \in DOMAIN bps : ~passed(m)}
    BY <1>4 DEF ReportMap
  <2> QED
    BY <1>3, <2>1 DEF Restrict
<1>14. told' = [x \in HashXs |-> IF x \in xs THEN StatusOf(x, chain, txs) ELSE told[x]]
  BY <1>3 DEF Tell
<1>15. missed \cup Replaced(touchedMp, mps) \cup Replaced(touchedBp, bps) \subseteq xs \cup missed'
  BY <1>10
<1>16. notified' \in Nat
  <2>1. notified' = IF at \subseteq {notified} THEN notified ELSE Min({Len(chain)} \cup at)
    BY <1>3 DEF Tell
  <2>2. at = {} \/ \E n \in Nat : at = {n}
    BY <1>1, <1>2
  <2>3. Len(chain) \in Nat
    BY ChainFacts
  <2> QED
    BY <2>1, <2>2, <2>3, MinOfTwo
<1>17. missed' \subseteq HashXs
  <2>1. due \subseteq HashXs
    BY DEF Reported, Replaced, ReportMap
  <2> QED
    BY <1>3, <1>6, <2>1
<1> HIDE DEF due
<1>18. Out(at, xs, mps, bps, chain)
  BY <1>1, <1>6, <1>8, <1>10, <1>11, <1>12, <1>13, <1>14, <1>15, <1>16, <1>17 DEF Out
<1> QED
  BY <1>18

\* A report map with one more report.
LEMMA WithFacts ==
    ASSUME NEW f, ReportMap(f), NEW n \in Nat, NEW S, S \subseteq HashXs
    PROVE  /\ ReportMap(With(f, n, S))
           /\ DOMAIN With(f, n, S) = DOMAIN f \cup {n}
           /\ With(f, n, S)[n] = S
           /\ \A m \in DOMAIN f : m # n => With(f, n, S)[m] = f[m]
  BY DEF With, ReportMap

\* An address that is not replaced is in the later report too.
LEMMA ReplacedFacts ==
    ASSUME NEW f, NEW g, NEW x, NEW m \in DOMAIN f, x \in f[m], x \notin Replaced(f, g)
    PROVE  x \in g[m]
  BY DEF Replaced

\* What the later layers use of the types.
LEMMA TypeFacts ==
    ASSUME TypeOK
    PROVE  /\ ReportMap(touchedMp) /\ ReportMap(touchedBp)
           /\ {Len(best), Len(tip), Len(dbTip), cached, height, highest, notified} \subseteq Nat
           /\ bpTouched \subseteq HashXs /\ touched \subseteq HashXs /\ missed \subseteq HashXs
<1>1. \A b \in Blocks : Len(b) \in Nat
  BY ChainFacts
<1>2. ASSUME NEW f, DOMAIN f \subseteq {Len(b) : b \in Blocks}, Range(f) \subseteq SUBSET HashXs
      PROVE  ReportMap(f)
  BY <1>1, <1>2 DEF ReportMap, Range
<1>3. ReportMap(touchedMp) /\ ReportMap(touchedBp)
  BY <1>2 DEF TypeOK
<1> QED
  BY <1>1, <1>3 DEF TypeOK

(* The report of a batch, and that of a refresh. *)
LEMMA BlockOut ==
    ASSUME TypeInv, Reports, on_block
    PROVE  \E at, xs : Out(at, xs, touchedMp, With(touchedBp, Len(tip), bpTouched), dbTip')
<1>1. /\ ReportMap(touchedMp) /\ ReportMap(With(touchedBp, Len(tip), bpTouched))
      /\ Len(tip) \in Nat /\ notified \in Nat
      /\ ReportMap(touchedBp) /\ missed \subseteq HashXs
  BY TypeFacts, WithFacts DEF TypeInv
<1>2. HasTop(DOMAIN touchedMp)
  BY <1>1 DEF HasTop, Reports, ReportMap
<1>3. dbTip' \in {tip, dbTip} /\ tip \in Blocks /\ dbTip \in Blocks
  BY DEF on_block, TypeInv, TypeOK
<1>4. MaybeNotify(touchedMp, With(touchedBp, Len(tip), bpTouched), Len(tip), dbTip')
  <2>1. PICK chain \in {tip} \cup (IF Len(tip) = cached THEN {} ELSE {dbTip}) :
           /\ dbTip' = chain
           /\ MaybeNotify(touchedMp, With(touchedBp, Len(tip), bpTouched), Len(tip), chain)
    BY DEF on_block
  <2> QED
    BY <2>1
<1> QED
  BY <1>1, <1>2, <1>3, <1>4, NotifyIs

\* on_mempool is such a call, with the mempool's report added.
LEMMA MempoolOut ==
    ASSUME TypeInv, Reports, on_mempool
    PROVE  \E at, xs : Out(at, xs, With(touchedMp, height, touched), touchedBp, dbTip)
<1>1. /\ ReportMap(With(touchedMp, height, touched)) /\ ReportMap(touchedBp)
      /\ ReportMap(touchedMp) /\ missed \subseteq HashXs
      /\ highest \in Nat /\ notified \in Nat /\ height \in Nat
      /\ DOMAIN With(touchedMp, height, touched) = DOMAIN touchedMp \cup {height}
  BY TypeFacts, WithFacts DEF TypeInv
<1>2. HasTop(DOMAIN touchedMp \cup {height})
  <2>1. \A m, n \in DOMAIN touchedMp : m = n
    BY DEF Reports
  <2>2. \A n \in DOMAIN touchedMp : n <= height /\ n \in Nat
    BY TypeFacts DEF Reports, on_mempool, TypeInv, ReportMap
  <2> QED
    BY <1>1, <2>1, <2>2 DEF HasTop
<1>3. dbTip \in Blocks
  BY DEF TypeInv, TypeOK
<1>4. MaybeNotify(With(touchedMp, height, touched), touchedBp, highest, dbTip)
  BY DEF on_mempool
<1> QED
  BY <1>1, <1>2, <1>3, <1>4, NotifyIs

-----------------------------------------------------------------------------
(* Layer 2: what waits *)

\* At the start no report waits.
LEMMA ReportsInit == Init => Reports
<1> SUFFICES ASSUME Init PROVE Reports
  OBVIOUS
<1>1. FirstTip \in Blocks /\ Len(FirstTip) \in Nat
  BY ChainFacts, TreeAssumption
<1> QED
  BY <1>1 DEF Init, Reports, Refreshing, Processing

(* The daemon's new best block is higher. *)
LEMMA NewBestFacts ==
    ASSUME TypeInv, DaemonGrows \/ DaemonSwitches
    PROVE  \E b \in Blocks : NewBest(b) /\ Len(b) > Len(best)
<1>1. CASE DaemonGrows
  <2>1. PICK b \in Blocks : Front(b) = best /\ NewBest(b)
    BY <1>1 DEF DaemonGrows
  <2>2. Len(best) = Len(b) - 1 /\ Len(b) \in Nat
    BY <2>1, FrontFacts, ChainFacts
  <2> QED
    BY <2>1, <2>2
<1> QED
  BY <1>1 DEF DaemonSwitches

\* Where the tips and polled heights are.
LEMMA Heights ==
    ASSUME TypeInv
    PROVE  /\ Len(dbTip) \in Nat /\ Len(tip) \in Nat /\ Len(best) \in Nat
           /\ cached \in Nat /\ height \in Nat
           /\ Len(dbTip) <= Len(tip) /\ Len(tip) <= cached /\ cached <= Len(best)
           /\ \A n \in DOMAIN touchedMp \cup DOMAIN touchedBp : n \in Nat
<1>1. Len(dbTip) <= Len(tip)
  BY DEF TypeInv, Positions, IsPrefix
<1> QED
  BY <1>1, TypeFacts DEF TypeInv, Positions, ReportMap

\* The block processor's report keeps the second layer.
LEMMA ReportsOnBlock ==
    ASSUME TypeInv, Reports, on_block
    PROVE  Reports'
<1> DEFINE bps == With(touchedBp, Len(tip), bpTouched)
<1>1. PICK at, xs : Out(at, xs, touchedMp, bps, dbTip')
  BY BlockOut
<1>2. /\ DOMAIN bps = DOMAIN touchedBp \cup {Len(tip)}
      /\ UNCHANGED <<mp, height, cached, best, tip>>
  BY DEF on_block, With, daemonVars, mpVars
<1>3. /\ at \subseteq DOMAIN touchedMp
      /\ DOMAIN touchedMp' = {m \in DOMAIN touchedMp : ~\E n \in at : m <= n}
      /\ DOMAIN touchedBp' = {m \in DOMAIN bps : ~\E n \in at : m <= n}
  BY <1>1 DEF Out
<1> HIDE DEF bps
<1>4. /\ Len(dbTip) \in Nat /\ Len(tip) \in Nat /\ Len(best) \in Nat /\ height \in Nat
      /\ cached \in Nat /\ Len(dbTip) <= Len(tip) /\ Len(tip) <= cached /\ cached <= Len(best)
      /\ \A n \in DOMAIN touchedMp : n \in Nat
  BY Heights
<1>5. /\ \A m, n \in DOMAIN touchedMp : m = n
      /\ \A n \in DOMAIN touchedMp : n <= cached /\ (mp # "sleep" => n <= height)
      /\ height <= cached
  BY DEF Reports
<1>6. dbTip' = tip \/ Len(dbTip') < Len(best)
  <2>1. dbTip' = tip \/ (dbTip' = dbTip /\ Len(tip) # cached)
    BY DEF on_block
  <2> QED
    BY <1>4, <2>1
<1>7. \A n \in DOMAIN touchedMp' \cup Refreshing' :
         n < Len(dbTip') /\ Len(dbTip') = Len(best') => Len(dbTip') \in DOMAIN touchedBp'
  <2> SUFFICES ASSUME NEW n \in DOMAIN touchedMp' \cup Refreshing',
                      n < Len(dbTip'), Len(dbTip') = Len(best'),
                      Len(dbTip') \notin DOMAIN touchedBp'
               PROVE  FALSE
    OBVIOUS
  <2>1. dbTip' = tip
    BY <1>2, <1>4, <1>6
  <2>2. PICK k \in at : Len(tip) <= k
    BY <1>2, <1>3, <2>1
  <2>3. k \in DOMAIN touchedMp /\ k \in Nat
    BY <1>3, <1>4
  <2>4. n \in DOMAIN touchedMp' => n \in Nat /\ n > k
    BY <1>3, <1>4, <2>3
  <2>5. n \in Refreshing' => n = height /\ height >= k
    BY <1>2, <1>5, <2>3 DEF Refreshing
  <2> QED
    BY <1>4, <2>1, <2>2, <2>3, <2>4, <2>5
<1>8. Processing' =>
         \A n \in DOMAIN touchedMp' : n # height' => height' \in DOMAIN touchedBp'
  <2> SUFFICES ASSUME Processing', NEW n \in DOMAIN touchedMp', n # height,
                      height \notin DOMAIN touchedBp'
               PROVE  FALSE
    BY <1>2
  <2>1. Processing /\ mp # "sleep"
    BY <1>2 DEF Processing
  <2>2. n \in DOMAIN touchedMp /\ n <= height /\ n \in Nat
    BY <1>3, <1>4, <1>5, <2>1
  <2>3. height \in DOMAIN bps
    BY <1>2, <2>1, <2>2 DEF Reports
  <2>4. PICK k \in at : height <= k
    BY <1>3, <2>3
  <2>5. n > k /\ k \in Nat
    BY <1>3, <1>4, <2>2, <2>4
  <2> QED
    BY <1>4, <2>2, <2>4, <2>5
<1> QED
  BY <1>2, <1>3, <1>5, <1>7, <1>8 DEF Reports

\* So does the mempool's.
LEMMA ReportsOnMempool ==
    ASSUME TypeInv, Reports, on_mempool
    PROVE  Reports'
<1> DEFINE mps == With(touchedMp, height, touched)
<1>1. PICK at, xs : Out(at, xs, mps, touchedBp, dbTip)
  BY MempoolOut
<1>2. /\ DOMAIN mps = DOMAIN touchedMp \cup {height}
      /\ UNCHANGED <<height, cached, best, dbTip>>
      /\ mp = "report" /\ mp' = "sleep"
  BY DEF on_mempool, With, daemonVars, bpVars
<1>3. /\ at \subseteq DOMAIN mps
      /\ DOMAIN touchedMp' = {m \in DOMAIN mps : ~\E n \in at : m <= n}
      /\ DOMAIN touchedBp' = {m \in DOMAIN touchedBp : ~\E n \in at : m <= n}
      /\ \A m \in DOMAIN mps \cap DOMAIN touchedBp : \E n \in at : m <= n
  BY <1>1 DEF Out
<1> HIDE DEF mps
<1>4. /\ Len(dbTip) \in Nat /\ height \in Nat /\ cached \in Nat
      /\ \A n \in DOMAIN touchedMp : n \in Nat
  BY Heights
<1>5. /\ \A m, n \in DOMAIN touchedMp : m = n
      /\ \A n \in DOMAIN touchedMp : n <= cached /\ n <= height
      /\ \A n \in DOMAIN touchedMp \cup {height} :
            n < Len(dbTip) /\ Len(dbTip) = Len(best) => Len(dbTip) \in DOMAIN touchedBp
      /\ \A n \in DOMAIN touchedMp : n # height => height \in DOMAIN touchedBp
      /\ height <= cached
  BY <1>2 DEF Reports, Processing, Refreshing
<1>6. ASSUME NEW k \in DOMAIN touchedMp, k # height PROVE DOMAIN touchedMp' = {}
  <2>1. PICK n \in at : height <= n
    BY <1>2, <1>3, <1>5, <1>6
  <2>2. n \in Nat
    BY <1>2, <1>3, <1>4, <2>1
  <2>3. \A m \in DOMAIN mps : m <= n
    BY <1>2, <1>4, <1>5, <2>1, <2>2
  <2> QED
    BY <1>3, <2>1, <2>3
<1>7. \A m, n \in DOMAIN touchedMp' : m = n
  BY <1>2, <1>3, <1>6
<1>8. ASSUME NEW n \in DOMAIN touchedMp', n < Len(dbTip), Len(dbTip) = Len(best)
      PROVE  Len(dbTip) \in DOMAIN touchedBp'
  <2>1. n \in DOMAIN touchedMp \cup {height} /\ n \in Nat
    BY <1>2, <1>3, <1>4
  <2>2. Len(dbTip) \in DOMAIN touchedBp
    BY <1>5, <1>8, <2>1
  <2>3. ASSUME NEW k \in at, Len(dbTip) <= k PROVE FALSE
    <3>1. k \in Nat /\ n > k
      BY <1>2, <1>3, <1>4, <2>1
    <3> QED
      BY <1>4, <1>8, <2>1, <2>3, <3>1
  <2> QED
    BY <1>3, <2>2, <2>3
<1>9. \A n \in DOMAIN touchedMp' : n <= cached
  BY <1>2, <1>3, <1>5
<1>10. Refreshing' = {} /\ ~Processing'
  BY <1>2 DEF Refreshing, Processing
<1> QED
  BY <1>2, <1>5, <1>7, <1>8, <1>9, <1>10 DEF Reports

\* Every step keeps the second layer.
LEMMA ReportsStep == TypeInv /\ Reports /\ [Next]_vars => Reports'
<1> SUFFICES ASSUME TypeInv, Reports, [Next]_vars
             PROVE  Reports'
  OBVIOUS
<1> USE DEF daemonVars, bpVars, mpVars, notifyVars
<1>1. /\ Len(dbTip) \in Nat /\ Len(tip) \in Nat /\ Len(best) \in Nat
      /\ cached \in Nat /\ height \in Nat
      /\ Len(dbTip) <= Len(tip) /\ Len(tip) <= cached /\ cached <= Len(best)
      /\ \A n \in DOMAIN touchedMp \cup DOMAIN touchedBp : n \in Nat
  BY Heights
<1>a. ASSUME UNCHANGED <<mp, height, touchedMp, touchedBp>>, cached' \in Nat, cached <= cached',
             UNCHANGED <<dbTip, best>> \/ Len(dbTip') # Len(best')
      PROVE  Reports'
  <2>1. /\ \A m, n \in DOMAIN touchedMp' : m = n
        /\ \A n \in DOMAIN touchedMp' : n <= cached' /\ (mp' # "sleep" => n <= height')
        /\ height' <= cached'
    BY <1>1, <1>a DEF Reports
  <2>2. \A n \in DOMAIN touchedMp' \cup Refreshing' :
           n < Len(dbTip') /\ Len(dbTip') = Len(best') => Len(dbTip') \in DOMAIN touchedBp'
    BY <1>a DEF Reports, Refreshing
  <2>3. Processing' =>
           \A n \in DOMAIN touchedMp' : n # height' => height' \in DOMAIN touchedBp'
    BY <1>a DEF Reports, Processing
  <2> QED
    BY <2>1, <2>2, <2>3 DEF Reports
<1>2. CASE DaemonGrows \/ DaemonSwitches
  <2>1. PICK b \in Blocks : NewBest(b) /\ Len(b) > Len(best)
    BY <1>2, NewBestFacts
  <2>2. Len(b) \in Nat /\ best' = b /\ UNCHANGED <<dbTip, mp, height, touchedMp, touchedBp, cached>>
    BY <2>1, ChainFacts DEF NewBest
  <2> QED
    BY <1>1, <1>a, <2>1, <2>2
<1>3. CASE TxArrives
  BY <1>1, <1>3, <1>a DEF TxArrives
<1>4. CASE PollHeight
  BY <1>1, <1>4, <1>a DEF PollHeight
<1>5. CASE Advance
  BY <1>1, <1>5, <1>a DEF Advance
<1>6. CASE on_block
  BY <1>6, ReportsOnBlock
<1>7. CASE StartReorg
  BY <1>1, <1>7, <1>a DEF StartReorg
<1>8. CASE BackupBlock
  <2>1. tip \in Blocks /\ Len(Front(tip)) = Len(tip) - 1
    BY FrontFacts DEF TypeInv, TypeOK
  <2> QED
    BY <1>1, <1>8, <1>a, <2>1 DEF BackupBlock
<1>9. CASE MpStart
  <2>1. /\ height' = cached /\ mp' = "hashes"
        /\ UNCHANGED <<dbTip, best, cached, touchedMp, touchedBp>>
    BY <1>9 DEF MpStart
  <2>2. Refreshing' = {cached} /\ ~Processing'
    BY <2>1 DEF Refreshing, Processing
  <2>3. \A n \in DOMAIN touchedMp \cup {cached} :
           n < Len(dbTip) /\ Len(dbTip) = Len(best) => Len(dbTip) \in DOMAIN touchedBp
    BY <1>1 DEF Reports
  <2> QED
    BY <1>1, <2>1, <2>2, <2>3 DEF Reports
<1>10. CASE MpHashes
  <2>1. mp = "hashes" /\ mp' = "height"
        /\ UNCHANGED <<height, dbTip, best, cached, touchedMp, touchedBp>>
    BY <1>10 DEF MpHashes
  <2> QED
    BY <2>1 DEF Reports, Refreshing, Processing
<1>11. CASE MpRetry
  <2>1. mp' = "sleep" /\ cached' = Len(best)
        /\ UNCHANGED <<height, dbTip, best, touchedMp, touchedBp>>
    BY <1>11 DEF MpRetry
  <2>2. Refreshing' = {} /\ ~Processing'
    BY <2>1 DEF Refreshing, Processing
  <2> QED
    BY <1>1, <2>1, <2>2 DEF Reports
<1>12. CASE MpProcess
  <2>1. /\ mp = "height" /\ mp' \in {"report", "fetch"} /\ cached' = Len(best)
        /\ height = Len(best) /\ height = Len(dbTip)
        /\ UNCHANGED <<height, dbTip, best, touchedMp, touchedBp>>
    BY <1>12 DEF MpProcess
  <2>2. Refreshing' = {height} /\ Refreshing = {height}
    BY <2>1 DEF Refreshing
  <2>3. ASSUME NEW n \in DOMAIN touchedMp, n # height PROVE height \in DOMAIN touchedBp
    <3>1. n <= height /\ n \in Nat
      BY <1>1, <2>1 DEF Reports
    <3>2. n < Len(dbTip)
      BY <1>1, <2>1, <2>3, <3>1
    <3> QED
      BY <2>1, <3>2 DEF Reports
  <2>4. /\ \A n \in DOMAIN touchedMp : n <= cached' /\ n <= height
        /\ height <= cached'
    BY <1>1, <2>1 DEF Reports
  <2> QED
    BY <2>1, <2>2, <2>3, <2>4 DEF Reports
<1>13. CASE MpFetch \/ MpLookup \/ MpAccept
  <2>1. /\ mp \in {"fetch", "lookup", "accept"} /\ mp' \in {"lookup", "accept", "report"}
        /\ UNCHANGED <<height, dbTip, best, cached, touchedMp, touchedBp>>
    BY <1>13 DEF MpFetch, MpLookup, MpAccept
  <2>2. Processing /\ Processing' /\ Refreshing' = Refreshing /\ mp # "sleep"
    BY <2>1 DEF Processing, Refreshing
  <2> QED
    BY <2>1, <2>2 DEF Reports
<1>14. CASE on_mempool
  BY <1>14, ReportsOnMempool
<1>15. CASE UNCHANGED vars
  BY <1>1, <1>15, <1>a DEF vars
<1> QED
  BY <1>2, <1>3, <1>4, <1>5, <1>6, <1>7, <1>8, <1>9, <1>10, <1>11, <1>12, <1>13, <1>14, <1>15
     DEF Next, ProcessBlocks, Refresh

-----------------------------------------------------------------------------
(* Layer 1: types and positions *)

\* What the daemon keeps in its mempool fits its chain.
LEMMA AcceptableFacts ==
    ASSUME NEW S, NEW b
    PROVE  /\ Acceptable(S, b) \subseteq S
           /\ Acceptable(S, b) \cap Confirmed(b) = {}
           /\ SpentIn(Acceptable(S, b)) \cap SpentIn(Confirmed(b)) = {}
<1>1. \A t \in Acceptable(S, b) :
         t \in S /\ t \notin Confirmed(b) /\ Spends[t] \cap SpentIn(Confirmed(b)) = {}
  BY DEF Acceptable
<1>2. SpentIn(Acceptable(S, b)) = UNION {Spends[t] : t \in Acceptable(S, b)}
  BY DEF SpentIn
<1> QED
  BY <1>1, <1>2

\* The initial state is typed.
LEMMA TypeInit == Init => TypeInv
<1> SUFFICES ASSUME Init PROVE TypeInv
  OBVIOUS
<1>1. FirstTip \in Blocks /\ Len(FirstTip) \in Nat /\ FirstPool \subseteq Txs
  BY ChainFacts, TreeAssumption, TxAssumption
<1>2. TypeOK
  BY <1>1 DEF Init, TypeOK, Range
<1>3. IsPrefix(FirstTip, FirstTip)
  BY <1>1 DEF IsPrefix
<1>4. Positions
  BY <1>1, <1>3 DEF Init, Positions, BlockHeights
<1> QED
  BY <1>2, <1>4 DEF TypeInv

(* What a report leaves is well typed. *)
LEMMA OutTyped ==
    ASSUME NEW at, NEW xs, NEW mps, NEW bps, NEW chain,
           Out(at, xs, mps, bps, chain), ReportMap(mps), ReportMap(bps),
           DOMAIN mps \subseteq BlockHeights, DOMAIN bps \subseteq BlockHeights
    PROVE  /\ DOMAIN touchedMp' \subseteq BlockHeights /\ Range(touchedMp') \subseteq SUBSET HashXs
           /\ DOMAIN touchedBp' \subseteq BlockHeights /\ Range(touchedBp') \subseteq SUBSET HashXs
           /\ DOMAIN told' = HashXs /\ notified' \in Nat /\ missed' \subseteq HashXs
<1>1. /\ DOMAIN touchedMp' \subseteq DOMAIN mps /\ DOMAIN touchedBp' \subseteq DOMAIN bps
      /\ \A m \in DOMAIN touchedMp' : touchedMp'[m] = mps[m]
      /\ \A m \in DOMAIN touchedBp' : touchedBp'[m] = bps[m]
      /\ DOMAIN told' = HashXs /\ notified' \in Nat /\ missed' \subseteq HashXs
  BY DEF Out
<1> QED
  BY <1>1 DEF Range, ReportMap

(* The parts of TypeOK that the actions of one task change. *)
BpTyped ==
    /\ {best, tip, dbTip, fork} \subseteq Blocks /\ pool \subseteq Txs
    /\ bpTouched \subseteq HashXs /\ bp \in {"idle", "advanced", "backup"}
    /\ cached \in BlockHeights
MpTyped ==
    /\ all \subseteq Txs /\ fetched \subseteq Txs /\ found \subseteq Txs /\ txs \subseteq Txs
    /\ touched \subseteq HashXs /\ height \in Nat
    /\ mp \in {"sleep", "hashes", "height", "fetch", "lookup", "accept", "report"}
    /\ mp # "sleep" => height \in BlockHeights
NotifyTyped ==
    /\ \A f \in {touchedMp, touchedBp} :
          DOMAIN f \subseteq BlockHeights /\ Range(f) \subseteq SUBSET HashXs
    /\ DOMAIN told = HashXs /\ missed \subseteq HashXs
    /\ notified \in Nat /\ highest \in Nat

Chained ==
    /\ IsPrefix(dbTip, tip)
    /\ Len(tip) <= cached /\ cached <= Len(best)
    /\ bp = "backup" => /\ dbTip = tip /\ Len(tip) < cached
                        /\ IsPrefix(fork, tip) /\ Len(fork) < Len(tip)

\* The first layer has four parts, which need only the reports besides.
LEMMA TypeParts ==
    /\ TypeInv => BpTyped /\ MpTyped /\ NotifyTyped /\ Chained
    /\ BpTyped /\ MpTyped /\ NotifyTyped /\ Chained /\ Reports => TypeInv
<1>1. BlockHeights \subseteq Nat
  BY ChainFacts DEF BlockHeights
<1>2. ASSUME TypeInv PROVE BpTyped /\ MpTyped /\ NotifyTyped /\ Chained
  BY <1>2 DEF TypeInv, TypeOK, Positions, BpTyped, MpTyped, NotifyTyped, Chained, BlockHeights
<1>3. ASSUME BpTyped, MpTyped, NotifyTyped, Chained, Reports PROVE TypeInv
  <2>1. TypeOK
    <3>1. cached \in Nat
      BY <1>1, <1>3 DEF BpTyped
    <3>2. \A m, n \in DOMAIN touchedMp : m = n
      BY <1>3 DEF Reports
    <3> QED
      BY <1>3, <3>1, <3>2 DEF TypeOK, BpTyped, MpTyped, NotifyTyped, BlockHeights
  <2>2. Positions
    BY <1>3 DEF Positions, BpTyped, MpTyped, Chained
  <2> QED
    BY <2>1, <2>2 DEF TypeInv
<1> QED
  BY <1>2, <1>3

\* A new best tip of the daemon keeps the types.
LEMMA NewBestTyped ==
    ASSUME TypeInv, NEW b \in Blocks, NewBest(b)
    PROVE  BpTyped'
<1>1. BpTyped /\ Confirmed(best) \subseteq Txs
  BY TypeParts, ChainFacts DEF BpTyped
<1>2. pool' \subseteq Txs
  BY <1>1, AcceptableFacts DEF NewBest, BpTyped
<1> QED
  BY <1>1, <1>2 DEF NewBest, BpTyped, bpVars

\* Every step keeps the block processor's types.
LEMMA BpTypedStep ==
    ASSUME TypeInv, [Next]_vars
    PROVE  BpTyped'
<1> USE DEF daemonVars, bpVars, mpVars, notifyVars
<1>1. BpTyped /\ Chained /\ \A b \in Blocks : Len(b) \in BlockHeights
  BY TypeParts DEF BlockHeights
<1>a. ASSUME UNCHANGED <<daemonVars, bpVars>>, cached' \in {cached, Len(best)}
      PROVE  BpTyped'
  BY <1>1, <1>a DEF BpTyped
<1>2. CASE DaemonGrows \/ DaemonSwitches
  BY <1>2, NewBestFacts, NewBestTyped
<1>3. CASE TxArrives
  BY <1>1, <1>3 DEF TxArrives, BpTyped
<1>4. CASE PollHeight
  BY <1>4, <1>a DEF PollHeight
<1>5. CASE Advance
  <2>1. PICK b \in Blocks : tip' = b /\ bpTouched' = bpTouched \cup TouchedBy(Contents[Last(b)])
    BY <1>5 DEF Advance
  <2>2. Contents[Last(b)] \subseteq Txs
    BY ChainFacts DEF Last
  <2>3. bpTouched' \subseteq HashXs
    BY <1>1, <2>1, <2>2, TouchedFacts DEF BpTyped
  <2> QED
    BY <1>1, <1>5, <2>1, <2>3 DEF Advance, BpTyped
<1>6. CASE on_block
  BY <1>1, <1>6 DEF on_block, BpTyped
<1>7. CASE StartReorg
  <2>1. fork' \in Blocks
    BY <1>1, <1>7, ForkFacts DEF StartReorg, BpTyped
  <2> QED
    BY <1>1, <1>7, <2>1 DEF StartReorg, BpTyped
<1>8. CASE BackupBlock
  <2>1. fork \in Blocks /\ tip \in Blocks /\ Len(fork) < Len(tip)
    BY <1>1, <1>8 DEF BpTyped, Chained, BackupBlock
  <2>2. Len(FirstTip) < Len(tip)
    BY <2>1, ChainFacts
  <2>3. Front(tip) \in Blocks
    BY <2>1, <2>2, FrontFacts
  <2>4. Contents[Last(tip)] \subseteq Txs
    BY <2>1, ChainFacts DEF Last
  <2>5. bpTouched' \subseteq HashXs
    BY <1>1, <1>8, <2>4, TouchedFacts DEF BackupBlock, BpTyped
  <2> QED
    BY <1>1, <1>8, <2>3, <2>5 DEF BackupBlock, BpTyped
<1>9. CASE Refresh
  BY <1>9, <1>a DEF Refresh, MpStart, MpHashes, MpRetry, MpProcess, MpFetch, MpLookup,
                    MpAccept, on_mempool
<1>10. CASE UNCHANGED vars
  BY <1>10, <1>a DEF vars
<1> QED
  BY <1>2, <1>3, <1>4, <1>5, <1>6, <1>7, <1>8, <1>9, <1>10 DEF Next, ProcessBlocks

\* Every step keeps the DB's chain a prefix of the tip's, no higher than polled.
LEMMA ChainedStep ==
    ASSUME TypeInv, [Next]_vars
    PROVE  Chained'
<1> USE DEF daemonVars, bpVars, mpVars, notifyVars
<1>1. BpTyped /\ Chained /\ BpTyped'
  BY TypeParts, BpTypedStep
<1>2. /\ Len(dbTip) \in Nat /\ Len(tip) \in Nat /\ Len(best) \in Nat
      /\ cached \in Nat /\ Len(tip) <= cached /\ cached <= Len(best)
      /\ tip \in Blocks /\ dbTip \in Blocks /\ fork \in Blocks
      /\ \A b \in Blocks : b \in Seq(Names)
  BY <1>1, Heights, ChainFacts DEF BpTyped
<1>3. IsPrefix(tip, tip)
  BY <1>2 DEF IsPrefix
<1>a. ASSUME UNCHANGED bpVars, cached' \in Nat, Len(best') \in Nat,
             cached <= cached', cached' <= Len(best')
      PROVE  Chained'
  BY <1>1, <1>2, <1>a DEF Chained
<1>4. CASE DaemonGrows \/ DaemonSwitches
  <2>1. PICK b \in Blocks : NewBest(b) /\ Len(b) > Len(best)
    BY <1>4, NewBestFacts
  <2>2. Len(b) \in Nat
    BY ChainFacts
  <2> QED
    BY <1>2, <1>a, <2>1, <2>2 DEF NewBest
<1>5. CASE TxArrives
  BY <1>2, <1>5, <1>a DEF TxArrives
<1>6. CASE PollHeight
  BY <1>2, <1>6, <1>a DEF PollHeight
<1>7. CASE Advance
  <2>1. PICK b \in Blocks : Front(b) = tip /\ tip' = b /\ Len(b) <= cached
    BY <1>7 DEF Advance
  <2>2. Len(tip) = Len(b) - 1 /\ (\A i \in 1 .. Len(tip) : tip[i] = b[i]) /\ Len(b) \in Nat
    BY <2>1, FrontFacts, ChainFacts
  <2>3. Len(dbTip) <= Len(tip) /\ \A i \in 1 .. Len(dbTip) : dbTip[i] = tip[i]
    BY <1>1, <1>2, PrefixFacts DEF Chained
  <2>4. Len(dbTip) <= Len(b) /\ \A i \in 1 .. Len(dbTip) : dbTip[i] = b[i]
    BY <1>2, <2>2, <2>3
  <2>5. IsPrefix(dbTip, b)
    BY <1>2, <2>4, PrefixFacts
  <2> QED
    BY <1>2, <1>7, <2>1, <2>5 DEF Advance, Chained
<1>8. CASE on_block
  BY <1>1, <1>3, <1>8 DEF on_block, Chained
<1>9. CASE StartReorg
  <2>1. IsPrefix(fork', tip) /\ Len(fork') < Len(tip)
    BY <1>1, <1>9, ForkFacts DEF StartReorg, BpTyped
  <2> QED
    BY <1>2, <1>3, <1>9, <2>1 DEF StartReorg, Chained
<1>10. CASE BackupBlock
  <2> DEFINE t == Front(tip)
  <2>1. tip' = t /\ dbTip' = t /\ t \in Blocks /\ UNCHANGED <<cached, best, fork>>
    BY <1>1, <1>10 DEF BackupBlock, BpTyped
  <2>2. Len(t) = Len(tip) - 1 /\ \A i \in 1 .. Len(t) : t[i] = tip[i]
    BY <1>2, FrontFacts
  <2>3. IsPrefix(t, t)
    BY <2>1, ChainFacts DEF IsPrefix
  <2>4. /\ Len(tip) < cached /\ Len(fork) < Len(tip)
        /\ \A i \in 1 .. Len(fork) : fork[i] = tip[i]
    BY <1>1, <1>2, <1>10, PrefixFacts DEF BackupBlock, Chained
  <2>5. Len(fork) \in Nat
    BY <1>2, ChainFacts
  <2>6. IsPrefix(fork, t)
    <3>1. Len(fork) <= Len(t) /\ \A i \in 1 .. Len(fork) : fork[i] = t[i]
      BY <1>2, <2>2, <2>4, <2>5
    <3> QED
      BY <1>2, <2>1, <3>1, PrefixFacts
  <2>7. bp' = "backup" => Len(fork) < Len(t)
    <3>1. bp' = "backup" => t # fork
      BY <1>10 DEF BackupBlock
    <3>2. ASSUME Len(fork) = Len(t) PROVE t = fork
      <4>1. \A i \in 1 .. Len(t) : fork[i] = t[i]
        BY <2>2, <2>4, <3>2, <1>2
      <4> QED
        BY <1>2, <2>1, <3>2, <4>1, SeqEqual
    <3> QED
      BY <1>2, <2>2, <2>4, <2>5, <3>1, <3>2
  <2> HIDE DEF t
  <2> QED
    BY <1>2, <2>1, <2>2, <2>3, <2>4, <2>6, <2>7 DEF Chained
<1>11. CASE Refresh
  BY <1>2, <1>11, <1>a DEF Refresh, MpStart, MpHashes, MpRetry, MpProcess, MpFetch, MpLookup,
                    MpAccept, on_mempool
<1>12. CASE UNCHANGED vars
  BY <1>2, <1>12, <1>a DEF vars
<1> QED
  BY <1>4, <1>5, <1>6, <1>7, <1>8, <1>9, <1>10, <1>11, <1>12 DEF Next, ProcessBlocks

\* Every step keeps the mempool's types.
LEMMA MpTypedStep ==
    ASSUME TypeInv, [Next]_vars
    PROVE  MpTyped'
<1> USE DEF daemonVars, bpVars, mpVars, notifyVars
<1>1. BpTyped /\ MpTyped /\ BlockHeights \subseteq Nat
  BY TypeParts, ChainFacts DEF BlockHeights
<1>2. CASE UNCHANGED mpVars
  BY <1>1, <1>2 DEF MpTyped
<1>3. CASE MpStart
  BY <1>1, <1>3 DEF MpStart, MpTyped, BpTyped
<1>4. CASE MpHashes
  BY <1>1, <1>4 DEF MpHashes, MpTyped, BpTyped
<1>5. CASE MpRetry
  BY <1>1, <1>5 DEF MpRetry, MpTyped
<1>6. CASE MpProcess
  <2>1. TouchedBy(txs \ all) \subseteq HashXs
    BY <1>1, TouchedFacts DEF MpTyped
  <2> QED
    BY <1>1, <1>6, <2>1 DEF MpProcess, MpTyped
<1>7. CASE MpFetch
  BY <1>1, <1>7 DEF MpFetch, MpTyped
<1>8. CASE MpLookup
  <2>1. found' \subseteq Txs
    BY <1>1, <1>8, ChainFacts DEF MpLookup, BpTyped
  <2> QED
    BY <1>1, <1>8, <2>1 DEF MpLookup, MpTyped
<1>9. CASE MpAccept
  <2>1. Accepted(fetched, found) \subseteq Txs
    BY <1>1 DEF Accepted, MpTyped
  <2>2. TouchedBy(Accepted(fetched, found)) \subseteq HashXs
    BY <2>1, TouchedFacts
  <2> QED
    BY <1>1, <1>9, <2>1, <2>2 DEF MpAccept, MpTyped
<1>10. CASE on_mempool
  BY <1>1, <1>10 DEF on_mempool, MpTyped
<1>11. CASE UNCHANGED vars
  BY <1>2, <1>11 DEF vars
<1>12. CASE DaemonGrows \/ DaemonSwitches \/ TxArrives \/ PollHeight \/ ProcessBlocks
  BY <1>2, <1>12 DEF DaemonGrows, DaemonSwitches, NewBest, TxArrives, PollHeight,
                     ProcessBlocks, Advance, on_block, StartReorg, BackupBlock
<1> QED
  BY <1>3, <1>4, <1>5, <1>6, <1>7, <1>8, <1>9, <1>10, <1>11, <1>12 DEF Next, Refresh

\* Every step keeps the types of the reports.
LEMMA NotifyTypedStep ==
    ASSUME TypeInv, Reports, [Next]_vars
    PROVE  NotifyTyped'
<1> USE DEF daemonVars, bpVars, mpVars, notifyVars
<1>1. /\ BpTyped /\ MpTyped /\ NotifyTyped
      /\ ReportMap(touchedMp) /\ ReportMap(touchedBp)
      /\ \A b \in Blocks : Len(b) \in BlockHeights /\ Len(b) \in Nat
  BY TypeParts, TypeFacts, ChainFacts DEF BlockHeights, TypeInv
<1>2. CASE UNCHANGED notifyVars
  BY <1>1, <1>2 DEF NotifyTyped
<1>3. CASE on_block
  <2> DEFINE bps == With(touchedBp, Len(tip), bpTouched)
  <2>1. PICK at, xs : Out(at, xs, touchedMp, bps, dbTip')
    BY <1>3, BlockOut
  <2>2. tip \in Blocks /\ Len(tip) \in Nat /\ bpTouched \subseteq HashXs
    BY <1>1 DEF BpTyped
  <2>3. ReportMap(bps) /\ DOMAIN bps = DOMAIN touchedBp \cup {Len(tip)}
    BY <1>1, <2>2, WithFacts
  <2>4. DOMAIN bps \subseteq BlockHeights /\ DOMAIN touchedMp \subseteq BlockHeights
    BY <1>1, <2>2, <2>3 DEF NotifyTyped
  <2> HIDE DEF bps
  <2>5. highest' \in Nat
    BY <1>3, <2>2 DEF on_block
  <2> QED
    BY <1>1, <2>1, <2>3, <2>4, <2>5, OutTyped DEF NotifyTyped
<1>4. CASE on_mempool
  <2> DEFINE mps == With(touchedMp, height, touched)
  <2>1. PICK at, xs : Out(at, xs, mps, touchedBp, dbTip)
    BY <1>4, MempoolOut
  <2>2. height \in BlockHeights /\ height \in Nat /\ touched \subseteq HashXs
    BY <1>1, <1>4 DEF MpTyped, on_mempool
  <2>3. ReportMap(mps) /\ DOMAIN mps = DOMAIN touchedMp \cup {height}
    BY <1>1, <2>2, WithFacts
  <2>4. DOMAIN mps \subseteq BlockHeights /\ DOMAIN touchedBp \subseteq BlockHeights
    BY <1>1, <2>2, <2>3 DEF NotifyTyped
  <2> HIDE DEF mps
  <2>5. highest' \in Nat
    BY <1>1, <1>4 DEF on_mempool, NotifyTyped
  <2> QED
    BY <1>1, <2>1, <2>3, <2>4, <2>5, OutTyped DEF NotifyTyped
<1>5. CASE UNCHANGED vars
  BY <1>2, <1>5 DEF vars
<1>6. CASE Next /\ ~on_block /\ ~on_mempool
  BY <1>2, <1>6 DEF Next, DaemonGrows, DaemonSwitches, NewBest, TxArrives, PollHeight,
                    ProcessBlocks, Advance, StartReorg, BackupBlock, Refresh,
                    MpStart, MpHashes, MpRetry, MpProcess, MpFetch, MpLookup, MpAccept
<1> QED
  BY <1>3, <1>4, <1>5, <1>6

\* Every step keeps the first layer.
LEMMA TypeStep == TypeInv /\ Reports /\ [Next]_vars => TypeInv'
<1> SUFFICES ASSUME TypeInv, Reports, [Next]_vars PROVE TypeInv'
  OBVIOUS
<1>1. BpTyped' /\ MpTyped' /\ NotifyTyped' /\ Chained' /\ Reports'
  BY BpTypedStep, MpTypedStep, NotifyTypedStep, ChainedStep, ReportsStep
<1> QED
  BY <1>1, TypeParts, PTL

\* The first two layers hold in every state.
LEMMA InductiveReports == Spec => [](TypeInv /\ Reports)
<1>1. Init => TypeInv /\ Reports
  BY TypeInit, ReportsInit
<1>2. TypeInv /\ Reports /\ [Next]_vars => (TypeInv /\ Reports)'
  BY TypeStep, ReportsStep
<1> QED
  BY <1>1, <1>2, PTL DEF Spec

(* Every reachable state is well typed, and Notifications keeps no report of the
   mempool's that it has passed over: at most one waits. *)
THEOREM TypesHold == Spec => []TypeOK
<1>1. TypeInv => TypeOK
  BY DEF TypeInv
<1> QED
  BY <1>1, InductiveReports, PTL

-----------------------------------------------------------------------------
(* Layer 3: no output is spent twice *)

\* Fewer txs have no more conflicts.
LEMMA FewerConflicts ==
    ASSUME NEW S, NoConflict(S), NEW T, T \subseteq S
    PROVE  NoConflict(T)
  BY DEF NoConflict

\* The first mempool has no conflicts.
LEMMA DisjointInit == Init => Disjoint
<1> SUFFICES ASSUME Init PROVE Disjoint
  OBVIOUS
<1>1. PoolFits
  BY ConsensusAssumption, AcceptableFacts DEF Init, PoolFits
<1>2. OneAnswer
  BY DEF Init, OneAnswer, NoConflict, Processing
<1> QED
  BY <1>1, <1>2 DEF Disjoint

(* After a change of branch: what was in the mempool did not conflict with what
   was confirmed, and neither holds a conflict. *)
LEMMA PoolFitsNewBest ==
    ASSUME TypeInv, PoolFits, NEW b \in Blocks, NewBest(b)
    PROVE  PoolFits'
<1> DEFINE back == Confirmed(best) \ Confirmed(b)
<1>1. /\ best \in Blocks /\ best' = b
      /\ pool' = Acceptable(pool \cup back, b)
  BY TypeParts DEF NewBest, BpTyped
<1>2. NoConflict(Confirmed(best))
  BY <1>1, ConsensusAssumption
<1>3. ASSUME NEW t \in pool, NEW u \in Confirmed(best) PROVE Spends[t] \cap Spends[u] = {}
  BY DEF PoolFits, SpentIn
<1>4. NoConflict(pool \cup back)
  BY <1>2, <1>3 DEF PoolFits, NoConflict
<1>5. NoConflict(pool')
  BY <1>1, <1>4, AcceptableFacts, FewerConflicts
<1> QED
  BY <1>1, <1>5, AcceptableFacts DEF PoolFits

\* A tx that arrives has no conflicts with the pool or the chain.
LEMMA PoolFitsArrival ==
    ASSUME PoolFits, TxArrives
    PROVE  PoolFits'
<1>1. PICK t \in Txs \ (pool \cup Confirmed(best)) :
         /\ Acceptable(pool \cup {t}, best) = pool \cup {t}
         /\ Spends[t] \cap SpentIn(pool) = {}
         /\ pool' = pool \cup {t}
  BY DEF TxArrives
<1>2. \A u \in pool : Spends[t] \cap Spends[u] = {}
  BY <1>1 DEF SpentIn
<1>3. NoConflict(pool')
  BY <1>1, <1>2 DEF NoConflict, PoolFits
<1>4. best' = best
  BY DEF TxArrives
<1> QED
  BY <1>1, <1>3, <1>4, AcceptableFacts DEF PoolFits

\* Every step keeps the pools without conflicts.
LEMMA DisjointStep == TypeInv /\ Disjoint /\ [Next]_vars => Disjoint'
<1> SUFFICES ASSUME TypeInv, PoolFits, OneAnswer, [Next]_vars
             PROVE  Disjoint'
  BY DEF Disjoint
<1> USE DEF daemonVars, bpVars, mpVars, notifyVars
<1>1. PoolFits'
  <2>1. CASE DaemonGrows \/ DaemonSwitches
    BY <2>1, NewBestFacts, PoolFitsNewBest
  <2>2. CASE TxArrives
    BY <2>2, PoolFitsArrival
  <2>3. CASE UNCHANGED <<best, pool>>
    BY <2>3 DEF PoolFits
  <2>4. CASE UNCHANGED vars
    BY <2>3, <2>4 DEF vars
  <2>5. CASE PollHeight \/ ProcessBlocks \/ Refresh
    BY <2>3, <2>5 DEF PollHeight, ProcessBlocks, Advance, on_block, StartReorg, BackupBlock,
                      Refresh, MpStart, MpHashes, MpRetry, MpProcess, MpFetch, MpLookup,
                      MpAccept, on_mempool
  <2> QED
    BY <2>1, <2>2, <2>4, <2>5 DEF Next
<1>2. OneAnswer'
  <2>1. CASE UNCHANGED mpVars
    BY <2>1 DEF OneAnswer, Processing
  <2>2. CASE MpStart \/ MpRetry
    BY <2>2 DEF MpStart, MpRetry, OneAnswer, Processing
  <2>3. CASE MpHashes
    BY <2>3 DEF MpHashes, OneAnswer, Processing, PoolFits
  <2>4. CASE MpProcess
    <3>1. txs' \subseteq all /\ txs' \subseteq txs
      BY <2>4 DEF MpProcess
    <3>2. NoConflict(txs')
      BY <3>1, FewerConflicts DEF OneAnswer
    <3> QED
      BY <2>4, <3>1, <3>2 DEF MpProcess, OneAnswer, Processing
  <2>5. CASE MpFetch
    BY <2>5 DEF MpFetch, OneAnswer, Processing
  <2>6. CASE MpLookup
    BY <2>6 DEF MpLookup, OneAnswer, Processing
  <2>7. CASE MpAccept
    <3>1. Accepted(fetched, found) \subseteq fetched
      BY DEF Accepted
    <3>2. txs' \subseteq all /\ NoConflict(all)
      BY <2>7, <3>1 DEF MpAccept, OneAnswer, Processing
    <3>3. NoConflict(txs')
      BY <3>2, FewerConflicts
    <3> QED
      BY <2>7, <3>2, <3>3 DEF MpAccept, OneAnswer, Processing
  <2>8. CASE on_mempool
    BY <2>8 DEF on_mempool, OneAnswer, Processing, NoConflict
  <2>9. CASE UNCHANGED vars
    BY <2>1, <2>9 DEF vars
  <2>10. CASE DaemonGrows \/ DaemonSwitches \/ TxArrives \/ PollHeight \/ ProcessBlocks
    BY <2>1, <2>10 DEF DaemonGrows, DaemonSwitches, NewBest, TxArrives, PollHeight,
                       ProcessBlocks, Advance, on_block, StartReorg, BackupBlock
  <2> QED
    BY <2>2, <2>3, <2>4, <2>5, <2>6, <2>7, <2>8, <2>9, <2>10 DEF Next, Refresh
<1> QED
  BY <1>1, <1>2 DEF Disjoint

\* The first three layers hold in every state.
LEMMA InductiveDisjoint == Spec => [](TypeInv /\ Reports /\ Disjoint)
<1>1. Init => TypeInv /\ Reports /\ Disjoint
  BY TypeInit, ReportsInit, DisjointInit
<1>2. TypeInv /\ Reports /\ Disjoint /\ [Next]_vars => (TypeInv /\ Reports /\ Disjoint)'
  BY TypeStep, ReportsStep, DisjointStep
<1> QED
  BY <1>1, <1>2, PTL DEF Spec

(* The server's mempool never holds two txs that spend the same output, whatever
   becomes of the daemon's chain and mempool between the answers of a refresh:
   its txs are all from one answer, and what the daemon answers with is free of
   conflicts on every branch. *)
THEOREM MempoolHoldsNoDoubleSpend == Spec => []NoDoubleSpend
<1>1. Disjoint => NoDoubleSpend
  BY DEF Disjoint, OneAnswer, NoDoubleSpend
<1> QED
  BY <1>1, InductiveDisjoint, PTL

-----------------------------------------------------------------------------
(* Layer 4: what a subscriber knows *)

\* At the start everyone was told the present status.
LEMMA InformedInit == Init => Informed
<1> SUFFICES ASSUME Init PROVE Informed
  OBVIOUS
<1>1. tip = FirstTip /\ dbTip = FirstTip /\ FirstTip \in Blocks /\ Len(FirstTip) \in Nat
  BY ChainFacts, TreeAssumption DEF Init
<1>2. \A x \in HashXs : ~Unflushed(x)
  BY <1>1 DEF Unflushed
<1>3. \A x \in HashXs : told[x] = StatusOf(x, dbTip, txs)
  BY DEF Init
<1> QED
  BY <1>2, <1>3 DEF Informed

(* An address about which nothing is pending has a history on disk that is that
   of the tip. *)
LEMMA SameOnDisk ==
    ASSUME TypeInv, Informed, NEW x \in HashXs,
           x \notin bpTouched, x \notin missed, x \notin Reported(touchedBp, DOMAIN touchedBp)
    PROVE  StatusOf(x, tip, txs) = StatusOf(x, dbTip, txs)
<1>1. ~Announced(x)
  BY DEF Announced, Reported
<1>2. ~Unflushed(x)
  BY <1>1 DEF Informed
<1>3. tip \in Blocks /\ dbTip \in Blocks /\ IsPrefix(dbTip, tip)
  BY TypeParts DEF BpTyped, Chained
<1> QED
  BY <1>2, <1>3, StatusOnLonger DEF Unflushed

\* With the DB at the tip no address is touched by an unflushed block.
LEMMA NothingUnflushed ==
    ASSUME TypeInv, [Next]_vars, Len(tip') <= Len(dbTip'), NEW x
    PROVE  ~Unflushed(x)'
<1>1. BpTyped'
  BY BpTypedStep
<1>2. Len(tip') \in Nat /\ Len(dbTip') \in Nat
  BY <1>1, ChainFacts DEF BpTyped
<1> QED
  BY <1>2 DEF Unflushed

(* What a report does not tell an address was not waiting for it. *)
LEMMA OutUntold ==
    ASSUME NEW at, NEW xs, NEW mps, NEW bps, NEW chain, Out(at, xs, mps, bps, chain),
           NEW x \in HashXs, x \notin xs, x \notin missed',
           x \notin Reported(touchedMp', DOMAIN touchedMp'),
           x \notin Reported(touchedBp', DOMAIN touchedBp')
    PROVE  /\ \A m \in DOMAIN mps : x \notin mps[m]
           /\ \A m \in DOMAIN bps : x \notin bps[m]
           /\ x \notin missed
           /\ x \notin Replaced(touchedMp, mps) /\ x \notin Replaced(touchedBp, bps)
           /\ told'[x] = told[x]
<1>1. /\ DOMAIN touchedMp' = {m \in DOMAIN mps : ~\E n \in at : m <= n}
      /\ \A m \in DOMAIN touchedMp' : touchedMp'[m] = mps[m]
      /\ DOMAIN touchedBp' = {m \in DOMAIN bps : ~\E n \in at : m <= n}
      /\ \A m \in DOMAIN touchedBp' : touchedBp'[m] = bps[m]
      /\ \A m \in DOMAIN mps : (\E n \in at : m <= n) => mps[m] \subseteq xs \cup missed'
      /\ \A m \in DOMAIN bps : (\E n \in at : m <= n) => bps[m] \subseteq xs
      /\ missed \cup Replaced(touchedMp, mps) \cup Replaced(touchedBp, bps)
            \subseteq xs \cup missed'
      /\ told' = [y \in HashXs |-> IF y \in xs THEN StatusOf(y, chain, txs) ELSE told[y]]
  BY DEF Out
<1>2. /\ \A m \in DOMAIN touchedMp' : x \notin touchedMp'[m]
      /\ \A m \in DOMAIN touchedBp' : x \notin touchedBp'[m]
  BY DEF Reported
<1>3. \A m \in DOMAIN mps : x \notin mps[m]
  BY <1>1, <1>2
<1>4. \A m \in DOMAIN bps : x \notin bps[m]
  BY <1>1, <1>2
<1>5. told'[x] = told[x]
  BY <1>1
<1> QED
  BY <1>1, <1>3, <1>4, <1>5

(* An address whose report, up to height top, is for a block the DB does not
   hold: it waits on, or it has gone out early. *)
LEMMA OutAnnounced ==
    ASSUME NEW at, NEW xs, NEW mps, NEW bps, NEW chain \in Blocks,
           Out(at, xs, mps, bps, chain), ReportMap(mps), ReportMap(bps),
           NEW x, NEW top \in Nat, x \in Reported(bps, (Len(chain) + 1) .. top)
    PROVE  \/ x \in Reported(touchedBp', (Len(chain) + 1) .. top)
           \/ /\ x \in missed'
              /\ \A k \in DOMAIN touchedMp' : k > Len(chain)
              /\ \E n \in DOMAIN mps : n > Len(chain)
<1>1. /\ at \subseteq DOMAIN mps
      /\ DOMAIN touchedMp' = {m \in DOMAIN mps : ~\E n \in at : m <= n}
      /\ DOMAIN touchedBp' = {m \in DOMAIN bps : ~\E n \in at : m <= n}
      /\ \A m \in DOMAIN touchedBp' : touchedBp'[m] = bps[m]
      /\ \A m \in DOMAIN bps : (\E n \in at : m <= n) => bps[m] \subseteq xs
      /\ (\E n \in at : n > Len(chain)) => xs \subseteq missed'
  BY DEF Out
<1>2. Len(chain) \in Nat /\ \A m \in DOMAIN mps : m \in Nat
  BY ChainFacts DEF ReportMap
<1>3. PICK m \in DOMAIN bps : m \in (Len(chain) + 1) .. top /\ x \in bps[m]
  BY DEF Reported
<1>4. CASE m \in DOMAIN touchedBp'
  BY <1>1, <1>3, <1>4 DEF Reported
<1>5. CASE m \notin DOMAIN touchedBp'
  <2>1. PICK n \in at : m <= n
    BY <1>1, <1>3, <1>5
  <2>2. n > Len(chain) /\ n \in DOMAIN mps /\ n \in Nat
    BY <1>1, <1>2, <1>3, <2>1
  <2>3. x \in missed'
    BY <1>1, <1>3, <2>1, <2>2
  <2>4. \A k \in DOMAIN touchedMp' : k > Len(chain)
    <3>1. ASSUME NEW k \in DOMAIN touchedMp' PROVE k > Len(chain)
      <4>1. k \in DOMAIN mps /\ ~(k <= n) /\ k \in Nat
        BY <1>1, <1>2, <2>1
      <4> QED
        BY <1>2, <2>2, <4>1
    <3> QED
      BY <3>1
  <2> QED
    BY <2>2, <2>3, <2>4
<1> QED
  BY <1>4, <1>5

(* One that was missed stays so while only reports of later blocks go out. *)
LEMMA OutStillMissed ==
    ASSUME NEW at, NEW xs, NEW mps, NEW bps, NEW chain, Out(at, xs, mps, bps, chain),
           NEW x \in missed, \A n \in DOMAIN mps : n > Len(chain)
    PROVE  /\ x \in missed'
           /\ \A k \in DOMAIN touchedMp' : k > Len(chain)
<1>1. /\ at \subseteq DOMAIN mps /\ (at = {} => xs = {})
      /\ missed \subseteq xs \cup missed'
      /\ (\E n \in at : n > Len(chain)) => xs \subseteq missed'
      /\ DOMAIN touchedMp' \subseteq DOMAIN mps
  BY DEF Out
<1> QED
  BY <1>1

\* on_block reports again, or misses, what was told before it was flushed.
LEMMA AnnouncedOnBlock ==
    ASSUME TypeInv, Reports, Informed, [Next]_vars, on_block, NEW x \in HashXs, Unflushed(x)'
    PROVE  Announced(x)'
<1> DEFINE bps == With(touchedBp, Len(tip), bpTouched)
           beyond == (Len(dbTip) + 1) .. Len(tip)
<1>1. PICK at, xs : Out(at, xs, touchedMp, bps, dbTip')
  BY BlockOut
<1>2. /\ Len(dbTip) \in Nat /\ Len(tip) \in Nat /\ height \in Nat /\ dbTip \in Blocks
      /\ \A n \in DOMAIN touchedMp : n \in Nat
  BY Heights, TypeParts DEF BpTyped
<1>3. /\ dbTip' = dbTip /\ tip' = tip /\ bp = "advanced" /\ bp' = "idle"
      /\ UNCHANGED <<mp, height>>
  <2>1. dbTip' # tip'
    BY <1>2, NothingUnflushed DEF on_block
  <2> QED
    BY <2>1 DEF on_block, mpVars
<1>4. Unflushed(x) /\ Len(dbTip) < Len(tip)
  <2>1. Unflushed(x)
    BY <1>3 DEF Unflushed
  <2> QED
    BY <1>2, <2>1 DEF Unflushed
<1>5. /\ ReportMap(touchedMp) /\ ReportMap(bps)
      /\ DOMAIN bps = DOMAIN touchedBp \cup {Len(tip)}
      /\ bps[Len(tip)] = bpTouched
      /\ \A m \in DOMAIN touchedBp : m # Len(tip) => bps[m] = touchedBp[m]
  <2>1. ReportMap(touchedMp) /\ ReportMap(touchedBp) /\ bpTouched \subseteq HashXs
    BY TypeFacts DEF TypeInv
  <2>2. ReportMap(bps)
    BY <1>2, <2>1, WithFacts
  <2> QED
    BY <2>1, <2>2 DEF With
<1> HIDE DEF bps
<1>6. \/ x \in Reported(bps, beyond)
      \/ x \in missed /\ Early
  <2>1. Announced(x)
    BY <1>4 DEF Informed
  <2>2. CASE x \in bpTouched
    <3>1. Len(tip) \in beyond
      BY <1>2, <1>4
    <3> QED
      BY <1>5, <2>2, <3>1 DEF Reported
  <2>3. CASE x \in Reported(touchedBp, (Len(dbTip) + 1) .. LastReported)
    <3>1. PICK m \in DOMAIN touchedBp : m \in (Len(dbTip) + 1) .. (Len(tip) - 1) /\ x \in touchedBp[m]
      BY <1>3, <2>3 DEF Reported, LastReported
    <3>2. m \in beyond /\ m # Len(tip)
      BY <1>2, <3>1
    <3> QED
      BY <1>5, <3>1, <3>2 DEF Reported
  <2> QED
    BY <2>1, <2>2, <2>3 DEF Announced
<1>7. LastReported' = Len(tip)
  BY <1>3 DEF LastReported
<1>8. ASSUME x \in missed', \A k \in DOMAIN touchedMp' : k > Len(dbTip),
             Processing => height > Len(dbTip)
      PROVE  Announced(x)'
  BY <1>3, <1>8 DEF Announced, Early, Processing
<1>9. CASE x \in Reported(bps, beyond)
  <2>1. CASE x \in Reported(touchedBp', beyond)
    BY <1>3, <1>7, <2>1 DEF Announced
  <2>2. CASE /\ x \in missed'
             /\ \A k \in DOMAIN touchedMp' : k > Len(dbTip)
             /\ \E n \in DOMAIN touchedMp : n > Len(dbTip)
    <3>1. Processing => \A n \in DOMAIN touchedMp : n <= height
      BY DEF Reports, Processing
    <3>2. Processing => height > Len(dbTip)
      BY <1>2, <2>2, <3>1
    <3> QED
      BY <1>8, <2>2, <3>2
  <2>3. \/ x \in Reported(touchedBp', beyond)
        \/ /\ x \in missed'
           /\ \A k \in DOMAIN touchedMp' : k > Len(dbTip)
           /\ \E n \in DOMAIN touchedMp : n > Len(dbTip)
    BY <1>1, <1>2, <1>3, <1>5, <1>9, OutAnnounced
  <2> QED
    BY <2>1, <2>2, <2>3
<1>10. CASE x \in missed /\ Early
  <2>1. x \in missed' /\ \A k \in DOMAIN touchedMp' : k > Len(dbTip)
    <3>1. \A n \in DOMAIN touchedMp : n > Len(dbTip)
      BY <1>10 DEF Early
    <3>2. Out(at, xs, touchedMp, bps, dbTip)
      BY <1>1, <1>3
    <3> QED
      BY <1>10, <3>1, <3>2, OutStillMissed
  <2> QED
    BY <1>8, <1>10, <2>1 DEF Early
<1> QED
  BY <1>6, <1>9, <1>10

\* on_mempool lets such reports out and counts them.
LEMMA AnnouncedOnMempool ==
    ASSUME TypeInv, Reports, Informed, on_mempool, NEW x \in HashXs, Unflushed(x)'
    PROVE  Announced(x)'
<1> DEFINE mps == With(touchedMp, height, touched)
<1>1. PICK at, xs : Out(at, xs, mps, touchedBp, dbTip)
  BY MempoolOut
<1>2. /\ Len(dbTip) \in Nat /\ Len(tip) \in Nat /\ height \in Nat /\ dbTip \in Blocks
  BY Heights, TypeParts DEF BpTyped
<1>3. /\ UNCHANGED <<dbTip, tip, bp, bpTouched>> /\ mp = "report" /\ mp' = "sleep"
  BY DEF on_mempool, bpVars
<1>4. ReportMap(mps) /\ ReportMap(touchedBp) /\ DOMAIN mps = DOMAIN touchedMp \cup {height}
  BY TypeFacts, WithFacts DEF TypeInv
<1> HIDE DEF mps
<1>5. Announced(x)
  <2>1. Unflushed(x)
    BY <1>3 DEF Unflushed
  <2> QED
    BY <2>1 DEF Informed
<1>6. LastReported' = LastReported /\ ~Processing'
  BY <1>3 DEF LastReported, Processing
<1>7. ASSUME x \in missed', \A k \in DOMAIN touchedMp' : k > Len(dbTip)
      PROVE  Announced(x)'
  BY <1>3, <1>6, <1>7 DEF Announced, Early
<1>8. CASE x \in bpTouched
  BY <1>3, <1>8 DEF Announced
<1>9. CASE x \in Reported(touchedBp, (Len(dbTip) + 1) .. LastReported)
  <2>1. CASE LastReported \in Nat
    <3>1. \/ x \in Reported(touchedBp', (Len(dbTip) + 1) .. LastReported)
          \/ x \in missed' /\ \A k \in DOMAIN touchedMp' : k > Len(dbTip)
      BY <1>1, <1>2, <1>4, <1>9, <2>1, OutAnnounced
    <3> QED
      BY <1>3, <1>6, <1>7, <3>1 DEF Announced
  <2>2. CASE LastReported \notin Nat
    <3>1. LastReported = -1
      BY <1>2, <2>2 DEF LastReported
    <3>2. (Len(dbTip) + 1) .. LastReported = {}
      BY <1>2, <3>1
    <3> QED
      BY <1>9, <3>2 DEF Reported
  <2> QED
    BY <2>1, <2>2
<1>10. CASE x \in missed /\ Early
  <2>1. \A n \in DOMAIN mps : n > Len(dbTip)
    BY <1>3, <1>4, <1>10 DEF Early, Processing
  <2> QED
    BY <1>1, <1>7, <1>10, <2>1, OutStillMissed
<1> QED
  BY <1>5, <1>8, <1>9, <1>10 DEF Announced

(* First part of Informed: what is to be reported. *)
LEMMA AnnouncedStep ==
    ASSUME TypeInv, Reports, Informed, [Next]_vars, NEW x \in HashXs, Unflushed(x)'
    PROVE  Announced(x)'
<1> USE DEF daemonVars, bpVars, mpVars, notifyVars
<1>1. /\ Len(dbTip) \in Nat /\ Len(tip) \in Nat /\ Len(best) \in Nat /\ tip \in Blocks
      /\ cached \in Nat /\ Len(tip) <= cached /\ cached <= Len(best)
  BY Heights, TypeParts DEF BpTyped
<1>a. ASSUME UNCHANGED <<tip, dbTip, bp, bpTouched, touchedMp, touchedBp, missed>>,
             Processing' => Processing /\ height' = height
      PROVE  Announced(x)'
  <2>1. Announced(x)
    BY <1>a DEF Informed, Unflushed
  <2>2. Early => Early'
    BY <1>a DEF Early
  <2> QED
    BY <1>a, <2>1, <2>2 DEF Announced, LastReported
<1>2. CASE DaemonGrows \/ DaemonSwitches \/ TxArrives \/ PollHeight
  BY <1>2, <1>a DEF DaemonGrows, DaemonSwitches, NewBest, TxArrives, PollHeight, Processing
<1>3. CASE Advance
  <2>1. PICK b \in Blocks : /\ Front(b) = tip /\ tip' = b
                            /\ bpTouched' = bpTouched \cup TouchedBy(Contents[Last(b)])
    BY <1>3 DEF Advance
  <2>2. /\ Len(b) = Len(tip) + 1 /\ Len(b) \in Nat
        /\ \A i \in 1 .. Len(tip) : tip[i] = b[i]
    <3>1. Len(b) \in Nat
      BY ChainFacts
    <3>2. Len(tip) = Len(b) - 1 /\ \A i \in 1 .. Len(b) - 1 : tip[i] = b[i]
      BY <2>1, FrontFacts
    <3> QED
      BY <3>1, <3>2
  <2>3. UNCHANGED <<dbTip, touchedMp, touchedBp, missed, mp, height>> /\ bp' = "advanced"
    BY <1>3 DEF Advance
  <2>4. PICK i \in (Len(dbTip) + 1) .. Len(b) : x \in TouchedBy(Contents[b[i]])
    BY <2>1, <2>3 DEF Unflushed
  <2>5. CASE i = Len(b)
    BY <2>1, <2>4, <2>5 DEF Announced, Last
  <2>6. CASE i # Len(b)
    <3>1. i \in (Len(dbTip) + 1) .. Len(tip) /\ i \in 1 .. Len(tip)
      BY <1>1, <2>2, <2>6
    <3>2. Unflushed(x)
      BY <2>2, <2>4, <3>1 DEF Unflushed
    <3>3. Announced(x)
      BY <3>2 DEF Informed
    <3>4. Early => Early'
      BY <2>3 DEF Early, Processing
    <3>5. LastReported \in Int /\ LastReported' = Len(tip) /\ LastReported <= Len(tip)
      BY <1>1, <2>1, <2>2, <2>3 DEF LastReported
    <3>6. (Len(dbTip) + 1) .. LastReported \subseteq (Len(dbTip) + 1) .. LastReported'
      BY <1>1, <3>5
    <3>7. Reported(touchedBp, (Len(dbTip) + 1) .. LastReported)
            \subseteq Reported(touchedBp, (Len(dbTip) + 1) .. LastReported')
      BY <3>6 DEF Reported
    <3> QED
      BY <2>1, <2>3, <3>3, <3>4, <3>7 DEF Announced
  <2> QED
    BY <2>5, <2>6
<1>4. CASE on_block
  BY <1>4, AnnouncedOnBlock
<1>5. CASE StartReorg
  <2>1. tip' = tip /\ dbTip' = tip
    BY <1>5 DEF StartReorg
  <2> QED
    BY <1>1, <2>1, NothingUnflushed
<1>6. CASE BackupBlock
  <2>1. tip' = Front(tip) /\ dbTip' = Front(tip) /\ Len(Front(tip)) = Len(tip) - 1
    BY <1>1, <1>6, FrontFacts DEF BackupBlock
  <2> QED
    BY <1>1, <2>1, NothingUnflushed
<1>7. CASE MpStart \/ MpHashes \/ MpRetry
  BY <1>7, <1>a DEF MpStart, MpHashes, MpRetry, Processing
<1>8. CASE MpProcess
  <2>1. tip' = tip /\ dbTip' = dbTip /\ Len(dbTip) = Len(best)
    BY <1>8 DEF MpProcess
  <2>2. Len(tip') <= Len(dbTip')
    BY <1>1, <2>1
  <2> QED
    BY <2>2, NothingUnflushed
<1>9. CASE MpFetch \/ MpLookup \/ MpAccept
  BY <1>9, <1>a DEF MpFetch, MpLookup, MpAccept, Processing
<1>10. CASE on_mempool
  BY <1>10, AnnouncedOnMempool
<1>11. CASE UNCHANGED vars
  BY <1>11, <1>a DEF vars, Processing
<1> QED
  BY <1>2, <1>3, <1>4, <1>5, <1>6, <1>7, <1>8, <1>9, <1>10, <1>11
     DEF Next, ProcessBlocks, Refresh

\* After on_block, addresses that are not pending were told their status.
LEMMA ToldOnBlock ==
    ASSUME TypeInv, Reports, Informed, on_block, NEW x \in HashXs, x \notin Pending'
    PROVE  told'[x] = StatusOf(x, dbTip', txs')
<1> DEFINE bps == With(touchedBp, Len(tip), bpTouched)
<1>1. PICK at, xs : Out(at, xs, touchedMp, bps, dbTip')
  BY BlockOut
<1>2. /\ txs' = txs /\ touched' = touched /\ dbTip' \in {tip, dbTip}
  BY DEF on_block, mpVars
<1>3. /\ x \notin missed' /\ x \notin touched
      /\ x \notin Reported(touchedMp', DOMAIN touchedMp')
      /\ x \notin Reported(touchedBp', DOMAIN touchedBp')
  BY <1>2 DEF Pending
<1>4. CASE x \in xs
  BY <1>1, <1>2, <1>4 DEF Out
<1>5. CASE x \notin xs
  <2>1. /\ \A m \in DOMAIN touchedMp : x \notin touchedMp[m]
        /\ \A m \in DOMAIN bps : x \notin bps[m]
        /\ x \notin missed /\ x \notin Replaced(touchedBp, bps)
        /\ told'[x] = told[x]
    BY <1>1, <1>3, <1>5, OutUntold
  <2>2. ReportMap(touchedBp) /\ Len(tip) \in Nat /\ bpTouched \subseteq HashXs
    BY TypeFacts DEF TypeInv
  <2>3. /\ Len(tip) \in DOMAIN bps /\ bps[Len(tip)] = bpTouched
        /\ DOMAIN touchedBp \subseteq DOMAIN bps
    BY <2>2 DEF With
  <2> HIDE DEF bps
  <2>4. x \notin bpTouched /\ \A m \in DOMAIN touchedBp : x \notin touchedBp[m]
    BY <2>1, <2>3, ReplacedFacts
  <2>5. /\ x \notin Reported(touchedBp, DOMAIN touchedBp)
        /\ x \notin Reported(touchedMp, DOMAIN touchedMp)
    BY <2>1, <2>4 DEF Reported
  <2>6. x \notin Pending
    BY <1>3, <2>1, <2>4, <2>5 DEF Pending
  <2>7. told[x] = StatusOf(x, dbTip, txs)
    BY <2>6 DEF Informed
  <2>8. StatusOf(x, tip, txs) = StatusOf(x, dbTip, txs)
    BY <2>1, <2>4, <2>5, SameOnDisk
  <2> QED
    BY <1>2, <2>1, <2>7, <2>8
<1> QED
  BY <1>4, <1>5

\* After on_mempool too.
LEMMA ToldOnMempool ==
    ASSUME TypeInv, Reports, Informed, on_mempool, NEW x \in HashXs, x \notin Pending'
    PROVE  told'[x] = StatusOf(x, dbTip', txs')
<1> DEFINE mps == With(touchedMp, height, touched)
<1>1. PICK at, xs : Out(at, xs, mps, touchedBp, dbTip)
  BY MempoolOut
<1>2. UNCHANGED <<txs, dbTip, bpTouched>>
  BY DEF on_mempool, bpVars
<1>3. /\ x \notin missed' /\ x \notin bpTouched
      /\ x \notin Reported(touchedMp', DOMAIN touchedMp')
      /\ x \notin Reported(touchedBp', DOMAIN touchedBp')
  BY <1>2 DEF Pending
<1>4. CASE x \in xs
  BY <1>1, <1>2, <1>4 DEF Out
<1>5. CASE x \notin xs
  <2>1. /\ \A m \in DOMAIN mps : x \notin mps[m]
        /\ \A m \in DOMAIN touchedBp : x \notin touchedBp[m]
        /\ x \notin missed /\ x \notin Replaced(touchedMp, mps)
        /\ told'[x] = told[x]
    BY <1>1, <1>3, <1>5, OutUntold
  <2>2. ReportMap(touchedMp) /\ height \in Nat /\ touched \subseteq HashXs
    BY TypeFacts DEF TypeInv
  <2>3. /\ height \in DOMAIN mps /\ mps[height] = touched
        /\ DOMAIN touchedMp \subseteq DOMAIN mps
    BY <2>2 DEF With
  <2> HIDE DEF mps
  <2>4. x \notin touched /\ \A m \in DOMAIN touchedMp : x \notin touchedMp[m]
    BY <2>1, <2>3, ReplacedFacts
  <2>5. /\ x \notin Reported(touchedBp, DOMAIN touchedBp)
        /\ x \notin Reported(touchedMp, DOMAIN touchedMp)
    BY <2>1, <2>4 DEF Reported
  <2>6. x \notin Pending
    BY <1>3, <2>1, <2>4, <2>5 DEF Pending
  <2>7. told[x] = StatusOf(x, dbTip, txs)
    BY <2>6 DEF Informed
  <2> QED
    BY <1>2, <2>1, <2>7
<1> QED
  BY <1>4, <1>5

(* Second part of Informed: what has been told. *)
LEMMA ToldStep ==
    ASSUME TypeInv, Reports, Informed, [Next]_vars, NEW x \in HashXs, x \notin Pending'
    PROVE  told'[x] = StatusOf(x, dbTip', txs')
<1> USE DEF daemonVars, bpVars, mpVars, notifyVars
<1>1. tip \in Blocks /\ dbTip \in Blocks
  BY TypeParts DEF BpTyped
<1>a. ASSUME UNCHANGED <<dbTip, touchedMp, touchedBp, missed, told>>,
             bpTouched \subseteq bpTouched', touched \subseteq touched',
             x \notin TouchedBy(txs \ txs'), x \notin TouchedBy(txs' \ txs)
      PROVE  told'[x] = StatusOf(x, dbTip', txs')
  <2>1. x \notin Pending
    BY <1>a DEF Pending
  <2>2. told[x] = StatusOf(x, dbTip, txs)
    BY <2>1 DEF Informed
  <2> QED
    BY <1>a, <2>2, StatusOfOthers
<1>b. x \notin TouchedBy(txs \ txs)
  BY DEF TouchedBy
<1>2. CASE DaemonGrows \/ DaemonSwitches \/ TxArrives \/ PollHeight
  BY <1>2, <1>a, <1>b DEF DaemonGrows, DaemonSwitches, NewBest, TxArrives, PollHeight
<1>3. CASE Advance
  <2>1. bpTouched \subseteq bpTouched'
    BY <1>3 DEF Advance
  <2> QED
    BY <1>3, <1>a, <1>b, <2>1 DEF Advance
<1>4. CASE on_block
  BY <1>4, ToldOnBlock
<1>5. CASE StartReorg
  <2>1. /\ UNCHANGED <<bpTouched, touched, touchedMp, touchedBp, missed, told, txs>>
        /\ dbTip' = tip
    BY <1>5 DEF StartReorg
  <2>2. x \notin Pending
    BY <2>1 DEF Pending
  <2>3. told[x] = StatusOf(x, dbTip, txs)
    BY <2>2 DEF Informed
  <2>4. StatusOf(x, tip, txs) = StatusOf(x, dbTip, txs)
    BY <2>2, SameOnDisk DEF Pending
  <2> QED
    BY <2>1, <2>3, <2>4
<1>6. CASE BackupBlock
  <2> DEFINE t == Front(tip)
  <2>1. /\ UNCHANGED <<touched, touchedMp, touchedBp, missed, told, txs>>
        /\ dbTip' = t /\ bpTouched' = bpTouched \cup TouchedBy(Contents[Last(tip)])
        /\ dbTip = tip
    BY <1>6, TypeParts DEF BackupBlock, Chained
  <2>2. t \in Blocks
    BY <2>1, BpTypedStep DEF BpTyped
  <2>3. /\ Len(t) = Len(tip) - 1 /\ \A i \in 1 .. Len(t) : t[i] = tip[i]
        /\ Len(tip) \in Nat /\ t \in Seq(Names) /\ tip \in Seq(Names)
    BY <1>1, <2>2, FrontFacts, ChainFacts
  <2> HIDE DEF t
  <2>4. IsPrefix(t, tip)
    BY <2>3, PrefixFacts
  <2>5. x \notin Pending /\ x \notin TouchedBy(Contents[Last(tip)])
    BY <2>1 DEF Pending
  <2>6. \A i \in (Len(t) + 1) .. Len(tip) : x \notin TouchedBy(Contents[tip[i]])
    BY <2>3, <2>5 DEF Last
  <2>7. StatusOf(x, tip, txs) = StatusOf(x, t, txs)
    BY <1>1, <2>2, <2>4, <2>6, StatusOnLonger
  <2>8. told[x] = StatusOf(x, dbTip, txs)
    BY <2>5 DEF Informed
  <2> QED
    BY <2>1, <2>7, <2>8
<1>7. CASE MpStart \/ MpHashes \/ MpRetry \/ MpFetch \/ MpLookup
  BY <1>7, <1>a, <1>b DEF MpStart, MpHashes, MpRetry, MpFetch, MpLookup
<1>8. CASE MpProcess
  <2>1. /\ UNCHANGED <<dbTip, touchedMp, touchedBp, missed, told, bpTouched>>
        /\ txs' = txs \cap all /\ touched' = touched \cup TouchedBy(txs \ all)
    BY <1>8 DEF MpProcess
  <2>2. x \notin TouchedBy(txs \ all)
    BY <2>1 DEF Pending
  <2>3. txs \ txs' = txs \ all /\ txs' \ txs = {}
    BY <2>1
  <2>4. x \notin TouchedBy(txs \ txs') /\ x \notin TouchedBy(txs' \ txs)
    BY <2>2, <2>3 DEF TouchedBy
  <2> QED
    BY <1>a, <2>1, <2>4
<1>9. CASE MpAccept
  <2> DEFINE new == Accepted(fetched, found)
  <2>1. /\ UNCHANGED <<dbTip, touchedMp, touchedBp, missed, told, bpTouched>>
        /\ txs' = txs \cup new /\ touched' = touched \cup TouchedBy(new)
    BY <1>9 DEF MpAccept
  <2> HIDE DEF new
  <2>2. x \notin TouchedBy(new)
    BY <2>1 DEF Pending
  <2>3. txs \ txs' = {} /\ txs' \ txs \subseteq new
    BY <2>1
  <2>4. x \notin TouchedBy(txs \ txs') /\ x \notin TouchedBy(txs' \ txs)
    BY <2>2, <2>3 DEF TouchedBy
  <2> QED
    BY <1>a, <2>1, <2>4
<1>10. CASE on_mempool
  BY <1>10, ToldOnMempool
<1>11. CASE UNCHANGED vars
  BY <1>11, <1>a, <1>b DEF vars
<1> QED
  BY <1>2, <1>3, <1>4, <1>5, <1>6, <1>7, <1>8, <1>9, <1>10, <1>11
     DEF Next, ProcessBlocks, Refresh

\* Every step keeps the fourth layer.
LEMMA InformedStep == TypeInv /\ Reports /\ Informed /\ [Next]_vars => Informed'
<1> SUFFICES ASSUME TypeInv, Reports, Informed, [Next]_vars
             PROVE  Informed'
  OBVIOUS
<1>1. \A x \in HashXs : Unflushed(x)' => Announced(x)'
  BY AnnouncedStep
<1>2. \A x \in HashXs : x \notin Pending' => told'[x] = StatusOf(x, dbTip', txs')
  BY ToldStep
<1> QED
  BY <1>1, <1>2 DEF Informed

\* The four layers hold in every state.
LEMMA Inductive == Spec => []IInv
<1>1. Init => IInv
  BY TypeInit, ReportsInit, DisjointInit, InformedInit DEF IInv
<1>2. IInv /\ [Next]_vars => IInv'
  BY TypeStep, ReportsStep, DisjointStep, InformedStep DEF IInv
<1> QED
  BY <1>1, <1>2, PTL DEF Spec

(* When everything has come to rest a subscriber has been told the status of its
   address as it is, unless its last report is one that Notifications dropped or
   replaced, or sent before the DB held the block: every other way of changing a
   status, by a flush, a reorg or a refresh, leaves the address waiting in one of
   the five sets that a report empties. *)
THEOREM SubscribersAreTold == Spec => []ToldUnlessMissed
<1>1. IInv => ToldUnlessMissed
  <2> SUFFICES ASSUME Informed, Quiet, NEW x \in HashXs \ missed
               PROVE  told[x] = StatusNow[x]
    BY DEF IInv, ToldUnlessMissed
  <2>1. Pending = missed
    BY DEF Quiet, Pending, Reported
  <2>2. told[x] = StatusOf(x, dbTip, txs)
    BY <2>1 DEF Informed
  <2> QED
    BY <2>2 DEF StatusNow
<1> QED
  BY <1>1, Inductive, PTL
=============================================================================
