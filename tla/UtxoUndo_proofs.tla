--------------------------- MODULE UtxoUndo_proofs ---------------------------
(***************************************************************************)
(* Proofs about UtxoUndo: for every tree of blocks, every legal choice of  *)
(* their txs, and every schedule of advances, flushes, backups and crashes.*)
(* The loops over txs, inputs and outputs are folds: StepFold gives their  *)
(* values step by step, and an invariant of each loop is proved along them.*)
(***************************************************************************)
EXTENDS UtxoUndo, NaturalSets, FiniteSetTheorems, SequenceTheorems, TLAPS

----------------------------------------------------------------------------
(* ChainTxs on the tips below a height *)
Below(n) == {t \in Tips : Height[t] < n}
IsChain(f, n) ==
  f = [t \in Below(n) |->
         IF t = NoBlock THEN <<>> ELSE f[Parent[t]] \o BlockTxs[t]]

\* Heights of blocks are one above those of their parents, and NoBlock is below all.
LEMMA Heights ==
  /\ NoBlock \in Tips /\ NoBlock \notin Blocks
  /\ \A t \in Tips : Height[t] \in Int /\ Height[t] + 1 \in Nat
  /\ \A b \in Blocks : b \in Tips /\ b # NoBlock /\ Parent[b] \in Tips
                       /\ Height[Parent[b]] + 1 = Height[b]
  BY BlockAssumption DEF Tips

\* Each height has a chain function below it, which extends those of the heights below.
LEMMA ChainsExist ==
    ASSUME NEW n \in Nat
    PROVE  \E f : IsChain(f, n)
<1> DEFINE S == {k \in Nat : \E f : IsChain(f, k)}
<1>1. 0 \in S
  <2> DEFINE f == [t \in Below(0) |-> <<>>]
  <2>1. \A t \in Below(0) : t = NoBlock
    BY Heights, BlockAssumption DEF Below, Tips
  <2>2. IsChain(f, 0)
    BY <2>1 DEF IsChain
  <2> QED
    BY <2>2
<1>2. ASSUME NEW k \in 1 .. n, k - 1 \in S PROVE k \in S
  <2>1. PICK f : IsChain(f, k - 1)
    BY <1>2
  <2> DEFINE g == [t \in Below(k) |->
                     IF t = NoBlock THEN <<>> ELSE f[Parent[t]] \o BlockTxs[t]]
  <2>2. ASSUME NEW t \in Below(k), t # NoBlock PROVE f[Parent[t]] = g[Parent[t]]
    <3>1. t \in Blocks /\ Parent[t] \in Below(k - 1) /\ Parent[t] \in Below(k)
      BY <2>2, Heights DEF Below, Tips
    <3> QED
      BY <2>1, <3>1 DEF IsChain
  <2>3. IsChain(g, k)
    BY <2>2 DEF IsChain
  <2> QED
    BY <2>3
<1> HIDE DEF S
<1>3. n \in 0 .. n /\ \A k \in 1 .. n : k - 1 \in S => k \in S
  BY <1>2
<1>4. n \in S
  BY <1>1, <1>3, UpTo
<1> QED
  BY <1>4 DEF S

\* Two chain functions agree on the tips that both have.
LEMMA ChainsAgree ==
    ASSUME NEW n \in Nat, NEW m \in Nat, NEW f, NEW g, IsChain(f, n), IsChain(g, m)
    PROVE  \A t \in Below(n) \cap Below(m) : f[t] = g[t]
<1> DEFINE S == {k \in Nat : \A t \in Below(n) \cap Below(m) : Height[t] < k => f[t] = g[t]}
<1>1. 0 \in S
  <2>1. \A t \in Below(n) : Height[t] < 0 => t = NoBlock
    BY Heights, BlockAssumption DEF Below, Tips
  <2> QED
    BY <2>1 DEF IsChain
<1>2. ASSUME NEW k \in 1 .. n, k - 1 \in S PROVE k \in S
  <2>1. ASSUME NEW t \in Below(n) \cap Below(m), Height[t] < k, t # NoBlock
        PROVE  f[t] = g[t]
    <3>1. t \in Blocks /\ Parent[t] \in Below(n) \cap Below(m) /\ Height[Parent[t]] < k - 1
      BY <2>1, Heights DEF Below, Tips
    <3>2. f[Parent[t]] = g[Parent[t]]
      BY <1>2, <3>1
    <3> QED
      BY <2>1, <3>2 DEF IsChain
  <2>2. ASSUME NEW t \in Below(n) \cap Below(m), Height[t] < k, t = NoBlock
        PROVE  f[t] = g[t]
    BY <2>2 DEF IsChain
  <2> QED
    BY <2>1, <2>2
<1> HIDE DEF S
<1>3. n \in 0 .. n /\ \A k \in 1 .. n : k - 1 \in S => k \in S
  BY <1>2
<1>4. n \in S
  BY <1>1, <1>3, UpTo
<1> QED
  BY <1>4 DEF S, Below

\* ChainTxs is what its recursion says.
LEMMA ChainTxsIs ==
    ASSUME NEW t \in Tips
    PROVE  ChainTxs[t] = IF t = NoBlock THEN <<>> ELSE ChainTxs[Parent[t]] \o BlockTxs[t]
<1> DEFINE At(u) == CHOOSE f : IsChain(f, Height[u] + 1)
           c == [u \in Tips |-> At(u)[u]]
           Is(f) == f = [u \in Tips |->
                           IF u = NoBlock THEN <<>> ELSE f[Parent[u]] \o BlockTxs[u]]
<1>1. ASSUME NEW u \in Tips PROVE IsChain(At(u), Height[u] + 1) /\ u \in Below(Height[u] + 1)
  <2>1. Height[u] + 1 \in Nat
    BY Heights
  <2>2. \E f : IsChain(f, Height[u] + 1)
    BY <2>1, ChainsExist
  <2> QED
    BY <2>2, Heights DEF Below
<1>2. ASSUME NEW u \in Tips
      PROVE  c[u] = IF u = NoBlock THEN <<>> ELSE c[Parent[u]] \o BlockTxs[u]
  <2>1. CASE u = NoBlock
    <3> HIDE DEF At
    <3>1. At(u)[u] = <<>>
      BY <1>1, <2>1 DEF IsChain
    <3> QED
      BY <2>1, <3>1
  <2>2. CASE u # NoBlock
    <3>1. u \in Blocks /\ Parent[u] \in Tips /\ Height[Parent[u]] + 1 = Height[u]
      BY <2>2, Heights DEF Tips
    <3>2. /\ IsChain(At(u), Height[u] + 1) /\ u \in Below(Height[u] + 1)
          /\ IsChain(At(Parent[u]), Height[Parent[u]] + 1)
          /\ Parent[u] \in Below(Height[Parent[u]] + 1)
      BY <1>1, <3>1
    <3>3. Parent[u] \in Below(Height[u] + 1)
      BY <3>1, <3>2, Heights DEF Below
    <3>4. At(u)[u] = At(u)[Parent[u]] \o BlockTxs[u]
      BY <2>2, <3>2 DEF IsChain
    <3>5. Height[u] + 1 \in Nat /\ Height[Parent[u]] + 1 \in Nat
      BY <3>1, Heights
    <3> HIDE DEF At
    <3>6. At(u)[Parent[u]] = At(Parent[u])[Parent[u]]
      BY <3>2, <3>3, <3>5, ChainsAgree
    <3> QED
      BY <2>2, <3>1, <3>4, <3>6
  <2> QED
    BY <2>1, <2>2
<1>3. Is(c)
  <2> HIDE DEF At
  <2> QED
    BY <1>2
<1>4. ChainTxs = CHOOSE f : Is(f)
  BY DEF ChainTxs
<1>5. Is(ChainTxs)
  <2> HIDE DEF Is, c
  <2> QED
    BY <1>3, <1>4
<1> QED
  BY <1>5

----------------------------------------------------------------------------
(* The txs of a legal chain *)

First(t, n) == {ChainTxs[t][k] : k \in 1 .. n}
MadeBy(x) == {<<x, i - 1>> : i \in {j \in DOMAIN Outputs[x] : Outputs[x][j].indexable}}
Made(X) == UNION {MadeBy(x) : x \in X}
Used(X) == UNION {ToSet(Inputs[x]) : x \in X}
Left(X) == Made(X) \ Used(X)

\* There are no txs before the first block.
LEMMA ChainOfNoBlock ==
    \A S : ChainTxs[NoBlock] \in Seq(S) /\ ChainTxs[NoBlock] = <<>>
<1>1. ChainTxs[NoBlock] = <<>>
  BY ChainTxsIs, Heights
<1> QED
  BY <1>1

\* What the concatenation of two sequences holds.
LEMMA Concatenation ==
    ASSUME NEW S, NEW s \in Seq(S), NEW u \in Seq(S)
    PROVE  /\ s \o u \in Seq(S) /\ Len(s) \in Nat /\ Len(u) \in Nat
           /\ Len(s \o u) = Len(s) + Len(u)
           /\ \A n \in 1 .. Len(s) : (s \o u)[n] = s[n]
           /\ \A n \in 1 .. Len(u) : (s \o u)[Len(s) + n] = u[n]
OBVIOUS

\* The chain of a tip is a finite sequence of txs.
LEMMA ChainShape ==
    ASSUME NEW t \in Tips
    PROVE  ChainTxs[t] \in Seq(Txs) /\ tx_count(t) \in Nat /\ DOMAIN ChainTxs[t] = 1 .. tx_count(t)
<1> DEFINE S == {k \in Nat : \A u \in Tips : Height[u] < k => ChainTxs[u] \in Seq(Txs)}
<1>1. 0 \in S
  <2>1. \A u \in Tips : Height[u] < 0 => u = NoBlock
    BY Heights, BlockAssumption DEF Tips
  <2>2. ChainTxs[NoBlock] \in Seq(Txs)
    BY ChainOfNoBlock
  <2> QED
    BY <2>1, <2>2
<1>2. ASSUME NEW k \in 1 .. Height[t] + 1, k - 1 \in S PROVE k \in S
  <2>1. ASSUME NEW u \in Tips, Height[u] < k PROVE ChainTxs[u] \in Seq(Txs)
    <3>1. CASE u = NoBlock
      BY <3>1, ChainOfNoBlock
    <3>2. CASE u # NoBlock
      <4>1. Parent[u] \in Tips /\ Height[Parent[u]] < k - 1 /\ BlockTxs[u] \in Seq(Txs)
        BY <2>1, <3>2, Heights, TxAssumption DEF Tips
      <4>2. ChainTxs[Parent[u]] \in Seq(Txs)
        BY <1>2, <4>1
      <4>3. ChainTxs[u] = ChainTxs[Parent[u]] \o BlockTxs[u]
        BY <3>2, ChainTxsIs
      <4> QED
        BY <4>1, <4>2, <4>3, Concatenation
    <3> QED
      BY <3>1, <3>2
  <2> QED
    BY <2>1
<1> HIDE DEF S
<1>3. Height[t] + 1 \in Nat /\ Height[t] + 1 \in 0 .. Height[t] + 1
  BY Heights
<1>4. Height[t] + 1 \in S
  BY <1>1, <1>2, <1>3, UpTo
<1>5. ChainTxs[t] \in Seq(Txs)
  BY <1>4, Heights DEF S
<1> QED
  BY <1>5 DEF tx_count

\* A block's txs come after its parent's.
LEMMA ChainSteps ==
    ASSUME NEW b \in Blocks
    PROVE  /\ Len(BlockTxs[b]) \in Nat /\ tx_count(Parent[b]) \in Nat
           /\ tx_count(b) = tx_count(Parent[b]) + Len(BlockTxs[b])
           /\ \A n \in 1 .. tx_count(Parent[b]) : ChainTxs[b][n] = ChainTxs[Parent[b]][n]
           /\ \A n \in 1 .. Len(BlockTxs[b]) :
                ChainTxs[b][tx_count(Parent[b]) + n] = BlockTxs[b][n]
<1>1. ChainTxs[b] = ChainTxs[Parent[b]] \o BlockTxs[b]
  BY ChainTxsIs, Heights
<1>2. ChainTxs[Parent[b]] \in Seq(Txs) /\ BlockTxs[b] \in Seq(Txs)
  BY ChainShape, Heights, TxAssumption
<1> DEFINE p == ChainTxs[Parent[b]]
           s == BlockTxs[b]
<1> HIDE DEF p, s
<1>3. /\ Len(p) \in Nat /\ Len(s) \in Nat
      /\ Len(p \o s) = Len(p) + Len(s)
      /\ \A n \in 1 .. Len(p) : (p \o s)[n] = p[n]
      /\ \A n \in 1 .. Len(s) : (p \o s)[Len(p) + n] = s[n]
  <2>1. p \in Seq(Txs) /\ s \in Seq(Txs)
    BY <1>2 DEF p, s
  <2> QED
    BY <2>1
<1> QED
  BY <1>1, <1>3, Zenon DEF tx_count, p, s

\* NoBlock has no txs.
LEMMA NoTxs == tx_count(NoBlock) = 0 /\ TxsOf(NoBlock) = {}
  BY ChainTxsIs, Heights DEF tx_count, TxsOf, ToSet

\* The first txs of a chain, one by one: none, one more, all.
LEMMA FirstFacts ==
    ASSUME NEW t \in Tips
    PROVE  /\ First(t, 0) = {}
           /\ First(t, tx_count(t)) = TxsOf(t)
           /\ \A n \in 1 .. tx_count(t) : First(t, n) = First(t, n - 1) \cup {ChainTxs[t][n]}
  BY ChainShape DEF First, TxsOf, ToSet

\* A chain starts with the txs of its parent's chain.
LEMMA FirstOfParent ==
    ASSUME NEW b \in Blocks
    PROVE  First(b, tx_count(Parent[b])) = TxsOf(Parent[b])
<1>1. First(b, tx_count(Parent[b])) = First(Parent[b], tx_count(Parent[b]))
  BY ChainSteps DEF First
<1> QED
  BY <1>1, FirstFacts, Heights

\* What a tx of a legal chain adds to the unspent outputs and takes from them
LEMMA Legal ==
    ASSUME NEW t \in Tips, NEW n \in 1 .. tx_count(t)
    PROVE  LET x == ChainTxs[t][n]
               X == First(t, n - 1)
               ins == ToSet(Inputs[x])
           IN /\ x \in Txs /\ x \notin X
              /\ Inputs[x] \in Seq(Txs \X Nat)
              /\ ins \subseteq Left(X)
              /\ \A j, k \in DOMAIN Inputs[x] : Inputs[x][j] = Inputs[x][k] => j = k
              /\ MadeBy(x) \cap (Made(X) \cup Used(X) \cup ins) = {}
              /\ Left(X \cup {x}) = (Left(X) \ ins) \cup MadeBy(x)
              /\ Made(X \cup {x}) = Made(X) \cup MadeBy(x)
<1> DEFINE x == ChainTxs[t][n]
           X == First(t, n - 1)
           ins == ToSet(Inputs[x])
<1>1. t \in Blocks /\ n \in DOMAIN ChainTxs[t] /\ x \in Txs
  BY ChainShape, NoTxs DEF Tips
<1>2. /\ \A m \in 1..n - 1 : ChainTxs[t][m] # x
      /\ \A k \in DOMAIN Inputs[x] :
         /\ \E m \in 1..n - 1 : \E i \in DOMAIN Outputs[ChainTxs[t][m]] :
              /\ Inputs[x][k] = <<ChainTxs[t][m], i - 1>>
              /\ Outputs[ChainTxs[t][m]][i].indexable
         /\ \A j \in 1..k - 1 : Inputs[x][j] # Inputs[x][k]
         /\ \A m \in 1..n - 1 : Inputs[x][k] \notin ToSet(Inputs[ChainTxs[t][m]])
  BY <1>1, LegalAssumption
<1>3. x \notin X
  BY <1>2 DEF First
<1>4. Inputs[x] \in Seq(Txs \X Nat)
  BY <1>1, TxAssumption
<1>5. ASSUME NEW y \in X, NEW op \in ToSet(Inputs[y])
      PROVE  \E z \in X : op \in MadeBy(z)
  <2>1. PICK m \in 1 .. n - 1 : y = ChainTxs[t][m]
    BY DEF First
  <2>2. PICK k \in DOMAIN Inputs[y] : op = Inputs[y][k]
    BY DEF ToSet
  <2>3. m \in DOMAIN ChainTxs[t]
    BY <1>1, ChainShape
  <2>4. PICK j \in 1 .. m - 1 : \E i \in DOMAIN Outputs[ChainTxs[t][j]] :
              /\ Inputs[y][k] = <<ChainTxs[t][j], i - 1>>
              /\ Outputs[ChainTxs[t][j]][i].indexable
    BY <1>1, <2>1, <2>2, <2>3, LegalAssumption
  <2>5. op \in MadeBy(ChainTxs[t][j])
    BY <2>2, <2>4 DEF MadeBy
  <2>6. ChainTxs[t][j] \in X
    BY <2>4 DEF First
  <2> QED
    BY <2>5, <2>6
<1>6. ASSUME NEW op \in ins
      PROVE  op \in Left(X)
  <2>1. PICK k \in DOMAIN Inputs[x] : op = Inputs[x][k]
    BY DEF ToSet
  <2>2. PICK m \in 1 .. n - 1 : \E i \in DOMAIN Outputs[ChainTxs[t][m]] :
              /\ Inputs[x][k] = <<ChainTxs[t][m], i - 1>>
              /\ Outputs[ChainTxs[t][m]][i].indexable
    BY <1>2
  <2>3. op \in MadeBy(ChainTxs[t][m]) /\ ChainTxs[t][m] \in X
    BY <2>1, <2>2 DEF MadeBy, First
  <2>4. \A y \in X : op \notin ToSet(Inputs[y])
    BY <1>2, <2>1 DEF First
  <2> QED
    BY <2>3, <2>4 DEF Left, Made, Used
<1>7. \A j, k \in DOMAIN Inputs[x] : Inputs[x][j] = Inputs[x][k] => j = k
  <2>1. DOMAIN Inputs[x] \subseteq Nat \ {0}
    BY <1>4
  <2>2. \A j, k \in DOMAIN Inputs[x] : j < k => Inputs[x][j] # Inputs[x][k]
    BY <1>2, <2>1
  <2> QED
    BY <2>1, <2>2
<1>8. \A y \in X : MadeBy(y) \cap MadeBy(x) = {}
  BY <1>3 DEF MadeBy
<1>9. MadeBy(x) \cap Made(X) = {}
  BY <1>8 DEF Made
<1>10. Used(X) \subseteq Made(X)
  BY <1>5 DEF Used, Made
<1>11. ins \subseteq Made(X)
  BY <1>6 DEF Left
<1>12. Made(X \cup {x}) = Made(X) \cup MadeBy(x) /\ Used(X \cup {x}) = Used(X) \cup ins
  BY DEF Made, Used
<1> HIDE DEF x, X, ins
<1>13. MadeBy(x) \cap (Made(X) \cup Used(X) \cup ins) = {}
  BY <1>9, <1>10, <1>11
<1>14. Left(X \cup {x}) = (Left(X) \ ins) \cup MadeBy(x)
  BY <1>12, <1>13 DEF Left
<1>15. ins \subseteq Left(X)
  BY <1>6
<1> QED
  BY <1>1, <1>3, <1>4, <1>7, <1>12, <1>13, <1>14, <1>15 DEF x, X, ins

----------------------------------------------------------------------------
(* The loops of a block *)

SpendStep(c, d, w, op) == SpendInput(w, op)
AddStep(t, num, w, i) == AddOutput(w, t, num, i)
TxStep(b, d, w, n) == AdvanceTx(w, BlockTxs[b][n], tx_count(Parent[b]) + n - 1)
UndoStep(t, d, w, i) == UndoOutput(w, t, i)
RestoreStep(c, d, w, op) == RestoreInput(w, op)
BackStep(c, d, w, t) == BackupTx(w, t)

Spends == INSTANCE StepFold WITH Step <- SpendStep
Adds == INSTANCE StepFold WITH Step <- AddStep
TxLoop == INSTANCE StepFold WITH Step <- TxStep
Undos == INSTANCE StepFold WITH Step <- UndoStep
Restores == INSTANCE StepFold WITH Step <- RestoreStep
Backs == INSTANCE StepFold WITH Step <- BackStep

Upto(n) == [i \in 1 .. n |-> i]

\* What Upto(n) holds.
LEMMA UptoIs ==
    ASSUME NEW n \in Nat
    PROVE  Len(Upto(n)) = n /\ DOMAIN Upto(n) = 1 .. n /\ \A k \in 1 .. n : Upto(n)[k] = k
<1>1. Upto(n) \in Seq(Nat)
  BY DEF Upto
<1> QED
  BY DEF Upto

SpentAll(w, t) == FoldLeft(SpendInput, w, Inputs[t])
AddedAll(w, t, num) == FoldLeft(LAMBDA v, i : AddOutput(v, t, num, i), w, Upto(Len(Outputs[t])))
UndoneAll(w, t) == FoldLeft(LAMBDA v, i : UndoOutput(v, t, i), w, Upto(Len(Outputs[t])))
RestoredAll(w, t) == FoldLeft(RestoreInput, w, Reverse(Inputs[t]))

\* What the reverse of a sequence holds.
LEMMA ReverseIs ==
    ASSUME NEW S, NEW s \in Seq(S)
    PROVE  /\ Reverse(s) \in Seq(S) /\ Len(Reverse(s)) = Len(s) /\ Len(s) \in Nat
           /\ \A k \in 1 .. Len(s) : Reverse(s)[k] = s[Len(s) - k + 1]
<1>1. Reverse(s) \in Seq(S)
  BY DEF Reverse
<1> QED
  BY <1>1 DEF Reverse

\* Advancing a tx spends its inputs and then adds its outputs; backing it up undoes its
\* outputs and then restores its inputs.
LEMMA TxParts ==
    ASSUME NEW w, NEW t, NEW num
    PROVE  /\ AdvanceTx(w, t, num) = AddedAll(SpentAll(w, t), t, num)
           /\ BackupTx(w, t) = RestoredAll(UndoneAll(w, t), t)
  BY DEF AdvanceTx, AddedAll, SpentAll, BackupTx, RestoredAll, UndoneAll, Upto

\* The inputs of a tx are spent one after the other.
Spending(a, w, t) ==
  /\ a[0] = w
  /\ \A k \in 1 .. Len(Inputs[t]) : a[k] = SpendInput(a[k - 1], Inputs[t][k])
  /\ SpentAll(w, t) = a[Len(Inputs[t])]

\* The loop over the inputs of an advanced tx, value by value.
LEMMA SpendLoop ==
    ASSUME NEW w, NEW t \in Txs
    PROVE  \E a : Spending(a, w, t)
<1> DEFINE seq == Inputs[t]
<1>1. Len(seq) = Len(Inputs[t]) /\ Len(seq) \in Nat /\ DOMAIN seq = 1 .. Len(seq)
  BY TxAssumption
<1>2. PICK a : Spends!Loop(0, 0, w, seq, a)
  <2> HIDE DEF seq
  <2> QED
    BY <1>1, Spends!FoldsAre
<1>3. Spends!Fold(0, 0, w, seq) = SpentAll(w, t)
  BY DEF Spends!Fold, Spends!FoldLeft, FoldLeft, Spends!MapThenFoldSet, MapThenFoldSet,
         Spends!Max, Max, SpentAll, SpendStep
<1> HIDE DEF seq
<1>4. /\ a[0] = w
      /\ \A k \in 1 .. Len(seq) : a[k] = SpendStep(0, 0, a[k - 1], seq[k])
      /\ SpentAll(w, t) = a[Len(seq)]
  BY <1>2, <1>3 DEF Spends!Loop
<1>5. \A k \in 1 .. Len(Inputs[t]) : a[k] = SpendInput(a[k - 1], Inputs[t][k])
  BY <1>1, <1>4 DEF SpendStep, seq
<1> QED
  BY <1>1, <1>4, <1>5 DEF Spending

\* Its outputs are added one after the other.
Adding(a, w, t, num) ==
  /\ a[0] = w
  /\ \A k \in 1 .. Len(Outputs[t]) : a[k] = AddOutput(a[k - 1], t, num, k)
  /\ AddedAll(w, t, num) = a[Len(Outputs[t])]

\* The loop over the outputs of an advanced tx, value by value.
LEMMA AddLoop ==
    ASSUME NEW w, NEW t \in Txs, NEW num
    PROVE  \E a : Adding(a, w, t, num)
<1> DEFINE seq == Upto(Len(Outputs[t]))
<1>1. /\ Len(seq) = Len(Outputs[t]) /\ Len(seq) \in Nat /\ DOMAIN seq = 1 .. Len(seq)
      /\ \A k \in 1 .. Len(seq) : seq[k] = k
  BY TxAssumption, UptoIs
<1>2. PICK a : Adds!Loop(t, num, w, seq, a)
  <2> HIDE DEF seq
  <2> QED
    BY <1>1, Adds!FoldsAre
<1>3. Adds!Fold(t, num, w, seq) = AddedAll(w, t, num)
  BY DEF Adds!Fold, Adds!FoldLeft, FoldLeft, Adds!MapThenFoldSet, MapThenFoldSet, Adds!Max,
         Max, AddedAll, AddStep
<1> HIDE DEF seq
<1>4. /\ a[0] = w
      /\ \A k \in 1 .. Len(seq) : a[k] = AddStep(t, num, a[k - 1], seq[k])
      /\ AddedAll(w, t, num) = a[Len(seq)]
  BY <1>2, <1>3 DEF Adds!Loop
<1>5. \A k \in 1 .. Len(Outputs[t]) : a[k] = AddOutput(a[k - 1], t, num, k)
  BY <1>1, <1>4 DEF AddStep
<1> QED
  BY <1>1, <1>4, <1>5 DEF Adding

\* In a backup its outputs are undone one after the other,
Undoing(a, w, t) ==
  /\ a[0] = w
  /\ \A k \in 1 .. Len(Outputs[t]) : a[k] = UndoOutput(a[k - 1], t, k)
  /\ UndoneAll(w, t) = a[Len(Outputs[t])]

\* The loop over the outputs of a tx that is backed up, value by value.
LEMMA UndoLoop ==
    ASSUME NEW w, NEW t \in Txs
    PROVE  \E a : Undoing(a, w, t)
<1> DEFINE seq == Upto(Len(Outputs[t]))
<1>1. /\ Len(seq) = Len(Outputs[t]) /\ Len(seq) \in Nat /\ DOMAIN seq = 1 .. Len(seq)
      /\ \A k \in 1 .. Len(seq) : seq[k] = k
  BY TxAssumption, UptoIs
<1>2. PICK a : Undos!Loop(t, 0, w, seq, a)
  <2> HIDE DEF seq
  <2> QED
    BY <1>1, Undos!FoldsAre
<1>3. Undos!Fold(t, 0, w, seq) = UndoneAll(w, t)
  BY DEF Undos!Fold, Undos!FoldLeft, FoldLeft, Undos!MapThenFoldSet, MapThenFoldSet, Undos!Max,
         Max, UndoneAll, UndoStep
<1> HIDE DEF seq
<1>4. /\ a[0] = w
      /\ \A k \in 1 .. Len(seq) : a[k] = UndoStep(t, 0, a[k - 1], seq[k])
      /\ UndoneAll(w, t) = a[Len(seq)]
  BY <1>2, <1>3 DEF Undos!Loop
<1>5. \A k \in 1 .. Len(Outputs[t]) : a[k] = UndoOutput(a[k - 1], t, k)
  BY <1>1, <1>4 DEF UndoStep
<1> QED
  BY <1>1, <1>4, <1>5 DEF Undoing

\* and its inputs restored from the last to the first.
Restoring(a, w, t) ==
  /\ a[0] = w
  /\ \A k \in 1 .. Len(Inputs[t]) :
       a[k] = RestoreInput(a[k - 1], Inputs[t][Len(Inputs[t]) - k + 1])
  /\ RestoredAll(w, t) = a[Len(Inputs[t])]

\* The loop over the inputs of a tx that is backed up, value by value.
LEMMA RestoreLoop ==
    ASSUME NEW w, NEW t \in Txs
    PROVE  \E a : Restoring(a, w, t)
<1> DEFINE seq == Reverse(Inputs[t])
<1>1. /\ Len(seq) = Len(Inputs[t]) /\ Len(seq) \in Nat /\ DOMAIN seq = 1 .. Len(seq)
      /\ \A k \in 1 .. Len(seq) : seq[k] = Inputs[t][Len(Inputs[t]) - k + 1]
  BY TxAssumption, ReverseIs
<1>2. PICK a : Restores!Loop(0, 0, w, seq, a)
  <2> HIDE DEF seq
  <2> QED
    BY <1>1, Restores!FoldsAre
<1>3. Restores!Fold(0, 0, w, seq) = RestoredAll(w, t)
  BY DEF Restores!Fold, Restores!FoldLeft, FoldLeft, Restores!MapThenFoldSet, MapThenFoldSet,
         Restores!Max, Max, RestoredAll, RestoreStep
<1> HIDE DEF seq
<1>4. /\ a[0] = w
      /\ \A k \in 1 .. Len(seq) : a[k] = RestoreStep(0, 0, a[k - 1], seq[k])
      /\ RestoredAll(w, t) = a[Len(seq)]
  BY <1>2, <1>3 DEF Restores!Loop
<1>5. \A k \in 1 .. Len(Inputs[t]) :
                        a[k] = RestoreInput(a[k - 1], Inputs[t][Len(Inputs[t]) - k + 1])
  BY <1>1, <1>4 DEF RestoreStep
<1> QED
  BY <1>1, <1>4, <1>5 DEF Restoring

\* The txs of a block are advanced in order,
Advancing(a, w, b) ==
  /\ a[0] = w
  /\ \A k \in 1 .. Len(BlockTxs[b]) :
       a[k] = AdvanceTx(a[k - 1], BlockTxs[b][k], tx_count(Parent[b]) + k - 1)
  /\ AdvanceTxs(w, b) = a[Len(BlockTxs[b])]

\* The loop of advance_txs over the txs of a block, value by value.
LEMMA TxsLoop ==
    ASSUME NEW w, NEW b \in Blocks
    PROVE  \E a : Advancing(a, w, b)
<1> DEFINE seq == Upto(Len(BlockTxs[b]))
<1>1. /\ Len(seq) = Len(BlockTxs[b]) /\ Len(seq) \in Nat /\ DOMAIN seq = 1 .. Len(seq)
      /\ \A k \in 1 .. Len(seq) : seq[k] = k
  BY TxAssumption, UptoIs
<1>2. PICK a : TxLoop!Loop(b, 0, w, seq, a)
  <2> HIDE DEF seq
  <2> QED
    BY <1>1, TxLoop!FoldsAre
<1>3. TxLoop!Fold(b, 0, w, seq) = AdvanceTxs(w, b)
  BY DEF TxLoop!Fold, TxLoop!FoldLeft, FoldLeft, TxLoop!MapThenFoldSet, MapThenFoldSet,
         TxLoop!Max, Max, AdvanceTxs, TxStep, Upto
<1> HIDE DEF seq
<1>4. /\ a[0] = w
      /\ \A k \in 1 .. Len(seq) : a[k] = TxStep(b, 0, a[k - 1], seq[k])
      /\ AdvanceTxs(w, b) = a[Len(seq)]
  BY <1>2, <1>3 DEF TxLoop!Loop
<1>5. \A k \in 1 .. Len(BlockTxs[b]) :
                        a[k] = AdvanceTx(a[k - 1], BlockTxs[b][k], tx_count(Parent[b]) + k - 1)
  BY <1>1, <1>4 DEF TxStep
<1> QED
  BY <1>1, <1>4, <1>5 DEF Advancing

BackedAll(w, b) == FoldLeft(BackupTx, w, Reverse(BlockTxs[b]))

\* and backed up from the last to the first.
Backing(a, w, b) ==
  /\ a[0] = w
  /\ \A k \in 1 .. Len(BlockTxs[b]) :
       a[k] = BackupTx(a[k - 1], BlockTxs[b][Len(BlockTxs[b]) - k + 1])
  /\ BackedAll(w, b) = a[Len(BlockTxs[b])]

\* The loop of _backup_txs over the txs of a block, value by value.
LEMMA BackLoop ==
    ASSUME NEW w, NEW b \in Blocks
    PROVE  \E a : Backing(a, w, b)
<1> DEFINE seq == Reverse(BlockTxs[b])
<1>1. /\ Len(seq) = Len(BlockTxs[b]) /\ Len(seq) \in Nat /\ DOMAIN seq = 1 .. Len(seq)
      /\ \A k \in 1 .. Len(seq) : seq[k] = BlockTxs[b][Len(BlockTxs[b]) - k + 1]
  BY TxAssumption, ReverseIs
<1>2. PICK a : Backs!Loop(0, 0, w, seq, a)
  <2> HIDE DEF seq
  <2> QED
    BY <1>1, Backs!FoldsAre
<1>3. Backs!Fold(0, 0, w, seq) = BackedAll(w, b)
  BY DEF Backs!Fold, Backs!FoldLeft, FoldLeft, Backs!MapThenFoldSet, MapThenFoldSet, Backs!Max,
         Max, BackedAll, BackStep
<1> HIDE DEF seq
<1>4. /\ a[0] = w
      /\ \A k \in 1 .. Len(seq) : a[k] = BackStep(0, 0, a[k - 1], seq[k])
      /\ BackedAll(w, b) = a[Len(seq)]
  BY <1>2, <1>3 DEF Backs!Loop
<1>5. \A k \in 1 .. Len(BlockTxs[b]) :
                        a[k] = BackupTx(a[k - 1], BlockTxs[b][Len(BlockTxs[b]) - k + 1])
  BY <1>1, <1>4 DEF BackStep
<1> QED
  BY <1>1, <1>4, <1>5 DEF Backing

----------------------------------------------------------------------------
(* The rows of the unspent outputs *)

Val(t, op) == [hashX |-> Outputs[op[1]][op[2] + 1].hashX, num |-> NumOf(t, op[1])]
Row(t, op) == [prefix |-> HashPrefix[op[1]], idx |-> op[2], num |-> NumOf(t, op[1]),
               hashX |-> Outputs[op[1]][op[2] + 1].hashX]
Unspent(t) == Left(TxsOf(t))

\* t's chain begins b's
Begins(t, b) ==
  /\ tx_count(t) <= tx_count(b)
  /\ \A n \in 1 .. tx_count(t) : ChainTxs[b][n] = ChainTxs[t][n]

\* No tx is twice in a chain.
LEMMA Distinct ==
    ASSUME NEW t \in Tips, NEW m \in 1 .. tx_count(t), NEW n \in 1 .. tx_count(t),
           ChainTxs[t][m] = ChainTxs[t][n]
    PROVE  m = n
<1>0. tx_count(t) \in Nat
  BY ChainShape
<1>1. ASSUME NEW j \in 1 .. tx_count(t), NEW k \in 1 .. tx_count(t), j < k
      PROVE  ChainTxs[t][j] # ChainTxs[t][k]
  <2>1. ChainTxs[t][k] \notin First(t, k - 1)
    BY Legal
  <2>2. j \in 1 .. k - 1
    BY <1>0, <1>1
  <2> QED
    BY <2>1, <2>2 DEF First
<1> QED
  BY <1>0, <1>1

\* The number of a tx is its place in the chain.
LEMMA NumIs ==
    ASSUME NEW t \in Tips, NEW n \in 1 .. tx_count(t)
    PROVE  NumOf(t, ChainTxs[t][n]) = n - 1
<1> DEFINE P(k) == ChainTxs[t][k] = ChainTxs[t][n]
<1>1. NumOf(t, ChainTxs[t][n]) = (CHOOSE k \in 1 .. tx_count(t) : P(k)) - 1
  BY ChainShape DEF NumOf
<1>2. P(n) /\ \A k \in 1 .. tx_count(t) : P(k) => k = n
  BY Distinct
<1> HIDE DEF P
<1>3. (CHOOSE k \in 1 .. tx_count(t) : P(k)) = n
  BY <1>2
<1> QED
  BY <1>1, <1>3

\* Each tx of a chain is found at its number.
LEMMA NumOfTx ==
    ASSUME NEW t \in Tips, NEW x \in TxsOf(t)
    PROVE  /\ NumOf(t, x) \in Nat /\ NumOf(t, x) + 1 \in 1 .. tx_count(t)
           /\ ChainTxs[t][NumOf(t, x) + 1] = x
<1>1. PICK n \in 1 .. tx_count(t) : x = ChainTxs[t][n]
  BY ChainShape DEF TxsOf, ToSet
<1>2. NumOf(t, x) = n - 1
  BY <1>1, NumIs
<1> QED
  BY <1>1, <1>2, ChainShape

\* A tx keeps its number in a chain that extends the one it is in.
LEMMA NumSame ==
    ASSUME NEW t \in Tips, NEW b \in Tips, Begins(t, b), NEW x \in TxsOf(t)
    PROVE  x \in TxsOf(b) /\ NumOf(b, x) = NumOf(t, x)
<1>1. PICK n \in 1 .. tx_count(t) : x = ChainTxs[t][n]
  BY ChainShape DEF TxsOf, ToSet
<1>2. n \in 1 .. tx_count(b) /\ ChainTxs[b][n] = x
  BY <1>1, ChainShape DEF Begins
<1>3. NumOf(b, x) = n - 1 /\ NumOf(t, x) = n - 1
  BY <1>1, <1>2, NumIs
<1> QED
  BY <1>2, <1>3, ChainShape DEF TxsOf, ToSet

\* The txs of a chain are txs.
LEMMA TxsHaveIO == \A t \in Tips : TxsOf(t) \subseteq Txs
  BY ChainShape DEF TxsOf, ToSet

\* An outpoint that txs made is an indexable output of one of them.
LEMMA MadeIs ==
    ASSUME NEW X
    PROVE  \A op \in Made(X) :
             \E i \in DOMAIN Outputs[op[1]] :
               /\ op[1] \in X /\ op = <<op[1], i - 1>> /\ Outputs[op[1]][i].indexable
  BY DEF Made, MadeBy

\* An outpoint that the txs of a chain made: its tx, its index and its output.
LEMMA MadeOutput ==
    ASSUME NEW t \in Tips, NEW op \in Made(TxsOf(t))
    PROVE  /\ op = <<op[1], op[2]>> /\ op[1] \in TxsOf(t) /\ op[1] \in Txs
           /\ op[2] \in Nat /\ op[2] + 1 \in DOMAIN Outputs[op[1]]
           /\ Outputs[op[1]][op[2] + 1].indexable
           /\ Outputs[op[1]][op[2] + 1].hashX \in HashXs
<1>1. PICK i \in DOMAIN Outputs[op[1]] :
        /\ op[1] \in TxsOf(t) /\ op = <<op[1], i - 1>> /\ Outputs[op[1]][i].indexable
  BY MadeIs
<1>2. op[1] \in Txs
  BY <1>1, TxsHaveIO
<1>3. i \in 1 .. Len(Outputs[op[1]]) /\ Len(Outputs[op[1]]) \in Nat
  BY <1>2, TxAssumption
<1>4. op[2] = i - 1
  BY <1>1
<1>5. op[2] \in Nat /\ op[2] + 1 = i
  BY <1>3, <1>4
<1> QED
  BY <1>1, <1>2, <1>4, <1>5, TxAssumption

\* A UTXO has the same row in a chain that extends the one it is in.
LEMMA RowSame ==
    ASSUME NEW t \in Tips, NEW b \in Tips, Begins(t, b), NEW op \in Made(TxsOf(t))
    PROVE  Row(b, op) = Row(t, op) /\ Val(b, op) = Val(t, op) /\ op \in Made(TxsOf(b))
<1>1. op[1] \in TxsOf(t)
  BY MadeOutput
<1>2. NumOf(b, op[1]) = NumOf(t, op[1])
  BY <1>1, NumSame
<1>3. op \in Made(TxsOf(b))
  BY NumSame DEF Made
<1> QED
  BY <1>2, <1>3 DEF Row, Val

\* The row of an unspent output names it.
LEMMA RowNames ==
    ASSUME NEW t \in Tips, NEW p \in Made(TxsOf(t)), NEW q \in Made(TxsOf(t)),
           NumOf(t, p[1]) = NumOf(t, q[1]), p[2] = q[2]
    PROVE  p = q
<1>1. p[1] \in TxsOf(t) /\ q[1] \in TxsOf(t) /\ p = <<p[1], p[2]>> /\ q = <<q[1], q[2]>>
  BY MadeOutput
<1>2. p[1] = q[1]
  BY <1>1, NumOfTx
<1> QED
  BY <1>1, <1>2

\* Two UTXOs have two rows.
LEMMA RowInjective ==
    ASSUME NEW t \in Tips, NEW p \in Made(TxsOf(t)), NEW q \in Made(TxsOf(t)),
           Row(t, p) = Row(t, q)
    PROVE  p = q
<1>1. Row(t, p).num = Row(t, q).num /\ Row(t, p).idx = Row(t, q).idx
  OBVIOUS
<1>2. NumOf(t, p[1]) = NumOf(t, q[1]) /\ p[2] = q[2]
  BY <1>1 DEF Row
<1> QED
  BY <1>2, RowNames

----------------------------------------------------------------------------
(* Finding a row: spend_utxo *)

\* the tables of the UTXO DB are those of its tip
Stored ==
  /\ dbTip \in Tips
  /\ db.hu = {Row(dbTip, op) : op \in Unspent(dbTip)}
  /\ \A n \in 1 .. tx_count(dbTip) : db.hashes[n - 1] = ChainTxs[dbTip][n]

\* A row of the DB is that of an unspent output of the chain of its tip, and the hashes
\* file has its tx at its tx number.
LEMMA RowOf ==
    ASSUME Stored, NEW r \in db.hu
    PROVE  \E op \in Unspent(dbTip) :
             /\ r = Row(dbTip, op) /\ op \in Made(TxsOf(dbTip))
             /\ r.num = NumOf(dbTip, op[1]) /\ r.idx = op[2]
             /\ r.prefix = HashPrefix[op[1]]
             /\ db.hashes[r.num] = op[1]
             /\ r.num \in 0 .. tx_count(dbTip) - 1
<1>1. PICK op \in Unspent(dbTip) : r = Row(dbTip, op)
  BY DEF Stored
<1>2. op \in Made(TxsOf(dbTip)) /\ dbTip \in Tips
  BY DEF Unspent, Left, Stored
<1>3. op[1] \in TxsOf(dbTip)
  BY <1>2, MadeOutput
<1>4. /\ NumOf(dbTip, op[1]) + 1 \in 1 .. tx_count(dbTip) /\ NumOf(dbTip, op[1]) \in Nat
      /\ ChainTxs[dbTip][NumOf(dbTip, op[1]) + 1] = op[1]
  BY <1>2, <1>3, NumOfTx
<1>5. db.hashes[NumOf(dbTip, op[1]) + 1 - 1] = op[1]
  BY <1>4 DEF Stored
<1>6. /\ NumOf(dbTip, op[1]) + 1 - 1 = NumOf(dbTip, op[1])
      /\ NumOf(dbTip, op[1]) \in 0 .. tx_count(dbTip) - 1
  BY <1>4, <1>2, ChainShape
<1> QED
  BY <1>1, <1>2, <1>5, <1>6 DEF Row

\* A finite set with two members has more than one.
LEMMA OneOfMany ==
    ASSUME NEW C, IsFiniteSet(C), NEW r \in C, NEW s \in C, r # s
    PROVE  Cardinality(C) > 1
<1>1. IsFiniteSet({r}) /\ Cardinality({r}) = 1
  BY FS_Singleton
<1>2. IsFiniteSet({r} \cup {s}) /\ Cardinality({r} \cup {s}) = Cardinality({r}) + 1
  BY <1>1, FS_AddElement
<1>3. {r} \cup {s} \subseteq C
  OBVIOUS
<1>4. Cardinality({r} \cup {s}) <= Cardinality(C) /\ Cardinality(C) \in Nat
  BY <1>3, FS_Subset, FS_CardinalityType
<1> QED
  BY <1>1, <1>2, <1>4

\* The candidate rows of a lookup are finitely many, as there are finitely many tx numbers.
LEMMA CandidatesFinite ==
    ASSUME Stored, NEW op
    PROVE  IsFiniteSet(Candidates(op))
<1> DEFINE C == Candidates(op)
           S == {r.num : r \in C}
           f == [n \in S |-> CHOOSE r \in C : r.num = n]
<1>1. S \subseteq 0 .. tx_count(dbTip) - 1
  BY RowOf DEF Candidates
<1>2. tx_count(dbTip) \in Nat
  BY ChainShape DEF Stored
<1>3. IsFiniteSet(0 .. tx_count(dbTip) - 1)
  BY <1>2, FS_Interval
<1>4. IsFiniteSet(S)
  BY <1>1, <1>3, FS_Subset
<1>5. ASSUME NEW r \in C, NEW s \in C, r.num = s.num PROVE r = s
  <2>1. PICK p \in Unspent(dbTip) : /\ r = Row(dbTip, p) /\ p \in Made(TxsOf(dbTip))
                                    /\ r.num = NumOf(dbTip, p[1]) /\ r.idx = p[2]
    BY RowOf DEF Candidates
  <2>2. PICK q \in Unspent(dbTip) : /\ s = Row(dbTip, q) /\ q \in Made(TxsOf(dbTip))
                                    /\ s.num = NumOf(dbTip, q[1]) /\ s.idx = q[2]
    BY RowOf DEF Candidates
  <2>3. p[2] = q[2]
    BY <2>1, <2>2 DEF Candidates
  <2>4. p = q
    BY <1>5, <2>1, <2>2, <2>3, RowNames DEF Stored
  <2> QED
    BY <2>1, <2>2, <2>4
<1>6. f \in Surjection(S, C)
  <2>1. \A n \in S : f[n] \in C /\ f[n].num = n
    OBVIOUS
  <2>2. \A r \in C : r.num \in S /\ f[r.num] = r
    BY <1>5, <2>1
  <2>3. f \in [S -> C]
    BY <2>1
  <2> HIDE DEF f, S, C
  <2> QED
    BY <2>2, <2>3 DEF Surjection
<1> QED
  <2> HIDE DEF f, S
  <2> QED
    BY <1>4, <1>6, FS_Surjection

\* The row of an unspent output is the one that its lookup finds.
LEMMA RowFound ==
    ASSUME Stored, NEW op \in Unspent(dbTip)
    PROVE  Matching(op) = {Row(dbTip, op)}
<1> DEFINE row == Row(dbTip, op)
<1>1. row \in db.hu
  BY DEF Stored
<1>2. op \in Made(TxsOf(dbTip)) /\ dbTip \in Tips
  BY DEF Unspent, Left, Stored
<1>3. row.prefix = HashPrefix[op[1]] /\ row.idx = op[2] /\ row.num = NumOf(dbTip, op[1])
  BY DEF Row
<1>4. row \in Candidates(op)
  BY <1>1, <1>3 DEF Candidates
<1>5. db.hashes[row.num] = op[1]
  <2>1. PICK p \in Unspent(dbTip) :
          row = Row(dbTip, p) /\ p \in Made(TxsOf(dbTip)) /\ db.hashes[row.num] = p[1]
    BY <1>1, RowOf
  <2>2. p = op
    BY <1>2, <2>1, RowInjective
  <2> QED
    BY <2>1, <2>2
<1>6. row \in Matching(op)
  BY <1>4, <1>5 DEF Matching
<1>7. ASSUME NEW r \in Matching(op) PROVE r = row
  <2>1. SUFFICES ASSUME r # row PROVE FALSE
    OBVIOUS
  <2>2. r \in Candidates(op)
    BY DEF Matching
  <2>3. Cardinality(Candidates(op)) > 1
    BY <1>4, <2>1, <2>2, CandidatesFinite, OneOfMany
  <2>4. db.hashes[r.num] = op[1]
    BY <2>3 DEF Matching
  <2>5. r \in db.hu /\ r.idx = op[2]
    BY <2>2 DEF Candidates
  <2>6. PICK q \in Unspent(dbTip) : /\ r = Row(dbTip, q) /\ q \in Made(TxsOf(dbTip))
                                    /\ r.idx = q[2] /\ db.hashes[r.num] = q[1]
    BY <2>5, RowOf
  <2>7. q[1] = op[1] /\ q[2] = op[2]
    BY <2>4, <2>5, <2>6
  <2>8. q = op
    BY <1>2, <2>6, <2>7, MadeOutput
  <2> QED
    BY <2>1, <2>6, <2>8
<1> QED
  <2> HIDE DEF row
  <2>1. Matching(op) = {row}
    BY <1>6, <1>7
  <2> QED
    BY <2>1 DEF row

----------------------------------------------------------------------------
(* What the caches hold while a block is advanced or backed up *)

Fields == DOMAIN NoMem \cup DOMAIN Scratch

\* The names of the caches.
LEMMA FieldsAre ==
  /\ Fields = {"utxos", "refs", "mints", "locs", "deletes", "undo_infos", "loc_undo_infos",
               "headers", "undo", "loc_undo", "minted", "failed"}
  /\ DOMAIN NoMem = {"utxos", "refs", "mints", "locs", "deletes", "undo_infos",
                     "loc_undo_infos", "headers"}
  BY DEF Fields, NoMem, Scratch

\* The unspent outputs are U: those of the DB are there unless they are marked for
\* deletion, the others are cached with their tx numbers in the chain of b.
Kept(w, b, U) ==
  /\ DOMAIN w = Fields
  /\ w.failed = FALSE
  /\ DOMAIN w.utxos = U \ Unspent(dbTip)
  /\ \A op \in DOMAIN w.utxos : w.utxos[op] = Val(b, op)
  /\ \A op \in Unspent(dbTip) : <<"hu", Row(dbTip, op)>> \in w.deletes <=> op \notin U

\* v has the caches of w that a flush writes and the loop of a block leaves alone.
Untouched(v, w) ==
  /\ v.headers = w.headers /\ v.undo_infos = w.undo_infos
  /\ v.loc_undo_infos = w.loc_undo_infos

\* v differs from w in the UTXO cache and in the rows marked for deletion only.
SpentOnly(v, w) ==
  /\ \A f \in Fields \ {"utxos", "deletes"} : v[f] = w[f]
  /\ \E R : v.deletes = w.deletes \cup {<<"hu", r>> : r \in R}

\* spend_utxo of an unspent output finds its value, in the cache or in the DB, and leaves
\* the other unspent outputs.
LEMMA SpendKeeps ==
    ASSUME Stored, NEW b \in Tips, Begins(dbTip, b), NEW w, NEW U, Kept(w, b, U),
           NEW op \in U
    PROVE  /\ Kept(spend_utxo(w, op), b, U \ {op})
           /\ Spendable(w, op) /\ UtxoOf(w, op) = Val(b, op)
           /\ SpentOnly(spend_utxo(w, op), w)
<1> DEFINE v == spend_utxo(w, op)
<1>1. CASE op \in DOMAIN w.utxos
  <2>1. v = [w EXCEPT !.utxos = Without(@, {op})]
    BY <1>1 DEF spend_utxo
  <2> HIDE DEF v
  <2>2. DOMAIN w = Fields /\ "utxos" \in Fields /\ "deletes" \in Fields /\ "failed" \in Fields
    BY FieldsAre DEF Kept
  <2>3. DOMAIN v = Fields /\ v.utxos = Without(w.utxos, {op}) /\ v.deletes = w.deletes
        /\ \A f \in Fields \ {"utxos"} : v[f] = w[f]
    BY <2>1, <2>2
  <2>4. op \notin Unspent(dbTip)
    BY <1>1 DEF Kept
  <2>5. /\ DOMAIN v.utxos = DOMAIN w.utxos \ {op}
        /\ \A p \in DOMAIN v.utxos : v.utxos[p] = w.utxos[p]
    BY <2>3 DEF Without
  <2>6. Kept(v, b, U \ {op})
    <3>1. DOMAIN v.utxos = (U \ {op}) \ Unspent(dbTip)
      BY <2>5 DEF Kept
    <3>2. \A p \in DOMAIN v.utxos : v.utxos[p] = Val(b, p)
      BY <2>5 DEF Kept
    <3>3. \A p \in Unspent(dbTip) : <<"hu", Row(dbTip, p)>> \in v.deletes <=> p \notin U \ {op}
      BY <2>3, <2>4 DEF Kept
    <3>4. v.failed = FALSE
      BY <2>2, <2>3 DEF Kept
    <3> QED
      BY <2>3, <3>1, <3>2, <3>3, <3>4 DEF Kept
  <2>7. SpentOnly(v, w)
    <3>1. v.deletes = w.deletes \cup {<<"hu", r>> : r \in {}}
      BY <2>3
    <3> QED
      BY <2>3, <3>1 DEF SpentOnly
  <2>8. Spendable(w, op) /\ UtxoOf(w, op) = Val(b, op)
    BY <1>1 DEF Spendable, UtxoOf, Kept
  <2> QED
    BY <2>6, <2>7, <2>8 DEF v
<1>2. CASE op \notin DOMAIN w.utxos
  <2>1. op \in Unspent(dbTip)
    BY <1>2 DEF Kept
  <2>2. Matching(op) = {Row(dbTip, op)}
    BY <2>1, RowFound
  <2>3. (CHOOSE r \in Matching(op) : TRUE) = Row(dbTip, op)
    BY <2>2
  <2>4. v = [w EXCEPT !.deletes = @ \cup {<<"hu", Row(dbTip, op)>>}]
    BY <1>2, <2>2, <2>3 DEF spend_utxo
  <2> HIDE DEF v
  <2>5. DOMAIN w = Fields /\ "utxos" \in Fields /\ "deletes" \in Fields /\ "failed" \in Fields
    BY FieldsAre DEF Kept
  <2>6. /\ DOMAIN v = Fields /\ v.utxos = w.utxos
        /\ v.deletes = w.deletes \cup {<<"hu", Row(dbTip, op)>>}
        /\ \A f \in Fields \ {"deletes"} : v[f] = w[f]
    BY <2>4, <2>5
  <2>7. dbTip \in Tips /\ \A p \in Unspent(dbTip) : p \in Made(TxsOf(dbTip))
    BY DEF Stored, Unspent, Left
  <2>8. ASSUME NEW p \in Unspent(dbTip)
        PROVE  <<"hu", Row(dbTip, p)>> \in v.deletes <=> p \notin U \ {op}
    <3>1. Row(dbTip, p) = Row(dbTip, op) <=> p = op
      BY <2>1, <2>7, RowInjective
    <3>2. <<"hu", Row(dbTip, p)>> \in v.deletes
            <=> <<"hu", Row(dbTip, p)>> \in w.deletes \/ Row(dbTip, p) = Row(dbTip, op)
      BY <2>6
    <3>3. <<"hu", Row(dbTip, p)>> \in w.deletes <=> p \notin U
      BY DEF Kept
    <3> QED
      BY <3>1, <3>2, <3>3
  <2>9. Kept(v, b, U \ {op})
    <3>1. DOMAIN v.utxos = (U \ {op}) \ Unspent(dbTip)
      BY <2>1, <2>6 DEF Kept
    <3>2. \A p \in DOMAIN v.utxos : v.utxos[p] = Val(b, p)
      BY <2>6 DEF Kept
    <3>3. v.failed = FALSE
      BY <2>5, <2>6 DEF Kept
    <3> QED
      BY <2>6, <2>8, <3>1, <3>2, <3>3 DEF Kept
  <2>10. SpentOnly(v, w)
    <3>1. v.deletes = w.deletes \cup {<<"hu", r>> : r \in {Row(dbTip, op)}}
      BY <2>6
    <3> QED
      BY <2>6, <3>1 DEF SpentOnly
  <2>11. Spendable(w, op)
    BY <2>2 DEF Spendable
  <2>12. UtxoOf(w, op) = [hashX |-> Row(dbTip, op).hashX, num |-> Row(dbTip, op).num]
    BY <1>2, <2>3 DEF UtxoOf
  <2>13. Val(b, op) = Val(dbTip, op)
    BY <2>1, <2>7, RowSame
  <2>14. UtxoOf(w, op) = Val(b, op)
    BY <2>12, <2>13 DEF Row, Val
  <2> QED
    BY <2>9, <2>10, <2>11, <2>14 DEF v
<1> QED
  BY <1>1, <1>2

----------------------------------------------------------------------------
(* Undo values *)

Values == [hashX : HashXs, num : Nat]

\* u is s and then the values of the first k inputs of tx x in the chain of b
UndoIs(u, s, b, x, k) ==
  /\ u \in Seq(Values) /\ s \in Seq(Values)
  /\ Len(u) = Len(s) + k
  /\ \A j \in 1 .. Len(s) : u[j] = s[j]
  /\ \A j \in 1 .. k : u[Len(s) + j] = Val(b, Inputs[x][j])

\* The value of an unspent output is an undo value.
LEMMA ValIs ==
    ASSUME NEW t \in Tips, NEW op \in Made(TxsOf(t))
    PROVE  Val(t, op) \in Values
<1>1. op[1] \in TxsOf(t) /\ Outputs[op[1]][op[2] + 1].hashX \in HashXs
  BY MadeOutput
<1>2. NumOf(t, op[1]) \in Nat
  BY <1>1, NumOfTx
<1> QED
  BY <1>1, <1>2 DEF Val, Values

\* No undo values are those of no inputs.
LEMMA UndoNone ==
    ASSUME NEW s \in Seq(Values), NEW b, NEW y
    PROVE  UndoIs(s, s, b, y, 0)
  BY DEF UndoIs

\* Without the values of its inputs the undo values are those before the tx.
LEMMA UndoAll ==
    ASSUME NEW u, NEW s, NEW b, NEW y, UndoIs(u, s, b, y, 0)
    PROVE  u = s
<1>1. u \in Seq(Values) /\ s \in Seq(Values) /\ Len(u) = Len(s) + 0
  BY DEF UndoIs
<1>2. \A j \in 1 .. Len(s) : u[j] = s[j]
  BY DEF UndoIs
<1>3. Len(u) = Len(s)
  BY <1>1
<1> QED
  BY <1>1, <1>2, <1>3, SeqEqual

\* Appending the value of the next input keeps the order of the undo values.
LEMMA UndoAppend ==
    ASSUME NEW u, NEW s, NEW b, NEW y, NEW k \in Nat, UndoIs(u, s, b, y, k),
           NEW val \in Values, val = Val(b, Inputs[y][k + 1])
    PROVE  UndoIs(Append(u, val), s, b, y, k + 1)
<1>1. /\ u \in Seq(Values) /\ s \in Seq(Values) /\ Len(u) = Len(s) + k /\ Len(s) \in Nat
      /\ Append(u, val) \in Seq(Values) /\ Len(Append(u, val)) = Len(u) + 1
  BY DEF UndoIs
<1>2. /\ \A j \in 1 .. Len(u) : Append(u, val)[j] = u[j]
      /\ Append(u, val)[Len(u) + 1] = val
  BY <1>1
<1>3. \A j \in 1 .. Len(s) : Append(u, val)[j] = s[j]
  BY <1>1, <1>2 DEF UndoIs
<1>4. ASSUME NEW j \in 1 .. k + 1 PROVE Append(u, val)[Len(s) + j] = Val(b, Inputs[y][j])
  <2>1. CASE j \in 1 .. k
    <3>1. Len(s) + j \in 1 .. Len(u)
      BY <1>1, <2>1
    <3> QED
      BY <1>2, <2>1, <3>1 DEF UndoIs
  <2>2. CASE j = k + 1
    <3>1. Len(s) + j = Len(u) + 1
      BY <1>1, <2>2
    <3> QED
      BY <1>2, <2>2, <3>1
  <2>3. j \in 1 .. k \/ j = k + 1
    OBVIOUS
  <2> QED
    BY <2>1, <2>2, <2>3, Zenon
<1>5. Len(Append(u, val)) = Len(s) + (k + 1)
  BY <1>1
<1> QED
  BY <1>1, <1>3, <1>4, <1>5 DEF UndoIs

\* The last undo value is that of the last input, and the rest are those of the others.
LEMMA UndoPop ==
    ASSUME NEW u, NEW s, NEW b, NEW y, NEW k \in Nat, k > 0, UndoIs(u, s, b, y, k)
    PROVE  u # <<>> /\ Last(u) = Val(b, Inputs[y][k]) /\ UndoIs(Front(u), s, b, y, k - 1)
<1>1. /\ u \in Seq(Values) /\ s \in Seq(Values) /\ Len(u) = Len(s) + k /\ Len(s) \in Nat
      /\ Len(u) \in Nat /\ Len(u) > 0
  BY DEF UndoIs
<1>2. Last(u) = Val(b, Inputs[y][k])
  BY <1>1 DEF UndoIs, Last
<1>3. Front(u) = SubSeq(u, 1, Len(u) - 1)
  BY DEF Front
<1>4. /\ Front(u) \in Seq(Values) /\ Len(Front(u)) = Len(u) - 1
      /\ \A j \in 1 .. Len(u) - 1 : Front(u)[j] = u[j]
  BY <1>1, <1>3
<1>5. Len(Front(u)) = Len(s) + (k - 1)
  BY <1>1, <1>4
<1>6. \A j \in 1 .. Len(s) : Front(u)[j] = s[j]
  <2>1. \A j \in 1 .. Len(s) : j \in 1 .. Len(u) - 1
    BY <1>1
  <2> QED
    BY <1>4, <2>1 DEF UndoIs
<1>7. \A j \in 1 .. k - 1 : Front(u)[Len(s) + j] = Val(b, Inputs[y][j])
  <2>1. \A j \in 1 .. k - 1 : Len(s) + j \in 1 .. Len(u) - 1 /\ j \in 1 .. k
    BY <1>1
  <2> QED
    BY <1>4, <2>1 DEF UndoIs
<1>8. u # <<>>
  BY <1>1
<1> QED
  BY <1>1, <1>2, <1>4, <1>5, <1>6, <1>7, <1>8 DEF UndoIs

----------------------------------------------------------------------------
(* Advancing *)

\* the txs that mint r, and the refs that are minted, among the outputs O
MintedBy(O, r) == {op[1] : op \in {p \in O : r \in RefsAt(p) /\ r \in ToSet(Inputs[p[1]])}}
MintedRefs(O) == {r \in UNION {RefsAt(op) : op \in O} : MintedBy(O, r) # {}}

\* The caches of the blocks since the last flush and of the part of block b that has
\* been advanced: the unspent outputs are U, the outputs of the chain O.
Advanced(w, b, U, O) ==
  /\ Kept(w, b, U)
  /\ db.ri \cup w.refs = {op \in O : RefsAt(op) # {}}
  /\ DOMAIN w.mints \cup DOMAIN db.rm = MintedRefs(O)
  /\ \A r \in DOMAIN w.mints : w.mints[r] \in MintedBy(O, r)
  /\ \A d \in w.deletes : d = <<"hu", d[2]>>

\* v has the undo values of w, and one more; v has those of w
OneMoreValue(v, w, val) == v.undo = Append(w.undo, val) /\ Untouched(v, w)
SameValues(v, w) == v.undo = w.undo /\ Untouched(v, w)

\* Spending an input leaves the caches advanced by it and notes its value.
LEMMA SpendInputAdvances ==
    ASSUME Stored, NEW b \in Tips, Begins(dbTip, b), NEW w, NEW U, NEW O, Advanced(w, b, U, O),
           NEW op \in U
    PROVE  /\ Advanced(SpendInput(w, op), b, U \ {op}, O)
           /\ OneMoreValue(SpendInput(w, op), w, Val(b, op))
<1> DEFINE s == spend_utxo(w, op)
           v == SpendInput(w, op)
<1>1. Kept(w, b, U)
  BY DEF Advanced
<1>2. /\ Kept(s, b, U \ {op})
      /\ Spendable(w, op) /\ UtxoOf(w, op) = Val(b, op)
      /\ SpentOnly(s, w)
  BY <1>1, SpendKeeps
<1>3. v = [s EXCEPT !.undo = Append(@, Val(b, op))]
  BY <1>2 DEF SpendInput
<1> HIDE DEF s, v
<1>4. DOMAIN s = Fields /\ "undo" \in Fields
  BY <1>2, FieldsAre DEF Kept
<1>5. /\ DOMAIN v = Fields /\ v.undo = Append(s.undo, Val(b, op))
      /\ \A f \in Fields \ {"undo"} : v[f] = s[f]
  BY <1>3, <1>4
<1>6. /\ v.utxos = s.utxos /\ v.deletes = s.deletes /\ v.failed = s.failed
      /\ v.refs = s.refs /\ v.mints = s.mints /\ v.headers = s.headers
      /\ v.undo_infos = s.undo_infos /\ v.loc_undo_infos = s.loc_undo_infos
  BY <1>5, FieldsAre
<1>7. /\ s.refs = w.refs /\ s.mints = w.mints /\ s.undo = w.undo /\ s.headers = w.headers
      /\ s.undo_infos = w.undo_infos /\ s.loc_undo_infos = w.loc_undo_infos
  BY <1>2, FieldsAre DEF SpentOnly
<1>8. Kept(v, b, U \ {op})
  BY <1>2, <1>5, <1>6 DEF Kept
<1>9. \A d \in v.deletes : d = <<"hu", d[2]>>
  <2>1. PICK R : s.deletes = w.deletes \cup {<<"hu", r>> : r \in R}
    BY <1>2 DEF SpentOnly
  <2> QED
    BY <1>6, <2>1 DEF Advanced
<1>10. Advanced(v, b, U \ {op}, O)
  BY <1>6, <1>7, <1>8, <1>9 DEF Advanced
<1> QED
  BY <1>5, <1>6, <1>7, <1>10 DEF v, OneMoreValue, Untouched

\* Adding an output leaves the caches advanced by it, with its refs and mints.
LEMMA AddOutputAdvances ==
    ASSUME Stored, NEW b \in Tips, Begins(dbTip, b), NEW w, NEW U, NEW O, Advanced(w, b, U, O),
           NEW n \in 1 .. tx_count(b), NEW x, x = ChainTxs[b][n], x \notin TxsOf(dbTip),
           NEW i \in DOMAIN Outputs[x], Outputs[x][i].indexable, NEW op, op = <<x, i - 1>>
    PROVE  /\ Advanced(AddOutput(w, x, n - 1, i), b, U \cup {op}, O \cup {op})
           /\ SameValues(AddOutput(w, x, n - 1, i), w)
<1> DEFINE v == AddOutput(w, x, n - 1, i)
           out == Outputs[x][i]
           spent == ToSet(Inputs[x])
           val == [hashX |-> out.hashX, num |-> n - 1]
           refs == (out.singletons \cup out.normals) \cap spent
<1>1. DOMAIN w = Fields
  BY DEF Advanced, Kept
<1>2. /\ DOMAIN v = Fields
      /\ v.utxos = With(w.utxos, op, val)
      /\ v.refs = IF out.singletons \cup out.normals = {} THEN w.refs ELSE w.refs \cup {op}
      /\ v.mints = Over([r \in refs |-> x], w.mints)
      /\ v.deletes = w.deletes /\ v.failed = w.failed /\ v.undo = w.undo
      /\ v.headers = w.headers /\ v.undo_infos = w.undo_infos
      /\ v.loc_undo_infos = w.loc_undo_infos
  BY <1>1, FieldsAre DEF AddOutput
<1>3. x \in Txs
  BY Legal
<1>4. i \in Nat /\ i - 1 \in Nat /\ i - 1 + 1 = i
  BY <1>3, TxAssumption
<1>5. op[1] = x /\ op[2] = i - 1 /\ op[2] + 1 = i
  BY <1>4
<1>6. RefsAt(op) = out.singletons \cup out.normals
  BY <1>5 DEF RefsAt
<1>7. Val(b, op) = val
  <2>1. NumOf(b, x) = n - 1
    BY NumIs
  <2> QED
    BY <1>5, <2>1 DEF Val
<1>8. op \notin Unspent(dbTip)
  <2>1. op[1] \notin TxsOf(dbTip)
    BY <1>5
  <2>2. dbTip \in Tips
    BY DEF Stored
  <2> QED
    BY <2>1, <2>2, MadeOutput DEF Unspent, Left
<1> HIDE DEF v, val, refs, out, spent
<1>9. /\ DOMAIN v.utxos = DOMAIN w.utxos \cup {op}
      /\ v.utxos[op] = val
      /\ \A p \in DOMAIN w.utxos : p # op => v.utxos[p] = w.utxos[p]
  BY <1>2 DEF With, Over
<1>10. Kept(v, b, U \cup {op})
  <2>1. DOMAIN v.utxos = (U \cup {op}) \ Unspent(dbTip)
    BY <1>8, <1>9 DEF Advanced, Kept
  <2>2. \A p \in DOMAIN v.utxos : v.utxos[p] = Val(b, p)
    BY <1>7, <1>9 DEF Advanced, Kept
  <2>3. \A p \in Unspent(dbTip) :
          <<"hu", Row(dbTip, p)>> \in v.deletes <=> p \notin U \cup {op}
    BY <1>2, <1>8 DEF Advanced, Kept
  <2> QED
    BY <1>2, <2>1, <2>2, <2>3 DEF Advanced, Kept
<1>11. db.ri \cup v.refs = {p \in O \cup {op} : RefsAt(p) # {}}
  <2>1. db.ri \cup w.refs = {p \in O : RefsAt(p) # {}}
    BY DEF Advanced
  <2>2. v.refs = IF RefsAt(op) = {} THEN w.refs ELSE w.refs \cup {op}
    BY <1>2, <1>6
  <2> QED
    BY <2>1, <2>2
<1>12. refs = RefsAt(op) \cap ToSet(Inputs[op[1]])
  BY <1>5, <1>6 DEF refs, spent
<1>13. /\ DOMAIN v.mints = refs \cup DOMAIN w.mints
       /\ \A r \in refs : v.mints[r] = x
       /\ \A r \in DOMAIN w.mints : r \notin refs => v.mints[r] = w.mints[r]
  BY <1>2 DEF Over
<1>14. \A r : MintedBy(O \cup {op}, r) = MintedBy(O, r) \cup (IF r \in refs THEN {x} ELSE {})
  BY <1>5, <1>12 DEF MintedBy
<1>15. MintedRefs(O \cup {op}) = MintedRefs(O) \cup refs
  <2>1. ASSUME NEW r \in MintedRefs(O \cup {op}) PROVE r \in MintedRefs(O) \cup refs
    <3>1. CASE r \in refs
      BY <3>1
    <3>2. CASE r \notin refs
      <4>1. MintedBy(O, r) # {}
        BY <1>14, <2>1, <3>2 DEF MintedRefs
      <4>2. \E p \in O : r \in RefsAt(p)
        BY <4>1 DEF MintedBy
      <4> QED
        BY <4>1, <4>2 DEF MintedRefs
    <3> QED
      BY <3>1, <3>2
  <2>2. ASSUME NEW r \in MintedRefs(O) PROVE r \in MintedRefs(O \cup {op})
    BY <1>14, <2>2 DEF MintedRefs
  <2>3. ASSUME NEW r \in refs PROVE r \in MintedRefs(O \cup {op})
    BY <1>12, <1>14, <2>3 DEF MintedRefs
  <2> QED
    BY <2>1, <2>2, <2>3
<1>16. DOMAIN v.mints \cup DOMAIN db.rm = MintedRefs(O \cup {op})
  BY <1>13, <1>15 DEF Advanced
<1>17. \A r \in DOMAIN v.mints : v.mints[r] \in MintedBy(O \cup {op}, r)
  BY <1>13, <1>14 DEF Advanced
<1>18. \A d \in v.deletes : d = <<"hu", d[2]>>
  BY <1>2 DEF Advanced
<1>19. Advanced(v, b, U \cup {op}, O \cup {op})
  BY <1>10, <1>11, <1>16, <1>17, <1>18 DEF Advanced
<1> QED
  BY <1>2, <1>19 DEF v, SameValues, Untouched

\* the outputs of tx x among its first i, and its inputs among its first k
MadeUpto(x, i) ==
  {<<x, j - 1>> : j \in {q \in DOMAIN Outputs[x] : Outputs[x][q].indexable /\ q <= i}}
SpentUpto(x, k) == {Inputs[x][j] : j \in 1 .. k}

\* The outputs and inputs of a tx, one by one: none, one more, all.
LEMMA UptoFacts ==
    ASSUME NEW x \in Txs
    PROVE  /\ Len(Inputs[x]) \in Nat /\ Len(Outputs[x]) \in Nat
           /\ MadeUpto(x, 0) = {} /\ MadeUpto(x, Len(Outputs[x])) = MadeBy(x)
           /\ SpentUpto(x, 0) = {} /\ SpentUpto(x, Len(Inputs[x])) = ToSet(Inputs[x])
           /\ \A k \in 1 .. Len(Inputs[x]) :
                /\ SpentUpto(x, k) = SpentUpto(x, k - 1) \cup {Inputs[x][k]}
                /\ Inputs[x][k] \in ToSet(Inputs[x]) /\ k \in DOMAIN Inputs[x]
           /\ \A i \in 1 .. Len(Outputs[x]) :
                /\ i \in DOMAIN Outputs[x]
                /\ ~Outputs[x][i].indexable => MadeUpto(x, i) = MadeUpto(x, i - 1)
                /\ Outputs[x][i].indexable =>
                     /\ MadeUpto(x, i) = MadeUpto(x, i - 1) \cup {<<x, i - 1>>}
                     /\ <<x, i - 1>> \in MadeBy(x) /\ <<x, i - 1>> \notin MadeUpto(x, i - 1)
<1>1. /\ Len(Inputs[x]) \in Nat /\ Len(Outputs[x]) \in Nat
      /\ DOMAIN Inputs[x] = 1 .. Len(Inputs[x]) /\ DOMAIN Outputs[x] = 1 .. Len(Outputs[x])
  BY TxAssumption
<1>2. MadeUpto(x, 0) = {} /\ MadeUpto(x, Len(Outputs[x])) = MadeBy(x)
  BY <1>1 DEF MadeUpto, MadeBy
<1>3. SpentUpto(x, 0) = {} /\ SpentUpto(x, Len(Inputs[x])) = ToSet(Inputs[x])
  BY <1>1 DEF SpentUpto, ToSet
<1>4. ASSUME NEW k \in 1 .. Len(Inputs[x])
      PROVE  /\ SpentUpto(x, k) = SpentUpto(x, k - 1) \cup {Inputs[x][k]}
             /\ Inputs[x][k] \in ToSet(Inputs[x]) /\ k \in DOMAIN Inputs[x]
  <2>1. 1 .. k = (1 .. k - 1) \cup {k}
    BY <1>1
  <2> QED
    BY <1>1, <2>1 DEF SpentUpto, ToSet
<1>5. ASSUME NEW i \in 1 .. Len(Outputs[x])
      PROVE  /\ i \in DOMAIN Outputs[x]
             /\ ~Outputs[x][i].indexable => MadeUpto(x, i) = MadeUpto(x, i - 1)
             /\ Outputs[x][i].indexable =>
                  /\ MadeUpto(x, i) = MadeUpto(x, i - 1) \cup {<<x, i - 1>>}
                  /\ <<x, i - 1>> \in MadeBy(x) /\ <<x, i - 1>> \notin MadeUpto(x, i - 1)
  <2>1. \A q \in DOMAIN Outputs[x] : q \in Int /\ (q <= i <=> q <= i - 1 \/ q = i)
    BY <1>1
  <2>2. i \in DOMAIN Outputs[x]
    BY <1>1
  <2>3. ASSUME ~Outputs[x][i].indexable PROVE MadeUpto(x, i) = MadeUpto(x, i - 1)
    BY <2>1, <2>3 DEF MadeUpto
  <2>4. ASSUME Outputs[x][i].indexable
        PROVE  MadeUpto(x, i) = MadeUpto(x, i - 1) \cup {<<x, i - 1>>}
    BY <2>1, <2>2, <2>4 DEF MadeUpto
  <2>5. ASSUME Outputs[x][i].indexable PROVE <<x, i - 1>> \in MadeBy(x)
    BY <2>2, <2>5 DEF MadeBy
  <2>6. <<x, i - 1>> \notin MadeUpto(x, i - 1)
    BY <2>1, <2>2 DEF MadeUpto
  <2> QED
    BY <2>2, <2>3, <2>4, <2>5, <2>6
<1> QED
  BY <1>1, <1>2, <1>3, <1>4, <1>5

\* tx x of the chain of b, after the txs X and before the tip of the DB
InChain(b, n, x, X) ==
  /\ b \in Tips /\ Begins(dbTip, b) /\ n \in 1 .. tx_count(b)
  /\ x = ChainTxs[b][n] /\ x \notin TxsOf(dbTip) /\ X = First(b, n - 1)

\* w when the first k inputs of x have been spent, or all and its first i outputs added
InputsSpent(v, w, b, x, X, k) ==
  /\ Advanced(v, b, Left(X) \ SpentUpto(x, k), Made(X))
  /\ UndoIs(v.undo, w.undo, b, x, k)
  /\ Untouched(v, w)
OutputsAdded(v, w, b, x, X, i) ==
  /\ Advanced(v, b, (Left(X) \ ToSet(Inputs[x])) \cup MadeUpto(x, i), Made(X) \cup MadeUpto(x, i))
  /\ UndoIs(v.undo, w.undo, b, x, Len(Inputs[x]))
  /\ Untouched(v, w)

\* The loop over the inputs, one step.
LEMMA OneMoreInput ==
    ASSUME Stored, NEW b, NEW n, NEW x, NEW X, InChain(b, n, x, X), NEW w, NEW p,
           NEW k \in 1 .. Len(Inputs[x]), InputsSpent(p, w, b, x, X, k - 1)
    PROVE  InputsSpent(SpendInput(p, Inputs[x][k]), w, b, x, X, k)
<1>1. /\ x \in Txs
      /\ ToSet(Inputs[x]) \subseteq Left(X)
      /\ \A i, j \in DOMAIN Inputs[x] : Inputs[x][i] = Inputs[x][j] => i = j
  BY Legal DEF InChain
<1>2. PICK op : op = Inputs[x][k]
  OBVIOUS
<1>3. /\ SpentUpto(x, k) = SpentUpto(x, k - 1) \cup {op}
      /\ op \in ToSet(Inputs[x]) /\ k \in DOMAIN Inputs[x] /\ Len(Inputs[x]) \in Nat
      /\ DOMAIN Inputs[x] = 1 .. Len(Inputs[x])
  BY <1>1, <1>2, UptoFacts, TxAssumption
<1>4. op \notin SpentUpto(x, k - 1)
  <2>1. \A j \in 1 .. k - 1 : j \in DOMAIN Inputs[x] /\ j # k
    BY <1>3
  <2> QED
    BY <1>1, <1>2, <1>3, <2>1 DEF SpentUpto
<1>5. op \in Left(X) \ SpentUpto(x, k - 1)
  BY <1>1, <1>3, <1>4
<1>6. Val(b, op) \in Values
  <2>1. X \subseteq TxsOf(b)
    BY ChainShape DEF InChain, First, TxsOf, ToSet
  <2>2. op \in Made(TxsOf(b))
    BY <1>5, <2>1 DEF Left, Made
  <2> QED
    BY <2>2, ValIs DEF InChain
<1>7. /\ Advanced(SpendInput(p, op), b, (Left(X) \ SpentUpto(x, k - 1)) \ {op}, Made(X))
      /\ OneMoreValue(SpendInput(p, op), p, Val(b, op))
  BY <1>5, SpendInputAdvances DEF InChain, InputsSpent
<1>8. UndoIs(SpendInput(p, op).undo, w.undo, b, x, k)
  <2>1. k - 1 \in Nat /\ k - 1 + 1 = k
    BY <1>3
  <2>2. UndoIs(Append(p.undo, Val(b, op)), w.undo, b, x, k - 1 + 1)
    BY <1>2, <1>6, <2>1, UndoAppend DEF InputsSpent
  <2> QED
    BY <1>7, <2>1, <2>2 DEF OneMoreValue
<1>9. (Left(X) \ SpentUpto(x, k - 1)) \ {op} = Left(X) \ SpentUpto(x, k)
  BY <1>3
<1> QED
  BY <1>2, <1>7, <1>8, <1>9 DEF InputsSpent, OneMoreValue, Untouched

\* The loop over the outputs, one step.
LEMMA OneMoreOutput ==
    ASSUME Stored, NEW b, NEW n, NEW x, NEW X, InChain(b, n, x, X), NEW w, NEW p,
           NEW i \in 1 .. Len(Outputs[x]), OutputsAdded(p, w, b, x, X, i - 1)
    PROVE  OutputsAdded(AddOutput(p, x, n - 1, i), w, b, x, X, i)
<1>1. x \in Txs
  BY Legal DEF InChain
<1>2. /\ i \in DOMAIN Outputs[x]
      /\ ~Outputs[x][i].indexable => MadeUpto(x, i) = MadeUpto(x, i - 1)
      /\ Outputs[x][i].indexable => MadeUpto(x, i) = MadeUpto(x, i - 1) \cup {<<x, i - 1>>}
  BY <1>1, UptoFacts
<1>3. CASE ~Outputs[x][i].indexable
  <2>1. AddOutput(p, x, n - 1, i) = p
    BY <1>3 DEF AddOutput
  <2> QED
    BY <1>2, <1>3, <2>1 DEF OutputsAdded
<1>4. CASE Outputs[x][i].indexable
  <2> DEFINE U == (Left(X) \ ToSet(Inputs[x])) \cup MadeUpto(x, i - 1)
             O == Made(X) \cup MadeUpto(x, i - 1)
             q == AddOutput(p, x, n - 1, i)
  <2>1. Advanced(p, b, U, O)
    BY DEF OutputsAdded
  <2> HIDE DEF U, O
  <2>2. /\ Advanced(q, b, U \cup {<<x, i - 1>>}, O \cup {<<x, i - 1>>})
        /\ SameValues(q, p)
    BY <1>2, <1>4, <2>1, AddOutputAdvances DEF InChain
  <2> HIDE DEF q
  <2>3. /\ U \cup {<<x, i - 1>>} = (Left(X) \ ToSet(Inputs[x])) \cup MadeUpto(x, i)
        /\ O \cup {<<x, i - 1>>} = Made(X) \cup MadeUpto(x, i)
    BY <1>2, <1>4 DEF U, O
  <2>4. OutputsAdded(q, w, b, x, X, i)
    BY <2>2, <2>3 DEF OutputsAdded, SameValues, Untouched
  <2> QED
    BY <2>4 DEF q
<1> QED
  BY <1>3, <1>4

\* w has undo values, and v those of w and of tx x
HasValues(w) == w.undo \in Seq(Values)
TxNoted(v, w, b, x) ==
  UndoIs(v.undo, w.undo, b, x, Len(Inputs[x])) /\ Untouched(v, w)

\* advance_txs on one tx
LEMMA AdvanceTxKeeps ==
    ASSUME Stored, NEW b, NEW n, NEW x, NEW X, InChain(b, n, x, X),
           NEW w, Advanced(w, b, Left(X), Made(X)), HasValues(w),
           NEW v, v = AdvanceTx(w, x, n - 1)
    PROVE  /\ Advanced(v, b, Left(X \cup {x}), Made(X \cup {x}))
           /\ TxNoted(v, w, b, x)
<1> DEFINE N == Len(Inputs[x])
           M == Len(Outputs[x])
<1>1. /\ x \in Txs
      /\ Left(X \cup {x}) = (Left(X) \ ToSet(Inputs[x])) \cup MadeBy(x)
      /\ Made(X \cup {x}) = Made(X) \cup MadeBy(x)
  BY Legal DEF InChain
<1>2. PICK a : Spending(a, w, x)
  BY <1>1, SpendLoop
<1>3. PICK c : Adding(c, a[N], x, n - 1)
  BY <1>1, AddLoop
<1>4. v = c[M] /\ a[0] = w /\ c[0] = a[N]
  BY <1>2, <1>3, TxParts DEF Spending, Adding
<1>5. /\ N \in Nat /\ M \in Nat /\ N \in 0 .. N /\ M \in 0 .. M
      /\ SpentUpto(x, 0) = {} /\ SpentUpto(x, N) = ToSet(Inputs[x])
      /\ MadeUpto(x, 0) = {} /\ MadeUpto(x, M) = MadeBy(x)
  BY <1>1, UptoFacts
<1>6. InputsSpent(a[N], w, b, x, X, N)
  <2> DEFINE S == {k \in 0 .. N : InputsSpent(a[k], w, b, x, X, k)}
  <2>1. InputsSpent(w, w, b, x, X, 0)
    <3>1. Left(X) \ SpentUpto(x, 0) = Left(X)
      BY <1>5
    <3>2. UndoIs(w.undo, w.undo, b, x, 0)
      BY UndoNone DEF HasValues
    <3> QED
      BY <3>1, <3>2 DEF InputsSpent, Untouched
  <2>2. 0 \in S
    BY <1>4, <1>5, <2>1
  <2>3. ASSUME NEW k \in 1 .. N, k - 1 \in S PROVE k \in S
    <3>1. InputsSpent(a[k - 1], w, b, x, X, k - 1)
      BY <2>3
    <3>2. a[k] = SpendInput(a[k - 1], Inputs[x][k])
      BY <1>2 DEF Spending
    <3>3. InputsSpent(a[k], w, b, x, X, k)
      BY <3>1, <3>2, OneMoreInput
    <3> QED
      BY <1>5, <3>3
  <2> HIDE DEF S
  <2>4. N \in S
    BY <1>5, <2>2, <2>3, UpTo
  <2> QED
    BY <2>4 DEF S
<1>7. OutputsAdded(c[M], w, b, x, X, M)
  <2> DEFINE S == {i \in 0 .. M : OutputsAdded(c[i], w, b, x, X, i)}
  <2>1. OutputsAdded(a[N], w, b, x, X, 0)
    <3>1. /\ (Left(X) \ ToSet(Inputs[x])) \cup MadeUpto(x, 0) = Left(X) \ SpentUpto(x, N)
          /\ Made(X) \cup MadeUpto(x, 0) = Made(X)
      BY <1>5
    <3> QED
      BY <1>6, <3>1 DEF InputsSpent, OutputsAdded
  <2>2. 0 \in S
    BY <1>4, <1>5, <2>1
  <2>3. ASSUME NEW i \in 1 .. M, i - 1 \in S PROVE i \in S
    <3>1. OutputsAdded(c[i - 1], w, b, x, X, i - 1)
      BY <2>3
    <3>2. c[i] = AddOutput(c[i - 1], x, n - 1, i)
      BY <1>3 DEF Adding
    <3>3. OutputsAdded(c[i], w, b, x, X, i)
      BY <3>1, <3>2, OneMoreOutput
    <3> QED
      BY <1>5, <3>3
  <2> HIDE DEF S
  <2>4. M \in S
    BY <1>5, <2>2, <2>3, UpTo
  <2> QED
    BY <2>4 DEF S
<1> QED
  BY <1>1, <1>4, <1>5, <1>7 DEF OutputsAdded, TxNoted

\* The chain of a block's parent begins its own.
LEMMA BeginsChild ==
    ASSUME NEW b \in Blocks
    PROVE  Begins(Parent[b], b) /\ Parent[b] \in Tips /\ b \in Tips
  BY ChainSteps, Heights DEF Begins

\* A chain begins itself.
LEMMA BeginsSelf == \A t \in Tips : Begins(t, t)
  BY ChainShape DEF Begins

\* A chain that begins one begins those that this one begins.
LEMMA BeginsTransitive ==
    ASSUME NEW s \in Tips, NEW t \in Tips, NEW u \in Tips, Begins(s, t), Begins(t, u)
    PROVE  Begins(s, u)
<1>1. tx_count(s) \in Nat /\ tx_count(t) \in Nat /\ tx_count(u) \in Nat
  BY ChainShape
<1> QED
  BY <1>1 DEF Begins

\* A tx of a chain beyond a part of it is none of that part.
LEMMA NewTx ==
    ASSUME NEW t \in Tips, NEW b \in Tips, Begins(t, b), NEW n \in 1 .. tx_count(b), n > tx_count(t)
    PROVE  ChainTxs[b][n] \notin TxsOf(t)
<1>1. tx_count(t) \in Nat /\ tx_count(b) \in Nat /\ DOMAIN ChainTxs[t] = 1 .. tx_count(t)
  BY ChainShape
<1>2. SUFFICES ASSUME ChainTxs[b][n] \in TxsOf(t) PROVE FALSE
  OBVIOUS
<1>3. PICK m \in 1 .. tx_count(t) : ChainTxs[t][m] = ChainTxs[b][n]
  BY <1>1, <1>2 DEF TxsOf, ToSet
<1>4. m \in 1 .. tx_count(b) /\ ChainTxs[b][m] = ChainTxs[b][n]
  BY <1>1, <1>3 DEF Begins
<1>5. m = n
  BY <1>4, Distinct
<1> QED
  BY <1>1, <1>3, <1>5

\* The undo values of block b, tx by tx, and its undo record
ValuesOf(b, u) ==
  /\ u[0] = <<>>
  /\ \A m \in 1 .. Len(BlockTxs[b]) :
       UndoIs(u[m], u[m - 1], b, BlockTxs[b][m], Len(Inputs[BlockTxs[b][m]]))
Record(b, rec) == \E u : ValuesOf(b, u) /\ rec = u[Len(BlockTxs[b])]

\* the caches with the first m txs of block b advanced
BlockAdvanced(v, w, b, m) ==
  LET X == First(b, tx_count(Parent[b]) + m) IN
  /\ Advanced(v, b, Left(X), Made(X))
  /\ v.undo \in Seq(Values)
  /\ Untouched(v, w)

\* Where a tx of a block is in its chain.
LEMMA BlockTxIs ==
    ASSUME NEW b \in Blocks, NEW m \in 1 .. Len(BlockTxs[b])
    PROVE  LET n == tx_count(Parent[b]) + m IN
           /\ n \in 1 .. tx_count(b) /\ ChainTxs[b][n] = BlockTxs[b][m]
           /\ n > tx_count(Parent[b])
           /\ n - 1 = tx_count(Parent[b]) + (m - 1) /\ n - 1 = tx_count(Parent[b]) + m - 1
           /\ First(b, n) = First(b, n - 1) \cup {BlockTxs[b][m]}
<1> DEFINE c == tx_count(Parent[b])
           n == c + m
<1>1. /\ c \in Nat /\ Len(BlockTxs[b]) \in Nat /\ tx_count(b) = c + Len(BlockTxs[b])
      /\ ChainTxs[b][c + m] = BlockTxs[b][m]
  BY ChainSteps
<1> HIDE DEF c
<1>2. n \in 1 .. tx_count(b) /\ n > c /\ n - 1 = c + (m - 1) /\ n - 1 = c + m - 1
  BY <1>1
<1>3. First(b, n) = First(b, n - 1) \cup {ChainTxs[b][n]}
  BY <1>2, FirstFacts, Heights
<1> QED
  BY <1>1, <1>2, <1>3 DEF c

\* The loop of advance_txs, one step.
LEMMA OneMoreTx ==
    ASSUME Stored, NEW b \in Blocks, Begins(dbTip, Parent[b]), NEW w, NEW p,
           NEW m \in 1 .. Len(BlockTxs[b]), BlockAdvanced(p, w, b, m - 1),
           NEW v, v = AdvanceTx(p, BlockTxs[b][m], tx_count(Parent[b]) + m - 1)
    PROVE  /\ BlockAdvanced(v, w, b, m)
           /\ UndoIs(v.undo, p.undo, b, BlockTxs[b][m], Len(Inputs[BlockTxs[b][m]]))
<1> DEFINE n == tx_count(Parent[b]) + m
           x == BlockTxs[b][m]
           X == First(b, n - 1)
<1>1. /\ n \in 1 .. tx_count(b) /\ ChainTxs[b][n] = x /\ n > tx_count(Parent[b])
      /\ n - 1 = tx_count(Parent[b]) + (m - 1) /\ n - 1 = tx_count(Parent[b]) + m - 1
      /\ First(b, n) = X \cup {x}
  BY BlockTxIs
<1>2. b \in Tips /\ Begins(dbTip, b) /\ dbTip \in Tips
  BY BeginsChild, BeginsTransitive DEF Stored
<1>3. n > tx_count(dbTip)
  <2>1. /\ tx_count(dbTip) <= tx_count(Parent[b])
        /\ tx_count(dbTip) \in Nat /\ tx_count(Parent[b]) \in Nat
    BY <1>2, ChainShape, BeginsChild DEF Begins
  <2> QED
    BY <1>1, <2>1
<1>4. x \notin TxsOf(dbTip)
  BY <1>1, <1>2, <1>3, NewTx
<1> HIDE DEF n, x
<1>5. InChain(b, n, x, X)
  BY <1>1, <1>2, <1>4 DEF InChain
<1>6. Advanced(p, b, Left(X), Made(X)) /\ HasValues(p) /\ Untouched(p, w)
  BY <1>1 DEF BlockAdvanced, HasValues
<1>7. v = AdvanceTx(p, x, n - 1)
  BY <1>1 DEF x
<1> HIDE DEF X
<1>8. /\ Advanced(v, b, Left(X \cup {x}), Made(X \cup {x}))
      /\ TxNoted(v, p, b, x)
  BY <1>5, <1>6, <1>7, AdvanceTxKeeps
<1>9. v.undo \in Seq(Values)
  BY <1>8 DEF UndoIs, TxNoted
<1> QED
  BY <1>1, <1>6, <1>8, <1>9 DEF BlockAdvanced, TxNoted, Untouched, n, x, X

\* advance_txs on a block
LEMMA AdvanceBlockKeeps ==
    ASSUME Stored, NEW b \in Blocks, Begins(dbTip, Parent[b]), NEW w,
           Advanced(w, b, Unspent(Parent[b]), Made(TxsOf(Parent[b]))), w.undo = <<>>,
           NEW v, v = AdvanceTxs(w, b)
    PROVE  /\ Advanced(v, b, Unspent(b), Made(TxsOf(b)))
           /\ Record(b, v.undo)
           /\ Untouched(v, w)
<1> DEFINE N == Len(BlockTxs[b])
           c == tx_count(Parent[b])
<1>1. PICK a : Advancing(a, w, b)
  BY TxsLoop
<1>2. /\ a[0] = w /\ v = a[N] /\ N \in Nat /\ N \in 0 .. N
      /\ c \in Nat /\ c + N = tx_count(b) /\ c + 0 = c
  BY <1>1, ChainSteps DEF Advancing
<1>3. BlockAdvanced(w, w, b, 0)
  <2>1. First(b, c + 0) = TxsOf(Parent[b])
    BY <1>2, FirstOfParent
  <2>2. w.undo \in Seq(Values)
    OBVIOUS
  <2> QED
    BY <2>1, <2>2 DEF BlockAdvanced, Unspent, Untouched
<1> DEFINE S == {m \in 0 .. N : BlockAdvanced(a[m], w, b, m)}
<1>4. 0 \in S
  BY <1>2, <1>3
<1>5. \A m \in 1 .. N : a[m] = AdvanceTx(a[m - 1], BlockTxs[b][m], c + m - 1)
  BY <1>1 DEF Advancing
<1>6. ASSUME NEW m \in 1 .. N, m - 1 \in S PROVE m \in S
  <2>1. BlockAdvanced(a[m - 1], w, b, m - 1)
    BY <1>6
  <2>2. BlockAdvanced(a[m], w, b, m)
    BY <1>5, <2>1, OneMoreTx
  <2> QED
    BY <1>2, <2>2
<1>7. \A m \in 0 .. N : m \in S
  <2> HIDE DEF S
  <2> QED
    BY <1>2, <1>4, <1>6, UpTo
<1>8. BlockAdvanced(v, w, b, N)
  BY <1>2, <1>7
<1>9. /\ Advanced(v, b, Unspent(b), Made(TxsOf(b)))
      /\ Untouched(v, w)
  <2>1. First(b, c + N) = TxsOf(b)
    BY <1>2, FirstFacts, Heights
  <2> QED
    BY <1>8, <2>1 DEF BlockAdvanced, Unspent
<1>10. Record(b, v.undo)
  <2> DEFINE u == [m \in 0 .. N |-> a[m].undo]
  <2>1. u[0] = <<>> /\ u[N] = v.undo
    BY <1>2
  <2>2. ASSUME NEW m \in 1 .. N
        PROVE  UndoIs(u[m], u[m - 1], b, BlockTxs[b][m], Len(Inputs[BlockTxs[b][m]]))
    <3>1. m - 1 \in 0 .. N /\ m \in 0 .. N
      BY <1>2
    <3>2. BlockAdvanced(a[m - 1], w, b, m - 1)
      BY <1>7, <3>1
    <3>3. UndoIs(a[m].undo, a[m - 1].undo, b, BlockTxs[b][m], Len(Inputs[BlockTxs[b][m]]))
      BY <1>5, <3>2, OneMoreTx
    <3> QED
      BY <3>1, <3>3
  <2> HIDE DEF u
  <2> QED
    BY <2>1, <2>2 DEF Record, ValuesOf
<1> QED
  BY <1>9, <1>10

----------------------------------------------------------------------------
(* Backing up *)

\* The caches of a block being backed up: the unspent outputs are U, the outputs
\* taken back Q; nothing but UTXOs is cached.
BackedUp(w, U, Q) ==
  /\ Kept(w, dbTip, U)
  /\ w.refs = {} /\ DOMAIN w.mints = {} /\ DOMAIN w.locs = {}
  /\ \A op \in db.ri : <<"ri", op>> \in w.deletes <=> op \in Q
  /\ \A r \in DOMAIN db.rm : <<"rm", r>> \in w.deletes <=> MintedBy(Q, r) # {}
  /\ \A d \in w.deletes : d = <<d[1], d[2]>>

\* Undoing an output takes it from the unspent outputs, and its refs and mints with it.
LEMMA UndoOutputBacks ==
    ASSUME Stored, NEW w, NEW U, NEW Q, BackedUp(w, U, Q),
           NEW x \in Txs, NEW i \in DOMAIN Outputs[x], Outputs[x][i].indexable,
           NEW op \in U, op = <<x, i - 1>>
    PROVE  /\ BackedUp(UndoOutput(w, x, i), U \ {op}, Q \cup {op})
           /\ SameValues(UndoOutput(w, x, i), w)
<1> DEFINE s == spend_utxo(w, op)
           p == delete_potential_refs(s, op)
           out == Outputs[x][i]
           refs == out.singletons \cup out.normals
           spent == ToSet(Inputs[x])
           v == DeleteRefs(p, refs, spent)
           minted == refs \cap spent
           moved == refs \ spent
<1>1. UndoOutput(w, x, i) = v
  BY DEF UndoOutput
<1>2. /\ dbTip \in Tips /\ Begins(dbTip, dbTip) /\ Kept(w, dbTip, U)
  BY BeginsSelf DEF Stored, BackedUp
<1>3. Kept(s, dbTip, U \ {op}) /\ SpentOnly(s, w)
  BY <1>2, SpendKeeps
<1>4. op[1] = x /\ op[2] + 1 = i
  BY TxAssumption
<1>5. RefsAt(op) = refs
  BY <1>4 DEF RefsAt
<1> HIDE DEF s, refs, spent, out
<1>6. PICK R : s.deletes = w.deletes \cup {<<"hu", r>> : r \in R}
  BY <1>3 DEF SpentOnly
<1>7. /\ DOMAIN s = Fields /\ s.failed = FALSE
      /\ s.refs = w.refs /\ s.mints = w.mints /\ s.locs = w.locs /\ s.undo = w.undo
      /\ s.headers = w.headers /\ s.undo_infos = w.undo_infos
      /\ s.loc_undo_infos = w.loc_undo_infos
  BY <1>3, FieldsAre DEF Kept, SpentOnly
<1>8. s.refs = {} /\ DOMAIN s.mints = {} /\ DOMAIN s.locs = {}
  BY <1>7 DEF BackedUp
<1>9. /\ DOMAIN p = Fields
      /\ p.refs = {} /\ p.failed = FALSE
      /\ p.deletes = s.deletes \cup {<<"ri", op>>}
      /\ p.mints = s.mints /\ p.locs = s.locs /\ p.undo = s.undo /\ p.utxos = s.utxos
      /\ p.headers = s.headers /\ p.undo_infos = s.undo_infos
      /\ p.loc_undo_infos = s.loc_undo_infos
  BY <1>7, <1>8, FieldsAre DEF delete_potential_refs
<1> HIDE DEF p
<1>10. /\ DOMAIN v = Fields
       /\ v.mints = Without(p.mints, minted) /\ v.locs = Without(p.locs, moved)
       /\ v.deletes = p.deletes \cup {<<"rm", r>> : r \in minted \cap DOMAIN db.rm}
                                \cup {<<"rl", r>> : r \in moved \cap DOMAIN db.rl}
       /\ v.failed = (p.failed \/ minted \cap DOMAIN p.mints \cap DOMAIN db.rm # {}
                               \/ moved \cap DOMAIN p.locs \cap DOMAIN db.rl # {})
       /\ v.refs = p.refs /\ v.undo = p.undo /\ v.utxos = p.utxos
       /\ v.headers = p.headers /\ v.undo_infos = p.undo_infos
       /\ v.loc_undo_infos = p.loc_undo_infos
  BY <1>9, FieldsAre DEF DeleteRefs
<1> HIDE DEF v
<1>11. DOMAIN v.mints = {} /\ DOMAIN v.locs = {} /\ v.failed = FALSE /\ v.refs = {}
  BY <1>8, <1>9, <1>10 DEF Without
<1>12. v.deletes = w.deletes \cup {<<"hu", r>> : r \in R} \cup {<<"ri", op>>}
                     \cup {<<"rm", r>> : r \in minted \cap DOMAIN db.rm}
                     \cup {<<"rl", r>> : r \in moved \cap DOMAIN db.rl}
  BY <1>6, <1>9, <1>10
<1>13. Kept(v, dbTip, U \ {op})
  <2>1. \A q \in Unspent(dbTip) :
          <<"hu", Row(dbTip, q)>> \in v.deletes <=> <<"hu", Row(dbTip, q)>> \in s.deletes
    BY <1>6, <1>12
  <2>2. v.utxos = s.utxos
    BY <1>9, <1>10
  <2> QED
    BY <1>3, <1>10, <1>11, <2>1, <2>2 DEF Kept
<1>14. ASSUME NEW q \in db.ri PROVE <<"ri", q>> \in v.deletes <=> q \in Q \cup {op}
  <2>1. <<"ri", q>> \in v.deletes <=> <<"ri", q>> \in w.deletes \/ q = op
    BY <1>12
  <2> QED
    BY <2>1 DEF BackedUp
<1>15. ASSUME NEW r \in DOMAIN db.rm
       PROVE  <<"rm", r>> \in v.deletes <=> MintedBy(Q \cup {op}, r) # {}
  <2>1. <<"rm", r>> \in v.deletes <=> <<"rm", r>> \in w.deletes \/ r \in minted
    BY <1>12
  <2>2. MintedBy(Q \cup {op}, r) # {} <=> MintedBy(Q, r) # {} \/ r \in minted
    BY <1>4, <1>5 DEF MintedBy, spent
  <2> QED
    BY <2>1, <2>2 DEF BackedUp
<1>16. \A d \in v.deletes : d = <<d[1], d[2]>>
  BY <1>12 DEF BackedUp
<1>17. BackedUp(v, U \ {op}, Q \cup {op})
  BY <1>11, <1>13, <1>14, <1>15, <1>16 DEF BackedUp
<1>18. SameValues(v, w)
  BY <1>7, <1>9, <1>10 DEF SameValues, Untouched
<1> QED
  BY <1>1, <1>17, <1>18

\* v has the undo values of w but the last
LEMMA RestoreInputBacks ==
    ASSUME Stored, NEW w, NEW U, NEW Q, BackedUp(w, U, Q),
           NEW op, op \notin Unspent(dbTip),
           NEW s, NEW x, NEW k \in Nat, k > 0, UndoIs(w.undo, s, dbTip, x, k),
           op = Inputs[x][k]
    PROVE  /\ BackedUp(RestoreInput(w, op), U \cup {op}, Q)
           /\ UndoIs(RestoreInput(w, op).undo, s, dbTip, x, k - 1)
           /\ Untouched(RestoreInput(w, op), w)
<1> DEFINE v == RestoreInput(w, op)
<1>1. /\ w.undo # <<>> /\ Last(w.undo) = Val(dbTip, op)
      /\ UndoIs(Front(w.undo), s, dbTip, x, k - 1)
  BY UndoPop
<1>2. v = [w EXCEPT !.utxos = With(@, op, Val(dbTip, op)), !.undo = Front(@)]
  BY <1>1 DEF RestoreInput
<1>3. DOMAIN w = Fields
  BY DEF BackedUp, Kept
<1> HIDE DEF v
<1>4. /\ DOMAIN v = Fields /\ v.utxos = With(w.utxos, op, Val(dbTip, op))
      /\ v.undo = Front(w.undo) /\ v.deletes = w.deletes /\ v.failed = w.failed
      /\ v.refs = w.refs /\ v.mints = w.mints /\ v.locs = w.locs
      /\ v.headers = w.headers /\ v.undo_infos = w.undo_infos
      /\ v.loc_undo_infos = w.loc_undo_infos
  BY <1>2, <1>3, FieldsAre
<1>5. /\ DOMAIN v.utxos = DOMAIN w.utxos \cup {op}
      /\ v.utxos[op] = Val(dbTip, op)
      /\ \A p \in DOMAIN w.utxos : p # op => v.utxos[p] = w.utxos[p]
  BY <1>4 DEF With, Over
<1>6. Kept(v, dbTip, U \cup {op})
  <2>1. DOMAIN v.utxos = (U \cup {op}) \ Unspent(dbTip)
    BY <1>5 DEF BackedUp, Kept
  <2>2. \A p \in DOMAIN v.utxos : v.utxos[p] = Val(dbTip, p)
    BY <1>5 DEF BackedUp, Kept
  <2>3. \A p \in Unspent(dbTip) :
          <<"hu", Row(dbTip, p)>> \in v.deletes <=> p \notin U \cup {op}
    BY <1>4 DEF BackedUp, Kept
  <2> QED
    BY <1>4, <2>1, <2>2, <2>3 DEF BackedUp, Kept
<1>7. BackedUp(v, U \cup {op}, Q)
  BY <1>4, <1>6 DEF BackedUp
<1>8. Untouched(v, w)
  BY <1>4 DEF Untouched
<1> QED
  BY <1>1, <1>4, <1>7, <1>8 DEF v

\* the outputs of the DB's chain that txs other than X made, and the inputs of tx x
\* among its last k
Taken(X) == Made(TxsOf(dbTip)) \ Made(X)
SpentFrom(x, k) == {Inputs[x][j] : j \in Len(Inputs[x]) - k + 1 .. Len(Inputs[x])}

\* tx x of the DB's chain, after the txs X
Committed(n, x, X) ==
  n \in 1 .. tx_count(dbTip) /\ x = ChainTxs[dbTip][n] /\ X = First(dbTip, n - 1)

\* w when the first i outputs of x have been taken back, or all and its last k inputs restored
OutputsUndone(v, w, x, X, i) ==
  /\ BackedUp(v, Left(X \cup {x}) \ MadeUpto(x, i), Taken(X \cup {x}) \cup MadeUpto(x, i))
  /\ SameValues(v, w)
InputsRestored(v, w, s, x, X, k) ==
  /\ BackedUp(v, (Left(X) \ ToSet(Inputs[x])) \cup SpentFrom(x, k), Taken(X))
  /\ UndoIs(v.undo, s, dbTip, x, Len(Inputs[x]) - k)
  /\ Untouched(v, w)

\* What taking back a tx of the DB's chain does to the sets of outputs.
LEMMA CommittedFacts ==
    ASSUME Stored, NEW n, NEW x, NEW X, Committed(n, x, X)
    PROVE  /\ x \in Txs /\ x \in TxsOf(dbTip)
           /\ MadeBy(x) \subseteq Left(X \cup {x})
           /\ Left(X \cup {x}) \ MadeBy(x) = Left(X) \ ToSet(Inputs[x])
           /\ Taken(X \cup {x}) \cup MadeBy(x) = Taken(X)
           /\ ToSet(Inputs[x]) \subseteq Left(X)
           /\ ToSet(Inputs[x]) \cap Unspent(dbTip) = {}
<1>1. /\ dbTip \in Tips /\ n \in 1 .. tx_count(dbTip)
      /\ x = ChainTxs[dbTip][n] /\ X = First(dbTip, n - 1)
  BY DEF Stored, Committed
<1>2. /\ x \in Txs /\ ToSet(Inputs[x]) \subseteq Left(X)
      /\ MadeBy(x) \cap (Made(X) \cup Used(X) \cup ToSet(Inputs[x])) = {}
      /\ Left(X \cup {x}) = (Left(X) \ ToSet(Inputs[x])) \cup MadeBy(x)
      /\ Made(X \cup {x}) = Made(X) \cup MadeBy(x)
  BY <1>1, Legal
<1>3. x \in TxsOf(dbTip)
  BY <1>1, ChainShape DEF TxsOf, ToSet
<1>4. MadeBy(x) \subseteq Made(TxsOf(dbTip))
  BY <1>3 DEF Made
<1>5. ToSet(Inputs[x]) \cap Unspent(dbTip) = {}
  BY <1>3 DEF Unspent, Left, Used
<1>6. Left(X) \cap MadeBy(x) = {}
  BY <1>2 DEF Left
<1>7. Left(X \cup {x}) \ MadeBy(x) = Left(X) \ ToSet(Inputs[x])
  BY <1>2, <1>6
<1>8. Taken(X \cup {x}) \cup MadeBy(x) = Taken(X)
  BY <1>2, <1>4 DEF Taken
<1> QED
  BY <1>2, <1>3, <1>5, <1>7, <1>8

\* The loop that undoes the outputs of a tx, one step.
LEMMA OneOutputLess ==
    ASSUME Stored, NEW n, NEW x, NEW X, Committed(n, x, X), NEW w, NEW p,
           NEW i \in 1 .. Len(Outputs[x]), OutputsUndone(p, w, x, X, i - 1)
    PROVE  OutputsUndone(UndoOutput(p, x, i), w, x, X, i)
<1>1. x \in Txs /\ MadeBy(x) \subseteq Left(X \cup {x})
  BY CommittedFacts
<1>2. /\ i \in DOMAIN Outputs[x]
      /\ ~Outputs[x][i].indexable => MadeUpto(x, i) = MadeUpto(x, i - 1)
      /\ Outputs[x][i].indexable =>
           /\ MadeUpto(x, i) = MadeUpto(x, i - 1) \cup {<<x, i - 1>>}
           /\ <<x, i - 1>> \in MadeBy(x) /\ <<x, i - 1>> \notin MadeUpto(x, i - 1)
  BY <1>1, UptoFacts
<1>3. CASE ~Outputs[x][i].indexable
  <2>1. UndoOutput(p, x, i) = p
    BY <1>3 DEF UndoOutput
  <2> QED
    BY <1>2, <1>3, <2>1 DEF OutputsUndone
<1>4. CASE Outputs[x][i].indexable
  <2> DEFINE U == Left(X \cup {x}) \ MadeUpto(x, i - 1)
             Q == Taken(X \cup {x}) \cup MadeUpto(x, i - 1)
             q == UndoOutput(p, x, i)
  <2>1. BackedUp(p, U, Q) /\ SameValues(p, w)
    BY DEF OutputsUndone
  <2>2. PICK op : op = <<x, i - 1>>
    OBVIOUS
  <2>3. op \in U
    BY <1>1, <1>2, <1>4, <2>2
  <2>4. /\ U \ {op} = Left(X \cup {x}) \ MadeUpto(x, i)
        /\ Q \cup {op} = Taken(X \cup {x}) \cup MadeUpto(x, i)
    BY <1>2, <1>4, <2>2
  <2> HIDE DEF U, Q
  <2>5. BackedUp(q, U \ {op}, Q \cup {op}) /\ SameValues(q, p)
    BY <1>1, <1>2, <1>4, <2>1, <2>2, <2>3, UndoOutputBacks
  <2> HIDE DEF q
  <2>6. SameValues(q, w)
    BY <2>1, <2>5 DEF SameValues, Untouched
  <2>7. OutputsUndone(q, w, x, X, i)
    BY <2>4, <2>5, <2>6 DEF OutputsUndone
  <2> QED
    BY <2>7 DEF q
<1> QED
  BY <1>3, <1>4

\* The loop that restores the inputs of a tx, one step.
LEMMA OneInputBack ==
    ASSUME Stored, NEW n, NEW x, NEW X, Committed(n, x, X), NEW w, NEW s, NEW p,
           NEW k \in 1 .. Len(Inputs[x]), InputsRestored(p, w, s, x, X, k - 1),
           NEW op, op = Inputs[x][Len(Inputs[x]) - k + 1]
    PROVE  InputsRestored(RestoreInput(p, op), w, s, x, X, k)
<1> DEFINE N == Len(Inputs[x])
           U == (Left(X) \ ToSet(Inputs[x])) \cup SpentFrom(x, k - 1)
           q == RestoreInput(p, op)
<1>0. x \in Txs
  BY CommittedFacts
<1>1. x \in Txs /\ N \in Nat /\ DOMAIN Inputs[x] = 1 .. N
  BY <1>0, TxAssumption
<1>2. PICK j : j = N - k + 1
  OBVIOUS
<1>3. /\ j \in DOMAIN Inputs[x] /\ j \in Nat /\ j > 0 /\ j = N - (k - 1) /\ j - 1 = N - k
      /\ op = Inputs[x][j]
  BY <1>1, <1>2
<1>4. SpentFrom(x, k) = SpentFrom(x, k - 1) \cup {op}
  <2>1. N - k + 1 .. N = {j} \cup (N - (k - 1) + 1 .. N)
    BY <1>1, <1>2
  <2> QED
    BY <1>3, <2>1 DEF SpentFrom
<1>5. op \notin Unspent(dbTip)
  <2>1. op \in ToSet(Inputs[x])
    BY <1>3 DEF ToSet
  <2> QED
    BY <2>1, CommittedFacts
<1>6. /\ BackedUp(p, U, Taken(X)) /\ UndoIs(p.undo, s, dbTip, x, j)
      /\ Untouched(p, w)
  BY <1>3 DEF InputsRestored
<1>7. U \cup {op} = (Left(X) \ ToSet(Inputs[x])) \cup SpentFrom(x, k)
  BY <1>4
<1> HIDE DEF U, N
<1>8. /\ BackedUp(q, U \cup {op}, Taken(X))
      /\ UndoIs(q.undo, s, dbTip, x, j - 1)
      /\ Untouched(q, p)
  BY <1>3, <1>5, <1>6, RestoreInputBacks
<1> HIDE DEF q
<1>9. Untouched(q, w)
  BY <1>6, <1>8 DEF Untouched
<1>10. UndoIs(q.undo, s, dbTip, x, Len(Inputs[x]) - k)
  BY <1>3, <1>8 DEF N
<1>11. InputsRestored(q, w, s, x, X, k)
  BY <1>7, <1>8, <1>9, <1>10 DEF InputsRestored
<1> QED
  BY <1>11 DEF q

\* v without the undo values of tx x, back to those of s
TxBacked(v, w, s) == v.undo = s /\ Untouched(v, w)

\* _backup_txs on one tx
LEMMA BackupTxKeeps ==
    ASSUME Stored, NEW n, NEW x, NEW X, Committed(n, x, X), NEW w,
           BackedUp(w, Left(X \cup {x}), Taken(X \cup {x})),
           NEW s, UndoIs(w.undo, s, dbTip, x, Len(Inputs[x])),
           NEW v, v = BackupTx(w, x)
    PROVE  BackedUp(v, Left(X), Taken(X)) /\ TxBacked(v, w, s)
<1> DEFINE N == Len(Inputs[x])
           M == Len(Outputs[x])
<1>1. /\ x \in Txs
      /\ Left(X \cup {x}) \ MadeBy(x) = Left(X) \ ToSet(Inputs[x])
      /\ Taken(X \cup {x}) \cup MadeBy(x) = Taken(X)
      /\ ToSet(Inputs[x]) \subseteq Left(X)
  BY CommittedFacts
<1>2. PICK a : Undoing(a, w, x)
  BY <1>1, UndoLoop
<1>3. PICK c : Restoring(c, a[M], x)
  BY <1>1, RestoreLoop
<1>4. v = c[N] /\ a[0] = w /\ c[0] = a[M]
  BY <1>2, <1>3, TxParts DEF Undoing, Restoring
<1>5. /\ N \in Nat /\ M \in Nat /\ N \in 0 .. N /\ M \in 0 .. M
      /\ MadeUpto(x, 0) = {} /\ MadeUpto(x, M) = MadeBy(x)
  BY <1>1, UptoFacts
<1>6. OutputsUndone(a[M], w, x, X, M)
  <2> DEFINE S == {i \in 0 .. M : OutputsUndone(a[i], w, x, X, i)}
  <2>1. OutputsUndone(w, w, x, X, 0)
    BY <1>5 DEF OutputsUndone, SameValues, Untouched
  <2>2. 0 \in S
    BY <1>4, <1>5, <2>1
  <2>3. ASSUME NEW i \in 1 .. M, i - 1 \in S PROVE i \in S
    <3>1. OutputsUndone(a[i - 1], w, x, X, i - 1)
      BY <2>3
    <3>2. a[i] = UndoOutput(a[i - 1], x, i)
      BY <1>2 DEF Undoing
    <3>3. OutputsUndone(a[i], w, x, X, i)
      BY <3>1, <3>2, OneOutputLess
    <3> QED
      BY <1>5, <3>3
  <2> HIDE DEF S
  <2>4. M \in S
    BY <1>5, <2>2, <2>3, UpTo
  <2> QED
    BY <2>4 DEF S
<1>7. SpentFrom(x, 0) = {} /\ SpentFrom(x, N) = ToSet(Inputs[x])
  <2>1. DOMAIN Inputs[x] = 1 .. N /\ N - N + 1 = 1 /\ N - 0 + 1 .. N = {}
    BY <1>1, <1>5, TxAssumption
  <2> QED
    BY <2>1 DEF SpentFrom, ToSet
<1>8. InputsRestored(c[N], w, s, x, X, N)
  <2> DEFINE S == {k \in 0 .. N : InputsRestored(c[k], w, s, x, X, k)}
  <2>1. InputsRestored(a[M], w, s, x, X, 0)
    <3>1. /\ BackedUp(a[M], Left(X) \ ToSet(Inputs[x]), Taken(X))
          /\ SameValues(a[M], w)
      BY <1>1, <1>5, <1>6 DEF OutputsUndone
    <3>2. (Left(X) \ ToSet(Inputs[x])) \cup SpentFrom(x, 0) = Left(X) \ ToSet(Inputs[x])
      BY <1>7
    <3>3. Len(Inputs[x]) - 0 = Len(Inputs[x])
      BY <1>5
    <3> QED
      BY <3>1, <3>2, <3>3 DEF SameValues, InputsRestored
  <2>2. 0 \in S
    BY <1>4, <1>5, <2>1
  <2>3. ASSUME NEW k \in 1 .. N, k - 1 \in S PROVE k \in S
    <3>1. InputsRestored(c[k - 1], w, s, x, X, k - 1)
      BY <2>3
    <3>2. c[k] = RestoreInput(c[k - 1], Inputs[x][N - k + 1])
      BY <1>3 DEF Restoring
    <3>3. InputsRestored(c[k], w, s, x, X, k)
      BY <3>1, <3>2, OneInputBack
    <3> QED
      BY <1>5, <3>3
  <2> HIDE DEF S
  <2>4. N \in S
    BY <1>5, <2>2, <2>3, UpTo
  <2> QED
    BY <2>4 DEF S
<1>9. BackedUp(v, Left(X), Taken(X))
  <2>1. (Left(X) \ ToSet(Inputs[x])) \cup SpentFrom(x, N) = Left(X)
    BY <1>1, <1>7
  <2> QED
    BY <1>4, <1>8, <2>1 DEF InputsRestored
<1>10. v.undo = s
  <2>1. UndoIs(v.undo, s, dbTip, x, 0)
    BY <1>4, <1>5, <1>8 DEF InputsRestored
  <2> QED
    BY <2>1, UndoAll
<1> QED
  BY <1>4, <1>8, <1>9, <1>10 DEF InputsRestored, TxBacked

\* BackedUp but for the locations, which come back from the undo record
Reverted(w, U, Q) ==
  /\ Kept(w, dbTip, U)
  /\ w.refs = {} /\ DOMAIN w.mints = {}
  /\ \A op \in db.ri : <<"ri", op>> \in w.deletes <=> op \in Q
  /\ \A r \in DOMAIN db.rm : <<"rm", r>> \in w.deletes <=> MintedBy(Q, r) # {}
  /\ \A d \in w.deletes : d = <<d[1], d[2]>>

\* w without the last txs of the DB's tip, which has the first m left, and undo values u
TxsBacked(v, w, u, m) ==
  LET X == First(dbTip, tx_count(Parent[dbTip]) + m) IN
  /\ BackedUp(v, Left(X), Taken(X))
  /\ v.undo = u[m]
  /\ Untouched(v, w)

\* The loop of _backup_txs, one step.
LEMMA OneTxLess ==
    ASSUME Stored, dbTip \in Blocks, NEW w, NEW u, ValuesOf(dbTip, u),
           NEW m \in 1 .. Len(BlockTxs[dbTip]), NEW p, TxsBacked(p, w, u, m),
           NEW v, v = BackupTx(p, BlockTxs[dbTip][m])
    PROVE  TxsBacked(v, w, u, m - 1)
<1> DEFINE n == tx_count(Parent[dbTip]) + m
           x == BlockTxs[dbTip][m]
           X == First(dbTip, n - 1)
<1>1. /\ n \in 1 .. tx_count(dbTip) /\ ChainTxs[dbTip][n] = x
      /\ n - 1 = tx_count(Parent[dbTip]) + (m - 1)
      /\ First(dbTip, n) = X \cup {x}
  BY BlockTxIs
<1>2. UndoIs(u[m], u[m - 1], dbTip, x, Len(Inputs[x]))
  BY DEF ValuesOf
<1>3. PICK s : s = u[m - 1]
  OBVIOUS
<1>4. /\ BackedUp(p, Left(X \cup {x}), Taken(X \cup {x}))
      /\ UndoIs(p.undo, s, dbTip, x, Len(Inputs[x])) /\ Untouched(p, w)
  BY <1>1, <1>2, <1>3 DEF TxsBacked
<1> HIDE DEF n, x
<1>5. Committed(n, x, X)
  BY <1>1 DEF Committed
<1>6. v = BackupTx(p, x)
  BY DEF x
<1> HIDE DEF X
<1>7. BackedUp(v, Left(X), Taken(X)) /\ TxBacked(v, p, s)
  BY <1>4, <1>5, <1>6, BackupTxKeeps
<1>8. v.undo = u[m - 1] /\ Untouched(v, w)
  BY <1>3, <1>4, <1>7 DEF TxBacked, Untouched
<1> QED
  BY <1>1, <1>7, <1>8 DEF TxsBacked, X, n

\* _backup_txs on the block at the DB's tip
LEMMA BackupBlockKeeps ==
    ASSUME Stored, dbTip \in Blocks, NEW w, BackedUp(w, Unspent(dbTip), {}),
           Record(dbTip, w.undo), NEW v, v = BackupTxs(w, dbTip)
    PROVE  /\ Reverted(v, Unspent(Parent[dbTip]), Taken(TxsOf(Parent[dbTip])))
           /\ Untouched(v, w)
<1> DEFINE N == Len(BlockTxs[dbTip])
           c == tx_count(Parent[dbTip])
<1>1. PICK u : ValuesOf(dbTip, u) /\ w.undo = u[N]
  BY DEF Record
<1>2. PICK a : Backing(a, w, dbTip)
  BY BackLoop
<1>3. /\ a[0] = w /\ N \in Nat /\ N \in 0 .. N /\ c + N = tx_count(dbTip) /\ c + 0 = c
      /\ N - 0 = N /\ N - N = 0 /\ dbTip \in Tips
  BY <1>2, ChainSteps DEF Backing, Stored
<1>4. TxsBacked(w, w, u, N)
  <2>1. First(dbTip, c + N) = TxsOf(dbTip)
    BY <1>3, FirstFacts
  <2>2. Taken(TxsOf(dbTip)) = {}
    BY DEF Taken
  <2> QED
    BY <1>1, <2>1, <2>2 DEF TxsBacked, Untouched, Unspent
<1>5. TxsBacked(a[N], w, u, 0)
  <2> DEFINE S == {k \in 0 .. N : TxsBacked(a[k], w, u, N - k)}
  <2>1. 0 \in S
    BY <1>3, <1>4
  <2>2. ASSUME NEW k \in 1 .. N, k - 1 \in S PROVE k \in S
    <3>1. PICK m : m = N - k + 1
      OBVIOUS
    <3>2. m \in 1 .. N /\ m = N - (k - 1) /\ m - 1 = N - k /\ k \in 0 .. N
      BY <1>3, <3>1
    <3>3. TxsBacked(a[k - 1], w, u, m)
      BY <2>2, <3>2
    <3>4. a[k] = BackupTx(a[k - 1], BlockTxs[dbTip][m])
      BY <1>2, <3>1 DEF Backing
    <3>5. TxsBacked(a[k], w, u, m - 1)
      BY <1>1, <3>2, <3>3, <3>4, OneTxLess
    <3> QED
      BY <3>2, <3>5
  <2> HIDE DEF S
  <2>3. N \in S
    BY <1>3, <2>1, <2>2, UpTo
  <2> QED
    BY <1>3, <2>3 DEF S
<1>6. PICK z : z = a[N]
  OBVIOUS
<1>7. /\ BackedUp(z, Unspent(Parent[dbTip]), Taken(TxsOf(Parent[dbTip])))
      /\ z.undo = <<>> /\ Untouched(z, w)
  <2>1. First(dbTip, c + 0) = TxsOf(Parent[dbTip])
    BY <1>3, FirstOfParent
  <2> QED
    BY <1>1, <1>5, <1>6, <2>1 DEF TxsBacked, ValuesOf, Unspent
<1>8. v = [z EXCEPT !.locs = Over(z.loc_undo, @), !.failed = @ \/ z.undo # <<>>]
  <2>1. z = BackedAll(w, dbTip)
    BY <1>2, <1>6 DEF Backing
  <2> QED
    BY <2>1 DEF BackedAll, BackupTxs
<1>9. DOMAIN z = Fields /\ z.failed = FALSE
  BY <1>7 DEF BackedUp, Kept
<1> HIDE DEF N, c
<1>10. /\ DOMAIN v = Fields /\ v.failed = FALSE
       /\ v.utxos = z.utxos /\ v.refs = z.refs /\ v.mints = z.mints /\ v.deletes = z.deletes
       /\ v.headers = z.headers /\ v.undo_infos = z.undo_infos
       /\ v.loc_undo_infos = z.loc_undo_infos
  BY <1>7, <1>8, <1>9, FieldsAre
<1>11. Kept(v, dbTip, Unspent(Parent[dbTip]))
  BY <1>7, <1>10 DEF BackedUp, Kept
<1>12. Reverted(v, Unspent(Parent[dbTip]), Taken(TxsOf(Parent[dbTip])))
  BY <1>7, <1>10, <1>11 DEF BackedUp, Reverted
<1> QED
  BY <1>7, <1>10, <1>12 DEF Untouched

----------------------------------------------------------------------------
(* The inductive invariant *)

Shape ==
  /\ tip \in Tips /\ dbTip \in Tips
  /\ pc \in {"run", "flush_backup"}
  /\ DOMAIN mem = DOMAIN NoMem
  /\ mem.headers \subseteq Blocks
  /\ DOMAIN db.undo = DOMAIN db.loc_undo
  /\ DOMAIN mem.undo_infos = DOMAIN mem.loc_undo_infos

\* the hashes of the DB, its ref outpoints and mints are those of its tip's chain
HashesThere == \A n \in 1 .. tx_count(dbTip) : n - 1 \in DOMAIN db.hashes
RefsStored == db.ri = {op \in Made(TxsOf(dbTip)) : RefsAt(op) # {}}
MintsStored ==
  /\ DOMAIN db.rm = MintedRefs(Made(TxsOf(dbTip)))
  /\ \A r \in DOMAIN db.rm : db.rm[r] \in MintedBy(Made(TxsOf(dbTip)), r)

\* A is a set of tips that has, with a block, its parent, and the DB the undo
\* record of each of its blocks.
Recorded(A) ==
  /\ A \subseteq Tips /\ dbTip \in A
  /\ \A c \in A : Height[c] <= Height[dbTip]
  /\ \A c \in A \cap Blocks :
       /\ Parent[c] \in A
       /\ Height[c] \in DOMAIN db.undo /\ Record(c, db.undo[Height[c]])
AllRecorded == \E A : Recorded(A)

\* the blocks advanced since the last flush, from the DB's tip to the tip
Branch ==
  /\ tip \in mem.headers \cup {dbTip}
  /\ \A c \in mem.headers :
       /\ Parent[c] \in mem.headers \cup {dbTip}
       /\ Height[dbTip] < Height[c] /\ Height[c] <= Height[tip]
       /\ Height[c] \in DOMAIN mem.undo_infos /\ Record(c, mem.undo_infos[Height[c]])
  /\ \A h \in DOMAIN mem.undo_infos : h \in Int /\ Height[dbTip] < h
  /\ \A n \in tx_count(dbTip) .. tx_count(tip) - 1 :
       \E c \in mem.headers : n \in tx_count(Parent[c]) .. tx_count(c) - 1

\* what the caches of the blocks between two loops start the next loop with
Fresh(m) == Over(m, Scratch)

Ahead ==
  /\ Begins(dbTip, tip)
  /\ Advanced(Fresh(mem), tip, Unspent(tip), Made(TxsOf(tip)))
  /\ Branch
Running == IF tip = dbTip THEN mem = NoMem ELSE Ahead

\* inside a reorg, between the backup of a block and its flush
Reverting ==
  /\ dbTip \in Blocks /\ tip = Parent[dbTip]
  /\ Reverted(Fresh(mem), Unspent(tip), Taken(TxsOf(tip)))
  /\ mem.headers = {} /\ DOMAIN mem.undo_infos = {}

Inv ==
  /\ Shape
  /\ Stored
  /\ HashesThere
  /\ RefsStored
  /\ MintsStored
  /\ AllRecorded
  /\ pc = "run" => Running
  /\ pc = "flush_backup" => Reverting

----------------------------------------------------------------------------
(* The caches at the start of a block's loop *)

\* The caches that a loop starts with have every field.
LEMMA FreshIs ==
    ASSUME NEW m, DOMAIN m = DOMAIN NoMem
    PROVE  /\ DOMAIN Fresh(m) = Fields
           /\ \A f \in DOMAIN NoMem : Fresh(m)[f] = m[f]
           /\ Fresh(m).failed = FALSE /\ Fresh(m).undo = <<>>
  BY FieldsAre DEF Fresh, Over, Fields, Scratch

\* A loop starts with the caches of the blocks before.
LEMMA FreshFields ==
    ASSUME NEW m, DOMAIN m = DOMAIN NoMem
    PROVE  /\ Fresh(m).utxos = m.utxos /\ Fresh(m).refs = m.refs /\ Fresh(m).mints = m.mints
           /\ Fresh(m).deletes = m.deletes /\ Fresh(m).headers = m.headers
           /\ Fresh(m).undo_infos = m.undo_infos /\ Fresh(m).loc_undo_infos = m.loc_undo_infos
           /\ Fresh(m).locs = m.locs
<1>1. /\ "utxos" \in DOMAIN NoMem /\ "refs" \in DOMAIN NoMem /\ "mints" \in DOMAIN NoMem
      /\ "deletes" \in DOMAIN NoMem /\ "headers" \in DOMAIN NoMem /\ "locs" \in DOMAIN NoMem
      /\ "undo_infos" \in DOMAIN NoMem /\ "loc_undo_infos" \in DOMAIN NoMem
  BY FieldsAre
<1> HIDE DEF NoMem
<1> QED
  BY <1>1, FreshIs

\* NoMem has nothing cached.
LEMMA NoMemIs ==
  /\ DOMAIN NoMem.utxos = {} /\ NoMem.refs = {} /\ DOMAIN NoMem.mints = {}
  /\ DOMAIN NoMem.locs = {} /\ NoMem.deletes = {} /\ NoMem.headers = {}
  /\ DOMAIN NoMem.undo_infos = {} /\ DOMAIN NoMem.loc_undo_infos = {}
  BY DEF NoMem, Empty

\* v and w hold the same caches of UTXOs and refs.
SameCaches(v, w) ==
  /\ DOMAIN v = Fields /\ v.failed = FALSE
  /\ v.utxos = w.utxos /\ v.refs = w.refs /\ v.mints = w.mints /\ v.deletes = w.deletes

\* Advanced depends on the caches of UTXOs and refs only.
LEMMA SameAdvanced ==
    ASSUME NEW v, NEW w, SameCaches(v, w), NEW b, NEW U, NEW O, Advanced(w, b, U, O)
    PROVE  Advanced(v, b, U, O)
<1>1. Kept(v, b, U)
  BY DEF SameCaches, Advanced, Kept
<1> QED
  BY <1>1 DEF SameCaches, Advanced

\* So does Reverted.
LEMMA SameReverted ==
    ASSUME NEW v, NEW w, SameCaches(v, w), NEW U, NEW Q, Reverted(w, U, Q)
    PROVE  Reverted(v, U, Q)
<1>1. Kept(v, dbTip, U)
  BY DEF SameCaches, Reverted, Kept
<1> QED
  BY <1>1 DEF SameCaches, Reverted

\* With nothing cached, the DB holds the unspent outputs of its tip.
LEMMA NothingCached ==
    ASSUME Stored, RefsStored, MintsStored, NEW w, DOMAIN w = Fields, w.failed = FALSE,
           DOMAIN w.utxos = {}, w.refs = {}, DOMAIN w.mints = {}, w.deletes = {}
    PROVE  Advanced(w, dbTip, Unspent(dbTip), Made(TxsOf(dbTip)))
<1>1. Kept(w, dbTip, Unspent(dbTip))
  BY DEF Kept
<1> QED
  BY <1>1 DEF Advanced, RefsStored, MintsStored

\* While running the caches are ahead of the DB, by no block when there is nothing to flush.
LEMMA AheadAlways ==
    ASSUME Inv, pc = "run"
    PROVE  Ahead
<1>1. CASE tip = dbTip
  <2>1. mem = NoMem /\ dbTip \in Tips /\ DOMAIN mem = DOMAIN NoMem
    BY <1>1 DEF Inv, Running, Shape
  <2>2. Begins(dbTip, tip)
    BY <1>1, <2>1, BeginsSelf
  <2>3. PICK w : w = Fresh(mem)
    OBVIOUS
  <2>4. /\ DOMAIN w = Fields /\ w.failed = FALSE
        /\ DOMAIN w.utxos = {} /\ w.refs = {} /\ DOMAIN w.mints = {} /\ w.deletes = {}
    BY <2>1, <2>3, FreshIs, FreshFields, NoMemIs
  <2>5. Advanced(w, dbTip, Unspent(dbTip), Made(TxsOf(dbTip)))
    BY <2>4, NothingCached DEF Inv
  <2>6. mem.headers = {} /\ DOMAIN mem.undo_infos = {}
    BY <2>1, NoMemIs
  <2>7. tx_count(dbTip) .. tx_count(tip) - 1 = {}
    BY <1>1, <2>1, ChainShape
  <2>8. Branch
    BY <1>1, <2>6, <2>7 DEF Branch
  <2> QED
    BY <1>1, <2>2, <2>3, <2>5, <2>8 DEF Ahead
<1>2. CASE tip # dbTip
  BY <1>2 DEF Inv, Running
<1> QED
  BY <1>1, <1>2

----------------------------------------------------------------------------
(* Advancing keeps the invariant *)

\* The caches of a chain are those of a chain that extends it: tx numbers are the same.
LEMMA AdvancedOn ==
    ASSUME NEW t \in Tips, NEW b \in Tips, Begins(t, b), NEW w, NEW O,
           Advanced(w, t, Unspent(t), O)
    PROVE  Advanced(w, b, Unspent(t), O)
<1>1. ASSUME NEW op \in DOMAIN w.utxos PROVE w.utxos[op] = Val(b, op)
  <2>1. op \in Made(TxsOf(t)) /\ w.utxos[op] = Val(t, op)
    BY DEF Advanced, Kept, Unspent, Left
  <2> QED
    BY <2>1, RowSame
<1>2. Kept(w, b, Unspent(t))
  BY <1>1 DEF Advanced, Kept
<1> QED
  BY <1>2 DEF Advanced

\* the caches after the loop of block b, and its step
Noted(m, v, b) ==
  [[f \in DOMAIN mem |-> v[f]] EXCEPT
     !.undo_infos = With(@, Height[b], v.undo),
     !.loc_undo_infos = With(@, Height[b], v.loc_undo),
     !.headers = @ \cup {b}]

\* What Advance leaves in the caches after the loop.
LEMMA NotedIs ==
    ASSUME DOMAIN mem = DOMAIN NoMem, NEW v, NEW b, NEW m, m = Noted(mem, v, b)
    PROVE  /\ DOMAIN m = DOMAIN NoMem
           /\ m.utxos = v.utxos /\ m.refs = v.refs /\ m.mints = v.mints /\ m.deletes = v.deletes
           /\ m.headers = v.headers \cup {b}
           /\ m.undo_infos = With(v.undo_infos, Height[b], v.undo)
           /\ m.loc_undo_infos = With(v.loc_undo_infos, Height[b], v.loc_undo)
<1> HIDE DEF NoMem
<1> QED
  BY FieldsAre DEF Noted

\* The blocks since the last flush, after one more.
LEMMA BranchGrows ==
    ASSUME Shape, Branch, NEW b \in Blocks, Parent[b] = tip,
           NEW m, m.headers = mem.headers \cup {b},
           NEW rec, m.undo_infos = With(mem.undo_infos, Height[b], rec), Record(b, rec),
           tip' = b, mem' = m, dbTip' = dbTip
    PROVE  Branch' /\ tip' # dbTip'
<1>1. /\ Height[b] = Height[tip] + 1 /\ Height[b] \in Int /\ Height[tip] \in Int
      /\ Height[dbTip] \in Int /\ \A c \in mem.headers : Height[c] \in Int
      /\ tip \in Tips /\ b \in Tips
  BY Heights DEF Shape
<1>2. Height[dbTip] <= Height[tip]
  BY <1>1 DEF Branch
<1>3. Height[dbTip] < Height[b] /\ b # dbTip
  BY <1>1, <1>2
<1>4. /\ DOMAIN m.undo_infos = DOMAIN mem.undo_infos \cup {Height[b]}
      /\ m.undo_infos[Height[b]] = rec
      /\ \A h \in DOMAIN mem.undo_infos : h # Height[b] => m.undo_infos[h] = mem.undo_infos[h]
  BY DEF With, Over
<1>5. ASSUME NEW c \in mem.headers \cup {b}
      PROVE  /\ Parent[c] \in m.headers \cup {dbTip}
             /\ Height[dbTip] < Height[c] /\ Height[c] <= Height[b]
             /\ Height[c] \in DOMAIN m.undo_infos /\ Record(c, m.undo_infos[Height[c]])
  <2>1. CASE c = b
    BY <1>1, <1>3, <1>4, <2>1 DEF Branch
  <2>2. CASE c \in mem.headers
    <3>1. /\ Parent[c] \in mem.headers \cup {dbTip}
          /\ Height[dbTip] < Height[c] /\ Height[c] <= Height[tip]
          /\ Height[c] \in DOMAIN mem.undo_infos /\ Record(c, mem.undo_infos[Height[c]])
      BY <2>2 DEF Branch
    <3>2. Height[c] # Height[b] /\ Height[c] <= Height[b]
      BY <1>1, <2>2, <3>1
    <3> QED
      BY <1>4, <3>1, <3>2
  <2> QED
    BY <2>1, <2>2
<1>6. \A h \in DOMAIN m.undo_infos : h \in Int /\ Height[dbTip] < h
  BY <1>1, <1>3, <1>4 DEF Branch
<1>7. ASSUME NEW n \in tx_count(dbTip) .. tx_count(b) - 1
      PROVE  \E c \in m.headers : n \in tx_count(Parent[c]) .. tx_count(c) - 1
  <2>1. tx_count(tip) \in Nat /\ tx_count(b) \in Nat /\ tx_count(dbTip) \in Nat
    BY <1>1, ChainShape DEF Shape
  <2>2. CASE n \in tx_count(dbTip) .. tx_count(tip) - 1
    BY <2>2 DEF Branch
  <2>3. CASE n \in tx_count(tip) .. tx_count(b) - 1
    BY <2>3
  <2> QED
    BY <2>1, <2>2, <2>3
<1>8. b \in m.headers \cup {dbTip}
  OBVIOUS
<1> DEFINE B(hs, ui, t, d) ==
             /\ t \in hs \cup {d}
             /\ \A c \in hs :
                  /\ Parent[c] \in hs \cup {d}
                  /\ Height[d] < Height[c] /\ Height[c] <= Height[t]
                  /\ Height[c] \in DOMAIN ui /\ Record(c, ui[Height[c]])
             /\ \A h \in DOMAIN ui : h \in Int /\ Height[d] < h
             /\ \A n \in tx_count(d) .. tx_count(t) - 1 :
                  \E c \in hs : n \in tx_count(Parent[c]) .. tx_count(c) - 1
<1>9. B(m.headers, m.undo_infos, b, dbTip)
  BY <1>5, <1>6, <1>7, <1>8
<1>10. B(mem'.headers, mem'.undo_infos, tip', dbTip')
  <2> HIDE DEF B
  <2> QED
    BY <1>9
<1> QED
  BY <1>3, <1>10 DEF Branch, Record, ValuesOf, UndoIs, Val, NumOf, tx_count

\* Advance keeps the invariant.
LEMMA AdvanceStep ==
    ASSUME Inv, NEW b \in Blocks, Advance(b)
    PROVE  Inv'
<1> DEFINE w == Fresh(mem)
           v == AdvanceTxs(w, b)
           m == Noted(mem, v, b)
<1>1. /\ pc = "run" /\ Parent[b] = tip /\ tip' = b /\ db' = db /\ dbTip' = dbTip
      /\ pc' = IF v.failed THEN "stopped" ELSE "run"
      /\ mem' = m
  BY DEF Advance, Fresh, Noted
<1>2. Ahead /\ Shape /\ Stored
  BY <1>1, AheadAlways DEF Inv
<1>3. /\ b \in Tips /\ tip \in Tips /\ dbTip \in Tips /\ Begins(tip, b) /\ Begins(dbTip, b)
      /\ DOMAIN mem = DOMAIN NoMem
  BY <1>1, <1>2, BeginsChild, BeginsTransitive DEF Ahead, Shape
<1>4. w.undo = <<>> /\ w.headers = mem.headers /\ w.undo_infos = mem.undo_infos
      /\ w.loc_undo_infos = mem.loc_undo_infos
  BY <1>3, FreshIs, FreshFields
<1>5. Advanced(w, b, Unspent(tip), Made(TxsOf(tip)))
  BY <1>2, <1>3, AdvancedOn DEF Ahead
<1> HIDE DEF w
<1>6. /\ Advanced(v, b, Unspent(b), Made(TxsOf(b)))
      /\ Record(b, v.undo)
      /\ Untouched(v, w)
  BY <1>1, <1>2, <1>4, <1>5, AdvanceBlockKeeps DEF Ahead
<1> HIDE DEF v
<1>7. v.failed = FALSE
  BY <1>6 DEF Advanced, Kept
<1>8. /\ DOMAIN m = DOMAIN NoMem
      /\ m.utxos = v.utxos /\ m.refs = v.refs /\ m.mints = v.mints /\ m.deletes = v.deletes
      /\ m.headers = v.headers \cup {b}
      /\ m.undo_infos = With(v.undo_infos, Height[b], v.undo)
      /\ m.loc_undo_infos = With(v.loc_undo_infos, Height[b], v.loc_undo)
  BY <1>3, NotedIs
<1> HIDE DEF m
<1>9. /\ m.headers = mem.headers \cup {b}
      /\ m.undo_infos = With(mem.undo_infos, Height[b], v.undo)
      /\ m.loc_undo_infos = With(mem.loc_undo_infos, Height[b], v.loc_undo)
  BY <1>4, <1>6, <1>8 DEF Untouched
<1>10. SameCaches(Fresh(m), v)
  <2>1. /\ DOMAIN Fresh(m) = Fields /\ Fresh(m).failed = FALSE
        /\ Fresh(m).utxos = m.utxos /\ Fresh(m).refs = m.refs /\ Fresh(m).mints = m.mints
        /\ Fresh(m).deletes = m.deletes
    BY <1>8, FreshIs, FreshFields
  <2> QED
    BY <1>8, <2>1 DEF SameCaches
<1>11. Advanced(Fresh(m), b, Unspent(b), Made(TxsOf(b)))
  BY <1>6, <1>10, SameAdvanced
<1>12. Branch' /\ tip' # dbTip'
  BY <1>1, <1>2, <1>6, <1>9, BranchGrows DEF Ahead
<1>13. Shape'
  <2>1. DOMAIN m.undo_infos = DOMAIN m.loc_undo_infos
    BY <1>2, <1>9 DEF Shape, With, Over
  <2> QED
    BY <1>1, <1>2, <1>3, <1>7, <1>8, <1>9, <2>1 DEF Shape
<1>14. Advanced(Fresh(mem), tip, Unspent(tip), Made(TxsOf(tip)))'
  BY <1>1, <1>11 DEF Advanced, Kept, Fresh, Unspent
<1>15. Ahead'
  BY <1>1, <1>3, <1>12, <1>14 DEF Ahead, Begins, tx_count
<1>16. Running' /\ pc' = "run"
  BY <1>1, <1>7, <1>12, <1>15 DEF Running
<1>17. (Stored /\ HashesThere /\ RefsStored /\ MintsStored /\ AllRecorded)'
  <2>1. Stored'
    BY <1>1, <1>2 DEF Stored
  <2>2. (HashesThere /\ RefsStored /\ MintsStored)'
    BY <1>1 DEF Inv, HashesThere, RefsStored, MintsStored
  <2>3. AllRecorded'
    BY <1>1 DEF Inv, AllRecorded, Recorded
  <2> QED
    BY <2>1, <2>2, <2>3
<1> QED
  BY <1>13, <1>16, <1>17 DEF Inv

----------------------------------------------------------------------------
(* Flushing keeps the invariant *)

\* A key is deleted when it was marked for deletion.
LEMMA DeletedIs ==
    ASSUME \A d \in mem.deletes : d = <<d[1], d[2]>>, NEW table, NEW r
    PROVE  r \in Deleted(table) <=> <<table, r>> \in mem.deletes
<1>1. ASSUME r \in Deleted(table) PROVE <<table, r>> \in mem.deletes
  <2>1. PICK d \in mem.deletes : d[1] = table /\ d[2] = r
    BY <1>1 DEF Deleted
  <2> QED
    BY <2>1
<1>2. ASSUME <<table, r>> \in mem.deletes PROVE r \in Deleted(table)
  BY <1>2 DEF Deleted
<1> QED
  BY <1>1, <1>2

\* The 'h' and 'u' rows of a flush
LEMMA RowsFlushed ==
    ASSUME Stored, NEW t \in Tips, \A d \in mem.deletes : d = <<d[1], d[2]>>,
           DOMAIN mem.utxos = Unspent(t) \ Unspent(dbTip),
           \A op \in DOMAIN mem.utxos : mem.utxos[op] = Val(t, op),
           \A op \in Unspent(dbTip) :
             <<"hu", Row(dbTip, op)>> \in mem.deletes <=> op \notin Unspent(t),
           \A op \in Unspent(dbTip) \cap Unspent(t) : Row(dbTip, op) = Row(t, op)
    PROVE  flush_utxo_db.hu = {Row(t, op) : op \in Unspent(t)}
<1> DEFINE put == {[prefix |-> HashPrefix[op[1]], idx |-> op[2],
                    num |-> mem.utxos[op].num, hashX |-> mem.utxos[op].hashX]
                     : op \in DOMAIN mem.utxos}
           left == {Row(dbTip, op) : op \in Unspent(dbTip)} \ Deleted("hu")
<1>1. flush_utxo_db.hu = left \cup put
  BY DEF flush_utxo_db, Stored
<1>2. put = {Row(t, op) : op \in Unspent(t) \ Unspent(dbTip)}
  <2>1. \A op \in DOMAIN mem.utxos :
          [prefix |-> HashPrefix[op[1]], idx |-> op[2],
           num |-> mem.utxos[op].num, hashX |-> mem.utxos[op].hashX] = Row(t, op)
    <3>1. ASSUME NEW op \in DOMAIN mem.utxos
          PROVE  /\ mem.utxos[op].num = NumOf(t, op[1])
                 /\ mem.utxos[op].hashX = Outputs[op[1]][op[2] + 1].hashX
      <4>1. mem.utxos[op] = Val(t, op)
        OBVIOUS
      <4> QED
        BY <4>1 DEF Val
    <3> QED
      BY <3>1 DEF Row
  <2> QED
    BY <2>1
<1>3. left = {Row(t, op) : op \in Unspent(dbTip) \cap Unspent(t)}
  <2>1. \A op \in Unspent(dbTip) : Row(dbTip, op) \in Deleted("hu") <=> op \notin Unspent(t)
    BY DeletedIs
  <2> QED
    BY <2>1
<1> HIDE DEF put, left
<1> QED
  BY <1>1, <1>2, <1>3

\* The tables after a flush.
LEMMA FlushedTables ==
    ASSUME NEW hashes
    PROVE  LET d == Over(flush_utxo_db, [hashes |-> hashes]) IN
           /\ d.hu = flush_utxo_db.hu /\ d.ri = flush_utxo_db.ri /\ d.rm = flush_utxo_db.rm
           /\ d.undo = flush_utxo_db.undo /\ d.loc_undo = flush_utxo_db.loc_undo
           /\ d.hashes = hashes
<1> DEFINE g == [hashes |-> hashes]
<1>1. DOMAIN flush_utxo_db = {"hu", "ri", "rm", "rl", "undo", "loc_undo"}
  BY DEF flush_utxo_db
<1>2. DOMAIN g = {"hashes"} /\ g.hashes = hashes
  OBVIOUS
<1> HIDE DEF g
<1> QED
  BY <1>1, <1>2 DEF Over, g

\* After a flush the file of hashes has the tx of each number of the tip's chain.
LEMMA FlushedHashes ==
    ASSUME Shape, Stored, HashesThere, Ahead,
           NEW n \in 1 .. tx_count(tip), NEW h, h = Over(NewHashes, db.hashes)
    PROVE  n - 1 \in DOMAIN h /\ h[n - 1] = ChainTxs[tip][n]
<1> DEFINE new == UNION {tx_count(Parent[b])..tx_count(b) - 1 : b \in mem.headers}
<1>1. /\ DOMAIN NewHashes = new
      /\ \A k \in new : NewHashes[k] = ChainTxs[tip][k + 1]
  BY DEF NewHashes
<1>2. tx_count(tip) \in Nat /\ tx_count(dbTip) \in Nat
  BY ChainShape DEF Shape
<1>3. CASE n - 1 \in new
  <2>1. n - 1 + 1 = n
    BY <1>2
  <2>2. NewHashes[n - 1] = ChainTxs[tip][n]
    BY <1>1, <1>3, <2>1
  <2> HIDE DEF new
  <2> QED
    BY <1>1, <1>3, <2>2 DEF Over
<1>4. CASE n - 1 \notin new
  <2>1. n - 1 \notin tx_count(dbTip) .. tx_count(tip) - 1
    BY <1>4 DEF Ahead, Branch
  <2>2. n \in 1 .. tx_count(dbTip)
    BY <1>2, <2>1
  <2>3. n - 1 \in DOMAIN db.hashes /\ db.hashes[n - 1] = ChainTxs[tip][n]
    BY <2>2 DEF HashesThere, Stored, Ahead, Begins
  <2> HIDE DEF new
  <2> QED
    BY <1>1, <1>4, <2>3 DEF Over
<1> QED
  BY <1>3, <1>4

\* More outputs, more mints.
LEMMA MintedMore ==
    ASSUME NEW O, NEW P, O \subseteq P, NEW r
    PROVE  MintedBy(O, r) \subseteq MintedBy(P, r)
  BY DEF MintedBy

\* A flush of advanced blocks leaves the tables of the tip.
LEMMA AdvancedFlush ==
    ASSUME Shape, Stored, RefsStored, MintsStored, Ahead
    PROVE  /\ flush_utxo_db.hu = {Row(tip, op) : op \in Unspent(tip)}
           /\ flush_utxo_db.ri = {op \in Made(TxsOf(tip)) : RefsAt(op) # {}}
           /\ DOMAIN flush_utxo_db.rm = MintedRefs(Made(TxsOf(tip)))
           /\ \A r \in DOMAIN flush_utxo_db.rm :
                flush_utxo_db.rm[r] \in MintedBy(Made(TxsOf(tip)), r)
<1> DEFINE w == Fresh(mem)
           O == Made(TxsOf(tip))
<1>1. /\ tip \in Tips /\ dbTip \in Tips /\ DOMAIN mem = DOMAIN NoMem /\ Begins(dbTip, tip)
      /\ Advanced(w, tip, Unspent(tip), O)
  BY DEF Shape, Ahead
<1>2. w.utxos = mem.utxos /\ w.refs = mem.refs /\ w.mints = mem.mints /\ w.deletes = mem.deletes
  BY <1>1, FreshFields
<1> HIDE DEF w, O
<1>3. /\ DOMAIN mem.utxos = Unspent(tip) \ Unspent(dbTip)
      /\ \A op \in DOMAIN mem.utxos : mem.utxos[op] = Val(tip, op)
      /\ \A op \in Unspent(dbTip) :
           <<"hu", Row(dbTip, op)>> \in mem.deletes <=> op \notin Unspent(tip)
      /\ db.ri \cup mem.refs = {op \in O : RefsAt(op) # {}}
      /\ DOMAIN mem.mints \cup DOMAIN db.rm = MintedRefs(O)
      /\ \A r \in DOMAIN mem.mints : mem.mints[r] \in MintedBy(O, r)
      /\ \A d \in mem.deletes : d = <<"hu", d[2]>>
  BY <1>1, <1>2 DEF Advanced, Kept
<1>4. \A d \in mem.deletes : d = <<d[1], d[2]>> /\ d[1] = "hu"
  <2>1. ASSUME NEW d \in mem.deletes PROVE d = <<d[1], d[2]>> /\ d[1] = "hu"
    <3>1. PICK e : e = d[2]
      OBVIOUS
    <3>2. d = <<"hu", e>>
      BY <1>3, <3>1
    <3> QED
      BY <3>2
  <2> QED
    BY <2>1
<1>5. \A op \in Unspent(dbTip) : op \in Made(TxsOf(dbTip)) /\ Row(dbTip, op) = Row(tip, op)
  BY <1>1, RowSame DEF Unspent, Left
<1>6. flush_utxo_db.hu = {Row(tip, op) : op \in Unspent(tip)}
  BY <1>1, <1>3, <1>4, <1>5, RowsFlushed
<1>7. Deleted("ri") = {} /\ Deleted("rm") = {}
  BY <1>4 DEF Deleted
<1>8. flush_utxo_db.ri = db.ri \cup mem.refs
  BY <1>7 DEF flush_utxo_db
<1>9. flush_utxo_db.rm = Over(mem.mints, Without(db.rm, {}))
  BY <1>7 DEF flush_utxo_db
<1>10. /\ DOMAIN flush_utxo_db.rm = DOMAIN mem.mints \cup DOMAIN db.rm
       /\ \A r \in DOMAIN flush_utxo_db.rm :
            flush_utxo_db.rm[r] = IF r \in DOMAIN mem.mints THEN mem.mints[r] ELSE db.rm[r]
  BY <1>9 DEF Over, Without
<1>11. ASSUME NEW r \in DOMAIN db.rm PROVE db.rm[r] \in MintedBy(O, r)
  <2>1. Made(TxsOf(dbTip)) \subseteq O
    BY <1>1, RowSame DEF O
  <2>2. db.rm[r] \in MintedBy(Made(TxsOf(dbTip)), r)
    BY DEF MintsStored
  <2> QED
    BY <2>1, <2>2, MintedMore
<1>12. ASSUME NEW r \in DOMAIN flush_utxo_db.rm PROVE flush_utxo_db.rm[r] \in MintedBy(O, r)
  BY <1>3, <1>10, <1>11
<1> QED
  BY <1>3, <1>6, <1>8, <1>10, <1>12 DEF O

\* After a flush the DB has the undo records of the blocks of the tip's chain.
LEMMA RecordsFlushed ==
    ASSUME Shape, Branch, NEW A, Recorded(A), NEW undo, undo = Over(mem.undo_infos, db.undo)
    PROVE  LET B == A \cup mem.headers IN
           /\ B \subseteq Tips /\ tip \in B
           /\ \A c \in B : Height[c] <= Height[tip]
           /\ \A c \in B \cap Blocks :
                /\ Parent[c] \in B
                /\ Height[c] \in DOMAIN undo /\ Record(c, undo[Height[c]])
<1>1. /\ tip \in Tips /\ dbTip \in Tips /\ Height[tip] \in Int /\ Height[dbTip] \in Int
      /\ mem.headers \subseteq Blocks /\ Blocks \subseteq Tips
  BY Heights DEF Shape, Tips
<1>2. Height[dbTip] <= Height[tip]
  BY <1>1 DEF Branch
<1>3. /\ A \subseteq Tips /\ dbTip \in A
      /\ \A c \in A : Height[c] <= Height[dbTip] /\ Height[c] \in Int
      /\ \A c \in A \cap Blocks :
           /\ Parent[c] \in A
           /\ Height[c] \in DOMAIN db.undo /\ Record(c, db.undo[Height[c]])
  BY Heights DEF Recorded
<1>4. ASSUME NEW c \in A
      PROVE  Height[c] <= Height[tip] /\ Height[c] \notin DOMAIN mem.undo_infos
  BY <1>1, <1>2, <1>3 DEF Branch
<1>5. ASSUME NEW c \in A \cap Blocks
      PROVE  Height[c] \in DOMAIN undo /\ Record(c, undo[Height[c]])
  BY <1>3, <1>4 DEF Over
<1>6. ASSUME NEW c \in mem.headers
      PROVE  /\ Parent[c] \in A \cup mem.headers /\ Height[c] <= Height[tip]
             /\ Height[c] \in DOMAIN undo /\ Record(c, undo[Height[c]])
  <2>1. /\ Parent[c] \in mem.headers \cup {dbTip} /\ Height[c] <= Height[tip]
        /\ Height[c] \in DOMAIN mem.undo_infos /\ Record(c, mem.undo_infos[Height[c]])
    BY DEF Branch
  <2> QED
    BY <1>3, <2>1 DEF Over
<1>7. tip \in A \cup mem.headers
  BY <1>3 DEF Branch
<1> QED
  BY <1>1, <1>3, <1>4, <1>5, <1>6, <1>7

\* Flush keeps the invariant.
LEMMA FlushStep ==
    ASSUME Inv, Flush
    PROVE  Inv'
<1> DEFINE h == Over(NewHashes, db.hashes)
<1>1. /\ pc = "run" /\ mem' = NoMem /\ dbTip' = tip /\ tip' = tip /\ pc' = pc
      /\ db' = Over(flush_utxo_db, [hashes |-> h])
  BY DEF Flush
<1>2. Ahead /\ Branch /\ Shape /\ Stored /\ HashesThere /\ RefsStored /\ MintsStored
  BY <1>1, AheadAlways DEF Inv, Ahead
<1>3. /\ db'.hu = flush_utxo_db.hu /\ db'.ri = flush_utxo_db.ri /\ db'.rm = flush_utxo_db.rm
      /\ db'.undo = flush_utxo_db.undo /\ db'.loc_undo = flush_utxo_db.loc_undo
      /\ db'.hashes = h
  <2> HIDE DEF h
  <2> QED
    BY <1>1, FlushedTables
<1>4. /\ flush_utxo_db.undo = Over(mem.undo_infos, db.undo)
      /\ flush_utxo_db.loc_undo = Over(mem.loc_undo_infos, db.loc_undo)
  BY DEF flush_utxo_db
<1>5. \A n \in 1 .. tx_count(tip) : n - 1 \in DOMAIN h /\ h[n - 1] = ChainTxs[tip][n]
  BY <1>2, FlushedHashes
<1> HIDE DEF h
<1>6. Shape'
  <2>1. DOMAIN db'.undo = DOMAIN db'.loc_undo
    BY <1>2, <1>3, <1>4 DEF Shape, Over
  <2>2. DOMAIN mem'.undo_infos = DOMAIN mem'.loc_undo_infos /\ mem'.headers = {}
    BY <1>1, NoMemIs
  <2> QED
    BY <1>1, <1>2, <2>1, <2>2 DEF Shape
<1>7. Stored'
  <2>1. db'.hu = {Row(tip, op) : op \in Unspent(tip)}
    BY <1>2, <1>3, AdvancedFlush
  <2>2. \A n \in 1 .. tx_count(tip) : db'.hashes[n - 1] = ChainTxs[tip][n]
    BY <1>3, <1>5
  <2>3. tip \in Tips
    BY <1>2 DEF Shape
  <2> QED
    BY <1>1, <2>1, <2>2, <2>3 DEF Stored, Unspent, tx_count
<1>8. HashesThere'
  BY <1>1, <1>3, <1>5 DEF HashesThere, tx_count
<1>9. RefsStored' /\ MintsStored'
  <2>1. /\ db'.ri = {op \in Made(TxsOf(tip)) : RefsAt(op) # {}}
        /\ DOMAIN db'.rm = MintedRefs(Made(TxsOf(tip)))
        /\ \A r \in DOMAIN db'.rm : db'.rm[r] \in MintedBy(Made(TxsOf(tip)), r)
    BY <1>2, <1>3, AdvancedFlush
  <2> QED
    BY <1>1, <2>1 DEF RefsStored, MintsStored
<1>10. AllRecorded'
  <2>1. PICK A : Recorded(A)
    BY DEF Inv, AllRecorded
  <2>2. PICK B : B = A \cup mem.headers
    OBVIOUS
  <2>3. /\ B \subseteq Tips /\ tip \in B
        /\ \A c \in B : Height[c] <= Height[tip]
        /\ \A c \in B \cap Blocks :
             /\ Parent[c] \in B
             /\ Height[c] \in DOMAIN db'.undo /\ Record(c, db'.undo[Height[c]])
    BY <1>2, <1>3, <1>4, <2>1, <2>2, RecordsFlushed
  <2> QED
    BY <1>1, <2>3 DEF AllRecorded, Recorded
<1>11. Running' /\ pc' = "run"
  BY <1>1 DEF Running
<1> QED
  BY <1>6, <1>7, <1>8, <1>9, <1>10, <1>11 DEF Inv

----------------------------------------------------------------------------
(* Backing up keeps the invariant *)

\* BackupBlock keeps the invariant.
LEMMA BackupBlockStep ==
    ASSUME Inv, BackupBlock
    PROVE  Inv'
<1> DEFINE start == [Scratch EXCEPT !.undo = db.undo[Height[tip]],
                                    !.loc_undo = db.loc_undo[Height[tip]]]
           w == Over(mem, start)
           v == BackupTxs(w, tip)
           m == [f \in DOMAIN mem |-> v[f]]
<1>1. /\ pc = "run" /\ tip = dbTip /\ tip # NoBlock /\ tip' = Parent[tip]
      /\ pc' = IF v.failed THEN "stopped" ELSE "flush_backup"
      /\ mem' = m /\ db' = db /\ dbTip' = dbTip
  BY DEF BackupBlock
<1>2. /\ Shape /\ Stored /\ RefsStored /\ MintsStored /\ mem = NoMem
  BY <1>1 DEF Inv, Running
<1>3. /\ dbTip \in Blocks /\ Parent[dbTip] \in Tips /\ DOMAIN mem = DOMAIN NoMem
  BY <1>1, <1>2, Heights DEF Shape, Tips
<1>4. Record(dbTip, db.undo[Height[tip]])
  <2>1. PICK A : Recorded(A)
    BY DEF Inv, AllRecorded
  <2> QED
    BY <1>1, <1>3, <2>1 DEF Recorded
<1>5. /\ DOMAIN start = DOMAIN Scratch /\ start.failed = FALSE
      /\ start.undo = db.undo[Height[tip]]
  BY DEF Scratch
<1> HIDE DEF start
<1>6. /\ DOMAIN w = Fields /\ w.failed = FALSE /\ w.undo = db.undo[Height[tip]]
      /\ \A f \in DOMAIN NoMem : w[f] = mem[f]
  <2>1. /\ "failed" \in Fields /\ "failed" \notin DOMAIN mem
        /\ "undo" \in Fields /\ "undo" \notin DOMAIN mem
    BY <1>3, FieldsAre
  <2> QED
    BY <1>3, <1>5, <2>1 DEF Over, Fields
<1> HIDE DEF w
<1>7. /\ DOMAIN w.utxos = {} /\ w.refs = {} /\ DOMAIN w.mints = {} /\ DOMAIN w.locs = {}
      /\ w.deletes = {} /\ w.headers = {} /\ DOMAIN w.undo_infos = {}
      /\ DOMAIN w.loc_undo_infos = {}
  <2>1. \A f \in DOMAIN NoMem : w[f] = NoMem[f]
    BY <1>2, <1>6
  <2>2. /\ w.utxos = NoMem.utxos /\ w.refs = NoMem.refs /\ w.mints = NoMem.mints
        /\ w.locs = NoMem.locs /\ w.deletes = NoMem.deletes /\ w.headers = NoMem.headers
        /\ w.undo_infos = NoMem.undo_infos /\ w.loc_undo_infos = NoMem.loc_undo_infos
    BY <2>1, FieldsAre
  <2> QED
    BY <2>2, NoMemIs
<1>8. BackedUp(w, Unspent(dbTip), {})
  <2>1. Kept(w, dbTip, Unspent(dbTip))
    BY <1>6, <1>7 DEF Kept
  <2> QED
    BY <1>7, <2>1 DEF BackedUp, MintedBy
<1>9. /\ Reverted(v, Unspent(Parent[dbTip]), Taken(TxsOf(Parent[dbTip])))
      /\ Untouched(v, w)
  BY <1>1, <1>2, <1>3, <1>4, <1>6, <1>8, BackupBlockKeeps
<1> HIDE DEF v
<1>10. v.failed = FALSE
  BY <1>9 DEF Reverted, Kept
<1>11. /\ DOMAIN m = DOMAIN NoMem
       /\ m.utxos = v.utxos /\ m.refs = v.refs /\ m.mints = v.mints /\ m.deletes = v.deletes
       /\ m.headers = v.headers /\ m.undo_infos = v.undo_infos
       /\ m.loc_undo_infos = v.loc_undo_infos
  <2> HIDE DEF NoMem
  <2> QED
    BY <1>3, FieldsAre
<1> HIDE DEF m
<1>12. m.headers = {} /\ DOMAIN m.undo_infos = {} /\ DOMAIN m.loc_undo_infos = {}
  BY <1>7, <1>9, <1>11 DEF Untouched
<1>13. SameCaches(Fresh(m), v)
  <2>1. /\ DOMAIN Fresh(m) = Fields /\ Fresh(m).failed = FALSE
        /\ Fresh(m).utxos = m.utxos /\ Fresh(m).refs = m.refs /\ Fresh(m).mints = m.mints
        /\ Fresh(m).deletes = m.deletes
    BY <1>11, FreshIs, FreshFields
  <2> QED
    BY <1>11, <2>1 DEF SameCaches
<1>14. Reverted(Fresh(m), Unspent(Parent[dbTip]), Taken(TxsOf(Parent[dbTip])))
  BY <1>9, <1>13, SameReverted
<1>15. Shape'
  BY <1>1, <1>2, <1>3, <1>10, <1>11, <1>12 DEF Shape
<1>16. Reverted(Fresh(mem), Unspent(tip), Taken(TxsOf(tip)))'
  BY <1>1, <1>14 DEF Reverted, Kept, Fresh, Unspent, Taken
<1>17. Reverting' /\ pc' = "flush_backup"
  BY <1>1, <1>3, <1>10, <1>12, <1>16 DEF Reverting
<1>18. (Stored /\ HashesThere /\ RefsStored /\ MintsStored /\ AllRecorded)'
  <2>1. Stored'
    BY <1>1, <1>2 DEF Stored
  <2>2. (HashesThere /\ RefsStored /\ MintsStored)'
    BY <1>1 DEF Inv, HashesThere, RefsStored, MintsStored
  <2>3. AllRecorded'
    BY <1>1 DEF Inv, AllRecorded, Recorded
  <2> QED
    BY <2>1, <2>2, <2>3
<1> QED
  BY <1>15, <1>17, <1>18 DEF Inv

\* An outpoint that a tx of the tip's block spends is spent by no tx before it.
LEMMA SpentOnce ==
    ASSUME NEW b \in Blocks, NEW x \in TxsOf(b), x \notin TxsOf(Parent[b]),
           NEW y \in TxsOf(Parent[b])
    PROVE  ToSet(Inputs[x]) \cap ToSet(Inputs[y]) = {}
<1>1. b \in Tips /\ Parent[b] \in Tips
  BY Heights
<1>2. PICK n \in 1 .. tx_count(b) : x = ChainTxs[b][n]
  BY <1>1, ChainShape DEF TxsOf, ToSet
<1>3. PICK m \in 1 .. tx_count(Parent[b]) : y = ChainTxs[Parent[b]][m]
  BY <1>1, ChainShape DEF TxsOf, ToSet
<1>4. ChainTxs[b][m] = y /\ tx_count(b) \in Nat /\ tx_count(Parent[b]) \in Nat
  BY <1>1, <1>3, ChainSteps, ChainShape
<1>5. n > tx_count(Parent[b])
  <2>1. SUFFICES ASSUME n \in 1 .. tx_count(Parent[b]) PROVE FALSE
    BY <1>4
  <2>2. x = ChainTxs[Parent[b]][n]
    BY <1>2, <2>1, ChainSteps
  <2> QED
    BY <1>1, <2>1, <2>2, ChainShape DEF TxsOf, ToSet
<1>6. y \in First(b, n - 1)
  BY <1>3, <1>4, <1>5 DEF First
<1>7. ToSet(Inputs[x]) \subseteq Left(First(b, n - 1))
  BY <1>1, <1>2, Legal
<1> QED
  BY <1>6, <1>7 DEF Left, Used

\* A ref is minted by the block that is taken back or by the chain below it, not by both.
LEMMA MintsReverted ==
    ASSUME dbTip \in Blocks, NEW r
    PROVE  /\ MintedBy(Made(TxsOf(dbTip)), r)
                = MintedBy(Made(TxsOf(Parent[dbTip])), r)
                    \cup MintedBy(Taken(TxsOf(Parent[dbTip])), r)
           /\ \/ MintedBy(Made(TxsOf(Parent[dbTip])), r) = {}
              \/ MintedBy(Taken(TxsOf(Parent[dbTip])), r) = {}
<1> DEFINE O == Made(TxsOf(dbTip))
           P == Made(TxsOf(Parent[dbTip]))
           Q == Taken(TxsOf(Parent[dbTip]))
<1>1. dbTip \in Tips /\ Parent[dbTip] \in Tips /\ Begins(Parent[dbTip], dbTip)
  BY BeginsChild
<1>2. P \subseteq O
  BY <1>1, RowSame
<1>3. O = P \cup Q
  BY <1>2 DEF Taken
<1>4. MintedBy(O, r) = MintedBy(P, r) \cup MintedBy(Q, r)
  <2> HIDE DEF O, P, Q
  <2> QED
    BY <1>3 DEF MintedBy
<1>5. ASSUME NEW y \in MintedBy(P, r), NEW x \in MintedBy(Q, r) PROVE FALSE
  <2>1. y \in TxsOf(Parent[dbTip]) /\ r \in ToSet(Inputs[y])
    BY <1>1, MadeOutput DEF MintedBy
  <2>2. PICK op \in Q : x = op[1] /\ r \in ToSet(Inputs[x])
    BY DEF MintedBy
  <2>3. op \in O /\ op \notin P
    BY <2>2 DEF Taken
  <2>4. x \in TxsOf(dbTip)
    BY <1>1, <2>2, <2>3, MadeOutput
  <2>5. x \notin TxsOf(Parent[dbTip])
    <3>1. PICK i \in DOMAIN Outputs[op[1]] :
            op[1] \in TxsOf(dbTip) /\ op = <<op[1], i - 1>> /\ Outputs[op[1]][i].indexable
      BY <2>3, MadeIs
    <3>2. op \in MadeBy(x)
      BY <2>2, <3>1 DEF MadeBy
    <3> QED
      BY <2>3, <3>2 DEF Made
  <2> QED
    BY <2>1, <2>2, <2>4, <2>5, SpentOnce
<1> QED
  <2> HIDE DEF O, P, Q
  <2>1. MintedBy(P, r) = {} \/ MintedBy(Q, r) = {}
    BY <1>5
  <2> QED
    BY <1>4, <2>1 DEF O, P, Q

\* The flush of a backup leaves the tables of the parent.
LEMMA RevertedFlush ==
    ASSUME Shape, Stored, RefsStored, MintsStored, Reverting
    PROVE  /\ flush_utxo_db.hu = {Row(tip, op) : op \in Unspent(tip)}
           /\ flush_utxo_db.ri = {op \in Made(TxsOf(tip)) : RefsAt(op) # {}}
           /\ DOMAIN flush_utxo_db.rm = MintedRefs(Made(TxsOf(tip)))
           /\ \A r \in DOMAIN flush_utxo_db.rm :
                flush_utxo_db.rm[r] \in MintedBy(Made(TxsOf(tip)), r)
<1> DEFINE w == Fresh(mem)
           O == Made(TxsOf(dbTip))
           P == Made(TxsOf(tip))
           Q == Taken(TxsOf(tip))
<1>1. /\ tip \in Tips /\ dbTip \in Blocks /\ dbTip \in Tips /\ tip = Parent[dbTip]
      /\ DOMAIN mem = DOMAIN NoMem /\ Begins(tip, dbTip)
      /\ Reverted(w, Unspent(tip), Q)
  BY BeginsChild DEF Shape, Reverting
<1>2. w.utxos = mem.utxos /\ w.refs = mem.refs /\ w.mints = mem.mints /\ w.deletes = mem.deletes
  BY <1>1, FreshFields
<1> HIDE DEF w, Q
<1>3. /\ DOMAIN mem.utxos = Unspent(tip) \ Unspent(dbTip)
      /\ \A op \in DOMAIN mem.utxos : mem.utxos[op] = Val(dbTip, op)
      /\ \A op \in Unspent(dbTip) :
           <<"hu", Row(dbTip, op)>> \in mem.deletes <=> op \notin Unspent(tip)
      /\ mem.refs = {} /\ DOMAIN mem.mints = {}
      /\ \A op \in db.ri : <<"ri", op>> \in mem.deletes <=> op \in Q
      /\ \A r \in DOMAIN db.rm : <<"rm", r>> \in mem.deletes <=> MintedBy(Q, r) # {}
      /\ \A d \in mem.deletes : d = <<d[1], d[2]>>
  BY <1>1, <1>2 DEF Reverted, Kept
<1>4. \A op \in Unspent(tip) : /\ op \in P
                               /\ Row(dbTip, op) = Row(tip, op) /\ Val(dbTip, op) = Val(tip, op)
  BY <1>1, RowSame DEF Unspent, Left
<1>5. flush_utxo_db.hu = {Row(tip, op) : op \in Unspent(tip)}
  <2>1. \A op \in DOMAIN mem.utxos : mem.utxos[op] = Val(tip, op)
    BY <1>3, <1>4
  <2>2. \A op \in Unspent(dbTip) \cap Unspent(tip) : Row(dbTip, op) = Row(tip, op)
    BY <1>4
  <2> QED
    BY <1>1, <1>3, <2>1, <2>2, RowsFlushed
<1>6. P \subseteq O /\ Q = O \ P
  BY <1>1, RowSame DEF Taken, Q
<1>7. flush_utxo_db.ri = {op \in P : RefsAt(op) # {}}
  <2>1. flush_utxo_db.ri = db.ri \ Deleted("ri")
    BY <1>3 DEF flush_utxo_db
  <2>2. \A op \in db.ri : op \in Deleted("ri") <=> op \in Q
    BY <1>3, DeletedIs
  <2>3. db.ri = {op \in O : RefsAt(op) # {}}
    BY DEF RefsStored
  <2> HIDE DEF O, P
  <2> QED
    BY <1>6, <2>1, <2>2, <2>3
<1>8. /\ DOMAIN flush_utxo_db.rm = {r \in DOMAIN db.rm : MintedBy(Q, r) = {}}
      /\ \A r \in DOMAIN flush_utxo_db.rm : flush_utxo_db.rm[r] = db.rm[r]
  <2>1. flush_utxo_db.rm = Over(mem.mints, Without(db.rm, Deleted("rm")))
    BY DEF flush_utxo_db
  <2>2. \A r \in DOMAIN db.rm : r \in Deleted("rm") <=> MintedBy(Q, r) # {}
    BY <1>3, DeletedIs
  <2> QED
    BY <1>3, <2>1, <2>2 DEF Over, Without
<1>9. \A r : /\ MintedBy(O, r) = MintedBy(P, r) \cup MintedBy(Q, r)
             /\ MintedBy(P, r) = {} \/ MintedBy(Q, r) = {}
  BY <1>1, MintsReverted DEF Q
<1>10. /\ DOMAIN db.rm = MintedRefs(O)
       /\ \A r \in DOMAIN db.rm : db.rm[r] \in MintedBy(O, r)
  BY DEF MintsStored
<1> HIDE DEF O, P
<1>11. MintedRefs(P) = {r \in MintedRefs(O) : MintedBy(Q, r) = {}}
  <2>1. ASSUME NEW r \in MintedRefs(P) PROVE r \in MintedRefs(O) /\ MintedBy(Q, r) = {}
    BY <1>6, <1>9 DEF MintedRefs
  <2>2. ASSUME NEW r \in MintedRefs(O), MintedBy(Q, r) = {} PROVE r \in MintedRefs(P)
    <3>1. MintedBy(P, r) # {}
      BY <1>9, <2>2 DEF MintedRefs
    <3>2. \E op \in P : r \in RefsAt(op)
      BY <3>1 DEF MintedBy
    <3> QED
      BY <3>1, <3>2 DEF MintedRefs
  <2> QED
    BY <2>1, <2>2
<1>12. DOMAIN flush_utxo_db.rm = MintedRefs(P)
  BY <1>8, <1>10, <1>11
<1>13. ASSUME NEW r \in DOMAIN flush_utxo_db.rm PROVE flush_utxo_db.rm[r] \in MintedBy(P, r)
  <2>1. r \in DOMAIN db.rm /\ MintedBy(Q, r) = {} /\ flush_utxo_db.rm[r] = db.rm[r]
    BY <1>8
  <2>2. db.rm[r] \in MintedBy(O, r)
    BY <1>10, <2>1
  <2> QED
    BY <1>9, <2>1, <2>2
<1> QED
  BY <1>5, <1>7, <1>12, <1>13 DEF P

\* FlushBackup keeps the invariant.
LEMMA FlushBackupStep ==
    ASSUME Inv, FlushBackup
    PROVE  Inv'
<1>1. /\ pc = "flush_backup" /\ mem' = NoMem /\ dbTip' = tip /\ tip' = tip /\ pc' = "run"
      /\ db' = Over(flush_utxo_db, [hashes |-> db.hashes])
  BY DEF FlushBackup
<1>2. Reverting /\ Shape /\ Stored /\ HashesThere /\ RefsStored /\ MintsStored
  BY <1>1 DEF Inv
<1>3. /\ db'.hu = flush_utxo_db.hu /\ db'.ri = flush_utxo_db.ri /\ db'.rm = flush_utxo_db.rm
      /\ db'.undo = flush_utxo_db.undo /\ db'.loc_undo = flush_utxo_db.loc_undo
      /\ db'.hashes = db.hashes
  BY <1>1, FlushedTables
<1>4. /\ flush_utxo_db.undo = Over(mem.undo_infos, db.undo)
      /\ flush_utxo_db.loc_undo = Over(mem.loc_undo_infos, db.loc_undo)
  BY DEF flush_utxo_db
<1>5. /\ tip \in Tips /\ dbTip \in Tips /\ dbTip \in Blocks /\ tip = Parent[dbTip]
      /\ Begins(tip, dbTip) /\ DOMAIN mem.undo_infos = {}
      /\ Height[tip] \in Int /\ Height[dbTip] = Height[tip] + 1
  BY <1>2, BeginsChild, Heights DEF Shape, Reverting
<1>6. Shape'
  <2>1. DOMAIN db'.undo = DOMAIN db'.loc_undo
    BY <1>2, <1>3, <1>4 DEF Shape, Over
  <2>2. DOMAIN mem'.undo_infos = DOMAIN mem'.loc_undo_infos /\ mem'.headers = {}
    BY <1>1, NoMemIs
  <2> QED
    BY <1>1, <1>2, <2>1, <2>2 DEF Shape
<1>7. Stored' /\ HashesThere'
  <2>1. db'.hu = {Row(tip, op) : op \in Unspent(tip)}
    BY <1>2, <1>3, RevertedFlush
  <2>2. ASSUME NEW n \in 1 .. tx_count(tip)
        PROVE  n - 1 \in DOMAIN db'.hashes /\ db'.hashes[n - 1] = ChainTxs[tip][n]
    <3>1. n \in 1 .. tx_count(dbTip) /\ ChainTxs[dbTip][n] = ChainTxs[tip][n]
      <4>1. tx_count(tip) <= tx_count(dbTip) /\ tx_count(tip) \in Nat /\ tx_count(dbTip) \in Nat
        BY <1>5, ChainShape DEF Begins
      <4> QED
        BY <1>5, <4>1 DEF Begins
    <3> QED
      BY <1>2, <1>3, <3>1 DEF Stored, HashesThere
  <2>3. Stored'
    BY <1>1, <1>5, <2>1, <2>2 DEF Stored, Unspent, tx_count
  <2>4. HashesThere'
    BY <1>1, <2>2 DEF HashesThere, tx_count
  <2> QED
    BY <2>3, <2>4
<1>8. RefsStored' /\ MintsStored'
  <2>1. /\ db'.ri = {op \in Made(TxsOf(tip)) : RefsAt(op) # {}}
        /\ DOMAIN db'.rm = MintedRefs(Made(TxsOf(tip)))
        /\ \A r \in DOMAIN db'.rm : db'.rm[r] \in MintedBy(Made(TxsOf(tip)), r)
    BY <1>2, <1>3, RevertedFlush
  <2> QED
    BY <1>1, <2>1 DEF RefsStored, MintsStored
<1>9. AllRecorded'
  <2>1. PICK A : Recorded(A)
    BY DEF Inv, AllRecorded
  <2>2. PICK B : B = {c \in A : Height[c] <= Height[tip]}
    OBVIOUS
  <2>3. /\ A \subseteq Tips /\ dbTip \in A /\ tip \in A
        /\ \A c \in A \cap Blocks :
             /\ Parent[c] \in A
             /\ Height[c] \in DOMAIN db.undo /\ Record(c, db.undo[Height[c]])
    BY <1>5, <2>1 DEF Recorded
  <2>4. \A c \in B \cap Blocks : Height[Parent[c]] <= Height[tip]
    <3>1. \A c \in Blocks : Height[Parent[c]] + 1 = Height[c] /\ Height[Parent[c]] \in Int
                            /\ Height[c] \in Int
      BY Heights
    <3> QED
      BY <1>5, <2>2, <3>1
  <2>5. \A h \in DOMAIN db.undo : h \in DOMAIN db'.undo /\ db'.undo[h] = db.undo[h]
    BY <1>3, <1>4, <1>5 DEF Over
  <2>6. /\ B \subseteq Tips /\ tip \in B
        /\ \A c \in B : Height[c] <= Height[tip]
        /\ \A c \in B \cap Blocks :
             /\ Parent[c] \in B
             /\ Height[c] \in DOMAIN db'.undo /\ Record(c, db'.undo[Height[c]])
    BY <1>5, <2>2, <2>3, <2>4, <2>5
  <2> QED
    BY <1>1, <2>6 DEF AllRecorded, Recorded
<1>10. Running' /\ pc' = "run"
  BY <1>1 DEF Running
<1> QED
  BY <1>6, <1>7, <1>8, <1>9, <1>10 DEF Inv

----------------------------------------------------------------------------
(* The theorems *)

\* The invariant holds at the start.
LEMMA InvInit == Init => Inv
<1> SUFFICES ASSUME Init PROVE Inv
  OBVIOUS
<1>1. /\ tip = NoBlock /\ dbTip = NoBlock /\ pc = "run" /\ mem = NoMem
      /\ db.hu = {} /\ db.ri = {} /\ DOMAIN db.rm = {} /\ DOMAIN db.undo = {}
      /\ DOMAIN db.loc_undo = {}
  BY DEF Init, Empty
<1>2. NoBlock \in Tips /\ NoBlock \notin Blocks /\ tx_count(NoBlock) = 0 /\ TxsOf(NoBlock) = {}
      /\ Height[NoBlock] \in Int
  BY Heights, NoTxs
<1>3. Made({}) = {} /\ Unspent(NoBlock) = {}
  BY <1>2 DEF Made, Unspent, Left
<1>4. MintedRefs({}) = {}
  BY DEF MintedRefs
<1>5. Shape
  BY <1>1, <1>2, NoMemIs DEF Shape
<1>6. Stored /\ HashesThere
  BY <1>1, <1>2, <1>3 DEF Stored, HashesThere
<1>7. RefsStored /\ MintsStored
  BY <1>1, <1>2, <1>3, <1>4 DEF RefsStored, MintsStored
<1>8. Recorded({NoBlock})
  BY <1>1, <1>2 DEF Recorded
<1> QED
  BY <1>1, <1>5, <1>6, <1>7, <1>8 DEF Inv, AllRecorded, Running

\* Every step keeps the invariant.
LEMMA InvNext == Inv /\ [Next]_vars => Inv'
<1> SUFFICES ASSUME Inv, [Next]_vars PROVE Inv'
  OBVIOUS
<1>1. ASSUME NEW b \in Blocks, Advance(b) PROVE Inv'
  BY <1>1, AdvanceStep
<1>2. CASE Flush
  BY <1>2, FlushStep
<1>3. CASE BackupBlock
  BY <1>3, BackupBlockStep
<1>4. CASE FlushBackup
  BY <1>4, FlushBackupStep
<1>5. CASE Crash
  <2>1. tip' = dbTip /\ dbTip' = dbTip /\ pc' = "run" /\ mem' = NoMem /\ db' = db
    BY <1>5 DEF Crash
  <2>2. Shape'
    <3>1. DOMAIN mem'.undo_infos = DOMAIN mem'.loc_undo_infos /\ mem'.headers = {}
      BY <2>1, NoMemIs
    <3> QED
      BY <2>1, <3>1 DEF Inv, Shape
  <2>3. (Stored /\ HashesThere /\ RefsStored /\ MintsStored /\ AllRecorded)'
    BY <2>1 DEF Inv, Stored, HashesThere, RefsStored, MintsStored, AllRecorded, Recorded
  <2> QED
    BY <2>1, <2>2, <2>3 DEF Inv, Running
<1>6. CASE UNCHANGED vars
  <2>1. /\ tip' = tip /\ pc' = pc /\ mem' = mem /\ db' = db /\ dbTip' = dbTip
    BY <1>6 DEF vars
  <2>2. Shape'
    BY <2>1 DEF Inv, Shape
  <2>3. (Stored /\ HashesThere /\ RefsStored /\ MintsStored /\ AllRecorded)'
    BY <2>1 DEF Inv, Stored, HashesThere, RefsStored, MintsStored, AllRecorded, Recorded
  <2>4. ASSUME Ahead PROVE Ahead'
    BY <2>1, <2>4 DEF Ahead, Branch, Advanced, Kept, Fresh, Unspent
  <2>5. ASSUME Reverting PROVE Reverting'
    BY <2>1, <2>5 DEF Reverting, Reverted, Kept, Fresh, Unspent, Taken
  <2> QED
    BY <2>1, <2>2, <2>3, <2>4, <2>5 DEF Inv, Running
<1> QED
  BY <1>1, <1>2, <1>3, <1>4, <1>5, <1>6 DEF Next

\* The invariant holds in every state.
LEMMA InvAlways == Spec => []Inv
  BY InvInit, InvNext, PTL DEF Spec

\* The caches and tables keep their shape: advance_txs, _backup_txs and flush_utxo_db write no
\* other rows, and undo records come in pairs.
THEOREM TypesAlways == Spec => []TypeOK
<1>1. Inv => TypeOK
  <2> SUFFICES ASSUME Inv PROVE TypeOK
    OBVIOUS
  <2>1. Shape /\ Stored /\ tip \in Tips /\ dbTip \in Tips
    BY DEF Inv, Shape
  <2>2. ASSUME NEW op \in DOMAIN mem.utxos PROVE mem.utxos[op].hashX \in HashXs
    <3>1. \E t \in Tips : /\ Fresh(mem).utxos[op] = Val(t, op)
                          /\ op \in Made(TxsOf(tip)) /\ (t = tip \/ Begins(tip, t))
      <4>0. op \in DOMAIN Fresh(mem).utxos
        BY <2>1, FreshFields DEF Shape
      <4>1. CASE pc = "run"
        <5>1. Advanced(Fresh(mem), tip, Unspent(tip), Made(TxsOf(tip)))
          BY <4>1, AheadAlways DEF Ahead
        <5> QED
          BY <2>1, <4>0, <5>1 DEF Advanced, Kept, Unspent, Left
      <4>2. CASE pc = "flush_backup"
        <5>1. Reverted(Fresh(mem), Unspent(tip), Taken(TxsOf(tip))) /\ Begins(tip, dbTip)
          BY <4>2, BeginsChild DEF Inv, Reverting
        <5> QED
          BY <2>1, <4>0, <5>1 DEF Reverted, Kept, Unspent, Left
      <4> QED
        BY <4>1, <4>2 DEF Inv, Shape
    <3>2. PICK t \in Tips : /\ Fresh(mem).utxos[op] = Val(t, op)
                            /\ op \in Made(TxsOf(tip)) /\ (t = tip \/ Begins(tip, t))
      BY <3>1
    <3>3. mem.utxos[op] = Val(tip, op)
      BY <2>1, <3>2, FreshFields, RowSame DEF Shape
    <3> QED
      BY <2>1, <3>2, <3>3, ValIs DEF Values
  <2>3. ASSUME NEW r \in db.hu PROVE r.hashX \in HashXs /\ r.num \in Nat /\ r.idx \in Nat
    <3>1. PICK op \in Unspent(dbTip) : r = Row(dbTip, op) /\ op \in Made(TxsOf(dbTip))
      BY <2>1, RowOf
    <3>2. /\ op[1] \in TxsOf(dbTip) /\ op[2] \in Nat
          /\ Outputs[op[1]][op[2] + 1].hashX \in HashXs
      BY <2>1, <3>1, MadeOutput
    <3>3. NumOf(dbTip, op[1]) \in Nat
      BY <2>1, <3>2, NumOfTx
    <3> QED
      BY <3>1, <3>2, <3>3 DEF Row
  <2> QED
    BY <2>1, <2>2, <2>3 DEF TypeOK, Shape
<1> QED
  BY <1>1, InvAlways, PTL

\* The 'h' and 'u' tables hold exactly the unspent outputs of the committed chain with their tx
\* numbers, over any flushes, reorgs and crashes (advance_txs, _backup_txs, flush_utxo_db).
THEOREM UtxosAlwaysExact == Spec => []UtxosExact
<1>1. Inv => UtxosExact
  <2> SUFFICES ASSUME Inv PROVE UtxosExact
    OBVIOUS
  <2>1. OutpointsOf(dbTip) \ SpentBy(dbTip) = Unspent(dbTip)
    BY DEF OutpointsOf, SpentBy, Unspent, Left, Made, MadeBy, Used
  <2> QED
    BY <2>1 DEF Inv, Stored, UtxosExact, Row
<1> QED
  BY <1>1, InvAlways, PTL

\* No legal chain stops the indexer: spend_utxo finds each input, a ref is never both cached and
\* stored, and a backup uses up the undo values (the exceptions of advance_txs and _backup_txs).
THEOREM NeverStopsHolds == Spec => []NeverStops
<1>1. Inv => NeverStops
  BY DEF Inv, Shape, NeverStops
<1> QED
  BY <1>1, InvAlways, PTL

\* 'ri' has exactly the outpoints of the committed chain that carry refs, after any reorg
\* (advance_txs, delete_potential_refs, flush_utxo_db).
THEOREM RefsAlwaysExact == Spec => []RefsExact
<1>1. Inv => RefsExact
  BY DEF Inv, RefsStored, RefsExact, OutpointsOf, Made, MadeBy
<1> QED
  BY <1>1, InvAlways, PTL

\* 'rm' names a minting tx for every ref that the committed chain minted, and has no other ref
\* (advance_txs, _backup_txs, flush_utxo_db).
THEOREM MintsAlwaysExact == Spec => []MintsExact
<1>1. Inv => MintsExact
  <2> SUFFICES ASSUME Inv PROVE MintsExact
    OBVIOUS
  <2> DEFINE O == Made(TxsOf(dbTip))
  <2>1. OutpointsOf(dbTip) = O
    BY DEF OutpointsOf, Made, MadeBy
  <2>2. \A op \in O : op[1] \in TxsOf(dbTip)
    BY MadeOutput DEF Inv, Shape
  <2> HIDE DEF O
  <2>3. ASSUME NEW r PROVE MintsOf(dbTip, r) = MintedBy(O, r)
    BY <2>1, <2>2 DEF MintsOf, MintedBy
  <2>4. {r \in AllRefs(dbTip) : MintsOf(dbTip, r) # {}} = MintedRefs(O)
    BY <2>1, <2>3 DEF AllRefs, MintedRefs
  <2> QED
    BY <2>3, <2>4 DEF Inv, MintsStored, MintsExact, O
<1> QED
  BY <1>1, InvAlways, PTL

----------------------------------------------------------------------------
(* Where the singletons last moved *)

\* An indexable output of x carries r as a singleton; x moves r; the txs of X that do; x is
\* the last tx of S in the chain of t.
Carries(x, r) ==
  \E i \in DOMAIN Outputs[x] : Outputs[x][i].indexable /\ r \in Outputs[x][i].singletons
Moves(X, r) == {x \in X : r \notin ToSet(Inputs[x]) /\ Carries(x, r)}
Latest(t, S, x) == x \in S /\ \A y \in S : NumOf(t, y) <= NumOf(t, x)

\* f has the last move of r on the chain of t
Placed(t, f, r) ==
  /\ r \in DOMAIN f <=> Moves(TxsOf(t), r) # {}
  /\ r \in DOMAIN f => Latest(t, Moves(TxsOf(t), r), f[r])

\* rec has the last move of r before block c, if c moves r
FirstTxs(c, m) == {BlockTxs[c][k] : k \in 1 .. m}
NewTxs(c) == FirstTxs(c, Len(BlockTxs[c]))
LocRecord(c, rec, r) ==
  /\ r \in DOMAIN rec <=> Moves(NewTxs(c), r) # {} /\ Moves(TxsOf(Parent[c]), r) # {}
  /\ r \in DOMAIN rec => Latest(Parent[c], Moves(TxsOf(Parent[c]), r), rec[r])

\* the refs whose location is kept
Tracked == Refs \ (blurred \cup Mixed)

\* A is a set of tips that has, with a block, its parent, and the DB the location undo record
\* of each of its blocks.
LocsRecorded(A) ==
  /\ A \subseteq Tips /\ dbTip \in A
  /\ \A c \in A : Height[c] <= Height[dbTip]
  /\ \A c \in A \cap Blocks :
       /\ Parent[c] \in A
       /\ Height[c] \in DOMAIN db.loc_undo
       /\ \A r \in Tracked : LocRecord(c, db.loc_undo[Height[c]], r)
AllLocsRecorded == \E A : LocsRecorded(A)

\* Refs are the outpoints that txs spend: what an output of a chain carries is one that the
\* chain has spent.
LEMMA RefMade ==
    ASSUME NEW t \in Tips, NEW op \in Made(TxsOf(t)), NEW r \in RefsAt(op)
    PROVE  r \in Used(TxsOf(t))
<1> DEFINE N == tx_count(t)
           S == {n \in 0 .. N : \A p \in Made(First(t, n)) : RefsAt(p) \subseteq Used(First(t, n))}
<1>1. /\ N \in Nat /\ First(t, 0) = {} /\ First(t, N) = TxsOf(t)
      /\ \A n \in 1 .. N : First(t, n) = First(t, n - 1) \cup {ChainTxs[t][n]}
  BY FirstFacts, ChainShape
<1>2. 0 \in S
  BY <1>1 DEF Made
<1>3. ASSUME NEW n \in 1 .. N, n - 1 \in S PROVE n \in S
  <2> DEFINE x == ChainTxs[t][n]
             X == First(t, n - 1)
  <2>1. /\ ToSet(Inputs[x]) \subseteq Left(X) /\ Made(X \cup {x}) = Made(X) \cup MadeBy(x)
        /\ First(t, n) = X \cup {x}
    BY <1>1, Legal
  <2>2. Used(X \cup {x}) = Used(X) \cup ToSet(Inputs[x])
    BY DEF Used
  <2>3. t \in Blocks /\ n \in DOMAIN ChainTxs[t]
    BY ChainShape, NoTxs DEF Tips
  <2>4. ASSUME NEW p \in MadeBy(x), NEW q \in RefsAt(p)
        PROVE  q \in Used(X) \cup ToSet(Inputs[x])
    <3>1. PICK i \in DOMAIN Outputs[x] : p = <<x, i - 1>> /\ Outputs[x][i].indexable
      BY DEF MadeBy
    <3>2. PICK k \in DOMAIN Inputs[x] : q = Inputs[x][k] \/ q \in RefsAt(Inputs[x][k])
      BY <2>3, <2>4, <3>1, RefAssumption
    <3>3. Inputs[x][k] \in ToSet(Inputs[x])
      BY DEF ToSet
    <3>4. Inputs[x][k] \in Made(X)
      BY <2>1, <3>3 DEF Left
    <3>5. \A z \in Made(X) : RefsAt(z) \subseteq Used(X)
      BY <1>3
    <3> QED
      BY <3>2, <3>3, <3>4, <3>5
  <2>5. \A p \in Made(X) : RefsAt(p) \subseteq Used(X)
    BY <1>3
  <2> HIDE DEF x, X
  <2>6. \A p \in Made(First(t, n)) : RefsAt(p) \subseteq Used(First(t, n))
    BY <2>1, <2>2, <2>4, <2>5
  <2>7. n \in 0 .. N
    BY <1>1
  <2> QED
    BY <2>6, <2>7
<1> HIDE DEF S
<1>4. N \in S
  BY <1>1, <1>2, <1>3, UpTo
<1> QED
  BY <1>1, <1>4 DEF S

\* A ref that a chain moved is no outpoint that a later tx of an extension spends.
LEMMA NotSpentAgain ==
    ASSUME NEW t \in Tips, NEW b \in Tips, Begins(t, b), NEW n \in 1 .. tx_count(b),
           n > tx_count(t), NEW r, Moves(TxsOf(t), r) # {}
    PROVE  r \notin ToSet(Inputs[ChainTxs[b][n]])
<1>1. PICK x \in TxsOf(t) : Carries(x, r)
  BY DEF Moves
<1>2. PICK i \in DOMAIN Outputs[x] : Outputs[x][i].indexable /\ r \in Outputs[x][i].singletons
  BY <1>1 DEF Carries
<1>3. <<x, i - 1>> \in Made(TxsOf(t))
  BY <1>2 DEF Made, MadeBy
<1>4. r \in RefsAt(<<x, i - 1>>)
  <2>1. x \in Txs
    BY TxsHaveIO
  <2>2. i - 1 + 1 = i
    BY <2>1, TxAssumption
  <2> QED
    BY <1>2, <2>2 DEF RefsAt
<1>5. r \in Used(TxsOf(t))
  BY <1>3, <1>4, RefMade
<1>6. TxsOf(t) \subseteq First(b, n - 1)
  <2>1. tx_count(t) \in Nat /\ tx_count(b) \in Nat /\ DOMAIN ChainTxs[t] = 1 .. tx_count(t)
    BY ChainShape
  <2>2. \A m \in 1 .. tx_count(t) : m \in 1 .. n - 1 /\ ChainTxs[b][m] = ChainTxs[t][m]
    BY <2>1 DEF Begins
  <2> QED
    BY <2>1, <2>2 DEF TxsOf, ToSet, First
<1>7. r \in Used(First(b, n - 1))
  BY <1>5, <1>6 DEF Used
<1>8. ToSet(Inputs[ChainTxs[b][n]]) \subseteq Left(First(b, n - 1))
  BY Legal
<1> QED
  BY <1>7, <1>8 DEF Left

\* The txs of a block after those of its parent's chain.
LEMMA BlockAdds ==
    ASSUME NEW b \in Blocks
    PROVE  /\ TxsOf(b) = TxsOf(Parent[b]) \cup NewTxs(b)
           /\ \A m \in 1 .. Len(BlockTxs[b]) :
                FirstTxs(b, m) = FirstTxs(b, m - 1) \cup {BlockTxs[b][m]}
           /\ FirstTxs(b, 0) = {}
           /\ \A x \in TxsOf(Parent[b]) : \A y \in NewTxs(b) :
                x # y /\ NumOf(b, x) < NumOf(b, y)
<1> DEFINE c == tx_count(Parent[b])
           N == Len(BlockTxs[b])
<1>1. /\ c \in Nat /\ N \in Nat /\ tx_count(b) = c + N /\ Parent[b] \in Tips /\ b \in Tips
      /\ DOMAIN ChainTxs[b] = 1 .. c + N /\ DOMAIN ChainTxs[Parent[b]] = 1 .. c
      /\ \A n \in 1 .. c : ChainTxs[b][n] = ChainTxs[Parent[b]][n]
      /\ \A n \in 1 .. N : ChainTxs[b][c + n] = BlockTxs[b][n]
  BY ChainSteps, ChainShape, Heights
<1> HIDE DEF c, N
<1>2. TxsOf(b) = TxsOf(Parent[b]) \cup NewTxs(b)
  <2>1. ASSUME NEW n \in 1 .. c + N PROVE ChainTxs[b][n] \in TxsOf(Parent[b]) \cup NewTxs(b)
    <3>1. CASE n \in 1 .. c
      BY <1>1, <3>1 DEF TxsOf, ToSet
    <3>2. CASE n \notin 1 .. c
      <4>1. PICK k \in 1 .. N : n = c + k
        BY <1>1, <3>2
      <4> QED
        BY <1>1, <4>1 DEF NewTxs, FirstTxs, N
    <3> QED
      BY <3>1, <3>2
  <2>2. ASSUME NEW n \in 1 .. c PROVE ChainTxs[Parent[b]][n] \in TxsOf(b)
    BY <1>1 DEF TxsOf, ToSet
  <2>3. ASSUME NEW n \in 1 .. N PROVE BlockTxs[b][n] \in TxsOf(b)
    <3>1. c + n \in 1 .. c + N
      BY <1>1
    <3> QED
      BY <1>1, <3>1 DEF TxsOf, ToSet
  <2> QED
    BY <1>1, <2>1, <2>2, <2>3 DEF TxsOf, ToSet, NewTxs, FirstTxs, N
<1>3. \A m \in 1 .. N : FirstTxs(b, m) = FirstTxs(b, m - 1) \cup {BlockTxs[b][m]}
  <2>1. \A m \in 1 .. N : 1 .. m = (1 .. m - 1) \cup {m}
    BY <1>1
  <2> QED
    BY <2>1 DEF FirstTxs
<1>4. FirstTxs(b, 0) = {}
  BY DEF FirstTxs
<1>5. ASSUME NEW x \in TxsOf(Parent[b]), NEW y \in NewTxs(b)
      PROVE  x # y /\ NumOf(b, x) < NumOf(b, y)
  <2>1. PICK n \in 1 .. c : x = ChainTxs[b][n]
    BY <1>1 DEF TxsOf, ToSet
  <2>2. PICK k \in 1 .. N : y = ChainTxs[b][c + k]
    BY <1>1 DEF NewTxs, FirstTxs, N
  <2>3. n \in 1 .. tx_count(b) /\ c + k \in 1 .. tx_count(b)
    BY <1>1
  <2>4. NumOf(b, x) = n - 1 /\ NumOf(b, y) = c + k - 1
    BY <1>1, <2>1, <2>2, <2>3, NumIs
  <2>5. NumOf(b, x) < NumOf(b, y) /\ NumOf(b, x) \in Int
    BY <1>1, <2>4
  <2> QED
    BY <2>5
<1> QED
  BY <1>2, <1>3, <1>4, <1>5 DEF N

\* What moved last in a block moved last in its chain; when the block does not move the ref,
\* that is what its parent's chain moved last.
LEMMA LatestOn ==
    ASSUME NEW b \in Blocks, NEW r, NEW x
    PROVE  /\ Moves(TxsOf(b), r) = Moves(TxsOf(Parent[b]), r) \cup Moves(NewTxs(b), r)
           /\ Latest(b, Moves(NewTxs(b), r), x) => Latest(b, Moves(TxsOf(b), r), x)
           /\ Moves(NewTxs(b), r) = {} =>
                (Latest(Parent[b], Moves(TxsOf(Parent[b]), r), x)
                   <=> Latest(b, Moves(TxsOf(b), r), x))
<1> DEFINE P == Moves(TxsOf(Parent[b]), r)
           S == Moves(NewTxs(b), r)
<1>1. Moves(TxsOf(b), r) = P \cup S
  BY BlockAdds DEF Moves
<1>2. P \subseteq TxsOf(Parent[b]) /\ S \subseteq NewTxs(b)
  BY DEF Moves
<1> HIDE DEF P, S
<1>3. \A y \in P : NumOf(b, y) = NumOf(Parent[b], y) /\ NumOf(b, y) \in Int
  BY <1>2, BeginsChild, NumSame, NumOfTx
<1>4. ASSUME Latest(b, S, x) PROVE Latest(b, P \cup S, x)
  <2>1. NumOf(b, x) \in Int
    <3>1. x \in TxsOf(b) /\ b \in Tips
      BY <1>2, <1>4, BlockAdds, Heights DEF Latest
    <3> QED
      BY <3>1, NumOfTx
  <2>2. \A y \in P : NumOf(b, y) <= NumOf(b, x)
    <3>1. \A y \in P : NumOf(b, y) < NumOf(b, x)
      BY <1>2, <1>4, BlockAdds DEF Latest
    <3> QED
      BY <1>3, <2>1, <3>1
  <2> QED
    BY <1>4, <2>2 DEF Latest
<1>5. ASSUME S = {} PROVE Latest(Parent[b], P, x) <=> Latest(b, P \cup S, x)
  BY <1>3, <1>5 DEF Latest
<1> QED
  BY <1>1, <1>4, <1>5 DEF P, S

\* At most one tx moved a ref last.
LEMMA LatestOne ==
    ASSUME NEW t \in Tips, NEW S, S \subseteq TxsOf(t), NEW x, Latest(t, S, x)
    PROVE  LastOf(t, S) = x
<1> DEFINE P(z) == \A y \in S : NumOf(t, y) <= NumOf(t, z)
<1>1. P(x) /\ x \in S
  BY DEF Latest
<1>2. ASSUME NEW z \in S, P(z) PROVE z = x
  <2>1. NumOf(t, z) <= NumOf(t, x) /\ NumOf(t, x) <= NumOf(t, z)
    BY <1>1, <1>2
  <2>2. NumOf(t, x) = NumOf(t, z)
    BY <1>1, <2>1, NumOfTx
  <2> QED
    BY <1>1, <2>2, NumOfTx
<1>3. LastOf(t, S) = CHOOSE z \in S : P(z)
  BY DEF LastOf
<1> HIDE DEF P
<1> QED
  BY <1>1, <1>2, <1>3

----------------------------------------------------------------------------
(* The locations while a block is advanced *)

\* v has the locations of w, but for r, which the txs S have moved since: its location is the
\* last of them, and the one that the DB had is noted.
LocsAt(v, w, b, r, S) ==
  /\ DOMAIN v = Fields
  /\ S = {} => /\ r \in DOMAIN v.locs <=> r \in DOMAIN w.locs
               /\ r \in DOMAIN w.locs => v.locs[r] = w.locs[r]
  /\ S # {} => r \in DOMAIN v.locs /\ Latest(b, S, v.locs[r])
  /\ r \in DOMAIN v.loc_undo <=> S # {} /\ r \in DOMAIN db.rl
  /\ r \in DOMAIN v.loc_undo => v.loc_undo[r] = db.rl[r]
  /\ r \in DOMAIN db.rl => r \notin v.minted

\* v has the locations of w.
SameLocs(v, w) ==
  /\ DOMAIN w = Fields => DOMAIN v = Fields
  /\ v.locs = w.locs /\ v.loc_undo = w.loc_undo /\ v.minted = w.minted

\* Spending an input changes no location.
LEMMA SpendInputLocs ==
    ASSUME NEW w, DOMAIN w = Fields, NEW op
    PROVE  SameLocs(SpendInput(w, op), w)
<1> DEFINE s == spend_utxo(w, op)
<1>1. DOMAIN s = Fields /\ s.locs = w.locs /\ s.loc_undo = w.loc_undo /\ s.minted = w.minted
  BY FieldsAre DEF spend_utxo
<1> HIDE DEF s
<1>2. \/ SpendInput(w, op) = s
      \/ SpendInput(w, op) = [s EXCEPT !.undo = Append(@, UtxoOf(w, op))]
  BY DEF SpendInput, s
<1> QED
  BY <1>1, <1>2, FieldsAre DEF SameLocs

\* Adding an output moves its singletons to its tx, and notes where the DB has them.
LEMMA AddOutputLocs ==
    ASSUME NEW b \in Tips, NEW n \in 1 .. tx_count(b), NEW x, x = ChainTxs[b][n],
           NEW w, NEW p, NEW r, NEW S, S \subseteq First(b, n - 1) \cup {x},
           r \in DOMAIN db.rl => r \notin ToSet(Inputs[x]),
           LocsAt(p, w, b, r, S), NEW i \in DOMAIN Outputs[x]
    PROVE  LET moves == /\ Outputs[x][i].indexable /\ r \in Outputs[x][i].singletons
                        /\ r \notin ToSet(Inputs[x])
           IN LocsAt(AddOutput(p, x, n - 1, i), w, b, r, IF moves THEN S \cup {x} ELSE S)
<1> DEFINE v == AddOutput(p, x, n - 1, i)
           out == Outputs[x][i]
           spent == ToSet(Inputs[x])
           moved == out.singletons \ spent
           minted == p.minted \cup (out.singletons \cap spent)
           noted == {q \in moved \cap DOMAIN db.rl : q \notin minted /\ q \notin DOMAIN p.loc_undo}
<1>1. CASE ~out.indexable
  <2>1. v = p
    BY <1>1 DEF AddOutput
  <2> QED
    BY <1>1, <2>1
<1>2. CASE out.indexable
  <2>0. DOMAIN p = Fields
    BY DEF LocsAt
  <2>1. /\ DOMAIN v = Fields
        /\ v.locs = Over([q \in moved |-> x], p.locs)
        /\ v.minted = minted
        /\ v.loc_undo = Over([q \in noted |-> db.rl[q]], p.loc_undo)
    BY <1>2, <2>0, FieldsAre DEF AddOutput
  <2> HIDE DEF v, out
  <2>2. r \in DOMAIN db.rl => r \notin v.minted
    BY <2>1 DEF LocsAt
  <2>3. /\ DOMAIN v.locs = moved \cup DOMAIN p.locs
        /\ r \in moved => v.locs[r] = x
        /\ r \notin moved /\ r \in DOMAIN p.locs => v.locs[r] = p.locs[r]
    BY <2>1 DEF Over
  <2>4. /\ DOMAIN v.loc_undo = noted \cup DOMAIN p.loc_undo
        /\ r \in noted => v.loc_undo[r] = db.rl[r]
        /\ r \notin noted /\ r \in DOMAIN p.loc_undo => v.loc_undo[r] = p.loc_undo[r]
    BY <2>1 DEF Over
  <2>5. CASE r \notin moved
    <3>1. r \notin noted
      BY <2>5
    <3> HIDE DEF moved, noted, minted
    <3>2. LocsAt(v, w, b, r, S)
      BY <2>1, <2>2, <2>3, <2>4, <2>5, <3>1 DEF LocsAt
    <3> QED
      BY <1>2, <2>5, <3>2 DEF moved, out, v
  <2>6. CASE r \in moved
    <3>1. r \in noted <=> r \in DOMAIN db.rl /\ r \notin DOMAIN p.loc_undo
      BY <2>2, <2>1, <2>6
    <3>2. r \in DOMAIN v.loc_undo <=> r \in DOMAIN db.rl
      BY <2>4, <3>1 DEF LocsAt
    <3>3. r \in DOMAIN v.loc_undo => v.loc_undo[r] = db.rl[r]
      BY <2>4, <3>1 DEF LocsAt
    <3>4. Latest(b, S \cup {x}, x)
      <4>1. NumOf(b, x) = n - 1 /\ n \in Nat
        BY NumIs
      <4>2. ASSUME NEW y \in First(b, n - 1) PROVE NumOf(b, y) <= NumOf(b, x)
        <5>1. PICK k \in 1 .. n - 1 : y = ChainTxs[b][k]
          BY DEF First
        <5>2. k \in 1 .. tx_count(b) /\ k <= n - 1
          BY ChainShape
        <5>3. NumOf(b, y) = k - 1
          BY <5>1, <5>2, NumIs
        <5> QED
          BY <4>1, <5>2, <5>3
      <4>3. \A y \in S \cup {x} : NumOf(b, y) <= NumOf(b, x)
        BY <4>1, <4>2
      <4> QED
        BY <4>3 DEF Latest
    <3> HIDE DEF moved, noted, minted
    <3>5. LocsAt(v, w, b, r, S \cup {x})
      BY <2>1, <2>2, <2>3, <2>6, <3>2, <3>3, <3>4 DEF LocsAt
    <3> QED
      BY <1>2, <2>6, <3>5 DEF moved, out, v
  <2> QED
    BY <2>5, <2>6
<1> QED
  BY <1>1, <1>2

\* x's outputs up to i move r.
MovesUpto(x, r, i) ==
  IF r \notin ToSet(Inputs[x])
     /\ \E j \in 1 .. i : Outputs[x][j].indexable /\ r \in Outputs[x][j].singletons
    THEN {x} ELSE {}

\* advance_txs on one tx
LEMMA AdvanceTxLocs ==
    ASSUME NEW b \in Tips, NEW n \in 1 .. tx_count(b), NEW x, x = ChainTxs[b][n],
           NEW w, NEW p, NEW r, NEW S, S \subseteq First(b, n - 1),
           r \in DOMAIN db.rl => r \notin ToSet(Inputs[x]),
           LocsAt(p, w, b, r, S)
    PROVE  LocsAt(AdvanceTx(p, x, n - 1), w, b, r, S \cup Moves({x}, r))
<1> DEFINE N == Len(Inputs[x])
           M == Len(Outputs[x])
           v == AdvanceTx(p, x, n - 1)
<1>1. x \in Txs
  BY ChainShape
<1>2. PICK a : Spending(a, p, x)
  BY <1>1, SpendLoop
<1>3. PICK c : Adding(c, a[N], x, n - 1)
  BY <1>1, AddLoop
<1>4. /\ v = c[M] /\ a[0] = p /\ c[0] = a[N]
      /\ N \in Nat /\ M \in Nat /\ N \in 0 .. N /\ M \in 0 .. M /\ DOMAIN Outputs[x] = 1 .. M
  BY <1>1, <1>2, <1>3, TxParts, TxAssumption, UptoFacts DEF Spending, Adding
<1>5. SameLocs(a[N], p)
  <2> DEFINE T == {k \in 0 .. N : SameLocs(a[k], p)}
  <2>1. 0 \in T
    BY <1>4 DEF SameLocs
  <2>2. ASSUME NEW k \in 1 .. N, k - 1 \in T PROVE k \in T
    <3>1. SameLocs(a[k - 1], p) /\ DOMAIN p = Fields /\ k \in 0 .. N
      BY <1>4, <2>2 DEF LocsAt
    <3>2. SameLocs(a[k], a[k - 1])
      BY <1>2, <3>1, SpendInputLocs DEF Spending, SameLocs
    <3> QED
      BY <3>1, <3>2 DEF SameLocs
  <2> HIDE DEF T
  <2>3. N \in T
    BY <1>4, <2>1, <2>2, UpTo
  <2> QED
    BY <2>3 DEF T
<1>6. LocsAt(c[M], w, b, r, S \cup MovesUpto(x, r, M))
  <2> DEFINE T == {k \in 0 .. M : LocsAt(c[k], w, b, r, S \cup MovesUpto(x, r, k))}
  <2>1. 0 \in T
    <3>1. S \cup MovesUpto(x, r, 0) = S
      BY DEF MovesUpto
    <3>2. LocsAt(c[0], w, b, r, S)
      BY <1>4, <1>5 DEF LocsAt, SameLocs
    <3>3. LocsAt(c[0], w, b, r, S \cup MovesUpto(x, r, 0))
      BY <3>1, <3>2, Zenon
    <3> QED
      BY <1>4, <3>3
  <2>2. ASSUME NEW k \in 1 .. M, k - 1 \in T PROVE k \in T
    <3> DEFINE Q == S \cup MovesUpto(x, r, k - 1)
               moves == /\ Outputs[x][k].indexable /\ r \in Outputs[x][k].singletons
                        /\ r \notin ToSet(Inputs[x])
    <3>1. LocsAt(c[k - 1], w, b, r, Q) /\ k \in 0 .. M
      BY <1>4, <2>2
    <3>2. Q \subseteq First(b, n - 1) \cup {x}
      BY DEF MovesUpto
    <3>3. S \cup MovesUpto(x, r, k) = IF moves THEN Q \cup {x} ELSE Q
      <4>1. \A j : j \in 1 .. k <=> j \in 1 .. k - 1 \/ j = k
        BY <1>4
      <4> QED
        BY <4>1 DEF MovesUpto
    <3> HIDE DEF Q
    <3>4. LocsAt(AddOutput(c[k - 1], x, n - 1, k), w, b, r, IF moves THEN Q \cup {x} ELSE Q)
      BY <1>4, <3>1, <3>2, AddOutputLocs
    <3>5. c[k] = AddOutput(c[k - 1], x, n - 1, k)
      BY <1>3 DEF Adding
    <3> QED
      BY <3>1, <3>3, <3>4, <3>5
  <2> HIDE DEF T
  <2>3. M \in T
    BY <1>4, <2>1, <2>2, UpTo
  <2> QED
    BY <2>3 DEF T
<1>7. MovesUpto(x, r, M) = Moves({x}, r)
  BY <1>4 DEF MovesUpto, Moves, Carries
<1> QED
  BY <1>4, <1>6, <1>7

\* advance_txs on a block, after the txs of the DB's tip
LEMMA AdvanceBlockLocs ==
    ASSUME NEW b \in Blocks, dbTip \in Tips, Begins(dbTip, Parent[b]), NEW r,
           Placed(dbTip, db.rl, r), NEW w, LocsAt(w, w, b, r, {}), NEW v, v = AdvanceTxs(w, b)
    PROVE  LocsAt(v, w, b, r, Moves(NewTxs(b), r))
<1> DEFINE N == Len(BlockTxs[b])
           c == tx_count(Parent[b])
<1>1. PICK a : Advancing(a, w, b)
  BY TxsLoop
<1>2. /\ a[0] = w /\ v = a[N] /\ N \in Nat /\ N \in 0 .. N /\ c \in Nat
      /\ b \in Tips /\ Parent[b] \in Tips /\ Begins(Parent[b], b) /\ Begins(dbTip, b)
      /\ tx_count(dbTip) <= c /\ tx_count(dbTip) \in Nat
  BY <1>1, ChainSteps, ChainShape, BeginsChild, BeginsTransitive DEF Advancing, Begins
<1> DEFINE T == {m \in 0 .. N : LocsAt(a[m], w, b, r, Moves(FirstTxs(b, m), r))}
<1>3. 0 \in T
  <2>1. Moves(FirstTxs(b, 0), r) = {}
    BY BlockAdds DEF Moves
  <2>2. LocsAt(a[0], w, b, r, Moves(FirstTxs(b, 0), r))
    BY <1>2, <2>1, Zenon
  <2> QED
    BY <1>2, <2>2
<1>4. ASSUME NEW m \in 1 .. N, m - 1 \in T PROVE m \in T
  <2> DEFINE n == c + m
             x == BlockTxs[b][m]
             S == Moves(FirstTxs(b, m - 1), r)
  <2>1. /\ n \in 1 .. tx_count(b) /\ ChainTxs[b][n] = x /\ n > c /\ n - 1 = c + m - 1
        /\ m \in 0 .. N
    BY <1>2, BlockTxIs
  <2>2. n > tx_count(dbTip)
    BY <1>2, <2>1
  <2>3. r \in DOMAIN db.rl => r \notin ToSet(Inputs[x])
    BY <1>2, <2>1, <2>2, NotSpentAgain DEF Placed
  <2>4. S \subseteq First(b, n - 1)
    <3>1. ASSUME NEW k \in 1 .. m - 1 PROVE BlockTxs[b][k] \in First(b, n - 1)
      <4>1. c + k \in 1 .. n - 1 /\ ChainTxs[b][c + k] = BlockTxs[b][k]
        BY <1>2, ChainSteps
      <4> QED
        BY <4>1 DEF First
    <3> QED
      BY <3>1 DEF Moves, FirstTxs
  <2>5. a[m] = AdvanceTx(a[m - 1], x, n - 1)
    BY <1>1, <2>1 DEF Advancing
  <2>6. LocsAt(a[m - 1], w, b, r, S)
    BY <1>4
  <2>7. Moves(FirstTxs(b, m), r) = S \cup Moves({x}, r)
    BY BlockAdds DEF Moves
  <2> HIDE DEF n, x, S
  <2>8. LocsAt(AdvanceTx(a[m - 1], x, n - 1), w, b, r, S \cup Moves({x}, r))
    <3>1. b \in Tips /\ x = ChainTxs[b][n] /\ n \in 1 .. tx_count(b)
      BY <1>2, <2>1
    <3> QED
      BY <2>3, <2>4, <2>6, <3>1, AdvanceTxLocs
  <2>9. LocsAt(a[m], w, b, r, Moves(FirstTxs(b, m), r))
    BY <2>5, <2>7, <2>8, Zenon
  <2> QED
    BY <2>1, <2>9
<1> HIDE DEF T
<1>5. N \in T
  BY <1>2, <1>3, <1>4, UpTo
<1> QED
  BY <1>2, <1>5 DEF T, NewTxs

----------------------------------------------------------------------------
(* The locations while a block is backed up *)

\* An indexable output of x carries r, and x does not spend the outpoint r; the first i do.
Holds(x, r) ==
  /\ r \notin ToSet(Inputs[x])
  /\ \E i \in DOMAIN Outputs[x] : /\ Outputs[x][i].indexable
                                  /\ r \in Outputs[x][i].singletons \cup Outputs[x][i].normals
HoldsUpto(x, r, i) ==
  /\ r \notin ToSet(Inputs[x])
  /\ \E j \in 1 .. i : /\ Outputs[x][j].indexable
                       /\ r \in Outputs[x][j].singletons \cup Outputs[x][j].normals

\* No location is cached, the location undo record is that of w, and r's location is marked for
\* deletion if some output taken back held it.
LocsBacked(v, w, r, held) ==
  /\ DOMAIN v = Fields
  /\ DOMAIN v.locs = {} /\ v.loc_undo = w.loc_undo
  /\ <<"rl", r>> \in v.deletes <=> r \in DOMAIN db.rl /\ held

\* Undoing an output deletes the locations of its refs.
LEMMA UndoOutputLocs ==
    ASSUME NEW w, NEW p, NEW r, NEW held \in BOOLEAN, LocsBacked(p, w, r, held), NEW x,
           NEW i \in DOMAIN Outputs[x]
    PROVE  LET holds == /\ Outputs[x][i].indexable /\ r \notin ToSet(Inputs[x])
                        /\ r \in Outputs[x][i].singletons \cup Outputs[x][i].normals
           IN LocsBacked(UndoOutput(p, x, i), w, r, held \/ holds)
<1> DEFINE op == <<x, i - 1>>
           s == spend_utxo(p, op)
           q == delete_potential_refs(s, op)
           out == Outputs[x][i]
           refs == out.singletons \cup out.normals
           spent == ToSet(Inputs[x])
           v == DeleteRefs(q, refs, spent)
<1>1. CASE ~out.indexable
  <2>1. UndoOutput(p, x, i) = p
    BY <1>1 DEF UndoOutput
  <2> QED
    BY <1>1, <2>1 DEF LocsBacked
<1>2. CASE out.indexable
  <2>1. UndoOutput(p, x, i) = v
    BY <1>2 DEF UndoOutput
  <2>2. DOMAIN p = Fields
    BY DEF LocsBacked
  <2>3. /\ DOMAIN s = Fields /\ s.locs = p.locs /\ s.loc_undo = p.loc_undo
        /\ \/ s.deletes = p.deletes
           \/ \E z : s.deletes = p.deletes \cup {<<"hu", z>>}
    BY <2>2, FieldsAre DEF spend_utxo
  <2> HIDE DEF s
  <2>4. /\ DOMAIN q = Fields /\ q.locs = s.locs /\ q.loc_undo = s.loc_undo
        /\ q.deletes = s.deletes \cup {<<"ri", op>>}
    BY <2>3, FieldsAre DEF delete_potential_refs
  <2> HIDE DEF q, refs, spent
  <2>5. /\ DOMAIN v = Fields /\ v.locs = Without(q.locs, refs \ spent) /\ v.loc_undo = q.loc_undo
        /\ v.deletes = q.deletes \cup {<<"rm", z>> : z \in refs \cap spent \cap DOMAIN db.rm}
                         \cup {<<"rl", z>> : z \in (refs \ spent) \cap DOMAIN db.rl}
    BY <2>4, FieldsAre DEF DeleteRefs
  <2> HIDE DEF v
  <2>6. <<"rl", r>> \in s.deletes <=> <<"rl", r>> \in p.deletes
    BY <2>3
  <2>7. <<"rl", r>> \in q.deletes <=> <<"rl", r>> \in p.deletes
    BY <2>4, <2>6
  <2>8. <<"rl", r>> \in v.deletes
          <=> <<"rl", r>> \in p.deletes \/ r \in (refs \ spent) \cap DOMAIN db.rl
    BY <2>5, <2>7
  <2>9. DOMAIN v.locs = {}
    BY <2>3, <2>4, <2>5 DEF Without, LocsBacked
  <2>10. LocsBacked(v, w, r, held \/ (r \in refs /\ r \notin spent))
    BY <2>3, <2>4, <2>5, <2>8, <2>9 DEF LocsBacked
  <2>11. LocsBacked(v, w, r, held \/ (out.indexable /\ r \notin spent /\ r \in refs))
    BY <1>2, <2>10 DEF LocsBacked
  <2> QED
    BY <2>1, <2>11 DEF refs, spent
<1> QED
  BY <1>1, <1>2

\* Restoring an input changes no location.
LEMMA RestoreInputLocs ==
    ASSUME NEW w, NEW p, NEW r, NEW held, LocsBacked(p, w, r, held), NEW op
    PROVE  LocsBacked(RestoreInput(p, op), w, r, held)
<1> DEFINE v == RestoreInput(p, op)
<1>1. DOMAIN p = Fields
  BY DEF LocsBacked
<1>2. /\ DOMAIN v = Fields /\ v.locs = p.locs /\ v.loc_undo = p.loc_undo
      /\ v.deletes = p.deletes
  BY <1>1, FieldsAre DEF RestoreInput
<1> HIDE DEF v
<1>3. LocsBacked(v, w, r, held)
  BY <1>2 DEF LocsBacked
<1> QED
  BY <1>3 DEF v

\* _backup_txs on one tx
LEMMA BackupTxLocs ==
    ASSUME NEW w, NEW p, NEW r, NEW held \in BOOLEAN, LocsBacked(p, w, r, held), NEW x \in Txs
    PROVE  LocsBacked(BackupTx(p, x), w, r, held \/ Holds(x, r))
<1> DEFINE N == Len(Inputs[x])
           M == Len(Outputs[x])
<1>1. PICK a : Undoing(a, p, x)
  BY UndoLoop
<1>2. PICK c : Restoring(c, a[M], x)
  BY RestoreLoop
<1>3. /\ BackupTx(p, x) = c[N] /\ a[0] = p /\ c[0] = a[M]
      /\ N \in Nat /\ M \in Nat /\ N \in 0 .. N /\ M \in 0 .. M /\ DOMAIN Outputs[x] = 1 .. M
  <2>1. BackupTx(p, x) = c[N] /\ a[0] = p /\ c[0] = a[M]
    BY <1>1, <1>2, TxParts DEF Undoing, Restoring
  <2>2. N \in Nat /\ M \in Nat /\ DOMAIN Outputs[x] = 1 .. M
    BY TxAssumption
  <2> QED
    BY <2>1, <2>2
<1>4. LocsBacked(a[M], w, r, held \/ HoldsUpto(x, r, M))
  <2> DEFINE T == {k \in 0 .. M : LocsBacked(a[k], w, r, held \/ HoldsUpto(x, r, k))}
  <2>1. 0 \in T
    <3>1. ~HoldsUpto(x, r, 0)
      BY DEF HoldsUpto
    <3>2. LocsBacked(a[0], w, r, held \/ HoldsUpto(x, r, 0))
      BY <1>3, <3>1 DEF LocsBacked
    <3> QED
      BY <1>3, <3>2
  <2>2. ASSUME NEW k \in 1 .. M, k - 1 \in T PROVE k \in T
    <3> DEFINE before == held \/ HoldsUpto(x, r, k - 1)
               holds == /\ Outputs[x][k].indexable /\ r \notin ToSet(Inputs[x])
                        /\ r \in Outputs[x][k].singletons \cup Outputs[x][k].normals
    <3>1. LocsBacked(a[k - 1], w, r, before) /\ before \in BOOLEAN /\ k \in 0 .. M
      BY <1>3, <2>2 DEF HoldsUpto
    <3>2. a[k] = UndoOutput(a[k - 1], x, k)
      BY <1>1 DEF Undoing
    <3>3. LocsBacked(UndoOutput(a[k - 1], x, k), w, r, before \/ holds)
      <4> HIDE DEF before
      <4> QED
        BY <1>3, <3>1, UndoOutputLocs
    <3>4. HoldsUpto(x, r, k) <=> HoldsUpto(x, r, k - 1) \/ holds
      <4>1. \A j : j \in 1 .. k <=> j \in 1 .. k - 1 \/ j = k
        BY <1>3
      <4> QED
        BY <4>1 DEF HoldsUpto
    <3>5. LocsBacked(a[k], w, r, held \/ HoldsUpto(x, r, k))
      BY <3>2, <3>3, <3>4 DEF LocsBacked
    <3> QED
      BY <3>1, <3>5
  <2> HIDE DEF T
  <2>3. M \in T
    BY <1>3, <2>1, <2>2, UpTo
  <2> QED
    BY <2>3 DEF T
<1>5. HoldsUpto(x, r, M) <=> Holds(x, r)
  BY <1>3 DEF HoldsUpto, Holds
<1> DEFINE now == held \/ Holds(x, r)
<1>6. LocsBacked(c[0], w, r, now)
  BY <1>3, <1>4, <1>5 DEF LocsBacked
<1> HIDE DEF now
<1>7. LocsBacked(c[N], w, r, now)
  <2> DEFINE T == {k \in 0 .. N : LocsBacked(c[k], w, r, now)}
  <2>1. 0 \in T
    BY <1>3, <1>6
  <2>2. ASSUME NEW k \in 1 .. N, k - 1 \in T PROVE k \in T
    <3>1. LocsBacked(c[k - 1], w, r, now) /\ k \in 0 .. N
      BY <1>3, <2>2
    <3>2. c[k] = RestoreInput(c[k - 1], Inputs[x][N - k + 1])
      BY <1>2 DEF Restoring
    <3> QED
      BY <3>1, <3>2, RestoreInputLocs
  <2> HIDE DEF T
  <2>3. N \in T
    BY <1>3, <2>1, <2>2, UpTo
  <2> QED
    BY <2>3 DEF T
<1> QED
  BY <1>3, <1>7 DEF now

\* _backup_txs on a block, but for its last step
LEMMA BackupBlockLocs ==
    ASSUME NEW b \in Blocks, NEW w, NEW r, NEW v, LocsBacked(w, w, r, FALSE), v = BackupTxs(w, b)
    PROVE  /\ DOMAIN v = Fields
           /\ <<"rl", r>> \in v.deletes
                <=> r \in DOMAIN db.rl /\ \E x \in NewTxs(b) : Holds(x, r)
           /\ v.locs = Over(w.loc_undo, w.locs)
<1> DEFINE N == Len(BlockTxs[b])
           HoldFrom(k) == \E j \in N - k + 1 .. N : Holds(BlockTxs[b][j], r)
<1>1. PICK a : Backing(a, w, b)
  BY BackLoop
<1>2. /\ a[0] = w /\ N \in Nat /\ N \in 0 .. N /\ N - N + 1 = 1
      /\ \A m \in 1 .. N : BlockTxs[b][m] \in Txs
  BY <1>1, ChainSteps, TxAssumption DEF Backing
<1>3. LocsBacked(a[N], w, r, HoldFrom(N))
  <2> DEFINE T == {k \in 0 .. N : LocsBacked(a[k], w, r, HoldFrom(k))}
  <2>1. 0 \in T
    <3>1. ~HoldFrom(0)
      BY <1>2
    <3> HIDE DEF HoldFrom
    <3>2. LocsBacked(a[0], w, r, HoldFrom(0))
      BY <1>2, <3>1 DEF LocsBacked
    <3> QED
      BY <1>2, <3>2
  <2>2. ASSUME NEW k \in 1 .. N, k - 1 \in T PROVE k \in T
    <3>1. PICK m : m = N - k + 1
      OBVIOUS
    <3>2. m \in 1 .. N /\ k \in 0 .. N /\ N - (k - 1) + 1 = m + 1
      BY <1>2, <3>1
    <3>3. a[k] = BackupTx(a[k - 1], BlockTxs[b][m])
      BY <1>1, <3>1 DEF Backing
    <3>4. HoldFrom(k) <=> HoldFrom(k - 1) \/ Holds(BlockTxs[b][m], r)
      <4>1. \A j : j \in N - k + 1 .. N <=> j \in N - (k - 1) + 1 .. N \/ j = m
        BY <1>2, <3>1, <3>2
      <4> QED
        BY <4>1
    <3>5. HoldFrom(k - 1) \in BOOLEAN
      OBVIOUS
    <3> HIDE DEF HoldFrom
    <3>6. LocsBacked(a[k - 1], w, r, HoldFrom(k - 1))
      BY <2>2
    <3>7. LocsBacked(a[k], w, r, HoldFrom(k - 1) \/ Holds(BlockTxs[b][m], r))
      BY <1>2, <3>2, <3>3, <3>5, <3>6, BackupTxLocs
    <3>8. LocsBacked(a[k], w, r, HoldFrom(k))
      BY <3>4, <3>7 DEF LocsBacked
    <3> QED
      BY <3>2, <3>8
  <2> HIDE DEF T
  <2>3. N \in T
    BY <1>2, <2>1, <2>2, UpTo
  <2> QED
    BY <2>3 DEF T
<1>4. HoldFrom(N) <=> \E x \in NewTxs(b) : Holds(x, r)
  BY <1>2 DEF NewTxs, FirstTxs
<1>5. PICK z : z = a[N]
  OBVIOUS
<1>6. v = [z EXCEPT !.locs = Over(z.loc_undo, @), !.failed = @ \/ z.undo # <<>>]
  <2>1. z = BackedAll(w, b)
    BY <1>1, <1>5 DEF Backing
  <2> QED
    BY <2>1 DEF BackedAll, BackupTxs
<1> HIDE DEF N, HoldFrom
<1>7. DOMAIN z = Fields /\ DOMAIN z.locs = {} /\ z.loc_undo = w.loc_undo
  BY <1>3, <1>5 DEF LocsBacked
<1>8. /\ DOMAIN v = Fields /\ v.locs = Over(w.loc_undo, z.locs) /\ v.deletes = z.deletes
  BY <1>6, <1>7, FieldsAre
<1>9. v.locs = Over(w.loc_undo, w.locs)
  <2>1. DOMAIN w.locs = {}
    BY DEF LocsBacked
  <2> QED
    BY <1>7, <1>8, <2>1 DEF Over
<1>10. <<"rl", r>> \in z.deletes <=> r \in DOMAIN db.rl /\ HoldFrom(N)
  BY <1>3, <1>5 DEF LocsBacked
<1> QED
  BY <1>4, <1>8, <1>9, <1>10

----------------------------------------------------------------------------
(* The invariant of the locations *)

LocsAhead == \A r \in Tracked : Placed(tip, flush_utxo_db.rl, r)
LocsNoted ==
  \A c \in mem.headers : \A r \in Tracked : LocRecord(c, mem.loc_undo_infos[Height[c]], r)

\* The DB, the caches, and the undo records of both have where singletons last moved.
LocsInv ==
  /\ \A r \in Tracked : Placed(dbTip, db.rl, r)
  /\ LocsAhead
  /\ LocsNoted
  /\ AllLocsRecorded

\* The 'rl' table of a flush.
LEMMA FlushedLocs ==
    /\ flush_utxo_db.rl = Over(mem.locs, Without(db.rl, Deleted("rl")))
    /\ DOMAIN flush_utxo_db.rl = DOMAIN mem.locs \cup (DOMAIN db.rl \ Deleted("rl"))
    /\ \A r \in DOMAIN mem.locs : flush_utxo_db.rl[r] = mem.locs[r]
    /\ \A r \in DOMAIN db.rl \ Deleted("rl") :
         r \notin DOMAIN mem.locs => flush_utxo_db.rl[r] = db.rl[r]
    /\ \A hashes : Over(flush_utxo_db, [hashes |-> hashes]).rl = flush_utxo_db.rl
<1>1. flush_utxo_db.rl = Over(mem.locs, Without(db.rl, Deleted("rl")))
  BY DEF flush_utxo_db
<1>2. \A hashes : Over(flush_utxo_db, [hashes |-> hashes]).rl = flush_utxo_db.rl
  <2>1. ASSUME NEW hashes
        PROVE  Over(flush_utxo_db, [hashes |-> hashes]).rl = flush_utxo_db.rl
    <3> DEFINE g == [hashes |-> hashes]
    <3>1. DOMAIN flush_utxo_db = {"hu", "ri", "rm", "rl", "undo", "loc_undo"}
      BY DEF flush_utxo_db
    <3>2. DOMAIN g = {"hashes"}
      OBVIOUS
    <3> HIDE DEF g
    <3>3. Over(flush_utxo_db, g).rl = flush_utxo_db.rl
      BY <3>1, <3>2 DEF Over
    <3> QED
      BY <3>3 DEF g
  <2> QED
    BY <2>1
<1> QED
  BY <1>1, <1>2 DEF Over, Without

\* While running nothing of 'rl' is marked for deletion.
LEMMA NoLocDeleted ==
    ASSUME Inv, pc = "run"
    PROVE  Deleted("rl") = {}
<1>1. Ahead /\ DOMAIN mem = DOMAIN NoMem
  BY AheadAlways DEF Inv, Shape
<1>2. \A d \in mem.deletes : d = <<"hu", d[2]>>
  BY <1>1, FreshFields DEF Ahead, Advanced
<1>3. \A d \in mem.deletes : d[1] = "hu"
  BY <1>2
<1>4. \A d \in mem.deletes : d[1] # "rl"
  BY <1>3
<1> QED
  BY <1>4 DEF Deleted

\* With nothing cached a flush leaves 'rl' as it is.
LEMMA NothingToFlush ==
    ASSUME mem = NoMem
    PROVE  /\ \A r : r \in DOMAIN flush_utxo_db.rl <=> r \in DOMAIN db.rl
           /\ \A r \in DOMAIN db.rl : flush_utxo_db.rl[r] = db.rl[r]
<1>1. DOMAIN mem.locs = {} /\ mem.deletes = {}
  BY NoMemIs
<1>2. Deleted("rl") = {}
  BY <1>1 DEF Deleted
<1> QED
  BY <1>1, <1>2, FlushedLocs

\* The caches that a block's loop starts with have no location undo record.
LEMMA FreshLocs ==
    ASSUME NEW m, DOMAIN m = DOMAIN NoMem
    PROVE  /\ DOMAIN Fresh(m) = Fields /\ Fresh(m).locs = m.locs
           /\ DOMAIN Fresh(m).loc_undo = {} /\ Fresh(m).minted = {}
<1>1. DOMAIN Scratch = {"undo", "loc_undo", "minted", "failed"}
  BY DEF Scratch
<1>2. Scratch.loc_undo = Empty /\ Scratch.minted = {}
  BY DEF Scratch
<1>3. "loc_undo" \notin DOMAIN m /\ "minted" \notin DOMAIN m
  BY FieldsAre
<1> HIDE DEF Scratch
<1>4. Fresh(m).loc_undo = Empty /\ Fresh(m).minted = {}
  BY <1>1, <1>2, <1>3 DEF Fresh, Over
<1> QED
  BY <1>4, FreshIs, FreshFields DEF Empty

\* A ref that the block moves and no block before it since the last flush: the record has
\* where the DB has it, and that is its last move before the block.
LEMMA AdvancedLocs ==
    ASSUME Inv, LocsInv, NEW b \in Blocks, Advance(b), NEW r \in Tracked, r \notin blurred',
           NEW v, v = AdvanceTxs(Fresh(mem), b)
    PROVE  /\ LocRecord(b, v.loc_undo, r)
           /\ Placed(b, Over(v.locs, db.rl), r)
<1> DEFINE w == Fresh(mem)
           S == Moves(NewTxs(b), r)
           P == Moves(TxsOf(Parent[b]), r)
           f == flush_utxo_db.rl
<1>1. /\ pc = "run" /\ Parent[b] = tip
      /\ r \in DOMAIN mem.locs => \A n \in DOMAIN BlockTxs[b] :
           \A i \in DOMAIN Outputs[BlockTxs[b][n]] :
             r \notin Outputs[BlockTxs[b][n]][i].singletons
  BY DEF Advance
<1>2. /\ Shape /\ DOMAIN mem = DOMAIN NoMem /\ dbTip \in Tips /\ Begins(dbTip, tip)
      /\ b \in Tips /\ tip \in Tips
  BY <1>1, AheadAlways, Heights DEF Inv, Shape, Ahead
<1>3. /\ DOMAIN w = Fields /\ w.locs = mem.locs /\ DOMAIN w.loc_undo = {} /\ w.minted = {}
  BY <1>2, FreshLocs
<1>4. LocsAt(w, w, b, r, {})
  BY <1>3 DEF LocsAt
<1>5. Placed(dbTip, db.rl, r) /\ Placed(tip, f, r)
  BY DEF LocsInv, LocsAhead
<1> HIDE DEF w
<1>6. LocsAt(v, w, b, r, S)
  BY <1>1, <1>2, <1>4, <1>5, AdvanceBlockLocs DEF w
<1>7. S # {} => r \notin DOMAIN mem.locs
  <2>1. ASSUME NEW x \in S PROVE \E n \in DOMAIN BlockTxs[b] : x = BlockTxs[b][n] /\ Carries(x, r)
    <3>1. PICK k \in 1 .. Len(BlockTxs[b]) : x = BlockTxs[b][k]
      BY DEF Moves, NewTxs, FirstTxs
    <3>2. k \in DOMAIN BlockTxs[b]
      BY TxAssumption
    <3> QED
      BY <3>1, <3>2 DEF Moves
  <2> QED
    BY <1>1, <2>1 DEF Carries
<1>8. /\ DOMAIN f = DOMAIN mem.locs \cup DOMAIN db.rl
      /\ r \in DOMAIN mem.locs => f[r] = mem.locs[r]
      /\ r \in DOMAIN db.rl /\ r \notin DOMAIN mem.locs => f[r] = db.rl[r]
  BY <1>1, FlushedLocs, NoLocDeleted
<1> HIDE DEF f
<1>9. LocRecord(b, v.loc_undo, r)
  <2>1. r \in DOMAIN v.loc_undo <=> S # {} /\ P # {}
    BY <1>1, <1>5, <1>6, <1>7, <1>8 DEF LocsAt, Placed
  <2>2. ASSUME r \in DOMAIN v.loc_undo PROVE Latest(Parent[b], P, v.loc_undo[r])
    <3>1. v.loc_undo[r] = f[r] /\ r \in DOMAIN f
      BY <1>6, <1>7, <1>8, <2>2 DEF LocsAt
    <3> QED
      BY <1>1, <1>5, <3>1 DEF Placed
  <2> QED
    BY <2>1, <2>2 DEF LocRecord
<1> DEFINE g == Over(v.locs, db.rl)
<1>11. /\ DOMAIN g = DOMAIN v.locs \cup DOMAIN db.rl
       /\ r \in DOMAIN v.locs => g[r] = v.locs[r]
       /\ r \in DOMAIN db.rl /\ r \notin DOMAIN v.locs => g[r] = db.rl[r]
  BY DEF Over
<1>12. Moves(TxsOf(b), r) = P \cup S
  BY LatestOn
<1> HIDE DEF g
<1>13. CASE S = {}
  <2>1. /\ r \in DOMAIN g <=> r \in DOMAIN f
        /\ r \in DOMAIN f => g[r] = f[r]
    BY <1>3, <1>6, <1>8, <1>11, <1>13 DEF LocsAt
  <2>2. \A x : Latest(Parent[b], P, x) <=> Latest(b, Moves(TxsOf(b), r), x)
    BY <1>13, LatestOn
  <2>3. Placed(b, g, r)
    BY <1>1, <1>5, <1>12, <1>13, <2>1, <2>2 DEF Placed
  <2> QED
    BY <1>9, <2>3 DEF g
<1>14. CASE S # {}
  <2>1. r \in DOMAIN v.locs /\ Latest(b, S, v.locs[r])
    BY <1>6, <1>14 DEF LocsAt
  <2>2. Latest(b, Moves(TxsOf(b), r), v.locs[r])
    BY <2>1, LatestOn
  <2>3. Placed(b, g, r)
    BY <1>11, <1>12, <1>14, <2>1, <2>2 DEF Placed
  <2> QED
    BY <1>9, <2>3 DEF g
<1> QED
  BY <1>13, <1>14

\* The 'rl' table that a flush of the caches m leaves of rl
RlAfter(m, rl) ==
  Over(m.locs, Without(rl, {k[2] : k \in {d \in m.deletes : d[1] = "rl"}}))

\* Fewer refs are tracked as blocks are advanced; nothing else changes which.
LEMMA TrackedShrinks ==
    ASSUME [Next]_vars
    PROVE  /\ Tracked' \subseteq Tracked
           /\ ~(\E b \in Blocks : Advance(b)) => Tracked' = Tracked
           /\ \A r \in Tracked' : r \notin blurred'
<1>1. blurred \subseteq blurred'
  BY DEF Next, vars, Advance, Flush, BackupBlock, FlushBackup, Crash
<1>2. ~(\E b \in Blocks : Advance(b)) => blurred' = blurred
  BY DEF Next, vars, Flush, BackupBlock, FlushBackup, Crash
<1> QED
  BY <1>1, <1>2 DEF Tracked, Mixed, Refs

\* Advance keeps the invariant.
LEMMA AdvanceLocs ==
    ASSUME Inv, LocsInv, NEW b \in Blocks, Advance(b), [Next]_vars
    PROVE  LocsInv'
<1> DEFINE v == AdvanceTxs(Fresh(mem), b)
           m == Noted(mem, v, b)
<1>1. /\ pc = "run" /\ Parent[b] = tip /\ tip' = b /\ db' = db /\ dbTip' = dbTip
      /\ mem' = m
  BY DEF Advance, Fresh, Noted
<1>2. Inv' /\ pc' = "run"
  <2>1. Inv'
    BY AdvanceStep
  <2>2. pc' \in {"run", "stopped"}
    BY DEF Advance
  <2> QED
    BY <2>1, <2>2 DEF Inv, Shape
<1>3. /\ Ahead /\ Branch /\ DOMAIN mem = DOMAIN NoMem
  BY <1>1, AheadAlways DEF Inv, Shape, Ahead
<1>4. Tracked' \subseteq Tracked /\ \A r \in Tracked' : r \notin blurred'
  BY TrackedShrinks
<1>5. \A r \in Tracked' : LocRecord(b, v.loc_undo, r) /\ Placed(b, Over(v.locs, db.rl), r)
  BY <1>4, AdvancedLocs
<1>6. Untouched(v, Fresh(mem)) /\ \A d \in v.deletes : d = <<"hu", d[2]>>
  <2>1. /\ Stored /\ Begins(dbTip, tip) /\ b \in Tips /\ tip \in Tips /\ Begins(tip, b)
    BY <1>1, <1>3, BeginsChild DEF Inv, Shape, Ahead
  <2>2. Advanced(Fresh(mem), b, Unspent(tip), Made(TxsOf(tip)))
    BY <1>3, <2>1, AdvancedOn DEF Ahead
  <2>3. Fresh(mem).undo = <<>>
    BY <1>3, FreshIs
  <2> QED
    BY <1>1, <2>1, <2>2, <2>3, AdvanceBlockKeeps DEF Advanced
<1> HIDE DEF v
<1>7. /\ m.headers = v.headers \cup {b} /\ m.locs = v.locs /\ m.deletes = v.deletes
      /\ m.loc_undo_infos = With(v.loc_undo_infos, Height[b], v.loc_undo)
  <2>1. m.locs = v.locs
    <3> HIDE DEF NoMem
    <3> QED
      BY <1>3, FieldsAre DEF Noted
  <2> QED
    BY <1>3, <2>1, NotedIs
<1>8. /\ m.headers = mem.headers \cup {b}
      /\ m.loc_undo_infos = With(mem.loc_undo_infos, Height[b], v.loc_undo)
  BY <1>3, <1>6, <1>7, FreshFields DEF Untouched
<1> HIDE DEF m
<1>9. /\ m.loc_undo_infos[Height[b]] = v.loc_undo
      /\ \A h \in DOMAIN mem.loc_undo_infos :
           h # Height[b] => m.loc_undo_infos[h] = mem.loc_undo_infos[h]
  BY <1>8 DEF With, Over
<1>10. ASSUME NEW c \in mem.headers
       PROVE  Height[c] # Height[b] /\ Height[c] \in DOMAIN mem.loc_undo_infos
  <2>1. Height[c] <= Height[tip] /\ Height[c] \in DOMAIN mem.undo_infos
    BY <1>3 DEF Branch
  <2>2. Height[tip] + 1 = Height[b] /\ Height[tip] \in Int /\ Height[c] \in Int
    BY <1>1, Heights DEF Inv, Shape
  <2> QED
    BY <2>1, <2>2 DEF Inv, Shape
<1>11. LocsNoted'
  <2>1. ASSUME NEW c \in m.headers, NEW r \in Tracked'
        PROVE  LocRecord(c, m.loc_undo_infos[Height[c]], r)
    <3>1. CASE c = b
      BY <1>5, <1>9, <3>1
    <3>2. CASE c # b
      BY <1>4, <1>8, <1>9, <1>10, <3>2 DEF LocsInv, LocsNoted
    <3> QED
      BY <3>1, <3>2
  <2> QED
    BY <1>1, <2>1 DEF LocsNoted, LocRecord, Latest, Moves, TxsOf, NumOf
<1>12. LocsAhead'
  <2>1. \A d \in m.deletes : d[1] = "hu"
    BY <1>6, <1>7
  <2>2. \A d \in m.deletes : d[1] # "rl"
    BY <2>1
  <2>3. RlAfter(m, db.rl) = Over(v.locs, db.rl)
    BY <1>7, <2>2 DEF RlAfter, Over, Without
  <2>4. \A r \in Tracked' : Placed(b, RlAfter(m, db.rl), r)
    BY <1>5, <2>3
  <2> QED
    BY <1>1, <2>4 DEF LocsAhead, Placed, RlAfter, flush_utxo_db, Deleted
<1> QED
  BY <1>1, <1>4, <1>11, <1>12
     DEF LocsInv, Placed, Latest, Moves, TxsOf, NumOf, AllLocsRecorded, LocsRecorded, LocRecord

\* The location undo records of the DB after a flush of advanced blocks
LEMMA LocRecordsFlushed ==
    ASSUME Shape, Branch, LocsNoted, NEW A, LocsRecorded(A),
           NEW undo, undo = Over(mem.loc_undo_infos, db.loc_undo)
    PROVE  LET B == A \cup mem.headers IN
           /\ B \subseteq Tips /\ tip \in B
           /\ \A c \in B : Height[c] <= Height[tip]
           /\ \A c \in B \cap Blocks :
                /\ Parent[c] \in B
                /\ Height[c] \in DOMAIN undo
                /\ \A r \in Tracked : LocRecord(c, undo[Height[c]], r)
<1>1. /\ tip \in Tips /\ dbTip \in Tips /\ Height[tip] \in Int /\ Height[dbTip] \in Int
      /\ mem.headers \subseteq Blocks /\ Blocks \subseteq Tips
      /\ DOMAIN mem.undo_infos = DOMAIN mem.loc_undo_infos
  BY Heights DEF Shape, Tips
<1>2. Height[dbTip] <= Height[tip]
  BY <1>1 DEF Branch
<1>3. /\ A \subseteq Tips /\ dbTip \in A
      /\ \A c \in A : Height[c] <= Height[dbTip] /\ Height[c] \in Int
      /\ \A c \in A \cap Blocks :
           /\ Parent[c] \in A
           /\ Height[c] \in DOMAIN db.loc_undo
           /\ \A r \in Tracked : LocRecord(c, db.loc_undo[Height[c]], r)
  BY Heights DEF LocsRecorded
<1>4. ASSUME NEW c \in A
      PROVE  Height[c] <= Height[tip] /\ Height[c] \notin DOMAIN mem.loc_undo_infos
  BY <1>1, <1>2, <1>3 DEF Branch
<1>5. ASSUME NEW c \in A \cap Blocks
      PROVE  /\ Height[c] \in DOMAIN undo
             /\ \A r \in Tracked : LocRecord(c, undo[Height[c]], r)
  <2>1. Height[c] \in DOMAIN undo /\ undo[Height[c]] = db.loc_undo[Height[c]]
    BY <1>3, <1>4 DEF Over
  <2> QED
    BY <1>3, <2>1
<1>6. ASSUME NEW c \in mem.headers
      PROVE  /\ Parent[c] \in A \cup mem.headers /\ Height[c] <= Height[tip]
             /\ Height[c] \in DOMAIN undo
             /\ \A r \in Tracked : LocRecord(c, undo[Height[c]], r)
  <2>1. /\ Parent[c] \in mem.headers \cup {dbTip} /\ Height[c] <= Height[tip]
        /\ Height[c] \in DOMAIN mem.loc_undo_infos
    BY <1>1 DEF Branch
  <2>2. Height[c] \in DOMAIN undo /\ undo[Height[c]] = mem.loc_undo_infos[Height[c]]
    BY <2>1 DEF Over
  <2> QED
    BY <1>3, <2>1, <2>2 DEF LocsNoted
<1>7. tip \in A \cup mem.headers
  BY <1>3 DEF Branch
<1> QED
  BY <1>1, <1>3, <1>4, <1>5, <1>6, <1>7

\* With nothing cached the tip's locations are the DB's.
LEMMA LocsAtRest ==
    ASSUME NEW m, m = NoMem, NEW t, NEW rl, \A r \in Tracked : Placed(t, rl, r)
    PROVE  \A r \in Tracked : Placed(t, RlAfter(m, rl), r)
<1>1. DOMAIN m.locs = {} /\ m.deletes = {}
  BY NoMemIs
<1>2. DOMAIN RlAfter(m, rl) = DOMAIN rl /\ \A r \in DOMAIN rl : RlAfter(m, rl)[r] = rl[r]
  BY <1>1 DEF RlAfter, Over, Without
<1> QED
  BY <1>2 DEF Placed

\* Flush keeps the invariant.
LEMMA FlushLocs ==
    ASSUME Inv, LocsInv, Flush, Tracked' = Tracked
    PROVE  LocsInv'
<1> DEFINE h == Over(NewHashes, db.hashes)
<1>1. /\ pc = "run" /\ mem' = NoMem /\ dbTip' = tip /\ tip' = tip
      /\ db' = Over(flush_utxo_db, [hashes |-> h])
  BY DEF Flush
<1>2. Ahead /\ Branch /\ Shape
  BY <1>1, AheadAlways DEF Inv, Ahead
<1> HIDE DEF h
<1>3. db'.rl = flush_utxo_db.rl /\ db'.loc_undo = Over(mem.loc_undo_infos, db.loc_undo)
  BY <1>1, FlushedLocs, FlushedTables DEF flush_utxo_db
<1>4. \A r \in Tracked : Placed(tip, db'.rl, r)
  BY <1>3 DEF LocsInv, LocsAhead
<1>5. \A r \in Tracked : Placed(tip, RlAfter(mem', db'.rl), r)
  BY <1>1, <1>4, LocsAtRest
<1>6. mem'.headers = {}
  BY <1>1, NoMemIs
<1>7. PICK A : LocsRecorded(A)
  BY DEF LocsInv, AllLocsRecorded
<1>8. PICK B : B = A \cup mem.headers
  OBVIOUS
<1>9. /\ B \subseteq Tips /\ tip \in B
      /\ \A c \in B : Height[c] <= Height[tip]
      /\ \A c \in B \cap Blocks :
           /\ Parent[c] \in B
           /\ Height[c] \in DOMAIN db'.loc_undo
           /\ \A r \in Tracked : LocRecord(c, db'.loc_undo[Height[c]], r)
  BY <1>2, <1>3, <1>7, <1>8, LocRecordsFlushed DEF LocsInv
<1>10. LocsRecorded(B)'
  BY <1>1, <1>9 DEF LocsRecorded
<1>11. LocsAhead'
  BY <1>1, <1>5 DEF LocsAhead, RlAfter, flush_utxo_db, Deleted
<1>12. LocsNoted'
  BY <1>6 DEF LocsNoted
<1> QED
  BY <1>1, <1>4, <1>10, <1>11, <1>12 DEF LocsInv, AllLocsRecorded

\* A tracked ref is no normal ref of any output.
LEMMA TrackedIsSingleton ==
    ASSUME NEW t \in Tips, NEW r \in Tracked, Moves(TxsOf(t), r) # {}, NEW x \in Txs
    PROVE  Holds(x, r) <=> r \notin ToSet(Inputs[x]) /\ Carries(x, r)
<1>1. PICK y \in Txs : \E i \in DOMAIN Outputs[y] : r \in Outputs[y][i].singletons
  BY TxsHaveIO DEF Moves, Carries
<1>2. \A i \in DOMAIN Outputs[x] : r \notin Outputs[x][i].normals
  BY <1>1 DEF Tracked, Mixed
<1> QED
  BY <1>2 DEF Holds, Carries

\* A reorg puts the locations back that the block's record has, and deletes those of the refs
\* that moved first in the block.
LEMMA BackedLocs ==
    ASSUME NEW b \in Blocks, NEW r \in Tracked, NEW rl, NEW rec, NEW f,
           Placed(b, rl, r), LocRecord(b, rec, r),
           LET gone == r \in DOMAIN rl /\ \E x \in NewTxs(b) : Holds(x, r) IN
             /\ r \in DOMAIN f <=> r \in DOMAIN rec \/ (r \in DOMAIN rl /\ ~gone)
             /\ r \in DOMAIN rec => f[r] = rec[r]
             /\ r \notin DOMAIN rec /\ r \in DOMAIN rl /\ ~gone => f[r] = rl[r]
    PROVE  Placed(Parent[b], f, r)
<1> DEFINE S == Moves(NewTxs(b), r)
           P == Moves(TxsOf(Parent[b]), r)
<1>1. Moves(TxsOf(b), r) = P \cup S
  BY LatestOn
<1>2. /\ r \in DOMAIN rl <=> P \cup S # {}
      /\ r \in DOMAIN rl => Latest(b, P \cup S, rl[r])
      /\ r \in DOMAIN rec <=> S # {} /\ P # {}
      /\ r \in DOMAIN rec => Latest(Parent[b], P, rec[r])
  BY <1>1 DEF Placed, LocRecord
<1>3. b \in Tips /\ NewTxs(b) \subseteq Txs
  BY Heights, BlockAdds, TxsHaveIO
<1>4. r \in DOMAIN rl => ((\E x \in NewTxs(b) : Holds(x, r)) <=> S # {})
  <2>1. ASSUME r \in DOMAIN rl, NEW x \in NewTxs(b) PROVE Holds(x, r) <=> x \in S
    <3>1. Moves(TxsOf(b), r) # {}
      BY <1>1, <1>2, <2>1
    <3> QED
      BY <1>3, <3>1, TrackedIsSingleton DEF Moves
  <2>2. S \subseteq NewTxs(b)
    BY DEF Moves
  <2> QED
    BY <2>1, <2>2
<1>5. S = {} => \A x : Latest(Parent[b], P, x) <=> Latest(b, P \cup S, x)
  BY <1>1, LatestOn
<1> HIDE DEF S, P
<1>6. Placed(Parent[b], f, r) <=>
        (/\ r \in DOMAIN f <=> P # {}
         /\ r \in DOMAIN f => Latest(Parent[b], P, f[r]))
  BY DEF Placed, P
<1>7. CASE S = {}
  BY <1>2, <1>4, <1>5, <1>6, <1>7
<1>8. CASE S # {}
  BY <1>2, <1>4, <1>6, <1>8
<1> QED
  BY <1>7, <1>8

\* BackupBlock keeps the invariant.
LEMMA BackupBlockLocsStep ==
    ASSUME Inv, LocsInv, BackupBlock, Tracked' = Tracked
    PROVE  LocsInv'
<1> DEFINE start == [Scratch EXCEPT !.undo = db.undo[Height[tip]],
                                    !.loc_undo = db.loc_undo[Height[tip]]]
           w == Over(mem, start)
           v == BackupTxs(w, tip)
           m == [f \in DOMAIN mem |-> v[f]]
           rec == db.loc_undo[Height[dbTip]]
<1>1. /\ pc = "run" /\ tip = dbTip /\ tip # NoBlock /\ tip' = Parent[tip]
      /\ mem' = m /\ db' = db /\ dbTip' = dbTip
  BY DEF BackupBlock
<1>2. Shape /\ mem = NoMem /\ dbTip \in Blocks /\ DOMAIN mem = DOMAIN NoMem
  BY <1>1, Heights DEF Inv, Running, Shape, Tips
<1>3. \A r \in Tracked : LocRecord(dbTip, rec, r)
  <2>1. PICK A : LocsRecorded(A)
    BY DEF LocsInv, AllLocsRecorded
  <2> QED
    BY <1>2, <2>1 DEF LocsRecorded
<1>4. DOMAIN start = DOMAIN Scratch /\ start.loc_undo = rec
  BY <1>1 DEF Scratch
<1> HIDE DEF start, rec
<1>5. /\ DOMAIN w = Fields /\ w.loc_undo = rec /\ \A f \in DOMAIN NoMem : w[f] = mem[f]
  <2>1. "loc_undo" \in DOMAIN start /\ "loc_undo" \notin DOMAIN mem
    BY <1>2, <1>4, FieldsAre DEF Scratch
  <2> HIDE DEF NoMem, Scratch
  <2> QED
    BY <1>2, <1>4, <2>1 DEF Over, Fields
<1> HIDE DEF w
<1>6. DOMAIN w.locs = {} /\ w.deletes = {} /\ w.headers = {}
  <2>1. w.locs = NoMem.locs /\ w.deletes = NoMem.deletes /\ w.headers = NoMem.headers
    BY <1>2, <1>5, FieldsAre
  <2> QED
    BY <2>1, NoMemIs
<1>7. \A r : LocsBacked(w, w, r, FALSE)
  BY <1>5, <1>6 DEF LocsBacked
<1>8. ASSUME NEW r
      PROVE  /\ DOMAIN v = Fields
             /\ <<"rl", r>> \in v.deletes
                  <=> r \in DOMAIN db.rl /\ \E x \in NewTxs(dbTip) : Holds(x, r)
             /\ DOMAIN v.locs = DOMAIN rec
             /\ r \in DOMAIN rec => v.locs[r] = rec[r]
  <2>1. v = BackupTxs(w, dbTip) /\ w.loc_undo = rec
    BY <1>1, <1>5
  <2>2. dbTip \in Blocks /\ LocsBacked(w, w, r, FALSE)
    BY <1>2, <1>7
  <2> HIDE DEF v
  <2>3. /\ DOMAIN v = Fields
        /\ <<"rl", r>> \in v.deletes
             <=> r \in DOMAIN db.rl /\ \E x \in NewTxs(dbTip) : Holds(x, r)
        /\ v.locs = Over(w.loc_undo, w.locs)
    BY <2>1, <2>2, BackupBlockLocs
  <2> QED
    BY <1>6, <2>1, <2>3 DEF Over
<1> HIDE DEF v
<1>9. /\ m.locs = v.locs /\ m.deletes = v.deletes
      /\ mem'.headers = {} /\ \A d \in mem'.deletes : d = <<d[1], d[2]>>
  <2>1. m.locs = v.locs /\ m.deletes = v.deletes
    <3> HIDE DEF NoMem
    <3> QED
      BY <1>2, FieldsAre
  <2>2. Inv'
    BY BackupBlockStep
  <2>3. pc' = "flush_backup"
    BY <2>2 DEF Inv, Shape, BackupBlock
  <2>4. mem'.headers = {} /\ DOMAIN mem' = DOMAIN NoMem
    BY <2>2, <2>3 DEF Inv, Shape, Reverting
  <2>5. \A d \in Fresh(mem').deletes : d = <<d[1], d[2]>>
    BY <2>2, <2>3 DEF Inv, Reverting, Reverted, Fresh
  <2> QED
    BY <2>1, <2>4, <2>5, FreshFields
<1> HIDE DEF m
<1>10. \A r : r \in {k[2] : k \in {d \in m.deletes : d[1] = "rl"}} <=> <<"rl", r>> \in m.deletes
  <2>1. \A d \in m.deletes : d = <<d[1], d[2]>>
    BY <1>1, <1>9
  <2> QED
    BY <2>1
<1>11. ASSUME NEW r \in Tracked PROVE Placed(Parent[dbTip], RlAfter(m, db.rl), r)
  <2> DEFINE f == RlAfter(m, db.rl)
             gone == r \in DOMAIN db.rl /\ \E x \in NewTxs(dbTip) : Holds(x, r)
  <2>1. /\ r \in DOMAIN f <=> r \in DOMAIN rec \/ (r \in DOMAIN db.rl /\ ~gone)
        /\ r \in DOMAIN rec => f[r] = rec[r]
        /\ r \notin DOMAIN rec /\ r \in DOMAIN db.rl /\ ~gone => f[r] = db.rl[r]
    BY <1>8, <1>9, <1>10 DEF RlAfter, Over, Without
  <2>2. Placed(dbTip, db.rl, r) /\ LocRecord(dbTip, rec, r)
    BY <1>3 DEF LocsInv
  <2> HIDE DEF f
  <2>3. Placed(Parent[dbTip], f, r)
    BY <1>2, <2>1, <2>2, BackedLocs
  <2> QED
    BY <2>3 DEF f
<1>12. LocsAhead'
  BY <1>1, <1>11 DEF LocsAhead, RlAfter, flush_utxo_db, Deleted
<1>13. LocsNoted'
  BY <1>9 DEF LocsNoted
<1> QED
  BY <1>1, <1>12, <1>13 DEF LocsInv, AllLocsRecorded, LocsRecorded

\* FlushBackup keeps the invariant.
LEMMA FlushBackupLocs ==
    ASSUME Inv, LocsInv, FlushBackup, Tracked' = Tracked
    PROVE  LocsInv'
<1>1. /\ pc = "flush_backup" /\ mem' = NoMem /\ dbTip' = tip /\ tip' = tip
      /\ db' = Over(flush_utxo_db, [hashes |-> db.hashes])
  BY DEF FlushBackup
<1>2. /\ tip \in Tips /\ dbTip \in Blocks /\ tip = Parent[dbTip]
      /\ DOMAIN mem.loc_undo_infos = {}
      /\ Height[tip] \in Int /\ Height[dbTip] = Height[tip] + 1
  BY <1>1, Heights DEF Inv, Shape, Reverting
<1>3. db'.rl = flush_utxo_db.rl /\ db'.loc_undo = Over(mem.loc_undo_infos, db.loc_undo)
  BY <1>1, FlushedLocs, FlushedTables DEF flush_utxo_db
<1>4. \A r \in Tracked : Placed(tip, db'.rl, r)
  BY <1>3 DEF LocsInv, LocsAhead
<1>5. \A r \in Tracked : Placed(tip, RlAfter(mem', db'.rl), r)
  BY <1>1, <1>4, LocsAtRest
<1>6. mem'.headers = {}
  BY <1>1, NoMemIs
<1>7. PICK A : LocsRecorded(A)
  BY DEF LocsInv, AllLocsRecorded
<1>8. PICK B : B = {c \in A : Height[c] <= Height[tip]}
  OBVIOUS
<1>9. /\ A \subseteq Tips /\ tip \in A
      /\ \A c \in A \cap Blocks :
           /\ Parent[c] \in A
           /\ Height[c] \in DOMAIN db.loc_undo
           /\ \A r \in Tracked : LocRecord(c, db.loc_undo[Height[c]], r)
  BY <1>2, <1>7 DEF LocsRecorded
<1>10. \A c \in B \cap Blocks : Height[Parent[c]] <= Height[tip]
  <2>1. \A c \in Blocks : Height[Parent[c]] + 1 = Height[c] /\ Height[Parent[c]] \in Int
                          /\ Height[c] \in Int
    BY Heights
  <2> QED
    BY <1>2, <1>8, <2>1
<1>11. \A h \in DOMAIN db.loc_undo : h \in DOMAIN db'.loc_undo /\ db'.loc_undo[h] = db.loc_undo[h]
  BY <1>2, <1>3 DEF Over
<1>12. /\ B \subseteq Tips /\ tip \in B
       /\ \A c \in B : Height[c] <= Height[tip]
       /\ \A c \in B \cap Blocks :
            /\ Parent[c] \in B
            /\ Height[c] \in DOMAIN db'.loc_undo
            /\ \A r \in Tracked : LocRecord(c, db'.loc_undo[Height[c]], r)
  <2>1. B \subseteq Tips /\ tip \in B /\ \A c \in B : Height[c] <= Height[tip]
    BY <1>2, <1>8, <1>9
  <2>2. ASSUME NEW c \in B \cap Blocks
        PROVE  /\ Parent[c] \in B
               /\ Height[c] \in DOMAIN db'.loc_undo
               /\ db'.loc_undo[Height[c]] = db.loc_undo[Height[c]]
               /\ \A r \in Tracked : LocRecord(c, db.loc_undo[Height[c]], r)
    BY <1>8, <1>9, <1>10, <1>11
  <2> QED
    BY <2>1, <2>2
<1>13. LocsRecorded(B)'
  BY <1>1, <1>12 DEF LocsRecorded
<1>14. LocsAhead'
  BY <1>1, <1>5 DEF LocsAhead, RlAfter, flush_utxo_db, Deleted
<1>15. LocsNoted'
  BY <1>6 DEF LocsNoted
<1> QED
  BY <1>1, <1>4, <1>13, <1>14, <1>15 DEF LocsInv, AllLocsRecorded

\* A crash keeps the invariant: the DB has the locations of its tip.
LEMMA CrashLocs ==
    ASSUME LocsInv, Crash, Tracked' = Tracked
    PROVE  LocsInv'
<1>1. tip' = dbTip /\ dbTip' = dbTip /\ mem' = NoMem /\ db' = db
  BY DEF Crash
<1>2. \A r \in Tracked : Placed(dbTip, RlAfter(mem', db.rl), r)
  BY <1>1, LocsAtRest DEF LocsInv
<1>3. LocsAhead'
  BY <1>1, <1>2 DEF LocsAhead, RlAfter, flush_utxo_db, Deleted
<1>4. LocsNoted'
  <2>1. mem'.headers = {}
    BY <1>1, NoMemIs
  <2> QED
    BY <2>1 DEF LocsNoted
<1> QED
  BY <1>1, <1>3, <1>4 DEF LocsInv, AllLocsRecorded, LocsRecorded

\* It holds at the start, when no ref has moved.
LEMMA LocsInit == Init => LocsInv
<1> SUFFICES ASSUME Init PROVE LocsInv
  OBVIOUS
<1>1. /\ tip = NoBlock /\ dbTip = NoBlock /\ mem = NoMem /\ DOMAIN db.rl = {}
      /\ mem.headers = {} /\ NoBlock \in Tips /\ NoBlock \notin Blocks /\ TxsOf(NoBlock) = {}
      /\ Height[NoBlock] \in Int
  BY Heights, NoTxs, NoMemIs DEF Init, Empty
<1>2. \A r \in Tracked : Placed(NoBlock, db.rl, r)
  BY <1>1 DEF Placed, Moves
<1>3. LocsAhead
  BY <1>1, <1>2, NothingToFlush DEF LocsAhead, Placed
<1>4. LocsRecorded({NoBlock})
  BY <1>1 DEF LocsRecorded
<1> QED
  BY <1>1, <1>2, <1>3, <1>4 DEF LocsInv, LocsNoted, AllLocsRecorded

\* Every step keeps it.
LEMMA LocsNext == Inv /\ LocsInv /\ [Next]_vars => LocsInv'
<1> SUFFICES ASSUME Inv, LocsInv, [Next]_vars PROVE LocsInv'
  OBVIOUS
<1>1. CASE \E b \in Blocks : Advance(b)
  BY <1>1, AdvanceLocs
<1>2. CASE ~(\E b \in Blocks : Advance(b))
  <2>1. Tracked' = Tracked
    BY <1>2, TrackedShrinks
  <2>2. CASE UNCHANGED vars
    <3>1. tip' = tip /\ mem' = mem /\ db' = db /\ dbTip' = dbTip
      BY <2>2 DEF vars
    <3> QED
      BY <2>1, <3>1
         DEF LocsInv, LocsAhead, LocsNoted, flush_utxo_db, Deleted, AllLocsRecorded, LocsRecorded
  <2> QED
    BY <1>2, <2>1, <2>2, FlushLocs, BackupBlockLocsStep, FlushBackupLocs, CrashLocs DEF Next
<1> QED
  BY <1>1, <1>2

\* 'rl' is where the committed chain last moved each singleton that did not move twice between two
\* flushes and is nowhere a normal ref (advance_txs, _backup_txs, flush_utxo_db).
THEOREM LocsAlwaysExact == Spec => []LocsExact
<1>1. Inv /\ LocsInv => LocsExact
  <2> SUFFICES ASSUME Inv, LocsInv, NEW r \in Refs \ (blurred \cup Mixed) PROVE LocExact(r)
    BY DEF LocsExact
  <2>1. Placed(dbTip, db.rl, r) /\ dbTip \in Tips
    BY DEF LocsInv, Tracked, Inv, Shape
  <2>2. MovesOf(dbTip, r) = Moves(TxsOf(dbTip), r)
    <3>1. ASSUME NEW x \in TxsOf(dbTip)
          PROVE  (\E op \in OutpointsOf(dbTip) :
                    op[1] = x /\ r \in Outputs[x][op[2] + 1].singletons) <=> Carries(x, r)
      <4>1. OutpointsOf(dbTip) = Made(TxsOf(dbTip))
        BY DEF OutpointsOf, Made, MadeBy
      <4>2. ASSUME NEW op \in Made(TxsOf(dbTip)), op[1] = x,
                   r \in Outputs[x][op[2] + 1].singletons
            PROVE  Carries(x, r)
        BY <2>1, <4>2, MadeOutput DEF Carries
      <4>3. ASSUME NEW i \in DOMAIN Outputs[x], Outputs[x][i].indexable,
                   r \in Outputs[x][i].singletons
            PROVE  \E op \in Made(TxsOf(dbTip)) :
                     op[1] = x /\ r \in Outputs[x][op[2] + 1].singletons
        <5>1. <<x, i - 1>> \in Made(TxsOf(dbTip))
          BY <4>3 DEF Made, MadeBy
        <5>2. i - 1 + 1 = i
          BY <2>1, TxsHaveIO, TxAssumption
        <5> QED
          BY <4>3, <5>1, <5>2
      <4> QED
        BY <4>1, <4>2, <4>3 DEF Carries
    <3> QED
      BY <3>1 DEF MovesOf, Moves
  <2>3. Moves(TxsOf(dbTip), r) \subseteq TxsOf(dbTip)
    BY DEF Moves
  <2> QED
    BY <2>1, <2>2, <2>3, LatestOne DEF Placed, LocExact
<1>2. Spec => [](Inv /\ LocsInv)
  <2>1. Init => Inv /\ LocsInv
    BY InvInit, LocsInit
  <2>2. Inv /\ LocsInv /\ [Next]_vars => (Inv /\ LocsInv)'
    BY InvNext, LocsNext
  <2> QED
    BY <2>1, <2>2, PTL DEF Spec
<1> QED
  BY <1>1, <1>2, PTL
=============================================================================
