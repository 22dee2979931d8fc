---------------------------- MODULE DurableIndex ----------------------------
(***************************************************************************)
(* What the stores of RXinDexer promise together, whatever moment the      *)
(* process is killed at: at every instant the disk holds one recoverable   *)
(* index, a committed tip and the address history a process started now    *)
(* would serve. The index grows by whole runs of connected blocks together *)
(* with their history, and shrinks one block at a time; the history of the *)
(* block that is about to go may go first, nothing else ever goes.         *)
(*   abstract specification of electrumx/server/db.py and history.py       *)
(***************************************************************************)
EXTENDS Integers

CONSTANTS
  Blocks, NoBlock,
  Parent,     \* block -> its prevhash
  Chain,      \* block -> the blocks from genesis up to and including it
  Touches     \* block -> the history entries its txs add

VARIABLES
  tip,        \* the committed tip
  history     \* history entries a process opened now would serve

vars == <<tip, history>>

Init == tip = NoBlock /\ history = {}

\* a flush commits the blocks between the tip and one of its descendants
Extend(t) ==
  /\ Chain[tip] \subseteq Chain[t]
  /\ tip' = t
  /\ history' = history \cup UNION {Touches[b] : b \in Chain[t] \ Chain[tip]}

\* a reorg is about to drop the tip
Trim ==
  /\ tip # NoBlock
  /\ history' = history \ Touches[tip]
  /\ UNCHANGED tip

Retract ==
  /\ tip # NoBlock
  /\ history' = history \ Touches[tip]
  /\ tip' = Parent[tip]

Next == (\E t \in Blocks : Extend(t)) \/ Trim \/ Retract

Spec == Init /\ [][Next]_vars
=============================================================================
