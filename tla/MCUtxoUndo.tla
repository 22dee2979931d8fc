---------------------------- MODULE MCUtxoUndo ------------------------------
(* Blocks g - a1 - a2 - a3 and, on a1, b2 - b3. The singleton <<cg, 0>> is   *)
(* minted in a1, moved in a2, twice in a3, and in b3; the normal ref         *)
(* <<ca2, 0>> is minted in a2. <<c1, 0>> is minted and moved with the        *)
(* singleton, and is a normal ref in a3. Tx t2 is in both branches, with two *)
(* tx numbers. t1 and cb2 share a hash prefix. t3 has two inputs. c1 has an  *)
(* output that is not indexed.                                               *)
EXTENDS UtxoUndo

MCBlocks == {"g", "a1", "a2", "a3", "b2", "b3"}
MCNoBlock == "none"
MCHashXs == {"x", "y"}
MCParent == [g |-> "none", a1 |-> "g", a2 |-> "a1", a3 |-> "a2",
             b2 |-> "a1", b3 |-> "b2"]
MCHeight == [g |-> 0, a1 |-> 1, a2 |-> 2, a3 |-> 3, b2 |-> 2, b3 |-> 3,
             none |-> -1]

MCBlockTxs ==
  [g |-> <<"cg">>, a1 |-> <<"c1", "t1">>, a2 |-> <<"ca2", "t2", "n2">>,
   a3 |-> <<"ca3", "t3", "t4">>, b2 |-> <<"cb2">>, b3 |-> <<"cb3", "t2", "u3">>]

S == <<"cg", 0>>   \* the singleton
M == <<"c1", 0>>   \* the singleton that becomes a normal ref
N == <<"ca2", 0>>  \* the normal ref

MCInputs ==
  [cg |-> <<>>, c1 |-> <<>>, ca2 |-> <<>>, ca3 |-> <<>>, cb2 |-> <<>>,
   cb3 |-> <<>>,
   t1 |-> << S, M >>, t2 |-> << <<"t1", 0>> >>, n2 |-> << N >>,
   t3 |-> << <<"t2", 0>>, <<"n2", 0>> >>, t4 |-> << <<"t3", 0>> >>,
   u3 |-> << <<"t2", 0>>, <<"cb2", 0>> >>]

Plain(h) == [hashX |-> h, singletons |-> {}, normals |-> {}, indexable |-> TRUE]
Single(h) == [Plain(h) EXCEPT !.singletons = {S}]
Both(h) == [Plain(h) EXCEPT !.singletons = {S, M}]
Normal(h) == [Plain(h) EXCEPT !.normals = {N}]
Normals(h) == [Plain(h) EXCEPT !.normals = {N, M}]
Data == [Plain("x") EXCEPT !.indexable = FALSE]

MCOutputs ==
  [cg |-> << Plain("x") >>, c1 |-> << Plain("y"), Data >>,
   ca2 |-> << Plain("x") >>, ca3 |-> << Plain("x") >>,
   cb2 |-> << Plain("y") >>, cb3 |-> << Plain("x") >>,
   t1 |-> << Both("x") >>, t2 |-> << Both("y"), Plain("x") >>,
   n2 |-> << Normal("x") >>, t3 |-> << Single("x"), Normals("y") >>,
   t4 |-> << Single("y") >>, u3 |-> << Single("x") >>]

MCHashPrefix == [t \in DOMAIN MCInputs |-> IF t \in {"c1", "t1", "cb2"} THEN "p" ELSE t]
=============================================================================
