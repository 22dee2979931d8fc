--------------------------- MODULE MCReorgControl ---------------------------
(* A tree for ReorgControl; a block is named for its branch:

       genesis - c - c - c - c - c - c - c - c
                              \- b - b - b - b - b
                                              \- d - d
   height        1   2   3   4   5   6   7   8   9  10

   The daemon starts at height 7 of branch c.  A reorg from c8 to branch b takes
   the three windows [7], [5, 6] and [1 .. 4] of _calc_reorg_range to find c4;
   branch d makes the daemon change its mind during that.  The fork is high
   enough that two forced reorgs of two blocks do not reach below block 0. *)
EXTENDS ReorgControl, TLC

c4 == <<"c", "c", "c", "c">>
c7 == c4 \o <<"c", "c", "c">>
c8 == c7 \o <<"c">>
b9 == c4 \o <<"b", "b", "b", "b", "b">>
d10 == c4 \o <<"b", "b", "b", "b", "d", "d">>

MCBlocks == Prefixes(c8) \cup Prefixes(b9) \cup Prefixes(d10)
(* What ReorgExact's proof supposes of the tree. *)
ASSUME ForksAreHigh

MCFirstTip == c7
MCStartTips == {c4, c7}

(* For the run on a lost request: a daemon that does not move. *)
StillBlocks == Prefixes(c4)
StillStartTips == {c4}
=============================================================================
