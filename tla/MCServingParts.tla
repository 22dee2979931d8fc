--------------------------- MODULE MCServingParts ---------------------------
EXTENDS ServingParts

(* The pool's txs.  t moves g's tokens to two addresses and advertises an order; u passes one
   of them on, and advertises the same order again and another; m melts g's; d reveals a new
   token, and beside it an output that is left out. *)
Coin(owner, refs, value, hidden) == [owner |-> owner, refs |-> refs, value |-> value, hidden |-> hidden]
MCOuts ==
    [g |-> <<Coin("a", {"T"}, 3, FALSE)>>,
     t |-> <<Coin("b", {"T"}, 1, FALSE), Coin("a", {"T"}, 2, FALSE)>>,
     u |-> <<Coin("a", {"T"}, 1, FALSE)>>,
     m |-> <<Coin("a", {}, 3, FALSE)>>,
     d |-> <<Coin("b", {"U"}, 1, FALSE), Coin("b", {"T"}, 2, TRUE)>>]
MCIns ==
    [g |-> {}, t |-> {<<"g", 1>>}, u |-> {<<"t", 1>>}, m |-> {<<"g", 1>>}, d |-> {<<"t", 2>>}]
Ad(id, pair) == [id |-> id, pair |-> pair, maker |-> "a"]
MCAds ==
    [g |-> << >>, t |-> <<Ad("o1", "p")>>, u |-> <<Ad("o1", "q"), Ad("o2", "p")>>,
     m |-> << >>, d |-> << >>]
MCSubKeys == {<<"balance", <<"b", "T">>>>, <<"token", "T">>}
=============================================================================
