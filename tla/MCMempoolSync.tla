--------------------------- MODULE MCMempoolSync ----------------------------
EXTENDS MempoolSync, TLC

MCTxs == {"p", "q", "r"}
(* q and r spend p. *)
MCSpends == "p" :> {} @@ "q" :> {"p"} @@ "r" :> {"p"}
MCTouches == "p" :> {"x", "y"} @@ "q" :> {"y", "z"} @@ "r" :> {"x", "w"}
(* p is confirmed below the fork, in a1, whose report may still wait when the
   chain parts there.  r, confirmed in a2, comes back when that is undone, until
   its rival q is confirmed in b4. *)
MCContents ==
    "g" :> {} @@ "a1" :> {"p"} @@ "a2" :> {"r"} @@ "a3" :> {}
    @@ "b2" :> {} @@ "b3" :> {} @@ "b4" :> {"q"}
MCBlocks ==
    {<<"g">>, <<"g", "a1">>, <<"g", "a1", "a2">>, <<"g", "a1", "a2", "a3">>,
     <<"g", "a1", "b2">>, <<"g", "a1", "b2", "b3">>, <<"g", "a1", "b2", "b3", "b4">>}
MCFirstTip == <<"g">>
MCFirstPool == {"p"}
(* No branch: what is missed without any reorg. *)
LinearBlocks == {<<"g">>, <<"g", "a1">>, <<"g", "a1", "a2">>}
=============================================================================
