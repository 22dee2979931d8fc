-------------------------- MODULE MCOverlayIndexes --------------------------
EXTENDS OverlayIndexes

Ad(id, price, maker, offers) ==
    [id |-> id, pair |-> "T/RXD", price |-> price, maker |-> maker, offers |-> offers]

(* Outputs, reveals and txs, to be varied with EXCEPT. *)
Out(op, owner, refs) ==
    [op |-> op, owner |-> owner, value |-> 1, refs |-> refs, dead |-> FALSE, contract |-> {}]
Ft(ref) == [ref |-> ref, kind |-> "ft"]
Nft(ref) == [ref |-> ref, kind |-> "nft"]
Reveal(p, name, prev) ==
    [p |-> p, kind |-> "none", version |-> 2, name |-> name, meta |-> "m-" \o name, prev |-> prev,
     total |-> 0, premine |-> 0, reward |-> 0]
Tx(outs, spends) ==
    [outs |-> outs, spends |-> spends, inEnvs |-> << >>, outEnvs |-> << >>, ads |-> << >>,
     beacons |-> << >>]
Ads(ads) == [Tx(<< >>, {}) EXCEPT !.ads = ads]
Miner(op, c, owner) ==
    [Out(op, owner, <<Nft(c), Ft("D")>>) EXCEPT !.contract = {[reward |-> 2, max |-> 2]}]

(* The book: backings o1 and o2; an offer over o1, its second price, its taking, and
   an offer over the spent o1 in the first version's form; a token advertised over
   o3, which carries another.  On the branch two offers over o2, one not covered,
   and its taking in one block.

   The tokens: T and U unrevealed; D mined by the contracts C1 and C2, deployed in
   a1, mined once, both contracts lost in a3; a name N with its
   zone Z on the branch, the zone moved on; E revealed a block after its output. *)
MCBlockTxs ==
    "g" :> <<Tx(<<[Out("o1", "alice", <<Ft("T")>>) EXCEPT !.value = 3],
                  Out("o2", "bob", <<Ft("U")>>)>>, {}),
              [Tx(<<Out("f0", "spam", <<Ft("F")>>)>>, {})
                  EXCEPT !.outEnvs = <<Reveal({"FT", "DMINT"}, "spam", "none")>>]>> @@
    "a1" :> <<[Tx(<<Out("o3", "alice", <<Ft("U")>>)>>, {}) EXCEPT !.ads = <<Ad("o1", 5, "alice", "T")>>],
              [Tx(<<Out("d0", "carol", <<Ft("D")>>), Miner("c1", "C1", "miner"), Miner("c2", "C2", "miner")>>, {})
                  EXCEPT !.inEnvs = <<[Reveal({"FT", "DMINT"}, "dig", "none") EXCEPT !.premine = 1]>>],
              Tx(<<Out("e1", "alice", <<Nft("E")>>),
                   [Out("f1", "spam", <<Nft("G"), Ft("F")>>)
                       EXCEPT !.contract = {[reward |-> 1, max |-> 1]}]>>, {"f0"})>> @@
    "a2" :> <<Ads(<<Ad("o1", 7, "alice", "T"), Ad("o3", 4, "bob", "T")>>),
              Tx(<<Miner("c3", "C1", "miner"), [Out("d1", "bob", <<Ft("D")>>) EXCEPT !.value = 2]>>, {"c1"}),
              [Tx(<<Out("e2", "bob", <<Nft("E")>>)>>, {"e1"})
                  EXCEPT !.inEnvs = <<Reveal({"NFT", "ENC"}, "art", "E")>>]>> @@
    "a3" :> <<[Tx(<<>>, {"o1"}) EXCEPT !.ads = <<[Ad("o1", 5, "none", "RXD") EXCEPT !.pair = "none"]>>],
              Tx(<<[Out("c4", "miner", <<Nft("C2")>>) EXCEPT !.dead = TRUE]>>, {"c2", "d1"}),
              Tx(<<Out("d2", "carol", <<Ft("D")>>)>>, {"c3", "d0"})>> @@
    "b2" :> <<Ads(<<Ad("o2", 6, "bob", "RXD"), Ad("o2", 6, "bob", "T")>>),
              Tx(<<Out("o4", "carol", <<Ft("U")>>)>>, {"o2"}),
              [Tx(<<Out("n1", "alice", <<Nft("N")>>), Out("z1", "alice", <<Nft("Z")>>)>>, {})
                  EXCEPT !.inEnvs = <<Reveal({"NFT", "WAVE"}, "one", "none")>>]>> @@
    "b3" :> <<Tx(<< >>, {"o1"}), Tx(<<Out("z2", "bob", <<Nft("Z")>>)>>, {"z1"})>> @@
    "d2" :> <<Tx(<< >>, {"o1"})>>

MCMintOf == "T" :> "t" @@ "U" :> "u" @@ "D" :> "d" @@ "C1" :> "d" @@ "C2" :> "d"
            @@ "E" :> "e" @@ "N" :> "n" @@ "Z" :> "n" @@ "F" :> "f" @@ "G" :> "g"
MCRefOrder == <<"D", "C1", "C2", "E", "N", "Z", "T", "U", "F", "G">>

MCBlocks ==
    {<<"g">>, <<"g", "a1">>, <<"g", "a1", "a2">>, <<"g", "a1", "a2", "a3">>,
     <<"g", "a1", "b2">>, <<"g", "a1", "b2", "b3">>}
(* An offer and its taking. *)
ClosingBlocks == {<<"g">>, <<"g", "a1">>, <<"g", "a1", "d2">>}
MCFirstTip == <<"g">>
MCReveals == {[ref |-> "E", height |-> 3]}
=============================================================================
