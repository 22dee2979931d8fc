-------------------------- MODULE MCServiceIndexes --------------------------
EXTENDS ServiceIndexes

Out(op, owner, value, refs) ==
    [op |-> op, owner |-> owner, value |-> value, refs |-> refs, dead |-> FALSE, contract |-> {},
     sale |-> {}, state |-> {}]
Nft(ref) == [ref |-> ref, kind |-> "nft"]
Tx(outs, spends) ==
    [outs |-> outs, spends |-> spends, inEnvs |-> << >>, outEnvs |-> << >>, ads |-> << >>,
     beacons |-> << >>]
Env(p, name, domain, target) ==
    [p |-> p, name |-> name, domain |-> domain, target |-> target, targetType |-> "address",
     display |-> "d", realm |-> {}]
Named(tx, name, domain, target) ==
    [tx EXCEPT !.inEnvs = <<Env({"NFT", "WAVE"}, name, domain, target)>>]
Mod(tx, target) == [tx EXCEPT !.inEnvs = <<Env({"MUT"}, << >>, << >>, target)>>]
Realm(tx, id, owner) ==
    [tx EXCEPT !.inEnvs = <<[Env({"NFT"}, << >>, << >>, "none") EXCEPT
        !.realm = {[id |-> id, kind |-> "forest", name |-> id, owner |-> owner]}]>>]
Sale(o, ref, seller, price) ==
    [o EXCEPT !.sale = {[ref |-> ref, seller |-> seller, price |-> price, royalties |-> {"artist"}]}]
Listing(tx, ref) == [tx EXCEPT !.beacons = <<[kind |-> "listing", version |-> 1, ref |-> ref]>>]
Anchor(o, refs) == [o EXCEPT !.state = {[form |-> "anchor", refs |-> refs]}]
Market(o, ref, refs, params) ==
    [o EXCEPT !.state = {[form |-> "market", singleton |-> ref, refs |-> refs, params |-> params,
                          status |-> "open"]}]
Question(tx, ref, params) ==
    [tx EXCEPT !.beacons = <<[kind |-> "market", ref |-> ref, yes |-> "Y", no |-> "Z",
                              params |-> params, question |-> "q"]>>]

x == <<"x">>
xy == <<"x", "y">>
p == <<"p">>

(* g, before the indexes: a name and a realm.  a1: x is registered with the singleton X,
   a realm minted, S put up for sale.  a2: X moves, its target is changed, x is registered
   again, S is sold, and a market opened.  a3: the target changes again, a name below x,
   an output spent in its own block.  On the branch the name below x comes first, x
   changes its target twice and its owner once, and a market is opened. *)
MCBlockTxs ==
    "g" :> <<Named(Tx(<<Out("p1", "alice", 1, <<Nft("P")>>)>>, {}), p, << >>, "A"),
             Realm(Tx(<<Out("r1", "bob", 2, <<Nft("R")>>)>>, {}), "glade", "bob"),
             Tx(<<Out("u1", "carol", 3, << >>), Out("u2", "carol", 1, << >>)>>, {})>> @@
    "a1" :> <<Named(Tx(<<Out("x1", "alice", 1, <<Nft("X")>>)>>, {}), x, << >>, "A"),
              Realm(Tx(<<Out("q1", "alice", 1, <<Nft("Q")>>)>>, {}), "moor", "alice"),
              Listing(Tx(<<Sale(Out("s1", "shop", 1, <<Nft("S")>>), "S", "bob", 2)>>, {"u1"}), "S")>> @@
    "a2" :> <<Tx(<<Out("x2", "bob", 1, <<Nft("X")>>)>>, {"x1"}),
              Mod(Tx(<<Out("x3", "bob", 1, <<Nft("X")>>)>>, {"x2"}), "B"),
              Named(Tx(<<Out("x9", "carol", 1, <<Nft("W")>>)>>, {}), x, << >>, "C"),
              Tx(<<Out("s2", "carol", 1, <<Nft("S")>>)>>, {"s1"}),
              Realm(Tx(<<Out("q2", "bob", 1, <<Nft("V")>>)>>, {}), "moor", "bob")>> @@
    "a3" :> <<Mod(Tx(<<Out("x4", "bob", 1, <<Nft("X")>>)>>, {"x3"}), "C"),
              Named(Tx(<<Out("y1", "bob", 1, <<Nft("Y1")>>)>>, {}), xy, x, "B"),
              Tx(<<Out("v1", "dave", 2, << >>)>>, {"u2"}), Tx(<<Out("v2", "erin", 2, << >>)>>, {"v1"})>> @@
    "b2" :> <<Named(Tx(<<Out("y1", "bob", 1, <<Nft("Y1")>>)>>, {}), xy, x, "B"),
              Mod(Tx(<<Out("x5", "alice", 1, <<Nft("X")>>)>>, {"x1"}), "none"),
              Mod(Tx(<<Out("x6", "alice", 1, <<Nft("X")>>)>>, {"x5"}), "C"),
              Question(Tx(<<Market(Out("m1", "m", 1, << >>), "u2", {"Y", "Z"}, 7),
                            Anchor(Out("m2", "m", 1, << >>), {"Y", "u2"}),
                            Anchor(Out("m3", "m", 1, << >>), {"Z", "u2"})>>, {"u2"}), "u2", 8)>> @@
    "b3" :> <<Mod(Tx(<<Out("x7", "erin", 1, <<Nft("X")>>)>>, {"x6"}), "B"),
              Tx(<<Out("u3", "carol", 4, << >>)>>, {"s1", "m1"})>>

MCMintOf == [r \in {"P", "R", "X", "Q", "S", "W", "V", "Y1"} |-> r]
MCRefOrder == <<"P", "R", "X", "Q", "S", "W", "V", "Y1">>
MCBlocks ==
    {<<"g">>, <<"g", "a1">>, <<"g", "a1", "a2">>, <<"g", "a1", "a2", "a3">>,
     <<"g", "a1", "b2">>, <<"g", "a1", "b2", "b3">>}
MCFirstTip == <<"g">>
MCWaveChars == <<"p", "x", "y", "-">>
MCGenesis == <<"genesis", 0>>
MCHotNames == {x}
MCBalanceBuckets == <<0, 2, 4>>
MCAgeBuckets == <<0, 1>>
=============================================================================
