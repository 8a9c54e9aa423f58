--------------------------- MODULE MCTokenLedger ---------------------------
(* Two accounts; a market there from the start and one that is created.      *)
EXTENDS AccountHistory
MCCategoryOf == "m1" :> "SPORTS" @@ "m2" :> "SPORTS"
MCUniverseOf == "m1" :> "genesis" @@ "m2" :> "child"
MCMoves == {<<Rep("genesis"), 1>>, <<Share("m1", 0), 0>>}
Symmetry == Permutations(Account)
MCNumTicks == "m1" :> 2 @@ "m2" :> 3
=============================================================================
