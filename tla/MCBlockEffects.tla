--------------------------- MODULE MCBlockEffects ---------------------------
(* Two clients and two subscriptions; blocks of up to two logs.              *)
EXTENDS BlockEffects
MCBlockLogs == {<<SetTo(101)>>, <<SetTo(102), Created>>}
Symmetry == Permutations(Client) \cup Permutations(Subscription)
=============================================================================
