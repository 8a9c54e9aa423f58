----------------------------- MODULE ChainIndex -----------------------------
(***************************************************************************)
(* What augur-node promises of its database: the effects of a block's      *)
(* Augur logs are in it once or not at all, and the set of indexed blocks  *)
(* changes only at its top.  setup/check-and-initialize-augur-db.ts:29     *)
(* says it so: "We expect database writes to be processed from the         *)
(* blockchain, serially, in block order."  BlockSync implements this with  *)
(* a queue, transactions, restarts and a bulk download.                    *)
(***************************************************************************)
EXTENDS Integers

CONSTANTS Block,    \* the blocks, by hash
          Number    \* the number of each block

VARIABLE index      \* how many times each block's logs are in the database

Indexed == {b \in Block : index[b] = 1}

Init == index = [b \in Block |-> 0]

\* A block's logs are written: they were not there, and nothing above is.
Add(b) == /\ index[b] = 0
          /\ \A c \in Indexed : Number[c] < Number[b]
          /\ index' = [index EXCEPT ![b] = 1]

\* The topmost block's logs are undone.
Remove(b) == /\ index[b] = 1
             /\ \A c \in Indexed \ {b} : Number[c] < Number[b]
             /\ index' = [index EXCEPT ![b] = 0]

Next == \E b \in Block : Add(b) \/ Remove(b)

Spec == Init /\ [][Next]_index
=============================================================================
