----------------------------- MODULE CoinsView -----------------------------
(***************************************************************************)
(* What the coins database and the caches above it promise: three plain    *)
(* maps from transactions to their unspent outputs.  A block is connected  *)
(* or disconnected on `work`; committing makes that the state of the node, *)
(* with the block it belongs to, in one step; saving makes the state of    *)
(* the node the one a restart finds, again in one step.                    *)
(***************************************************************************)
CONSTANTS
    Txid,       \* transactions
    Output,     \* positions of outputs
    Block       \* blocks

VARIABLES
    open,       \* a block is being connected or disconnected
    work,       \* work[t]: unspent outputs of t as that block has it so far
    utxo,       \* utxo[t]: unspent outputs of t at the tip
    best,       \* the block utxo belongs to
    disk,       \* disk[t]: unspent outputs of t on disk
    diskBest    \* the block disk belongs to

vars == <<open, work, utxo, best, disk, diskBest>>

Coins == [Txid -> SUBSET Output]

Init ==
    /\ open = FALSE
    /\ disk \in Coins /\ diskBest \in Block
    /\ utxo = disk /\ work = disk
    /\ best = diskBest

Open == /\ ~open /\ open' = TRUE
        /\ UNCHANGED <<work, utxo, best, disk, diskBest>>

Change == /\ open
          /\ \E t \in Txid, outs \in SUBSET Output : work' = [work EXCEPT ![t] = outs]
          /\ UNCHANGED <<open, utxo, best, disk, diskBest>>

Commit == /\ open /\ open' = FALSE
          /\ utxo' = work /\ best' \in Block
          /\ UNCHANGED <<work, disk, diskBest>>

Discard == /\ open /\ open' = FALSE
           /\ work' = utxo
           /\ UNCHANGED <<utxo, best, disk, diskBest>>

Save == /\ ~open
        /\ disk' = utxo /\ diskBest' = best
        /\ UNCHANGED <<open, work, utxo, best>>

Crash == /\ open' = FALSE
         /\ work' = disk /\ utxo' = disk /\ best' = diskBest
         /\ UNCHANGED <<disk, diskBest>>

Next == Open \/ Change \/ Commit \/ Discard \/ Save \/ Crash

Spec == Init /\ [][Next]_vars
============================================================================
