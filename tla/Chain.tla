-------------------------------- MODULE Chain --------------------------------
(***************************************************************************)
(* Chain activation and block storage: the block index, the candidates for *)
(* the best chain, the active chain, and what of it is on disk.            *)
(*                                                                         *)
(* Any thread may process a block or an operator's command and then calls  *)
(* ActivateBestChain, which takes cs_main for one ActivateBestChainStep at *)
(* a time and keeps its pindexMostWork while others have the lock.  A step *)
(* connects and disconnects single blocks, each of which may flush to      *)
(* disk; the process may end at any point.                                 *)
(*                                                                         *)
(* Blocks are never pruned from disk here, so that nTx > 0 and             *)
(* BLOCK_HAVE_DATA are one, and CoinsView is what the coins promise: only  *)
(* the block they belong to is kept.                                       *)
(***************************************************************************)
EXTENDS Integers, FiniteSets

CONSTANTS
    Block,              \* blocks, the genesis block among them
    Genesis,
    Path,               \* Path[b]: the blocks from Genesis to b, both included
    Work,               \* Work[b]: nChainWork
    Doubtful,           \* blocks that may fail their checks (they may also pass)
    Thread,             \* threads that process blocks and commands
    StartThread,        \* the one that activates the best chain at startup
    NoBlock,            \* the null pointer
    NoStep,             \* nobody has cs_main
    MaxCommands,        \* bound: invalidateblock, reconsiderblock and ignored blocks
    MaxWrites,          \* bound: flushes
    MaxCrashes          \* bound: crashes

\* Blocks make a tree.
ASSUME ChainAssumption ==
    /\ IsFiniteSet(Block)
    /\ Genesis \in Block /\ Path[Genesis] = {Genesis}
    /\ Path \in [Block -> SUBSET Block] /\ Work \in [Block -> Nat]
    /\ \A b \in Block : b \in Path[b] /\ Genesis \in Path[b]
    /\ \A b \in Block : \A a \in Path[b] \ {b} : Work[a] < Work[b]
    /\ \A b \in Block : \A a \in Path[b] : Path[a] \subseteq Path[b]
    /\ \A b \in Block \ {Genesis} : \E p \in Path[b] \ {b} : Path[p] = Path[b] \ {b}
    /\ \A b \in Block : \A a \in Path[b] \ {b} :
          \E c \in Path[b] \ Path[a] : Path[a] = Path[c] \ {c}
    /\ \A b \in Block : \A a, c \in Path[b] : a \in Path[c] \/ c \in Path[a]
    /\ NoBlock \notin Block /\ StartThread \in Thread /\ Genesis \notin Doubtful
    /\ {MaxCommands, MaxWrites, MaxCrashes} \subseteq Nat
    /\ NoStep \notin [op : {"activate", "invalidate"}, thread : Thread, block : Block, old : Block]

Parent == [b \in Block \ {Genesis} |-> CHOOSE p \in Path[b] : Path[p] = Path[b] \ {b}]

\* The largest number of blocks of equal work.
Width == CHOOSE n \in 1 .. Cardinality(Block) :
    /\ \A b \in Block : Cardinality({c \in Block : Work[c] = Work[b]}) <= n
    /\ \E b \in Block : Cardinality({c \in Block : Work[c] = Work[b]}) = n

VARIABLES
    index,          \* the block index, by field: sets of blocks
    rank,           \* nSequenceId, as an order of the linked blocks of equal work
    candidates,     \* setBlockIndexCandidates
    unlinked,       \* blocks b with (b's parent, b) in mapBlocksUnlinked
    tip,            \* chainActive.Tip()
    running,        \* threads inside ActivateBestChain
    most,           \* most[th]: pindexMostWork of th
    step,           \* what the holder of cs_main is doing
    aborted,        \* an assertion failed
    dirty,          \* setDirtyBlockIndex
    writing,        \* FlushStateToDisk has yet to write the coins
    disk,           \* the block index on disk
    diskBest,       \* the block of the coins on disk
    regular,        \* history: none of the irregular orders below has happened
    commands, writes, crashes   \* counters for the bounds

mem == <<index, rank, candidates, unlinked, tip, dirty>>
threads == <<running, most, step>>
store == <<writing, disk, diskBest>>
bounds == <<commands, writes, crashes>>
vars == <<mem, threads, store, aborted, regular, bounds>>

\* known: in mapBlockIndex.  data: BLOCK_HAVE_DATA.  linked: nChainTx # 0.
\* undo: BLOCK_HAVE_UNDO.  invalid, child: BLOCK_FAILED_VALID, _CHILD.
Field == {"known", "data", "linked", "undo", "invalid", "child"}

Failed == index.invalid \cup index.child
Linkable(known, data) == {b \in known : Path[b] \subseteq data}

\* CBlockIndexWorkComparator.
WorseBy(r, a, b) == Work[a] < Work[b] \/ (Work[a] = Work[b] /\ r[a] > r[b])
Worse(a, b) == WorseBy(rank, a, b)

Init ==
    /\ index = [f \in Field |-> IF f \in {"known", "data", "linked"} THEN {Genesis} ELSE {}]
    /\ rank = [b \in Block |-> 0]
    /\ candidates = {Genesis} /\ unlinked = {}
    /\ tip = Genesis /\ dirty = {}
    /\ running = {} /\ most = [th \in Thread |-> NoBlock] /\ step = NoStep
    /\ aborted = FALSE
    /\ writing = FALSE /\ disk = index /\ diskBest = Genesis
    /\ regular = TRUE
    /\ commands = 0 /\ writes = 0 /\ crashes = 0

\* th can take cs_main for something new.
Free(th) == ~aborted /\ step = NoStep /\ ~writing /\ th \notin running

\* th goes on to call ActivateBestChain.
Activate(th) == running' = running \cup {th} /\ UNCHANGED <<most, step>>
----------------------------------------------------------------------------
(* Blocks arrive.                                                          *)

\* AcceptBlockHeader lets b pass: it is known and not failed, or its parent is.
HeaderOk(b) ==
    IF b \in index.known THEN b \notin Failed
    ELSE Parent[b] \in index.known /\ Parent[b] \notin Failed

\* ProcessNewBlockHeaders, for one header.
AcceptHeader(th, b) ==
    /\ Free(th) /\ b \notin index.known /\ HeaderOk(b)
    /\ index' = [index EXCEPT !.known = @ \cup {b}]
    /\ dirty' = dirty \cup {b}
    /\ UNCHANGED <<rank, candidates, unlinked, tip, threads, store, aborted, regular, bounds>>

\* ReceivedBlockTransactions: the blocks that become linked with b.
NewlyLinked(b) ==
    IF b # Genesis /\ Parent[b] \notin index.linked THEN {}
    ELSE {x \in Block : b \in Path[x] /\ (Path[x] \ Path[b]) \subseteq unlinked} \cap
         (unlinked \cup {b})

\* Ids in the order of arrival, those of equal work counted by themselves.
Ranks(L) == {r \in [L -> 1 .. Width] :
    /\ \A x \in L : r[x] = 1 + Cardinality({y \in index.linked : Work[y] = Work[x]})
                            + Cardinality({y \in L : Work[y] = Work[x] /\ r[y] < r[x]})
    /\ \A x, y \in L : x # y /\ Work[x] = Work[y] => r[x] # r[y]}

\* Mutant: descendants that waited for b are forgotten.
ReceivedAlone(b) ==
    LET L == NewlyLinked(b) \cap {b} IN
    \E r \in Ranks(L) :
        /\ rank' = [x \in Block |-> IF x \in L THEN r[x] ELSE rank[x]]
        /\ index' = [index EXCEPT !.known = @ \cup {b}, !.data = @ \cup {b}, !.linked = @ \cup L]
        /\ candidates' = candidates \cup {x \in L : ~WorseBy(rank', x, tip)}
        /\ unlinked' = IF L # {} THEN unlinked \ L
                       ELSE IF Parent[b] \in Failed THEN unlinked ELSE unlinked \cup {b}
        /\ dirty' = dirty \cup {b}

ReceivedBlockTransactions(b) ==
    LET L == NewlyLinked(b) IN
    \E r \in Ranks(L) :
        /\ rank' = [x \in Block |-> IF x \in L THEN r[x] ELSE rank[x]]
        /\ index' = [index EXCEPT !.known = @ \cup {b}, !.data = @ \cup {b}, !.linked = @ \cup L]
        /\ candidates' = candidates \cup {x \in L : ~WorseBy(rank', x, tip)}
        /\ unlinked' = IF L # {} THEN unlinked \ L
                       ELSE IF Parent[b] \in Failed THEN unlinked ELSE unlinked \cup {b}
        /\ dirty' = dirty \cup {b}

\* ProcessNewBlock of a block without data that passes its checks.
AcceptBlock(th, b) ==
    /\ Free(th) /\ HeaderOk(b) /\ b \notin index.data
    /\ tip' = tip
    /\ ReceivedBlockTransactions(b)
    /\ Activate(th)
    /\ UNCHANGED <<store, aborted, regular, bounds>>

\* ... of one it has already, or was not asked for and has no more work than
\* the tip (or is too far ahead of it): only the header is kept.
IgnoreBlock(th, b) ==
    /\ Free(th) /\ HeaderOk(b) /\ commands < MaxCommands
    /\ b \in index.data \/ Work[b] <= Work[tip]
    /\ commands' = commands + 1
    /\ index' = [index EXCEPT !.known = @ \cup {b}]
    /\ dirty' = dirty \cup ({b} \ index.known)
    /\ Activate(th)
    /\ UNCHANGED <<rank, candidates, unlinked, tip, store, aborted, regular, writes, crashes>>

\* ... and of one that fails them in AcceptBlock.
RefuseBlock(th, b) ==
    /\ Free(th) /\ HeaderOk(b) /\ b \in Doubtful \ index.data
    /\ index' = [index EXCEPT !.known = @ \cup {b}, !.invalid = @ \cup {b}]
    /\ dirty' = dirty \cup {b}
    /\ UNCHANGED <<rank, candidates, unlinked, tip, threads, store, aborted, regular, bounds>>
----------------------------------------------------------------------------
(* The best chain is activated.                                            *)

Between(c) == Path[c] \ Path[tip]
Usable(c) == Between(c) \cap Failed = {}

\* FindMostWorkChain: m is the best candidate that has no failed block on its
\* path from the active chain.  The better ones are discarded.
IsMostWork(m) ==
    LET usable == {c \in candidates : Usable(c)} IN
    IF usable = {} THEN m = NoBlock ELSE m \in usable /\ \A d \in usable \ {m} : Worse(d, m)
Discarded(m) == {c \in candidates : m = NoBlock \/ (c # m /\ Worse(m, c))}
AboveFailed(c) == {x \in Between(c) \ Failed : Between(c) \cap Failed \subseteq Path[x]}
TopFailed(c) == {x \in Between(c) \cap Failed : Between(c) \cap Failed \subseteq Path[x]}

FindMostWorkChain(m) ==
    /\ index' = [index EXCEPT !.child = @ \cup UNION {AboveFailed(c) : c \in Discarded(m)}]
    /\ candidates' = candidates \ UNION {AboveFailed(c) \cup TopFailed(c) : c \in Discarded(m)}

\* The top of the loop of ActivateBestChain: th takes cs_main and returns, or
\* begins an ActivateBestChainStep.
StartStep(th) ==
    /\ ~aborted /\ step = NoStep /\ ~writing /\ th \in running
    /\ \E m \in candidates \cup {NoBlock} :
       LET target == IF most[th] = NoBlock THEN m ELSE most[th] IN
       /\ IsMostWork(m)
       /\ IF most[th] = NoBlock THEN FindMostWorkChain(m) ELSE UNCHANGED <<index, candidates>>
       /\ regular' = (regular /\ most[th] \in {NoBlock, m})
       /\ IF target \in {NoBlock, tip}
          THEN /\ running' = running \ {th} /\ most' = [most EXCEPT ![th] = NoBlock]
               /\ step' = step
          ELSE /\ running' = running /\ most' = [most EXCEPT ![th] = target]
               /\ step' = [op |-> "activate", thread |-> th, block |-> target, old |-> tip]
    /\ UNCHANGED <<rank, unlinked, tip, dirty, store, aborted, bounds>>

Stepping(op) == ~aborted /\ ~writing /\ step # NoStep /\ step.op = op

NextOnPath == CHOOSE b \in Path[step.block] : b # Genesis /\ Parent[b] = tip

\* The lock is released; the loop ends when the target is reached.
EndStep(invalid) ==
    /\ step' = NoStep
    /\ most' = [most EXCEPT ![step.thread] = IF invalid \/ tip' = @ THEN NoBlock ELSE @]
    /\ running' = IF ~invalid /\ tip' = most[step.thread] THEN running \ {step.thread} ELSE running

\* Mutant: blocks as good as the tip are dropped with it.
PruneEquals(set) ==
    /\ candidates' = {c \in set : Worse(tip', c)}
    /\ aborted' = (candidates' = {})

\* PruneBlockIndexCandidates, and its assertion.
PruneBlockIndexCandidates(set) ==
    /\ candidates' = {c \in set : ~Worse(c, tip')}
    /\ aborted' = (candidates' = {})

\* ActivateBestChainStep, first loop: DisconnectTip.  A target below the tip
\* ends the step.
DisconnectTip ==
    /\ Stepping("activate") /\ tip \notin Path[step.block]
    /\ tip' = Parent[tip]
    /\ IF tip' = step.block THEN EndStep(FALSE) ELSE UNCHANGED threads
    /\ UNCHANGED <<index, rank, candidates, unlinked, dirty, store, aborted, regular, bounds>>

\* Second loop: ConnectTip and PruneBlockIndexCandidates.  The step ends when
\* the chain has become better than it was, or the target is reached.
ConnectTip ==
    /\ Stepping("activate") /\ tip \in Path[step.block]
    /\ tip' = NextOnPath
    /\ index' = [index EXCEPT !.undo = @ \cup {NextOnPath}]
    /\ dirty' = dirty \cup {NextOnPath}
    /\ PruneBlockIndexCandidates(candidates)
    /\ IF Work[tip'] > Work[step.old] \/ tip' = step.block THEN EndStep(FALSE) ELSE UNCHANGED threads
    /\ UNCHANGED <<rank, unlinked, store, regular, bounds>>

\* Mutant: the block is not marked.
ConnectFailsUnmarked ==
    /\ Stepping("activate") /\ tip \in Path[step.block]
    /\ NextOnPath \in Doubtful
    /\ tip' = tip
    /\ EndStep(TRUE)
    /\ UNCHANGED <<index, dirty, candidates, rank, unlinked, store, aborted, regular, bounds>>

\* ConnectBlock refuses the block: InvalidBlockFound, and the step ends.  It
\* is irregular if the block was connected before.
ConnectFails ==
    /\ Stepping("activate") /\ tip \in Path[step.block]
    /\ NextOnPath \in Doubtful
    /\ index' = [index EXCEPT !.invalid = @ \cup {NextOnPath}]
    /\ dirty' = dirty \cup {NextOnPath}
    /\ candidates' = candidates \ {NextOnPath}
    /\ tip' = tip
    /\ EndStep(TRUE)
    /\ regular' = (regular /\ NextOnPath \notin index.undo)
    /\ UNCHANGED <<rank, unlinked, store, aborted, bounds>>
----------------------------------------------------------------------------
(* Commands of the operator.                                               *)

\* invalidateblock: InvalidateBlock marks the block ...
InvalidateBlock(th, b) ==
    /\ Free(th) /\ commands < MaxCommands /\ b \in index.known \ {Genesis}
    /\ commands' = commands + 1
    /\ index' = [index EXCEPT !.invalid = @ \cup {b}]
    /\ dirty' = dirty \cup {b}
    /\ candidates' = candidates \ {b}
    /\ step' = [op |-> "invalidate", thread |-> th, block |-> b, old |-> tip]
    /\ UNCHANGED <<rank, unlinked, tip, running, most, store, aborted, regular, writes, crashes>>

\* ... disconnects what is built on it, block by block ...
InvalidateTip ==
    /\ Stepping("invalidate") /\ step.block \in Path[tip]
    /\ index' = [index EXCEPT !.child = @ \cup {tip}]
    /\ dirty' = dirty \cup {tip}
    /\ candidates' = candidates \ {tip}
    /\ tip' = Parent[tip]
    /\ UNCHANGED <<rank, unlinked, threads, store, aborted, regular, bounds>>

\* Mutant: the new tip and its equals are not added.
InvalidateDoneBare ==
    /\ Stepping("invalidate") /\ step.block \notin Path[tip]
    /\ candidates' = candidates
    /\ running' = running \cup {step.thread} /\ step' = NoStep
    /\ UNCHANGED <<index, rank, unlinked, tip, dirty, most, store, aborted, regular, bounds>>

\* ... adds what is now as good as the tip, and the command goes on to
\* ActivateBestChain.
InvalidateDone ==
    /\ Stepping("invalidate") /\ step.block \notin Path[tip]
    /\ candidates' = candidates \cup {c \in index.linked \ Failed : ~Worse(c, tip)}
    /\ running' = running \cup {step.thread} /\ step' = NoStep
    /\ UNCHANGED <<index, rank, unlinked, tip, dirty, most, store, aborted, regular, bounds>>

\* reconsiderblock: ResetBlockFailureFlags, then ActivateBestChain.  It is
\* regular if no ancestor of b is failed and no block came while b was failed
\* that waits nowhere for its parent.
ResetBlockFailureFlags(th, b) ==
    LET above == {x \in Failed : b \in Path[x]} IN
    /\ Free(th) /\ commands < MaxCommands /\ b \in index.known
    /\ commands' = commands + 1
    /\ index' = [index EXCEPT !.invalid = @ \ (above \cup Path[b]), !.child = @ \ (above \cup Path[b])]
    /\ dirty' = dirty \cup above \cup (Failed \cap Path[b])
    /\ candidates' = candidates \cup {x \in above \cap index.linked : Worse(tip, x)}
    /\ regular' = (regular /\ Failed \cap (Path[b] \ {b}) = {} /\
                    {x \in index.data : b \in Path[x]} \subseteq index.linked \cup unlinked)
    /\ Activate(th)
    /\ UNCHANGED <<rank, unlinked, tip, store, aborted, writes, crashes>>
----------------------------------------------------------------------------
(* The disk.                                                               *)

\* Mutant: what is on disk already is not written again.
WrittenNew == [f \in Field |->
    IF f = "linked" THEN {} ELSE disk[f] \cup (index[f] \cap (dirty \ disk.known))]

\* Entries of the dirty blocks are written; nChainTx is not stored.
Written == [f \in Field |->
    IF f = "linked" THEN {} ELSE (disk[f] \ dirty) \cup (index[f] \cap dirty)]

\* FlushStateToDisk: block and undo files, then the index in one synchronous
\* batch; a full flush goes on to the coins.  (Bound: no flush after the last
\* crash.)
WriteIndex(full) ==
    /\ ~aborted /\ ~writing /\ writes < MaxWrites /\ crashes < MaxCrashes
    /\ dirty # {} \/ (full /\ tip # diskBest)
    /\ writes' = writes + 1
    /\ disk' = Written /\ dirty' = {}
    /\ writing' = full
    /\ UNCHANGED <<index, rank, candidates, unlinked, tip, threads, diskBest, aborted, regular,
                   commands, crashes>>

\* pcoinsTip->Flush.
WriteCoins ==
    /\ writing
    /\ writing' = FALSE
    /\ diskBest' = tip
    /\ UNCHANGED <<mem, threads, disk, aborted, regular, bounds>>

\* The process ends.  LoadBlockIndexDB rebuilds the index; blocks loaded are
\* ordered by address, here in any order, before all that arrive later.  The
\* start is irregular if the active chain on disk has failed blocks.
Restart ==
    /\ ~aborted /\ crashes < MaxCrashes
    /\ crashes' = crashes + 1
    /\ LET L == Linkable(disk.known, disk.data)
           failed == disk.invalid \cup disk.child IN
       /\ index' = [disk EXCEPT !.linked = L]
       /\ unlinked' = disk.data \ L
       /\ tip' = diskBest
       /\ \E r \in [L -> 1 - Width .. 0] :
             /\ \A x \in L : r[x] = - Cardinality({y \in L : Work[y] = Work[x] /\ r[y] > r[x]})
             /\ \A x, y \in L : x # y /\ Work[x] = Work[y] => r[x] # r[y]
             /\ rank' = [x \in Block |-> IF x \in L THEN r[x] ELSE 0]
             /\ candidates' = {c \in L \ failed : ~WorseBy(rank', c, diskBest)}
             /\ aborted' = (candidates' = {})
       /\ regular' = (regular /\ Path[diskBest] \cap failed = {})
    /\ dirty' = {} /\ writing' = FALSE
    /\ running' = {StartThread} /\ most' = [th \in Thread |-> NoBlock] /\ step' = NoStep
    /\ UNCHANGED <<disk, diskBest, commands, writes>>
----------------------------------------------------------------------------
Process(th, b) ==
    \/ AcceptHeader(th, b) \/ AcceptBlock(th, b) \/ IgnoreBlock(th, b) \/ RefuseBlock(th, b)
    \/ InvalidateBlock(th, b) \/ ResetBlockFailureFlags(th, b)

Progress ==
    \/ DisconnectTip \/ ConnectTip \/ ConnectFails
    \/ InvalidateTip \/ InvalidateDone
    \/ WriteCoins

Next ==
    \/ \E th \in Thread : StartStep(th) \/ \E b \in Block : Process(th, b)
    \/ Progress
    \/ \E full \in BOOLEAN : WriteIndex(full)
    \/ Restart

Spec == Init /\ [][Next]_vars

\* As long as some thread has work, some thread goes on with its work.
Fairness == WF_vars(Progress \/ \E th \in Thread : StartStep(th))
FairSpec == Spec /\ Fairness
----------------------------------------------------------------------------
Tree == SUBSET Block

\* Every variable has the type of what it stands for.
TypeOK ==
    /\ index \in [Field -> Tree] /\ disk \in [Field -> Tree]
    /\ rank \in [Block -> Int]
    /\ candidates \in Tree /\ unlinked \in Tree /\ dirty \in Tree
    /\ tip \in Block /\ diskBest \in Block
    /\ running \subseteq Thread /\ most \in [Thread -> Block \cup {NoBlock}]
    /\ step # NoStep => step \in [op : {"activate", "invalidate"}, thread : Thread,
                                 block : Block, old : Block]
    /\ aborted \in BOOLEAN /\ writing \in BOOLEAN /\ regular \in BOOLEAN
    /\ commands \in Nat /\ writes \in Nat /\ crashes \in Nat

\* Whenever the process ends, between any two writes of a flush and inside
\* any reorganisation, the coins on disk belong to a block whose whole chain
\* is in the index on disk, with its data and the data to undo it.
DiskContinues ==
    /\ Path[diskBest] \subseteq disk.data
    /\ Path[diskBest] \ {Genesis} \subseteq disk.undo
    /\ \A b \in disk.known : Path[b] \subseteq disk.known

Quiet == running = {} /\ step = NoStep /\ ~aborted

\* The assertions of CheckBlockIndex: blocks are linked when the data of all
\* their chain is there, wait in mapBlocksUnlinked when it is not, and are
\* candidates when they are as good as the tip and not known to fail; only
\* descendants of an invalid block are marked failed.
CheckBlockIndex ==
    Quiet /\ regular =>
        /\ index.linked \subseteq Linkable(index.known, index.data)
        /\ \A b \in Linkable(index.known, index.data) :
              Path[b] \cap index.invalid = {} => b \in index.linked
        /\ \A b \in Failed : Path[b] \cap index.invalid # {}
        /\ \A b \in index.linked :
              /\ ~Worse(b, tip) /\ Path[b] \cap index.invalid = {} => b \in candidates
              /\ Worse(b, tip) => b \notin candidates
        /\ candidates \subseteq index.linked
        /\ unlinked \subseteq index.data \ index.linked
        /\ \A b \in index.data \ index.linked : Path[b] \cap index.invalid = {} => b \in unlinked

\* "The result is either failure or an activated best chain": when no thread
\* is at work, the active chain has no failed block and no linked chain
\* without one is better.
BestChainActive ==
    Quiet /\ regular =>
        /\ Path[tip] \cap Failed = {}
        /\ \A b \in index.linked : Path[b] \cap index.invalid = {} => ~Worse(tip, b)

\* The same, for whatever orders the threads take cs_main in.
BestChainResult == Quiet => \A b \in index.linked : Path[b] \cap index.invalid = {} => ~Worse(tip, b)

\* "Either the current tip or a successor of it we're working towards is left
\* in setBlockIndexCandidates": the assertion holds, at a restart too.
NeverAborts == regular => ~aborted

\* Calls of ActivateBestChain return, and do not keep each other busy.
ActivationEnds == running # {} ~> (running = {} \/ aborted)
=============================================================================
