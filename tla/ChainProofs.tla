----------------------------- MODULE ChainProofs -----------------------------
(***************************************************************************)
(* Proofs about Chain, for any tree of blocks, set of threads and bounds.  *)
(***************************************************************************)
EXTENDS Chain, TLAPS

----------------------------------------------------------------------------
(* The tree of blocks.                                                     *)

LEMMA TreeFacts ==
    /\ Genesis \in Block /\ Path[Genesis] = {Genesis}
    /\ \A b \in Block : /\ Path[b] \subseteq Block /\ Work[b] \in Nat
                        /\ b \in Path[b] /\ Genesis \in Path[b]
    /\ \A b \in Block : \A a \in Path[b] : Path[a] \subseteq Path[b]
BY ChainAssumption, Zenon

\* A block is known by its path.
LEMMA SamePath ==
    ASSUME NEW a \in Block, NEW b \in Block, Path[a] = Path[b]
    PROVE  a = b
<1> SUFFICES ASSUME a # b PROVE FALSE
  BY Zenon
<1>1. a \in Path[b] \ {b} /\ b \in Path[a] \ {a}
  BY TreeFacts, Zenon
<1>2. Work[a] < Work[b] /\ Work[b] < Work[a]
  BY <1>1, ChainAssumption, Zenon
<1>3. Work[a] \in Nat /\ Work[b] \in Nat
  BY TreeFacts, Zenon
<1> QED BY <1>2, <1>3

LEMMA ParentFacts ==
    ASSUME NEW b \in Block \ {Genesis}
    PROVE  Parent[b] \in Path[b] /\ Path[Parent[b]] = Path[b] \ {b}
<1>1. \E p \in Path[b] : Path[p] = Path[b] \ {b}
  BY ChainAssumption, Zenon
<1>2. Parent[b] = CHOOSE p \in Path[b] : Path[p] = Path[b] \ {b}
  BY Zenon DEF Parent
<1> QED BY <1>1, <1>2, Zenon

\* A block below another has a successor on the way to it.
LEMMA Successor ==
    ASSUME NEW a \in Block, NEW t \in Block, a \in Path[t], a # t
    PROVE  \E b \in Path[t] : b # Genesis /\ Parent[b] = a
<1>1. PICK c \in Path[t] \ Path[a] : Path[a] = Path[c] \ {c}
  BY ChainAssumption
<1>2. c \in Block /\ c # Genesis
  BY <1>1, TreeFacts, Zenon
<1>3. Parent[c] \in Block /\ Path[Parent[c]] = Path[a]
  BY <1>1, <1>2, ParentFacts, TreeFacts, Zenon
<1>4. Parent[c] = a
  BY <1>3, SamePath, Zenon
<1> QED BY <1>1, <1>2, <1>4, Zenon

LEMMA NextFacts ==
    ASSUME tip \in Block, step.block \in Block, tip \in Path[step.block], tip # step.block
    PROVE  /\ NextOnPath \in Block \ {Genesis}
           /\ NextOnPath \in Path[step.block]
           /\ Path[NextOnPath] = Path[tip] \cup {NextOnPath}
<1>1. NextOnPath \in Path[step.block] /\ NextOnPath # Genesis /\ Parent[NextOnPath] = tip
  BY Successor, Zenon DEF NextOnPath
<1>2. NextOnPath \in Block
  BY <1>1, TreeFacts, Zenon
<1>3. Path[tip] = Path[NextOnPath] \ {NextOnPath} /\ NextOnPath \in Path[NextOnPath]
  BY <1>1, <1>2, ParentFacts, TreeFacts, Zenon
<1> QED BY <1>1, <1>2, <1>3, Zenon

LEMMA Fields ==
    ASSUME NEW i \in [Field -> Tree]
    PROVE  /\ i.known \subseteq Block /\ i.data \subseteq Block /\ i.linked \subseteq Block
           /\ i.undo \subseteq Block /\ i.invalid \subseteq Block /\ i.child \subseteq Block
BY Zenon DEF Field, Tree

----------------------------------------------------------------------------
(* The inductive invariant.                                                *)

\* What is not on disk is dirty, unless only the coins are left to write.
Saved ==
    /\ disk.known \subseteq index.known /\ index.known \ disk.known \subseteq dirty
    /\ disk.data \subseteq index.data /\ index.data \ disk.data \subseteq dirty
    /\ disk.undo \subseteq index.undo /\ index.undo \ disk.undo \subseteq dirty
    /\ writing => dirty = {}

\* Known blocks have known ancestors, linked ones the data of all of them.
Shape ==
    /\ index.data \subseteq index.known
    /\ \A b \in index.known : Path[b] \subseteq index.known
    /\ \A b \in index.linked : Path[b] \subseteq index.data
    /\ unlinked \subseteq index.data
    /\ candidates \subseteq index.linked

\* The active chain can be connected and disconnected.
Active ==
    /\ Path[tip] \subseteq index.data
    /\ Path[tip] \ {Genesis} \subseteq index.undo

\* What threads work towards is linked, and not yet reached.
Targets ==
    /\ \A th \in Thread : most[th] # NoBlock => most[th] \in index.linked
    /\ step # NoStep /\ step.op = "activate" => step.block \in index.linked /\ step.block # tip
    /\ step # NoStep /\ step.op = "invalidate" => step.block # Genesis

OnDisk == DiskContinues /\ disk.data \subseteq disk.known

Inv == TypeOK /\ Saved /\ Shape /\ Active /\ Targets /\ OnDisk

\* A step that adds entries to the index marks them dirty; it leaves the disk,
\* the tip and the targets alone.
LEMMA Adds ==
    ASSUME Inv, ~writing, UNCHANGED <<tip, store>>, TypeOK',
           index.known \subseteq index'.known, index'.known \ index.known \subseteq dirty',
           index.data \subseteq index'.data, index'.data \ index.data \subseteq dirty',
           index'.undo = index.undo, index.linked \subseteq index'.linked,
           dirty \subseteq dirty'
    PROVE  Saved' /\ Active' /\ OnDisk'
<1>1. disk' = disk /\ diskBest' = diskBest /\ writing' = writing /\ tip' = tip
  BY Zenon DEF store
<1>2. Saved'
  BY <1>1, Zenon DEF Inv, Saved
<1>3. Active'
  BY <1>1, Zenon DEF Inv, Active
<1>4. OnDisk'
  BY <1>1, Zenon DEF Inv, OnDisk, DiskContinues
<1> QED BY <1>2, <1>3, <1>4, Zenon

LEMMA HeaderStep ==
    ASSUME Inv, NEW th \in Thread, NEW b \in Block, AcceptHeader(th, b)
    PROVE  Inv'
<1>0. /\ ~writing /\ b \notin index.known /\ HeaderOk(b)
      /\ index' = [index EXCEPT !.known = @ \cup {b}] /\ dirty' = dirty \cup {b}
      /\ UNCHANGED <<rank, candidates, unlinked, tip, threads, store, aborted, regular, bounds>>
  BY Zenon DEF AcceptHeader, Free
<1>1. index \in [Field -> Tree] /\ index.known \subseteq Block
  BY Fields, Zenon DEF Inv, TypeOK
<1>2. /\ index' \in [Field -> Tree] /\ index'.known = index.known \cup {b}
      /\ index'.data = index.data /\ index'.linked = index.linked /\ index'.undo = index.undo
  BY <1>0, <1>1, Zenon DEF Field, Tree
<1>3. TypeOK'
  BY <1>0, <1>2, Zenon DEF Inv, TypeOK, threads, store, bounds, Tree
<1>4. b # Genesis
  BY <1>0, TreeFacts, Zenon DEF Inv, Shape, Active, TypeOK
<1>5. Parent[b] \in index.known
  BY <1>0, Zenon DEF HeaderOk
<1>6. Path[b] = Path[Parent[b]] \cup {b}
  BY <1>4, ParentFacts, TreeFacts
<1>7. Shape'
  BY <1>0, <1>2, <1>5, <1>6, Zenon DEF Inv, Shape
<1>8. Targets'
  BY <1>0, <1>2, Zenon DEF Inv, Targets, threads
<1> QED BY <1>0, <1>2, <1>3, <1>7, <1>8, Adds, Zenon DEF Inv

LEMMA ReceivedStep ==
    ASSUME Inv, NEW th \in Thread, NEW b \in Block, AcceptBlock(th, b)
    PROVE  Inv'
<1> DEFINE L == NewlyLinked(b)
<1>0. /\ ~writing /\ b \notin index.data /\ HeaderOk(b) /\ dirty' = dirty \cup {b}
      /\ index' = [index EXCEPT !.known = @ \cup {b}, !.data = @ \cup {b}, !.linked = @ \cup L]
      /\ candidates' \subseteq candidates \cup L
      /\ unlinked' \subseteq unlinked \cup {b}
      /\ UNCHANGED <<tip, most, step, store, aborted, regular, bounds>>
      /\ running' = running \cup {th}
  BY Zenon DEF AcceptBlock, Free, ReceivedBlockTransactions, Activate
<1>1. rank' \in [Block -> Int]
  <2>1. PICK r \in Ranks(L) : rank' = [x \in Block |-> IF x \in L THEN r[x] ELSE rank[x]]
    BY Zenon DEF AcceptBlock, ReceivedBlockTransactions
  <2>2. r \in [L -> 1 .. Width]
    BY Zenon DEF Ranks
  <2>3. \A x \in L : r[x] \in Int
    BY <2>2
  <2> HIDE DEF L
  <2> QED BY <2>1, <2>3, Zenon DEF Inv, TypeOK
<1>2. /\ index \in [Field -> Tree] /\ index.known \subseteq Block
      /\ index.data \subseteq Block /\ index.linked \subseteq Block
  BY Fields, Zenon DEF Inv, TypeOK
<1>3. b # Genesis
  BY <1>0, TreeFacts, Zenon DEF Inv, Active, TypeOK
<1>4. Path[b] = Path[Parent[b]] \cup {b} /\ Path[b] \subseteq Block
  BY <1>3, ParentFacts, TreeFacts
<1>5. L \subseteq Block /\ \A x \in L : Path[x] \subseteq index.data \cup {b}
  <2> SUFFICES ASSUME NEW x \in L PROVE x \in Block /\ Path[x] \subseteq index.data \cup {b}
    BY Zenon
  <2>1. Parent[b] \in index.linked /\ x \in Block /\ Path[x] \ Path[b] \subseteq unlinked
    BY <1>3, Zenon DEF NewlyLinked
  <2>2. Path[Parent[b]] \subseteq index.data /\ unlinked \subseteq index.data
    BY <2>1, Zenon DEF Inv, Shape
  <2> QED BY <1>4, <2>1, <2>2, Zenon
<1> HIDE DEF L
<1>6. /\ index' \in [Field -> Tree] /\ index'.known = index.known \cup {b}
      /\ index'.data = index.data \cup {b} /\ index'.linked = index.linked \cup L
      /\ index'.undo = index.undo
  BY <1>0, <1>2, <1>5, Zenon DEF Field, Tree
<1>7. TypeOK'
  BY <1>0, <1>1, <1>5, <1>6, Zenon DEF Inv, TypeOK, store, bounds, Tree
<1>8. Shape'
  <2>1. \A x \in index'.known : Path[x] \subseteq index'.known
    <3>1. b \in index.known \/ Parent[b] \in index.known
      BY <1>0, Zenon DEF HeaderOk
    <3> QED BY <1>4, <1>6, <3>1, Zenon DEF Inv, Shape
  <2>2. \A x \in index'.linked : Path[x] \subseteq index'.data
    BY <1>5, <1>6, Zenon DEF Inv, Shape
  <2> QED BY <1>0, <1>6, <2>1, <2>2, Zenon DEF Inv, Shape
<1>9. Targets'
  BY <1>0, <1>6, Zenon DEF Inv, Targets
<1> QED BY <1>0, <1>6, <1>7, <1>8, <1>9, Adds, Zenon DEF Inv

LEMMA IgnoreStep ==
    ASSUME Inv, NEW th \in Thread, NEW b \in Block, IgnoreBlock(th, b)
    PROVE  Inv'
<1>0. /\ ~writing /\ HeaderOk(b)
      /\ index' = [index EXCEPT !.known = @ \cup {b}] /\ dirty' = dirty \cup ({b} \ index.known)
      /\ commands' = commands + 1 /\ running' = running \cup {th}
      /\ UNCHANGED <<rank, candidates, unlinked, tip, most, step, store, aborted, regular, writes, crashes>>
  BY Zenon DEF IgnoreBlock, Free, Activate
<1>1. index \in [Field -> Tree] /\ index.known \subseteq Block
  BY Fields, Zenon DEF Inv, TypeOK
<1>2. /\ index' \in [Field -> Tree] /\ index'.known = index.known \cup {b}
      /\ index'.data = index.data /\ index'.linked = index.linked /\ index'.undo = index.undo
  BY <1>0, <1>1, Zenon DEF Field, Tree
<1>3. TypeOK'
  BY <1>0, <1>2 DEF Inv, TypeOK, store, Tree
<1>4. b \notin index.known => b # Genesis /\ Parent[b] \in index.known
  BY <1>0, TreeFacts, Zenon DEF Inv, Shape, Active, TypeOK, HeaderOk
<1>5. b # Genesis => Path[b] = Path[Parent[b]] \cup {b}
  BY ParentFacts, TreeFacts
<1>6. Shape'
  BY <1>0, <1>2, <1>4, <1>5, Zenon DEF Inv, Shape
<1>7. Targets'
  BY <1>0, <1>2, Zenon DEF Inv, Targets
<1> QED BY <1>0, <1>2, <1>3, <1>6, <1>7, Adds, Zenon DEF Inv

LEMMA RefuseStep ==
    ASSUME Inv, NEW th \in Thread, NEW b \in Block, RefuseBlock(th, b)
    PROVE  Inv'
<1>0. /\ ~writing /\ HeaderOk(b) /\ b \in Doubtful
      /\ index' = [index EXCEPT !.known = @ \cup {b}, !.invalid = @ \cup {b}]
      /\ dirty' = dirty \cup {b}
      /\ UNCHANGED <<rank, candidates, unlinked, tip, threads, store, aborted, regular, bounds>>
  BY Zenon DEF RefuseBlock, Free
<1>1. index \in [Field -> Tree] /\ index.known \subseteq Block /\ index.invalid \subseteq Block
  BY Fields, Zenon DEF Inv, TypeOK
<1>2. /\ index' \in [Field -> Tree] /\ index'.known = index.known \cup {b}
      /\ index'.data = index.data /\ index'.linked = index.linked /\ index'.undo = index.undo
  BY <1>0, <1>1, Zenon DEF Field, Tree
<1>3. TypeOK'
  BY <1>0, <1>2, Zenon DEF Inv, TypeOK, threads, store, bounds, Tree
<1>4. b # Genesis
  BY <1>0, ChainAssumption, Zenon
<1>5. b \in index.known \/ Parent[b] \in index.known
  BY <1>0, Zenon DEF HeaderOk
<1>6. Path[b] = Path[Parent[b]] \cup {b}
  BY <1>4, ParentFacts, TreeFacts
<1>7. Shape'
  BY <1>0, <1>2, <1>5, <1>6, Zenon DEF Inv, Shape
<1>8. Targets'
  BY <1>0, <1>2, Zenon DEF Inv, Targets, threads
<1> QED BY <1>0, <1>2, <1>3, <1>7, <1>8, Adds, Zenon DEF Inv

\* A step that marks blocks as failed, or unmarks them, and may go back to an
\* ancestor of the tip.
LEMMA Marks ==
    ASSUME Inv, ~writing, UNCHANGED <<unlinked, store>>,
           tip' \in Path[tip], index' \in [Field -> Tree],
           index'.known = index.known, index'.data = index.data,
           index'.linked = index.linked, index'.undo = index.undo,
           candidates' \subseteq index.linked,
           dirty \subseteq dirty'
    PROVE  Saved' /\ Shape' /\ Active' /\ OnDisk'
<1>1. disk' = disk /\ diskBest' = diskBest /\ writing' = writing /\ unlinked' = unlinked
  BY Zenon DEF store
<1>2. Saved'
  BY <1>1, Zenon DEF Inv, Saved
<1>3. Shape'
  BY <1>1, Zenon DEF Inv, Shape
<1>4. Path[tip'] \subseteq Path[tip]
  BY TreeFacts, Zenon DEF Inv, TypeOK
<1>5. Active'
  BY <1>4, Zenon DEF Inv, Active
<1>6. OnDisk'
  BY <1>1, Zenon DEF Inv, OnDisk, DiskContinues
<1> QED BY <1>2, <1>3, <1>5, <1>6, Zenon

LEMMA EndFacts ==
    ASSUME TypeOK, step # NoStep, NEW invalid \in BOOLEAN, EndStep(invalid)
    PROVE  /\ step' = NoStep
           /\ running' \subseteq Thread
           /\ most' \in [Thread -> Block \cup {NoBlock}]
           /\ \A th \in Thread : most'[th] \in {most[th], NoBlock}
<1>1. step.thread \in Thread /\ most \in [Thread -> Block \cup {NoBlock}] /\ running \subseteq Thread
  BY Zenon DEF TypeOK
<1>2. \E x \in {most[step.thread], NoBlock} : most' = [most EXCEPT ![step.thread] = x]
  BY <1>1, Zenon DEF EndStep
<1>3. most' \in [Thread -> Block \cup {NoBlock}] /\ \A th \in Thread : most'[th] \in {most[th], NoBlock}
  BY <1>1, <1>2, Zenon
<1> QED BY <1>1, <1>3, Zenon DEF EndStep

LEMMA StepFacts ==
    ASSUME TypeOK, step # NoStep
    PROVE  step.thread \in Thread /\ step.block \in Block /\ step.old \in Block
BY Zenon DEF TypeOK

LEMMA StartFacts ==
    ASSUME Inv, NEW th \in Thread, StartStep(th)
    PROVE  Inv'
<1>0. /\ ~writing /\ step = NoStep
      /\ UNCHANGED <<rank, unlinked, tip, dirty, store, aborted, bounds>>
  BY Zenon DEF StartStep
<1>1. PICK m \in candidates \cup {NoBlock} :
        LET target == IF most[th] = NoBlock THEN m ELSE most[th] IN
        /\ IF most[th] = NoBlock THEN FindMostWorkChain(m) ELSE UNCHANGED <<index, candidates>>
        /\ regular' = (regular /\ most[th] \in {NoBlock, m})
        /\ IF target \in {NoBlock, tip}
           THEN /\ running' = running \ {th} /\ most' = [most EXCEPT ![th] = NoBlock]
                /\ step' = step
           ELSE /\ running' = running /\ most' = [most EXCEPT ![th] = target]
                /\ step' = [op |-> "activate", thread |-> th, block |-> target, old |-> tip]
  BY Zenon DEF StartStep
<1> DEFINE target == IF most[th] = NoBlock THEN m ELSE most[th]
<1>2. /\ index \in [Field -> Tree] /\ index.child \subseteq Block /\ index.linked \subseteq Block
      /\ candidates \subseteq index.linked /\ most \in [Thread -> Block \cup {NoBlock}]
      /\ tip \in Block /\ NoBlock \notin Block
  BY Fields, ChainAssumption, Zenon DEF Inv, TypeOK, Shape
<1>3. /\ index' \in [Field -> Tree]
      /\ index'.known = index.known /\ index'.data = index.data
      /\ index'.linked = index.linked /\ index'.undo = index.undo
      /\ candidates' \subseteq candidates
  <2>1. CASE most[th] # NoBlock
    BY <1>1, <1>2, <2>1, Zenon
  <2>2. CASE most[th] = NoBlock
    <3> DEFINE A == UNION {AboveFailed(c) : c \in Discarded(m)}
    <3>1. FindMostWorkChain(m)
      BY <1>1, <2>2, Zenon
    <3>2. index' = [index EXCEPT !.child = @ \cup A] /\ candidates' \subseteq candidates
      BY <3>1, Zenon DEF FindMostWorkChain
    <3>3. A \subseteq Block
      <4>1. \A c \in Discarded(m) : c \in Block
        BY <1>2, Zenon DEF Discarded
      <4>2. \A c \in Discarded(m) : AboveFailed(c) \subseteq Block
        BY <4>1, TreeFacts, Zenon DEF AboveFailed, Between
      <4> QED BY <4>2, Zenon
    <3> HIDE DEF A
    <3> QED BY <1>2, <3>2, <3>3, Zenon DEF Field, Tree
  <2> QED BY <2>1, <2>2, Zenon
<1>4. tip' \in Path[tip] /\ tip' = tip
  BY <1>0, <1>2, TreeFacts, Zenon
<1>5. target = NoBlock \/ target \in index.linked
  BY <1>1, <1>2, Zenon DEF Inv, Targets
<1>6. /\ running' \subseteq Thread
      /\ most' \in [Thread -> Block \cup {NoBlock}]
      /\ \A x \in Thread : most'[x] \in {most[x], NoBlock, target}
      /\ step' # NoStep => /\ step' = [op |-> "activate", thread |-> th, block |-> target, old |-> tip]
                           /\ target \in index.linked /\ target # tip
  <2> HIDE DEF target
  <2>1. CASE target \in {NoBlock, tip}
    <3>1. running' = running \ {th} /\ most' = [most EXCEPT ![th] = NoBlock] /\ step' = step
      BY <1>1, <2>1, Zenon DEF target
    <3> QED BY <1>0, <1>2, <3>1, Zenon DEF Inv, TypeOK
  <2>2. CASE target \notin {NoBlock, tip}
    <3>1. /\ running' = running /\ most' = [most EXCEPT ![th] = target]
          /\ step' = [op |-> "activate", thread |-> th, block |-> target, old |-> tip]
      BY <1>1, <2>2, Zenon DEF target
    <3> QED BY <1>2, <1>5, <2>2, <3>1, Zenon DEF Inv, TypeOK
  <2> QED BY <2>1, <2>2, Zenon
<1>7. regular' \in BOOLEAN
  BY <1>1, Zenon
<1> HIDE DEF target
<1>8. TypeOK'
  <2>1. step' # NoStep => step' \in [op : {"activate", "invalidate"}, thread : Thread,
                                     block : Block, old : Block]
    BY <1>2, <1>6, SMTT(30)
  <2> QED BY <1>0, <1>2, <1>3, <1>6, <1>7, <2>1, Zenon DEF Inv, TypeOK, store, bounds, Tree
<1>9. Targets'
  <2>1. \A x \in Thread : most'[x] # NoBlock => most'[x] \in index'.linked
    BY <1>3, <1>5, <1>6, Zenon DEF Inv, Targets
  <2> QED BY <1>3, <1>4, <1>6, <2>1 DEF Targets
<1> QED BY <1>0, <1>2, <1>3, <1>4, <1>8, <1>9, Marks, Zenon DEF Inv

\* What is left of a step: nothing, or the same target.
LEMMA Leaves ==
    ASSUME Inv, step # NoStep, step.op = "activate", NEW invalid \in BOOLEAN,
           EndStep(invalid) \/ (UNCHANGED threads /\ step.block # tip'),
           index'.linked = index.linked
    PROVE  /\ Targets'
           /\ running' \subseteq Thread
           /\ most' \in [Thread -> Block \cup {NoBlock}]
           /\ step' \in {NoStep, step}
<1>1. CASE EndStep(invalid)
  BY <1>1, EndFacts, Zenon DEF Inv, Targets
<1>2. CASE UNCHANGED threads /\ step.block # tip'
  BY <1>2, Zenon DEF Inv, TypeOK, Targets, threads
<1> QED BY <1>1, <1>2, Zenon

LEMMA DisconnectStep ==
    ASSUME Inv, DisconnectTip
    PROVE  Inv'
<1>0. /\ ~writing /\ step # NoStep /\ step.op = "activate" /\ tip \notin Path[step.block]
      /\ tip' = Parent[tip]
      /\ EndStep(FALSE) \/ (UNCHANGED threads /\ step.block # tip')
      /\ UNCHANGED <<index, rank, candidates, unlinked, dirty, store, aborted, regular, bounds>>
  BY Zenon DEF DisconnectTip, Stepping
<1>1. tip \in Block \ {Genesis}
  BY <1>0, StepFacts, TreeFacts, Zenon DEF Inv, TypeOK
<1>2. tip' \in Path[tip] /\ tip' \in Block
  BY <1>0, <1>1, ParentFacts, TreeFacts, Zenon
<1>3. /\ Targets' /\ running' \subseteq Thread
      /\ most' \in [Thread -> Block \cup {NoBlock}] /\ step' \in {NoStep, step}
  BY <1>0, Leaves, Zenon
<1>4. TypeOK'
  BY <1>0, <1>2, <1>3, Zenon DEF Inv, TypeOK, store, bounds
<1>5. Saved' /\ Shape' /\ Active' /\ OnDisk'
  BY <1>0, <1>2, Marks, Zenon DEF Inv, TypeOK, Shape
<1> QED BY <1>3, <1>4, <1>5, Zenon DEF Inv

LEMMA ConnectStep ==
    ASSUME Inv, ConnectTip
    PROVE  Inv'
<1> DEFINE n == NextOnPath
<1>0. /\ ~writing /\ step # NoStep /\ step.op = "activate" /\ tip \in Path[step.block]
      /\ tip' = n /\ index' = [index EXCEPT !.undo = @ \cup {n}] /\ dirty' = dirty \cup {n}
      /\ candidates' \subseteq candidates /\ aborted' \in BOOLEAN
      /\ EndStep(FALSE) \/ (UNCHANGED threads /\ step.block # tip')
      /\ UNCHANGED <<rank, unlinked, store, regular, bounds>>
  BY Zenon DEF ConnectTip, Stepping, PruneBlockIndexCandidates
<1>1. tip \in Block /\ step.block \in index.linked /\ step.block \in Block /\ step.block # tip
  BY <1>0, StepFacts, Zenon DEF Inv, TypeOK, Targets
<1>2. /\ n \in Block \ {Genesis} /\ n \in Path[step.block]
      /\ Path[n] = Path[tip] \cup {n}
  BY <1>0, <1>1, NextFacts, Zenon
<1> HIDE DEF n
<1>3. index \in [Field -> Tree] /\ index.undo \subseteq Block
  BY Fields, Zenon DEF Inv, TypeOK
<1>4. /\ index' \in [Field -> Tree] /\ index'.undo = index.undo \cup {n}
      /\ index'.known = index.known /\ index'.data = index.data /\ index'.linked = index.linked
  BY <1>0, <1>2, <1>3, Zenon DEF Field, Tree
<1>5. /\ Targets' /\ running' \subseteq Thread
      /\ most' \in [Thread -> Block \cup {NoBlock}] /\ step' \in {NoStep, step}
  BY <1>0, <1>4, Leaves, Zenon
<1>6. TypeOK'
  BY <1>0, <1>2, <1>4, <1>5, Zenon DEF Inv, TypeOK, store, bounds, Tree
<1>7. Saved'
  BY <1>0, <1>4, Zenon DEF Inv, Saved, store
<1>8. Shape'
  BY <1>0, <1>4, Zenon DEF Inv, Shape
<1>9. Active'
  <2>1. Path[step.block] \subseteq index.data
    BY <1>1, Zenon DEF Inv, Shape
  <2> QED BY <1>0, <1>2, <1>4, <2>1, Zenon DEF Inv, Active
<1>10. OnDisk'
  BY <1>0, Zenon DEF Inv, OnDisk, DiskContinues, store
<1> QED BY <1>5, <1>6, <1>7, <1>8, <1>9, <1>10, Zenon DEF Inv

LEMMA FailStep ==
    ASSUME Inv, ConnectFails
    PROVE  Inv'
<1> DEFINE n == NextOnPath
<1>0. /\ ~writing /\ step # NoStep /\ step.op = "activate" /\ tip \in Path[step.block]
      /\ tip' = tip /\ index' = [index EXCEPT !.invalid = @ \cup {n}] /\ dirty' = dirty \cup {n}
      /\ candidates' \subseteq candidates
      /\ EndStep(TRUE) /\ regular' \in BOOLEAN
      /\ UNCHANGED <<rank, unlinked, store, aborted, bounds>>
  BY Zenon DEF ConnectFails, Stepping
<1>1. tip \in Block /\ step.block \in Block /\ step.block # tip
  BY <1>0, StepFacts, Zenon DEF Inv, TypeOK, Targets
<1>2. n \in Block /\ tip' \in Path[tip]
  BY <1>0, <1>1, NextFacts, TreeFacts, Zenon
<1> HIDE DEF n
<1>3. index \in [Field -> Tree] /\ index.invalid \subseteq Block
  BY Fields, Zenon DEF Inv, TypeOK
<1>4. /\ index' \in [Field -> Tree] /\ index'.undo = index.undo
      /\ index'.known = index.known /\ index'.data = index.data /\ index'.linked = index.linked
  BY <1>0, <1>2, <1>3, Zenon DEF Field, Tree
<1>5. /\ Targets' /\ running' \subseteq Thread
      /\ most' \in [Thread -> Block \cup {NoBlock}] /\ step' \in {NoStep, step}
  BY <1>0, <1>4, Leaves, Zenon
<1>6. TypeOK'
  BY <1>0, <1>2, <1>4, <1>5, Zenon DEF Inv, TypeOK, store, bounds, Tree
<1>7. Saved' /\ Shape' /\ Active' /\ OnDisk'
  BY <1>0, <1>2, <1>4, Marks, Zenon DEF Inv, Shape
<1> QED BY <1>5, <1>6, <1>7, Zenon DEF Inv

LEMMA InvalidateStep ==
    ASSUME Inv, NEW th \in Thread, NEW b \in Block, InvalidateBlock(th, b)
    PROVE  Inv'
<1>0. /\ ~writing /\ b # Genesis /\ commands' = commands + 1
      /\ index' = [index EXCEPT !.invalid = @ \cup {b}] /\ dirty' = dirty \cup {b}
      /\ candidates' \subseteq candidates
      /\ step' = [op |-> "invalidate", thread |-> th, block |-> b, old |-> tip]
      /\ UNCHANGED <<rank, unlinked, tip, running, most, store, aborted, regular, writes, crashes>>
  BY Zenon DEF InvalidateBlock, Free
<1>1. index \in [Field -> Tree] /\ index.invalid \subseteq Block /\ tip \in Block
  BY Fields, Zenon DEF Inv, TypeOK
<1>2. /\ index' \in [Field -> Tree] /\ index'.undo = index.undo
      /\ index'.known = index.known /\ index'.data = index.data /\ index'.linked = index.linked
  BY <1>0, <1>1, Zenon DEF Field, Tree
<1>3. TypeOK'
  BY <1>0, <1>1, <1>2 DEF Inv, TypeOK, store, Tree
<1>4. Targets'
  BY <1>0, <1>2, Zenon DEF Inv, Targets
<1>5. Saved' /\ Shape' /\ Active' /\ OnDisk'
  BY <1>0, <1>1, <1>2, Marks, TreeFacts, Zenon DEF Inv, Shape
<1> QED BY <1>3, <1>4, <1>5, Zenon DEF Inv

LEMMA InvalidateTipStep ==
    ASSUME Inv, InvalidateTip
    PROVE  Inv'
<1>0. /\ ~writing /\ step # NoStep /\ step.op = "invalidate" /\ step.block \in Path[tip]
      /\ index' = [index EXCEPT !.child = @ \cup {tip}] /\ dirty' = dirty \cup {tip}
      /\ candidates' \subseteq candidates /\ tip' = Parent[tip]
      /\ UNCHANGED <<rank, unlinked, threads, store, aborted, regular, bounds>>
  BY Zenon DEF InvalidateTip, Stepping
<1>1. index \in [Field -> Tree] /\ index.child \subseteq Block /\ tip \in Block
  BY Fields, Zenon DEF Inv, TypeOK
<1>2. tip # Genesis
  BY <1>0, TreeFacts, Zenon DEF Inv, Targets
<1>3. tip' \in Path[tip] /\ tip' \in Block
  BY <1>0, <1>1, <1>2, ParentFacts, TreeFacts, Zenon
<1>4. /\ index' \in [Field -> Tree] /\ index'.undo = index.undo
      /\ index'.known = index.known /\ index'.data = index.data /\ index'.linked = index.linked
  BY <1>0, <1>1, Zenon DEF Field, Tree
<1>5. TypeOK'
  BY <1>0, <1>1, <1>3, <1>4, Zenon DEF Inv, TypeOK, store, threads, bounds, Tree
<1>6. Targets'
  BY <1>0, <1>4, Zenon DEF Inv, Targets, threads
<1>7. Saved' /\ Shape' /\ Active' /\ OnDisk'
  BY <1>0, <1>3, <1>4, Marks, Zenon DEF Inv, Shape
<1> QED BY <1>5, <1>6, <1>7, Zenon DEF Inv

LEMMA InvalidateDoneStep ==
    ASSUME Inv, InvalidateDone
    PROVE  Inv'
<1>0. /\ ~writing /\ step # NoStep /\ step' = NoStep
      /\ candidates' \subseteq candidates \cup index.linked
      /\ running' = running \cup {step.thread}
      /\ UNCHANGED <<index, rank, unlinked, tip, dirty, most, store, aborted, regular, bounds>>
  BY Zenon DEF InvalidateDone, Stepping
<1>1. step.thread \in Thread /\ index.linked \subseteq Block /\ tip \in Block
  BY <1>0, StepFacts, Fields, Zenon DEF Inv, TypeOK
<1>2. TypeOK'
  BY <1>0, <1>1, Zenon DEF Inv, TypeOK, store, bounds, Tree
<1>3. Targets'
  BY <1>0, Zenon DEF Inv, Targets
<1>4. Saved' /\ Shape' /\ Active' /\ OnDisk'
  BY <1>0, <1>1, Marks, TreeFacts, Zenon DEF Inv, TypeOK, Shape
<1> QED BY <1>2, <1>3, <1>4, Zenon DEF Inv

LEMMA ResetStep ==
    ASSUME Inv, NEW th \in Thread, NEW b \in Block, ResetBlockFailureFlags(th, b)
    PROVE  Inv'
<1> DEFINE above == {x \in Failed : b \in Path[x]}
<1>0. /\ ~writing /\ commands' = commands + 1
      /\ index' = [index EXCEPT !.invalid = @ \ (above \cup Path[b]),
                                !.child = @ \ (above \cup Path[b])]
      /\ dirty' = dirty \cup above \cup (Failed \cap Path[b])
      /\ candidates' \subseteq candidates \cup index.linked
      /\ regular' \in BOOLEAN
      /\ running' = running \cup {th}
      /\ UNCHANGED <<rank, unlinked, tip, most, step, store, aborted, writes, crashes>>
  BY Zenon DEF ResetBlockFailureFlags, Free, Activate
<1>1. /\ index \in [Field -> Tree] /\ index.invalid \subseteq Block /\ index.child \subseteq Block
      /\ index.linked \subseteq Block /\ tip \in Block
  BY Fields, Zenon DEF Inv, TypeOK
<1>2. above \subseteq Block /\ Failed \subseteq Block
  BY <1>1, Zenon DEF Failed
<1> HIDE DEF above
<1>3. /\ index' \in [Field -> Tree] /\ index'.undo = index.undo
      /\ index'.known = index.known /\ index'.data = index.data /\ index'.linked = index.linked
  BY <1>0, <1>1, Zenon DEF Field, Tree
<1>4. TypeOK'
  BY <1>0, <1>1, <1>2, <1>3 DEF Inv, TypeOK, store, Tree
<1>5. Targets'
  BY <1>0, <1>3, Zenon DEF Inv, Targets
<1>6. Saved' /\ Shape' /\ Active' /\ OnDisk'
  BY <1>0, <1>1, <1>3, Marks, TreeFacts, Zenon DEF Inv, Shape
<1> QED BY <1>4, <1>5, <1>6, Zenon DEF Inv

LEMMA WriteIndexStep ==
    ASSUME Inv, NEW full \in BOOLEAN, WriteIndex(full)
    PROVE  Inv'
<1>0. /\ ~writing /\ writes' = writes + 1 /\ disk' = Written /\ dirty' = {} /\ writing' = full
      /\ UNCHANGED <<index, rank, candidates, unlinked, tip, threads, diskBest, aborted, regular,
                     commands, crashes>>
  BY Zenon DEF WriteIndex
<1>1. index \in [Field -> Tree] /\ disk \in [Field -> Tree]
  BY Zenon DEF Inv, TypeOK
<1>2. disk' \in [Field -> Tree]
  BY <1>0, <1>1, Zenon DEF Written, Tree
<1>3. /\ disk'.known = (disk.known \ dirty) \cup (index.known \cap dirty)
      /\ disk'.data = (disk.data \ dirty) \cup (index.data \cap dirty)
      /\ disk'.undo = (disk.undo \ dirty) \cup (index.undo \cap dirty)
  BY <1>0, Zenon DEF Written, Field
<1>4. disk'.known = index.known /\ disk'.data = index.data /\ disk'.undo = index.undo
  BY <1>3, Zenon DEF Inv, Saved
<1>5. TypeOK'
  BY <1>0, <1>2 DEF Inv, TypeOK, threads, Tree
<1>6. Saved' /\ Shape' /\ Active' /\ Targets'
  BY <1>0, <1>4, Zenon DEF Inv, Saved, Shape, Active, Targets, threads
<1>7. OnDisk'
  BY <1>0, <1>4, Zenon DEF Inv, Saved, Shape, OnDisk, DiskContinues
<1> QED BY <1>5, <1>6, <1>7, Zenon DEF Inv

LEMMA WriteCoinsStep ==
    ASSUME Inv, WriteCoins
    PROVE  Inv'
<1>0. /\ writing /\ writing' = FALSE /\ diskBest' = tip
      /\ UNCHANGED <<mem, threads, disk, aborted, regular, bounds>>
  BY Zenon DEF WriteCoins
<1>1. TypeOK'
  BY <1>0, Zenon DEF Inv, TypeOK, mem, threads, bounds
<1>2. Saved' /\ Shape' /\ Active' /\ Targets'
  BY <1>0, Zenon DEF Inv, Saved, Shape, Active, Targets, mem, threads
<1>3. index.data = disk.data /\ index.undo = disk.undo
  BY <1>0, Zenon DEF Inv, Saved
<1>4. OnDisk'
  BY <1>0, <1>3, Zenon DEF Inv, Active, OnDisk, DiskContinues, mem
<1> QED BY <1>1, <1>2, <1>4, Zenon DEF Inv

LEMMA RestartStep ==
    ASSUME Inv, Restart
    PROVE  Inv'
<1> DEFINE L == Linkable(disk.known, disk.data)
<1>0. /\ crashes' = crashes + 1
      /\ index' = [disk EXCEPT !.linked = L] /\ unlinked' = disk.data \ L
      /\ tip' = diskBest /\ regular' \in BOOLEAN
      /\ dirty' = {} /\ writing' = FALSE
      /\ running' = {StartThread} /\ most' = [th \in Thread |-> NoBlock] /\ step' = NoStep
      /\ UNCHANGED <<disk, diskBest, commands, writes>>
  BY Zenon DEF Restart
<1>1. candidates' \subseteq L /\ aborted' \in BOOLEAN /\ rank' \in [Block -> Int]
  <2>1. PICK r \in [L -> 1 - Width .. 0] :
          /\ rank' = [x \in Block |-> IF x \in L THEN r[x] ELSE 0]
          /\ candidates' \subseteq L
          /\ aborted' = (candidates' = {})
    BY Zenon DEF Restart
  <2>2. \A x \in L : r[x] \in Int
    OBVIOUS
  <2> HIDE DEF L
  <2> QED BY <2>1, <2>2
<1>2. disk \in [Field -> Tree] /\ disk.known \subseteq Block /\ disk.data \subseteq Block
  BY Fields, Zenon DEF Inv, TypeOK
<1>3. L \subseteq Block /\ \A b \in L : Path[b] \subseteq disk.data
  BY <1>2, Zenon DEF Linkable
<1> HIDE DEF L
<1>4. /\ index' \in [Field -> Tree] /\ index'.known = disk.known /\ index'.data = disk.data
      /\ index'.undo = disk.undo /\ index'.linked = L
  BY <1>0, <1>2, <1>3, Zenon DEF Field, Tree
<1>5. TypeOK'
  <2>1. most' \in [Thread -> Block \cup {NoBlock}]
    BY <1>0, Zenon
  <2>2. running' \subseteq Thread
    BY <1>0, ChainAssumption
  <2>3. candidates' \in Tree /\ unlinked' \in Tree /\ dirty' \in Tree
    BY <1>0, <1>1, <1>2, <1>3, Zenon DEF Tree
  <2>4. commands' \in Nat /\ writes' \in Nat /\ crashes' \in Nat
    BY <1>0 DEF Inv, TypeOK
  <2>5. tip' \in Block /\ disk' \in [Field -> Tree] /\ diskBest' \in Block
    BY <1>0, <1>2, Zenon DEF Inv, TypeOK
  <2> QED BY <1>0, <1>1, <1>4, <2>1, <2>2, <2>3, <2>4, <2>5, Zenon DEF TypeOK
<1>6. Saved'
  BY <1>0, <1>4, Zenon DEF Saved
<1>7. Shape'
  BY <1>0, <1>1, <1>3, <1>4, Zenon DEF Inv, OnDisk, DiskContinues, Shape
<1>8. Active'
  BY <1>0, <1>4, Zenon DEF Inv, OnDisk, DiskContinues, Active
<1>9. Targets'
  BY <1>0, Zenon DEF Targets
<1>10. OnDisk'
  BY <1>0, Zenon DEF Inv, OnDisk, DiskContinues
<1> QED BY <1>5, <1>6, <1>7, <1>8, <1>9, <1>10, Zenon DEF Inv

LEMMA InitHolds ==
    ASSUME Init
    PROVE  Inv
<1>0. /\ index = [f \in Field |-> IF f \in {"known", "data", "linked"} THEN {Genesis} ELSE {}]
      /\ disk = index /\ rank = [b \in Block |-> 0]
      /\ candidates = {Genesis} /\ unlinked = {} /\ tip = Genesis /\ dirty = {}
      /\ running = {} /\ most = [th \in Thread |-> NoBlock] /\ step = NoStep
      /\ aborted = FALSE /\ writing = FALSE /\ diskBest = Genesis /\ regular = TRUE
      /\ commands = 0 /\ writes = 0 /\ crashes = 0
  BY Zenon DEF Init
<1>1. /\ index \in [Field -> Tree] /\ index.known = {Genesis} /\ index.data = {Genesis}
      /\ index.linked = {Genesis} /\ index.undo = {}
  BY <1>0, TreeFacts, Zenon DEF Field, Tree
<1>2. TypeOK
  <2>1. most \in [Thread -> Block \cup {NoBlock}] /\ rank \in [Block -> Int]
    BY <1>0
  <2>2. candidates \in Tree /\ unlinked \in Tree /\ dirty \in Tree
    BY <1>0, TreeFacts, Zenon DEF Tree
  <2>3. tip \in Block /\ diskBest \in Block /\ disk \in [Field -> Tree]
    BY <1>0, <1>1, TreeFacts, Zenon
  <2> QED BY <1>0, <1>1, <2>1, <2>2, <2>3, Zenon DEF TypeOK
<1>3. Saved /\ Targets
  BY <1>0, Zenon DEF Saved, Targets
<1>4. Shape /\ Active
  BY <1>0, <1>1, TreeFacts, Zenon DEF Shape, Active
<1>5. OnDisk
  BY <1>0, <1>1, TreeFacts, Zenon DEF OnDisk, DiskContinues
<1> QED BY <1>2, <1>3, <1>4, <1>5, Zenon DEF Inv

LEMMA NextHolds ==
    ASSUME Inv, [Next]_vars
    PROVE  Inv'
<1>1. ASSUME NEW th \in Thread, StartStep(th) PROVE Inv'
  BY <1>1, StartFacts, Zenon
<1>2. ASSUME NEW th \in Thread, NEW b \in Block, Process(th, b) PROVE Inv'
  BY <1>2, HeaderStep, ReceivedStep, IgnoreStep, RefuseStep, InvalidateStep, ResetStep, Zenon DEF Process
<1>3. ASSUME Progress PROVE Inv'
  BY <1>3, DisconnectStep, ConnectStep, FailStep, InvalidateTipStep, InvalidateDoneStep,
     WriteCoinsStep, Zenon DEF Progress
<1>4. ASSUME NEW full \in BOOLEAN, WriteIndex(full) PROVE Inv'
  BY <1>4, WriteIndexStep, Zenon
<1>5. ASSUME Restart PROVE Inv'
  BY <1>5, RestartStep, Zenon
<1>6. ASSUME UNCHANGED vars PROVE Inv'
  <2>1. UNCHANGED <<mem, threads, store, aborted, regular, bounds>>
    BY <1>6, Zenon DEF vars
  <2>2. TypeOK'
    BY <2>1, Zenon DEF Inv, TypeOK, mem, threads, store, bounds
  <2>3. Saved' /\ Shape' /\ Active' /\ Targets' /\ OnDisk'
    BY <2>1, Zenon DEF Inv, Saved, Shape, Active, Targets, OnDisk, DiskContinues, mem, threads, store
  <2> QED BY <2>2, <2>3, Zenon DEF Inv
<1> QED BY <1>1, <1>2, <1>3, <1>4, <1>5, <1>6, Zenon DEF Next
----------------------------------------------------------------------------
\* What is in memory and not on disk is dirty, blocks have their ancestors,
\* and the active chain has the data to connect and disconnect it.
THEOREM Inductive == Spec => []Inv
BY InitHolds, NextHolds, PTL DEF Spec

\* Type correctness of the block index, the chain and the threads.
THEOREM TypeCorrect == Spec => []TypeOK
<1>1. Inv => TypeOK
  BY Zenon DEF Inv
<1> QED BY <1>1, Inductive, PTL

\* FlushStateToDisk writes in an order that lets LoadBlockIndexDB and the
\* coins continue from any point at which the process ends.
THEOREM DiskSafe == Spec => []DiskContinues
<1>1. Inv => DiskContinues
  BY Zenon DEF Inv, OnDisk
<1> QED BY <1>1, Inductive, PTL

\* DisconnectTip always finds the data and the undo data of the block it
\* disconnects, and of all it may disconnect after it.
THEOREM ChainCanBeUndone == Spec => []Active
<1>1. Inv => Active
  BY Zenon DEF Inv
<1> QED BY <1>1, Inductive, PTL
----------------------------------------------------------------------------
(* The order of candidates.                                                *)

\* CBlockIndexWorkComparator is a strict weak order.
LEMMA Order ==
    ASSUME NEW r \in [Block -> Int], NEW a \in Block, NEW b \in Block
    PROVE  /\ ~WorseBy(r, a, a)
           /\ WorseBy(r, a, b) => ~WorseBy(r, b, a)
           /\ Work[a] < Work[b] => WorseBy(r, a, b)
           /\ ~WorseBy(r, a, b) => Work[b] <= Work[a]
<1>1. Work[a] \in Nat /\ Work[b] \in Nat /\ r[a] \in Int /\ r[b] \in Int
  BY TreeFacts, Zenon
<1> QED BY <1>1 DEF WorseBy

LEMMA OrderTransitive ==
    ASSUME NEW r \in [Block -> Int], NEW a \in Block, NEW b \in Block, NEW c \in Block
    PROVE  /\ WorseBy(r, a, b) /\ WorseBy(r, b, c) => WorseBy(r, a, c)
           /\ ~WorseBy(r, a, b) /\ ~WorseBy(r, b, c) => ~WorseBy(r, a, c)
<1>1. /\ Work[a] \in Nat /\ Work[b] \in Nat /\ Work[c] \in Nat
      /\ r[a] \in Int /\ r[b] \in Int /\ r[c] \in Int
  BY TreeFacts, Zenon
<1> QED BY <1>1 DEF WorseBy

LEMMA NotBelow ==
    ASSUME NEW a \in Nat, NEW b \in Nat, a < b, b <= a
    PROVE  FALSE
OBVIOUS

LEMMA OrderSame ==
    ASSUME NEW r, NEW q, NEW a, NEW b, q[a] = r[a], q[b] = r[b]
    PROVE  WorseBy(q, a, b) = WorseBy(r, a, b)
BY Zenon DEF WorseBy

\* Two blocks with a descendant in common are on one path.
LEMMA Comparable ==
    ASSUME NEW b \in Block, NEW a \in Path[b], NEW c \in Path[b]
    PROVE  a \in Path[c] \/ c \in Path[a]
BY ChainAssumption

\* Ancestors have less work.
LEMMA Below ==
    ASSUME NEW b \in Block, NEW a \in Path[b], a # b
    PROVE  Work[a] < Work[b] /\ b \notin Path[a]
<1>1. a \in Block /\ Work[a] \in Nat /\ Work[b] \in Nat
  BY TreeFacts, Zenon
<1>2. Work[a] < Work[b] /\ (b \in Path[a] => Work[b] < Work[a])
  BY <1>1, ChainAssumption, Zenon
<1> QED BY <1>1, <1>2

----------------------------------------------------------------------------
(* Order in the index, whatever orders the threads take cs_main in.        *)

Same(set, b) == {z \in set : Work[z] = Work[b]}

\* Ids tell blocks of equal work apart; the next one is larger.
Ordered ==
    /\ \A x, y \in index.linked : x # y /\ Work[x] = Work[y] => rank[x] # rank[y]
    /\ \A x \in index.linked : rank[x] <= Cardinality(Same(index.linked, x))

\* PruneBlockIndexCandidates leaves nothing to do.
Pruned == \A c \in candidates : ~Worse(c, tip)

\* A block that waits although all data is there waits for one that nobody
\* knows to wait.
Waiting ==
    /\ unlinked \cap index.linked = {}
    /\ \A x \in unlinked : Path[x] \subseteq index.data =>
          \E y \in Path[x] : y \in index.data \ (index.linked \cup unlinked)

\* What is invalid in memory and on disk differs in dirty blocks only.
Stored ==
    /\ index.invalid \ dirty = disk.invalid \ dirty
    /\ disk.child \ dirty \subseteq index.child

Closed == tip \in index.linked /\ \A b \in index.linked : Path[b] \subseteq index.linked

\* A step works for a thread that waits for it.
Owned ==
    /\ step # NoStep /\ step.op = "activate" =>
          most[step.thread] = step.block /\ step.thread \in running
    /\ step # NoStep /\ step.op = "invalidate" => step.block \in index.invalid

Tidy == Ordered /\ Pruned /\ Waiting /\ Stored /\ Closed /\ Owned

\* Of two linked blocks, one is worse.
LEMMA Total ==
    ASSUME Inv, Ordered, NEW a \in index.linked, NEW b \in index.linked, a # b
    PROVE  WorseBy(rank, a, b) \/ WorseBy(rank, b, a)
<1>1. /\ Work[a] \in Nat /\ Work[b] \in Nat /\ rank[a] \in Int /\ rank[b] \in Int
      /\ Work[a] = Work[b] => rank[a] # rank[b]
  BY Fields, TreeFacts, Zenon DEF Inv, TypeOK, Ordered
<1> QED BY <1>1, SMTT(30) DEF WorseBy

\* What the lemmas use of the sizes of finite sets: a hypothesis, discharged
\* below (CountingHolds) before the theorems that rest on it.
Counting ==
    \A S \in SUBSET Block :
        /\ Cardinality(S) \in Nat
        /\ \A x \in Block \ S : Cardinality(S \cup {x}) = Cardinality(S) + 1
        /\ \A T \in SUBSET S : Cardinality(T) <= Cardinality(S)
        /\ \A T \in SUBSET Block :
              S \cap T = {} => Cardinality(S \cup T) = Cardinality(S) + Cardinality(T)

\* Counting the blocks of the work of b.
LEMMA SameCount ==
    ASSUME Counting, NEW S \in SUBSET Block, NEW b
    PROVE  Cardinality(Same(S, b)) \in Nat
<1>1. Same(S, b) \in SUBSET Block
  BY Zenon DEF Same
<1> QED BY <1>1, Zenon DEF Counting

LEMMA SameFacts ==
    ASSUME Counting,
           NEW S \in SUBSET Block, NEW T \in SUBSET Block, S \cap T = {}, NEW b \in Block
    PROVE  /\ Cardinality(Same(S, b)) \in Nat /\ Cardinality(Same(T, b)) \in Nat
           /\ Cardinality(Same(S \cup T, b)) = Cardinality(Same(S, b)) + Cardinality(Same(T, b))
<1>1. Same(S, b) \in SUBSET Block /\ Same(T, b) \in SUBSET Block
  BY Zenon DEF Same
<1>2. Same(S, b) \cap Same(T, b) = {} /\ Same(S \cup T, b) = Same(S, b) \cup Same(T, b)
  BY Zenon DEF Same
<1> QED BY <1>1, <1>2, Zenon DEF Counting

\* ReceivedBlockTransactions gives new ids to the blocks it links.
LEMMA RanksFit ==
    ASSUME Counting, Inv, Ordered, NEW L \in SUBSET Block, L \cap index.linked = {},
           NEW r \in Ranks(L), rank' = [x \in Block |-> IF x \in L THEN r[x] ELSE rank[x]],
           index'.linked = index.linked \cup L
    PROVE  Ordered'
<1> DEFINE K == index.linked
           N(S, x) == Cardinality(Same(S, x))
           M(x) == Cardinality({y \in L : Work[y] = Work[x] /\ r[y] < r[x]})
<1>1. K \in SUBSET Block /\ rank \in [Block -> Int]
  BY Fields, Zenon DEF Inv, TypeOK
<1>2. /\ \A x \in L : r[x] = 1 + N(K, x) + M(x) /\ r[x] \in Int
      /\ \A x, y \in L : x # y /\ Work[x] = Work[y] => r[x] # r[y]
  BY DEF Ranks, Same
<1>3. \A x \in L : M(x) \in Nat /\ M(x) + 1 <= N(L, x)
  <2> SUFFICES ASSUME NEW x \in L PROVE M(x) \in Nat /\ M(x) + 1 <= N(L, x)
    BY Zenon
  <2> DEFINE E == {y \in L : Work[y] = Work[x] /\ r[y] < r[x]}
  <2>1. x \notin E /\ x \in Same(L, x) /\ E \cup {x} \subseteq Same(L, x)
    <3>1. r[x] \in Int
      BY <1>2, Zenon
    <3>2. ~(r[x] < r[x])
      BY <3>1, SMTT(30)
    <3> QED BY <3>2, Zenon DEF Same
  <2>2. Same(L, x) \in SUBSET Block /\ E \in SUBSET Block /\ x \in Block
    BY Zenon DEF Same
  <2> HIDE DEF E
  <2>4. Cardinality(E \cup {x}) = Cardinality(E) + 1 /\ Cardinality(E) \in Nat
    BY <2>1, <2>2, Zenon DEF Counting
  <2>5. Cardinality(E \cup {x}) <= Cardinality(Same(L, x))
    BY <2>1, <2>2, Zenon DEF Counting
  <2> QED BY <2>4, <2>5, Zenon DEF E
<1>4. \A x \in Block : N(K, x) \in Nat /\ N(L, x) \in Nat /\ N(K \cup L, x) = N(K, x) + N(L, x)
  BY <1>1, SameFacts, Zenon
<1>5. \A x, y \in Block : Work[x] = Work[y] => N(K, x) = N(K, y)
  BY Zenon DEF Same
<1>6. /\ \A x \in L : rank'[x] = r[x]
      /\ \A x \in K : rank'[x] = rank[x] /\ rank[x] <= N(K, x) /\ rank[x] \in Int
  BY <1>1, Zenon DEF Ordered
<1>7. \A x, y \in K : x # y /\ Work[x] = Work[y] => rank[x] # rank[y]
  BY Zenon DEF Ordered
<1> HIDE DEF K, N, M
<1>8. \A x \in K, y \in L : Work[x] = Work[y] => rank'[x] < rank'[y]
  BY <1>1, <1>2, <1>3, <1>4, <1>5, <1>6, SMTT(30)
<1>9. \A x, y \in K \cup L : x # y /\ Work[x] = Work[y] => rank'[x] # rank'[y]
  <2>1. \A x \in K \cup L : rank'[x] \in Int
    BY <1>2, <1>6, Zenon
  <2> QED BY <1>2, <1>6, <1>7, <1>8, <2>1
<1>10. \A x \in K \cup L : rank'[x] <= N(K \cup L, x)
  <2>1. ASSUME NEW x \in K PROVE rank'[x] <= N(K \cup L, x)
    <3>1. N(K, x) \in Nat /\ N(L, x) \in Nat /\ N(K \cup L, x) = N(K, x) + N(L, x)
      BY <1>1, <1>4, Zenon
    <3>2. rank'[x] = rank[x] /\ rank[x] <= N(K, x) /\ rank[x] \in Int
      BY <1>6, Zenon
    <3> QED BY <3>1, <3>2
  <2>2. ASSUME NEW x \in L PROVE rank'[x] <= N(K \cup L, x)
    <3>1. N(K, x) \in Nat /\ N(L, x) \in Nat /\ N(K \cup L, x) = N(K, x) + N(L, x)
      BY <1>4, Zenon
    <3>2. /\ rank'[x] = r[x] /\ r[x] = 1 + N(K, x) + M(x)
          /\ M(x) \in Nat /\ M(x) + 1 <= N(L, x)
      BY <1>2, <1>3, <1>6, Zenon
    <3> QED BY <3>1, <3>2
  <2> QED BY <2>1, <2>2, Zenon
<1> QED BY <1>9, <1>10, Zenon DEF Ordered, K, N, Same

\* A step that links no block.
LEMMA TidyKept ==
    ASSUME Inv, Inv', Tidy, UNCHANGED <<rank, unlinked>>,
           index'.data = index.data, index'.linked = index.linked,
           tip' \in index.linked, \A c \in candidates' : ~WorseBy(rank, c, tip'),
           Stored', Owned'
    PROVE  Tidy'
<1>1. Ordered'
  BY Zenon DEF Tidy, Ordered, Same
<1>2. Pruned'
  BY Zenon DEF Pruned, Worse
<1>3. Waiting' /\ Closed'
  BY Zenon DEF Tidy, Waiting, Closed
<1> QED BY <1>1, <1>2, <1>3, Zenon DEF Tidy

\* Facts that Inv and Tidy give together.
LEMMA TidyFacts ==
    ASSUME Inv, Tidy
    PROVE  /\ index \in [Field -> Tree] /\ index.linked \subseteq Block
           /\ index.data \subseteq Block /\ index.invalid \subseteq Block
           /\ index.child \subseteq Block /\ rank \in [Block -> Int]
           /\ tip \in index.linked /\ tip \in Block /\ candidates \subseteq index.linked
           /\ \A b \in index.linked : Path[b] \subseteq index.data /\ Path[b] \subseteq index.linked
           /\ \A c \in candidates : ~WorseBy(rank, c, tip)
BY Fields, Zenon DEF Inv, Shape, TypeOK, Tidy, Closed, Pruned, Worse

\* The blocks that ReceivedBlockTransactions links.
LEMMA Arrival ==
    ASSUME Inv, Tidy, NEW b \in Block, b \notin index.data
    PROVE  LET L == NewlyLinked(b) IN
           /\ b # Genesis /\ Parent[b] \in Block /\ Parent[b] \in Path[b] /\ Parent[b] # b
           /\ Path[b] = Path[Parent[b]] \cup {b} /\ b \notin Path[Parent[b]]
           /\ L \in SUBSET Block /\ L \subseteq unlinked \cup {b} /\ L \cap index.linked = {}
           /\ L # {} <=> Parent[b] \in index.linked
           /\ L # {} => b \in L
           /\ \A x \in L : b \in Path[x] /\ Path[x] \ Path[b] \subseteq unlinked
           /\ \A x \in unlinked : L # {} /\ b \in Path[x] /\ Path[x] \ Path[b] \subseteq unlinked => x \in L
           /\ \A x \in index.linked : b \notin Path[x]
<1> DEFINE L == NewlyLinked(b)
<1>1. /\ unlinked \subseteq index.data /\ index.linked \subseteq index.data
      /\ unlinked \cap index.linked = {} /\ index.data \subseteq Block
      /\ \A x \in index.linked : b \notin Path[x]
  BY TidyFacts, TreeFacts, Zenon DEF Inv, Shape, Tidy, Waiting
<1>2. b # Genesis
  BY <1>1, TidyFacts, TreeFacts, Zenon
<1>3. Parent[b] \in Path[b] /\ Path[Parent[b]] = Path[b] \ {b} /\ b \in Path[b]
  BY <1>2, ParentFacts, TreeFacts, Zenon
<1>4. Parent[b] \in Block /\ Parent[b] # b
  BY <1>3, TreeFacts, Zenon
<1>5. /\ Parent[b] \notin index.linked => L = {}
      /\ Parent[b] \in index.linked =>
           L = {x \in Block : b \in Path[x] /\ (Path[x] \ Path[b]) \subseteq unlinked} \cap
               (unlinked \cup {b})
  BY <1>2, Zenon DEF NewlyLinked
<1>6. Parent[b] \in index.linked => b \in L
  BY <1>3, <1>5, Zenon
<1> HIDE DEF L
<1>7. /\ L \in SUBSET Block /\ L \subseteq unlinked \cup {b} /\ L \cap index.linked = {}
      /\ L # {} <=> Parent[b] \in index.linked
      /\ L # {} => b \in L
      /\ \A x \in L : b \in Path[x] /\ Path[x] \ Path[b] \subseteq unlinked
      /\ \A x \in unlinked : L # {} /\ b \in Path[x] /\ Path[x] \ Path[b] \subseteq unlinked => x \in L
  BY <1>1, <1>5, <1>6, Zenon
<1> QED BY <1>1, <1>2, <1>3, <1>4, <1>7, Zenon DEF L

LEMMA ReceivedTidy ==
    ASSUME Counting, Inv, Inv', Tidy, NEW th \in Thread, NEW b \in Block, AcceptBlock(th, b)
    PROVE  Tidy'
<1> DEFINE L == NewlyLinked(b)
<1>0. /\ b \notin index.data /\ dirty' = dirty \cup {b} /\ step = NoStep
      /\ index' = [index EXCEPT !.known = @ \cup {b}, !.data = @ \cup {b}, !.linked = @ \cup L]
      /\ candidates' = candidates \cup {x \in L : ~WorseBy(rank', x, tip)}
      /\ unlinked' = IF L # {} THEN unlinked \ L
                     ELSE IF Parent[b] \in Failed THEN unlinked ELSE unlinked \cup {b}
      /\ UNCHANGED <<tip, step, store>>
  BY Zenon DEF AcceptBlock, Free, ReceivedBlockTransactions, Activate
<1>1. PICK r \in Ranks(L) : rank' = [x \in Block |-> IF x \in L THEN r[x] ELSE rank[x]]
  BY ZenonT(30) DEF AcceptBlock, ReceivedBlockTransactions
<1>2. /\ index.linked \subseteq index.data /\ index.data \subseteq Block /\ index \in [Field -> Tree]
      /\ unlinked \subseteq index.data /\ tip \in index.linked /\ candidates \subseteq index.linked
      /\ \A x \in index.linked : Path[x] \subseteq index.data /\ Path[x] \subseteq index.linked
      /\ rank \in [Block -> Int]
  BY Fields, TreeFacts, Zenon DEF Inv, Shape, TypeOK, Tidy, Closed
<1>3. /\ b # Genesis /\ Parent[b] \in Block /\ Parent[b] \in Path[b] /\ Parent[b] # b
      /\ Path[b] = Path[Parent[b]] \cup {b} /\ b \notin Path[Parent[b]]
  BY <1>0, Arrival, Zenon
<1>4. /\ L \in SUBSET Block /\ L \subseteq unlinked \cup {b} /\ L \cap index.linked = {}
      /\ L # {} <=> Parent[b] \in index.linked
      /\ L # {} => b \in L
      /\ \A x \in L : b \in Path[x] /\ Path[x] \ Path[b] \subseteq unlinked
      /\ \A x \in unlinked : L # {} /\ b \in Path[x] /\ Path[x] \ Path[b] \subseteq unlinked => x \in L
  BY <1>0, Arrival, Zenon
<1>5. /\ index'.data = index.data \cup {b} /\ index'.linked = index.linked \cup L
      /\ index'.invalid = index.invalid /\ index'.child = index.child
  BY <1>0, <1>2, ZenonT(30) DEF Field
<1> HIDE DEF L
<1>6. Ordered'
  <2>1. Ordered
    BY Zenon DEF Tidy
  <2>2. L \in SUBSET Block /\ L \cap index.linked = {} /\ index'.linked = index.linked \cup L
    BY <1>4, <1>5, Zenon
  <2> QED BY <1>1, <2>1, <2>2, RanksFit, Zenon
<1>7. \A x \in index.linked : rank'[x] = rank[x]
  BY <1>1, <1>2, <1>4, Zenon
<1>8. Pruned'
  <2>1. \A c \in candidates : ~WorseBy(rank', c, tip)
    <3>1. ASSUME NEW c \in candidates PROVE ~WorseBy(rank', c, tip)
      <4>1. ~WorseBy(rank, c, tip)
        BY Zenon DEF Tidy, Pruned, Worse
      <4>2. rank'[c] = rank[c] /\ rank'[tip] = rank[tip]
        BY <1>2, <1>7, Zenon
      <4> QED BY <4>1, <4>2, OrderSame, Zenon
    <3> QED BY <3>1, Zenon
  <2> QED BY <1>0, <2>1, ZenonT(30) DEF Pruned, Worse
<1>9. \A x, y \in Block : b \in Path[x] /\ y \in Path[x] /\ y \notin Path[b] => b \in Path[y]
  BY Comparable, Zenon
<1>10. Closed'
  <2> SUFFICES ASSUME NEW x \in L, NEW y \in Path[x] PROVE y \in index.linked \cup L
    BY <1>0, <1>2, <1>5, Zenon DEF Closed
  <2>1. x \in Block /\ y \in Block /\ Path[y] \subseteq Path[x]
    BY <1>4, TreeFacts, Zenon
  <2>2. CASE y \in Path[b]
    BY <1>2, <1>3, <1>4, <2>2, Zenon
  <2>3. CASE y \notin Path[b]
    <3>1. b \in Path[y] /\ Path[y] \ Path[b] \subseteq unlinked /\ y \in unlinked
      BY <1>4, <1>9, <2>1, <2>3, Zenon
    <3> QED BY <1>4, <3>1, Zenon
  <2> QED BY <2>2, <2>3, Zenon
<1>11. unlinked' \cap index'.linked = {}
  BY <1>0, <1>2, <1>4, <1>5, SMTT(30) DEF Tidy, Waiting
<1>12. ASSUME NEW x \in unlinked', Path[x] \subseteq index'.data
       PROVE  \E y \in Path[x] : y \in index'.data \ (index'.linked \cup unlinked')
  <2>0. /\ x \in Block /\ x \in unlinked \cup {b} /\ Path[x] \subseteq Block
        /\ x \in unlinked /\ Path[x] \subseteq index.data =>
             \E y \in Path[x] : y \in index.data \ (index.linked \cup unlinked)
    BY <1>0, <1>2, <1>12, TreeFacts DEF Tidy, Waiting
  <2>1. CASE b \notin Path[x]
    <3>1. x \in unlinked /\ Path[x] \subseteq index.data
      BY <1>5, <1>12, <2>0, <2>1, TreeFacts, Zenon
    <3>2. PICK y \in Path[x] : y \in index.data \ (index.linked \cup unlinked)
      BY <2>0, <3>1, Zenon
    <3> QED BY <1>0, <1>4, <1>5, <2>1, <3>2, Zenon
  <2>2. CASE b \in Path[x] /\ L # {}
    <3>1. x \in unlinked /\ x \notin L
      BY <1>0, <2>2, Zenon
    <3>2. PICK y \in Path[x] \ Path[b] : y \notin unlinked
      BY <1>4, <2>0, <2>2, <3>1, Zenon
    <3>3. y \in Block /\ b \in Path[y] /\ y # b
      BY <1>9, <2>0, <2>2, <3>2, TreeFacts, Zenon
    <3>4. y \notin index.linked
      BY <1>0, <1>2, <3>3, Zenon
    <3> QED BY <1>0, <1>4, <1>5, <1>12, <2>2, <3>2, <3>3, <3>4, Zenon
  <2>3. CASE b \in Path[x] /\ L = {}
    <3>1. Parent[b] \notin index.linked /\ b \in index'.data \ index'.linked
      BY <1>0, <1>2, <1>4, <1>5, <2>3, Zenon
    <3>2. Path[b] \subseteq Path[x]
      BY <2>0, <2>3, TreeFacts, Zenon
    <3>3. Path[Parent[b]] \subseteq index.data /\ Parent[b] \in index.data
      <4>1. Parent[b] \in Path[Parent[b]]
        BY <1>3, TreeFacts, Zenon
      <4> QED BY <1>3, <1>5, <1>12, <3>2, <4>1, Zenon
    <3>4. CASE Parent[b] \in Failed
      BY <1>0, <1>2, <2>3, <3>1, <3>4, Zenon
    <3>5. CASE Parent[b] \notin Failed /\ Parent[b] \notin unlinked
      BY <1>0, <1>3, <1>5, <2>3, <3>1, <3>2, <3>3, <3>5, Zenon
    <3>6. CASE Parent[b] \notin Failed /\ Parent[b] \in unlinked
      <4>1. PICK y \in Path[Parent[b]] : y \in index.data \ (index.linked \cup unlinked)
        BY <3>3, <3>6, Zenon DEF Tidy, Waiting
      <4> QED BY <1>0, <1>3, <1>5, <2>3, <3>2, <3>6, <4>1, Zenon
    <3> QED BY <3>4, <3>5, <3>6, Zenon
  <2> QED BY <2>1, <2>2, <2>3, Zenon
<1>13. Stored' /\ Owned'
  BY <1>0, <1>5, Zenon DEF Tidy, Stored, Owned, store
<1> QED BY <1>6, <1>8, <1>10, <1>11, <1>12, <1>13, Zenon DEF Tidy, Waiting

\* Going back to an ancestor, no candidate becomes worse than the tip.
LEMMA BackTidy ==
    ASSUME Inv, Tidy, tip' \in Path[tip], candidates' \subseteq candidates
    PROVE  tip' \in index.linked /\ \A c \in candidates' : ~WorseBy(rank, c, tip')
<1>1. tip' \in index.linked
  BY TidyFacts, Zenon
<1> SUFFICES ASSUME NEW c \in candidates' PROVE ~WorseBy(rank, c, tip')
  BY <1>1, Zenon
<1>2. /\ c \in Block /\ tip \in Block /\ tip' \in Block /\ rank \in [Block -> Int]
      /\ ~WorseBy(rank, c, tip)
  BY <1>1, TidyFacts, Zenon
<1>3. tip' = tip \/ Work[tip'] < Work[tip]
  BY <1>2, Below, Zenon
<1>4. ~WorseBy(rank, tip, tip')
  BY <1>2, <1>3, Order
<1> QED BY <1>2, <1>4, OrderTransitive, Zenon

LEMMA HeaderTidy ==
    ASSUME Inv, Inv', Tidy, NEW th \in Thread, NEW b \in Block,
           AcceptHeader(th, b) \/ IgnoreBlock(th, b) \/ RefuseBlock(th, b)
    PROVE  Tidy'
<1>1. /\ step = NoStep /\ UNCHANGED <<rank, candidates, unlinked, tip, step, store>>
      /\ dirty \subseteq dirty'
      /\ \E I \in {{}, {b}} : /\ index' = [index EXCEPT !.known = @ \cup {b}, !.invalid = @ \cup I]
                             /\ I \subseteq dirty'
  <2>1. CASE AcceptHeader(th, b) \/ IgnoreBlock(th, b)
    <3>1. index' = [index EXCEPT !.known = @ \cup {b}]
      BY <2>1, Zenon DEF AcceptHeader, IgnoreBlock
    <3>2. index' = [index EXCEPT !.known = @ \cup {b}, !.invalid = @ \cup {}]
      BY <3>1, TidyFacts, Zenon DEF Field
    <3> QED BY <2>1, <3>2, Zenon DEF AcceptHeader, IgnoreBlock, Free, Activate, threads
  <2>2. CASE RefuseBlock(th, b)
    BY <2>2, Zenon DEF RefuseBlock, Free, threads
  <2> QED BY <2>1, <2>2, Zenon
<1>2. PICK I \in {{}, {b}} : /\ index' = [index EXCEPT !.known = @ \cup {b}, !.invalid = @ \cup I]
                            /\ I \subseteq dirty'
  BY <1>1, Zenon
<1>3. /\ index'.data = index.data /\ index'.linked = index.linked
      /\ index'.invalid = index.invalid \cup I /\ index'.child = index.child
  BY <1>2, TidyFacts, Zenon DEF Field
<1>4. Stored' /\ Owned'
  BY <1>1, <1>2, <1>3, Zenon DEF Tidy, Stored, Owned, store
<1> QED BY <1>1, <1>3, <1>4, TidyFacts, TidyKept, Zenon

LEMMA StartTidy ==
    ASSUME Inv, Inv', Tidy, NEW th \in Thread, StartStep(th)
    PROVE  Tidy'
<1>0. /\ step = NoStep /\ th \in running
      /\ UNCHANGED <<rank, unlinked, tip, dirty, store>>
  BY Zenon DEF StartStep
<1>1. PICK m \in candidates \cup {NoBlock} :
        LET target == IF most[th] = NoBlock THEN m ELSE most[th] IN
        /\ IF most[th] = NoBlock THEN FindMostWorkChain(m) ELSE UNCHANGED <<index, candidates>>
        /\ IF target \in {NoBlock, tip}
           THEN step' = step
           ELSE /\ running' = running /\ most' = [most EXCEPT ![th] = target]
                /\ step' = [op |-> "activate", thread |-> th, block |-> target, old |-> tip]
  BY Zenon DEF StartStep
<1>2. /\ index'.data = index.data /\ index'.linked = index.linked
      /\ index'.invalid = index.invalid /\ index.child \subseteq index'.child
      /\ candidates' \subseteq candidates
  <2>1. CASE most[th] # NoBlock
    BY <1>1, <2>1, Zenon
  <2>2. CASE most[th] = NoBlock
    <3> DEFINE A == UNION {AboveFailed(c) : c \in Discarded(m)}
    <3>1. index' = [index EXCEPT !.child = @ \cup A] /\ candidates' \subseteq candidates
      BY <1>1, <2>2, Zenon DEF FindMostWorkChain
    <3> HIDE DEF A
    <3> QED BY <3>1, TidyFacts, Zenon DEF Field
  <2> QED BY <2>1, <2>2, Zenon
<1>3. Owned'
  <2> DEFINE target == IF most[th] = NoBlock THEN m ELSE most[th]
  <2>1. CASE target \in {NoBlock, tip}
    BY <1>0, <1>1, <2>1, Zenon DEF Owned
  <2>2. CASE target \notin {NoBlock, tip}
    <3>1. /\ running' = running /\ most' = [most EXCEPT ![th] = target]
          /\ step' = [op |-> "activate", thread |-> th, block |-> target, old |-> tip]
      BY <1>1, <2>2, Zenon
    <3>2. most \in [Thread -> Block \cup {NoBlock}]
      BY Zenon DEF Inv, TypeOK
    <3> HIDE DEF target
    <3> QED BY <1>0, <3>1, <3>2, ZenonT(30) DEF Owned
  <2> QED BY <2>1, <2>2, ZenonT(30)
<1>4. Stored'
  BY <1>0, <1>2, Zenon DEF Tidy, Stored, store
<1> QED BY <1>0, <1>2, <1>3, <1>4, TidyFacts, TidyKept, Zenon

LEMMA DisconnectTidy ==
    ASSUME Inv, Inv', Tidy, DisconnectTip
    PROVE  Tidy'
<1>0. /\ step # NoStep /\ tip \notin Path[step.block] /\ tip' = Parent[tip]
      /\ EndStep(FALSE) \/ UNCHANGED threads
      /\ UNCHANGED <<index, rank, candidates, unlinked, dirty, store>>
  BY ZenonT(30) DEF DisconnectTip, Stepping
<1>1. tip' \in Path[tip]
  BY <1>0, StepFacts, TreeFacts, ParentFacts, ZenonT(30) DEF Inv, TypeOK
<1>2. Stored' /\ Owned'
  BY <1>0, Zenon DEF Tidy, Stored, Owned, store, threads, EndStep
<1> QED BY <1>0, <1>1, <1>2, BackTidy, TidyKept, Zenon

LEMMA ConnectTidy ==
    ASSUME Inv, Inv', Tidy, ConnectTip
    PROVE  Tidy'
<1> DEFINE n == NextOnPath
<1>0. /\ step # NoStep /\ step.op = "activate" /\ tip \in Path[step.block]
      /\ tip' = n /\ index' = [index EXCEPT !.undo = @ \cup {n}] /\ dirty' = dirty \cup {n}
      /\ candidates' = {c \in candidates : ~Worse(c, tip')}
      /\ EndStep(FALSE) \/ UNCHANGED threads
      /\ UNCHANGED <<rank, unlinked, store>>
  BY Zenon DEF ConnectTip, Stepping, PruneBlockIndexCandidates
<1>1. tip \in Block /\ step.block \in index.linked /\ step.block \in Block /\ step.block # tip
  BY <1>0, StepFacts, Zenon DEF Inv, TypeOK, Targets
<1>2. n \in Path[step.block]
  BY <1>0, <1>1, NextFacts, Zenon
<1> HIDE DEF n
<1>3. tip' \in index.linked
  BY <1>0, <1>1, <1>2, TidyFacts, Zenon
<1>4. /\ index'.data = index.data /\ index'.linked = index.linked
      /\ index'.invalid = index.invalid /\ index'.child = index.child
  BY <1>0, TidyFacts, Zenon DEF Field
<1>5. Stored' /\ Owned'
  BY <1>0, <1>4, Zenon DEF Tidy, Stored, Owned, store, threads, EndStep
<1>6. \A c \in candidates' : ~WorseBy(rank, c, tip')
  BY <1>0, Zenon DEF Worse
<1> QED BY <1>0, <1>3, <1>4, <1>5, <1>6, TidyKept, Zenon

LEMMA FailTidy ==
    ASSUME Inv, Inv', Tidy, ConnectFails
    PROVE  Tidy'
<1> DEFINE n == NextOnPath
<1>0. /\ tip' = tip /\ index' = [index EXCEPT !.invalid = @ \cup {n}] /\ dirty' = dirty \cup {n}
      /\ candidates' \subseteq candidates /\ step' = NoStep
      /\ UNCHANGED <<rank, unlinked, store>>
  BY Zenon DEF ConnectFails, EndStep
<1> HIDE DEF n
<1>1. /\ index'.data = index.data /\ index'.linked = index.linked
      /\ index'.invalid = index.invalid \cup {n} /\ index'.child = index.child
  BY <1>0, TidyFacts, Zenon DEF Field
<1>2. Stored' /\ Owned'
  BY <1>0, <1>1, Zenon DEF Tidy, Stored, Owned, store
<1> QED BY <1>0, <1>1, <1>2, TidyFacts, TidyKept, Zenon

LEMMA InvalidateTidy ==
    ASSUME Inv, Inv', Tidy, NEW th \in Thread, NEW b \in Block, InvalidateBlock(th, b)
    PROVE  Tidy'
<1>0. /\ index' = [index EXCEPT !.invalid = @ \cup {b}] /\ dirty' = dirty \cup {b}
      /\ candidates' \subseteq candidates
      /\ step' = [op |-> "invalidate", thread |-> th, block |-> b, old |-> tip]
      /\ UNCHANGED <<rank, unlinked, tip, store>>
  BY Zenon DEF InvalidateBlock
<1>1. /\ index'.data = index.data /\ index'.linked = index.linked
      /\ index'.invalid = index.invalid \cup {b} /\ index'.child = index.child
  BY <1>0, TidyFacts, Zenon DEF Field
<1>2. Stored' /\ Owned'
  BY <1>0, <1>1, Zenon DEF Tidy, Stored, Owned, store
<1> QED BY <1>0, <1>1, <1>2, TidyFacts, TidyKept, Zenon

LEMMA InvalidateTipTidy ==
    ASSUME Inv, Inv', Tidy, InvalidateTip
    PROVE  Tidy'
<1>0. /\ step # NoStep /\ step.op = "invalidate" /\ step.block \in Path[tip]
      /\ index' = [index EXCEPT !.child = @ \cup {tip}] /\ dirty' = dirty \cup {tip}
      /\ candidates' \subseteq candidates /\ tip' = Parent[tip]
      /\ UNCHANGED <<rank, unlinked, threads, store>>
  BY Zenon DEF InvalidateTip, Stepping
<1>1. tip \in Block \ {Genesis}
  BY <1>0, TreeFacts DEF Inv, Targets, TypeOK
<1>2. tip' \in Path[tip]
  BY <1>0, <1>1, ParentFacts, Zenon
<1>3. /\ index'.data = index.data /\ index'.linked = index.linked
      /\ index'.invalid = index.invalid /\ index'.child = index.child \cup {tip}
  BY <1>0, TidyFacts, Zenon DEF Field
<1>4. Stored' /\ Owned'
  BY <1>0, <1>3, Zenon DEF Tidy, Stored, Owned, store, threads
<1> QED BY <1>0, <1>2, <1>3, <1>4, BackTidy, TidyKept, Zenon

LEMMA InvalidateDoneTidy ==
    ASSUME Inv, Inv', Tidy, InvalidateDone
    PROVE  Tidy'
<1>0. /\ step' = NoStep
      /\ candidates' = candidates \cup {c \in index.linked \ Failed : ~Worse(c, tip)}
      /\ UNCHANGED <<index, rank, unlinked, tip, dirty, store>>
  BY Zenon DEF InvalidateDone
<1>1. Stored' /\ Owned'
  BY <1>0, Zenon DEF Tidy, Stored, Owned, store
<1>2. \A c \in candidates' : ~WorseBy(rank, c, tip')
  BY <1>0, TidyFacts DEF Worse
<1> QED BY <1>0, <1>1, <1>2, TidyFacts, TidyKept, Zenon

LEMMA ResetTidy ==
    ASSUME Inv, Inv', Tidy, NEW th \in Thread, NEW b \in Block, ResetBlockFailureFlags(th, b)
    PROVE  Tidy'
<1> DEFINE above == {x \in Failed : b \in Path[x]}
<1>0. /\ step = NoStep
      /\ index' = [index EXCEPT !.invalid = @ \ (above \cup Path[b]),
                                !.child = @ \ (above \cup Path[b])]
      /\ dirty' = dirty \cup above \cup (Failed \cap Path[b])
      /\ candidates' = candidates \cup {x \in above \cap index.linked : Worse(tip, x)}
      /\ UNCHANGED <<rank, unlinked, tip, step, store>>
  BY Zenon DEF ResetBlockFailureFlags, Free, Activate
<1> HIDE DEF above
<1>1. /\ index'.data = index.data /\ index'.linked = index.linked
      /\ index'.invalid = index.invalid \ (above \cup Path[b])
      /\ index'.child = index.child \ (above \cup Path[b])
  BY <1>0, TidyFacts, Zenon DEF Field
<1>2. Stored'
  <2>1. Failed = index.invalid \cup index.child
    BY Zenon DEF Failed
  <2> QED BY <1>0, <1>1, <2>1, Zenon DEF Tidy, Stored, store
<1>3. Owned'
  BY <1>0, Zenon DEF Owned
<1>4. \A c \in candidates' : ~WorseBy(rank, c, tip')
  BY <1>0, TidyFacts, Order, Zenon DEF Worse
<1> QED BY <1>0, <1>1, <1>2, <1>3, <1>4, TidyFacts, TidyKept, Zenon

LEMMA WriteIndexTidy ==
    ASSUME Inv, Inv', Tidy, NEW full \in BOOLEAN, WriteIndex(full)
    PROVE  Tidy' /\ disk'.invalid = index.invalid /\ disk'.child \subseteq index.child
<1>0. /\ disk' = Written /\ dirty' = {}
      /\ UNCHANGED <<index, rank, candidates, unlinked, tip, threads>>
  BY Zenon DEF WriteIndex
<1>1. /\ disk'.invalid = (disk.invalid \ dirty) \cup (index.invalid \cap dirty)
      /\ disk'.child = (disk.child \ dirty) \cup (index.child \cap dirty)
  BY <1>0, Zenon DEF Written, Field
<1>2. disk'.invalid = index.invalid /\ disk'.child \subseteq index.child
  BY <1>1, Zenon DEF Tidy, Stored
<1>3. Stored' /\ Owned'
  BY <1>0, <1>2, Zenon DEF Tidy, Stored, Owned, threads
<1> QED BY <1>0, <1>2, <1>3, TidyFacts, TidyKept, Zenon

LEMMA WriteCoinsTidy ==
    ASSUME Inv, Inv', Tidy, WriteCoins
    PROVE  Tidy'
<1>0. UNCHANGED <<mem, threads, disk>>
  BY Zenon DEF WriteCoins
<1>1. Stored' /\ Owned'
  BY <1>0, Zenon DEF Tidy, Stored, Owned, mem, threads
<1>2. UNCHANGED <<index, rank, unlinked, tip, candidates>>
  BY <1>0, Zenon DEF mem
<1> QED BY <1>1, <1>2, TidyFacts, TidyKept, Zenon

\* LoadBlockIndexDB links what has all its data; the coins' block is among it.
LEMMA RestartFacts ==
    ASSUME Inv, Restart
    PROVE  /\ index'.linked = Linkable(disk.known, disk.data)
           /\ index'.linked = {x \in Block : Path[x] \subseteq disk.data}
           /\ index'.known = disk.known /\ index'.data = disk.data /\ index'.undo = disk.undo
           /\ index'.invalid = disk.invalid /\ index'.child = disk.child
           /\ unlinked' = disk.data \ index'.linked
           /\ diskBest \in index'.linked /\ tip' = diskBest
           /\ candidates' = {c \in index'.linked \ (disk.invalid \cup disk.child) :
                                ~WorseBy(rank', c, diskBest)}
           /\ \A x \in index'.linked : rank'[x] <= 0 /\ rank'[x] \in Int
           /\ \A x, y \in index'.linked : x # y /\ Work[x] = Work[y] => rank'[x] # rank'[y]
<1> DEFINE L == Linkable(disk.known, disk.data)
<1>0. /\ index' = [disk EXCEPT !.linked = L] /\ unlinked' = disk.data \ L /\ tip' = diskBest
  BY Zenon DEF Restart
<1>1. PICK r \in [L -> 1 - Width .. 0] :
        /\ \A x, y \in L : x # y /\ Work[x] = Work[y] => r[x] # r[y]
        /\ rank' = [x \in Block |-> IF x \in L THEN r[x] ELSE 0]
        /\ candidates' = {c \in L \ (disk.invalid \cup disk.child) : ~WorseBy(rank', c, diskBest)}
  BY Zenon DEF Restart
<1>2. /\ disk \in [Field -> Tree] /\ disk.known \subseteq Block /\ disk.data \subseteq disk.known
      /\ diskBest \in Block /\ Path[diskBest] \subseteq disk.data
  BY Fields, Zenon DEF Inv, TypeOK, OnDisk, DiskContinues
<1>3. L = {x \in Block : Path[x] \subseteq disk.data}
  BY <1>2, TreeFacts, Zenon DEF Linkable
<1>4. \A x \in L : r[x] \in Int /\ r[x] <= 0
  BY SMTT(30)
<1> HIDE DEF L
<1>5. \A x \in L : rank'[x] = r[x]
  BY <1>1, <1>3, Zenon
<1>6. /\ index'.linked = L /\ index'.known = disk.known /\ index'.data = disk.data
      /\ index'.undo = disk.undo /\ index'.invalid = disk.invalid /\ index'.child = disk.child
  BY <1>0, <1>2, Zenon DEF Field
<1>7. diskBest \in L
  BY <1>2, <1>3, Zenon
<1>8. /\ \A x \in L : rank'[x] <= 0 /\ rank'[x] \in Int
      /\ \A x, y \in L : x # y /\ Work[x] = Work[y] => rank'[x] # rank'[y]
  BY <1>1, <1>4, <1>5, Zenon
<1> QED BY <1>0, <1>1, <1>3, <1>6, <1>7, <1>8 DEF L

LEMMA RestartTidy ==
    ASSUME Counting, Inv, Inv', Tidy, Restart
    PROVE  Tidy'
<1> DEFINE L == index'.linked
<1>1. disk' = disk /\ dirty' = {} /\ step' = NoStep
  BY Zenon DEF Restart
<1>2. L \in SUBSET Block
  BY Fields, Zenon DEF Inv, TypeOK
<1>3. Ordered'
  <2>1. \A x \in L : Cardinality(Same(L, x)) \in Nat
    BY <1>2, SameCount, Zenon
  <2>2. \A x \in L : rank'[x] <= Cardinality(Same(L, x))
    BY <2>1, RestartFacts, SMTT(30)
  <2> QED BY <2>2, RestartFacts, Zenon DEF Ordered, Same
<1>4. Pruned'
  BY RestartFacts, SMTT(30) DEF Pruned, Worse
<1>5. Waiting'
  <2>1. \A x \in unlinked' : x \in Block /\ ~(Path[x] \subseteq disk.data)
    BY RestartFacts, Fields, Zenon DEF Inv, TypeOK
  <2> QED BY <2>1, RestartFacts, Zenon DEF Waiting
<1>6. Closed'
  BY RestartFacts, TreeFacts, ZenonT(30) DEF Closed
<1>7. Stored' /\ Owned'
  BY <1>1, RestartFacts, Zenon DEF Stored, Owned
<1> QED BY <1>3, <1>4, <1>5, <1>6, <1>7, Zenon DEF Tidy

LEMMA InitTidy ==
    ASSUME Counting, Init
    PROVE  Tidy
<1>0. /\ index = [f \in Field |-> IF f \in {"known", "data", "linked"} THEN {Genesis} ELSE {}]
      /\ disk = index /\ rank = [b \in Block |-> 0] /\ candidates = {Genesis} /\ unlinked = {}
      /\ tip = Genesis /\ step = NoStep
  BY Zenon DEF Init
<1>1. index.linked = {Genesis} /\ index.data = {Genesis} /\ rank[Genesis] = 0
  BY <1>0, TreeFacts, Zenon DEF Field
<1>2. Ordered
  <2>1. index.linked \in SUBSET Block
    BY <1>1, TreeFacts, Zenon
  <2>2. Cardinality(Same(index.linked, Genesis)) \in Nat
    BY <2>1, SameCount, Zenon
  <2> QED BY <1>1, <2>2 DEF Ordered
<1>3. Pruned
  <2>1. rank \in [Block -> Int]
    BY <1>0
  <2> QED BY <1>0, <2>1, Order, TreeFacts DEF Pruned, Worse
<1>4. Waiting /\ Closed
  BY <1>0, <1>1, TreeFacts, Zenon DEF Waiting, Closed
<1>5. Stored /\ Owned
  BY <1>0, Zenon DEF Stored, Owned
<1> QED BY <1>2, <1>3, <1>4, <1>5, Zenon DEF Tidy

LEMMA NextTidy ==
    ASSUME Counting, Inv, Inv', Tidy, [Next]_vars
    PROVE  Tidy'
<1>1. ASSUME NEW th \in Thread, StartStep(th) PROVE Tidy'
  BY <1>1, StartTidy, Zenon
<1>2. ASSUME NEW th \in Thread, NEW b \in Block, Process(th, b) PROVE Tidy'
  BY <1>2, HeaderTidy, ReceivedTidy, InvalidateTidy, ResetTidy, Zenon DEF Process
<1>3. ASSUME Progress PROVE Tidy'
  BY <1>3, DisconnectTidy, ConnectTidy, FailTidy, InvalidateTipTidy, InvalidateDoneTidy,
     WriteCoinsTidy, Zenon DEF Progress
<1>4. ASSUME NEW full \in BOOLEAN, WriteIndex(full) PROVE Tidy'
  BY <1>4, WriteIndexTidy, Zenon
<1>5. ASSUME Restart PROVE Tidy'
  BY <1>5, RestartTidy, ZenonT(30)
<1>6. ASSUME UNCHANGED vars PROVE Tidy'
  BY <1>6, Zenon DEF Tidy, Ordered, Same, Pruned, Worse, Waiting, Stored, Closed, Owned,
              vars, mem, threads, store
<1> QED BY <1>1, <1>2, <1>3, <1>4, <1>5, <1>6, Zenon DEF Next
----------------------------------------------------------------------------
(* As long as nothing irregular has happened, the best chain gets active.  *)

Clean(b) == Path[b] \cap index.invalid = {}
Activating == step # NoStep /\ step.op = "activate"
Invalidating == step # NoStep /\ step.op = "invalidate"

\* Only an invalid block makes blocks fail.
Marked(i) == \A b \in i.invalid \cup i.child : Path[b] \cap i.invalid # {}

\* What could be linked is linked, and what has no invalid ancestor waits.
Linked ==
    /\ \A b \in Block : Path[b] \subseteq index.data /\ Clean(b) => b \in index.linked
    /\ \A b \in index.data \ index.linked : Clean(b) => b \in unlinked

\* Blocks that are no candidates are worse than the tip, or than a clean block
\* that has been connected (a former tip, while the chain is reorganised).
Covers(ref) ==
    /\ ref \in index.linked /\ Clean(ref) /\ Path[ref] \ {Genesis} \subseteq index.undo
    /\ \A b \in index.linked \ Failed :
          b \in candidates \/ Worse(b, ref) \/ Worse(b, tip)

\* The active chain is clean, but for the block being invalidated.
Covered ==
    /\ ~Invalidating => Clean(tip) /\ \E ref \in Block : Covers(ref)
    /\ Invalidating => Path[tip] \cap index.invalid \subseteq {step.block}

\* A step works towards the best clean candidate.
Aimed ==
    Activating => /\ step.block \in candidates /\ Clean(step.block)
                  /\ \A c \in candidates : Clean(c) => c = step.block \/ Worse(c, step.block)

\* When no thread is left, nothing clean is better than the tip.
Settled ==
    running = {} /\ step = NoStep => \A b \in index.linked : Clean(b) => ~Worse(tip, b)

Orderly == ~aborted /\ Marked(index) /\ Marked(disk) /\ Linked /\ Covered /\ Aimed /\ Settled

LEMMA CleanFacts ==
    ASSUME Marked(index), NEW b \in Block, Clean(b)
    PROVE  b \notin Failed /\ Path[b] \cap Failed = {} /\ \A a \in Path[b] : Clean(a)
<1>1. \A a \in Path[b] : Clean(a)
  BY TreeFacts, Zenon DEF Clean
<1>2. \A a \in Path[b] : a \notin Failed
  BY <1>1, Zenon DEF Marked, Clean, Failed
<1> QED BY <1>1, <1>2, TreeFacts, Zenon

\* A clean block not worse than the tip has a candidate as good as it.
LEMMA GoodCandidate ==
    ASSUME Inv, Tidy, Orderly, ~Invalidating,
           NEW b \in index.linked, Clean(b), ~WorseBy(rank, b, tip)
    PROVE  \E c \in candidates : Clean(c) /\ ~WorseBy(rank, c, b)
<1>1. PICK ref \in Block : Covers(ref)
  BY Zenon DEF Orderly, Covered
<1>2. /\ b \in Block /\ tip \in Block /\ rank \in [Block -> Int]
      /\ ref \in index.linked /\ Clean(ref)
  BY <1>1, TidyFacts, Zenon DEF Covers
<1>3. b \notin Failed /\ ref \notin Failed
  BY <1>2, CleanFacts, Zenon DEF Orderly
<1>4. CASE b \in candidates
  BY <1>2, <1>4, Order, Zenon
<1>5. CASE b \notin candidates
  <2>1. WorseBy(rank, b, ref)
    BY <1>1, <1>3, <1>5, Zenon DEF Covers, Worse
  <2>2. ~WorseBy(rank, ref, tip) /\ ~WorseBy(rank, ref, ref) /\ ~WorseBy(rank, ref, b)
    BY <1>2, <2>1, Order, OrderTransitive, Zenon
  <2>3. ref \in candidates
    BY <1>1, <1>2, <1>3, <2>2, Zenon DEF Covers, Worse
  <2> QED BY <1>2, <2>2, <2>3, Zenon
<1> QED BY <1>4, <1>5, Zenon

\* A step by which no more blocks are linked or known to fail.
LEMMA HeaderOrderly ==
    ASSUME Inv, Tidy, Orderly, NEW th \in Thread, NEW b \in Block,
           AcceptHeader(th, b) \/ IgnoreBlock(th, b)
    PROVE  Orderly'
<1>1. /\ step = NoStep /\ running \subseteq running'
      /\ UNCHANGED <<rank, candidates, unlinked, tip, step, store, aborted>>
      /\ index' = [index EXCEPT !.known = @ \cup {b}]
  BY DEF AcceptHeader, IgnoreBlock, Free, Activate, threads
<1>2. /\ index'.data = index.data /\ index'.linked = index.linked /\ index'.undo = index.undo
      /\ index'.invalid = index.invalid /\ index'.child = index.child
  BY <1>1, TidyFacts DEF Field
<1>3. ~aborted' /\ Marked(index)' /\ Marked(disk)'
  BY <1>1, <1>2 DEF Orderly, Marked, store
<1>4. Linked'
  BY <1>1, <1>2, Zenon DEF Orderly, Linked, Clean
<1>5. Covered'
  BY <1>1, <1>2 DEF Orderly, Covered, Covers, Clean, Worse, Failed, Invalidating
<1>6. Aimed' /\ Settled'
  BY <1>1, <1>2, Zenon DEF Orderly, Aimed, Settled, Clean, Worse, Activating
<1> QED BY <1>3, <1>4, <1>5, <1>6, Zenon DEF Orderly

LEMMA RefuseOrderly ==
    ASSUME Inv, Tidy, Orderly, NEW th \in Thread, NEW b \in Block, RefuseBlock(th, b)
    PROVE  Orderly'
<1>1. /\ step = NoStep /\ b \notin index.data
      /\ UNCHANGED <<rank, candidates, unlinked, tip, threads, store, aborted>>
      /\ index' = [index EXCEPT !.known = @ \cup {b}, !.invalid = @ \cup {b}]
  BY DEF RefuseBlock, Free
<1>2. /\ index'.data = index.data /\ index'.linked = index.linked /\ index'.undo = index.undo
      /\ index'.invalid = index.invalid \cup {b} /\ index'.child = index.child
  BY <1>1, TidyFacts DEF Field
<1>3. \A x \in index.linked : b \notin Path[x]
  BY <1>1, TidyFacts, Zenon
<1>4. ~aborted' /\ Marked(index)' /\ Marked(disk)'
  <2>1. \A x \in index'.invalid \cup index'.child : Path[x] \cap index'.invalid # {}
    BY <1>2, TreeFacts DEF Orderly, Marked
  <2> QED BY <1>1, <2>1, Zenon DEF Orderly, Marked, store
<1>5. Linked'
  BY <1>1, <1>2 DEF Orderly, Linked, Clean
<1>6. Covered'
  <2>1. PICK ref \in Block : Covers(ref)
    BY <1>1, SMTT(30) DEF Orderly, Covered, Invalidating
  <2>2. Covers(ref)'
    BY <1>1, <1>2, <1>3, <2>1, Zenon DEF Covers, Clean, Worse, Failed
  <2>3. Clean(tip)'
    BY <1>1, <1>2, <1>3, TidyFacts DEF Orderly, Covered, Clean, Invalidating
  <2> QED BY <1>1, <2>2, <2>3 DEF Covered, Invalidating, threads
<1>7. Aimed' /\ Settled'
  BY <1>1, <1>2, Zenon DEF Orderly, Aimed, Settled, Clean, Worse, Activating, threads
<1> QED BY <1>4, <1>5, <1>6, <1>7 DEF Orderly

LEMMA ReceivedOrderly ==
    ASSUME Inv, Tidy, Orderly, NEW th \in Thread, NEW b \in Block, AcceptBlock(th, b)
    PROVE  Orderly'
<1> DEFINE L == NewlyLinked(b)
<1>0. /\ b \notin index.data /\ step = NoStep /\ th \in running'
      /\ index' = [index EXCEPT !.known = @ \cup {b}, !.data = @ \cup {b}, !.linked = @ \cup L]
      /\ candidates' = candidates \cup {x \in L : ~WorseBy(rank', x, tip)}
      /\ unlinked' = IF L # {} THEN unlinked \ L
                     ELSE IF Parent[b] \in Failed THEN unlinked ELSE unlinked \cup {b}
      /\ UNCHANGED <<tip, step, store, aborted>>
  BY DEF AcceptBlock, Free, ReceivedBlockTransactions, Activate
<1>1. PICK r \in Ranks(L) : rank' = [x \in Block |-> IF x \in L THEN r[x] ELSE rank[x]]
  BY Zenon DEF AcceptBlock, ReceivedBlockTransactions
<1>2. /\ Parent[b] \in Block /\ Parent[b] \in Path[b]
      /\ Path[b] = Path[Parent[b]] \cup {b} /\ b \notin Path[Parent[b]]
      /\ L \in SUBSET Block /\ L \subseteq unlinked \cup {b} /\ L \cap index.linked = {}
      /\ L # {} <=> Parent[b] \in index.linked
      /\ L # {} => b \in L
      /\ \A x \in unlinked : L # {} /\ b \in Path[x] /\ Path[x] \ Path[b] \subseteq unlinked => x \in L
      /\ \A x \in index.linked : b \notin Path[x]
  BY <1>0, Arrival, Zenon
<1> HIDE DEF L
<1>3. /\ index'.data = index.data \cup {b} /\ index'.linked = index.linked \cup L
      /\ index'.invalid = index.invalid /\ index'.child = index.child /\ index'.undo = index.undo
  BY <1>0, TidyFacts, Zenon DEF Field
<1>4. ~aborted' /\ Marked(index)' /\ Marked(disk)'
  BY <1>0, <1>3, Zenon DEF Orderly, Marked, store
<1>5. ASSUME NEW x \in Block, Path[x] \subseteq index'.data, Clean(x)
      PROVE  x \in index'.linked
  <2>1. CASE b \notin Path[x]
    BY <1>3, <1>5, <2>1, ZenonT(30) DEF Orderly, Linked
  <2>2. CASE b \in Path[x]
    <3>1. Path[b] \subseteq Path[x] /\ x \in Path[x] /\ Path[x] \subseteq Block
      BY <2>2, TreeFacts, Zenon
    <3>2. Parent[b] \in index.linked
      <4>1. Path[Parent[b]] \subseteq index.data /\ Clean(Parent[b])
        BY <1>2, <1>3, <1>5, <3>1, Zenon DEF Clean
      <4> QED BY <1>2, <4>1, Zenon DEF Orderly, Linked
    <3>3. ASSUME NEW y \in Path[x] \ Path[b] PROVE y \in unlinked
      <4>1. y \in Block /\ b \in Path[y] /\ y # b
        BY <2>2, <3>1, <3>3, Comparable, TreeFacts, Zenon
      <4>2. y \in index.data \ index.linked
        BY <1>2, <1>3, <1>5, <4>1, Zenon
      <4>3. Clean(y)
        BY <1>5, TreeFacts, Zenon DEF Clean
      <4> QED BY <4>2, <4>3, Zenon DEF Orderly, Linked
    <3>4. x = b \/ x \in Path[x] \ Path[b]
      BY <2>2, <3>1, Below, Zenon
    <3> QED BY <1>2, <1>3, <2>2, <3>2, <3>3, <3>4, Zenon
  <2> QED BY <2>1, <2>2
<1>6. ASSUME NEW x \in index'.data \ index'.linked, Clean(x)
      PROVE  x \in unlinked'
  <2>1. CASE x # b
    BY <1>0, <1>3, <1>6, <2>1 DEF Orderly, Linked
  <2>2. CASE x = b
    <3>1. Parent[b] \notin Failed
      BY <1>2, <1>6, <2>2, CleanFacts, Zenon DEF Orderly
    <3> QED BY <1>0, <1>2, <1>3, <2>2, <3>1, Zenon
  <2> QED BY <2>1, <2>2
<1>7. Linked'
  BY <1>3, <1>5, <1>6, ZenonT(30) DEF Linked, Clean
<1>8. \A x \in index.linked : rank'[x] = rank[x]
  BY <1>1, <1>2, TidyFacts
<1>9. Covered'
  <2>1. Clean(tip) /\ ~Invalidating
    BY <1>0, Zenon DEF Orderly, Covered, Invalidating
  <2>2. PICK ref \in Block : Covers(ref)
    BY <2>1, Zenon DEF Orderly, Covered
  <2>3. ref \in index.linked /\ tip \in index.linked
    BY <2>2, TidyFacts, ZenonT(30) DEF Covers
  <2>4. \A x \in index.linked : /\ WorseBy(rank', x, ref) = WorseBy(rank, x, ref)
                               /\ WorseBy(rank', x, tip) = WorseBy(rank, x, tip)
    BY <1>8, <2>3, OrderSame
  <2>5. \A x \in index'.linked \ Failed :
          x \in candidates' \/ WorseBy(rank', x, ref) \/ WorseBy(rank', x, tip)
    BY <1>0, <1>3, <2>2, <2>4 DEF Covers, Worse
  <2>6. Covers(ref)'
    BY <1>0, <1>3, <2>2, <2>5 DEF Covers, Clean, Worse, Failed
  <2> QED BY <1>0, <1>3, <2>1, <2>6 DEF Covered, Clean, Invalidating
<1>10. Aimed' /\ Settled'
  BY <1>0 DEF Aimed, Settled, Activating
<1> QED BY <1>4, <1>7, <1>9, <1>10 DEF Orderly

\* FindMostWorkChain marks and discards only blocks with an invalid ancestor,
\* and what it discards is marked.
LEMMA FindFacts ==
    ASSUME Inv, Tidy, Orderly, step = NoStep, NEW m, IsMostWork(m), FindMostWorkChain(m)
    PROVE  /\ index'.data = index.data /\ index'.linked = index.linked
           /\ index'.undo = index.undo /\ index'.invalid = index.invalid
           /\ index.child \subseteq index'.child
           /\ \A x \in index'.child \ index.child : x \in Block /\ ~Clean(x)
           /\ candidates' \subseteq candidates
           /\ \A x \in candidates \ candidates' :
                 ~Clean(x) /\ x \in index'.invalid \cup index'.child
<1> DEFINE A == UNION {AboveFailed(c) : c \in Discarded(m)}
           D == UNION {AboveFailed(c) \cup TopFailed(c) : c \in Discarded(m)}
<1>0. index' = [index EXCEPT !.child = @ \cup A] /\ candidates' = candidates \ D
  BY Zenon DEF FindMostWorkChain
<1>1. ASSUME NEW c \in Discarded(m) PROVE c \in Block /\ Between(c) \cap Failed # {}
  <2>1. c \in candidates /\ c \in Block /\ rank \in [Block -> Int] /\ candidates \subseteq Block
    BY TidyFacts, Zenon DEF Discarded
  <2>2. SUFFICES ASSUME Usable(c) PROVE FALSE
    BY <2>1, Zenon DEF Usable
  <2>3. m # NoBlock /\ m \in candidates /\ (c # m => Worse(c, m))
    <3>1. {d \in candidates : Usable(d)} # {}
      BY <2>1, <2>2, Zenon
    <3>2. m \in candidates /\ \A d \in {e \in candidates : Usable(e)} \ {m} : Worse(d, m)
      BY <3>1, Zenon DEF IsMostWork
    <3> QED BY <2>1, <2>2, <3>2, ChainAssumption
  <2>4. c # m /\ Worse(m, c)
    BY <2>3, Zenon DEF Discarded
  <2> QED BY <2>1, <2>3, <2>4, Order, Zenon DEF Worse
<1>2. ASSUME NEW c \in Discarded(m), NEW x \in AboveFailed(c) \cup TopFailed(c)
      PROVE  x \in Block /\ ~Clean(x)
  <2>1. x \in Path[c] /\ Between(c) \cap Failed \subseteq Path[x]
    BY Zenon DEF AboveFailed, TopFailed, Between
  <2>2. x \in Block /\ Path[x] \cap Failed # {}
    BY <1>1, <2>1, TreeFacts, ZenonT(30)
  <2> QED BY <2>2, CleanFacts, Zenon DEF Orderly
<1>3. \A x \in A : x \in Block /\ ~Clean(x)
  <2> SUFFICES ASSUME NEW x \in A PROVE x \in Block /\ ~Clean(x)
    BY Zenon
  <2>1. PICK c \in Discarded(m) : x \in AboveFailed(c)
    BY Zenon
  <2> QED BY <1>2, <2>1, Zenon
<1>4. \A x \in D : ~Clean(x) /\ (x \in A \/ x \in Failed)
  BY <1>2 DEF TopFailed
<1> HIDE DEF A, D
<1>5. /\ index'.data = index.data /\ index'.linked = index.linked
      /\ index'.undo = index.undo /\ index'.invalid = index.invalid
      /\ index'.child = index.child \cup A
  BY <1>0, TidyFacts, Zenon DEF Field
<1> QED BY <1>0, <1>3, <1>4, <1>5 DEF Failed

\* Towards what FindMostWorkChain goes is a clean candidate, better than all others.
LEMMA MostWork ==
    ASSUME Inv, Tidy, Orderly, step = NoStep, NEW m, IsMostWork(m)
    PROVE  /\ m # NoBlock => m \in candidates /\ Clean(m)
           /\ \A c \in candidates : Clean(c) => m # NoBlock /\ (c = m \/ Worse(c, m))
<1>1. Clean(tip)
  BY Zenon DEF Orderly, Covered, Invalidating
<1>2. \A c \in candidates : c \in Block /\ c # NoBlock
  <2>1. candidates \subseteq Block
    BY TidyFacts, Zenon
  <2>2. NoBlock \notin Block
    BY ChainAssumption, Zenon
  <2> QED BY <2>1, <2>2, Zenon
<1>3. \A c \in candidates : Usable(c) <=> Clean(c)
  <2> SUFFICES ASSUME NEW c \in candidates PROVE Usable(c) <=> Clean(c)
    BY Zenon
  <2>1. Usable(c) => Clean(c)
    BY <1>1, Zenon DEF Usable, Between, Clean, Failed
  <2>2. Clean(c) => Usable(c)
    BY <1>2, CleanFacts, Zenon DEF Orderly, Usable, Between
  <2> QED BY <2>1, <2>2
<1> DEFINE usable == {c \in candidates : Usable(c)}
<1>4. IF usable = {} THEN m = NoBlock ELSE m \in usable /\ \A d \in usable \ {m} : Worse(d, m)
  BY Zenon DEF IsMostWork
<1> QED BY <1>2, <1>3, <1>4, Zenon

LEMMA StartOrderly ==
    ASSUME Inv, Tidy, Orderly, NEW th \in Thread, StartStep(th), regular'
    PROVE  Orderly'
<1>0. /\ step = NoStep /\ th \in running
      /\ UNCHANGED <<rank, unlinked, tip, store, aborted>>
  BY Zenon DEF StartStep
<1>1. PICK m \in candidates \cup {NoBlock} :
        LET target == IF most[th] = NoBlock THEN m ELSE most[th] IN
        /\ IsMostWork(m)
        /\ IF most[th] = NoBlock THEN FindMostWorkChain(m) ELSE UNCHANGED <<index, candidates>>
        /\ regular' = (regular /\ most[th] \in {NoBlock, m})
        /\ IF target \in {NoBlock, tip}
           THEN step' = step
           ELSE /\ running' = running
                /\ step' = [op |-> "activate", thread |-> th, block |-> target, old |-> tip]
  BY Zenon DEF StartStep
<1>2. /\ IsMostWork(m)
      /\ FindMostWorkChain(m) \/ UNCHANGED <<index, candidates>>
      /\ \/ m \in {NoBlock, tip} /\ step' = NoStep
         \/ /\ m \notin {NoBlock, tip} /\ th \in running'
            /\ step' = [op |-> "activate", thread |-> th, block |-> m, old |-> tip]
  BY <1>0, <1>1, Zenon
<1>3. /\ index'.data = index.data /\ index'.linked = index.linked
      /\ index'.undo = index.undo /\ index'.invalid = index.invalid
      /\ index.child \subseteq index'.child
      /\ \A x \in index'.child \ index.child : x \in Block /\ ~Clean(x)
      /\ candidates' \subseteq candidates
      /\ \A x \in candidates \ candidates' :
            ~Clean(x) /\ x \in index'.invalid \cup index'.child
  BY <1>0, <1>2, FindFacts, Zenon
<1>4. ~aborted' /\ Marked(index)' /\ Marked(disk)'
  BY <1>0, <1>3, ZenonT(30) DEF Orderly, Marked, Clean, store
<1>5. Linked'
  BY <1>0, <1>3, ZenonT(30) DEF Orderly, Linked, Clean
<1>6. Clean(tip) /\ ~Invalidating
  BY <1>0 DEF Orderly, Covered, Invalidating
<1>7. Covered'
  <2>1. PICK ref \in Block : Covers(ref)
    BY <1>6, Zenon DEF Orderly, Covered
  <2>2. Covers(ref)'
    BY <1>0, <1>3, <2>1, Zenon DEF Covers, Clean, Worse, Failed
  <2>3. ~Invalidating'
    BY <1>2, SMTT(30) DEF Invalidating
  <2> QED BY <1>0, <1>3, <1>6, <2>2, <2>3, Zenon DEF Covered, Clean
<1>8. Aimed'
  <2> SUFFICES ASSUME Activating' PROVE Aimed'
    BY Zenon DEF Aimed
  <2>1. m \notin {NoBlock, tip} /\ step'.block = m
    BY <1>2 DEF Activating
  <2>2. m \in candidates /\ Clean(m) /\ \A c \in candidates : Clean(c) => c = m \/ Worse(c, m)
    BY <1>0, <1>2, <2>1, MostWork, Zenon
  <2>3. m \in candidates'
    BY <1>3, <2>2, ZenonT(30)
  <2> QED BY <1>0, <1>3, <2>1, <2>2, <2>3, Zenon DEF Aimed, Clean, Worse
<1>9. Settled'
  <2> SUFFICES ASSUME m \in {NoBlock, tip}, NEW b \in index.linked, Clean(b), WorseBy(rank, tip, b)
               PROVE  FALSE
    BY <1>0, <1>2, <1>3, Zenon DEF Settled, Clean, Worse
  <2>1. /\ b \in Block /\ tip \in Block /\ rank \in [Block -> Int]
        /\ candidates \subseteq Block
    BY TidyFacts, ZenonT(30)
  <2>2. PICK c \in candidates : Clean(c) /\ ~WorseBy(rank, c, b)
    BY <1>6, <2>1, GoodCandidate, Order
  <2>3. m = tip /\ (c = tip \/ WorseBy(rank, c, tip))
    BY <1>0, <1>2, <2>2, MostWork, Zenon DEF Worse
  <2> QED BY <2>1, <2>2, <2>3, OrderTransitive
<1> QED BY <1>4, <1>5, <1>7, <1>8, <1>9, Zenon DEF Orderly

LEMMA DisconnectOrderly ==
    ASSUME Inv, Tidy, Orderly, DisconnectTip
    PROVE  Orderly'
<1>0. /\ Activating /\ tip \notin Path[step.block] /\ tip' = Parent[tip]
      /\ tip' = step.block \/ UNCHANGED threads
      /\ UNCHANGED <<index, rank, candidates, unlinked, store, aborted>>
  BY Zenon DEF DisconnectTip, Stepping, Activating
<1>1. /\ tip \in Block \ {Genesis} /\ step.block \in Block /\ rank \in [Block -> Int]
      /\ tip \in index.linked /\ step.block \in candidates
  BY <1>0, StepFacts, TreeFacts, TidyFacts, Zenon DEF Orderly, Aimed, Activating, Inv, TypeOK
<1>2. tip' \in Path[tip] /\ tip' # tip /\ Path[tip'] \subseteq Path[tip]
  BY <1>0, <1>1, ParentFacts, TreeFacts, ZenonT(30)
<1>3. tip' # step.block
  <2>1. Work[tip] <= Work[step.block] /\ Work[tip] \in Nat /\ Work[step.block] \in Nat
    BY <1>1, Order, TidyFacts, TreeFacts, Zenon
  <2>2. Work[tip'] < Work[tip]
    BY <1>1, <1>2, Below, Zenon
  <2> QED BY <2>1, <2>2, NotBelow, Zenon
<1>4. step' = step /\ running' = running
  BY <1>0, <1>3 DEF threads
<1>5. ~Invalidating /\ Clean(tip)
  BY <1>0, Zenon DEF Orderly, Covered, Activating, Invalidating
<1>6. PICK ref \in Block : Covers(ref)
  BY <1>5, Zenon DEF Orderly, Covered
<1>7. Covered'
  <2>1. CASE WorseBy(rank, ref, tip)
    <3>1. \A b \in index.linked \ Failed : b \in candidates \/ WorseBy(rank, b, tip)
      BY <1>1, <1>6, <2>1, OrderTransitive, TidyFacts, Zenon DEF Covers, Worse
    <3>2. Path[tip] \ {Genesis} \subseteq index.undo
      BY <1>1, <1>5, ZenonT(30) DEF Inv, Active
    <3>3. \E x \in Block : Covers(x)'
      BY <1>0, <1>1, <1>5, <3>1, <3>2 DEF Covers, Clean, Worse, Failed
    <3> QED BY <1>0, <1>2, <1>4, <1>5, <3>3, ZenonT(30) DEF Covered, Clean, Invalidating
  <2>2. CASE ~WorseBy(rank, ref, tip)
    <3>1. \A b \in index.linked \ Failed : b \in candidates \/ WorseBy(rank, b, ref)
      BY <1>1, <1>6, <2>2, OrderTransitive, TidyFacts DEF Covers, Worse
    <3>2. Covers(ref)'
      BY <1>0, <1>6, <3>1, ZenonT(30) DEF Covers, Clean, Worse, Failed
    <3> QED BY <1>0, <1>2, <1>4, <1>5, <3>2, ZenonT(30) DEF Covered, Clean, Invalidating
  <2> QED BY <2>1, <2>2
<1>8. ~aborted' /\ Marked(index)' /\ Marked(disk)' /\ Linked'
  BY <1>0, Zenon DEF Orderly, Marked, Linked, Clean, store
<1>9. Aimed' /\ Settled'
  BY <1>0, <1>4, Zenon DEF Orderly, Aimed, Settled, Activating, Clean, Worse
<1> QED BY <1>7, <1>8, <1>9, ZenonT(30) DEF Orderly

LEMMA ConnectOrderly ==
    ASSUME Inv, Tidy, Orderly, ConnectTip
    PROVE  Orderly'
<1> DEFINE n == NextOnPath
<1>0. /\ Activating /\ tip \in Path[step.block]
      /\ tip' = n /\ index' = [index EXCEPT !.undo = @ \cup {n}]
      /\ candidates' = {c \in candidates : ~Worse(c, tip')} /\ aborted' = (candidates' = {})
      /\ UNCHANGED threads \/ EndStep(FALSE)
      /\ UNCHANGED <<rank, unlinked, store>>
  BY Zenon DEF ConnectTip, Stepping, PruneBlockIndexCandidates, Activating
<1>1. /\ tip \in Block /\ step.block \in Block /\ step.block # tip /\ rank \in [Block -> Int]
      /\ step.block \in candidates /\ Clean(step.block)
      /\ \A c \in candidates : Clean(c) => c = step.block \/ Worse(c, step.block)
      /\ most[step.thread] = step.block /\ step.thread \in running
  BY <1>0, StepFacts, TidyFacts, SMTT(30) DEF Orderly, Aimed, Activating, Inv, Targets, Tidy, Owned
<1>2. n \in Block /\ n \in Path[step.block] /\ Path[n] = Path[tip] \cup {n} /\ n # tip
  <2>1. /\ n \in Block \ {Genesis} /\ n \in Path[step.block] /\ Path[n] = Path[tip] \cup {n}
        /\ Parent[n] = tip
    <3>1. n # Genesis /\ Parent[n] = tip
      BY <1>0, <1>1, Successor DEF NextOnPath
    <3> QED BY <1>0, <1>1, <3>1, NextFacts, Zenon
  <2> QED BY <2>1, ParentFacts, TreeFacts
<1> HIDE DEF n
<1>3. /\ index'.data = index.data /\ index'.linked = index.linked
      /\ index'.undo = index.undo \cup {n} /\ index'.invalid = index.invalid
      /\ index'.child = index.child
  BY <1>0, TidyFacts, ZenonT(30) DEF Field
<1>4. WorseBy(rank, tip, n) /\ ~WorseBy(rank, step.block, n)
  <2>1. tip \in Path[n]
    BY <1>1, <1>2, TreeFacts, Zenon
  <2>2. Work[tip] < Work[n] /\ (n = step.block \/ Work[n] < Work[step.block])
    BY <1>1, <1>2, <2>1, Below
  <2> QED BY <1>1, <1>2, <2>2, Order
<1>5. step.block \in candidates'
  BY <1>0, <1>1, <1>4 DEF Worse
<1>6. ~aborted' /\ Marked(index)' /\ Marked(disk)' /\ Linked'
  BY <1>0, <1>3, <1>5, Zenon DEF Orderly, Marked, Linked, Clean, store
<1>7. ~Invalidating /\ ~Invalidating'
  BY <1>0 DEF Activating, Invalidating, threads, EndStep
<1>8. Covered'
  <2>1. PICK ref \in Block : Covers(ref)
    BY <1>7 DEF Orderly, Covered
  <2>2. \A b \in index.linked \ Failed :
          b \in candidates' \/ WorseBy(rank, b, ref) \/ WorseBy(rank, b, n)
    BY <1>0, <1>1, <1>2, <1>4, <2>1, OrderTransitive, TidyFacts, Zenon DEF Covers, Worse
  <2>3. Covers(ref)'
    BY <1>0, <1>3, <2>1, <2>2, ZenonT(30) DEF Covers, Clean, Worse, Failed
  <2>4. Clean(n)
    BY <1>1, <1>2, CleanFacts DEF Orderly
  <2> QED BY <1>0, <1>3, <1>7, <2>3, <2>4, SMTT(30) DEF Covered, Clean
<1>9. Aimed'
  BY <1>0, <1>1, <1>3, <1>5, ZenonT(30) DEF Aimed, Activating, Clean, Worse, threads, EndStep
<1>10. Settled'
  <2> SUFFICES ASSUME running' = {}, step' = NoStep,
                      NEW b \in index.linked, Clean(b), WorseBy(rank, n, b)
               PROVE  FALSE
    BY <1>0, <1>3 DEF Settled, Clean, Worse
  <2>1. n = step.block
    BY <1>0, <1>1 DEF EndStep, threads, Activating
  <2>2. b \in Block /\ candidates \subseteq Block
    BY TidyFacts, Zenon
  <2>3. ~WorseBy(rank, b, tip)
    BY <1>1, <1>2, <1>4, <2>2, Order, OrderTransitive, Zenon
  <2>4. PICK c \in candidates : Clean(c) /\ ~WorseBy(rank, c, b)
    BY <1>7, <2>3, GoodCandidate, Zenon
  <2>5. c = n \/ WorseBy(rank, c, n)
    BY <1>1, <2>1, <2>4, Zenon DEF Worse
  <2> QED BY <1>1, <1>2, <2>2, <2>4, <2>5, OrderTransitive
<1> QED BY <1>6, <1>8, <1>9, <1>10 DEF Orderly

\* A block that was never connected fails: no former tip is built on it.
LEMMA FailOrderly ==
    ASSUME Inv, Tidy, Orderly, ConnectFails, regular'
    PROVE  Orderly'
<1> DEFINE n == NextOnPath
<1>0. /\ Activating /\ tip \in Path[step.block] /\ tip' = tip
      /\ index' = [index EXCEPT !.invalid = @ \cup {n}] /\ candidates' = candidates \ {n}
      /\ n \notin index.undo /\ step' = NoStep /\ running' = running
      /\ UNCHANGED <<rank, unlinked, store, aborted>>
  BY Zenon DEF ConnectFails, Stepping, Activating, EndStep
<1>1. /\ tip \in Block /\ step.block \in Block /\ step.block # tip /\ step.thread \in running
  BY <1>0, StepFacts, TidyFacts, Zenon DEF Activating, Inv, Targets, Tidy, Owned
<1>2. n \in Block \ {Genesis}
  BY <1>0, <1>1, NextFacts
<1> HIDE DEF n
<1>3. /\ index'.data = index.data /\ index'.linked = index.linked /\ index'.undo = index.undo
      /\ index'.invalid = index.invalid \cup {n} /\ index'.child = index.child
  BY <1>0, TidyFacts DEF Field
<1>4. ~aborted' /\ Marked(index)' /\ Marked(disk)'
  <2>1. \A x \in index'.invalid \cup index'.child : Path[x] \cap index'.invalid # {}
    BY <1>2, <1>3, TreeFacts DEF Orderly, Marked
  <2> QED BY <1>0, <2>1, SMTT(30) DEF Orderly, Marked, store
<1>5. Linked'
  BY <1>0, <1>3 DEF Orderly, Linked, Clean
<1>6. Covered'
  <2>1. Clean(tip) /\ \E ref \in Block : Covers(ref)
    BY <1>0 DEF Orderly, Covered, Activating, Invalidating
  <2>2. PICK ref \in Block : Covers(ref)
    BY <2>1
  <2>3. n \notin Path[tip] /\ n \notin Path[ref]
    BY <1>0, <1>2, <2>2 DEF Covers, Inv, Active
  <2>4. Covers(ref)'
    BY <1>0, <1>3, <2>2, <2>3 DEF Covers, Clean, Worse, Failed
  <2> QED BY <1>0, <1>3, <2>1, <2>3, <2>4 DEF Covered, Clean, Invalidating
<1>7. Aimed' /\ Settled'
  BY <1>0, <1>1, SMTT(30) DEF Aimed, Settled, Activating
<1> QED BY <1>4, <1>5, <1>6, <1>7 DEF Orderly

LEMMA InvalidateOrderly ==
    ASSUME Inv, Tidy, Orderly, NEW th \in Thread, NEW b \in Block, InvalidateBlock(th, b)
    PROVE  Orderly'
<1>0. /\ step = NoStep /\ index' = [index EXCEPT !.invalid = @ \cup {b}]
      /\ step' = [op |-> "invalidate", thread |-> th, block |-> b, old |-> tip]
      /\ UNCHANGED <<rank, unlinked, tip, store, aborted>>
  BY DEF InvalidateBlock, Free
<1>1. /\ index'.data = index.data /\ index'.linked = index.linked
      /\ index'.invalid = index.invalid \cup {b} /\ index'.child = index.child
  BY <1>0, TidyFacts DEF Field
<1>2. ~aborted' /\ Marked(index)' /\ Marked(disk)'
  <2>1. \A x \in index'.invalid \cup index'.child : Path[x] \cap index'.invalid # {}
    <3>1. ASSUME NEW x \in index.invalid \cup index.child PROVE Path[x] \cap index'.invalid # {}
      <4>1. Path[x] \cap index.invalid # {}
        BY Zenon DEF Orderly, Marked
      <4> QED BY <1>1, <4>1, Zenon
    <3>2. Path[b] \cap index'.invalid # {}
      <4>1. b \in Path[b]
        BY TreeFacts, Zenon
      <4> QED BY <1>1, <4>1, Zenon
    <3> QED BY <1>1, <3>1, <3>2, Zenon
  <2> QED BY <1>0, <2>1, ZenonT(30) DEF Orderly, Marked, store
<1>3. Linked'
  BY <1>0, <1>1 DEF Orderly, Linked, Clean
<1>4. step' # NoStep
  <2>1. tip \in Block
    BY TidyFacts
  <2> QED BY <1>0, <2>1, ChainAssumption, SMTT(30)
<1>5. Covered' /\ Aimed' /\ Settled'
  <2>1. Clean(tip)
    BY <1>0, SMTT(30) DEF Orderly, Covered, Invalidating
  <2> QED BY <1>0, <1>1, <1>4, <2>1 DEF Covered, Aimed, Settled, Clean, Invalidating, Activating
<1> QED BY <1>2, <1>3, <1>5 DEF Orderly

LEMMA InvalidateTipOrderly ==
    ASSUME Inv, Tidy, Orderly, InvalidateTip
    PROVE  Orderly'
<1>0. /\ Invalidating /\ step.block \in Path[tip] /\ tip' = Parent[tip]
      /\ index' = [index EXCEPT !.child = @ \cup {tip}]
      /\ UNCHANGED <<rank, unlinked, threads, store, aborted>>
  BY SMTT(30) DEF InvalidateTip, Stepping, Invalidating
<1>1. step.block \in index.invalid /\ tip \in Block \ {Genesis}
  BY <1>0, TreeFacts, TidyFacts DEF Inv, Targets, Invalidating, Tidy, Owned
<1>2. Path[tip'] \subseteq Path[tip]
  BY <1>0, <1>1, ParentFacts, TreeFacts
<1>3. /\ index'.data = index.data /\ index'.linked = index.linked
      /\ index'.invalid = index.invalid /\ index'.child = index.child \cup {tip}
  BY <1>0, TidyFacts DEF Field
<1>4. ~aborted' /\ Marked(index)' /\ Marked(disk)'
  <2>1. \A x \in index'.invalid \cup index'.child : Path[x] \cap index'.invalid # {}
    BY <1>0, <1>1, <1>3 DEF Orderly, Marked
  <2> QED BY <1>0, <2>1 DEF Orderly, Marked, store
<1>5. Linked'
  BY <1>0, <1>3 DEF Orderly, Linked, Clean
<1>6. Covered' /\ Aimed' /\ Settled'
  BY <1>0, <1>2, <1>3, Zenon DEF Orderly, Covered, Aimed, Settled, Invalidating, Activating, threads
<1> QED BY <1>4, <1>5, <1>6 DEF Orderly

\* The loop over mapBlockIndex makes the new tip the one that covers.
LEMMA InvalidateDoneOrderly ==
    ASSUME Inv, Tidy, Orderly, InvalidateDone
    PROVE  Orderly'
<1>0. /\ Invalidating /\ step.block \notin Path[tip]
      /\ candidates' = candidates \cup {c \in index.linked \ Failed : ~Worse(c, tip)}
      /\ step.thread \in running' /\ step' = NoStep
      /\ UNCHANGED <<index, rank, unlinked, tip, store, aborted>>
  BY Zenon DEF InvalidateDone, Stepping, Invalidating
<1>1. tip \in index.linked /\ tip \in Block
  BY TidyFacts, Zenon
<1>2. Clean(tip)
  BY <1>0, ZenonT(30) DEF Orderly, Covered, Clean
<1>3. ~aborted' /\ Marked(index)' /\ Marked(disk)' /\ Linked'
  BY <1>0 DEF Orderly, Marked, Linked, Clean, store
<1>4. \E ref \in Block : Covers(ref)'
  <2>1. \A b \in index.linked \ Failed : b \in candidates' \/ WorseBy(rank, b, tip)
    BY <1>0, Zenon DEF Worse
  <2> QED BY <1>0, <1>1, <1>2, <2>1, Zenon DEF Covers, Clean, Worse, Failed, Inv, Active
<1>5. Covered' /\ Aimed' /\ Settled'
  BY <1>0, <1>2, <1>4, Zenon DEF Covered, Aimed, Settled, Clean, Invalidating, Activating
<1> QED BY <1>3, <1>5, Zenon DEF Orderly

LEMMA ResetOrderly ==
    ASSUME Inv, Tidy, Orderly, NEW th \in Thread, NEW b \in Block,
           ResetBlockFailureFlags(th, b), regular'
    PROVE  Orderly'
<1> DEFINE above == {x \in Failed : b \in Path[x]}
<1>0. /\ step = NoStep /\ th \in running'
      /\ index' = [index EXCEPT !.invalid = @ \ (above \cup Path[b]),
                                !.child = @ \ (above \cup Path[b])]
      /\ candidates' = candidates \cup {x \in above \cap index.linked : Worse(tip, x)}
      /\ Failed \cap (Path[b] \ {b}) = {}
      /\ {x \in index.data : b \in Path[x]} \subseteq index.linked \cup unlinked
      /\ UNCHANGED <<rank, unlinked, tip, step, store, aborted>>
  BY ZenonT(30) DEF ResetBlockFailureFlags, Free, Activate
<1>1. /\ index'.data = index.data /\ index'.linked = index.linked /\ index'.undo = index.undo
      /\ index'.invalid = index.invalid \ (above \cup Path[b])
      /\ index'.child = index.child \ (above \cup Path[b])
  <2> HIDE DEF above
  <2> QED BY <1>0, TidyFacts DEF Field
\* Exactly the descendants of b are unmarked.
<1>2. /\ \A x \in index'.invalid : x \in index.invalid /\ b \notin Path[x]
      /\ \A x \in index'.child : x \in index.child /\ b \notin Path[x]
      /\ \A x \in Failed : b \notin Path[x] => x \notin above \cup Path[b]
  <2>1. \A x \in index'.invalid : x \in index.invalid /\ b \notin Path[x]
    BY <1>0, <1>1, SMTT(30) DEF Failed
  <2>2. \A x \in index'.child : x \in index.child /\ b \notin Path[x]
    BY <1>0, <1>1, SMTT(30) DEF Failed
  <2>3. \A x \in Failed : b \notin Path[x] => x \notin above \cup Path[b]
    BY <1>0, SMTT(30) DEF Failed
  <2> QED BY <2>1, <2>2, <2>3
<1>3. \A x \in index.invalid : b \notin Path[x] => x \in index'.invalid
  BY <1>1, <1>2 DEF Failed
<1>4. \A x \in Block : b \notin Path[x] => Path[x] \cap index.invalid = Path[x] \cap index'.invalid
  BY <1>2, <1>3, TreeFacts, ZenonT(30)
<1>5. \A x \in Failed : x \notin index'.invalid \cup index'.child => x \in above
  BY <1>1, <1>2 DEF Failed
<1>6. ~aborted' /\ Marked(index)' /\ Marked(disk)'
  <2>1. ASSUME NEW x \in index'.invalid \cup index'.child PROVE Path[x] \cap index'.invalid # {}
    <3>1. x \in Block /\ b \notin Path[x] /\ Path[x] \cap index.invalid # {}
      BY <1>2, TidyFacts, Zenon DEF Orderly, Marked
    <3> QED BY <1>4, <3>1
  <2> QED BY <1>0, <2>1, Zenon DEF Orderly, Marked, store
<1>7. ASSUME NEW x \in index.data \ index.linked, Path[x] \cap index'.invalid = {}
      PROVE  x \in unlinked
  <2>1. CASE b \in Path[x]
    BY <1>0, <2>1
  <2>2. CASE b \notin Path[x]
    BY <1>4, <1>7, <2>2, TidyFacts, Zenon DEF Orderly, Linked, Clean
  <2> QED BY <2>1, <2>2
<1>8. ASSUME NEW x \in Block, Path[x] \subseteq index.data, Path[x] \cap index'.invalid = {}
      PROVE  x \in index.linked
  <2>1. CASE b \notin Path[x]
    BY <1>4, <1>8, <2>1, Zenon DEF Orderly, Linked, Clean
  <2>2. CASE b \in Path[x]
    <3> SUFFICES ASSUME x \notin index.linked PROVE FALSE
      OBVIOUS
    <3>1. x \in unlinked
      BY <1>0, <1>8, <2>2, TreeFacts, ZenonT(30)
    <3>2. PICK y \in Path[x] : y \in index.data \ (index.linked \cup unlinked)
      BY <1>8, <3>1 DEF Tidy, Waiting
    <3>3. y \in Block /\ b \notin Path[y]
      BY <1>0, <3>2, TreeFacts, Zenon
    <3>4. y \in Path[b] /\ Path[y] \subseteq Path[b]
      BY <2>2, <3>2, <3>3, Comparable, TreeFacts, Zenon
    <3>5. PICK f \in Path[y] : f \in index.invalid
      BY <3>2, Zenon DEF Orderly, Linked, Clean
    <3>6. f \in Failed \cap (Path[b] \ {b})
      BY <3>3, <3>4, <3>5 DEF Failed
    <3> QED BY <1>0, <3>6, Zenon
  <2> QED BY <2>1, <2>2
<1>9. Linked'
  BY <1>0, <1>1, <1>7, <1>8 DEF Linked, Clean
<1>10. Clean(tip) /\ ~Invalidating /\ tip \notin Failed /\ tip \in index.linked
  BY <1>0, CleanFacts, TidyFacts DEF Orderly, Covered, Invalidating
<1>11. Covered'
  <2>1. PICK ref \in Block : Covers(ref)
    BY <1>10, Zenon DEF Orderly, Covered
  <2>2. ASSUME NEW x \in index.linked, x \notin index'.invalid \cup index'.child
        PROVE  x \in candidates' \/ WorseBy(rank, x, ref) \/ WorseBy(rank, x, tip)
    <3>1. CASE x \notin Failed
      BY <1>0, <2>1, <3>1, Zenon DEF Covers, Worse
    <3>2. CASE x \in Failed
      <4>1. x \in above /\ x # tip
        BY <1>5, <1>10, <2>2, <3>2, ZenonT(30)
      <4>2. WorseBy(rank, x, tip) \/ WorseBy(rank, tip, x)
        BY <1>10, <4>1, Total, SMTT(30) DEF Tidy
      <4> QED BY <1>0, <4>1, <4>2, Zenon DEF Worse
    <3> QED BY <3>1, <3>2, Zenon
  <2>3. Covers(ref)'
    BY <1>0, <1>1, <1>2, <2>1, <2>2 DEF Covers, Clean, Worse, Failed
  <2>4. Clean(tip)'
    BY <1>0, <1>2, <1>10 DEF Clean
  <2> QED BY <1>0, <1>10, <2>3, <2>4, Zenon DEF Covered, Invalidating
<1>12. Aimed' /\ Settled'
  BY <1>0, Zenon DEF Aimed, Settled, Activating
<1> QED BY <1>6, <1>9, <1>11, <1>12 DEF Orderly

LEMMA WriteIndexOrderly ==
    ASSUME Inv, Inv', Tidy, Orderly, NEW full \in BOOLEAN, WriteIndex(full)
    PROVE  Orderly'
<1>0. UNCHANGED <<index, rank, candidates, unlinked, tip, threads, aborted>>
  BY Zenon DEF WriteIndex
<1>1. Marked(disk)'
  BY WriteIndexTidy, ZenonT(30) DEF Orderly, Marked
<1>2. ~aborted' /\ Marked(index)' /\ Linked'
  BY <1>0 DEF Orderly, Marked, Linked, Clean
<1>3. Covered' /\ Aimed' /\ Settled'
  BY <1>0, Zenon DEF Orderly, Covered, Covers, Aimed, Settled, Clean, Worse, Failed,
              Invalidating, Activating, threads
<1> QED BY <1>1, <1>2, <1>3, Zenon DEF Orderly

LEMMA StillOrderly ==
    ASSUME Orderly, UNCHANGED <<mem, threads, disk, aborted>>
    PROVE  Orderly'
<1>1. UNCHANGED <<index, rank, candidates, unlinked, tip, running, step, disk, aborted>>
  BY ZenonT(30) DEF mem, threads
<1>2. Marked(index)' /\ Marked(disk)' /\ ~aborted'
  <2>1. index' = index /\ disk' = disk /\ aborted' = aborted
    BY <1>1, Zenon
  <2>2. Marked(index) /\ Marked(disk) /\ ~aborted
    BY Zenon DEF Orderly
  <2>3. \A i, j : i = j /\ Marked(i) => \A b \in j.invalid \cup j.child : Path[b] \cap j.invalid # {}
    BY Zenon DEF Marked
  <2>4. \A b \in index'.invalid \cup index'.child : Path[b] \cap index'.invalid # {}
    BY <2>1, <2>2, <2>3, Zenon
  <2>5. \A b \in disk'.invalid \cup disk'.child : Path[b] \cap disk'.invalid # {}
    BY <2>1, <2>2, <2>3, Zenon
  <2>6. Marked(index)'
    BY <2>4, Zenon DEF Marked
  <2>7. Marked(disk)'
    BY <2>5, Zenon DEF Marked
  <2>8. ~aborted'
    BY <2>1, <2>2, SMTT(30)
  <2> QED BY <2>6, <2>7, <2>8, Zenon
<1>3. Linked'
  BY <1>1, Zenon DEF Orderly, Linked, Clean
<1>4. Covered'
  BY <1>1, Zenon DEF Orderly, Covered, Covers, Clean, Worse, Failed, Invalidating
<1>5. Aimed' /\ Settled'
  BY <1>1, Zenon DEF Orderly, Aimed, Settled, Clean, Worse, Activating
<1> QED BY <1>2, <1>3, <1>4, <1>5, Zenon DEF Orderly

\* After a restart on a chain without failed blocks the tip is a candidate.
LEMMA RestartOrderly ==
    ASSUME Inv, Inv', Tidy, Orderly, Restart, regular'
    PROVE  Orderly'
<1>0. /\ Path[diskBest] \cap (disk.invalid \cup disk.child) = {}
      /\ aborted' = (candidates' = {})
      /\ running' = {StartThread} /\ step' = NoStep /\ disk' = disk
  BY Zenon DEF Restart
<1>1. rank' \in [Block -> Int] /\ diskBest \in Block /\ index'.linked \subseteq Block
  BY Fields, Zenon DEF Inv, TypeOK
<1>2. diskBest \in candidates'
  BY <1>0, <1>1, RestartFacts, Order, TreeFacts, Zenon
<1>3. ~aborted' /\ Marked(index)' /\ Marked(disk)'
  BY <1>0, <1>2, RestartFacts, Zenon DEF Orderly, Marked
<1>4. Linked'
  BY RestartFacts, Zenon DEF Linked
<1>5. Covers(diskBest)'
  <2>1. Path[diskBest] \ {Genesis} \subseteq disk.undo
    BY Zenon DEF Inv, OnDisk, DiskContinues
  <2>2. \A b \in index'.linked \ (disk.invalid \cup disk.child) :
          b \in candidates' \/ WorseBy(rank', b, diskBest)
    BY RestartFacts, Zenon
  <2>3. diskBest \in index'.linked /\ tip' = diskBest /\ index'.undo = disk.undo
    BY RestartFacts, Zenon
  <2>4. index'.invalid = disk.invalid /\ index'.child = disk.child
    BY RestartFacts, Zenon
  <2>5. diskBest' = diskBest
    BY Zenon DEF Restart
  <2> QED BY <1>0, <2>1, <2>2, <2>3, <2>4, <2>5, Zenon DEF Covers, Clean, Worse, Failed
<1>6. Covered'
  <2>1. tip' = diskBest /\ index'.invalid = disk.invalid /\ diskBest' = diskBest
    BY RestartFacts, Zenon DEF Restart
  <2> QED BY <1>0, <1>1, <1>5, <2>1, Zenon DEF Covered, Clean, Invalidating
<1>7. Aimed' /\ Settled'
  BY <1>0 DEF Aimed, Settled, Activating
<1> QED BY <1>3, <1>4, <1>6, <1>7, Zenon DEF Orderly

LEMMA InitOrderly ==
    ASSUME Init
    PROVE  Orderly
<1>0. /\ index = [f \in Field |-> IF f \in {"known", "data", "linked"} THEN {Genesis} ELSE {}]
      /\ disk = index /\ rank = [b \in Block |-> 0] /\ candidates = {Genesis}
      /\ tip = Genesis /\ step = NoStep /\ aborted = FALSE
  BY Zenon DEF Init
<1>1. /\ index.linked = {Genesis} /\ index.data = {Genesis}
      /\ index.invalid = {} /\ index.child = {} /\ rank \in [Block -> Int]
  BY <1>0, SMTT(30) DEF Field
<1>2. ~aborted /\ Marked(index) /\ Marked(disk) /\ Linked
  BY <1>0, <1>1, TreeFacts, Zenon DEF Marked, Linked
<1>3. Covers(Genesis) /\ Clean(tip)
  BY <1>0, <1>1, TreeFacts, Zenon DEF Covers, Clean
<1>4. Covered /\ Aimed
  BY <1>0, <1>3, TreeFacts, Zenon DEF Covered, Aimed, Invalidating, Activating
<1>5. Settled
  <2>1. ~Worse(Genesis, Genesis)
    BY <1>1, Order, TreeFacts DEF Worse
  <2> QED BY <1>0, <1>1, <2>1, ZenonT(30) DEF Settled
<1> QED BY <1>2, <1>4, <1>5, Zenon DEF Orderly

\* What was irregular stays so.
LEMMA RegularBefore ==
    ASSUME Inv, [Next]_vars, regular'
    PROVE  regular
<1>1. ASSUME NEW th \in Thread, StartStep(th) PROVE regular
  BY <1>1, Zenon DEF StartStep
<1>2. ASSUME NEW th \in Thread, NEW b \in Block, Process(th, b) PROVE regular
  BY <1>2, Zenon DEF Process, AcceptHeader, AcceptBlock, IgnoreBlock, RefuseBlock, InvalidateBlock,
              ResetBlockFailureFlags
<1>3. ASSUME Progress PROVE regular
  BY <1>3, Zenon DEF Progress, DisconnectTip, ConnectTip, ConnectFails, InvalidateTip, InvalidateDone,
              WriteCoins
<1>4. ASSUME NEW full \in BOOLEAN, WriteIndex(full) PROVE regular
  BY <1>4, Zenon DEF WriteIndex
<1>5. ASSUME Restart PROVE regular
  BY <1>5, Zenon DEF Restart
<1>6. ASSUME UNCHANGED vars PROVE regular
  BY <1>6 DEF vars
<1> QED BY <1>1, <1>2, <1>3, <1>4, <1>5, <1>6, Zenon DEF Next

LEMMA NextOrderly ==
    ASSUME Inv, Inv', Tidy, regular => Orderly, [Next]_vars
    PROVE  regular' => Orderly'
<1> SUFFICES ASSUME regular' PROVE Orderly'
  OBVIOUS
<1>0. Orderly
  BY RegularBefore, Zenon
<1>1. ASSUME NEW th \in Thread, StartStep(th) PROVE Orderly'
  BY <1>0, <1>1, StartOrderly, Zenon
<1>2. ASSUME NEW th \in Thread, NEW b \in Block, Process(th, b) PROVE Orderly'
  BY <1>0, <1>2, HeaderOrderly, ReceivedOrderly, RefuseOrderly, InvalidateOrderly, ResetOrderly, Zenon
     DEF Process
<1>3. ASSUME Progress PROVE Orderly'
  <2>1. WriteCoins => UNCHANGED <<mem, threads, disk, aborted>>
    BY Zenon DEF WriteCoins
  <2> QED BY <1>0, <1>3, <2>1, DisconnectOrderly, ConnectOrderly, FailOrderly,
             InvalidateTipOrderly, InvalidateDoneOrderly, StillOrderly, Zenon DEF Progress
<1>4. ASSUME NEW full \in BOOLEAN, WriteIndex(full) PROVE Orderly'
  BY <1>0, <1>4, WriteIndexOrderly
<1>5. ASSUME Restart PROVE Orderly'
  BY <1>0, <1>5, RestartOrderly, Zenon
<1>6. ASSUME UNCHANGED vars PROVE Orderly'
  BY <1>0, <1>6, StillOrderly DEF vars, store
<1> QED BY <1>1, <1>2, <1>3, <1>4, <1>5, <1>6, Zenon DEF Next

----------------------------------------------------------------------------
(* The theorems.  The library's facts on finite sets come only here.       *)
FST == INSTANCE FiniteSetTheorems

LEMMA CountingHolds == Counting
<1>1. \A S : FST!Cardinality(S) = Cardinality(S)
  BY Zenon DEF FST!Cardinality, Cardinality
<1>2. FST!IsFiniteSet(Block)
  BY ChainAssumption DEF FST!IsFiniteSet, IsFiniteSet
<1>3. \A S \in SUBSET Block : FST!IsFiniteSet(S)
  BY <1>2, FST!FS_Subset, Zenon
<1> SUFFICES ASSUME NEW S \in SUBSET Block
             PROVE  /\ Cardinality(S) \in Nat
                    /\ \A x \in Block \ S : Cardinality(S \cup {x}) = Cardinality(S) + 1
                    /\ \A T \in SUBSET S : Cardinality(T) <= Cardinality(S)
                    /\ \A T \in SUBSET Block :
                          S \cap T = {} => Cardinality(S \cup T) = Cardinality(S) + Cardinality(T)
  BY Zenon DEF Counting
<1>4. \A T \in SUBSET Block : Cardinality(T) \in Nat
  BY <1>1, <1>3, FST!FS_CardinalityType, Zenon
<1>5. \A x \in Block \ S : Cardinality(S \cup {x}) = Cardinality(S) + 1
  BY <1>1, <1>3, FST!FS_AddElement, Zenon
<1>6. \A T \in SUBSET S : Cardinality(T) <= Cardinality(S)
  BY <1>1, <1>3, FST!FS_Subset, Zenon
<1>7. ASSUME NEW T \in SUBSET Block, S \cap T = {}
      PROVE  Cardinality(S \cup T) = Cardinality(S) + Cardinality(T)
  <2>1. Cardinality(S \cup T) = Cardinality(S) + Cardinality(T) - Cardinality(S \cap T)
    BY <1>1, <1>3, FST!FS_Union, Zenon
  <2>2. Cardinality(S \cap T) = 0
    BY <1>1, <1>7, FST!FS_EmptySet, Zenon
  <2> QED BY <1>4, <2>1, <2>2
<1> QED BY <1>4, <1>5, <1>6, <1>7, Zenon

\* Sequence ids tell the blocks apart that arrived, no candidate is worse than
\* the tip, and what is failed in memory and not on disk is dirty.
THEOREM TidyAlways == Spec => []Tidy
<1>1. Init => Tidy
  BY InitTidy, CountingHolds, Zenon
<1>2. Inv /\ Inv' /\ Tidy /\ [Next]_vars => Tidy'
  BY NextTidy, CountingHolds, Zenon
<1> QED BY <1>1, <1>2, Inductive, PTL DEF Spec
LEMMA OrderlyAlways == Spec => [](regular => Orderly)
<1>1. Init => (regular => Orderly)
  BY InitOrderly, Zenon
<1>2. Inv /\ Inv' /\ Tidy /\ (regular => Orderly) /\ [Next]_vars => (regular => Orderly)'
  BY NextOrderly
<1> QED BY <1>1, <1>2, Inductive, TidyAlways, PTL DEF Spec

\* The assertion of PruneBlockIndexCandidates holds at every connected block
\* and at every start, unless something irregular has happened: the target of
\* the step, or the tip, is always left among the candidates.
THEOREM AssertionHolds == Spec => []NeverAborts
<1>1. (regular => Orderly) => NeverAborts
  BY DEF Orderly, NeverAborts
<1> QED BY <1>1, OrderlyAlways, PTL

\* ActivateBestChain leaves the best chain active, whatever the threads that
\* call it do in between, and through invalidateblock, reconsiderblock, blocks
\* that fail and crashes.
THEOREM BestChainIsActive == Spec => []BestChainActive
<1>1. ASSUME Inv, Tidy, regular => Orderly PROVE BestChainActive
  <2> SUFFICES ASSUME Quiet, regular
               PROVE  /\ Path[tip] \cap Failed = {}
                      /\ \A b \in index.linked : Clean(b) => ~Worse(tip, b)
    BY DEF BestChainActive, Clean
  <2>1. Orderly
    BY <1>1, Zenon
  <2>2. Clean(tip) /\ tip \in Block
    BY <1>1, <2>1, TidyFacts, Zenon DEF Quiet, Orderly, Covered, Invalidating
  <2>3. Path[tip] \cap Failed = {}
    BY <2>1, <2>2, CleanFacts DEF Orderly
  <2> QED BY <2>1, <2>3, Zenon DEF Quiet, Orderly, Settled
<1> QED BY <1>1, Inductive, TidyAlways, OrderlyAlways, PTL

\* The assertions of CheckBlockIndex hold whenever no thread is at work.
THEOREM IndexChecked == Spec => []CheckBlockIndex
<1>1. ASSUME Inv, Tidy, regular => Orderly PROVE CheckBlockIndex
  <2> SUFFICES ASSUME Quiet, regular PROVE CheckBlockIndex
    BY Zenon DEF CheckBlockIndex
  <2>1. Orderly /\ ~Invalidating
    BY <1>1 DEF Quiet, Invalidating
  <2>2. /\ index.linked \subseteq Block /\ tip \in Block /\ rank \in [Block -> Int]
        /\ index.data \subseteq index.known /\ index.known \subseteq Block
        /\ candidates \subseteq index.linked
    BY <1>1, TidyFacts, Fields, Zenon DEF Inv, TypeOK, Shape
  <2>3. index.linked \subseteq Linkable(index.known, index.data)
    BY <1>1, <2>2, TidyFacts, TreeFacts, Zenon DEF Linkable
  <2>4. \A b \in Linkable(index.known, index.data) :
          Path[b] \cap index.invalid = {} => b \in index.linked
    BY <2>1, <2>2, Zenon DEF Linkable, Orderly, Linked, Clean
  <2>5. \A b \in Failed : Path[b] \cap index.invalid # {}
    BY <2>1, Zenon DEF Orderly, Marked, Failed
  <2>6. ASSUME NEW b \in index.linked, ~WorseBy(rank, b, tip), Clean(b) PROVE b \in candidates
    <3>1. PICK ref \in Block : Covers(ref)
      BY <2>1, Zenon DEF Orderly, Covered
    <3>2. ~WorseBy(rank, tip, ref)
      BY <2>1, <3>1, Zenon DEF Quiet, Orderly, Settled, Covers, Worse
    <3>3. ~WorseBy(rank, b, ref)
      BY <2>2, <2>6, <3>2, OrderTransitive, Zenon
    <3>4. b \notin Failed
      BY <2>1, <2>2, <2>6, CleanFacts, Zenon DEF Orderly
    <3> QED BY <2>6, <3>1, <3>3, <3>4, Zenon DEF Covers, Worse
  <2>7. \A b \in index.linked : WorseBy(rank, b, tip) => b \notin candidates
    BY <1>1, TidyFacts, Zenon
  <2>8. unlinked \subseteq index.data \ index.linked
    BY <1>1, Zenon DEF Inv, Shape, Tidy, Waiting
  <2>9. \A b \in index.data \ index.linked : Path[b] \cap index.invalid = {} => b \in unlinked
    BY <2>1 DEF Orderly, Linked, Clean
  <2> QED BY <2>2, <2>3, <2>4, <2>5, <2>6, <2>7, <2>8, <2>9, Zenon DEF CheckBlockIndex, Clean, Worse
<1> QED BY <1>1, Inductive, TidyAlways, OrderlyAlways, PTL
=============================================================================
