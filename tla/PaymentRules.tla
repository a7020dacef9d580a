---------------------------- MODULE PaymentRules ----------------------------
(***************************************************************************)
(* The block reward: the coinbase that CreateNewBlock builds against the   *)
(* rules that CheckBlock and ConnectBlock apply to it, at nodes that each  *)
(* have their own winners on record and their own masternode list.         *)
(*                                                                         *)
(* A block is the sequence of all coinbases above a block that every node  *)
(* has; its length is its work.  A node takes one block at a time, to the  *)
(* end of ActivateBestChain; votes, lists and miners go on meanwhile.      *)
(***************************************************************************)
EXTENDS Integers, Sequences, FiniteSets

CONSTANTS
    Node,
    Payee,              \* masternodes, and the scripts they are paid to
    Score,              \* Score[p]
    Miner,              \* Miner[n]: the script n mines to
    Treasury,           \* GetTreasuryRewardScriptAtHeight
    Commitment,         \* the script of the witness commitment
    NoPayee, NoBlock,
    Base,               \* heights of the common block, one per behaviour
    Fees,               \* fees of a block
    Share,              \* Share[c]: percent of half the value paid when c masternodes count
    Premine, Subsidy,   \* 41250000 and 10 coins
    PRE_SUBSIDY_HEIGHT, LastSubsidyHeight,
    StartHeight,        \* MasternodePaymentStartHeight
    AssuredHeight,      \* StartHeight + 7475
    BandHeight,         \* 649620
    MaxHeight,          \* bound: the last height
    MaxLength,          \* bound: length of a chain above the common block
    MaxBlocks,          \* bound: blocks mined
    MaxVotes,           \* bound: votes signed
    MaxChanges          \* bound: changes of a list, and restarts

\* The miners are not masternodes.
ASSUME ScriptAssumption ==
    /\ NoPayee \notin Payee /\ Treasury \notin Payee /\ Commitment \notin Payee
    /\ \A n \in Node : Miner[n] \notin Payee
    /\ IsFiniteSet(Payee)

\* The rules start in this order; the buffer, a fortieth of the subsidy, is a
\* whole number.
ASSUME HeightAssumption ==
    /\ PRE_SUBSIDY_HEIGHT \in Nat \ {0} /\ StartHeight \in Nat \ {0}
    /\ AssuredHeight \in Nat /\ StartHeight <= AssuredHeight
    /\ BandHeight \in Nat /\ AssuredHeight <= BandHeight
    /\ LastSubsidyHeight \in Nat
    /\ Premine \in Nat /\ Subsidy \in Nat /\ Subsidy % 40 = 0
    /\ Fees \subseteq Nat
    /\ Share \in [0 .. Cardinality(Payee) -> Nat]
    /\ MaxHeight \in Nat /\ MaxLength \in Nat /\ MaxChanges \in Nat
    /\ Base \subseteq Nat /\ \A h \in Base : h + MaxLength <= MaxHeight

VARIABLES
    base,       \* height of the common block
    winner,     \* winner[n][h]: the payee on n's record for the height h, or NoPayee
    list,       \* list[n]: the enabled masternodes on n's list
    ibd,        \* ibd[n]: IsInitialBlockDownload
    have,       \* have[n]: blocks n has stored
    failed,     \* failed[n]: those with BLOCK_FAILED_VALID
    refused,    \* refused[n]: blocks that CheckBlock turned away before they were stored
    tip,        \* tip[n]: the active chain
    checked,    \* checked[n]: the block at hand, with fChecked set
    held,       \* held[n]: in a reorganisation under cs_main, the work of pindexOldTip, else 0
    offered,    \* blocks mined so far
    votes,      \* votes signed so far
    thrown,     \* CreateNewBlock threw "TestBlockValidity failed"
    settled,    \* history: votes were on record everywhere before their block was made
    sizes,      \* history: the sizes that the lists have had
    changes     \* counter for the bound

chainVars == <<have, failed, refused, tip, checked, held>>
vars == <<base, winner, list, ibd, chainVars, offered, votes, thrown, settled, sizes, changes>>

Height == 0 .. MaxHeight
HeightOf(b) == base + Len(b)
Parent(b) == SubSeq(b, 1, Len(b) - 1)
Last(b) == b[Len(b)]
IsPrefix(a, b) == Len(a) <= Len(b) /\ SubSeq(b, 1, Len(a)) = a

Init ==
    /\ base \in Base
    /\ winner = [n \in Node |-> [h \in Height |-> NoPayee]]
    /\ list \in [Node -> SUBSET Payee] /\ sizes = {Cardinality(list[n]) : n \in Node}
    /\ ibd \in [Node -> BOOLEAN]
    /\ have = [n \in Node |-> {<<>>}] /\ failed = [n \in Node |-> {}]
    /\ refused = [n \in Node |-> {}] /\ tip = [n \in Node |-> <<>>]
    /\ checked = [n \in Node |-> NoBlock] /\ held = [n \in Node |-> 0]
    /\ offered = {} /\ votes = {}
    /\ thrown = FALSE /\ settled = TRUE /\ changes = 0
----------------------------------------------------------------------------
(* Amounts.  A product with a decimal fraction is cut off to an integer.   *)

GetBlockSubsidy(h) ==
    IF h = 1 THEN Premine
    ELSE IF (h > 1 /\ h <= PRE_SUBSIDY_HEIGHT) \/ h > LastSubsidyHeight THEN 0
    ELSE Subsidy

\* Mutant: the treasury is paid "in perpetuity", after the subsidy has ended.
TreasuryPartAlways(h) == (Subsidy * 5) \div 100

TreasuryPart(h) == (GetBlockSubsidy(h) * 5) \div 100

\* Mutant: without the limit of 60%.
GetMasternodePaymentNoCap(h, value, c) ==
    IF h < StartHeight \/ c = 0 THEN 0 ELSE ((value \div 2) * Share[c]) \div 100

\* With c masternodes on the list; the share is a curve of c and the supply.
GetMasternodePayment(h, value, c) ==
    LET ret == ((value \div 2) * Share[c]) \div 100
        cap == (value * 6) \div 10
    IN  IF h < StartHeight \/ c = 0 THEN 0 ELSE IF ret > cap THEN cap ELSE ret

\* A coinbase has at most four outputs.
ValueOut(out) ==
    LET V(i) == IF i <= Len(out) THEN out[i].value ELSE 0 IN V(1) + V(2) + V(3) + V(4)
----------------------------------------------------------------------------
(* The miner.                                                              *)

\* Mutant: the miner starts one block late.
ChoicesLate(n, h) ==
    IF h - 1 <= StartHeight THEN {NoPayee}
    ELSE IF winner[n][h] # NoPayee THEN {winner[n][h]}
    ELSE IF list[n] # {} THEN list[n] ELSE {NoPayee}

\* The payee the miner n chooses for h: the one on record, else any on its
\* list (GetCurrentMasterNode), else none.
Choices(n, h) ==
    IF h - 1 < StartHeight THEN {NoPayee}
    ELSE IF winner[n][h] # NoPayee THEN {winner[n][h]}
    ELSE IF list[n] # {} THEN list[n] ELSE {NoPayee}

\* CreateNewBlock: the outputs, for a miner to script with c masternodes on
\* its list.
Coinbase(script, h, payee, fees, c) ==
    LET treasury == IF h = 1 THEN 0 ELSE TreasuryPart(h)
        value == GetBlockSubsidy(h) - treasury + fees
        payment == GetMasternodePayment(h, value, c)
        Out(to, amount) == [script |-> to, value |-> amount]
    IN  IF payee = NoPayee
        THEN <<Out(script, value), Out(Treasury, treasury), Out(Commitment, 0)>>
        ELSE <<Out(script, value - payment), Out(Treasury, treasury), Out(payee, payment),
               Out(Commitment, 0)>>
----------------------------------------------------------------------------
(* The rules, for the block b on n's tip.                                  *)

\* CheckBlock: if a payee is on record, some output pays it at most 60%.  A
\* node in its initial download does not look.
CheckBlock(n, b) ==
    LET h == HeightOf(b)
        out == Last(b).out
        value == ValueOut(out) - TreasuryPart(h)
    IN  h - 1 >= StartHeight /\ ~ibd[n] /\ winner[n][h] # NoPayee =>
            \E i \in DOMAIN out : out[i].script = winner[n][h] /\ 10 * out[i].value <= 6 * value

\* ConnectBlock: the treasury has its part ...
TreasuryPaid(b) ==
    LET h == HeightOf(b)
        part == IF h <= PRE_SUBSIDY_HEIGHT THEN 0 ELSE TreasuryPart(h)
    IN  h > 0 => \E i \in DOMAIN Last(b).out : Last(b).out[i] = [script |-> Treasury, value |-> part]

\* ... no payee on record is paid before the payments start ...
NotPaidEarly(n, b) ==
    LET h == HeightOf(b) IN
    h > 1 /\ h < StartHeight /\ winner[n][h] # NoPayee =>
        \A i \in DOMAIN Last(b).out :
            Last(b).out[i].script = winner[n][h] => Last(b).out[i].value = 0

\* Mutant: the narrower buffer of the other case.
PaymentAssuredNarrow(n, b) ==
    LET h == HeightOf(b)
        out == Last(b).out
        treasury == TreasuryPart(h)
        value == ValueOut(out) - treasury
        right == GetMasternodePayment(h, value, Cardinality(list[n]))
        buffer == treasury \div 4
    IN  h > AssuredHeight =>
        IF winner[n][h] = NoPayee THEN right = 0 \/ Len(out) >= 3
        ELSE \E i \in DOMAIN out :
                /\ out[i].script = winner[n][h]
                /\ \A j \in 1 .. i - 1 : out[j].script # winner[n][h]
                /\ 10 * out[i].value <= 6 * value
                /\ h > BandHeight => out[i].value \in right - buffer .. right + buffer

\* ... "Masternode Payment Assurance": later, the first output to the payee
\* on record has about what n thinks right; without one on record there is a
\* third output, if n knows a masternode ...
PaymentAssured(n, b) ==
    LET h == HeightOf(b)
        out == Last(b).out
        treasury == TreasuryPart(h)
        value == ValueOut(out) - treasury
        right == GetMasternodePayment(h, value, Cardinality(list[n]))
        buffer == treasury \div 2
    IN  h > AssuredHeight =>
        IF winner[n][h] = NoPayee THEN right = 0 \/ Len(out) >= 3
        ELSE \E i \in DOMAIN out :
                /\ out[i].script = winner[n][h]
                /\ \A j \in 1 .. i - 1 : out[j].script # winner[n][h]
                /\ 10 * out[i].value <= 6 * value
                /\ h > BandHeight => out[i].value \in right - buffer .. right + buffer

\* ... and the coinbase creates no more than the subsidy and the fees.
RewardKept(b) ==
    ValueOut(Last(b).out) <= Last(b).fees + GetBlockSubsidy(HeightOf(b))

ConnectBlock(n, b) ==
    TreasuryPaid(b) /\ NotPaidEarly(n, b) /\ PaymentAssured(n, b) /\ RewardKept(b)
----------------------------------------------------------------------------
(* Votes and lists.                                                        *)

BestOf(ps) == IF ps = {} THEN NoPayee ELSE CHOOSE p \in ps : \A q \in ps : Score[q] <= Score[p]
Voted(h) == {v.payee : v \in {w \in votes : w.height = h}}

\* The best vote signed for h.
Best(h) == BestOf(Voted(h))

Mined(h) == \E b \in offered : HeightOf(b) = h

\* The master signs a winner, ten blocks ahead if all is well.
Sign(h, p) ==
    /\ Cardinality(votes) < MaxVotes /\ [height |-> h, payee |-> p] \notin votes
    /\ votes' = votes \cup {[height |-> h, payee |-> p]}
    /\ settled' = (settled /\ ~Mined(h))
    /\ UNCHANGED <<base, winner, list, ibd, chainVars, offered, thrown, sizes, changes>>

\* AddWinningMasternode at n.
AddWinningMasternode(n, v) ==
    /\ winner[n][v.height] # NoPayee => Score[winner[n][v.height]] < Score[v.payee]
    /\ winner' = [winner EXCEPT ![n][v.height] = v.payee]
    /\ settled' = (settled /\ (Mined(v.height) => v.payee = Best(v.height)))
    /\ UNCHANGED <<base, list, ibd, chainVars, offered, votes, thrown, sizes, changes>>

\* n's masternode list changes.
ListChanges(n, s) ==
    /\ changes < MaxChanges /\ s # list[n]
    /\ changes' = changes + 1
    /\ list' = [list EXCEPT ![n] = s]
    /\ sizes' = sizes \cup {Cardinality(s)}
    /\ UNCHANGED <<base, winner, ibd, chainVars, offered, votes, thrown, settled>>

\* n's tip is recent enough.
CaughtUp(n) ==
    /\ ibd[n] /\ ibd' = [ibd EXCEPT ![n] = FALSE]
    /\ UNCHANGED <<base, winner, list, chainVars, offered, votes, thrown, settled, sizes, changes>>

\* n's process ends and starts again: the winners were only in memory.
Restart(n) ==
    /\ changes < MaxChanges /\ held[n] = 0
    /\ changes' = changes + 1
    /\ winner' = [winner EXCEPT ![n] = [h \in Height |-> NoPayee]]
    /\ checked' = [checked EXCEPT ![n] = NoBlock]
    /\ \E late \in BOOLEAN : ibd' = [ibd EXCEPT ![n] = late]
    /\ UNCHANGED <<base, list, have, failed, refused, tip, held, offered, votes, thrown, settled,
                   sizes>>
----------------------------------------------------------------------------
(* Blocks.                                                                 *)

\* CreateNewBlock and its TestBlockValidity; the block is found and sent out.
CreateNewBlock(n, fees) ==
    LET h == HeightOf(tip[n]) + 1 IN
    /\ Cardinality(offered) < MaxBlocks /\ Len(tip[n]) < MaxLength
    /\ held[n] = 0
    /\ \E payee \in Choices(n, h) :
       LET out == Coinbase(Miner[n], h, payee, fees, Cardinality(list[n]))
           b == Append(tip[n], [out |-> out, fees |-> fees])
       IN  IF CheckBlock(n, b) /\ ConnectBlock(n, b)
           THEN /\ offered' = offered \cup {b}
                /\ settled' = (settled /\ \A m \in Node : winner[m][h] = Best(h))
                /\ UNCHANGED thrown
           ELSE thrown' = TRUE /\ UNCHANGED <<offered, settled>>
    /\ UNCHANGED <<base, winner, list, ibd, chainVars, votes, sizes, changes>>

\* Stored blocks that do not rest on a failed one.
Usable(n) == {b \in have[n] : \A f \in failed[n] : ~IsPrefix(f, b)}

\* ProcessNewBlock: CheckBlock looks at the payee only if b comes next to the
\* tip; a block that fails there is not stored.
ProcessNewBlock(n, b) ==
    /\ b \notin have[n] /\ Parent(b) \in Usable(n)
    /\ \A c \in Usable(n) : Len(c) <= Len(tip[n])
    /\ IF tip[n] = Parent(b) /\ ~CheckBlock(n, b)
       THEN /\ refused' = [refused EXCEPT ![n] = @ \cup {b}]
            /\ UNCHANGED <<have, checked>>
       ELSE /\ have' = [have EXCEPT ![n] = @ \cup {b}]
            /\ checked' = [checked EXCEPT ![n] = b]
            /\ UNCHANGED refused
    /\ UNCHANGED <<base, winner, list, ibd, failed, tip, held, offered, votes, thrown, settled, sizes,
                   changes>>

\* The longest of the chains: FindMostWorkChain.
MostWork(n, b) == b \in Usable(n) /\ \A c \in Usable(n) \cup {tip[n]} : Len(c) <= Len(b)

\* ActivateBestChain, by blocks: disconnect down to the fork ...
Disconnect(n, b) ==
    /\ MostWork(n, b) /\ Len(b) > Len(tip[n]) /\ ~IsPrefix(tip[n], b)
    /\ tip' = [tip EXCEPT ![n] = Parent(@)]
    /\ held' = IF held[n] = 0 THEN [held EXCEPT ![n] = Len(tip[n])] ELSE held
    /\ UNCHANGED <<base, winner, list, ibd, have, failed, refused, checked, offered, votes,
                   thrown, settled, sizes, changes>>

\* ... and connect the next block.  One that is at hand, and not read from
\* disk, is not given to CheckBlock again.  The lock is released when the
\* chain is better than before, and after a failure.
Connect(n, b) ==
    LET next == SubSeq(b, 1, Len(tip[n]) + 1) IN
    /\ MostWork(n, b) /\ Len(b) > Len(tip[n]) /\ IsPrefix(tip[n], b)
    /\ IF ((next = b /\ b = checked[n]) \/ CheckBlock(n, next)) /\ ConnectBlock(n, next)
       THEN tip' = [tip EXCEPT ![n] = next] /\ UNCHANGED failed
       ELSE failed' = [failed EXCEPT ![n] = @ \cup {next}] /\ UNCHANGED tip
    /\ held' = IF tip'[n] = next /\ Len(next) <= held[n] THEN held ELSE [held EXCEPT ![n] = 0]
    /\ checked' = IF next = b THEN [checked EXCEPT ![n] = NoBlock] ELSE checked
    /\ UNCHANGED <<base, winner, list, ibd, have, refused, offered, votes, thrown, settled, sizes,
                   changes>>

Next ==
    \/ \E h \in base + 1 .. base + MaxLength, p \in Payee : Sign(h, p)
    \/ \E n \in Node :
          \/ \E v \in votes : AddWinningMasternode(n, v)
          \/ \E s \in SUBSET Payee : ListChanges(n, s)
          \/ CaughtUp(n) \/ Restart(n)
          \/ \E fees \in Fees : CreateNewBlock(n, fees)
          \/ \E b \in offered : ProcessNewBlock(n, b) \/ Disconnect(n, b) \/ Connect(n, b)

Spec == Init /\ [][Next]_vars
----------------------------------------------------------------------------
(* What the rules are for.                                                 *)

\* Two list sizes are alike if the shares they lead to are within five points
\* of each other, and the fees within the treasury's part: the buffer of half
\* that part carries no more.
SizesAlike ==
    \A b \in offered : HeightOf(b) > BandHeight =>
        \A c, d \in sizes :
            \/ c = d
            \/ /\ c # 0 /\ d # 0 /\ Share[c] - Share[d] <= 5
               /\ Last(b).fees <= TreasuryPart(HeightOf(b))

Output == [script : Payee \cup {Miner[n] : n \in Node} \cup {Treasury, Commitment}, value : Nat]
Block == Seq([out : Seq(Output), fees : Fees])

\* Every variable keeps the type the code gives it; no output is negative.
TypeOK ==
    /\ base \in Base
    /\ winner \in [Node -> [Height -> Payee \cup {NoPayee}]]
    /\ list \in [Node -> SUBSET Payee]
    /\ ibd \in [Node -> BOOLEAN]
    /\ offered \subseteq Block
    /\ have \in [Node -> SUBSET (offered \cup {<<>>})]
    /\ failed \in [Node -> SUBSET offered] /\ refused \in [Node -> SUBSET offered]
    /\ tip \in [Node -> offered \cup {<<>>}]
    /\ checked \in [Node -> offered \cup {NoBlock}] /\ held \in [Node -> 0 .. MaxLength]
    /\ votes \subseteq [height : Height, payee : Payee]
    /\ thrown \in BOOLEAN /\ settled \in BOOLEAN
    /\ sizes \subseteq 0 .. Cardinality(Payee) /\ changes \in 0 .. MaxChanges

\* The coinbase that CreateNewBlock builds passes CreateNewBlock's own
\* TestBlockValidity at every height, with any record, list and fees.
MinerNeverThrows == ~thrown

\* If the votes for a height are on record everywhere before a block of that
\* height is made, and the lists are alike above BandHeight, then no node
\* refuses a block in CheckBlock or fails it in ConnectBlock: not after a
\* restart, with the record gone or coming back, and not in a reorganisation.
Agreement ==
    settled /\ SizesAlike => \A n \in Node : refused[n] = {} /\ failed[n] = {}

\* In the same circumstances, the payee with the best vote for a height is in
\* the coinbase of every block of that height in an active chain, with no more
\* than 60% of what the treasury leaves.
WinnersPaid ==
    settled => \A n \in Node : \A b \in offered :
        LET h == HeightOf(b)
            out == Last(b).out
        IN  IsPrefix(b, tip[n]) /\ h > StartHeight /\ Best(h) # NoPayee =>
            \E j \in DOMAIN out : /\ out[j].script = Best(h)
                                   /\ 10 * out[j].value <= 6 * (ValueOut(out) - TreasuryPart(h))
=============================================================================
