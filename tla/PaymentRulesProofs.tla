------------------------- MODULE PaymentRulesProofs -------------------------
(***************************************************************************)
(* PaymentRules: the miner's coinbase always passes the miner's own test,  *)
(* and nodes whose votes came in time refuse no block and pay the winners. *)
(***************************************************************************)
EXTENDS PaymentRules, FiniteSetTheorems, SequenceTheorems, TLAPS

Count == 0 .. Cardinality(Payee)

\* What the miner and the masternode share.
ValueAt(h, fees) == GetBlockSubsidy(h) - (IF h = 1 THEN 0 ELSE TreasuryPart(h)) + fees
----------------------------------------------------------------------------
(* Amounts.                                                                *)

\* The treasury's part is a part of the subsidy.
LEMMA SubsidyFacts ==
    ASSUME NEW h \in Nat
    PROVE  /\ GetBlockSubsidy(h) \in Nat /\ TreasuryPart(h) \in Nat
           /\ TreasuryPart(h) <= GetBlockSubsidy(h)
           /\ h > 1 => GetBlockSubsidy(h) \in {0, Subsidy}
<1>1. /\ GetBlockSubsidy(h) \in Nat
      /\ h > 1 => GetBlockSubsidy(h) \in {0, Subsidy}
  BY HeightAssumption DEF GetBlockSubsidy
<1>2. QED
  BY <1>1 DEF TreasuryPart

\* GetMasternodePayment stays within 60% of the value.
LEMMA PaymentFacts ==
    ASSUME NEW h \in Nat, NEW v \in Nat, NEW c \in Count
    PROVE  /\ GetMasternodePayment(h, v, c) \in Nat
           /\ 10 * GetMasternodePayment(h, v, c) <= 6 * v
           /\ GetMasternodePayment(h, v, c) <= v
<1> DEFINE prod == (v \div 2) * Share[c]
           ret == prod \div 100
           cap == (v * 6) \div 10
<1>1. Share[c] \in Nat /\ v \div 2 \in Nat
  BY HeightAssumption DEF Count
<1>2. prod \in Nat
  BY <1>1
<1>3. cap \in Nat /\ 10 * cap <= 6 * v /\ cap <= v
  OBVIOUS
<1>4. \/ GetMasternodePayment(h, v, c) \in {0, cap}
      \/ GetMasternodePayment(h, v, c) = ret /\ ~(ret > cap)
  BY Zenon DEF GetMasternodePayment
<1> HIDE DEF prod, cap
<1>5. ret \in Nat
  BY <1>2
<1> HIDE DEF ret
<1>6. QED
  BY <1>3, <1>4, <1>5

\* A product is cut off by a hundred: shares within five points are within the
\* buffer of each other.
LEMMA CutOff ==
    ASSUME NEW x \in Nat, NEW s \in Nat, NEW t \in Nat, NEW buffer \in Nat,
           s - t <= 5, 5 * x <= 100 * buffer
    PROVE  (x * s) \div 100 - (x * t) \div 100 <= buffer
<1>1. PICK d \in Nat : s <= t + d /\ d <= 5
  BY s - t <= 5
<1>2. x * s \in Nat /\ x * t \in Nat /\ x * (t + 5) \in Nat /\ x * (t + 5) = x * t + 5 * x
  OBVIOUS
<1>3. x * s <= x * (t + 5)
  BY <1>1
<1>4. x * s <= x * t + 100 * buffer
  BY <1>2, <1>3
<1> DEFINE p == x * s
           q == x * t
<1> HIDE DEF p, q
<1>5. p \in Nat /\ q \in Nat /\ p <= q + 100 * buffer
  BY <1>2, <1>4, Zenon DEF p, q
<1>6. p \div 100 - q \div 100 <= buffer
  BY <1>5
<1>7. QED
  BY <1>6, Zenon DEF p, q

\* Two nodes with lists of sizes c and d expect payments within the buffer.
LEMMA PaymentsClose ==
    ASSUME NEW h \in Nat, NEW f \in Nat, h > 1, f <= TreasuryPart(h),
           NEW c \in Count \ {0}, NEW d \in Count \ {0},
           Share[c] - Share[d] <= 5
    PROVE  GetMasternodePayment(h, ValueAt(h, f), c) - GetMasternodePayment(h, ValueAt(h, f), d)
              <= TreasuryPart(h) \div 2
<1> DEFINE S == GetBlockSubsidy(h)
           T == TreasuryPart(h)
           v == ValueAt(h, f)
           x == v \div 2
           buffer == T \div 2
<1>a. S \in {0, Subsidy} /\ S \in Nat /\ T \in Nat /\ T <= S
  BY h > 1, SubsidyFacts, Zenon
<1>b. T = (S * 5) \div 100
  BY Zenon DEF TreasuryPart
<1>c. 0 % 40 = 0 /\ Subsidy % 40 = 0
  BY HeightAssumption
<1>1. S \in Nat /\ S % 40 = 0 /\ T = (S * 5) \div 100 /\ T \in Nat /\ T <= S
  <2> HIDE DEF S, T
  <2> QED BY <1>a, <1>b, <1>c, Zenon
<1>2. v = S - T + f
  BY h > 1 DEF ValueAt
<1> HIDE DEF S, T, v
<1>3. PICK k \in Nat : S = 40 * k
  BY <1>1
<1>4. T = 2 * k /\ buffer = k
  BY <1>1, <1>3
<1>5. f <= T
  BY Zenon DEF T
<1>6. v \in Nat /\ v <= S
  BY <1>1, <1>2, <1>5
<1>7. x \in Nat /\ 2 * x <= 40 * k /\ buffer \in Nat
  BY <1>3, <1>4, <1>6
<1>8. 5 * x <= 100 * buffer
  BY <1>4, <1>7
<1>9. Share[c] \in Nat /\ Share[d] \in Nat
  BY HeightAssumption, Zenon DEF Count
<1> HIDE DEF x, buffer
<1>10. (x * Share[c]) \div 100 - (x * Share[d]) \div 100 <= buffer
  BY <1>7, <1>8, <1>9, CutOff
<1> DEFINE rc == (x * Share[c]) \div 100
           rd == (x * Share[d]) \div 100
           cap == (v * 6) \div 10
<1>11. x * Share[c] \in Nat /\ x * Share[d] \in Nat
  BY <1>7, <1>9
<1>12. rc \in Nat /\ rd \in Nat /\ cap \in Nat
  BY <1>6, <1>11
<1>13. /\ GetMasternodePayment(h, v, c) = IF h < StartHeight THEN 0 ELSE IF rc > cap THEN cap ELSE rc
       /\ GetMasternodePayment(h, v, d) = IF h < StartHeight THEN 0 ELSE IF rd > cap THEN cap ELSE rd
  BY Zenon DEF GetMasternodePayment, x
<1>14. rc - rd <= buffer
  BY <1>10, Zenon
<1> HIDE DEF rc, rd, cap
<1>15. GetMasternodePayment(h, v, c) - GetMasternodePayment(h, v, d) <= buffer
  BY <1>7, <1>12, <1>13, <1>14
<1>16. QED
  BY <1>15, Zenon DEF v, buffer, T
----------------------------------------------------------------------------
(* The coinbase.                                                           *)

Script == Payee \cup {Miner[n] : n \in Node} \cup {Treasury, Commitment}

\* The sum of a coinbase of three or four outputs.
LEMMA ThreeOut ==
    ASSUME NEW out, Len(out) = 3
    PROVE  ValueOut(out) = out[1].value + out[2].value + out[3].value + 0
BY SMTT(30) DEF ValueOut

LEMMA FourOut ==
    ASSUME NEW out, Len(out) = 4
    PROVE  ValueOut(out) = out[1].value + out[2].value + out[3].value + out[4].value
BY SMTT(30) DEF ValueOut

LEMMA SumLess ==
    ASSUME NEW s \in Nat, NEW T \in Nat, T <= s, NEW f \in Nat
    PROVE  s - T + f \in Nat /\ (s + f) - T = s - T + f
OBVIOUS

LEMMA SharesSum ==
    ASSUME NEW v \in Nat, NEW T \in Nat, NEW P \in Nat
    PROVE  v + T + 0 + 0 = v + T /\ (v - P) + T + P + 0 = v + T
OBVIOUS

\* The outputs of a coinbase, one by one, and their sum.
Outputs(out, s, h, payee, f, c) ==
    /\ ValueOut(out) = GetBlockSubsidy(h) + f
    /\ Len(out) = IF payee = NoPayee THEN 3 ELSE 4
    /\ out[1].script = s /\ out[Len(out)].script = Commitment
    /\ out[2] = [script |-> Treasury, value |-> IF h = 1 THEN 0 ELSE TreasuryPart(h)]
    /\ payee # NoPayee =>
         out[3].script = payee /\ out[3].value = GetMasternodePayment(h, ValueAt(h, f), c)

\* The element appended to a list is its last.
LEMMA LastAppended ==
    ASSUME NEW S, NEW t \in Seq(S), NEW e
    PROVE  Append(t, e)[Len(t) + 1] = e
BY SMTT(30)

\* Coinbase has those outputs.
LEMMA CoinbaseFacts ==
    ASSUME NEW s \in Script, NEW h \in Nat, NEW payee \in Payee \cup {NoPayee},
           NEW f \in Nat, NEW c \in Count,
           NEW out, out = Coinbase(s, h, payee, f, c)
    PROVE  out \in Seq(Output) /\ Outputs(out, s, h, payee, f, c)
<1> DEFINE T == IF h = 1 THEN 0 ELSE TreasuryPart(h)
           v == ValueAt(h, f)
           P == GetMasternodePayment(h, v, c)
           o1 == [script |-> s, value |-> v]
           o2 == [script |-> Treasury, value |-> T]
           o3 == [script |-> Commitment, value |-> 0]
           p1 == [script |-> s, value |-> v - P]
           p3 == [script |-> payee, value |-> P]
<1>1. GetBlockSubsidy(h) \in Nat /\ T \in Nat /\ T <= GetBlockSubsidy(h)
  BY SubsidyFacts
<1>2. v = GetBlockSubsidy(h) - T + f
  BY Zenon DEF ValueAt
<1>3. v \in Nat /\ v + T = GetBlockSubsidy(h) + f
  BY <1>1, <1>2
<1>4. P \in Nat /\ P <= v
  BY <1>3, PaymentFacts, Zenon
<1>5. out = IF payee = NoPayee THEN <<o1, o2, o3>> ELSE <<p1, o2, p3, o3>>
  BY Zenon DEF Coinbase, ValueAt
<1>6. o1 \in Output /\ o2 \in Output /\ o3 \in Output /\ p1 \in Output
  BY <1>1, <1>3, <1>4, SMTT(30) DEF Output, Script
<1>7. payee # NoPayee => p3 \in Output
  BY <1>4, Zenon DEF Output
<1>8. /\ o1.value = v /\ o2.value = T /\ o3.value = 0 /\ p1.value = v - P /\ p3.value = P
      /\ o1.script = s /\ p1.script = s /\ o3.script = Commitment /\ p3.script = payee
  BY Zenon
<1> HIDE DEF T, v, P, o1, o2, o3, p1, p3
<1>9. CASE payee = NoPayee
  <2>1. out = <<o1, o2, o3>>
    BY <1>5, <1>9, Zenon
  <2>2. out \in Seq(Output) /\ Len(out) = 3 /\ out[1] = o1 /\ out[2] = o2 /\ out[3] = o3
    BY <1>6, <2>1, SMTT(30)
  <2>3. ValueOut(out) = v + T
    <3>1. ValueOut(out) = v + T + 0 + 0
      BY <1>8, <2>2, ThreeOut, Zenon
    <3>2. QED
      BY <1>1, <1>3, <1>4, <3>1, SharesSum, Zenon
  <2>4. QED
    BY <1>3, <1>8, <1>9, <2>2, <2>3, Zenon DEF o2, T, Outputs
<1>10. CASE payee # NoPayee
  <2>1. out = <<p1, o2, p3, o3>>
    BY <1>5, <1>10, Zenon
  <2>2. /\ out \in Seq(Output) /\ Len(out) = 4
        /\ out[1] = p1 /\ out[2] = o2 /\ out[3] = p3 /\ out[4] = o3
    BY <1>6, <1>7, <1>10, <2>1, SMTT(30)
  <2>3. ValueOut(out) = v + T
    <3>1. ValueOut(out) = (v - P) + T + P + 0
      BY <1>8, <2>2, FourOut, Zenon
    <3>2. QED
      BY <1>1, <1>3, <1>4, <3>1, SharesSum, Zenon
  <2>4. QED
    BY <1>3, <1>8, <1>10, <2>2, <2>3, Zenon DEF o2, T, P, v, Outputs
<1>11. QED
  BY <1>9, <1>10, Zenon

\* b is the block that the miner m makes for payee with c masternodes on its list.
MadeBy(b, m, payee, c) ==
    /\ b \in Block /\ Len(b) > 0 /\ m \in Node /\ payee \in Payee \cup {NoPayee} /\ c \in Count
    /\ Last(b).out = Coinbase(Miner[m], HeightOf(b), payee, Last(b).fees, c)
    /\ HeightOf(b) <= StartHeight => payee = NoPayee

\* The payment for c masternodes is about what n expects.
InBand(n, b, c) ==
    HeightOf(b) > BandHeight =>
        LET v == ValueAt(HeightOf(b), Last(b).fees)
            right == GetMasternodePayment(HeightOf(b), v, Cardinality(list[n]))
            buffer == TreasuryPart(HeightOf(b)) \div 2
        IN  GetMasternodePayment(HeightOf(b), v, c) \in right - buffer .. right + buffer

\* b pays the payee on n's record, if n looks, and about the right amount.
Expected(n, b, payee, c) ==
    winner[n][HeightOf(b)] # NoPayee =>
        InBand(n, b, c) /\ (HeightOf(b) > StartHeight => payee = winner[n][HeightOf(b)])

\* A block that pays the payee on n's record, in the amount n expects, passes
\* all rules at n.
LEMMA RulesHold ==
    ASSUME NEW n \in Node, NEW b, NEW m, NEW payee, NEW c, MadeBy(b, m, payee, c),
           base \in Nat, winner[n][HeightOf(b)] \in Payee \cup {NoPayee},
           Expected(n, b, payee, c)
    PROVE  CheckBlock(n, b) /\ ConnectBlock(n, b)
<1> DEFINE h == HeightOf(b)
           f == Last(b).fees
           out == Last(b).out
           T == TreasuryPart(h)
           v == ValueAt(h, f)
           P == GetMasternodePayment(h, v, c)
           R == GetMasternodePayment(h, v, Cardinality(list[n]))
           w == winner[n][h]
<1>1. h \in Nat /\ h > 0 /\ f \in Nat
  <2> DEFINE Entry == [out : Seq(Output), fees : Fees]
  <2>1. b \in Seq(Entry) /\ Len(b) > 0
    BY Zenon DEF MadeBy, Block
  <2>2. Last(b) \in Entry /\ Len(b) \in Nat
    <3> HIDE DEF Entry
    <3>1. Len(b) \in Nat
      BY <2>1, LenProperties, Zenon
    <3>2. Len(b) \in 1 .. Len(b)
      BY <2>1, <3>1
    <3>3. QED
      BY <2>1, <3>1, <3>2, ElementOfSeq, Zenon DEF Last
  <2>3. f \in Nat
    <3>1. f \in Fees
      BY <2>2, Zenon
    <3>2. Fees \subseteq Nat
      BY HeightAssumption, Zenon
    <3>3. QED
      BY <3>1, <3>2, Zenon
  <2>4. h \in Nat /\ h > 0
    <3> HIDE DEF Entry
    <3>1. QED
      BY <2>1, <2>2 DEF HeightOf
  <2>5. QED
    BY <2>3, <2>4, Zenon
<1>2. Miner[m] \in Script /\ Miner[m] \notin Payee
  BY ScriptAssumption, Zenon DEF MadeBy, Script
<1>3. out = Coinbase(Miner[m], h, payee, f, c) /\ payee \in Payee \cup {NoPayee} /\ c \in Count
  BY Zenon DEF MadeBy
<1> HIDE DEF h, f, out
<1>a. out \in Seq(Output) /\ Outputs(out, Miner[m], h, payee, f, c)
  BY <1>1, <1>2, <1>3, CoinbaseFacts, Zenon
<1>4. /\ ValueOut(out) = GetBlockSubsidy(h) + f
      /\ Len(out) = IF payee = NoPayee THEN 3 ELSE 4
      /\ out[1].script = Miner[m] /\ out[Len(out)].script = Commitment
      /\ out[2] = [script |-> Treasury, value |-> IF h = 1 THEN 0 ELSE T]
      /\ payee # NoPayee => out[3].script = payee /\ out[3].value = P
  BY <1>a, Zenon DEF Outputs
<1>5. GetBlockSubsidy(h) \in Nat /\ T \in Nat /\ T <= GetBlockSubsidy(h)
  BY <1>1, SubsidyFacts, Zenon
<1>6. h > 1 => ValueOut(out) - T = v
  BY <1>1, <1>4, <1>5, SMTT(30) DEF ValueAt
<1>7. v \in Nat
  BY <1>1, <1>5 DEF ValueAt
<1>8. P \in Nat /\ 10 * P <= 6 * v
  BY <1>1, <1>3, <1>7, PaymentFacts, Zenon
<1>9. DOMAIN out = 1 .. Len(out)
  BY <1>a, LenProperties, Zenon
<1>10. h <= StartHeight => payee = NoPayee
  BY Zenon DEF MadeBy, h
<1>11. StartHeight >= 1 /\ StartHeight \in Nat
  BY HeightAssumption, SMTT(30)
<1>12. h > BandHeight /\ w # NoPayee => P \in R - (T \div 2) .. R + (T \div 2)
  BY Zenon DEF Expected, InBand, h, f
<1>13. w \in Payee \cup {NoPayee} /\ (h > StartHeight /\ w # NoPayee => payee = w)
  BY Zenon DEF Expected, h
<1> HIDE DEF T, v, P, R, w
<1>14. CheckBlock(n, b)
  <2>1. SUFFICES ASSUME h - 1 >= StartHeight, w # NoPayee
                 PROVE  \E i \in DOMAIN out :
                           out[i].script = w /\ 10 * out[i].value <= 6 * (ValueOut(out) - T)
    BY Zenon DEF CheckBlock, h, out, T, w
  <2>2. h > StartHeight /\ h > 1
    BY <1>1, <1>11, <2>1, SMTT(30)
  <2>3. payee = w /\ Len(out) = 4 /\ out[3].script = w /\ out[3].value = P
    BY <1>4, <1>13, <2>1, <2>2, Zenon
  <2>4. 3 \in DOMAIN out /\ 10 * out[3].value <= 6 * (ValueOut(out) - T)
    BY <1>6, <1>8, <1>9, <2>2, <2>3, SMTT(30)
  <2>5. QED
    BY <2>3, <2>4, Zenon
<1>15. TreasuryPaid(b)
  <2>1. (IF h <= PRE_SUBSIDY_HEIGHT THEN 0 ELSE T) = IF h = 1 THEN 0 ELSE T
    <3>1. h > 1 /\ h <= PRE_SUBSIDY_HEIGHT => T = 0
      <4>1. h > 1 /\ h <= PRE_SUBSIDY_HEIGHT => GetBlockSubsidy(h) = 0
        BY <1>1 DEF GetBlockSubsidy
      <4>2. QED
        BY <4>1 DEF T, TreasuryPart
    <3>2. PRE_SUBSIDY_HEIGHT \in Nat /\ PRE_SUBSIDY_HEIGHT >= 1
      BY HeightAssumption, SMTT(30)
    <3>3. QED
      BY <1>1, <3>1, <3>2
  <2>2. 2 \in DOMAIN out
    BY <1>4, <1>9, SMTT(30)
  <2>3. QED
    BY <1>4, <2>1, <2>2, Zenon DEF TreasuryPaid, h, out, T
<1>16. NotPaidEarly(n, b)
  <2>1. SUFFICES ASSUME h < StartHeight, w # NoPayee, NEW i \in DOMAIN out, out[i].script = w
                 PROVE  FALSE
    BY Zenon DEF NotPaidEarly, h, out, w
  <2>2. payee = NoPayee /\ Len(out) = 3
    BY <1>1, <1>4, <1>10, <1>11, <2>1
  <2>3. i \in {1, 2, 3}
    BY <1>9, <2>2, SMTT(30)
  <2>4. out[i].script \in {Miner[m], Treasury, Commitment}
    BY <1>4, <2>2, <2>3, SMTT(30)
  <2>5. QED
    BY <1>2, <1>13, <2>1, <2>4, ScriptAssumption, Zenon
<1>17. PaymentAssured(n, b)
  <2>1. SUFFICES ASSUME h > AssuredHeight
                 PROVE  IF w = NoPayee THEN Len(out) >= 3
                        ELSE \E i \in DOMAIN out :
                                /\ out[i].script = w
                                /\ \A j \in 1 .. i - 1 : out[j].script # w
                                /\ 10 * out[i].value <= 6 * v
                                /\ h > BandHeight => out[i].value \in R - (T \div 2) .. R + (T \div 2)
    <3>1. CASE h > AssuredHeight
      <4>1. h > 1
        BY <1>1, <3>1, HeightAssumption
      <4>2. ValueOut(out) - T = v
        BY <1>6, <4>1, Zenon
      <4>3. QED
        BY <2>1, <3>1, <4>2, Zenon DEF PaymentAssured, h, out, T, R, w
    <3>2. CASE ~(h > AssuredHeight)
      BY <3>2, Zenon DEF PaymentAssured, h
    <3>3. QED
      BY <3>1, <3>2, Zenon
  <2>2. CASE w = NoPayee
    BY <1>4, <2>2, SMTT(30)
  <2>3. CASE w # NoPayee
    <3>1. h > StartHeight
      BY <1>1, <2>1, HeightAssumption, SMTT(30)
    <3>2. payee = w /\ Len(out) = 4 /\ out[3].script = w /\ out[3].value = P
      BY <1>4, <1>13, <2>3, <3>1, ZenonT(30)
    <3>3. \A j \in 1 .. 2 : out[j].script # w
      BY <1>2, <1>4, <1>13, <2>3, ScriptAssumption, SMTT(30)
    <3>4. QED
      BY <1>8, <1>9, <1>12, <2>3, <3>2, <3>3
  <2>4. QED
    BY <2>2, <2>3, Zenon
<1>18. RewardKept(b)
  BY <1>1, <1>4, <1>5 DEF RewardKept, h, f, out
<1>19. QED
  BY <1>14, <1>15, <1>16, <1>17, <1>18, Zenon DEF ConnectBlock
----------------------------------------------------------------------------
(* The inductive invariant.                                                *)

\* With a block, all blocks below it were mined.
Closed ==
    \A b \in offered :
        Len(b) \in 1 .. MaxLength /\ \A i \in 1 .. Len(b) : SubSeq(b, 1, i) \in offered

\* If votes come in time, a block pays the best of them.
PaysBest(b, payee) ==
    settled /\ HeightOf(b) > StartHeight /\ Best(HeightOf(b)) # NoPayee => payee = Best(HeightOf(b))

\* Every block is a coinbase of CreateNewBlock.
Made ==
    \A b \in offered : \E m \in Node, payee \in Payee \cup {NoPayee}, c \in sizes :
        MadeBy(b, m, payee, c) /\ PaysBest(b, payee)

\* If votes come in time, a node has no other payee on record than the best.
OnRecord ==
    settled => \A n \in Node, h \in Height : Mined(h) => winner[n][h] \in {NoPayee, Best(h)}

\* sizes has the sizes of the lists.
Sized == \A n \in Node : Cardinality(list[n]) \in sizes

IInv == TypeOK /\ Closed /\ Made /\ OnRecord /\ Sized /\ MinerNeverThrows /\ Agreement

\* A list is no longer than all masternodes.
LEMMA ListSize ==
    ASSUME NEW s \in SUBSET Payee
    PROVE  Cardinality(s) \in Count
<1>1. IsFiniteSet(Payee)
  BY ScriptAssumption, Zenon
<1>2. IsFiniteSet(s) /\ Cardinality(s) <= Cardinality(Payee)
  BY <1>1, FS_Subset, Zenon
<1>3. Cardinality(s) \in Nat /\ Cardinality(Payee) \in Nat
  BY <1>1, <1>2, FS_CardinalityType, Zenon
<1>4. QED
  BY <1>2, <1>3 DEF Count

\* Where a block is.
LEMMA BlockFacts ==
    ASSUME TypeOK, Closed, NEW b \in offered
    PROVE  /\ b \in Block /\ Len(b) \in 1 .. MaxLength /\ base \in Nat
           /\ HeightOf(b) \in Height /\ Parent(b) \in offered \cup {<<>>}
<1>1. b \in Block /\ base \in Base /\ Len(b) \in 1 .. MaxLength
  BY Zenon DEF TypeOK, Closed
<1>2. base \in Nat /\ base + MaxLength <= MaxHeight /\ MaxHeight \in Nat /\ MaxLength \in Nat
  BY <1>1, HeightAssumption, Zenon
<1>3. HeightOf(b) \in Height
  BY <1>1, <1>2 DEF HeightOf, Height
<1>4. Parent(b) \in offered \cup {<<>>}
  <2>1. CASE Len(b) = 1
    BY <2>1, SubSeqEmpty DEF Parent
  <2>2. CASE Len(b) # 1
    <3>1. Len(b) - 1 \in 1 .. Len(b)
      <4> DEFINE k == Len(b)
      <4>1. k \in Nat /\ k >= 1 /\ k # 1
        BY <1>1, <1>2, <2>2
      <4> HIDE DEF k
      <4>2. k - 1 \in 1 .. k
        BY <4>1
      <4>3. QED
        BY <4>2, Zenon DEF k
    <3>2. QED
      BY <3>1, Zenon DEF Closed, Parent
  <2>3. QED
    BY <2>1, <2>2, Zenon
<1>5. QED
  BY <1>1, <1>2, <1>3, <1>4, Zenon

\* If votes come in time and the lists are alike, every block passes everywhere.
LEMMA OfferedPasses ==
    ASSUME TypeOK, Closed, Made, OnRecord, Sized, settled, SizesAlike,
           NEW n \in Node, NEW b \in offered
    PROVE  CheckBlock(n, b) /\ ConnectBlock(n, b)
<1> DEFINE h == HeightOf(b)
           d == Cardinality(list[n])
           f == Last(b).fees
<1>1. PICK m \in Node, payee \in Payee \cup {NoPayee}, c \in sizes :
         MadeBy(b, m, payee, c) /\ PaysBest(b, payee)
  BY Zenon DEF Made
<1>2. b \in Block /\ Len(b) \in 1 .. MaxLength /\ base \in Nat /\ h \in Height
  BY BlockFacts, Zenon
<1>3. winner[n][h] \in Payee \cup {NoPayee}
  BY <1>2, SMTT(30) DEF TypeOK
<1>4. d \in sizes /\ d \in Count /\ c \in Count
  BY <1>1, ListSize, Zenon DEF TypeOK, Sized, MadeBy
<1>5. winner[n][h] \in {NoPayee, Best(h)}
  BY <1>2, Zenon DEF OnRecord, Mined
<1>6. InBand(n, b, c)
  <2>1. SUFFICES ASSUME h > BandHeight PROVE InBand(n, b, c)
    BY Zenon DEF InBand
  <2> DEFINE v == ValueAt(h, f)
             buffer == TreasuryPart(h) \div 2
             P == GetMasternodePayment(h, v, c)
             R == GetMasternodePayment(h, v, d)
  <2>2. h \in Nat /\ h > 1
    BY <1>2, <2>1, HeightAssumption DEF Height
  <2>3. f \in Nat
    <3> DEFINE Entry == [out : Seq(Output), fees : Fees]
    <3>1. b \in Seq(Entry)
      BY <1>2, Zenon DEF Block
    <3>2. Len(b) \in 1 .. Len(b)
      BY <1>2, HeightAssumption
    <3>3. Last(b) \in Entry
      <4> HIDE DEF Entry
      <4> QED BY <3>1, <3>2, ElementOfSeq, Zenon DEF Last
    <3>4. Fees \subseteq Nat /\ f \in Fees
      BY <3>3, HeightAssumption, Zenon
    <3>5. QED
      BY <3>4, Zenon
  <2>4. TreasuryPart(h) \in Nat /\ GetBlockSubsidy(h) \in Nat /\ TreasuryPart(h) <= GetBlockSubsidy(h)
    BY <2>2, SubsidyFacts, Zenon
  <2>5. v \in Nat /\ buffer \in Nat
    BY <2>2, <2>3, <2>4 DEF ValueAt
  <2>6. P \in Nat /\ R \in Nat
    BY <1>4, <2>2, <2>5, PaymentFacts, Zenon
  <2>7. \/ c = d
        \/ c # 0 /\ d # 0 /\ Share[c] - Share[d] <= 5 /\ f <= TreasuryPart(h)
    BY <1>1, <1>4, <2>1, Zenon DEF SizesAlike
  <2>8. \/ d = c
        \/ c # 0 /\ d # 0 /\ Share[d] - Share[c] <= 5 /\ f <= TreasuryPart(h)
    BY <1>1, <1>4, <2>1, Zenon DEF SizesAlike
  <2>9. P - R <= buffer /\ R - P <= buffer
    <3>1. CASE c = d
      <4>1. P = R
        BY <3>1, Zenon
      <4> HIDE DEF P, R, buffer
      <4>2. QED
        BY <2>5, <2>6, <4>1
    <3>2. CASE c # d
      <4>1. c \in Count \ {0} /\ d \in Count \ {0} /\ f <= TreasuryPart(h)
        BY <1>4, <2>7, <3>2, Zenon
      <4>2. Share[c] - Share[d] <= 5 /\ Share[d] - Share[c] <= 5
        BY <2>7, <2>8, <3>2, Zenon
      <4> HIDE DEF h, d, f
      <4>3. P - R <= buffer
        BY <2>2, <2>3, <4>1, <4>2, PaymentsClose, Zenon
      <4>4. R - P <= buffer
        BY <2>2, <2>3, <4>1, <4>2, PaymentsClose, Zenon
      <4>5. QED
        BY <4>3, <4>4, Zenon
    <3>3. QED
      BY <3>1, <3>2, Zenon
  <2>10. P \in R - buffer .. R + buffer
    <3> HIDE DEF P, R, buffer
    <3> QED BY <2>5, <2>6, <2>9, SMTT(30)
  <2>11. QED
    BY <2>10, Zenon DEF InBand
<1>7. Expected(n, b, payee, c)
  BY <1>1, <1>5, <1>6, Zenon DEF Expected, PaysBest
<1>8. QED
  BY <1>1, <1>2, <1>3, <1>7, RulesHold, Zenon
----------------------------------------------------------------------------
(* The steps.                                                              *)

\* The miner's own block passes the miner's own rules.
LEMMA OwnPasses ==
    ASSUME TypeOK, Closed, NEW n \in Node, NEW fees \in Fees, Len(tip[n]) < MaxLength,
           NEW payee \in Choices(n, HeightOf(tip[n]) + 1),
           NEW b, b = Append(tip[n], [out |-> Coinbase(Miner[n], HeightOf(tip[n]) + 1, payee, fees,
                                                       Cardinality(list[n])),
                                      fees |-> fees])
    PROVE  /\ b \in Block /\ Len(b) = Len(tip[n]) + 1 /\ Len(b) \in 1 .. MaxLength
           /\ HeightOf(b) = HeightOf(tip[n]) + 1 /\ HeightOf(b) \in Height
           /\ MadeBy(b, n, payee, Cardinality(list[n]))
           /\ HeightOf(b) > StartHeight /\ winner[n][HeightOf(b)] # NoPayee =>
                payee = winner[n][HeightOf(b)]
           /\ CheckBlock(n, b) /\ ConnectBlock(n, b)
<1> DEFINE Entry == [out : Seq(Output), fees : Fees]
           t == tip[n]
           h == HeightOf(t) + 1
           c == Cardinality(list[n])
           o == Coinbase(Miner[n], h, payee, fees, c)
           e == [out |-> o, fees |-> fees]
<1>1. t \in Seq(Entry) /\ Len(t) \in Nat
  <2>1. t \in offered \cup {<<>>} /\ offered \subseteq Seq(Entry)
    BY Zenon DEF TypeOK, Block
  <2>2. t \in Seq(Entry)
    <3> HIDE DEF Entry
    <3> QED BY <2>1, EmptySeq, Zenon
  <2>3. QED
    <3> HIDE DEF Entry
    <3> QED BY <2>2, LenProperties, Zenon
<1>2. base \in Nat /\ base + MaxLength <= MaxHeight /\ MaxHeight \in Nat /\ MaxLength \in Nat
  BY HeightAssumption, Zenon DEF TypeOK
<1>3. h = base + Len(t) + 1 /\ h \in Nat /\ h \in Height
  BY <1>1, <1>2, SMTT(30) DEF HeightOf, Height
<1>4. winner[n][h] \in Payee \cup {NoPayee} /\ list[n] \subseteq Payee
  BY <1>3, SMTT(30) DEF TypeOK
<1>5. c \in Count
  BY <1>4, ListSize, Zenon
<1>6. payee \in Payee \cup {NoPayee}
  BY <1>4, Zenon DEF Choices
<1>7. /\ h <= StartHeight => payee = NoPayee
      /\ h > StartHeight /\ winner[n][h] # NoPayee => payee = winner[n][h]
  <2>1. StartHeight \in Nat
    BY HeightAssumption, Zenon
  <2>2. /\ h - 1 < StartHeight => payee = NoPayee
        /\ ~(h - 1 < StartHeight) /\ winner[n][h] # NoPayee => payee = winner[n][h]
    BY Zenon DEF Choices
  <2>3. QED
    <3> HIDE DEF h
    <3> QED BY <1>3, <2>1, <2>2, SMTT(30)
<1>8. fees \in Nat /\ Miner[n] \in Script
  BY HeightAssumption, Zenon DEF Script
<1>9. o \in Seq(Output)
  <2> HIDE DEF h, c
  <2> QED BY <1>3, <1>5, <1>6, <1>8, CoinbaseFacts, Zenon
<1>10. e \in Entry /\ e.out = o /\ e.fees = fees
  <2> HIDE DEF o
  <2> QED BY <1>9, Zenon
<1>11. b = Append(t, e)
  BY ZenonT(30)
<1> HIDE DEF e, Entry
<1>12. b \in Seq(Entry) /\ Len(b) = Len(t) + 1 /\ b[Len(t) + 1] = e
  BY <1>1, <1>10, <1>11, AppendProperties, SMTT(30)
<1>13. b \in Block /\ Last(b) = e /\ HeightOf(b) = h
  BY <1>1, <1>2, <1>3, <1>12, SMTT(30) DEF Block, Entry, Last, HeightOf
<1>14. Len(b) \in 1 .. MaxLength
  BY <1>1, <1>2, <1>12, SMTT(30)
<1>15. MadeBy(b, n, payee, c)
  <2> HIDE DEF h, c
  <2>1. Last(b).out = Coinbase(Miner[n], HeightOf(b), payee, Last(b).fees, c)
    BY <1>10, <1>13, Zenon
  <2>2. Len(b) > 0
    BY <1>1, <1>12
  <2>3. QED
    BY <1>5, <1>6, <1>7, <1>13, <2>1, <2>2, Zenon DEF MadeBy
<1>16. InBand(n, b, c)
  <2>1. SUFFICES ASSUME h > BandHeight PROVE InBand(n, b, c)
    BY <1>13, Zenon DEF InBand
  <2> DEFINE v == ValueAt(h, fees)
             buffer == TreasuryPart(h) \div 2
             R == GetMasternodePayment(h, v, c)
  <2> HIDE DEF h
  <2>2. TreasuryPart(h) \in Nat /\ GetBlockSubsidy(h) \in Nat /\ TreasuryPart(h) <= GetBlockSubsidy(h)
    BY <1>3, SubsidyFacts, Zenon
  <2>3. v \in Nat /\ buffer \in Nat
    BY <1>8, <2>2, SMTT(30) DEF ValueAt
  <2>4. R \in Nat
    BY <1>3, <1>5, <2>3, PaymentFacts, Zenon
  <2>5. R \in R - buffer .. R + buffer
    <3> HIDE DEF R, buffer
    <3> QED BY <2>3, <2>4, SMTT(30)
  <2>6. QED
    BY <1>10, <1>13, <2>5, ZenonT(30) DEF InBand
<1>17. Expected(n, b, payee, c)
  <2> HIDE DEF h, c
  <2> QED BY <1>7, <1>13, <1>16, Zenon DEF Expected
<1>18. CheckBlock(n, b) /\ ConnectBlock(n, b)
  BY <1>2, <1>4, <1>13, <1>15, <1>17, RulesHold, Zenon
<1>19. QED
  BY <1>3, <1>7, <1>12, <1>13, <1>14, <1>15, <1>18, Zenon
\* What the invariant says of votes and blocks, when neither changes.
LEMMA VotesStay ==
    ASSUME UNCHANGED <<base, offered, votes>>
    PROVE  /\ \A h : Best(h)' = Best(h) /\ Mined(h)' = Mined(h)
           /\ \A b : HeightOf(b)' = HeightOf(b)
BY Zenon DEF Best, Voted, Mined, HeightOf

\* MadeBy looks only at the common block.
LEMMA MadeStays ==
    ASSUME base' = base, NEW b, NEW m, NEW payee, NEW c
    PROVE  MadeBy(b, m, payee, c)' = MadeBy(b, m, payee, c) /\ HeightOf(b)' = HeightOf(b)
<1>1. HeightOf(b)' = HeightOf(b) /\ Last(b)' = Last(b) /\ Block' = Block
  BY Zenon DEF HeightOf, Last, Block, Output
<1>2. ASSUME NEW h PROVE Coinbase(Miner[m], h, payee, Last(b).fees, c)'
                           = Coinbase(Miner[m], h, payee, Last(b).fees, c)
  BY Zenon DEF Coinbase, TreasuryPart, GetBlockSubsidy, GetMasternodePayment, Last
<1>3. QED
  BY <1>1, <1>2, Zenon DEF MadeBy

\* Alike lists were alike before.
LEMMA AlikeBefore ==
    ASSUME base' = base, offered \subseteq offered', sizes \subseteq sizes', SizesAlike'
    PROVE  SizesAlike
<1> SUFFICES ASSUME NEW b \in offered, HeightOf(b) > BandHeight, NEW c \in sizes, NEW d \in sizes
             PROVE  \/ c = d
                    \/ /\ c # 0 /\ d # 0 /\ Share[c] - Share[d] <= 5
                       /\ Last(b).fees <= TreasuryPart(HeightOf(b))
  BY Zenon DEF SizesAlike
<1>1. b \in offered' /\ c \in sizes' /\ d \in sizes'
  BY Zenon
<1>2. HeightOf(b)' = HeightOf(b)
  BY Zenon DEF HeightOf
<1>3. TreasuryPart(HeightOf(b))' = TreasuryPart(HeightOf(b)) /\ Last(b)' = Last(b)
  BY <1>2, Zenon DEF TreasuryPart, GetBlockSubsidy, Last
<1>4. \/ c = d
      \/ /\ c # 0 /\ d # 0 /\ Share[c] - Share[d] <= 5
         /\ Last(b)'.fees <= TreasuryPart(HeightOf(b))'
  BY <1>1, <1>2, Zenon DEF SizesAlike
<1>5. QED
  BY <1>3, <1>4, Zenon

\* Steps that leave votes, record, lists and mined blocks alone keep all that
\* the invariant says of them.
LEMMA ChainOnly ==
    ASSUME Closed, Made, OnRecord, Sized,
           UNCHANGED <<base, winner, list, offered, votes, settled, sizes>>
    PROVE  Closed' /\ Made' /\ OnRecord' /\ Sized' /\ (SizesAlike' <=> SizesAlike)
<1>1. /\ \A h : Best(h)' = Best(h) /\ Mined(h)' = Mined(h)
      /\ \A b : HeightOf(b)' = HeightOf(b)
  BY VotesStay, Zenon
<1>2. Closed'
  BY Zenon DEF Closed
<1>3. Made'
  <2>1. \A b, m, payee, c : MadeBy(b, m, payee, c)' = MadeBy(b, m, payee, c)
    BY MadeStays, Zenon
  <2>2. \A b, payee : PaysBest(b, payee)' = PaysBest(b, payee)
    BY <1>1, Zenon DEF PaysBest
  <2>3. QED
    BY <2>1, <2>2, Zenon DEF Made
<1>4. OnRecord'
  BY <1>1, Zenon DEF OnRecord
<1>5. Sized'
  BY Zenon DEF Sized
<1>6. SizesAlike' <=> SizesAlike
  BY <1>1, SMTT(30) DEF SizesAlike, TreasuryPart, GetBlockSubsidy
<1>7. QED
  BY <1>2, <1>3, <1>4, <1>5, <1>6, Zenon
\* The end of a download.
LEMMA CaughtUpStep ==
    ASSUME IInv, NEW n \in Node, CaughtUp(n)
    PROVE  IInv'
<1>1. TypeOK'
  BY Zenon DEF IInv, TypeOK, CaughtUp, chainVars, Block, Output
<1>2. Closed' /\ Made' /\ OnRecord' /\ Sized' /\ (SizesAlike' <=> SizesAlike)
  BY ChainOnly, Zenon DEF IInv, CaughtUp
<1>3. MinerNeverThrows' /\ Agreement'
  BY <1>2, Zenon DEF IInv, CaughtUp, chainVars, MinerNeverThrows, Agreement
<1>4. QED
  BY <1>1, <1>2, <1>3, Zenon DEF IInv

\* A block arrives: if votes come in time, CheckBlock does not refuse it.
LEMMA ProcessStep ==
    ASSUME IInv, NEW n \in Node, NEW b \in offered, ProcessNewBlock(n, b)
    PROVE  IInv'
<1>1. TypeOK'
  <2>1. /\ have \in [Node -> SUBSET (offered \cup {<<>>})] /\ refused \in [Node -> SUBSET offered]
        /\ checked \in [Node -> offered \cup {NoBlock}]
    BY Zenon DEF IInv, TypeOK
  <2>2. /\ have' = have \/ have' = [have EXCEPT ![n] = @ \cup {b}]
        /\ refused' = refused \/ refused' = [refused EXCEPT ![n] = @ \cup {b}]
        /\ checked' = checked \/ checked' = [checked EXCEPT ![n] = b]
    BY Zenon DEF ProcessNewBlock
  <2>3. have' \in [Node -> SUBSET (offered \cup {<<>>})]
    BY <2>1, <2>2, SMTT(30)
  <2>4. refused' \in [Node -> SUBSET offered]
    BY <2>1, <2>2, SMTT(30)
  <2>5. checked' \in [Node -> offered \cup {NoBlock}]
    BY <2>1, <2>2, Zenon
  <2>6. QED
    BY <2>3, <2>4, <2>5, Zenon DEF IInv, TypeOK, ProcessNewBlock, Block, Output
<1>2. Closed' /\ Made' /\ OnRecord' /\ Sized' /\ (SizesAlike' <=> SizesAlike)
  BY ChainOnly, Zenon DEF IInv, ProcessNewBlock
<1>3. settled /\ SizesAlike => CheckBlock(n, b)
  BY OfferedPasses, Zenon DEF IInv
<1>4. Agreement'
  BY <1>2, <1>3, Zenon DEF IInv, ProcessNewBlock, Agreement
<1>5. MinerNeverThrows'
  BY Zenon DEF IInv, ProcessNewBlock, MinerNeverThrows
<1>6. QED
  BY <1>1, <1>2, <1>4, <1>5, Zenon DEF IInv

\* A block is disconnected.
LEMMA DisconnectStep ==
    ASSUME IInv, NEW n \in Node, NEW b \in offered, Disconnect(n, b)
    PROVE  IInv'
<1>1. tip[n] \in offered \cup {<<>>} /\ tip \in [Node -> offered \cup {<<>>}]
  BY Zenon DEF IInv, TypeOK
<1>2. b \in Block /\ Len(b) \in 1 .. MaxLength
  BY BlockFacts, Zenon DEF IInv
<1>3. tip[n] # <<>>
  <2>1. SubSeq(b, 1, 0) = <<>>
    BY SubSeqEmpty, SMTT(30)
  <2>2. Len(<<>>) = 0 /\ 0 <= Len(b)
    BY <1>2, EmptySeq, HeightAssumption
  <2>3. IsPrefix(<<>>, b)
    BY <2>1, <2>2, Zenon DEF IsPrefix
  <2>4. QED
    BY <2>3, Zenon DEF Disconnect
<1>4. tip[n] \in offered /\ Parent(tip[n]) \in offered \cup {<<>>} /\ Len(tip[n]) \in 0 .. MaxLength
  <2>1. tip[n] \in offered
    BY <1>1, <1>3, Zenon
  <2>2. Parent(tip[n]) \in offered \cup {<<>>} /\ Len(tip[n]) \in 1 .. MaxLength
    BY <2>1, BlockFacts, Zenon DEF IInv
  <2>3. QED
    BY <2>1, <2>2, HeightAssumption
<1>5. tip' \in [Node -> offered \cup {<<>>}] /\ held' \in [Node -> 0 .. MaxLength]
  <2>1. held \in [Node -> 0 .. MaxLength]
    BY Zenon DEF IInv, TypeOK
  <2>2. QED
    BY <1>1, <1>4, <2>1, Zenon DEF Disconnect
<1>6. TypeOK'
  BY <1>5, Zenon DEF IInv, TypeOK, Disconnect, Block, Output
<1>7. Closed' /\ Made' /\ OnRecord' /\ Sized' /\ (SizesAlike' <=> SizesAlike)
  BY ChainOnly, ZenonT(30) DEF IInv, Disconnect
<1>8. MinerNeverThrows' /\ Agreement'
  BY <1>7, Zenon DEF IInv, Disconnect, MinerNeverThrows, Agreement
<1>9. QED
  BY <1>6, <1>7, <1>8, Zenon DEF IInv

\* A block is connected: if votes come in time, it does not fail.
LEMMA ConnectStep ==
    ASSUME IInv, NEW n \in Node, NEW b \in offered, Connect(n, b)
    PROVE  IInv'
<1> DEFINE next == SubSeq(b, 1, Len(tip[n]) + 1)
<1>1. next \in offered
  <2>1. Len(b) \in 1 .. MaxLength /\ MaxLength \in Nat
    BY BlockFacts, HeightAssumption, Zenon DEF IInv
  <2>2. Len(tip[n]) \in Nat
    <3>1. tip[n] \in offered \/ tip[n] = <<>>
      BY Zenon DEF IInv, TypeOK
    <3>2. tip[n] \in offered => Len(tip[n]) \in 1 .. MaxLength
      BY BlockFacts, Zenon DEF IInv
    <3>3. QED
      BY <2>1, <3>1, <3>2, EmptySeq, SMTT(30)
  <2>3. Len(b) > Len(tip[n])
    BY Zenon DEF Connect
  <2>4. Len(tip[n]) + 1 \in 1 .. Len(b)
    BY <2>1, <2>2, <2>3
  <2>5. QED
    BY <2>4, Zenon DEF IInv, Closed
<1>2. settled /\ SizesAlike => CheckBlock(n, next) /\ ConnectBlock(n, next)
  <2> HIDE DEF next
  <2> QED BY <1>1, OfferedPasses, Zenon DEF IInv
<1>3. TypeOK'
  <2>1. /\ tip' \in [Node -> offered \cup {<<>>}] /\ failed' \in [Node -> SUBSET offered]
        /\ checked' \in [Node -> offered \cup {NoBlock}] /\ held' \in [Node -> 0 .. MaxLength]
    <3>1. /\ tip \in [Node -> offered \cup {<<>>}] /\ failed \in [Node -> SUBSET offered]
          /\ checked \in [Node -> offered \cup {NoBlock}] /\ held \in [Node -> 0 .. MaxLength]
      BY Zenon DEF IInv, TypeOK
    <3>2. /\ tip' = tip \/ tip' = [tip EXCEPT ![n] = next]
          /\ failed' = failed \/ failed' = [failed EXCEPT ![n] = @ \cup {next}]
          /\ checked' = checked \/ checked' = [checked EXCEPT ![n] = NoBlock]
          /\ held' = held \/ held' = [held EXCEPT ![n] = 0]
      BY Zenon DEF Connect
    <3>3. 0 \in 0 .. MaxLength
      BY HeightAssumption, SMTT(30)
    <3> HIDE DEF next
    <3>4. tip' \in [Node -> offered \cup {<<>>}]
      BY <1>1, <3>1, <3>2, SMTT(30)
    <3>5. failed' \in [Node -> SUBSET offered]
      BY <1>1, <3>1, <3>2, SMTT(30)
    <3>6. checked' \in [Node -> offered \cup {NoBlock}]
      BY <3>1, <3>2, Zenon
    <3>7. held' \in [Node -> 0 .. MaxLength]
      BY <3>1, <3>2, <3>3, Zenon
    <3>8. QED
      BY <3>4, <3>5, <3>6, <3>7, Zenon
  <2>2. QED
    BY <2>1, Zenon DEF IInv, TypeOK, Connect, Block, Output
<1>4. Closed' /\ Made' /\ OnRecord' /\ Sized' /\ (SizesAlike' <=> SizesAlike)
  BY ChainOnly, Zenon DEF IInv, Connect
<1>5. settled /\ SizesAlike => failed' = failed
  BY <1>2, Zenon DEF Connect
<1>6. Agreement'
  BY <1>4, <1>5, Zenon DEF IInv, Connect, Agreement
<1>7. MinerNeverThrows'
  BY Zenon DEF IInv, Connect, MinerNeverThrows
<1>8. QED
  BY <1>3, <1>4, <1>6, <1>7, Zenon DEF IInv
\* Made, for steps after which blocks are as settled as before, or less.
LEMMA MadeLater ==
    ASSUME Made, base' = base, offered' = offered, sizes \subseteq sizes', settled' => settled,
           settled' => \A b \in offered : Best(HeightOf(b))' = Best(HeightOf(b))
    PROVE  Made'
<1> SUFFICES ASSUME NEW b \in offered
             PROVE  \E m \in Node, payee \in Payee \cup {NoPayee}, c \in sizes' :
                        (MadeBy(b, m, payee, c) /\ PaysBest(b, payee))'
  BY Zenon DEF Made
<1>1. PICK m \in Node, payee \in Payee \cup {NoPayee}, c \in sizes :
         MadeBy(b, m, payee, c) /\ PaysBest(b, payee)
  BY Zenon DEF Made
<1>2. MadeBy(b, m, payee, c)' /\ HeightOf(b)' = HeightOf(b)
  BY <1>1, MadeStays, Zenon
<1>3. PaysBest(b, payee)'
  BY <1>1, <1>2, Zenon DEF PaysBest
<1>4. QED
  BY <1>1, <1>2, <1>3, Zenon

\* A restart leaves nothing on record.
LEMMA RestartStep ==
    ASSUME IInv, NEW n \in Node, Restart(n)
    PROVE  IInv'
<1>1. /\ winner \in [Node -> [Height -> Payee \cup {NoPayee}]]
      /\ winner' = [winner EXCEPT ![n] = [h \in Height |-> NoPayee]]
      /\ checked \in [Node -> offered \cup {NoBlock}] /\ ibd \in [Node -> BOOLEAN]
  BY Zenon DEF IInv, TypeOK, Restart
<1>2. winner' \in [Node -> [Height -> Payee \cup {NoPayee}]]
  BY <1>1, Zenon
<1>3. checked' \in [Node -> offered \cup {NoBlock}] /\ ibd' \in [Node -> BOOLEAN]
  BY <1>1, Zenon DEF Restart
<1>4. changes' \in 0 .. MaxChanges
  BY HeightAssumption, SMTT(30) DEF IInv, TypeOK, Restart
<1>5. TypeOK'
  BY <1>2, <1>3, <1>4, Zenon DEF IInv, TypeOK, Restart, Block, Output
<1>6. /\ \A h : Best(h)' = Best(h) /\ Mined(h)' = Mined(h)
      /\ \A b : HeightOf(b)' = HeightOf(b)
  BY VotesStay, Zenon DEF Restart
<1>7. Closed' /\ Sized'
  BY Zenon DEF IInv, Closed, Sized, Restart
<1>8. Made'
  BY <1>6, MadeLater, Zenon DEF IInv, Restart
<1>9. OnRecord'
  <2>1. SUFFICES ASSUME settled, NEW m \in Node, NEW h \in Height, Mined(h)
                 PROVE  winner'[m][h] \in {NoPayee, Best(h)}
    BY <1>6, Zenon DEF OnRecord, Restart
  <2>2. winner[m][h] \in {NoPayee, Best(h)}
    BY <2>1, Zenon DEF IInv, OnRecord
  <2>3. winner'[m][h] = winner[m][h] \/ winner'[m][h] = NoPayee
    BY <1>1, Zenon
  <2>4. QED
    BY <2>2, <2>3, Zenon
<1>10. SizesAlike' => SizesAlike
  BY AlikeBefore, Zenon DEF Restart
<1>11. MinerNeverThrows' /\ Agreement'
  BY <1>10, Zenon DEF IInv, Restart, MinerNeverThrows, Agreement
<1>12. QED
  BY <1>5, <1>7, <1>8, <1>9, <1>11, Zenon DEF IInv

LEMMA CountUp ==
    ASSUME NEW m \in Nat, NEW i \in 0 .. m, i < m
    PROVE  i + 1 \in 0 .. m
OBVIOUS

\* A list changes.
LEMMA ListStep ==
    ASSUME IInv, NEW n \in Node, NEW s \in SUBSET Payee, ListChanges(n, s)
    PROVE  IInv'
<1>1. Cardinality(s) \in Count
  BY ListSize, Zenon
<1>2. /\ list \in [Node -> SUBSET Payee] /\ list' = [list EXCEPT ![n] = s]
      /\ sizes \subseteq Count /\ sizes' = sizes \cup {Cardinality(s)}
  BY Zenon DEF IInv, TypeOK, ListChanges, Count
<1>3. list' \in [Node -> SUBSET Payee] /\ sizes' \subseteq Count
  BY <1>1, <1>2, Zenon
<1>4. changes' \in 0 .. MaxChanges
  <2>1. changes \in 0 .. MaxChanges /\ changes < MaxChanges /\ changes' = changes + 1
    BY Zenon DEF IInv, TypeOK, ListChanges
  <2>2. QED
    BY <2>1, HeightAssumption, CountUp, Zenon
<1>5. TypeOK'
  BY <1>3, <1>4, Zenon DEF IInv, TypeOK, ListChanges, chainVars, Block, Output, Count
<1>6. /\ \A h : Best(h)' = Best(h) /\ Mined(h)' = Mined(h)
      /\ \A b : HeightOf(b)' = HeightOf(b)
  BY VotesStay, Zenon DEF ListChanges
<1>7. Closed' /\ OnRecord'
  BY <1>6, Zenon DEF IInv, Closed, OnRecord, ListChanges
<1>8. Made'
  BY <1>2, <1>6, MadeLater, Zenon DEF IInv, ListChanges
<1>9. Sized'
  BY <1>2, Zenon DEF IInv, Sized
<1>10. SizesAlike' => SizesAlike
  BY <1>2, AlikeBefore, Zenon DEF ListChanges
<1>11. MinerNeverThrows' /\ Agreement'
  BY <1>10, Zenon DEF IInv, ListChanges, chainVars, MinerNeverThrows, Agreement
<1>12. QED
  BY <1>5, <1>7, <1>8, <1>9, <1>11, Zenon DEF IInv

\* A vote is signed: it changes the best one only for heights without a block,
\* or it comes too late.
LEMMA SignStep ==
    ASSUME IInv, NEW h \in Height, NEW p \in Payee, Sign(h, p)
    PROVE  IInv'
<1>1. votes' \subseteq [height : Height, payee : Payee]
  <2>1. [height |-> h, payee |-> p] \in [height : Height, payee : Payee]
    BY Zenon
  <2>2. /\ votes \subseteq [height : Height, payee : Payee]
        /\ votes' = votes \cup {[height |-> h, payee |-> p]}
    BY Zenon DEF IInv, TypeOK, Sign
  <2>3. QED
    BY <2>1, <2>2, Zenon
<1>2. settled' \in BOOLEAN /\ (settled' => settled /\ ~Mined(h))
  BY Zenon DEF IInv, TypeOK, Sign
<1>3. TypeOK'
  BY <1>1, <1>2, Zenon DEF IInv, TypeOK, Sign, chainVars, Block, Output
<1>4. \A g : Mined(g)' = Mined(g)
  BY Zenon DEF Sign, Mined, HeightOf
<1>5. ASSUME NEW g, g # h PROVE Best(g)' = Best(g)
  <2>1. {w \in votes : w.height = g}' = {w \in votes : w.height = g}
    <3> DEFINE new == [height |-> h, payee |-> p]
    <3>1. new.height # g
      BY <1>5, Zenon
    <3>2. votes' = votes \cup {new}
      BY Zenon DEF Sign
    <3> HIDE DEF new
    <3>3. QED
      BY <3>1, <3>2, Zenon
  <2>2. Voted(g)' = Voted(g)
    BY <2>1, Zenon DEF Voted
  <2>3. QED
    BY <2>2, Zenon DEF Best
<1>6. settled' => \A g : Mined(g) => Best(g)' = Best(g)
  BY <1>2, <1>5, Zenon
<1>7. Made'
  <2>1. settled' => \A b \in offered : Best(HeightOf(b))' = Best(HeightOf(b))
    <3>1. \A b \in offered : Mined(HeightOf(b)) /\ HeightOf(b)' = HeightOf(b)
      BY Zenon DEF Mined, Sign, HeightOf
    <3>2. SUFFICES ASSUME settled', NEW b \in offered
                   PROVE  Best(HeightOf(b))' = Best(HeightOf(b))
      BY Zenon
    <3>3. HeightOf(b) # h
      BY <1>2, <3>1, <3>2, Zenon
    <3>4. PICK g : g = HeightOf(b)
      BY Zenon
    <3>5. g = HeightOf(b)' /\ Best(g)' = Best(g)
      BY <1>5, <3>1, <3>3, <3>4, Zenon
    <3>6. QED
      BY <3>4, <3>5, Zenon DEF Best, Voted
  <2>2. QED
    BY <1>2, <2>1, MadeLater, Zenon DEF IInv, Sign
<1>8. OnRecord'
  BY <1>2, <1>4, <1>6, Zenon DEF IInv, OnRecord, Sign
<1>9. Closed' /\ Sized'
  BY Zenon DEF IInv, Closed, Sized, Sign
<1>10. SizesAlike' => SizesAlike
  BY AlikeBefore, Zenon DEF Sign
<1>11. MinerNeverThrows' /\ Agreement'
  BY <1>2, <1>10, Zenon DEF IInv, Sign, chainVars, MinerNeverThrows, Agreement
<1>12. QED
  BY <1>3, <1>7, <1>8, <1>9, <1>11, Zenon DEF IInv

\* A vote arrives: if its height has a block, it is the best one or too late.
LEMMA AddStep ==
    ASSUME IInv, NEW n \in Node, NEW v \in votes, AddWinningMasternode(n, v)
    PROVE  IInv'
<1>1. v.height \in Height /\ v.payee \in Payee
  BY Zenon DEF IInv, TypeOK
<1>2. /\ winner \in [Node -> [Height -> Payee \cup {NoPayee}]]
      /\ winner' = [winner EXCEPT ![n][v.height] = v.payee]
  BY Zenon DEF IInv, TypeOK, AddWinningMasternode
<1>3. winner' \in [Node -> [Height -> Payee \cup {NoPayee}]]
  BY <1>1, <1>2, Zenon
<1>4. settled' \in BOOLEAN /\ (settled' => settled /\ (Mined(v.height) => v.payee = Best(v.height)))
  BY Zenon DEF IInv, TypeOK, AddWinningMasternode
<1>5. TypeOK'
  BY <1>3, <1>4, Zenon DEF IInv, TypeOK, AddWinningMasternode, chainVars, Block, Output
<1>6. /\ \A h : Best(h)' = Best(h) /\ Mined(h)' = Mined(h)
      /\ \A b : HeightOf(b)' = HeightOf(b)
  BY VotesStay, Zenon DEF AddWinningMasternode
<1>7. Made'
  BY <1>4, <1>6, MadeLater, Zenon DEF IInv, AddWinningMasternode
<1>8. OnRecord'
  <2>1. SUFFICES ASSUME settled', NEW m \in Node, NEW h \in Height, Mined(h)
                 PROVE  winner'[m][h] \in {NoPayee, Best(h)}
    BY <1>6, Zenon DEF OnRecord
  <2>2. winner[m][h] \in {NoPayee, Best(h)}
    BY <1>4, <2>1, Zenon DEF IInv, OnRecord
  <2>3. winner'[m][h] = winner[m][h] \/ (h = v.height /\ winner'[m][h] = v.payee)
    BY <1>1, <1>2, Zenon
  <2>4. QED
    BY <1>4, <2>1, <2>2, <2>3, Zenon
<1>9. Closed' /\ Sized'
  BY Zenon DEF IInv, Closed, Sized, AddWinningMasternode
<1>10. SizesAlike' => SizesAlike
  BY AlikeBefore, Zenon DEF AddWinningMasternode
<1>11. MinerNeverThrows' /\ Agreement'
  BY <1>4, <1>10, Zenon DEF IInv, AddWinningMasternode, chainVars, MinerNeverThrows, Agreement
<1>12. QED
  BY <1>5, <1>7, <1>8, <1>9, <1>11, Zenon DEF IInv
\* A block is made: it passes the miner's test, and pays the best vote if that
\* is on the miner's record.
LEMMA CreateStep ==
    ASSUME IInv, NEW n \in Node, NEW fees \in Fees, CreateNewBlock(n, fees)
    PROVE  IInv'
<1> DEFINE h == HeightOf(tip[n]) + 1
           c == Cardinality(list[n])
           t == tip[n]
<1>1. PICK payee \in Choices(n, h) :
        LET b == Append(t, [out |-> Coinbase(Miner[n], h, payee, fees, c), fees |-> fees]) IN
        IF CheckBlock(n, b) /\ ConnectBlock(n, b)
        THEN /\ offered' = offered \cup {b}
             /\ settled' = (settled /\ \A m \in Node : winner[m][h] = Best(h))
             /\ thrown' = thrown
        ELSE thrown' = TRUE /\ offered' = offered /\ settled' = settled
  BY ZenonT(30) DEF CreateNewBlock
<1> DEFINE b == Append(t, [out |-> Coinbase(Miner[n], h, payee, fees, c), fees |-> fees])
<1>2. Len(t) < MaxLength
  BY Zenon DEF CreateNewBlock
<1>3. /\ b \in Block /\ Len(b) = Len(t) + 1 /\ Len(b) \in 1 .. MaxLength
      /\ HeightOf(b) = h /\ HeightOf(b) \in Height
      /\ MadeBy(b, n, payee, c)
      /\ HeightOf(b) > StartHeight /\ winner[n][HeightOf(b)] # NoPayee =>
           payee = winner[n][HeightOf(b)]
      /\ CheckBlock(n, b) /\ ConnectBlock(n, b)
  BY <1>2, OwnPasses, Zenon DEF IInv
<1>4. /\ offered' = offered \cup {b}
      /\ settled' = (settled /\ \A m \in Node : winner[m][h] = Best(h))
      /\ thrown' = thrown
  BY <1>1, <1>3, Zenon
<1>5. t \in offered \cup {<<>>} /\ t \in Block /\ Len(t) \in Nat
  <2>1. t \in offered \cup {<<>>} /\ offered \subseteq Block
    BY Zenon DEF IInv, TypeOK
  <2>2. t \in Block
    BY <2>1, EmptySeq, Zenon DEF Block
  <2>3. QED
    BY <2>1, <2>2, LenProperties, Zenon DEF Block
<1>6. UNCHANGED <<base, winner, list, ibd, have, failed, refused, tip, checked, held, votes, sizes, changes>>
  BY Zenon DEF CreateNewBlock, chainVars
<1>l. Len(b) = Len(t) + 1 /\ Len(t) \in Nat /\ Len(b) \in 1 .. Len(b)
  <2> HIDE DEF b, t
  <2>1. Len(b) = Len(t) + 1 /\ Len(t) \in Nat
    BY <1>3, <1>5, Zenon
  <2>2. QED
    BY <2>1
<1>7. Closed'
  <2>1. SUFFICES ASSUME NEW i \in 1 .. Len(b) PROVE SubSeq(b, 1, i) \in offered'
    BY <1>3, <1>4, Zenon DEF IInv, Closed
  <2> DEFINE Entry == [out : Seq(Output), fees : Fees]
             e == [out |-> Coinbase(Miner[n], h, payee, fees, c), fees |-> fees]
  <2>2. b \in Seq(Entry) /\ t \in Seq(Entry) /\ b = Append(t, e)
    BY <1>3, <1>5, Zenon DEF Block
  <2>3. e \in Entry
    <3>1. Last(b) \in Entry
      <4> HIDE DEF Entry, b
      <4>1. QED
        BY <1>l, <2>2, ElementOfSeq, Zenon DEF Last
    <3>2. Last(b) = e
      <4> HIDE DEF e, Entry
      <4>1. Append(t, e)[Len(t) + 1] = e
        BY <2>2, LastAppended, Zenon
      <4>2. QED
        BY <1>3, <2>2, <4>1, Zenon DEF Last
    <3>3. QED
      BY <3>1, <3>2, Zenon
  <2> HIDE DEF Entry, e, b, t
  <2>4. CASE i = Len(b)
    <3>1. SubSeq(b, 1, i) = b
      BY <2>2, <2>4, SubSeqFull, Zenon
    <3>2. QED
      BY <1>4, <3>1, Zenon
  <2>5. CASE i # Len(b)
    <3>1. i \in 1 .. Len(t) /\ 1 \in 1 .. Len(t)
      BY <1>l, <2>5, SMTT(30)
    <3>2. b = t \o <<e>> /\ <<e>> \in Seq(Entry)
      BY <2>2, <2>3, AppendIsConcat, SMTT(30)
    <3>3. SubSeq(b, 1, i) = SubSeq(t, 1, i)
      BY <2>2, <3>1, <3>2, SubSeqOfConcat1, SMTT(30)
    <3>4. t # <<>>
      BY <3>1, EmptySeq, SMTT(30)
    <3>5. SubSeq(t, 1, i) \in offered
      BY <1>5, <3>1, <3>4, Zenon DEF IInv, Closed
    <3>6. QED
      BY <1>4, <3>3, <3>5, Zenon
  <2>6. QED
    BY <2>4, <2>5, Zenon
<1> HIDE DEF b, h, c, t
<1>8. settled' \in BOOLEAN /\ (settled' => settled /\ \A m \in Node : winner[m][h] = Best(h))
  BY <1>4, Zenon DEF IInv, TypeOK
<1>9. TypeOK'
  <2>1. offered \subseteq offered' /\ offered' \subseteq Block
    BY <1>3, <1>4, Zenon DEF IInv, TypeOK
  <2>2. thrown' \in BOOLEAN
    BY <1>4, Zenon DEF IInv, TypeOK
  <2>3. /\ have \in [Node -> SUBSET (offered' \cup {<<>>})]
        /\ failed \in [Node -> SUBSET offered'] /\ refused \in [Node -> SUBSET offered']
        /\ tip \in [Node -> offered' \cup {<<>>}] /\ checked \in [Node -> offered' \cup {NoBlock}]
    BY <2>1, Zenon DEF IInv, TypeOK
  <2>4. QED
    BY <1>6, <1>8, <2>1, <2>2, <2>3, Zenon DEF IInv, TypeOK, Block, Output
<1>10. \A g : Best(g)' = Best(g)
  BY <1>6, Zenon DEF Best, Voted
<1>11. \A x : HeightOf(x)' = HeightOf(x)
  BY <1>6, Zenon DEF HeightOf
<1>12. Made'
  <2>1. ASSUME NEW x \in offered
        PROVE  \E m \in Node, q \in Payee \cup {NoPayee}, d \in sizes' :
                  (MadeBy(x, m, q, d) /\ PaysBest(x, q))'
    <3>1. PICK m \in Node, q \in Payee \cup {NoPayee}, d \in sizes :
            MadeBy(x, m, q, d) /\ PaysBest(x, q)
      BY Zenon DEF IInv, Made
    <3>2. MadeBy(x, m, q, d)'
      BY <1>6, <3>1, MadeStays, Zenon
    <3>3. PaysBest(x, q)'
      BY <1>8, <1>10, <1>11, <3>1, Zenon DEF PaysBest
    <3>4. QED
      BY <1>6, <3>1, <3>2, <3>3, Zenon
  <2>2. PICK x, d : x = b /\ d = c
    BY Zenon
  <2>3. MadeBy(x, n, payee, d) /\ HeightOf(x) = h /\ offered' = offered \cup {x}
    BY <1>3, <1>4, <2>2, Zenon
  <2>4. MadeBy(x, n, payee, d)'
    BY <1>6, <2>3, MadeStays, Zenon
  <2>5. payee \in Payee \cup {NoPayee}
    BY <1>3, Zenon DEF MadeBy
  <2>6. d \in sizes'
    BY <1>6, <2>2, Zenon DEF IInv, Sized, c
  <2>7. PaysBest(x, payee)'
    <3>1. SUFFICES ASSUME settled', h > StartHeight, Best(h) # NoPayee PROVE payee = Best(h)
      BY <1>10, <1>11, <2>3, Zenon DEF PaysBest
    <3>2. winner[n][h] = Best(h)
      BY <1>8, <3>1, Zenon
    <3>3. QED
      BY <1>3, <3>1, <3>2, Zenon
  <2>8. QED
    BY <2>1, <2>3, <2>4, <2>5, <2>6, <2>7, Zenon DEF Made
<1>13. OnRecord'
  <2>1. SUFFICES ASSUME settled', NEW m \in Node, NEW g \in Height, Mined(g)'
                 PROVE  winner[m][g] \in {NoPayee, Best(g)}
    BY <1>6, <1>10, Zenon DEF OnRecord
  <2>2. Mined(g) \/ g = h
    BY <1>3, <1>4, <1>11, <2>1, Zenon DEF Mined
  <2>3. QED
    BY <1>8, <2>1, <2>2, Zenon DEF IInv, OnRecord
<1>14. Sized'
  BY <1>6, Zenon DEF IInv, Sized
<1>15. SizesAlike' => SizesAlike
  BY <1>4, <1>6, AlikeBefore, Zenon
<1>16. MinerNeverThrows' /\ Agreement'
  BY <1>4, <1>6, <1>8, <1>15, Zenon DEF IInv, MinerNeverThrows, Agreement
<1>17. QED
  BY <1>7, <1>9, <1>12, <1>13, <1>14, <1>16, Zenon DEF IInv
----------------------------------------------------------------------------
(* The theorems.                                                           *)

\* It holds at the start, when nothing is on record and nothing is mined.
LEMMA InitHolds == Init => IInv
<1> SUFFICES ASSUME Init PROVE IInv
  BY Zenon
<1>1. TypeOK
  <2>1. sizes \subseteq 0 .. Cardinality(Payee)
    <3>1. \A n \in Node : list[n] \in SUBSET Payee
      BY Zenon DEF Init
    <3>2. \A n \in Node : Cardinality(list[n]) \in Count
      BY <3>1, ListSize, Zenon
    <3>3. sizes = {Cardinality(list[n]) : n \in Node}
      BY Zenon DEF Init
    <3>4. QED
      BY <3>2, <3>3, Zenon DEF Count
  <2>2. 0 \in 0 .. MaxLength /\ 0 \in 0 .. MaxChanges
    BY HeightAssumption, SMTT(30)
  <2>3. QED
    BY <2>1, <2>2, ZenonT(30) DEF Init, TypeOK
<1>2. Closed /\ Made /\ OnRecord /\ Sized
  BY Zenon DEF Init, Closed, Made, OnRecord, Mined, Sized
<1>3. MinerNeverThrows /\ Agreement
  BY Zenon DEF Init, MinerNeverThrows, Agreement
<1>4. QED
  BY <1>1, <1>2, <1>3, Zenon DEF IInv

\* Every step keeps it.
LEMMA NextHolds == IInv /\ [Next]_vars => IInv'
<1> SUFFICES ASSUME IInv, [Next]_vars PROVE IInv'
  BY Zenon
<1>1. CASE UNCHANGED vars
  <2>1. TypeOK'
    BY <1>1, Zenon DEF IInv, TypeOK, vars, chainVars, Block, Output
  <2>2. Closed' /\ Made' /\ OnRecord' /\ Sized' /\ (SizesAlike' <=> SizesAlike)
    BY <1>1, ChainOnly, ZenonT(30) DEF IInv, vars
  <2>3. MinerNeverThrows' /\ Agreement'
    BY <1>1, <2>2, Zenon DEF IInv, MinerNeverThrows, Agreement, vars, chainVars
  <2>4. QED
    BY <2>1, <2>2, <2>3, Zenon DEF IInv
<1>2. ASSUME NEW h \in base + 1 .. base + MaxLength, NEW p \in Payee, Sign(h, p) PROVE IInv'
  <2>1. base \in Nat /\ MaxLength \in Nat /\ MaxHeight \in Nat /\ base + MaxLength <= MaxHeight
    BY HeightAssumption, Zenon DEF IInv, TypeOK
  <2>2. h \in Height
    BY <2>1 DEF Height
  <2>3. QED
    BY <1>2, <2>2, SignStep, Zenon
<1>3. ASSUME NEW n \in Node, NEW v \in votes, AddWinningMasternode(n, v) PROVE IInv'
  BY <1>3, AddStep, Zenon
<1>4. ASSUME NEW n \in Node, NEW s \in SUBSET Payee, ListChanges(n, s) PROVE IInv'
  BY <1>4, ListStep, Zenon
<1>5. ASSUME NEW n \in Node, CaughtUp(n) \/ Restart(n) PROVE IInv'
  BY <1>5, CaughtUpStep, RestartStep, Zenon
<1>6. ASSUME NEW n \in Node, NEW fees \in Fees, CreateNewBlock(n, fees) PROVE IInv'
  BY <1>6, CreateStep, Zenon
<1>7. ASSUME NEW n \in Node, NEW b \in offered,
             ProcessNewBlock(n, b) \/ Disconnect(n, b) \/ Connect(n, b)
      PROVE  IInv'
  BY <1>7, ProcessStep, DisconnectStep, ConnectStep, Zenon
<1>8. QED
  BY <1>1, <1>2, <1>3, <1>4, <1>5, <1>6, <1>7, Zenon DEF Next

\* What is made pays the winners.
LEMMA MadePays == IInv => WinnersPaid
<1> SUFFICES ASSUME IInv, settled, NEW b \in offered,
                    HeightOf(b) > StartHeight, Best(HeightOf(b)) # NoPayee
             PROVE  \E j \in DOMAIN Last(b).out :
                       /\ Last(b).out[j].script = Best(HeightOf(b))
                       /\ 10 * Last(b).out[j].value
                            <= 6 * (ValueOut(Last(b).out) - TreasuryPart(HeightOf(b)))
  BY Zenon DEF WinnersPaid
<1> DEFINE h == HeightOf(b)
           f == Last(b).fees
           out == Last(b).out
           v == ValueAt(h, f)
           T == TreasuryPart(h)
<1>1. PICK m \in Node, payee \in Payee \cup {NoPayee}, c \in sizes :
         MadeBy(b, m, payee, c) /\ PaysBest(b, payee)
  BY Zenon DEF IInv, Made
<1>2. payee = Best(h) /\ payee # NoPayee
  BY <1>1, Zenon DEF PaysBest
<1>3. h \in Nat /\ h > 1
  <2>1. h \in Height
    BY BlockFacts, Zenon DEF IInv
  <2>2. QED
    BY <2>1, HeightAssumption, SMTT(30) DEF Height
<1>4. f \in Nat
  <2> DEFINE Entry == [out : Seq(Output), fees : Fees]
  <2>1. b \in Seq(Entry) /\ Len(b) \in 1 .. MaxLength
    BY BlockFacts, Zenon DEF IInv, Block
  <2>2. Len(b) \in 1 .. Len(b)
    BY <2>1, HeightAssumption
  <2>3. Last(b) \in Entry
    <3> HIDE DEF Entry
    <3> QED BY <2>1, <2>2, ElementOfSeq, Zenon DEF Last
  <2>4. Fees \subseteq Nat /\ f \in Fees
    BY <2>3, HeightAssumption, Zenon
  <2>5. QED
    BY <2>4, Zenon
<1>5. out = Coinbase(Miner[m], h, payee, f, c) /\ c \in Count /\ Miner[m] \in Script
  BY <1>1, Zenon DEF MadeBy, Script
<1> HIDE DEF h, f, out
<1>6. out \in Seq(Output) /\ Outputs(out, Miner[m], h, payee, f, c)
  BY <1>3, <1>4, <1>5, CoinbaseFacts, Zenon
<1>7. /\ ValueOut(out) = GetBlockSubsidy(h) + f /\ Len(out) = 4
      /\ out[3].script = payee /\ out[3].value = GetMasternodePayment(h, v, c)
  BY <1>2, <1>6, Zenon DEF Outputs
<1>8. GetBlockSubsidy(h) \in Nat /\ T \in Nat /\ T <= GetBlockSubsidy(h)
  BY <1>3, SubsidyFacts, Zenon
<1>9. v \in Nat /\ ValueOut(out) - T = v
  <2>1. h # 1
    BY <1>3
  <2>2. v = GetBlockSubsidy(h) - T + f
    BY <2>1, Zenon DEF ValueAt
  <2> HIDE DEF v, T
  <2>3. /\ GetBlockSubsidy(h) - T + f \in Nat
        /\ (GetBlockSubsidy(h) + f) - T = GetBlockSubsidy(h) - T + f
    BY <1>4, <1>8, SumLess, Zenon
  <2>4. QED
    BY <1>7, <2>2, <2>3, Zenon
<1>10. 10 * out[3].value <= 6 * v
  BY <1>3, <1>5, <1>7, <1>9, PaymentFacts, Zenon
<1>11. 3 \in DOMAIN out
  <2>1. DOMAIN out = 1 .. Len(out)
    BY <1>6, LenProperties, Zenon
  <2>2. QED
    BY <1>7, <2>1, SMTT(30)
<1>12. QED
  BY <1>2, <1>7, <1>9, <1>10, <1>11, Zenon DEF h, out

\* The invariant holds always.
THEOREM Invariance == Spec => []IInv
BY InitHolds, NextHolds, PTL DEF Spec

\* Every variable keeps its type, and no output is ever negative.
THEOREM TypeCorrect == Spec => []TypeOK
<1>1. IInv => TypeOK
  BY Zenon DEF IInv
<1>2. QED
  BY <1>1, Invariance, PTL

\* CreateNewBlock's coinbase passes TestBlockValidity, at every height and for
\* every record, list and fee.
THEOREM MinerSafe == Spec => []MinerNeverThrows
<1>1. IInv => MinerNeverThrows
  BY Zenon DEF IInv
<1>2. QED
  BY <1>1, Invariance, PTL

\* Nodes whose votes came in time, with lists that are alike, neither refuse a
\* block nor fail it.
THEOREM NodesAgree == Spec => []Agreement
<1>1. IInv => Agreement
  BY Zenon DEF IInv
<1>2. QED
  BY <1>1, Invariance, PTL

\* The payee with the best vote is paid, at most 60%.
THEOREM VotesArePaid == Spec => []WinnersPaid
<1>1. QED
  BY MadePays, Invariance, PTL
=============================================================================
