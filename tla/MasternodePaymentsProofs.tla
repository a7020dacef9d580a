---------------------- MODULE MasternodePaymentsProofs ----------------------
(***************************************************************************)
(* Proofs about MasternodePayments, for any masternodes, scores, votes,    *)
(* windows and bounds.                                                     *)
(***************************************************************************)
EXTENDS MasternodePayments, SequenceTheorems, FiniteSetTheorems, WellFoundedInduction,
        TLAPS

\* The winners on record, without their order.
Listed == {vWinning[i] : i \in DOMAIN vWinning}

\* A function on 1..k is a sequence.
LEMMA IsSeq ==
    ASSUME NEW S, NEW k \in Nat, NEW f \in [1 .. k -> S]
    PROVE  f \in Seq(S) /\ Len(f) = k
<1>1. \E n \in Nat : f \in [1 .. n -> S]
  BY Zenon
<1>2. f \in UNION {[1 .. n -> S] : n \in Nat}
  BY <1>1, Zenon
<1>3. f \in Seq(S)
  BY <1>2, SeqDef, Zenon
<1> QED BY <1>3

LEMMA WinnerFields == \A w \in Winner : w.nBlockHeight \in Nat /\ w.vin \in Vin /\ w.payee \in Script
BY Zenon DEF Winner

\* AddWinningMasternode: w takes the place of the winner of its height, and
\* the list stays a list with one winner per height.
LEMMA AddEffect ==
    ASSUME vWinning \in Seq(Winner), OneWinnerPerHeight,
           NEW w \in Winner, AddWinningMasternode(w)
    PROVE  /\ vWinning' \in Seq(Winner)
           /\ OneWinnerPerHeight'
           /\ Listed' = {x \in Listed : x.nBlockHeight # w.nBlockHeight} \cup {w}
           /\ \A x \in Listed : x.nBlockHeight = w.nBlockHeight => Score[x.vin] < Score[w.vin]
<1>1. \A x \in Listed : x.nBlockHeight = w.nBlockHeight => Score[x.vin] < Score[w.vin]
  BY Zenon DEF AddWinningMasternode, Accepts, Listed
<1>2. CASE \E i \in DOMAIN vWinning : vWinning[i].nBlockHeight = w.nBlockHeight
  <2> DEFINE f == [i \in 1 .. Len(vWinning) |->
                     IF vWinning[i].nBlockHeight = w.nBlockHeight THEN w ELSE vWinning[i]]
  <2>0. DOMAIN vWinning = 1 .. Len(vWinning)
    OBVIOUS
  <2>1. vWinning' = f
    BY <1>2, <2>0, Zenon DEF AddWinningMasternode
  <2>2. f \in [1 .. Len(vWinning) -> Winner] /\ Len(vWinning) \in Nat
    OBVIOUS
  <2>3. f \in Seq(Winner) /\ DOMAIN f = DOMAIN vWinning
    BY <2>2, IsSeq
  <2>4. \A i \in DOMAIN vWinning :
          f[i] = IF vWinning[i].nBlockHeight = w.nBlockHeight THEN w ELSE vWinning[i]
    OBVIOUS
  <2> HIDE DEF f
  <2>5. \A i, j \in DOMAIN f : f[i].nBlockHeight = f[j].nBlockHeight => i = j
    BY <2>3, <2>4, Zenon DEF OneWinnerPerHeight
  <2>6. {f[i] : i \in DOMAIN f} = {x \in Listed : x.nBlockHeight # w.nBlockHeight} \cup {w}
    <3>1. ASSUME NEW i \in DOMAIN f
          PROVE  f[i] \in {x \in Listed : x.nBlockHeight # w.nBlockHeight} \cup {w}
      BY <2>3, <2>4, Zenon DEF Listed
    <3>2. ASSUME NEW x \in Listed, x.nBlockHeight # w.nBlockHeight
          PROVE  \E i \in DOMAIN f : f[i] = x
      <4>1. PICK i \in DOMAIN vWinning : vWinning[i] = x
        BY Zenon DEF Listed
      <4> QED BY <2>3, <2>4, <3>2, <4>1, Zenon
    <3>3. \E i \in DOMAIN f : f[i] = w
      BY <1>2, <2>3, <2>4, Zenon
    <3> QED BY <3>1, <3>2, <3>3, Zenon
  <2>7. OneWinnerPerHeight'
    BY <2>1, <2>5, Zenon DEF OneWinnerPerHeight
  <2>8. Listed' = {x \in Listed : x.nBlockHeight # w.nBlockHeight} \cup {w}
    BY <2>1, <2>6, Zenon DEF Listed
  <2> QED BY <1>1, <2>1, <2>3, <2>7, <2>8, Zenon
<1>3. CASE ~\E i \in DOMAIN vWinning : vWinning[i].nBlockHeight = w.nBlockHeight
  <2>1. vWinning' = Append(vWinning, w)
    BY <1>3, Zenon DEF AddWinningMasternode
  <2>2. /\ vWinning' \in Seq(Winner) /\ DOMAIN vWinning' = 1 .. Len(vWinning) + 1
        /\ DOMAIN vWinning = 1 .. Len(vWinning) /\ Len(vWinning) \in Nat
        /\ vWinning'[Len(vWinning) + 1] = w
        /\ \A i \in 1 .. Len(vWinning) : vWinning'[i] = vWinning[i]
    BY <2>1
  <2>3. OneWinnerPerHeight'
    BY <1>3, <2>2 DEF OneWinnerPerHeight
  <2>4. Listed' = Listed \cup {w}
    <3>1. \A x : x \in Listed' <=> \E i \in 1 .. Len(vWinning) + 1 : vWinning'[i] = x
      BY <2>2, Zenon DEF Listed
    <3>2. \A x : x \in Listed <=> \E i \in 1 .. Len(vWinning) : vWinning[i] = x
      BY <2>2, Zenon DEF Listed
    <3>3. \A i \in 1 .. Len(vWinning) + 1 : i \in 1 .. Len(vWinning) \/ i = Len(vWinning) + 1
      BY <2>2
    <3>4. \A i \in 1 .. Len(vWinning) : i \in 1 .. Len(vWinning) + 1
      BY <2>2
    <3> QED BY <2>2, <3>1, <3>2, <3>3, <3>4
  <2>5. \A x \in Listed : x.nBlockHeight # w.nBlockHeight
    BY <1>3, Zenon DEF Listed
  <2> QED BY <1>1, <2>2, <2>3, <2>4, <2>5, Zenon
<1> QED BY <1>2, <1>3, Zenon

\* CleanPaymentList: one winner goes, and its block is more than Limit old.
LEMMA CleanEffect ==
    ASSUME vWinning \in Seq(Winner), OneWinnerPerHeight, tip \in Nat, CleanPaymentList
    PROVE  /\ vWinning' \in Seq(Winner)
           /\ OneWinnerPerHeight'
           /\ \E x \in Listed : Listed' = Listed \ {x} /\ tip - x.nBlockHeight > Limit
<1> DEFINE nLimit == IF 2 * Cardinality(Vin) > Limit THEN 2 * Cardinality(Vin) ELSE Limit
           g(k) == [j \in 1 .. Len(vWinning) - 1 |->
                       IF j < k THEN vWinning[j] ELSE vWinning[j + 1]]
<1>1. PICK i \in DOMAIN vWinning : tip - vWinning[i].nBlockHeight > nLimit /\ vWinning' = g(i)
  BY Zenon DEF CleanPaymentList
<1>2. Limit \in Nat /\ Cardinality(Vin) \in Nat
  BY PaymentsAssumption, FS_CardinalityType, Zenon
<1>3. vWinning[i] \in Winner /\ tip - vWinning[i].nBlockHeight > Limit
  <2>1. nLimit \in Nat /\ nLimit >= Limit
    BY <1>2
  <2>2. tip - vWinning[i].nBlockHeight > nLimit
    BY <1>1, Zenon
  <2>3. vWinning[i] \in Winner /\ vWinning[i].nBlockHeight \in Nat
    BY WinnerFields
  <2> HIDE DEF nLimit
  <2> QED BY <1>2, <2>1, <2>2, <2>3
<1> DEFINE n == Len(vWinning)
           f == [j \in 1 .. n - 1 |-> IF j < i THEN vWinning[j] ELSE vWinning[j + 1]]
<1>4. n \in Nat /\ i \in 1 .. n /\ n - 1 \in Nat /\ DOMAIN vWinning = 1 .. n
  OBVIOUS
<1>5. f \in [1 .. n - 1 -> Winner]
  BY <1>4
<1>6. f \in Seq(Winner) /\ DOMAIN f = 1 .. n - 1
  BY <1>4, <1>5, IsSeq
<1>7. \A j \in 1 .. n - 1 : f[j] = IF j < i THEN vWinning[j] ELSE vWinning[j + 1]
  BY Zenon
<1>8. vWinning' = f
  BY <1>1, Zenon
<1> HIDE DEF f, n
<1>9. \A j, k \in 1 .. n - 1 : f[j].nBlockHeight = f[k].nBlockHeight => j = k
  <2> SUFFICES ASSUME NEW j \in 1 .. n - 1, NEW k \in 1 .. n - 1,
                      f[j].nBlockHeight = f[k].nBlockHeight
               PROVE  j = k
    BY Zenon
  <2> DEFINE pos(l) == IF l < i THEN l ELSE l + 1
  <2>1. f[j] = vWinning[pos(j)] /\ f[k] = vWinning[pos(k)]
    BY <1>7, Zenon
  <2>2. pos(j) \in 1 .. n /\ pos(k) \in 1 .. n
    BY <1>4
  <2>3. pos(j) = pos(k)
    <3> HIDE DEF pos
    <3> QED BY <1>4, <2>1, <2>2, Zenon DEF OneWinnerPerHeight
  <2> QED BY <1>4, <2>3
<1>10. {f[j] : j \in 1 .. n - 1} = Listed \ {vWinning[i]}
  <2>1. ASSUME NEW j \in 1 .. n - 1
        PROVE  f[j] \in Listed /\ f[j] # vWinning[i]
    <3>1. \E k \in 1 .. n : k # i /\ f[j] = vWinning[k]
      BY <1>4, <1>7
    <3> QED BY <1>4, <3>1, Zenon DEF Listed, OneWinnerPerHeight
  <2>2. ASSUME NEW k \in 1 .. n, vWinning[k] # vWinning[i]
        PROVE  \E j \in 1 .. n - 1 : f[j] = vWinning[k]
    <3>1. CASE k < i
      BY <1>4, <1>7, <3>1
    <3>2. CASE k > i
      <4>1. k - 1 \in 1 .. n - 1 /\ ~(k - 1 < i) /\ (k - 1) + 1 = k
        BY <1>4, <3>2
      <4> QED BY <1>7, <4>1, Zenon
    <3> QED BY <1>4, <2>2, <3>1, <3>2
  <2> QED BY <1>4, <2>1, <2>2 DEF Listed
<1>11. Listed' = Listed \ {vWinning[i]}
  BY <1>6, <1>8, <1>10, Zenon DEF Listed
<1> QED BY <1>3, <1>6, <1>8, <1>9, <1>11, Zenon DEF OneWinnerPerHeight, Listed

\* ... and the history with it, up to that winner.
LEMMA CleanHistory ==
    ASSUME TypeOK, CleanPaymentList
    PROVE  \E i \in 1 .. Len(vWinning) : \E s \in 0 .. Len(history) :
             LET before == Len(vWinning) - Len(history) IN
             /\ s = IF i <= before THEN 0 ELSE i - before
             /\ Len(vWinning') = Len(vWinning) - 1
             /\ \A j \in 1 .. Len(vWinning) - 1 :
                   vWinning'[j] = IF j < i THEN vWinning[j] ELSE vWinning[j + 1]
             /\ history' \in Seq([vin : Vin, enabled : SUBSET Vin, eligible : SUBSET Vin])
             /\ Len(history') = Len(history) - s
             /\ \A k \in 1 .. Len(history) - s : history'[k] = history[k + s]
<1> DEFINE S == [vin : Vin, enabled : SUBSET Vin, eligible : SUBSET Vin]
           n == Len(vWinning)
           m == Len(history)
           g(k) == [j \in 1 .. n - 1 |-> IF j < k THEN vWinning[j] ELSE vWinning[j + 1]]
           later(k) == IF k <= n - m THEN history ELSE SubSeq(history, k - (n - m) + 1, m)
<1>1. PICK i \in DOMAIN vWinning : vWinning' = g(i) /\ history' = later(i)
  BY Zenon DEF CleanPaymentList
<1>2. vWinning \in Seq(Winner) /\ history \in Seq(S)
  BY Zenon DEF TypeOK
<1> HIDE DEF S
<1>3. n \in Nat /\ m \in Nat /\ i \in 1 .. n /\ n - 1 \in Nat
  BY <1>2
<1>4. g(i) \in [1 .. n - 1 -> Winner]
  BY <1>2, <1>3
<1>5. Len(vWinning') = n - 1
  BY <1>1, <1>3, <1>4, IsSeq
<1>6. \A j \in 1 .. n - 1 : vWinning'[j] = IF j < i THEN vWinning[j] ELSE vWinning[j + 1]
  BY <1>1, Zenon
<1> DEFINE s == IF i <= n - m THEN 0 ELSE i - (n - m)
<1>7. s \in 0 .. m
  BY <1>3
<1>8. /\ history' \in Seq(S) /\ Len(history') = m - s
      /\ \A k \in 1 .. m - s : history'[k] = history[k + s]
  <2>1. CASE i <= n - m
    <3>1. history' = history /\ s = 0
      BY <1>1, <2>1, Zenon
    <3> QED BY <1>2, <1>3, <3>1
  <2>2. CASE ~(i <= n - m)
    <3>1. history' = SubSeq(history, s + 1, m)
      BY <1>1, <2>2, Zenon
    <3>2. \A k \in s + 1 .. m : history[k] \in S
      BY <1>2, <1>7
    <3>3. /\ SubSeq(history, s + 1, m) \in Seq(S)
          /\ Len(SubSeq(history, s + 1, m)) = IF s + 1 <= m THEN m - (s + 1) + 1 ELSE 0
          /\ \A k \in 1 .. m - (s + 1) + 1 :
                 SubSeq(history, s + 1, m)[k] = history[(s + 1) + k - 1]
      <4> HIDE DEF s, m
      <4> QED BY <1>3, <1>7, <3>2, SubSeqProperties
    <3> HIDE DEF s, m
    <3> QED BY <1>3, <1>7, <3>1, <3>3
  <2> QED BY <2>1, <2>2, Zenon
<1> QED BY <1>3, <1>5, <1>6, <1>7, <1>8, Zenon DEF S
----------------------------------------------------------------------------
\* What the payee list keeps besides the properties themselves: a winner on
\* record has been seen, and is not for a height out of the bounds.
ListedSeen == Listed \subseteq mapSeenMasternodeVotes
InRange == tip <= MaxTip /\ \A w \in Listed : w.nBlockHeight <= MaxTip + Forward

IInv == TypeOK /\ OneWinnerPerHeight /\ BestSeenWins /\ ListedSeen /\ InRange

\* BestSeenWins, without the order of the list.
BestListed ==
    \A s \in mapSeenMasternodeVotes : tip - s.nBlockHeight <= Limit =>
        \E x \in Listed : /\ x.nBlockHeight = s.nBlockHeight
                          /\ Score[x.vin] >= Score[s.vin]

LEMMA BestIsListed == ListedSeen => (BestSeenWins <=> BestListed)
BY DEF ListedSeen, BestSeenWins, BestListed, Listed

LEMMA BestIsListedNext == ListedSeen' => (BestSeenWins' <=> BestListed')
BY DEF ListedSeen, BestSeenWins, BestListed, Listed

LEMMA Constants ==
    /\ \A vin \in Vin : Score[vin] \in Nat
    /\ Ahead \in Nat /\ Back \in Nat /\ Forward \in Nat /\ Limit \in Nat /\ MaxTip \in Nat
    /\ Ahead <= Forward /\ Back < Limit
BY PaymentsAssumption, Zenon

\* What ProcessBlock and ProcessMnw do with a winner the list takes.
LEMMA AddKeeps ==
    ASSUME IInv, NEW w \in Winner, AddWinningMasternode(w), InsertSeen(w), tip' = tip,
           w.nBlockHeight <= MaxTip + Forward, tip - w.nBlockHeight <= Limit
    PROVE  /\ vWinning' \in Seq(Winner) /\ mapSeenMasternodeVotes' \subseteq Winner
           /\ OneWinnerPerHeight' /\ BestSeenWins' /\ ListedSeen' /\ InRange'
<1>1. /\ vWinning' \in Seq(Winner) /\ OneWinnerPerHeight'
      /\ Listed' = {x \in Listed : x.nBlockHeight # w.nBlockHeight} \cup {w}
      /\ \A x \in Listed : x.nBlockHeight = w.nBlockHeight => Score[x.vin] < Score[w.vin]
  BY AddEffect, Zenon DEF IInv, TypeOK
<1>2. BestListed /\ Listed \subseteq mapSeenMasternodeVotes /\ mapSeenMasternodeVotes \subseteq Winner
  BY BestIsListed, Zenon DEF IInv, ListedSeen, TypeOK
<1>3. ~HasSeen(w)
  <2> SUFFICES ASSUME NEW s \in mapSeenMasternodeVotes,
                      s.nBlockHeight = w.nBlockHeight, s.vin = w.vin
               PROVE  FALSE
    BY Zenon DEF HasSeen, GetHash
  <2>1. PICK x \in Listed : x.nBlockHeight = s.nBlockHeight /\ Score[x.vin] >= Score[s.vin]
    BY <1>2, Zenon DEF BestListed
  <2>2. Score[x.vin] \in Nat /\ Score[w.vin] \in Nat
    BY <1>2, WinnerFields, Constants, Zenon
  <2> QED BY <1>1, <2>1, <2>2
<1>4. mapSeenMasternodeVotes' = mapSeenMasternodeVotes \cup {w}
  BY <1>3, Zenon DEF InsertSeen
<1>5. ListedSeen' /\ InRange'
  BY <1>1, <1>2, <1>4, Zenon DEF ListedSeen, InRange, IInv
<1>6. BestListed'
  <2> SUFFICES ASSUME NEW s \in mapSeenMasternodeVotes', tip - s.nBlockHeight <= Limit
               PROVE  \E x \in Listed' : /\ x.nBlockHeight = s.nBlockHeight
                                         /\ Score[x.vin] >= Score[s.vin]
    BY Zenon DEF BestListed
  <2>0. w \in Listed' /\ Score[w.vin] \in Nat /\ Score[s.vin] \in Nat
    BY <1>1, <1>2, <1>4, WinnerFields, Constants, Zenon
  <2>1. CASE s = w
    BY <2>0, <2>1
  <2>2. CASE s # w
    <3>1. PICK x \in Listed : x.nBlockHeight = s.nBlockHeight /\ Score[x.vin] >= Score[s.vin]
      BY <1>2, <1>4, <2>2, Zenon DEF BestListed
    <3>2. Score[x.vin] \in Nat
      BY <1>2, WinnerFields, Constants, Zenon
    <3>3. CASE x.nBlockHeight = w.nBlockHeight
      BY <1>1, <2>0, <3>1, <3>2, <3>3
    <3>4. CASE x.nBlockHeight # w.nBlockHeight
      BY <1>1, <3>1, <3>4, Zenon
    <3> QED BY <3>3, <3>4, Zenon
  <2> QED BY <2>1, <2>2, Zenon
<1> QED BY <1>1, <1>2, <1>4, <1>5, <1>6, BestIsListedNext, Zenon

\* A masternode ProcessBlock chooses is one of the enabled ones.
LEMMA ChosenEnabled == Chosen \subseteq enabled
BY Zenon DEF Chosen, OldestNotInVec, Eligible, LongestAgo

\* A winner ProcessBlock signs, 10 ahead of the tip.
LEMMA SignedWinner ==
    ASSUME IInv, NEW vin \in Chosen, NEW payee \in Payees[vin],
           NEW w, w = [nBlockHeight |-> tip + Ahead, vin |-> vin, payee |-> payee]
    PROVE  w \in Winner /\ w.nBlockHeight <= MaxTip + Forward /\ tip - w.nBlockHeight <= Limit
<1>1. vin \in Vin /\ tip \in Nat /\ tip <= MaxTip
  BY ChosenEnabled, Zenon DEF IInv, TypeOK, InRange
<1>2. payee \in Script
  BY <1>1, PaymentsAssumption, Zenon
<1>3. tip + Ahead \in Nat /\ tip + Ahead <= MaxTip + Forward /\ tip - (tip + Ahead) <= Limit
  BY <1>1, Constants
<1> QED BY <1>1, <1>2, <1>3, Zenon DEF Winner

\* ProcessBlock either changes nothing on record or adds one signed winner.
LEMMA ProcessBlockCases ==
    ASSUME IInv, ProcessBlock
    PROVE  \/ UNCHANGED <<tip, enabled, bounds, votes, memory>> /\ called' \in BOOLEAN
           \/ \E w \in Winner :
                /\ w.vin \in Chosen
                /\ w.nBlockHeight <= MaxTip + Forward /\ tip - w.nBlockHeight <= Limit
                /\ AddWinningMasternode(w) /\ InsertSeen(w)
                /\ votes' = votes \cup {w} /\ nLastBlockHeight' = w.nBlockHeight
                /\ history' \in Seq([vin : Vin, enabled : SUBSET Vin, eligible : SUBSET Vin])
                /\ history' =
                      IF \E i \in DOMAIN vWinning : vWinning[i].nBlockHeight = w.nBlockHeight
                      THEN <<>>
                      ELSE Append(history, [vin |-> w.vin, enabled |-> enabled,
                                            eligible |-> Eligible(Cardinality(enabled))])
                /\ UNCHANGED <<tip, enabled, bounds>> /\ called' \in BOOLEAN
<1>1. UNCHANGED <<tip, enabled, bounds>> /\ called' = FALSE
  BY Zenon DEF ProcessBlock
<1>2. CASE UNCHANGED <<votes, memory>>
  BY <1>1, <1>2, Zenon
<1>3. CASE ~UNCHANGED <<votes, memory>>
  <2> DEFINE Signs(vin, payee) ==
          LET w == [nBlockHeight |-> tip + Ahead, vin |-> vin, payee |-> payee] IN
          /\ AddWinningMasternode(w) /\ InsertSeen(w)
          /\ votes' = votes \cup {w} /\ nLastBlockHeight' = w.nBlockHeight
          /\ history' =
                IF \E i \in DOMAIN vWinning : vWinning[i].nBlockHeight = w.nBlockHeight
                THEN <<>>
                ELSE Append(history, [vin |-> vin, enabled |-> enabled,
                                      eligible |-> Eligible(Cardinality(enabled))])
  <2>0. PICK vin \in Chosen : \E payee \in Payees[vin] : Signs(vin, payee)
    BY <1>3, Zenon DEF ProcessBlock
  <2>1. PICK payee \in Payees[vin] : Signs(vin, payee)
    BY <2>0, Zenon
  <2> DEFINE w == [nBlockHeight |-> tip + Ahead, vin |-> vin, payee |-> payee]
             S == [vin : Vin, enabled : SUBSET Vin, eligible : SUBSET Vin]
  <2>2. /\ w \in Winner /\ w.nBlockHeight <= MaxTip + Forward
        /\ tip - w.nBlockHeight <= Limit
    BY SignedWinner, Zenon
  <2>3. w.vin = vin /\ vin \in enabled /\ enabled \subseteq Vin
    BY ChosenEnabled, Zenon DEF IInv, TypeOK
  <2>4. history' \in Seq(S)
    <3>1. Eligible(Cardinality(enabled)) \subseteq Vin
      BY <2>3, Zenon DEF Eligible
    <3>2. [vin |-> vin, enabled |-> enabled, eligible |-> Eligible(Cardinality(enabled))] \in S
      BY <2>3, <3>1, Zenon
    <3>3. history \in Seq(S)
      BY Zenon DEF IInv, TypeOK
    <3> HIDE DEF S
    <3> QED BY <2>1, <3>2, <3>3
  <2>5. /\ AddWinningMasternode(w) /\ InsertSeen(w)
        /\ votes' = votes \cup {w} /\ nLastBlockHeight' = w.nBlockHeight
        /\ history' =
              IF \E i \in DOMAIN vWinning : vWinning[i].nBlockHeight = w.nBlockHeight
              THEN <<>>
              ELSE Append(history, [vin |-> w.vin, enabled |-> enabled,
                                    eligible |-> Eligible(Cardinality(enabled))])
    BY <2>1, <2>3, Zenon
  <2> HIDE DEF w
  <2> QED BY <1>1, <2>2, <2>3, <2>4, <2>5, Zenon
<1> QED BY <1>2, <1>3, Zenon

\* The votes in circulation are within the types.
LEMMA MnwWinner ==
    ASSUME IInv, NEW w \in votes, ProcessMnw(w)
    PROVE  w \in Winner /\ w.nBlockHeight <= MaxTip + Forward /\ tip - w.nBlockHeight <= Limit
<1>1. w \in Winner /\ w.nBlockHeight \in Nat /\ tip \in Nat /\ tip <= MaxTip
  BY WinnerFields, Zenon DEF IInv, TypeOK, InRange
<1>2. tip - Back <= w.nBlockHeight /\ w.nBlockHeight <= tip + Forward
  BY Zenon DEF ProcessMnw, InWindow
<1> QED BY <1>1, <1>2, Constants

\* A vote the list does not take: a better one, already seen, is on record.
LEMMA RefuseKeeps ==
    ASSUME IInv, NEW w \in Winner, ~Accepts(w), InsertSeen(w), vWinning' = vWinning, tip' = tip
    PROVE  BestSeenWins' /\ ListedSeen' /\ mapSeenMasternodeVotes' \subseteq Winner
<1>1. mapSeenMasternodeVotes' \subseteq mapSeenMasternodeVotes \cup {w}
      /\ mapSeenMasternodeVotes \subseteq mapSeenMasternodeVotes'
  BY Zenon DEF InsertSeen
<1>2. Listed' = Listed
  BY Zenon DEF Listed
<1>3. BestListed /\ Listed \subseteq mapSeenMasternodeVotes /\ mapSeenMasternodeVotes \subseteq Winner
  BY BestIsListed, Zenon DEF IInv, ListedSeen, TypeOK
<1>4. ListedSeen'
  BY <1>1, <1>2, <1>3, Zenon DEF ListedSeen
<1>5. PICK x \in Listed : x.nBlockHeight = w.nBlockHeight /\ ~(Score[x.vin] < Score[w.vin])
  BY Zenon DEF Accepts, Listed
<1>6. Score[x.vin] \in Nat /\ Score[w.vin] \in Nat
  BY <1>3, WinnerFields, Constants, Zenon
<1>7. Score[x.vin] >= Score[w.vin]
  BY <1>5, <1>6, SMTT(30)
<1>8. BestListed'
  BY <1>1, <1>2, <1>3, <1>5, <1>7, Zenon DEF BestListed
<1> QED BY <1>1, <1>3, <1>4, <1>8, BestIsListedNext, Zenon

LEMMA EmptyLists ==
    /\ <<>> \in Seq(Winner)
    /\ <<>> \in Seq([vin : Vin, enabled : SUBSET Vin, eligible : SUBSET Vin])
<1>1. \A S : <<>> \in Seq(S)
  OBVIOUS
<1> QED BY <1>1, Zenon

\* The invariant is inductive.
LEMMA Inductive == Spec => []IInv
<1>1. Init => IInv
  <2> SUFFICES ASSUME Init PROVE IInv
    BY Zenon
  <2> USE DEF Init
  <2>1. Listed = {}
    BY DEF Listed
  <2>2. TypeOK
    BY EmptyLists, PaymentsAssumption, Zenon DEF TypeOK
  <2>3. OneWinnerPerHeight /\ BestSeenWins
    BY DEF OneWinnerPerHeight, BestSeenWins
  <2> QED BY <2>1, <2>2, <2>3, Constants DEF IInv, ListedSeen, InRange
<1>2. IInv /\ [Next]_vars => IInv'
  <2> SUFFICES ASSUME IInv, [Next]_vars PROVE IInv'
    BY Zenon
  <2> USE DEF memory, bounds
  <2>1. CASE Connect
    <3>1. /\ tip < MaxTip /\ tip' = tip + 1 /\ tip' \in Nat /\ tip' <= MaxTip
          /\ UNCHANGED <<enabled, votes, memory, bounds>> /\ called' \in BOOLEAN
      BY <2>1, Constants DEF Connect, IInv, TypeOK
    <3>2. Listed' = Listed
      BY <3>1, Zenon DEF Listed
    <3>3. TypeOK'
      BY <3>1, Zenon DEF IInv, TypeOK
    <3>4. ListedSeen' /\ InRange' /\ OneWinnerPerHeight'
      BY <3>1, <3>2, Zenon DEF IInv, ListedSeen, InRange, OneWinnerPerHeight
    <3>5. BestListed'
      <4>1. \A s \in mapSeenMasternodeVotes : s.nBlockHeight \in Nat
        BY WinnerFields, Zenon DEF IInv, TypeOK
      <4>2. \A s \in mapSeenMasternodeVotes : tip' - s.nBlockHeight <= Limit
                                                  => tip - s.nBlockHeight <= Limit
        BY <3>1, <4>1, Constants DEF IInv, TypeOK
      <4>3. BestListed
        BY BestIsListed, Zenon DEF IInv
      <4> QED BY <3>1, <3>2, <4>2, <4>3, Zenon DEF BestListed
    <3> QED BY <3>3, <3>4, <3>5, BestIsListedNext, Zenon DEF IInv
  <2>2. CASE ProcessBlock
    <3>1. CASE UNCHANGED <<tip, enabled, bounds, votes, memory>> /\ called' \in BOOLEAN
      <4>1. Listed' = Listed
        BY <3>1, Zenon DEF Listed
      <4> QED BY <3>1, <4>1 DEF IInv, TypeOK, OneWinnerPerHeight, BestSeenWins, ListedSeen,
                                InRange
    <3>2. ASSUME NEW w \in Winner,
                 w.nBlockHeight <= MaxTip + Forward, tip - w.nBlockHeight <= Limit,
                 AddWinningMasternode(w), InsertSeen(w),
                 votes' = votes \cup {w}, nLastBlockHeight' = w.nBlockHeight,
                 history' \in Seq([vin : Vin, enabled : SUBSET Vin, eligible : SUBSET Vin]),
                 UNCHANGED <<tip, enabled, bounds>>, called' \in BOOLEAN
          PROVE  IInv'
      <4>1. /\ vWinning' \in Seq(Winner) /\ mapSeenMasternodeVotes' \subseteq Winner
            /\ OneWinnerPerHeight' /\ BestSeenWins' /\ ListedSeen' /\ InRange'
        BY <3>2, AddKeeps, Zenon
      <4>2. nLastBlockHeight' \in Nat
        BY <3>2, WinnerFields, Zenon
      <4>3. TypeOK'
        BY <3>2, <4>1, <4>2, Zenon DEF IInv, TypeOK
      <4> QED BY <4>1, <4>3, Zenon DEF IInv
    <3> QED BY <2>2, <3>1, <3>2, ProcessBlockCases, Zenon
  <2>3. CASE CleanPaymentList
    <3>1. /\ vWinning' \in Seq(Winner) /\ OneWinnerPerHeight'
          /\ \E x \in Listed : Listed' = Listed \ {x} /\ tip - x.nBlockHeight > Limit
      BY <2>3, CleanEffect, Zenon DEF IInv, TypeOK
    <3>2. UNCHANGED <<tip, called, enabled, votes, mapSeenMasternodeVotes,
                      nLastBlockHeight, restarts, toggles>>
      BY <2>3, Zenon DEF CleanPaymentList
    <3>3. TypeOK'
      <4>1. history' \in Seq([vin : Vin, enabled : SUBSET Vin, eligible : SUBSET Vin])
        BY <2>3, CleanHistory, Zenon DEF IInv
      <4> QED BY <3>1, <3>2, <4>1, Zenon DEF IInv, TypeOK
    <3>4. ListedSeen' /\ InRange'
      BY <3>1, <3>2, Zenon DEF IInv, ListedSeen, InRange
    <3>5. BestListed'
      <4>1. BestListed
        BY BestIsListed, Zenon DEF IInv
      <4>2. PICK x \in Listed : Listed' = Listed \ {x} /\ tip - x.nBlockHeight > Limit
        BY <3>1, Zenon
      <4>3. x.nBlockHeight \in Nat /\ tip \in Nat /\ Limit \in Nat
        BY WinnerFields, Constants, Zenon DEF IInv, TypeOK, ListedSeen
      <4>4. \A s : tip - s.nBlockHeight <= Limit => s.nBlockHeight # x.nBlockHeight
        BY <4>2, <4>3
      <4> QED BY <3>2, <4>1, <4>2, <4>4, Zenon DEF BestListed
    <3> QED BY <3>1, <3>3, <3>4, <3>5, BestIsListedNext, Zenon DEF IInv
  <2>4. CASE Restart
    <3>1. Listed' = {}
      BY <2>4 DEF Restart, Listed
    <3>2. TypeOK'
      <4>1. /\ UNCHANGED <<tip, enabled, votes, toggles>> /\ restarts' = restarts + 1
            /\ called' = FALSE /\ vWinning' = <<>> /\ mapSeenMasternodeVotes' = {}
            /\ nLastBlockHeight' = 0 /\ history' = <<>>
        BY <2>4, Zenon DEF Restart
      <4>2. /\ vWinning' \in Seq(Winner)
            /\ history' \in Seq([vin : Vin, enabled : SUBSET Vin, eligible : SUBSET Vin])
        BY <4>1, EmptyLists, Zenon
      <4>3. /\ tip' \in Nat /\ enabled' \subseteq Vin /\ votes' \subseteq Winner
            /\ nLastBlockHeight' \in Nat /\ restarts' \in Nat /\ toggles' \in Nat
        BY <4>1 DEF IInv, TypeOK
      <4>4. called' \in BOOLEAN /\ mapSeenMasternodeVotes' \subseteq Winner
        BY <4>1, Zenon
      <4> QED BY <4>2, <4>3, <4>4, Zenon DEF TypeOK
    <3>3. OneWinnerPerHeight' /\ BestSeenWins'
      BY <2>4, SMTT(30) DEF Restart, OneWinnerPerHeight, BestSeenWins
    <3> QED BY <2>4, <3>1, <3>2, <3>3, Zenon DEF Restart, IInv, ListedSeen, InRange
  <2>5. ASSUME NEW vin \in Vin, Toggle(vin)
        PROVE  IInv'
    <3>1. /\ UNCHANGED <<tip, called, votes, vWinning, mapSeenMasternodeVotes,
                         nLastBlockHeight, history, restarts>>
          /\ enabled' \subseteq Vin /\ toggles' \in Nat
      BY <2>5, SMTT(30) DEF Toggle, IInv, TypeOK
    <3>2. Listed' = Listed
      BY <3>1, Zenon DEF Listed
    <3> QED BY <3>1, <3>2 DEF IInv, TypeOK, OneWinnerPerHeight, BestSeenWins, ListedSeen,
                              InRange
  <2>6. ASSUME NEW w \in votes, ProcessMnw(w)
        PROVE  IInv'
    <3>1. /\ w \in Winner /\ w.nBlockHeight <= MaxTip + Forward
          /\ tip - w.nBlockHeight <= Limit
      BY <2>6, MnwWinner, Zenon
    <3>2. /\ InsertSeen(w) /\ history' = <<>>
          /\ UNCHANGED <<tip, called, enabled, votes, nLastBlockHeight, restarts, toggles>>
      BY <2>6, Zenon DEF ProcessMnw
    <3>3. CASE AddWinningMasternode(w)
      <4>1. /\ vWinning' \in Seq(Winner) /\ mapSeenMasternodeVotes' \subseteq Winner
            /\ OneWinnerPerHeight' /\ BestSeenWins' /\ ListedSeen' /\ InRange'
        BY <3>1, <3>2, <3>3, AddKeeps, Zenon
      <4>2. TypeOK'
        BY <3>2, <4>1, SMTT(30) DEF IInv, TypeOK
      <4> QED BY <4>1, <4>2, Zenon DEF IInv
    <3>4. CASE ~Accepts(w) /\ UNCHANGED vWinning
      <4>1. BestSeenWins' /\ ListedSeen' /\ mapSeenMasternodeVotes' \subseteq Winner
        BY <3>1, <3>2, <3>4, RefuseKeeps, Zenon
      <4>2. Listed' = Listed
        BY <3>4, Zenon DEF Listed
      <4>3. TypeOK'
        BY <3>2, <3>4, <4>1 DEF IInv, TypeOK
      <4>4. OneWinnerPerHeight' /\ InRange'
        BY <3>2, <3>4, <4>2, Zenon DEF IInv, OneWinnerPerHeight, InRange
      <4> QED BY <4>1, <4>3, <4>4, Zenon DEF IInv
    <3> QED BY <2>6, <3>3, <3>4, Zenon DEF ProcessMnw
  <2>7. CASE UNCHANGED vars
    <3>1. Listed' = Listed
      BY <2>7, Zenon DEF vars, Listed
    <3> QED BY <2>7, <3>1, SMTT(30) DEF vars, IInv, TypeOK, OneWinnerPerHeight, BestSeenWins,
                              ListedSeen, InRange
  <2> QED BY <2>1, <2>2, <2>3, <2>4, <2>5, <2>6, <2>7, Zenon DEF Next
<1> QED BY <1>1, <1>2, PTL DEF Spec

\* The state of the payee list and of the chain keeps its types.
THEOREM TypeCorrect == Spec => []TypeOK
<1>1. IInv => TypeOK
  BY Zenon DEF IInv
<1> QED BY <1>1, Inductive, PTL

\* AddWinningMasternode and CleanPaymentList keep one winner per height.
THEOREM OneWinner == Spec => []OneWinnerPerHeight
<1>1. IInv => OneWinnerPerHeight
  BY Zenon DEF IInv
<1> QED BY <1>1, Inductive, PTL

\* The order of votes does not matter: the best of those seen is on record.
THEOREM BestWins == Spec => []BestSeenWins
<1>1. IInv => BestSeenWins
  BY Zenon DEF IInv
<1> QED BY <1>1, Inductive, PTL
----------------------------------------------------------------------------
\* GetBlockPayee returns the one winner of a height.
LEMMA PayeeOfListed ==
    ASSUME NEW winning \in Seq(Winner),
           \A i, j \in DOMAIN winning :
               winning[i].nBlockHeight = winning[j].nBlockHeight => i = j
    PROVE  /\ \A i \in DOMAIN winning : GetBlockPayee(winning, winning[i].nBlockHeight)
                  = [vin |-> winning[i].vin, payee |-> winning[i].payee]
           /\ \A h : (\A i \in DOMAIN winning : winning[i].nBlockHeight # h)
                  => GetBlockPayee(winning, h) = NoPayee
<1>1. ASSUME NEW i \in DOMAIN winning
      PROVE  GetBlockPayee(winning, winning[i].nBlockHeight)
                 = [vin |-> winning[i].vin, payee |-> winning[i].payee]
  <2> DEFINE match == {k \in DOMAIN winning : winning[k].nBlockHeight = winning[i].nBlockHeight}
  <2>1. match = {i}
    BY Zenon
  <2>2. i \in Int
    OBVIOUS
  <2>3. (CHOOSE k \in match : \A j \in match : k <= j) = i
    <3> HIDE DEF match
    <3>1. \E k \in match : \A j \in match : k <= j
      BY <2>1, <2>2
    <3> QED BY <2>1, <3>1, Zenon
  <2> QED BY <2>1, <2>3, Zenon DEF GetBlockPayee
<1>2. ASSUME NEW h, \A i \in DOMAIN winning : winning[i].nBlockHeight # h
      PROVE  GetBlockPayee(winning, h) = NoPayee
  BY <1>2, Zenon DEF GetBlockPayee
<1> QED BY <1>1, <1>2, Zenon

\* The same in terms of Listed, before a step and after it.
LEMMA PayeeNow ==
    ASSUME IInv
    PROVE  /\ \A x \in Listed : GetBlockPayee(vWinning, x.nBlockHeight)
                  = [vin |-> x.vin, payee |-> x.payee]
           /\ \A h : (\A x \in Listed : x.nBlockHeight # h) => GetBlockPayee(vWinning, h) = NoPayee
<1>1. vWinning \in Seq(Winner) /\ OneWinnerPerHeight
  BY Zenon DEF IInv, TypeOK
<1> QED BY <1>1, PayeeOfListed DEF Listed, OneWinnerPerHeight

LEMMA PayeeNext ==
    ASSUME IInv'
    PROVE  /\ \A x \in Listed' : GetBlockPayee(vWinning', x.nBlockHeight)
                  = [vin |-> x.vin, payee |-> x.payee]
           /\ \A h : (\A x \in Listed' : x.nBlockHeight # h) => GetBlockPayee(vWinning', h) = NoPayee
<1>1. vWinning' \in Seq(Winner) /\ OneWinnerPerHeight'
  BY Zenon DEF IInv, TypeOK
<1> QED BY <1>1, PayeeOfListed DEF Listed, OneWinnerPerHeight

\* A winner the list takes is a vote of the register.
LEMMA AddIsVote ==
    ASSUME IInv, IInv', NEW w \in Winner, AddWinningMasternode(w), tip' = tip,
           w.nBlockHeight <= MaxTip + Forward
    PROVE  Register!Next
<1> DEFINE Height == 0 .. MaxTip + Forward
           c == [vin |-> w.vin, payee |-> w.payee]
           k == w.nBlockHeight
<1>1. /\ Listed' = {x \in Listed : x.nBlockHeight # k} \cup {w}
      /\ \A x \in Listed : x.nBlockHeight = k => Score[x.vin] < Score[w.vin]
  BY AddEffect, Zenon DEF IInv, TypeOK
<1>2. k \in Height /\ c \in [vin : Vin, payee : Script]
  BY WinnerFields, Constants, SMTT(30)
<1>3. GetBlockPayee(vWinning, k) = NoPayee
      \/ Score[GetBlockPayee(vWinning, k).vin] < Score[w.vin]
  <2>1. CASE \E x \in Listed : x.nBlockHeight = k
    <3>1. PICK x \in Listed : x.nBlockHeight = k
      BY <2>1, Zenon
    <3>2. GetBlockPayee(vWinning, k) = [vin |-> x.vin, payee |-> x.payee]
      BY <3>1, PayeeNow, Zenon
    <3> QED BY <1>1, <3>1, <3>2
  <2>2. CASE \A x \in Listed : x.nBlockHeight # k
    BY <2>2, PayeeNow, Zenon
  <2> QED BY <2>1, <2>2, Zenon
<1>4. ASSUME NEW h \in Height
      PROVE  GetBlockPayee(vWinning', h) = IF h = k THEN c ELSE GetBlockPayee(vWinning, h)
  <2>1. CASE h = k
    BY <1>1, <2>1, PayeeNext, Zenon
  <2>2. CASE h # k
    <3>1. CASE \E x \in Listed : x.nBlockHeight = h
      <4>1. PICK x \in Listed : x.nBlockHeight = h
        BY <3>1, Zenon
      <4>2. x \in Listed'
        BY <1>1, <2>2, <4>1, Zenon
      <4> QED BY <2>2, <4>1, <4>2, PayeeNow, PayeeNext, Zenon
    <3>2. CASE \A x \in Listed : x.nBlockHeight # h
      <4>1. \A x \in Listed' : x.nBlockHeight # h
        BY <1>1, <2>2, <3>2, Zenon
      <4> QED BY <2>2, <3>2, <4>1, PayeeNow, PayeeNext, Zenon
    <3> QED BY <3>1, <3>2, Zenon
  <2> QED BY <2>1, <2>2, Zenon
<1>5. payeeOnRecord' = [payeeOnRecord EXCEPT ![k] = c]
  BY <1>2, <1>4, Zenon DEF payeeOnRecord
<1>6. payeeOnRecord[k] = GetBlockPayee(vWinning, k)
  BY <1>2, Zenon DEF payeeOnRecord
<1> HIDE DEF c, k
<1>7. Register!Vote(k, c)
  BY <1>3, <1>5, <1>6, Zenon DEF Register!Vote, c
<1>8. payeeOnRecord'[k] = c
  BY <1>2, <1>5, Zenon DEF payeeOnRecord
<1> QED BY <1>2, <1>7, <1>8, Zenon DEF Register!Next, Register!Height, Register!Choice

\* Seen through GetBlockPayee, the list of winners is the register the block
\* checks rely on: every step is a step of PayeeRegister or changes nothing
\* in it.
THEOREM Refinement == Spec => ImplementsRegister
<1>1. Init => Register!Init
  <2> SUFFICES ASSUME Init PROVE Register!Init
    BY Zenon
  <2>1. 0 \in 0 .. MaxTip + Forward
    BY Constants
  <2>2. \A h : GetBlockPayee(<<>>, h) = NoPayee
    BY SMTT(30) DEF GetBlockPayee
  <2> QED BY <2>1, <2>2, Zenon DEF Init, Register!Init, Register!Height, payeeOnRecord
<1>2. IInv /\ IInv' /\ [Next]_vars => [Register!Next]_(Register!vars)
  <2> SUFFICES ASSUME IInv, IInv', [Next]_vars
               PROVE  Register!Next \/ UNCHANGED <<tip, payeeOnRecord>>
    BY Zenon DEF Register!vars
  <2> USE DEF memory, bounds
  <2>1. CASE Connect
    <3>1. payeeOnRecord' = payeeOnRecord
      BY <2>1, Zenon DEF Connect, payeeOnRecord
    <3>2. tip' \in tip .. MaxTip + Forward
      BY <2>1, Constants, SMTT(30) DEF Connect, IInv, TypeOK
    <3> QED BY <3>1, <3>2, Zenon DEF Register!Next, Register!Grow
  <2>2. CASE ProcessBlock
    <3>1. CASE UNCHANGED <<tip, enabled, bounds, votes, memory>>
      BY <3>1, Zenon DEF payeeOnRecord
    <3>2. ASSUME NEW w \in Winner, w.nBlockHeight <= MaxTip + Forward,
                 AddWinningMasternode(w), UNCHANGED <<tip, enabled, bounds>>
          PROVE  Register!Next
      BY <3>2, AddIsVote, Zenon
    <3> QED BY <2>2, <3>1, <3>2, ProcessBlockCases, Zenon
  <2>3. CASE CleanPaymentList
    <3>1. PICK x \in Listed : Listed' = Listed \ {x} /\ tip - x.nBlockHeight > Limit
      BY <2>3, CleanEffect, Zenon DEF IInv, TypeOK
    <3> DEFINE k == x.nBlockHeight
               Height == 0 .. MaxTip + Forward
    <3>2. k \in Height
      BY WinnerFields, Constants, SMTT(30) DEF IInv, TypeOK, ListedSeen, InRange
    <3>3. \A y \in Listed : y.nBlockHeight = k => y = x
      BY Zenon DEF IInv, OneWinnerPerHeight, Listed
    <3>4. ASSUME NEW h \in Height
          PROVE  GetBlockPayee(vWinning', h) = IF h = k THEN NoPayee
                                               ELSE GetBlockPayee(vWinning, h)
      <4>1. CASE h = k
        BY <3>1, <3>3, <4>1, PayeeNext, Zenon
      <4>2. CASE h # k
        <5>1. CASE \E y \in Listed : y.nBlockHeight = h
          <6>1. PICK y \in Listed : y.nBlockHeight = h
            BY <5>1, Zenon
          <6>2. y \in Listed'
            BY <3>1, <4>2, <6>1, Zenon
          <6> QED BY <4>2, <6>1, <6>2, PayeeNow, PayeeNext, Zenon
        <5>2. CASE \A y \in Listed : y.nBlockHeight # h
          <6>1. \A y \in Listed' : y.nBlockHeight # h
            BY <3>1, <5>2, Zenon
          <6> QED BY <4>2, <5>2, <6>1, PayeeNow, PayeeNext, Zenon
        <5> QED BY <5>1, <5>2, Zenon
      <4> QED BY <4>1, <4>2, Zenon
    <3>5. payeeOnRecord' = [payeeOnRecord EXCEPT ![k] = NoPayee]
      BY <3>2, <3>4, Zenon DEF payeeOnRecord
    <3>6. tip' = tip
      BY <2>3, Zenon DEF CleanPaymentList
    <3>7. tip - k > Limit
      BY <3>1, Zenon
    <3> HIDE DEF k
    <3> QED BY <3>2, <3>5, <3>6, <3>7, Zenon DEF Register!Next, Register!Drop, Register!Height
  <2>4. CASE Restart
    <3>1. \A h : GetBlockPayee(<<>>, h) = NoPayee
      BY SMTT(30) DEF GetBlockPayee
    <3>2. payeeOnRecord' = [h \in 0 .. MaxTip + Forward |-> NoPayee] /\ tip' = tip
      BY <2>4, <3>1, Zenon DEF Restart, payeeOnRecord
    <3> QED BY <3>2, Zenon DEF Register!Next, Register!End, Register!Height
  <2>5. ASSUME NEW vin \in Vin, Toggle(vin)
        PROVE  UNCHANGED <<tip, payeeOnRecord>>
    BY <2>5, Zenon DEF Toggle, payeeOnRecord
  <2>6. ASSUME NEW w \in votes, ProcessMnw(w)
        PROVE  Register!Next \/ UNCHANGED <<tip, payeeOnRecord>>
    <3>1. w \in Winner /\ w.nBlockHeight <= MaxTip + Forward /\ tip' = tip
      BY <2>6, MnwWinner, Zenon DEF ProcessMnw
    <3>2. CASE AddWinningMasternode(w)
      BY <3>1, <3>2, AddIsVote, Zenon
    <3>3. CASE UNCHANGED vWinning
      BY <3>1, <3>3, Zenon DEF payeeOnRecord
    <3> QED BY <2>6, <3>2, <3>3, Zenon DEF ProcessMnw
  <2>7. CASE UNCHANGED vars
    BY <2>7, Zenon DEF vars, payeeOnRecord
  <2> QED BY <2>1, <2>2, <2>3, <2>4, <2>5, <2>6, <2>7, Zenon DEF Next
<1> QED BY <1>1, <1>2, Inductive, PTL DEF Spec, ImplementsRegister, Register!Spec
----------------------------------------------------------------------------
\* The history is the end of the list of winners.
Aligned(h, v) ==
    /\ Len(h) <= Len(v)
    /\ \A k \in 1 .. Len(h) : h[k].vin = v[Len(v) - Len(h) + k].vin

Recorded == Aligned(history, vWinning)

\* Choice number k of the history h paid an enabled masternode, and one that
\* was not paid in the N+1 choices before it (FindOldestNotInVec); or else (the
\* fallback) nobody eligible had been waiting for N choices.
Fair(h, k) ==
    LET N == Cardinality(h[k].enabled) IN
    /\ h[k].vin \in h[k].enabled /\ h[k].eligible \subseteq h[k].enabled
    /\ \/ \A l \in 1 .. k - 1 : l >= k - N - 1 => h[l].vin # h[k].vin
       \/ \A v \in h[k].eligible :
             \/ v = h[k].vin
             \/ k <= N
             \/ \E l \in 1 .. k - 1 : l >= k - N /\ h[l].vin = v

Turns == Recorded /\ \A k \in 1 .. Len(history) : Fair(history, k)

\* A finite set has an element with the least value.
LEMMA LeastValue ==
    ASSUME NEW S, IsFiniteSet(S), S # {}, NEW f, \A x \in S : f[x] \in Int
    PROVE  \E x \in S : \A y \in S : f[x] <= f[y]
<1> DEFINE less(x) == {y \in S : f[y] < f[x]}
           T == {Cardinality(less(x)) : x \in S}
<1>1. \A x \in S : less(x) \subseteq S /\ IsFiniteSet(less(x)) /\ Cardinality(less(x)) \in Nat
  <2> SUFFICES ASSUME NEW x \in S
               PROVE  less(x) \subseteq S /\ IsFiniteSet(less(x)) /\ Cardinality(less(x)) \in Nat
    BY Zenon
  <2>1. less(x) \in SUBSET S
    BY Zenon
  <2> HIDE DEF less
  <2> QED BY <2>1, FS_Subset, FS_CardinalityType, Zenon
<1>2. PICK c \in T : \A d \in T : ~(<<d, c>> \in OpToRel(<, Nat))
  <2>1. T \subseteq Nat /\ T # {}
    BY <1>1, Zenon
  <2> HIDE DEF T
  <2> QED BY <2>1, NatLessThanWellFounded, WFMin, Zenon
<1>3. PICK x \in S : c = Cardinality(less(x))
  BY Zenon
<1>4. ASSUME NEW y \in S, ~(f[x] <= f[y]) PROVE FALSE
  <2>1. f[y] < f[x] /\ f[x] \in Int /\ f[y] \in Int
    BY <1>4
  <2>2. less(y) \in SUBSET less(x) /\ y \in less(x) /\ y \notin less(y)
    BY <2>1, SMTT(30)
  <2>3. Cardinality(less(y)) # Cardinality(less(x)) /\ Cardinality(less(y)) <= Cardinality(less(x))
    <3> HIDE DEF less
    <3> QED BY <1>1, <2>2, FS_Subset, Zenon
  <2>4. Cardinality(less(y)) < Cardinality(less(x))
    <3> HIDE DEF less
    <3> QED BY <1>1, <2>3, SMTT(30)
  <2>5. <<Cardinality(less(y)), Cardinality(less(x))>> \in OpToRel(<, Nat)
    <3> HIDE DEF less
    <3> QED BY <1>1, <2>4, ZenonT(30) DEF OpToRel
  <2> QED BY <1>2, <1>3, <2>5, Zenon
<1> QED BY <1>4, Zenon

\* A later part of a history is as fair.
LEMMA FairLater ==
    ASSUME NEW h, NEW g, NEW s \in Nat, NEW k \in Nat, k >= 1,
           Cardinality(h[k + s].enabled) \in Nat,
           \A l \in 1 .. k : g[l] = h[l + s], Fair(h, k + s)
    PROVE  Fair(g, k)
<1> DEFINE N == Cardinality(h[k + s].enabled)
<1>1. g[k] = h[k + s]
  BY SMTT(30)
<1>2. CASE \A l \in 1 .. k + s - 1 : l >= k + s - N - 1 => h[l].vin # h[k + s].vin
  <2>1. ASSUME NEW l \in 1 .. k - 1, l >= k - N - 1
        PROVE  g[l].vin # g[k].vin
    <3>1. g[l] = h[l + s] /\ l + s \in 1 .. k + s - 1 /\ l + s >= k + s - N - 1
      BY <2>1, SMTT(30)
    <3> QED BY <1>1, <1>2, <3>1, Zenon
  <2> QED BY <1>1, <2>1, Zenon DEF Fair
<1>3. ASSUME NEW v \in g[k].eligible, v # g[k].vin, k > N,
             \A w \in h[k + s].eligible :
                \/ w = h[k + s].vin
                \/ k + s <= N
                \/ \E l \in 1 .. k + s - 1 : l >= k + s - N /\ h[l].vin = w
      PROVE  \E l \in 1 .. k - 1 : l >= k - N /\ g[l].vin = v
  <2>1. PICK l \in 1 .. k + s - 1 : l >= k + s - N /\ h[l].vin = v
    BY <1>1, <1>3, SMTT(30)
  <2>2. l - s \in 1 .. k - 1 /\ l - s >= k - N /\ (l - s) + s = l
    BY <1>3, <2>1, SMTT(30)
  <2> QED BY <2>1, <2>2, SMTT(30)
<1>4. \/ \A l \in 1 .. k + s - 1 : l >= k + s - N - 1 => h[l].vin # h[k + s].vin
      \/ \A w \in h[k + s].eligible :
                \/ w = h[k + s].vin
                \/ k + s <= N
                \/ \E l \in 1 .. k + s - 1 : l >= k + s - N /\ h[l].vin = w
  BY SMTT(30) DEF Fair
<1>5. /\ g[k].vin \in g[k].enabled /\ g[k].eligible \subseteq g[k].enabled
      /\ Cardinality(g[k].enabled) = N
  BY <1>1, Zenon DEF Fair
<1>6. CASE \A w \in h[k + s].eligible :
                \/ w = h[k + s].vin
                \/ k + s <= N
                \/ \E l \in 1 .. k + s - 1 : l >= k + s - N /\ h[l].vin = w
  <2>1. ASSUME NEW v \in g[k].eligible, v # g[k].vin, ~(k <= N)
        PROVE  \E l \in 1 .. k - 1 : l >= k - N /\ g[l].vin = v
    <3>1. k > N
      BY <2>1, SMTT(30)
    <3> QED BY <1>3, <1>6, <2>1, <3>1, Zenon
  <2> QED BY <1>5, <2>1, Zenon DEF Fair
<1> QED BY <1>2, <1>4, <1>6, Zenon

\* The number of enabled masternodes, now and in the history.
LEMMA Counted ==
    ASSUME TypeOK
    PROVE  /\ IsFiniteSet(enabled) /\ Cardinality(enabled) \in Nat
           /\ \A k \in 1 .. Len(history) : /\ IsFiniteSet(history[k].enabled)
                                           /\ Cardinality(history[k].enabled) \in Nat
                                           /\ history[k].enabled \subseteq Vin
<1>1. \A E \in SUBSET Vin : IsFiniteSet(E) /\ Cardinality(E) \in Nat
  BY PaymentsAssumption, FS_Subset, FS_CardinalityType, Zenon
<1>2. enabled \in SUBSET Vin
  BY Zenon DEF TypeOK
<1>3. \A k \in 1 .. Len(history) : history[k].enabled \in SUBSET Vin
  <2> DEFINE S == [vin : Vin, enabled : SUBSET Vin, eligible : SUBSET Vin]
  <2>1. history \in Seq(S) /\ \A e \in S : e.enabled \in SUBSET Vin
    BY Zenon DEF TypeOK
  <2> HIDE DEF S
  <2> QED BY <2>1
<1> QED BY <1>1, <1>2, <1>3, Zenon

\* FindOldestNotInVec returns nobody only when everyone eligible is in vec.
LEMMA NobodyLeft ==
    ASSUME TypeOK, NEW vec, NEW n, OldestNotInVec(vec, n) = {}
    PROVE  \A v \in Eligible(n) : Contains(vec, v)
<1> DEFINE candidates == {v \in Eligible(n) : ~Contains(vec, v)}
<1>1. candidates \in SUBSET enabled /\ \A x \in candidates : Born[x] \in Int
  BY PaymentsAssumption, Zenon DEF TypeOK, Eligible
<1>2. IsFiniteSet(candidates)
  <2> HIDE DEF candidates
  <2> QED BY <1>1, Counted, FS_Subset, Zenon
<1>3. candidates # {} => \E x \in candidates : \A y \in candidates : Born[x] <= Born[y]
  <2> HIDE DEF candidates
  <2> QED BY <1>1, <1>2, LeastValue, Zenon
<1>4. candidates = {}
  <2>1. OldestNotInVec(vec, n) = {x \in candidates : \A y \in candidates : Born[x] <= Born[y]}
    BY Zenon DEF OldestNotInVec
  <2> HIDE DEF candidates
  <2> QED BY <1>3, <2>1, Zenon
<1> QED BY <1>4, Zenon

\* The choice ProcessBlock makes is fair.
LEMMA ChosenFair ==
    ASSUME TypeOK, Recorded, NEW vin \in Chosen, NEW h,
           h = Append(history, [vin |-> vin, enabled |-> enabled,
                                eligible |-> Eligible(Cardinality(enabled))])
    PROVE  Fair(h, Len(history) + 1)
<1> DEFINE N == Cardinality(enabled)
           m == Len(history)
           L == Len(vWinning)
           vec == LastPayments(N)
           n == IF L > N THEN N + 1 ELSE L
           S == [vin : Vin, enabled : SUBSET Vin, eligible : SUBSET Vin]
<1>1. N \in Nat /\ m \in Nat /\ L \in Nat /\ m <= L /\ n \in Nat
  BY Counted, SMTT(30) DEF TypeOK, Recorded, Aligned
<1>2. DOMAIN vec = 1 .. n /\ \A i \in 1 .. n : vec[i] = vWinning[L + 1 - i].vin
  BY Zenon DEF LastPayments
<1>3. vin \in enabled /\ Eligible(N) \subseteq enabled
  BY ChosenEnabled, Zenon DEF Eligible
<1>4. /\ \A l \in 1 .. m : h[l] = history[l]
      /\ h[m + 1] = [vin |-> vin, enabled |-> enabled, eligible |-> Eligible(N)]
  <2> DEFINE e == [vin |-> vin, enabled |-> enabled, eligible |-> Eligible(N)]
  <2>1. e \in S /\ history \in Seq(S)
    BY <1>3, Zenon DEF TypeOK
  <2> HIDE DEF e, S
  <2>2. h = Append(history, e)
    BY Zenon DEF e
  <2> QED BY <2>1, <2>2, AppendProperties, SMTT(30) DEF e
<1> HIDE DEF vec, S
<1>5. ASSUME NEW l \in 1 .. m, l >= m - N
      PROVE  m + 1 - l \in 1 .. n /\ vec[m + 1 - l] = h[l].vin
  <2>1. m + 1 - l \in 1 .. n
    BY <1>1, <1>5, SMTT(30)
  <2>2. vec[m + 1 - l] = vWinning[L + 1 - (m + 1 - l)].vin
    BY <1>2, <2>1, Zenon
  <2>3. L + 1 - (m + 1 - l) = L - m + l
    BY <1>1, SMTT(30)
  <2>4. history[l].vin = vWinning[L - m + l].vin
    BY Zenon DEF Recorded, Aligned
  <2> QED BY <1>4, <2>1, <2>2, <2>3, <2>4, Zenon
<1>6. CASE OldestNotInVec(vec, N) # {}
  <2>1. ~Contains(vec, vin)
    BY <1>6, Zenon DEF Chosen, OldestNotInVec, vec
  <2>2. ASSUME NEW l \in 1 .. m, l >= m - N
        PROVE  h[l].vin # vin
    BY <1>2, <1>5, <2>1, <2>2, Zenon DEF Contains
  <2>3. \A l \in 1 .. (m + 1) - 1 : l >= (m + 1) - N - 1 => h[l].vin # h[m + 1].vin
    BY <1>1, <1>4, <2>2, SMTT(30)
  <2> QED BY <1>3, <1>4, <2>3, SMTT(30) DEF Fair
<1>7. CASE OldestNotInVec(vec, N) = {}
  <2>1. vin \in LongestAgo(vec)
    BY <1>7, Zenon DEF Chosen, vec
  <2>2. PICK p \in 1 .. n : vin = vec[p] /\ \A k \in 1 .. n : k > p => vec[k] \notin enabled
    BY <1>2, <2>1, Zenon DEF LongestAgo
  <2>3. ASSUME NEW v \in Eligible(N), v # vin, m + 1 > N
        PROVE  \E l \in 1 .. (m + 1) - 1 : l >= (m + 1) - N /\ h[l].vin = v
    <3>1. PICK q \in 1 .. n : vec[q] = v
      BY <1>2, <1>7, NobodyLeft, ZenonT(30) DEF Contains
    <3>2. q <= N
      BY <1>1, <1>3, <2>2, <2>3, <3>1, SMTT(30)
    <3>3. /\ m + 1 - q \in 1 .. m /\ m + 1 - q >= m - N /\ m + 1 - q >= (m + 1) - N
          /\ m + 1 - (m + 1 - q) = q
      BY <1>1, <2>3, <3>1, <3>2, SMTT(30)
    <3>4. h[m + 1 - q].vin = v
      BY <1>5, <3>1, <3>3, Zenon
    <3> QED BY <1>1, <3>3, <3>4, SMTT(30)
  <2>4. \A v \in h[m + 1].eligible :
            \/ v = h[m + 1].vin
            \/ m + 1 <= N
            \/ \E l \in 1 .. (m + 1) - 1 : l >= (m + 1) - N /\ h[l].vin = v
    BY <1>1, <1>4, <2>3, SMTT(30)
  <2> QED BY <1>3, <1>4, <2>4, SMTT(30) DEF Fair
<1> QED BY <1>6, <1>7, Zenon

LEMMA Shifted ==
    ASSUME NEW m \in Nat, NEW L \in Nat, m <= L
    PROVE  /\ m + 1 <= L + 1 /\ (L + 1) - (m + 1) = L - m /\ L - m + (m + 1) = L + 1
           /\ \A k \in 1 .. m : L - m + k \in 1 .. L
           /\ \A k \in 1 .. m + 1 : k \in 1 .. m \/ k = m + 1
BY SMTT(30)

\* Two lists stay aligned when the same masternode is added to both.
LEMMA AlignedLater ==
    ASSUME NEW S, NEW T, NEW h \in Seq(S), NEW v \in Seq(T), NEW e \in S, NEW w \in T,
           e.vin = w.vin, Aligned(h, v)
    PROVE  Aligned(Append(h, e), Append(v, w))
<1> DEFINE m == Len(h)
           L == Len(v)
<1>1. PICK g, u : g = Append(h, e) /\ u = Append(v, w)
  BY Zenon
<1>2. /\ Len(g) = m + 1 /\ m \in Nat /\ \A l \in 1 .. m : g[l] = h[l]
      /\ g[m + 1] = e
  BY <1>1, SMTT(30)
<1>3. /\ Len(u) = L + 1 /\ L \in Nat /\ \A l \in 1 .. L : u[l] = v[l]
      /\ u[L + 1] = w
  BY <1>1, SMTT(30)
<1>4. m <= L /\ \A k \in 1 .. m : h[k].vin = v[L - m + k].vin
  BY Zenon DEF Aligned
<1> HIDE DEF m, L
<1>s. /\ m + 1 <= L + 1 /\ (L + 1) - (m + 1) = L - m /\ L - m + (m + 1) = L + 1
      /\ \A k \in 1 .. m : L - m + k \in 1 .. L
      /\ \A k \in 1 .. m + 1 : k \in 1 .. m \/ k = m + 1
  BY <1>2, <1>3, <1>4, Shifted, Zenon
<1>5. Len(g) <= Len(u) /\ Len(u) - Len(g) = L - m /\ L - m + (m + 1) = L + 1
  BY <1>2, <1>3, <1>s, Zenon
<1>6. ASSUME NEW k \in 1 .. m PROVE g[k].vin = u[L - m + k].vin
  <2>1. L - m + k \in 1 .. L
    BY <1>s, Zenon
  <2> QED BY <1>2, <1>3, <1>4, <2>1, Zenon
<1>7. g[m + 1].vin = u[L - m + (m + 1)].vin
  BY <1>2, <1>3, <1>5, Zenon
<1>8. \A k \in 1 .. m + 1 : g[k].vin = u[L - m + k].vin
  BY <1>s, <1>6, <1>7, Zenon
<1>9. \A k \in 1 .. Len(g) : g[k].vin = u[Len(u) - Len(g) + k].vin
  <2>1. 1 .. Len(g) = 1 .. m + 1
    BY <1>2, Zenon
  <2> QED BY <1>5, <1>8, <2>1, Zenon
<1> QED BY <1>1, <1>5, <1>9, Zenon DEF Aligned

\* A step that leaves both alone, clears the history, adds a fair choice to
\* both or drops the first of the choices keeps the history fair.
LEMMA ClearedTurns == history' = <<>> /\ vWinning' \in Seq(Winner) => Turns'
BY SMTT(30) DEF Turns, Recorded, Aligned

LEMMA AddedTurns ==
    ASSUME TypeOK, TypeOK', Turns, NEW w \in Winner, w.vin \in Chosen,
           vWinning' = Append(vWinning, w),
           history' = Append(history, [vin |-> w.vin, enabled |-> enabled,
                                       eligible |-> Eligible(Cardinality(enabled))])
    PROVE  Turns'
<1> DEFINE m == Len(history)
           L == Len(vWinning)
           S == [vin : Vin, enabled : SUBSET Vin, eligible : SUBSET Vin]
           e == [vin |-> w.vin, enabled |-> enabled, eligible |-> Eligible(Cardinality(enabled))]
<1>1. e \in S /\ history \in Seq(S)
  <2>1. w.vin \in enabled /\ enabled \subseteq Vin
    BY ChosenEnabled, Zenon DEF TypeOK
  <2> QED BY <2>1, Zenon DEF Eligible, TypeOK
<1>2. e.vin = w.vin /\ history' = Append(history, e)
  BY Zenon
<1> HIDE DEF e, S
<1>3. /\ Len(history') = m + 1 /\ m \in Nat
      /\ \A l \in 1 .. m : history'[l] = history[l]
      /\ history'[m + 1] = e
  BY <1>1, <1>2, SMTT(30)
<1>4. /\ Len(vWinning') = L + 1 /\ L \in Nat /\ m <= L
      /\ \A l \in 1 .. L : vWinning'[l] = vWinning[l]
      /\ vWinning'[L + 1] = w
  BY SMTT(30) DEF TypeOK, Turns, Recorded, Aligned
<1>5. Recorded'
  <2>1. vWinning \in Seq(Winner) /\ Aligned(history, vWinning)
    BY Zenon DEF TypeOK, Turns, Recorded
  <2>2. Aligned(Append(history, e), Append(vWinning, w))
    BY <1>1, <1>2, <2>1, AlignedLater, Zenon
  <2> QED BY <1>2, <2>2, Zenon DEF Recorded
<1>6. ASSUME NEW k \in 1 .. m
      PROVE  Fair(history', k)
  <2>1. Fair(history, k + 0) /\ Cardinality(history[k + 0].enabled) \in Nat
    BY <1>3, Counted, SMTT(30) DEF Turns
  <2>2. \A l \in 1 .. k : history'[l] = history[l + 0]
    BY <1>3, SMTT(30)
  <2>3. k \in Nat /\ k >= 1 /\ 0 \in Nat
    BY <1>3, SMTT(30)
  <2> QED BY <2>1, <2>2, <2>3, FairLater, Zenon
<1>7. Fair(history', m + 1)
  BY ChosenFair, Zenon DEF Turns
<1>8. \A k \in 1 .. m + 1 : Fair(history', k)
  BY <1>3, <1>6, <1>7, SMTT(30)
<1> QED BY <1>3, <1>5, <1>8, Zenon DEF Turns

LEMMA CleanedTurns ==
    ASSUME TypeOK, Turns, CleanPaymentList
    PROVE  Turns'
<1> DEFINE m == Len(history)
           L == Len(vWinning)
<1>1. PICK i \in 1 .. L : \E s \in 0 .. m :
             /\ s = IF i <= L - m THEN 0 ELSE i - (L - m)
             /\ Len(vWinning') = L - 1
             /\ \A j \in 1 .. L - 1 :
                   vWinning'[j] = IF j < i THEN vWinning[j] ELSE vWinning[j + 1]
             /\ Len(history') = m - s
             /\ \A k \in 1 .. m - s : history'[k] = history[k + s]
  BY CleanHistory, Zenon
<1>2. PICK s \in 0 .. m :
             /\ s = IF i <= L - m THEN 0 ELSE i - (L - m)
             /\ Len(vWinning') = L - 1
             /\ \A j \in 1 .. L - 1 :
                   vWinning'[j] = IF j < i THEN vWinning[j] ELSE vWinning[j + 1]
             /\ Len(history') = m - s
             /\ \A k \in 1 .. m - s : history'[k] = history[k + s]
  BY <1>1, Zenon
<1>3. m \in Nat /\ L \in Nat /\ m <= L
  BY SMTT(30) DEF TypeOK, Turns, Recorded, Aligned
<1>4. Recorded'
  <2>1. m - s <= L - 1
    BY <1>2, <1>3, SMTT(30)
  <2>2. ASSUME NEW k \in 1 .. m - s
        PROVE  history'[k].vin = vWinning'[L - 1 - (m - s) + k].vin
    <3>1. k + s \in 1 .. m /\ history'[k] = history[k + s]
      BY <1>2, <1>3, SMTT(30)
    <3>2. history[k + s].vin = vWinning[L - m + (k + s)].vin
      BY <3>1, Zenon DEF Turns, Recorded, Aligned
    <3> DEFINE j == L - 1 - (m - s) + k
    <3>3. j \in 1 .. L - 1 /\ ~(j < i) /\ j + 1 = L - m + (k + s)
      BY <1>2, <1>3, SMTT(30)
    <3>4. vWinning'[j] = vWinning[j + 1]
      <4> HIDE DEF j
      <4> QED BY <1>2, <3>3, Zenon
    <3> QED BY <3>1, <3>2, <3>3, <3>4, Zenon
  <2> QED BY <1>2, <2>1, <2>2, Zenon DEF Recorded, Aligned
<1>5. ASSUME NEW k \in 1 .. m - s
      PROVE  Fair(history', k)
  <2>1. k + s \in 1 .. m /\ k \in Nat /\ k >= 1 /\ s \in Nat
    BY <1>3, SMTT(30)
  <2>2. Fair(history, k + s) /\ Cardinality(history[k + s].enabled) \in Nat
    BY <2>1, Counted, Zenon DEF Turns
  <2>3. \A l \in 1 .. k : history'[l] = history[l + s]
    BY <1>2, <1>3, SMTT(30)
  <2> QED BY <2>1, <2>2, <2>3, FairLater, Zenon
<1> QED BY <1>2, <1>4, <1>5, Zenon DEF Turns

LEMMA SameTurns == Turns /\ UNCHANGED <<vWinning, history>> => Turns'
BY Zenon DEF Turns, Recorded, Aligned

\* Every choice in the history is fair.
LEMMA TurnsAlways == Spec => []Turns
<1>1. Init => Turns
  BY SMTT(30) DEF Init, Turns, Recorded, Aligned
<1>2. IInv /\ IInv' /\ Turns /\ [Next]_vars => Turns'
  <2> SUFFICES ASSUME IInv, IInv', Turns, [Next]_vars PROVE Turns'
    BY Zenon
  <2>0. TypeOK /\ TypeOK' /\ vWinning' \in Seq(Winner)
    BY Zenon DEF IInv, TypeOK
  <2> USE DEF memory, bounds
  <2>1. CASE Connect
    BY <2>1, SameTurns, Zenon DEF Connect
  <2>2. CASE ProcessBlock
    <3>1. CASE UNCHANGED <<tip, enabled, bounds, votes, memory>>
      BY <3>1, SameTurns, Zenon
    <3>2. ASSUME NEW w \in Winner, w.vin \in Chosen, AddWinningMasternode(w),
                 history' =
                    IF \E i \in DOMAIN vWinning : vWinning[i].nBlockHeight = w.nBlockHeight
                    THEN <<>>
                    ELSE Append(history, [vin |-> w.vin, enabled |-> enabled,
                                          eligible |-> Eligible(Cardinality(enabled))])
          PROVE  Turns'
      <4>1. CASE \E i \in DOMAIN vWinning : vWinning[i].nBlockHeight = w.nBlockHeight
        <5>1. history' = <<>>
          BY <3>2, <4>1, Zenon
        <5> QED BY <2>0, <5>1, ClearedTurns, Zenon
      <4>2. CASE ~\E i \in DOMAIN vWinning : vWinning[i].nBlockHeight = w.nBlockHeight
        <5>1. vWinning' = Append(vWinning, w)
          BY <3>2, <4>2, Zenon DEF AddWinningMasternode
        <5>2. history' = Append(history, [vin |-> w.vin, enabled |-> enabled,
                                          eligible |-> Eligible(Cardinality(enabled))])
          BY <3>2, <4>2, Zenon
        <5> QED BY <2>0, <3>2, <5>1, <5>2, AddedTurns, Zenon
      <4> QED BY <4>1, <4>2, Zenon
    <3> QED BY <2>2, <3>1, <3>2, ProcessBlockCases, Zenon
  <2>3. CASE CleanPaymentList
    BY <2>0, <2>3, CleanedTurns, Zenon
  <2>4. CASE Restart
    BY <2>0, <2>4, ClearedTurns, Zenon DEF Restart
  <2>5. ASSUME NEW vin \in Vin, Toggle(vin)
        PROVE  Turns'
    BY <2>5, SameTurns, Zenon DEF Toggle
  <2>6. ASSUME NEW w \in votes, ProcessMnw(w)
        PROVE  Turns'
    BY <2>0, <2>6, ClearedTurns, Zenon DEF ProcessMnw
  <2>7. CASE UNCHANGED vars
    BY <2>7, SameTurns, Zenon DEF vars
  <2> QED BY <2>1, <2>2, <2>3, <2>4, <2>5, <2>6, <2>7, Zenon DEF Next
<1> QED BY <1>1, <1>2, Inductive, PTL DEF Spec

\* Of two choices among the last N, the earlier is in the later one's reach.
LEMMA Window ==
    ASSUME NEW j \in Nat, NEW N \in Nat, N >= 1, j - 2 * N + 2 >= 1,
           NEW k \in j - N + 1 .. j, NEW l \in j - N + 1 .. j, l < k
    PROVE  /\ k \in j - 2 * N + 2 .. j /\ l \in 1 .. k - 1
           /\ l >= k - N - 1 /\ ~(k <= N)
BY SMTT(30)

\* Where N are enabled and somebody has been waiting for 2N-1 choices, the last
\* N choices were of N different others: one too many.
LEMMA TurnsPay ==
    ASSUME TypeOK, Turns
    PROVE  NobodyStarves
<1> SUFFICES ASSUME NEW j \in DOMAIN history, NEW vin \in Vin,
                    j - 2 * Cardinality(history[j].enabled) + 2 >= 1,
                    Cycle(j - 2 * Cardinality(history[j].enabled) + 2, j),
                    \A k \in j - 2 * Cardinality(history[j].enabled) + 2 .. j :
                        vin \in history[k].eligible /\ history[k].vin # vin
             PROVE  FALSE
  BY Zenon DEF NobodyStarves
<1> DEFINE E == history[j].enabled
           N == Cardinality(E)
           i == j - 2 * N + 2
<1>1. Len(history) \in Nat /\ j \in 1 .. Len(history)
  BY SMTT(30) DEF TypeOK
<1>2. IsFiniteSet(E) /\ N \in Nat
  BY <1>1, Counted, Zenon
<1>3. \A k \in 1 .. Len(history) : Fair(history, k)
  BY Zenon DEF Turns
<1>4. N >= 1
  <2>1. E # {}
    BY <1>1, <1>3, Zenon DEF Fair
  <2>2. N # 0
    BY <1>2, <2>1, FS_EmptySet, Zenon
  <2> QED BY <1>2, <2>2, SMTT(30)
<1>5. i \in Nat /\ i >= 1 /\ i <= j - N + 1 /\ j - N + 1 <= j
  BY <1>1, <1>2, <1>4, SMTT(30)
<1>6. \A k \in i .. j : history[k].enabled = E
  <2>1. \A k \in i .. j : history[k].enabled = history[i].enabled
    BY Zenon DEF Cycle
  <2>2. j \in i .. j
    <3> HIDE DEF i
    <3> QED BY <1>1, <1>2, <1>5, SMTT(30)
  <2> QED BY <2>1, <2>2, Zenon
<1>7. \A k \in i .. j : vin \in history[k].eligible /\ history[k].vin # vin
  BY Zenon
<1> HIDE DEF N, i, E
<1>8. ASSUME NEW k \in i .. j
      PROVE  /\ history[k].vin \in E \ {vin} /\ vin \in E
             /\ \/ \A l \in 1 .. k - 1 : l >= k - N - 1 => history[l].vin # history[k].vin
                \/ k <= N
                \/ \E l \in 1 .. k - 1 : l >= k - N /\ history[l].vin = vin
  <2>1. k \in 1 .. Len(history)
    BY <1>1, <1>5, SMTT(30)
  <2>2. Fair(history, k) /\ history[k].enabled = E
    BY <1>3, <1>6, <2>1, Zenon
  <2>3. vin \in history[k].eligible /\ history[k].vin # vin
    BY <1>7, Zenon
  <2> QED BY <2>2, <2>3, Zenon DEF Fair, N
<1>9. ASSUME NEW k \in j - N + 1 .. j, NEW l \in j - N + 1 .. j, l < k
      PROVE  history[l].vin # history[k].vin
  <2>1. k \in i .. j /\ l \in 1 .. k - 1 /\ l >= k - N - 1 /\ ~(k <= N)
    <3>1. j \in Nat
      BY <1>1, SMTT(30)
    <3>2. j - 2 * N + 2 >= 1
      BY <1>5, Zenon DEF i
    <3> QED BY <1>2, <1>4, <1>9, <3>1, <3>2, Window, Zenon DEF i
  <2>2. ASSUME NEW p \in 1 .. k - 1, p >= k - N, history[p].vin = vin PROVE FALSE
    <3>1. j - N + 2 - N = i /\ i \in Int /\ j \in Int /\ N \in Int
      BY <1>1, <1>2, <1>5, SMTT(30) DEF i
    <3>2. j - N + 2 <= k /\ k <= j /\ k \in Int
      BY <1>9, <3>1, SMTT(30)
    <3>3. p >= i /\ p <= j /\ p \in Int
      BY <2>2, <3>1, <3>2, SMTT(30)
    <3>4. p \in i .. j
      BY <3>1, <3>3, SMTT(30)
    <3> QED BY <1>7, <2>2, <3>4, Zenon
  <2> QED BY <1>8, <2>1, <2>2, ZenonT(30)
<1> DEFINE A == j - N + 1 .. j
           f == [k \in A |-> history[k].vin]
<1>10. IsFiniteSet(A) /\ Cardinality(A) = N
  <2>1. j - N + 1 \in Int /\ j \in Int /\ ~(j - N + 1 > j) /\ j - (j - N + 1) + 1 = N
    BY <1>1, <1>2, <1>5, SMTT(30)
  <2> QED BY <2>1, FS_Interval, Zenon
<1>11. f \in [A -> E \ {vin}] /\ vin \in E
  <2>1. \A k \in A : k \in i .. j
    BY <1>1, <1>2, <1>5, SMTT(30)
  <2>2. j \in A
    BY <1>1, <1>2, <1>5, SMTT(30)
  <2> QED BY <1>8, <2>1, <2>2, Zenon
<1>12. IsFiniteSet(E \ {vin}) /\ Cardinality(E \ {vin}) < N
  <2>1. IsFiniteSet(E \ {vin}) /\ Cardinality(E \ {vin}) = N - 1
    BY <1>2, <1>11, FS_RemoveElement, Zenon DEF N
  <2> QED BY <1>2, <2>1, SMTT(30)
<1>13. \E x, y \in A : x # y /\ f[x] = f[y]
  <2> DEFINE T == E \ {vin}
  <2> HIDE DEF A, f
  <2>1. f \in [A -> T] /\ IsFiniteSet(T) /\ Cardinality(T) < Cardinality(A)
    BY <1>10, <1>11, <1>12, Zenon
  <2> HIDE DEF T
  <2> QED BY <1>10, <2>1, FS_PigeonHole, Zenon
<1>14. PICK x \in A, y \in A : x # y /\ history[x].vin = history[y].vin
  BY <1>13, ZenonT(30)
<1>15. x < y \/ y < x
  <2>1. x \in Int /\ y \in Int
    BY <1>14, SMTT(30)
  <2> HIDE DEF A
  <2> QED BY <1>14, <2>1, SMTT(30)
<1> QED BY <1>9, <1>14, <1>15, Zenon

\* No masternode starves at the master: of N enabled ones, everyone eligible is
\* paid within 2N-1 undisturbed choices (ProcessBlock, FindOldestNotInVec).
THEOREM EverybodyPaid == Spec => []NobodyStarves
<1>1. IInv /\ Turns => NobodyStarves
  BY TurnsPay, Zenon DEF IInv
<1> QED BY <1>1, Inductive, TurnsAlways, PTL
=============================================================================
