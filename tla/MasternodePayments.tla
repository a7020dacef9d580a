------------------------- MODULE MasternodePayments -------------------------
(***************************************************************************)
(* CMasternodePayments at one node: the winner on record for each coming   *)
(* block.  A node with the master key (`enabled`) chooses and signs the    *)
(* winner for the block 10 ahead each time it processes a block; the other *)
(* nodes learn of it by "mnw" messages.                                    *)
(*                                                                         *)
(* `votes` holds every winner ever signed and relayed; peers may deliver   *)
(* any of them late, in any order, repeatedly or never.  All are signed    *)
(* with the master key, so the signature check is left out.                *)
(***************************************************************************)
EXTENDS Integers, Sequences, FiniteSets

CONSTANTS
    Vin,            \* the masternodes
    Script,         \* payees
    Payees,         \* Payees[vin]: its own script, and its donation address if it has one
    Score,          \* Score[vin]: CalculateScore, which hashes vin alone
    Born,           \* Born[vin]: height of the collateral, the run's first tip being 0
    Master,         \* has this node the master key?
    Others,         \* winners signed elsewhere with the master key
    Ahead,          \* ProcessBlock looks this many blocks ahead (10)
    Back, Forward,  \* window of heights in which a vote is taken (10, 20)
    Limit,          \* age at which a winner is dropped (1000)
    NoPayee,        \* no winner on record
    MaxTip,         \* bound: height of the chain
    MaxRestarts,    \* bound: restarts in a run
    MaxToggles      \* bound: masternodes that come and go in a run

Winner == [nBlockHeight : Nat, vin : Vin, payee : Script]

ASSUME PaymentsAssumption ==
    /\ Score \in [Vin -> Nat]
    /\ Born \in [Vin -> Int]
    /\ Payees \in [Vin -> SUBSET Script]
    /\ Master \in BOOLEAN /\ IsFiniteSet(Vin)
    /\ Others \subseteq Winner
    /\ {Ahead, Back, Forward, Limit, MaxTip, MaxRestarts, MaxToggles} \subseteq Nat
    /\ Ahead <= Forward /\ Back < Limit

VARIABLES
    tip,                    \* chainActive.Height()
    called,                 \* a ProcessNewBlock has yet to call ProcessBlock
    enabled,                \* masternodes that are ENABLED (after Check)
    votes,                  \* signed winners in circulation
    vWinning,               \* the winners on record, in the order they came
    mapSeenMasternodeVotes, \* winners seen
    nLastBlockHeight,
    history,                \* history: choices since the list was last disturbed
    restarts, toggles       \* counters for the bounds

memory == <<vWinning, mapSeenMasternodeVotes, nLastBlockHeight, history>>
bounds == <<restarts, toggles>>
vars == <<tip, called, enabled, votes, memory, bounds>>

Init ==
    /\ tip = 0 /\ called = FALSE
    /\ enabled \in SUBSET Vin
    /\ votes = Others
    /\ vWinning = <<>> /\ mapSeenMasternodeVotes = {} /\ nLastBlockHeight = 0
    /\ history = <<>>
    /\ restarts = 0 /\ toggles = 0
----------------------------------------------------------------------------
\* ProcessNewBlock has ActivateBestChain connect a block, or several ...
Connect ==
    /\ tip < MaxTip
    /\ tip' = tip + 1
    /\ called' = TRUE
    /\ UNCHANGED <<enabled, votes, memory, bounds>>

\* A masternode appears, expires or is removed.
Toggle(vin) ==
    /\ toggles < MaxToggles
    /\ toggles' = toggles + 1
    /\ enabled' = IF vin \in enabled THEN enabled \ {vin} ELSE enabled \cup {vin}
    /\ UNCHANGED <<tip, called, votes, memory, restarts>>

GetMasternodeInputAge(vin) == tip + 1 - Born[vin]

\* CMasternodePaymentWinner::GetHash leaves the payee out.
GetHash(w) == <<w.nBlockHeight, w.vin>>
HasSeen(w) == \E s \in mapSeenMasternodeVotes : GetHash(s) = GetHash(w)

\* The loop that fills vecLastPayments, last payment first.  It stops one
\* later than nMinimumAge.
LastPayments(nMinimumAge) ==
    LET n == IF Len(vWinning) > nMinimumAge THEN nMinimumAge + 1 ELSE Len(vWinning)
    IN [i \in 1 .. n |-> vWinning[Len(vWinning) + 1 - i].vin]

Contains(vec, vin) == \E i \in DOMAIN vec : vec[i] = vin

Eligible(nMinimumAge) == {vin \in enabled : GetMasternodeInputAge(vin) >= nMinimumAge}

\* Mutant: vec is not looked at.
OldestOfAll(vec, nMinimumAge) ==
    {vin \in Eligible(nMinimumAge) : \A o \in Eligible(nMinimumAge) : Born[vin] <= Born[o]}

\* FindOldestNotInVec, with nMinimumActiveSeconds = 0; of two that are equally
\* old the first in the list, here either.
OldestNotInVec(vec, nMinimumAge) ==
    LET candidates == {vin \in Eligible(nMinimumAge) : ~Contains(vec, vin)}
    IN {vin \in candidates : \A o \in candidates : Born[vin] <= Born[o]}

\* The fallback: the enabled masternode whose payment in vec is longest ago.
LongestAgo(vec) ==
    {vec[i] : i \in {j \in DOMAIN vec :
        vec[j] \in enabled /\ \A k \in DOMAIN vec : k > j => vec[k] \notin enabled}}

\* Whom ProcessBlock may choose.
Chosen ==
    LET nMinimumAge == Cardinality(enabled)
        vec == LastPayments(nMinimumAge)
        oldest == OldestNotInVec(vec, nMinimumAge)
    IN IF oldest # {} THEN oldest ELSE LongestAgo(vec)

\* Mutant: the first vote for a height stays.
AcceptsFirst(w) == \A i \in DOMAIN vWinning : vWinning[i].nBlockHeight # w.nBlockHeight

\* Mutant: the last vote for a height replaces the others.
AcceptsLast(w) == TRUE

\* AddWinningMasternode takes w if its height has no winner or one that
\* scores lower ...
Accepts(w) ==
    \A i \in DOMAIN vWinning :
        vWinning[i].nBlockHeight = w.nBlockHeight => Score[vWinning[i].vin] < Score[w.vin]

\* Mutant: always at the end.
AddAtEnd(w) == Accepts(w) /\ vWinning' = Append(vWinning, w)

\* ... and puts it in the place of that winner, or at the end.
AddWinningMasternode(w) ==
    /\ Accepts(w)
    /\ vWinning' =
          IF \E i \in DOMAIN vWinning : vWinning[i].nBlockHeight = w.nBlockHeight
          THEN [i \in DOMAIN vWinning |->
                   IF vWinning[i].nBlockHeight = w.nBlockHeight THEN w ELSE vWinning[i]]
          ELSE Append(vWinning, w)

\* map::insert keeps the value of a key it has.
InsertSeen(w) ==
    mapSeenMasternodeVotes' =
        IF HasSeen(w) THEN mapSeenMasternodeVotes ELSE mapSeenMasternodeVotes \cup {w}

\* ... and then calls ProcessBlock(chainActive.Height() + 10): nothing if the
\* node is not the master, the height was done, or nobody can be paid; else
\* the winner is signed, recorded and relayed unless a better one is known.
Skip ==
    \/ ~Master
    \/ tip + Ahead <= nLastBlockHeight
    \/ Chosen = {}

ProcessBlock ==
    /\ called
    /\ called' = FALSE
    /\ \/ Skip /\ UNCHANGED <<votes, memory>>
       \/ /\ ~Skip
          /\ \E vin \in Chosen : \E payee \in Payees[vin] :
                LET w == [nBlockHeight |-> tip + Ahead, vin |-> vin, payee |-> payee] IN
                \/ ~Accepts(w) /\ UNCHANGED <<votes, memory>>
                \/ /\ AddWinningMasternode(w)
                   /\ InsertSeen(w)
                   /\ votes' = votes \cup {w}
                   /\ nLastBlockHeight' = w.nBlockHeight
                   /\ history' =
                         IF \E i \in DOMAIN vWinning : vWinning[i].nBlockHeight = w.nBlockHeight
                         THEN <<>>
                         ELSE Append(history, [vin |-> vin, enabled |-> enabled,
                                               eligible |-> Eligible(Cardinality(enabled))])
    /\ UNCHANGED <<tip, enabled, bounds>>

InWindow(h) == tip - Back <= h /\ h <= tip + Forward

\* ProcessMessageMasternodePayments, "mnw".
ProcessMnw(w) ==
    /\ ~HasSeen(w)
    /\ InWindow(w.nBlockHeight)
    /\ InsertSeen(w)
    /\ \/ AddWinningMasternode(w)
       \/ ~Accepts(w) /\ UNCHANGED vWinning
    /\ history' = <<>>
    /\ UNCHANGED <<tip, called, enabled, votes, nLastBlockHeight, bounds>>

\* CleanPaymentList, every minute: drops the first winner that is too old.
CleanPaymentList ==
    LET nLimit == IF 2 * Cardinality(Vin) > Limit THEN 2 * Cardinality(Vin) ELSE Limit
        before == Len(vWinning) - Len(history) IN
    \E i \in DOMAIN vWinning :
        /\ tip - vWinning[i].nBlockHeight > nLimit
        /\ \A j \in 1 .. i - 1 : tip - vWinning[j].nBlockHeight <= nLimit
        /\ vWinning' = [j \in 1 .. Len(vWinning) - 1 |->
                           IF j < i THEN vWinning[j] ELSE vWinning[j + 1]]
        /\ history' = IF i <= before THEN history
                      ELSE SubSeq(history, i - before + 1, Len(history))
        /\ UNCHANGED <<tip, called, enabled, votes, mapSeenMasternodeVotes,
                       nLastBlockHeight, bounds>>

\* Mutant: -1 for "no height yet".
RestartMinusOne ==
    /\ restarts < MaxRestarts
    /\ restarts' = restarts + 1
    /\ called' = FALSE
    /\ vWinning' = <<>> /\ mapSeenMasternodeVotes' = {} /\ nLastBlockHeight' = -1
    /\ history' = <<>>
    /\ UNCHANGED <<tip, enabled, votes, toggles>>

\* Nothing of this is saved.
Restart ==
    /\ restarts < MaxRestarts
    /\ restarts' = restarts + 1
    /\ called' = FALSE
    /\ vWinning' = <<>> /\ mapSeenMasternodeVotes' = {} /\ nLastBlockHeight' = 0
    /\ history' = <<>>
    /\ UNCHANGED <<tip, enabled, votes, toggles>>

Next ==
    \/ Connect \/ ProcessBlock \/ CleanPaymentList \/ Restart
    \/ \E vin \in Vin : Toggle(vin)
    \/ \E w \in votes : ProcessMnw(w)

Spec == Init /\ [][Next]_vars
----------------------------------------------------------------------------
\* GetBlockPayee and GetWinningMasternode return the first match in the list.
GetBlockPayee(winning, h) ==
    LET match == {i \in DOMAIN winning : winning[i].nBlockHeight = h}
        w == winning[CHOOSE i \in match : \A j \in match : i <= j]
    IN IF match = {} THEN NoPayee ELSE [vin |-> w.vin, payee |-> w.payee]

payeeOnRecord == [h \in 0 .. MaxTip + Forward |-> GetBlockPayee(vWinning, h)]

\* Every variable has the type of the field it stands for.
TypeOK ==
    /\ tip \in Nat /\ called \in BOOLEAN
    /\ enabled \subseteq Vin
    /\ votes \subseteq Winner
    /\ vWinning \in Seq(Winner)
    /\ mapSeenMasternodeVotes \subseteq Winner
    /\ nLastBlockHeight \in Nat
    /\ history \in Seq([vin : Vin, enabled : SUBSET Vin, eligible : SUBSET Vin])
    /\ restarts \in Nat /\ toggles \in Nat

\* The list never holds two winners for one height, so the first match that
\* GetBlockPayee returns is the only one (AddWinningMasternode,
\* CleanPaymentList).
OneWinnerPerHeight ==
    \A i, j \in DOMAIN vWinning :
        vWinning[i].nBlockHeight = vWinning[j].nBlockHeight => i = j

\* Whatever the order the votes came in, the winner on record for a height not
\* yet old enough to be dropped is the best of all votes seen for it: nodes that saw the same
\* votes agree on who is paid (ProcessMessageMasternodePayments,
\* AddWinningMasternode, CleanPaymentList).
BestSeenWins ==
    \A s \in mapSeenMasternodeVotes : tip - s.nBlockHeight <= Limit =>
        \E i \in DOMAIN vWinning :
            /\ vWinning[i].nBlockHeight = s.nBlockHeight
            /\ Score[vWinning[i].vin] >= Score[s.vin]
            /\ \E t \in mapSeenMasternodeVotes : t = vWinning[i]

\* The choices of one undisturbed cycle, numbers i to j of the history: the
\* enabled masternodes stay the same.
Cycle(i, j) == \A k \in i .. j : history[k].enabled = history[i].enabled

\* No masternode starves at the master: among 2N-1 consecutive choices, N
\* masternodes being enabled throughout, everyone eligible throughout is paid.
\* (N+1 are enough when all are old enough; who comes of age meanwhile is paid
\* before those whose turn it is.)  (ProcessBlock, FindOldestNotInVec)
NobodyStarves ==
    \A j \in DOMAIN history :
        LET i == j - 2 * Cardinality(history[j].enabled) + 2 IN
        (i >= 1 /\ Cycle(i, j)) =>
            \A vin \in Vin :
                (\A k \in i .. j : vin \in history[k].eligible) =>
                    \E k \in i .. j : history[k].vin = vin

\* The list implements the register the block checks rely on.
Register == INSTANCE PayeeRegister WITH
    MaxHeight <- MaxTip + Forward,
    payee <- payeeOnRecord

\* Seen through GetBlockPayee, every step is a step of the register: a payee
\* is only replaced by a better one and only dropped with its age.
ImplementsRegister == Register!Spec
=============================================================================
