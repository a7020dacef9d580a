---------------------------- MODULE SporkProofs ----------------------------
(***************************************************************************)
(* Proofs about Spork, for every network, key holder, clock and bound.     *)
(***************************************************************************)
EXTENDS Spork, TLAPS

(* What the lemmas use of the sizes of finite sets: the hypothesis Counting, *)
(* discharged below (CountingHolds) before the theorems are stated.          *)
Counting ==
    /\ \A S \in SUBSET Node : Cardinality(S) \in Nat
    /\ \A S \in SUBSET SporkID :
          /\ Cardinality(S) \in Nat
          /\ \A f \in [1 .. Cardinality(S) -> S] :
                (\A i, j \in 1 .. Cardinality(S) : f[i] = f[j] => i = j)
                    => \A x \in S : \E i \in 1 .. Cardinality(S) : f[i] = x

(* What a handler may send keeps every link a sequence of messages. *)
LEMMA ExchangeType ==
    ASSUME chan \in [Link -> Seq(Message)],
           NEW n \in Node, NEW p \in Node,
           Receives(n, p, "spork") \/ Receives(n, p, "getsporks")
               \/ Receives(n, p, "inv") \/ Receives(n, p, "getdata"),
           NEW out \in [Node -> Seq(Message)],
           Exchange(n, p, out)
    PROVE  chan' \in [Link -> Seq(Message)]
<1>1. chan[<<p, n>>] \in Seq(Message) /\ chan[<<p, n>>] # <<>> /\ <<p, n>> \in Link
  BY Zenon DEF Receives
<1>2. Tail(chan[<<p, n>>]) \in Seq(Message)
  BY <1>1
<1>3. ASSUME NEW l \in Link
      PROVE  chan[l] \o out[l[2]] \in Seq(Message)
  <2>1. l[2] \in Node
    BY SporkAssumption, Zenon
  <2> QED BY <2>1
<1> QED BY <1>2, <1>3, Zenon DEF Exchange

(* A received message that carries a spork carries a well-formed one. *)
LEMMA ReceivedSpork ==
    ASSUME chan \in [Link -> Seq(Message)],
           NEW n \in Node, NEW p \in Node,
           Receives(n, p, "spork")
    PROVE  Head(chan[<<p, n>>]).spork \in SporkMessage
<1>1. Head(chan[<<p, n>>]) \in Message /\ Head(chan[<<p, n>>]).type = "spork"
  BY DEF Receives
<1> QED BY <1>1, Zenon DEF Message

(* A received message that carries a hash carries a well-formed one. *)
LEMMA ReceivedHash ==
    ASSUME chan \in [Link -> Seq(Message)],
           NEW n \in Node, NEW p \in Node,
           Receives(n, p, "inv") \/ Receives(n, p, "getdata")
    PROVE  Head(chan[<<p, n>>]).hash \in Hash
<1>1. Head(chan[<<p, n>>]) \in Message /\ Head(chan[<<p, n>>]).type \in {"inv", "getdata"}
  BY DEF Receives
<1> QED BY <1>1, Zenon DEF Message

(* Adding a hash to, or removing it from, what n asks p for. *)
LEMMA AskForType ==
    ASSUME NEW ask \in [Node -> [Node -> SUBSET Hash]],
           NEW n \in Node, NEW p \in Node, NEW s \in Hash
    PROVE  /\ [ask EXCEPT ![n][p] = @ \cup {s}] \in [Node -> [Node -> SUBSET Hash]]
           /\ [ask EXCEPT ![n][p] = @ \ {s}] \in [Node -> [Node -> SUBSET Hash]]
<1>1. [ask[n] EXCEPT ![p] = @ \cup {s}] \in [Node -> SUBSET Hash]
  BY Zenon
<1>2. [ask[n] EXCEPT ![p] = @ \ {s}] \in [Node -> SUBSET Hash]
  BY Zenon
<1> QED BY <1>1, <1>2, Zenon

(* The state stays well formed: TypeOK, over every operation of sporks. *)
LEMMA TypeInductive ==
    ASSUME Counting
    PROVE  Spec => []TypeOK
<1>1. Init => TypeOK
  <2> SUFFICES ASSUME Init PROVE TypeOK
    BY Zenon
  <2>1. chan \in [Link -> Seq(Message)]
    BY DEF Init
  <2>2. setAskFor \in [Node -> [Node -> SUBSET Hash]]
        /\ mapAskFor \in [Node -> [Node -> SUBSET Hash]]
    BY Zenon DEF Init
  <2>3. mapSporksActive \in [Node -> [SporkID -> SporkMessage \cup {NoSpork}]]
    BY Zenon DEF Init
  <2> QED BY <2>1, <2>2, <2>3, Zenon DEF Init, TypeOK
<1>2. TypeOK /\ [Next]_vars => TypeOK'
  <2> SUFFICES ASSUME TypeOK, [Next]_vars PROVE TypeOK'
    BY Zenon
  <2> USE DEF TypeOK
  <2>1. ASSUME NEW n \in Node, NEW id \in SporkID, NEW v \in Value, NEW pad \in Pad,
               UpdateSpork(n, id, v, pad)
        PROVE  TypeOK'
    <3> DEFINE msg == [id |-> id, value |-> v, time |-> GetTime(n)]
    <3>1. msg \in SporkMessage /\ GetHash(msg, pad) \in Hash
      BY SporkAssumption DEF SporkMessage, GetTime, GetHash, Hash
    <3>2. Inv(GetHash(msg, pad)) \in Seq(Message)
      BY <3>1 DEF Inv, Message
    <3> HIDE DEF msg
    <3>3. chan' \in [Link -> Seq(Message)]
      BY <2>1, <3>2 DEF UpdateSpork, msg
    <3> QED BY <2>1, <3>1, <3>3, Zenon DEF UpdateSpork, msg, nodeVars, askVars, syncVars
  <2>2. ASSUME NEW n \in Node, UpdateSporkStore(n)
        PROVE  TypeOK'
    <3>1. /\ updating[n] \in Hash /\ updating[n].spork \in SporkMessage
          /\ updating[n].spork.id \in SporkID
      BY <2>2, Zenon DEF UpdateSporkStore, SporkMessage, Hash
    <3> QED BY <2>2, <3>1, Zenon DEF UpdateSporkStore, askVars, syncVars
  <2>3. ASSUME NEW n \in Node, NEW p \in Node, ProcessSpork(n, p)
        PROVE  TypeOK'
    <3> DEFINE spork == Head(chan[<<p, n>>]).spork
    <3>1. spork \in SporkMessage /\ spork.id \in SporkID
      BY <2>3, ReceivedSpork, Zenon DEF ProcessSpork, SporkMessage
    <3>2. /\ \A pad \in Pad :
                 /\ GetHash(spork, pad) \in Hash
                 /\ [q \in Node |-> Inv(GetHash(spork, pad))] \in [Node -> Seq(Message)]
          /\ Silent \in [Node -> Seq(Message)]
      <4> HIDE DEF spork
      <4>1. ASSUME NEW pad \in Pad
            PROVE  /\ GetHash(spork, pad) \in Hash
                   /\ Inv(GetHash(spork, pad)) \in Seq(Message)
        <5>1. GetHash(spork, pad) \in Hash
          BY <3>1, Zenon DEF GetHash, Hash
        <5> QED BY <5>1 DEF Inv, Message
      <4> QED BY <4>1 DEF Silent
    <3>3. chan' \in [Link -> Seq(Message)]
      BY <2>3, <3>2, ExchangeType, Zenon DEF ProcessSpork
    <3>4. CASE UNCHANGED nodeVars
      BY <2>3, <3>3, <3>4, Zenon DEF ProcessSpork, nodeVars, askVars, syncVars
    <3>5. CASE /\ \E pad \in Pad :
                    mapSporks' = [mapSporks EXCEPT ![n] = @ \cup {GetHash(spork, pad)}]
               /\ mapSporksActive' = [mapSporksActive EXCEPT ![n][spork.id] = spork]
      <4> HIDE DEF spork
      <4>1. mapSporksActive' \in [Node -> [SporkID -> SporkMessage \cup {NoSpork}]]
        BY <3>1, <3>5, Zenon
      <4>2. mapSporks' \in [Node -> SUBSET Hash]
        BY <3>2, <3>5
      <4> QED BY <2>3, <3>3, <4>1, <4>2, Zenon DEF ProcessSpork, askVars, syncVars
    <3> QED BY <2>3, <3>4, <3>5, Zenon DEF ProcessSpork
  <2>12. ASSUME NEW n \in Node, NEW s \in Foreign, ProcessForeignSpork(n, s)
         PROVE  TypeOK'
    <3>1. s \in SporkMessage /\ s.id \in SporkID
      BY SporkAssumption, Zenon DEF SporkMessage
    <3>2. CASE UNCHANGED <<nodeVars, chan>>
      BY <2>12, <3>2, Zenon DEF ProcessForeignSpork, nodeVars, askVars, syncVars
    <3>3. ASSUME NEW pad \in Pad,
                 mapSporks' = [mapSporks EXCEPT ![n] = @ \cup {GetHash(s, pad)}],
                 mapSporksActive' = [mapSporksActive EXCEPT ![n][s.id] = s],
                 chan' = [l \in Link |-> IF l[1] = n THEN chan[l] \o Inv(GetHash(s, pad))
                                         ELSE chan[l]],
                 UNCHANGED banned
          PROVE  TypeOK'
      <4>0. GetHash(s, pad) \in Hash
        BY <3>1, Zenon DEF GetHash, Hash
      <4>1. mapSporksActive' \in [Node -> [SporkID -> SporkMessage \cup {NoSpork}]]
        BY <3>1, <3>3, Zenon
      <4>2. mapSporks' \in [Node -> SUBSET Hash]
        BY <3>3, <4>0, Zenon
      <4>3. Inv(GetHash(s, pad)) \in Seq(Message)
        BY <4>0 DEF Inv, Message
      <4>4. chan' \in [Link -> Seq(Message)]
        BY <3>3, <4>3, SMTT(30)
      <4> QED BY <2>12, <3>3, <4>1, <4>2, <4>4, Zenon DEF ProcessForeignSpork, askVars, syncVars
    <3> QED BY <2>12, <3>2, <3>3, Zenon DEF ProcessForeignSpork
  <2>4. ASSUME NEW n \in Node, NEW p \in Node, ProcessGetSporks(n, p)
        PROVE  TypeOK'
    <3> DEFINE ids == {id \in SporkID : n \notin Lite /\ mapSporksActive[n][id] # NoSpork}
    <3> HIDE DEF ids
    <3>1. PICK order \in [1..Cardinality(ids) -> ids] :
            Exchange(n, p, OnlyTo(p, [i \in 1..Cardinality(ids) |->
                  [type |-> "spork", spork |-> mapSporksActive[n][order[i]]]]))
      BY <2>4, Zenon DEF ProcessGetSporks, ids
    <3> DEFINE answer == [i \in 1..Cardinality(ids) |->
                  [type |-> "spork", spork |-> mapSporksActive[n][order[i]]]]
    <3>2. Cardinality(ids) \in Nat
      BY Zenon DEF Counting, ids
    <3>3. ASSUME NEW i \in 1..Cardinality(ids)
          PROVE  answer[i] \in Message
      <4>1. order[i] \in ids
        BY Zenon
      <4>2. mapSporksActive[n][order[i]] \in SporkMessage
        BY <4>1 DEF ids
      <4> QED BY <4>2, Zenon DEF Message
    <3>4. answer \in Seq(Message)
      <4>1. answer \in [1..Cardinality(ids) -> Message]
        BY <3>3, Zenon
      <4> HIDE DEF answer
      <4>2. PICK k \in Nat : answer \in [1..k -> Message]
        BY <3>2, <4>1, Zenon
      <4> QED BY <4>2, SMTT(30)
    <3> HIDE DEF answer
    <3>5. OnlyTo(p, answer) \in [Node -> Seq(Message)]
      BY <3>4, SMTT(30) DEF OnlyTo
    <3>6. chan' \in [Link -> Seq(Message)]
      BY <2>4, <3>1, <3>5, ExchangeType, Zenon DEF ProcessGetSporks, answer
    <3> QED BY <2>4, <3>6, Zenon DEF ProcessGetSporks, nodeVars, askVars, syncVars
  <2>5. ASSUME NEW n \in Node, NEW p \in Node, ProcessInv(n, p)
        PROVE  TypeOK'
    <3>1. Head(chan[<<p, n>>]).hash \in Hash
      BY <2>5, ReceivedHash, Zenon DEF ProcessInv
    <3>2. chan' \in [Link -> Seq(Message)]
      <4>1. Silent \in [Node -> Seq(Message)]
        BY DEF Silent
      <4> QED BY <2>5, <4>1, ExchangeType, Zenon DEF ProcessInv
    <3>3. setAskFor' \in [Node -> [Node -> SUBSET Hash]]
          /\ mapAskFor' \in [Node -> [Node -> SUBSET Hash]]
      <4> DEFINE hash == Head(chan[<<p, n>>]).hash
      <4>1. CASE UNCHANGED askVars
        BY <4>1, Zenon DEF askVars
      <4>2. CASE /\ setAskFor' = [setAskFor EXCEPT ![n][p] = @ \cup {hash}]
                 /\ mapAskFor' = [mapAskFor EXCEPT ![n][p] = @ \cup {hash}]
        <5>1. hash \in Hash
          BY <3>1, Zenon
        <5> HIDE DEF hash
        <5> QED BY <4>2, <5>1, AskForType, Zenon
      <4> QED BY <2>5, <4>1, <4>2, Zenon DEF ProcessInv
    <3> QED BY <2>5, <3>2, <3>3, Zenon DEF ProcessInv, nodeVars, syncVars
  <2>6. ASSUME NEW n \in Node, NEW p \in Node, NEW s \in mapAskFor[n][p],
               SendGetData(n, p, s)
        PROVE  TypeOK'
    <3>1. [type |-> "getdata", hash |-> s] \in Message
      BY SMTT(30) DEF Message
    <3>2. chan' \in [Link -> Seq(Message)]
      <4>1. Append(chan[<<n, p>>], [type |-> "getdata", hash |-> s]) \in Seq(Message)
        BY <2>6, <3>1 DEF SendGetData
      <4> QED BY <2>6, <4>1, ZenonT(60) DEF SendGetData
    <3>3. setAskFor' \in [Node -> [Node -> SUBSET Hash]]
          /\ mapAskFor' \in [Node -> [Node -> SUBSET Hash]]
      <4>1. s \in Hash
        BY SMTT(30)
      <4>2. /\ mapAskFor' = [mapAskFor EXCEPT ![n][p] = @ \ {s}]
            /\ \/ setAskFor' = [setAskFor EXCEPT ![n][p] = @ \ {s}]
               \/ setAskFor' = setAskFor
        BY <2>6, Zenon DEF SendGetData
      <4>3. mapAskFor' \in [Node -> [Node -> SUBSET Hash]]
        BY <4>1, <4>2, AskForType, Zenon
      <4>4. CASE setAskFor' = [setAskFor EXCEPT ![n][p] = @ \ {s}]
        BY <4>1, <4>3, <4>4, AskForType, Zenon
      <4> QED BY <4>2, <4>3, <4>4, Zenon
    <3> QED BY <2>6, <3>2, <3>3, Zenon DEF SendGetData, nodeVars, syncVars
  <2>7. ASSUME NEW n \in Node, NEW p \in Node, ProcessGetData(n, p)
        PROVE  TypeOK'
    <3> DEFINE hash == Head(chan[<<p, n>>]).hash
               out == OnlyTo(p, IF hash \in mapSporks[n]
                                THEN <<[type |-> "spork", spork |-> hash.spork]>> ELSE <<>>)
    <3>1. hash \in Hash /\ hash.spork \in SporkMessage
      BY <2>7, ReceivedHash, Zenon DEF ProcessGetData, Hash
    <3>2. missed \in BOOLEAN /\ chan \in [Link -> Seq(Message)]
      BY Zenon
    <3> HIDE DEF TypeOK
    <3>3. out \in [Node -> Seq(Message)]
      <4>1. [type |-> "spork", spork |-> hash.spork] \in Message
        BY <3>1, Zenon DEF Message
      <4> HIDE DEF hash
      <4>2. <<[type |-> "spork", spork |-> hash.spork]>> \in Seq(Message) /\ <<>> \in Seq(Message)
        BY <4>1
      <4> QED BY <4>2, Zenon DEF OnlyTo
    <3>4. Exchange(n, p, out) /\ Receives(n, p, "getdata")
      BY <2>7, Zenon DEF ProcessGetData
    <3>5. missed' = (missed \/ hash \notin mapSporks[n])
      BY <2>7, Zenon DEF ProcessGetData
    <3>6. UNCHANGED <<now, signed, nodeVars, updating, askVars, syncVars, banned>>
      BY <2>7, Zenon DEF ProcessGetData
    <3> HIDE DEF out, hash
    <3>7. chan' \in [Link -> Seq(Message)]
      BY <3>2, <3>3, <3>4, ExchangeType, Zenon
    <3>8. missed' \in BOOLEAN
      BY <3>2, <3>5, Zenon
    <3> QED BY <3>6, <3>7, <3>8, Zenon DEF TypeOK, nodeVars, askVars, syncVars
  <2>8. ASSUME NEW n \in Node, AskSporks(n)
        PROVE  TypeOK'
    <3> DEFINE ask == Peers(n) \ mnsync[n]
    <3>1. Cardinality(ask) \in Nat /\ ask \subseteq Node
      BY Zenon DEF Counting, Peers
    <3>2. [type |-> "getsporks"] \in Message
      BY Zenon DEF Message
    <3> HIDE DEF ask
    <3>3. chan' \in [Link -> Seq(Message)]
      BY <2>8, <3>2, SMTT(30) DEF AskSporks, ask
    <3> QED BY <2>8, <3>1, <3>3 DEF AskSporks, ask, nodeVars, askVars
  <2>9. ASSUME NEW n \in Node, FinishIBD(n)
        PROVE  TypeOK'
    BY <2>9, Zenon DEF FinishIBD, nodeVars, askVars
  <2>10. CASE Tick
    BY <2>10, SMTT(30) DEF Tick, nodeVars, askVars, syncVars
  <2>11. CASE UNCHANGED vars
    BY <2>11, Zenon DEF vars, nodeVars, askVars, syncVars
  <2> HIDE DEF TypeOK
  <2> QED BY <2>1, <2>2, <2>3, <2>4, <2>5, <2>6, <2>7, <2>8, <2>9, <2>10, <2>11,
             <2>12, Zenon DEF Next
<1> QED BY <1>1, <1>2, PTL DEF Spec

----------------------------------------------------------------------------
(* Whatever is in force at a node was signed, is filed under its own id and  *)
(* can be served: ProcessSpork checks the signature before it stores, and    *)
(* UpdateSpork stores what it signed, and both fill mapSporks as well.  The  *)
(* invariant needs that an update under way was signed too.                  *)
UpdatingIsSigned == \A n \in Node : updating[n] # NoSpork => updating[n].spork \in signed

(* What both uses of the spork handler do with a spork they accept. *)
LEMMA StoreSigned ==
    ASSUME TypeOK, ActiveIsSignedAndServed, UpdatingIsSigned,
           NEW n \in Node, NEW s \in SporkMessage, s.id \in SporkID, CheckSignature(s),
           NEW pad \in Pad,
           mapSporks' = [mapSporks EXCEPT ![n] = @ \cup {GetHash(s, pad)}],
           mapSporksActive' = [mapSporksActive EXCEPT ![n][s.id] = s],
           signed' = signed, updating' = updating
    PROVE  ActiveIsSignedAndServed' /\ UpdatingIsSigned'
<1>1. ASSUME NEW m \in Node, NEW id \in SporkID, mapSporksActive'[m][id] # NoSpork
      PROVE  LET t == mapSporksActive'[m][id]
             IN  t \in signed /\ t.id = id /\ \E hash \in mapSporks'[m] : hash.spork = t
  <2>1. CASE m = n /\ id = s.id
    <3>1. GetHash(s, pad) \in mapSporks'[m] /\ GetHash(s, pad).spork = s
      BY <2>1, Zenon DEF TypeOK, GetHash
    <3> QED BY <2>1, <3>1, Zenon DEF TypeOK, CheckSignature
  <2>2. CASE ~(m = n /\ id = s.id)
    <3>1. mapSporksActive'[m][id] = mapSporksActive[m][id] /\ mapSporks[m] \subseteq mapSporks'[m]
      BY <2>2, Zenon DEF TypeOK
    <3> QED BY <1>1, <3>1, SMTT(30) DEF ActiveIsSignedAndServed
  <2> QED BY <2>1, <2>2, Zenon
<1> QED BY <1>1, SMTT(30) DEF ActiveIsSignedAndServed, UpdatingIsSigned

(* Both are kept by every step: the handlers that store check or sign first. *)
LEMMA ActiveInductive ==
    ASSUME Counting
    PROVE  Spec => [](ActiveIsSignedAndServed /\ UpdatingIsSigned)
<1> DEFINE Inv1 == ActiveIsSignedAndServed /\ UpdatingIsSigned
<1>1. Init => Inv1
  BY DEF Init, ActiveIsSignedAndServed, UpdatingIsSigned
<1>2. TypeOK /\ Inv1 /\ [Next]_vars => Inv1'
  <2> SUFFICES ASSUME TypeOK, Inv1, [Next]_vars PROVE Inv1'
    BY Zenon
  <2> USE DEF ActiveIsSignedAndServed, UpdatingIsSigned
  <2>1. ASSUME NEW n \in Node, NEW id \in SporkID, NEW v \in Value, NEW pad \in Pad,
               UpdateSpork(n, id, v, pad)
        PROVE  Inv1'
    BY <2>1, SMTT(30) DEF UpdateSpork, nodeVars, TypeOK, GetHash
  <2>2. ASSUME NEW n \in Node, UpdateSporkStore(n)
        PROVE  Inv1'
    <3> DEFINE s == updating[n].spork
    <3>1. /\ updating[n] \in Hash /\ updating[n] = GetHash(s, updating[n].pad)
          /\ updating[n].pad \in Pad /\ s \in SporkMessage /\ s.id \in SporkID
          /\ s \in signed
      BY <2>2, SMTT(30) DEF UpdateSporkStore, SporkMessage, TypeOK, Hash, GetHash
    <3>2. ASSUME NEW m \in Node, NEW id \in SporkID, mapSporksActive'[m][id] # NoSpork
          PROVE  LET t == mapSporksActive'[m][id]
                 IN  t \in signed /\ t.id = id /\ \E hash \in mapSporks'[m] : hash.spork = t
      <4>1. CASE m = n /\ id = s.id
        <5>1. updating[n] \in mapSporks'[m] /\ mapSporksActive'[m][id] = s
          BY <2>2, <3>1, <4>1, SMTT(30) DEF UpdateSporkStore, TypeOK
        <5> QED BY <3>1, <4>1, <5>1, Zenon
      <4>2. CASE ~(m = n /\ id = s.id)
        <5>1. /\ mapSporksActive'[m][id] = mapSporksActive[m][id]
              /\ mapSporks[m] \subseteq mapSporks'[m]
          BY <2>2, <3>1, <4>2, SMTT(30) DEF UpdateSporkStore, TypeOK
        <5> QED BY <3>2, <5>1, SMTT(30)
      <4> QED BY <4>1, <4>2, Zenon
    <3>3. signed' = signed /\ UpdatingIsSigned'
      BY <2>2, SMTT(30) DEF UpdateSporkStore, TypeOK
    <3> QED BY <3>2, <3>3, SMTT(30)
  <2>3. ASSUME NEW n \in Node, NEW p \in Node, ProcessSpork(n, p)
        PROVE  Inv1'
    <3> DEFINE spork == Head(chan[<<p, n>>]).spork
    <3>1. spork \in SporkMessage /\ spork.id \in SporkID
      BY <2>3, ReceivedSpork, Zenon DEF ProcessSpork, SporkMessage, TypeOK
    <3>2. CASE UNCHANGED nodeVars
      BY <2>3, <3>2 DEF ProcessSpork, nodeVars
    <3>3. CASE /\ \E pad \in Pad :
                    mapSporks' = [mapSporks EXCEPT ![n] = @ \cup {GetHash(spork, pad)}]
               /\ mapSporksActive' = [mapSporksActive EXCEPT ![n][spork.id] = spork]
               /\ CheckSignature(spork)
      <4>1. signed' = signed /\ updating' = updating
        BY <2>3, Zenon DEF ProcessSpork
      <4> HIDE DEF spork
      <4>2. PICK pad \in Pad :
              mapSporks' = [mapSporks EXCEPT ![n] = @ \cup {GetHash(spork, pad)}]
        BY <3>3, Zenon
      <4> QED BY <3>1, <3>3, <4>1, <4>2, StoreSigned, Zenon
    <3> QED BY <2>3, <3>2, <3>3, Zenon DEF ProcessSpork
  <2>6. ASSUME NEW n \in Node, NEW s \in Foreign, ProcessForeignSpork(n, s)
        PROVE  Inv1'
    <3>1. s \in SporkMessage /\ s.id \in SporkID
      BY SporkAssumption, SMTT(30) DEF SporkMessage
    <3>2. signed' = signed /\ updating' = updating
      BY <2>6, Zenon DEF ProcessForeignSpork
    <3>3. CASE UNCHANGED <<nodeVars, chan>>
      BY <3>2, <3>3, SMTT(30) DEF nodeVars
    <3>4. CASE CheckSignature(s)
      BY <2>6, <3>1, <3>2, <3>4, StoreSigned, SMTT(30) DEF ProcessForeignSpork
    <3> QED BY <2>6, <3>3, <3>4, Zenon DEF ProcessForeignSpork
  <2>4. CASE UNCHANGED <<signed, nodeVars, updating>>
    BY <2>4 DEF nodeVars
  <2>5. ASSUME NEW n \in Node, NEW p \in Node,
               \/ ProcessGetSporks(n, p) \/ ProcessInv(n, p) \/ ProcessGetData(n, p)
               \/ \E s \in mapAskFor[n][p] : SendGetData(n, p, s)
               \/ AskSporks(n) \/ FinishIBD(n) \/ Tick
        PROVE  UNCHANGED <<signed, nodeVars, updating>>
    BY <2>5, Zenon DEF ProcessGetSporks, ProcessInv, ProcessGetData, SendGetData, AskSporks,
                FinishIBD, Tick
  <2> QED BY <2>1, <2>2, <2>3, <2>4, <2>5, <2>6, Zenon DEF Next, vars
<1> QED BY <1>1, <1>2, TypeInductive, PTL DEF Spec

(* With one holder of the master key, no node ever goes back to a spork      *)
(* signed earlier (NeverBackInTime).  UpdateSpork does not compare times, so *)
(* the proof rests on the clock of the signer: nothing signed is later than  *)
(* the signer's clock, and nothing is signed later than an update under way. *)
SignerAhead ==
    \A n \in Signer : \A s \in signed :
        /\ s.time <= GetTime(n)
        /\ updating[n] # NoSpork => s.time <= updating[n].spork.time

OnlySignersUpdate == \A n \in Node : updating[n] # NoSpork => n \in Signer

(* A spork that was not seen is signed later than the one it replaces. *)
LEMMA NewerIsLater ==
    ASSUME TypeOK, ActiveIsSignedAndServed,
           NEW m \in Node, NEW s \in SporkMessage, s.id \in SporkID, ~Seen(m, s),
           mapSporksActive' = [mapSporksActive EXCEPT ![m][s.id] = s],
           NEW n \in Node, NEW id \in SporkID, mapSporksActive[n][id] # NoSpork
    PROVE  /\ mapSporksActive'[n][id] # NoSpork
           /\ mapSporksActive'[n][id].time >= mapSporksActive[n][id].time
<1>1. mapSporksActive[n][id] \in SporkMessage /\ mapSporksActive[n][id].time \in Int
  BY SMTT(30) DEF TypeOK, SporkMessage
<1>2. s # NoSpork /\ s.time \in Int
  BY SporkAssumption, Zenon DEF SporkMessage
<1>3. CASE n = m /\ id = s.id
  BY <1>1, <1>2, <1>3 DEF Seen, TypeOK
<1>4. CASE ~(n = m /\ id = s.id)
  <2>1. mapSporksActive'[n][id] = mapSporksActive[n][id]
    BY <1>4 DEF TypeOK
  <2> QED BY <1>1, <2>1
<1> QED BY <1>3, <1>4, Zenon

LaterInForce ==
    \A n \in Node, id \in SporkID :
        LET s == mapSporksActive[n][id]
            t == mapSporksActive'[n][id]
        IN  s # NoSpork => t # NoSpork /\ t.time >= s.time

(* Clocks and the times of sporks are integers. *)
LEMMA Clocks ==
    ASSUME TypeOK
    PROVE  /\ now \in Int
           /\ \A n \in Node : Skew[n] \in Int /\ GetTime(n) \in Int
           /\ \A s \in signed : s.time \in Int
<1>1. now \in Nat /\ signed \in SUBSET SporkMessage
  BY Zenon DEF TypeOK
<1>2. \A n \in Node : Skew[n] \in Int
  BY SporkAssumption, Zenon
<1> QED BY <1>1, <1>2, SMTT(30) DEF GetTime, SporkMessage

(* The clock invariant is kept by every step. *)
LEMMA SignerStep ==
    ASSUME NEW a, Signer = {a}, TypeOK, SignerAhead, OnlySignersUpdate, [Next]_vars
    PROVE  SignerAhead' /\ OnlySignersUpdate'
<1> DEFINE Inv2 == SignerAhead /\ OnlySignersUpdate
<1> USE DEF SignerAhead, OnlySignersUpdate, GetTime
<1>0. /\ a \in Node /\ Skew[a] \in Int /\ now \in Int /\ \A s \in signed : s.time \in Int
      /\ updating \in [Node -> Hash \cup {NoSpork}]
  <2>1. a \in Node
    BY SporkAssumption, Zenon
  <2> QED BY <2>1, Clocks, Zenon DEF TypeOK
<1>1. ASSUME NEW n \in Node, NEW id \in SporkID, NEW v \in Value, NEW pad \in Pad,
             UpdateSpork(n, id, v, pad)
      PROVE  Inv2'
  <2> DEFINE msg == [id |-> id, value |-> v, time |-> GetTime(n)]
  <2>1. /\ n \in Signer /\ now' = now /\ signed' = signed \cup {msg}
        /\ updating' = [updating EXCEPT ![n] = GetHash(msg, pad)]
    BY <1>1, Zenon DEF UpdateSpork
  <2>2. n = a /\ msg.time = now + Skew[a]
    BY <2>1, Zenon
  <2>3. GetHash(msg, pad).spork = msg /\ updating'[a] = GetHash(msg, pad)
    BY <1>0, <2>1, <2>2, Zenon DEF GetHash
  <2>4. \A m \in Node \ {a} : updating'[m] = updating[m]
    BY <1>0, <2>1, <2>2, Zenon
  <2>5. \A s \in signed' : s.time \in Int /\ s.time <= now + Skew[a]
    <3> HIDE DEF msg
    <3> QED BY <1>0, <2>1, <2>2, SMTT(30)
  <2>6. SignerAhead'
    <3> HIDE DEF msg
    <3> QED BY <2>1, <2>2, <2>3, <2>5, SMTT(30)
  <2>7. OnlySignersUpdate'
    BY <2>2, <2>4, Zenon
  <2> QED BY <2>6, <2>7, Zenon
<1>2. ASSUME NEW n \in Node, UpdateSporkStore(n)
      PROVE  Inv2'
  <2>1. now' = now /\ signed' = signed /\ updating' = [updating EXCEPT ![n] = NoSpork]
    BY <1>2, Zenon DEF UpdateSporkStore
  <2>2. \A m \in Node : updating'[m] = NoSpork \/ updating'[m] = updating[m]
    BY <1>0, <2>1, Zenon
  <2> QED BY <1>0, <2>1, <2>2, SMTT(30)
<1>3. CASE Tick
  BY <1>0, <1>3 DEF Tick
<1>4. CASE UNCHANGED <<now, signed, updating>>
  BY <1>4, Zenon
<1>5. ASSUME NEW n \in Node, NEW p \in Node,
             \/ ProcessSpork(n, p) \/ \E s \in Foreign : ProcessForeignSpork(n, s)
             \/ ProcessGetSporks(n, p) \/ ProcessInv(n, p) \/ ProcessGetData(n, p)
             \/ \E s \in mapAskFor[n][p] : SendGetData(n, p, s)
             \/ AskSporks(n) \/ FinishIBD(n)
      PROVE  UNCHANGED <<now, signed, updating>>
  BY <1>5, ZenonT(60) DEF ProcessSpork, ProcessForeignSpork, ProcessGetSporks, ProcessInv,
               ProcessGetData, SendGetData,
              AskSporks, FinishIBD
<1> QED BY <1>1, <1>2, <1>3, <1>4, <1>5, Zenon DEF Next, vars

(* With it no step goes back in time. *)
LEMMA LaterStep ==
    ASSUME NEW a, Signer = {a}, TypeOK, SignerAhead, OnlySignersUpdate,
           ActiveIsSignedAndServed, [Next]_vars
    PROVE  LaterInForce
<1> DEFINE Step == LaterInForce
<1> USE DEF LaterInForce
<1>0. \A s \in signed : s.time \in Int
  BY Zenon DEF TypeOK, SporkMessage
<1>1. CASE UNCHANGED mapSporksActive
  <2>1. ASSUME NEW n \in Node, NEW id \in SporkID, mapSporksActive[n][id] # NoSpork
        PROVE  mapSporksActive[n][id].time \in Int
    BY <1>0, <2>1, Zenon DEF ActiveIsSignedAndServed
  <2> QED BY <1>1, <2>1
<1>2. ASSUME NEW m \in Node, UpdateSporkStore(m)
      PROVE  Step
  <2>1. m = a /\ updating[m].spork \in SporkMessage /\ updating[m].spork.id \in SporkID
    BY <1>2, Zenon DEF UpdateSporkStore, OnlySignersUpdate, TypeOK, SporkMessage, Hash
  <2>2. \A s \in signed : s.time <= updating[m].spork.time
    BY <1>2, <2>1, Zenon DEF SignerAhead, UpdateSporkStore
  <2>3. ASSUME NEW n \in Node, NEW id \in SporkID, mapSporksActive[n][id] # NoSpork
        PROVE  /\ mapSporksActive'[n][id] # NoSpork
               /\ mapSporksActive'[n][id].time >= mapSporksActive[n][id].time
    <3>1. mapSporksActive[n][id] \in signed
      BY <2>3, Zenon DEF ActiveIsSignedAndServed
    <3>2. mapSporksActive'[n][id] = mapSporksActive[n][id]
          \/ mapSporksActive'[n][id] = updating[m].spork
      BY <1>2, <2>1, SMTT(30) DEF UpdateSporkStore, TypeOK
    <3>3. updating[m].spork # NoSpork /\ updating[m].spork.time \in Int
      BY <2>1, SporkAssumption, Zenon DEF SporkMessage
    <3> QED BY <1>0, <2>2, <2>3, <3>1, <3>2, <3>3, SMTT(30)
  <2> QED BY <2>3, Zenon
<1>3. ASSUME NEW m \in Node, NEW p \in Node, ProcessSpork(m, p),
             mapSporksActive' # mapSporksActive
      PROVE  Step
  <2> DEFINE spork == Head(chan[<<p, m>>]).spork
  <2>1. spork \in SporkMessage /\ spork.id \in SporkID
    BY <1>3, ReceivedSpork, Zenon DEF ProcessSpork, SporkMessage, TypeOK
  <2>2. /\ ~Seen(m, spork)
        /\ mapSporksActive' = [mapSporksActive EXCEPT ![m][spork.id] = spork]
    BY <1>3, Zenon DEF ProcessSpork, nodeVars
  <2> HIDE DEF spork
  <2> QED BY <1>0, <2>1, <2>2, NewerIsLater, Zenon
<1>5. ASSUME NEW m \in Node, NEW s \in Foreign, ProcessForeignSpork(m, s),
             mapSporksActive' # mapSporksActive
      PROVE  Step
  <2>1. s \in SporkMessage /\ s.id \in SporkID
    BY SporkAssumption, Zenon DEF SporkMessage
  <2>2. /\ ~Seen(m, s)
        /\ mapSporksActive' = [mapSporksActive EXCEPT ![m][s.id] = s]
    BY <1>5, Zenon DEF ProcessForeignSpork, nodeVars
  <2> QED BY <1>0, <2>1, <2>2, NewerIsLater, Zenon
<1>4. ASSUME NEW n \in Node, NEW p \in Node,
             \/ \E id \in SporkID, v \in Value, pad \in Pad : UpdateSpork(n, id, v, pad)
             \/ ProcessGetSporks(n, p) \/ ProcessInv(n, p) \/ ProcessGetData(n, p)
             \/ \E s \in mapAskFor[n][p] : SendGetData(n, p, s)
             \/ AskSporks(n) \/ FinishIBD(n) \/ Tick
      PROVE  UNCHANGED mapSporksActive
  BY <1>4, ZenonT(30) DEF UpdateSpork, ProcessGetSporks, ProcessInv, ProcessGetData, SendGetData,
              AskSporks, FinishIBD, Tick, nodeVars
<1>6. CASE UNCHANGED vars
  BY <1>1, <1>6, Zenon DEF vars, nodeVars
<1> QED BY <1>1, <1>2, <1>3, <1>4, <1>5, <1>6, ZenonT(60) DEF Next

----------------------------------------------------------------------------
(* QuietIsSettled: the network does not come to rest on an old spork.        *)
(* The messages, and being in flight on a link.                              *)
InvMsg(h) == [type |-> "inv", hash |-> h]
GetDataMsg(h) == [type |-> "getdata", hash |-> h]
SporkMsg(s) == [type |-> "spork", spork |-> s]
GetSporksMsg == [type |-> "getsporks"]

Has(seq, m) == \E i \in 1 .. Len(seq) : seq[i] = m
InFlight(l, m) == Has(chan[l], m)

Full == Node \ Lite

(* n has the spork s or a newer one, or s is on its way from p. *)
Arrives(n, p, s) == Seen(n, s) \/ InFlight(<<p, n>>, SporkMsg(s))

(* What n asked p for comes: while the hash is in setAskFor, the request is  *)
(* queued or in flight, or was answered.                                     *)
Kept(n, p, h) ==
    \/ h \in mapAskFor[n][p]
    \/ InFlight(<<n, p>>, GetDataMsg(h))
    \/ Arrives(n, p, h.spork)
    \/ missed

AskKept == \A n \in Full : \A p \in Peers(n) : \A h \in setAskFor[n][p] : Kept(n, p, h)

(* n will learn of the spork s from p: p's inv is in flight or has made n    *)
(* ask, or n's getsporks is still to be sent or to be answered.              *)
Owed(n, p, s) ==
    \/ Arrives(n, p, s)
    \/ \E pad \in Pad : \/ InFlight(<<p, n>>, InvMsg(GetHash(s, pad)))
                        \/ GetHash(s, pad) \in setAskFor[n][p]
    \/ p \notin mnsync[n]
    \/ InFlight(<<n, p>>, GetSporksMsg)
    \/ missed

(* p has s in force, or has relayed it and is about to store it. *)
Offers(p, s) ==
    mapSporksActive[p][s.id] = s \/ (updating[p] # NoSpork /\ updating[p].spork = s)

LinkKept ==
    \A n \in Full : \A p \in Peers(n) \ Lite : \A s \in SporkMessage :
        Offers(p, s) => Owed(n, p, s)

(* Only signed sporks travel and are stored, and what a node has stored it   *)
(* has seen; the signer has seen all it signed but the update under way.     *)
SignedInFlight ==
    \A l \in Link : \A s \in SporkMessage : InFlight(l, SporkMsg(s)) => s \in signed

StoredIsSeen == \A n \in Node : \A h \in mapSporks[n] : h.spork \in signed /\ Seen(n, h.spork)

SignerHas == \A n \in Signer : \A s \in signed : Seen(n, s) \/ Offers(n, s)

(* A node asks all its peers at once, and not during initial block download. *)
SyncState ==
    \A n \in Node :
        /\ (mnsync[n] = {} /\ RequestedMasterNodeList[n] = 0) \/ mnsync[n] = Peers(n)
        /\ ibd[n] => mnsync[n] = {}

(* The messages are of four kinds, and each has the parts it was made of. *)
LEMMA MessageKinds ==
    /\ \A h \in Hash : InvMsg(h) \in Message /\ GetDataMsg(h) \in Message
    /\ \A s \in SporkMessage : SporkMsg(s) \in Message
    /\ GetSporksMsg \in Message
    /\ \A h, k : InvMsg(h) = InvMsg(k) => h = k
    /\ \A h, k : GetDataMsg(h) = GetDataMsg(k) => h = k
    /\ \A s, t : SporkMsg(s) = SporkMsg(t) => s = t
    /\ \A h, k : InvMsg(h) # GetDataMsg(k) /\ InvMsg(h) # SporkMsg(k) /\ GetDataMsg(h) # SporkMsg(k)
    /\ \A h : InvMsg(h) # GetSporksMsg /\ GetDataMsg(h) # GetSporksMsg /\ SporkMsg(h) # GetSporksMsg
<1> USE DEF InvMsg, GetDataMsg, SporkMsg, GetSporksMsg
<1>1. /\ \A h \in Hash : InvMsg(h) \in Message /\ GetDataMsg(h) \in Message
      /\ \A s \in SporkMessage : SporkMsg(s) \in Message
      /\ GetSporksMsg \in Message
  BY Zenon DEF Message
<1>2. /\ \A h : InvMsg(h).type = "inv" /\ InvMsg(h).hash = h
      /\ \A h : GetDataMsg(h).type = "getdata" /\ GetDataMsg(h).hash = h
      /\ \A s : SporkMsg(s).type = "spork" /\ SporkMsg(s).spork = s
      /\ GetSporksMsg.type = "getsporks"
  BY Zenon
<1> HIDE DEF InvMsg, GetDataMsg, SporkMsg, GetSporksMsg
<1>3. /\ \A h, k : InvMsg(h) = InvMsg(k) => h = k
      /\ \A h, k : GetDataMsg(h) = GetDataMsg(k) => h = k
      /\ \A s, t : SporkMsg(s) = SporkMsg(t) => s = t
  BY <1>2
<1>4. /\ \A h, k : InvMsg(h) # GetDataMsg(k) /\ InvMsg(h) # SporkMsg(k)
                   /\ GetDataMsg(h) # SporkMsg(k)
      /\ \A h : InvMsg(h) # GetSporksMsg /\ GetDataMsg(h) # GetSporksMsg
                /\ SporkMsg(h) # GetSporksMsg
  BY <1>2
<1> QED BY <1>1, <1>3, <1>4, Zenon

(* What is in a sequence of messages, its tail, and its extension. *)
LEMMA HasParts ==
    ASSUME NEW s \in Seq(Message)
    PROVE  /\ \A t \in Seq(Message) : \A m : Has(s \o t, m) <=> Has(s, m) \/ Has(t, m)
           /\ \A x \in Message : \A m : Has(Append(s, x), m) <=> Has(s, m) \/ m = x
           /\ s # <<>> => \A m : Has(s, m) => m = Head(s) \/ Has(Tail(s), m)
           /\ s # <<>> => \A m : Has(Tail(s), m) => Has(s, m)
           /\ s # <<>> => Has(s, Head(s))
           /\ \A m : ~Has(<<>>, m)
           /\ \A x, m : Has(<<x>>, m) <=> m = x
<1> USE DEF Has
<1>1. ASSUME NEW t \in Seq(Message), NEW m
      PROVE  Has(s \o t, m) <=> Has(s, m) \/ Has(t, m)
  <2>1. /\ Len(s \o t) = Len(s) + Len(t)
        /\ \A i \in 1 .. Len(s) + Len(t) :
              (s \o t)[i] = IF i <= Len(s) THEN s[i] ELSE t[i - Len(s)]
        /\ Len(s) \in Nat /\ Len(t) \in Nat
    BY SMTT(30)
  <2>2. ASSUME NEW i \in 1 .. Len(s \o t)
        PROVE  Has(s, (s \o t)[i]) \/ Has(t, (s \o t)[i])
    <3>1. CASE i <= Len(s)
      BY <2>1, <3>1, SMTT(30)
    <3>2. CASE i > Len(s)
      <4>1. i - Len(s) \in 1 .. Len(t) /\ (s \o t)[i] = t[i - Len(s)]
        BY <2>1, <3>2, SMTT(30)
      <4> QED BY <4>1, Zenon
    <3> QED BY <2>1, <3>1, <3>2, SMTT(30)
  <2>3. ASSUME NEW i \in 1 .. Len(s) PROVE Has(s \o t, s[i])
    BY <2>1
  <2>4. ASSUME NEW i \in 1 .. Len(t) PROVE Has(s \o t, t[i])
    <3>1. Len(s) + i \in 1 .. Len(s) + Len(t) /\ (s \o t)[Len(s) + i] = t[i]
      BY <2>1
    <3> QED BY <2>1, <3>1, Zenon
  <2>5. Has(s \o t, m) => Has(s, m) \/ Has(t, m)
    BY <2>2, Zenon
  <2>6. Has(s, m) \/ Has(t, m) => Has(s \o t, m)
    BY <2>3, <2>4, Zenon
  <2> QED BY <2>5, <2>6, Zenon
<1>2. ASSUME NEW x \in Message, NEW m
      PROVE  Has(Append(s, x), m) <=> Has(s, m) \/ m = x
  <2> DEFINE a == Append(s, x)
             n == Len(s)
  <2>1. n \in Nat /\ Len(a) = n + 1 /\ a[n + 1] = x /\ \A i \in 1 .. n : a[i] = s[i]
    BY SMTT(30)
  <2> HIDE DEF a, n
  <2>2. \A i : i \in 1 .. n + 1 <=> i \in 1 .. n \/ i = n + 1
    BY <2>1, SMTT(30)
  <2>3. Has(a, m) <=> \E i \in 1 .. n + 1 : a[i] = m
    BY <2>1, Zenon
  <2>4. Has(s, m) <=> \E i \in 1 .. n : s[i] = m
    BY Zenon DEF n
  <2>5. Has(a, m) <=> Has(s, m) \/ m = x
    BY <2>1, <2>2, <2>3, <2>4, Zenon
  <2> QED BY <2>5, Zenon DEF a
<1>3. ASSUME s # <<>>, NEW m
      PROVE  /\ Has(s, m) => m = Head(s) \/ Has(Tail(s), m)
             /\ Has(Tail(s), m) => Has(s, m)
  <2>1. /\ Len(Tail(s)) = Len(s) - 1 /\ Len(s) \in Nat /\ Head(s) = s[1]
        /\ \A i \in 1 .. Len(Tail(s)) : Tail(s)[i] = s[i + 1]
    BY <1>3, SMTT(30)
  <2>2. ASSUME NEW i \in 1 .. Len(s), i # 1 PROVE Has(Tail(s), s[i])
    <3>1. i - 1 \in 1 .. Len(Tail(s)) /\ Tail(s)[i - 1] = s[(i - 1) + 1]
      BY <2>1, <2>2
    <3> QED BY <3>1, SMTT(30)
  <2>3. Head(s) = s[1]
    BY <1>3
  <2>4. ASSUME NEW i \in 1 .. Len(Tail(s)) PROVE Has(s, Tail(s)[i])
    <3>1. i + 1 \in 1 .. Len(s) /\ Tail(s)[i] = s[i + 1]
      BY <2>1
    <3> QED BY <3>1, Zenon
  <2> QED BY <2>2, <2>3, <2>4, ZenonT(30)
<1>4. s # <<>> => Has(s, Head(s))
  OBVIOUS
<1>5. \A m : ~Has(<<>>, m)
  OBVIOUS
<1>6. \A x, m : Has(<<x>>, m) <=> m = x
  OBVIOUS
<1> HIDE DEF Has
<1> QED BY <1>1, <1>2, <1>3, <1>4, <1>5, <1>6, Zenon

(* What a handler consumes and what it sends. *)
LEMMA ExchangeFlight ==
    ASSUME chan \in [Link -> Seq(Message)], NEW n \in Node, NEW p \in Node,
           <<p, n>> \in Link, chan[<<p, n>>] # <<>>,
           NEW out \in [Node -> Seq(Message)], Exchange(n, p, out),
           NEW l \in Link, NEW m
    PROVE  /\ InFlight(l, m) => InFlight(l, m)' \/ (l = <<p, n>> /\ m = Head(chan[<<p, n>>]))
           /\ InFlight(l, m)' => InFlight(l, m) \/ (l[1] = n /\ Has(out[l[2]], m))
           /\ l[1] = n /\ Has(out[l[2]], m) => InFlight(l, m)'
<1>1. <<p, n>>[1] # n /\ l[2] \in Node
  BY SporkAssumption, Zenon
<1>2. /\ chan[l] \in Seq(Message) /\ out[l[2]] \in Seq(Message)
      /\ chan'[l] = IF l = <<p, n>> THEN Tail(chan[l])
                    ELSE IF l[1] = n THEN chan[l] \o out[l[2]]
                    ELSE chan[l]
  BY <1>1, Zenon DEF Exchange
<1>3. CASE l = <<p, n>>
  <2>1. chan'[l] = Tail(chan[l]) /\ chan[l] # <<>> /\ l[1] # n
    BY <1>1, <1>2, <1>3, Zenon
  <2> QED BY <1>2, <1>3, <2>1, HasParts, SMTT(30) DEF InFlight
<1>4. CASE l # <<p, n>> /\ l[1] = n
  <2>1. chan'[l] = chan[l] \o out[l[2]]
    BY <1>2, <1>4, Zenon
  <2> QED BY <1>2, <1>4, <2>1, HasParts, SMTT(30) DEF InFlight
<1>5. CASE l # <<p, n>> /\ l[1] # n
  <2>1. chan'[l] = chan[l]
    BY <1>2, <1>5, Zenon
  <2> QED BY <1>5, <2>1, Zenon DEF InFlight
<1> QED BY <1>3, <1>4, <1>5, Zenon

(* A handler that sends nothing. *)
LEMMA SilentParts ==
    Silent \in [Node -> Seq(Message)] /\ \A q \in Node : \A m : ~Has(Silent[q], m)
<1>1. \A q \in Node : Silent[q] = <<>>
  BY DEF Silent
<1>2. <<>> \in Seq(Message) /\ \A m : ~Has(<<>>, m)
  BY DEF Has
<1>3. Silent \in [Node -> Seq(Message)]
  BY <1>2, Zenon DEF Silent
<1> QED BY <1>1, <1>2, <1>3, Zenon

(* What a received message is. *)
LEMMA ReceivedMsg ==
    ASSUME chan \in [Link -> Seq(Message)], NEW n \in Node, NEW p \in Node
    PROVE  LET m == Head(chan[<<p, n>>]) IN
           /\ Receives(n, p, "inv") => m.hash \in Hash /\ m = InvMsg(m.hash)
           /\ Receives(n, p, "getdata") => m.hash \in Hash /\ m = GetDataMsg(m.hash)
           /\ Receives(n, p, "spork") => m.spork \in SporkMessage /\ m = SporkMsg(m.spork)
           /\ Receives(n, p, "getsporks") => m = GetSporksMsg
<1> DEFINE m == Head(chan[<<p, n>>])
<1> SUFFICES ASSUME <<p, n>> \in Link, chan[<<p, n>>] # <<>>
             PROVE  /\ m.type = "inv" => m.hash \in Hash /\ m = InvMsg(m.hash)
                    /\ m.type = "getdata" => m.hash \in Hash /\ m = GetDataMsg(m.hash)
                    /\ m.type = "spork" => m.spork \in SporkMessage /\ m = SporkMsg(m.spork)
                    /\ m.type = "getsporks" => m = GetSporksMsg
  BY Zenon DEF Receives
<1>1. m \in Message
  BY SMTT(30)
<1> HIDE DEF m
<1>2. CASE m \in [type : {"inv", "getdata"}, hash : Hash]
  BY <1>2, SMTT(30) DEF InvMsg, GetDataMsg
<1>3. CASE m \in [type : {"spork"}, spork : SporkMessage]
  BY <1>3, Zenon DEF SporkMsg
<1>4. CASE m \in [type : {"getsporks"}]
  BY <1>4, Zenon DEF GetSporksMsg
<1> QED BY <1>1, <1>2, <1>3, <1>4, Zenon DEF Message

(* What was seen stays seen. *)
Stays == \A n \in Node : \A s \in SporkMessage : Seen(n, s) => Seen(n, s)'

(* It does: a spork in force only gives way to one signed later. *)
LEMMA SeenStays ==
    ASSUME TypeOK, TypeOK', LaterInForce
    PROVE  Stays
<1> SUFFICES ASSUME NEW n \in Node, NEW s \in SporkMessage, Seen(n, s)
             PROVE  Seen(n, s)'
  BY Zenon DEF Stays
<1>1. s.id \in SporkID /\ s.time \in Int
  BY Zenon DEF SporkMessage
<1> DEFINE v == mapSporksActive[n][s.id]
           w == mapSporksActive'[n][s.id]
<1>2. v # NoSpork /\ v.time >= s.time
  BY Zenon DEF Seen
<1>3. w # NoSpork /\ w.time >= v.time
  BY <1>1, <1>2, Zenon DEF LaterInForce
<1>4. v \in SporkMessage /\ w \in SporkMessage
  <2>1. /\ mapSporksActive \in [Node -> [SporkID -> SporkMessage \cup {NoSpork}]]
        /\ mapSporksActive' \in [Node -> [SporkID -> SporkMessage \cup {NoSpork}]]
    BY Zenon DEF TypeOK
  <2>2. v \in SporkMessage \cup {NoSpork} /\ w \in SporkMessage \cup {NoSpork}
    BY <1>1, <2>1, Zenon
  <2> QED BY <1>2, <1>3, <2>2, Zenon
<1>5. v.time \in Int /\ w.time \in Int
  BY <1>4, Zenon DEF SporkMessage
<1> HIDE DEF v, w
<1>6. w.time >= s.time
  BY <1>1, <1>2, <1>3, <1>5
<1> QED BY <1>3, <1>6, Zenon DEF Seen, w

(* getsporks: the requests a node has sent, step by step. *)
LEMMA SyncStep ==
    ASSUME TypeOK, SyncState, [Next]_vars
    PROVE  SyncState'
<1>1. ASSUME NEW n \in Node, AskSporks(n)
      PROVE  SyncState'
  <2>1. mnsync[n] # Peers(n) /\ ~ibd[n]
    BY <1>1, Zenon DEF AskSporks
  <2>2. mnsync[n] = {}
    BY <2>1, Zenon DEF SyncState
  <2>3. /\ mnsync' = [mnsync EXCEPT ![n] = @ \cup (Peers(n) \ mnsync[n])]
        /\ ibd' = ibd
        /\ \A m \in Node \ {n} : RequestedMasterNodeList'[m] = RequestedMasterNodeList[m]
    BY <1>1, SMTT(30) DEF AskSporks, TypeOK
  <2>4. mnsync'[n] = Peers(n) /\ \A m \in Node \ {n} : mnsync'[m] = mnsync[m]
    BY <2>2, <2>3, Zenon DEF TypeOK
  <2> QED BY <2>1, <2>3, <2>4 DEF SyncState
<1>2. ASSUME NEW n \in Node, FinishIBD(n)
      PROVE  SyncState'
  BY <1>2, Zenon DEF FinishIBD, SyncState, TypeOK
<1>3. CASE UNCHANGED syncVars
  BY <1>3, Zenon DEF syncVars, SyncState
<1>4. ASSUME NEW n \in Node, NEW p \in Node,
             \/ \E id \in SporkID, v \in Value, pad \in Pad : UpdateSpork(n, id, v, pad)
             \/ UpdateSporkStore(n) \/ ProcessSpork(n, p)
             \/ \E s \in Foreign : ProcessForeignSpork(n, s)
             \/ ProcessGetSporks(n, p) \/ ProcessInv(n, p) \/ ProcessGetData(n, p)
             \/ \E s \in mapAskFor[n][p] : SendGetData(n, p, s)
      PROVE  SyncState'
  <2>1. UNCHANGED syncVars
    BY <1>4, ZenonT(60) DEF UpdateSpork, UpdateSporkStore, ProcessSpork, ProcessForeignSpork,
               ProcessGetSporks, ProcessInv, ProcessGetData, SendGetData
  <2> QED BY <1>3, <2>1, Zenon
<1>5. CASE Tick \/ UNCHANGED vars
  BY <1>3, <1>5, Zenon DEF vars, Tick
<1>6. CASE Next
  BY <1>1, <1>2, <1>4, <1>5, <1>6, ZenonT(60) DEF Next
<1> QED BY <1>5, <1>6, Zenon

(* A function of two arguments, changed at one point. *)
LEMMA PointChange ==
    ASSUME NEW A, NEW B, NEW C, NEW f \in [A -> [B -> C]], NEW a \in A, NEW b \in B, NEW v,
           NEW g, g = [f EXCEPT ![a][b] = v]
    PROVE  \A x \in A, y \in B : g[x][y] = IF x = a /\ y = b THEN v ELSE f[x][y]
BY Zenon

(* What is in force once n accepts s. *)
PutInForce(n, s) == mapSporksActive' = [mapSporksActive EXCEPT ![n][s.id] = s]

LEMMA InForceAfter ==
    ASSUME TypeOK, NEW n \in Node, NEW s \in SporkMessage, PutInForce(n, s)
    PROVE  /\ mapSporksActive'[n][s.id] = s
           /\ \A m \in Node, id \in SporkID :
                 m # n \/ id # s.id => mapSporksActive'[m][id] = mapSporksActive[m][id]
<1>1. s.id \in SporkID
  BY Zenon DEF SporkMessage
<1>2. PICK C : mapSporksActive \in [Node -> [SporkID -> C]]
  BY Zenon DEF TypeOK
<1>3. \A m \in Node, id \in SporkID :
        mapSporksActive'[m][id] = IF m = n /\ id = s.id THEN s ELSE mapSporksActive[m][id]
  <2>1. PICK id, g : id = s.id /\ g = mapSporksActive'
    BY Zenon
  <2>2. id \in SporkID /\ g = [mapSporksActive EXCEPT ![n][id] = s]
    BY <1>1, <2>1, Zenon DEF PutInForce
  <2>3. \A x \in Node, y \in SporkID :
          g[x][y] = IF x = n /\ y = id THEN s ELSE mapSporksActive[x][y]
    BY <1>2, <2>2, PointChange, ZenonT(60)
  <2> QED BY <2>1, <2>3, Zenon
<1> QED BY <1>1, <1>3, Zenon

(* A spork n accepts: it is in force, so that it is seen. *)
LEMMA AcceptedStore ==
    ASSUME TypeOK, StoredIsSeen, SignerHas, Stays,
           NEW n \in Node, NEW s \in SporkMessage, s \in signed, NEW pad \in Pad,
           mapSporks' = [mapSporks EXCEPT ![n] = @ \cup {GetHash(s, pad)}],
           mapSporksActive' = [mapSporksActive EXCEPT ![n][s.id] = s],
           signed' = signed,
           \A m \in Node, t \in SporkMessage :
               updating[m] # NoSpork /\ updating[m].spork = t =>
                   \/ updating'[m] # NoSpork /\ updating'[m].spork = t
                   \/ m = n /\ t = s
    PROVE  StoredIsSeen' /\ SignerHas'
<1>1. s.id \in SporkID /\ s.time \in Int /\ s # NoSpork
  BY SporkAssumption, Zenon DEF SporkMessage
<1>2. mapSporksActive'[n][s.id] = s
  <2>1. PutInForce(n, s)
    BY Zenon DEF PutInForce
  <2> QED BY <2>1, InForceAfter, Zenon
<1>3. Seen(n, s)'
  BY <1>1, <1>2, SMTT(30) DEF Seen
<1>4. StoredIsSeen'
  <2> SUFFICES ASSUME NEW m \in Node, NEW h \in mapSporks'[m]
               PROVE  h.spork \in signed /\ Seen(m, h.spork)'
    BY Zenon DEF StoredIsSeen
  <2>1. CASE h \in mapSporks[m]
    <3>1. h.spork \in SporkMessage
      <4>1. mapSporks[m] \in SUBSET Hash
        BY Zenon DEF TypeOK
      <4> QED BY <2>1, <4>1, Zenon DEF Hash
    <3> QED BY <2>1, <3>1, ZenonT(30) DEF StoredIsSeen, Stays
  <2>2. CASE h \notin mapSporks[m]
    <3>1. m = n /\ h = GetHash(s, pad)
      BY <2>2, Zenon DEF TypeOK
    <3>2. h.spork = s
      BY <3>1, Zenon DEF GetHash
    <3> QED BY <1>3, <3>1, <3>2, Zenon
  <2> QED BY <2>1, <2>2, Zenon
<1>5. SignerHas'
  <2> SUFFICES ASSUME NEW m \in Signer, NEW t \in signed, ~Seen(m, t)'
               PROVE  Offers(m, t)'
    BY ZenonT(30) DEF SignerHas
  <2>1. m \in Node /\ t \in SporkMessage /\ t.time \in Int /\ t # NoSpork
    BY SporkAssumption, SMTT(30) DEF TypeOK, SporkMessage
  <2>2. ~Seen(m, t)
    BY <2>1, ZenonT(30) DEF Stays
  <2>3. mapSporksActive[m][t.id] # t
    BY <2>1, <2>2 DEF Seen
  <2>4. updating[m] # NoSpork /\ updating[m].spork = t
    BY <2>2, <2>3, Zenon DEF SignerHas, Offers
  <2>5. ~(m = n /\ t = s)
    BY <1>3, Zenon
  <2> QED BY <2>1, <2>4, <2>5, Zenon DEF Offers
<1> QED BY <1>4, <1>5, Zenon

(* A step may take a message from a link, a request from a queue, or put a   *)
(* new spork on offer, if what it was good for is seen to in another way.    *)
SporksPass ==
    \A n \in Full : \A p \in Peers(n) : \A s \in SporkMessage :
        Arrives(n, p, s) => Arrives(n, p, s)'
GetDataPass ==
    \A n \in Full : \A p \in Peers(n) : \A h \in Hash :
        InFlight(<<n, p>>, GetDataMsg(h)) =>
            InFlight(<<n, p>>, GetDataMsg(h))' \/ Arrives(n, p, h.spork)' \/ missed'
InvsPass ==
    \A n \in Full : \A p \in Peers(n) : \A h \in Hash :
        InFlight(<<p, n>>, InvMsg(h)) =>
            \/ InFlight(<<p, n>>, InvMsg(h))' \/ Seen(n, h.spork)'
            \/ h \in setAskFor'[n][p] \/ p \notin mnsync'[n]
GetSporksPass ==
    \A n \in Full : \A p \in Peers(n) \ Lite : \A s \in SporkMessage :
        InFlight(<<n, p>>, GetSporksMsg) /\ Offers(p, s) =>
            InFlight(<<n, p>>, GetSporksMsg)' \/ Arrives(n, p, s)' \/ missed'
AsksPass ==
    \A n \in Full : \A p \in Peers(n) : \A h \in Hash :
        /\ h \in setAskFor[n][p] => h \in setAskFor'[n][p] \/ Seen(n, h.spork)'
        /\ h \in setAskFor'[n][p] => h \in setAskFor[n][p] \/ h \in mapAskFor'[n][p]
        /\ h \in mapAskFor[n][p] =>
               \/ h \in mapAskFor'[n][p] \/ h \notin setAskFor'[n][p]
               \/ InFlight(<<n, p>>, GetDataMsg(h))'
SyncPass ==
    \A n \in Full : \A p \in Peers(n) :
        p \notin mnsync[n] => p \notin mnsync'[n] \/ InFlight(<<n, p>>, GetSporksMsg)'
NewOffersRelayed ==
    \A n \in Full : \A p \in Peers(n) \ Lite : \A s \in SporkMessage :
        Offers(p, s)' /\ ~Offers(p, s) =>
            \E pad \in Pad : InFlight(<<p, n>>, InvMsg(GetHash(s, pad)))'

(* A hash is the spork it was taken of. *)
LEMMA HashParts ==
    /\ \A s \in SporkMessage, pad \in Pad : GetHash(s, pad) \in Hash /\ GetHash(s, pad).spork = s
    /\ \A h \in Hash : h.spork \in SporkMessage /\ h.pad \in Pad /\ h = GetHash(h.spork, h.pad)
BY DEF GetHash, Hash

(* Such a step keeps the two invariants. *)
LEMMA PassesKeep ==
    ASSUME TypeOK, TypeOK', AskKept, LinkKept, missed => missed',
           SporksPass, GetDataPass, InvsPass, GetSporksPass, AsksPass, SyncPass, NewOffersRelayed
    PROVE  AskKept' /\ LinkKept'
<1>1. AskKept'
  <2> SUFFICES ASSUME NEW n \in Full, NEW p \in Peers(n), NEW h \in setAskFor'[n][p]
               PROVE  Kept(n, p, h)'
    BY ZenonT(30) DEF AskKept
  <2>1. h \in Hash /\ h.spork \in SporkMessage
    BY HashParts DEF TypeOK, Full, Peers
  <2>2. CASE h \in mapAskFor'[n][p]
    BY <2>2, Zenon DEF Kept
  <2>3. CASE h \in setAskFor[n][p] /\ h \notin mapAskFor'[n][p]
    <3>1. Kept(n, p, h)
      BY <2>3, Zenon DEF AskKept
    <3>2. CASE h \in mapAskFor[n][p]
      BY <2>1, <2>3, <3>2, Zenon DEF AsksPass, Kept
    <3>3. CASE InFlight(<<n, p>>, GetDataMsg(h))
      BY <2>1, <3>3, Zenon DEF GetDataPass, Kept
    <3>4. CASE Arrives(n, p, h.spork)
      BY <2>1, <3>4, Zenon DEF SporksPass, Kept
    <3>5. CASE missed
      BY <3>5, Zenon DEF Kept
    <3> QED BY <3>1, <3>2, <3>3, <3>4, <3>5, Zenon DEF Kept
  <2> QED BY <2>1, <2>2, <2>3, Zenon DEF AsksPass
<1>2. LinkKept'
  <2> SUFFICES ASSUME NEW n \in Full, NEW p \in Peers(n) \ Lite, NEW s \in SporkMessage,
                      Offers(p, s)'
               PROVE  Owed(n, p, s)'
    BY Zenon DEF LinkKept
  <2>1. CASE ~Offers(p, s)
    BY <2>1, Zenon DEF NewOffersRelayed, Owed
  <2>2. CASE Offers(p, s)
    <3>1. Owed(n, p, s)
      BY <2>2, Zenon DEF LinkKept
    <3>2. CASE Arrives(n, p, s)
      BY <3>2, Zenon DEF SporksPass, Owed
    <3>3. ASSUME NEW pad \in Pad, InFlight(<<p, n>>, InvMsg(GetHash(s, pad)))
          PROVE  Owed(n, p, s)'
      <4>1. GetHash(s, pad) \in Hash /\ GetHash(s, pad).spork = s
        BY HashParts, Zenon
      <4>2. \/ InFlight(<<p, n>>, InvMsg(GetHash(s, pad)))' \/ Seen(n, GetHash(s, pad).spork)'
            \/ GetHash(s, pad) \in setAskFor'[n][p] \/ p \notin mnsync'[n]
        BY <3>3, <4>1, ZenonT(30) DEF InvsPass
      <4> QED BY <4>1, <4>2, Zenon DEF Owed, Arrives
    <3>4. ASSUME NEW pad \in Pad, GetHash(s, pad) \in setAskFor[n][p]
          PROVE  Owed(n, p, s)'
      <4>1. GetHash(s, pad) \in Hash /\ GetHash(s, pad).spork = s
        BY HashParts, Zenon
      <4>2. GetHash(s, pad) \in setAskFor'[n][p] \/ Seen(n, GetHash(s, pad).spork)'
        BY <3>4, <4>1, Zenon DEF AsksPass
      <4> QED BY <4>1, <4>2, Zenon DEF Owed, Arrives
    <3>5. CASE p \notin mnsync[n]
      BY <3>5, Zenon DEF SyncPass, Owed
    <3>6. CASE InFlight(<<n, p>>, GetSporksMsg)
      BY <2>2, <3>6, Zenon DEF GetSporksPass, Owed
    <3>7. CASE missed
      BY <3>7, Zenon DEF Owed
    <3> QED BY <3>1, <3>2, <3>3, <3>4, <3>5, <3>6, <3>7, Zenon DEF Owed
  <2> QED BY <2>1, <2>2, Zenon
<1> QED BY <1>1, <1>2, Zenon

(* What a step leaves alone passes. *)
LEMMA Untouched ==
    /\ UNCHANGED askVars => AsksPass
    /\ UNCHANGED mnsync => SyncPass
    /\ UNCHANGED <<mapSporksActive, updating>> => NewOffersRelayed
<1>1. UNCHANGED askVars => AsksPass
  BY SMTT(30) DEF askVars, AsksPass
<1>2. UNCHANGED mnsync => SyncPass
  BY Zenon DEF SyncPass
<1>3. UNCHANGED <<mapSporksActive, updating>> => NewOffersRelayed
  BY DEF NewOffersRelayed, Offers
<1> QED BY <1>1, <1>2, <1>3, Zenon

(* What was signed, stored and is in force stays as it is. *)
LEMMA RecordsIdle ==
    ASSUME StoredIsSeen, SignerHas, UNCHANGED signed, UNCHANGED nodeVars, UNCHANGED updating
    PROVE  StoredIsSeen' /\ SignerHas'
<1>1. mapSporks' = mapSporks /\ mapSporksActive' = mapSporksActive
  BY Zenon DEF nodeVars
<1>2. StoredIsSeen'
  BY <1>1, Zenon DEF StoredIsSeen, Seen
<1>3. SignerHas'
  BY <1>1, Zenon DEF SignerHas, Seen, Offers
<1> QED BY <1>2, <1>3, Zenon

(* Both ways of a connection are links. *)
LEMMA PeerLinks ==
    ASSUME NEW n \in Full, NEW p \in Peers(n)
    PROVE  /\ n \in Node /\ p \in Node /\ n # p
           /\ <<n, p>> \in Link /\ <<p, n>> \in Link
<1>1. n \in Node /\ p \in Node /\ <<n, p>> \in Link
  BY Zenon DEF Full, Peers
<1>2. <<(<<n, p>>)[2], (<<n, p>>)[1]>> \in Link /\ (<<n, p>>)[1] # (<<n, p>>)[2]
  BY <1>1, SporkAssumption, Zenon
<1> QED BY <1>1, <1>2, Zenon

(* A step loses no message, or at most x of the link l0. *)
NothingLost == \A l \in Link : \A m : InFlight(l, m) => InFlight(l, m)'
LosesOnly(l0, x) ==
    \A l \in Link : \A m : InFlight(l, m) => InFlight(l, m)' \/ (l = l0 /\ m = x)

(* If none is lost, what was under way still is. *)
LEMMA NothingLostPasses ==
    ASSUME Stays, NothingLost
    PROVE  SporksPass /\ GetDataPass /\ InvsPass /\ GetSporksPass
<1>1. SporksPass
  <2> SUFFICES ASSUME NEW n \in Full, NEW p \in Peers(n), NEW s \in SporkMessage,
                      Arrives(n, p, s)
               PROVE  Arrives(n, p, s)'
    BY Zenon DEF SporksPass
  <2> QED BY PeerLinks, Zenon DEF Arrives, Stays, NothingLost
<1>2. GetDataPass
  BY PeerLinks, Zenon DEF GetDataPass, NothingLost
<1>3. InvsPass
  BY PeerLinks, Zenon DEF InvsPass, NothingLost
<1>4. GetSporksPass
  BY PeerLinks, Zenon DEF GetSporksPass, NothingLost
<1> QED BY <1>1, <1>2, <1>3, <1>4, Zenon

(* The loss of one message only matters to its own kind. *)
LEMMA LosesOnlyPasses ==
    ASSUME Stays, NEW l0, NEW x, LosesOnly(l0, x)
    PROVE  /\ (\A s : x # SporkMsg(s)) => SporksPass
           /\ (\A h : x # GetDataMsg(h)) => GetDataPass
           /\ (\A h : x # InvMsg(h)) => InvsPass
           /\ x # GetSporksMsg => GetSporksPass
<1>1. ASSUME \A s : x # SporkMsg(s)
      PROVE  SporksPass
  <2> SUFFICES ASSUME NEW n \in Full, NEW p \in Peers(n), NEW s \in SporkMessage,
                      Arrives(n, p, s)
               PROVE  Arrives(n, p, s)'
    BY Zenon DEF SporksPass
  <2> QED BY <1>1, PeerLinks, Zenon DEF Arrives, Stays, LosesOnly
<1>2. (\A h : x # GetDataMsg(h)) => GetDataPass
  BY PeerLinks, Zenon DEF GetDataPass, LosesOnly
<1>3. (\A h : x # InvMsg(h)) => InvsPass
  BY PeerLinks, Zenon DEF InvsPass, LosesOnly
<1>4. x # GetSporksMsg => GetSporksPass
  BY PeerLinks, Zenon DEF GetSporksPass, LosesOnly
<1> QED BY <1>1, <1>2, <1>3, <1>4, Zenon

(* A handler that sends nothing only takes the message it handles. *)
LEMMA SilentLoses ==
    ASSUME chan \in [Link -> Seq(Message)], NEW n \in Node, NEW p \in Node,
           <<p, n>> \in Link, chan[<<p, n>>] # <<>>, Exchange(n, p, Silent),
           NEW x, x = Head(chan[<<p, n>>])
    PROVE  /\ LosesOnly(<<p, n>>, x)
           /\ \A l \in Link : \A m : InFlight(l, m)' => InFlight(l, m)
<1>1. \A l \in Link : l[2] \in Node
  BY SporkAssumption, Zenon
<1>2. ASSUME NEW l \in Link, NEW m
      PROVE  /\ InFlight(l, m) => InFlight(l, m)' \/ (l = <<p, n>> /\ m = x)
             /\ InFlight(l, m)' => InFlight(l, m)
  <2>1. /\ InFlight(l, m) => InFlight(l, m)' \/ (l = <<p, n>> /\ m = Head(chan[<<p, n>>]))
        /\ InFlight(l, m)' => InFlight(l, m) \/ (l[1] = n /\ Has(Silent[l[2]], m))
    BY SilentParts, ExchangeFlight, Zenon
  <2> QED BY <1>1, <2>1, SilentParts, Zenon
<1> QED BY <1>2, Zenon DEF LosesOnly

(* ProcessInv: an inv is dropped only if the spork was seen, is asked for    *)
(* already, or will come with the getsporks after initial block download.    *)
LEMMA InvSettles ==
    ASSUME TypeOK, TypeOK', AskKept, LinkKept, SignedInFlight, StoredIsSeen, SyncState, Stays,
           NEW n \in Node, NEW p \in Node, ProcessInv(n, p)
    PROVE  AskKept' /\ LinkKept' /\ SignedInFlight'
<1>1. Receives(n, p, "inv") /\ Exchange(n, p, Silent)
  BY Zenon DEF ProcessInv
<1>2. chan \in [Link -> Seq(Message)] /\ <<p, n>> \in Link /\ chan[<<p, n>>] # <<>>
  BY <1>1, Zenon DEF TypeOK, Receives
<1>3. PICK h \in Hash : h = Head(chan[<<p, n>>]).hash /\ Head(chan[<<p, n>>]) = InvMsg(h)
  BY <1>1, <1>2, ReceivedMsg, Zenon
<1>4. /\ UNCHANGED <<signed, nodeVars, updating, syncVars, missed>>
      /\ IF ~AlreadyHave(n, h) /\ ~ibd[n] /\ h \notin setAskFor[n][p]
         THEN /\ setAskFor' = [setAskFor EXCEPT ![n][p] = @ \cup {h}]
              /\ mapAskFor' = [mapAskFor EXCEPT ![n][p] = @ \cup {h}]
         ELSE UNCHANGED askVars
  BY <1>3, Zenon DEF ProcessInv
<1>5. /\ LosesOnly(<<p, n>>, InvMsg(h))
      /\ \A l \in Link : \A m : InFlight(l, m)' => InFlight(l, m)
  BY <1>1, <1>2, <1>3, SilentLoses, Zenon
<1>6. SporksPass /\ GetDataPass /\ GetSporksPass
  <2>1. /\ \A s : InvMsg(h) # SporkMsg(s)
        /\ \A k : InvMsg(h) # GetDataMsg(k)
        /\ InvMsg(h) # GetSporksMsg
    BY MessageKinds, ZenonT(30)
  <2> QED BY <1>5, <2>1, LosesOnlyPasses, SMTT(30)
<1>7. /\ \A m, q \in Node : /\ setAskFor[m][q] \subseteq setAskFor'[m][q]
                            /\ mapAskFor[m][q] \subseteq mapAskFor'[m][q]
                            /\ setAskFor'[m][q] \subseteq setAskFor[m][q] \cup mapAskFor'[m][q]
      /\ AlreadyHave(n, h) \/ ibd[n] \/ h \in setAskFor'[n][p]
  <2>1. CASE UNCHANGED askVars
    BY <1>4, <2>1, SMTT(30) DEF askVars, TypeOK
  <2>2. CASE /\ setAskFor' = [setAskFor EXCEPT ![n][p] = @ \cup {h}]
             /\ mapAskFor' = [mapAskFor EXCEPT ![n][p] = @ \cup {h}]
    BY <2>2 DEF TypeOK
  <2> QED BY <1>4, <2>1, <2>2, Zenon
<1>8. AsksPass
  BY <1>7, PeerLinks, Zenon DEF AsksPass
<1>9. InvsPass
  <2> SUFFICES ASSUME NEW m \in Full, NEW q \in Peers(m), NEW k \in Hash,
                      InFlight(<<q, m>>, InvMsg(k)), ~InFlight(<<q, m>>, InvMsg(k))'
               PROVE  Seen(m, k.spork)' \/ k \in setAskFor'[m][q] \/ q \notin mnsync'[m]
    BY Zenon DEF InvsPass
  <2>1. <<q, m>> \in Link
    BY PeerLinks, Zenon
  <2>2. <<q, m>> = <<p, n>> /\ InvMsg(k) = InvMsg(h)
    BY <1>5, <2>1, SMTT(30) DEF LosesOnly
  <2>3. q = p /\ m = n /\ k = h
    <3>1. k = h
      BY <2>2, MessageKinds, Zenon
    <3> QED BY <2>2, <3>1, Zenon
  <2>4. CASE AlreadyHave(n, h)
    <3>1. Seen(n, h.spork) /\ h.spork \in SporkMessage
      BY <2>4, HashParts, ZenonT(30) DEF AlreadyHave, StoredIsSeen
    <3> QED BY <2>3, <3>1, Zenon DEF Stays
  <2>5. CASE ibd[n]
    <3>1. mnsync[n] = {} /\ mnsync' = mnsync
      BY <1>4, <2>5, Zenon DEF SyncState, syncVars
    <3> QED BY <2>3, <3>1, Zenon
  <2> QED BY <1>7, <2>3, <2>4, <2>5, Zenon
<1>10. SyncPass /\ NewOffersRelayed /\ (missed => missed')
  BY <1>4, Untouched, ZenonT(30) DEF nodeVars, syncVars
<1>11. AskKept' /\ LinkKept'
  BY <1>6, <1>8, <1>9, <1>10, PassesKeep, Zenon
<1>12. SignedInFlight'
  BY <1>4, <1>5, Zenon DEF SignedInFlight
<1> QED BY <1>11, <1>12, Zenon

(* A handler that answers the peer takes the request and sends the answer. *)
LEMMA AnswerFlight ==
    ASSUME chan \in [Link -> Seq(Message)], NEW n \in Node, NEW p \in Node,
           <<p, n>> \in Link, chan[<<p, n>>] # <<>>,
           NEW msgs \in Seq(Message), Exchange(n, p, OnlyTo(p, msgs)),
           NEW x, x = Head(chan[<<p, n>>])
    PROVE  /\ LosesOnly(<<p, n>>, x)
           /\ \A l \in Link : \A m : InFlight(l, m)' => InFlight(l, m) \/ Has(msgs, m)
           /\ \A m : Has(msgs, m) => InFlight(<<n, p>>, m)'
           /\ <<n, p>> \in Link
<1> DEFINE out == OnlyTo(p, msgs)
<1>1. /\ \A l \in Link : l[2] \in Node
      /\ <<n, p>> \in Link /\ <<n, p>>[1] = n /\ <<n, p>>[2] = p
  BY SporkAssumption, Zenon
<1>2. <<>> \in Seq(Message) /\ \A m : ~Has(<<>>, m)
  BY DEF Has
<1>3. out \in [Node -> Seq(Message)] /\ \A q \in Node : out[q] = IF q = p THEN msgs ELSE <<>>
  BY <1>2, Zenon DEF OnlyTo
<1>4. out[p] = msgs /\ \A q \in Node : \A m : Has(out[q], m) => Has(msgs, m)
  BY <1>2, <1>3, Zenon
<1> HIDE DEF out
<1>5. ASSUME NEW l \in Link, NEW m
      PROVE  /\ InFlight(l, m) => InFlight(l, m)' \/ (l = <<p, n>> /\ m = Head(chan[<<p, n>>]))
             /\ InFlight(l, m)' => InFlight(l, m) \/ (l[1] = n /\ Has(out[l[2]], m))
             /\ l[1] = n /\ Has(out[l[2]], m) => InFlight(l, m)'
  BY <1>3, ExchangeFlight, Zenon DEF out
<1>6. LosesOnly(<<p, n>>, x)
  BY <1>5, Zenon DEF LosesOnly
<1>7. \A l \in Link : \A m : InFlight(l, m)' => InFlight(l, m) \/ Has(msgs, m)
  BY <1>1, <1>4, <1>5, Zenon
<1>8. ASSUME NEW m, Has(msgs, m)
      PROVE  InFlight(<<n, p>>, m)'
  <2>1. Has(out[<<n, p>>[2]], m)
    BY <1>1, <1>4, <1>8, Zenon
  <2> QED BY <1>1, <1>5, <2>1, Zenon
<1> QED BY <1>1, <1>6, <1>7, <1>8, ZenonT(30)

(* ProcessGetData: the request is answered with the spork, or it was missed. *)
LEMMA GetDataSettles ==
    ASSUME TypeOK, TypeOK', AskKept, LinkKept, SignedInFlight, StoredIsSeen, Stays,
           NEW n \in Node, NEW p \in Node, ProcessGetData(n, p)
    PROVE  AskKept' /\ LinkKept' /\ SignedInFlight'
<1>1. Receives(n, p, "getdata")
  BY Zenon DEF ProcessGetData
<1>2. chan \in [Link -> Seq(Message)] /\ <<p, n>> \in Link /\ chan[<<p, n>>] # <<>>
  BY <1>1, Zenon DEF TypeOK, Receives
<1>3. PICK h \in Hash : h = Head(chan[<<p, n>>]).hash /\ Head(chan[<<p, n>>]) = GetDataMsg(h)
  BY <1>1, <1>2, ReceivedMsg, Zenon
<1>4. h.spork \in SporkMessage /\ SporkMsg(h.spork) \in Message
  BY HashParts, MessageKinds, Zenon
<1>5. /\ UNCHANGED <<signed, nodeVars, updating, askVars, syncVars>>
      /\ missed' = (missed \/ h \notin mapSporks[n])
      /\ Exchange(n, p, OnlyTo(p, IF h \in mapSporks[n] THEN <<SporkMsg(h.spork)>> ELSE <<>>))
  BY <1>3, ZenonT(30) DEF ProcessGetData, SporkMsg
<1>6. PICK msgs \in Seq(Message) :
        /\ Exchange(n, p, OnlyTo(p, msgs))
        /\ \A m : Has(msgs, m) => h \in mapSporks[n] /\ m = SporkMsg(h.spork)
        /\ h \in mapSporks[n] => Has(msgs, SporkMsg(h.spork))
  <2>1. <<SporkMsg(h.spork)>> \in Seq(Message) /\ <<>> \in Seq(Message)
    BY <1>4, SMTT(30)
  <2>2. /\ \A m : Has(<<SporkMsg(h.spork)>>, m) <=> m = SporkMsg(h.spork)
        /\ \A m : ~Has(<<>>, m)
    BY DEF Has
  <2>3. CASE h \in mapSporks[n]
    BY <1>5, <2>1, <2>2, <2>3, Zenon
  <2>4. CASE h \notin mapSporks[n]
    BY <1>5, <2>1, <2>2, <2>4, Zenon
  <2> QED BY <2>3, <2>4, Zenon
<1>7. /\ LosesOnly(<<p, n>>, GetDataMsg(h))
      /\ \A l \in Link : \A m : InFlight(l, m)' => InFlight(l, m) \/ Has(msgs, m)
      /\ \A m : Has(msgs, m) => InFlight(<<n, p>>, m)'
  BY <1>2, <1>3, <1>6, AnswerFlight, Zenon
<1>8. SporksPass /\ InvsPass /\ GetSporksPass
  <2>1. /\ \A s : GetDataMsg(h) # SporkMsg(s)
        /\ \A k : GetDataMsg(h) # InvMsg(k)
        /\ GetDataMsg(h) # GetSporksMsg
    BY MessageKinds, Zenon
  <2> QED BY <1>7, <2>1, LosesOnlyPasses, SMTT(30)
<1>9. GetDataPass
  <2> SUFFICES ASSUME NEW m \in Full, NEW q \in Peers(m), NEW k \in Hash,
                      InFlight(<<m, q>>, GetDataMsg(k)), ~InFlight(<<m, q>>, GetDataMsg(k))'
               PROVE  Arrives(m, q, k.spork)' \/ missed'
    BY Zenon DEF GetDataPass
  <2>1. <<m, q>> \in Link
    BY PeerLinks, ZenonT(30)
  <2>2. <<m, q>> = <<p, n>> /\ GetDataMsg(k) = GetDataMsg(h)
    BY <1>7, <2>1, SMTT(30) DEF LosesOnly
  <2>3. m = p /\ q = n /\ k = h
    <3>1. k = h
      BY <2>2, MessageKinds, Zenon
    <3> QED BY <2>2, <3>1, Zenon
  <2>4. CASE h \in mapSporks[n]
    <3>1. InFlight(<<n, p>>, SporkMsg(h.spork))'
      BY <1>6, <1>7, <2>4, Zenon
    <3> QED BY <2>3, <3>1, Zenon DEF Arrives
  <2> QED BY <1>5, <2>4, Zenon
<1>10. AsksPass /\ SyncPass /\ NewOffersRelayed /\ (missed => missed')
  BY <1>5, Untouched, Zenon DEF nodeVars, syncVars
<1>11. AskKept' /\ LinkKept'
  BY <1>8, <1>9, <1>10, PassesKeep, Zenon
<1>12. SignedInFlight'
  <2> SUFFICES ASSUME NEW l \in Link, NEW s \in SporkMessage, InFlight(l, SporkMsg(s))'
               PROVE  s \in signed'
    BY Zenon DEF SignedInFlight
  <2>1. CASE InFlight(l, SporkMsg(s))
    BY <1>5, <2>1, Zenon DEF SignedInFlight
  <2>2. CASE Has(msgs, SporkMsg(s))
    <3>1. h \in mapSporks[n] /\ SporkMsg(s) = SporkMsg(h.spork)
      BY <1>6, <2>2, Zenon
    <3>2. s = h.spork
      BY <3>1, MessageKinds, Zenon
    <3> QED BY <1>5, <3>1, <3>2, Zenon DEF StoredIsSeen
  <2> QED BY <1>7, <2>1, <2>2, Zenon
<1> QED BY <1>11, <1>12, Zenon

(* ProcessSpork, "getsporks": the answer holds every spork in force. *)
LEMMA GetSporksAnswer ==
    ASSUME Counting, TypeOK, NEW n \in Node, NEW p \in Node, ProcessGetSporks(n, p)
    PROVE  \E msgs \in Seq(Message) :
             /\ Exchange(n, p, OnlyTo(p, msgs))
             /\ \A m : Has(msgs, m) => \E id \in SporkID : /\ mapSporksActive[n][id] # NoSpork
                                                          /\ m = SporkMsg(mapSporksActive[n][id])
             /\ n \notin Lite =>
                  \A id \in SporkID : mapSporksActive[n][id] # NoSpork =>
                                          Has(msgs, SporkMsg(mapSporksActive[n][id]))
<1> DEFINE ids == {id \in SporkID : n \notin Lite /\ mapSporksActive[n][id] # NoSpork}
           k == Cardinality(ids)
<1> HIDE DEF ids, k
<1>1. PICK order \in [1 .. k -> ids] :
        /\ \A i, j \in DOMAIN order : i < j => order[i] < order[j]
        /\ Exchange(n, p, OnlyTo(p, [i \in 1 .. k |->
               [type |-> "spork", spork |-> mapSporksActive[n][order[i]]]]))
  BY ZenonT(30) DEF ProcessGetSporks, ids, k
<1> DEFINE answer == [i \in 1 .. k |-> SporkMsg(mapSporksActive[n][order[i]])]
<1>2. k \in Nat /\ ids \subseteq Int
  BY SporkAssumption, Zenon DEF Counting, ids, k
<1>3. \A i \in 1 .. k : order[i] \in ids
  BY <1>1, Zenon
<1>4. \A id \in ids : \E i \in 1 .. k : order[i] = id
  <2>1. \A i, j \in 1 .. k : order[i] = order[j] => i = j
    <3> SUFFICES ASSUME NEW i \in 1 .. k, NEW j \in 1 .. k, i < j
                 PROVE  order[i] # order[j]
      BY <1>2, SMTT(30)
    <3>1. order[i] < order[j] /\ order[i] \in Int /\ order[j] \in Int
      BY <1>1, <1>2, <1>3, Zenon
    <3> QED BY <3>1, SMTT(30)
  <2> QED BY <1>1, <2>1, Zenon DEF Counting, ids, k
<1>5. \A i \in 1 .. k : answer[i] = SporkMsg(mapSporksActive[n][order[i]])
  BY Zenon
<1>6. \A i \in 1 .. k : /\ order[i] \in SporkID
                        /\ mapSporksActive[n][order[i]] # NoSpork
                        /\ mapSporksActive[n][order[i]] \in SporkMessage
  BY <1>3 DEF ids, TypeOK
<1>7. answer \in Seq(Message) /\ Len(answer) = k
  <2>1. \A i \in 1 .. k : SporkMsg(mapSporksActive[n][order[i]]) \in Message
    BY <1>6, MessageKinds, Zenon
  <2>2. answer \in [1 .. k -> Message]
    BY <2>1, Zenon
  <2> HIDE DEF answer
  <2> QED BY <1>2, <2>2
<1>8. Exchange(n, p, OnlyTo(p, answer))
  BY <1>1, Zenon DEF SporkMsg
<1> HIDE DEF answer
<1>9. ASSUME NEW m, Has(answer, m)
      PROVE  \E id \in SporkID : /\ mapSporksActive[n][id] # NoSpork
                                 /\ m = SporkMsg(mapSporksActive[n][id])
  <2>1. PICK i \in 1 .. k : answer[i] = m
    BY <1>7, <1>9, Zenon DEF Has
  <2> QED BY <1>5, <1>6, <2>1, Zenon
<1>10. ASSUME n \notin Lite, NEW id \in SporkID, mapSporksActive[n][id] # NoSpork
       PROVE  Has(answer, SporkMsg(mapSporksActive[n][id]))
  <2>1. PICK i \in 1 .. k : order[i] = id
    BY <1>4, <1>10, Zenon DEF ids
  <2> QED BY <1>5, <1>7, <2>1, Zenon DEF Has
<1> QED BY <1>7, <1>8, <1>9, <1>10, Zenon

(* A peer that has asked for everything gets what is on offer, except for an *)
(* update that was relayed and not stored, which was missed.                 *)
LEMMA GetSporksSettles ==
    ASSUME Counting, TypeOK, TypeOK', ActiveIsSignedAndServed, AskKept, LinkKept, SignedInFlight, Stays,
           NEW n \in Node, NEW p \in Node, ProcessGetSporks(n, p)
    PROVE  AskKept' /\ LinkKept' /\ SignedInFlight'
<1>1. /\ Receives(n, p, "getsporks")
      /\ missed' = (missed \/ updating[n] # NoSpork)
      /\ UNCHANGED <<signed, nodeVars, updating, askVars, syncVars>>
  BY Zenon DEF ProcessGetSporks
<1>2. chan \in [Link -> Seq(Message)] /\ <<p, n>> \in Link /\ chan[<<p, n>>] # <<>>
  BY <1>1, Zenon DEF TypeOK, Receives
<1>3. Head(chan[<<p, n>>]) = GetSporksMsg
  BY <1>1, <1>2, ReceivedMsg, Zenon
<1>4. PICK msgs \in Seq(Message) :
        /\ Exchange(n, p, OnlyTo(p, msgs))
        /\ \A m : Has(msgs, m) => \E id \in SporkID : /\ mapSporksActive[n][id] # NoSpork
                                                     /\ m = SporkMsg(mapSporksActive[n][id])
        /\ n \notin Lite =>
             \A id \in SporkID : mapSporksActive[n][id] # NoSpork =>
                                     Has(msgs, SporkMsg(mapSporksActive[n][id]))
  BY GetSporksAnswer, ZenonT(30)
<1>5. /\ LosesOnly(<<p, n>>, GetSporksMsg)
      /\ \A l \in Link : \A m : InFlight(l, m)' => InFlight(l, m) \/ Has(msgs, m)
      /\ \A m : Has(msgs, m) => InFlight(<<n, p>>, m)'
  BY <1>2, <1>3, <1>4, AnswerFlight, Zenon
<1>6. SporksPass /\ InvsPass /\ GetDataPass
  <2>1. /\ \A s : GetSporksMsg # SporkMsg(s)
        /\ \A h : GetSporksMsg # InvMsg(h)
        /\ \A h : GetSporksMsg # GetDataMsg(h)
    BY MessageKinds, ZenonT(30)
  <2> QED BY <1>5, <2>1, LosesOnlyPasses, Zenon
<1>7. GetSporksPass
  <2> SUFFICES ASSUME NEW m \in Full, NEW q \in Peers(m) \ Lite, NEW s \in SporkMessage,
                      InFlight(<<m, q>>, GetSporksMsg), Offers(q, s),
                      ~InFlight(<<m, q>>, GetSporksMsg)'
               PROVE  Arrives(m, q, s)' \/ missed'
    BY Zenon DEF GetSporksPass
  <2>1. <<m, q>> \in Link
    BY PeerLinks, Zenon
  <2>2. <<m, q>> = <<p, n>>
    BY <1>5, <2>1, Zenon DEF LosesOnly
  <2>3. m = p /\ q = n
    BY <2>2, Zenon
  <2>4. CASE mapSporksActive[n][s.id] = s
    <3>1. s # NoSpork /\ s.id \in SporkID
      BY SporkAssumption, Zenon DEF SporkMessage
    <3>2. Has(msgs, SporkMsg(mapSporksActive[n][s.id]))
      BY <1>4, <2>3, <2>4, <3>1, ZenonT(30)
    <3>3. Has(msgs, SporkMsg(s))
      BY <2>4, <3>2, Zenon
    <3>4. InFlight(<<n, p>>, SporkMsg(s))'
      BY <1>5, <3>3, Zenon
    <3> QED BY <2>3, <3>4, Zenon DEF Arrives
  <2> QED BY <1>1, <2>3, <2>4, Zenon DEF Offers
<1>8. AsksPass /\ SyncPass /\ NewOffersRelayed /\ (missed => missed')
  BY <1>1, Untouched, Zenon DEF nodeVars, syncVars
<1>9. AskKept' /\ LinkKept'
  BY <1>6, <1>7, <1>8, PassesKeep, Zenon
<1>10. SignedInFlight'
  <2> SUFFICES ASSUME NEW l \in Link, NEW s \in SporkMessage, InFlight(l, SporkMsg(s))'
               PROVE  s \in signed'
    BY Zenon DEF SignedInFlight
  <2>1. CASE InFlight(l, SporkMsg(s))
    BY <1>1, <2>1, ZenonT(30) DEF SignedInFlight
  <2>2. CASE Has(msgs, SporkMsg(s))
    <3>1. PICK id \in SporkID : /\ mapSporksActive[n][id] # NoSpork
                                /\ SporkMsg(s) = SporkMsg(mapSporksActive[n][id])
      BY <1>4, <2>2, Zenon
    <3>2. s = mapSporksActive[n][id]
      BY <3>1, MessageKinds, Zenon
    <3> QED BY <1>1, <3>1, <3>2, Zenon DEF ActiveIsSignedAndServed
  <2> QED BY <1>5, <2>1, <2>2, Zenon
<1> QED BY <1>9, <1>10, Zenon

(* What is relayed is put in flight on every link. *)
LEMMA RelayFlight ==
    ASSUME chan \in [Link -> Seq(Message)], NEW n \in Node, NEW h \in Hash,
           chan' = [l \in Link |-> IF l[1] = n THEN chan[l] \o Inv(h) ELSE chan[l]]
    PROVE  /\ NothingLost
           /\ \A l \in Link : \A m : InFlight(l, m)' => InFlight(l, m) \/ m = InvMsg(h)
           /\ \A l \in Link : l[1] = n => InFlight(l, InvMsg(h))'
<1>1. Inv(h) \in Seq(Message) /\ \A m : Has(Inv(h), m) <=> m = InvMsg(h)
  <2>1. InvMsg(h) \in Message /\ Inv(h) = <<InvMsg(h)>>
    BY MessageKinds, Zenon DEF Inv, InvMsg
  <2>2. \A m : Has(<<InvMsg(h)>>, m) <=> m = InvMsg(h)
    BY SMTT(30) DEF Has
  <2> QED BY <2>1, <2>2
<1>2. ASSUME NEW l \in Link, NEW m
      PROVE  /\ InFlight(l, m) => InFlight(l, m)'
             /\ InFlight(l, m)' => InFlight(l, m) \/ m = InvMsg(h)
             /\ l[1] = n /\ m = InvMsg(h) => InFlight(l, m)'
  <2>1. chan[l] \in Seq(Message) /\ chan'[l] = IF l[1] = n THEN chan[l] \o Inv(h) ELSE chan[l]
    BY Zenon
  <2>2. Has(chan[l] \o Inv(h), m) <=> Has(chan[l], m) \/ Has(Inv(h), m)
    BY <1>1, <2>1, HasParts, Zenon
  <2>3. CASE l[1] = n
    <3>1. chan'[l] = chan[l] \o Inv(h)
      BY <2>1, <2>3, Zenon
    <3> QED BY <1>1, <2>2, <3>1, Zenon DEF InFlight
  <2>4. CASE l[1] # n
    <3>1. chan'[l] = chan[l]
      BY <2>1, <2>4, Zenon
    <3> QED BY <2>4, <3>1, Zenon DEF InFlight
  <2> QED BY <2>3, <2>4, Zenon
<1> QED BY <1>2, Zenon DEF NothingLost

(* UpdateSpork: the inv goes out with the signature. *)
LEMMA UpdateSettles ==
    ASSUME NEW a, Signer = {a},
           TypeOK, TypeOK', AskKept, LinkKept, SignedInFlight, StoredIsSeen, SignerHas, Stays,
           NEW n \in Node, NEW id \in SporkID, NEW v \in Value, NEW pad \in Pad,
           UpdateSpork(n, id, v, pad)
    PROVE  AskKept' /\ LinkKept' /\ SignedInFlight' /\ StoredIsSeen' /\ SignerHas'
<1>1. PICK msg : msg = [id |-> id, value |-> v, time |-> GetTime(n)]
  BY Zenon
<1>2. /\ n \in Signer /\ updating[n] = NoSpork
      /\ signed' = signed \cup {msg}
      /\ updating' = [updating EXCEPT ![n] = GetHash(msg, pad)]
      /\ chan' = [l \in Link |-> IF l[1] = n THEN chan[l] \o Inv(GetHash(msg, pad)) ELSE chan[l]]
      /\ UNCHANGED <<nodeVars, askVars, syncVars, missed>>
  BY <1>1, ZenonT(30) DEF UpdateSpork
<1>3. msg \in SporkMessage
  <2>1. GetTime(n) \in Int
    BY Clocks, Zenon
  <2> QED BY <1>1, <2>1, SporkAssumption, Zenon DEF SporkMessage
<1>4. PICK h \in Hash : h = GetHash(msg, pad) /\ h.spork = msg
  BY <1>3, HashParts, Zenon
<1>5. h # NoSpork /\ updating'[n] = h /\ \A m \in Node \ {n} : updating'[m] = updating[m]
  <2>1. NoSpork \notin Hash
    BY SporkAssumption, Zenon DEF Hash, SporkMessage
  <2>2. h # NoSpork
    BY <2>1, Zenon
  <2> QED BY <1>2, <1>4, <2>2, Zenon DEF TypeOK
<1>6. chan \in [Link -> Seq(Message)]
  BY Zenon DEF TypeOK
<1>7. /\ NothingLost
      /\ \A l \in Link : \A m : InFlight(l, m)' => InFlight(l, m) \/ m = InvMsg(h)
      /\ \A l \in Link : l[1] = n => InFlight(l, InvMsg(h))'
  BY <1>2, <1>4, <1>6, RelayFlight, Zenon
<1>8. NewOffersRelayed
  <2> SUFFICES ASSUME NEW m \in Full, NEW q \in Peers(m) \ Lite, NEW s \in SporkMessage,
                      Offers(q, s)', ~Offers(q, s)
               PROVE  \E w \in Pad : InFlight(<<q, m>>, InvMsg(GetHash(s, w)))'
    BY Zenon DEF NewOffersRelayed
  <2>1. q \in Node /\ <<q, m>> \in Link /\ <<q, m>>[1] = q
    BY PeerLinks, Zenon
  <2>2. mapSporksActive' = mapSporksActive
    BY <1>2, Zenon DEF nodeVars
  <2>3. updating'[q] # NoSpork /\ updating'[q].spork = s /\ updating'[q] # updating[q]
    BY <2>2, Zenon DEF Offers
  <2>4. q = n /\ s = msg
    BY <1>4, <1>5, <2>1, <2>3, Zenon
  <2>5. InFlight(<<q, m>>, InvMsg(h))'
    BY <1>7, <2>1, <2>4, Zenon
  <2> QED BY <1>4, <2>4, <2>5, Zenon
<1>9. SporksPass /\ GetDataPass /\ InvsPass /\ GetSporksPass
  BY <1>7, NothingLostPasses, Zenon
<1>10. AsksPass /\ SyncPass /\ (missed => missed')
  BY <1>2, Untouched, Zenon DEF syncVars
<1>11. AskKept' /\ LinkKept'
  BY <1>8, <1>9, <1>10, PassesKeep, Zenon
<1>12. SignedInFlight'
  <2>1. \A s : SporkMsg(s) # InvMsg(h)
    BY MessageKinds, Zenon
  <2> QED BY <1>2, <1>7, <2>1, Zenon DEF SignedInFlight
<1>13. StoredIsSeen'
  BY <1>2, Zenon DEF StoredIsSeen, Seen, nodeVars
<1>14. SignerHas'
  <2> SUFFICES ASSUME NEW m \in Signer, NEW s \in signed', ~Offers(m, s)'
               PROVE  Seen(m, s)'
    BY Zenon DEF SignerHas
  <2>1. m = n /\ m \in Node /\ mapSporksActive' = mapSporksActive
    BY <1>2, SporkAssumption, Zenon DEF nodeVars
  <2>2. s # msg
    BY <1>4, <1>5, <2>1, ZenonT(30) DEF Offers
  <2>3. s \in signed /\ s \in SporkMessage
    BY <1>2, <2>2, Zenon DEF TypeOK
  <2>4. ~Offers(m, s)
    BY <1>2, <2>1, Zenon DEF Offers
  <2> QED BY <2>1, <2>3, <2>4, Zenon DEF SignerHas, Stays
<1> QED BY <1>11, <1>12, <1>13, <1>14, Zenon

(* UpdateSpork, the end: the spork relayed before is put in force. *)
LEMMA StoreSettles ==
    ASSUME TypeOK, TypeOK', UpdatingIsSigned,
           AskKept, LinkKept, SignedInFlight, StoredIsSeen, SignerHas, Stays,
           NEW n \in Node, UpdateSporkStore(n)
    PROVE  AskKept' /\ LinkKept' /\ SignedInFlight' /\ StoredIsSeen' /\ SignerHas'
<1>1. PICK h \in Hash : h = updating[n] /\ h # NoSpork
  BY Zenon DEF UpdateSporkStore, TypeOK
<1>2. PICK s \in SporkMessage, pad \in Pad : s = h.spork /\ h = GetHash(s, pad)
  BY HashParts, ZenonT(30)
<1>3. /\ mapSporks' = [mapSporks EXCEPT ![n] = @ \cup {GetHash(s, pad)}]
      /\ mapSporksActive' = [mapSporksActive EXCEPT ![n][s.id] = s]
      /\ updating' = [updating EXCEPT ![n] = NoSpork]
      /\ UNCHANGED <<signed, askVars, syncVars, chan, missed>>
  BY <1>1, <1>2, Zenon DEF UpdateSporkStore
<1>4. s \in signed
  BY <1>1, <1>2, Zenon DEF UpdatingIsSigned
<1>5. /\ updating'[n] = NoSpork
      /\ \A m \in Node \ {n} : updating'[m] = updating[m]
  BY <1>3 DEF TypeOK
<1>6. StoredIsSeen' /\ SignerHas'
  <2>1. \A m \in Node, t \in SporkMessage :
            updating[m] # NoSpork /\ updating[m].spork = t =>
                \/ updating'[m] # NoSpork /\ updating'[m].spork = t
                \/ m = n /\ t = s
    BY <1>1, <1>2, <1>5, Zenon
  <2>2. signed' = signed
    BY <1>3, Zenon
  <2> QED BY <1>3, <1>4, <2>1, <2>2, AcceptedStore, Zenon
<1>7. NewOffersRelayed
  <2> SUFFICES ASSUME NEW q \in Node, NEW t \in SporkMessage, Offers(q, t)'
               PROVE  Offers(q, t)
    BY PeerLinks, Zenon DEF NewOffersRelayed
  <2>1. t.id \in SporkID /\ s.id \in SporkID
    BY Zenon DEF SporkMessage
  <2>a. /\ mapSporksActive'[n][s.id] = s
        /\ \A k \in Node, id \in SporkID :
              k # n \/ id # s.id => mapSporksActive'[k][id] = mapSporksActive[k][id]
    <3>1. PutInForce(n, s)
      BY <1>3, Zenon DEF PutInForce
    <3> QED BY <3>1, InForceAfter, Zenon
  <2>2. CASE q = n
    <3>1. mapSporksActive'[n][t.id] = t
      BY <1>5, <2>2, Zenon DEF Offers
    <3>2. CASE t.id = s.id
      <4>1. t = s
        BY <2>a, <3>1, <3>2, Zenon
      <4> QED BY <1>1, <1>2, <2>2, <4>1, ZenonT(30) DEF Offers
    <3>3. CASE t.id # s.id
      <4>1. mapSporksActive[n][t.id] = t
        BY <2>a, <2>1, <3>1, <3>3, Zenon
      <4> QED BY <2>2, <4>1, ZenonT(30) DEF Offers
    <3> QED BY <3>2, <3>3, Zenon
  <2>3. CASE q # n
    <3>1. mapSporksActive'[q] = mapSporksActive[q] /\ updating'[q] = updating[q]
      BY <1>3, <1>5, <2>3, Zenon DEF TypeOK
    <3> QED BY <3>1, Zenon DEF Offers
  <2> QED BY <2>2, <2>3, Zenon
<1>8. NothingLost /\ SignedInFlight'
  BY <1>3, Zenon DEF NothingLost, SignedInFlight, InFlight
<1>9. SporksPass /\ GetDataPass /\ InvsPass /\ GetSporksPass
  BY <1>8, NothingLostPasses, Zenon
<1>10. AsksPass /\ SyncPass /\ (missed => missed')
  BY <1>3, Untouched, ZenonT(30) DEF syncVars
<1>11. AskKept' /\ LinkKept'
  BY <1>7, <1>9, <1>10, PassesKeep, Zenon
<1> QED BY <1>6, <1>8, <1>11, Zenon

(* A spork that is put in force and relayed is on offer. *)
LEMMA AcceptedOffers ==
    ASSUME TypeOK, NEW n \in Node, NEW s \in SporkMessage, NEW pad \in Pad,
           mapSporksActive' = [mapSporksActive EXCEPT ![n][s.id] = s],
           updating' = updating,
           \A l \in Link : l[1] = n => InFlight(l, InvMsg(GetHash(s, pad)))'
    PROVE  NewOffersRelayed
<1> SUFFICES ASSUME NEW m \in Full, NEW q \in Peers(m) \ Lite, NEW t \in SporkMessage,
                    Offers(q, t)', ~Offers(q, t)
             PROVE  InFlight(<<q, m>>, InvMsg(GetHash(t, pad)))'
  BY Zenon DEF NewOffersRelayed
<1>1. q \in Node /\ <<q, m>> \in Link /\ <<q, m>>[1] = q
  BY PeerLinks, Zenon
<1>2. t.id \in SporkID /\ s.id \in SporkID
  BY Zenon DEF SporkMessage
<1>3. mapSporksActive'[q][t.id] = t /\ mapSporksActive[q][t.id] # t
  BY Zenon DEF Offers
<1>4. q = n /\ t = s
  <2>1. PutInForce(n, s)
    BY Zenon DEF PutInForce
  <2>2. /\ mapSporksActive'[n][s.id] = s
        /\ \A k \in Node, id \in SporkID :
              k # n \/ id # s.id => mapSporksActive'[k][id] = mapSporksActive[k][id]
    BY <2>1, InForceAfter, Zenon
  <2>3. q = n /\ t.id = s.id
    BY <1>1, <1>2, <1>3, <2>2, Zenon
  <2> QED BY <1>3, <2>2, <2>3, Zenon
<1> QED BY <1>1, <1>4, Zenon

(* ProcessSpork: a spork that arrives is seen, and relayed if it is new. *)
LEMMA SporkSettles ==
    ASSUME TypeOK, TypeOK', AskKept, LinkKept, SignedInFlight, StoredIsSeen, SignerHas, Stays,
           NEW n \in Node, NEW p \in Node, ProcessSpork(n, p)
    PROVE  AskKept' /\ LinkKept' /\ SignedInFlight' /\ StoredIsSeen' /\ SignerHas'
<1>1. /\ Receives(n, p, "spork")
      /\ UNCHANGED <<signed, updating, askVars, syncVars, missed>>
  BY Zenon DEF ProcessSpork
<1>2. chan \in [Link -> Seq(Message)] /\ <<p, n>> \in Link /\ chan[<<p, n>>] # <<>>
  BY <1>1, Zenon DEF TypeOK, Receives
<1>3. PICK s \in SporkMessage : /\ s = Head(chan[<<p, n>>]).spork
                                /\ Head(chan[<<p, n>>]) = SporkMsg(s)
  BY <1>1, <1>2, ReceivedMsg, Zenon
<1>4. s \in signed
  <2>1. InFlight(<<p, n>>, SporkMsg(s))
    BY <1>2, <1>3, HasParts, SMTT(30) DEF InFlight
  <2> QED BY <1>2, <2>1, Zenon DEF SignedInFlight
<1>5. AsksPass /\ SyncPass /\ (missed => missed')
  BY <1>1, Untouched, ZenonT(30) DEF syncVars
<1>6. ASSUME LosesOnly(<<p, n>>, SporkMsg(s)), n \notin Lite => Seen(n, s)'
      PROVE  SporksPass /\ GetDataPass /\ InvsPass /\ GetSporksPass
  <2>1. /\ \A h : SporkMsg(s) # InvMsg(h)
        /\ \A h : SporkMsg(s) # GetDataMsg(h)
        /\ SporkMsg(s) # GetSporksMsg
    BY MessageKinds, Zenon
  <2>2. GetDataPass /\ InvsPass /\ GetSporksPass
    BY <1>6, <2>1, LosesOnlyPasses, SMTT(30)
  <2>3. SporksPass
    <3> SUFFICES ASSUME NEW m \in Full, NEW q \in Peers(m), NEW t \in SporkMessage,
                        Arrives(m, q, t), ~Arrives(m, q, t)'
                 PROVE  FALSE
      BY Zenon DEF SporksPass
    <3>1. <<q, m>> \in Link /\ m \in Node /\ m \notin Lite
      BY PeerLinks, Zenon DEF Full
    <3>2. ~Seen(m, t)' /\ ~InFlight(<<q, m>>, SporkMsg(t))'
      BY Zenon DEF Arrives
    <3>3. InFlight(<<q, m>>, SporkMsg(t))
      BY <3>1, <3>2, ZenonT(30) DEF Arrives, Stays
    <3>4. <<q, m>> = <<p, n>> /\ SporkMsg(t) = SporkMsg(s)
      BY <1>6, <3>1, <3>2, <3>3, SMTT(30) DEF LosesOnly
    <3>5. t = s
      BY <3>4, MessageKinds, Zenon
    <3>6. m = n
      BY <3>4, Zenon
    <3> QED BY <1>6, <3>1, <3>2, <3>5, <3>6, Zenon
  <2> QED BY <2>2, <2>3, Zenon
<1>7. CASE n \notin Lite /\ ~Seen(n, s) /\ CheckSignature(s)
  <2>1. PICK pad \in Pad :
          /\ mapSporks' = [mapSporks EXCEPT ![n] = @ \cup {GetHash(s, pad)}]
          /\ Exchange(n, p, [q \in Node |-> Inv(GetHash(s, pad))])
    BY <1>3, <1>7, Zenon DEF ProcessSpork
  <2>2. mapSporksActive' = [mapSporksActive EXCEPT ![n][s.id] = s]
    BY <1>3, <1>7, Zenon DEF ProcessSpork
  <2>3. PICK h \in Hash : h = GetHash(s, pad)
    BY HashParts, Zenon
  <2> DEFINE out == [q \in Node |-> Inv(h)]
  <2>4. /\ out \in [Node -> Seq(Message)] /\ Exchange(n, p, out)
        /\ \A q \in Node : \A m : Has(out[q], m) <=> m = InvMsg(h)
    <3>1. InvMsg(h) \in Message /\ Inv(h) = <<InvMsg(h)>>
      BY MessageKinds, Zenon DEF Inv, InvMsg
    <3>2. \A m : Has(<<InvMsg(h)>>, m) <=> m = InvMsg(h)
      BY SMTT(30) DEF Has
    <3>3. Inv(h) \in Seq(Message) /\ \A m : Has(Inv(h), m) <=> m = InvMsg(h)
      BY <3>1, <3>2
    <3> QED BY <2>1, <2>3, <3>3, Zenon
  <2> HIDE DEF out
  <2>5. /\ LosesOnly(<<p, n>>, SporkMsg(s))
        /\ \A l \in Link : \A m : InFlight(l, m)' => InFlight(l, m) \/ m = InvMsg(h)
        /\ \A l \in Link : l[1] = n => InFlight(l, InvMsg(h))'
    <3>1. \A l \in Link : l[2] \in Node
      BY SporkAssumption, Zenon
    <3>2. ASSUME NEW l \in Link, NEW m
          PROVE  /\ InFlight(l, m) => InFlight(l, m)' \/ (l = <<p, n>> /\ m = Head(chan[<<p, n>>]))
                 /\ InFlight(l, m)' => InFlight(l, m) \/ (l[1] = n /\ Has(out[l[2]], m))
                 /\ l[1] = n /\ Has(out[l[2]], m) => InFlight(l, m)'
      BY <1>2, <2>4, ExchangeFlight, Zenon
    <3>3. LosesOnly(<<p, n>>, SporkMsg(s))
      BY <1>3, <3>2, ZenonT(30) DEF LosesOnly
    <3> QED BY <2>4, <3>1, <3>2, <3>3, Zenon
  <2>6. Seen(n, s)'
    <3>1. s.id \in SporkID /\ s.time \in Int /\ s # NoSpork
      BY SporkAssumption, Zenon DEF SporkMessage
    <3>2. mapSporksActive'[n][s.id] = s
      <4>1. PutInForce(n, s)
        BY <2>2, Zenon DEF PutInForce
      <4> QED BY <4>1, InForceAfter, Zenon
    <3> QED BY <3>1, <3>2, SMTT(30) DEF Seen
  <2>7. NewOffersRelayed
    BY <1>1, <2>2, <2>3, <2>5, AcceptedOffers, Zenon
  <2>8. AskKept' /\ LinkKept'
    BY <1>5, <1>6, <2>5, <2>6, <2>7, PassesKeep, ZenonT(30)
  <2>9. SignedInFlight'
    <3>1. \A t : SporkMsg(t) # InvMsg(h)
      BY MessageKinds, Zenon
    <3> QED BY <1>1, <2>5, <3>1, Zenon DEF SignedInFlight
  <2>10. StoredIsSeen' /\ SignerHas'
    <3>1. signed' = signed /\ updating' = updating
      BY <1>1, Zenon
    <3> QED BY <1>4, <2>1, <2>2, <3>1, AcceptedStore, Zenon
  <2> QED BY <2>8, <2>9, <2>10, Zenon
<1>8. CASE ~(n \notin Lite /\ ~Seen(n, s) /\ CheckSignature(s))
  <2>1. UNCHANGED nodeVars /\ Exchange(n, p, Silent)
    BY <1>3, <1>8, Zenon DEF ProcessSpork
  <2>2. /\ LosesOnly(<<p, n>>, SporkMsg(s))
        /\ \A l \in Link : \A m : InFlight(l, m)' => InFlight(l, m)
    BY <1>2, <1>3, <2>1, SilentLoses, Zenon
  <2>3. n \notin Lite => Seen(n, s)'
    BY <1>4, <1>8, Zenon DEF CheckSignature, Stays
  <2>4. NewOffersRelayed
    BY <1>1, <2>1, Untouched, ZenonT(30) DEF nodeVars
  <2>5. AskKept' /\ LinkKept'
    BY <1>5, <1>6, <2>2, <2>3, <2>4, PassesKeep, Zenon
  <2>6. SignedInFlight'
    BY <1>1, <2>2, Zenon DEF SignedInFlight
  <2>7. StoredIsSeen' /\ SignerHas'
    BY <1>1, <2>1, RecordsIdle, Zenon
  <2> QED BY <2>5, <2>6, <2>7, Zenon
<1> QED BY <1>7, <1>8, Zenon

(* A step that neither moves a message nor touches what is on offer. *)
LEMMA IdleSettles ==
    ASSUME TypeOK, TypeOK', AskKept, LinkKept, SignedInFlight, StoredIsSeen, SignerHas, Stays,
           UNCHANGED <<signed, mapSporks, mapSporksActive, updating, askVars, mnsync, chan, missed>>
    PROVE  AskKept' /\ LinkKept' /\ SignedInFlight' /\ StoredIsSeen' /\ SignerHas'
<1>1. NothingLost /\ SignedInFlight'
  BY Zenon DEF NothingLost, SignedInFlight, InFlight
<1>2. SporksPass /\ GetDataPass /\ InvsPass /\ GetSporksPass
  BY <1>1, NothingLostPasses, Zenon
<1>3. AsksPass /\ SyncPass /\ NewOffersRelayed /\ (missed => missed')
  BY Untouched, ZenonT(30)
<1>4. StoredIsSeen' /\ SignerHas'
  BY RecordsIdle, Zenon DEF nodeVars
<1> QED BY <1>1, <1>2, <1>3, <1>4, PassesKeep, Zenon

(* The same handler for a peer outside the network. *)
LEMMA ForeignSettles ==
    ASSUME TypeOK, TypeOK', AskKept, LinkKept, SignedInFlight, StoredIsSeen, SignerHas, Stays,
           NEW n \in Node, NEW s \in Foreign, ProcessForeignSpork(n, s)
    PROVE  AskKept' /\ LinkKept' /\ SignedInFlight' /\ StoredIsSeen' /\ SignerHas'
<1>1. UNCHANGED <<signed, updating, askVars, syncVars, missed>> /\ s \in SporkMessage
  <2>1. s \in SporkMessage
    BY SporkAssumption, Zenon DEF SporkMessage
  <2> QED BY <2>1, Zenon DEF ProcessForeignSpork
<1>2. AsksPass /\ SyncPass /\ (missed => missed')
  BY <1>1, Untouched, ZenonT(30) DEF syncVars
<1>3. CASE CheckSignature(s)
  <2>1. PICK pad \in Pad :
          /\ mapSporks' = [mapSporks EXCEPT ![n] = @ \cup {GetHash(s, pad)}]
          /\ chan' = [l \in Link |-> IF l[1] = n THEN chan[l] \o Inv(GetHash(s, pad))
                                     ELSE chan[l]]
    BY <1>3, Zenon DEF ProcessForeignSpork
  <2>2. mapSporksActive' = [mapSporksActive EXCEPT ![n][s.id] = s]
    BY <1>3, Zenon DEF ProcessForeignSpork
  <2>3. PICK h \in Hash : h = GetHash(s, pad)
    BY <1>1, HashParts, Zenon
  <2>4. /\ NothingLost
        /\ \A l \in Link : \A m : InFlight(l, m)' => InFlight(l, m) \/ m = InvMsg(h)
        /\ \A l \in Link : l[1] = n => InFlight(l, InvMsg(h))'
    <3>1. chan \in [Link -> Seq(Message)]
      BY Zenon DEF TypeOK
    <3> QED BY <2>1, <2>3, <3>1, RelayFlight, Zenon
  <2>5. NewOffersRelayed
    BY <1>1, <2>2, <2>3, <2>4, AcceptedOffers, Zenon
  <2>6. SporksPass /\ GetDataPass /\ InvsPass /\ GetSporksPass
    BY <2>4, NothingLostPasses, Zenon
  <2>7. AskKept' /\ LinkKept'
    BY <1>2, <2>5, <2>6, PassesKeep, Zenon
  <2>8. SignedInFlight'
    <3>1. \A t : SporkMsg(t) # InvMsg(h)
      BY MessageKinds, Zenon
    <3> QED BY <1>1, <2>4, <3>1, Zenon DEF SignedInFlight
  <2>9. StoredIsSeen' /\ SignerHas'
    <3>1. signed' = signed /\ updating' = updating /\ s \in signed
      BY <1>1, <1>3, Zenon DEF CheckSignature
    <3> QED BY <1>1, <2>1, <2>2, <3>1, AcceptedStore, Zenon
  <2> QED BY <2>7, <2>8, <2>9, Zenon
<1>4. CASE ~CheckSignature(s)
  <2>1. UNCHANGED <<nodeVars, chan>>
    BY <1>4, Zenon DEF ProcessForeignSpork
  <2> QED BY <1>1, <2>1, IdleSettles, Zenon DEF nodeVars, syncVars
<1> QED BY <1>3, <1>4, Zenon

(* ThreadBitPool's getsporks is in flight when the peer counts as asked. *)
LEMMA AskSettles ==
    ASSUME TypeOK, TypeOK', AskKept, LinkKept, SignedInFlight, Stays,
           NEW n \in Node, AskSporks(n)
    PROVE  AskKept' /\ LinkKept' /\ SignedInFlight'
<1>1. PICK ask : ask = Peers(n) \ mnsync[n]
  BY Zenon
<1>2. /\ mnsync' = [mnsync EXCEPT ![n] = @ \cup ask]
      /\ chan' = [l \in Link |-> IF l[1] = n /\ l[2] \in ask
                                 THEN Append(chan[l], GetSporksMsg) ELSE chan[l]]
      /\ UNCHANGED <<signed, nodeVars, updating, askVars, missed>>
  BY <1>1, Zenon DEF AskSporks, GetSporksMsg
<1>3. ASSUME NEW l \in Link, NEW m
      PROVE  /\ InFlight(l, m) => InFlight(l, m)'
             /\ InFlight(l, m)' => InFlight(l, m) \/ m = GetSporksMsg
             /\ l[1] = n /\ l[2] \in ask /\ m = GetSporksMsg => InFlight(l, m)'
  <2>1. chan[l] \in Seq(Message)
        /\ chan'[l] = IF l[1] = n /\ l[2] \in ask THEN Append(chan[l], GetSporksMsg) ELSE chan[l]
    BY <1>2, Zenon DEF TypeOK
  <2>2. Has(Append(chan[l], GetSporksMsg), m) <=> Has(chan[l], m) \/ m = GetSporksMsg
    BY <2>1, HasParts, MessageKinds, Zenon
  <2>3. CASE l[1] = n /\ l[2] \in ask
    <3>1. chan'[l] = Append(chan[l], GetSporksMsg)
      BY <2>1, <2>3, Zenon
    <3> QED BY <2>2, <3>1, Zenon DEF InFlight
  <2>4. CASE ~(l[1] = n /\ l[2] \in ask)
    <3>1. chan'[l] = chan[l]
      BY <2>1, <2>4, Zenon
    <3> QED BY <2>4, <3>1, Zenon DEF InFlight
  <2> QED BY <2>3, <2>4, Zenon
<1>4. NothingLost
  BY <1>3, Zenon DEF NothingLost
<1>5. SporksPass /\ GetDataPass /\ InvsPass /\ GetSporksPass
  BY <1>4, NothingLostPasses, Zenon
<1>6. SyncPass
  <2> SUFFICES ASSUME NEW m \in Full, NEW q \in Peers(m), q \notin mnsync[m], q \in mnsync'[m]
               PROVE  InFlight(<<m, q>>, GetSporksMsg)'
    BY Zenon DEF SyncPass
  <2>1. m \in Node /\ <<m, q>> \in Link /\ <<m, q>>[1] = m /\ <<m, q>>[2] = q
    BY PeerLinks, ZenonT(30)
  <2>2. m = n /\ q \in ask
    <3>1. /\ mnsync'[n] = mnsync[n] \cup ask
          /\ \A k \in Node \ {n} : mnsync'[k] = mnsync[k]
      <4>1. mnsync \in [Node -> SUBSET Node]
        BY Zenon DEF TypeOK
      <4> QED BY <1>2, <4>1, SMT
    <3> QED BY <2>1, <3>1, Zenon
  <2> QED BY <1>3, <2>1, <2>2, Zenon
<1>7. AsksPass /\ NewOffersRelayed /\ (missed => missed')
  BY <1>2, Untouched, ZenonT(30) DEF nodeVars
<1>8. AskKept' /\ LinkKept'
  BY <1>5, <1>6, <1>7, PassesKeep, Zenon
<1>9. SignedInFlight'
  <2>1. \A s : SporkMsg(s) # GetSporksMsg
    BY MessageKinds, ZenonT(30)
  <2> QED BY <1>2, <1>3, <2>1, Zenon DEF SignedInFlight
<1> QED BY <1>8, <1>9, Zenon

(* SendMessages: a hash leaves mapAskFor with its getdata, or once seen. *)
LEMMA SendSettles ==
    ASSUME TypeOK, TypeOK', AskKept, LinkKept, SignedInFlight, StoredIsSeen, Stays,
           NEW n \in Node, NEW p \in Node, NEW h \in mapAskFor[n][p], SendGetData(n, p, h)
    PROVE  AskKept' /\ LinkKept' /\ SignedInFlight'
<1>1. /\ <<n, p>> \in Link
      /\ mapAskFor' = [mapAskFor EXCEPT ![n][p] = @ \ {h}]
      /\ UNCHANGED <<signed, nodeVars, updating, syncVars, missed>>
  BY Zenon DEF SendGetData
<1>2. h \in Hash /\ h.spork \in SporkMessage /\ GetDataMsg(h) \in Message
  <2>1. h \in Hash
    <3>1. mapAskFor \in [Node -> [Node -> SUBSET Hash]]
      BY Zenon DEF TypeOK
    <3> QED BY <3>1, Zenon
  <2> QED BY <2>1, HashParts, MessageKinds, ZenonT(30)
<1>3. \A m, q \in Node : mapAskFor'[m][q] = IF m = n /\ q = p THEN mapAskFor[m][q] \ {h}
                                            ELSE mapAskFor[m][q]
  BY <1>1, ZenonT(30) DEF TypeOK
<1>4. SyncPass /\ NewOffersRelayed /\ (missed => missed')
  BY <1>1, Untouched, ZenonT(30) DEF nodeVars, syncVars
<1>5. CASE AlreadyHave(n, h)
  <2>1. setAskFor' = [setAskFor EXCEPT ![n][p] = @ \ {h}] /\ chan' = chan
    BY <1>5, ZenonT(30) DEF SendGetData
  <2>2. \A m, q \in Node : setAskFor'[m][q] = IF m = n /\ q = p THEN setAskFor[m][q] \ {h}
                                              ELSE setAskFor[m][q]
    BY <2>1, Zenon DEF TypeOK
  <2>3. Seen(n, h.spork)'
    BY <1>2, <1>5, Zenon DEF AlreadyHave, StoredIsSeen, Stays
  <2>4. AsksPass
    <3> SUFFICES ASSUME NEW m \in Full, NEW q \in Peers(m), NEW k \in Hash
                 PROVE  /\ k \in setAskFor[m][q] => k \in setAskFor'[m][q] \/ Seen(m, k.spork)'
                        /\ k \in setAskFor'[m][q] => k \in setAskFor[m][q]
                        /\ k \in mapAskFor[m][q] => k \in mapAskFor'[m][q] \/ k \notin setAskFor'[m][q]
      BY Zenon DEF AsksPass
    <3>1. m \in Node /\ q \in Node
      BY PeerLinks, Zenon
    <3>2. CASE m = n /\ q = p /\ k = h
      BY <1>3, <2>2, <2>3, <3>1, <3>2, Zenon
    <3>3. CASE ~(m = n /\ q = p /\ k = h)
      BY <1>3, <2>2, <3>1, <3>3, Zenon
    <3> QED BY <3>2, <3>3, Zenon
  <2>5. NothingLost /\ SignedInFlight'
    BY <1>1, <2>1, Zenon DEF NothingLost, SignedInFlight, InFlight
  <2>6. SporksPass /\ GetDataPass /\ InvsPass /\ GetSporksPass
    BY <2>5, NothingLostPasses, Zenon
  <2> QED BY <1>4, <2>4, <2>5, <2>6, PassesKeep, Zenon
<1>6. CASE ~AlreadyHave(n, h)
  <2>1. /\ setAskFor' = setAskFor
        /\ chan' = [chan EXCEPT ![<<n, p>>] = Append(@, GetDataMsg(h))]
    BY <1>6, Zenon DEF SendGetData, GetDataMsg
  <2>2. ASSUME NEW l \in Link, NEW m
        PROVE  /\ InFlight(l, m) => InFlight(l, m)'
               /\ InFlight(l, m)' => InFlight(l, m) \/ m = GetDataMsg(h)
               /\ l = <<n, p>> /\ m = GetDataMsg(h) => InFlight(l, m)'
    <3>1. chan[l] \in Seq(Message)
          /\ chan'[l] = IF l = <<n, p>> THEN Append(chan[l], GetDataMsg(h)) ELSE chan[l]
      BY <2>1, Zenon DEF TypeOK
    <3>2. Has(Append(chan[l], GetDataMsg(h)), m) <=> Has(chan[l], m) \/ m = GetDataMsg(h)
      BY <1>2, <3>1, HasParts, Zenon
    <3>3. CASE l = <<n, p>>
      <4>1. chan'[l] = Append(chan[l], GetDataMsg(h))
        BY <3>1, <3>3, Zenon
      <4> QED BY <3>2, <4>1, Zenon DEF InFlight
    <3>4. CASE l # <<n, p>>
      <4>1. chan'[l] = chan[l]
        BY <3>1, <3>4, Zenon
      <4> QED BY <3>4, <4>1, Zenon DEF InFlight
    <3> QED BY <3>3, <3>4, Zenon
  <2>3. NothingLost /\ InFlight(<<n, p>>, GetDataMsg(h))'
    BY <1>1, <2>2, Zenon DEF NothingLost
  <2>4. AsksPass
    <3> SUFFICES ASSUME NEW m \in Full, NEW q \in Peers(m), NEW k \in mapAskFor[m][q]
                 PROVE  k \in mapAskFor'[m][q] \/ InFlight(<<m, q>>, GetDataMsg(k))'
      BY <2>1, ZenonT(30) DEF AsksPass
    <3>1. m \in Node /\ q \in Node
      BY PeerLinks, ZenonT(30)
    <3>2. CASE m = n /\ q = p /\ k = h
      BY <2>3, <3>2, Zenon
    <3>3. CASE ~(m = n /\ q = p /\ k = h)
      BY <1>3, <3>1, <3>3, Zenon
    <3> QED BY <3>2, <3>3, Zenon
  <2>5. SignedInFlight'
    <3>1. \A s : SporkMsg(s) # GetDataMsg(h)
      BY MessageKinds, Zenon
    <3> QED BY <1>1, <2>2, <3>1, Zenon DEF SignedInFlight
  <2>6. SporksPass /\ GetDataPass /\ InvsPass /\ GetSporksPass
    BY <2>3, NothingLostPasses, Zenon
  <2> QED BY <1>4, <2>4, <2>5, <2>6, PassesKeep, Zenon
<1> QED BY <1>5, <1>6, Zenon

Settling ==
    AskKept /\ LinkKept /\ SignedInFlight /\ StoredIsSeen /\ SignerHas /\ SyncState

(* The invariant is inductive: one step per handler. *)
LEMMA SettlingStep ==
    ASSUME NEW a, Signer = {a}, Counting,
           TypeOK, TypeOK', ActiveIsSignedAndServed, UpdatingIsSigned, SignerAhead,
           OnlySignersUpdate, Settling, [Next]_vars
    PROVE  Settling'
<1> DEFINE Goal == AskKept' /\ LinkKept' /\ SignedInFlight' /\ StoredIsSeen' /\ SignerHas'
<1>0. /\ Stays /\ SyncState'
      /\ AskKept /\ LinkKept /\ SignedInFlight /\ StoredIsSeen /\ SignerHas /\ SyncState
  <2>1. LaterInForce
    BY LaterStep, Zenon
  <2>2. SyncState'
    BY SyncStep, Zenon DEF Settling
  <2> QED BY <2>1, <2>2, SeenStays, Zenon DEF Settling
<1>1. ASSUME NEW n \in Node, NEW id \in SporkID, NEW v \in Value, NEW pad \in Pad,
             UpdateSpork(n, id, v, pad)
      PROVE  Goal
  BY <1>0, <1>1, UpdateSettles, Zenon
<1>2. ASSUME NEW n \in Node, UpdateSporkStore(n)
      PROVE  Goal
  BY <1>0, <1>2, StoreSettles, Zenon
<1>3. ASSUME NEW n \in Node, NEW p \in Node, ProcessSpork(n, p)
      PROVE  Goal
  BY <1>0, <1>3, SporkSettles, Zenon
<1>4. ASSUME NEW n \in Node, NEW s \in Foreign, ProcessForeignSpork(n, s)
      PROVE  Goal
  BY <1>0, <1>4, ForeignSettles, ZenonT(30)
<1>5. ASSUME UNCHANGED <<signed, nodeVars, updating>>
      PROVE  StoredIsSeen' /\ SignerHas'
  BY <1>0, <1>5, RecordsIdle, Zenon
<1>6. ASSUME NEW n \in Node, NEW p \in Node, ProcessGetSporks(n, p)
      PROVE  Goal
  <2>1. AskKept' /\ LinkKept' /\ SignedInFlight'
    BY <1>0, <1>6, GetSporksSettles, Zenon
  <2>2. UNCHANGED <<signed, nodeVars, updating>>
    BY <1>6, Zenon DEF ProcessGetSporks
  <2> QED BY <1>5, <2>1, <2>2, Zenon
<1>7. ASSUME NEW n \in Node, NEW p \in Node, ProcessInv(n, p)
      PROVE  Goal
  <2>1. AskKept' /\ LinkKept' /\ SignedInFlight'
    BY <1>0, <1>7, InvSettles, Zenon
  <2>2. UNCHANGED <<signed, nodeVars, updating>>
    BY <1>7, Zenon DEF ProcessInv
  <2> QED BY <1>5, <2>1, <2>2, Zenon
<1>8. ASSUME NEW n \in Node, NEW p \in Node, NEW h \in mapAskFor[n][p], SendGetData(n, p, h)
      PROVE  Goal
  <2>1. AskKept' /\ LinkKept' /\ SignedInFlight'
    BY <1>0, <1>8, SendSettles, Zenon
  <2>2. UNCHANGED <<signed, nodeVars, updating>>
    BY <1>8, Zenon DEF SendGetData
  <2> QED BY <1>5, <2>1, <2>2, Zenon
<1>9. ASSUME NEW n \in Node, NEW p \in Node, ProcessGetData(n, p)
      PROVE  Goal
  <2>1. AskKept' /\ LinkKept' /\ SignedInFlight'
    BY <1>0, <1>9, GetDataSettles, Zenon
  <2>2. UNCHANGED <<signed, nodeVars, updating>>
    BY <1>9, Zenon DEF ProcessGetData
  <2> QED BY <1>5, <2>1, <2>2, Zenon
<1>10. ASSUME NEW n \in Node, AskSporks(n)
       PROVE  Goal
  <2>1. AskKept' /\ LinkKept' /\ SignedInFlight'
    BY <1>0, <1>10, AskSettles, Zenon
  <2>2. UNCHANGED <<signed, nodeVars, updating>>
    BY <1>10, Zenon DEF AskSporks
  <2> QED BY <1>5, <2>1, <2>2, Zenon
<1>11. ASSUME UNCHANGED <<signed, mapSporks, mapSporksActive, updating, askVars, mnsync, chan, missed>>
       PROVE  Goal
  BY <1>0, <1>11, IdleSettles, Zenon
<1>12. ASSUME NEW n \in Node, FinishIBD(n)
       PROVE  Goal
  BY <1>11, <1>12, Zenon DEF FinishIBD, nodeVars, syncVars
<1>13. ASSUME Tick
       PROVE  Goal
  BY <1>11, <1>13, Zenon DEF Tick, nodeVars, syncVars
<1>14. ASSUME UNCHANGED vars
       PROVE  Goal
  BY <1>11, <1>14, Zenon DEF vars, nodeVars, syncVars
<1>15. ASSUME Next
       PROVE  Goal
  <2> HIDE DEF Goal
  <2> QED BY <1>1, <1>2, <1>3, <1>4, <1>6, <1>7, <1>8, <1>9, <1>10, <1>12, <1>13, <1>15,
             ZenonT(60) DEF Next
<1>16. Goal
  BY <1>14, <1>15, Zenon
<1> QED BY <1>0, <1>16, Zenon DEF Settling

(* So it holds in every behaviour with one signer. *)
LEMMA SettlingInductive ==
    ASSUME NEW a, Signer = {a}, Counting
    PROVE  Spec => []Settling
<1> DEFINE Inv2 == SignerAhead /\ OnlySignersUpdate
<1>1. Init => Inv2
  BY ZenonT(30) DEF Init, SignerAhead, OnlySignersUpdate
<1>2. TypeOK /\ Inv2 /\ [Next]_vars => Inv2'
  BY SignerStep, Zenon
<1>3. Init => Settling
  <2> SUFFICES ASSUME Init PROVE Settling
    BY Zenon
  <2>1. \A n, p \in Node : setAskFor[n][p] = {}
    BY Zenon DEF Init
  <2>2. AskKept
    BY <2>1, PeerLinks, Zenon DEF AskKept
  <2>3. \A n \in Node : /\ mnsync[n] = {} /\ RequestedMasterNodeList[n] = 0
                        /\ mapSporks[n] = {}
    BY Zenon DEF Init
  <2>4. LinkKept
    BY <2>3, PeerLinks, Zenon DEF LinkKept, Owed
  <2>5. SignedInFlight
    <3>1. \A l \in Link : chan[l] = <<>>
      BY Zenon DEF Init
    <3>2. \A m : ~Has(<<>>, m)
      BY SMTT(30) DEF Has
    <3> QED BY <3>1, <3>2, Zenon DEF SignedInFlight, InFlight
  <2>6. StoredIsSeen /\ SignerHas /\ SyncState
    BY <2>3, Zenon DEF Init, StoredIsSeen, SignerHas, SyncState
  <2> QED BY <2>2, <2>4, <2>5, <2>6, Zenon DEF Settling
<1>4. /\ TypeOK /\ TypeOK' /\ ActiveIsSignedAndServed /\ UpdatingIsSigned
      /\ Inv2 /\ Settling /\ [Next]_vars
      => Settling'
  BY SettlingStep, Zenon
<1> QED BY <1>1, <1>2, <1>3, <1>4, TypeInductive, ActiveInductive, PTL DEF Spec

(* Every full node is reached from the signer over connections of full nodes. *)
Connected(a) ==
    \A S \in SUBSET Full : a \in S /\ (\A n \in S : Peers(n) \ Lite \subseteq S) => S = Full

(* The argument: the signer has the newest spork in force, and a full node   *)
(* that has it owes it to its peers, with nothing left to be done.           *)
LEMMA QuietSettled ==
    ASSUME NEW a, Signer = {a}, a \notin Lite, Connected(a),
           TypeOK, ActiveIsSignedAndServed, Settling
    PROVE  QuietIsSettled
<1> SUFFICES ASSUME Quiet, NoTie, ~missed,
                    NEW s \in signed, \A t \in signed : t.id = s.id => t.time <= s.time,
                    NEW m \in Node \ Lite
             PROVE  mapSporksActive[m][s.id] = s
  BY ZenonT(30) DEF QuietIsSettled, InForceEverywhere
<1>1. s \in SporkMessage /\ s.id \in SporkID /\ s.time \in Int
  BY Zenon DEF TypeOK, SporkMessage
<1>2. ASSUME NEW n \in Node, Seen(n, s)
      PROVE  mapSporksActive[n][s.id] = s
  <2>1. PICK v : v = mapSporksActive[n][s.id]
    BY Zenon
  <2>2. v # NoSpork /\ v.time >= s.time
    BY <1>2, <2>1, Zenon DEF Seen
  <2>3. v \in signed /\ v.id = s.id
    BY <1>1, <2>1, <2>2, ZenonT(30) DEF ActiveIsSignedAndServed
  <2>4. v.time \in Int /\ v.time <= s.time
    BY <2>3, Zenon DEF TypeOK, SporkMessage
  <2>5. v.time = s.time
    BY <1>1, <2>2, <2>4, SMTT(30)
  <2> QED BY <2>1, <2>3, <2>5, Zenon DEF NoTie
<1>3. \A l \in Link : \A x : ~InFlight(l, x)
  <2>1. \A x : ~Has(<<>>, x)
    BY SMTT(30) DEF Has
  <2> QED BY <2>1, SMTT(30) DEF Quiet, InFlight
<1>4. ASSUME NEW n \in Full, mapSporksActive[n][s.id] = s, NEW p \in Peers(n) \ Lite
      PROVE  mapSporksActive[p][s.id] = s
  <2>1. /\ n \in Node /\ p \in Node /\ p \in Full /\ n \in Peers(p) \ Lite
        /\ <<n, p>> \in Link /\ <<p, n>> \in Link
    BY PeerLinks, Zenon DEF Full, Peers
  <2>2. Owed(p, n, s)
    BY <1>1, <1>4, <2>1, ZenonT(30) DEF Settling, LinkKept, Offers
  <2>3. n \in mnsync[p]
    <3>1. RequestedMasterNodeList[p] >= MaxRequested \/ Peers(p) \subseteq mnsync[p]
      BY <2>1, Zenon DEF Quiet, Full
    <3>2. (mnsync[p] = {} /\ RequestedMasterNodeList[p] = 0) \/ mnsync[p] = Peers(p)
      BY <2>1, ZenonT(30) DEF Settling, SyncState
    <3>3. MaxRequested \in Nat \ {0}
      BY SporkAssumption, Zenon
    <3> QED BY <2>1, <3>1, <3>2, <3>3, SMTT(30)
  <2>4. ASSUME NEW pad \in Pad, GetHash(s, pad) \in setAskFor[p][n]
        PROVE  Seen(p, s)
    <3>1. Kept(p, n, GetHash(s, pad)) /\ GetHash(s, pad).spork = s
      BY <1>1, <2>1, <2>4, HashParts, Zenon DEF Settling, AskKept
    <3>2. mapAskFor[p][n] = {}
      BY <2>1, Zenon DEF Quiet
    <3> QED BY <1>3, <2>1, <3>1, <3>2, Zenon DEF Kept, Arrives
  <2>5. Seen(p, s)
    BY <1>3, <2>1, <2>2, <2>3, <2>4, Zenon DEF Owed, Arrives
  <2> QED BY <1>2, <2>1, <2>5, Zenon
<1>5. a \in Full /\ mapSporksActive[a][s.id] = s
  <2>1. a \in Node /\ a \in Full
    BY SporkAssumption, Zenon DEF Full
  <2>2. Seen(a, s) \/ Offers(a, s)
    BY Zenon DEF Settling, SignerHas
  <2>3. updating[a] = NoSpork
    BY <2>1, Zenon DEF Quiet
  <2> QED BY <1>2, <2>1, <2>2, <2>3, ZenonT(30) DEF Offers
<1> DEFINE S == {n \in Full : mapSporksActive[n][s.id] = s}
<1>6. S = Full
  <2>1. S \in SUBSET Full /\ a \in S
    BY <1>5, Zenon
  <2>2. \A n \in S : Peers(n) \ Lite \subseteq S
    <3> SUFFICES ASSUME NEW n \in S, NEW p \in Peers(n) \ Lite
                 PROVE  p \in S
      BY Zenon
    <3>1. p \in Full
      BY Zenon DEF Full, Peers
    <3> QED BY <1>4, <3>1, Zenon
  <2> HIDE DEF S
  <2> QED BY <2>1, <2>2, ZenonT(30) DEF Connected
<1> QED BY <1>6, Zenon DEF Full

----------------------------------------------------------------------------
FST == INSTANCE FiniteSetTheorems

(* The facts on sizes are those of the library. *)
LEMMA CountingHolds == Counting
<1>1. \A S : FST!Cardinality(S) = Cardinality(S)
  BY Zenon DEF FST!Cardinality, Cardinality
<1>2. \A S : FST!IsFiniteSet(S) <=> IsFiniteSet(S)
  BY Zenon DEF FST!IsFiniteSet, IsFiniteSet
<1>3. ASSUME NEW S \in SUBSET Node
      PROVE  Cardinality(S) \in Nat
  BY <1>1, <1>2, SporkAssumption, FST!FS_Subset, FST!FS_CardinalityType, Zenon
<1>4. ASSUME NEW S \in SUBSET SporkID
      PROVE  FST!IsFiniteSet(S) /\ Cardinality(S) \in Nat
  BY <1>1, <1>2, SporkAssumption, FST!FS_Subset, FST!FS_CardinalityType, Zenon
<1>5. ASSUME NEW S \in SUBSET SporkID, NEW f \in [1 .. Cardinality(S) -> S],
             \A i, j \in 1 .. Cardinality(S) : f[i] = f[j] => i = j,
             NEW x \in S
      PROVE  \E i \in 1 .. Cardinality(S) : f[i] = x
  <2>1. PICK k \in Nat : k = Cardinality(S)
    BY <1>4, Zenon
  <2>2. f \in FST!Injection(1 .. k, S)
    BY <1>5, <2>1, Zenon DEF FST!Injection, FST!IsInjective
  <2>3. FST!Cardinality(1 .. k) = k
    BY FST!FS_Interval, SMTT(30)
  <2>4. f \in FST!Surjection(1 .. k, S)
    BY <1>1, <1>4, <2>1, <2>2, <2>3, FST!FS_Injection, Zenon
  <2> QED BY <2>1, <2>4, Zenon DEF FST!Surjection
<1> QED BY <1>3, <1>4, <1>5, Zenon DEF Counting

(* The state stays well formed: TypeOK, over every operation of sporks. *)
THEOREM TypeCorrect == Spec => []TypeOK
BY TypeInductive, CountingHolds, Zenon

(* What is in force at a node was signed by the master key and can be served *)
(* (ActiveIsSignedAndServed), however sporks are relayed, asked for and kept.*)
THEOREM ActiveSafe == Spec => []ActiveIsSignedAndServed
<1>1. Spec => [](ActiveIsSignedAndServed /\ UpdatingIsSigned)
  BY ActiveInductive, CountingHolds, Zenon
<1> QED BY <1>1, PTL

(* When one node holds the master key, no node ever goes back to a spork     *)
(* signed earlier (NeverBackInTime).                                         *)
THEOREM OneSignerNeverBackInTime ==
    ASSUME NEW a, Signer = {a}
    PROVE  Spec => NeverBackInTime
<1> DEFINE Inv2 == SignerAhead /\ OnlySignersUpdate
<1>1. Init => Inv2
  BY ZenonT(30) DEF Init, SignerAhead, OnlySignersUpdate
<1>2. TypeOK /\ Inv2 /\ [Next]_vars => Inv2'
  BY SignerStep, Zenon
<1>3. TypeOK /\ Inv2 /\ ActiveIsSignedAndServed /\ [Next]_vars => [LaterInForce]_vars
  BY LaterStep, Zenon
<1>4. NeverBackInTime <=> [][LaterInForce]_vars
  BY Zenon DEF NeverBackInTime, LaterInForce
<1> QED BY <1>1, <1>2, <1>3, <1>4, TypeCorrect, ActiveSafe, PTL DEF Spec

(* A network with one key holder, whose full nodes are connected, only comes *)
(* to rest with the newest spork in force at all of them (QuietIsSettled):   *)
(* with relay, getdata and getsporks nothing is lost, however the handlers,  *)
(* the queues and the end of initial block download interleave.              *)
THEOREM RestsOnTheNewest ==
    ASSUME NEW a, Signer = {a}, a \notin Lite, Connected(a)
    PROVE  Spec => []QuietIsSettled
<1>1. TypeOK /\ ActiveIsSignedAndServed /\ Settling => QuietIsSettled
  BY QuietSettled, Zenon
<1>2. Spec => []Settling
  BY SettlingInductive, CountingHolds, Zenon
<1> QED BY <1>1, <1>2, TypeCorrect, ActiveSafe, PTL
============================================================================
