------------------------------- MODULE Spork -------------------------------
(***************************************************************************)
(* Sporks: network-wide settings signed with the master key.  A signer     *)
(* issues one by RPC (CSporkManager::UpdateSpork); it spreads by           *)
(* inv / getdata / spork, and a node that leaves initial block download    *)
(* asks its peers for everything they have ("getsporks").                  *)
(*                                                                         *)
(* A spork is a record [id, value, time]; its signature is valid iff the   *)
(* record is in `signed`.  CSporkMessage::GetHash hashes the memory from   *)
(* nSporkID to nTimeSigned: not the signature, but with the padding that   *)
(* follows the 4-byte nSporkID, which nothing initialises.  A hash is the  *)
(* record and the padding of the object it was taken of, any one of Pad.   *)
(***************************************************************************)
EXTENDS Integers, Sequences, FiniteSets

CONSTANTS
    Node,           \* the nodes of the network
    Signer,         \* those started with the master key (-masternodepaymentskey)
    Lite,           \* those started with -litemode
    Link,           \* connections, as a symmetric set of pairs of nodes
    SporkID,        \* spork identifiers
    Value,          \* spork values
    Foreign,        \* sporks signed with another key, sent by peers outside Node
    Pad,            \* contents of the padding of a CSporkMessage
    Skew,           \* Skew[n]: offset of n's clock
    MaxTime,        \* bound: last instant of the run
    MaxUpdates,     \* bound: sporks issued in a run
    MaxRequested,   \* the 3 of `RequestedMasterNodeList < 3`
    NoSpork         \* no entry in mapSporksActive / no update under way

ASSUME SporkAssumption ==
    /\ Signer \subseteq Node /\ Lite \subseteq Node
    /\ Link \subseteq Node \X Node
    /\ \A l \in Link : <<l[2], l[1]>> \in Link /\ l[1] # l[2]
    /\ SporkID \subseteq Int /\ IsFiniteSet(SporkID) /\ IsFiniteSet(Node)
    /\ Value \subseteq Int
    /\ Skew \in [Node -> Int]
    /\ MaxTime \in Nat /\ MaxUpdates \in Nat /\ MaxRequested \in Nat \ {0}
    /\ Foreign \subseteq [id : SporkID, value : Int \ Value, time : Int]
    /\ NoSpork \notin [id : SporkID, value : Int, time : Int]
    /\ NoSpork \notin [spork : [id : SporkID, value : Int, time : Int], pad : Pad]

VARIABLES
    now,                    \* real time
    signed,                 \* every spork signed so far (what CheckSignature accepts)
    mapSporks,              \* mapSporks[n]: hashes n has a spork under, and can serve
    mapSporksActive,        \* mapSporksActive[n][id]: the spork in force at n
    updating,               \* updating[n]: hash relayed by UpdateSpork, not stored yet
    setAskFor,              \* setAskFor[n][p]: hashes n asked, or will ask, p for
    mapAskFor,              \* mapAskFor[n][p]: those whose getdata is still to be sent
    ibd,                    \* ibd[n]: n is in initial block download
    mnsync,                 \* mnsync[n]: peers n has sent getsporks to
    RequestedMasterNodeList,\* RequestedMasterNodeList[n]: how many such requests
    banned,                 \* nodes that banned the peer that sent them a foreign spork
    chan,                   \* chan[l]: messages in flight on the link l
    missed                  \* a node that had relayed a spork, and not stored it yet,
                            \* answered a getdata or a getsporks without it

nodeVars == <<mapSporks, mapSporksActive>>
askVars == <<setAskFor, mapAskFor>>
syncVars == <<ibd, mnsync, RequestedMasterNodeList>>
vars == <<now, signed, nodeVars, updating, askVars, syncVars, banned, chan, missed>>

SporkMessage == [id : SporkID, value : Int, time : Int]
Hash == [spork : SporkMessage, pad : Pad]
Message ==
    [type : {"inv", "getdata"}, hash : Hash] \cup [type : {"spork"}, spork : SporkMessage]
        \cup [type : {"getsporks"}]

Peers(n) == {p \in Node : <<n, p>> \in Link}
GetTime(n) == now + Skew[n]
----------------------------------------------------------------------------
Init ==
    /\ now = 0
    /\ signed = {}
    /\ mapSporks = [n \in Node |-> {}]
    /\ mapSporksActive = [n \in Node |-> [id \in SporkID |-> NoSpork]]
    /\ updating = [n \in Node |-> NoSpork]
    /\ setAskFor = [n \in Node |-> [p \in Node |-> {}]]
    /\ mapAskFor = [n \in Node |-> [p \in Node |-> {}]]
    /\ ibd \in [Node -> BOOLEAN]
    /\ mnsync = [n \in Node |-> {}]
    /\ RequestedMasterNodeList = [n \in Node |-> 0]
    /\ banned = {}
    /\ chan = [l \in Link |-> <<>>]
    /\ missed = FALSE

\* n consumes the message at the head of the link from p and sends out[q] to
\* each of its peers q.
Exchange(n, p, out) ==
    chan' = [l \in Link |-> IF l = <<p, n>> THEN Tail(chan[l])
                            ELSE IF l[1] = n THEN chan[l] \o out[l[2]]
                            ELSE chan[l]]

Silent == [q \in Node |-> <<>>]
OnlyTo(p, msgs) == [q \in Node |-> IF q = p THEN msgs ELSE <<>>]
Inv(hash) == <<[type |-> "inv", hash |-> hash]>>
GetHash(spork, pad) == [spork |-> spork, pad |-> pad]

\* Head of link <<p, n>> is a message of the given type.
Receives(n, p, type) ==
    /\ <<p, n>> \in Link
    /\ chan[<<p, n>>] # <<>>
    /\ Head(chan[<<p, n>>]).type = type
----------------------------------------------------------------------------
\* CSporkManager::UpdateSpork, called by the RPC thread: the spork is signed
\* and its inv is pushed to every peer ...  (Left out, as a bound: issuing the
\* same value a second time within the second.)
UpdateSpork(n, id, v, pad) ==
    LET msg == [id |-> id, value |-> v, time |-> GetTime(n)]
        hash == GetHash(msg, pad)
    IN
    /\ n \in Signer
    /\ updating[n] = NoSpork
    /\ Cardinality(signed) < MaxUpdates /\ msg \notin signed
    /\ signed' = signed \cup {msg}
    /\ updating' = [updating EXCEPT ![n] = hash]
    /\ chan' = [l \in Link |-> IF l[1] = n THEN chan[l] \o Inv(hash) ELSE chan[l]]
    /\ UNCHANGED <<now, nodeVars, askVars, syncVars, banned, missed>>

\* ... and only then stored, without a look at the spork in force.
UpdateSporkStore(n) ==
    LET msg == updating[n].spork IN
    /\ updating[n] # NoSpork
    /\ mapSporks' = [mapSporks EXCEPT ![n] = @ \cup {updating[n]}]
    /\ mapSporksActive' = [mapSporksActive EXCEPT ![n][msg.id] = msg]
    /\ updating' = [updating EXCEPT ![n] = NoSpork]
    /\ UNCHANGED <<now, signed, askVars, syncVars, banned, chan, missed>>

\* Mutant: only the very same spork counts as seen.
SeenSame(n, spork) == mapSporksActive[n][spork.id] = spork

Seen(n, spork) ==
    /\ mapSporksActive[n][spork.id] # NoSpork
    /\ mapSporksActive[n][spork.id].time >= spork.time

\* Mutant: any signature will do.
CheckNothing(spork) == TRUE

CheckSignature(spork) == spork \in signed

\* Mutant: no relay.
ProcessSporkNoRelay(n, p) ==
    /\ Receives(n, p, "spork")
    /\ LET spork == Head(chan[<<p, n>>]).spork IN
       IF n \notin Lite /\ ~Seen(n, spork) /\ CheckSignature(spork)
       THEN /\ \E pad \in Pad :
                   mapSporks' = [mapSporks EXCEPT ![n] = @ \cup {GetHash(spork, pad)}]
            /\ mapSporksActive' = [mapSporksActive EXCEPT ![n][spork.id] = spork]
       ELSE UNCHANGED nodeVars
    /\ Exchange(n, p, Silent)
    /\ UNCHANGED <<now, signed, updating, askVars, syncVars, banned, missed>>

\* ProcessSpork, "spork": unless seen or not signed, the spork is stored, put
\* in force and relayed to every peer.
ProcessSpork(n, p) ==
    /\ Receives(n, p, "spork")
    /\ LET spork == Head(chan[<<p, n>>]).spork IN
       IF n \notin Lite /\ ~Seen(n, spork) /\ CheckSignature(spork)
       THEN /\ mapSporksActive' = [mapSporksActive EXCEPT ![n][spork.id] = spork]
            /\ \E pad \in Pad :
                  /\ mapSporks' = [mapSporks EXCEPT ![n] = @ \cup {GetHash(spork, pad)}]
                  /\ Exchange(n, p, [q \in Node |-> Inv(GetHash(spork, pad))])
       ELSE /\ UNCHANGED nodeVars
            /\ Exchange(n, p, Silent)
    /\ UNCHANGED <<now, signed, updating, askVars, syncVars, banned, missed>>

\* The same handler for a spork from a peer outside Node; a bad signature
\* costs that peer 100 points, a ban.
ProcessForeignSpork(n, spork) ==
    /\ n \notin Lite /\ n \notin banned
    /\ ~Seen(n, spork)
    /\ IF CheckSignature(spork)
       THEN /\ mapSporksActive' = [mapSporksActive EXCEPT ![n][spork.id] = spork]
            /\ \E pad \in Pad :
                  /\ mapSporks' = [mapSporks EXCEPT ![n] = @ \cup {GetHash(spork, pad)}]
                  /\ chan' = [l \in Link |-> IF l[1] = n
                                              THEN chan[l] \o Inv(GetHash(spork, pad))
                                              ELSE chan[l]]
            /\ UNCHANGED banned
       ELSE /\ banned' = banned \cup {n}
            /\ UNCHANGED <<nodeVars, chan>>
    /\ UNCHANGED <<now, signed, updating, askVars, syncVars, missed>>

\* ProcessSpork, "getsporks": every spork in force, in the order of the ids.
ProcessGetSporks(n, p) ==
    LET ids == {id \in SporkID : n \notin Lite /\ mapSporksActive[n][id] # NoSpork} IN
    /\ Receives(n, p, "getsporks")
    /\ \E order \in [1..Cardinality(ids) -> ids] :
          /\ \A i, j \in DOMAIN order : i < j => order[i] < order[j]
          /\ Exchange(n, p, OnlyTo(p, [i \in 1..Cardinality(ids) |->
                  [type |-> "spork", spork |-> mapSporksActive[n][order[i]]]]))
    /\ missed' = (missed \/ updating[n] # NoSpork)
    /\ UNCHANGED <<now, signed, nodeVars, updating, askVars, syncVars, banned>>
----------------------------------------------------------------------------
AlreadyHave(n, hash) == hash \in mapSporks[n]

\* ProcessMessage, "inv": an unknown spork is queued for a getdata to that
\* peer, once per peer (CNode::AskFor).
ProcessInv(n, p) ==
    /\ Receives(n, p, "inv")
    /\ LET hash == Head(chan[<<p, n>>]).hash IN
       IF ~AlreadyHave(n, hash) /\ ~ibd[n] /\ hash \notin setAskFor[n][p]
       THEN /\ setAskFor' = [setAskFor EXCEPT ![n][p] = @ \cup {hash}]
            /\ mapAskFor' = [mapAskFor EXCEPT ![n][p] = @ \cup {hash}]
       ELSE UNCHANGED askVars
    /\ Exchange(n, p, Silent)
    /\ UNCHANGED <<now, signed, nodeVars, updating, syncVars, banned, missed>>

\* SendMessages, "getdata (non-blocks)".  A second peer is asked two minutes
\* after the first, so the request may leave at any later moment.
SendGetData(n, p, hash) ==
    /\ <<n, p>> \in Link
    /\ hash \in mapAskFor[n][p]
    /\ mapAskFor' = [mapAskFor EXCEPT ![n][p] = @ \ {hash}]
    /\ IF AlreadyHave(n, hash)
       THEN /\ setAskFor' = [setAskFor EXCEPT ![n][p] = @ \ {hash}]
            /\ UNCHANGED chan
       ELSE /\ chan' = [chan EXCEPT ![<<n, p>>] =
                           Append(@, [type |-> "getdata", hash |-> hash])]
            /\ UNCHANGED setAskFor
    /\ UNCHANGED <<now, signed, nodeVars, updating, syncVars, banned, missed>>

\* ProcessGetData, MSG_SPORK: served from mapSporks, else notfound, which the
\* asking node ignores.
ProcessGetData(n, p) ==
    /\ Receives(n, p, "getdata")
    /\ LET hash == Head(chan[<<p, n>>]).hash
           found == hash \in mapSporks[n]
       IN  /\ Exchange(n, p, OnlyTo(p, IF found THEN <<[type |-> "spork", spork |-> hash.spork]>>
                                       ELSE <<>>))
           /\ missed' = (missed \/ ~found)
    /\ UNCHANGED <<now, signed, nodeVars, updating, askVars, syncVars, banned>>
----------------------------------------------------------------------------
\* Mutant: the peers are asked during initial block download already.
AskSporksEarly(n) ==
    LET ask == Peers(n) \ mnsync[n] IN
    /\ n \notin Lite
    /\ RequestedMasterNodeList[n] < MaxRequested
    /\ ask # {}
    /\ mnsync' = [mnsync EXCEPT ![n] = @ \cup ask]
    /\ RequestedMasterNodeList' = [RequestedMasterNodeList EXCEPT ![n] = @ + Cardinality(ask)]
    /\ chan' = [l \in Link |-> IF l[1] = n /\ l[2] \in ask
                               THEN Append(chan[l], [type |-> "getsporks"]) ELSE chan[l]]
    /\ UNCHANGED <<now, signed, nodeVars, updating, askVars, ibd, banned, missed>>

\* Mutant: the requests are counted down.
AskSporksDown(n) ==
    LET ask == Peers(n) \ mnsync[n] IN
    /\ n \notin Lite
    /\ ~ibd[n]
    /\ RequestedMasterNodeList[n] < MaxRequested
    /\ ask # {}
    /\ mnsync' = [mnsync EXCEPT ![n] = @ \cup ask]
    /\ RequestedMasterNodeList' = [RequestedMasterNodeList EXCEPT ![n] = @ - Cardinality(ask)]
    /\ chan' = [l \in Link |-> IF l[1] = n /\ l[2] \in ask
                               THEN Append(chan[l], [type |-> "getsporks"]) ELSE chan[l]]
    /\ UNCHANGED <<now, signed, nodeVars, updating, askVars, ibd, banned, missed>>

\* ThreadBitPool, every 5 seconds: getsporks to every peer not asked yet.
AskSporks(n) ==
    LET ask == Peers(n) \ mnsync[n] IN
    /\ n \notin Lite
    /\ ~ibd[n]
    /\ RequestedMasterNodeList[n] < MaxRequested
    /\ ask # {}
    /\ mnsync' = [mnsync EXCEPT ![n] = @ \cup ask]
    /\ RequestedMasterNodeList' = [RequestedMasterNodeList EXCEPT ![n] = @ + Cardinality(ask)]
    /\ chan' = [l \in Link |-> IF l[1] = n /\ l[2] \in ask
                               THEN Append(chan[l], [type |-> "getsporks"]) ELSE chan[l]]
    /\ UNCHANGED <<now, signed, nodeVars, updating, askVars, ibd, banned, missed>>

\* IsInitialBlockDownload turns false for good.
FinishIBD(n) ==
    /\ ibd[n]
    /\ ibd' = [ibd EXCEPT ![n] = FALSE]
    /\ UNCHANGED <<now, signed, nodeVars, updating, askVars, mnsync,
                   RequestedMasterNodeList, banned, chan, missed>>

Tick ==
    /\ now < MaxTime
    /\ now' = now + 1
    /\ UNCHANGED <<signed, nodeVars, updating, askVars, syncVars, banned, chan, missed>>
----------------------------------------------------------------------------
Next ==
    \/ \E n \in Node, id \in SporkID, v \in Value, pad \in Pad : UpdateSpork(n, id, v, pad)
    \/ \E n \in Node : UpdateSporkStore(n)
    \/ \E n, p \in Node : ProcessSpork(n, p)
    \/ \E n \in Node, s \in Foreign : ProcessForeignSpork(n, s)
    \/ \E n, p \in Node : ProcessGetSporks(n, p)
    \/ \E n, p \in Node : ProcessInv(n, p)
    \/ \E n, p \in Node : \E hash \in mapAskFor[n][p] : SendGetData(n, p, hash)
    \/ \E n, p \in Node : ProcessGetData(n, p)
    \/ \E n \in Node : AskSporks(n)
    \/ \E n \in Node : FinishIBD(n)
    \/ Tick

Spec == Init /\ [][Next]_vars

\* What the threads of n do, and the RPC call under way.
Work(n) ==
    \/ UpdateSporkStore(n) \/ AskSporks(n) \/ FinishIBD(n)
    \/ \E p \in Node :
          \/ ProcessSpork(n, p) \/ ProcessGetSporks(n, p) \/ ProcessInv(n, p) \/ ProcessGetData(n, p)
          \/ \E hash \in mapAskFor[n][p] : SendGetData(n, p, hash)

\* Connections deliver, and a node that has something to do does something.
Fairness == \A n \in Node : WF_vars(Work(n))

FairSpec == Spec /\ Fairness
----------------------------------------------------------------------------
\* Every variable has the type of what it stands for.
TypeOK ==
    /\ now \in Nat
    /\ signed \in SUBSET SporkMessage
    /\ mapSporks \in [Node -> SUBSET Hash]
    /\ mapSporksActive \in [Node -> [SporkID -> SporkMessage \cup {NoSpork}]]
    /\ updating \in [Node -> Hash \cup {NoSpork}]
    /\ setAskFor \in [Node -> [Node -> SUBSET Hash]]
    /\ mapAskFor \in [Node -> [Node -> SUBSET Hash]]
    /\ ibd \in [Node -> BOOLEAN]
    /\ mnsync \in [Node -> SUBSET Node]
    /\ RequestedMasterNodeList \in [Node -> Nat]
    /\ banned \in SUBSET Node
    /\ chan \in [Link -> Seq(Message)]
    /\ missed \in BOOLEAN

\* A spork in force anywhere was signed with the master key, is filed under
\* its own id, and can be served by the node that has it in force: an inv
\* sent by Relay can be followed up (ProcessSpork, ProcessGetData).
ActiveIsSignedAndServed ==
    \A n \in Node, id \in SporkID :
        LET s == mapSporksActive[n][id] IN
        s # NoSpork => s \in signed /\ s.id = id /\ \E hash \in mapSporks[n] : hash.spork = s

\* With one signer, the spork in force for an id is never replaced at any
\* node by one signed earlier, although UpdateSpork overwrites it without
\* comparing times and messages overtake each other on different routes.
NeverBackInTime ==
    [][\A n \in Node, id \in SporkID :
         LET s == mapSporksActive[n][id]
             t == mapSporksActive'[n][id]
         IN  s # NoSpork => t # NoSpork /\ t.time >= s.time]_vars

\* No two sporks of an id carry the same second.
NoTie == \A s, t \in signed : s.id = t.id /\ s.time = t.time => s = t

\* Every node that takes part holds the newest spork signed.
InForceEverywhere ==
    \A s \in signed :
        (\A t \in signed : t.id = s.id => t.time <= s.time)
            => \A n \in Node \ Lite : mapSporksActive[n][s.id] = s

\* No message is in flight and no node has anything left to do (Work).
Quiet ==
    /\ \A l \in Link : chan[l] = <<>>
    /\ \A n \in Node :
          /\ updating[n] = NoSpork /\ ~ibd[n]
          /\ \A p \in Node : mapAskFor[n][p] = {}
          /\ \/ n \in Lite \/ RequestedMasterNodeList[n] >= MaxRequested
             \/ Peers(n) \subseteq mnsync[n]

\* The network never comes to rest on an old spork: when nothing is under way
\* any more, every node has the newest one, unless two were signed in the same
\* second or a request was answered between the relay and the store of
\* UpdateSpork.  An inv dropped in initial block download is made good by the
\* getsporks after it, and a hash is never marked as asked for (setAskFor)
\* without its spork coming.
QuietIsSettled == Quiet /\ NoTie /\ ~missed => InForceEverywhere

\* Every node ends up with the newest spork of each id in force, unless two
\* were signed in the same second or a request was answered between the relay
\* and the store of UpdateSpork: relay, requests to several peers and the
\* getsporks of a node that was in initial block download together lose
\* nothing.
Convergence == <>[](NoTie /\ ~missed => InForceEverywhere)
============================================================================
