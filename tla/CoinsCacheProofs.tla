-------------------------- MODULE CoinsCacheProofs --------------------------
(***************************************************************************)
(* Proofs about CoinsCache, for any transactions, outputs and blocks.      *)
(***************************************************************************)
EXTENDS CoinsCache, TLAPS

Coins == SUBSET Output

\* What GetCoins may return.
Got == Coins \cup {NoCoins}

LEMMA Distinct ==
    /\ NoBlock \notin Block
    /\ NoEntry \notin Entry
    /\ NoCoins \notin Coins
BY CoinsAssumption, Zenon DEF Entry, Coins

LEMMA EntryFields ==
    \A e \in Entry : /\ e.coins \in Coins /\ e.dirty \in BOOLEAN /\ e.fresh \in BOOLEAN
                     /\ e # NoEntry
BY Distinct, Zenon DEF Entry, Coins

LEMMA MakeEntry ==
    ASSUME NEW outs \in Coins, NEW d \in BOOLEAN, NEW f \in BOOLEAN
    PROVE  [coins |-> outs, dirty |-> d, fresh |-> f] \in Entry
BY Zenon DEF Entry, Coins

LEMMA ShowsType ==
    ASSUME NEW e \in Entry \cup {NoEntry}, NEW base \in Coins
    PROVE  Shows(e, base) \in Coins
BY EntryFields, Zenon DEF Shows

LEMMA Shown ==
    ASSUME TypeOK, NEW t \in Txid
    PROVE  /\ db[t] \in Coins
           /\ tip[t] \in Entry \cup {NoEntry}
           /\ view[t] \in Entry \cup {NoEntry}
           /\ TipShows(t) \in Coins
           /\ ViewShows(t) \in Coins
<1>1. db[t] \in Coins /\ tip[t] \in Entry \cup {NoEntry} /\ view[t] \in Entry \cup {NoEntry}
  BY Zenon DEF TypeOK, Cache, Coins
<1>2. TipShows(t) \in Coins
  BY <1>1, ShowsType, Zenon DEF TipShows
<1> QED BY <1>1, <1>2, ShowsType, Zenon DEF ViewShows

LEMMA EmptyIsCache == Empty \in Cache /\ \A t \in Txid : Empty[t] = NoEntry
BY Zenon DEF Empty, Cache

\* FetchCoins fills in what the base shows and changes nothing that is shown.
LEMMA Fetched ==
    ASSUME NEW c \in Cache, NEW t \in Txid, NEW got \in Got, NEW base \in Coins,
           got = NoCoins => base = {},
           got # NoCoins => got = base,
           Sound(c[t], base)
    PROVE  /\ FetchCoins(c, t, got) \in Cache
           /\ \A s \in Txid \ {t} : FetchCoins(c, t, got)[s] = c[s]
           /\ Sound(FetchCoins(c, t, got)[t], base)
           /\ Shows(FetchCoins(c, t, got)[t], base) = Shows(c[t], base)
           /\ FetchCoins(c, t, got)[t] = NoEntry => Shows(c[t], base) = {}
<1>1. CASE c[t] # NoEntry \/ got = NoCoins
  BY <1>1, Zenon DEF FetchCoins, Shows
<1>2. CASE ~(c[t] # NoEntry \/ got = NoCoins)
  <2> DEFINE e == [coins |-> got, dirty |-> FALSE, fresh |-> got = {}]
  <2>1. got \in Coins /\ got = base
    BY <1>2, Zenon DEF Got
  <2>2. e \in Entry /\ e # NoEntry
    BY <2>1, MakeEntry, EntryFields, Zenon
  <2>3. e.coins = base /\ (e.fresh => base = {})
    BY <2>1, Zenon
  <2>4. FetchCoins(c, t, got) = [c EXCEPT ![t] = e]
    BY <1>2, Zenon DEF FetchCoins
  <2> HIDE DEF e
  <2>5. /\ FetchCoins(c, t, got) \in Cache
        /\ \A s \in Txid \ {t} : FetchCoins(c, t, got)[s] = c[s]
        /\ FetchCoins(c, t, got)[t] = e
    BY <2>2, <2>4, Zenon DEF Cache
  <2>6. Sound(e, base) /\ Shows(e, base) = base /\ Shows(c[t], base) = base
    BY <1>2, <2>2, <2>3, Zenon DEF Sound, Shows
  <2> QED BY <2>2, <2>5, <2>6, Zenon
<1> QED BY <1>1, <1>2, Zenon

\* pcoinsTip answers with what it shows; asking it changes nothing that is
\* shown.
LEMMA TipAnswers ==
    ASSUME TypeOK, FlagsAreSound, NEW t \in Txid
    PROVE  /\ TipFetched(t) \in Cache
           /\ \A s \in Txid : /\ Sound(TipFetched(t)[s], db[s])
                              /\ Shows(TipFetched(t)[s], db[s]) = TipShows(s)
           /\ TipGetCoins(t) \in Got
           /\ TipGetCoins(t) = NoCoins => TipShows(t) = {}
           /\ TipGetCoins(t) # NoCoins => TipGetCoins(t) = TipShows(t)
<1>1. tip \in Cache /\ db[t] \in Coins
  BY Shown, Zenon DEF TypeOK
<1>2. /\ DbGetCoins(t) \in Got
      /\ DbGetCoins(t) = NoCoins => db[t] = {}
      /\ DbGetCoins(t) # NoCoins => DbGetCoins(t) = db[t]
  BY <1>1, Distinct, Zenon DEF DbGetCoins, Got
<1>3. Sound(tip[t], db[t])
  BY Zenon DEF FlagsAreSound
<1>4. /\ TipFetched(t) \in Cache
      /\ \A s \in Txid \ {t} : TipFetched(t)[s] = tip[s]
      /\ Sound(TipFetched(t)[t], db[t])
      /\ Shows(TipFetched(t)[t], db[t]) = TipShows(t)
      /\ TipFetched(t)[t] = NoEntry => TipShows(t) = {}
  <2>1. PICK got : got = DbGetCoins(t)
    BY Zenon
  <2>a. got \in Got /\ (got = NoCoins => db[t] = {}) /\ (got # NoCoins => got = db[t])
    BY <1>2, <2>1, Zenon
  <2>2. /\ FetchCoins(tip, t, got) \in Cache
        /\ \A s \in Txid \ {t} : FetchCoins(tip, t, got)[s] = tip[s]
        /\ Sound(FetchCoins(tip, t, got)[t], db[t])
        /\ Shows(FetchCoins(tip, t, got)[t], db[t]) = Shows(tip[t], db[t])
        /\ FetchCoins(tip, t, got)[t] = NoEntry => Shows(tip[t], db[t]) = {}
    BY <1>1, <1>3, <2>a, Fetched, SMTT(30)
  <2>3. TipFetched(t) = FetchCoins(tip, t, got) /\ TipShows(t) = Shows(tip[t], db[t])
    BY <2>1, Zenon DEF TipFetched, TipShows
  <2> QED BY <2>2, <2>3, Zenon
<1>5. \A s \in Txid : /\ Sound(TipFetched(t)[s], db[s])
                      /\ Shows(TipFetched(t)[s], db[s]) = TipShows(s)
  BY <1>4, Zenon DEF FlagsAreSound, TipShows
<1>6. TipFetched(t)[t] \in Entry \cup {NoEntry}
  BY <1>4, Zenon DEF Cache
<1>7. CASE TipFetched(t)[t] = NoEntry
  BY <1>4, <1>5, <1>7, Zenon DEF TipGetCoins, Got
<1>8. CASE TipFetched(t)[t] # NoEntry
  <2>1. TipGetCoins(t) = TipShows(t)
    BY <1>4, <1>8, Zenon DEF TipGetCoins, Shows
  <2>2. TipGetCoins(t) \in Coins
    BY <1>6, <1>8, EntryFields, Zenon DEF TipGetCoins
  <2> QED BY <1>4, <1>5, <2>1, <2>2, Distinct, Zenon DEF Got
<1> QED BY <1>7, <1>8, Zenon

\* The end of a modifier: the base is not hidden by a dropped entry.
LEMMA Released ==
    ASSUME NEW c \in Cache, NEW t \in Txid, NEW e \in Entry, NEW base \in Coins,
           e.dirty, e.fresh => base = {}
    PROVE  /\ Release(c, t, e) \in Cache
           /\ \A s \in Txid \ {t} : Release(c, t, e)[s] = c[s]
           /\ Sound(Release(c, t, e)[t], base)
           /\ Shows(Release(c, t, e)[t], base) = e.coins
<1> DEFINE x == IF e.fresh /\ e.coins = {} THEN NoEntry ELSE e
<1>1. x \in Entry \cup {NoEntry}
  BY Zenon
<1>2. Sound(x, base) /\ Shows(x, base) = e.coins
  BY EntryFields, Zenon DEF Sound, Shows
<1>3. Release(c, t, e) = [c EXCEPT ![t] = x]
  BY Zenon DEF Release
<1> HIDE DEF x
<1>4. /\ Release(c, t, e) \in Cache
      /\ \A s \in Txid \ {t} : Release(c, t, e)[s] = c[s]
      /\ Release(c, t, e)[t] = x
  BY <1>1, <1>3, Zenon DEF Cache
<1> QED BY <1>2, <1>4, Zenon

----------------------------------------------------------------------------
(* The inductive invariant: there is nothing in a view that is not open.   *)

Closed == ~open => view = Empty
Inv == TypeOK /\ FlagsAreSound /\ Closed

\* Entries that show what they showed, over the same database, are sound.
LEMMA TipFills ==
    ASSUME Inv, NEW t \in Txid, db' = db, tip' \in {tip, TipFetched(t)}
    PROVE  /\ tip' \in Cache
           /\ \A s \in Txid : Sound(tip[s], db[s])' /\ TipShows(s)' = TipShows(s)
<1>1. CASE tip' = tip
  BY <1>1, Zenon DEF Inv, TypeOK, FlagsAreSound, TipShows
<1>2. CASE tip' = TipFetched(t)
  BY <1>2, TipAnswers, Zenon DEF Inv, TipShows
<1> QED BY <1>1, <1>2, Zenon

\* A step in which the view changes what it shows of t and nothing else.
LEMMA ChangesOne ==
    ASSUME NEW t \in Txid, NEW outs \in Coins, open,
           UNCHANGED <<open, db, dbBest, tipBest>>,
           \A s \in Txid : TipShows(s)' = TipShows(s),
           \A s \in Txid \ {t} : ViewShows(s)' = ViewShows(s),
           ViewShows(t)' = outs
    PROVE  Flat!Change
<1> DEFINE work == [s \in Txid |-> ViewShows(s)]
           utxo == [s \in Txid |-> TipShows(s)]
           best == IF tipBest = NoBlock THEN dbBest ELSE tipBest
<1>1. work' = [work EXCEPT ![t] = outs]
  BY Zenon
<1>2. utxo' = utxo /\ best' = best
  BY Zenon
<1> QED BY <1>1, <1>2, Zenon DEF Flat!Change, Coins

\* A view whose only new entry, of t, is sound.
LEMMA ViewSound ==
    ASSUME Inv, NEW t \in Txid, db' = db, tip' \in {tip, TipFetched(t)},
           view' \in Cache, \A s \in Txid \ {t} : view'[s] = view[s],
           Sound(view'[t], TipShows(t))
    PROVE  /\ FlagsAreSound'
           /\ \A s \in Txid : TipShows(s)' = TipShows(s)
           /\ \A s \in Txid \ {t} : ViewShows(s)' = ViewShows(s)
           /\ ViewShows(t)' = Shows(view'[t], TipShows(t))
<1>1. \A s \in Txid : Sound(tip[s], db[s])' /\ TipShows(s)' = TipShows(s)
  BY TipFills, Zenon
<1>2. \A s \in Txid : Sound(view'[s], TipShows(s))
  BY Zenon DEF Inv, FlagsAreSound
<1>3. \A s \in Txid : Sound(view[s], TipShows(s))'
  BY <1>1, <1>2, Zenon
<1>4. FlagsAreSound'
  BY <1>1, <1>3, Zenon DEF FlagsAreSound
<1> QED BY <1>1, <1>4, Zenon DEF ViewShows
----------------------------------------------------------------------------
(* One lemma per action: the invariant is kept, and the flat view makes a  *)
(* step.                                                                   *)

LEMMA OpenStep ==
    ASSUME Inv, OpenView
    PROVE  Inv' /\ Flat!Open
<1>1. view = Empty /\ view' = view /\ open' = TRUE /\ open = FALSE
  BY Zenon DEF Inv, Closed, OpenView, TypeOK
<1>2. tip' = tip /\ db' = db /\ dbBest' = dbBest
  BY Zenon DEF OpenView
<1>3. TypeOK'
  BY <1>1, <1>2, Zenon DEF Inv, TypeOK, OpenView
<1>4. FlagsAreSound'
  BY <1>1, <1>2, Zenon DEF Inv, FlagsAreSound, TipShows
<1>5. (IF tipBest = NoBlock THEN dbBest ELSE tipBest)' = IF tipBest = NoBlock THEN dbBest ELSE tipBest
  BY <1>2, Distinct, Zenon DEF OpenView, Inv, TypeOK
<1>6. /\ [t \in Txid |-> ViewShows(t)]' = [t \in Txid |-> ViewShows(t)]
      /\ [t \in Txid |-> TipShows(t)]' = [t \in Txid |-> TipShows(t)]
  BY <1>1, <1>2, Zenon DEF ViewShows, TipShows
<1>7. Flat!Open
  BY <1>1, <1>2, <1>5, <1>6, Zenon DEF Flat!Open
<1> QED BY <1>1, <1>3, <1>4, <1>7, Zenon DEF Inv, Closed

LEMMA AccessStep ==
    ASSUME Inv, NEW t \in Txid, AccessCoins(t)
    PROVE  Inv' /\ UNCHANGED Flat!vars
<1>0. open /\ UNCHANGED <<db, dbBest, tipBest, open>>
  BY Zenon DEF AccessCoins
<1>1. CASE view[t] # NoEntry
  <2>1. UNCHANGED <<tip, view>>
    BY <1>1, Zenon DEF AccessCoins
  <2> QED BY <1>0, <2>1, Zenon DEF Inv, TypeOK, FlagsAreSound, Closed, Flat!vars, ViewShows, TipShows
<1>2. CASE view[t] = NoEntry
  <2>1. tip' = TipFetched(t) /\ view' = FetchCoins(view, t, TipGetCoins(t))
    BY <1>2, Zenon DEF AccessCoins
  <2>2. view \in Cache /\ TipShows(t) \in Coins /\ Sound(view[t], TipShows(t))
    BY Shown, Zenon DEF Inv, TypeOK, FlagsAreSound
  <2>3. /\ view' \in Cache
        /\ \A s \in Txid \ {t} : view'[s] = view[s]
        /\ Sound(view'[t], TipShows(t))
        /\ Shows(view'[t], TipShows(t)) = Shows(view[t], TipShows(t))
    BY <2>1, <2>2, TipAnswers, Fetched DEF Inv
  <2>4. /\ FlagsAreSound'
        /\ \A s \in Txid : TipShows(s)' = TipShows(s)
        /\ \A s \in Txid : ViewShows(s)' = ViewShows(s)
    BY <1>0, <2>1, <2>3, ViewSound, Zenon DEF ViewShows
  <2>5. TypeOK'
    BY <1>0, <2>1, <2>3, TipAnswers, Zenon DEF Inv, TypeOK
  <2>6. UNCHANGED Flat!vars
    BY <1>0, <2>4, Zenon DEF Flat!vars
  <2> QED BY <1>0, <2>4, <2>5, <2>6, Zenon DEF Inv, Closed
<1> QED BY <1>1, <1>2, Zenon

LEMMA AccessTipStep ==
    ASSUME Inv, NEW t \in Txid, AccessTipCoins(t)
    PROVE  Inv' /\ UNCHANGED Flat!vars
<1>0. tip' = TipFetched(t) /\ UNCHANGED <<db, dbBest, tipBest, open, view>>
  BY Zenon DEF AccessTipCoins
<1>1. view' \in Cache /\ Sound(view'[t], TipShows(t))
  BY <1>0, Zenon DEF Inv, TypeOK, FlagsAreSound
<1>2. /\ FlagsAreSound'
      /\ \A s \in Txid : TipShows(s)' = TipShows(s)
      /\ \A s \in Txid : ViewShows(s)' = ViewShows(s)
  BY <1>0, <1>1, ViewSound, Zenon DEF ViewShows
<1>3. TypeOK'
  BY <1>0, TipAnswers, Zenon DEF Inv, TypeOK
<1>4. UNCHANGED Flat!vars
  BY <1>0, <1>2, Zenon DEF Flat!vars
<1> QED BY <1>0, <1>2, <1>3, <1>4, Zenon DEF Inv, Closed

LEMMA ModifyStep ==
    ASSUME Inv, NEW t \in Txid, NEW outs \in Coins, ModifyTo(t, outs)
    PROVE  Inv' /\ Flat!Change
<1> DEFINE old == ModifyCoins(view, t, TipGetCoins(t))
           e == [old EXCEPT !.coins = outs]
<1>0. open /\ UNCHANGED <<db, dbBest, tipBest, open>> /\ view' = Release(view, t, e)
  BY Zenon DEF ModifyTo
<1>1. tip' \in {tip, TipFetched(t)}
  BY Zenon DEF ModifyTo
<1>2. view \in Cache /\ TipShows(t) \in Coins /\ Sound(view[t], TipShows(t))
  BY Shown, Zenon DEF Inv, TypeOK, FlagsAreSound
<1>3. old \in Entry /\ old.dirty /\ (old.fresh => TipShows(t) = {})
  <2>1. CASE view[t] # NoEntry
    <3>1. view[t] \in Entry /\ (view[t].fresh => TipShows(t) = {})
      BY <1>2, <2>1, Zenon DEF Cache, Sound
    <3> QED BY <2>1, <3>1, Zenon DEF ModifyCoins, Entry
  <2>2. CASE view[t] = NoEntry /\ TipGetCoins(t) \in {NoCoins, {}}
    <3>1. TipShows(t) = {}
      BY <2>2, TipAnswers, Distinct, Zenon DEF Inv
    <3> QED BY <2>2, <3>1, Zenon DEF ModifyCoins, Entry
  <2>3. CASE view[t] = NoEntry /\ TipGetCoins(t) \notin {NoCoins, {}}
    <3>1. TipGetCoins(t) \in Coins
      BY <2>3, TipAnswers, Zenon DEF Inv, Got
    <3> QED BY <2>3, <3>1, Zenon DEF ModifyCoins, Entry, Coins
  <2> QED BY <2>1, <2>2, <2>3, Zenon
<1> HIDE DEF old
<1>4. e \in Entry /\ e.dirty /\ (e.fresh => TipShows(t) = {}) /\ e.coins = outs
  BY <1>3, Zenon DEF Entry, Coins
<1> HIDE DEF e
<1>5. /\ view' \in Cache
      /\ \A s \in Txid \ {t} : view'[s] = view[s]
      /\ Sound(view'[t], TipShows(t))
      /\ Shows(view'[t], TipShows(t)) = outs
  BY <1>0, <1>2, <1>4, Released
<1>6. /\ FlagsAreSound'
      /\ \A s \in Txid : TipShows(s)' = TipShows(s)
      /\ \A s \in Txid \ {t} : ViewShows(s)' = ViewShows(s)
      /\ ViewShows(t)' = outs
  BY <1>0, <1>1, <1>5, ViewSound, Zenon
<1>7. TypeOK'
  BY <1>0, <1>1, <1>5, TipFills, Zenon DEF Inv, TypeOK
<1>8. Flat!Change
  BY <1>0, <1>6, ChangesOne, Zenon
<1> QED BY <1>0, <1>6, <1>7, <1>8, Zenon DEF Inv, Closed

LEMMA AddStep ==
    ASSUME Inv, NEW t \in Txid, NEW outs \in Coins, AddOutputs(t, outs)
    PROVE  Inv' /\ Flat!Change
<1> DEFINE new == ModifyNewCoins(view, t)
           e == [new EXCEPT !.coins = outs]
<1>0. open /\ UNCHANGED <<db, dbBest, tip, tipBest, open>> /\ view' = Release(view, t, e)
  BY Zenon DEF AddOutputs
<1>1. t \in Coinbase \/ ViewShows(t) = {}
  BY Zenon DEF AddOutputs
<1>2. view \in Cache /\ TipShows(t) \in Coins /\ Sound(view[t], TipShows(t))
  BY Shown, Zenon DEF Inv, TypeOK, FlagsAreSound
<1>3. new \in Entry /\ new.dirty /\ (new.fresh => TipShows(t) = {})
  <2>1. CASE view[t] = NoEntry
    <3>1. t \notin Coinbase => TipShows(t) = {}
      BY <1>1, <2>1, Zenon DEF ViewShows, Shows
    <3> QED BY <2>1, <3>1, Zenon DEF ModifyNewCoins, Entry
  <2>2. CASE view[t] # NoEntry
    <3>1. view[t] \in Entry /\ view[t].fresh \in BOOLEAN /\ view[t].dirty \in BOOLEAN
      BY <1>2, <2>2, EntryFields, Zenon DEF Cache
    <3>2. view[t].fresh => TipShows(t) = {}
      BY <1>2, <2>2, Zenon DEF Sound
    <3>3. t \notin Coinbase /\ ~view[t].dirty => TipShows(t) = {}
      BY <1>1, <1>2, <2>2, Zenon DEF Sound, ViewShows, Shows
    <3> QED BY <2>2, <3>1, <3>2, <3>3, Zenon DEF ModifyNewCoins, Entry
  <2> QED BY <2>1, <2>2, Zenon
<1> HIDE DEF new
<1>4. e \in Entry /\ e.dirty /\ (e.fresh => TipShows(t) = {}) /\ e.coins = outs
  BY <1>3, Zenon DEF Entry, Coins
<1> HIDE DEF e
<1>5. /\ view' \in Cache
      /\ \A s \in Txid \ {t} : view'[s] = view[s]
      /\ Sound(view'[t], TipShows(t))
      /\ Shows(view'[t], TipShows(t)) = outs
  BY <1>0, <1>2, <1>4, Released
<1>6. /\ FlagsAreSound'
      /\ \A s \in Txid : TipShows(s)' = TipShows(s)
      /\ \A s \in Txid \ {t} : ViewShows(s)' = ViewShows(s)
      /\ ViewShows(t)' = outs
  BY <1>0, <1>5, ViewSound, Zenon
<1>7. TypeOK'
  BY <1>0, <1>5, Zenon DEF Inv, TypeOK
<1>8. Flat!Change
  BY <1>0, <1>6, ChangesOne, Zenon
<1> QED BY <1>0, <1>6, <1>7, <1>8, Zenon DEF Inv, Closed

\* BatchWrite makes the parent show what the child showed, and keeps the
\* parent's flags sound.
LEMMA Merged ==
    ASSUME NEW u \in Entry \cup {NoEntry}, NEW e \in Entry \cup {NoEntry}, NEW base \in Coins,
           Sound(u, base), Sound(e, Shows(u, base))
    PROVE  /\ BatchWrite(u, e) \in Entry \cup {NoEntry}
           /\ Sound(BatchWrite(u, e), base)
           /\ Shows(BatchWrite(u, e), base) = Shows(e, Shows(u, base))
<1>1. CASE e = NoEntry
  BY <1>1, Zenon DEF BatchWrite, Shows
<1>2. CASE e # NoEntry /\ ~e.dirty
  <2>1. e.coins = Shows(u, base)
    BY <1>2, Zenon DEF Sound
  <2>2. BatchWrite(u, e) = u
    BY <1>2, Zenon DEF BatchWrite
  <2>3. Shows(e, Shows(u, base)) = e.coins
    BY <1>2, Zenon DEF Shows
  <2> QED BY <2>1, <2>2, <2>3, Zenon
<1>3. CASE e # NoEntry /\ e.dirty /\ u = NoEntry
  <2>1. e \in Entry /\ (e.fresh => base = {})
    BY <1>3, Zenon DEF Sound, Shows
  <2>2. BatchWrite(u, e) = IF e.fresh /\ e.coins = {} THEN NoEntry ELSE e
    BY <1>3, Zenon DEF BatchWrite
  <2> QED BY <1>3, <2>1, <2>2, EntryFields, Zenon DEF Sound, Shows
<1>4. CASE e # NoEntry /\ e.dirty /\ u # NoEntry
  <2>1. e \in Entry /\ u \in Entry /\ (u.fresh => base = {})
    BY <1>4, Zenon DEF Sound
  <2>2. CASE u.fresh /\ e.coins = {}
    <3>1. BatchWrite(u, e) = NoEntry
      BY <1>4, <2>2, Zenon DEF BatchWrite
    <3> QED BY <1>4, <2>1, <2>2, <3>1, Zenon DEF Sound, Shows
  <2>3. CASE ~(u.fresh /\ e.coins = {})
    <3> DEFINE m == [u EXCEPT !.coins = e.coins, !.dirty = TRUE]
    <3>1. BatchWrite(u, e) = m
      BY <1>4, <2>3, Zenon DEF BatchWrite
    <3>2. m \in Entry /\ m.coins = e.coins /\ m.dirty = TRUE /\ m.fresh = u.fresh
      BY <2>1, Zenon DEF Entry
    <3> HIDE DEF m
    <3> QED BY <1>4, <2>1, <3>1, <3>2, EntryFields, Zenon DEF Sound, Shows
  <2> QED BY <2>2, <2>3, Zenon
<1> QED BY <1>1, <1>2, <1>3, <1>4, EntryFields, Zenon

LEMMA FlushViewStep ==
    ASSUME Inv, NEW b \in Block, FlushView(b)
    PROVE  Inv' /\ Flat!Commit
<1>0. /\ open /\ open' = FALSE /\ view' = Empty /\ tipBest' = b
      /\ tip' = [t \in Txid |-> BatchWrite(tip[t], view[t])]
      /\ db' = db /\ dbBest' = dbBest
  BY Zenon DEF FlushView
<1>1. \A t \in Txid : /\ tip'[t] \in Entry \cup {NoEntry}
                       /\ Sound(tip'[t], db[t])
                       /\ Shows(tip'[t], db[t]) = ViewShows(t)
  <2> SUFFICES ASSUME NEW t \in Txid
               PROVE  /\ tip'[t] \in Entry \cup {NoEntry}
                      /\ Sound(tip'[t], db[t])
                      /\ Shows(tip'[t], db[t]) = ViewShows(t)
    BY Zenon
  <2>1. tip'[t] = BatchWrite(tip[t], view[t])
    BY <1>0, Zenon
  <2>2. Sound(tip[t], db[t]) /\ Sound(view[t], Shows(tip[t], db[t]))
    BY Zenon DEF Inv, FlagsAreSound, TipShows
  <2> QED BY <2>1, <2>2, Shown, Merged DEF Inv, ViewShows, TipShows
<1>2. TypeOK'
  BY <1>0, <1>1, EmptyIsCache, Zenon DEF Inv, TypeOK, Cache
<1>3. \A t \in Txid : TipShows(t)' = ViewShows(t) /\ ViewShows(t)' = ViewShows(t)
  BY <1>0, <1>1, EmptyIsCache, Zenon DEF TipShows, ViewShows, Shows
<1>4. FlagsAreSound'
  BY <1>0, <1>1, EmptyIsCache, Zenon DEF FlagsAreSound, Sound
<1>5. (IF tipBest = NoBlock THEN dbBest ELSE tipBest)' \in Block
  BY <1>0, Distinct, Zenon
<1>6. /\ [t \in Txid |-> ViewShows(t)]' = [t \in Txid |-> ViewShows(t)]
      /\ [t \in Txid |-> TipShows(t)]' = [t \in Txid |-> ViewShows(t)]
  BY <1>3, Zenon
<1>7. Flat!Commit
  BY <1>0, <1>5, <1>6, Zenon DEF Flat!Commit
<1> QED BY <1>0, <1>2, <1>4, <1>7, Zenon DEF Inv, Closed

LEMMA DropViewStep ==
    ASSUME Inv, DropView
    PROVE  Inv' /\ Flat!Discard
<1>0. open /\ open' = FALSE /\ view' = Empty /\ UNCHANGED <<db, dbBest, tip, tipBest>>
  BY Zenon DEF DropView
<1>1. TypeOK'
  BY <1>0, EmptyIsCache, Zenon DEF Inv, TypeOK
<1>2. FlagsAreSound'
  BY <1>0, EmptyIsCache, Zenon DEF Inv, FlagsAreSound, Sound
<1>3. \A t \in Txid : TipShows(t)' = TipShows(t) /\ ViewShows(t)' = TipShows(t)
  BY <1>0, EmptyIsCache, Zenon DEF TipShows, ViewShows, Shows
<1>4. /\ [t \in Txid |-> ViewShows(t)]' = [t \in Txid |-> TipShows(t)]
      /\ [t \in Txid |-> TipShows(t)]' = [t \in Txid |-> TipShows(t)]
  BY <1>3, Zenon
<1>5. Flat!Discard
  BY <1>0, <1>4, Zenon DEF Flat!Discard
<1> QED BY <1>0, <1>1, <1>2, <1>5, Zenon DEF Inv, Closed

\* What is not dirty is on disk already.
LEMMA FlushTipStep ==
    ASSUME Inv, FlushTip
    PROVE  Inv' /\ Flat!Save
<1>0. /\ ~open /\ view = Empty /\ tip' = Empty /\ UNCHANGED <<tipBest, open, view>>
      /\ db' = [t \in Txid |-> IF tip[t] # NoEntry /\ tip[t].dirty THEN tip[t].coins ELSE db[t]]
      /\ dbBest' = IF tipBest = NoBlock THEN dbBest ELSE tipBest
  BY Zenon DEF FlushTip, Inv, Closed
<1>1. \A t \in Txid : db'[t] = TipShows(t) /\ db'[t] \in Coins
  <2> SUFFICES ASSUME NEW t \in Txid PROVE db'[t] = TipShows(t) /\ db'[t] \in Coins
    BY Zenon
  <2>1. db'[t] = IF tip[t] # NoEntry /\ tip[t].dirty THEN tip[t].coins ELSE db[t]
    BY <1>0, Zenon
  <2>2. Sound(tip[t], db[t])
    BY Zenon DEF Inv, FlagsAreSound
  <2> QED BY <2>1, <2>2, Shown, Zenon DEF Inv, TipShows, Shows, Sound
<1>2. db' = [t \in Txid |-> TipShows(t)]
  BY <1>0, <1>1, Zenon
<1>3. TypeOK'
  BY <1>0, <1>1, <1>2, EmptyIsCache, Zenon DEF Inv, TypeOK, Coins
<1>4. FlagsAreSound'
  BY <1>0, EmptyIsCache, Zenon DEF FlagsAreSound, Sound
<1>5. \A t \in Txid : /\ TipShows(t)' = TipShows(t)
                       /\ ViewShows(t)' = TipShows(t) /\ ViewShows(t) = TipShows(t)
  BY <1>0, <1>1, EmptyIsCache, Zenon DEF TipShows, ViewShows, Shows
<1>6. /\ [t \in Txid |-> ViewShows(t)]' = [t \in Txid |-> ViewShows(t)]
      /\ [t \in Txid |-> TipShows(t)]' = [t \in Txid |-> TipShows(t)]
  BY <1>5, Zenon
<1>7. (IF tipBest = NoBlock THEN dbBest ELSE tipBest)' = IF tipBest = NoBlock THEN dbBest ELSE tipBest
  BY <1>0, Zenon
<1>8. Flat!Save
  BY <1>0, <1>2, <1>6, <1>7, Zenon DEF Flat!Save
<1> QED BY <1>0, <1>3, <1>4, <1>8, Zenon DEF Inv, Closed

LEMMA UncacheStep ==
    ASSUME Inv, NEW t \in Txid, Uncache(t)
    PROVE  Inv' /\ UNCHANGED Flat!vars
<1>0. /\ UNCHANGED <<db, dbBest, tipBest, open, view>>
      /\ tip[t] # NoEntry /\ ~tip[t].dirty
      /\ tip' = [tip EXCEPT ![t] = NoEntry]
  BY Zenon DEF Uncache
<1>1. /\ tip' \in Cache /\ tip'[t] = NoEntry
      /\ \A s \in Txid \ {t} : tip'[s] = tip[s]
  BY <1>0, Zenon DEF Inv, TypeOK, Cache
<1>2. \A s \in Txid : Sound(tip'[s], db[s]) /\ TipShows(s)' = TipShows(s)
  <2>1. tip[t].coins = db[t]
    BY <1>0, Zenon DEF Inv, FlagsAreSound, Sound
  <2>2. Sound(tip'[t], db[t]) /\ TipShows(t)' = TipShows(t)
    BY <1>0, <1>1, <2>1, Zenon DEF Sound, TipShows, Shows
  <2> QED BY <1>0, <1>1, <2>2, Zenon DEF Inv, FlagsAreSound, TipShows
<1>3. TypeOK'
  BY <1>0, <1>1, Zenon DEF Inv, TypeOK
<1>4. FlagsAreSound'
  BY <1>0, <1>2, Zenon DEF Inv, FlagsAreSound
<1>5. \A s \in Txid : ViewShows(s)' = ViewShows(s)
  BY <1>0, <1>2, Zenon DEF ViewShows
<1>6. UNCHANGED Flat!vars
  BY <1>0, <1>2, <1>5, Zenon DEF Flat!vars
<1> QED BY <1>0, <1>3, <1>4, <1>6, Zenon DEF Inv, Closed

LEMMA CrashStep ==
    ASSUME Inv, Crash
    PROVE  Inv' /\ Flat!Crash
<1>0. /\ tip' = Empty /\ view' = Empty /\ tipBest' = NoBlock /\ open' = FALSE
      /\ db' = db /\ dbBest' = dbBest
  BY Zenon DEF Crash
<1>1. TypeOK'
  BY <1>0, EmptyIsCache, Zenon DEF Inv, TypeOK
<1>2. FlagsAreSound'
  BY <1>0, EmptyIsCache, Zenon DEF FlagsAreSound, Sound
<1>3. \A t \in Txid : TipShows(t)' = db[t] /\ ViewShows(t)' = db[t]
  BY <1>0, EmptyIsCache, Zenon DEF TipShows, ViewShows, Shows
<1>4. db = [t \in Txid |-> db[t]]
  BY Zenon DEF Inv, TypeOK
<1>5. /\ [t \in Txid |-> ViewShows(t)]' = [t \in Txid |-> db[t]]
      /\ [t \in Txid |-> TipShows(t)]' = [t \in Txid |-> db[t]]
  BY <1>3, Zenon
<1>6. Flat!Crash
  BY <1>0, <1>4, <1>5, Zenon DEF Flat!Crash
<1> QED BY <1>0, <1>1, <1>2, <1>6, Zenon DEF Inv, Closed

LEMMA InitHolds ==
    ASSUME Init
    PROVE  Inv /\ Flat!Init
<1>0. /\ db = [t \in Txid |-> {}] /\ dbBest \in Block
      /\ tip = Empty /\ tipBest = NoBlock /\ open = FALSE /\ view = Empty
  BY Zenon DEF Init
<1>1. TypeOK
  BY <1>0, EmptyIsCache, Zenon DEF TypeOK
<1>2. FlagsAreSound
  BY <1>0, EmptyIsCache, Zenon DEF FlagsAreSound, Sound
<1>3. \A t \in Txid : TipShows(t) = db[t] /\ ViewShows(t) = db[t]
  BY <1>0, EmptyIsCache, Zenon DEF TipShows, ViewShows, Shows
<1>4. [t \in Txid |-> TipShows(t)] = db /\ [t \in Txid |-> ViewShows(t)] = db
  BY <1>0, <1>3, Zenon
<1>5. Flat!Init
  BY <1>0, <1>1, <1>4, Zenon DEF TypeOK, Flat!Init, Flat!Coins
<1> QED BY <1>0, <1>1, <1>2, <1>5, Zenon DEF Inv, Closed

LEMMA NextHolds ==
    ASSUME Inv, [Next]_vars
    PROVE  Inv' /\ [Flat!Next]_(Flat!vars)
<1>1. ASSUME OpenView PROVE Inv' /\ Flat!Next
  BY <1>1, OpenStep, Zenon DEF Flat!Next
<1>2. ASSUME NEW t \in Txid, AccessCoins(t) \/ AccessTipCoins(t) \/ Uncache(t)
      PROVE  Inv' /\ UNCHANGED Flat!vars
  BY <1>2, AccessStep, AccessTipStep, UncacheStep, Zenon
<1>3. ASSUME NEW t \in Txid, ClearOutputs(t) PROVE Inv' /\ Flat!Next
  <2>1. {} \in Coins /\ ModifyTo(t, {})
    BY <1>3, Zenon DEF ClearOutputs, Coins
  <2> QED BY <2>1, ModifyStep, Zenon DEF Flat!Next
<1>4. ASSUME NEW t \in Txid, NEW o \in Output, SpendInput(t, o) \/ ApplyTxInUndo(t, o)
      PROVE  Inv' /\ Flat!Next
  <2>1. ViewShows(t) \ {o} \in Coins /\ ViewShows(t) \cup {o} \in Coins
    BY Shown, Zenon DEF Inv, Coins
  <2>2. ModifyTo(t, ViewShows(t) \ {o}) \/ ModifyTo(t, ViewShows(t) \cup {o})
    BY <1>4, Zenon DEF SpendInput, ApplyTxInUndo
  <2> QED BY <2>1, <2>2, ModifyStep, Zenon DEF Flat!Next
<1>5. ASSUME NEW t \in Txid, NEW outs \in SUBSET Output, AddOutputs(t, outs)
      PROVE  Inv' /\ Flat!Next
  BY <1>5, AddStep, Zenon DEF Coins, Flat!Next
<1>6. ASSUME NEW b \in Block, FlushView(b) PROVE Inv' /\ Flat!Next
  BY <1>6, FlushViewStep, Zenon DEF Flat!Next
<1>7. ASSUME DropView \/ FlushTip \/ Crash PROVE Inv' /\ Flat!Next
  BY <1>7, DropViewStep, FlushTipStep, CrashStep, Zenon DEF Flat!Next
<1>8. ASSUME UNCHANGED vars PROVE Inv' /\ UNCHANGED Flat!vars
  BY <1>8, Zenon DEF vars, Inv, TypeOK, FlagsAreSound, Closed, Flat!vars, ViewShows, TipShows
<1> QED BY <1>1, <1>2, <1>3, <1>4, <1>5, <1>6, <1>7, <1>8, Zenon DEF Next
----------------------------------------------------------------------------
\* The flags of CCoinsCacheEntry are sound in every reachable state, and a
\* view that is not open has no entries.
THEOREM Inductive == Spec => []Inv
BY InitHolds, NextHolds, PTL DEF Spec

\* The coins of every level are sets of outputs and the best block on disk is
\* never null.
THEOREM TypeCorrect == Spec => []TypeOK
<1>1. Inv => TypeOK
  BY Zenon DEF Inv
<1> QED BY <1>1, Inductive, PTL

\* DIRTY and FRESH mean what coins.h says at both levels, whatever is read,
\* spent, restored, flushed, dropped or lost.
THEOREM FlagsSafe == Spec => []FlagsAreSound
<1>1. Inv => FlagsAreSound
  BY Zenon DEF Inv
<1> QED BY <1>1, Inductive, PTL

\* BatchWrite never throws its logic error.
THEOREM Throwless == Spec => []NeverThrows
<1>1. Inv => NeverThrows
  <2> SUFFICES ASSUME Inv, NEW t \in Txid, view[t] # NoEntry, tip[t] # NoEntry, view[t].fresh
               PROVE  tip[t].coins = {}
    BY Zenon DEF NeverThrows
  <2> QED BY Zenon DEF Inv, FlagsAreSound, Sound, TipShows, Shows
<1> QED BY <1>1, Inductive, PTL

\* The two caches and the database implement three plain maps.
THEOREM Implements == Spec => ImplementsView
BY InitHolds, NextHolds, Inductive, PTL DEF Spec, ImplementsView, Flat!Spec
=============================================================================
