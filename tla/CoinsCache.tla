----------------------------- MODULE CoinsCache -----------------------------
(***************************************************************************)
(* The unspent outputs: the database (CCoinsViewDB), the cache above it    *)
(* that lives as long as the node (pcoinsTip), and the cache above that in *)
(* which one block is connected or disconnected (`view` in ConnectTip,     *)
(* DisconnectTip and TestBlockValidity).  Everything here runs under       *)
(* cs_main.                                                                *)
(*                                                                         *)
(* The CCoins of a transaction are the set of its unspent outputs; they    *)
(* are pruned when that set is empty.  The database has no record of       *)
(* pruned coins: db[t] = {} stands for the missing record.                 *)
(***************************************************************************)
CONSTANTS
    Txid,       \* transactions
    Output,     \* positions of outputs
    Block,      \* blocks
    Coinbase,   \* those of Txid that are coinbases
    NoBlock,    \* the null hash
    NoEntry,    \* no entry in cacheCoins
    NoCoins     \* GetCoins returned false

ASSUME CoinsAssumption ==
    /\ Coinbase \subseteq Txid
    /\ NoBlock \notin Block
    /\ \A outs \in SUBSET Output : outs # NoCoins
    /\ \A e \in [coins : SUBSET Output, dirty : BOOLEAN, fresh : BOOLEAN] : e # NoEntry

VARIABLES
    db,         \* db[t]: the coins on disk
    dbBest,     \* DB_BEST_BLOCK
    tip,        \* tip[t]: entry of pcoinsTip's cacheCoins
    tipBest,    \* pcoinsTip's hashBlock
    open,       \* a view on pcoinsTip exists
    view        \* view[t]: entry of that view's cacheCoins

vars == <<db, dbBest, tip, tipBest, open, view>>

Entry == [coins : SUBSET Output, dirty : BOOLEAN, fresh : BOOLEAN]
Cache == [Txid -> Entry \cup {NoEntry}]
Empty == [t \in Txid |-> NoEntry]

Init ==
    /\ db = [t \in Txid |-> {}]
    /\ dbBest \in Block
    /\ tip = Empty /\ tipBest = NoBlock
    /\ open = FALSE /\ view = Empty
----------------------------------------------------------------------------
\* CCoinsViewDB::GetCoins
DbGetCoins(t) == IF db[t] = {} THEN NoCoins ELSE db[t]

\* CCoinsViewCache::FetchCoins on the cache c, above a view that answered got.
FetchCoins(c, t, got) ==
    IF c[t] # NoEntry \/ got = NoCoins THEN c
    ELSE [c EXCEPT ![t] = [coins |-> got, dirty |-> FALSE, fresh |-> got = {}]]

\* pcoinsTip->GetCoins: the cache it leaves and the answer it gives.
TipFetched(t) == FetchCoins(tip, t, DbGetCoins(t))
TipGetCoins(t) == IF TipFetched(t)[t] = NoEntry THEN NoCoins ELSE TipFetched(t)[t].coins

\* CCoinsViewCache::ModifyCoins: the entry handed to the caller.
ModifyCoins(c, t, got) ==
    IF c[t] # NoEntry THEN [c[t] EXCEPT !.dirty = TRUE]
    ELSE IF got = NoCoins \/ got = {} THEN [coins |-> {}, dirty |-> TRUE, fresh |-> TRUE]
    ELSE [coins |-> got, dirty |-> TRUE, fresh |-> FALSE]

\* Mutant: coinbases are marked fresh as well.
ModifyNewCoinsFresh(c, t) ==
    [coins |-> {}, dirty |-> TRUE,
     fresh |-> c[t] = NoEntry \/ c[t].fresh \/ ~c[t].dirty]

\* CCoinsViewCache::ModifyNewCoins: the base is not asked.  Only a coin that
\* is no coinbase is marked fresh, and only if the entry is not dirty.
ModifyNewCoins(c, t) ==
    [coins |-> {}, dirty |-> TRUE,
     fresh |-> \/ c[t] # NoEntry /\ c[t].fresh
               \/ t \notin Coinbase /\ (c[t] = NoEntry \/ ~c[t].dirty)]

\* CCoinsModifier's destructor: entry e with its new coins goes into c.
Release(c, t, e) ==
    [c EXCEPT ![t] = IF e.fresh /\ e.coins = {} THEN NoEntry ELSE e]

\* What a reader of the tip, or of the view, is told.
Shows(e, base) == IF e = NoEntry THEN base ELSE e.coins
TipShows(t) == Shows(tip[t], db[t])
ViewShows(t) == Shows(view[t], TipShows(t))
----------------------------------------------------------------------------
\* ConnectBlock and DisconnectBlock begin with a new view and ask it for its
\* best block, which each level takes from the one below.
OpenView ==
    /\ ~open /\ open' = TRUE
    /\ view' = Empty
    /\ tipBest' = IF tipBest = NoBlock THEN dbBest ELSE tipBest
    /\ UNCHANGED <<db, dbBest, tip>>

\* AccessCoins, HaveCoins and GetCoins of the view.
AccessCoins(t) ==
    /\ open
    /\ IF view[t] # NoEntry THEN UNCHANGED <<tip, view>>
       ELSE /\ tip' = TipFetched(t)
            /\ view' = FetchCoins(view, t, TipGetCoins(t))
    /\ UNCHANGED <<db, dbBest, tipBest, open>>

\* The same on pcoinsTip, as the transaction pool's checks do.
AccessTipCoins(t) ==
    /\ ~open
    /\ tip' = TipFetched(t)
    /\ UNCHANGED <<db, dbBest, tipBest, open, view>>

\* The view's coins of t are modified to be outs: ModifyCoins, the change, and
\* the end of the modifier.
ModifyTo(t, outs) ==
    /\ open
    /\ tip' = IF view[t] # NoEntry THEN tip ELSE TipFetched(t)
    /\ view' = Release(view, t, [ModifyCoins(view, t, TipGetCoins(t)) EXCEPT !.coins = outs])
    /\ UNCHANGED <<db, dbBest, tipBest, open>>

\* UpdateCoins spends an input that HaveInputs found available.
SpendInput(t, o) == o \in ViewShows(t) /\ ModifyTo(t, ViewShows(t) \ {o})

\* ApplyTxInUndo gives a spent output back.
ApplyTxInUndo(t, o) == o \notin ViewShows(t) /\ ModifyTo(t, ViewShows(t) \cup {o})

\* DisconnectBlock clears the outputs of a transaction.
ClearOutputs(t) == ModifyTo(t, {})

\* UpdateCoins adds a transaction's outputs, those that can be spent.  A
\* transaction that is no coinbase is not there with unspent outputs: its
\* inputs would be spent.
AddOutputs(t, outs) ==
    /\ open
    /\ t \in Coinbase \/ ViewShows(t) = {}
    /\ view' = Release(view, t, [ModifyNewCoins(view, t) EXCEPT !.coins = outs])
    /\ UNCHANGED <<db, dbBest, tip, tipBest, open>>

\* Mutant: the fresh flag of the child is kept.
BatchWriteKeepFresh(u, e) ==
    IF e = NoEntry THEN u
    ELSE IF ~e.dirty THEN u
    ELSE IF u = NoEntry
    THEN IF e.fresh /\ e.coins = {} THEN NoEntry ELSE e
    ELSE IF u.fresh /\ e.coins = {} THEN NoEntry
    ELSE [coins |-> e.coins, dirty |-> TRUE, fresh |-> u.fresh \/ e.fresh]

\* CCoinsViewCache::BatchWrite for one transaction: the child's entry e is
\* merged into the parent's entry u.
BatchWrite(u, e) ==
    IF e = NoEntry THEN u
    ELSE IF ~e.dirty THEN u
    ELSE IF u = NoEntry
    THEN IF e.fresh /\ e.coins = {} THEN NoEntry ELSE e
    ELSE IF u.fresh /\ e.coins = {} THEN NoEntry
    ELSE [u EXCEPT !.coins = e.coins, !.dirty = TRUE]

\* SetBestBlock and Flush of the view into pcoinsTip, after which it is gone.
FlushView(b) ==
    /\ open /\ open' = FALSE
    /\ tip' = [t \in Txid |-> BatchWrite(tip[t], view[t])]
    /\ tipBest' = b
    /\ view' = Empty
    /\ UNCHANGED <<db, dbBest>>

\* A block that turns out invalid, or was only tested, leaves its view to be
\* forgotten.
DropView ==
    /\ open /\ open' = FALSE
    /\ view' = Empty
    /\ UNCHANGED <<db, dbBest, tip, tipBest>>

\* pcoinsTip->Flush: one batch to the database, then the cache is empty.
FlushTip ==
    /\ ~open
    /\ db' = [t \in Txid |-> IF tip[t] # NoEntry /\ tip[t].dirty THEN tip[t].coins ELSE db[t]]
    /\ dbBest' = IF tipBest = NoBlock THEN dbBest ELSE tipBest
    /\ tip' = Empty
    /\ UNCHANGED <<tipBest, open, view>>

\* Mutant: the flags are not looked at.
UncacheAny(t) ==
    /\ ~open
    /\ tip[t] # NoEntry
    /\ tip' = [tip EXCEPT ![t] = NoEntry]
    /\ UNCHANGED <<db, dbBest, tipBest, open, view>>

\* CCoinsViewCache::Uncache on pcoinsTip, when the pool has no use for t.
Uncache(t) ==
    /\ ~open
    /\ tip[t] # NoEntry /\ ~tip[t].dirty /\ ~tip[t].fresh
    /\ tip' = [tip EXCEPT ![t] = NoEntry]
    /\ UNCHANGED <<db, dbBest, tipBest, open, view>>

\* The process ends at any point; the caches are built anew.
Crash ==
    /\ tip' = Empty /\ tipBest' = NoBlock
    /\ open' = FALSE /\ view' = Empty
    /\ UNCHANGED <<db, dbBest>>
----------------------------------------------------------------------------
Next ==
    \/ OpenView
    \/ \E t \in Txid : AccessCoins(t) \/ AccessTipCoins(t) \/ ClearOutputs(t) \/ Uncache(t)
    \/ \E t \in Txid, o \in Output : SpendInput(t, o) \/ ApplyTxInUndo(t, o)
    \/ \E t \in Txid, outs \in SUBSET Output : AddOutputs(t, outs)
    \/ \E b \in Block : FlushView(b)
    \/ DropView
    \/ FlushTip
    \/ Crash

Spec == Init /\ [][Next]_vars
----------------------------------------------------------------------------
\* Every variable has the type of what it stands for.
TypeOK ==
    /\ db \in [Txid -> SUBSET Output] /\ dbBest \in Block
    /\ tip \in Cache /\ tipBest \in Block \cup {NoBlock}
    /\ open \in BOOLEAN /\ view \in Cache

\* An entry e above a view that shows base: if it is not dirty it shows the
\* same, and if it is fresh the base has nothing unspent.
Sound(e, base) ==
    e # NoEntry => /\ ~e.dirty => e.coins = base
                   /\ e.fresh => base = {}

\* CCoinsCacheEntry's flags mean what coins.h says of them, at both levels
\* and through every fill, flush and crash: this is what allows an entry to be
\* dropped without a write.
FlagsAreSound ==
    \A t \in Txid : Sound(tip[t], db[t]) /\ Sound(view[t], TipShows(t))

\* BatchWrite never throws "FRESH flag misapplied to cache entry for base
\* transaction with spendable outputs", whatever the block did and however the
\* tip's entry came to be there.
NeverThrows ==
    \A t \in Txid :
        view[t] # NoEntry /\ tip[t] # NoEntry =>
            ~(view[t].dirty /\ view[t].fresh /\ tip[t].coins # {})

\* The caches and the database together are three plain maps: a reader sees
\* each change at once and nothing else changes what is seen, a view is
\* committed or forgotten as a whole, and a crash goes back to the coins and
\* the best block of the last flush.
Flat == INSTANCE CoinsView WITH
    work <- [t \in Txid |-> ViewShows(t)],
    utxo <- [t \in Txid |-> TipShows(t)],
    best <- IF tipBest = NoBlock THEN dbBest ELSE tipBest,
    disk <- db,
    diskBest <- dbBest
ImplementsView == Flat!Spec
============================================================================
