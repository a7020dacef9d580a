----------------------------- MODULE CheckQueue -----------------------------
(***************************************************************************)
(* CCheckQueue and CCheckQueueControl: the script checks of a block, done  *)
(* by worker threads and, at the end, by the master, the thread that       *)
(* connects the block (under cs_main, so there is one).                    *)
(*                                                                         *)
(* Everything shared is under the queue's mutex: a step is one section     *)
(* with the mutex held, up to its release or to the wait that releases it, *)
(* preceded by the checks the thread did since its last section.  The      *)
(* order of the queue does not matter, and it is a set here; a check is    *)
(* identified with the place it has in the block.                          *)
(***************************************************************************)
EXTENDS Integers, FiniteSets

CONSTANTS
    Worker,         \* the threads that run ThreadScriptCheck
    Master,         \* the thread that connects blocks
    Check,          \* script checks of a block
    nBatchSize

ASSUME QueueAssumption ==
    /\ IsFiniteSet(Worker) /\ IsFiniteSet(Check)
    /\ Master \notin Worker
    /\ nBatchSize \in Nat \ {0}

Thread == Worker \cup {Master}

VARIABLES
    queue,          \* checks nobody has taken
    nIdle, nTotal, fAllOk, nTodo,
    pc,             \* where a thread is
    vChecks, fOk,   \* per thread: its batch, and fAllOk when it took the batch
    notified,       \* waiting threads that were notified
    added,          \* checks added for the block
    bad,            \* those of the block's checks that fail
    result          \* what Wait() returned last

shared == <<queue, nIdle, nTotal, fAllOk, nTodo>>
block == <<added, bad, result>>
vars == <<shared, pc, vChecks, fOk, notified, block>>

Init ==
    /\ queue = {} /\ nIdle = 0 /\ nTotal = 0 /\ fAllOk = TRUE /\ nTodo = 0
    /\ pc = [t \in Thread |-> "out"]
    /\ vChecks = [t \in Thread |-> {}] /\ fOk = [t \in Thread |-> TRUE]
    /\ notified = {}
    /\ added = {} /\ bad = {} /\ result = TRUE
----------------------------------------------------------------------------
IsIdle == nTotal = nIdle /\ nTodo = 0 /\ fAllOk

\* CCheckQueueControl's constructor, whose assertion is AssertIdle below.
Control ==
    /\ pc[Master] = "out"
    /\ pc' = [pc EXCEPT ![Master] = "adding"]
    /\ added' = {}
    /\ bad' \in SUBSET Check
    /\ UNCHANGED <<shared, vChecks, fOk, notified, result>>

\* condWorker.notify_one or notify_all after Add.
Notify(checks) ==
    LET sleeping == {w \in Worker : pc[w] = "waiting"} \ notified IN
    IF Cardinality(checks) = 1 /\ sleeping # {}
    THEN \E w \in sleeping : notified' = notified \cup {w}
    ELSE notified' = notified \cup sleeping

Add(checks) ==
    /\ pc[Master] = "adding"
    /\ queue' = queue \cup checks
    /\ nTodo' = nTodo + Cardinality(checks)
    /\ added' = added \cup checks
    /\ Notify(checks)
    /\ UNCHANGED <<nIdle, nTotal, fAllOk, pc, vChecks, fOk, bad, result>>

NowSize(total, idle) ==
    LET share == Cardinality(queue) \div (total + idle + 1)
        capped == IF share < nBatchSize THEN share ELSE nBatchSize
    IN IF capped < 1 THEN 1 ELSE capped

\* Mutant: fAllOk is not reset.
ReturnNoReset(t, idle, total, todo, ok, woken) ==
    /\ queue = {} /\ t = Master /\ todo = 0
    /\ pc' = [pc EXCEPT ![t] = "out"]
    /\ result' = ok
    /\ nTotal' = total - 1 /\ nIdle' = idle /\ nTodo' = todo /\ fAllOk' = ok
    /\ vChecks' = [vChecks EXCEPT ![t] = {}]
    /\ notified' = woken
    /\ UNCHANGED <<queue, fOk, added, bad>>

\* Loop, from "logically, the do loop starts here", for thread t and the
\* values the section has given nIdle, nTotal, nTodo, fAllOk and `notified`.
\* fQuit is never set.  The master returns ...
Return(t, idle, total, todo, ok, woken) ==
    /\ queue = {} /\ t = Master /\ todo = 0
    /\ pc' = [pc EXCEPT ![t] = "out"]
    /\ result' = ok
    /\ nTotal' = total - 1 /\ nIdle' = idle /\ nTodo' = todo /\ fAllOk' = TRUE
    /\ vChecks' = [vChecks EXCEPT ![t] = {}]
    /\ notified' = woken
    /\ UNCHANGED <<queue, fOk, added, bad>>

\* Mutant: the master also sleeps when all is done.
SleepAnyway(t, idle, total, todo, ok, woken) ==
    /\ queue = {}
    /\ pc' = [pc EXCEPT ![t] = "waiting"]
    /\ nIdle' = idle + 1 /\ nTotal' = total /\ nTodo' = todo /\ fAllOk' = ok
    /\ vChecks' = [vChecks EXCEPT ![t] = {}]
    /\ notified' = woken
    /\ UNCHANGED <<queue, fOk, block>>

\* ... or the thread waits ...
Sleep(t, idle, total, todo, ok, woken) ==
    /\ queue = {} /\ ~(t = Master /\ todo = 0)
    /\ pc' = [pc EXCEPT ![t] = "waiting"]
    /\ nIdle' = idle + 1 /\ nTotal' = total /\ nTodo' = todo /\ fAllOk' = ok
    /\ vChecks' = [vChecks EXCEPT ![t] = {}]
    /\ notified' = woken
    /\ UNCHANGED <<queue, fOk, block>>

\* Mutant: the batch stays in the queue.
TakeCopies(t, idle, total, todo, ok, woken) ==
    \E batch \in SUBSET queue :
        /\ queue # {} /\ Cardinality(batch) = NowSize(total, idle)
        /\ pc' = [pc EXCEPT ![t] = "working"]
        /\ vChecks' = [vChecks EXCEPT ![t] = batch]
        /\ fOk' = [fOk EXCEPT ![t] = ok]
        /\ nIdle' = idle /\ nTotal' = total /\ nTodo' = todo /\ fAllOk' = ok
        /\ notified' = woken
        /\ UNCHANGED <<queue, block>>

\* ... or it takes a batch.
Take(t, idle, total, todo, ok, woken) ==
    \E batch \in SUBSET queue :
        /\ queue # {} /\ Cardinality(batch) = NowSize(total, idle)
        /\ pc' = [pc EXCEPT ![t] = "working"]
        /\ queue' = queue \ batch
        /\ vChecks' = [vChecks EXCEPT ![t] = batch]
        /\ fOk' = [fOk EXCEPT ![t] = ok]
        /\ nIdle' = idle /\ nTotal' = total /\ nTodo' = todo /\ fAllOk' = ok
        /\ notified' = woken
        /\ UNCHANGED block

LoopTop(t, idle, total, todo, ok, woken) ==
    \/ Return(t, idle, total, todo, ok, woken)
    \/ Sleep(t, idle, total, todo, ok, woken)
    \/ Take(t, idle, total, todo, ok, woken)

\* The first iteration: Thread() of a worker, Wait() of the master.
Enter(t) ==
    /\ pc[t] = IF t = Master THEN "adding" ELSE "out"
    /\ LoopTop(t, nIdle, nTotal + 1, nTodo, fAllOk, notified)

\* Mutant: fAllOk is overwritten, not and-ed.
FinishOverwrites(t) ==
    LET todo == nTodo - Cardinality(vChecks[t])
        ok == fOk[t] /\ vChecks[t] \cap bad = {}
        woken == IF todo = 0 /\ t # Master /\ pc[Master] = "waiting"
                 THEN notified \cup {Master} ELSE notified
    IN /\ pc[t] = "working"
       /\ LoopTop(t, nIdle, nTotal, todo, ok, woken)

\* Mutant: the master is not notified.
FinishSilently(t) ==
    LET todo == nTodo - Cardinality(vChecks[t])
        ok == fAllOk /\ fOk[t] /\ vChecks[t] \cap bad = {}
    IN /\ pc[t] = "working"
       /\ LoopTop(t, nIdle, nTotal, todo, ok, notified)

\* The checks of the batch, then the clean-up at the top of the next section;
\* the worker that completes the last check notifies the master.
Finish(t) ==
    LET todo == nTodo - Cardinality(vChecks[t])
        ok == fAllOk /\ fOk[t] /\ vChecks[t] \cap bad = {}
        woken == IF todo = 0 /\ t # Master /\ pc[Master] = "waiting"
                 THEN notified \cup {Master} ELSE notified
    IN /\ pc[t] = "working"
       /\ LoopTop(t, nIdle, nTotal, todo, ok, woken)

\* cond.wait returns because of a notification ...
Wake(t) ==
    /\ pc[t] = "waiting" /\ t \in notified
    /\ LoopTop(t, nIdle - 1, nTotal, nTodo, fAllOk, notified \ {t})

\* ... or without one.
WakeSpuriously(t) ==
    /\ pc[t] = "waiting" /\ t \notin notified
    /\ LoopTop(t, nIdle - 1, nTotal, nTodo, fAllOk, notified)

\* threadGroup.interrupt_all at shutdown: the wait throws, and the counters
\* stay as they are.
Interrupt(w) ==
    /\ pc[w] = "waiting"
    /\ pc' = [pc EXCEPT ![w] = "dead"]
    /\ notified' = notified \ {w}
    /\ UNCHANGED <<shared, vChecks, fOk, block>>

Next ==
    \/ Control
    \/ \E checks \in SUBSET (Check \ added) : Add(checks)
    \/ \E t \in Thread : Enter(t) \/ Finish(t) \/ Wake(t) \/ WakeSpuriously(t)
    \/ \E w \in Worker : Interrupt(w)

Spec == Init /\ [][Next]_vars

\* Every thread runs on, a notified one wakes, and ConnectBlock comes to its
\* end: to Wait(), if only in the destructor.
Fairness ==
    /\ WF_vars(Enter(Master))
    /\ \A t \in Thread : WF_vars(Finish(t)) /\ WF_vars(Wake(t))

FairSpec == Spec /\ Fairness
----------------------------------------------------------------------------
\* Every variable has the type of the field it stands for.
TypeOK ==
    /\ queue \subseteq Check /\ added \subseteq Check /\ bad \subseteq Check
    /\ nIdle \in Nat /\ nTotal \in Nat /\ nTodo \in Nat /\ fAllOk \in BOOLEAN
    /\ pc \in [Thread -> {"out", "adding", "waiting", "working", "dead"}]
    /\ vChecks \in [Thread -> SUBSET Check] /\ fOk \in [Thread -> BOOLEAN]
    /\ notified \subseteq Thread
    /\ result \in BOOLEAN

\* "passed queue is supposed to be unused": between two blocks no check is
\* left, every thread that entered waits and the verdict is reset, so the
\* assertion of CCheckQueueControl holds, whichever threads started, woke
\* up, or were interrupted in the meantime.
AssertIdle == pc[Master] = "out" => IsIdle

\* Wait() returns true iff every check added for this block passes: no check
\* is lost between batches, skipped without cause, or left to the next block.
VerdictIsRight == pc[Master] = "out" => (result <=> added \cap bad = {})

\* No thread works on a check of a block whose verdict is out, and no two
\* threads work on one check.
BatchesAreDisjoint ==
    /\ \A t, u \in Thread : t # u => vChecks[t] \cap vChecks[u] = {}
    /\ \A t \in Thread : vChecks[t] \cap queue = {}
    /\ pc[Master] = "out" => \A t \in Thread : vChecks[t] = {}

\* No wake-up of the master is lost: it only waits with nothing left to take,
\* and then it is notified already or a worker still has a check in hand, at
\* whose end it will be.  A worker that took the last batch before the master
\* slept, one that is interrupted or wakes by itself do not change this.
WakeUpIsNotLost ==
    pc[Master] = "waiting" =>
        /\ queue = {}
        /\ Master \in notified \/ \E w \in Worker : pc[w] = "working"

\* A block under way gets its verdict: the master is never left waiting, even
\* if workers are interrupted or a notification meets a thread already awake.
VerdictComes == pc[Master] = "adding" ~> pc[Master] = "out"
=============================================================================
