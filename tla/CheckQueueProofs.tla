-------------------------- MODULE CheckQueueProofs --------------------------
(***************************************************************************)
(* Proofs about CheckQueue, for any number of workers, any checks and any  *)
(* batch size.                                                             *)
(***************************************************************************)
EXTENDS CheckQueue, FiniteSetTheorems, TLAPS

\* What the counters count: nTodo, nTotal and nIdle.
Todo == {c \in Check : c \in queue \/ \E t \in Thread : c \in vChecks[t]}
Counted == {t \in Thread : pc[t] \in {"waiting", "working", "dead"}}
Idle == {t \in Thread : pc[t] \in {"waiting", "dead"}}

CountersCount ==
    /\ nTodo = Cardinality(Todo)
    /\ nTotal = Cardinality(Counted)
    /\ nIdle = Cardinality(Idle)

\* The places of the two kinds of thread, and who holds a batch.
Places ==
    /\ pc[Master] # "dead"
    /\ \A w \in Worker : pc[w] # "adding"
    /\ \A t \in Thread : pc[t] = "working" <=> vChecks[t] # {}

\* fAllOk is the verdict on the checks that are done.
VerdictSoFar ==
    /\ Todo \subseteq added
    /\ fAllOk /\ pc[Master] # "out" => (added \ Todo) \cap bad = {}
    /\ ~fAllOk => added \cap bad # {}
    /\ \A t \in Thread : pc[t] = "working" /\ ~fOk[t] => ~fAllOk

\* Between two blocks the queue is as new.
Unused ==
    pc[Master] = "out" =>
        /\ queue = {} /\ fAllOk
        /\ \A t \in Thread : vChecks[t] = {}
        /\ result <=> added \cap bad = {}

\* While the master waits the queue is empty, and the end of the last check
\* was notified to it.
MasterWoken ==
    pc[Master] = "waiting" => queue = {} /\ (Todo = {} => Master \in notified)

IInv ==
    /\ TypeOK
    /\ BatchesAreDisjoint
    /\ CountersCount
    /\ Places
    /\ VerdictSoFar
    /\ Unused
    /\ MasterWoken

----------------------------------------------------------------------------
\* The state as thread t finds it when it has the mutex, with its own part
\* taken out: what LoopTop starts from, whoever comes there and from where.
Rest(t) == {c \in Check : c \in queue \/ \E u \in Thread \ {t} : c \in vChecks[u]}

Section(t, idle, total, todo, ok, woken) ==
    /\ idle = Cardinality(Idle \ {t})
    /\ total = Cardinality(Counted \cup {t})
    /\ todo = Cardinality(Rest(t))
    /\ ok \in BOOLEAN /\ woken \subseteq Thread
    /\ pc[Master] = "out" => t # Master /\ ok
    /\ ok /\ pc[Master] # "out" => (added \ Rest(t)) \cap bad = {}
    /\ ~ok => added \cap bad # {}
    /\ \A u \in Thread \ {t} : pc[u] = "working" /\ ~fOk[u] => ~ok
    /\ pc[Master] = "waiting" /\ t # Master =>
           queue = {} /\ (Rest(t) = {} => Master \in woken)

\* The sets counted are finite.
LEMMA Finite ==
    /\ IsFiniteSet(Todo) /\ IsFiniteSet(Counted) /\ IsFiniteSet(Idle)
    /\ \A t \in Thread : IsFiniteSet(Rest(t))
    /\ \A S \in SUBSET Check : IsFiniteSet(S)
<1>1. IsFiniteSet(Thread)
  BY QueueAssumption, FS_AddElement, Zenon DEF Thread
<1>2. Todo \in SUBSET Check /\ Counted \in SUBSET Thread /\ Idle \in SUBSET Thread
      /\ \A t \in Thread : Rest(t) \in SUBSET Check
  BY Zenon DEF Todo, Counted, Idle, Rest
<1>3. IsFiniteSet(Check)
  BY QueueAssumption, Zenon
<1> QED BY <1>1, <1>2, <1>3, FS_Subset, Zenon

\* A batch is never empty.
LEMMA BatchNotEmpty ==
    ASSUME NEW total, NEW idle, NEW batch \in SUBSET Check,
           Cardinality(batch) = NowSize(total, idle)
    PROVE  batch # {}
<1>1. NowSize(total, idle) # 0
  BY DEF NowSize
<1> QED BY <1>1, FS_EmptySet, Zenon

\* The counters of disjoint sets of checks add up.
LEMMA DisjointAdd ==
    ASSUME NEW S, IsFiniteSet(S), NEW T, IsFiniteSet(T), S \cap T = {}
    PROVE  Cardinality(S \cup T) = Cardinality(S) + Cardinality(T)
<1>1. Cardinality(S \cup T) = Cardinality(S) + Cardinality(T) - 0
  BY FS_Union, FS_EmptySet
<1>2. Cardinality(S) \in Nat /\ Cardinality(T) \in Nat
  BY FS_CardinalityType, Zenon
<1> QED BY <1>1, <1>2

LEMMA AddedThenRemoved ==
    ASSUME NEW S, IsFiniteSet(S), NEW x
    PROVE  Cardinality((S \cup {x}) \ {x}) = Cardinality(S \cup {x}) - 1
<1> DEFINE T == S \cup {x}
<1>1. IsFiniteSet(T) /\ x \in T
  BY FS_AddElement, Zenon
<1> HIDE DEF T
<1>2. Cardinality(T \ {x}) = Cardinality(T) - 1
  BY <1>1, FS_RemoveElement, Zenon
<1> QED BY <1>2, Zenon DEF T

\* Return, the end of a block: the counters agree, fAllOk is the verdict.
LEMMA ReturnStep ==
    ASSUME IInv, NEW t \in Thread, NEW idle, NEW total, NEW todo, NEW ok, NEW woken,
           Section(t, idle, total, todo, ok, woken),
           Return(t, idle, total, todo, ok, woken)
    PROVE  IInv'
<1> USE DEF Section, Return
<1>1. t = Master /\ queue = {} /\ Rest(t) = {} /\ queue' = queue /\ added' = added
      /\ bad' = bad /\ fOk' = fOk
  BY Finite, FS_EmptySet, Zenon
<1>2. /\ pc' = [pc EXCEPT ![t] = "out"] /\ vChecks' = [vChecks EXCEPT ![t] = {}]
      /\ pc \in [Thread -> {"out", "adding", "waiting", "working", "dead"}]
      /\ vChecks \in [Thread -> SUBSET Check]
  BY Zenon DEF IInv, TypeOK
<1>3. \A u \in Thread : vChecks'[u] = {}
  <2>1. \A u \in Thread \ {t} : vChecks[u] = {}
    BY <1>1, <1>2, Zenon DEF Rest
  <2> QED BY <1>2, <2>1, Zenon
<1>4. Todo' = {} /\ Counted' = (Counted \cup {t}) \ {t} /\ Idle' = Idle \ {t}
  <2>1. Todo' = {}
    BY <1>1, <1>3, Zenon DEF Todo
  <2>2. Counted' = (Counted \cup {t}) \ {t} /\ Idle' = Idle \ {t}
    BY <1>2, Zenon DEF Counted, Idle
  <2> QED BY <2>1, <2>2, Zenon
<1>5. CountersCount'
  <2>1. Cardinality((Counted \cup {t}) \ {t}) = Cardinality(Counted \cup {t}) - 1
    BY Finite, AddedThenRemoved, Zenon
  <2>2. Cardinality(Todo') = 0 /\ todo = 0
    BY <1>4, FS_EmptySet, Zenon
  <2>3. nTodo' = Cardinality(Todo)'
    BY <2>2, Zenon
  <2>4. nTotal' = Cardinality(Counted)'
    BY <1>4, <2>1, Zenon
  <2>5. nIdle' = Cardinality(Idle)'
    BY <1>4, Zenon
  <2> QED BY <2>3, <2>4, <2>5, Zenon DEF CountersCount
<1>6. TypeOK'
  <2>1. nIdle' \in Nat /\ nTotal' \in Nat /\ nTodo' \in Nat
    <3>1. IsFiniteSet(Counted') /\ IsFiniteSet(Idle') /\ IsFiniteSet(Todo')
      BY <1>4, Finite, FS_AddElement, FS_RemoveElement, FS_EmptySet, Zenon
    <3> QED BY <1>5, <3>1, FS_CardinalityType, Zenon DEF CountersCount
  <2> QED BY <1>1, <1>2, <2>1, Zenon DEF IInv, TypeOK
<1>7. BatchesAreDisjoint'
  BY <1>1, <1>3, Zenon DEF BatchesAreDisjoint
<1>8. Places'
  <2>1. \A u \in Thread : pc'[u] # "working"
    BY <1>1, <1>2, <1>3 DEF IInv, Places
  <2> QED BY <1>1, <1>2, <1>3, <2>1, QueueAssumption, Zenon DEF IInv, Places, Thread
<1>9. VerdictSoFar'
  BY <1>1, <1>2, <1>3, <1>4, <1>8 DEF VerdictSoFar, Places
<1>10. Unused'
  BY <1>1, <1>3, Zenon DEF Unused
<1>11. MasterWoken'
  BY <1>1, <1>2, Zenon DEF MasterWoken
<1> QED BY <1>5, <1>6, <1>7, <1>8, <1>9, <1>10, <1>11, Zenon DEF IInv

\* Sleep: the thread counts as idle, and leaves nothing behind.
LEMMA SleepStep ==
    ASSUME IInv, NEW t \in Thread, NEW idle, NEW total, NEW todo, NEW ok, NEW woken,
           Section(t, idle, total, todo, ok, woken),
           Sleep(t, idle, total, todo, ok, woken)
    PROVE  IInv'
<1> USE DEF Section, Sleep
<1>1. queue = {} /\ queue' = queue /\ added' = added /\ bad' = bad /\ fOk' = fOk
      /\ result' = result
  BY Zenon DEF block
<1>2. /\ pc' = [pc EXCEPT ![t] = "waiting"] /\ vChecks' = [vChecks EXCEPT ![t] = {}]
      /\ pc \in [Thread -> {"out", "adding", "waiting", "working", "dead"}]
      /\ vChecks \in [Thread -> SUBSET Check]
  BY Zenon DEF IInv, TypeOK
<1>3. Todo' = Rest(t) /\ Counted' = Counted \cup {t} /\ Idle' = (Idle \ {t}) \cup {t}
  <2>1. Todo' = Rest(t)
    BY <1>1, <1>2, Zenon DEF Todo, Rest
  <2>2. Counted' = Counted \cup {t} /\ Idle' = (Idle \ {t}) \cup {t}
    BY <1>2 DEF Counted, Idle
  <2> QED BY <2>1, <2>2, Zenon
<1>4. CountersCount'
  <2>1. Cardinality((Idle \ {t}) \cup {t}) = Cardinality(Idle \ {t}) + 1
    BY Finite, FS_AddElement, FS_RemoveElement, Zenon
  <2>2. nTodo' = Cardinality(Todo)'
    BY <1>3, Zenon
  <2>3. nTotal' = Cardinality(Counted)'
    BY <1>3, Zenon
  <2>4. nIdle' = Cardinality(Idle)'
    BY <1>3, <2>1, Zenon
  <2> QED BY <2>2, <2>3, <2>4, Zenon DEF CountersCount
<1>5. TypeOK'
  <2>1. nIdle' \in Nat /\ nTotal' \in Nat /\ nTodo' \in Nat
    <3>1. IsFiniteSet(Counted') /\ IsFiniteSet(Idle') /\ IsFiniteSet(Todo')
      BY <1>3, Finite, FS_AddElement, FS_RemoveElement, Zenon
    <3> QED BY <1>4, <3>1, FS_CardinalityType, Zenon DEF CountersCount
  <2> QED BY <1>1, <1>2, <2>1 DEF IInv, TypeOK
<1>6. BatchesAreDisjoint'
  BY <1>1, <1>2 DEF IInv, BatchesAreDisjoint
<1>7. Places'
  BY <1>1, <1>2, Zenon DEF IInv, Places, Thread
<1>8. VerdictSoFar'
  <2>1. Todo' \subseteq added
    BY <1>3, Zenon DEF IInv, VerdictSoFar, Rest, Todo
  <2>2. pc'[Master] = "out" => pc[Master] = "out"
    BY <1>2, Zenon DEF Thread
  <2>3. pc[Master] = "out" => pc'[Master] = "out"
    BY <1>2, Zenon DEF Thread
  <2>4. \A u \in Thread : pc'[u] = "working" /\ ~fOk[u] => ~ok
    BY <1>2, Zenon
  <2> QED BY <1>1, <1>3, <2>1, <2>2, <2>3, <2>4, Zenon DEF VerdictSoFar
<1>9. Unused'
  BY <1>1, <1>2, Zenon DEF IInv, Unused, Thread
<1>10. MasterWoken'
  <2>1. t = Master => Todo' # {}
    BY <1>1, <1>3, FS_EmptySet, Zenon
  <2>2. t # Master => pc'[Master] = pc[Master]
    BY <1>2
  <2> QED BY <1>1, <1>3, <2>1, <2>2, Zenon DEF MasterWoken
<1> QED BY <1>4, <1>5, <1>6, <1>7, <1>8, <1>9, <1>10, Zenon DEF IInv

\* Take: checks move from the queue to the thread's batch, none is lost.
LEMMA TakeStep ==
    ASSUME IInv, NEW t \in Thread, NEW idle, NEW total, NEW todo, NEW ok, NEW woken,
           Section(t, idle, total, todo, ok, woken),
           Take(t, idle, total, todo, ok, woken)
    PROVE  IInv'
<1> USE DEF Section
<1>1. PICK batch \in SUBSET queue :
        /\ queue # {} /\ Cardinality(batch) = NowSize(total, idle)
        /\ pc' = [pc EXCEPT ![t] = "working"]
        /\ queue' = queue \ batch
        /\ vChecks' = [vChecks EXCEPT ![t] = batch]
        /\ fOk' = [fOk EXCEPT ![t] = ok]
        /\ nIdle' = idle /\ nTotal' = total /\ nTodo' = todo /\ fAllOk' = ok
        /\ notified' = woken
        /\ UNCHANGED block
  BY Zenon DEF Take
<1>2. /\ pc \in [Thread -> {"out", "adding", "waiting", "working", "dead"}]
      /\ vChecks \in [Thread -> SUBSET Check] /\ fOk \in [Thread -> BOOLEAN]
      /\ queue \subseteq Check
  BY Zenon DEF IInv, TypeOK
<1>3. batch # {} /\ batch \subseteq Check
  BY <1>1, <1>2, BatchNotEmpty, Zenon
<1>4. pc[Master] # "out" /\ pc'[Master] # "out"
  BY <1>1, <1>2, Zenon DEF IInv, Unused, Thread
<1>5. Todo' = Rest(t) /\ Counted' = Counted \cup {t} /\ Idle' = Idle \ {t}
  <2>1. Todo' = Rest(t)
    BY <1>1, <1>2, Zenon DEF Todo, Rest
  <2>2. Counted' = Counted \cup {t} /\ Idle' = Idle \ {t}
    BY <1>1, <1>2, Zenon DEF Counted, Idle
  <2> QED BY <2>1, <2>2, Zenon
<1>6. CountersCount'
  BY <1>1, <1>5, Zenon DEF CountersCount
<1>7. TypeOK'
  <2>1. nIdle' \in Nat /\ nTotal' \in Nat /\ nTodo' \in Nat
    <3>1. IsFiniteSet(Counted') /\ IsFiniteSet(Idle') /\ IsFiniteSet(Todo')
      BY <1>5, Finite, FS_AddElement, FS_RemoveElement, Zenon
    <3> QED BY <1>6, <3>1, FS_CardinalityType, Zenon DEF CountersCount
  <2> QED BY <1>1, <1>2, <1>3, <2>1, Zenon DEF IInv, TypeOK, block
<1>8. BatchesAreDisjoint'
  BY <1>1, <1>2, <1>4, Zenon DEF IInv, BatchesAreDisjoint
<1>9. Places'
  BY <1>1, <1>2, <1>3, Zenon DEF IInv, Places, Thread
<1>10. VerdictSoFar'
  <2>1. added' = added /\ bad' = bad /\ fAllOk' = ok
    BY <1>1, Zenon DEF block
  <2>2. Todo' \subseteq added
    BY <1>5, Zenon DEF IInv, VerdictSoFar, Rest, Todo
  <2>3. \A u \in Thread : pc'[u] = "working" /\ ~fOk'[u] => ~ok
    BY <1>1, <1>2, Zenon
  <2> QED BY <1>4, <1>5, <2>1, <2>2, <2>3, Zenon DEF VerdictSoFar
<1>11. Unused'
  BY <1>4, Zenon DEF Unused
<1>12. MasterWoken'
  BY <1>1, <1>2 DEF MasterWoken
<1> QED BY <1>6, <1>7, <1>8, <1>9, <1>10, <1>11, <1>12, Zenon DEF IInv

LEMMA LoopTopStep ==
    ASSUME IInv, NEW t \in Thread, NEW idle, NEW total, NEW todo, NEW ok, NEW woken,
           Section(t, idle, total, todo, ok, woken),
           LoopTop(t, idle, total, todo, ok, woken)
    PROVE  IInv'
BY ReturnStep, SleepStep, TakeStep, Zenon DEF LoopTop

\* Thread t enters the loop: it was not counted and had no batch.
LEMMA EnterSection ==
    ASSUME IInv, NEW t \in Thread, pc[t] = IF t = Master THEN "adding" ELSE "out"
    PROVE  Section(t, nIdle, nTotal + 1, nTodo, fAllOk, notified)
<1>1. vChecks[t] = {} /\ pc[t] \in {"adding", "out"}
  BY Zenon DEF IInv, Places
<1>2. Rest(t) = Todo
  BY <1>1, Zenon DEF Rest, Todo
<1>3. Idle \ {t} = Idle /\ t \notin Counted
  BY <1>1, Zenon DEF Idle, Counted
<1>4. Cardinality(Counted \cup {t}) = nTotal + 1
  BY <1>3, Finite, FS_AddElement, Zenon DEF IInv, CountersCount
<1>5. pc[Master] = "out" => t # Master /\ fAllOk
  BY Zenon DEF IInv, Unused
<1>6. pc[Master] = "waiting" => queue = {} /\ (Rest(t) = {} => Master \in notified)
  BY <1>2, Zenon DEF IInv, MasterWoken
<1> QED BY <1>2, <1>3, <1>4, <1>5, <1>6, Zenon DEF IInv, Section, CountersCount, VerdictSoFar, TypeOK

\* Thread t wakes up: it was counted as idle and had no batch.
LEMMA WakeSection ==
    ASSUME IInv, NEW t \in Thread, pc[t] = "waiting", NEW woken \in SUBSET Thread,
           notified \ {t} \subseteq woken
    PROVE  Section(t, nIdle - 1, nTotal, nTodo, fAllOk, woken)
<1>1. vChecks[t] = {}
  BY Zenon DEF IInv, Places
<1>2. Rest(t) = Todo
  BY <1>1, Zenon DEF Rest, Todo
<1>3. t \in Idle /\ Counted \cup {t} = Counted
  BY Zenon DEF Idle, Counted
<1>4. Cardinality(Idle \ {t}) = nIdle - 1
  BY <1>3, Finite, FS_RemoveElement, Zenon DEF IInv, CountersCount
<1>5. pc[Master] = "out" => t # Master /\ fAllOk
  BY Zenon DEF IInv, Unused
<1>6. pc[Master] = "waiting" /\ t # Master =>
        queue = {} /\ (Rest(t) = {} => Master \in woken)
  BY <1>2, Zenon DEF IInv, MasterWoken
<1> QED BY <1>2, <1>3, <1>4, <1>5, <1>6, Zenon DEF IInv, Section, CountersCount, VerdictSoFar, TypeOK

\* Thread t has done its batch: its checks are the ones subtracted, and their
\* outcome is in the verdict.
LEMMA FinishSection ==
    ASSUME IInv, NEW t \in Thread, pc[t] = "working", NEW woken \in SUBSET Thread,
           nTodo - Cardinality(vChecks[t]) = 0 /\ t # Master /\ pc[Master] = "waiting"
               => Master \in woken
    PROVE  Section(t, nIdle, nTotal, nTodo - Cardinality(vChecks[t]),
                   fAllOk /\ fOk[t] /\ vChecks[t] \cap bad = {}, woken)
<1> DEFINE ok == fAllOk /\ fOk[t] /\ vChecks[t] \cap bad = {}
<1>1. vChecks[t] \subseteq Check /\ vChecks[t] # {} /\ vChecks[t] \subseteq Todo
  BY Zenon DEF IInv, Places, TypeOK, Todo
<1>2. Todo = Rest(t) \cup vChecks[t] /\ Rest(t) \cap vChecks[t] = {}
  BY <1>1, Zenon DEF Rest, Todo, IInv, BatchesAreDisjoint
<1>3. nTodo - Cardinality(vChecks[t]) = Cardinality(Rest(t))
  <2>1. IsFiniteSet(Rest(t)) /\ IsFiniteSet(vChecks[t])
    BY <1>1, Finite, Zenon
  <2>2. Cardinality(Todo) = Cardinality(Rest(t)) + Cardinality(vChecks[t])
    BY <1>2, <2>1, DisjointAdd, Zenon
  <2>3. Cardinality(Rest(t)) \in Nat /\ Cardinality(vChecks[t]) \in Nat
    BY <2>1, FS_CardinalityType, Zenon
  <2> QED BY <2>2, <2>3 DEF IInv, CountersCount
<1>4. Idle \ {t} = Idle /\ Counted \cup {t} = Counted
  BY Zenon DEF Idle, Counted
<1>5. pc[Master] # "out"
  BY <1>1, Zenon DEF IInv, Unused
<1>6. ok => (added \ Rest(t)) \cap bad = {}
  BY <1>2, <1>5, Zenon DEF IInv, VerdictSoFar
<1>7. ~ok => added \cap bad # {}
  BY <1>1, Zenon DEF IInv, VerdictSoFar
<1>8. \A u \in Thread \ {t} : pc[u] = "working" /\ ~fOk[u] => ~ok
  BY Zenon DEF IInv, VerdictSoFar
<1>9. ok \in BOOLEAN
  BY Zenon DEF IInv, TypeOK
<1>10. pc[Master] = "waiting" /\ t # Master =>
         queue = {} /\ (Rest(t) = {} => Master \in woken)
  BY <1>3, FS_EmptySet, Zenon DEF IInv, MasterWoken
<1> HIDE DEF ok
<1>11. Section(t, nIdle, nTotal, nTodo - Cardinality(vChecks[t]), ok, woken)
  BY <1>3, <1>4, <1>5, <1>6, <1>7, <1>8, <1>9, <1>10, Zenon DEF IInv, Section, CountersCount
<1> QED BY <1>11, Zenon DEF ok
----------------------------------------------------------------------------
\* The invariant is inductive: it holds at first and every step of the master,
\* a worker or a shutdown keeps it.
LEMMA Inductive == Spec => []IInv
<1>1. Init => IInv
  <2> SUFFICES ASSUME Init PROVE IInv
    BY Zenon
  <2> USE DEF Init
  <2>1. Todo = {} /\ Counted = {} /\ Idle = {}
    BY Zenon DEF Todo, Counted, Idle
  <2>2. CountersCount
    BY <2>1, FS_EmptySet, Zenon DEF CountersCount
  <2>3. TypeOK /\ BatchesAreDisjoint
    BY Zenon DEF TypeOK, BatchesAreDisjoint
  <2>4. Places /\ VerdictSoFar /\ Unused /\ MasterWoken
    BY <2>1, Zenon DEF Places, VerdictSoFar, Unused, MasterWoken, Thread
  <2> QED BY <2>2, <2>3, <2>4, Zenon DEF IInv
<1>2. IInv /\ [Next]_vars => IInv'
  <2> SUFFICES ASSUME IInv, [Next]_vars PROVE IInv'
    BY Zenon
  <2> USE DEF shared, block
  <2>0. /\ pc \in [Thread -> {"out", "adding", "waiting", "working", "dead"}]
        /\ Master \in Thread /\ Worker \subseteq Thread /\ Master \notin Worker
    BY QueueAssumption, Zenon DEF IInv, TypeOK, Thread
  <2>1. CASE Control
    <3>1. /\ pc[Master] = "out" /\ pc' = [pc EXCEPT ![Master] = "adding"]
          /\ added' = {} /\ bad' \subseteq Check
          /\ UNCHANGED <<queue, nIdle, nTotal, fAllOk, nTodo, vChecks, fOk, notified, result>>
      BY <2>1, Zenon DEF Control
    <3>2. Todo = {} /\ Todo' = {} /\ Counted' = Counted /\ Idle' = Idle
      <4>1. Todo = {} /\ Todo' = {}
        BY <3>1, Zenon DEF IInv, Unused, Todo
      <4>2. Counted' = Counted /\ Idle' = Idle
        BY <2>0, <3>1, Zenon DEF Counted, Idle
      <4> QED BY <4>1, <4>2, Zenon
    <3>3. CountersCount'
      BY <3>1, <3>2, Zenon DEF IInv, CountersCount
    <3>4. TypeOK' /\ BatchesAreDisjoint'
      BY <2>0, <3>1, Zenon DEF IInv, TypeOK, BatchesAreDisjoint
    <3>5. Places'
      BY <2>0, <3>1, Zenon DEF IInv, Places
    <3>6. VerdictSoFar' /\ Unused' /\ MasterWoken'
      BY <2>0, <3>1, <3>2, Zenon DEF IInv, Unused, VerdictSoFar, Places, MasterWoken
    <3> QED BY <3>3, <3>4, <3>5, <3>6, Zenon DEF IInv
  <2>2. ASSUME NEW checks \in SUBSET (Check \ added), Add(checks)
        PROVE  IInv'
    <3>1. /\ pc[Master] = "adding" /\ queue' = queue \cup checks
          /\ nTodo' = nTodo + Cardinality(checks) /\ added' = added \cup checks
          /\ UNCHANGED <<nIdle, nTotal, fAllOk, pc, vChecks, fOk, bad, result>>
      BY <2>2, Zenon DEF Add
    <3>2. Todo' = Todo \cup checks /\ Todo \cap checks = {}
      BY <3>1, Zenon DEF Todo, IInv, VerdictSoFar
    <3>3. Counted' = Counted /\ Idle' = Idle
      BY <3>1, Zenon DEF Counted, Idle
    <3>4. nTodo' = Cardinality(Todo') /\ nTodo' \in Nat
      <4>1. checks \in SUBSET Check /\ IsFiniteSet(checks) /\ IsFiniteSet(Todo)
        BY Finite, Zenon
      <4>2. Cardinality(Todo \cup checks) = Cardinality(Todo) + Cardinality(checks)
        BY <3>2, <4>1, DisjointAdd, Zenon
      <4>3. Cardinality(Todo) \in Nat /\ Cardinality(checks) \in Nat
        BY <4>1, FS_CardinalityType, Zenon
      <4> QED BY <3>1, <3>2, <4>2, <4>3 DEF IInv, CountersCount
    <3>5. CountersCount'
      BY <3>1, <3>3, <3>4, Zenon DEF IInv, CountersCount
    <3>6. TypeOK'
      <4>1. notified' \subseteq Thread
        BY <2>0, <2>2, Zenon DEF Add, Notify, IInv, TypeOK
      <4> QED BY <3>1, <3>4, <4>1, Zenon DEF IInv, TypeOK
    <3>7. BatchesAreDisjoint'
      <4>1. \A t \in Thread : vChecks[t] \cap checks = {}
        BY <3>2, Zenon DEF Todo, IInv, TypeOK
      <4> QED BY <3>1, <4>1, Zenon DEF IInv, BatchesAreDisjoint
    <3>8. Places' /\ Unused' /\ MasterWoken'
      BY <3>1, Zenon DEF IInv, Places, Unused, MasterWoken
    <3>9. VerdictSoFar'
      BY <3>1, <3>2, Zenon DEF IInv, VerdictSoFar
    <3> QED BY <3>5, <3>6, <3>7, <3>8, <3>9, Zenon DEF IInv
  <2>3. ASSUME NEW t \in Thread, Enter(t)
        PROVE  IInv'
    BY <2>3, EnterSection, LoopTopStep, Zenon DEF Enter
  <2>4. ASSUME NEW t \in Thread, Finish(t)
        PROVE  IInv'
    <3> DEFINE todo == nTodo - Cardinality(vChecks[t])
               ok == fAllOk /\ fOk[t] /\ vChecks[t] \cap bad = {}
               woken == IF todo = 0 /\ t # Master /\ pc[Master] = "waiting"
                        THEN notified \cup {Master} ELSE notified
    <3>1. pc[t] = "working" /\ LoopTop(t, nIdle, nTotal, todo, ok, woken)
      BY <2>4, Zenon DEF Finish
    <3>2. woken \in SUBSET Thread
      BY <2>0, Zenon DEF IInv, TypeOK
    <3>3. Section(t, nIdle, nTotal, todo, ok, woken)
      BY <3>1, <3>2, FinishSection, Zenon
    <3> HIDE DEF todo, ok, woken
    <3> QED BY <3>1, <3>3, LoopTopStep, Zenon
  <2>5. ASSUME NEW t \in Thread, Wake(t) \/ WakeSpuriously(t)
        PROVE  IInv'
    <3>1. PICK woken \in SUBSET Thread :
            /\ LoopTop(t, nIdle - 1, nTotal, nTodo, fAllOk, woken)
            /\ notified \ {t} \subseteq woken
      BY <2>5, Zenon DEF Wake, WakeSpuriously, IInv, TypeOK
    <3>2. pc[t] = "waiting"
      BY <2>5, Zenon DEF Wake, WakeSpuriously
    <3> QED BY <3>1, <3>2, WakeSection, LoopTopStep, Zenon
  <2>6. ASSUME NEW w \in Worker, Interrupt(w)
        PROVE  IInv'
    <3>1. /\ pc[w] = "waiting" /\ pc' = [pc EXCEPT ![w] = "dead"] /\ notified' = notified \ {w}
          /\ UNCHANGED <<queue, nIdle, nTotal, fAllOk, nTodo, vChecks, fOk, added, bad, result>>
      BY <2>6, Zenon DEF Interrupt
    <3>2. Todo' = Todo /\ Counted' = Counted /\ Idle' = Idle
      <4>1. Todo' = Todo
        BY <3>1, Zenon DEF Todo
      <4>2. Counted' = Counted /\ Idle' = Idle
        BY <2>0, <3>1, Zenon DEF Counted, Idle
      <4> QED BY <4>1, <4>2, Zenon
    <3>3. TypeOK' /\ BatchesAreDisjoint'
      BY <2>0, <3>1, Zenon DEF IInv, TypeOK, BatchesAreDisjoint
    <3>4. CountersCount'
      BY <3>1, <3>2, Zenon DEF IInv, CountersCount
    <3>5. Places' /\ Unused'
      BY <2>0, <3>1, Zenon DEF IInv, Places, Unused
    <3>6. VerdictSoFar' /\ MasterWoken'
      BY <2>0, <3>1, <3>2, Zenon DEF IInv, VerdictSoFar, MasterWoken
    <3> QED BY <3>3, <3>4, <3>5, <3>6, Zenon DEF IInv
  <2>7. CASE UNCHANGED vars
    <3>1. Todo' = Todo /\ Counted' = Counted /\ Idle' = Idle
      BY <2>7, Zenon DEF vars, Todo, Counted, Idle
    <3> QED BY <2>7, <3>1, Zenon DEF vars, IInv, TypeOK, BatchesAreDisjoint, CountersCount, Places,
                              VerdictSoFar, Unused, MasterWoken
  <2> QED BY <2>1, <2>2, <2>3, <2>4, <2>5, <2>6, <2>7, Zenon DEF Next
<1> QED BY <1>1, <1>2, PTL DEF Spec

\* The fields of the queue and of every thread keep their types: in
\* particular nTodo, nTotal and nIdle, which are unsigned or int, never go
\* below zero in Loop.
THEOREM TypeCorrect == Spec => []TypeOK
<1>1. IInv => TypeOK
  BY Zenon DEF IInv
<1> QED BY <1>1, Inductive, PTL

\* No check is in two hands (Loop's swap of the batch out of the queue).
THEOREM Disjoint == Spec => []BatchesAreDisjoint
<1>1. IInv => BatchesAreDisjoint
  BY Zenon DEF IInv
<1> QED BY <1>1, Inductive, PTL

\* The verdict of Wait() is the conjunction of the block's checks.
THEOREM VerdictCorrect == Spec => []VerdictIsRight
<1>1. IInv => VerdictIsRight
  BY Zenon DEF IInv, Unused, VerdictIsRight
<1> QED BY <1>1, Inductive, PTL

\* The assertion in CCheckQueueControl's constructor never fails: without
\* checks nobody is working, so all the threads counted are idle.
THEOREM AssertionHolds == Spec => []AssertIdle
<1>1. IInv => AssertIdle
  <2> SUFFICES ASSUME IInv, pc[Master] = "out" PROVE IsIdle
    BY Zenon DEF AssertIdle
  <2>1. queue = {} /\ fAllOk /\ \A t \in Thread : vChecks[t] = {}
    BY Zenon DEF IInv, Unused
  <2>2. Todo = {}
    BY <2>1, Zenon DEF Todo
  <2>3. Counted = Idle
    BY <2>1, Zenon DEF Counted, Idle, IInv, Places
  <2> QED BY <2>1, <2>2, <2>3, FS_EmptySet, Zenon DEF IInv, CountersCount, IsIdle
<1> QED BY <1>1, Inductive, PTL

\* The queue cannot deadlock with the master asleep: the thread that completes
\* the last check notifies it, and one that sleeps with checks left (nTodo # 0
\* in Loop) leaves a worker at work on them.
THEOREM MasterIsWoken == Spec => []WakeUpIsNotLost
<1>1. IInv => WakeUpIsNotLost
  <2> SUFFICES ASSUME IInv, pc[Master] = "waiting", Master \notin notified
               PROVE  queue = {} /\ \E w \in Worker : pc[w] = "working"
    BY Zenon DEF WakeUpIsNotLost, IInv, MasterWoken
  <2>1. queue = {} /\ Todo # {}
    BY Zenon DEF IInv, MasterWoken
  <2>2. PICK t \in Thread : vChecks[t] # {}
    BY <2>1, Zenon DEF Todo
  <2>3. pc[t] = "working"
    BY <2>2, Zenon DEF IInv, Places
  <2> QED BY <2>1, <2>3, Zenon DEF Thread
<1> QED BY <1>1, Inductive, PTL
=============================================================================
