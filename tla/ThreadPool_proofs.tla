-------------------------- MODULE ThreadPool_proofs --------------------------
(***************************************************************************)
(* Theorems about ThreadPool, for every set of threads, limit, number of   *)
(* tasks and number of threads that cannot be created.                     *)
(*                                                                         *)
(* The argument: a thread with a task in hand holds the lock               *)
(* (ThreadsCounted), so at most one has, and the queue cannot change       *)
(* between a pop that found it empty and the exit that follows (PopEmpty); *)
(* and tasks are numbered as they are added, so that what was begun is     *)
(* smaller than what is in hand, which is smaller than what is queued      *)
(* (Ordered).                                                              *)
(***************************************************************************)
EXTENDS ThreadPool, FiniteSetTheorems, TLAPS

\* The tasks of a queue.
Elements(s) == {s[i] : i \in DOMAIN s}

Queued == Elements(tasks)
Begun  == Elements(started)

\* Threads with a task in hand.
InHand == {w \in Threads : task[w] # 0 /\ worker[w] = "popped"}

\* Nothing is queued behind a pop that found the queue empty.
PopEmpty == \A w \in Threads : worker[w] = "popped" /\ task[w] = 0 => tasks = <<>>

\* A thread that runs, runs a task.
RunsTask == \A w \in Threads : worker[w] = "run" => task[w] # 0

\* Begun before in hand before queued, each in the order of the numbers.
Ordered ==
    /\ \A i, j \in DOMAIN started : i < j => started[i] < started[j]
    /\ \A i, j \in DOMAIN tasks : i < j => tasks[i] < tasks[j]
    /\ \A b \in Begun : \A q \in Queued : b < q
    /\ \A w \in InHand : (\A b \in Begun : b < task[w]) /\ (\A q \in Queued : task[w] < q)

\* Every task is somewhere, and what is dropped is nowhere else.
Everywhere ==
    /\ 1 .. added = Queued \cup {task[w] : w \in InHand} \cup Begun \cup dropped
    /\ dropped \cap (Queued \cup Begun) = {}
    /\ \A w \in InHand : task[w] \notin dropped

\* Tasks are dropped by a pool that has been told to stop.
Stopping ==
    /\ terminated => main \in {"trim", "join", "freed"}
    /\ dropped # {} => main # "loop"
    /\ freed <=> main = "freed"

IInv ==
    /\ TypeOK
    /\ ThreadsCounted
    /\ PopEmpty /\ RunsTask
    /\ NoStrandedTask
    /\ Ordered /\ Everywhere
    /\ Stopping
    /\ FreedIdle
-----------------------------------------------------------------------------
(* Sequences and counts *)

\* The elements of a queue.
LEMMA Element ==
    ASSUME NEW S, NEW s \in Seq(S) PROVE \A i \in 1 .. Len(s) : s[i] \in S
  OBVIOUS

\* The elements of a queue whose first one is taken.
LEMMA Taken ==
    ASSUME NEW S, NEW s \in Seq(S), s # <<>>
    PROVE  /\ Head(s) \in S /\ Tail(s) \in Seq(S)
           /\ DOMAIN s = 1 .. Len(s) /\ Head(s) = s[1] /\ 1 \in 1 .. Len(s)
           /\ DOMAIN Tail(s) = 1 .. Len(s) - 1
           /\ \A i \in 1 .. Len(s) - 1 : Tail(s)[i] = s[i + 1] /\ i + 1 \in 1 .. Len(s)
           /\ Elements(s) = {Head(s)} \cup Elements(Tail(s))
  <1>1. /\ Head(s) \in S /\ Tail(s) \in Seq(S) /\ Len(s) \in Nat /\ Len(s) >= 1
        /\ DOMAIN s = 1 .. Len(s) /\ Head(s) = s[1]
    OBVIOUS
  <1>2. 1 \in 1 .. Len(s)
    BY ONLY <1>1
  <1>3. Len(Tail(s)) = Len(s) - 1 /\ DOMAIN Tail(s) = 1 .. Len(s) - 1
    OBVIOUS
  <1>4. \A i \in 1 .. Len(s) - 1 : i + 1 \in 1 .. Len(s)
    BY ONLY <1>1
  <1>5. \A i \in 1 .. Len(s) - 1 : Tail(s)[i] = s[i + 1]
    OBVIOUS
  <1>6. \A i \in 1 .. Len(s) : i = 1 \/ (i - 1 \in 1 .. Len(s) - 1 /\ (i - 1) + 1 = i)
    BY ONLY <1>1
  <1>7. \A i \in 1 .. Len(s) : s[i] = s[1] \/ \E j \in 1 .. Len(s) - 1 : s[i] = Tail(s)[j]
    BY ONLY <1>5, <1>6
  <1>8. Elements(s) = {Head(s)} \cup Elements(Tail(s))
    <2> DEFINE T == Tail(s)
    <2>1. /\ DOMAIN s = 1 .. Len(s) /\ DOMAIN T = 1 .. Len(s) - 1 /\ Head(s) = s[1]
          /\ \A i \in 1 .. Len(s) : s[i] = s[1] \/ \E j \in 1 .. Len(s) - 1 : s[i] = T[j]
          /\ \A j \in 1 .. Len(s) - 1 : T[j] = s[j + 1] /\ j + 1 \in 1 .. Len(s)
          /\ 1 \in 1 .. Len(s)
      BY ONLY <1>1, <1>2, <1>3, <1>4, <1>5, <1>7
    <2> HIDE DEF T
    <2>2. {s[i] : i \in 1 .. Len(s)} = {s[1]} \cup {T[j] : j \in 1 .. Len(s) - 1}
      BY ONLY <2>1
    <2>. QED BY ONLY <2>1, <2>2 DEF T, Elements
  <1>. QED BY ONLY <1>1, <1>2, <1>3, <1>4, <1>5, <1>8

\* The elements of a queue that gets one more.
LEMMA Added ==
    ASSUME NEW S, NEW s \in Seq(S), NEW x \in S
    PROVE  /\ Append(s, x) \in Seq(S) /\ Append(s, x) # <<>> /\ Len(s) \in Nat
           /\ DOMAIN s = 1 .. Len(s) /\ DOMAIN Append(s, x) = 1 .. Len(s) + 1
           /\ Append(s, x)[Len(s) + 1] = x
           /\ \A i \in 1 .. Len(s) : Append(s, x)[i] = s[i]
           /\ Elements(Append(s, x)) = Elements(s) \cup {x}
  <1>1. /\ Append(s, x) \in Seq(S) /\ Append(s, x) # <<>> /\ Len(s) \in Nat
        /\ DOMAIN s = 1 .. Len(s) /\ DOMAIN Append(s, x) = 1 .. Len(s) + 1
        /\ Append(s, x)[Len(s) + 1] = x
        /\ \A i \in 1 .. Len(s) : Append(s, x)[i] = s[i]
    OBVIOUS
  <1>2. /\ \A i \in 1 .. Len(s) + 1 : i \in 1 .. Len(s) \/ i = Len(s) + 1
        /\ \A i \in 1 .. Len(s) : i \in 1 .. Len(s) + 1
        /\ Len(s) + 1 \in 1 .. Len(s) + 1
    BY ONLY <1>1
  <1>. QED BY ONLY <1>1, <1>2 DEF Elements

\* A queue in order is in order with a larger task at its end.
LEMMA AddedInOrder ==
    ASSUME NEW s \in Seq(Nat), NEW x \in Nat,
           \A i, j \in DOMAIN s : i < j => s[i] < s[j],
           \A i \in DOMAIN s : s[i] < x
    PROVE  \A i, j \in DOMAIN Append(s, x) : i < j => Append(s, x)[i] < Append(s, x)[j]
  <1>1. /\ Len(s) \in Nat /\ DOMAIN s = 1 .. Len(s)
        /\ DOMAIN Append(s, x) = 1 .. Len(s) + 1 /\ Append(s, x)[Len(s) + 1] = x
        /\ \A i \in 1 .. Len(s) : Append(s, x)[i] = s[i]
    BY Added
  <1>2. \A i, j \in 1 .. Len(s) + 1 :
          i < j => i \in 1 .. Len(s) /\ (j \in 1 .. Len(s) \/ j = Len(s) + 1)
    BY ONLY <1>1
  <1>. QED BY <1>1, <1>2

\* The threads counted are finitely many.
LEMMA CountedFinite ==
    /\ IsFiniteSet(Counted) /\ Cardinality(Counted) \in Nat
    /\ Cardinality(Counted) = 0 <=> Counted = {}
  <1>1. IsFiniteSet(Threads) /\ Counted \subseteq Threads
    BY PoolAssumption DEF PoolAssumption, Counted
  <1>2. IsFiniteSet(Counted)
    BY <1>1, FS_Subset
  <1>. QED BY <1>2, FS_CardinalityType, FS_EmptySet

\* A thread is created.
LEMMA CountUp ==
    ASSUME NEW w \in Threads, worker[w] = "none",
           worker \in [Threads -> {"none", "new", "popped", "run", "leaving"}],
           worker' = [worker EXCEPT ![w] = "new"]
    PROVE  Cardinality(Counted') = Cardinality(Counted) + 1
  <1>1. Counted' = Counted \cup {w} /\ w \notin Counted
    BY DEF Counted
  <1>. QED BY <1>1, CountedFinite, FS_AddElement

\* A thread goes.
LEMMA CountDown ==
    ASSUME NEW w \in Threads, worker[w] \in {"new", "popped"},
           worker \in [Threads -> {"none", "new", "popped", "run", "leaving"}],
           worker' = [worker EXCEPT ![w] = "leaving"]
    PROVE  /\ Cardinality(Counted') = Cardinality(Counted) - 1
           /\ Cardinality(Counted) >= 1
  <1>1. Counted' = Counted \ {w} /\ w \in Counted
    BY DEF Counted
  <1>2. Cardinality(Counted') = Cardinality(Counted) - 1
    BY <1>1, CountedFinite, FS_RemoveElement
  <1>3. Cardinality(Counted) \in Nat /\ Cardinality(Counted) # 0
    BY <1>1, CountedFinite
  <1>. QED BY <1>2, <1>3
-----------------------------------------------------------------------------
(* The queue *)

\* The types of the variables.
LEMMA Basics ==
    ASSUME IInv
    PROVE  /\ thd_max \in Nat /\ MaxTasks \in Nat /\ MaxFailures \in Nat /\ None \notin Threads
           /\ tasks \in Seq(1 .. MaxTasks) /\ started \in Seq(1 .. MaxTasks)
           /\ added \in Nat /\ added <= MaxTasks
           /\ task \in [Threads -> 0 .. MaxTasks]
           /\ worker \in [Threads -> {"none", "new", "popped", "run", "leaving"}]
           /\ DOMAIN tasks = 1 .. Len(tasks) /\ Len(tasks) \in Nat
           /\ DOMAIN started = 1 .. Len(started) /\ Len(started) \in Nat
           /\ Queued \subseteq 1 .. MaxTasks /\ Begun \subseteq 1 .. MaxTasks
           /\ dropped \subseteq 1 .. MaxTasks
           /\ \A w \in InHand : task[w] \in 1 .. MaxTasks
           /\ \A v, w \in InHand : v = w
           /\ lock = None => InHand = {} /\ \A w \in Threads : worker[w] # "popped"
  <1>1. TypeOK
    BY DEF IInv
  <1>2. /\ thd_max \in Nat /\ MaxTasks \in Nat /\ MaxFailures \in Nat /\ None \notin Threads
    BY PoolAssumption DEF PoolAssumption
  <1>3. /\ tasks \in Seq(1 .. MaxTasks) /\ started \in Seq(1 .. MaxTasks)
        /\ task \in [Threads -> 0 .. MaxTasks]
        /\ worker \in [Threads -> {"none", "new", "popped", "run", "leaving"}]
        /\ dropped \subseteq 1 .. MaxTasks
    BY <1>1 DEF TypeOK
  <1>4. added \in Nat /\ added <= MaxTasks
    BY <1>1, <1>2 DEF TypeOK
  <1>5. /\ DOMAIN tasks = 1 .. Len(tasks) /\ Len(tasks) \in Nat
        /\ DOMAIN started = 1 .. Len(started) /\ Len(started) \in Nat
    BY <1>3
  <1>6. Queued \subseteq 1 .. MaxTasks /\ Begun \subseteq 1 .. MaxTasks
    <2>1. /\ \A i \in 1 .. Len(tasks) : tasks[i] \in 1 .. MaxTasks
          /\ \A i \in 1 .. Len(started) : started[i] \in 1 .. MaxTasks
      BY ONLY <1>3, Element
    <2>. QED BY ONLY <1>5, <2>1 DEF Queued, Begun, Elements
  <1>7. \A w \in InHand : task[w] \in 1 .. MaxTasks
    <2>1. \A x \in 0 .. MaxTasks : x # 0 => x \in 1 .. MaxTasks
      BY ONLY <1>2
    <2>. QED BY ONLY <1>3, <2>1 DEF InHand
  <1>8. \A w \in Threads : worker[w] = "popped" => lock = w
    BY DEF IInv, ThreadsCounted, Holding
  <1>. QED BY ONLY <1>2, <1>3, <1>4, <1>5, <1>6, <1>7, <1>8 DEF InHand

\* A new task is larger than any there is.
LEMMA Newest ==
    ASSUME IInv
    PROVE  /\ \A q \in Queued : q < added + 1
           /\ \A b \in Begun : b < added + 1
           /\ \A w \in InHand : task[w] < added + 1
           /\ added + 1 \notin dropped
  <1>1. added \in Nat
    BY Basics
  <1>2. \A x \in 1 .. added : x < added + 1
    BY ONLY <1>1
  <1>3. 1 .. added = Queued \cup {task[w] : w \in InHand} \cup Begun \cup dropped
    BY DEF IInv, Everywhere
  <1>4. added + 1 \notin 1 .. added
    BY ONLY <1>1
  <1>. QED BY ONLY <1>2, <1>3, <1>4

\* add_task puts the newest task at the end.
LEMMA QueueAdd ==
    ASSUME IInv, lock = None, added < MaxTasks, added' = added + 1,
           tasks' = Append(tasks, added'), task' = task, started' = started,
           dropped' = dropped, InHand' = InHand
    PROVE  /\ Ordered' /\ Everywhere'
           /\ tasks' \in Seq(1 .. MaxTasks) /\ tasks' # <<>> /\ added' \in 0 .. MaxTasks
  <1>1. /\ MaxTasks \in Nat /\ added \in Nat /\ tasks \in Seq(1 .. MaxTasks) /\ InHand = {}
        /\ DOMAIN tasks = 1 .. Len(tasks)
    BY Basics
  <1>2. added + 1 \in 1 .. MaxTasks /\ added + 1 \in 0 .. MaxTasks /\ added + 1 \in Nat
    BY ONLY <1>1, added < MaxTasks
  <1>3. /\ Append(tasks, added + 1) \in Seq(1 .. MaxTasks) /\ Append(tasks, added + 1) # <<>>
        /\ Elements(Append(tasks, added + 1)) = Elements(tasks) \cup {added + 1}
    <2> DEFINE new == added + 1
    <2>1. new \in 1 .. MaxTasks
      BY ONLY <1>2
    <2> HIDE DEF new
    <2>2. /\ Append(tasks, new) \in Seq(1 .. MaxTasks) /\ Append(tasks, new) # <<>>
          /\ Elements(Append(tasks, new)) = Elements(tasks) \cup {new}
      BY ONLY <1>1, <2>1, Added
    <2>. QED BY ONLY <2>2 DEF new
  <1>4. Queued' = Queued \cup {added + 1}
    BY ONLY <1>3, tasks' = Append(tasks, added'), added' = added + 1 DEF Queued
  <1>5. Begun' = Begun
    BY DEF Begun
  <1>6. Ordered /\ Everywhere
    BY DEF IInv
  <1>7. \A i, j \in DOMAIN tasks' : i < j => tasks'[i] < tasks'[j]
    <2>1. tasks \in Seq(Nat)
      <3>1. 1 .. MaxTasks \subseteq Nat
        BY ONLY <1>1
      <3>. QED BY ONLY <1>1, <3>1
    <2>2. \A i \in DOMAIN tasks : tasks[i] < added + 1
      BY Newest DEF Queued, Elements
    <2>3. \A i, j \in DOMAIN tasks : i < j => tasks[i] < tasks[j]
      BY ONLY <1>6 DEF Ordered
    <2> DEFINE new == added + 1
    <2>4. new \in Nat /\ tasks' = Append(tasks, new) /\ \A i \in DOMAIN tasks : tasks[i] < new
      BY ONLY <1>2, <2>2, tasks' = Append(tasks, added'), added' = added + 1
    <2> HIDE DEF new
    <2>. QED BY ONLY <2>1, <2>3, <2>4, AddedInOrder
  <1>8. Ordered'
    <2>1. \A b \in Begun : \A q \in Queued \cup {added + 1} : b < q
      BY ONLY <1>6, Newest, IInv DEF Ordered
    <2>2. \A i, j \in DOMAIN started' : i < j => started'[i] < started'[j]
      BY ONLY <1>6, started' = started DEF Ordered
    <2>. QED BY ONLY <1>1, <1>4, <1>5, <1>7, <2>1, <2>2, InHand' = InHand DEF Ordered
  <1>9. Everywhere'
    <2>1. 1 .. added' = (1 .. added) \cup {added + 1}
      <3>1. 1 .. added + 1 = (1 .. added) \cup {added + 1}
        BY ONLY <1>1
      <3>. QED BY ONLY <3>1, added' = added + 1
    <2>2. added + 1 \notin dropped
      BY Newest
    <2>. QED BY ONLY <1>1, <1>4, <1>5, <1>6, <2>1, <2>2, InHand' = InHand, dropped' = dropped
         DEF Everywhere
  <1>. QED BY ONLY <1>2, <1>3, <1>8, <1>9, tasks' = Append(tasks, added'), added' = added + 1

\* pop_task takes the oldest task in hand, or finds the queue empty.
LEMMA QueuePop ==
    ASSUME IInv, lock = None, NEW w \in Threads, worker[w] \in {"new", "run"}, pop_task(w),
           worker' = [worker EXCEPT ![w] = "popped"],
           added' = added, started' = started, dropped' = dropped
    PROVE  /\ Ordered' /\ Everywhere' /\ PopEmpty'
           /\ tasks' \in Seq(1 .. MaxTasks) /\ task' \in [Threads -> 0 .. MaxTasks]
  <1>1. /\ MaxTasks \in Nat /\ tasks \in Seq(1 .. MaxTasks) /\ InHand = {}
        /\ task \in [Threads -> 0 .. MaxTasks]
        /\ worker \in [Threads -> {"none", "new", "popped", "run", "leaving"}]
        /\ \A v \in Threads : worker[v] # "popped"
    BY Basics
  <1>2. Ordered /\ Everywhere
    BY DEF IInv
  <1>3. /\ worker'[w] = "popped" /\ \A v \in Threads : v # w => worker'[v] # "popped"
        /\ Begun' = Begun
    BY <1>1 DEF Begun
  <1>4. CASE tasks = <<>>
    <2>1. task' = [task EXCEPT ![w] = 0] /\ tasks' = tasks
      BY <1>4 DEF pop_task
    <2>2. InHand' = {} /\ Queued' = Queued
      BY <1>1, <1>3, <2>1 DEF InHand, Queued
    <2>3. PopEmpty'
      BY <1>4, <2>1 DEF PopEmpty
    <2>4. Ordered'
      BY ONLY <1>1, <1>2, <1>3, <2>1, <2>2, started' = started DEF Ordered
    <2>5. Everywhere'
      BY ONLY <1>1, <1>2, <1>3, <2>2, added' = added, dropped' = dropped DEF Everywhere
    <2>6. 0 \in 0 .. MaxTasks
      BY ONLY <1>1
    <2>. QED BY ONLY <1>1, <2>1, <2>3, <2>4, <2>5, <2>6
  <1>5. CASE tasks # <<>>
    <2> DEFINE h == Head(tasks)
               T == Tail(tasks)
    <2>1. task' = [task EXCEPT ![w] = h] /\ tasks' = T
      BY <1>5 DEF pop_task
    <2>2. /\ h \in 1 .. MaxTasks /\ T \in Seq(1 .. MaxTasks)
          /\ DOMAIN tasks = 1 .. Len(tasks) /\ h = tasks[1] /\ 1 \in 1 .. Len(tasks)
          /\ DOMAIN T = 1 .. Len(tasks) - 1
          /\ \A i \in 1 .. Len(tasks) - 1 : T[i] = tasks[i + 1] /\ i + 1 \in 1 .. Len(tasks)
          /\ Queued = {h} \cup Elements(T)
      BY ONLY <1>1, <1>5, Taken DEF Queued
    <2> HIDE DEF h, T
    <2>3. h \in Nat /\ h # 0 /\ h \in 0 .. MaxTasks
      BY ONLY <1>1, <2>2
    <2>4. task' \in [Threads -> 0 .. MaxTasks] /\ task'[w] = h
      BY ONLY <1>1, <2>1, <2>3
    <2>5. Queued' = Elements(T) /\ Queued' \subseteq Queued
      BY ONLY <2>1, <2>2 DEF Queued
    <2>6. InHand' = {w}
      BY ONLY <1>3, <2>3, <2>4, w \in Threads DEF InHand
    <2>7. \A i \in 1 .. Len(tasks) - 1 : 1 < i + 1
      OBVIOUS
    <2>8. \A q \in Queued' : h < q
      <3>1. \A i \in DOMAIN T : tasks[1] < tasks[i + 1]
        BY ONLY <1>2, <2>2, <2>7 DEF Ordered
      <3>. QED BY ONLY <2>2, <2>5, <3>1 DEF Elements
    <2>9. \A i, j \in DOMAIN T : i < j => T[i] < T[j]
      <3>1. \A i, j \in 1 .. Len(tasks) - 1 : i < j => i + 1 < j + 1
        OBVIOUS
      <3>. QED BY ONLY <1>2, <2>2, <3>1 DEF Ordered
    <2>10. \A b \in Begun : b < h /\ \A q \in Queued' : b < q
      BY ONLY <1>2, <2>2, <2>5 DEF Ordered
    <2>11. Ordered'
      <3>1. \A i, j \in DOMAIN started' : i < j => started'[i] < started'[j]
        BY ONLY <1>2, started' = started DEF Ordered
      <3>. QED BY ONLY <1>3, <2>1, <2>4, <2>6, <2>8, <2>9, <2>10, <3>1 DEF Ordered
    <2>12. Everywhere'
      <3>1. /\ 1 .. added = Queued \cup Begun \cup dropped
            /\ dropped \cap (Queued \cup Begun) = {}
        BY ONLY <1>1, <1>2 DEF Everywhere
      <3>2. {task'[v] : v \in InHand'} = {h}
        BY ONLY <2>4, <2>6
      <3>3. Queued = Queued' \cup {h}
        BY ONLY <2>2, <2>5
      <3>4. 1 .. added = Queued' \cup {h} \cup Begun \cup dropped /\ h \notin dropped
            /\ dropped \cap (Queued' \cup Begun) = {}
        BY ONLY <3>1, <3>3
      <3>. QED BY ONLY <1>3, <2>4, <2>6, <3>2, <3>4, added' = added, dropped' = dropped
           DEF Everywhere
    <2>13. PopEmpty'
      BY ONLY <1>3, <2>3, <2>4, w \in Threads DEF PopEmpty
    <2>. QED BY ONLY <2>1, <2>2, <2>4, <2>11, <2>12, <2>13
  <1>. QED BY <1>4, <1>5

\* The task in hand is begun.
LEMMA QueueBegin ==
    ASSUME IInv, NEW w \in Threads, worker[w] = "popped", task[w] # 0,
           started' = Append(started, task[w]), worker' = [worker EXCEPT ![w] = "run"],
           tasks' = tasks, added' = added, task' = task, dropped' = dropped
    PROVE  Ordered' /\ Everywhere' /\ PopEmpty' /\ started' \in Seq(1 .. MaxTasks)
  <1>1. /\ MaxTasks \in Nat /\ started \in Seq(1 .. MaxTasks)
        /\ worker \in [Threads -> {"none", "new", "popped", "run", "leaving"}]
        /\ \A v \in InHand : task[v] \in 1 .. MaxTasks
        /\ \A u, v \in InHand : u = v
        /\ Queued \subseteq 1 .. MaxTasks /\ Begun \subseteq 1 .. MaxTasks
    BY Basics
  <1>2. w \in InHand /\ InHand = {w} /\ task[w] \in 1 .. MaxTasks
    BY ONLY <1>1, w \in Threads, worker[w] = "popped", task[w] # 0 DEF InHand
  <1>3. InHand' = {}
    <2>1. \A v \in Threads : v # w => worker'[v] = worker[v]
      BY ONLY <1>1, worker' = [worker EXCEPT ![w] = "run"]
    <2>2. worker'[w] = "run"
      BY ONLY <1>1, w \in Threads, worker' = [worker EXCEPT ![w] = "run"]
    <2>. QED BY ONLY <1>2, <2>1, <2>2, task' = task DEF InHand
  <1>4. Ordered /\ Everywhere /\ PopEmpty
    BY DEF IInv
  <1> DEFINE k == task[w]
  <1>5. /\ k \in 1 .. MaxTasks /\ started' = Append(started, k)
        /\ \A b \in Begun : b < k
        /\ \A q \in Queued : k < q
        /\ k \notin dropped
        /\ 1 .. added = Queued \cup {k} \cup Begun \cup dropped
    BY ONLY <1>2, <1>4, started' = Append(started, task[w]) DEF Ordered, Everywhere
  <1> HIDE DEF k
  <1>6. started' \in Seq(1 .. MaxTasks) /\ Begun' = Begun \cup {k}
    BY ONLY <1>1, <1>5, Added DEF Begun
  <1>7. \A i, j \in DOMAIN started' : i < j => started'[i] < started'[j]
    <2>1. started \in Seq(Nat) /\ k \in Nat
      <3>1. 1 .. MaxTasks \subseteq Nat
        BY ONLY <1>1
      <3>. QED BY ONLY <1>1, <1>5, <3>1
    <2>2. \A i \in DOMAIN started : started[i] < k
      BY ONLY <1>5 DEF Begun, Elements
    <2>3. \A i, j \in DOMAIN started : i < j => started[i] < started[j]
      BY ONLY <1>4 DEF Ordered
    <2>. QED BY ONLY <1>5, <2>1, <2>2, <2>3, AddedInOrder
  <1>8. Queued' = Queued
    BY DEF Queued
  <1>9. Ordered'
    BY ONLY <1>3, <1>4, <1>5, <1>6, <1>7, <1>8, tasks' = tasks DEF Ordered
  <1>10. Everywhere'
    BY ONLY <1>3, <1>4, <1>5, <1>6, <1>8, added' = added, dropped' = dropped DEF Everywhere
  <1>11. PopEmpty'
    BY <1>1, <1>4 DEF PopEmpty
  <1>. QED BY <1>6, <1>9, <1>10, <1>11

\* A task in hand that comes too late is dropped.
LEMMA QueueDrop ==
    ASSUME IInv, NEW w \in Threads, worker[w] = "popped",
           dropped' = dropped \cup ({task[w]} \ {0}),
           task' = [task EXCEPT ![w] = 0], worker' = [worker EXCEPT ![w] = "leaving"],
           tasks' = tasks, added' = added, started' = started
    PROVE  Ordered' /\ Everywhere' /\ PopEmpty' /\ task' \in [Threads -> 0 .. MaxTasks]
  <1>1. /\ MaxTasks \in Nat /\ task \in [Threads -> 0 .. MaxTasks]
        /\ worker \in [Threads -> {"none", "new", "popped", "run", "leaving"}]
        /\ \A v \in InHand : task[v] \in 1 .. MaxTasks
        /\ Queued \subseteq 1 .. MaxTasks /\ Begun \subseteq 1 .. MaxTasks
    BY Basics
  <1>2. \A v \in Threads : worker[v] = "popped" => v = w
    BY DEF IInv, ThreadsCounted, Holding
  <1>3. /\ worker'[w] = "leaving" /\ \A v \in Threads : v # w => worker'[v] = worker[v]
        /\ task'[w] = 0
    BY ONLY <1>1, w \in Threads, task' = [task EXCEPT ![w] = 0],
       worker' = [worker EXCEPT ![w] = "leaving"]
  <1>4. InHand' = {} /\ PopEmpty'
    BY ONLY <1>2, <1>3 DEF InHand, PopEmpty
  <1>5. Ordered /\ Everywhere
    BY DEF IInv
  <1>6. Queued' = Queued /\ Begun' = Begun
    BY DEF Queued, Begun
  <1>7. Ordered'
    BY ONLY <1>4, <1>5, <1>6, tasks' = tasks, started' = started DEF Ordered
  <1>8. Everywhere'
    <2>1. CASE task[w] = 0
      <3>1. InHand = {}
        BY ONLY <1>2, <2>1 DEF InHand
      <3>2. dropped' = dropped
        BY <2>1
      <3>. QED BY ONLY <1>4, <1>5, <1>6, <3>1, <3>2, added' = added DEF Everywhere
    <2>2. CASE task[w] # 0
      <3> DEFINE k == task[w]
      <3>1. InHand = {w}
        BY ONLY <1>2, <2>2, w \in Threads, worker[w] = "popped" DEF InHand
      <3>2. dropped' = dropped \cup {k}
        BY <2>2
      <3>3. k \in 1 .. MaxTasks /\ (\A b \in Begun : b < k) /\ (\A q \in Queued : k < q)
        BY ONLY <1>1, <1>5, <3>1 DEF Ordered
      <3>4. 1 .. added = Queued \cup {k} \cup Begun \cup dropped
            /\ dropped \cap (Queued \cup Begun) = {}
        BY ONLY <1>5, <3>1 DEF Everywhere
      <3> HIDE DEF k
      <3>5. k \notin Queued /\ k \notin Begun
        <4>1. \A x \in 1 .. MaxTasks : ~(x < x)
          BY ONLY <1>1
        <4>. QED BY ONLY <3>3, <4>1
      <3>. QED BY ONLY <1>4, <1>6, <3>2, <3>4, <3>5, added' = added DEF Everywhere
    <2>. QED BY <2>1, <2>2
  <1>9. 0 \in 0 .. MaxTasks
    BY ONLY <1>1
  <1>. QED BY ONLY <1>1, <1>4, <1>7, <1>8, <1>9, task' = [task EXCEPT ![w] = 0]

\* The queue is cancelled.
LEMMA QueueCancel ==
    ASSUME IInv, lock = None, dropped' = dropped \cup Queued, tasks' = <<>>,
           added' = added, task' = task, worker' = worker, started' = started
    PROVE  Ordered' /\ Everywhere' /\ PopEmpty'
  <1>1. /\ MaxTasks \in Nat /\ InHand = {}
        /\ Queued \subseteq 1 .. MaxTasks /\ Begun \subseteq 1 .. MaxTasks
    BY Basics
  <1>2. Ordered /\ Everywhere
    BY DEF IInv
  <1>3. Queued' = {} /\ Begun' = Begun /\ InHand' = {} /\ DOMAIN tasks' = {}
    <2>1. DOMAIN tasks' = {}
      OBVIOUS
    <2>. QED BY <1>1, <2>1 DEF Queued, Begun, InHand, Elements
  <1>4. Ordered'
    BY ONLY <1>2, <1>3, started' = started DEF Ordered
  <1>5. Queued \cap Begun = {}
    <2>1. \A x \in 1 .. MaxTasks : ~(x < x)
      BY ONLY <1>1
    <2>. QED BY ONLY <1>1, <1>2, <2>1 DEF Ordered
  <1>6. Everywhere'
    BY ONLY <1>1, <1>2, <1>3, <1>5, dropped' = dropped \cup Queued, added' = added DEF Everywhere
  <1>7. PopEmpty'
    BY DEF PopEmpty
  <1>. QED BY <1>4, <1>6, <1>7

\* A step that leaves the tasks alone.
LEMMA QueueSame ==
    ASSUME IInv, tasks' = tasks, added' = added, task' = task, started' = started,
           dropped' = dropped, \A w \in Threads : worker'[w] = "popped" <=> worker[w] = "popped"
    PROVE  Ordered' /\ Everywhere' /\ PopEmpty'
  <1>1. Queued' = Queued /\ Begun' = Begun /\ InHand' = InHand
    BY DEF Queued, Begun, InHand
  <1>2. Ordered /\ Everywhere /\ PopEmpty
    BY DEF IInv
  <1>3. Ordered'
    BY ONLY <1>1, <1>2, tasks' = tasks, task' = task, started' = started DEF Ordered
  <1>4. Everywhere'
    BY ONLY <1>1, <1>2, added' = added, task' = task, dropped' = dropped DEF Everywhere
  <1>5. PopEmpty'
    BY <1>2 DEF PopEmpty
  <1>. QED BY <1>3, <1>4, <1>5
-----------------------------------------------------------------------------
(* The steps *)

\* thd_cnt is the number of threads counted, and has a limit.
LEMMA CountBasics ==
    ASSUME IInv
    PROVE  /\ thd_cnt \in Nat /\ thd_cnt <= Limit /\ Limit \in Nat /\ 1 <= Limit /\ thd_max <= Limit
           /\ thd_cnt = Cardinality(Counted)
           /\ thd_cnt = 0 <=> Counted = {}
  <1>1. Limit \in Nat /\ 1 <= Limit /\ thd_max <= Limit
    BY PoolAssumption DEF PoolAssumption, Limit
  <1>2. thd_cnt \in 0 .. Limit /\ thd_cnt = Cardinality(Counted)
    BY DEF IInv, TypeOK, ThreadsCounted
  <1>. QED BY <1>1, <1>2, CountedFinite

\* The types of what is not queued.
RestTypes ==
    /\ thd_cnt \in 0 .. Limit /\ busy_thds \subseteq Threads
    /\ current_owner \in [Threads -> {NULL, Owner}]
    /\ terminated \in BOOLEAN /\ freed \in BOOLEAN /\ refused \in BOOLEAN
    /\ lock \in Threads \cup {None}
    /\ worker \in [Threads -> {"none", "new", "popped", "run", "leaving"}]
    /\ main \in {"loop", "stopping", "cancelled", "asleep", "quiet", "trim", "join", "freed"}
    /\ awaited \in Threads \cup {None}
    /\ done \subseteq 1 .. MaxTasks
    /\ failures \in 0 .. MaxFailures

\* The types of the queue and of what is in hand, begun or dropped.
QueueTypes ==
    /\ tasks \in Seq(1 .. MaxTasks) /\ added \in 0 .. MaxTasks
    /\ task \in [Threads -> 0 .. MaxTasks]
    /\ started \in Seq(1 .. MaxTasks)
    /\ dropped \subseteq 1 .. MaxTasks

\* TypeOK in its two parts.
LEMMA Types == TypeOK <=> RestTypes /\ QueueTypes
  BY DEF TypeOK, RestTypes, QueueTypes

\* The invariant put together after a step.
LEMMA Together ==
    ASSUME RestTypes', QueueTypes', ThreadsCounted', PopEmpty', RunsTask', NoStrandedTask',
           Ordered', Everywhere', Stopping', FreedIdle'
    PROVE  IInv'
  <1>1. TypeOK'
    BY ONLY RestTypes', QueueTypes' DEF TypeOK, RestTypes, QueueTypes
  <1>. QED BY <1>1 DEF IInv

\* A thread is created, is not needed, or cannot be created.
LEMMA AddStep == ASSUME IInv, add_task PROVE IInv'
  <1>1. /\ main # "freed" /\ lock = None /\ added < MaxTasks /\ added' = added + 1
        /\ tasks' = Append(tasks, added')
        /\ UNCHANGED <<busy_thds, current_owner, lock, task, terminated, freed, main, awaited,
                       started, done, dropped>>
    BY DEF add_task, stop, history
  <1>2. /\ RestTypes /\ QueueTypes /\ ThreadsCounted /\ RunsTask /\ NoStrandedTask
        /\ Stopping /\ FreedIdle
    BY Types DEF IInv
  <1>3. /\ thd_max \in Nat /\ MaxFailures \in Nat
        /\ worker \in [Threads -> {"none", "new", "popped", "run", "leaving"}]
    BY Basics
  <1>4. /\ thd_cnt \in Nat /\ thd_cnt <= Limit /\ Limit \in Nat /\ 1 <= Limit /\ thd_max <= Limit
        /\ thd_cnt = Cardinality(Counted)
    BY CountBasics
  <1>5. /\ RestTypes' /\ ThreadsCounted' /\ RunsTask'
        /\ refused' \/ thd_cnt' # 0
        /\ \A v \in Threads : worker'[v] = "popped" <=> worker[v] = "popped"
    <2>1. CASE ~WantsThread /\ refused' = FALSE /\ UNCHANGED <<thd_cnt, worker, failures>>
      <3>1. thd_cnt # 0
        BY <2>1 DEF WantsThread
      <3>2. RestTypes'
        BY ONLY <1>1, <1>2, <2>1 DEF RestTypes
      <3>3. ThreadsCounted' /\ RunsTask'
        BY ONLY <1>1, <1>2, <2>1 DEF ThreadsCounted, Counted, Holding, RunsTask
      <3>. QED BY <2>1, <3>1, <3>2, <3>3
    <2>2. ASSUME WantsThread, NEW w \in Threads, worker[w] = "none",
                 worker' = [worker EXCEPT ![w] = "new"], thd_cnt' = thd_cnt + 1,
                 refused' = FALSE, failures' = failures
          PROVE  /\ RestTypes' /\ ThreadsCounted' /\ RunsTask'
                 /\ refused' \/ thd_cnt' # 0
                 /\ \A v \in Threads : worker'[v] = "popped" <=> worker[v] = "popped"
      <3>1. thd_cnt + 1 \in 0 .. Limit /\ thd_cnt + 1 # 0
        BY <1>3, <1>4, <2>2 DEF WantsThread
      <3>2. /\ worker'[w] = "new" /\ \A v \in Threads : v # w => worker'[v] = worker[v]
            /\ worker' \in [Threads -> {"none", "new", "popped", "run", "leaving"}]
        BY ONLY <1>3, <2>2, w \in Threads
      <3>3. RestTypes'
        BY ONLY <1>1, <1>2, <2>2, <3>1, <3>2 DEF RestTypes
      <3>4. Cardinality(Counted') = Cardinality(Counted) + 1
        BY <1>3, <2>2, CountUp
      <3>5. /\ busy_thds' = {v \in Threads : worker'[v] \in {"popped", "run"}}
            /\ \A v \in Threads : Holding(v)' <=> lock' = v
        BY ONLY <1>1, <1>2, <2>2, <3>2 DEF ThreadsCounted, Holding
      <3>6. ThreadsCounted'
        BY ONLY <1>4, <2>2, <3>4, <3>5 DEF ThreadsCounted
      <3>7. RunsTask' /\ \A v \in Threads : worker'[v] = "popped" <=> worker[v] = "popped"
        BY ONLY <1>1, <1>2, <2>2, <3>2 DEF RunsTask
      <3>. QED BY <2>2, <3>1, <3>3, <3>6, <3>7
    <2>3. CASE /\ WantsThread /\ failures < MaxFailures /\ failures' = failures + 1
               /\ refused' = TRUE /\ UNCHANGED <<thd_cnt, worker>>
      <3>1. failures + 1 \in 0 .. MaxFailures
        BY <1>2, <1>3, <2>3 DEF RestTypes
      <3>2. RestTypes'
        BY ONLY <1>1, <1>2, <2>3, <3>1 DEF RestTypes
      <3>3. ThreadsCounted' /\ RunsTask'
        BY ONLY <1>1, <1>2, <2>3 DEF ThreadsCounted, Counted, Holding, RunsTask
      <3>. QED BY <2>3, <3>2, <3>3
    <2>. QED BY <2>1, <2>2, <2>3 DEF add_task
  <1>6. InHand' = InHand
    BY <1>1, <1>5 DEF InHand
  <1>7. /\ Ordered' /\ Everywhere'
        /\ tasks' \in Seq(1 .. MaxTasks) /\ tasks' # <<>> /\ added' \in 0 .. MaxTasks
    BY <1>1, <1>6, QueueAdd
  <1>8. QueueTypes'
    BY ONLY <1>1, <1>2, <1>7 DEF QueueTypes
  <1>9. PopEmpty'
    <2>1. \A v \in Threads : worker'[v] # "popped"
      BY <1>1, <1>5, Basics
    <2>. QED BY ONLY <2>1 DEF PopEmpty
  <1>10. NoStrandedTask'
    BY ONLY <1>5 DEF NoStrandedTask
  <1>11. Stopping'
    BY ONLY <1>1, <1>2 DEF Stopping
  <1>12. FreedIdle'
    <2>1. ~freed'
      BY ONLY <1>1, <1>2 DEF Stopping
    <2>. QED BY ONLY <2>1 DEF FreedIdle
  <1>. QED BY <1>5, <1>7, <1>8, <1>9, <1>10, <1>11, <1>12, Together

\* While a thread is counted the pool is not freed.
LEMMA NotFreed ==
    ASSUME IInv, NEW w \in Threads, worker[w] \in {"new", "popped", "run"} PROVE ~freed
  BY DEF IInv, FreedIdle, Counted

\* The threads are counted right when one of them enters.
LEMMA EnterCounts ==
    ASSUME IInv, NEW w \in Threads, worker[w] \in {"new", "run"}, lock = None, lock' = w,
           busy_thds' = busy_thds \cup {w}, worker' = [worker EXCEPT ![w] = "popped"],
           thd_cnt' = thd_cnt
    PROVE  ThreadsCounted'
  <1>1. /\ worker \in [Threads -> {"none", "new", "popped", "run", "leaving"}]
        /\ None \notin Threads
    BY Basics
  <1>2. ThreadsCounted
    BY DEF IInv
  <1>3. worker'[w] = "popped" /\ \A v \in Threads : v # w => worker'[v] = worker[v]
    BY ONLY <1>1, w \in Threads, worker' = [worker EXCEPT ![w] = "popped"]
  <1>4. Counted' = Counted
    BY ONLY <1>3, worker[w] \in {"new", "run"} DEF Counted
  <1>5. busy_thds' = {v \in Threads : worker'[v] \in {"popped", "run"}}
    BY ONLY <1>2, <1>3, w \in Threads, busy_thds' = busy_thds \cup {w} DEF ThreadsCounted
  <1>6. \A v \in Threads : Holding(v)' <=> lock' = v
    <2>1. \A v \in Threads : worker[v] \notin {"popped", "leaving"}
      BY ONLY <1>1, <1>2, lock = None DEF ThreadsCounted, Holding
    <2>. QED BY ONLY <1>3, <2>1, lock' = w, w \in Threads DEF Holding
  <1>. QED BY ONLY <1>2, <1>4, <1>5, <1>6, thd_cnt' = thd_cnt DEF ThreadsCounted

\* They are when one exits.
LEMMA ExitCounts ==
    ASSUME IInv, NEW w \in Threads, worker[w] \in {"new", "popped"}, lock' = w,
           worker[w] = "popped" \/ lock = None,
           busy_thds' = busy_thds \ {w}, Exit(w)
    PROVE  /\ ThreadsCounted' /\ thd_cnt' \in 0 .. Limit
           /\ worker' \in [Threads -> {"none", "new", "popped", "run", "leaving"}]
           /\ worker'[w] = "leaving" /\ \A v \in Threads : v # w => worker'[v] = worker[v]
  <1>1. /\ worker \in [Threads -> {"none", "new", "popped", "run", "leaving"}]
        /\ None \notin Threads
    BY Basics
  <1>2. worker' = [worker EXCEPT ![w] = "leaving"] /\ thd_cnt' = thd_cnt - 1
    BY DEF Exit
  <1>3. /\ worker'[w] = "leaving" /\ \A v \in Threads : v # w => worker'[v] = worker[v]
        /\ worker' \in [Threads -> {"none", "new", "popped", "run", "leaving"}]
    BY ONLY <1>1, <1>2, w \in Threads
  <1>4. ThreadsCounted
    BY DEF IInv
  <1>5. Cardinality(Counted') = Cardinality(Counted) - 1 /\ Cardinality(Counted) >= 1
    BY <1>1, <1>2, CountDown
  <1>6. thd_cnt \in Nat /\ thd_cnt <= Limit /\ Limit \in Nat /\ thd_cnt = Cardinality(Counted)
    BY CountBasics
  <1>7. thd_cnt' \in 0 .. Limit /\ thd_cnt' = Cardinality(Counted')
    <2> DEFINE c == Cardinality(Counted)
    <2>1. c \in Nat /\ c >= 1 /\ c <= Limit /\ Limit \in Nat
      BY ONLY <1>5, <1>6
    <2> HIDE DEF c
    <2>2. c - 1 \in 0 .. Limit
      BY ONLY <2>1
    <2>. QED BY ONLY <1>2, <1>5, <1>6, <2>2 DEF c
  <1>8. busy_thds' = {v \in Threads : worker'[v] \in {"popped", "run"}}
    BY ONLY <1>3, <1>4, busy_thds' = busy_thds \ {w} DEF ThreadsCounted
  <1>9. \A v \in Threads : Holding(v)' <=> lock' = v
    <2>1. \A v \in Threads : v # w => worker[v] \notin {"popped", "leaving"}
      BY ONLY <1>1, <1>4, worker[w] = "popped" \/ lock = None, w \in Threads
         DEF ThreadsCounted, Holding
    <2>. QED BY ONLY <1>3, <2>1, lock' = w, w \in Threads DEF Holding
  <1>. QED BY ONLY <1>3, <1>7, <1>8, <1>9 DEF ThreadsCounted

\* A new thread takes a task in hand, or goes at once.
LEMMA EnterStep == ASSUME IInv, NEW w \in Threads, Enter(w) PROVE IInv'
  <1>1. /\ worker[w] = "new" /\ lock = None /\ lock' = w
        /\ current_owner' = [current_owner EXCEPT ![w] = NULL]
        /\ UNCHANGED <<added, terminated, freed, main, awaited, started, done, dropped,
                       failures, refused>>
    BY DEF Enter, stop, history, create
  <1>2. /\ RestTypes /\ QueueTypes /\ ThreadsCounted /\ RunsTask /\ NoStrandedTask
        /\ Stopping /\ FreedIdle
    BY Types DEF IInv
  <1>3. ~freed'
    BY <1>1, NotFreed
  <1>4. FreedIdle' /\ Stopping'
    BY ONLY <1>1, <1>2, <1>3 DEF FreedIdle, Stopping
  <1>5. current_owner' \in [Threads -> {NULL, Owner}]
    BY ONLY <1>1, <1>2 DEF RestTypes
  <1>6. CASE terminated /\ Exit(w) /\ UNCHANGED <<tasks, task, busy_thds>>
    <2>1. busy_thds' = busy_thds \ {w}
      BY <1>1, <1>2, <1>6 DEF ThreadsCounted
    <2>2. /\ ThreadsCounted' /\ thd_cnt' \in 0 .. Limit
          /\ worker' \in [Threads -> {"none", "new", "popped", "run", "leaving"}]
          /\ worker'[w] = "leaving" /\ \A v \in Threads : v # w => worker'[v] = worker[v]
      BY <1>1, <1>6, <2>1, ExitCounts
    <2>3. RestTypes'
      BY ONLY <1>1, <1>2, <1>5, <1>6, <2>2, w \in Threads DEF RestTypes
    <2>4. QueueTypes'
      BY ONLY <1>1, <1>2, <1>6 DEF QueueTypes
    <2>5. \A v \in Threads : worker'[v] = "popped" <=> worker[v] = "popped"
      BY ONLY <1>1, <2>2
    <2>6. Ordered' /\ Everywhere' /\ PopEmpty'
      BY <1>1, <1>6, <2>5, QueueSame
    <2>7. RunsTask'
      BY ONLY <1>2, <1>6, <2>2 DEF RunsTask
    <2>8. NoStrandedTask'
      BY <1>1, <1>6 DEF NoStrandedTask
    <2>. QED BY <1>4, <2>2, <2>3, <2>4, <2>6, <2>7, <2>8, Together
  <1>7. CASE /\ ~terminated /\ busy_thds' = busy_thds \cup {w} /\ pop_task(w)
             /\ worker' = [worker EXCEPT ![w] = "popped"] /\ UNCHANGED thd_cnt
    <2>1. ThreadsCounted'
      BY <1>1, <1>7, EnterCounts
    <2>2. /\ Ordered' /\ Everywhere' /\ PopEmpty'
          /\ tasks' \in Seq(1 .. MaxTasks) /\ task' \in [Threads -> 0 .. MaxTasks]
      BY <1>1, <1>7, QueuePop
    <2>3. /\ worker' \in [Threads -> {"none", "new", "popped", "run", "leaving"}]
          /\ worker'[w] = "popped" /\ \A v \in Threads : v # w => worker'[v] = worker[v]
      BY ONLY <1>2, <1>7, w \in Threads DEF RestTypes
    <2>4. RestTypes'
      BY ONLY <1>1, <1>2, <1>5, <1>7, <2>3, w \in Threads DEF RestTypes
    <2>5. QueueTypes'
      BY ONLY <1>1, <1>2, <2>2 DEF QueueTypes
    <2>6. RunsTask'
      <3>1. \A v \in Threads : v # w => task'[v] = task[v]
        BY <1>2, <1>7 DEF pop_task, QueueTypes
      <3>. QED BY ONLY <1>2, <2>3, <3>1 DEF RunsTask
    <2>7. thd_cnt' # 0
      <3>1. w \in Counted
        BY <1>1 DEF Counted
      <3>. QED BY <1>7, <3>1, CountBasics
    <2>8. NoStrandedTask'
      BY ONLY <2>7 DEF NoStrandedTask
    <2>. QED BY <1>4, <2>1, <2>2, <2>4, <2>5, <2>6, <2>8, Together
  <1>. QED BY <1>6, <1>7 DEF Enter

\* A thread that has run its task takes the next.
LEMMA FinishStep == ASSUME IInv, NEW w \in Threads, FinishTask(w) PROVE IInv'
  <1>1. /\ worker[w] = "run" /\ lock = None /\ lock' = w
        /\ done' = done \cup {task[w]} /\ pop_task(w)
        /\ current_owner' = [current_owner EXCEPT ![w] = NULL]
        /\ worker' = [worker EXCEPT ![w] = "popped"]
        /\ UNCHANGED <<added, thd_cnt, busy_thds, terminated, freed, main, awaited, started,
                       dropped, failures, refused>>
    BY DEF FinishTask, stop, create
  <1>2. /\ RestTypes /\ QueueTypes /\ ThreadsCounted /\ RunsTask /\ Stopping /\ FreedIdle
    BY Types DEF IInv
  <1>3. FreedIdle' /\ Stopping'
    <2>1. ~freed'
      BY <1>1, NotFreed
    <2>. QED BY ONLY <1>1, <1>2, <2>1 DEF FreedIdle, Stopping
  <1>4. ThreadsCounted'
    <2>1. busy_thds' = busy_thds \cup {w}
      BY <1>1, <1>2 DEF ThreadsCounted
    <2>. QED BY <1>1, <2>1, EnterCounts
  <1>5. /\ Ordered' /\ Everywhere' /\ PopEmpty'
        /\ tasks' \in Seq(1 .. MaxTasks) /\ task' \in [Threads -> 0 .. MaxTasks]
    BY <1>1, QueuePop
  <1>6. /\ worker' \in [Threads -> {"none", "new", "popped", "run", "leaving"}]
        /\ worker'[w] = "popped" /\ \A v \in Threads : v # w => worker'[v] = worker[v]
        /\ current_owner' \in [Threads -> {NULL, Owner}]
    BY ONLY <1>1, <1>2, w \in Threads DEF RestTypes
  <1>7. RestTypes'
    <2>1. task[w] \in 1 .. MaxTasks
      <3>1. MaxTasks \in Nat /\ task[w] \in 0 .. MaxTasks /\ task[w] # 0
        BY <1>1, <1>2, Basics DEF RunsTask
      <3>. QED BY ONLY <3>1
    <2>. QED BY ONLY <1>1, <1>2, <1>6, <2>1, w \in Threads DEF RestTypes
  <1>8. QueueTypes'
    BY ONLY <1>1, <1>2, <1>5 DEF QueueTypes
  <1>9. RunsTask'
    <2>1. \A v \in Threads : v # w => task'[v] = task[v]
      BY <1>1, <1>2 DEF pop_task, QueueTypes
    <2>. QED BY ONLY <1>2, <1>6, <2>1 DEF RunsTask
  <1>10. NoStrandedTask'
    <2>1. w \in Counted
      BY <1>1 DEF Counted
    <2>2. thd_cnt' # 0
      BY <1>1, <2>1, CountBasics
    <2>. QED BY ONLY <2>2 DEF NoStrandedTask
  <1>. QED BY <1>3, <1>4, <1>5, <1>7, <1>8, <1>9, <1>10, Together

\* A task in hand is begun and the lock given back.
LEMMA RunStep == ASSUME IInv, NEW w \in Threads, RunTask(w) PROVE IInv'
  <1>1. /\ worker[w] = "popped" /\ task[w] # 0 /\ started' = Append(started, task[w])
        /\ current_owner' = [current_owner EXCEPT ![w] = Owner]
        /\ worker' = [worker EXCEPT ![w] = "run"] /\ lock' = None
        /\ UNCHANGED <<tasks, added, thd_cnt, busy_thds, task, terminated, freed, main, awaited,
                       done, dropped, failures, refused>>
    BY DEF RunTask, stop, create
  <1>2. /\ RestTypes /\ QueueTypes /\ ThreadsCounted /\ RunsTask /\ Stopping /\ FreedIdle
        /\ None \notin Threads
    BY Types, Basics DEF IInv
  <1>3. FreedIdle' /\ Stopping'
    <2>1. ~freed'
      BY <1>1, NotFreed
    <2>. QED BY ONLY <1>1, <1>2, <2>1 DEF FreedIdle, Stopping
  <1>4. /\ worker' \in [Threads -> {"none", "new", "popped", "run", "leaving"}]
        /\ worker'[w] = "run" /\ \A v \in Threads : v # w => worker'[v] = worker[v]
        /\ current_owner' \in [Threads -> {NULL, Owner}]
    BY ONLY <1>1, <1>2, w \in Threads DEF RestTypes
  <1>5. ThreadsCounted'
    <2>1. Counted' = Counted
      BY ONLY <1>1, <1>4 DEF Counted
    <2>2. busy_thds' = {v \in Threads : worker'[v] \in {"popped", "run"}}
      BY ONLY <1>1, <1>2, <1>4 DEF ThreadsCounted
    <2>3. \A v \in Threads : Holding(v)' <=> lock' = v
      BY ONLY <1>1, <1>2, <1>4, w \in Threads DEF ThreadsCounted, Holding
    <2>. QED BY ONLY <1>1, <1>2, <2>1, <2>2, <2>3 DEF ThreadsCounted
  <1>6. Ordered' /\ Everywhere' /\ PopEmpty' /\ started' \in Seq(1 .. MaxTasks)
    BY <1>1, QueueBegin
  <1>7. RestTypes' /\ QueueTypes'
    BY ONLY <1>1, <1>2, <1>4, <1>6, w \in Threads DEF RestTypes, QueueTypes
  <1>8. RunsTask'
    BY ONLY <1>1, <1>2, <1>4 DEF RunsTask
  <1>9. NoStrandedTask'
    <2>1. w \in Counted
      BY <1>1 DEF Counted
    <2>2. thd_cnt' # 0
      BY <1>1, <2>1, CountBasics
    <2>. QED BY ONLY <2>2 DEF NoStrandedTask
  <1>. QED BY <1>3, <1>5, <1>6, <1>7, <1>8, <1>9, Together

\* The thread that goes found the queue empty, or was told to terminate.
LEMMA RetireStep == ASSUME IInv, NEW w \in Threads, Retire(w) PROVE IInv'
  <1>1. /\ worker[w] = "popped" /\ (task[w] = 0 \/ terminated)
        /\ busy_thds' = busy_thds \ {w} /\ dropped' = dropped \cup ({task[w]} \ {0})
        /\ task' = [task EXCEPT ![w] = 0] /\ Exit(w)
        /\ UNCHANGED <<tasks, added, current_owner, lock, terminated, freed, main, awaited,
                       started, done, failures, refused>>
    BY DEF Retire, stop, create
  <1>2. /\ RestTypes /\ QueueTypes /\ ThreadsCounted /\ RunsTask /\ PopEmpty /\ Stopping /\ FreedIdle
    BY Types DEF IInv
  <1>3. FreedIdle' /\ Stopping'
    <2>1. ~freed'
      BY <1>1, NotFreed
    <2>2. dropped' # {} => main # "loop"
      BY ONLY <1>1, <1>2 DEF Stopping
    <2>. QED BY ONLY <1>1, <1>2, <2>1, <2>2 DEF FreedIdle, Stopping
  <1>4. lock' = w
    BY ONLY <1>1, <1>2, w \in Threads DEF ThreadsCounted, Holding
  <1>5. /\ ThreadsCounted' /\ thd_cnt' \in 0 .. Limit
        /\ worker' \in [Threads -> {"none", "new", "popped", "run", "leaving"}]
        /\ worker'[w] = "leaving" /\ \A v \in Threads : v # w => worker'[v] = worker[v]
    BY <1>1, <1>4, ExitCounts
  <1>6. /\ Ordered' /\ Everywhere' /\ PopEmpty' /\ task' \in [Threads -> 0 .. MaxTasks]
    <2>1. worker' = [worker EXCEPT ![w] = "leaving"]
      BY <1>1 DEF Exit
    <2>. QED BY <1>1, <2>1, QueueDrop
  <1>7. RestTypes'
    BY ONLY <1>1, <1>2, <1>5 DEF RestTypes
  <1>8. QueueTypes'
    <2>1. MaxTasks \in Nat /\ task[w] \in 0 .. MaxTasks
      BY <1>2, Basics DEF QueueTypes
    <2>2. {task[w]} \ {0} \subseteq 1 .. MaxTasks
      BY ONLY <2>1
    <2>. QED BY ONLY <1>1, <1>2, <1>6, <2>2 DEF QueueTypes
  <1>9. RunsTask'
    <2>1. \A v \in Threads : v # w => task'[v] = task[v]
      BY <1>1, <1>2 DEF QueueTypes
    <2>. QED BY ONLY <1>2, <1>5, <2>1 DEF RunsTask
  <1>10. NoStrandedTask'
    BY ONLY <1>1, <1>2, w \in Threads DEF NoStrandedTask, PopEmpty
  <1>. QED BY <1>3, <1>5, <1>6, <1>7, <1>8, <1>9, <1>10, Together

\* The thread that goes gives the lock back.
LEMMA LeaveStep == ASSUME IInv, NEW w \in Threads, Leave(w) PROVE IInv'
  <1>1. /\ worker[w] = "leaving" /\ lock' = None /\ worker' = [worker EXCEPT ![w] = "none"]
        /\ UNCHANGED <<tasks, added, thd_cnt, busy_thds, current_owner, task, terminated, freed,
                       main, awaited, started, done, dropped, failures, refused>>
    BY DEF Leave, ring, stop, history, create
  <1>2. /\ RestTypes /\ QueueTypes /\ ThreadsCounted /\ RunsTask /\ NoStrandedTask
        /\ Stopping /\ FreedIdle /\ None \notin Threads
    BY Types, Basics DEF IInv
  <1>3. /\ worker' \in [Threads -> {"none", "new", "popped", "run", "leaving"}]
        /\ worker'[w] = "none" /\ \A v \in Threads : v # w => worker'[v] = worker[v]
    BY ONLY <1>1, <1>2, w \in Threads DEF RestTypes
  <1>4. Counted' = Counted
    BY ONLY <1>1, <1>3 DEF Counted
  <1>5. ThreadsCounted'
    <2>1. busy_thds' = {v \in Threads : worker'[v] \in {"popped", "run"}}
      BY ONLY <1>1, <1>2, <1>3 DEF ThreadsCounted
    <2>2. \A v \in Threads : Holding(v)' <=> lock' = v
      BY ONLY <1>1, <1>2, <1>3, w \in Threads DEF ThreadsCounted, Holding
    <2>. QED BY ONLY <1>1, <1>2, <1>4, <2>1, <2>2 DEF ThreadsCounted
  <1>6. Ordered' /\ Everywhere' /\ PopEmpty'
    <2>1. \A v \in Threads : worker'[v] = "popped" <=> worker[v] = "popped"
      BY ONLY <1>1, <1>3
    <2>. QED BY <1>1, <2>1, QueueSame
  <1>7. RestTypes' /\ QueueTypes'
    BY ONLY <1>1, <1>2, <1>3 DEF RestTypes, QueueTypes
  <1>8. RunsTask'
    BY ONLY <1>1, <1>2, <1>3 DEF RunsTask
  <1>9. NoStrandedTask' /\ Stopping' /\ FreedIdle'
    BY ONLY <1>1, <1>2, <1>4 DEF NoStrandedTask, Stopping, FreedIdle
  <1>. QED BY <1>5, <1>6, <1>7, <1>8, <1>9, Together

\* A step of the main thread that only says how far the shutdown is, or that it
\* has begun.
LEMMA MainStep ==
    ASSUME IInv, UNCHANGED <<ring, lock, threads, history, create>>,
           main' \in {"stopping", "cancelled", "asleep", "quiet", "trim", "join", "freed"},
           terminated' \in BOOLEAN, freed' \in BOOLEAN, awaited' \in Threads \cup {None},
           Stopping', terminated => terminated', freed' => thd_cnt = 0
    PROVE  IInv'
  <1>1. UNCHANGED <<tasks, added, thd_cnt, busy_thds, current_owner, lock, worker, task,
                    started, done, dropped, failures, refused>>
    BY DEF ring, threads, history, create
  <1>2. RestTypes /\ QueueTypes /\ ThreadsCounted /\ RunsTask /\ NoStrandedTask
    BY Types DEF IInv
  <1>3. RestTypes' /\ QueueTypes'
    BY ONLY <1>1, <1>2, terminated' \in BOOLEAN, freed' \in BOOLEAN,
       awaited' \in Threads \cup {None},
       main' \in {"stopping", "cancelled", "asleep", "quiet", "trim", "join", "freed"}
       DEF RestTypes, QueueTypes
  <1>4. ThreadsCounted' /\ RunsTask'
    BY ONLY <1>1, <1>2 DEF ThreadsCounted, Counted, Holding, RunsTask
  <1>5. NoStrandedTask'
    BY ONLY <1>1, <1>2, terminated => terminated' DEF NoStrandedTask
  <1>6. Ordered' /\ Everywhere' /\ PopEmpty'
    BY <1>1, QueueSame
  <1>7. FreedIdle'
    <2>1. thd_cnt = 0 => Counted = {}
      BY CountBasics
    <2>2. thd_cnt = 0 => busy_thds = {}
      BY ONLY <1>2, <2>1 DEF ThreadsCounted, Counted
    <2>3. Counted' = Counted
      BY ONLY <1>1 DEF Counted
    <2>. QED BY ONLY <1>1, <2>1, <2>2, <2>3, freed' => thd_cnt = 0 DEF FreedIdle
  <1>. QED BY <1>3, <1>4, <1>5, <1>6, <1>7, Together

\* The queue is cancelled: all of it is dropped.
LEMMA CancelStep == ASSUME IInv, remove_tasks PROVE IInv'
  <1>1. /\ main = "stopping" /\ lock = None /\ dropped' = dropped \cup Queued
        /\ tasks' = <<>> /\ main' = "cancelled"
        /\ UNCHANGED <<added, thd_cnt, busy_thds, current_owner, lock, worker, task,
                       terminated, freed, awaited, started, done, failures, refused>>
    BY DEF remove_tasks, threads, create, Queued, Elements
  <1>2. /\ RestTypes /\ QueueTypes /\ ThreadsCounted /\ RunsTask /\ Stopping /\ FreedIdle
    BY Types DEF IInv
  <1>3. Queued \subseteq 1 .. MaxTasks
    BY Basics
  <1>4. RestTypes' /\ QueueTypes'
    <2>1. <<>> \in Seq(1 .. MaxTasks)
      OBVIOUS
    <2>. QED BY ONLY <1>1, <1>2, <1>3, <2>1 DEF RestTypes, QueueTypes
  <1>5. ThreadsCounted' /\ RunsTask' /\ NoStrandedTask'
    BY ONLY <1>1, <1>2 DEF ThreadsCounted, Counted, Holding, RunsTask, NoStrandedTask
  <1>6. Ordered' /\ Everywhere' /\ PopEmpty'
    BY <1>1, QueueCancel
  <1>7. Stopping' /\ FreedIdle'
    BY ONLY <1>1, <1>2 DEF Stopping, FreedIdle, Counted
  <1>. QED BY <1>4, <1>5, <1>6, <1>7, Together

\* SIGTERM, and what its handler does but cancel the queue.
LEMMA StopStep ==
    ASSUME IInv, sig_term \/ FindBusy \/ Terminate \/ TrimIdle \/ Cleanup PROVE IInv'
  <1>1. RestTypes /\ Stopping /\ ThreadsCounted
    BY Types DEF IInv
  <1>2. CASE sig_term
    <2>1. /\ UNCHANGED <<ring, lock, threads, history, create>>
          /\ main = "loop" /\ main' = "stopping" /\ UNCHANGED <<terminated, freed, awaited, dropped>>
      BY <1>2 DEF sig_term, history
    <2>2. Stopping'
      BY ONLY <1>1, <2>1 DEF Stopping
    <2>3. terminated' \in BOOLEAN /\ freed' \in BOOLEAN /\ awaited' \in Threads \cup {None} /\ ~freed'
      BY ONLY <1>1, <2>1 DEF RestTypes, Stopping
    <2>. QED BY <2>1, <2>2, <2>3, MainStep
  <1>3. CASE FindBusy
    <2>1. /\ UNCHANGED <<ring, lock, threads, history, create>> /\ main \in {"cancelled", "asleep"}
          /\ UNCHANGED <<terminated, freed, dropped>>
          /\ \/ main' = "quiet" /\ UNCHANGED awaited
             \/ \E w \in busy_thds : awaited' = w /\ main' = "asleep"
      BY <1>3 DEF FindBusy, history
    <2>2. main' \in {"quiet", "asleep"} /\ awaited' \in Threads \cup {None}
      BY ONLY <1>1, <2>1 DEF RestTypes
    <2>3. Stopping'
      BY ONLY <1>1, <2>1, <2>2 DEF Stopping
    <2>4. terminated' \in BOOLEAN /\ freed' \in BOOLEAN /\ ~freed'
      BY ONLY <1>1, <2>1 DEF RestTypes, Stopping
    <2>. QED BY <2>1, <2>2, <2>3, <2>4, MainStep
  <1>4. CASE Terminate
    <2>1. /\ UNCHANGED <<ring, lock, threads, history, create>> /\ main = "quiet" /\ main' = "trim"
          /\ UNCHANGED <<freed, awaited, dropped>> /\ terminated' = TRUE
      BY <1>4 DEF Terminate, history
    <2>2. Stopping'
      BY ONLY <1>1, <2>1 DEF Stopping
    <2>3. freed' \in BOOLEAN /\ awaited' \in Threads \cup {None} /\ ~freed'
      BY ONLY <1>1, <2>1 DEF RestTypes, Stopping
    <2>. QED BY <2>1, <2>2, <2>3, MainStep
  <1>5. CASE TrimIdle
    <2>1. /\ UNCHANGED <<ring, lock, threads, history, create>> /\ main = "trim" /\ main' = "join"
          /\ UNCHANGED <<terminated, freed, awaited, dropped>>
      BY <1>5 DEF TrimIdle, history
    <2>2. Stopping'
      BY ONLY <1>1, <2>1 DEF Stopping
    <2>3. /\ terminated' \in BOOLEAN /\ freed' \in BOOLEAN /\ awaited' \in Threads \cup {None} /\ ~freed'
      BY ONLY <1>1, <2>1 DEF RestTypes, Stopping
    <2>. QED BY <2>1, <2>2, <2>3, MainStep
  <1>6. CASE Cleanup
    <2>1. /\ UNCHANGED <<ring, lock, threads, history, create>> /\ main = "join" /\ main' = "freed"
          /\ UNCHANGED <<terminated, awaited, dropped>> /\ freed' = TRUE /\ thd_cnt = 0
      BY <1>6 DEF Cleanup, history
    <2>2. Stopping'
      BY ONLY <1>1, <2>1 DEF Stopping
    <2>3. terminated' \in BOOLEAN /\ awaited' \in Threads \cup {None}
      BY ONLY <1>1, <2>1 DEF RestTypes
    <2>. QED BY <2>1, <2>2, <2>3, MainStep
  <1>. QED BY <1>2, <1>3, <1>4, <1>5, <1>6
-----------------------------------------------------------------------------
(* The theorems *)

\* The pool as thread_pool_init leaves it.
LEMMA InitHolds == Init => IInv
  <1>1. SUFFICES ASSUME Init PROVE IInv
    OBVIOUS
  <1>2. thd_max \in Nat /\ MaxTasks \in Nat /\ MaxFailures \in Nat /\ None \notin Threads
    BY PoolAssumption DEF PoolAssumption
  <1>3. Limit \in Nat
    BY <1>2 DEF Limit
  <1>4. TypeOK
    <2>1. 0 \in 0 .. Limit /\ 0 \in 0 .. MaxTasks /\ 0 \in 0 .. MaxFailures
      BY ONLY <1>2, <1>3
    <2>2. tasks \in Seq(1 .. MaxTasks) /\ started \in Seq(1 .. MaxTasks)
      BY <1>1 DEF Init
    <2>3. /\ current_owner \in [Threads -> {NULL, Owner}] /\ task \in [Threads -> 0 .. MaxTasks]
          /\ worker \in [Threads -> {"none", "new", "popped", "run", "leaving"}]
      BY <1>1, <2>1 DEF Init
    <2>. QED BY ONLY <1>1, <2>1, <2>2, <2>3 DEF Init, TypeOK
  <1>5. Counted = {} /\ InHand = {}
    BY <1>1 DEF Init, Counted, InHand
  <1>6. ThreadsCounted
    BY <1>1, <1>2, <1>5, CountedFinite DEF Init, ThreadsCounted, Holding
  <1>7. Queued = {} /\ Begun = {} /\ DOMAIN tasks = {} /\ DOMAIN started = {}
    BY <1>1 DEF Init, Queued, Begun, Elements
  <1>8. Ordered
    BY ONLY <1>5, <1>7 DEF Ordered
  <1>9. Everywhere
    <2>1. 1 .. added = {}
      BY <1>1 DEF Init
    <2>. QED BY <1>1, <1>5, <1>7, <2>1 DEF Init, Everywhere
  <1>10. PopEmpty /\ RunsTask /\ NoStrandedTask /\ Stopping /\ FreedIdle
    BY <1>1 DEF Init, PopEmpty, RunsTask, NoStrandedTask, Stopping, FreedIdle
  <1>. QED BY <1>4, <1>6, <1>8, <1>9, <1>10 DEF IInv

\* Every step preserves the invariant.
LEMMA StepHolds == IInv /\ [Next]_vars => IInv'
  <1>1. SUFFICES ASSUME IInv, [Next]_vars PROVE IInv'
    OBVIOUS
  <1>2. CASE add_task
    BY <1>1, <1>2, AddStep
  <1>3. ASSUME NEW w \in Threads, Work(w) PROVE IInv'
    BY <1>1, <1>3, EnterStep, RunStep, FinishStep, RetireStep, LeaveStep DEF Work
  <1>4. CASE sig_term
    BY <1>1, <1>4, StopStep
  <1>5. CASE stop_threadpool
    BY <1>1, <1>5, StopStep, CancelStep DEF stop_threadpool
  <1>6. CASE UNCHANGED vars
    <2>1. UNCHANGED <<tasks, added, thd_cnt, busy_thds, current_owner, lock, worker, task,
                      terminated, freed, main, awaited, started, done, dropped, failures, refused>>
      BY <1>6 DEF vars, ring, threads, stop, history, create
    <2>2. /\ RestTypes /\ QueueTypes /\ ThreadsCounted /\ RunsTask /\ NoStrandedTask
          /\ Stopping /\ FreedIdle
      BY <1>1, Types DEF IInv
    <2>3. RestTypes' /\ QueueTypes' /\ Stopping'
      BY ONLY <2>1, <2>2 DEF RestTypes, QueueTypes, Stopping
    <2>4. ThreadsCounted' /\ RunsTask' /\ NoStrandedTask' /\ FreedIdle'
      BY ONLY <2>1, <2>2 DEF ThreadsCounted, Counted, Holding, RunsTask, NoStrandedTask, FreedIdle
    <2>5. Ordered' /\ Everywhere' /\ PopEmpty'
      BY <1>1, <2>1, QueueSame
    <2>. QED BY <2>3, <2>4, <2>5, Together
  <1>. QED BY <1>1, <1>2, <1>3, <1>4, <1>5, <1>6 DEF Next

\* In every reachable state the counts are right, the lock is held by whoever
\* has a task in hand, and the tasks are in the order in which they were added
\* (thread_pool_func, add_task, stop_threadpool).
THEOREM Invariance == Spec => []IInv
  <1>1. Init => IInv
    BY InitHolds
  <1>2. IInv /\ [Next]_vars => IInv'
    BY StepHolds
  <1>. QED BY <1>1, <1>2, PTL DEF Spec

\* The pool never has more threads than max_worker, and its counts are in range.
THEOREM TypeCorrect == Spec => []TypeOK
  <1>1. IInv => TypeOK
    BY DEF IInv
  <1>. QED BY <1>1, Invariance, PTL

\* thd_cnt counts exactly the threads that will still look at the queue, and
\* me->lock excludes.
THEOREM CountsRight == Spec => []ThreadsCounted
  <1>1. IInv => ThreadsCounted
    BY DEF IInv
  <1>. QED BY <1>1, Invariance, PTL

\* thread_pool_func never exits past a task: a task waits without a thread only
\* if its thread could not be created or the pool terminates.
THEOREM NoneStranded == Spec => []NoStrandedTask
  <1>1. IInv => NoStrandedTask
    BY DEF IInv
  <1>. QED BY <1>1, Invariance, PTL

\* No task is lost, run twice or begun out of order by add_task, pop_task and
\* base_threadpool_cancel_tasks, and none is dropped before SIGTERM.
THEOREM Conserved == Spec => []TasksConserved
  <1>1. ASSUME IInv PROVE TasksConserved
    <2> DEFINE hand == {w \in Threads : task[w] # 0 /\ worker[w] = "popped"}
    <2>1. hand = InHand /\ {tasks[i] : i \in DOMAIN tasks} = Queued
          /\ {started[i] : i \in DOMAIN started} = Begun
      BY DEF InHand, Queued, Begun, Elements
    <2>2. /\ MaxTasks \in Nat /\ Queued \subseteq 1 .. MaxTasks /\ Begun \subseteq 1 .. MaxTasks
          /\ \A w \in InHand : task[w] \in 1 .. MaxTasks
          /\ \A v, w \in InHand : v = w
      BY <1>1, Basics
    <2>3. Ordered /\ Everywhere /\ Stopping
      BY <1>1 DEF IInv
    <2>4. \A x \in 1 .. MaxTasks : ~(x < x)
      BY ONLY <2>2
    <2>5. Queued \cap Begun = {} /\ \A w \in InHand : task[w] \notin Queued \cup Begun \cup dropped
      BY ONLY <2>2, <2>3, <2>4 DEF Ordered, Everywhere
    <2>6. dropped # {} => main # "loop"
      BY ONLY <2>3 DEF Stopping
    <2> HIDE DEF hand
    <2>. QED BY ONLY <2>1, <2>2, <2>3, <2>5, <2>6 DEF TasksConserved, Ordered, Everywhere, hand
  <1>. QED BY <1>1, Invariance, PTL

\* thread_pool_cleanup frees the pool when no thread runs a task or will.
THEOREM IdleWhenFreed == Spec => []FreedIdle
  <1>1. IInv => FreedIdle
    BY DEF IInv
  <1>. QED BY <1>1, Invariance, PTL
=============================================================================
