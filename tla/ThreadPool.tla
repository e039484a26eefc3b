----------------------------- MODULE ThreadPool -----------------------------
(***************************************************************************)
(* The pool that runs packets and timer messages (core/base_threadpool.c,  *)
(* used through core/thread.c), and its shutdown on SIGTERM.               *)
(*                                                                         *)
(* As thread.c sets it up: no initial threads, so idle_max and threshold   *)
(* are 0 and a thread that finds no task exits instead of becoming idle;   *)
(* no task limit; every task of priority 0, so the ring of tasks is a      *)
(* queue; every owner NULL; no scheduled tasks, no trimming.               *)
(*                                                                         *)
(* A step is what a thread does between two points where another thread    *)
(* may see or change what it uses: the lock is a variable because          *)
(* `terminated` and thd_cnt are also used without it. The main thread is   *)
(* the event loop and the signal handlers that interrupt it; SIGTERM is    *)
(* taken outside add_task, and a timer message is queued neither inside a  *)
(* critical section nor between the last test of thd_cnt and the free.     *)
(***************************************************************************)
EXTENDS Integers, Sequences, FiniteSets

CONSTANTS Threads,      \* slots: base_thread_list_elt of the pool's threads
          None,         \* nobody holds the lock
          NULL,         \* no owner
          Owner,        \* the owner that thread.c passes
          thd_max,      \* max_worker of the configuration
          MaxTasks,     \* bound: tasks added
          MaxFailures   \* bound: threads that cannot be created

Limit == IF thd_max = 0 THEN 1 ELSE thd_max

ASSUME PoolAssumption ==
    /\ thd_max \in Nat /\ MaxTasks \in Nat /\ MaxFailures \in Nat
    /\ IsFiniteSet(Threads) /\ Limit <= Cardinality(Threads)
    /\ None \notin Threads

VARIABLES
    tasks,           \* the queue; tasks are numbered as they are added
    added,           \* tasks added so far
    thd_cnt,         \* threads counted as alive
    busy_thds,       \* threads on the busy ring
    current_owner,   \* what each thread's task belongs to
    terminated,
    lock,            \* who holds me->lock
    freed,           \* thread_pool_cleanup has freed the pool
    worker,          \* where each thread is
    task,            \* the task it popped, 0 for none
    main,            \* where the main thread is
    awaited,         \* the busy thread wait_on_busy_threads looks at
    started,         \* history: tasks in the order they were begun
    done,            \* history: tasks that have run
    dropped,         \* history: tasks cancelled, or popped and not run
    failures,        \* history: threads that could not be created
    refused          \* history: the last task added got no thread for it

ring    == <<tasks, added, thd_cnt, busy_thds, current_owner>>
threads == <<worker, task>>
stop    == <<terminated, freed, main, awaited>>
history == <<started, done, dropped>>
create  == <<failures, refused>>
vars    == <<ring, lock, threads, stop, history, create>>

-----------------------------------------------------------------------------
(* add_task *)

\* Fault: the limit is off by one.
WantsThreadFault == thd_cnt = 0 \/ thd_cnt <= thd_max

\* A thread is created when there is none, or none idle and room for one more.
WantsThread == thd_cnt = 0 \/ thd_cnt < thd_max

\* A packet, or a timer message even while the server is stopping. If the
\* thread cannot be created the task stays in the queue.
add_task ==
    /\ main # "freed" /\ lock = None
    /\ added < MaxTasks
    /\ added' = added + 1
    /\ tasks' = Append(tasks, added')
    /\ \/ /\ ~WantsThread
          /\ refused' = FALSE
          /\ UNCHANGED <<thd_cnt, worker, failures>>
       \/ /\ WantsThread
          /\ \E w \in Threads :
               /\ worker[w] = "none"
               /\ worker' = [worker EXCEPT ![w] = "new"]
          /\ thd_cnt' = thd_cnt + 1
          /\ refused' = FALSE
          /\ UNCHANGED failures
       \/ /\ WantsThread /\ failures < MaxFailures
          /\ failures' = failures + 1
          /\ refused' = TRUE
          /\ UNCHANGED <<thd_cnt, worker>>
    /\ UNCHANGED <<busy_thds, current_owner, lock, task, stop, history>>

-----------------------------------------------------------------------------
(* thread_pool_func *)

\* Fault: the task is read and left in the queue.
pop_task_fault(w) ==
    /\ task' = [task EXCEPT ![w] = IF tasks = <<>> THEN 0 ELSE Head(tasks)]
    /\ UNCHANGED tasks

\* pop_task: the oldest task, if there is one.
pop_task(w) ==
    IF tasks = <<>>
    THEN task' = [task EXCEPT ![w] = 0] /\ UNCHANGED tasks
    ELSE task' = [task EXCEPT ![w] = Head(tasks)] /\ tasks' = Tail(tasks)

\* Fault: the thread goes and still counts.
ExitFault(w) ==
    /\ worker' = [worker EXCEPT ![w] = "leaving"]
    /\ UNCHANGED thd_cnt

\* The thread goes, and no longer counts; it still holds the lock.
Exit(w) ==
    /\ thd_cnt' = thd_cnt - 1
    /\ worker' = [worker EXCEPT ![w] = "leaving"]

\* A new thread joins the busy ones and pops, unless the pool has terminated.
Enter(w) ==
    /\ worker[w] = "new" /\ lock = None
    /\ lock' = w
    /\ current_owner' = [current_owner EXCEPT ![w] = NULL]
    /\ \/ /\ terminated
          /\ Exit(w)
          /\ UNCHANGED <<tasks, task, busy_thds>>
       \/ /\ ~terminated
          /\ busy_thds' = busy_thds \cup {w}
          /\ pop_task(w)
          /\ worker' = [worker EXCEPT ![w] = "popped"]
          /\ UNCHANGED thd_cnt
    /\ UNCHANGED <<added, stop, history, create>>

\* The popped task is run, outside the lock.
RunTask(w) ==
    /\ worker[w] = "popped"
    /\ task[w] # 0 /\ ~terminated
    /\ started' = Append(started, task[w])
    /\ current_owner' = [current_owner EXCEPT ![w] = Owner]
    /\ worker' = [worker EXCEPT ![w] = "run"]
    /\ lock' = None
    /\ UNCHANGED <<tasks, added, thd_cnt, busy_thds, task, stop, done, dropped, create>>

\* Fault: one task and the thread is through; the next is not popped.
FinishTaskFault(w) ==
    /\ worker[w] = "run" /\ lock = None
    /\ lock' = w
    /\ done' = done \cup {task[w]}
    /\ current_owner' = [current_owner EXCEPT ![w] = NULL]
    /\ task' = [task EXCEPT ![w] = 0]
    /\ worker' = [worker EXCEPT ![w] = "popped"]
    /\ UNCHANGED <<tasks, added, thd_cnt, busy_thds, stop, started, dropped, create>>

\* It returns; the thread locks again and pops the next one.
FinishTask(w) ==
    /\ worker[w] = "run" /\ lock = None
    /\ lock' = w
    /\ done' = done \cup {task[w]}
    /\ current_owner' = [current_owner EXCEPT ![w] = NULL]
    /\ pop_task(w)
    /\ worker' = [worker EXCEPT ![w] = "popped"]
    /\ UNCHANGED <<added, thd_cnt, busy_thds, stop, started, dropped, create>>

\* No task, or a task that came too late: the thread exits (idle_max is 0).
Retire(w) ==
    /\ worker[w] = "popped"
    /\ task[w] = 0 \/ terminated
    /\ busy_thds' = busy_thds \ {w}
    /\ dropped' = dropped \cup ({task[w]} \ {0})
    /\ task' = [task EXCEPT ![w] = 0]
    /\ Exit(w)
    /\ UNCHANGED <<tasks, added, current_owner, lock, stop, started, done, create>>

\* The unlock that ends the thread.
Leave(w) ==
    /\ worker[w] = "leaving"
    /\ lock' = None
    /\ worker' = [worker EXCEPT ![w] = "none"]
    /\ UNCHANGED <<ring, task, stop, history, create>>

-----------------------------------------------------------------------------
(* stop_threadpool *)

\* SIGTERM.
sig_term ==
    /\ main = "loop" /\ lock = None
    /\ main' = "stopping"
    /\ UNCHANGED <<ring, lock, threads, terminated, freed, awaited, history, create>>

\* base_threadpool_cancel_tasks: what is queued is taken off (all of it has the
\* owner) and never run.
remove_tasks ==
    /\ main = "stopping" /\ lock = None
    /\ dropped' = dropped \cup {tasks[i] : i \in DOMAIN tasks}
    /\ tasks' = <<>>
    /\ main' = "cancelled"
    /\ UNCHANGED <<added, thd_cnt, busy_thds, current_owner, lock, threads,
                   terminated, freed, awaited, started, done, create>>

\* wait_on_busy_threads: look for a thread that runs a task of the owner, sleep
\* if there is one until that thread's owner is another, and look again.
FindBusy ==
    /\ \/ main = "cancelled"
       \/ main = "asleep" /\ current_owner[awaited] # Owner
    /\ lock = None
    /\ LET running == {w \in busy_thds : current_owner[w] = Owner}
       IN  \/ running = {} /\ main' = "quiet" /\ UNCHANGED awaited
           \/ \E w \in running : awaited' = w /\ main' = "asleep"
    /\ UNCHANGED <<ring, lock, threads, terminated, freed, history, create>>

\* thread_pool_cleanup sets the flag without the lock...
Terminate ==
    /\ main = "quiet"
    /\ terminated' = TRUE
    /\ main' = "trim"
    /\ UNCHANGED <<ring, lock, threads, freed, awaited, history, create>>

\* ... and takes the lock to trim and wake the idle threads, of which there
\* are none...
TrimIdle ==
    /\ main = "trim" /\ lock = None
    /\ main' = "join"
    /\ UNCHANGED <<ring, lock, threads, terminated, freed, awaited, history, create>>

\* Fault: it frees without waiting for the threads.
CleanupFault ==
    /\ main = "join"
    /\ freed' = TRUE
    /\ main' = "freed"
    /\ UNCHANGED <<ring, lock, threads, terminated, awaited, history, create>>

\* ... and frees the lock and the rings once no thread is counted.
Cleanup ==
    /\ main = "join" /\ thd_cnt = 0
    /\ freed' = TRUE
    /\ main' = "freed"
    /\ UNCHANGED <<ring, lock, threads, terminated, awaited, history, create>>

-----------------------------------------------------------------------------

Init ==
    /\ tasks = <<>> /\ added = 0
    /\ thd_cnt = 0 /\ busy_thds = {}
    /\ current_owner = [w \in Threads |-> NULL]
    /\ terminated = FALSE /\ lock = None /\ freed = FALSE
    /\ worker = [w \in Threads |-> "none"]
    /\ task = [w \in Threads |-> 0]
    /\ main = "loop" /\ awaited = None
    /\ started = <<>> /\ done = {} /\ dropped = {}
    /\ failures = 0 /\ refused = FALSE

Work(w) == Enter(w) \/ RunTask(w) \/ FinishTask(w) \/ Retire(w) \/ Leave(w)

stop_threadpool ==
    remove_tasks \/ FindBusy \/ Terminate \/ TrimIdle \/ Cleanup

Next ==
    \/ add_task
    \/ \E w \in Threads : Work(w)
    \/ sig_term
    \/ stop_threadpool

\* Threads and the handler are scheduled, and tasks return. Nothing makes
\* packets arrive or SIGTERM be sent.
Spec ==
    /\ Init /\ [][Next]_vars
    /\ \A w \in Threads : WF_vars(Work(w))
    /\ WF_vars(stop_threadpool)

-----------------------------------------------------------------------------
(* Properties *)

TypeOK ==
    /\ tasks \in Seq(1 .. MaxTasks) /\ added \in 0 .. MaxTasks
    /\ thd_cnt \in 0 .. Limit /\ busy_thds \subseteq Threads
    /\ current_owner \in [Threads -> {NULL, Owner}]
    /\ terminated \in BOOLEAN /\ freed \in BOOLEAN /\ refused \in BOOLEAN
    /\ lock \in Threads \cup {None}
    /\ worker \in [Threads -> {"none", "new", "popped", "run", "leaving"}]
    /\ task \in [Threads -> 0 .. MaxTasks]
    /\ main \in {"loop", "stopping", "cancelled", "asleep", "quiet", "trim", "join", "freed"}
    /\ awaited \in Threads \cup {None}
    /\ started \in Seq(1 .. MaxTasks)
    /\ done \subseteq 1 .. MaxTasks /\ dropped \subseteq 1 .. MaxTasks
    /\ failures \in 0 .. MaxFailures

Holding(w) == worker[w] \in {"popped", "leaving"}
Counted    == {w \in Threads : worker[w] \in {"new", "popped", "run"}}

\* The counts the pool decides by are right, and its critical sections
\* exclude one another: thd_cnt is the number of threads that will still look
\* at the queue, never more than the configured number.
ThreadsCounted ==
    /\ thd_cnt = Cardinality(Counted)
    /\ busy_thds = {w \in Threads : worker[w] \in {"popped", "run"}}
    /\ \A w \in Threads : Holding(w) <=> lock = w

\* A task is never left in the queue with no thread to take it, although
\* threads that find nothing exit: only if the thread for the last task
\* could not be created, or the pool was told to terminate.
NoStrandedTask ==
    tasks # <<>> /\ thd_cnt = 0 => refused \/ terminated

\* Every task added is in exactly one place, and is begun at most once, in
\* the order of the queue; nothing is dropped before SIGTERM.
TasksConserved ==
    LET queued == {tasks[i] : i \in DOMAIN tasks}
        begun  == {started[i] : i \in DOMAIN started}
        inHand == {w \in Threads : task[w] # 0 /\ worker[w] = "popped"}
    IN  /\ \A i, j \in DOMAIN started : i < j => started[i] < started[j]
        /\ \A i, j \in DOMAIN tasks : i < j => tasks[i] < tasks[j]
        /\ \A v, w \in inHand : task[v] = task[w] => v = w
        /\ 1 .. added = queued \cup {task[w] : w \in inHand} \cup begun \cup dropped
        /\ queued \cap begun = {} /\ dropped \cap (queued \cup begun) = {}
        /\ \A w \in inHand : task[w] \notin queued \cup begun \cup dropped
        /\ dropped # {} => main # "loop"

\* The plugins are unloaded once the pool is freed: by then no thread runs a
\* task or will.
FreedIdle == freed => busy_thds = {} /\ Counted = {}

\* A task that was added runs, unless the server is told to stop or a thread
\* cannot be created.
TasksRun ==
    \A k \in 1 .. MaxTasks :
        (added >= k) ~> (k \in done \/ main # "loop" \/ failures > 0)

\* "Tell all threads to exit" (base_threadpool.c:314): the server gets that
\* far, and stop_threadpool ends.
StopEnds == (main = "stopping") ~> freed
=============================================================================
