------------------------------ MODULE Scheduler ------------------------------
(***************************************************************************)
(* staticlib::pion::scheduler (src/scheduler.cpp): a pool of worker        *)
(* threads that run one asio io_service, started on demand and shut down   *)
(* when nobody uses it any more.                                           *)
(*                                                                         *)
(* A step is a stretch of code between two points where another thread can *)
(* interfere: a lock_guard section is one step, the unlocked read of       *)
(* `running' in add_active_user is a step of its own, and shutdown is cut  *)
(* where it waits on a condition variable and where it joins the workers.  *)
(***************************************************************************)
EXTENDS Integers, FiniteSets

CONSTANTS
  Users,       \* application threads that call the scheduler
  Workers,     \* the thread_pool slots; number_of_threads is their number
  NoThread,    \* the owner of a free mutex
  JobCalls,    \* the scheduler operations that a posted job may call
  EarlyRemove, \* may remove_active_user overtake its add_active_user?
  UserModulus, \* active_users wraps at UserModulus (2^32 in the code)
  MaxCalls,    \* bound on the calls of operations other than remove
  MaxJobs      \* bound on the jobs posted and not yet run

Operations == {"startup", "shutdown", "join", "add", "remove"}

ASSUME ThreadsAssumption ==
  /\ Users \cap Workers = {}
  /\ NoThread \notin Users \cup Workers
  /\ Workers # {}
  /\ IsFiniteSet(Users) /\ IsFiniteSet(Workers)

ASSUME BoundsAssumption ==
  /\ JobCalls \subseteq Operations
  /\ EarlyRemove \in BOOLEAN
  /\ UserModulus \in Nat \ {0, 1}
  /\ MaxCalls \in Nat
  /\ MaxJobs \in Nat

Threads == Users \cup Workers

VARIABLES
  mutex,        \* the thread that holds scheduler::mutex, or NoThread
  running,      \* scheduler::running
  stopped,      \* the stopped flag of asio_service
  pool,         \* the workers whose std::thread is in thread_pool
  active_users, \* scheduler::active_users
  users_cv,     \* threads blocked on no_more_active_users
  stopped_cv,   \* threads blocked on scheduler_has_stopped
  armed,        \* the keep_running timer has a pending wait
  expired,      \* keep_running handlers queued because the timer expired
  cancelled,    \* keep_running handlers queued because their wait was cancelled
  jobs,         \* posted jobs in the service's queue
  pc,           \* where each thread is
  held,         \* registrations not yet given back (history of the callers)
  calls,        \* calls made so far, those of remove not counted
  terminated    \* std::terminate was called

vars == <<mutex, running, stopped, pool, active_users, users_cv, stopped_cv,
          armed, expired, cancelled, jobs, pc, held, calls, terminated>>

service == <<running, stopped, pool>>
cvs     == <<users_cv, stopped_cv>>
timer   == <<armed, expired, cancelled>>
callers == <<held, calls>>

(* Workers move through these labels: "none" before the thread exists,     *)
(* "loop" at the test of process_service_work, "run" inside service.run(), *)
(* "job" inside a posted job, "hook" before thread_stop_hook, "exited".    *)
WorkerLabels == {"none", "loop", "run", "job", "hook", "exited"}
CallLabels == Operations \cup
              {"sd_wait", "sd_stop", "sd_join", "join_wait",
               "add_startup", "add_inc"}
AddLabels == {"add", "add_startup", "add_inc"}

Goto(t, label) == pc' = [pc EXCEPT ![t] = label]

\* A call made by a job returns to service.run().
Return(t) == IF t \in Users THEN "idle" ELSE "run"

Init ==
  /\ mutex = NoThread
  /\ running = FALSE
  /\ stopped = FALSE
  /\ pool = {}
  /\ active_users = 0
  /\ users_cv = {}
  /\ stopped_cv = {}
  /\ armed = FALSE
  /\ expired = 0
  /\ cancelled = 0
  /\ jobs = 0
  /\ pc = [t \in Threads |-> IF t \in Users THEN "idle" ELSE "none"]
  /\ held = 0
  /\ calls = 0
  /\ terminated = FALSE

-----------------------------------------------------------------------------
(* Callers                                                                 *)

\* A thread may give back a registration that was made, or, when EarlyRemove
\* holds, one that another thread is still making.
MayRemove ==
  \/ held > 0
  \/ EarlyRemove /\ held = 0 /\ \E t \in Threads : pc[t] \in AddLabels

MayCall(t) ==
  \/ t \in Users /\ pc[t] = "idle"
  \/ t \in Workers /\ pc[t] = "job"

Call(t, op) ==
  /\ MayCall(t)
  /\ t \in Workers => op \in JobCalls
  /\ IF op = "remove" THEN MayRemove ELSE calls < MaxCalls
  /\ Goto(t, op)
  /\ held' = IF op = "remove" THEN held - 1 ELSE held
  /\ calls' = IF op = "remove" THEN calls ELSE calls + 1
  /\ UNCHANGED <<mutex, service, active_users, cvs, timer, jobs, terminated>>

\* scheduler::post
Post(t) ==
  /\ t \in Users /\ pc[t] = "idle"
  /\ jobs < MaxJobs
  /\ jobs' = jobs + 1
  /\ UNCHANGED <<mutex, service, active_users, cvs, timer, pc, callers,
                 terminated>>

-----------------------------------------------------------------------------
(* startup and keep_running                                                *)

\* Faulty variant: startup() forgets keep_running.
NoRearm ==
  UNCHANGED <<armed, cancelled>>

\* keep_running while running: expires_from_now cancels a pending wait, whose
\* handler is queued all the same, and async_wait makes a new one.
Rearm ==
  /\ armed' = TRUE
  /\ cancelled' = cancelled + (IF armed THEN 1 ELSE 0)

\* The locked section of startup(), after which t goes on at label next.
StartupSection(t, next) ==
  /\ mutex = NoThread
  /\ IF running
     THEN /\ Goto(t, next)
          /\ UNCHANGED <<running, stopped, pool, armed, cancelled>>
     ELSE /\ running' = TRUE
          /\ stopped' = FALSE
          /\ Rearm
          /\ pool' = Workers
          /\ pc' = [x \in Threads |-> IF x = t THEN next
                                      ELSE IF x \in Workers THEN "loop"
                                      ELSE pc[x]]
  /\ UNCHANGED <<mutex, active_users, cvs, expired, jobs,
                 terminated>>

Startup(t) ==
  /\ pc[t] = "startup"
  /\ StartupSection(t, Return(t))
  /\ UNCHANGED callers

-----------------------------------------------------------------------------
(* add_active_user and remove_active_user                                  *)

\* `if (!running) startup();' reads running without the lock.
AddCheck(t) ==
  /\ pc[t] = "add"
  /\ Goto(t, IF running THEN "add_inc" ELSE "add_startup")
  /\ UNCHANGED <<mutex, service, active_users, cvs, timer, jobs, callers,
                 terminated>>

AddStartup(t) ==
  /\ pc[t] = "add_startup"
  /\ StartupSection(t, "add_inc")
  /\ UNCHANGED callers

AddIncrement(t) ==
  /\ pc[t] = "add_inc"
  /\ mutex = NoThread
  /\ active_users' = (active_users + 1) % UserModulus
  /\ held' = held + 1
  /\ Goto(t, Return(t))
  /\ UNCHANGED <<mutex, service, cvs, timer, jobs, calls, terminated>>

\* Faulty variant: the last user leaves without a notification.
RemoveWithoutNotify(t) ==
  /\ pc[t] = "remove"
  /\ mutex = NoThread
  /\ active_users' = (active_users - 1) % UserModulus
  /\ Goto(t, Return(t))
  /\ UNCHANGED <<mutex, service, cvs, timer, jobs, callers, terminated>>

RemoveActiveUser(t) ==
  /\ pc[t] = "remove"
  /\ mutex = NoThread
  /\ active_users' = (active_users - 1) % UserModulus
  /\ users_cv' = IF active_users' = 0 THEN {} ELSE users_cv
  /\ Goto(t, Return(t))
  /\ UNCHANGED <<mutex, service, stopped_cv, timer, jobs, callers, terminated>>

-----------------------------------------------------------------------------
(* shutdown and join                                                       *)

WaitForUsers(t) ==
  /\ users_cv' = users_cv \cup {t}
  /\ Goto(t, "sd_wait")
  /\ UNCHANGED <<mutex, running>>

\* `running = false' is seen by the workers before asio_service.stop() is; the
\* mutex stays locked.
BeginStop(t) ==
  /\ running' = FALSE
  /\ mutex' = t
  /\ Goto(t, "sd_stop")
  /\ UNCHANGED users_cv

ShutdownEnter(t) ==
  /\ pc[t] = "shutdown"
  /\ mutex = NoThread
  /\ IF running /\ active_users > 0 THEN WaitForUsers(t) ELSE BeginStop(t)
  /\ UNCHANGED <<stopped, pool, active_users, stopped_cv, timer, jobs,
                 callers, terminated>>

\* Faulty variant: `if' in place of `while' around the wait.
ShutdownWakeNoRetest(t) ==
  /\ pc[t] = "sd_wait"
  /\ t \notin users_cv
  /\ mutex = NoThread
  /\ BeginStop(t)
  /\ UNCHANGED <<stopped, pool, active_users, stopped_cv, timer, jobs, callers,
                 terminated>>

\* The wait returned: `while (active_users > 0)' is tested again.
ShutdownWake(t) ==
  /\ pc[t] = "sd_wait"
  /\ t \notin users_cv
  /\ mutex = NoThread
  /\ IF active_users > 0 THEN WaitForUsers(t) ELSE BeginStop(t)
  /\ UNCHANGED <<stopped, pool, active_users, stopped_cv, timer, jobs,
                 callers, terminated>>

\* asio_service.stop()
ShutdownStop(t) ==
  /\ pc[t] = "sd_stop"
  /\ stopped' = TRUE
  /\ Goto(t, "sd_join")
  /\ UNCHANGED <<mutex, running, pool, active_users, cvs, timer, jobs, callers,
                 terminated>>

\* Faulty variant: the pool is cleared without joining the threads (as if
\* they were detached).
ShutdownFinishNoJoin(t) ==
  /\ pc[t] = "sd_join"
  /\ stopped' = FALSE
  /\ pool' = {}
  /\ stopped_cv' = {}
  /\ mutex' = NoThread
  /\ Goto(t, Return(t))
  /\ UNCHANGED <<running, active_users, users_cv, timer, jobs, callers,
                 terminated>>

\* Faulty variant: threads blocked in join() are not notified.
ShutdownFinishNoNotify(t) ==
  /\ pc[t] = "sd_join"
  /\ \A w \in pool \ {t} : pc[w] = "exited"
  /\ stopped' = FALSE
  /\ pool' = {}
  /\ mutex' = NoThread
  /\ terminated' = (terminated \/ t \in pool)
  /\ pc' = [x \in Threads |-> IF x = t THEN Return(t)
                              ELSE IF x \in pool THEN "none"
                              ELSE pc[x]]
  /\ UNCHANGED <<running, active_users, cvs, timer, jobs, callers>>

\* stop_threads() has joined every thread of the pool but the caller's own;
\* then reset, thread_pool.clear() and notify_all.  Destroying the std::thread
\* of the caller, which nobody joined, ends the process.
ShutdownFinish(t) ==
  /\ pc[t] = "sd_join"
  /\ \A w \in pool \ {t} : pc[w] = "exited"
  /\ stopped' = FALSE
  /\ pool' = {}
  /\ stopped_cv' = {}
  /\ mutex' = NoThread
  /\ terminated' = (terminated \/ t \in pool)
  /\ pc' = [x \in Threads |-> IF x = t THEN Return(t)
                              ELSE IF x \in pool THEN "none"
                              ELSE pc[x]]
  /\ UNCHANGED <<running, active_users, users_cv, timer, jobs, callers>>

JoinTest(t) ==
  /\ mutex = NoThread
  /\ IF running
     THEN stopped_cv' = stopped_cv \cup {t} /\ Goto(t, "join_wait")
     ELSE Goto(t, Return(t)) /\ UNCHANGED stopped_cv
  /\ UNCHANGED <<mutex, service, active_users, users_cv, timer, jobs, callers,
                 terminated>>

JoinEnter(t) == pc[t] = "join" /\ JoinTest(t)

JoinWake(t) == pc[t] = "join_wait" /\ t \notin stopped_cv /\ JoinTest(t)

\* A condition variable may wake without a notification.
SpuriousWakeup(t) ==
  /\ t \in users_cv \cup stopped_cv
  /\ users_cv' = users_cv \ {t}
  /\ stopped_cv' = stopped_cv \ {t}
  /\ UNCHANGED <<mutex, service, active_users, timer, jobs, pc, callers,
                 terminated>>

-----------------------------------------------------------------------------
(* The worker threads                                                      *)

\* while (running) service.run(); then thread_stop_hook().
WorkerTest(w) ==
  /\ pc[w] = "loop"
  /\ Goto(w, IF running THEN "run" ELSE "hook")
  /\ UNCHANGED <<mutex, service, active_users, cvs, timer, jobs, callers,
                 terminated>>

\* Neither a timer wait nor a queued or running handler is left.
OutOfWork ==
  /\ ~armed
  /\ expired + cancelled + jobs = 0
  /\ \A w \in Workers : pc[w] \in WorkerLabels \ {"job"}

\* service.run() returns when the service is stopped; a service that is out of
\* work stops itself.
RunReturns(w) ==
  /\ pc[w] = "run"
  /\ stopped \/ OutOfWork
  /\ stopped' = TRUE
  /\ Goto(w, "loop")
  /\ UNCHANGED <<mutex, running, pool, active_users, cvs, timer, jobs, callers,
                 terminated>>

TakeJob(w) ==
  /\ pc[w] = "run"
  /\ ~stopped /\ jobs > 0
  /\ jobs' = jobs - 1
  /\ Goto(w, "job")
  /\ UNCHANGED <<mutex, service, active_users, cvs, timer, callers, terminated>>

\* A job returns, or throws: the exception leaves service.run() and is logged.
EndJob(w) ==
  /\ pc[w] = "job"
  /\ \E label \in {"run", "loop"} : Goto(w, label)
  /\ UNCHANGED <<mutex, service, active_users, cvs, timer, jobs, callers,
                 terminated>>

\* The timer's five seconds are over.
TimerExpires ==
  /\ armed
  /\ armed' = FALSE
  /\ expired' = expired + 1
  /\ UNCHANGED <<mutex, service, active_users, cvs, cancelled, jobs, pc,
                 callers, terminated>>

\* A queued keep_running handler runs; it does not look at its error code.
KeepRunning(w) ==
  /\ pc[w] = "run"
  /\ ~stopped
  /\ \E e \in {0, 1} :
       /\ e <= expired /\ 1 - e <= cancelled
       /\ expired' = expired - e
       /\ IF running
          THEN /\ armed' = TRUE
               /\ cancelled' = cancelled - (1 - e) + (IF armed THEN 1 ELSE 0)
          ELSE /\ cancelled' = cancelled - (1 - e)
               /\ UNCHANGED armed
  /\ UNCHANGED <<mutex, service, active_users, cvs, jobs, pc, callers,
                 terminated>>

ThreadStopHook(w) ==
  /\ pc[w] = "hook"
  /\ Goto(w, "exited")
  /\ UNCHANGED <<mutex, service, active_users, cvs, timer, jobs, callers,
                 terminated>>

-----------------------------------------------------------------------------
(* The steps a thread takes once it is inside an operation.                *)
Operation(t) ==
  \/ Startup(t)
  \/ AddCheck(t) \/ AddStartup(t) \/ AddIncrement(t)
  \/ RemoveActiveUser(t)
  \/ ShutdownEnter(t) \/ ShutdownWake(t) \/ ShutdownStop(t)
  \/ ShutdownFinish(t)
  \/ JoinEnter(t) \/ JoinWake(t)

Worker(w) ==
  \/ WorkerTest(w) \/ RunReturns(w)
  \/ TakeJob(w) \/ EndJob(w)
  \/ KeepRunning(w)
  \/ ThreadStopHook(w)

Next ==
  \/ \E t \in Threads, op \in Operations : Call(t, op)
  \/ \E t \in Threads : Post(t) \/ Operation(t) \/ SpuriousWakeup(t)
  \/ \E w \in Workers : Worker(w)
  \/ TimerExpires

Spec == Init /\ [][Next]_vars

(***************************************************************************)
(* The operating system keeps running every thread that can run, and a     *)
(* posted job returns.  Nobody is obliged to make a call, and the timer    *)
(* and spurious wakeups get no fairness.                                   *)
(***************************************************************************)
Fairness ==
  /\ \A t \in Threads : WF_vars(Operation(t))
  /\ \A w \in Workers : WF_vars(Worker(w))

FairSpec == Spec /\ Fairness

-----------------------------------------------------------------------------
(* Properties                                                              *)

\* The type of every variable: the mutex has at most one owner, counters are
\* counts, and active_users has the width of its C++ type.
TypeOK ==
  /\ mutex \in Threads \cup {NoThread}
  /\ running \in BOOLEAN
  /\ stopped \in BOOLEAN
  /\ pool \in SUBSET Workers
  /\ active_users \in 0 .. (UserModulus - 1)
  /\ users_cv \in SUBSET Threads
  /\ stopped_cv \in SUBSET Threads
  /\ armed \in BOOLEAN
  /\ expired \in Nat
  /\ cancelled \in Nat
  /\ jobs \in Nat
  /\ pc \in [Threads -> WorkerLabels \cup CallLabels \cup {"idle"}]
  /\ held \in Int
  /\ calls \in Nat
  /\ terminated \in BOOLEAN

\* shutdown() leaves nothing behind: once it has returned (the mutex is free
\* and running is false) no worker thread exists that could still run a
\* handler, whatever startups, shutdowns and registrations overlapped.
WorkersQuiesce ==
  (~terminated /\ mutex = NoThread /\ ~running) =>
    pool = {} /\ \A w \in Workers : pc[w] = "none"

\* No wakeup is lost: shutdown() sleeps only while there is a user whose removal
\* will notify it, and join() only until a shutdown() that will notify it is
\* over.  This is for removals that do not overtake their registrations.
NoLostWakeup ==
  /\ users_cv # {} => active_users > 0
  /\ stopped_cv # {} => running \/ mutex # NoThread

\* "The scheduler will not shutdown until there are no more active users":
\* no step stops a running scheduler while some caller's add_active_user has
\* returned and its remove_active_user was not called, also when a user
\* registers between the notification and the wakeup of shutdown().
ShutdownDeferred ==
  [][running /\ ~running' => held = 0]_vars

\* keep_running's purpose: a running scheduler always has a timer wait or a
\* queued keep_running handler, so service.run() never completes for want of
\* work and process_service_work never spins.
ServiceHasWork ==
  running => armed \/ expired + cancelled > 0

\* If the users are eventually gone for good, every shutdown() returns: no
\* notification is lost, and joining the workers under the mutex ends.  This is
\* for jobs that do not themselves call startup, add_active_user or join.
ShutdownReturns ==
  <>[](active_users = 0) =>
    \A t \in Users :
      pc[t] \in {"shutdown", "sd_wait", "sd_stop", "sd_join"} ~> pc[t] = "idle"

\* If the scheduler is eventually stopped for good, every join() returns.
JoinReturns ==
  <>[](~running) =>
    \A t \in Users : pc[t] \in {"join", "join_wait"} ~> pc[t] = "idle"

\* What add_active_user's comment promises: while a user is registered the
\* scheduler is running.  The code does not have this property: a shutdown()
\* between the test of `running' and the increment stops it under the user.
ActiveUserKeepsRunning ==
  active_users > 0 => running

\* stop_threads() takes care of being called on a worker of the pool, so
\* shutdown() from a posted job does not end the process.  The code does not
\* have this property: thread_pool.clear() destroys the thread it did not join.
ShutdownOnWorkerIsSafe ==
  ~terminated
=============================================================================
