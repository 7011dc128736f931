------------------------------- MODULE Fiber -------------------------------
(* The coroutine runtime under the raft timers: worker threads that take tasks *)
(* from one queue (Scheduler), sleep in epoll_wait when there are none         *)
(* (IOManager), timers, and the hooked system calls that park a fiber instead  *)
(* of blocking its thread (hook.cpp).                                          *)
(*                                                                             *)
(* Steps are what one thread does between two accesses to state that another   *)
(* may touch.  Times are not modelled: a timer falls due at some point, and    *)
(* the kernel reports any of the registered descriptors.                       *)
EXTENDS Integers, Sequences, SequencesExt, FiniteSets

CONSTANTS
    Worker,     \* threads that may run the scheduler
    Fiber,      \* fibers, each started once by a callback task
    NoFiber,
    Patient,    \* fibers whose sockets have no timeout (to = -1)
    MaxWaits    \* bound: times one fiber parks

ASSUME FiberAssumption ==
    /\ NoFiber \notin Fiber /\ Patient \subseteq Fiber /\ MaxWaits \in Nat
    /\ IsFiniteSet(Worker) /\ IsFiniteSet(Fiber)

VARIABLES
    pool,        \* the threads of this scheduler (threadCnt_)
    pc, cur,     \* where each thread is, and the task it took
    saw, ready,  \* what its epoll_wait returned: the pipe, descriptors
    expired,     \* callbacks that listExpiredCb gave it
    idleTerm,    \* its idle fiber has ended
    tasks, active, idle, isStopped,
    pipe,        \* the tickle pipe holds a byte
    state,       \* of each fiber; "LEAVING" is READY before its context is saved
    doing,       \* the hooked call each fiber is in
    call,        \* number of its do_io or connect call: the timer_info alive now
    cancelled,   \* timer_info::cnacelled of that call
    events,      \* fibers registered on their descriptor (pendingEventCnt_ of them)
    timers, due, \* timers_, and those of them whose time has come, in that order
    waits, broken, missed   \* bound; how the process failed; history: see Push

threadVars == <<pc, cur, saw, ready, expired, idleTerm>>
queueVars  == <<tasks, active, idle, pipe, missed>>
fiberVars  == <<state, doing, call, cancelled, waits>>
waitVars   == <<events, timers, due>>
vars == <<pool, threadVars, queueVars, isStopped, fiberVars, waitVars, broken>>

\* A task is a fiber to resume or a callback: the start of a fiber, the end of
\* a sleep (schedules the fiber) or a timeout (cancels the event of that call).
Task == [kind : {"fiber", "start", "wake"}, f : Fiber, call : {0}]
        \cup [kind : {"timeout"}, f : Fiber, call : 1..MaxWaits]
Of(kind, f) == [kind |-> kind, f |-> f, call |-> 0]
Timeout(f, n) == [kind |-> "timeout", f |-> f, call |-> n]
NoTask == Of("none", NoFiber)

Start ==
    /\ pool \in (SUBSET Worker) \ {{}}
    /\ pc = [w \in Worker |-> IF w \in pool THEN "look" ELSE "exit"]
    /\ idleTerm = [w \in Worker |-> w \notin pool]

Init ==
    /\ Start
    /\ cur = [w \in Worker |-> NoTask] /\ saw = [w \in Worker |-> FALSE]
    /\ ready = [w \in Worker |-> {}] /\ expired = [w \in Worker |-> <<>>]
    /\ tasks = <<>> /\ active = 0 /\ idle = 0 /\ isStopped = FALSE /\ pipe = FALSE
    /\ state = [f \in Fiber |-> "none"] /\ doing = [f \in Fiber |-> "user"]
    /\ call = [f \in Fiber |-> 0] /\ cancelled = [f \in Fiber |-> FALSE]
    /\ events = {} /\ timers = {} /\ due = <<>>
    /\ waits = [f \in Fiber |-> 0] /\ broken = "no" /\ missed = FALSE

-----------------------------------------------------------------------------
(* The queue. *)

\* IOManager::tickle writes the pipe only if some thread counts as idle.
tickle(need) == pipe \/ (need /\ idle > 0)

\* Mutant of TicklesOn: a push to an empty queue does not wake anybody.
NeverTickles(q) == FALSE

\* schedulerNoLock: the first task of an empty queue asks for a tickle.
TicklesOn(q) == tasks = <<>> /\ q # <<>>

\* scheduler(task), for each task of q.  The history missed is set when a push
\* finds a thread that saw the queue empty and is not yet counted as idle.
Push(q) ==
    /\ tasks' = tasks \o q
    /\ pipe' = tickle(TicklesOn(q))
    /\ missed' = (missed \/ (q # <<>> /\ idle = 0 /\ \E w \in pool : pc[w] = "none"))

\* A task from outside: IOManager's owner, as Raft::init does.
Schedule(f) ==
    /\ state[f] = "none" /\ ~isStopped
    /\ \A i \in DOMAIN tasks : tasks[i].f # f
    /\ \A w \in pool : cur[w].f # f
    /\ Push(<<Of("start", f)>>)
    /\ UNCHANGED <<pool, threadVars, active, idle, isStopped, fiberVars, waitVars, broken>>

\* The state checks of run() and of Fiber::resume.  A fiber that another thread
\* has marked READY and not yet swapped away runs on a context not saved.
resume(t) ==
    IF t.kind # "fiber" \/ state[t.f] = "READY" THEN "no"
    ELSE IF state[t.f] = "LEAVING" THEN "torn" ELSE "panic"

\* run(), the locked part and the resume: the first task, if any.
Take(w) ==
    LET t == Head(tasks)
    IN  /\ pc[w] = "look" /\ tasks # <<>>
        /\ broken' = resume(t)
        /\ tasks' = Tail(tasks)
        /\ active' = active + 1
        /\ pipe' = tickle(Tail(tasks) # <<>>)
        /\ missed' = (missed /\ Tail(tasks) # <<>>)
        /\ cur' = [cur EXCEPT ![w] = t]
        /\ pc' = [pc EXCEPT ![w] = IF t.kind \in {"fiber", "start"} THEN "run" ELSE "call"]
        /\ state' = IF t.kind \in {"fiber", "start"} THEN [state EXCEPT ![t.f] = "RUNNING"] ELSE state
        /\ UNCHANGED <<pool, saw, ready, expired, idleTerm, idle, isStopped, doing, call, cancelled, waits, waitVars>>

\* run() with no task: leave the loop once the idle fiber has ended.
FindNone(w) ==
    /\ pc[w] = "look" /\ tasks = <<>>
    /\ pc' = [pc EXCEPT ![w] = IF idleTerm[w] THEN "exit" ELSE "none"]
    /\ UNCHANGED <<pool, cur, saw, ready, expired, idleTerm, queueVars, isStopped, fiberVars, waitVars, broken>>

GoIdle(w) ==
    /\ pc[w] = "none"
    /\ pc' = [pc EXCEPT ![w] = "idle"]
    /\ idle' = idle + 1
    /\ UNCHANGED <<pool, cur, saw, ready, expired, idleTerm, tasks, active, pipe, missed, isStopped, fiberVars, waitVars, broken>>

-----------------------------------------------------------------------------
(* The idle fiber. *)

\* Mutant of stopping: pending I/O events are not counted.
StopsWithEvents == timers = {} /\ due = <<>> /\ isStopped /\ tasks = <<>> /\ active = 0

\* IOManager::stopping
stopping == timers = {} /\ due = <<>> /\ events = {} /\ isStopped /\ tasks = <<>> /\ active = 0

CheckStopping(w) ==
    /\ pc[w] = "idle"
    /\ IF stopping
       THEN /\ idleTerm' = [idleTerm EXCEPT ![w] = TRUE]
            /\ pc' = [pc EXCEPT ![w] = "look"]
            /\ idle' = idle - 1
       ELSE /\ pc' = [pc EXCEPT ![w] = "wait"]
            /\ UNCHANGED <<idleTerm, idle>>
    /\ UNCHANGED <<pool, cur, saw, ready, expired, tasks, active, pipe, missed, isStopped, fiberVars, waitVars, broken>>

\* epoll_wait returns: an event, the pipe, a timer or its five seconds; then
\* listExpiredCb takes the timers that are due.
WaitReturns(w) ==
    /\ pc[w] = "wait"
    /\ \E fs \in SUBSET events : ready' = [ready EXCEPT ![w] = fs]
    /\ saw' = [saw EXCEPT ![w] = pipe]
    /\ expired' = [expired EXCEPT ![w] = due]
    /\ due' = <<>>
    /\ pc' = [pc EXCEPT ![w] = "woken"]
    /\ UNCHANGED <<pool, cur, idleTerm, queueVars, isStopped, fiberVars, events, timers, broken>>

Orders(S) == {q \in [1..Cardinality(S) -> S] : \A i, j \in DOMAIN q : i # j => q[i] # q[j]}

\* triggerEvent for each of fs: the fiber goes to the queue.
Triggered(fs) == {[i \in DOMAIN q |-> Of("fiber", q[i])] : q \in Orders(fs)}

\* Mutant of StillRegistered: an event is triggered though it was cancelled
\* since epoll_wait returned.
AllReported(w) == ready[w]

\* The check of fd_ctx->events, made under the descriptor's lock.
StillRegistered(w) == ready[w] \cap events

\* The rest of the round of idle(): schedule the callbacks, drain the pipe if it
\* was reported (before or after the other events), trigger what is still
\* registered, and yield.
Dispatch(w) ==
    LET fs == StillRegistered(w)
    IN  /\ pc[w] = "woken"
        /\ \E q \in Triggered(fs) :
             LET pushed == expired[w] \o q
             IN  /\ tasks' = tasks \o pushed
                 /\ pipe' \in {tickle(TicklesOn(pushed))} \cup (IF saw[w] THEN {FALSE} ELSE {})
                 /\ missed' = (missed /\ tasks # <<>>)
        /\ events' = events \ fs
        /\ pc' = [pc EXCEPT ![w] = "look"]
        /\ saw' = [saw EXCEPT ![w] = FALSE]
        /\ ready' = [ready EXCEPT ![w] = {}]
        /\ expired' = [expired EXCEPT ![w] = <<>>]
        /\ idle' = idle - 1
        /\ UNCHANGED <<pool, cur, idleTerm, active, isStopped, fiberVars, timers, due, broken>>

\* The time of a timer comes.
FallsDue(t) ==
    /\ t \in timers
    /\ timers' = timers \ {t}
    /\ due' = Append(due, t)
    /\ UNCHANGED <<pool, threadVars, queueVars, isStopped, fiberVars, events, broken>>

-----------------------------------------------------------------------------
(* Callbacks of timers, run by a thread as a task. *)

\* Back in run(): the thread is no longer active.
Return(w) ==
    /\ pc' = [pc EXCEPT ![w] = "look"]
    /\ cur' = [cur EXCEPT ![w] = NoTask]
    /\ active' = active - 1

\* The timer of a hooked sleep schedules its fiber.
WakeCallback(w) ==
    /\ pc[w] = "call" /\ cur[w].kind = "wake"
    /\ Push(<<Of("fiber", cur[w].f)>>)
    /\ Return(w)
    /\ UNCHANGED <<pool, saw, ready, expired, idleTerm, idle, isStopped, fiberVars, waitVars, broken>>

\* The timer of a hooked call: nothing if the call is over (winfo) or timed
\* out before; otherwise mark it and cancelEvent, which triggers the event if
\* it is still registered.
Live(t) == call[t.f] = t.call /\ doing[t.f] \in {"io", "connect"} /\ ~cancelled[t.f]

\* Mutant of cancelEvent: the fiber is scheduled whether the event is registered
\* or was triggered already.
CancelUnregistered(t) == IF Live(t) THEN <<Of("fiber", t.f)>> ELSE <<>>

\* Mutant of cancelEvent: the event is deleted without a trigger.
CancelSilently(t) == <<>>

cancelEvent(t) == IF Live(t) /\ t.f \in events THEN <<Of("fiber", t.f)>> ELSE <<>>

TimeoutCallback(w) ==
    LET f == cur[w].f
    IN  /\ pc[w] = "call" /\ cur[w].kind = "timeout"
        /\ cancelled' = [cancelled EXCEPT ![f] = @ \/ Live(cur[w])]
        /\ Push(cancelEvent(cur[w]))
        /\ events' = IF Live(cur[w]) THEN events \ {f} ELSE events
        /\ Return(w)
        /\ UNCHANGED <<pool, saw, ready, expired, idleTerm, idle, isStopped, state, doing, call, waits, timers, due, broken>>

-----------------------------------------------------------------------------
(* What the fiber on a thread does. *)

Runs(w, f, what) == pc[w] = "run" /\ cur[w].f = f /\ doing[f] = what

\* addTimer: inserted at the front, it tickles; where it lands depends on times.
addTimer(t) ==
    /\ timers' = timers \cup {t}
    /\ \E front \in BOOLEAN : pipe' = tickle(front)

Moves(w, where) == pc' = [pc EXCEPT ![w] = where]

\* sleep, usleep, nanosleep up to the yield.
BeginSleep(w, f) ==
    /\ Runs(w, f, "user") /\ waits[f] < MaxWaits
    /\ waits' = [waits EXCEPT ![f] = @ + 1]
    /\ addTimer(Of("wake", f))
    /\ doing' = [doing EXCEPT ![f] = "sleep"]
    /\ Moves(w, "parking")
    /\ UNCHANGED <<pool, cur, saw, ready, expired, idleTerm, tasks, active, idle, missed, isStopped, state, call, cancelled, events, due, broken>>

\* A hooked call that would block: its timer, unless the socket has no timeout.
Arm(w, f, n) ==
    /\ waits' = [waits EXCEPT ![f] = @ + 1]
    /\ IF f \in Patient THEN UNCHANGED <<timers, pipe>> ELSE addTimer(Timeout(f, n))
    /\ Moves(w, "adding")
    /\ UNCHANGED <<pool, cur, saw, ready, expired, idleTerm, tasks, active, idle, missed, isStopped, state, events, due, broken>>

NewCall(w, f, what) ==
    /\ Runs(w, f, "user") /\ waits[f] < MaxWaits
    /\ call' = [call EXCEPT ![f] = @ + 1]
    /\ cancelled' = [cancelled EXCEPT ![f] = FALSE]
    /\ doing' = [doing EXCEPT ![f] = what]
    /\ Arm(w, f, call[f] + 1)

BeginIo(w, f) == NewCall(w, f, "io")
BeginConnect(w, f) == NewCall(w, f, "connect")

\* addEvent registers the running fiber on the descriptor,
AddEvent(w, f) ==
    /\ pc[w] = "adding" /\ cur[w].f = f
    /\ events' = events \cup {f}
    /\ Moves(w, "parking")
    /\ UNCHANGED <<pool, cur, saw, ready, expired, idleTerm, queueVars, isStopped, fiberVars, timers, due, broken>>

\* Timer::cancel erases the timer, due or not, and does nothing to one whose
\* callback was taken.
Erase(q, t) ==
    IF \E i \in DOMAIN q : q[i] = t THEN RemoveAt(q, CHOOSE i \in DOMAIN q : q[i] = t) ELSE q

Disarm(f) ==
    /\ timers' = timers \ {Timeout(f, call[f])}
    /\ due' = Erase(due, Timeout(f, call[f]))

\* or epoll_ctl refuses: the call fails at once.
AddEventFails(w, f) ==
    /\ pc[w] = "adding" /\ cur[w].f = f
    /\ Disarm(f)
    /\ doing' = [doing EXCEPT ![f] = "user"]
    /\ Moves(w, "run")
    /\ UNCHANGED <<pool, cur, saw, ready, expired, idleTerm, queueVars, isStopped, state, call, cancelled, waits, events, broken>>

\* Fiber::yield marks the fiber READY and then swaps the context away.
Yield(w, f) ==
    /\ pc[w] = "parking" /\ cur[w].f = f
    /\ state' = [state EXCEPT ![f] = "LEAVING"]
    /\ Moves(w, "leaving")
    /\ UNCHANGED <<pool, cur, saw, ready, expired, idleTerm, queueVars, isStopped, doing, call, cancelled, waits, waitVars, broken>>

SwapContext(w, f) ==
    /\ pc[w] = "leaving" /\ cur[w].f = f
    /\ state' = [state EXCEPT ![f] = "READY"]
    /\ Return(w)
    /\ UNCHANGED <<pool, saw, ready, expired, idleTerm, tasks, idle, pipe, missed, isStopped, doing, call, cancelled, waits, waitVars, broken>>

\* Back from the yield of a sleep.
AfterSleep(w, f) ==
    /\ Runs(w, f, "sleep")
    /\ doing' = [doing EXCEPT ![f] = "user"]
    /\ UNCHANGED <<pool, threadVars, queueVars, isStopped, state, call, cancelled, waits, waitVars, broken>>

\* Back from the yield of do_io or connect: cancel the timer and return: -1 with
\* ETIMEDOUT, or what the system call says now.
AfterIo(w, f) ==
    /\ Runs(w, f, "io") \/ Runs(w, f, "connect")
    /\ Disarm(f)
    /\ doing' = [doing EXCEPT ![f] = "user"]
    /\ UNCHANGED <<pool, threadVars, queueVars, isStopped, state, call, cancelled, waits, events, broken>>

\* goto retry, and the call would block again: a new timer with the same
\* timer_info.
RetryIo(w, f) ==
    /\ Runs(w, f, "io") /\ ~cancelled[f] /\ waits[f] < MaxWaits
    /\ LET left == timers \ {Timeout(f, call[f])}
       IN  /\ timers' = IF f \in Patient THEN left ELSE left \cup {Timeout(f, call[f])}
           /\ \E front \in BOOLEAN : pipe' = tickle(front /\ f \notin Patient)
    /\ due' = Erase(due, Timeout(f, call[f]))
    /\ waits' = [waits EXCEPT ![f] = @ + 1]
    /\ Moves(w, "adding")
    /\ UNCHANGED <<pool, cur, saw, ready, expired, idleTerm, tasks, active, idle, missed, isStopped, state, doing, call, cancelled, events, broken>>

\* The events of the descriptor that is closed are triggered.
cancelAll(g) == <<Of("fiber", g)>>

\* close of a descriptor on which another fiber waits.
CloseFd(w, f, g) ==
    /\ Runs(w, f, "user") /\ g \in events
    /\ Push(cancelAll(g))
    /\ events' = events \ {g}
    /\ UNCHANGED <<pool, threadVars, active, idle, isStopped, fiberVars, timers, due, broken>>

\* MainFunc after cb_.
Finish(w, f) ==
    /\ Runs(w, f, "user")
    /\ state' = [state EXCEPT ![f] = "TERM"]
    /\ Return(w)
    /\ UNCHANGED <<pool, saw, ready, expired, idleTerm, tasks, idle, pipe, missed, isStopped, doing, call, cancelled, waits, waitVars, broken>>

\* Scheduler::stop up to the joins.
Stop ==
    /\ ~isStopped
    /\ isStopped' = TRUE
    /\ pipe' = tickle(TRUE)
    /\ UNCHANGED <<pool, threadVars, tasks, active, idle, missed, fiberVars, waitVars, broken>>

-----------------------------------------------------------------------------
FiberStep(w, f) ==
    \/ BeginSleep(w, f) \/ BeginIo(w, f) \/ BeginConnect(w, f)
    \/ AddEvent(w, f) \/ AddEventFails(w, f) \/ Yield(w, f) \/ SwapContext(w, f)
    \/ AfterSleep(w, f) \/ AfterIo(w, f) \/ RetryIo(w, f) \/ Finish(w, f)
    \/ \E g \in Fiber : CloseFd(w, f, g)

WorkerStep(w) ==
    \/ Take(w) \/ FindNone(w) \/ GoIdle(w) \/ CheckStopping(w) \/ WaitReturns(w)
    \/ Dispatch(w) \/ WakeCallback(w) \/ TimeoutCallback(w)
    \/ \E f \in Fiber : FiberStep(w, f)

Timer == [kind : {"wake"}, f : Fiber, call : {0}] \cup [kind : {"timeout"}, f : Fiber, call : 1..MaxWaits]

Next ==
    /\ broken = "no"
    /\ \/ \E w \in pool : WorkerStep(w)
       \/ \E t \in Timer : FallsDue(t)
       \/ \E f \in Fiber : Schedule(f)
       \/ Stop

Spec == Init /\ [][Next]_vars

\* Threads are scheduled, epoll_wait ends after at most five seconds, and time
\* passes; nothing is assumed of the peers or of the owner.
Fairness ==
    /\ \A w \in Worker : WF_vars(broken = "no" /\ w \in pool /\ WorkerStep(w))
    /\ \A t \in Timer : WF_vars(broken = "no" /\ FallsDue(t))

FairSpec == Spec /\ Fairness

-----------------------------------------------------------------------------
\* The scheduler's counters of active and idle threads stay between zero and the
\* number of threads, and queues and tables have their types (Scheduler::run).
TypeOK ==
    /\ pool \subseteq Worker
    /\ pc \in [Worker -> {"look", "none", "idle", "wait", "woken", "call", "run", "adding", "parking", "leaving", "exit"}]
    /\ cur \in [Worker -> Task \cup {NoTask}]
    /\ tasks \in Seq(Task) /\ active \in 0..Cardinality(pool) /\ idle \in 0..Cardinality(pool)
    /\ isStopped \in BOOLEAN /\ pipe \in BOOLEAN /\ missed \in BOOLEAN
    /\ state \in [Fiber -> {"none", "READY", "LEAVING", "RUNNING", "TERM"}]
    /\ events \subseteq Fiber /\ timers \subseteq Timer /\ due \in Seq(Timer)
    /\ broken \in {"no", "panic", "torn"}

\* The task or timer callback t will bring fiber f back.
Resumes(t, f) == t.f = f /\ t.kind \in {"fiber", "wake"}

InQueue(q, f) == Cardinality({i \in DOMAIN q : Resumes(q[i], f)})

InTimers(f) == Cardinality({t \in timers : Resumes(t, f)})

InCallbacks(f) == Cardinality({w \in pool : pc[w] = "call" /\ Resumes(cur[w], f)})

InExpired(f) ==
    Cardinality(UNION {{w} \X {i \in DOMAIN expired[w] : Resumes(expired[w][i], f)} : w \in pool})

\* What will resume fiber f: an event, a sleep timer on its way, or a task.
Wakers(f) ==
    (IF f \in events THEN 1 ELSE 0)
    + InTimers(f) + InQueue(due, f) + InQueue(tasks, f) + InCallbacks(f) + InExpired(f)

\* A parked fiber (Fiber::yield in hook.cpp) has exactly one thing that will
\* resume it, through the triggers of idle(), timeouts and close: with none it
\* is lost, with two it is resumed twice.
OneWaker ==
    broken = "no" =>
        \A f \in Fiber : /\ state[f] = "READY" => Wakers(f) = 1
                         /\ state[f] \in {"none", "TERM"} => Wakers(f) = 0

\* With the one thread that Raft::init asks for (FIBER_THREAD_NUM), no fiber is
\* taken that is not READY with its context saved: the CondPanic of run() and
\* resume() never fires.
OneThreadNeverPanics == Cardinality(pool) = 1 => broken = "no"

\* No thread sleeps over a task: if all threads are in epoll_wait and the queue
\* is not empty, the pipe has a byte, except for a push that fell between a
\* thread's look at the queue and its ++idleThreadCnt_ (then up to 5 seconds).
NoLostTickle ==
    broken = "no" /\ tasks # <<>> /\ (\A w \in pool : pc[w] \in {"wait", "exit"}) => pipe \/ missed

\* Scheduler::stop returns (all threads joined) only with everything done:
\* every fiber that was started has ended, nothing is queued or registered, and
\* the counters it asks have been right all the time.
StopWaitsForAll ==
    /\ TypeOK
    /\ broken = "no" /\ (\A w \in pool : pc[w] = "exit") =>
          /\ tasks = <<>> /\ events = {} /\ timers = {} /\ due = <<>>
          /\ \A f \in Fiber : state[f] \in {"none", "TERM"}

\* With one thread, a fiber whose sockets have timeouts always gets on: every
\* sleep and every blocked call ends, whatever the peers do.
FibersEnd ==
    \A f \in Fiber \ Patient :
        Cardinality(pool) = 1 /\ state[f] = "RUNNING" ~> state[f] = "TERM"
=============================================================================
