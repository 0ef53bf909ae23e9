------------------------------ MODULE ModelHub ------------------------------
(***************************************************************************)
(* model_hub_py at run time, for one device: the queue and the workers of  *)
(* its DeviceScheduler, the HTTP handlers of api.py that change state, the *)
(* service processes they start and stop, and the store they share.  No    *)
(* operation of the hub reads the state of another device.                 *)
(*                                                                         *)
(* A worker or a handler is an asyncio task: it runs alone from one await  *)
(* to the next, and each such section is one action.  A section is written *)
(* as the code is, as what happens next: an operator such as Capacity takes*)
(* the task t, its service v, its session x (None for a handler) and the   *)
(* store s as the section has left it so far, and ends by fixing store'    *)
(* and the await the task stops at (task[t].pc).                           *)
(***************************************************************************)
EXTENDS HubStore, SequencesExt

CONSTANTS
    Workers,   \* the worker tasks of the scheduler, one per unit of concurrency
    Handlers,  \* bound: HTTP start / stop / healthcheck requests in flight at once
    Once,      \* the services with startup_mode: once
    Usage,     \* device_memory_usage of each service
    Free,      \* free device memory as a function of the processes that are up
    Faults     \* which external calls may fail in this instance

ASSUME TasksAssumption ==
    /\ IsFiniteSet(Workers) /\ Cardinality(Workers) = MaxConcurrency
    /\ Workers \cap Handlers = {}
ASSUME MemoryAssumption ==
    /\ Once \subseteq Services
    /\ Usage \in [Services -> Nat \ {0}]
    /\ Free \in [SUBSET Services -> Int]
ASSUME FaultsAssumption ==
    Faults \subseteq {"start", "stop", "health", "forward", "memory", "crash"}

VARIABLES
    store,  \* app.state.store
    queue,  \* DeviceScheduler.queue: sessions waiting for a worker
    task,   \* where each worker and handler is, with its local variables
    lock,   \* _service_locks: the holder of each lock, then its waiters in order
    up      \* the services whose server process is running

vars == <<store, queue, task, lock, up>>

Tasks == Workers \cup Handlers

\* The awaits a task can be at; "idle" is queue.get() for a worker and no
\* request for a handler, "dead" a worker that an exception has ended.
Awaits == {"idle", "lock", "reclaim", "sleep", "start", "health", "forward",
           "once_stop", "restore_start", "restore_health", "stop", "probe", "dead"}

\* todo: services still to reclaim or restore; taken: reclaimed_names;
\* free: projected_available; answered: the awaited HTTP call has its answer.
TaskState ==
    [pc : Awaits, service : Services \cup {None}, session : Sessions \cup {None},
     todo : Seq(Services), taken : Seq(Services), free : Int, answered : BOOLEAN]

At(pc, v, x) ==
    [pc |-> pc, service |-> v, session |-> x, todo |-> << >>, taken |-> << >>, free |-> 0,
     answered |-> FALSE]
Idle == At("idle", None, None)

Become(t, r) == task' = [task EXCEPT ![t] = r]

\* The task returns with the store s.
Return(t, s) == store' = s /\ Become(t, Idle)

\* async with lock: Hold at an await inside the block, Unlock at its end.  Both
\* are used by the task that has the lock or has just found it free.
Hold(t, v)   == lock' = [lock EXCEPT ![v] = IF @ = << >> THEN <<t>> ELSE @]
Unlock(t, v) == lock' = [lock EXCEPT ![v] = IF @ = << >> THEN @ ELSE Tail(@)]

Fits(processes) == Free[processes] >= 0

-----------------------------------------------------------------------------
(* _restore_reclaimed_services                                             *)

\* The loop over restore_candidates, at its next element.
RestoreNext(t, v, x, s, todo) ==
    /\ store' = s
    /\ \/ "memory" \in Faults /\ todo # << >> /\ Become(t, At("dead", v, x))
       \/ IF todo = << >> \/ Free[up'] < Usage[Head(todo)]
          THEN Become(t, Idle)
          ELSE Become(t, [At("restore_start", v, x) EXCEPT !.todo = todo])

\* Which reclaimed services are inside resume_window_seconds, and their order by
\* last use, are chosen.
Restore(t, v, x, s) ==
    LET stopped == {w \in Range(s.pendingRestore[x]) : s.status[w] = "stopped"}
        p == [s EXCEPT !.pendingRestore[x] = << >>]
    IN  \E recent \in SUBSET stopped : \E todo \in SetToSeqs(recent) :
            RestoreNext(t, v, x, p, todo)

-----------------------------------------------------------------------------
(* _run_one, from its end to its beginning                                 *)

\* Mutants of Finally: the counters go down without their guards; the device's
\* count does not go down; a failed session leaves its service idle.
FinallyUnguarded(s, v, x) ==
    LET d == [s EXCEPT !.inflight[v] = @ - 1, !.active = @ - 1]
    IN  IF d.inflight[v] # 0 THEN d
        ELSE [d EXCEPT !.activeSession[v] = None,
                       !.status[v] = IF d.session[x] = "failed" THEN "error" ELSE "idle"]
FinallyKeepsSlot(s, v, x) ==
    LET d == [s EXCEPT !.inflight[v] = IF @ > 0 THEN @ - 1 ELSE @]
    IN  IF d.inflight[v] # 0 THEN d
        ELSE [d EXCEPT !.activeSession[v] = None,
                       !.status[v] = IF d.session[x] = "failed" THEN "error" ELSE "idle"]

FinallyForgetsFailure(s, v, x) ==
    LET d == [s EXCEPT !.inflight[v] = IF @ > 0 THEN @ - 1 ELSE @,
                       !.active = IF @ > 0 THEN @ - 1 ELSE @]
    IN  IF d.inflight[v] # 0 THEN d
        ELSE [d EXCEPT !.activeSession[v] = None, !.status[v] = "idle"]

\* The finally block.
Finally(s, v, x) ==
    LET d == [s EXCEPT !.inflight[v] = IF @ > 0 THEN @ - 1 ELSE @,
                       !.active = IF @ > 0 THEN @ - 1 ELSE @]
        c == [d EXCEPT !.activeSession[v] = None]
        r == RefreshActivity(c, {v})
    IN  IF d.inflight[v] # 0 THEN d
        ELSE IF d.session[x] = "failed" THEN [c EXCEPT !.status[v] = "error"]
        ELSE [r EXCEPT !.status[v] = IF HasLease(r, v) THEN "external" ELSE "idle"]

\* What follows the try statement: a ONCE service is stopped.
AfterRun(t, v, x, s) ==
    LET r == RefreshActivity(s, {v})
    IN  IF v \notin Once THEN Return(t, s)
        ELSE IF HasLease(r, v) THEN Restore(t, v, x, r)
        ELSE store' = r /\ Become(t, At("once_stop", v, x))

\* Mutant of Raise: the handler of the exception forgets the session.
RaiseLosesSession(t, v, x, s) ==
    IF x = None THEN Return(t, s) ELSE AfterRun(t, v, x, Finally(s, v, x))

\* An exception: a worker's try statement fails the session, a handler's request
\* ends with an HTTP error.
Raise(t, v, x, s) ==
    IF x = None THEN Return(t, s)
    ELSE AfterRun(t, v, x, Finally([s EXCEPT !.session[x] = "failed"], v, x))

\* From the second abort check to the await of proxy_forward.
Forward(t, v, x, s) ==
    LET a == AbortIfBusy(s, x)
    IN  IF Aborts(s, x)
        THEN Return(t, Finally(a, v, x))
        ELSE /\ store' = [a EXCEPT !.inflight[v] = @ + 1, !.activeSession[v] = x,
                                   !.status[v] = "processing", !.active = @ + 1,
                                   !.session[x] = "processing"]
             /\ Become(t, At("forward", v, x))

-----------------------------------------------------------------------------
(* _ensure_service_started and start_service: the same lock, the same wait *)
(* for memory, the same start.  A worker (x # None) also moves its session *)
(* and records what it reclaimed.                                          *)

Launch(t, v, x, s) ==
    /\ store' = IF x = None THEN [s EXCEPT !.status[v] = "starting"]
                ELSE [s EXCEPT !.status[v] = "starting", !.session[x] = "starting"]
    /\ Become(t, At("start", v, x))
    /\ Hold(t, v)

\* asyncio.sleep(0.01): _ensure_memory_capacity was False or a RuntimeError.
Sleep(t, v, x, s) == store' = s /\ Become(t, At("sleep", v, x)) /\ Hold(t, v)

Inspected(s, v) == {w \in s.running \ {v} : s.inflight[w] = 0}

\* _select_reclaim_candidates: ONCE services first, then by last use, which is
\* chosen.  It has refreshed the external activity of those it inspected.
ReclaimCandidates(s, v) ==
    {w \in Inspected(s, v) : ~HasLease(s, w) /\ s.status[w] \in {"idle", "error"}}
ReclaimOrders(s, v) ==
    {o \in SetToSeqs(ReclaimCandidates(s, v)) :
        \A i, j \in DOMAIN o : i < j /\ o[j] \in Once => o[i] \in Once}

\* A round of the wait for memory, up to its first await.
Capacity(t, v, x, s) ==
    \/ "memory" \in Faults /\ Unlock(t, v) /\ Raise(t, v, x, s)
    \/ Free[up] >= Usage[v] /\ Launch(t, v, x, s)
    \/ /\ Free[up] < Usage[v]
       /\ LET r == RefreshActivity(s, Inspected(s, v))
          IN  \E o \in ReclaimOrders(r, v) :
                IF o = << >> THEN Sleep(t, v, x, r)
                ELSE /\ store' = r
                     /\ Become(t, [At("reclaim", v, x) EXCEPT !.todo = o, !.free = Free[up]])
                     /\ Hold(t, v)

\* The task has the lock of v.
Locked(t, v, x, s) ==
    IF s.status[v] \in {"stopped", "error"}
    THEN Capacity(t, v, x, s)
    ELSE Unlock(t, v) /\ IF x = None THEN Return(t, s) ELSE Forward(t, v, x, s)

Acquire(t, v, x, s) ==
    IF lock[v] = << >>
    THEN Locked(t, v, x, s)
    ELSE /\ store' = s
         /\ Become(t, At("lock", v, x))
         /\ lock' = [lock EXCEPT ![v] = Append(@, t)]

-----------------------------------------------------------------------------
(* The sections of a task: what it does when its await returns.            *)

\* _worker takes an item; _run_one begins.
Dequeue(t) ==
    /\ t \in Workers /\ task[t].pc = "idle" /\ queue # << >>
    /\ queue' = Tail(queue)
    /\ UNCHANGED up
    /\ LET x == Head(queue)
           v == ServiceOf[x]
           s == [store EXCEPT !.queueSize[v] = @ - 1]
           a == AbortIfBusy(s, x)
       IN  IF Aborts(s, x)
           THEN Return(t, Finally(a, v, x)) /\ UNCHANGED lock
           ELSE Acquire(t, v, x, a)

\* t stops at pc, and its service and session are v and x.
On(t, pc, v, x) == task[t].pc = pc /\ task[t].service = v /\ task[t].session = x

\* The service the task calls over HTTP.
Asked(r) == IF r.pc = "restore_health" THEN Head(r.todo) ELSE r.service

\* The service answers the call t awaits.  t resumes in a step of its own, and
\* other tasks may run between the two.
Answer(t) ==
    /\ task[t].pc \in {"health", "forward", "restore_health", "probe"}
    /\ ~task[t].answered /\ Asked(task[t]) \in up
    /\ task' = [task EXCEPT ![t].answered = TRUE]
    /\ UNCHANGED <<store, queue, lock, up>>

\* The call t awaits from w fails or times out.
Unanswered(t, w, fault) == ~task[t].answered /\ (fault \in Faults \/ w \notin up)

LockGranted(t, v, x) ==
    /\ On(t, "lock", v, x) /\ Head(lock[v]) = t
    /\ UNCHANGED <<queue, up>>
    /\ Locked(t, v, x, store)

\* Mutant of ReclaimStops: what one candidate frees is taken to be enough.
ReclaimStopsOne(t, v, x) ==
    /\ On(t, "reclaim", v, x)
    /\ up' = up \ {Head(task[t].todo)}
    /\ Launch(t, v, x, MarkServiceStopped(store, Head(task[t].todo)))
    /\ UNCHANGED queue

\* The stop command of the candidate at hand succeeds.
ReclaimStops(t, v, x) ==
    /\ On(t, "reclaim", v, x)
    /\ LET r     == task[t]
           w     == Head(r.todo)
           s     == MarkServiceStopped(store, w)
           taken == Append(r.taken, w)
           free  == r.free + Usage[w]
       IN  /\ up' = up \ {w}
           /\ IF free >= Usage[v]
              THEN Launch(t, v, x, IF x = None THEN s
                                   ELSE [s EXCEPT !.pendingRestore[x] = taken])
              ELSE IF Tail(r.todo) = << >> THEN Sleep(t, v, x, s)
              ELSE /\ store' = s /\ UNCHANGED lock
                   /\ Become(t, [r EXCEPT !.todo = Tail(@), !.taken = taken, !.free = free])
    /\ UNCHANGED queue

\* process_manager.stop raises a RuntimeError, which the wait swallows.
ReclaimStopFails(t, v, x) ==
    /\ "stop" \in Faults /\ On(t, "reclaim", v, x)
    /\ Sleep(t, v, x, store)
    /\ UNCHANGED <<queue, up>>

CapacityRetry(t, v, x) ==
    /\ On(t, "sleep", v, x)
    /\ UNCHANGED <<queue, up>>
    /\ Capacity(t, v, x, store)

\* scheduling_timeout_seconds have passed.
CapacityTimeout(t, v, x) ==
    /\ On(t, "sleep", v, x)
    /\ UNCHANGED <<queue, up>>
    /\ Unlock(t, v)
    /\ Raise(t, v, x, store)

StartSucceeds(t, v, x) ==
    /\ On(t, "start", v, x) /\ Fits(up \cup {v})
    /\ up' = up \cup {v}
    /\ Become(t, At("health", v, x))
    /\ UNCHANGED <<store, queue, lock>>

\* Mutant of StartFails: the exception leaves the lock taken.
StartFailsKeepsLock(t, v, x) ==
    /\ On(t, "start", v, x) /\ ("start" \in Faults \/ ~Fits(up \cup {v}))
    /\ UNCHANGED <<queue, lock, up>>
    /\ Raise(t, v, x, store)

\* The start command fails; the status stays "starting" unless Finally resets it.
StartFails(t, v, x) ==
    /\ On(t, "start", v, x) /\ ("start" \in Faults \/ ~Fits(up \cup {v}))
    /\ UNCHANGED <<queue, up>>
    /\ Unlock(t, v)
    /\ Raise(t, v, x, store)

HealthyAfterStart(t, v, x) ==
    /\ On(t, "health", v, x) /\ task[t].answered
    /\ UNCHANGED <<queue, up>>
    /\ Unlock(t, v)
    /\ LET s == MarkServiceStarted(store, v)
       IN  IF x = None THEN Return(t, s) ELSE Forward(t, v, x, s)

HealthTimeout(t, v, x) ==
    /\ On(t, "health", v, x) /\ Unanswered(t, v, "health")
    /\ UNCHANGED <<queue, up>>
    /\ Unlock(t, v)
    /\ Raise(t, v, x, store)

ForwardReturns(t, v, x) ==
    /\ On(t, "forward", v, x) /\ task[t].answered
    /\ UNCHANGED <<queue, lock, up>>
    /\ LET s == [store EXCEPT !.results = @ \cup {x}, !.session[x] = "finished"]
       IN  AfterRun(t, v, x, Finally(s, v, x))

ForwardFails(t, v, x) ==
    /\ On(t, "forward", v, x) /\ Unanswered(t, v, "forward")
    /\ UNCHANGED <<queue, lock, up>>
    /\ Raise(t, v, x, store)

\* Mutant of OnceStops: what was reclaimed for the session is forgotten.
OnceStopsForgets(t, v, x) ==
    /\ On(t, "once_stop", v, x)
    /\ up' = up \ {v}
    /\ UNCHANGED <<queue, lock>>
    /\ Return(t, MarkServiceStopped(store, v))

OnceStops(t, v, x) ==
    /\ On(t, "once_stop", v, x)
    /\ up' = up \ {v}
    /\ UNCHANGED <<queue, lock>>
    /\ Restore(t, v, x, MarkServiceStopped(store, v))

\* Nothing catches an exception here: the worker ends.
OnceStopFails(t, v, x) ==
    /\ "stop" \in Faults /\ On(t, "once_stop", v, x)
    /\ Become(t, At("dead", v, x))
    /\ UNCHANGED <<store, queue, lock, up>>

RestoreStarts(t, v, x) ==
    LET w == Head(task[t].todo)
    IN  /\ On(t, "restore_start", v, x) /\ Fits(up \cup {w})
        /\ up' = up \cup {w}
        /\ Become(t, [task[t] EXCEPT !.pc = "restore_health"])
        /\ UNCHANGED <<store, queue, lock>>

RestoreHealthy(t, v, x) ==
    LET w == Head(task[t].todo)
    IN  /\ On(t, "restore_health", v, x) /\ task[t].answered
        /\ UNCHANGED <<queue, lock, up>>
        /\ RestoreNext(t, v, x, MarkServiceStarted(store, w), Tail(task[t].todo))

\* Nor here: the start command or the health check of a restored service fails.
RestoreFails(t, v, x) ==
    LET w == Head(task[t].todo)
    IN  /\ \/ On(t, "restore_start", v, x) /\ ("start" \in Faults \/ ~Fits(up \cup {w}))
           \/ On(t, "restore_health", v, x) /\ Unanswered(t, w, "health")
        /\ Become(t, At("dead", v, x))
        /\ UNCHANGED <<store, queue, lock, up>>

-----------------------------------------------------------------------------
(* The HTTP handlers.                                                      *)

\* submit_task: Dispatcher.submit, which answers 409 when the device has no slot.
Submit(x) ==
    /\ store.session[x] = "unsubmitted"
    /\ LET p == PruneReservedSlots(store)
       IN  IF CanAcceptProxyWork(store)
           THEN store' = CreateSession(p, x) /\ queue' = Append(queue, x)
           ELSE store' = p /\ UNCHANGED queue
    /\ UNCHANGED <<task, lock, up>>

StartService(h, v) ==
    /\ task[h].pc = "idle"
    /\ store.status[v] \in {"stopped", "error"}
    /\ UNCHANGED <<queue, up>>
    /\ Acquire(h, v, None, store)

\* stop_service up to its await; it takes no lock.
StopService(h, v) ==
    /\ task[h].pc = "idle"
    /\ LET r == RefreshActivity(store, {v})
       IN  IF HasLease(r, v) \/ r.activeSession[v] # None \/ r.status[v] = "stopped"
           THEN store' = r /\ UNCHANGED task
           ELSE /\ store' = [r EXCEPT !.status[v] = "stopping"]
                /\ Become(h, At("stop", v, None))
    /\ UNCHANGED <<queue, lock, up>>

StopReturns(h, v) ==
    /\ On(h, "stop", v, None)
    /\ up' = up \ {v}
    /\ Return(h, MarkServiceStopped(store, v))
    /\ UNCHANGED <<queue, lock>>

StopFails(h, v) ==
    /\ "stop" \in Faults /\ On(h, "stop", v, None)
    /\ Return(h, store)
    /\ UNCHANGED <<queue, lock, up>>

Healthcheck(h, v) ==
    /\ task[h].pc = "idle"
    /\ Become(h, At("probe", v, None))
    /\ UNCHANGED <<store, queue, lock, up>>

ProbeHealthy(h, v) ==
    /\ On(h, "probe", v, None) /\ task[h].answered
    /\ LET r == RefreshActivity(store, {v})
       IN  IF store.status[v] = "stopped" THEN Return(h, MarkServiceStarted(store, v))
           ELSE Return(h, [r EXCEPT !.status[v] = IF HasLease(r, v) THEN "external"
                                                  ELSE "idle"])
    /\ UNCHANGED <<queue, lock, up>>

ProbeTimeout(h, v) ==
    /\ On(h, "probe", v, None) /\ Unanswered(h, v, "health")
    /\ Return(h, store)
    /\ UNCHANGED <<queue, lock, up>>

\* touch_service_lease.  A request that reserves polls until the slot is ready:
\* a poll that finds it taken only prunes.
TouchLease(k, ttl, reserve) ==
    /\ store' = TouchExternalLease(store, k, ttl, reserve)
    /\ UNCHANGED <<queue, task, lock, up>>

ReleaseLease(k) ==
    /\ store' = ReleaseExternalLease(store, k)
    /\ UNCHANGED <<queue, task, lock, up>>

\* cleanup_loop, and every GET handler that calls cleanup_expired.
Cleanup(old) ==
    /\ store' = CleanupExpired(store, old)
    /\ UNCHANGED <<queue, task, lock, up>>

-----------------------------------------------------------------------------
(* The environment.                                                        *)

Tick == store' = Elapse(store) /\ UNCHANGED <<queue, task, lock, up>>

Crash(v) ==
    /\ "crash" \in Faults /\ v \in up
    /\ up' = up \ {v}
    /\ UNCHANGED <<store, queue, task, lock>>

-----------------------------------------------------------------------------

\* reconcile_services_on_startup has run.  Only a service that is up answers its
\* probe, but the probe of one that is up may time out.
Init ==
    /\ up \in {u \in SUBSET Services : Fits(u)}
    /\ \E healthy \in SUBSET up :
        /\ "health" \notin Faults => healthy = up
        /\ store = InitialStore(healthy)
    /\ queue = << >>
    /\ task = [t \in Tasks |-> Idle]
    /\ lock = [v \in Services |-> << >>]

\* The sections of _ensure_service_started, which a worker or a handler runs.
StartStep(t, v, x) ==
    \/ LockGranted(t, v, x)
    \/ ReclaimStops(t, v, x) \/ ReclaimStopFails(t, v, x)
    \/ CapacityRetry(t, v, x) \/ CapacityTimeout(t, v, x)
    \/ StartSucceeds(t, v, x) \/ StartFails(t, v, x)
    \/ HealthyAfterStart(t, v, x) \/ HealthTimeout(t, v, x)

\* The sections of _run_one after it.
RunStep(t, v, x) ==
    \/ ForwardReturns(t, v, x) \/ ForwardFails(t, v, x)
    \/ OnceStops(t, v, x) \/ OnceStopFails(t, v, x)
    \/ RestoreStarts(t, v, x) \/ RestoreHealthy(t, v, x) \/ RestoreFails(t, v, x)

WorkerStep(t) ==
    \/ Dequeue(t) \/ Answer(t)
    \/ \E v \in Services, x \in Sessions : StartStep(t, v, x) \/ RunStep(t, v, x)

HandlerStep(h) ==
    \/ Answer(h)
    \/ \E v \in Services :
        \/ StartStep(h, v, None)
        \/ StopReturns(h, v) \/ StopFails(h, v)
        \/ ProbeHealthy(h, v) \/ ProbeTimeout(h, v)

Request ==
    \/ \E x \in Sessions : Submit(x)
    \/ \E h \in Handlers, v \in Services :
            StartService(h, v) \/ StopService(h, v) \/ Healthcheck(h, v)
    \/ \E k \in LeaseKeys : ReleaseLease(k)
    \/ \E k \in LeaseKeys, ttl \in 1 .. MaxTtl, reserve \in BOOLEAN :
            TouchLease(k, ttl, reserve)
    \/ \E old \in SUBSET Expirable(store) : Cleanup(old)

Environment == Tick \/ \E v \in Services : Crash(v)

Next ==
    \/ \E t \in Workers : WorkerStep(t)
    \/ \E h \in Handlers : HandlerStep(h)
    \/ Request
    \/ Environment

Spec == Init /\ [][Next]_vars

\* Every await returns: commands end, health polls and upstream calls have
\* timeouts, a lock is handed on in order; and a wait for memory that keeps
\* failing reaches its deadline.
Fairness ==
    /\ \A t \in Workers :
        /\ WF_vars(WorkerStep(t))
        /\ SF_vars(\E v \in Services, x \in Sessions : CapacityTimeout(t, v, x))
    /\ \A h \in Handlers :
        /\ WF_vars(HandlerStep(h))
        /\ SF_vars(\E v \in Services : CapacityTimeout(h, v, None))

FairSpec == Spec /\ Fairness
=============================================================================
