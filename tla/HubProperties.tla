--------------------------- MODULE HubProperties ---------------------------
(***************************************************************************)
(* What the hub of ModelHub promises.                                      *)
(***************************************************************************)
EXTENDS ModelHub

\* Every variable has its type: the store is a Store, the queue holds session
\* ids, tasks and lock queues are what the code's local variables allow.
TypeOK ==
    /\ store \in Store
    /\ queue \in Seq(Sessions)
    /\ task \in [Tasks -> TaskState]
    /\ lock \in [Services -> Seq(Tasks)]
    /\ up \subseteq Services

-----------------------------------------------------------------------------
(* Leases and slots.                                                       *)

\* A reserved device slot is backed by the lease that reserved it and expires
\* with it, through renewals with and without reserve_device_slot, release,
\* pruning and expiry: a slot is never left behind by a lease that is gone.
SlotsBacked == \A k \in LeaseKeys : Holds(store, k) => store.leases[k] = store.slots[k]

\* Reservations alone never overbook the device, however leases are renewed,
\* pruned and released.
SlotsWithinDevice == Cardinality(ReservedSlots(store)) <= MaxConcurrency

\* A slot whose lease has not run out is given up only by its own release: no
\* worker, cleanup or other client takes it away.
LiveSlotKept ==
    [][\A k \in LeaseKeys :
          store.slots[k] > 0 /\ ~Holds(store', k) => ReleaseLease(k)]_vars

-----------------------------------------------------------------------------
(* Slot accounting of proxied requests.                                    *)

Forwarding == {t \in Workers : task[t].pc = "forward"}
ForwardingTo(v) == {t \in Forwarding : task[t].service = v}

\* No exit of _run_one (abort, failure, completion) leaks a slot: the device's
\* active_request_count and a service's inflight_requests never exceed the
\* requests that are really being forwarded.
NoSlotLeak ==
    /\ store.active <= Cardinality(Forwarding)
    /\ \A v \in Services : store.inflight[v] <= Cardinality(ForwardingTo(v))

\* active_request_count is the number of requests being forwarded.
ActiveExact == store.active = Cardinality(Forwarding)

\* With the slots reserved by leases, no more than max_concurrency requests and
\* streams use the device.
UsageWithinDevice == DeviceSlotUsage(store) <= MaxConcurrency

-----------------------------------------------------------------------------
(* Sessions, the queue and the workers.                                    *)

\* A worker is handling x: it has taken x from the queue and has not returned
\* from the try statement of _run_one.
Handling(t, x) ==
    task[t].session = x /\ task[t].pc \in {"lock", "reclaim", "sleep", "start", "health", "forward"}

Waiting(x) == \E i \in DOMAIN queue : queue[i] = x

\* Every session that is not yet settled has exactly one owner, the queue or one
\* worker, on every path through locks, waits for memory, failures and worker
\* deaths; and it shows "processing" only while its worker forwards it.
SessionOwned ==
    \A x \in Sessions :
        LET owners == {t \in Workers : Handling(t, x)}
        IN  /\ store.session[x] \in {"queued", "starting", "processing"} =>
                   Cardinality(owners) + (IF Waiting(x) THEN 1 ELSE 0) = 1
            /\ store.session[x] = "processing" <=>
                   \E t \in owners : task[t].pc = "forward"

\* A result is stored exactly for the sessions that show "finished": no 404 for
\* a finished session, and no result left behind when it expires.
ResultIffFinished == store.results = {x \in Sessions : store.session[x] = "finished"}

\* queue_size is the number of sessions of the service that wait in the queue.
QueueSizeExact ==
    \A v \in Services :
        store.queueSize[v] = Cardinality({i \in DOMAIN queue : ServiceOf[queue[i]] = v})

\* A session that shows finished, failed or expired never goes back to work:
\* clients stop polling at these three.
SettledIsFinal ==
    [][\A x \in Sessions :
          store.session[x] \in Terminal => store'.session[x] \in Terminal]_vars

\* Every submitted session is settled in the end.
EverySessionSettles ==
    \A x \in Sessions :
        store.session[x] = "queued" ~> store.session[x] \in Terminal

Lifecycle == INSTANCE SessionLifecycle WITH session <- store.session

\* The hub implements the life of a session a client relies on: no step skips
\* back or leaves a terminal status except to expire.
ImplementsLifecycle == Lifecycle!Spec

\* An HTTP request to start, stop or probe a service is answered in the end,
\* although it queues for the service's lock behind workers that wait for
\* memory, and waits for memory itself: whoever has the lock gives it up.
RequestsAnswered ==
    \A h \in Handlers : task[h].pc # "idle" ~> task[h].pc = "idle"

-----------------------------------------------------------------------------
(* Locks and service processes.                                            *)

Starting(t) == task[t].pc \in {"reclaim", "sleep", "start", "health"}

\* The head of a lock's queue is a task that runs under the lock, or a waiter
\* that is about to; the tasks that wait or run under it are all in its queue,
\* once: no lock is lost by an exception and no waiter is forgotten.
LocksConsistent ==
    \A v \in Services :
        /\ \A i, j \in DOMAIN lock[v] : lock[v][i] = lock[v][j] => i = j
        /\ Range(lock[v]) = {t \in Tasks : task[t].service = v
                                           /\ (Starting(t) \/ task[t].pc = "lock")}
        /\ \A i \in DOMAIN lock[v] : i > 1 => task[lock[v][i]].pc = "lock"

\* A service that shows idle, external or processing has its process up.
ShownServicesAreUp ==
    \A v \in Services : store.status[v] \in {"idle", "external", "processing"} => v \in up

\* Memory reclaim stops only services that no request is being forwarded to.
ReclaimsOnlyIdle ==
    \A t \in Tasks : task[t].pc = "reclaim" => ForwardingTo(Head(task[t].todo)) = {}

\* Once the worker of a session for a ONCE service has returned, every service
\* reclaimed for that session has been considered for restoring.
RestoreConsidered ==
    \A x \in Sessions :
        store.pendingRestore[x] # << >> =>
            \/ ServiceOf[x] \notin Once
            \/ \E t \in Workers : task[t].session = x

\* What is up and what is being started always fits the device.
NoOvercommit ==
    Fits(up \cup {task[t].service : t \in {u \in Tasks : task[u].pc \in {"start", "health"}}}
            \cup {Head(task[t].todo) : t \in {u \in Tasks : task[u].pc = "restore_start"}})
=============================================================================
