------------------------------ MODULE HubProofs ------------------------------
(***************************************************************************)
(* Theorems about ModelHub for every device: any services, sessions,       *)
(* leases, concurrency, memory and set of failures.                        *)
(*                                                                         *)
(* First the types and the slots.  The inductive invariant says that the   *)
(* store is well formed (see HubStoreProofs), that every task, lock and the*)
(* queue have their types, and that a task in the middle of a list of      *)
(* services has one at hand.  The proof follows the code: a lemma for each *)
(* operator a section is composed of, from the one that ends it back to the*)
(* one that begins it, then one step for each action.                      *)
(*                                                                         *)
(* Then the sessions: each session that is in progress has one owner, which*)
(* is where its status says; results are those of the finished sessions;   *)
(* what was reclaimed for a session is remembered until it is restored; a  *)
(* live lease keeps its slot.  Where no lease can seize the only slot, the *)
(* queue is counted and the hub implements SessionLifecycle.  This proof   *)
(* goes over the same operators once for all these properties: its lemmas  *)
(* say where task t stops and what has become of its session x, given the  *)
(* store s as the section had left it.                                     *)
(***************************************************************************)
EXTENDS HubProperties, HubStoreProofs

TaskOK(f) ==
    /\ f \in [Tasks -> TaskState]
    /\ \A t \in Tasks :
          f[t].pc \in {"reclaim", "restore_start", "restore_health"} => f[t].todo # << >>

LockOK(l) == l \in [Services -> Seq(Tasks)]

IInv ==
    /\ WellFormed(store)
    /\ queue \in Seq(Sessions)
    /\ TaskOK(task)
    /\ LockOK(lock)
    /\ up \subseteq Services

\* What the end of a section establishes.
Sound == WellFormed(store') /\ TaskOK(task')

-----------------------------------------------------------------------------
(* Tasks and locks.                                                        *)

\* A task at an await, with nothing to reclaim or restore, has its type.
LEMMA AtType ==
  ASSUME NEW pc \in Awaits, NEW v \in Services \cup {None}, NEW x \in Sessions \cup {None}
  PROVE  At(pc, v, x) \in TaskState
  BY DEF At, TaskState

\* A task that stops where it works through a list has one to work through.
LEMMA BecomeSound ==
  ASSUME TaskOK(task), NEW t \in Tasks, NEW r \in TaskState, Become(t, r),
         r.pc \in {"reclaim", "restore_start", "restore_health"} => r.todo # << >>
  PROVE  TaskOK(task')
  BY DEF TaskOK, Become

\* A task may stop at any other await.
LEMMA BecomeAtSound ==
  ASSUME TaskOK(task), NEW t \in Tasks,
         NEW pc \in Awaits \ {"reclaim", "restore_start", "restore_health"},
         NEW v \in Services \cup {None}, NEW x \in Sessions \cup {None},
         Become(t, At(pc, v, x))
  PROVE  TaskOK(task')
  <1>1. At(pc, v, x) \in TaskState /\ At(pc, v, x).pc = pc
    BY AtType DEF At
  <1> QED
    BY <1>1, BecomeSound

\* A task may return.
LEMMA BecomeIdleSound ==
  ASSUME TaskOK(task), NEW t \in Tasks, Become(t, Idle)
  PROVE  TaskOK(task')
  BY BecomeAtSound DEF Idle, Awaits

\* An answer that arrives leaves all that a task is and has but the note of it.
Alike(r, q) ==
    /\ r.pc = q.pc /\ r.service = q.service /\ r.session = q.session
    /\ r.todo = q.todo /\ r.taken = q.taken /\ r.free = q.free

LEMMA AnswerAlike ==
  ASSUME TaskOK(task), NEW t \in Tasks, Answer(t)
  PROVE  /\ UNCHANGED <<store, queue, lock, up>> /\ TaskOK(task')
         /\ \A u \in Tasks : Alike(task'[u], task[u])
         /\ \A u \in Tasks \ {t} : task'[u] = task[u]
         /\ task'[t].answered /\ Asked(task[t]) \in up
         /\ task[t].pc \in {"health", "forward", "restore_health", "probe"}
  <1> DEFINE q == [task[t] EXCEPT !.answered = TRUE]
  <1>1. task' = [task EXCEPT ![t] = q]
    BY DEF Answer
  <1>2. task[t] \in TaskState /\ (q.pc \in {"reclaim", "restore_start", "restore_health"} => q.todo # << >>)
    BY DEF TaskOK, TaskState
  <1>3. q \in TaskState /\ Alike(q, task[t]) /\ q.answered
    BY <1>2 DEF TaskState, Alike
  <1> HIDE DEF q
  <1>4. TaskOK(task') /\ task'[t] = q /\ \A u \in Tasks \ {t} : task'[u] = task[u]
    BY <1>1, <1>2, <1>3, BecomeSound DEF Become, TaskOK
  <1>5. \A u \in Tasks : Alike(task'[u], task[u])
    BY <1>3, <1>4 DEF Alike
  <1> QED
    BY <1>3, <1>4, <1>5 DEF Answer

\* A task may return with a well-formed store.
LEMMA ReturnSound ==
  ASSUME NEW s, WellFormed(s), TaskOK(task), NEW t \in Tasks, Return(t, s)
  PROVE  Sound
  BY BecomeIdleSound DEF Return, Sound

\* Holding a lock keeps its queue a sequence of tasks,
LEMMA HoldSound ==
  ASSUME LockOK(lock), NEW t \in Tasks, NEW v \in Services, Hold(t, v)
  PROVE  LockOK(lock')
  BY DEF LockOK, Hold

\* and so does letting it go.
LEMMA UnlockSound ==
  ASSUME LockOK(lock), NEW t, NEW v \in Services, Unlock(t, v)
  PROVE  LockOK(lock')
  BY DEF LockOK, Unlock

\* An order of some services is a sequence of services.
LEMMA OrdersType ==
  ASSUME NEW S \in SUBSET Services, NEW o \in SetToSeqs(S)
  PROVE  o \in Seq(Services)
  <1>1. Cardinality(S) \in Nat
    BY ServicesAssumption, FS_Subset, FS_CardinalityType
  <1>2. o \in [1 .. Cardinality(S) -> S]
    BY DEF SetToSeqs
  <1> QED
    BY <1>1, <1>2

\* The elements of a sequence of services are services.
LEMMA RangeType ==
  ASSUME NEW q \in Seq(Services)
  PROVE  Range(q) \subseteq Services
  <1>1. \A i \in DOMAIN q : q[i] \in Services
    OBVIOUS
  <1> QED
    BY <1>1 DEF Range

-----------------------------------------------------------------------------
(* The sections that end a run: restoring what was reclaimed.              *)

\* Recording or forgetting what was reclaimed for a session touches no lease.
LEMMA PendingRestoreWellFormed ==
  ASSUME NEW s, WellFormed(s), NEW x \in Sessions, NEW q \in Seq(Services)
  PROVE  WellFormed([s EXCEPT !.pendingRestore[x] = q])
  <1> DEFINE e == [s.pendingRestore EXCEPT ![x] = q]
             p == [s EXCEPT !.pendingRestore = e]
  <1>1. e \in [Sessions -> Seq(Services)]
    BY DEF WellFormed, Store
  <1>2. p = [s EXCEPT !.pendingRestore[x] = q]
    OBVIOUS
  <1> HIDE DEF e
  <1>3. p \in Store /\ p.leases = s.leases /\ p.slots = s.slots
    BY <1>1 DEF WellFormed, Store
  <1> HIDE DEF p
  <1>4. WellFormed(p)
    BY <1>3, SameTables
  <1> QED
    BY <1>2, <1>4

\* The loop over what to restore ends, fails or has a service at hand.
LEMMA RestoreNextSound ==
  ASSUME NEW s, WellFormed(s), TaskOK(task), NEW t \in Tasks, NEW v \in Services,
         NEW x \in Sessions \cup {None}, NEW todo \in Seq(Services),
         RestoreNext(t, v, x, s, todo)
  PROVE  Sound
  <1>1. WellFormed(store')
    BY DEF RestoreNext
  <1>2. CASE Become(t, At("dead", v, x))
    BY <1>1, <1>2, BecomeAtSound DEF Sound, Awaits
  <1>3. CASE Become(t, Idle)
    BY <1>1, <1>3, BecomeIdleSound DEF Sound
  <1>4. CASE todo # << >> /\ Become(t, [At("restore_start", v, x) EXCEPT !.todo = todo])
    <2> DEFINE r == [At("restore_start", v, x) EXCEPT !.todo = todo]
    <2>1. At("restore_start", v, x) \in TaskState
      BY AtType DEF Awaits
    <2>2. r \in TaskState /\ r.todo = todo
      BY <2>1 DEF TaskState
    <2> QED
      BY <1>1, <1>4, <2>2, BecomeSound DEF Sound
  <1> QED
    BY <1>2, <1>3, <1>4 DEF RestoreNext

\* It begins with the services the session reclaimed.
LEMMA RestoreSound ==
  ASSUME NEW s, WellFormed(s), TaskOK(task), NEW t \in Tasks, NEW v \in Services,
         NEW x \in Sessions, Restore(t, v, x, s)
  PROVE  Sound
  <1> DEFINE stopped == {w \in Range(s.pendingRestore[x]) : s.status[w] = "stopped"}
             p == [s EXCEPT !.pendingRestore[x] = << >>]
  <1>1. s.pendingRestore[x] \in Seq(Services)
    BY DEF WellFormed, Store
  <1>2. stopped \subseteq Services
    <2>1. Range(s.pendingRestore[x]) \subseteq Services
      BY <1>1, RangeType
    <2> QED
      BY <2>1
  <1>3. << >> \in Seq(Services)
    OBVIOUS
  <1>4. WellFormed(p)
    BY <1>3, PendingRestoreWellFormed
  <1> HIDE DEF p
  <1>5. PICK recent \in SUBSET stopped : \E todo \in SetToSeqs(recent) :
            RestoreNext(t, v, x, p, todo)
    BY DEF Restore, p
  <1>6. PICK todo \in SetToSeqs(recent) : RestoreNext(t, v, x, p, todo)
    BY <1>5
  <1>7. todo \in Seq(Services)
    BY <1>2, OrdersType
  <1> QED
    BY <1>4, <1>6, <1>7, RestoreNextSound

-----------------------------------------------------------------------------
(* The finally block, and the sections that end in it.                     *)

\* The finally block counts down, but never below zero.
LEMMA FinallyWellFormed ==
  ASSUME NEW s, WellFormed(s), NEW v \in Services, NEW x \in Sessions
  PROVE  WellFormed(Finally(s, v, x))
  <1> DEFINE n == IF s.inflight[v] > 0 THEN s.inflight[v] - 1 ELSE s.inflight[v]
             m == IF s.active > 0 THEN s.active - 1 ELSE s.active
             d == [s EXCEPT !.inflight[v] = n, !.active = m]
             c == [d EXCEPT !.activeSession[v] = None]
             e == [c EXCEPT !.status[v] = "error"]
             r == RefreshActivity(c, {v})
             shown == IF HasLease(r, v) THEN "external" ELSE "idle"
             f == [r EXCEPT !.status[v] = shown]
  <1>1. n \in Nat
    <2>1. s.inflight[v] \in Nat
      BY DEF WellFormed, Store
    <2> QED
      BY <2>1
  <1>2. m \in Nat
    <2>1. s.active \in Nat
      BY DEF WellFormed, Store
    <2> QED
      BY <2>1
  <1>3. Finally(s, v, x) \in {d, e, f}
    BY DEF Finally
  <1> HIDE DEF n, m
  <1>4. d \in Store /\ d.leases = s.leases /\ d.slots = s.slots
    BY <1>1, <1>2 DEF WellFormed, Store
  <1> HIDE DEF d
  <1>5. c \in Store /\ c.leases = d.leases /\ c.slots = d.slots
    BY <1>4 DEF Store
  <1> HIDE DEF c
  <1>6. e \in Store /\ e.leases = c.leases /\ e.slots = c.slots
    BY <1>5 DEF Store, ServiceStatus
  <1>7. WellFormed(d) /\ WellFormed(c)
    BY <1>4, <1>5, SameTables
  <1>8. WellFormed(r)
    BY <1>7, RefreshActivityWellFormed
  <1> HIDE DEF r
  <1>9. shown \in ServiceStatus
    BY DEF ServiceStatus
  <1> HIDE DEF shown
  <1>10. f \in Store /\ f.leases = r.leases /\ f.slots = r.slots
    BY <1>8, <1>9 DEF Store, WellFormed
  <1> HIDE DEF e, f
  <1>11. WellFormed(e) /\ WellFormed(f)
    BY <1>6, <1>7, <1>8, <1>10, SameTables
  <1> QED
    BY <1>3, <1>7, <1>11

\* A run ends, or stops its ONCE service first.
LEMMA AfterRunSound ==
  ASSUME NEW s, WellFormed(s), TaskOK(task), NEW t \in Tasks, NEW v \in Services,
         NEW x \in Sessions, AfterRun(t, v, x, s)
  PROVE  Sound
  <1> DEFINE r == RefreshActivity(s, {v})
  <1>1. WellFormed(r)
    BY RefreshActivityWellFormed
  <1> HIDE DEF r
  <1>2. CASE Return(t, s)
    BY <1>2, ReturnSound
  <1>3. CASE Restore(t, v, x, r)
    BY <1>1, <1>3, RestoreSound
  <1>4. CASE store' = r /\ Become(t, At("once_stop", v, x))
    BY <1>1, <1>4, BecomeAtSound DEF Sound, Awaits
  <1> QED
    BY <1>2, <1>3, <1>4 DEF AfterRun, r

\* An exception fails the session and ends the run, or the request.
LEMMA RaiseSound ==
  ASSUME NEW s, WellFormed(s), TaskOK(task), NEW t \in Tasks, NEW v \in Services,
         NEW x \in Sessions \cup {None}, Raise(t, v, x, s)
  PROVE  Sound
  <1>1. CASE x = None
    BY <1>1, ReturnSound DEF Raise
  <1>2. CASE x # None
    <2> DEFINE f == [s EXCEPT !.session[x] = "failed"]
    <2>1. x \in Sessions
      BY <1>2
    <2>2. f \in Store /\ f.leases = s.leases /\ f.slots = s.slots
      BY <2>1 DEF WellFormed, Store, SessionStatus
    <2>3. AfterRun(t, v, x, Finally(f, v, x))
      BY <1>2 DEF Raise
    <2> HIDE DEF f
    <2>4. WellFormed(Finally(f, v, x))
      BY <2>1, <2>2, SameTables, FinallyWellFormed
    <2> QED
      BY <2>1, <2>3, <2>4, AfterRunSound
  <1> QED
    BY <1>1, <1>2

\* A session that is forwarded is counted; one that is aborted is not.
LEMMA ForwardSound ==
  ASSUME NEW s, WellFormed(s), TaskOK(task), NEW t \in Tasks, NEW v \in Services,
         NEW x \in Sessions, Forward(t, v, x, s)
  PROVE  Sound
  <1> DEFINE a == AbortIfBusy(s, x)
             n == a.inflight[v] + 1
             m == a.active + 1
             f == [a EXCEPT !.inflight[v] = n, !.activeSession[v] = x,
                            !.status[v] = "processing", !.active = m,
                            !.session[x] = "processing"]
  <1>1. WellFormed(a)
    BY AbortIfBusyWellFormed
  <1> HIDE DEF a
  <1>2. CASE Return(t, Finally(a, v, x))
    BY <1>1, <1>2, FinallyWellFormed, ReturnSound
  <1>3. CASE store' = f /\ Become(t, At("forward", v, x))
    <2>1. n \in Nat /\ m \in Nat
      BY <1>1 DEF WellFormed, Store
    <2> HIDE DEF n, m
    <2>2. f \in Store /\ f.leases = a.leases /\ f.slots = a.slots
      BY <1>1, <2>1 DEF WellFormed, Store, ServiceStatus, SessionStatus
    <2> HIDE DEF f
    <2>3. WellFormed(f)
      BY <1>1, <2>2, SameTables
    <2> QED
      BY <1>3, <2>3, BecomeAtSound DEF Sound, Awaits
  <1> QED
    BY <1>2, <1>3 DEF Forward, a

-----------------------------------------------------------------------------
(* The sections that start a service.                                      *)

\* A start command is issued under the lock.
LEMMA LaunchSound ==
  ASSUME NEW s, WellFormed(s), TaskOK(task), LockOK(lock), NEW t \in Tasks,
         NEW v \in Services, NEW x \in Sessions \cup {None}, Launch(t, v, x, s)
  PROVE  Sound /\ LockOK(lock')
  <1> DEFINE f == [s EXCEPT !.status[v] = "starting"]
             g == [s EXCEPT !.status[v] = "starting", !.session[x] = "starting"]
  <1>1. store' = f \/ (x # None /\ store' = g)
    BY DEF Launch
  <1>2. f \in Store /\ f.leases = s.leases /\ f.slots = s.slots
    BY DEF WellFormed, Store, ServiceStatus
  <1>3. x # None => g \in Store /\ g.leases = s.leases /\ g.slots = s.slots
    BY DEF WellFormed, Store, ServiceStatus, SessionStatus
  <1> HIDE DEF f, g
  <1>4. WellFormed(store')
    BY <1>1, <1>2, <1>3, SameTables
  <1>5. TaskOK(task')
    BY BecomeAtSound DEF Launch, Awaits
  <1> QED
    BY <1>4, <1>5, HoldSound DEF Sound, Launch

\* A wait for memory sleeps under the lock.
LEMMA SleepSound ==
  ASSUME NEW s, WellFormed(s), TaskOK(task), LockOK(lock), NEW t \in Tasks,
         NEW v \in Services, NEW x \in Sessions \cup {None}, Sleep(t, v, x, s)
  PROVE  Sound /\ LockOK(lock')
  BY BecomeAtSound, HoldSound DEF Sleep, Sound, Awaits

\* A round of the wait launches, sleeps, or has a candidate to reclaim.
LEMMA CapacitySound ==
  ASSUME NEW s, WellFormed(s), TaskOK(task), LockOK(lock), NEW t \in Tasks,
         NEW v \in Services, NEW x \in Sessions \cup {None}, up \subseteq Services,
         Capacity(t, v, x, s)
  PROVE  Sound /\ LockOK(lock')
  <1> DEFINE r == RefreshActivity(s, Inspected(s, v))
  <1>1. WellFormed(r)
    <2>1. Inspected(s, v) \in SUBSET Services
      BY DEF Inspected, WellFormed, Store
    <2> QED
      BY <2>1, RefreshActivityWellFormed
  <1>2. ReclaimCandidates(r, v) \in SUBSET Services
    BY <1>1 DEF ReclaimCandidates, Inspected, WellFormed, Store
  <1> HIDE DEF r
  <1>3. CASE Unlock(t, v) /\ Raise(t, v, x, s)
    BY <1>3, UnlockSound, RaiseSound
  <1>4. CASE Launch(t, v, x, s)
    BY <1>4, LaunchSound
  <1>5. ASSUME NEW o \in ReclaimOrders(r, v),
               o = << >>, Sleep(t, v, x, r)
        PROVE  Sound /\ LockOK(lock')
    BY <1>1, <1>5, SleepSound
  <1>6. ASSUME NEW o \in ReclaimOrders(r, v), o # << >>, store' = r,
               Become(t, [At("reclaim", v, x) EXCEPT !.todo = o, !.free = Free[up]]),
               Hold(t, v)
        PROVE  Sound /\ LockOK(lock')
    <2> DEFINE q == [At("reclaim", v, x) EXCEPT !.todo = o, !.free = Free[up]]
    <2>1. o \in Seq(Services)
      BY <1>2, OrdersType DEF ReclaimOrders
    <2>2. Free[up] \in Int
      BY MemoryAssumption
    <2>3. At("reclaim", v, x) \in TaskState
      BY AtType DEF Awaits
    <2>4. q \in TaskState /\ q.todo = o
      BY <2>1, <2>2, <2>3 DEF TaskState
    <2> QED
      BY <1>1, <1>6, <2>4, BecomeSound, HoldSound DEF Sound
  <1> QED
    BY <1>3, <1>4, <1>5, <1>6 DEF Capacity, r

\* With the lock, the service is up already or there is a wait for memory.
LEMMA LockedSound ==
  ASSUME NEW s, WellFormed(s), TaskOK(task), LockOK(lock), NEW t \in Tasks,
         NEW v \in Services, NEW x \in Sessions \cup {None}, up \subseteq Services,
         Locked(t, v, x, s)
  PROVE  Sound /\ LockOK(lock')
  <1>1. CASE Capacity(t, v, x, s)
    BY <1>1, CapacitySound
  <1>2. CASE Unlock(t, v) /\ x = None /\ Return(t, s)
    BY <1>2, UnlockSound, ReturnSound
  <1>3. CASE Unlock(t, v) /\ x # None /\ Forward(t, v, x, s)
    BY <1>3, UnlockSound, ForwardSound
  <1> QED
    BY <1>1, <1>2, <1>3 DEF Locked

\* Without it, the task is queued behind its holder.
LEMMA AcquireSound ==
  ASSUME NEW s, WellFormed(s), TaskOK(task), LockOK(lock), NEW t \in Tasks,
         NEW v \in Services, NEW x \in Sessions \cup {None}, up \subseteq Services,
         Acquire(t, v, x, s)
  PROVE  Sound /\ LockOK(lock')
  <1>1. CASE Locked(t, v, x, s)
    BY <1>1, LockedSound
  <1>2. CASE /\ store' = s
             /\ Become(t, At("lock", v, x))
             /\ lock' = [lock EXCEPT ![v] = Append(@, t)]
    <2>1. LockOK(lock')
      BY <1>2 DEF LockOK
    <2> QED
      BY <1>2, <2>1, BecomeAtSound DEF Sound, Awaits
  <1> QED
    BY <1>1, <1>2 DEF Acquire

-----------------------------------------------------------------------------
(* The actions.  Each lemma is one action.                                 *)

\* What every step establishes: IInv of the next state.
SoundStep ==
    /\ Sound
    /\ queue' \in Seq(Sessions)
    /\ LockOK(lock')
    /\ up' \subseteq Services

\* Taking an item: the session is aborted, or its service's lock is asked for.
LEMMA DequeueSound ==
  ASSUME IInv, NEW t \in Workers, Dequeue(t)
  PROVE  SoundStep
  <1> DEFINE x == Head(queue)
             v == ServiceOf[x]
             n == store.queueSize[v] - 1
             s == [store EXCEPT !.queueSize[v] = n]
             a == AbortIfBusy(s, x)
  <1>1. t \in Tasks /\ queue # << >> /\ queue \in Seq(Sessions)
    BY DEF Tasks, Dequeue, IInv
  <1>2. x \in Sessions /\ queue' \in Seq(Sessions) /\ up' \subseteq Services
    BY <1>1 DEF Dequeue, IInv
  <1>3. v \in Services
    BY <1>2, SessionsAssumption
  <1>4. \/ Return(t, Finally(a, v, x)) /\ UNCHANGED lock
        \/ Acquire(t, v, x, a)
    BY DEF Dequeue
  <1> HIDE DEF x, v
  <1>5. n \in Int
    BY <1>3 DEF IInv, WellFormed, Store
  <1> HIDE DEF n
  <1>6. s \in Store /\ s.leases = store.leases /\ s.slots = store.slots
    BY <1>3, <1>5 DEF IInv, WellFormed, Store
  <1> HIDE DEF s
  <1>7. WellFormed(a)
    BY <1>2, <1>6, SameTables, AbortIfBusyWellFormed DEF IInv
  <1> HIDE DEF a
  <1>8. CASE Return(t, Finally(a, v, x)) /\ UNCHANGED lock
    <2>1. WellFormed(Finally(a, v, x))
      BY <1>2, <1>3, <1>7, FinallyWellFormed
    <2> QED
      BY <1>1, <1>2, <1>8, <2>1, ReturnSound DEF SoundStep, IInv
  <1>9. CASE Acquire(t, v, x, a)
    BY <1>1, <1>2, <1>3, <1>7, <1>9, AcquireSound DEF SoundStep, IInv
  <1> QED
    BY <1>4, <1>8, <1>9

\* A candidate is stopped: the service is launched, the wait goes on, or the next
\* candidate is stopped.
LEMMA ReclaimStopsSound ==
  ASSUME IInv, NEW t \in Tasks, NEW v \in Services, NEW x \in Sessions \cup {None},
         ReclaimStops(t, v, x)
  PROVE  SoundStep
  <1> DEFINE r == task[t]
             w == Head(r.todo)
             s == MarkServiceStopped(store, w)
             taken == Append(r.taken, w)
             free == r.free + Usage[w]
             p == [s EXCEPT !.pendingRestore[x] = taken]
             q == [r EXCEPT !.todo = Tail(r.todo), !.taken = taken, !.free = free]
  <1>1. r \in TaskState /\ r.todo # << >>
    BY DEF ReclaimStops, On, IInv, TaskOK
  <1>2. w \in Services /\ Tail(r.todo) \in Seq(Services) /\ taken \in Seq(Services)
    BY <1>1 DEF TaskState
  <1>3. free \in Int
    <2>1. r.free \in Int /\ Usage[w] \in Int
      BY <1>1, <1>2, MemoryAssumption DEF TaskState
    <2> QED
      BY <2>1
  <1>4. WellFormed(s)
    BY <1>2, MarkServiceStoppedWellFormed DEF IInv
  <1>5. /\ queue' \in Seq(Sessions) /\ up' \subseteq Services
        /\ \/ Launch(t, v, x, IF x = None THEN s ELSE p)
           \/ Sleep(t, v, x, s)
           \/ Tail(r.todo) # << >> /\ store' = s /\ UNCHANGED lock /\ Become(t, q)
    BY DEF ReclaimStops, IInv
  <1> HIDE DEF w, s, taken, free
  <1>6. x # None => WellFormed(p)
    BY <1>2, <1>4, PendingRestoreWellFormed
  <1>7. q \in TaskState /\ q.todo = Tail(r.todo)
    BY <1>1, <1>2, <1>3 DEF TaskState
  <1> HIDE DEF r, p, q
  <1>8. CASE Launch(t, v, x, IF x = None THEN s ELSE p)
    <2>1. WellFormed(IF x = None THEN s ELSE p)
      BY <1>4, <1>6
    <2> QED
      BY <1>5, <1>8, <2>1, LaunchSound DEF SoundStep, IInv
  <1>9. CASE Sleep(t, v, x, s)
    BY <1>4, <1>5, <1>9, SleepSound DEF SoundStep, IInv
  <1>10. CASE Tail(r.todo) # << >> /\ store' = s /\ UNCHANGED lock /\ Become(t, q)
    BY <1>4, <1>5, <1>7, <1>10, BecomeSound DEF SoundStep, Sound, IInv
  <1> QED
    BY <1>5, <1>8, <1>9, <1>10

\* The health poll after the start succeeds: the session is forwarded, or the
\* request of the handler is answered.
LEMMA HealthyAfterStartSound ==
  ASSUME IInv, NEW t \in Tasks, NEW v \in Services, NEW x \in Sessions \cup {None},
         HealthyAfterStart(t, v, x)
  PROVE  SoundStep
  <1> DEFINE s == MarkServiceStarted(store, v)
  <1>1. WellFormed(s)
    BY MarkServiceStartedWellFormed DEF IInv
  <1>2. /\ UNCHANGED <<queue, up>> /\ Unlock(t, v)
        /\ IF x = None THEN Return(t, s) ELSE Forward(t, v, x, s)
    BY DEF HealthyAfterStart
  <1> HIDE DEF s
  <1>3. Sound
    BY <1>1, <1>2, ReturnSound, ForwardSound DEF IInv
  <1> QED
    BY <1>2, <1>3, UnlockSound DEF SoundStep, IInv

\* The other sections of a start.
LEMMA StartStepSound ==
  ASSUME IInv, NEW t \in Tasks, NEW v \in Services, NEW x \in Sessions \cup {None},
         StartStep(t, v, x)
  PROVE  SoundStep
  <1>1. CASE LockGranted(t, v, x)
    BY <1>1, LockedSound DEF LockGranted, SoundStep, IInv
  <1>2. CASE ReclaimStops(t, v, x)
    BY <1>2, ReclaimStopsSound
  <1>3. CASE ReclaimStopFails(t, v, x)
    BY <1>3, SleepSound DEF ReclaimStopFails, SoundStep, IInv
  <1>4. CASE CapacityRetry(t, v, x)
    BY <1>4, CapacitySound DEF CapacityRetry, SoundStep, IInv
  <1>5. CASE CapacityTimeout(t, v, x)
    BY <1>5, UnlockSound, RaiseSound DEF CapacityTimeout, SoundStep, IInv
  <1>6. CASE StartSucceeds(t, v, x)
    <2>1. TaskOK(task')
      BY <1>6, BecomeAtSound DEF StartSucceeds, IInv, Awaits
    <2> QED
      BY <1>6, <2>1 DEF StartSucceeds, SoundStep, Sound, IInv
  <1>7. CASE StartFails(t, v, x)
    BY <1>7, UnlockSound, RaiseSound DEF StartFails, SoundStep, IInv
  <1>8. CASE HealthyAfterStart(t, v, x)
    BY <1>8, HealthyAfterStartSound
  <1>9. CASE HealthTimeout(t, v, x)
    BY <1>9, UnlockSound, RaiseSound DEF HealthTimeout, SoundStep, IInv
  <1> QED
    BY <1>1, <1>2, <1>3, <1>4, <1>5, <1>6, <1>7, <1>8, <1>9 DEF StartStep

\* A reply arrives: the session is finished with its result.
LEMMA ForwardReturnsSound ==
  ASSUME IInv, NEW t \in Tasks, NEW v \in Services, NEW x \in Sessions,
         ForwardReturns(t, v, x)
  PROVE  SoundStep
  <1> DEFINE s == [store EXCEPT !.results = @ \cup {x}, !.session[x] = "finished"]
  <1>1. UNCHANGED <<queue, lock, up>> /\ AfterRun(t, v, x, Finally(s, v, x))
    BY DEF ForwardReturns
  <1>2. s \in Store /\ s.leases = store.leases /\ s.slots = store.slots
    BY DEF IInv, WellFormed, Store, SessionStatus
  <1> HIDE DEF s
  <1>3. WellFormed(Finally(s, v, x))
    BY <1>2, SameTables, FinallyWellFormed DEF IInv
  <1> QED
    BY <1>1, <1>3, AfterRunSound DEF SoundStep, IInv

\* A restored service is up; the loop goes on with the next.
LEMMA RestoreHealthySound ==
  ASSUME IInv, NEW t \in Tasks, NEW v \in Services, NEW x \in Sessions,
         RestoreHealthy(t, v, x)
  PROVE  SoundStep
  <1> DEFINE todo == task[t].todo
             w == Head(todo)
             s == MarkServiceStarted(store, w)
  <1>1. todo \in Seq(Services) /\ todo # << >>
    BY DEF RestoreHealthy, On, IInv, TaskOK, TaskState
  <1>2. w \in Services /\ Tail(todo) \in Seq(Services)
    BY <1>1
  <1>3. UNCHANGED <<queue, lock, up>> /\ RestoreNext(t, v, x, s, Tail(todo))
    BY DEF RestoreHealthy
  <1>4. WellFormed(s)
    BY <1>2, MarkServiceStartedWellFormed DEF IInv
  <1> HIDE DEF todo, s
  <1> QED
    BY <1>2, <1>3, <1>4, RestoreNextSound DEF SoundStep, IInv

\* The sections of a run after the start.
LEMMA RunStepSound ==
  ASSUME IInv, NEW t \in Tasks, NEW v \in Services, NEW x \in Sessions,
         RunStep(t, v, x)
  PROVE  SoundStep
  <1>1. CASE ForwardReturns(t, v, x)
    BY <1>1, ForwardReturnsSound
  <1>2. CASE ForwardFails(t, v, x)
    BY <1>2, RaiseSound DEF ForwardFails, SoundStep, IInv
  <1>3. CASE OnceStops(t, v, x)
    <2>1. WellFormed(MarkServiceStopped(store, v))
      BY MarkServiceStoppedWellFormed DEF IInv
    <2> QED
      BY <1>3, <2>1, RestoreSound DEF OnceStops, SoundStep, IInv
  <1>4. CASE OnceStopFails(t, v, x)
    <2>1. TaskOK(task')
      BY <1>4, BecomeAtSound DEF OnceStopFails, IInv, Awaits
    <2> QED
      BY <1>4, <2>1 DEF OnceStopFails, SoundStep, Sound, IInv
  <1>5. CASE RestoreStarts(t, v, x)
    <2> DEFINE r == [task[t] EXCEPT !.pc = "restore_health"]
    <2>1. task[t] \in TaskState /\ task[t].todo # << >>
      BY <1>5 DEF RestoreStarts, On, IInv, TaskOK
    <2>2. r \in TaskState /\ r.todo # << >>
      BY <2>1 DEF TaskState, Awaits
    <2>3. Become(t, r) /\ UNCHANGED <<store, queue, lock>>
      BY <1>5 DEF RestoreStarts
    <2>4. TaskOK(task')
      BY <2>2, <2>3, BecomeSound DEF IInv
    <2>5. Head(task[t].todo) \in Services
      BY <2>1 DEF TaskState
    <2> QED
      BY <1>5, <2>3, <2>4, <2>5 DEF RestoreStarts, SoundStep, Sound, IInv
  <1>6. CASE RestoreHealthy(t, v, x)
    BY <1>6, RestoreHealthySound
  <1>7. CASE RestoreFails(t, v, x)
    <2>1. TaskOK(task')
      BY <1>7, BecomeAtSound DEF RestoreFails, IInv, Awaits
    <2> QED
      BY <1>7, <2>1 DEF RestoreFails, SoundStep, Sound, IInv
  <1> QED
    BY <1>1, <1>2, <1>3, <1>4, <1>5, <1>6, <1>7 DEF RunStep

\* An answer arrives.
LEMMA AnswerSound ==
  ASSUME IInv, NEW t \in Tasks, Answer(t)
  PROVE  SoundStep
  BY AnswerAlike DEF SoundStep, Sound, IInv

\* Every step of a worker.
LEMMA WorkerStepSound ==
  ASSUME IInv, NEW t \in Workers, WorkerStep(t)
  PROVE  SoundStep
  <1>1. t \in Tasks
    BY DEF Tasks
  <1>2. CASE Dequeue(t)
    BY <1>2, DequeueSound
  <1>3. ASSUME NEW v \in Services, NEW x \in Sessions, StartStep(t, v, x) \/ RunStep(t, v, x)
        PROVE  SoundStep
    BY <1>1, <1>3, StartStepSound, RunStepSound
  <1>4. CASE Answer(t)
    BY <1>1, <1>4, AnswerSound
  <1> QED
    BY <1>2, <1>3, <1>4 DEF WorkerStep

\* A probe answers: the status is idle, or external while a lease is active.
LEMMA ProbeHealthySound ==
  ASSUME IInv, NEW h \in Tasks, NEW v \in Services, ProbeHealthy(h, v)
  PROVE  SoundStep
  <1> DEFINE r == RefreshActivity(store, {v})
             shown == IF HasLease(r, v) THEN "external" ELSE "idle"
             f == [r EXCEPT !.status[v] = shown]
  <1>1. WellFormed(r) /\ WellFormed(MarkServiceStarted(store, v))
    BY RefreshActivityWellFormed, MarkServiceStartedWellFormed DEF IInv
  <1>2. /\ UNCHANGED <<queue, lock, up>>
        /\ Return(h, MarkServiceStarted(store, v)) \/ Return(h, f)
    BY DEF ProbeHealthy
  <1> HIDE DEF r
  <1>3. shown \in ServiceStatus
    BY DEF ServiceStatus
  <1> HIDE DEF shown
  <1>4. f \in Store /\ f.leases = r.leases /\ f.slots = r.slots
    BY <1>1, <1>3 DEF WellFormed, Store
  <1> HIDE DEF f
  <1>5. WellFormed(f)
    BY <1>1, <1>4, SameTables
  <1>6. Sound
    BY <1>1, <1>2, <1>5, ReturnSound DEF IInv
  <1> QED
    BY <1>2, <1>6 DEF SoundStep, IInv

\* Every step of an HTTP handler that has begun.
LEMMA HandlerStepSound ==
  ASSUME IInv, NEW h \in Handlers, HandlerStep(h)
  PROVE  SoundStep
  <1>1. h \in Tasks
    BY DEF Tasks
  <1>8. CASE Answer(h)
    BY <1>1, <1>8, AnswerSound
  <1>9. SUFFICES ASSUME ~Answer(h) PROVE SoundStep
    BY <1>8
  <1>2. PICK v \in Services :
          \/ StartStep(h, v, None)
          \/ StopReturns(h, v) \/ StopFails(h, v)
          \/ ProbeHealthy(h, v) \/ ProbeTimeout(h, v)
    BY <1>9 DEF HandlerStep
  <1>3. CASE StartStep(h, v, None)
    BY <1>1, <1>3, StartStepSound
  <1>4. CASE StopReturns(h, v)
    <2>1. WellFormed(MarkServiceStopped(store, v))
      BY MarkServiceStoppedWellFormed DEF IInv
    <2> QED
      BY <1>1, <1>4, <2>1, ReturnSound DEF StopReturns, SoundStep, IInv
  <1>5. CASE StopFails(h, v)
    BY <1>1, <1>5, ReturnSound DEF StopFails, SoundStep, IInv
  <1>6. CASE ProbeHealthy(h, v)
    BY <1>1, <1>6, ProbeHealthySound
  <1>7. CASE ProbeTimeout(h, v)
    BY <1>1, <1>7, ReturnSound DEF ProbeTimeout, SoundStep, IInv
  <1> QED
    BY <1>2, <1>3, <1>4, <1>5, <1>6, <1>7

\* A submission that is accepted makes a session and puts it in the queue.
LEMMA SubmitSound ==
  ASSUME IInv, NEW x \in Sessions, Submit(x)
  PROVE  SoundStep
  <1> DEFINE p == PruneReservedSlots(store)
  <1>1. WellFormed(p)
    BY PruneReservedSlotsWellFormed DEF IInv
  <1>2. WellFormed(CreateSession(p, x))
    BY <1>1, CreateSessionWellFormed
  <1>3. /\ UNCHANGED <<task, lock, up>>
        /\ \/ store' = CreateSession(p, x) /\ queue' = Append(queue, x)
           \/ store' = p /\ UNCHANGED queue
    BY DEF Submit
  <1> QED
    BY <1>1, <1>2, <1>3 DEF SoundStep, Sound, IInv

\* A stop request is refused, or its command runs while the service shows stopping.
LEMMA StopServiceSound ==
  ASSUME IInv, NEW h \in Tasks, NEW v \in Services, StopService(h, v)
  PROVE  SoundStep
  <1> DEFINE r == RefreshActivity(store, {v})
             f == [r EXCEPT !.status[v] = "stopping"]
  <1>1. WellFormed(r)
    BY RefreshActivityWellFormed DEF IInv
  <1>2. /\ UNCHANGED <<queue, lock, up>>
        /\ \/ store' = r /\ UNCHANGED task
           \/ store' = f /\ Become(h, At("stop", v, None))
    BY DEF StopService
  <1> HIDE DEF r
  <1>3. f \in Store /\ f.leases = r.leases /\ f.slots = r.slots
    BY <1>1 DEF WellFormed, Store, ServiceStatus
  <1> HIDE DEF f
  <1>4. WellFormed(f)
    BY <1>1, <1>3, SameTables
  <1>5. TaskOK(task')
    BY <1>2, BecomeAtSound DEF IInv, Awaits
  <1> QED
    BY <1>1, <1>2, <1>4, <1>5 DEF SoundStep, Sound, IInv

\* Every new request.
LEMMA RequestSound ==
  ASSUME IInv, Request
  PROVE  SoundStep
  <1>1. ASSUME NEW x \in Sessions, Submit(x)
        PROVE  SoundStep
    BY <1>1, SubmitSound
  <1>2. ASSUME NEW h \in Handlers, NEW v \in Services,
               StartService(h, v) \/ StopService(h, v) \/ Healthcheck(h, v)
        PROVE  SoundStep
    <2>1. h \in Tasks
      BY DEF Tasks
    <2>2. CASE StartService(h, v)
      BY <2>1, <2>2, AcquireSound DEF StartService, SoundStep, IInv
    <2>3. CASE StopService(h, v)
      BY <2>1, <2>3, StopServiceSound
    <2>4. CASE Healthcheck(h, v)
      <3>1. TaskOK(task')
        BY <2>1, <2>4, BecomeAtSound DEF Healthcheck, IInv, Awaits
      <3> QED
        BY <2>4, <3>1 DEF Healthcheck, SoundStep, Sound, IInv
    <2> QED
      BY <1>2, <2>2, <2>3, <2>4
  <1>3. ASSUME NEW k \in LeaseKeys, ReleaseLease(k)
        PROVE  SoundStep
    BY <1>3, ReleaseExternalLeaseWellFormed DEF ReleaseLease, SoundStep, Sound, IInv
  <1>4. ASSUME NEW k \in LeaseKeys, NEW ttl \in 1 .. MaxTtl, NEW reserve \in BOOLEAN,
               TouchLease(k, ttl, reserve)
        PROVE  SoundStep
    BY <1>4, TouchExternalLeaseWellFormed DEF TouchLease, SoundStep, Sound, IInv
  <1>5. ASSUME NEW old \in SUBSET Expirable(store), Cleanup(old)
        PROVE  SoundStep
    <2>1. old \in SUBSET Sessions
      BY DEF Expirable
    <2> QED
      BY <1>5, <2>1, CleanupExpiredWellFormed DEF Cleanup, SoundStep, Sound, IInv
  <1> QED
    BY <1>1, <1>2, <1>3, <1>4, <1>5 DEF Request

-----------------------------------------------------------------------------
(* The inductive invariant and what follows from it.                       *)

\* The hub as reconciliation leaves it satisfies the invariant.
LEMMA InitIInv == Init => IInv
  <1> SUFFICES ASSUME Init PROVE IInv
    OBVIOUS
  <1>1. PICK healthy \in SUBSET up : up \in SUBSET Services /\ store = InitialStore(healthy)
    BY DEF Init
  <1>2. WellFormed(store)
    BY <1>1, InitialStoreWellFormed
  <1>3. Idle \in TaskState /\ Idle.pc = "idle"
    BY AtType DEF Idle, At, Awaits
  <1> QED
    BY <1>1, <1>2, <1>3 DEF Init, IInv, TaskOK, LockOK

\* Every step keeps it.
LEMMA NextIInv == IInv /\ [Next]_vars => IInv'
  <1> SUFFICES ASSUME IInv, [Next]_vars PROVE IInv'
    OBVIOUS
  <1>1. CASE UNCHANGED vars
    BY <1>1 DEF vars, IInv, WellFormed, Backed, Within, TaskOK, LockOK
  <1>2. SoundStep => IInv'
    BY DEF SoundStep, Sound, IInv
  <1>3. CASE Next
    <2>1. ASSUME NEW t \in Workers, WorkerStep(t)
          PROVE  SoundStep
      BY <2>1, WorkerStepSound
    <2>2. ASSUME NEW h \in Handlers, HandlerStep(h)
          PROVE  SoundStep
      BY <2>2, HandlerStepSound
    <2>3. Request => SoundStep
      BY RequestSound
    <2>4. Environment => SoundStep
      BY ElapseWellFormed DEF Environment, Tick, Crash, SoundStep, Sound, IInv
    <2> QED
      BY <1>2, <1>3, <2>1, <2>2, <2>3, <2>4 DEF Next
  <1> QED
    BY <1>1, <1>3

\* The invariant holds throughout.
THEOREM InvariantHolds == Spec => []IInv
  BY InitIInv, NextIInv, PTL DEF Spec

\* Every variable has its type at every moment: no counter of active or inflight
\* requests goes below zero, whatever is aborted, stopped or fails.
THEOREM TypeCorrect == Spec => []TypeOK
  <1>1. IInv => TypeOK
    BY DEF IInv, TypeOK, WellFormed, TaskOK, LockOK
  <1> QED
    BY <1>1, InvariantHolds, PTL

\* A reserved device slot always belongs to a lease and expires with it.
THEOREM SlotsBackedHolds == Spec => []SlotsBacked
  <1>1. IInv => SlotsBacked
    BY DEF IInv, SlotsBacked, WellFormed, Backed
  <1> QED
    BY <1>1, InvariantHolds, PTL

\* Leases never reserve more slots than the device has.
THEOREM SlotsWithinDeviceHolds == Spec => []SlotsWithinDevice
  <1>1. IInv => SlotsWithinDevice
    BY DEF IInv, SlotsWithinDevice, WellFormed, Within
  <1> QED
    BY <1>1, InvariantHolds, PTL

-----------------------------------------------------------------------------
(* Sessions, results, restores and live slots.                             *)

\* A slot that has not run out is kept as it is.
KeepsSlots(s, r) == \A k \in LeaseKeys : s.slots[k] > 0 => r.slots[k] = s.slots[k]

\* Nothing of the sessions has changed.
Still(s, r) ==
    /\ r.session = s.session /\ r.results = s.results /\ r.queueSize = s.queueSize
    /\ r.pendingRestore = s.pendingRestore /\ KeepsSlots(s, r)

-----------------------------------------------------------------------------
(* The store's operations that leave the sessions.                         *)

\* They compose.
LEMMA StillTrans ==
  ASSUME NEW s, NEW r, NEW q, Still(s, r), Still(r, q)
  PROVE  Still(s, q)
  BY DEF Still, KeepsSlots

\* Refreshing drops only leases that have run out, and their slots with them.
LEMMA RefreshActivityStill ==
  ASSUME NEW s, WellFormed(s), NEW V
  PROVE  Still(s, RefreshActivity(s, V))
  <1> DEFINE stale == {k \in V \X Leases : s.leases[k] = 0}
             r == RefreshActivity(s, V)
  <1>1. /\ r.session = s.session /\ r.results = s.results /\ r.queueSize = s.queueSize
        /\ r.pendingRestore = s.pendingRestore
        /\ r.slots = [k \in LeaseKeys |-> IF k \in stale THEN Absent ELSE s.slots[k]]
    BY DEF RefreshActivity, WellFormed, Store
  <1>2. ASSUME NEW k \in LeaseKeys, s.slots[k] > 0
        PROVE  k \notin stale
    <2>1. s.leases[k] = s.slots[k]
      BY <1>2 DEF WellFormed, Backed, Holds, Absent
    <2> QED
      BY <1>2, <2>1
  <1> HIDE DEF r, stale
  <1>3. KeepsSlots(s, r)
    BY <1>1, <1>2 DEF KeepsSlots
  <1> QED
    BY <1>1, <1>3 DEF Still, r

\* Pruning drops only slots that have run out.
LEMMA PruneReservedSlotsStill ==
  ASSUME NEW s, WellFormed(s)
  PROVE  Still(s, PruneReservedSlots(s))
  BY DEF PruneReservedSlots, DropExpired, Still, KeepsSlots, WellFormed, Store

\* The marks of a service touch no session.
LEMMA MarksStill ==
  ASSUME NEW s, WellFormed(s), NEW v
  PROVE  Still(s, MarkServiceStarted(s, v)) /\ Still(s, MarkServiceStopped(s, v))
  BY DEF MarkServiceStarted, MarkServiceStopped, Still, KeepsSlots, WellFormed, Store

\* Nor does the finally block.
LEMMA FinallyStill ==
  ASSUME NEW s, WellFormed(s), NEW v \in Services, NEW x
  PROVE  Still(s, Finally(s, v, x))
  <1> DEFINE n == IF s.inflight[v] > 0 THEN s.inflight[v] - 1 ELSE s.inflight[v]
             m == IF s.active > 0 THEN s.active - 1 ELSE s.active
             d == [s EXCEPT !.inflight[v] = n, !.active = m]
             c == [d EXCEPT !.activeSession[v] = None]
             e == [c EXCEPT !.status[v] = "error"]
             r == RefreshActivity(c, {v})
             shown == IF HasLease(r, v) THEN "external" ELSE "idle"
             f == [r EXCEPT !.status[v] = shown]
  <1>1. Finally(s, v, x) \in {d, e, f}
    BY DEF Finally
  <1>2. n \in Nat /\ m \in Nat
    <2>1. s.inflight[v] \in Nat /\ s.active \in Nat
      BY DEF WellFormed, Store
    <2> QED
      BY <2>1
  <1> HIDE DEF n, m
  <1>3. d \in Store /\ Still(s, d) /\ d.leases = s.leases /\ d.slots = s.slots
    BY <1>2 DEF WellFormed, Store, Still, KeepsSlots
  <1> HIDE DEF d
  <1>4. c \in Store /\ Still(d, c) /\ c.leases = s.leases /\ c.slots = s.slots
    BY <1>3 DEF Store, Still, KeepsSlots
  <1> HIDE DEF c
  <1>5. Still(c, e)
    BY <1>4 DEF Store, Still, KeepsSlots
  <1>6. WellFormed(c)
    BY <1>4, SameTables
  <1>7. Still(c, r) /\ WellFormed(r)
    BY <1>6, RefreshActivityStill, RefreshActivityWellFormed
  <1> HIDE DEF r, shown
  <1>8. Still(r, f)
    BY <1>7 DEF Still, KeepsSlots, WellFormed, Store
  <1> HIDE DEF e, f
  <1> QED
    BY <1>1, <1>3, <1>4, <1>5, <1>7, <1>8, StillTrans

-----------------------------------------------------------------------------
(* The ends of a section.                                                  *)

\* Of all tasks only t moves.
OnlyMoves(t) == \A u \in Tasks \ {t} : task'[u] = task[u]

\* t stops at one of the awaits P, with its service and its session.
Stops(t, P, v, x) ==
    task'[t].pc \in P /\ task'[t].service = v /\ task'[t].session = x

Waits == {"lock", "reclaim", "sleep"}

\* The run of x has ended: what was reclaimed for it is forgotten when the restoring
\* begins, which a ONCE service's run always comes to.
Ended(t, v, x, s) ==
    /\ OnlyMoves(t)
    /\ store'.session = s.session /\ store'.results = s.results
    /\ store'.queueSize = s.queueSize /\ KeepsSlots(s, store')
    /\ \/ /\ task'[t] = Idle \/ Stops(t, {"restore_start", "dead"}, v, x)
          /\ store'.pendingRestore = [s.pendingRestore EXCEPT ![x] = << >>]
       \/ /\ (task'[t] = Idle /\ v \notin Once) \/ Stops(t, {"once_stop"}, v, x)
          /\ store'.pendingRestore = s.pendingRestore

\* A worker's section short of that: it waits, starts the service, forwards the
\* session or has failed it.
Worked(t, v, x, s) ==
    \/ /\ OnlyMoves(t)
       /\ store'.results = s.results /\ store'.queueSize = s.queueSize
       /\ KeepsSlots(s, store') /\ store'.pendingRestore = s.pendingRestore
       /\ \/ Stops(t, Waits, v, x) /\ store'.session = s.session
          \/ Stops(t, {"start"}, v, x) /\ store'.session = [s.session EXCEPT ![x] = "starting"]
          \/ Stops(t, {"forward"}, v, x) /\ store'.session = [s.session EXCEPT ![x] = "processing"]
          \/ /\ task'[t] = Idle /\ s.session[x] = "queued"
             /\ store'.session = [s.session EXCEPT ![x] = "failed"]
    \/ Ended(t, v, x, [s EXCEPT !.session[x] = "failed"])

\* A handler's section leaves the sessions.
Handled(t, s) == OnlyMoves(t) /\ task'[t].session = None /\ Still(s, store')

Outcome(t, v, x, s) == IF x = None THEN Handled(t, s) ELSE Worked(t, v, x, s)

\* Where a task goes, the others do not.
LEMMA BecomeMoves ==
  ASSUME TaskOK(task), NEW t \in Tasks, NEW r, Become(t, r)
  PROVE  task'[t] = r /\ OnlyMoves(t)
  BY DEF TaskOK, Become, OnlyMoves

\* At, in the terms used here.
LEMMA AtStops ==
  ASSUME TaskOK(task), NEW t \in Tasks, NEW pc, NEW v, NEW x, Become(t, At(pc, v, x))
  PROVE  OnlyMoves(t) /\ Stops(t, {pc}, v, x)
  BY BecomeMoves DEF At, Stops

\* A request that is answered.
LEMMA ReturnHandled ==
  ASSUME TaskOK(task), NEW t \in Tasks, NEW s, Return(t, s)
  PROVE  Handled(t, s) /\ OnlyMoves(t) /\ task'[t] = Idle /\ store' = s
  BY BecomeMoves DEF Return, Handled, Idle, At, Still, KeepsSlots

-----------------------------------------------------------------------------
(* The sections, from the ones that end to the ones that begin.            *)

\* The loop over what to restore.
LEMMA RestoreNextStops ==
  ASSUME TaskOK(task), NEW t \in Tasks, NEW v, NEW x, NEW s, NEW todo,
         RestoreNext(t, v, x, s, todo)
  PROVE  /\ store' = s /\ OnlyMoves(t)
         /\ task'[t] = Idle \/ Stops(t, {"restore_start", "dead"}, v, x)
  <1> DEFINE r == [At("restore_start", v, x) EXCEPT !.todo = todo]
  <1>1. r.pc = "restore_start" /\ r.service = v /\ r.session = x
    BY DEF At
  <1>2. store' = s /\ (Become(t, At("dead", v, x)) \/ Become(t, Idle) \/ Become(t, r))
    BY DEF RestoreNext
  <1> HIDE DEF r
  <1>3. CASE Become(t, At("dead", v, x))
    BY <1>2, <1>3, AtStops DEF Stops
  <1>4. CASE Become(t, Idle)
    BY <1>2, <1>4, BecomeMoves
  <1>5. CASE Become(t, r)
    BY <1>1, <1>2, <1>5, BecomeMoves DEF Stops
  <1> QED
    BY <1>2, <1>3, <1>4, <1>5

\* It begins by forgetting what the session reclaimed.
LEMMA RestoreEnds ==
  ASSUME TaskOK(task), NEW t \in Tasks, NEW v, NEW x \in Sessions, NEW s, WellFormed(s),
         Restore(t, v, x, s)
  PROVE  Ended(t, v, x, s)
  <1> DEFINE p == [s EXCEPT !.pendingRestore[x] = << >>]
  <1>1. /\ p.session = s.session /\ p.results = s.results /\ p.queueSize = s.queueSize
        /\ p.slots = s.slots /\ p.pendingRestore = [s.pendingRestore EXCEPT ![x] = << >>]
    BY DEF WellFormed, Store
  <1>2. PICK todo : RestoreNext(t, v, x, p, todo)
    BY DEF Restore
  <1> HIDE DEF p
  <1> QED
    BY <1>1, <1>2, RestoreNextStops DEF Ended, KeepsSlots

\* What follows the try statement,
LEMMA AfterRunEnds ==
  ASSUME TaskOK(task), NEW t \in Tasks, NEW v \in Services, NEW x \in Sessions,
         NEW s, WellFormed(s), AfterRun(t, v, x, s)
  PROVE  Ended(t, v, x, s)
  <1> DEFINE r == RefreshActivity(s, {v})
  <1>1. WellFormed(r) /\ Still(s, r)
    BY RefreshActivityWellFormed, RefreshActivityStill
  <1> HIDE DEF r
  <1>2. CASE v \notin Once /\ Return(t, s)
    BY <1>2, ReturnHandled DEF Ended, KeepsSlots
  <1>3. CASE Restore(t, v, x, r)
    <2>1. Ended(t, v, x, r)
      BY <1>1, <1>3, RestoreEnds
    <2> QED
      BY <1>1, <2>1 DEF Ended, Still, KeepsSlots
  <1>4. CASE store' = r /\ Become(t, At("once_stop", v, x))
    BY <1>1, <1>4, AtStops DEF Ended, Still
  <1> QED
    BY <1>2, <1>3, <1>4 DEF AfterRun, r

\* also when the finally block came first,
LEMMA FinallyEnds ==
  ASSUME TaskOK(task), NEW t \in Tasks, NEW v \in Services, NEW x \in Sessions,
         NEW s, WellFormed(s), AfterRun(t, v, x, Finally(s, v, x))
  PROVE  Ended(t, v, x, s)
  <1> DEFINE f == Finally(s, v, x)
  <1>1. WellFormed(f) /\ Still(s, f)
    BY FinallyWellFormed, FinallyStill
  <1> HIDE DEF f
  <1>2. Ended(t, v, x, f)
    BY <1>1, AfterRunEnds DEF f
  <1> QED
    BY <1>1, <1>2 DEF Ended, Still, KeepsSlots

\* as after an exception, which has failed the session.
LEMMA RaiseOutcome ==
  ASSUME TaskOK(task), NEW t \in Tasks, NEW v \in Services, NEW x \in Sessions \cup {None},
         NEW s, WellFormed(s), Raise(t, v, x, s)
  PROVE  Outcome(t, v, x, s)
  <1>1. CASE x = None
    BY <1>1, ReturnHandled DEF Raise, Outcome
  <1>2. CASE x # None
    <2> DEFINE f == [s EXCEPT !.session[x] = "failed"]
    <2>1. x \in Sessions
      BY <1>2
    <2>2. f \in Store /\ f.leases = s.leases /\ f.slots = s.slots
      BY <2>1 DEF WellFormed, Store, SessionStatus
    <2>3. AfterRun(t, v, x, Finally(f, v, x))
      BY <1>2 DEF Raise
    <2> HIDE DEF f
    <2>4. Ended(t, v, x, f)
      BY <2>1, <2>2, <2>3, SameTables, FinallyEnds
    <2> QED
      BY <1>2, <2>4 DEF Outcome, Worked, f
  <1> QED
    BY <1>1, <1>2

\* The second abort check forwards the session or fails it, if it was still queued.
LEMMA ForwardWorked ==
  ASSUME TaskOK(task), NEW t \in Tasks, NEW v \in Services, NEW x \in Sessions,
         NEW s, WellFormed(s), Forward(t, v, x, s)
  PROVE  Worked(t, v, x, s) /\ task'[t].pc \notin Waits \cup {"start"}
  <1> DEFINE p == PruneReservedSlots(s)
             a == AbortIfBusy(s, x)
             g == [p EXCEPT !.session[x] = "failed"]
             n == a.inflight[v] + 1
             m == a.active + 1
             f == [a EXCEPT !.inflight[v] = n, !.activeSession[v] = x,
                            !.status[v] = "processing", !.active = m,
                            !.session[x] = "processing"]
  <1>1. WellFormed(p) /\ Still(s, p) /\ WellFormed(a)
    BY PruneReservedSlotsWellFormed, PruneReservedSlotsStill, AbortIfBusyWellFormed
  <1>2. IF Aborts(s, x) THEN s.session[x] = "queued" /\ a = g ELSE a \in {s, p}
    BY DEF AbortIfBusy, Aborts
  <1>3. IF Aborts(s, x) THEN Return(t, Finally(a, v, x))
        ELSE store' = f /\ Become(t, At("forward", v, x))
    BY DEF Forward
  <1> HIDE DEF p, a
  <1>4. CASE Aborts(s, x)
    <2>1. /\ g.session = [s.session EXCEPT ![x] = "failed"] /\ g.results = s.results
          /\ g.queueSize = s.queueSize /\ g.pendingRestore = s.pendingRestore
          /\ KeepsSlots(s, g)
      BY <1>1 DEF Still, KeepsSlots, WellFormed, Store
    <2> HIDE DEF g
    <2>2. Still(a, Finally(a, v, x))
      BY <1>1, FinallyStill
    <2>3. task'[t] = Idle /\ OnlyMoves(t) /\ store' = Finally(a, v, x)
      BY <1>3, <1>4, ReturnHandled
    <2> QED
      BY <1>2, <1>4, <2>1, <2>2, <2>3 DEF Worked, Still, KeepsSlots, Idle, At, Waits
  <1>5. CASE ~Aborts(s, x)
    <2>1. Still(s, a)
      BY <1>1, <1>2, <1>5 DEF Still, KeepsSlots
    <2>2. OnlyMoves(t) /\ Stops(t, {"forward"}, v, x)
      BY <1>3, <1>5, AtStops
    <2>3. /\ f.session = [a.session EXCEPT ![x] = "processing"] /\ f.results = a.results
          /\ f.queueSize = a.queueSize /\ f.pendingRestore = a.pendingRestore
          /\ f.slots = a.slots
      BY <1>1 DEF WellFormed, Store
    <2> HIDE DEF f
    <2> QED
      BY <1>3, <1>5, <2>1, <2>2, <2>3 DEF Worked, Still, KeepsSlots, Stops, Waits
  <1> QED
    BY <1>4, <1>5

\* A task that waits at v for its session has left the sessions.
LEMMA WaitOutcome ==
  ASSUME NEW t \in Tasks, NEW v, NEW x \in Sessions \cup {None}, NEW s,
         OnlyMoves(t), Stops(t, Waits, v, x), Still(s, store')
  PROVE  Outcome(t, v, x, s)
  BY DEF Outcome, Handled, Worked, Stops, Still

\* A start command is issued.
LEMMA LaunchOutcome ==
  ASSUME TaskOK(task), NEW t \in Tasks, NEW v \in Services, NEW x \in Sessions \cup {None},
         NEW s, WellFormed(s), Launch(t, v, x, s)
  PROVE  Outcome(t, v, x, s)
  <1> DEFINE f == [s EXCEPT !.status[v] = "starting"]
             g == [s EXCEPT !.status[v] = "starting", !.session[x] = "starting"]
  <1>1. OnlyMoves(t) /\ Stops(t, {"start"}, v, x)
    BY AtStops DEF Launch
  <1>2. store' = IF x = None THEN f ELSE g
    BY DEF Launch
  <1>3. Still(s, f)
    BY DEF Still, KeepsSlots, WellFormed, Store
  <1>4. /\ g.session = [s.session EXCEPT ![x] = "starting"] /\ g.results = s.results
        /\ g.queueSize = s.queueSize /\ g.pendingRestore = s.pendingRestore
        /\ KeepsSlots(s, g)
    BY DEF KeepsSlots, WellFormed, Store
  <1> HIDE DEF f, g
  <1> QED
    BY <1>1, <1>2, <1>3, <1>4 DEF Outcome, Handled, Worked, Stops

\* A wait for memory sleeps.
LEMMA SleepOutcome ==
  ASSUME TaskOK(task), NEW t \in Tasks, NEW v, NEW x \in Sessions \cup {None},
         NEW s, NEW r, Still(s, r), Sleep(t, v, x, r)
  PROVE  Outcome(t, v, x, s)
  <1>1. OnlyMoves(t) /\ Stops(t, Waits, v, x)
    BY AtStops DEF Sleep, Stops, Waits
  <1> QED
    BY <1>1, WaitOutcome DEF Sleep

\* A round of the wait.
LEMMA CapacityOutcome ==
  ASSUME TaskOK(task), NEW t \in Tasks, NEW v \in Services, NEW x \in Sessions \cup {None},
         NEW s, WellFormed(s), Capacity(t, v, x, s)
  PROVE  Outcome(t, v, x, s)
  <1> DEFINE r == RefreshActivity(s, Inspected(s, v))
  <1>1. Still(s, r)
    BY RefreshActivityStill
  <1> HIDE DEF r
  <1>2. CASE Raise(t, v, x, s)
    BY <1>2, RaiseOutcome
  <1>3. CASE Launch(t, v, x, s)
    BY <1>3, LaunchOutcome
  <1>4. CASE Sleep(t, v, x, r)
    BY <1>1, <1>4, SleepOutcome
  <1>5. ASSUME NEW o, store' = r,
               Become(t, [At("reclaim", v, x) EXCEPT !.todo = o, !.free = Free[up]])
        PROVE  Outcome(t, v, x, s)
    <2> DEFINE q == [At("reclaim", v, x) EXCEPT !.todo = o, !.free = Free[up]]
    <2>1. q.pc \in Waits /\ q.service = v /\ q.session = x
      BY DEF At, Waits
    <2>2. Become(t, q)
      BY <1>5
    <2> HIDE DEF q
    <2>3. OnlyMoves(t) /\ Stops(t, Waits, v, x)
      BY <2>1, <2>2, BecomeMoves DEF Stops
    <2> QED
      BY <1>1, <1>5, <2>3, WaitOutcome
  <1> QED
    BY <1>2, <1>3, <1>4, <1>5 DEF Capacity, r

\* What a task does with the lock,
LEMMA LockedOutcome ==
  ASSUME TaskOK(task), NEW t \in Tasks, NEW v \in Services, NEW x \in Sessions \cup {None},
         NEW s, WellFormed(s), Locked(t, v, x, s)
  PROVE  Outcome(t, v, x, s)
  <1>1. CASE Capacity(t, v, x, s)
    BY <1>1, CapacityOutcome
  <1>2. CASE x = None /\ Return(t, s)
    BY <1>2, ReturnHandled DEF Outcome
  <1>3. CASE x # None /\ Forward(t, v, x, s)
    BY <1>3, ForwardWorked DEF Outcome
  <1> QED
    BY <1>1, <1>2, <1>3 DEF Locked

\* and when it asks for it.
LEMMA AcquireOutcome ==
  ASSUME TaskOK(task), NEW t \in Tasks, NEW v \in Services, NEW x \in Sessions \cup {None},
         NEW s, WellFormed(s), Acquire(t, v, x, s)
  PROVE  Outcome(t, v, x, s)
  <1>1. CASE Locked(t, v, x, s)
    BY <1>1, LockedOutcome
  <1>2. CASE store' = s /\ Become(t, At("lock", v, x))
    <2>1. OnlyMoves(t) /\ Stops(t, Waits, v, x)
      BY <1>2, AtStops DEF Stops, Waits
    <2> QED
      BY <1>2, <2>1, WaitOutcome DEF Still, KeepsSlots
  <1> QED
    BY <1>1, <1>2 DEF Acquire

-----------------------------------------------------------------------------
(* The invariant of the sessions and their owners.                         *)

Unserved == {"queued", "failed", "expired"}

\* Where a worker's session is, given the await the worker stops at.  A lease may
\* have failed a session that waits, and the cleanup have expired it.
InPlace(r, session) ==
    \/ r.pc = "idle" /\ r.session = None
    \/ /\ r.session \in Sessions /\ r.service = ServiceOf[r.session]
       /\ \/ r.pc \in Waits /\ session[r.session] \in Unserved
          \/ r.pc \in {"start", "health"} /\ session[r.session] = "starting"
          \/ r.pc = "forward" /\ session[r.session] = "processing"
          \/ /\ r.pc \in {"once_stop", "restore_start", "restore_health", "dead"}
             /\ session[r.session] \in Terminal

WorkersInPlace == \A t \in Workers : InPlace(task[t], store.session)

HandlersFree == \A h \in Handlers : task[h].session = None

\* No session has two owners.
Exclusive ==
    /\ \A t, u \in Workers : task[t].session = task[u].session /\ task[t].session # None => t = u
    /\ \A i, j \in DOMAIN queue : queue[i] = queue[j] => i = j
    /\ \A i \in DOMAIN queue :
        /\ store.session[queue[i]] \in Unserved
        /\ \A t \in Workers : task[t].session # queue[i]

HeldAt(x, P) == \E t \in Workers : task[t].session = x /\ task[t].pc \in P

\* A session in progress has one.
Served ==
    \A x \in Sessions :
        /\ store.session[x] = "queued" => Waiting(x) \/ HeldAt(x, Waits)
        /\ store.session[x] = "starting" => HeldAt(x, {"start", "health"})
        /\ store.session[x] = "processing" => HeldAt(x, {"forward"})

\* What was reclaimed for a session is remembered only once it has started and, of
\* a ONCE service, only until its worker comes to restore it.
Remembered ==
    \A x \in Sessions :
        store.pendingRestore[x] # << >> =>
            /\ store.session[x] \notin {"unsubmitted", "queued"}
            /\ \/ ServiceOf[x] \notin Once
               \/ HeldAt(x, Awaits \ {"restore_start", "restore_health"})

WorkInv ==
    /\ WorkersInPlace /\ HandlersFree /\ Exclusive /\ Served /\ Remembered
    /\ ResultIffFinished

\* t is the only owner of x from now on: x was t's, or t has taken it from the queue.
Takes(t, x) ==
    /\ task[t].session \in {x, None}
    /\ \A u \in Workers \ {t} : task[u].session # x
    /\ \A i, j \in DOMAIN queue' : queue'[i] = queue'[j] => i = j
    /\ \A i \in DOMAIN queue' : queue'[i] # x /\ \E j \in DOMAIN queue : queue[j] = queue'[i]
    /\ \A y \in Sessions \ {x} : Waiting(y) => Waiting(y)'

\* A worker has its own session,
LEMMA TakesOwn ==
  ASSUME WorkInv, NEW t \in Workers, NEW x \in Sessions, task[t].session = x, UNCHANGED queue
  PROVE  Takes(t, x)
  <1>1. \A u \in Workers \ {t} : task[u].session # x
    BY SessionsAssumption DEF WorkInv, Exclusive
  <1> QED
    BY <1>1 DEF WorkInv, Exclusive, Takes, Waiting

\* and what it takes from the queue.
LEMMA TakesHead ==
  ASSUME WorkInv, queue \in Seq(Sessions), NEW t \in Workers, task[t].pc = "idle",
         queue # << >>, queue' = Tail(queue)
  PROVE  Takes(t, Head(queue))
  <1> DEFINE x == Head(queue)
  <1>1. x = queue[1] /\ 1 \in DOMAIN queue
    OBVIOUS
  <1>2. \A i \in DOMAIN queue' : i + 1 \in DOMAIN queue /\ i + 1 # 1 /\ queue'[i] = queue[i + 1]
    OBVIOUS
  <1>3. \A j \in DOMAIN queue : j = 1 \/ (j - 1 \in DOMAIN queue' /\ queue'[j - 1] = queue[j])
    OBVIOUS
  <1>4. task[t].session = None
    BY DEF WorkInv, WorkersInPlace, InPlace, Waits
  <1>5. \A u \in Workers : task[u].session # x
    BY <1>1 DEF WorkInv, Exclusive
  <1>6. \A i, j \in DOMAIN queue' : queue'[i] = queue'[j] => i = j
    <2> SUFFICES ASSUME NEW i \in DOMAIN queue', NEW j \in DOMAIN queue', queue'[i] = queue'[j]
                 PROVE  i = j
      OBVIOUS
    <2>1. i + 1 = j + 1
      BY <1>2 DEF WorkInv, Exclusive
    <2> QED
      BY <2>1
  <1>7. \A i \in DOMAIN queue' : queue'[i] # x /\ \E j \in DOMAIN queue : queue[j] = queue'[i]
    BY <1>1, <1>2 DEF WorkInv, Exclusive
  <1>8. \A y \in Sessions \ {x} : Waiting(y) => Waiting(y)'
    BY <1>1, <1>3 DEF Waiting
  <1> QED
    BY <1>4, <1>5, <1>6, <1>7, <1>8 DEF Takes

\* The worker t moves its session x to the status st and stops where x then is.
LEMMA Moves ==
  ASSUME WorkInv, TaskOK(task), store \in Store, queue' \in Seq(Sessions),
         NEW t \in Workers, NEW x \in Sessions, Takes(t, x), OnlyMoves(t), NEW st,
         store'.session = [store.session EXCEPT ![x] = st],
         InPlace(task'[t], store'.session), task'[t].session \in {x, None},
         task'[t].session = None => st \in Terminal,
         store'.results = IF st = "finished" THEN store.results \cup {x} ELSE store.results,
         store.session[x] = "finished" => st = "finished",
         \A y \in Sessions \ {x} : store'.pendingRestore[y] = store.pendingRestore[y],
         store'.pendingRestore[x] # << >> =>
            /\ st \notin {"unsubmitted", "queued"}
            /\ \/ ServiceOf[x] \notin Once
               \/ task'[t].session = x /\ task'[t].pc \in Awaits \ {"restore_start", "restore_health"}
  PROVE  WorkInv'
  <1>1. /\ store'.session[x] = st
        /\ \A y \in Sessions \ {x} : store'.session[y] = store.session[y]
    BY DEF Store
  <1>2. t \in Tasks /\ Workers \subseteq Tasks /\ \A u \in Workers \ {t} : task'[u] = task[u]
    BY DEF Tasks, OnlyMoves
  <1>3. \A h \in Handlers : h \in Tasks \ {t}
    BY TasksAssumption DEF Tasks
  <1>4. \A u \in Workers \ {t} : task[u].session # x
    BY DEF Takes
  <1>5. None \notin Sessions
    BY SessionsAssumption
  <1>6. WorkersInPlace'
    BY <1>1, <1>2, <1>4 DEF WorkInv, WorkersInPlace, InPlace
  <1>7. HandlersFree'
    BY <1>3 DEF WorkInv, HandlersFree, OnlyMoves
  <1>8. Exclusive'
    <2>1. ASSUME NEW u \in Workers, NEW w \in Workers,
                 task'[u].session = task'[w].session, task'[u].session # None
          PROVE  u = w
      BY <1>2, <1>4, <2>1 DEF WorkInv, Exclusive
    <2>2. ASSUME NEW i \in DOMAIN queue'
          PROVE  /\ store'.session[queue'[i]] \in Unserved
                 /\ \A u \in Workers : task'[u].session # queue'[i]
      <3>1. PICK j \in DOMAIN queue : queue[j] = queue'[i]
        BY DEF Takes
      <3>2. queue'[i] \in Sessions \ {x}
        BY DEF Takes
      <3> QED
        BY <1>1, <1>2, <1>5, <3>1, <3>2 DEF WorkInv, Exclusive
    <2> QED
      BY <2>1, <2>2 DEF Exclusive, Takes
  <1>9. \A P : \A y \in Sessions \ {x} : HeldAt(y, P) => HeldAt(y, P)'
    <2> SUFFICES ASSUME NEW P, NEW y \in Sessions \ {x}, NEW u \in Workers,
                        task[u].session = y, task[u].pc \in P
                 PROVE  HeldAt(y, P)'
      BY DEF HeldAt
    <2>1. u # t
      BY <1>5 DEF Takes
    <2> QED
      BY <1>2, <2>1 DEF HeldAt
  <1>10. Served'
    <2>1. ASSUME NEW y \in Sessions \ {x}
          PROVE  /\ store'.session[y] = "queued" => Waiting(y)' \/ HeldAt(y, Waits)'
                 /\ store'.session[y] = "starting" => HeldAt(y, {"start", "health"})'
                 /\ store'.session[y] = "processing" => HeldAt(y, {"forward"})'
      BY <1>1, <1>9 DEF WorkInv, Served, Takes
    <2>2. /\ st = "queued" => HeldAt(x, Waits)'
          /\ st = "starting" => HeldAt(x, {"start", "health"})'
          /\ st = "processing" => HeldAt(x, {"forward"})'
      BY <1>1, <1>5 DEF HeldAt, InPlace, Terminal, Unserved
    <2> QED
      BY <1>1, <2>1, <2>2 DEF Served
  <1>11. Remembered'
    <2>1. ASSUME NEW y \in Sessions \ {x}, store'.pendingRestore[y] # << >>
          PROVE  /\ store'.session[y] \notin {"unsubmitted", "queued"}
                 /\ \/ ServiceOf[y] \notin Once
                    \/ HeldAt(y, Awaits \ {"restore_start", "restore_health"})'
      BY <1>1, <1>9, <2>1 DEF WorkInv, Remembered
    <2>2. store'.pendingRestore[x] # << >> =>
            /\ st \notin {"unsubmitted", "queued"}
            /\ \/ ServiceOf[x] \notin Once
               \/ HeldAt(x, Awaits \ {"restore_start", "restore_health"})'
      BY DEF HeldAt
    <2> QED
      BY <1>1, <2>1, <2>2 DEF Remembered
  <1>12. ResultIffFinished'
    BY <1>1 DEF WorkInv, ResultIffFinished
  <1> QED
    BY <1>6, <1>7, <1>8, <1>10, <1>11, <1>12 DEF WorkInv

-----------------------------------------------------------------------------
(* The ends of a section keep the invariant.                               *)

\* A run that ends with x settled,
LEMMA EndedKeeps ==
  ASSUME IInv, WorkInv, queue' \in Seq(Sessions), NEW t \in Workers, NEW x \in Sessions,
         Takes(t, x), NEW s, WellFormed(s), Ended(t, ServiceOf[x], x, s), NEW st \in Terminal,
         s.session = [store.session EXCEPT ![x] = st],
         s.results = IF st = "finished" THEN store.results \cup {x} ELSE store.results,
         store.session[x] = "finished" => st = "finished",
         s.pendingRestore = store.pendingRestore
  PROVE  WorkInv'
  <1> DEFINE v == ServiceOf[x]
  <1>1. TaskOK(task) /\ store \in Store
    BY DEF IInv, WellFormed
  <1>2. store'.session = [store.session EXCEPT ![x] = st] /\ store'.session[x] = st
    BY <1>1 DEF Ended, Store
  <1>3. s.pendingRestore \in [Sessions -> Seq(Services)]
    BY DEF WellFormed, Store
  <1>4. \/ task'[t] = Idle /\ (store'.pendingRestore[x] # << >> => v \notin Once)
        \/ Stops(t, {"restore_start", "dead"}, v, x) /\ store'.pendingRestore[x] = << >>
        \/ Stops(t, {"once_stop"}, v, x)
    BY <1>3 DEF Ended
  <1>5. \A y \in Sessions \ {x} : store'.pendingRestore[y] = store.pendingRestore[y]
    BY <1>3 DEF Ended
  <1>6. InPlace(task'[t], store'.session) /\ task'[t].session \in {x, None}
    BY <1>2, <1>4 DEF InPlace, Stops, Idle, At
  <1>7. store'.pendingRestore[x] # << >> =>
            \/ ServiceOf[x] \notin Once
            \/ task'[t].session = x /\ task'[t].pc \in Awaits \ {"restore_start", "restore_health"}
    BY <1>4 DEF Stops, Awaits
  <1>8. st \notin {"unsubmitted", "queued"}
    BY DEF Terminal
  <1>9. /\ OnlyMoves(t)
        /\ store'.results = IF st = "finished" THEN store.results \cup {x} ELSE store.results
    BY DEF Ended
  <1>10. task'[t].session = None => st \in Terminal
    OBVIOUS
  <1> QED
    BY <1>1, <1>2, <1>5, <1>6, <1>7, <1>8, <1>9, <1>10, Moves

\* a service that is started for x,
LEMMA StartedKeeps ==
  ASSUME IInv, WorkInv, queue' \in Seq(Sessions), NEW t \in Workers, NEW x \in Sessions,
         Takes(t, x), OnlyMoves(t), Stops(t, {"start"}, ServiceOf[x], x),
         store'.session = [store.session EXCEPT ![x] = "starting"],
         store.session[x] \in Unserved, store'.results = store.results,
         \A y \in Sessions \ {x} : store'.pendingRestore[y] = store.pendingRestore[y]
  PROVE  WorkInv'
  <1>1. TaskOK(task) /\ store \in Store
    BY DEF IInv, WellFormed
  <1>2. store'.session[x] = "starting"
    BY <1>1 DEF Store
  <1>3. InPlace(task'[t], store'.session) /\ task'[t].session = x
        /\ task'[t].pc \in Awaits \ {"restore_start", "restore_health"}
    BY <1>2 DEF InPlace, Stops, Awaits
  <1>4. x # None /\ store.session[x] # "finished"
    BY SessionsAssumption DEF Unserved
  <1> QED
    BY <1>1, <1>3, <1>4, Moves

\* and whatever else becomes of x in a section before that.
LEMMA WorkedKeeps ==
  ASSUME IInv, WorkInv, queue' \in Seq(Sessions), NEW t \in Workers, NEW x \in Sessions,
         Takes(t, x), NEW s, WellFormed(s), Worked(t, ServiceOf[x], x, s),
         s.session = store.session, s.results = store.results,
         s.pendingRestore = store.pendingRestore,
         store.session[x] \in Unserved \/ (store.session[x] = "starting" /\ task'[t].pc \notin Waits),
         task'[t].pc = "start" => store.session[x] \in Unserved
  PROVE  WorkInv'
  <1> DEFINE v == ServiceOf[x]
  <1>1. TaskOK(task) /\ store \in Store /\ x # None /\ store.session[x] # "finished"
    BY SessionsAssumption DEF IInv, WellFormed, Unserved
  <1>2. CASE Ended(t, v, x, [s EXCEPT !.session[x] = "failed"])
    <2> DEFINE f == [s EXCEPT !.session[x] = "failed"]
    <2>1. /\ f \in Store /\ f.leases = s.leases /\ f.slots = s.slots
          /\ f.session = [store.session EXCEPT ![x] = "failed"]
          /\ f.results = store.results /\ f.pendingRestore = store.pendingRestore
      BY DEF WellFormed, Store, SessionStatus
    <2>2. Ended(t, v, x, f)
      BY <1>2
    <2> HIDE DEF f
    <2>3. WellFormed(f)
      BY <2>1, SameTables
    <2>4. "failed" \in Terminal
      BY DEF Terminal
    <2>5. f.results = IF "failed" = "finished" THEN store.results \cup {x} ELSE store.results
      BY <2>1
    <2> QED
      BY <1>1, <2>1, <2>2, <2>3, <2>4, <2>5, EndedKeeps
  <1>3. CASE ~Ended(t, v, x, [s EXCEPT !.session[x] = "failed"])
    <2>1. /\ OnlyMoves(t) /\ store'.results = store.results
          /\ store'.pendingRestore = store.pendingRestore
          /\ \/ Stops(t, Waits, v, x) /\ store'.session = store.session
             \/ Stops(t, {"start"}, v, x) /\ store'.session = [store.session EXCEPT ![x] = "starting"]
             \/ Stops(t, {"forward"}, v, x) /\ store'.session = [store.session EXCEPT ![x] = "processing"]
             \/ /\ task'[t] = Idle /\ store.session[x] = "queued"
                /\ store'.session = [store.session EXCEPT ![x] = "failed"]
      BY <1>3 DEF Worked
    <2>2. CASE Stops(t, Waits, v, x) /\ store'.session = store.session
      <3>1. store'.session = [store.session EXCEPT ![x] = store.session[x]]
        BY <1>1, <2>2 DEF Store
      <3>2. store.session[x] \in Unserved
        BY <2>2 DEF Stops
      <3>3. InPlace(task'[t], store'.session) /\ task'[t].session = x
            /\ task'[t].pc \in Awaits \ {"restore_start", "restore_health"}
        BY <2>2, <3>2 DEF InPlace, Stops, Waits, Awaits
      <3>4. store'.pendingRestore[x] # << >> => store.session[x] \notin {"unsubmitted", "queued"}
        BY <2>1 DEF WorkInv, Remembered
      <3> QED
        BY <1>1, <2>1, <3>1, <3>3, <3>4, Moves
    <2>3. CASE Stops(t, {"start"}, v, x) /\ store'.session = [store.session EXCEPT ![x] = "starting"]
      <3>1. store.session[x] \in Unserved
        BY <2>3 DEF Stops
      <3> QED
        BY <2>1, <2>3, <3>1, StartedKeeps
    <2>4. CASE Stops(t, {"forward"}, v, x) /\ store'.session = [store.session EXCEPT ![x] = "processing"]
      <3>1. store'.session[x] = "processing"
        BY <1>1, <2>4 DEF Store
      <3>2. InPlace(task'[t], store'.session) /\ task'[t].session = x
            /\ task'[t].pc \in Awaits \ {"restore_start", "restore_health"}
        BY <2>4, <3>1 DEF InPlace, Stops, Awaits
      <3> QED
        BY <1>1, <2>1, <2>4, <3>2, Moves
    <2>5. CASE /\ task'[t] = Idle /\ store.session[x] = "queued"
               /\ store'.session = [store.session EXCEPT ![x] = "failed"]
      <3>1. InPlace(task'[t], store'.session) /\ task'[t].session = None
        BY <2>5 DEF InPlace, Idle, At
      <3>2. store'.pendingRestore[x] = << >>
        BY <2>1, <2>5 DEF WorkInv, Remembered
      <3>3. "failed" \in Terminal
        BY DEF Terminal
      <3> QED
        BY <1>1, <2>1, <2>5, <3>1, <3>2, <3>3, Moves
    <2> QED
      BY <2>1, <2>2, <2>3, <2>4, <2>5
  <1> QED
    BY <1>2, <1>3

\* A worker that goes on with its session where it is, which shows the same.
LEMMA GoesOnKeeps ==
  ASSUME IInv, WorkInv, NEW t \in Workers, NEW x \in Sessions, task[t].session = x,
         UNCHANGED queue, OnlyMoves(t), task'[t].session = x,
         Still(store, store'), InPlace(task'[t], store.session),
         task'[t].pc \in {"restore_start", "restore_health"} =>
            task[t].pc \in {"restore_start", "restore_health"},
         task'[t].pc \in Awaits
  PROVE  WorkInv'
  <1>1. TaskOK(task) /\ store \in Store /\ queue' \in Seq(Sessions) /\ x # None
    BY SessionsAssumption DEF IInv, WellFormed
  <1>2. Takes(t, x)
    BY TakesOwn
  <1>3. store'.session = [store.session EXCEPT ![x] = store.session[x]]
    BY <1>1 DEF Store, Still
  <1>4. store'.results = IF store.session[x] = "finished" THEN store.results \cup {x}
                         ELSE store.results
    BY DEF Still, WorkInv, ResultIffFinished
  <1>5. store'.pendingRestore = store.pendingRestore
    BY DEF Still
  <1>6. store'.pendingRestore[x] # << >> =>
            /\ store.session[x] \notin {"unsubmitted", "queued"}
            /\ \/ ServiceOf[x] \notin Once
               \/ task'[t].session = x /\ task'[t].pc \in Awaits \ {"restore_start", "restore_health"}
    <2>1. HeldAt(x, Awaits \ {"restore_start", "restore_health"})
            => task[t].pc \notin {"restore_start", "restore_health"}
      BY <1>2 DEF HeldAt, Takes
    <2> QED
      BY <1>5, <2>1 DEF WorkInv, Remembered
  <1> QED
    BY <1>1, <1>2, <1>3, <1>4, <1>5, <1>6, Moves DEF Still

\* A step in which no worker moves.
LEMMA NoWorkerMoves ==
  ASSUME WorkInv, \A t \in Workers : task'[t] = task[t],
         \A h \in Handlers : task'[h].session = None, UNCHANGED queue,
         store'.session = store.session, store'.results = store.results,
         store'.pendingRestore = store.pendingRestore
  PROVE  WorkInv'
  <1>1. WorkersInPlace' /\ HandlersFree' /\ Exclusive'
    BY DEF WorkInv, WorkersInPlace, HandlersFree, Exclusive
  <1>2. \A x, P : HeldAt(x, P) => HeldAt(x, P)'
    BY DEF HeldAt
  <1>3. Served' /\ Remembered' /\ ResultIffFinished'
    BY <1>2 DEF WorkInv, Served, Remembered, ResultIffFinished, Waiting
  <1> QED
    BY <1>1, <1>3 DEF WorkInv

\* A handler's section does nothing else.
LEMMA HandledKeeps ==
  ASSUME WorkInv, NEW h \in Handlers, Handled(h, store), UNCHANGED queue
  PROVE  WorkInv'
  <1>1. \A t \in Workers : t \in Tasks \ {h}
    BY TasksAssumption DEF Tasks
  <1>2. \A g \in Handlers \ {h} : g \in Tasks \ {h}
    BY DEF Tasks
  <1> QED
    BY <1>1, <1>2, NoWorkerMoves DEF Handled, OnlyMoves, Still, WorkInv, HandlersFree

-----------------------------------------------------------------------------
(* The actions.                                                            *)

\* A session that has failed.
LEMMA FailedSession ==
  ASSUME NEW s, WellFormed(s), NEW x \in Sessions
  PROVE  LET f == [s EXCEPT !.session[x] = "failed"]
         IN  /\ WellFormed(f) /\ f.session = [s.session EXCEPT ![x] = "failed"]
             /\ f.results = s.results /\ f.pendingRestore = s.pendingRestore
  <1> DEFINE f == [s EXCEPT !.session[x] = "failed"]
  <1>1. /\ f \in Store /\ f.leases = s.leases /\ f.slots = s.slots
        /\ f.session = [s.session EXCEPT ![x] = "failed"]
        /\ f.results = s.results /\ f.pendingRestore = s.pendingRestore
    BY DEF WellFormed, Store, SessionStatus
  <1> HIDE DEF f
  <1>2. WellFormed(f)
    BY <1>1, SameTables
  <1> QED
    BY <1>1, <1>2 DEF f

\* An exception in a worker's section.
LEMMA RaiseKeeps ==
  ASSUME IInv, WorkInv, queue' \in Seq(Sessions), NEW t \in Workers, NEW x \in Sessions,
         Takes(t, x), Raise(t, ServiceOf[x], x, store), store.session[x] # "finished"
  PROVE  WorkInv'
  <1> DEFINE f == [store EXCEPT !.session[x] = "failed"]
             v == ServiceOf[x]
  <1>1. /\ WellFormed(f) /\ f.session = [store.session EXCEPT ![x] = "failed"]
        /\ f.results = store.results /\ f.pendingRestore = store.pendingRestore
    BY FailedSession DEF IInv
  <1>2. AfterRun(t, v, x, Finally(f, v, x)) /\ v \in Services /\ t \in Tasks /\ TaskOK(task)
    BY SessionsAssumption DEF Raise, Tasks, IInv
  <1> HIDE DEF f
  <1>3. Ended(t, v, x, f)
    BY <1>1, <1>2, FinallyEnds
  <1>4. f.results = IF "failed" = "finished" THEN store.results \cup {x} ELSE store.results
    BY <1>1
  <1>5. "failed" \in Terminal
    BY DEF Terminal
  <1> QED
    BY <1>1, <1>3, <1>4, <1>5, EndedKeeps

\* What a worker has at an await.
LEMMA AtAwait ==
  ASSUME IInv, WorkInv, NEW t \in Workers, NEW v \in Services, NEW x \in Sessions, NEW pc,
         On(t, pc, v, x), UNCHANGED queue
  PROVE  /\ t \in Tasks /\ v = ServiceOf[x] /\ Takes(t, x) /\ queue' \in Seq(Sessions)
         /\ x # None
         /\ pc \in Waits => store.session[x] \in Unserved
         /\ pc \in {"start", "health"} => store.session[x] = "starting"
         /\ pc = "forward" => store.session[x] = "processing"
         /\ pc \in {"once_stop", "restore_start", "restore_health", "dead"} =>
                store.session[x] \in Terminal
  <1>1. InPlace(task[t], store.session) /\ task[t].session = x /\ x # None
    BY SessionsAssumption DEF WorkInv, WorkersInPlace, On
  <1>2. Takes(t, x)
    BY <1>1, TakesOwn
  <1> QED
    BY <1>1, <1>2 DEF InPlace, On, Tasks, Waits, IInv

\* Stopping a candidate, for a worker's session.
LEMMA ReclaimStopsKeeps ==
  ASSUME IInv, WorkInv, NEW t \in Workers, NEW v \in Services, NEW x \in Sessions,
         ReclaimStops(t, v, x)
  PROVE  WorkInv'
  <1> DEFINE r == task[t]
             w == Head(r.todo)
             s == MarkServiceStopped(store, w)
             taken == Append(r.taken, w)
             free == r.free + Usage[w]
             p == [s EXCEPT !.pendingRestore[x] = taken]
             q == [r EXCEPT !.todo = Tail(r.todo), !.taken = taken, !.free = free]
  <1>1. /\ t \in Tasks /\ v = ServiceOf[x] /\ Takes(t, x) /\ queue' \in Seq(Sessions) /\ x # None
        /\ store.session[x] \in Unserved /\ queue' = queue
    BY AtAwait DEF ReclaimStops, Waits
  <1>2. /\ r \in TaskState /\ r.todo # << >> /\ r.pc = "reclaim" /\ r.service = v /\ r.session = x
        /\ TaskOK(task)
    BY <1>1 DEF ReclaimStops, On, IInv, TaskOK
  <1>3. w \in Services /\ taken \in Seq(Services)
    BY <1>2 DEF TaskState
  <1>4. WellFormed(s) /\ Still(store, s)
    BY <1>3, MarkServiceStoppedWellFormed, MarksStill DEF IInv
  <1>5. \/ Launch(t, v, x, p)
        \/ Sleep(t, v, x, s)
        \/ store' = s /\ Become(t, q)
    BY <1>1 DEF ReclaimStops
  <1>6. q.pc = "reclaim" /\ q.service = v /\ q.session = x
    BY <1>2 DEF TaskState
  <1> HIDE DEF w, s, taken, q
  <1>7. CASE Launch(t, v, x, p)
    <2>1. /\ p.session = store.session /\ p.results = store.results
          /\ \A y \in Sessions \ {x} : p.pendingRestore[y] = store.pendingRestore[y]
      BY <1>4 DEF Still, WellFormed, Store
    <2>2. store' = [p EXCEPT !.status[v] = "starting", !.session[x] = "starting"]
      BY <1>1, <1>7 DEF Launch
    <2>3. DOMAIN p = {"status", "activeSession", "queueSize", "inflight", "running", "active",
                      "leases", "slots", "pendingRestore", "session", "results"}
      BY <1>4 DEF WellFormed, Store
    <2>4. Become(t, At("start", v, x))
      BY <1>7 DEF Launch
    <2> HIDE DEF p
    <2>5. /\ store'.session = [store.session EXCEPT ![x] = "starting"]
          /\ store'.results = store.results
          /\ store'.pendingRestore = p.pendingRestore
      BY <2>1, <2>2, <2>3
    <2>6. OnlyMoves(t) /\ Stops(t, {"start"}, ServiceOf[x], x)
      BY <1>1, <1>2, <2>4, AtStops
    <2> QED
      BY <1>1, <2>1, <2>5, <2>6, StartedKeeps
  <1>8. CASE Sleep(t, v, x, s)
    <2>1. Become(t, At("sleep", v, x)) /\ store' = s
      BY <1>8 DEF Sleep
    <2>2. OnlyMoves(t) /\ Stops(t, {"sleep"}, v, x)
      BY <1>1, <1>2, <2>1, AtStops
    <2>3. InPlace(task'[t], store.session) /\ task'[t].session = x /\ task'[t].pc \in Waits
      BY <1>1, <2>2 DEF InPlace, Stops, Waits
    <2> QED
      BY <1>1, <1>2, <1>4, <2>1, <2>2, <2>3, GoesOnKeeps DEF Waits, Awaits
  <1>9. CASE store' = s /\ Become(t, q)
    <2>1. OnlyMoves(t) /\ task'[t] = q
      BY <1>1, <1>2, <1>9, BecomeMoves
    <2>2. InPlace(task'[t], store.session) /\ task'[t].session = x /\ task'[t].pc \in Waits
      BY <1>1, <1>6, <2>1 DEF InPlace, Waits
    <2> QED
      BY <1>1, <1>2, <1>4, <1>9, <2>1, <2>2, GoesOnKeeps DEF Waits, Awaits
  <1> QED
    BY <1>5, <1>7, <1>8, <1>9

\* A start that is healthy, for a worker's session.
LEMMA HealthyAfterStartKeeps ==
  ASSUME IInv, WorkInv, NEW t \in Workers, NEW v \in Services, NEW x \in Sessions,
         HealthyAfterStart(t, v, x)
  PROVE  WorkInv'
  <1> DEFINE s == MarkServiceStarted(store, v)
  <1>1. /\ t \in Tasks /\ v = ServiceOf[x] /\ Takes(t, x) /\ queue' \in Seq(Sessions) /\ x # None
        /\ store.session[x] = "starting" /\ TaskOK(task)
    BY AtAwait DEF HealthyAfterStart, IInv
  <1>2. WellFormed(s) /\ Still(store, s)
    BY MarkServiceStartedWellFormed, MarksStill DEF IInv
  <1>3. Forward(t, v, x, s)
    BY <1>1 DEF HealthyAfterStart
  <1> HIDE DEF s
  <1>4. Worked(t, v, x, s) /\ task'[t].pc \notin Waits \cup {"start"}
    BY <1>1, <1>2, <1>3, ForwardWorked
  <1> QED
    BY <1>1, <1>2, <1>4, WorkedKeeps DEF Still

\* Every section of a start, for a worker's session.
LEMMA StartStepKeeps ==
  ASSUME IInv, WorkInv, NEW t \in Workers, NEW v \in Services, NEW x \in Sessions,
         StartStep(t, v, x)
  PROVE  WorkInv'
  <1> USE DEF IInv
  <1>1. ASSUME NEW pc \in Waits, On(t, pc, v, x), UNCHANGED queue, Outcome(t, v, x, store)
        PROVE  WorkInv'
    <2>1. /\ v = ServiceOf[x] /\ Takes(t, x) /\ queue' \in Seq(Sessions) /\ x # None
          /\ store.session[x] \in Unserved
      BY <1>1, AtAwait
    <2>2. Worked(t, v, x, store)
      BY <1>1, <2>1 DEF Outcome
    <2> QED
      BY <2>1, <2>2, WorkedKeeps
  <1>2. ASSUME NEW pc \in Waits \cup {"start", "health"}, On(t, pc, v, x), UNCHANGED queue,
               Raise(t, v, x, store)
        PROVE  WorkInv'
    <2>1. /\ v = ServiceOf[x] /\ Takes(t, x) /\ queue' \in Seq(Sessions)
          /\ store.session[x] # "finished"
      BY <1>2, AtAwait DEF Unserved
    <2> QED
      BY <1>2, <2>1, RaiseKeeps
  <1>3. t \in Tasks
    BY DEF Tasks
  <1>4. CASE LockGranted(t, v, x)
    <2>1. Outcome(t, v, x, store)
      BY <1>3, <1>4, LockedOutcome DEF LockGranted
    <2> QED
      BY <1>1, <1>4, <2>1 DEF LockGranted, Waits
  <1>5. CASE ReclaimStops(t, v, x)
    BY <1>5, ReclaimStopsKeeps
  <1>6. CASE ReclaimStopFails(t, v, x)
    <2>1. Still(store, store)
      BY DEF Still, KeepsSlots
    <2>2. Outcome(t, v, x, store)
      BY <1>3, <1>6, <2>1, SleepOutcome DEF ReclaimStopFails
    <2> QED
      BY <1>1, <1>6, <2>2 DEF ReclaimStopFails, Waits
  <1>7. CASE CapacityRetry(t, v, x)
    <2>1. Outcome(t, v, x, store)
      BY <1>3, <1>7, CapacityOutcome DEF CapacityRetry
    <2> QED
      BY <1>1, <1>7, <2>1 DEF CapacityRetry, Waits
  <1>8. CASE CapacityTimeout(t, v, x)
    BY <1>2, <1>8 DEF CapacityTimeout, Waits
  <1>9. CASE StartFails(t, v, x)
    BY <1>2, <1>9 DEF StartFails
  <1>10. CASE HealthTimeout(t, v, x)
    BY <1>2, <1>10 DEF HealthTimeout
  <1>11. CASE StartSucceeds(t, v, x)
    <2>1. v = ServiceOf[x] /\ x # None /\ store.session[x] = "starting"
      BY <1>11, AtAwait DEF StartSucceeds
    <2>2. OnlyMoves(t) /\ Stops(t, {"health"}, v, x)
      BY <1>3, <1>11, AtStops DEF StartSucceeds
    <2>3. InPlace(task'[t], store.session) /\ task'[t].session = x /\ task'[t].pc = "health"
      BY <2>1, <2>2 DEF InPlace, Stops
    <2>4. UNCHANGED queue /\ Still(store, store') /\ task[t].session = x
      BY <1>11 DEF StartSucceeds, Still, KeepsSlots, On
    <2> QED
      BY <2>2, <2>3, <2>4, GoesOnKeeps DEF Awaits
  <1>12. CASE HealthyAfterStart(t, v, x)
    BY <1>12, HealthyAfterStartKeeps
  <1> QED
    BY <1>4, <1>5, <1>6, <1>7, <1>8, <1>9, <1>10, <1>11, <1>12 DEF StartStep

\* A reply arrives, or the upstream fails.
LEMMA ForwardEndsKeeps ==
  ASSUME IInv, WorkInv, NEW t \in Workers, NEW v \in Services, NEW x \in Sessions,
         ForwardReturns(t, v, x) \/ ForwardFails(t, v, x)
  PROVE  WorkInv'
  <1> DEFINE s == [store EXCEPT !.results = @ \cup {x}, !.session[x] = "finished"]
  <1>1. /\ t \in Tasks /\ v = ServiceOf[x] /\ Takes(t, x) /\ queue' \in Seq(Sessions)
        /\ store.session[x] = "processing" /\ TaskOK(task)
    BY AtAwait DEF ForwardReturns, ForwardFails, IInv
  <1>2. CASE ForwardReturns(t, v, x)
    <2>1. /\ s \in Store /\ s.leases = store.leases /\ s.slots = store.slots
          /\ s.session = [store.session EXCEPT ![x] = "finished"]
          /\ s.results = store.results \cup {x} /\ s.pendingRestore = store.pendingRestore
      BY DEF IInv, WellFormed, Store, SessionStatus
    <2>2. AfterRun(t, v, x, Finally(s, v, x))
      BY <1>2 DEF ForwardReturns
    <2> HIDE DEF s
    <2>3. WellFormed(s)
      BY <2>1, SameTables DEF IInv
    <2>4. Ended(t, v, x, s)
      BY <1>1, <2>2, <2>3, FinallyEnds
    <2>5. "finished" \in Terminal
      BY DEF Terminal
    <2>6. s.results = IF "finished" = "finished" THEN store.results \cup {x} ELSE store.results
      BY <2>1
    <2>7. Ended(t, ServiceOf[x], x, s)
      BY <1>1, <2>4
    <2>8. store.session[x] = "finished" => "finished" = "finished"
      OBVIOUS
    <2> QED
      BY <1>1, <2>1, <2>3, <2>5, <2>6, <2>7, <2>8, EndedKeeps
  <1>3. CASE ForwardFails(t, v, x)
    BY <1>1, <1>3, RaiseKeeps DEF ForwardFails
  <1> QED
    BY <1>2, <1>3

\* Restoring goes on, or ends, with x settled and nothing more remembered for it.
LEMMA RestoringKeeps ==
  ASSUME IInv, WorkInv, NEW t \in Workers, NEW v \in Services, NEW x \in Sessions,
         task[t].pc \in {"restore_start", "restore_health"}, task[t].service = v,
         task[t].session = x, UNCHANGED queue, OnlyMoves(t), Still(store, store'),
         task'[t] = Idle \/ Stops(t, {"restore_start", "restore_health", "dead"}, v, x)
  PROVE  WorkInv'
  <1>1. /\ v = ServiceOf[x] /\ Takes(t, x) /\ queue' \in Seq(Sessions) /\ x # None
        /\ store.session[x] \in Terminal /\ TaskOK(task) /\ store \in Store
    BY AtAwait DEF On, IInv, WellFormed
  <1>2. store'.session = [store.session EXCEPT ![x] = store.session[x]]
    BY <1>1 DEF Still, Store
  <1>3. InPlace(task'[t], store'.session) /\ task'[t].session \in {x, None}
    BY <1>1 DEF InPlace, Stops, Idle, At, Still
  <1>4. store'.results = IF store.session[x] = "finished" THEN store.results \cup {x}
                         ELSE store.results
    BY DEF Still, WorkInv, ResultIffFinished
  <1>5. store'.pendingRestore = store.pendingRestore
    BY DEF Still
  <1>6. store'.pendingRestore[x] # << >> =>
            store.session[x] \notin {"unsubmitted", "queued"} /\ ServiceOf[x] \notin Once
    <2>1. ~HeldAt(x, Awaits \ {"restore_start", "restore_health"})
      BY <1>1 DEF HeldAt, Takes
    <2> QED
      BY <1>5, <2>1 DEF WorkInv, Remembered
  <1> QED
    BY <1>1, <1>2, <1>3, <1>4, <1>5, <1>6, Moves

\* The sections of _run_one after the start.
LEMMA RunStepKeeps ==
  ASSUME IInv, WorkInv, NEW t \in Workers, NEW v \in Services, NEW x \in Sessions,
         RunStep(t, v, x)
  PROVE  WorkInv'
  <1>1. t \in Tasks /\ TaskOK(task) /\ WellFormed(store) /\ store \in Store /\ x # None
    BY SessionsAssumption DEF Tasks, IInv, WellFormed
  <1>2. Still(store, store)
    BY DEF Still, KeepsSlots
  <1>3. CASE ForwardReturns(t, v, x) \/ ForwardFails(t, v, x)
    BY <1>3, ForwardEndsKeeps
  <1>4. CASE OnceStops(t, v, x)
    <2> DEFINE s == MarkServiceStopped(store, v)
               st == store.session[x]
    <2>1. /\ v = ServiceOf[x] /\ Takes(t, x) /\ queue' \in Seq(Sessions) /\ st \in Terminal
      BY <1>4, AtAwait DEF OnceStops
    <2>2. WellFormed(s) /\ Still(store, s)
      BY <1>1, MarkServiceStoppedWellFormed, MarksStill
    <2>3. Restore(t, v, x, s)
      BY <1>4 DEF OnceStops
    <2> HIDE DEF s
    <2>4. Ended(t, v, x, s)
      BY <1>1, <2>2, <2>3, RestoreEnds
    <2>5. s.session = [store.session EXCEPT ![x] = st] /\ s.pendingRestore = store.pendingRestore
      BY <1>1, <2>2 DEF Still, Store
    <2>6. s.results = IF st = "finished" THEN store.results \cup {x} ELSE store.results
      BY <2>2 DEF Still, WorkInv, ResultIffFinished
    <2>7. store.session[x] = "finished" => st = "finished"
      OBVIOUS
    <2> HIDE DEF st
    <2> QED
      BY <2>1, <2>2, <2>4, <2>5, <2>6, <2>7, EndedKeeps
  <1>5. CASE OnceStopFails(t, v, x)
    <2>1. v = ServiceOf[x] /\ store.session[x] \in Terminal
      BY <1>5, AtAwait DEF OnceStopFails
    <2>2. OnlyMoves(t) /\ Stops(t, {"dead"}, v, x)
      BY <1>1, <1>5, AtStops DEF OnceStopFails
    <2>3. InPlace(task'[t], store.session) /\ task'[t].session = x /\ task'[t].pc = "dead"
      BY <2>1, <2>2 DEF InPlace, Stops
    <2>4. UNCHANGED queue /\ Still(store, store') /\ task[t].session = x
      BY <1>2, <1>5 DEF OnceStopFails, On
    <2> QED
      BY <2>2, <2>3, <2>4, GoesOnKeeps DEF Awaits
  <1>6. CASE RestoreStarts(t, v, x)
    <2> DEFINE r == [task[t] EXCEPT !.pc = "restore_health"]
    <2>1. On(t, "restore_start", v, x) /\ UNCHANGED <<store, queue>> /\ Become(t, r)
      BY <1>6 DEF RestoreStarts
    <2>2. r.pc = "restore_health" /\ r.service = v /\ r.session = x
      BY <1>1, <2>1 DEF On, TaskOK, TaskState
    <2> HIDE DEF r
    <2>3. OnlyMoves(t) /\ Stops(t, {"restore_start", "restore_health", "dead"}, v, x)
      BY <1>1, <2>1, <2>2, BecomeMoves DEF Stops
    <2>4. Still(store, store')
      BY <1>2, <2>1
    <2> QED
      BY <2>1, <2>3, <2>4, RestoringKeeps DEF On
  <1>7. CASE RestoreHealthy(t, v, x)
    <2> DEFINE w == Head(task[t].todo)
               s == MarkServiceStarted(store, w)
    <2>1. On(t, "restore_health", v, x) /\ UNCHANGED queue /\ RestoreNext(t, v, x, s, Tail(task[t].todo))
      BY <1>7 DEF RestoreHealthy
    <2>2. Still(store, s)
      BY <1>1, MarksStill
    <2> HIDE DEF s
    <2>3. /\ store' = s /\ OnlyMoves(t)
          /\ task'[t] = Idle \/ Stops(t, {"restore_start", "dead"}, v, x)
      BY <1>1, <2>1, RestoreNextStops
    <2>4. task'[t] = Idle \/ Stops(t, {"restore_start", "restore_health", "dead"}, v, x)
      BY <2>3 DEF Stops
    <2> QED
      BY <2>1, <2>2, <2>3, <2>4, RestoringKeeps DEF On
  <1>8. CASE RestoreFails(t, v, x)
    <2>1. /\ task[t].pc \in {"restore_start", "restore_health"} /\ task[t].service = v
          /\ task[t].session = x /\ UNCHANGED <<store, queue>> /\ Become(t, At("dead", v, x))
      BY <1>8 DEF RestoreFails, On
    <2>2. OnlyMoves(t) /\ Stops(t, {"restore_start", "restore_health", "dead"}, v, x)
      BY <1>1, <2>1, AtStops DEF Stops
    <2>3. Still(store, store')
      BY <1>2, <2>1
    <2> QED
      BY <2>1, <2>2, <2>3, RestoringKeeps
  <1> QED
    BY <1>3, <1>4, <1>5, <1>6, <1>7, <1>8 DEF RunStep

\* A worker takes the head of the queue.
LEMMA DequeueKeeps ==
  ASSUME IInv, WorkInv, NEW t \in Workers, Dequeue(t)
  PROVE  WorkInv'
  <1> DEFINE x == Head(queue)
             v == ServiceOf[x]
             n == store.queueSize[v] - 1
             s == [store EXCEPT !.queueSize[v] = n]
             p == PruneReservedSlots(s)
             g == [p EXCEPT !.session[x] = "failed"]
             a == AbortIfBusy(s, x)
  <1>1. /\ t \in Tasks /\ queue # << >> /\ queue \in Seq(Sessions) /\ queue' = Tail(queue)
        /\ task[t].pc = "idle" /\ TaskOK(task)
    BY DEF Tasks, Dequeue, IInv
  <1>2. Takes(t, x)
    BY <1>1, TakesHead
  <1>3. x \in Sessions /\ queue' \in Seq(Sessions) /\ x = queue[1] /\ 1 \in DOMAIN queue
    BY <1>1
  <1>4. v \in Services /\ x # None /\ store.session[x] \in Unserved
    BY <1>3, SessionsAssumption DEF WorkInv, Exclusive
  <1>5. IF Aborts(s, x) THEN Return(t, Finally(a, v, x)) ELSE Acquire(t, v, x, a)
    BY DEF Dequeue
  <1>6. /\ WellFormed(s) /\ s.session = store.session /\ s.results = store.results
        /\ s.pendingRestore = store.pendingRestore
    <2>1. n \in Int
      BY <1>4 DEF IInv, WellFormed, Store
    <2> HIDE DEF n
    <2>2. /\ s \in Store /\ s.leases = store.leases /\ s.slots = store.slots
          /\ s.session = store.session /\ s.results = store.results
          /\ s.pendingRestore = store.pendingRestore
      BY <1>4, <2>1 DEF IInv, WellFormed, Store
    <2> HIDE DEF s
    <2> QED
      BY <2>2, SameTables DEF IInv
  <1>7. IF Aborts(s, x) THEN s.session[x] = "queued" /\ a = g ELSE a \in {s, p}
    BY DEF AbortIfBusy, Aborts
  <1>8. WellFormed(a) /\ WellFormed(p) /\ Still(s, p)
    BY <1>3, <1>6, AbortIfBusyWellFormed, PruneReservedSlotsWellFormed, PruneReservedSlotsStill
  <1> HIDE DEF x, s, p, a
  <1>9. CASE Aborts(s, x)
    <2>1. /\ g.session = [store.session EXCEPT ![x] = "failed"] /\ g.results = store.results
          /\ g.pendingRestore = store.pendingRestore
      BY <1>6, <1>8 DEF Still, WellFormed, Store
    <2> HIDE DEF g
    <2>2. Still(a, Finally(a, v, x))
      BY <1>4, <1>8, FinallyStill
    <2>3. task'[t] = Idle /\ OnlyMoves(t) /\ store' = Finally(a, v, x)
      BY <1>1, <1>5, <1>9, ReturnHandled
    <2>4. /\ store'.session = [store.session EXCEPT ![x] = "failed"] /\ store'.results = store.results
          /\ store'.pendingRestore = store.pendingRestore
      BY <1>7, <1>9, <2>1, <2>2, <2>3 DEF Still
    <2>5. InPlace(task'[t], store'.session) /\ task'[t].session = None
      BY <2>3 DEF InPlace, Idle, At
    <2>6. store'.pendingRestore[x] = << >>
      BY <1>3, <1>6, <1>7, <1>9, <2>4 DEF WorkInv, Remembered
    <2>7. "failed" \in Terminal /\ store.session[x] # "finished" /\ store \in Store
      BY <1>4 DEF Terminal, Unserved, IInv, WellFormed
    <2> QED
      BY <1>1, <1>2, <1>3, <2>3, <2>4, <2>5, <2>6, <2>7, Moves
  <1>10. CASE ~Aborts(s, x)
    <2>1. /\ a.session = store.session /\ a.results = store.results
          /\ a.pendingRestore = store.pendingRestore
      BY <1>6, <1>7, <1>8, <1>10 DEF Still
    <2>2. Outcome(t, v, x, a)
      BY <1>1, <1>3, <1>4, <1>5, <1>8, <1>10, AcquireOutcome
    <2>3. Worked(t, v, x, a)
      BY <1>4, <2>2 DEF Outcome
    <2> QED
      BY <1>2, <1>3, <1>4, <1>8, <2>1, <2>3, WorkedKeeps
  <1> QED
    BY <1>9, <1>10

\* An answer to a worker leaves it at its await with its session.
LEMMA AnswerStays ==
  ASSUME IInv, WorkInv, NEW t \in Workers, Answer(t)
  PROVE  /\ OnlyMoves(t) /\ UNCHANGED <<store, queue>> /\ Still(store, store')
         /\ task[t].session \in Sessions /\ Alike(task'[t], task[t])
         /\ task'[t].pc \in {"health", "forward", "restore_health"}
  <1>1. /\ UNCHANGED <<store, queue>> /\ OnlyMoves(t) /\ Alike(task'[t], task[t])
        /\ task[t].pc \in {"health", "forward", "restore_health", "probe"}
    BY AnswerAlike DEF IInv, Tasks, OnlyMoves
  <1>2. InPlace(task[t], store.session)
    BY DEF WorkInv, WorkersInPlace
  <1> QED
    BY <1>1, <1>2 DEF InPlace, Waits, Alike, Still, KeepsSlots

LEMMA AnswerKeeps ==
  ASSUME IInv, WorkInv, NEW t \in Workers, Answer(t)
  PROVE  WorkInv'
  <1> DEFINE x == task[t].session
  <1>1. /\ OnlyMoves(t) /\ UNCHANGED <<store, queue>> /\ Still(store, store')
        /\ x \in Sessions /\ Alike(task'[t], task[t])
        /\ task'[t].pc \in {"health", "forward", "restore_health"}
    BY AnswerStays
  <1>2. InPlace(task[t], store.session)
    BY DEF WorkInv, WorkersInPlace
  <1>3. InPlace(task'[t], store.session)
    BY <1>1, <1>2 DEF InPlace, Alike
  <1> QED
    BY <1>1, <1>3, GoesOnKeeps DEF Alike, Awaits

\* Every step of a worker.
LEMMA WorkerStepKeeps ==
  ASSUME IInv, WorkInv, NEW t \in Workers, WorkerStep(t)
  PROVE  WorkInv'
  BY DequeueKeeps, AnswerKeeps, StartStepKeeps, RunStepKeeps DEF WorkerStep

\* A handler's section after a first part that left the sessions.
LEMMA HandledAfter ==
  ASSUME NEW h, NEW s, NEW r, Still(s, r), Handled(h, r)
  PROVE  Handled(h, s)
  BY StillTrans DEF Handled

\* Stopping a candidate, for a handler's request.
LEMMA ReclaimStopsHandled ==
  ASSUME IInv, NEW h \in Tasks, NEW v \in Services, ReclaimStops(h, v, None)
  PROVE  Handled(h, store)
  <1> DEFINE r == task[h]
             w == Head(r.todo)
             s == MarkServiceStopped(store, w)
             taken == Append(r.taken, w)
             free == r.free + Usage[w]
             q == [r EXCEPT !.todo = Tail(r.todo), !.taken = taken, !.free = free]
  <1>1. /\ r \in TaskState /\ r.todo # << >> /\ r.pc = "reclaim" /\ r.service = v /\ r.session = None
        /\ TaskOK(task) /\ WellFormed(store)
    BY DEF ReclaimStops, On, IInv, TaskOK
  <1>2. w \in Services
    BY <1>1 DEF TaskState
  <1>3. WellFormed(s) /\ Still(store, s)
    BY <1>1, <1>2, MarkServiceStoppedWellFormed, MarksStill
  <1>4. Launch(h, v, None, s) \/ Sleep(h, v, None, s) \/ (store' = s /\ Become(h, q))
    BY DEF ReclaimStops
  <1>5. q.pc = "reclaim" /\ q.service = v /\ q.session = None
    BY <1>1 DEF TaskState
  <1> HIDE DEF s, q
  <1>6. CASE Launch(h, v, None, s)
    BY <1>1, <1>3, <1>6, LaunchOutcome, HandledAfter DEF Outcome
  <1>7. CASE Sleep(h, v, None, s)
    BY <1>1, <1>3, <1>7, SleepOutcome DEF Outcome
  <1>8. CASE store' = s /\ Become(h, q)
    BY <1>1, <1>3, <1>5, <1>8, BecomeMoves DEF Handled
  <1> QED
    BY <1>4, <1>6, <1>7, <1>8

\* Every section of a start, for a handler's request.
LEMMA StartStepHandled ==
  ASSUME IInv, NEW h \in Tasks, NEW v \in Services, StartStep(h, v, None)
  PROVE  Handled(h, store)
  <1> USE DEF IInv
  <1>1. Still(store, store)
    BY DEF Still, KeepsSlots
  <1>2. CASE LockGranted(h, v, None)
    BY <1>2, LockedOutcome DEF LockGranted, Outcome
  <1>3. CASE ReclaimStops(h, v, None)
    BY <1>3, ReclaimStopsHandled
  <1>4. CASE ReclaimStopFails(h, v, None)
    BY <1>1, <1>4, SleepOutcome DEF ReclaimStopFails, Outcome
  <1>5. CASE CapacityRetry(h, v, None)
    BY <1>5, CapacityOutcome DEF CapacityRetry, Outcome
  <1>6. CASE Raise(h, v, None, store)
    BY <1>6, RaiseOutcome DEF Outcome
  <1>7. CASE StartSucceeds(h, v, None)
    <2>1. OnlyMoves(h) /\ Stops(h, {"health"}, v, None) /\ UNCHANGED store
      BY <1>7, AtStops DEF StartSucceeds
    <2> QED
      BY <1>1, <2>1 DEF Handled, Stops
  <1>8. CASE HealthyAfterStart(h, v, None)
    <2>1. Return(h, MarkServiceStarted(store, v)) /\ Still(store, MarkServiceStarted(store, v))
      BY <1>8, MarksStill DEF HealthyAfterStart
    <2> QED
      BY <2>1, ReturnHandled, HandledAfter
  <1> QED
    BY <1>2, <1>3, <1>4, <1>5, <1>6, <1>7, <1>8
    DEF StartStep, CapacityTimeout, StartFails, HealthTimeout

\* Every step of a handler.
LEMMA HandlerStepHandled ==
  ASSUME IInv, WorkInv, NEW h \in Handlers, HandlerStep(h)
  PROVE  Handled(h, store) /\ UNCHANGED queue
  <1> USE DEF IInv
  <1>1. h \in Tasks
    BY DEF Tasks
  <1>8. CASE Answer(h)
    <2>1. task[h].session = None
      BY DEF WorkInv, HandlersFree
    <2> QED
      BY <1>1, <1>8, <2>1, AnswerAlike DEF Handled, OnlyMoves, Alike, Still, KeepsSlots
  <1>9. SUFFICES ASSUME ~Answer(h) PROVE Handled(h, store) /\ UNCHANGED queue
    BY <1>8
  <1>2. PICK v \in Services :
          \/ StartStep(h, v, None)
          \/ StopReturns(h, v) \/ StopFails(h, v)
          \/ ProbeHealthy(h, v) \/ ProbeTimeout(h, v)
    BY <1>9 DEF HandlerStep
  <1>3. CASE StartStep(h, v, None)
    <2>1. UNCHANGED queue
      BY <1>3 DEF StartStep, LockGranted, ReclaimStops, ReclaimStopFails, CapacityRetry,
                  CapacityTimeout, StartSucceeds, StartFails, HealthyAfterStart, HealthTimeout
    <2> QED
      BY <1>1, <1>3, <2>1, StartStepHandled
  <1>4. CASE StopReturns(h, v)
    <2>1. Return(h, MarkServiceStopped(store, v)) /\ Still(store, MarkServiceStopped(store, v))
      BY <1>4, MarksStill DEF StopReturns
    <2> QED
      BY <1>1, <1>4, <2>1, ReturnHandled, HandledAfter DEF StopReturns
  <1>5. CASE StopFails(h, v) \/ ProbeTimeout(h, v)
    BY <1>1, <1>5, ReturnHandled DEF StopFails, ProbeTimeout
  <1>6. CASE ProbeHealthy(h, v)
    <2> DEFINE r == RefreshActivity(store, {v})
               shown == IF HasLease(r, v) THEN "external" ELSE "idle"
               f == [r EXCEPT !.status[v] = shown]
    <2>1. Still(store, r) /\ WellFormed(r) /\ Still(store, MarkServiceStarted(store, v))
      BY RefreshActivityStill, RefreshActivityWellFormed, MarksStill
    <2>2. /\ UNCHANGED queue
          /\ Return(h, MarkServiceStarted(store, v)) \/ Return(h, f)
      BY <1>6 DEF ProbeHealthy
    <2> HIDE DEF r, shown
    <2>3. Still(r, f)
      BY <2>1 DEF Still, KeepsSlots, WellFormed, Store
    <2> HIDE DEF f
    <2>4. Still(store, f)
      BY <2>1, <2>3, StillTrans
    <2> QED
      BY <1>1, <2>1, <2>2, <2>4, ReturnHandled, HandledAfter
  <1> QED
    BY <1>2, <1>3, <1>4, <1>5, <1>6

-----------------------------------------------------------------------------
(* The requests, and time.                                                 *)

\* A slot that has not run out stays reserved.
KeepsLive(s, r) == \A k \in LeaseKeys : s.slots[k] > 0 => Holds(r, k)

Failing(session) == [x \in Sessions |-> IF session[x] = "queued" THEN "failed" ELSE session[x]]

\* A touch leaves the sessions, or fails those that wait when it takes the only slot;
\* it takes no live slot from another lease, nor its own.
LEMMA TouchExternalLeaseDrops ==
  ASSUME NEW s, WellFormed(s), NEW k \in LeaseKeys, NEW ttl \in 1 .. MaxTtl, NEW reserve
  PROVE  LET r == TouchExternalLease(s, k, ttl, reserve)
         IN  /\ r.results = s.results /\ r.pendingRestore = s.pendingRestore
             /\ \/ r.session = s.session /\ r.queueSize = s.queueSize
                \/ MaxConcurrency = 1 /\ r.session = Failing(s.session)
             /\ KeepsLive(s, r)
  <1> DEFINE p == PruneReservedSlots(s)
             holds == Holds(p, k) \/ reserve
             slot == IF holds THEN ttl ELSE p.slots[k]
             t == [p EXCEPT !.leases[k] = ttl, !.slots[k] = slot]
             f == IF MaxConcurrency = 1 /\ holds THEN FailQueuedSessions(t) ELSE t
             g == SyncStatus(f, k[1])
             r == RefreshActivity(g, {k[1]})
             Fields == {"status", "activeSession", "queueSize", "inflight", "running", "active",
                        "leases", "slots", "pendingRestore", "session", "results"}
             Same(a, b) == /\ b.results = a.results /\ b.pendingRestore = a.pendingRestore
                           /\ b.session = a.session /\ b.queueSize = a.queueSize
             Left(b) == /\ b.results = s.results /\ b.pendingRestore = s.pendingRestore
                        /\ \/ b.session = s.session /\ b.queueSize = s.queueSize
                           \/ MaxConcurrency = 1 /\ b.session = Failing(s.session)
  <1>1. TouchExternalLease(s, k, ttl, reserve) \in {p, r}
    BY DEF TouchExternalLease
  <1>2. /\ WellFormed(p) /\ Still(s, p) /\ DOMAIN p = Fields
        /\ p.slots \in [LeaseKeys -> Expiry] /\ p.leases \in [LeaseKeys -> Expiry]
    BY PruneReservedSlotsWellFormed, PruneReservedSlotsStill DEF WellFormed, Store
  <1>3. ASSUME NEW j \in LeaseKeys, s.slots[j] > 0
        PROVE  Holds(p, j) /\ p.slots[j] > 0 /\ p.leases[j] = p.slots[j]
    BY <1>2, <1>3 DEF Still, KeepsSlots, Holds, Absent, WellFormed, Backed
  <1>4. ttl > 0
    BY LeasesAssumption
  <1>5. s.slots[k] > 0 => slot = ttl
    BY <1>3
  <1> HIDE DEF p, slot
  <1>6. /\ Same(p, t) /\ DOMAIN t = Fields
        /\ t.leases = [p.leases EXCEPT ![k] = ttl] /\ t.slots = [p.slots EXCEPT ![k] = slot]
    BY <1>2
  <1> HIDE DEF t
  <1>7. /\ f.results = t.results /\ f.pendingRestore = t.pendingRestore /\ DOMAIN f = Fields
        /\ f.leases = t.leases /\ f.slots = t.slots
        /\ \/ f.session = t.session /\ f.queueSize = t.queueSize
           \/ MaxConcurrency = 1 /\ f.session = Failing(t.session)
    BY <1>6 DEF FailQueuedSessions, Failing
  <1> HIDE DEF f
  <1>8. Same(f, g) /\ DOMAIN g = Fields /\ g.leases = f.leases /\ g.slots = f.slots
    BY <1>7 DEF SyncStatus
  <1> HIDE DEF g
  <1>9. /\ Same(g, r)
        /\ r.slots = [j \in LeaseKeys |->
                        IF j \in {i \in {k[1]} \X Leases : g.leases[i] = 0} THEN Absent ELSE g.slots[j]]
    BY <1>8 DEF RefreshActivity
  <1> HIDE DEF r
  <1>10. Left(r) /\ Left(p)
    BY <1>2, <1>6, <1>7, <1>8, <1>9 DEF Still
  <1>11. KeepsLive(s, r)
    <2> SUFFICES ASSUME NEW j \in LeaseKeys, s.slots[j] > 0
                 PROVE  Holds(r, j)
      BY DEF KeepsLive
    <2>1. g.leases[j] > 0 /\ g.slots[j] > 0
      BY <1>2, <1>3, <1>4, <1>5, <1>6, <1>7, <1>8
    <2> QED
      BY <1>9, <2>1 DEF Holds, Absent
  <1>12. KeepsLive(s, p)
    BY <1>3 DEF KeepsLive
  <1> QED
    BY <1>1, <1>10, <1>11, <1>12

\* A release leaves the sessions and the slots of the other leases.
LEMMA ReleaseExternalLeaseDrops ==
  ASSUME NEW s, WellFormed(s), NEW k \in LeaseKeys
  PROVE  LET r == ReleaseExternalLease(s, k)
         IN  /\ r.results = s.results /\ r.pendingRestore = s.pendingRestore
             /\ r.session = s.session /\ r.queueSize = s.queueSize
  BY DEF ReleaseExternalLease, RefreshActivity, SyncStatus, WellFormed, Store

\* The cleanup expires old sessions with their results and leaves live slots.
LEMMA CleanupExpiredDrops ==
  ASSUME NEW s, WellFormed(s), NEW old
  PROVE  LET r == CleanupExpired(s, old)
         IN  /\ r.results = s.results \ old /\ r.pendingRestore = s.pendingRestore
             /\ r.session = [x \in Sessions |-> IF x \in old THEN "expired" ELSE s.session[x]]
             /\ r.queueSize = s.queueSize /\ KeepsLive(s, r)
  <1> DEFINE p == RefreshActivity(s, Services)
  <1>1. Still(s, p) /\ WellFormed(p)
    BY RefreshActivityStill, RefreshActivityWellFormed
  <1> HIDE DEF p
  <1>2. KeepsLive(s, p)
    BY <1>1 DEF Still, KeepsSlots, KeepsLive, Holds, Absent
  <1> QED
    BY <1>1, <1>2 DEF CleanupExpired, p, Still, KeepsLive, Holds, WellFormed, Store

\* Time leaves the sessions, and a slot reserved even when it runs out.
LEMMA ElapseDrops ==
  ASSUME NEW s, WellFormed(s)
  PROVE  /\ Elapse(s).results = s.results /\ Elapse(s).pendingRestore = s.pendingRestore
         /\ Elapse(s).session = s.session /\ Elapse(s).queueSize = s.queueSize
         /\ KeepsLive(s, Elapse(s))
  <1>1. Elapse(s).slots = Older(s.slots) /\ s.slots \in [LeaseKeys -> Expiry]
    BY DEF Elapse, WellFormed, Store
  <1>2. KeepsLive(s, Elapse(s))
    BY <1>1, LeasesAssumption DEF KeepsLive, Holds, Older, Absent, Expiry
  <1> QED
    BY <1>2 DEF Elapse, WellFormed, Store

\* A step of the store in which sessions only fail while they wait, or expire.
LEMMA DroppingKeeps ==
  ASSUME WorkInv, queue \in Seq(Sessions), UNCHANGED <<queue, task>>,
         store'.pendingRestore = store.pendingRestore,
         \A x \in Sessions :
            \/ store'.session[x] = store.session[x]
            \/ store.session[x] = "queued" /\ store'.session[x] = "failed"
            \/ store.session[x] \in {"finished", "failed"} /\ store'.session[x] = "expired",
         store'.results = {x \in Sessions : store'.session[x] = "finished"}
  PROVE  WorkInv'
  <1>1. WorkersInPlace'
    <2> SUFFICES ASSUME NEW t \in Workers
                 PROVE  InPlace(task[t], store'.session)
      BY DEF WorkersInPlace
    <2>1. InPlace(task[t], store.session)
      BY DEF WorkInv, WorkersInPlace
    <2> QED
      BY <2>1 DEF InPlace, Unserved, Terminal
  <1>2. HandlersFree'
    BY DEF WorkInv, HandlersFree
  <1>3. \A x \in Sessions : store.session[x] \in Unserved => store'.session[x] \in Unserved
    BY DEF Unserved
  <1>4. \A x, P : HeldAt(x, P) => HeldAt(x, P)'
    BY DEF HeldAt
  <1>5. Served'
    BY <1>4 DEF WorkInv, Served, Waiting
  <1>6. Remembered'
    BY <1>4 DEF WorkInv, Remembered
  <1>7. \A i \in DOMAIN queue : queue[i] \in Sessions
    OBVIOUS
  <1>8. Exclusive'
    BY <1>3, <1>7 DEF WorkInv, Exclusive
  <1> QED
    BY <1>1, <1>2, <1>5, <1>6, <1>8 DEF WorkInv, ResultIffFinished

\* A session is submitted: it waits in the queue.
LEMMA SubmitKeeps ==
  ASSUME IInv, WorkInv, NEW x \in Sessions, Submit(x)
  PROVE  WorkInv'
  <1> DEFINE p == PruneReservedSlots(store)
             c == CreateSession(p, x)
  <1>1. WellFormed(p) /\ Still(store, p) /\ queue \in Seq(Sessions) /\ store \in Store
    BY PruneReservedSlotsWellFormed, PruneReservedSlotsStill DEF IInv, WellFormed
  <1>2. /\ store.session[x] = "unsubmitted" /\ UNCHANGED task
        /\ \/ store' = c /\ queue' = Append(queue, x)
           \/ store' = p /\ UNCHANGED queue
    BY DEF Submit
  <1>3. CASE store' = p /\ UNCHANGED queue
    BY <1>1, <1>2, <1>3, NoWorkerMoves DEF Still, WorkInv, HandlersFree
  <1>4. CASE store' = c /\ queue' = Append(queue, x)
    <2>1. /\ c.session = [store.session EXCEPT ![x] = "queued"] /\ c.results = store.results
          /\ c.pendingRestore = store.pendingRestore
      BY <1>1 DEF CreateSession, Still, WellFormed, Store
    <2> HIDE DEF c, p
    <2>2. /\ store'.session[x] = "queued" /\ store'.results = store.results
          /\ \A y \in Sessions \ {x} : store'.session[y] = store.session[y]
          /\ store'.pendingRestore = store.pendingRestore
      BY <1>1, <1>4, <2>1 DEF Store
    <2>3. \A i \in DOMAIN queue : queue[i] \in Sessions \ {x}
      BY <1>1, <1>2 DEF WorkInv, Exclusive, Unserved
    <2>4. \A t \in Workers : task[t].session # x
      <3> SUFFICES ASSUME NEW t \in Workers, task[t].session = x
                   PROVE  FALSE
        OBVIOUS
      <3>1. InPlace(task[t], store.session) /\ x # None
        BY SessionsAssumption DEF WorkInv, WorkersInPlace
      <3> QED
        BY <1>2, <3>1 DEF InPlace, Unserved, Terminal
    <2>5. WorkersInPlace'
      BY <1>2, <2>2, <2>4 DEF WorkInv, WorkersInPlace, InPlace
    <2>6. /\ DOMAIN queue' = DOMAIN queue \cup {Len(queue) + 1} /\ queue'[Len(queue) + 1] = x
          /\ \A i \in DOMAIN queue : queue'[i] = queue[i] /\ i # Len(queue) + 1
      BY <1>1, <1>4
    <2>7. Exclusive'
      <3>1. \A i, j \in DOMAIN queue' : queue'[i] = queue'[j] => i = j
        BY <2>3, <2>6 DEF WorkInv, Exclusive
      <3>2. \A i \in DOMAIN queue' : /\ store'.session[queue'[i]] \in Unserved
                                     /\ \A t \in Workers : task[t].session # queue'[i]
        BY <2>2, <2>3, <2>4, <2>6 DEF WorkInv, Exclusive, Unserved
      <3> QED
        BY <1>2, <3>1, <3>2 DEF WorkInv, Exclusive
    <2>8. \A y : Waiting(y) => Waiting(y)'
      BY <2>6 DEF Waiting
    <2>9. Waiting(x)'
      BY <2>6 DEF Waiting
    <2>10. \A y, P : HeldAt(y, P) => HeldAt(y, P)'
      BY <1>2 DEF HeldAt
    <2>11. Served'
      BY <2>2, <2>8, <2>9, <2>10 DEF WorkInv, Served
    <2>12. Remembered'
      <3>1. store'.pendingRestore[x] = << >>
        BY <1>2, <2>2 DEF WorkInv, Remembered
      <3> QED
        BY <2>2, <2>10, <3>1 DEF WorkInv, Remembered
    <2> QED
      BY <1>2, <2>2, <2>5, <2>7, <2>11, <2>12 DEF WorkInv, HandlersFree, ResultIffFinished
  <1> QED
    BY <1>2, <1>3, <1>4

\* A request to start, stop or probe a service.
LEMMA AskHandled ==
  ASSUME IInv, WorkInv, NEW h \in Handlers, NEW v \in Services,
         StartService(h, v) \/ StopService(h, v) \/ Healthcheck(h, v)
  PROVE  OnlyMoves(h) /\ task'[h].session = None /\ Still(store, store') /\ UNCHANGED queue
  <1> USE DEF IInv
  <1>1. h \in Tasks /\ task[h].session = None /\ Still(store, store)
    BY DEF Tasks, WorkInv, HandlersFree, Still, KeepsSlots
  <1>2. CASE StartService(h, v)
    BY <1>1, <1>2, AcquireOutcome DEF StartService, Outcome, Handled
  <1>3. CASE StopService(h, v)
    <2> DEFINE r == RefreshActivity(store, {v})
               f == [r EXCEPT !.status[v] = "stopping"]
    <2>1. Still(store, r) /\ WellFormed(r)
      BY RefreshActivityStill, RefreshActivityWellFormed
    <2>2. /\ UNCHANGED queue
          /\ \/ store' = r /\ UNCHANGED task
             \/ store' = f /\ Become(h, At("stop", v, None))
      BY <1>3 DEF StopService
    <2> HIDE DEF r
    <2>3. Still(r, f)
      BY <2>1 DEF Still, KeepsSlots, WellFormed, Store
    <2> HIDE DEF f
    <2>4. CASE store' = r /\ UNCHANGED task
      BY <1>1, <2>1, <2>2, <2>4 DEF OnlyMoves
    <2>5. CASE store' = f /\ Become(h, At("stop", v, None))
      BY <1>1, <2>1, <2>2, <2>3, <2>5, AtStops, StillTrans DEF Stops
    <2> QED
      BY <2>2, <2>4, <2>5
  <1>4. CASE Healthcheck(h, v)
    BY <1>1, <1>4, AtStops DEF Healthcheck, Stops
  <1> QED
    BY <1>2, <1>3, <1>4

\* A touch, a release, a cleanup, or time.
LEMMA LeaseStepKeeps ==
  ASSUME IInv, WorkInv,
         \/ \E k \in LeaseKeys : ReleaseLease(k)
         \/ \E k \in LeaseKeys, ttl \in 1 .. MaxTtl, reserve \in BOOLEAN :
                TouchLease(k, ttl, reserve)
         \/ \E old \in SUBSET Expirable(store) : Cleanup(old)
         \/ Environment
  PROVE  WorkInv'
  <1> DEFINE Fin(s) == {x \in Sessions : s.session[x] = "finished"}
  <1>1. WellFormed(store) /\ store.results = Fin(store) /\ queue \in Seq(Sessions)
    BY DEF IInv, WorkInv, ResultIffFinished
  <1>2. ASSUME UNCHANGED <<queue, task>>, store'.session = store.session,
               store'.results = store.results, store'.pendingRestore = store.pendingRestore
        PROVE  WorkInv'
    BY <1>2, NoWorkerMoves DEF WorkInv, HandlersFree
  <1>3. ASSUME NEW k \in LeaseKeys, ReleaseLease(k)
        PROVE  WorkInv'
    <2>1. UNCHANGED <<queue, task>> /\ store' = ReleaseExternalLease(store, k)
      BY <1>3 DEF ReleaseLease
    <2> QED
      BY <1>1, <1>2, <2>1, ReleaseExternalLeaseDrops
  <1>4. ASSUME NEW k \in LeaseKeys, NEW ttl \in 1 .. MaxTtl, NEW reserve \in BOOLEAN,
               TouchLease(k, ttl, reserve)
        PROVE  WorkInv'
    <2>1. UNCHANGED <<queue, task>> /\ store' = TouchExternalLease(store, k, ttl, reserve)
      BY <1>4 DEF TouchLease
    <2>2. /\ store'.results = store.results /\ store'.pendingRestore = store.pendingRestore
          /\ store'.session = store.session \/ store'.session = Failing(store.session)
      BY <1>1, <2>1, TouchExternalLeaseDrops
    <2>3. CASE store'.session = store.session
      BY <1>2, <2>1, <2>2, <2>3
    <2>4. CASE store'.session = Failing(store.session)
      <3>1. store'.results = Fin(store')
        BY <1>1, <2>2, <2>4 DEF Failing
      <3> QED
        BY <1>1, <2>1, <2>2, <2>4, <3>1, DroppingKeeps DEF Failing
    <2> QED
      BY <2>2, <2>3, <2>4
  <1>5. ASSUME NEW old \in SUBSET Expirable(store), Cleanup(old)
        PROVE  WorkInv'
    <2>1. UNCHANGED <<queue, task>> /\ store' = CleanupExpired(store, old)
      BY <1>5 DEF Cleanup
    <2>2. /\ store'.results = store.results \ old /\ store'.pendingRestore = store.pendingRestore
          /\ store'.session = [x \in Sessions |-> IF x \in old THEN "expired" ELSE store.session[x]]
      BY <1>1, <2>1, CleanupExpiredDrops
    <2>3. store'.results = Fin(store')
      BY <1>1, <2>2
    <2>4. \A x \in old : store.session[x] \in {"finished", "failed"}
      BY DEF Expirable
    <2> QED
      BY <1>1, <2>1, <2>2, <2>3, <2>4, DroppingKeeps
  <1>6. CASE Tick
    <2>1. UNCHANGED <<queue, task>> /\ store' = Elapse(store)
      BY <1>6 DEF Tick
    <2> QED
      BY <1>1, <1>2, <2>1, ElapseDrops
  <1>7. ASSUME NEW v \in Services, Crash(v)
        PROVE  WorkInv'
    BY <1>2, <1>7 DEF Crash
  <1> QED
    BY <1>3, <1>4, <1>5, <1>6, <1>7 DEF Environment

-----------------------------------------------------------------------------
(* The invariant, and what follows from it.                                *)

\* No session has been submitted, and every task is idle.
LEMMA InitWorkInv == Init => WorkInv
  <1> SUFFICES ASSUME Init PROVE WorkInv
    OBVIOUS
  <1>1. /\ queue = << >> /\ task = [t \in Tasks |-> Idle]
        /\ store.results = {}
        /\ \A x \in Sessions : store.session[x] = "unsubmitted" /\ store.pendingRestore[x] = << >>
    BY DEF Init, InitialStore
  <1>2. Workers \subseteq Tasks /\ Handlers \subseteq Tasks
    BY DEF Tasks
  <1>3. \A t \in Tasks : task[t].pc = "idle" /\ task[t].session = None
    BY <1>1 DEF Idle, At
  <1>4. WorkersInPlace /\ HandlersFree /\ Served
    BY <1>1, <1>2, <1>3 DEF WorkersInPlace, InPlace, HandlersFree, Served
  <1>5. Exclusive
    BY <1>1, <1>2, <1>3 DEF Exclusive
  <1>6. Remembered /\ ResultIffFinished
    BY <1>1 DEF Remembered, ResultIffFinished
  <1> QED
    BY <1>4, <1>5, <1>6 DEF WorkInv

\* Every step keeps it.
LEMMA NextWorkInv == IInv /\ WorkInv /\ [Next]_vars => WorkInv'
  <1> SUFFICES ASSUME IInv, WorkInv, [Next]_vars PROVE WorkInv'
    OBVIOUS
  <1>1. CASE UNCHANGED vars
    BY <1>1, NoWorkerMoves DEF vars, WorkInv, HandlersFree
  <1>2. ASSUME NEW t \in Workers, WorkerStep(t)
        PROVE  WorkInv'
    BY <1>2, WorkerStepKeeps
  <1>3. ASSUME NEW h \in Handlers, HandlerStep(h)
        PROVE  WorkInv'
    BY <1>3, HandlerStepHandled, HandledKeeps
  <1>4. ASSUME NEW x \in Sessions, Submit(x)
        PROVE  WorkInv'
    BY <1>4, SubmitKeeps
  <1>5. ASSUME NEW h \in Handlers, NEW v \in Services,
               StartService(h, v) \/ StopService(h, v) \/ Healthcheck(h, v)
        PROVE  WorkInv'
    BY <1>5, AskHandled, HandledKeeps DEF Handled
  <1> QED
    BY <1>1, <1>2, <1>3, <1>4, <1>5, LeaseStepKeeps DEF Next, Request

\* The invariant holds throughout.
LEMMA WorkInvHolds == Spec => []WorkInv
  BY InitIInv, NextIInv, InitWorkInv, NextWorkInv, PTL DEF Spec

\* A result is stored exactly for the sessions that show "finished".
THEOREM ResultIffFinishedHolds == Spec => []ResultIffFinished
  <1>1. WorkInv => ResultIffFinished
    BY DEF WorkInv
  <1> QED
    BY <1>1, WorkInvHolds, PTL

\* What was reclaimed for a session of a ONCE service is considered for restoring
\* before its worker returns, whatever failed on the way.
THEOREM RestoreConsideredHolds == Spec => []RestoreConsidered
  <1>1. WorkInv => RestoreConsidered
    BY DEF WorkInv, Remembered, HeldAt, RestoreConsidered
  <1> QED
    BY <1>1, WorkInvHolds, PTL

\* Every session in progress has exactly one owner, the queue or one worker, and
\* shows "processing" only while that worker forwards it.
THEOREM SessionOwnedHolds == Spec => []SessionOwned
  <1>1. WorkInv => SessionOwned
    <2> SUFFICES ASSUME WorkInv, NEW x \in Sessions
                 PROVE  LET owners == {t \in Workers : Handling(t, x)}
                        IN  /\ store.session[x] \in {"queued", "starting", "processing"} =>
                                   Cardinality(owners) + (IF Waiting(x) THEN 1 ELSE 0) = 1
                            /\ store.session[x] = "processing" <=>
                                   \E t \in owners : task[t].pc = "forward"
      BY DEF SessionOwned
    <2> DEFINE owners == {t \in Workers : Handling(t, x)}
    <2>1. x # None
      BY SessionsAssumption
    <2>2. \A t, u \in owners : t = u
      BY <2>1 DEF WorkInv, Exclusive, Handling
    <2>3. Waiting(x) => owners = {} /\ store.session[x] \in Unserved
      BY DEF WorkInv, Exclusive, Handling, Waiting
    <2>4. \A t \in owners : InPlace(task[t], store.session) /\ task[t].session = x
      BY DEF WorkInv, WorkersInPlace, Handling
    <2>5. store.session[x] \in {"queued", "starting", "processing"} => Waiting(x) \/ owners # {}
      BY DEF WorkInv, Served, HeldAt, Handling, Waits
    <2>6. store.session[x] = "processing" => \E t \in owners : task[t].pc = "forward"
      BY DEF WorkInv, Served, HeldAt, Handling
    <2>7. \A t \in owners : task[t].pc = "forward" => store.session[x] = "processing"
      BY <2>1, <2>4 DEF InPlace, Waits
    <2>8. Cardinality({}) = 0 /\ \A t : Cardinality({t}) = 1
      BY FS_EmptySet, FS_Singleton
    <2>9. owners = {} \/ \E t : owners = {t}
      BY <2>2
    <2> HIDE DEF owners
    <2>10. store.session[x] \in {"queued", "starting", "processing"} =>
               Cardinality(owners) + (IF Waiting(x) THEN 1 ELSE 0) = 1
      <3>1. CASE Waiting(x)
        <4>1. Cardinality(owners) = 0
          BY <2>3, <2>8, <3>1
        <4> QED
          BY <3>1, <4>1
      <3>2. CASE ~Waiting(x) /\ owners # {}
        <4>1. Cardinality(owners) = 1
          BY <2>8, <2>9, <3>2
        <4> QED
          BY <3>2, <4>1
      <3> QED
        BY <2>5, <3>1, <3>2
    <2> QED
      BY <2>6, <2>7, <2>10 DEF owners
  <1> QED
    BY <1>1, WorkInvHolds, PTL

-----------------------------------------------------------------------------
(* What a worker's step does to the sessions and the slots.                *)

\* The worker t moves the session x it has, or takes it from the queue, from the
\* status it shows to st.
Advances(t, x, st) ==
    /\ OnlyMoves(t)
    /\ task[t].session = x \/ Waiting(x)
    /\ store'.session = [store.session EXCEPT ![x] = st]
    /\ \/ /\ st = store.session[x]
          /\ task'[t].pc \in Waits => task[t].pc \in Waits \cup {"idle"} /\ task'[t].session = x
       \/ /\ task'[t].pc \notin Waits
          /\ \/ task[t].pc \in Waits \cup {"idle"} /\ st \in {"starting", "processing", "failed"}
             \/ task[t].pc \in {"start", "health"} /\ st \in {"processing", "failed"}
             \/ task[t].pc = "forward" /\ st \in {"finished", "failed"}
    /\ KeepsSlots(store, store')

Progress(t, x) == \E st \in SessionStatus : Advances(t, x, st)

\* A run that has ended,
LEMMA EndedAdvances ==
  ASSUME NEW t, NEW v, NEW x \in Sessions, NEW s, Ended(t, v, x, s), NEW st,
         s.session = [store.session EXCEPT ![x] = st], KeepsSlots(store, s),
         task[t].session = x \/ Waiting(x),
         \/ st = store.session[x]
         \/ task[t].pc \in Waits \cup {"idle"} /\ st = "failed"
         \/ task[t].pc \in {"start", "health"} /\ st = "failed"
         \/ task[t].pc = "forward" /\ st \in {"finished", "failed"}
  PROVE  Advances(t, x, st) /\ store'.queueSize = s.queueSize
  <1>1. task'[t].pc \notin Waits
    BY DEF Ended, Stops, Idle, At, Waits
  <1>2. KeepsSlots(store, store')
    BY DEF Ended, KeepsSlots
  <1> QED
    BY <1>1, <1>2 DEF Ended, Advances

\* after an exception,
LEMMA RaiseAdvances ==
  ASSUME TaskOK(task), WellFormed(store), NEW t \in Tasks, NEW v \in Services,
         NEW x \in Sessions, Raise(t, v, x, store), task[t].session = x,
         task[t].pc \in Waits \cup {"start", "health", "forward"}
  PROVE  Advances(t, x, "failed") /\ store'.queueSize = store.queueSize
  <1> DEFINE f == [store EXCEPT !.session[x] = "failed"]
  <1>1. /\ f \in Store /\ f.leases = store.leases /\ f.slots = store.slots
        /\ f.session = [store.session EXCEPT ![x] = "failed"] /\ f.queueSize = store.queueSize
    BY DEF WellFormed, Store, SessionStatus
  <1>2. AfterRun(t, v, x, Finally(f, v, x))
    BY SessionsAssumption DEF Raise
  <1> HIDE DEF f
  <1>3. Ended(t, v, x, f)
    BY <1>1, <1>2, SameTables, FinallyEnds
  <1>4. KeepsSlots(store, f)
    BY <1>1 DEF KeepsSlots
  <1> QED
    BY <1>1, <1>3, <1>4, EndedAdvances

\* and short of that.
LEMMA WorkedAdvances ==
  ASSUME store \in Store, NEW t, NEW v, NEW x \in Sessions, NEW s \in Store,
         Worked(t, v, x, s), s.session = store.session, KeepsSlots(store, s),
         task[t].session = x \/ Waiting(x),
         \/ task[t].pc \in Waits \cup {"idle"}
         \/ task[t].pc \in {"start", "health"} /\ task'[t].pc \notin Waits \cup {"start"}
  PROVE  /\ Progress(t, x)
         /\ store'.queueSize = s.queueSize
  <1>1. store.session[x] \in SessionStatus
        /\ store.session = [store.session EXCEPT ![x] = store.session[x]]
    BY DEF Store
  <1>2. CASE Ended(t, v, x, [s EXCEPT !.session[x] = "failed"])
    <2> DEFINE f == [s EXCEPT !.session[x] = "failed"]
    <2>1. f.session = [store.session EXCEPT ![x] = "failed"] /\ f.slots = s.slots
          /\ f.queueSize = s.queueSize
      BY DEF Store
    <2>2. Ended(t, v, x, f)
      BY <1>2
    <2> HIDE DEF f
    <2>3. Advances(t, x, "failed") /\ store'.queueSize = s.queueSize
      BY <2>1, <2>2, EndedAdvances DEF KeepsSlots
    <2> QED
      BY <2>3 DEF SessionStatus, Progress
  <1>3. CASE ~Ended(t, v, x, [s EXCEPT !.session[x] = "failed"])
    <2>1. /\ OnlyMoves(t) /\ store'.queueSize = s.queueSize /\ KeepsSlots(s, store')
          /\ \/ Stops(t, Waits, v, x) /\ store'.session = store.session
             \/ Stops(t, {"start"}, v, x) /\ store'.session = [store.session EXCEPT ![x] = "starting"]
             \/ Stops(t, {"forward"}, v, x) /\ store'.session = [store.session EXCEPT ![x] = "processing"]
             \/ /\ task'[t] = Idle
                /\ store'.session = [store.session EXCEPT ![x] = "failed"]
      BY <1>3 DEF Worked
    <2>2. KeepsSlots(store, store')
      BY <2>1 DEF KeepsSlots
    <2>3. CASE Stops(t, Waits, v, x) /\ store'.session = store.session
      <3>1. Advances(t, x, store.session[x])
        BY <1>1, <2>1, <2>2, <2>3 DEF Advances, Stops, Waits
      <3> QED
        BY <1>1, <2>1, <3>1 DEF Progress
    <2>4. CASE Stops(t, {"start"}, v, x) /\ store'.session = [store.session EXCEPT ![x] = "starting"]
      <3>1. Advances(t, x, "starting")
        BY <2>1, <2>2, <2>4 DEF Advances, Stops, Waits
      <3> QED
        BY <2>1, <3>1 DEF SessionStatus, Progress
    <2>5. CASE Stops(t, {"forward"}, v, x) /\ store'.session = [store.session EXCEPT ![x] = "processing"]
      <3>1. Advances(t, x, "processing")
        BY <2>1, <2>2, <2>5 DEF Advances, Stops, Waits
      <3> QED
        BY <2>1, <3>1 DEF SessionStatus, Progress
    <2>6. CASE task'[t] = Idle /\ store'.session = [store.session EXCEPT ![x] = "failed"]
      <3>1. Advances(t, x, "failed")
        BY <2>1, <2>2, <2>6 DEF Advances, Idle, At, Waits
      <3> QED
        BY <2>1, <3>1 DEF SessionStatus, Progress
    <2> QED
      BY <2>1, <2>3, <2>4, <2>5, <2>6
  <1> QED
    BY <1>2, <1>3

\* A section that leaves the sessions and does not begin a wait.
LEMMA StaysAdvances ==
  ASSUME store \in Store, NEW t, NEW x \in Sessions, OnlyMoves(t), task[t].session = x,
         Still(store, store'),
         task'[t].pc \in Waits => task[t].pc \in Waits /\ task'[t].session = x
  PROVE  /\ Progress(t, x)
         /\ store'.queueSize = store.queueSize
  <1>1. store.session[x] \in SessionStatus
        /\ store.session = [store.session EXCEPT ![x] = store.session[x]]
    BY DEF Store
  <1>2. Advances(t, x, store.session[x])
    BY <1>1 DEF Advances, Still
  <1> QED
    BY <1>1, <1>2 DEF Still, Progress

\* A section of a start.
LEMMA StartStepAdvances ==
  ASSUME IInv, NEW t \in Workers, NEW v \in Services, NEW x \in Sessions,
         StartStep(t, v, x)
  PROVE  Progress(t, x) /\ UNCHANGED queue /\ store'.queueSize = store.queueSize
  <1> USE DEF IInv
  <1>1. t \in Tasks /\ store \in Store /\ x # None /\ Still(store, store)
    BY SessionsAssumption DEF Tasks, WellFormed, Still, KeepsSlots
  <1>2. /\ UNCHANGED queue /\ task[t].session = x /\ task[t].service = v
        /\ task[t].pc \in Waits \cup {"start", "health"}
    BY DEF StartStep, LockGranted, ReclaimStops, ReclaimStopFails, CapacityRetry,
           CapacityTimeout, StartSucceeds, StartFails, HealthyAfterStart, HealthTimeout, On, Waits
  <1> DEFINE Goal == Progress(t, x) /\ store'.queueSize = store.queueSize
  <1> SUFFICES Goal
    BY <1>2
  <1>3. ASSUME NEW s, WellFormed(s), Still(store, s), Worked(t, v, x, s),
               \/ task[t].pc \in Waits
               \/ task[t].pc = "health" /\ task'[t].pc \notin Waits \cup {"start"}
        PROVE  Goal
    BY <1>1, <1>2, <1>3, WorkedAdvances DEF Still, WellFormed, Progress
  <1> HIDE DEF Goal
  <1>4. CASE Raise(t, v, x, store)
    <2>1. Advances(t, x, "failed") /\ store'.queueSize = store.queueSize
      BY <1>1, <1>2, <1>4, RaiseAdvances
    <2> QED
      BY <2>1 DEF Progress, SessionStatus, Goal
  <1>5. CASE LockGranted(t, v, x)
    <2>1. Outcome(t, v, x, store) /\ task[t].pc \in Waits
      BY <1>1, <1>5, LockedOutcome DEF LockGranted, On, Waits
    <2>2. Worked(t, v, x, store)
      BY <1>1, <2>1 DEF Outcome
    <2> QED
      BY <1>1, <1>3, <2>1, <2>2
  <1>6. CASE ReclaimStops(t, v, x)
    <2> DEFINE r == task[t]
               w == Head(r.todo)
               s == MarkServiceStopped(store, w)
               taken == Append(r.taken, w)
               free == r.free + Usage[w]
               p == [s EXCEPT !.pendingRestore[x] = taken]
               q == [r EXCEPT !.todo = Tail(r.todo), !.taken = taken, !.free = free]
    <2>1. r \in TaskState /\ r.todo # << >> /\ r.pc = "reclaim"
      BY <1>1, <1>6 DEF ReclaimStops, On, TaskOK
    <2>2. w \in Services /\ taken \in Seq(Services)
      BY <2>1 DEF TaskState
    <2>3. WellFormed(s) /\ Still(store, s)
      BY <2>2, MarkServiceStoppedWellFormed, MarksStill
    <2>4. Launch(t, v, x, p) \/ Sleep(t, v, x, s) \/ (store' = s /\ Become(t, q))
      BY <1>1, <1>6 DEF ReclaimStops
    <2>5. q.pc = "reclaim" /\ q.session = x
      BY <1>2, <2>1 DEF TaskState
    <2> HIDE DEF s, taken, q
    <2>6. WellFormed(p)
      BY <2>2, <2>3, PendingRestoreWellFormed
    <2>7. p.session = s.session /\ p.queueSize = s.queueSize /\ p.slots = s.slots
      BY <2>3 DEF WellFormed, Store
    <2> HIDE DEF p
    <2>8. CASE Launch(t, v, x, p)
      <3>1. Worked(t, v, x, p)
        BY <1>1, <2>6, <2>8, LaunchOutcome DEF Outcome
      <3>2. p.session = store.session /\ KeepsSlots(store, p) /\ p.queueSize = store.queueSize
        BY <2>3, <2>7 DEF Still, KeepsSlots
      <3> QED
        BY <1>1, <1>2, <2>1, <2>6, <3>1, <3>2, WorkedAdvances DEF WellFormed, Progress, Waits, Goal
    <2>9. CASE Sleep(t, v, x, s)
      <3>1. Worked(t, v, x, store)
        BY <1>1, <2>3, <2>9, SleepOutcome DEF Outcome
      <3>2. task[t].pc \in Waits
        BY <2>1 DEF Waits
      <3> QED
        BY <1>1, <1>3, <3>1, <3>2
    <2>10. CASE store' = s /\ Become(t, q)
      <3>1. OnlyMoves(t) /\ task'[t] = q
        BY <1>1, <2>10, BecomeMoves
      <3> QED
        BY <1>1, <1>2, <2>1, <2>3, <2>5, <2>10, <3>1, StaysAdvances DEF Waits, Goal
    <2> QED
      BY <2>4, <2>8, <2>9, <2>10
  <1>7. CASE ReclaimStopFails(t, v, x)
    <2>1. Outcome(t, v, x, store) /\ task[t].pc \in Waits
      BY <1>1, <1>7, SleepOutcome DEF ReclaimStopFails, On, Waits
    <2>2. Worked(t, v, x, store)
      BY <1>1, <2>1 DEF Outcome
    <2> QED
      BY <1>1, <1>3, <2>1, <2>2
  <1>8. CASE CapacityRetry(t, v, x)
    <2>1. Outcome(t, v, x, store) /\ task[t].pc \in Waits
      BY <1>1, <1>8, CapacityOutcome DEF CapacityRetry, On, Waits
    <2>2. Worked(t, v, x, store)
      BY <1>1, <2>1 DEF Outcome
    <2> QED
      BY <1>1, <1>3, <2>1, <2>2
  <1>9. CASE StartSucceeds(t, v, x)
    <2>1. OnlyMoves(t) /\ task'[t].pc = "health" /\ Still(store, store')
      BY <1>1, <1>9, AtStops DEF StartSucceeds, Stops
    <2> QED
      BY <1>1, <1>2, <2>1, StaysAdvances DEF Waits, Progress, Goal
  <1>10. CASE HealthyAfterStart(t, v, x)
    <2> DEFINE s == MarkServiceStarted(store, v)
    <2>1. WellFormed(s) /\ Still(store, s)
      BY MarkServiceStartedWellFormed, MarksStill
    <2>2. Forward(t, v, x, s) /\ task[t].pc = "health"
      BY <1>1, <1>10 DEF HealthyAfterStart, On
    <2> HIDE DEF s
    <2>3. Worked(t, v, x, s) /\ task'[t].pc \notin Waits \cup {"start"}
      BY <1>1, <2>1, <2>2, ForwardWorked
    <2> QED
      BY <1>3, <2>1, <2>2, <2>3
  <1> QED
    BY <1>2, <1>4, <1>5, <1>6, <1>7, <1>8, <1>9, <1>10
    DEF StartStep, CapacityTimeout, StartFails, HealthTimeout, Goal

\* A section after the start.
LEMMA RunStepAdvances ==
  ASSUME IInv, NEW t \in Workers, NEW v \in Services, NEW x \in Sessions, RunStep(t, v, x)
  PROVE  Progress(t, x) /\ UNCHANGED queue /\ store'.queueSize = store.queueSize
  <1> USE DEF IInv
  <1>1. t \in Tasks /\ store \in Store /\ x # None /\ Still(store, store)
    BY SessionsAssumption DEF Tasks, WellFormed, Still, KeepsSlots
  <1>2. /\ UNCHANGED queue /\ task[t].session = x /\ task[t].service = v
    BY DEF RunStep, ForwardReturns, ForwardFails, OnceStops, OnceStopFails, RestoreStarts,
           RestoreHealthy, RestoreFails, On
  <1>3. ASSUME OnlyMoves(t), Still(store, store'), task'[t].pc \notin Waits
        PROVE  Progress(t, x) /\ store'.queueSize = store.queueSize
    BY <1>1, <1>2, <1>3, StaysAdvances DEF Progress
  <1>4. CASE ForwardReturns(t, v, x)
    <2> DEFINE s == [store EXCEPT !.results = @ \cup {x}, !.session[x] = "finished"]
    <2>1. /\ s \in Store /\ s.leases = store.leases /\ s.slots = store.slots
          /\ s.session = [store.session EXCEPT ![x] = "finished"] /\ s.queueSize = store.queueSize
      BY DEF WellFormed, Store, SessionStatus
    <2>2. AfterRun(t, v, x, Finally(s, v, x)) /\ task[t].pc = "forward"
      BY <1>4 DEF ForwardReturns, On
    <2> HIDE DEF s
    <2>3. Ended(t, v, x, s)
      BY <1>1, <2>1, <2>2, SameTables, FinallyEnds
    <2>4. KeepsSlots(store, s)
      BY <2>1 DEF KeepsSlots
    <2>5. Advances(t, x, "finished") /\ store'.queueSize = store.queueSize
      BY <1>2, <2>1, <2>2, <2>3, <2>4, EndedAdvances
    <2> QED
      BY <1>2, <2>5 DEF Progress, SessionStatus
  <1>5. CASE ForwardFails(t, v, x)
    <2>1. Advances(t, x, "failed") /\ store'.queueSize = store.queueSize
      BY <1>1, <1>2, <1>5, RaiseAdvances DEF ForwardFails, On
    <2> QED
      BY <1>2, <2>1 DEF Progress, SessionStatus
  <1>6. CASE OnceStops(t, v, x)
    <2> DEFINE s == MarkServiceStopped(store, v)
    <2>1. WellFormed(s) /\ Still(store, s)
      BY MarkServiceStoppedWellFormed, MarksStill
    <2>2. Restore(t, v, x, s)
      BY <1>6 DEF OnceStops
    <2> HIDE DEF s
    <2>3. Ended(t, v, x, s)
      BY <1>1, <2>1, <2>2, RestoreEnds
    <2>4. s.session = [store.session EXCEPT ![x] = store.session[x]] /\ KeepsSlots(store, s)
          /\ s.queueSize = store.queueSize /\ store.session[x] \in SessionStatus
      BY <1>1, <2>1 DEF Still, Store
    <2>5. Advances(t, x, store.session[x]) /\ store'.queueSize = store.queueSize
      BY <1>2, <2>3, <2>4, EndedAdvances
    <2> QED
      BY <1>2, <2>4, <2>5 DEF Progress
  <1>7. CASE OnceStopFails(t, v, x)
    <2>1. OnlyMoves(t) /\ task'[t].pc = "dead" /\ UNCHANGED store
      BY <1>1, <1>7, AtStops DEF OnceStopFails, Stops
    <2> QED
      BY <1>1, <1>2, <1>3, <2>1 DEF Waits
  <1>8. CASE RestoreStarts(t, v, x)
    <2> DEFINE r == [task[t] EXCEPT !.pc = "restore_health"]
    <2>1. UNCHANGED store /\ Become(t, r)
      BY <1>8 DEF RestoreStarts
    <2>2. r.pc = "restore_health"
      BY <1>1 DEF TaskOK, TaskState
    <2> HIDE DEF r
    <2>3. OnlyMoves(t) /\ task'[t].pc = "restore_health"
      BY <1>1, <2>1, <2>2, BecomeMoves
    <2> QED
      BY <1>1, <1>2, <1>3, <2>1, <2>3 DEF Waits
  <1>9. CASE RestoreHealthy(t, v, x)
    <2> DEFINE s == MarkServiceStarted(store, Head(task[t].todo))
    <2>1. Still(store, s)
      BY MarksStill
    <2>2. RestoreNext(t, v, x, s, Tail(task[t].todo))
      BY <1>9 DEF RestoreHealthy
    <2> HIDE DEF s
    <2>3. /\ store' = s /\ OnlyMoves(t)
          /\ task'[t] = Idle \/ Stops(t, {"restore_start", "dead"}, v, x)
      BY <1>1, <2>2, RestoreNextStops
    <2> QED
      BY <1>2, <1>3, <2>1, <2>3 DEF Stops, Idle, At, Waits
  <1>10. CASE RestoreFails(t, v, x)
    <2>1. OnlyMoves(t) /\ task'[t].pc = "dead" /\ UNCHANGED store
      BY <1>1, <1>10, AtStops DEF RestoreFails, Stops
    <2> QED
      BY <1>1, <1>2, <1>3, <2>1 DEF Waits
  <1> QED
    BY <1>4, <1>5, <1>6, <1>7, <1>8, <1>9, <1>10 DEF RunStep

\* Taking an item from the queue, which is counted.
LEMMA DequeueAdvances ==
  ASSUME IInv, NEW t \in Workers, Dequeue(t)
  PROVE  /\ Progress(t, Head(queue))
         /\ store'.queueSize = [store.queueSize EXCEPT ![ServiceOf[Head(queue)]] = @ - 1]
  <1> DEFINE x == Head(queue)
             v == ServiceOf[x]
             sizes == [store.queueSize EXCEPT ![v] = @ - 1]
             s == [store EXCEPT !.queueSize = sizes]
             p == PruneReservedSlots(s)
             g == [p EXCEPT !.session[x] = "failed"]
             a == AbortIfBusy(s, x)
  <1>1. /\ t \in Tasks /\ queue # << >> /\ queue \in Seq(Sessions) /\ task[t].pc = "idle"
        /\ TaskOK(task) /\ store \in Store
    BY DEF Tasks, Dequeue, IInv, WellFormed
  <1>2. x \in Sessions /\ x = queue[1] /\ 1 \in DOMAIN queue
    BY <1>1
  <1>3. v \in Services /\ x # None /\ Waiting(x)
    BY <1>2, SessionsAssumption DEF Waiting
  <1>4. IF Aborts(s, x) THEN Return(t, Finally(a, v, x)) ELSE Acquire(t, v, x, a)
    BY DEF Dequeue
  <1>5. /\ s \in Store /\ s.leases = store.leases /\ s.slots = store.slots
        /\ s.session = store.session /\ s.queueSize = sizes
    <2>1. sizes \in [Services -> Int]
      BY <1>1, <1>3 DEF Store
    <2> HIDE DEF sizes
    <2> QED
      BY <1>1, <2>1 DEF Store
  <1>6. WellFormed(s) /\ KeepsSlots(store, s)
    BY <1>5, SameTables DEF IInv, KeepsSlots
  <1>7. IF Aborts(s, x) THEN a = g ELSE a \in {s, p}
    BY DEF AbortIfBusy, Aborts
  <1>8. WellFormed(a) /\ WellFormed(p) /\ Still(s, p)
    BY <1>2, <1>6, AbortIfBusyWellFormed, PruneReservedSlotsWellFormed, PruneReservedSlotsStill
  <1> HIDE DEF x, s, p, a, sizes
  <1>9. CASE Aborts(s, x)
    <2>1. /\ g.session = [store.session EXCEPT ![x] = "failed"] /\ g.queueSize = sizes
          /\ KeepsSlots(store, g)
      BY <1>5, <1>6, <1>8 DEF Still, KeepsSlots, WellFormed, Store
    <2> HIDE DEF g
    <2>2. Still(a, Finally(a, v, x))
      BY <1>3, <1>8, FinallyStill
    <2>3. task'[t] = Idle /\ OnlyMoves(t) /\ store' = Finally(a, v, x)
      BY <1>1, <1>4, <1>9, ReturnHandled
    <2>4. /\ store'.session = [store.session EXCEPT ![x] = "failed"]
          /\ store'.queueSize = sizes /\ KeepsSlots(store, store')
      BY <1>7, <1>9, <2>1, <2>2, <2>3 DEF Still, KeepsSlots
    <2>5. Advances(t, x, "failed")
      BY <1>1, <1>3, <2>3, <2>4 DEF Advances, Idle, At, Waits
    <2> QED
      BY <1>2, <2>4, <2>5 DEF Progress, SessionStatus, sizes, x
  <1>10. CASE ~Aborts(s, x)
    <2>1. a.session = store.session /\ a.queueSize = sizes /\ KeepsSlots(store, a) /\ a \in Store
      BY <1>5, <1>6, <1>7, <1>8, <1>10 DEF Still, KeepsSlots, WellFormed
    <2>2. Worked(t, v, x, a)
      BY <1>1, <1>2, <1>3, <1>4, <1>8, <1>10, AcquireOutcome DEF Outcome
    <2>3. Progress(t, x) /\ store'.queueSize = sizes
      BY <1>1, <1>2, <1>3, <2>1, <2>2, WorkedAdvances DEF Progress
    <2> QED
      BY <2>3 DEF sizes, x
  <1> QED
    BY <1>9, <1>10

\* What every step does: a worker's step advances a session of its own or the head of
\* the queue,
LEMMA WorkerStepAdvances ==
  ASSUME IInv, WorkInv, NEW t \in Workers, WorkerStep(t)
  PROVE  \E x \in Sessions : Takes(t, x) /\ Progress(t, x)
  <1>1. CASE Dequeue(t)
    <2>1. queue # << >> /\ queue \in Seq(Sessions) /\ queue' = Tail(queue) /\ task[t].pc = "idle"
      BY <1>1 DEF Dequeue, IInv
    <2>2. Head(queue) \in Sessions
      BY <2>1
    <2> QED
      BY <1>1, <2>1, <2>2, TakesHead, DequeueAdvances
  <1>2. ASSUME NEW v \in Services, NEW x \in Sessions, StartStep(t, v, x) \/ RunStep(t, v, x)
        PROVE  Takes(t, x) /\ Progress(t, x)
    <2>1. Progress(t, x) /\ UNCHANGED queue
      BY <1>2, StartStepAdvances, RunStepAdvances
    <2>2. task[t].session = x
      BY <1>2 DEF StartStep, LockGranted, ReclaimStops, ReclaimStopFails, CapacityRetry,
                  CapacityTimeout, StartSucceeds, StartFails, HealthyAfterStart, HealthTimeout,
                  RunStep, ForwardReturns, ForwardFails, OnceStops, OnceStopFails,
                  RestoreStarts, RestoreHealthy, RestoreFails, On
    <2> QED
      BY <2>1, <2>2, TakesOwn
  <1>3. CASE Answer(t)
    <2>1. /\ OnlyMoves(t) /\ UNCHANGED queue /\ Still(store, store') /\ task[t].session \in Sessions
          /\ task'[t].pc \notin Waits /\ store \in Store
      BY <1>3, AnswerStays DEF Waits, IInv, WellFormed
    <2> QED
      BY <2>1, TakesOwn, StaysAdvances
  <1> QED
    BY <1>1, <1>2, <1>3 DEF WorkerStep

\* and a release leaves the slots of the other leases.
LEMMA ReleaseLeaseKeepsOthers ==
  ASSUME NEW s, WellFormed(s), NEW k \in LeaseKeys, NEW j \in LeaseKeys \ {k}, s.slots[j] > 0
  PROVE  Holds(ReleaseExternalLease(s, k), j)
  <1> DEFINE e == [s EXCEPT !.leases[k] = Absent, !.slots[k] = Absent]
             g == SyncStatus(e, k[1])
             r == RefreshActivity(g, {k[1]})
             Fields == {"status", "activeSession", "queueSize", "inflight", "running", "active",
                        "leases", "slots", "pendingRestore", "session", "results"}
  <1>1. s.leases[j] = s.slots[j]
    BY DEF WellFormed, Backed, Holds, Absent
  <1>2. /\ DOMAIN e = Fields /\ e.leases[j] = s.leases[j] /\ e.slots[j] = s.slots[j]
    BY DEF WellFormed, Store
  <1> HIDE DEF e
  <1>3. DOMAIN g = Fields /\ g.leases = e.leases /\ g.slots = e.slots
    BY <1>2 DEF SyncStatus
  <1> HIDE DEF g
  <1>4. r.slots = [i \in LeaseKeys |->
                     IF i \in {h \in {k[1]} \X Leases : g.leases[h] = 0} THEN Absent ELSE g.slots[i]]
    BY <1>3 DEF RefreshActivity
  <1> HIDE DEF r
  <1>5. Holds(r, j)
    BY <1>1, <1>2, <1>3, <1>4 DEF Holds, Absent
  <1> QED
    BY <1>5 DEF ReleaseExternalLease, r, g, e

\* No step but the release of a lease takes its slot before it runs out.
LEMMA NextLiveSlotKept ==
  ASSUME IInv, WorkInv, [Next]_vars, NEW k \in LeaseKeys, store.slots[k] > 0, ~Holds(store', k)
  PROVE  ReleaseLease(k)
  <1> USE DEF IInv
  <1>1. ~KeepsLive(store, store') /\ ~KeepsSlots(store, store')
    BY DEF KeepsLive, KeepsSlots, Holds, Absent
  <1>2. ~UNCHANGED store
    BY DEF Holds, Absent
  <1>3. ASSUME NEW t \in Workers, WorkerStep(t)
        PROVE  FALSE
    BY <1>1, <1>3, WorkerStepAdvances DEF Progress, Advances
  <1>4. ASSUME NEW h \in Handlers, HandlerStep(h)
        PROVE  FALSE
    BY <1>1, <1>4, HandlerStepHandled DEF Handled, Still
  <1>5. ASSUME NEW x \in Sessions, Submit(x)
        PROVE  FALSE
    <2> DEFINE p == PruneReservedSlots(store)
    <2>1. WellFormed(p) /\ Still(store, p)
      BY PruneReservedSlotsWellFormed, PruneReservedSlotsStill
    <2>2. store' \in {p, CreateSession(p, x)}
      BY <1>5 DEF Submit
    <2> HIDE DEF p
    <2>3. store'.slots = p.slots
      BY <2>1, <2>2 DEF CreateSession, WellFormed, Store
    <2> QED
      BY <1>1, <2>1, <2>3 DEF Still, KeepsSlots
  <1>6. ASSUME NEW h \in Handlers, NEW v \in Services,
               StartService(h, v) \/ StopService(h, v) \/ Healthcheck(h, v)
        PROVE  FALSE
    BY <1>1, <1>6, AskHandled DEF Still
  <1>7. ASSUME NEW j \in LeaseKeys, ReleaseLease(j)
        PROVE  ReleaseLease(k)
    BY <1>7, ReleaseLeaseKeepsOthers DEF ReleaseLease
  <1>8. ASSUME NEW j \in LeaseKeys, NEW ttl \in 1 .. MaxTtl, NEW reserve \in BOOLEAN,
               TouchLease(j, ttl, reserve)
        PROVE  FALSE
    BY <1>1, <1>8, TouchExternalLeaseDrops DEF TouchLease
  <1>9. ASSUME NEW old \in SUBSET Expirable(store), Cleanup(old)
        PROVE  FALSE
    BY <1>1, <1>9, CleanupExpiredDrops DEF Cleanup
  <1>10. ASSUME Environment
         PROVE  FALSE
    BY <1>1, <1>2, <1>10, ElapseDrops DEF Environment, Tick, Crash
  <1> QED
    BY <1>2, <1>3, <1>4, <1>5, <1>6, <1>7, <1>8, <1>9, <1>10 DEF Next, Request, vars

\* A slot whose lease has not run out is given up only by its own release.
THEOREM LiveSlotKeptHolds == Spec => LiveSlotKept
  <1>1. IInv /\ WorkInv /\ [Next]_vars =>
          [\A k \in LeaseKeys : store.slots[k] > 0 /\ ~Holds(store', k) => ReleaseLease(k)]_vars
    BY NextLiveSlotKept
  <1> QED
    BY <1>1, InvariantHolds, WorkInvHolds, PTL DEF Spec, LiveSlotKept

-----------------------------------------------------------------------------
(* Where no lease can seize the only slot.                                 *)

\* FailQueuedSessions never applies: the device has no external clients, or room
\* for more than one request.
NoSeizure == Leases = {} \/ MaxConcurrency # 1

\* A session that waits, in the queue or at its worker, shows "queued".
WaitsQueued ==
    /\ \A t \in Workers : task[t].pc \in Waits => store.session[task[t].session] = "queued"
    /\ \A i \in DOMAIN queue : store.session[queue[i]] = "queued"

\* A touch then leaves the sessions.
LEMMA TouchLeavesSessions ==
  ASSUME NoSeizure, IInv, NEW k \in LeaseKeys, NEW ttl \in 1 .. MaxTtl, NEW reserve,
         TouchLease(k, ttl, reserve)
  PROVE  UNCHANGED <<store.session, store.queueSize>>
  <1>1. MaxConcurrency # 1
    BY DEF NoSeizure, LeaseKeys
  <1> QED
    BY <1>1, TouchExternalLeaseDrops DEF TouchLease, IInv

\* What a step does to the sessions: one advances at a worker, one is submitted, some
\* expire, or nothing changes.
LEMMA SessionSteps ==
  ASSUME NoSeizure, IInv, WorkInv, [Next]_vars
  PROVE  \/ /\ \E t \in Workers : \E x \in Sessions : Takes(t, x) /\ Progress(t, x)
         \/ /\ UNCHANGED task
            /\ \E x \in Sessions : /\ store.session[x] = "unsubmitted"
                                   /\ queue' = Append(queue, x)
                                   /\ store'.session = [store.session EXCEPT ![x] = "queued"]
         \/ /\ UNCHANGED <<queue, task>>
            /\ \E old \in SUBSET Expirable(store) :
                  store'.session = [x \in Sessions |-> IF x \in old THEN "expired"
                                                       ELSE store.session[x]]
         \/ /\ UNCHANGED queue /\ store'.session = store.session
            /\ \A t \in Workers : task'[t] = task[t]
  <1> USE DEF IInv
  <1> DEFINE Advanced  == \E t \in Workers : \E x \in Sessions : Takes(t, x) /\ Progress(t, x)
             Submitted == /\ UNCHANGED task
                          /\ \E x \in Sessions :
                                /\ store.session[x] = "unsubmitted"
                                /\ queue' = Append(queue, x)
                                /\ store'.session = [store.session EXCEPT ![x] = "queued"]
             Expired   == /\ UNCHANGED <<queue, task>>
                          /\ \E old \in SUBSET Expirable(store) :
                                store'.session = [x \in Sessions |-> IF x \in old THEN "expired"
                                                                     ELSE store.session[x]]
             Same      == /\ UNCHANGED queue /\ store'.session = store.session
                          /\ \A t \in Workers : task'[t] = task[t]
  <1> SUFFICES Advanced \/ Submitted \/ Expired \/ Same
    OBVIOUS
  <1>1. \A t \in Workers, h \in Handlers : t \in Tasks \ {h}
    BY TasksAssumption DEF Tasks
  <1>2. ASSUME NEW h \in Handlers, HandlerStep(h)
        PROVE  Same
    BY <1>1, <1>2, HandlerStepHandled DEF Handled, Still, OnlyMoves
  <1>3. ASSUME NEW h \in Handlers, NEW v \in Services,
               StartService(h, v) \/ StopService(h, v) \/ Healthcheck(h, v)
        PROVE  Same
    BY <1>1, <1>3, AskHandled DEF Still, OnlyMoves
  <1>4. ASSUME NEW x \in Sessions, Submit(x)
        PROVE  Submitted \/ Same
    <2> DEFINE p == PruneReservedSlots(store)
    <2>1. WellFormed(p) /\ Still(store, p)
      BY PruneReservedSlotsWellFormed, PruneReservedSlotsStill
    <2>2. /\ UNCHANGED task /\ store.session[x] = "unsubmitted"
          /\ \/ store' = CreateSession(p, x) /\ queue' = Append(queue, x)
             \/ store' = p /\ UNCHANGED queue
      BY <1>4 DEF Submit
    <2> HIDE DEF p
    <2>3. CreateSession(p, x).session = [store.session EXCEPT ![x] = "queued"]
      BY <2>1 DEF CreateSession, Still, WellFormed, Store
    <2> QED
      BY <2>1, <2>2, <2>3 DEF Still
  <1>5. ASSUME NEW k \in LeaseKeys, ReleaseLease(k)
        PROVE  Same
    BY <1>5, ReleaseExternalLeaseDrops DEF ReleaseLease
  <1>6. ASSUME NEW k \in LeaseKeys, NEW ttl \in 1 .. MaxTtl, NEW reserve \in BOOLEAN,
               TouchLease(k, ttl, reserve)
        PROVE  Same
    BY <1>6, TouchLeavesSessions DEF TouchLease
  <1>7. ASSUME NEW old \in SUBSET Expirable(store), Cleanup(old)
        PROVE  Expired
    BY <1>7, CleanupExpiredDrops DEF Cleanup
  <1>8. ASSUME Environment
        PROVE  Same
    BY <1>8, ElapseDrops DEF Environment, Tick, Crash
  <1>9. ASSUME UNCHANGED vars
        PROVE  Same
    BY <1>9 DEF vars
  <1>10. ASSUME NEW t \in Workers, WorkerStep(t)
         PROVE  Advanced
    BY <1>10, WorkerStepAdvances
  <1> HIDE DEF Advanced, Submitted, Expired, Same
  <1>11. CASE Request
    BY <1>3, <1>4, <1>5, <1>6, <1>7, <1>11 DEF Request
  <1> QED
    BY <1>2, <1>8, <1>9, <1>10, <1>11 DEF Next

\* Every step keeps what waits "queued".
LEMMA NextWaitsQueued ==
  ASSUME NoSeizure, IInv, WorkInv, WorkInv', WaitsQueued, [Next]_vars
  PROVE  WaitsQueued'
  <1>1. queue \in Seq(Sessions) /\ store \in Store /\ TaskOK(task)
    BY DEF IInv, WellFormed
  <1>2. \A i \in DOMAIN queue : queue[i] \in Sessions
    BY <1>1
  <1>3. \A t \in Workers : task[t].pc \in Waits => task[t].session \in Sessions
    BY DEF WorkInv, WorkersInPlace, InPlace, Waits
  <1>4. ASSUME NEW t \in Workers, NEW x \in Sessions, Takes(t, x), Progress(t, x)
        PROVE  WaitsQueued'
    <2>1. PICK st : Advances(t, x, st)
      BY <1>4 DEF Progress
    <2>2. \A y \in Sessions \ {x} : store'.session[y] = store.session[y]
      BY <1>1, <2>1 DEF Advances, Store
    <2>3. \A i \in DOMAIN queue' : store'.session[queue'[i]] = "queued"
      BY <1>2, <1>4, <2>2 DEF Takes, WaitsQueued
    <2>4. ASSUME NEW u \in Workers \ {t}, task'[u].pc \in Waits
          PROVE  store'.session[task'[u].session] = "queued"
      <3>1. task'[u] = task[u] /\ task[u].session # x
        BY <1>4, <2>1 DEF Advances, OnlyMoves, Takes, Tasks
      <3> QED
        BY <1>3, <2>2, <2>4, <3>1 DEF WaitsQueued
    <2>5. ASSUME task'[t].pc \in Waits
          PROVE  store'.session[task'[t].session] = "queued"
      <3>1. /\ st = store.session[x] /\ task'[t].session = x
            /\ task[t].pc \in Waits \cup {"idle"}
        BY <2>1, <2>5 DEF Advances
      <3>2. task[t].pc = "idle" => task[t].session # x
        BY SessionsAssumption DEF WorkInv, WorkersInPlace, InPlace, Waits
      <3>3. store.session[x] = "queued"
        BY <2>1, <3>1, <3>2 DEF Advances, WaitsQueued, Waiting
      <3> QED
        BY <1>1, <2>1, <3>1, <3>3 DEF Advances, Store
    <2> QED
      BY <2>3, <2>4, <2>5 DEF WaitsQueued
  <1>5. ASSUME UNCHANGED task, NEW x \in Sessions, store.session[x] = "unsubmitted",
               queue' = Append(queue, x),
               store'.session = [store.session EXCEPT ![x] = "queued"]
        PROVE  WaitsQueued'
    <2>1. /\ store'.session[x] = "queued"
          /\ \A y \in Sessions \ {x} : store'.session[y] = store.session[y]
      BY <1>1, <1>5 DEF Store
    <2>2. \A i \in DOMAIN queue' : queue'[i] = x \/ (i \in DOMAIN queue /\ queue'[i] = queue[i])
      BY <1>1, <1>5
    <2> QED
      BY <1>2, <1>3, <1>5, <2>1, <2>2 DEF WaitsQueued
  <1>6. ASSUME UNCHANGED <<queue, task>>, NEW old \in SUBSET Expirable(store),
               store'.session = [x \in Sessions |-> IF x \in old THEN "expired"
                                                    ELSE store.session[x]]
        PROVE  WaitsQueued'
    <2>1. \A x \in Sessions : store.session[x] = "queued" => store'.session[x] = "queued"
      BY <1>6 DEF Expirable
    <2> QED
      BY <1>2, <1>3, <1>6, <2>1 DEF WaitsQueued
  <1>7. ASSUME UNCHANGED queue, store'.session = store.session,
               \A t \in Workers : task'[t] = task[t]
        PROVE  WaitsQueued'
    BY <1>7 DEF WaitsQueued
  <1> QED
    BY <1>4, <1>5, <1>6, <1>7, SessionSteps

\* It holds at the start.
LEMMA InitWaitsQueued == Init => WaitsQueued
  BY DEF Init, WaitsQueued, Waits, Idle, At, Tasks

\* Every step of the hub is a step of SessionLifecycle, or leaves the sessions.
LEMMA NextImplementsLifecycle ==
  ASSUME NoSeizure, IInv, WorkInv, WaitsQueued, [Next]_vars
  PROVE  [Lifecycle!Next]_(store.session)
  <1> DEFINE f == store.session
  <1>1. store \in Store /\ TaskOK(task)
    BY DEF IInv, WellFormed
  <1>2. f \in [Sessions -> SessionStatus]
    BY <1>1 DEF Store
  <1>3. ASSUME NEW t \in Workers, NEW x \in Sessions, Takes(t, x), Progress(t, x)
        PROVE  [Lifecycle!Next]_f
    <2>1. PICK st : Advances(t, x, st)
      BY <1>3 DEF Progress
    <2>2. f' = [f EXCEPT ![x] = st]
      BY <2>1 DEF Advances
    <2>3. InPlace(task[t], f) /\ task[t].session \in {x, None} /\ None \notin Sessions
      BY <1>3, SessionsAssumption DEF WorkInv, WorkersInPlace, Takes
    <2>4. task[t].session # x => f[x] = "queued"
      BY <2>1 DEF Advances, Waiting, WaitsQueued
    <2>5. task[t].pc \in Waits \cup {"idle"} => f[x] = "queued"
      BY <2>3, <2>4 DEF WaitsQueued, InPlace, Waits
    <2>6. task[t].pc \in {"start", "health"} => f[x] = "starting"
      BY <2>3 DEF InPlace, Waits
    <2>7. task[t].pc = "forward" => f[x] = "processing"
      BY <2>3 DEF InPlace, Waits
    <2>8. \/ st = f[x]
          \/ f[x] = "queued" /\ st \in {"starting", "processing", "failed"}
          \/ f[x] = "starting" /\ st \in {"processing", "failed"}
          \/ f[x] = "processing" /\ st \in {"finished", "failed"}
      BY <2>1, <2>5, <2>6, <2>7 DEF Advances
    <2> HIDE DEF f
    <2>9. CASE st = f[x]
      BY <1>2, <2>2, <2>9
    <2>10. CASE f[x] = "queued" /\ st = "starting"
      <3>1. Lifecycle!Start(x)
        BY <2>2, <2>10 DEF Lifecycle!Start, Lifecycle!Move, f
      <3> QED
        BY <3>1 DEF Lifecycle!Next
    <2>11. CASE f[x] \in {"queued", "starting"} /\ st = "processing"
      <3>1. Lifecycle!Serve(x)
        BY <2>2, <2>11 DEF Lifecycle!Serve, Lifecycle!Move, f
      <3> QED
        BY <3>1 DEF Lifecycle!Next
    <2>12. CASE f[x] = "processing" /\ st = "finished"
      <3>1. Lifecycle!Finish(x)
        BY <2>2, <2>12 DEF Lifecycle!Finish, Lifecycle!Move, f
      <3> QED
        BY <3>1 DEF Lifecycle!Next
    <2>13. CASE f[x] \in {"queued", "starting", "processing"} /\ st = "failed"
      <3>1. f' = [y \in Sessions |-> IF y \in {x} THEN "failed" ELSE f[y]]
        BY <1>2, <2>2, <2>13
      <3>2. Lifecycle!Fail({x})
        BY <2>13, <3>1 DEF Lifecycle!Fail, Lifecycle!MoveAll, Lifecycle!InProgress, f
      <3> QED
        BY <3>2 DEF Lifecycle!Next
    <2> QED
      BY <2>8, <2>9, <2>10, <2>11, <2>12, <2>13
  <1>4. ASSUME NEW x \in Sessions, f[x] = "unsubmitted", f' = [f EXCEPT ![x] = "queued"]
        PROVE  Lifecycle!Next
    BY <1>4 DEF Lifecycle!Next, Lifecycle!Submit, Lifecycle!Move
  <1>5. ASSUME NEW old \in SUBSET Expirable(store),
               f' = [x \in Sessions |-> IF x \in old THEN "expired" ELSE f[x]]
        PROVE  Lifecycle!Next
    <2>1. Lifecycle!Expire(old) /\ old \in SUBSET Sessions
      BY <1>5 DEF Lifecycle!Expire, Lifecycle!MoveAll, Expirable
    <2> QED
      BY <2>1 DEF Lifecycle!Next
  <1> QED
    BY <1>3, <1>4, <1>5, SessionSteps

\* WaitsQueued holds throughout.
LEMMA WaitsQueuedHolds ==
  ASSUME NoSeizure
  PROVE  Spec => []WaitsQueued
  BY InvariantHolds, WorkInvHolds, InitWaitsQueued, NextWaitsQueued, PTL DEF Spec

\* Where no lease can seize the only slot, the hub implements the life of a session a
\* client relies on.
THEOREM ImplementsLifecycleHolds ==
  ASSUME NoSeizure
  PROVE  Spec => ImplementsLifecycle
  <1>1. Init => Lifecycle!Init
    BY DEF Init, InitialStore, Lifecycle!Init
  <1>2. IInv /\ WorkInv /\ WaitsQueued /\ [Next]_vars => [Lifecycle!Next]_(store.session)
    BY NextImplementsLifecycle
  <1> QED
    BY <1>1, <1>2, InvariantHolds, WorkInvHolds, WaitsQueuedHolds, PTL
    DEF Spec, ImplementsLifecycle, Lifecycle!Spec

\* So a session that shows finished, failed or expired never goes back to work there.
THEOREM SettledIsFinalHolds ==
  ASSUME NoSeizure
  PROVE  Spec => SettledIsFinal
  <1>1. ASSUME store \in Store, [Lifecycle!Next]_(store.session),
               NEW x \in Sessions, store.session[x] \in Terminal
        PROVE  store'.session[x] \in Terminal
    <2> DEFINE f == store.session
    <2>1. f \in [Sessions -> SessionStatus]
      BY <1>1 DEF Store
    <2>2. f[x] \in {"finished", "failed", "expired"}
      BY <1>1 DEF Terminal
    <2> HIDE DEF f
    <2>3. ASSUME NEW y \in Sessions, NEW from, NEW to, from \cap Terminal = {},
                 f[y] \in from, f' = [f EXCEPT ![y] = to]
          PROVE  f'[x] = f[x]
      BY <2>1, <2>2, <2>3 DEF Terminal
    <2>4. ASSUME NEW y \in Sessions, Lifecycle!Submit(y)
          PROVE  f'[x] = f[x]
      BY <2>3, <2>4 DEF Lifecycle!Submit, Lifecycle!Move, Terminal, f
    <2>5. ASSUME NEW y \in Sessions,
                 Lifecycle!Start(y) \/ Lifecycle!Serve(y) \/ Lifecycle!Finish(y)
          PROVE  f'[x] = f[x]
      BY <2>3, <2>5 DEF Lifecycle!Start, Lifecycle!Serve, Lifecycle!Finish, Lifecycle!Move,
                        Terminal, f
    <2>8. ASSUME NEW X \in SUBSET Sessions, Lifecycle!Fail(X)
          PROVE  f'[x] \in Terminal
      BY <2>2, <2>8 DEF Lifecycle!Fail, Lifecycle!MoveAll, Terminal, f
    <2>6. ASSUME NEW X \in SUBSET Sessions, Lifecycle!Expire(X)
          PROVE  f'[x] \in Terminal
      BY <2>2, <2>6 DEF Lifecycle!Expire, Lifecycle!MoveAll, Terminal, f
    <2>7. f'[x] \in Terminal
      BY <1>1, <2>2, <2>4, <2>5, <2>6, <2>8 DEF Lifecycle!Next, Terminal, f
    <2> QED
      BY <2>7 DEF f
  <1>2. IInv /\ WorkInv /\ WaitsQueued /\ [Next]_vars =>
          [\A x \in Sessions : store.session[x] \in Terminal => store'.session[x] \in Terminal]_vars
    <2> SUFFICES ASSUME IInv, WorkInv, WaitsQueued, [Next]_vars, NEW x \in Sessions,
                        store.session[x] \in Terminal
                 PROVE  store'.session[x] \in Terminal
      OBVIOUS
    <2>1. [Lifecycle!Next]_(store.session) /\ store \in Store
      BY NextImplementsLifecycle DEF IInv, WellFormed
    <2> QED
      BY <1>1, <2>1
  <1> QED
    BY <1>2, InvariantHolds, WorkInvHolds, WaitsQueuedHolds, PTL DEF Spec, SettledIsFinal

-----------------------------------------------------------------------------
(* The queue is counted.                                                   *)

\* The places of the sessions of v in the queue q.
PlacesOf(q, v) == {i \in DOMAIN q : ServiceOf[q[i]] = v}

\* They are finitely many,
LEMMA PlacesFinite ==
  ASSUME NEW q \in Seq(Sessions), NEW v
  PROVE  IsFiniteSet(PlacesOf(q, v)) /\ Cardinality(PlacesOf(q, v)) \in Nat
  <1>1. PlacesOf(q, v) \subseteq 1 .. Len(q)
    BY DEF PlacesOf
  <1>2. IsFiniteSet(1 .. Len(q))
    BY FS_Interval
  <1> QED
    BY <1>1, <1>2, FS_Subset, FS_CardinalityType

\* one more after a submission,
LEMMA AppendCounted ==
  ASSUME NEW q \in Seq(Sessions), NEW x \in Sessions, NEW v
  PROVE  Cardinality(PlacesOf(Append(q, x), v)) =
            Cardinality(PlacesOf(q, v)) + (IF ServiceOf[x] = v THEN 1 ELSE 0)
  <1> DEFINE n == Len(q) + 1
             p == Append(q, x)
  <1>1. /\ DOMAIN p = DOMAIN q \cup {n} /\ p[n] = x /\ n \notin DOMAIN q
        /\ \A i \in DOMAIN q : p[i] = q[i]
    OBVIOUS
  <1> HIDE DEF n, p
  <1>2. n \notin PlacesOf(q, v)
    BY <1>1 DEF PlacesOf
  <1>3. CASE ServiceOf[x] = v
    <2>1. PlacesOf(p, v) = PlacesOf(q, v) \cup {n}
      BY <1>1, <1>3 DEF PlacesOf
    <2> QED
      BY <1>2, <1>3, <2>1, PlacesFinite, FS_AddElement DEF p
  <1>4. CASE ServiceOf[x] # v
    <2>1. PlacesOf(p, v) = PlacesOf(q, v)
      BY <1>1, <1>4 DEF PlacesOf
    <2> QED
      BY <1>4, <2>1, PlacesFinite DEF p
  <1> QED
    BY <1>3, <1>4

\* and one less when a worker takes the head.
LEMMA TailCounted ==
  ASSUME NEW q \in Seq(Sessions), q # << >>, NEW v
  PROVE  Cardinality(PlacesOf(Tail(q), v)) =
            Cardinality(PlacesOf(q, v)) - (IF ServiceOf[Head(q)] = v THEN 1 ELSE 0)
  <1> DEFINE p == Tail(q)
             S == PlacesOf(p, v)
             T == PlacesOf(q, v) \ {1}
             f == [i \in S |-> i + 1]
  <1>1. /\ p \in Seq(Sessions) /\ Head(q) = q[1] /\ 1 \in DOMAIN q
        /\ \A i \in DOMAIN p : i \in Nat /\ i + 1 \in DOMAIN q /\ i + 1 # 1 /\ p[i] = q[i + 1]
        /\ \A j \in DOMAIN q : j = 1 \/ (j \in Nat /\ j - 1 \in DOMAIN p /\ p[j - 1] = q[j])
    OBVIOUS
  <1> HIDE DEF p
  <1>2. f \in [S -> T]
    BY <1>1 DEF PlacesOf
  <1>3. \A i, j \in S : f[i] = f[j] => i = j
    <2> SUFFICES ASSUME NEW i \in S, NEW j \in S, f[i] = f[j]
                 PROVE  i = j
      OBVIOUS
    <2>1. i \in Nat /\ j \in Nat
      BY <1>1 DEF PlacesOf
    <2> QED
      BY <2>1
  <1>4. \A j \in T : \E i \in S : f[i] = j
    <2> SUFFICES ASSUME NEW j \in T
                 PROVE  \E i \in S : f[i] = j
      OBVIOUS
    <2>1. j \in Nat /\ j - 1 \in S
      BY <1>1 DEF PlacesOf
    <2> QED
      BY <2>1
  <1>5. IsFiniteSet(S) /\ IsFiniteSet(T) /\ Cardinality(T) \in Nat
    BY <1>1, PlacesFinite, FS_Subset, FS_CardinalityType
  <1> HIDE DEF S, T, f
  <1>6. Cardinality(S) = Cardinality(T)
    <2>1. f \in Bijection(S, T)
      BY <1>2, <1>3, <1>4, Zenon DEF Bijection, Injection, Surjection, IsInjective
    <2> QED
      BY <1>5, <2>1, FS_Bijection DEF ExistsBijection
  <1>7. CASE ServiceOf[Head(q)] = v
    <2>1. 1 \in PlacesOf(q, v)
      BY <1>1, <1>7 DEF PlacesOf
    <2>2. Cardinality(T) = Cardinality(PlacesOf(q, v)) - 1
      BY <2>1, PlacesFinite, FS_RemoveElement DEF T
    <2> QED
      BY <1>6, <1>7, <2>2 DEF S, p
  <1>8. CASE ServiceOf[Head(q)] # v
    <2>1. T = PlacesOf(q, v)
      BY <1>1, <1>8 DEF PlacesOf, T
    <2> QED
      BY <1>6, <1>8, <2>1, PlacesFinite DEF S, p
  <1> QED
    BY <1>7, <1>8

\* Every step keeps the count.
LEMMA NextQueueSizeExact ==
  ASSUME NoSeizure, IInv, WorkInv, QueueSizeExact, [Next]_vars
  PROVE  QueueSizeExact'
  <1> USE DEF IInv
  <1> DEFINE Same == UNCHANGED queue /\ store'.queueSize = store.queueSize
  <1>1. CASE Same
    BY <1>1 DEF QueueSizeExact
  <1>2. \A v \in Services : store.queueSize[v] = Cardinality(PlacesOf(queue, v))
    BY DEF QueueSizeExact, PlacesOf
  <1>3. SUFFICES Same \/ \A v \in Services :
                            store'.queueSize[v] = Cardinality(PlacesOf(queue', v))
    BY <1>1 DEF QueueSizeExact, PlacesOf
  <1> DEFINE Counted == \A v \in Services :
                           store'.queueSize[v] = Cardinality(PlacesOf(queue', v))
  <1>4. queue \in Seq(Sessions) /\ store \in Store /\ store.queueSize \in [Services -> Int]
    BY DEF WellFormed, Store
  <1>5. ASSUME NEW t \in Workers, Dequeue(t)
        PROVE  Counted
    <2> DEFINE x == Head(queue)
    <2>1. queue # << >> /\ queue' = Tail(queue)
      BY <1>5 DEF Dequeue
    <2>2. x \in Sessions /\ ServiceOf[x] \in Services
      BY <1>4, <2>1, SessionsAssumption
    <2>3. store'.queueSize = [store.queueSize EXCEPT ![ServiceOf[x]] = @ - 1]
      BY <1>5, DequeueAdvances
    <2>4. SUFFICES ASSUME NEW v \in Services
                   PROVE  store'.queueSize[v] = Cardinality(PlacesOf(queue', v))
      OBVIOUS
    <2>5. Cardinality(PlacesOf(Tail(queue), v)) =
             Cardinality(PlacesOf(queue, v)) - (IF ServiceOf[x] = v THEN 1 ELSE 0)
      BY <1>4, <2>1, TailCounted
    <2> HIDE DEF x
    <2> QED
      BY <1>2, <1>4, <2>1, <2>2, <2>3, <2>5
  <1>6. ASSUME NEW t \in Workers, WorkerStep(t)
        PROVE  Same \/ Counted
    BY <1>5, <1>6, StartStepAdvances, RunStepAdvances, AnswerStays DEF WorkerStep
  <1>7. ASSUME NEW h \in Handlers, HandlerStep(h)
        PROVE  Same
    BY <1>7, HandlerStepHandled DEF Handled, Still
  <1>8. ASSUME NEW x \in Sessions, Submit(x)
        PROVE  Same \/ Counted
    <2> DEFINE p == PruneReservedSlots(store)
    <2>1. WellFormed(p) /\ Still(store, p)
      BY PruneReservedSlotsWellFormed, PruneReservedSlotsStill
    <2>2. \/ store' = CreateSession(p, x) /\ queue' = Append(queue, x)
          \/ store' = p /\ UNCHANGED queue
      BY <1>8 DEF Submit
    <2> HIDE DEF p
    <2>3. CreateSession(p, x).queueSize = [store.queueSize EXCEPT ![ServiceOf[x]] = @ + 1]
      BY <2>1 DEF CreateSession, Still, WellFormed, Store
    <2>4. CASE store' = CreateSession(p, x) /\ queue' = Append(queue, x)
      <3>1. SUFFICES ASSUME NEW v \in Services
                     PROVE  store'.queueSize[v] = Cardinality(PlacesOf(queue', v))
        OBVIOUS
      <3>2. Cardinality(PlacesOf(Append(queue, x), v)) =
               Cardinality(PlacesOf(queue, v)) + (IF ServiceOf[x] = v THEN 1 ELSE 0)
        BY <1>4, AppendCounted
      <3>3. Cardinality(PlacesOf(queue, v)) \in Nat
        BY <1>4, PlacesFinite
      <3>4. store'.queueSize[v] = store.queueSize[v] + (IF ServiceOf[x] = v THEN 1 ELSE 0)
        BY <1>4, <2>3, <2>4, SessionsAssumption
      <3> QED
        BY <1>2, <2>4, <3>2, <3>4
    <2> QED
      BY <2>1, <2>2, <2>4 DEF Still
  <1>9. ASSUME NEW h \in Handlers, NEW v \in Services,
               StartService(h, v) \/ StopService(h, v) \/ Healthcheck(h, v)
        PROVE  Same
    BY <1>9, AskHandled DEF Still
  <1>10. ASSUME NEW k \in LeaseKeys, ReleaseLease(k)
         PROVE  Same
    BY <1>10, ReleaseExternalLeaseDrops DEF ReleaseLease
  <1>11. ASSUME NEW k \in LeaseKeys, NEW ttl \in 1 .. MaxTtl, NEW reserve \in BOOLEAN,
                TouchLease(k, ttl, reserve)
         PROVE  Same
    BY <1>11, TouchLeavesSessions DEF TouchLease
  <1>12. ASSUME NEW old \in SUBSET Expirable(store), Cleanup(old)
         PROVE  Same
    BY <1>12, CleanupExpiredDrops DEF Cleanup
  <1>13. ASSUME Environment
         PROVE  Same
    BY <1>13, ElapseDrops DEF Environment, Tick, Crash
  <1>14. ASSUME UNCHANGED vars
         PROVE  Same
    BY <1>14 DEF vars
  <1> HIDE DEF Same, Counted
  <1>15. Same \/ Counted
    BY <1>6, <1>7, <1>8, <1>9, <1>10, <1>11, <1>12, <1>13, <1>14 DEF Next, Request
  <1> QED
    BY <1>15 DEF Same, Counted

\* Where no lease can seize the only slot, queue_size is the number of sessions of the
\* service that wait in the queue.
THEOREM QueueSizeExactHolds ==
  ASSUME NoSeizure
  PROVE  Spec => []QueueSizeExact
  <1>1. Init => QueueSizeExact
    <2> SUFFICES ASSUME Init, NEW v \in Services
                 PROVE  store.queueSize[v] = Cardinality({i \in DOMAIN queue : ServiceOf[queue[i]] = v})
      BY DEF QueueSizeExact
    <2>1. store.queueSize[v] = 0
      BY DEF Init, InitialStore
    <2>2. {i \in DOMAIN queue : ServiceOf[queue[i]] = v} = {}
      BY DEF Init
    <2> QED
      BY <2>1, <2>2, FS_EmptySet
  <1> QED
    BY <1>1, NextQueueSizeExact, InvariantHolds, WorkInvHolds, PTL DEF Spec
=============================================================================
