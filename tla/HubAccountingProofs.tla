------------------------ MODULE HubAccountingProofs ------------------------
(***************************************************************************)
(* What the hub counts, locks and shows.                                   *)
(*                                                                         *)
(* No exit of _run_one leaks a slot, for every device: the counters of     *)
(* requests in flight never exceed the requests that are forwarded, and    *)
(* with one worker the count is exact.  NoSlotLeak is inductive over IInv; *)
(* its proof follows one task t through its section: Covers(t, s) says that*)
(* the tasks other than t account for what the store s counts.  A section  *)
(* that begins while t forwards gets there by the finally block, any other *)
(* begins there; it ends at an await other than the forwarding, or counts t*)
(* and forwards.                                                           *)
(*                                                                         *)
(* No lock is lost and no waiter forgotten: LocksConsistent, over IInv.    *)
(*                                                                         *)
(* What is shown to be usable has its process, while only workers start and*)
(* stop services and no answer is overtaken by a stop; with one worker none*)
(* is, and what it starts fits the device.                                 *)
(***************************************************************************)
EXTENDS HubProofs

Covers(t, s) ==
    /\ WellFormed(s)
    /\ s.active <= Cardinality(Forwarding \ {t})
    /\ \A w \in Services : s.inflight[w] <= Cardinality(ForwardingTo(w) \ {t})

SameCounts(s, r) == r.active = s.active /\ r.inflight = s.inflight

-----------------------------------------------------------------------------
(* The store's operations and the counters.                                *)

\* There are finitely many workers, so the numbers of those that forward are numbers.
LEMMA ForwardingFinite ==
  ASSUME NEW t
  PROVE  /\ IsFiniteSet(Forwarding) /\ Cardinality(Forwarding) \in Nat
         /\ IsFiniteSet(Forwarding \ {t}) /\ Cardinality(Forwarding \ {t}) \in Nat
         /\ \A w : /\ IsFiniteSet(ForwardingTo(w)) /\ Cardinality(ForwardingTo(w)) \in Nat
                   /\ IsFiniteSet(ForwardingTo(w) \ {t})
                   /\ Cardinality(ForwardingTo(w) \ {t}) \in Nat
  <1>1. IsFiniteSet(Forwarding)
    BY TasksAssumption, FS_Subset DEF Forwarding
  <1>2. \A w : ForwardingTo(w) \subseteq Forwarding /\ ForwardingTo(w) \ {t} \subseteq Forwarding
    BY DEF ForwardingTo
  <1> QED
    BY <1>1, <1>2, FS_Subset, FS_CardinalityType

\* A store with the counters of a covered one is covered,
LEMMA SameCountsCovers ==
  ASSUME NEW t, NEW s, NEW r, Covers(t, s), WellFormed(r), SameCounts(s, r)
  PROVE  Covers(t, r)
  BY DEF Covers, SameCounts

\* and refreshing the leases leaves the counters.
LEMMA RefreshActivityCounts ==
  ASSUME NEW s, WellFormed(s), NEW V
  PROVE  SameCounts(s, RefreshActivity(s, V))
  BY DEF RefreshActivity, SameCounts, WellFormed, Store

\* So does pruning,
LEMMA PruneReservedSlotsCounts ==
  ASSUME NEW s, WellFormed(s)
  PROVE  SameCounts(s, PruneReservedSlots(s))
  BY DEF PruneReservedSlots, SameCounts, WellFormed, Store

\* the abort check,
LEMMA AbortIfBusyCounts ==
  ASSUME NEW s, WellFormed(s), NEW x
  PROVE  SameCounts(s, AbortIfBusy(s, x))
  BY DEF AbortIfBusy, PruneReservedSlots, SameCounts, WellFormed, Store

\* a release,
LEMMA ReleaseExternalLeaseCounts ==
  ASSUME NEW s, WellFormed(s), NEW k
  PROVE  SameCounts(s, ReleaseExternalLease(s, k))
  BY DEF ReleaseExternalLease, RefreshActivity, SyncStatus, SameCounts, WellFormed, Store

\* and a touch, also when it fails the sessions that wait.
LEMMA TouchExternalLeaseCounts ==
  ASSUME NEW s, WellFormed(s), NEW k, NEW ttl, NEW reserve
  PROVE  SameCounts(s, TouchExternalLease(s, k, ttl, reserve))
  <1> DEFINE p == PruneReservedSlots(s)
             holds == Holds(p, k) \/ reserve
             t == [p EXCEPT !.leases[k] = ttl, !.slots[k] = IF holds THEN ttl ELSE @]
             f == IF MaxConcurrency = 1 /\ holds THEN FailQueuedSessions(t) ELSE t
  <1>1. TouchExternalLease(s, k, ttl, reserve) \in
          {p, RefreshActivity(SyncStatus(f, k[1]), {k[1]})}
    BY DEF TouchExternalLease
  <1> DEFINE Fields == {"status", "activeSession", "queueSize", "inflight", "running", "active",
                        "leases", "slots", "pendingRestore", "session", "results"}
  <1>2. SameCounts(s, p) /\ DOMAIN p = Fields
    BY DEF PruneReservedSlots, SameCounts, WellFormed, Store
  <1> HIDE DEF p, holds
  <1>3. SameCounts(s, t) /\ DOMAIN t = Fields
    BY <1>2 DEF SameCounts
  <1> HIDE DEF t
  <1>4. SameCounts(s, f) /\ DOMAIN f = Fields
    BY <1>3 DEF FailQueuedSessions, SameCounts
  <1> HIDE DEF f
  <1>5. SameCounts(s, RefreshActivity(SyncStatus(f, k[1]), {k[1]}))
    BY <1>4 DEF RefreshActivity, SyncStatus, SameCounts
  <1> QED
    BY <1>1, <1>2, <1>5

\* Stopping a service counts nothing up.
LEMMA MarkServiceStoppedCovers ==
  ASSUME NEW t, NEW s, NEW v \in Services, Covers(t, s)
  PROVE  Covers(t, MarkServiceStopped(s, v))
  <1> DEFINE r == MarkServiceStopped(s, v)
  <1>1. WellFormed(r)
    BY MarkServiceStoppedWellFormed DEF Covers
  <1>2. r.active = s.active /\ r.inflight = [s.inflight EXCEPT ![v] = 0]
    BY DEF MarkServiceStopped, Covers, WellFormed, Store
  <1>3. s.inflight \in [Services -> Nat]
    BY DEF Covers, WellFormed, Store
  <1> HIDE DEF r
  <1>4. ASSUME NEW w \in Services
        PROVE  r.inflight[w] <= Cardinality(ForwardingTo(w) \ {t})
    <2>1. Cardinality(ForwardingTo(w) \ {t}) \in Nat
      BY ForwardingFinite
    <2>2. s.inflight[w] <= Cardinality(ForwardingTo(w) \ {t})
      BY DEF Covers
    <2>3. r.inflight[w] = 0 \/ r.inflight[w] = s.inflight[w]
      BY <1>2, <1>3
    <2> QED
      BY <2>1, <2>2, <2>3
  <1>5. Covers(t, r)
    BY <1>1, <1>2, <1>4 DEF Covers
  <1> QED
    BY <1>5 DEF r

\* Starting one does not either.
LEMMA MarkServiceStartedCovers ==
  ASSUME NEW t, NEW s, NEW v \in Services, Covers(t, s)
  PROVE  Covers(t, MarkServiceStarted(s, v))
  <1>1. SameCounts(s, MarkServiceStarted(s, v))
    BY DEF MarkServiceStarted, SameCounts, Covers, WellFormed, Store
  <1>2. WellFormed(MarkServiceStarted(s, v))
    BY MarkServiceStartedWellFormed DEF Covers
  <1> QED
    BY <1>1, <1>2, SameCountsCovers

-----------------------------------------------------------------------------
(* The finally block.                                                      *)

\* What the finally block leaves of the counters.
LEMMA FinallyCounts ==
  ASSUME NEW s, WellFormed(s), NEW v \in Services, NEW x
  PROVE  LET f == Finally(s, v, x)
         IN  /\ f.active = IF s.active > 0 THEN s.active - 1 ELSE s.active
             /\ f.inflight = [s.inflight EXCEPT
                                ![v] = IF s.inflight[v] > 0 THEN s.inflight[v] - 1
                                       ELSE s.inflight[v]]
  <1> DEFINE n == IF s.inflight[v] > 0 THEN s.inflight[v] - 1 ELSE s.inflight[v]
             m == IF s.active > 0 THEN s.active - 1 ELSE s.active
             d == [s EXCEPT !.inflight[v] = n, !.active = m]
             c == [d EXCEPT !.activeSession[v] = None]
             e == [c EXCEPT !.status[v] = "error"]
             r == RefreshActivity(c, {v})
             shown == IF HasLease(r, v) THEN "external" ELSE "idle"
             f == [r EXCEPT !.status[v] = shown]
  <1>1. Finally(s, v, x) \in {d, e, f}
    BY DEF Finally
  <1> HIDE DEF n, m
  <1> DEFINE Fields == {"status", "activeSession", "queueSize", "inflight", "running", "active",
                        "leases", "slots", "pendingRestore", "session", "results"}
  <1>2. d.active = m /\ d.inflight = [s.inflight EXCEPT ![v] = n] /\ DOMAIN d = Fields
    BY DEF WellFormed, Store
  <1> HIDE DEF d
  <1>3. SameCounts(d, c) /\ DOMAIN c = Fields
    BY <1>2 DEF SameCounts
  <1> HIDE DEF c
  <1>4. SameCounts(d, e)
    BY <1>3 DEF SameCounts
  <1>5. SameCounts(d, r) /\ DOMAIN r = Fields
    BY <1>3 DEF RefreshActivity, SameCounts
  <1> HIDE DEF r, shown
  <1>6. SameCounts(d, f)
    BY <1>5 DEF SameCounts
  <1> HIDE DEF e, f
  <1> QED
    BY <1>1, <1>2, <1>4, <1>6 DEF SameCounts, n, m

\* The finally block counts nothing up.
LEMMA FinallyCovers ==
  ASSUME NEW t, NEW s, NEW v \in Services, NEW x \in Sessions, Covers(t, s)
  PROVE  Covers(t, Finally(s, v, x))
  <1> DEFINE f == Finally(s, v, x)
  <1>1. WellFormed(s) /\ WellFormed(f)
    BY FinallyWellFormed DEF Covers
  <1>2. /\ f.active = IF s.active > 0 THEN s.active - 1 ELSE s.active
        /\ f.inflight = [s.inflight EXCEPT ![v] = IF s.inflight[v] > 0 THEN s.inflight[v] - 1
                                                  ELSE s.inflight[v]]
    BY <1>1, FinallyCounts
  <1>3. s.active \in Nat /\ s.inflight \in [Services -> Nat]
    BY <1>1 DEF WellFormed, Store
  <1> HIDE DEF f
  <1>4. f.active <= Cardinality(Forwarding \ {t})
    <2>1. Cardinality(Forwarding \ {t}) \in Nat
      BY ForwardingFinite
    <2>2. s.active <= Cardinality(Forwarding \ {t})
      BY DEF Covers
    <2> QED
      BY <1>2, <1>3, <2>1, <2>2
  <1>5. ASSUME NEW w \in Services
        PROVE  f.inflight[w] <= Cardinality(ForwardingTo(w) \ {t})
    <2>1. Cardinality(ForwardingTo(w) \ {t}) \in Nat /\ s.inflight[w] \in Nat
      BY <1>3, ForwardingFinite
    <2>2. s.inflight[w] <= Cardinality(ForwardingTo(w) \ {t})
      BY DEF Covers
    <2>3. f.inflight[w] = s.inflight[w] - 1 \/ f.inflight[w] = s.inflight[w]
      BY <1>2, <1>3
    <2> QED
      BY <2>1, <2>2, <2>3
  <1>6. Covers(t, f)
    BY <1>1, <1>4, <1>5 DEF Covers
  <1> QED
    BY <1>6 DEF f

\* When t forwards to v, the finally block takes t's own request out of the counters.
LEMMA FinallyUncounts ==
  ASSUME IInv, NoSlotLeak, NEW t \in Workers, NEW v \in Services, NEW x \in Sessions,
         task[t].pc = "forward", task[t].service = v,
         NEW s, WellFormed(s), SameCounts(store, s)
  PROVE  Covers(t, Finally(s, v, x))
  <1> DEFINE f == Finally(s, v, x)
  <1>1. WellFormed(f)
    BY FinallyWellFormed
  <1>2. /\ f.active = IF s.active > 0 THEN s.active - 1 ELSE s.active
        /\ f.inflight = [s.inflight EXCEPT ![v] = IF s.inflight[v] > 0 THEN s.inflight[v] - 1
                                                  ELSE s.inflight[v]]
    BY FinallyCounts
  <1>3. s.active \in Nat /\ s.inflight \in [Services -> Nat]
    BY DEF WellFormed, Store
  <1> HIDE DEF f
  <1>4. f.active <= Cardinality(Forwarding \ {t})
    <2>1. Cardinality(Forwarding \ {t}) = Cardinality(Forwarding) - 1
      <3>1. t \in Forwarding
        BY DEF Forwarding
      <3> QED
        BY <3>1, ForwardingFinite, FS_RemoveElement
    <2>2. s.active <= Cardinality(Forwarding)
      BY DEF NoSlotLeak, SameCounts
    <2>3. Cardinality(Forwarding) \in Nat /\ Cardinality(Forwarding \ {t}) \in Nat
      BY ForwardingFinite
    <2> QED
      BY <1>2, <1>3, <2>1, <2>2, <2>3
  <1>5. ASSUME NEW w \in Services
        PROVE  f.inflight[w] <= Cardinality(ForwardingTo(w) \ {t})
    <2>1. s.inflight[w] <= Cardinality(ForwardingTo(w)) /\ s.inflight[w] \in Nat
      BY <1>3 DEF NoSlotLeak, SameCounts
    <2>2. Cardinality(ForwardingTo(w) \ {t}) \in Nat /\ Cardinality(ForwardingTo(w)) \in Nat
      BY ForwardingFinite
    <2>3. CASE w = v
      <3>1. t \in ForwardingTo(w)
        BY <2>3 DEF Forwarding, ForwardingTo
      <3>2. Cardinality(ForwardingTo(w) \ {t}) = Cardinality(ForwardingTo(w)) - 1
        BY <3>1, ForwardingFinite, FS_RemoveElement
      <3>3. f.inflight[w] = IF s.inflight[w] > 0 THEN s.inflight[w] - 1 ELSE s.inflight[w]
        BY <1>2, <1>3, <2>3
      <3> QED
        BY <2>1, <2>2, <3>2, <3>3
    <2>4. CASE w # v
      <3>1. ForwardingTo(w) \ {t} = ForwardingTo(w)
        BY <2>4 DEF ForwardingTo
      <3>2. f.inflight[w] = s.inflight[w]
        BY <1>2, <1>3, <2>4
      <3> QED
        BY <2>1, <3>1, <3>2
    <2> QED
      BY <2>3, <2>4
  <1>6. Covers(t, f)
    BY <1>1, <1>4, <1>5 DEF Covers
  <1> QED
    BY <1>6 DEF f

-----------------------------------------------------------------------------
(* The ends of a section.                                                  *)

\* A task that does not forward is not counted when its section begins.
LEMMA BeginCovers ==
  ASSUME IInv, NoSlotLeak, NEW t, task[t].pc # "forward"
  PROVE  Covers(t, store)
  <1>1. Forwarding \ {t} = Forwarding /\ \A w : ForwardingTo(w) \ {t} = ForwardingTo(w)
    BY DEF Forwarding, ForwardingTo
  <1> QED
    BY <1>1 DEF Covers, NoSlotLeak, IInv

\* A task that stops elsewhere than at the forwarding leaves what the others account for.
LEMMA EndElsewhere ==
  ASSUME TaskOK(task), NEW t \in Tasks, NEW s, Covers(t, s), store' = s,
         NEW r, Become(t, r), r.pc # "forward"
  PROVE  NoSlotLeak'
  <1>1. \A u \in Tasks : task'[u] = IF u = t THEN r ELSE task[u]
    BY DEF TaskOK, Become
  <1>2. Forwarding' = Forwarding \ {t}
    BY <1>1 DEF Forwarding, Tasks
  <1>3. \A w : ForwardingTo(w)' = ForwardingTo(w) \ {t}
    BY <1>1, <1>2 DEF ForwardingTo, Forwarding, Tasks
  <1> QED
    BY <1>2, <1>3 DEF NoSlotLeak, Covers

\* At, for the two fields that matter here.
LEMMA AtElsewhere ==
  ASSUME TaskOK(task), NEW t \in Tasks, NEW s, Covers(t, s), store' = s,
         NEW pc, pc # "forward", NEW v, NEW x, Become(t, At(pc, v, x))
  PROVE  NoSlotLeak'
  BY EndElsewhere DEF At

\* A task that returns counts nothing.
LEMMA ReturnNoLeak ==
  ASSUME TaskOK(task), NEW t \in Tasks, NEW s, Covers(t, s), Return(t, s)
  PROVE  NoSlotLeak'
  BY AtElsewhere DEF Return, Idle

\* A step that leaves the tasks and the counters leaves the invariant.
LEMMA SameTasksNoLeak ==
  ASSUME NoSlotLeak, UNCHANGED task, SameCounts(store, store')
  PROVE  NoSlotLeak'
  BY DEF NoSlotLeak, SameCounts, Forwarding, ForwardingTo

-----------------------------------------------------------------------------
(* The sections, from the ones that end to the ones that begin.            *)

\* The loop over what to restore stops elsewhere.
LEMMA RestoreNextNoLeak ==
  ASSUME TaskOK(task), NEW t \in Tasks, NEW v, NEW x, NEW s, Covers(t, s), NEW todo,
         RestoreNext(t, v, x, s, todo)
  PROVE  NoSlotLeak'
  <1> DEFINE r == [At("restore_start", v, x) EXCEPT !.todo = todo]
  <1>1. r.pc # "forward"
    BY DEF At
  <1>2. /\ store' = s
        /\ Become(t, At("dead", v, x)) \/ Become(t, Idle) \/ Become(t, r)
    BY DEF RestoreNext
  <1> HIDE DEF r
  <1> QED
    BY <1>1, <1>2, EndElsewhere, AtElsewhere DEF Idle

\* So does the end of a run that restores,
LEMMA RestoreNoLeak ==
  ASSUME TaskOK(task), NEW t \in Tasks, NEW v \in Services, NEW x \in Sessions,
         NEW s, Covers(t, s), Restore(t, v, x, s)
  PROVE  NoSlotLeak'
  <1> DEFINE p == [s EXCEPT !.pendingRestore[x] = << >>]
  <1>1. << >> \in Seq(Services)
    OBVIOUS
  <1>2. WellFormed(p)
    BY <1>1, PendingRestoreWellFormed DEF Covers
  <1>3. SameCounts(s, p)
    BY DEF SameCounts, Covers, WellFormed, Store
  <1>4. PICK todo : RestoreNext(t, v, x, p, todo)
    BY DEF Restore
  <1> HIDE DEF p
  <1>5. Covers(t, p)
    BY <1>2, <1>3, SameCountsCovers
  <1> QED
    BY <1>4, <1>5, RestoreNextNoLeak

\* the end of any run,
LEMMA AfterRunNoLeak ==
  ASSUME TaskOK(task), NEW t \in Tasks, NEW v \in Services, NEW x \in Sessions,
         NEW s, Covers(t, s), AfterRun(t, v, x, s)
  PROVE  NoSlotLeak'
  <1> DEFINE r == RefreshActivity(s, {v})
  <1>1. WellFormed(s) /\ WellFormed(r)
    BY RefreshActivityWellFormed DEF Covers
  <1>2. Covers(t, r)
    BY <1>1, RefreshActivityCounts, SameCountsCovers
  <1>3. \/ Return(t, s)
        \/ Restore(t, v, x, r)
        \/ store' = r /\ Become(t, At("once_stop", v, x))
    BY DEF AfterRun
  <1> HIDE DEF r
  <1> QED
    BY <1>2, <1>3, ReturnNoLeak, RestoreNoLeak, AtElsewhere

\* and an exception raised elsewhere than at the forwarding.
LEMMA RaiseNoLeak ==
  ASSUME TaskOK(task), NEW t \in Tasks, NEW v \in Services, NEW x \in Sessions \cup {None},
         NEW s, Covers(t, s), Raise(t, v, x, s)
  PROVE  NoSlotLeak'
  <1>1. CASE x = None
    BY <1>1, ReturnNoLeak DEF Raise
  <1>2. CASE x # None
    <2> DEFINE f == [s EXCEPT !.session[x] = "failed"]
    <2>1. x \in Sessions
      BY <1>2
    <2>2. f \in Store /\ f.leases = s.leases /\ f.slots = s.slots /\ SameCounts(s, f)
      BY <2>1 DEF Covers, WellFormed, Store, SessionStatus, SameCounts
    <2>3. AfterRun(t, v, x, Finally(f, v, x))
      BY <1>2 DEF Raise
    <2> HIDE DEF f
    <2>4. WellFormed(f)
      BY <2>2, SameTables DEF Covers
    <2>5. Covers(t, f)
      BY <2>2, <2>4, SameCountsCovers
    <2>6. Covers(t, Finally(f, v, x))
      BY <2>1, <2>5, FinallyCovers
    <2> QED
      BY <2>1, <2>3, <2>6, AfterRunNoLeak
  <1> QED
    BY <1>1, <1>2

\* A worker that begins to forward counts its request and is counted.
LEMMA ForwardNoLeak ==
  ASSUME TaskOK(task), NEW t \in Workers, NEW v \in Services, NEW x \in Sessions,
         NEW s, Covers(t, s), Forward(t, v, x, s)
  PROVE  NoSlotLeak'
  <1> DEFINE a == AbortIfBusy(s, x)
             n == a.inflight[v] + 1
             m == a.active + 1
             f == [a EXCEPT !.inflight[v] = n, !.activeSession[v] = x,
                            !.status[v] = "processing", !.active = m,
                            !.session[x] = "processing"]
             r == At("forward", v, x)
  <1>1. t \in Tasks
    BY DEF Tasks
  <1>2. WellFormed(a)
    BY AbortIfBusyWellFormed DEF Covers
  <1>3. Covers(t, a)
    <2>1. SameCounts(s, a)
      BY AbortIfBusyCounts DEF Covers
    <2> QED
      BY <1>2, <2>1, SameCountsCovers
  <1>4. \/ Return(t, Finally(a, v, x))
        \/ store' = f /\ Become(t, r)
    BY DEF Forward
  <1>5. r.pc = "forward" /\ r.service = v
    BY DEF At
  <1> HIDE DEF a, r
  <1>6. CASE Return(t, Finally(a, v, x))
    BY <1>1, <1>3, <1>6, FinallyCovers, ReturnNoLeak
  <1>7. CASE store' = f /\ Become(t, r)
    <2>1. a.active \in Nat /\ a.inflight \in [Services -> Nat]
      BY <1>2 DEF WellFormed, Store
    <2>2. f.active = m /\ f.inflight = [a.inflight EXCEPT ![v] = n]
      BY <1>2 DEF WellFormed, Store
    <2> HIDE DEF f
    <2>3. \A u \in Tasks : task'[u] = IF u = t THEN r ELSE task[u]
      BY <1>7 DEF TaskOK, Become
    <2>4. Forwarding' = (Forwarding \ {t}) \cup {t}
      BY <1>5, <2>3 DEF Forwarding, Tasks
    <2>5. \A w : ForwardingTo(w)' = IF w = v THEN (ForwardingTo(w) \ {t}) \cup {t}
                                    ELSE ForwardingTo(w) \ {t}
      BY <1>5, <2>3 DEF ForwardingTo, Forwarding, Tasks
    <2>6. store'.active <= Cardinality(Forwarding')
      <3>1. Cardinality(Forwarding') = Cardinality(Forwarding \ {t}) + 1
        BY <2>4, ForwardingFinite, FS_AddElement
      <3>2. Cardinality(Forwarding \ {t}) \in Nat
        BY ForwardingFinite
      <3>3. a.active <= Cardinality(Forwarding \ {t})
        BY <1>3 DEF Covers
      <3> QED
        BY <1>7, <2>1, <2>2, <3>1, <3>2, <3>3
    <2>7. ASSUME NEW w \in Services
          PROVE  store'.inflight[w] <= Cardinality(ForwardingTo(w)')
      <3>1. Cardinality(ForwardingTo(w) \ {t}) \in Nat /\ a.inflight[w] \in Nat
        BY <2>1, ForwardingFinite
      <3>2. a.inflight[w] <= Cardinality(ForwardingTo(w) \ {t})
        BY <1>3 DEF Covers
      <3>3. CASE w = v
        <4>1. Cardinality(ForwardingTo(w)') = Cardinality(ForwardingTo(w) \ {t}) + 1
          BY <2>5, <3>3, ForwardingFinite, FS_AddElement
        <4>2. store'.inflight[w] = a.inflight[w] + 1
          BY <1>7, <2>1, <2>2, <3>3
        <4> QED
          BY <3>1, <3>2, <4>1, <4>2
      <3>4. CASE w # v
        <4>1. store'.inflight[w] = a.inflight[w]
          BY <1>7, <2>1, <2>2, <3>4
        <4> QED
          BY <2>5, <3>2, <3>4, <4>1
      <3> QED
        BY <3>3, <3>4
    <2> QED
      BY <2>6, <2>7 DEF NoSlotLeak
  <1> QED
    BY <1>4, <1>6, <1>7

\* A start command counts nothing,
LEMMA LaunchNoLeak ==
  ASSUME TaskOK(task), NEW t \in Tasks, NEW v, NEW x, NEW s, Covers(t, s),
         WellFormed(store'), Launch(t, v, x, s)
  PROVE  NoSlotLeak'
  <1>1. SameCounts(s, store')
    BY DEF Launch, SameCounts, Covers, WellFormed, Store
  <1>2. Covers(t, store')
    BY <1>1, SameCountsCovers
  <1> QED
    BY <1>2, AtElsewhere DEF Launch

\* nor does a wait for memory,
LEMMA SleepNoLeak ==
  ASSUME TaskOK(task), NEW t \in Tasks, NEW v, NEW x, NEW s, Covers(t, s),
         Sleep(t, v, x, s)
  PROVE  NoSlotLeak'
  BY AtElsewhere DEF Sleep

\* whichever way a round of it ends.
LEMMA CapacityNoLeak ==
  ASSUME TaskOK(task), LockOK(lock), up \subseteq Services, NEW t \in Tasks,
         NEW v \in Services, NEW x \in Sessions \cup {None}, NEW s, Covers(t, s),
         Capacity(t, v, x, s)
  PROVE  NoSlotLeak'
  <1> DEFINE r == RefreshActivity(s, Inspected(s, v))
  <1>1. WellFormed(s) /\ WellFormed(store')
    BY CapacitySound DEF Covers, Sound
  <1>2. WellFormed(r)
    <2>1. Inspected(s, v) \in SUBSET Services
      BY <1>1 DEF Inspected, WellFormed, Store
    <2> QED
      BY <1>1, <2>1, RefreshActivityWellFormed
  <1>3. Covers(t, r)
    BY <1>1, <1>2, RefreshActivityCounts, SameCountsCovers
  <1> HIDE DEF r
  <1>4. CASE Raise(t, v, x, s)
    BY <1>4, RaiseNoLeak
  <1>5. CASE Launch(t, v, x, s)
    BY <1>1, <1>5, LaunchNoLeak
  <1>6. CASE Sleep(t, v, x, r)
    BY <1>3, <1>6, SleepNoLeak
  <1>7. ASSUME NEW o, store' = r,
               Become(t, [At("reclaim", v, x) EXCEPT !.todo = o, !.free = Free[up]])
        PROVE  NoSlotLeak'
    <2> DEFINE q == [At("reclaim", v, x) EXCEPT !.todo = o, !.free = Free[up]]
    <2>1. q.pc # "forward"
      BY DEF At
    <2>2. Become(t, q)
      BY <1>7
    <2> HIDE DEF q
    <2> QED
      BY <1>3, <1>7, <2>1, <2>2, EndElsewhere
  <1> QED
    BY <1>4, <1>5, <1>6, <1>7 DEF Capacity, r

\* With the lock, only a worker goes on to forward.
LEMMA LockedNoLeak ==
  ASSUME TaskOK(task), LockOK(lock), up \subseteq Services, NEW t \in Tasks,
         NEW v \in Services, NEW x \in Sessions \cup {None}, x # None => t \in Workers,
         NEW s, Covers(t, s), Locked(t, v, x, s)
  PROVE  NoSlotLeak'
  <1>1. CASE Capacity(t, v, x, s)
    BY <1>1, CapacityNoLeak
  <1>2. CASE Return(t, s)
    BY <1>2, ReturnNoLeak
  <1>3. CASE x # None /\ Forward(t, v, x, s)
    BY <1>3, ForwardNoLeak
  <1> QED
    BY <1>1, <1>2, <1>3 DEF Locked

\* Without it, the task waits.
LEMMA AcquireNoLeak ==
  ASSUME TaskOK(task), LockOK(lock), up \subseteq Services, NEW t \in Tasks,
         NEW v \in Services, NEW x \in Sessions \cup {None}, x # None => t \in Workers,
         NEW s, Covers(t, s), Acquire(t, v, x, s)
  PROVE  NoSlotLeak'
  <1>1. CASE Locked(t, v, x, s)
    BY <1>1, LockedNoLeak
  <1>2. CASE store' = s /\ Become(t, At("lock", v, x))
    BY <1>2, AtElsewhere
  <1> QED
    BY <1>1, <1>2 DEF Acquire

-----------------------------------------------------------------------------
(* The actions.                                                            *)

\* Taking an item counts nothing until it is forwarded.
LEMMA DequeueNoLeak ==
  ASSUME IInv, NoSlotLeak, NEW t \in Workers, Dequeue(t)
  PROVE  NoSlotLeak'
  <1> DEFINE x == Head(queue)
             v == ServiceOf[x]
             n == store.queueSize[v] - 1
             s == [store EXCEPT !.queueSize[v] = n]
             a == AbortIfBusy(s, x)
  <1>1. t \in Tasks /\ queue # << >> /\ queue \in Seq(Sessions) /\ task[t].pc # "forward"
    BY DEF Tasks, Dequeue, IInv
  <1>2. x \in Sessions
    BY <1>1
  <1>3. v \in Services
    BY <1>2, SessionsAssumption
  <1>4. Return(t, Finally(a, v, x)) \/ Acquire(t, v, x, a)
    BY DEF Dequeue
  <1> HIDE DEF x, v
  <1>5. n \in Int
    BY <1>3 DEF IInv, WellFormed, Store
  <1> HIDE DEF n
  <1>6. /\ s \in Store /\ s.leases = store.leases /\ s.slots = store.slots
        /\ SameCounts(store, s)
    BY <1>3, <1>5 DEF IInv, WellFormed, Store, SameCounts
  <1> HIDE DEF s
  <1>7. WellFormed(s) /\ WellFormed(a)
    BY <1>2, <1>6, SameTables, AbortIfBusyWellFormed DEF IInv
  <1>8. Covers(t, s)
    BY <1>1, <1>6, <1>7, BeginCovers, SameCountsCovers
  <1>9. Covers(t, a)
    BY <1>7, <1>8, AbortIfBusyCounts, SameCountsCovers
  <1> HIDE DEF a
  <1>10. CASE Return(t, Finally(a, v, x))
    BY <1>1, <1>2, <1>3, <1>9, <1>10, FinallyCovers, ReturnNoLeak DEF IInv
  <1>11. CASE Acquire(t, v, x, a)
    BY <1>1, <1>2, <1>3, <1>9, <1>11, AcquireNoLeak DEF IInv
  <1> QED
    BY <1>4, <1>10, <1>11

\* Stopping a candidate resets what is counted for it.
LEMMA ReclaimStopsNoLeak ==
  ASSUME IInv, NoSlotLeak, NEW t \in Tasks, NEW v \in Services,
         NEW x \in Sessions \cup {None}, ReclaimStops(t, v, x)
  PROVE  NoSlotLeak'
  <1> DEFINE r == task[t]
             w == Head(r.todo)
             s == MarkServiceStopped(store, w)
             taken == Append(r.taken, w)
             free == r.free + Usage[w]
             p == [s EXCEPT !.pendingRestore[x] = taken]
             q == [r EXCEPT !.todo = Tail(r.todo), !.taken = taken, !.free = free]
  <1>1. r \in TaskState /\ r.todo # << >> /\ r.pc = "reclaim"
    BY DEF ReclaimStops, On, IInv, TaskOK
  <1>2. w \in Services /\ taken \in Seq(Services)
    BY <1>1 DEF TaskState
  <1>3. Covers(t, s)
    BY <1>1, <1>2, BeginCovers, MarkServiceStoppedCovers
  <1>4. WellFormed(store')
    BY ReclaimStopsSound DEF SoundStep, Sound
  <1>5. \/ Launch(t, v, x, IF x = None THEN s ELSE p)
        \/ Sleep(t, v, x, s)
        \/ store' = s /\ Become(t, q)
    BY DEF ReclaimStops
  <1>6. q.pc # "forward"
    BY <1>1 DEF TaskState
  <1> HIDE DEF w, s, taken, q
  <1>7. x # None => WellFormed(p) /\ SameCounts(s, p)
    <2>1. x # None => WellFormed(p)
      BY <1>2, <1>3, PendingRestoreWellFormed DEF Covers
    <2> QED
      BY <1>3, <2>1 DEF SameCounts, Covers, WellFormed, Store
  <1> HIDE DEF p
  <1>8. Covers(t, IF x = None THEN s ELSE p)
    BY <1>3, <1>7, SameCountsCovers
  <1>9. CASE Launch(t, v, x, IF x = None THEN s ELSE p)
    BY <1>4, <1>8, <1>9, LaunchNoLeak DEF IInv
  <1>10. CASE Sleep(t, v, x, s)
    BY <1>3, <1>10, SleepNoLeak DEF IInv
  <1>11. CASE store' = s /\ Become(t, q)
    BY <1>3, <1>6, <1>11, EndElsewhere DEF IInv
  <1> QED
    BY <1>5, <1>9, <1>10, <1>11

\* Nor do the other sections of a start leak a slot.
LEMMA StartStepNoLeak ==
  ASSUME IInv, NoSlotLeak, NEW t \in Tasks, NEW v \in Services,
         NEW x \in Sessions \cup {None}, x # None => t \in Workers, StartStep(t, v, x)
  PROVE  NoSlotLeak'
  <1> USE DEF IInv
  <1>1. Covers(t, store)
    <2>1. task[t].pc # "forward"
      BY DEF StartStep, LockGranted, ReclaimStops, ReclaimStopFails, CapacityRetry,
             CapacityTimeout, StartSucceeds, StartFails, HealthyAfterStart, HealthTimeout, On
    <2> QED
      BY <2>1, BeginCovers
  <1>2. CASE LockGranted(t, v, x)
    BY <1>1, <1>2, LockedNoLeak DEF LockGranted
  <1>3. CASE ReclaimStops(t, v, x)
    BY <1>3, ReclaimStopsNoLeak
  <1>4. CASE ReclaimStopFails(t, v, x)
    BY <1>1, <1>4, SleepNoLeak DEF ReclaimStopFails
  <1>5. CASE CapacityRetry(t, v, x)
    BY <1>1, <1>5, CapacityNoLeak DEF CapacityRetry
  <1>6. CASE CapacityTimeout(t, v, x) \/ StartFails(t, v, x) \/ HealthTimeout(t, v, x)
    BY <1>1, <1>6, RaiseNoLeak DEF CapacityTimeout, StartFails, HealthTimeout
  <1>7. CASE StartSucceeds(t, v, x)
    BY <1>1, <1>7, AtElsewhere DEF StartSucceeds
  <1>8. CASE HealthyAfterStart(t, v, x)
    <2> DEFINE s == MarkServiceStarted(store, v)
    <2>1. Covers(t, s)
      BY <1>1, MarkServiceStartedCovers
    <2>2. IF x = None THEN Return(t, s) ELSE Forward(t, v, x, s)
      BY <1>8 DEF HealthyAfterStart
    <2> HIDE DEF s
    <2> QED
      BY <2>1, <2>2, ReturnNoLeak, ForwardNoLeak
  <1> QED
    BY <1>2, <1>3, <1>4, <1>5, <1>6, <1>7, <1>8 DEF StartStep

\* A request that has been forwarded is no longer counted, whether it was answered
\* or failed.
LEMMA ForwardEndsNoLeak ==
  ASSUME IInv, NoSlotLeak, NEW t \in Workers, NEW v \in Services, NEW x \in Sessions,
         ForwardReturns(t, v, x) \/ ForwardFails(t, v, x)
  PROVE  NoSlotLeak'
  <1> DEFINE done == [store EXCEPT !.results = @ \cup {x}, !.session[x] = "finished"]
             failed == [store EXCEPT !.session[x] = "failed"]
  <1>1. task[t].pc = "forward" /\ task[t].service = v /\ t \in Tasks
    BY DEF ForwardReturns, ForwardFails, On, Tasks
  <1>2. PICK s \in {done, failed} : AfterRun(t, v, x, Finally(s, v, x))
    BY SessionsAssumption DEF ForwardReturns, ForwardFails, Raise
  <1>3. /\ done \in Store /\ done.leases = store.leases /\ done.slots = store.slots
        /\ SameCounts(store, done)
    BY DEF IInv, WellFormed, Store, SessionStatus, SameCounts
  <1>4. /\ failed \in Store /\ failed.leases = store.leases /\ failed.slots = store.slots
        /\ SameCounts(store, failed)
    BY DEF IInv, WellFormed, Store, SessionStatus, SameCounts
  <1> HIDE DEF done, failed
  <1>5. WellFormed(s) /\ SameCounts(store, s)
    BY <1>2, <1>3, <1>4, SameTables DEF IInv
  <1>6. Covers(t, Finally(s, v, x))
    BY <1>1, <1>5, FinallyUncounts
  <1> QED
    BY <1>1, <1>2, <1>6, AfterRunNoLeak DEF IInv

\* What follows a run counts nothing.
LEMMA RunStepNoLeak ==
  ASSUME IInv, NoSlotLeak, NEW t \in Workers, NEW v \in Services, NEW x \in Sessions,
         RunStep(t, v, x)
  PROVE  NoSlotLeak'
  <1> USE DEF IInv
  <1>1. t \in Tasks
    BY DEF Tasks
  <1>2. CASE ForwardReturns(t, v, x) \/ ForwardFails(t, v, x)
    BY <1>2, ForwardEndsNoLeak
  <1>3. CASE OnceStops(t, v, x)
    <2>1. Covers(t, MarkServiceStopped(store, v))
      BY <1>3, BeginCovers, MarkServiceStoppedCovers DEF OnceStops, On
    <2> QED
      BY <1>1, <1>3, <2>1, RestoreNoLeak DEF OnceStops
  <1>4. CASE OnceStopFails(t, v, x) \/ RestoreFails(t, v, x)
    <2>1. /\ task[t].pc # "forward" /\ store' = store
          /\ Become(t, At("dead", v, x))
      BY <1>4 DEF OnceStopFails, RestoreFails, On
    <2> QED
      BY <1>1, <2>1, BeginCovers, AtElsewhere
  <1>5. CASE RestoreStarts(t, v, x)
    <2> DEFINE r == [task[t] EXCEPT !.pc = "restore_health"]
    <2>1. task[t].pc # "forward" /\ store' = store /\ Become(t, r)
      BY <1>5 DEF RestoreStarts, On
    <2>2. r.pc # "forward"
      BY <1>1 DEF TaskOK, TaskState
    <2> HIDE DEF r
    <2> QED
      BY <1>1, <2>1, <2>2, BeginCovers, EndElsewhere
  <1>6. CASE RestoreHealthy(t, v, x)
    <2> DEFINE todo == task[t].todo
               w == Head(todo)
               s == MarkServiceStarted(store, w)
    <2>1. todo \in Seq(Services) /\ todo # << >> /\ task[t].pc # "forward"
      BY <1>1, <1>6 DEF RestoreHealthy, On, TaskOK, TaskState
    <2>2. w \in Services
      BY <2>1
    <2>3. RestoreNext(t, v, x, s, Tail(todo))
      BY <1>6 DEF RestoreHealthy
    <2>4. Covers(t, s)
      BY <2>1, <2>2, BeginCovers, MarkServiceStartedCovers
    <2> HIDE DEF todo, s
    <2> QED
      BY <1>1, <2>3, <2>4, RestoreNextNoLeak
  <1> QED
    BY <1>2, <1>3, <1>4, <1>5, <1>6 DEF RunStep

\* An answer that arrives moves nobody.
LEMMA AnswerNoLeak ==
  ASSUME IInv, NoSlotLeak, NEW t \in Tasks, Answer(t)
  PROVE  NoSlotLeak'
  <1>1. UNCHANGED store /\ \A u \in Tasks : Alike(task'[u], task[u])
    BY AnswerAlike DEF IInv
  <1>2. Forwarding' = Forwarding /\ \A w : ForwardingTo(w)' = ForwardingTo(w)
    BY <1>1 DEF Forwarding, ForwardingTo, Alike, Tasks
  <1> QED
    BY <1>1, <1>2 DEF NoSlotLeak

\* No step of a handler that has begun counts anything.
LEMMA HandlerStepNoLeak ==
  ASSUME IInv, NoSlotLeak, NEW h \in Handlers, HandlerStep(h)
  PROVE  NoSlotLeak'
  <1> USE DEF IInv
  <1>1. h \in Tasks
    BY DEF Tasks
  <1>8. CASE Answer(h)
    BY <1>1, <1>8, AnswerNoLeak
  <1>9. SUFFICES ASSUME ~Answer(h) PROVE NoSlotLeak'
    BY <1>8
  <1>2. PICK v \in Services :
          \/ StartStep(h, v, None)
          \/ StopReturns(h, v) \/ StopFails(h, v)
          \/ ProbeHealthy(h, v) \/ ProbeTimeout(h, v)
    BY <1>9 DEF HandlerStep
  <1>3. CASE StartStep(h, v, None)
    BY <1>1, <1>3, StartStepNoLeak
  <1>4. CASE StopReturns(h, v)
    BY <1>1, <1>4, BeginCovers, MarkServiceStoppedCovers, ReturnNoLeak DEF StopReturns, On
  <1>5. CASE StopFails(h, v) \/ ProbeTimeout(h, v)
    BY <1>1, <1>5, BeginCovers, ReturnNoLeak DEF StopFails, ProbeTimeout, On
  <1>6. CASE ProbeHealthy(h, v)
    <2> DEFINE r == RefreshActivity(store, {v})
               shown == IF HasLease(r, v) THEN "external" ELSE "idle"
               f == [r EXCEPT !.status[v] = shown]
    <2>1. Covers(h, store)
      BY <1>6, BeginCovers DEF ProbeHealthy, On
    <2>2. Return(h, MarkServiceStarted(store, v)) \/ Return(h, f)
      BY <1>6 DEF ProbeHealthy
    <2>3. WellFormed(r) /\ SameCounts(store, r)
      BY RefreshActivityWellFormed, RefreshActivityCounts
    <2> HIDE DEF r
    <2>4. shown \in ServiceStatus
      BY DEF ServiceStatus
    <2> HIDE DEF shown
    <2>5. f \in Store /\ f.leases = r.leases /\ f.slots = r.slots /\ SameCounts(store, f)
      BY <2>3, <2>4 DEF WellFormed, Store, SameCounts
    <2> HIDE DEF f
    <2>6. Covers(h, f)
      BY <2>1, <2>3, <2>5, SameTables, SameCountsCovers
    <2> QED
      BY <1>1, <2>1, <2>2, <2>6, MarkServiceStartedCovers, ReturnNoLeak
  <1> QED
    BY <1>2, <1>3, <1>4, <1>5, <1>6

\* A stop request counts nothing: it is refused, or waits for its command.
LEMMA StopServiceNoLeak ==
  ASSUME IInv, NoSlotLeak, NEW h \in Tasks, NEW v \in Services, StopService(h, v)
  PROVE  NoSlotLeak'
  <1> DEFINE r == RefreshActivity(store, {v})
             f == [r EXCEPT !.status[v] = "stopping"]
  <1>1. WellFormed(r) /\ SameCounts(store, r)
    BY RefreshActivityWellFormed, RefreshActivityCounts DEF IInv
  <1>2. \/ store' = r /\ UNCHANGED task
        \/ store' = f /\ Become(h, At("stop", v, None))
    BY DEF StopService
  <1>3. Covers(h, store)
    BY BeginCovers DEF StopService
  <1> HIDE DEF r
  <1>4. f \in Store /\ f.leases = r.leases /\ f.slots = r.slots /\ SameCounts(store, f)
    BY <1>1 DEF WellFormed, Store, ServiceStatus, SameCounts
  <1> HIDE DEF f
  <1>5. Covers(h, f)
    BY <1>1, <1>3, <1>4, SameTables, SameCountsCovers
  <1> QED
    BY <1>1, <1>2, <1>5, SameTasksNoLeak, AtElsewhere DEF IInv

\* No request counts anything.
LEMMA RequestNoLeak ==
  ASSUME IInv, NoSlotLeak, Request
  PROVE  NoSlotLeak'
  <1> USE DEF IInv
  <1>1. ASSUME NEW x \in Sessions, Submit(x)
        PROVE  NoSlotLeak'
    <2> DEFINE p == PruneReservedSlots(store)
    <2>1. WellFormed(p) /\ SameCounts(store, p)
      BY PruneReservedSlotsWellFormed, PruneReservedSlotsCounts
    <2>2. UNCHANGED task /\ (store' = CreateSession(p, x) \/ store' = p)
      BY <1>1 DEF Submit
    <2> HIDE DEF p
    <2>3. SameCounts(p, CreateSession(p, x))
      BY <2>1 DEF CreateSession, SameCounts, WellFormed, Store
    <2>4. SameCounts(store, store')
      BY <2>1, <2>2, <2>3 DEF SameCounts
    <2> QED
      BY <2>2, <2>4, SameTasksNoLeak
  <1>2. ASSUME NEW h \in Handlers, NEW v \in Services,
               StartService(h, v) \/ StopService(h, v) \/ Healthcheck(h, v)
        PROVE  NoSlotLeak'
    <2>1. h \in Tasks
      BY DEF Tasks
    <2>2. CASE StartService(h, v)
      BY <2>1, <2>2, BeginCovers, AcquireNoLeak DEF StartService
    <2>3. CASE StopService(h, v)
      BY <2>1, <2>3, StopServiceNoLeak
    <2>4. CASE Healthcheck(h, v)
      BY <2>1, <2>4, BeginCovers, AtElsewhere DEF Healthcheck
    <2> QED
      BY <1>2, <2>2, <2>3, <2>4
  <1>3. ASSUME NEW k \in LeaseKeys, ReleaseLease(k)
        PROVE  NoSlotLeak'
    BY <1>3, ReleaseExternalLeaseCounts, SameTasksNoLeak DEF ReleaseLease
  <1>4. ASSUME NEW k \in LeaseKeys, NEW ttl \in 1 .. MaxTtl, NEW reserve \in BOOLEAN,
               TouchLease(k, ttl, reserve)
        PROVE  NoSlotLeak'
    BY <1>4, TouchExternalLeaseCounts, SameTasksNoLeak DEF TouchLease
  <1>5. ASSUME NEW old \in SUBSET Expirable(store), Cleanup(old)
        PROVE  NoSlotLeak'
    <2>1. SameCounts(store, store')
      BY <1>5 DEF Cleanup, CleanupExpired, RefreshActivity, SameCounts, WellFormed, Store
    <2> QED
      BY <1>5, <2>1, SameTasksNoLeak DEF Cleanup
  <1> QED
    BY <1>1, <1>2, <1>3, <1>4, <1>5 DEF Request

-----------------------------------------------------------------------------
(* The invariant and what follows from it.                                 *)

\* A hub that has just reconciled counts nothing.
LEMMA InitNoSlotLeak == Init => NoSlotLeak
  <1> SUFFICES ASSUME Init PROVE NoSlotLeak
    OBVIOUS
  <1>1. store.active = 0 /\ \A w \in Services : store.inflight[w] = 0
    BY DEF Init, InitialStore
  <1>2. Cardinality(Forwarding) \in Nat /\ \A w : Cardinality(ForwardingTo(w)) \in Nat
    BY ForwardingFinite
  <1> QED
    BY <1>1, <1>2 DEF NoSlotLeak

\* Every step keeps the counters within what is forwarded.
LEMMA NextNoSlotLeak == IInv /\ NoSlotLeak /\ [Next]_vars => NoSlotLeak'
  <1> SUFFICES ASSUME IInv, NoSlotLeak, [Next]_vars PROVE NoSlotLeak'
    OBVIOUS
  <1>1. CASE UNCHANGED vars
    BY <1>1, SameTasksNoLeak DEF vars, SameCounts
  <1>2. ASSUME NEW t \in Workers, WorkerStep(t)
        PROVE  NoSlotLeak'
    <2>1. t \in Tasks
      BY DEF Tasks
    <2>2. CASE Dequeue(t)
      BY <2>2, DequeueNoLeak
    <2>3. ASSUME NEW v \in Services, NEW x \in Sessions,
                 StartStep(t, v, x) \/ RunStep(t, v, x)
          PROVE  NoSlotLeak'
      BY <2>1, <2>3, StartStepNoLeak, RunStepNoLeak
    <2>4. CASE Answer(t)
      BY <2>1, <2>4, AnswerNoLeak
    <2> QED
      BY <1>2, <2>2, <2>3, <2>4 DEF WorkerStep
  <1>3. ASSUME NEW h \in Handlers, HandlerStep(h)
        PROVE  NoSlotLeak'
    BY <1>3, HandlerStepNoLeak
  <1>4. CASE Request
    BY <1>4, RequestNoLeak
  <1>5. CASE Environment
    <2>1. UNCHANGED task /\ SameCounts(store, store')
      BY <1>5 DEF Environment, Tick, Crash, Elapse, SameCounts, IInv, WellFormed, Store
    <2> QED
      BY <2>1, SameTasksNoLeak
  <1> QED
    BY <1>1, <1>2, <1>3, <1>4, <1>5 DEF Next

\* No exit of _run_one leaks a slot, whatever is aborted, stopped or fails: the
\* counters of requests in flight never exceed the requests really forwarded.
THEOREM NoSlotLeakHolds == Spec => []NoSlotLeak
  BY InitIInv, NextIInv, InitNoSlotLeak, NextNoSlotLeak, PTL DEF Spec

-----------------------------------------------------------------------------
(* Locks.                                                                  *)

\* A task with the local variables r waits for the lock of v, or runs under it.
UnderLock == {"reclaim", "sleep", "start", "health"}
InLock(r, v) == r.service = v /\ (r.pc \in UnderLock \/ r.pc = "lock")

\* LocksConsistent for the queue l of one lock and the tasks f.
LockRight(l, f, v) ==
    /\ \A i, j \in DOMAIN l : l[i] = l[j] => i = j
    /\ \A i \in DOMAIN l : l[i] \in Tasks /\ InLock(f[l[i]], v)
    /\ \A t \in Tasks : InLock(f[t], v) => \E i \in DOMAIN l : l[i] = t
    /\ \A i \in DOMAIN l : i > 1 => f[l[i]].pc = "lock"

LEMMA LocksConsistentRight ==
  /\ LocksConsistent <=> \A v \in Services : LockRight(lock[v], task, v)
  /\ LocksConsistent' <=> \A v \in Services : LockRight(lock'[v], task', v)
  <1> DEFINE Users(f, v) == {t \in Tasks : f[t].service = v
                                           /\ (f[t].pc \in UnderLock \/ f[t].pc = "lock")}
             Right(l, f, v) == /\ \A i, j \in DOMAIN l : l[i] = l[j] => i = j
                               /\ Range(l) = Users(f, v)
                               /\ \A i \in DOMAIN l : i > 1 => f[l[i]].pc = "lock"
  <1>1. ASSUME NEW l, NEW f, NEW v
        PROVE  Right(l, f, v) <=> LockRight(l, f, v)
    <2>1. Range(l) = Users(f, v) <=>
             /\ \A i \in DOMAIN l : l[i] \in Tasks /\ InLock(f[l[i]], v)
             /\ \A t \in Tasks : InLock(f[t], v) => \E i \in DOMAIN l : l[i] = t
      BY DEF Range, InLock
    <2> HIDE DEF Users
    <2> QED
      BY <2>1 DEF LockRight
  <1>2. /\ LocksConsistent <=> \A v \in Services : Right(lock[v], task, v)
        /\ LocksConsistent' <=> \A v \in Services : Right(lock'[v], task', v)
    BY DEF LocksConsistent, Starting, UnderLock
  <1> HIDE DEF Right
  <1> QED
    BY <1>1, <1>2

\* The task at the head of the queue goes on under the lock,
LEMMA HeadGoesOn ==
  ASSUME NEW l \in Seq(Tasks), NEW f, NEW g, NEW v, NEW t \in Tasks, LockRight(l, f, v),
         \A u \in Tasks \ {t} : g[u] = f[u], l # << >>, Head(l) = t, InLock(g[t], v)
  PROVE  LockRight(l, g, v)
  <1>1. 1 \in DOMAIN l /\ l[1] = t /\ \A i \in DOMAIN l : i > 1 => l[i] # t
    BY DEF LockRight
  <1>2. \A i \in DOMAIN l : l[i] \in Tasks /\ InLock(g[l[i]], v)
    BY DEF LockRight
  <1>3. \A u \in Tasks : InLock(g[u], v) => \E i \in DOMAIN l : l[i] = u
    BY <1>1 DEF LockRight
  <1>4. \A i \in DOMAIN l : i > 1 => g[l[i]].pc = "lock"
    BY <1>1, <1>2 DEF LockRight
  <1> QED
    BY <1>2, <1>3, <1>4 DEF LockRight

\* or releases it;
LEMMA HeadLeaves ==
  ASSUME NEW l \in Seq(Tasks), NEW f, NEW g, NEW v, NEW t \in Tasks, LockRight(l, f, v),
         \A u \in Tasks \ {t} : g[u] = f[u], l # << >>, Head(l) = t, ~InLock(g[t], v)
  PROVE  LockRight(Tail(l), g, v)
  <1> DEFINE m == Tail(l)
  <1>1. /\ 1 \in DOMAIN l /\ l[1] = t /\ \A i \in DOMAIN l : i # 1 => l[i] # t
        /\ \A i \in DOMAIN l : i \in Nat
    BY DEF LockRight
  <1>2. /\ \A i \in DOMAIN m : i \in Nat /\ i + 1 \in DOMAIN l /\ i + 1 > 1 /\ m[i] = l[i + 1]
        /\ \A j \in DOMAIN l : j # 1 => j - 1 \in DOMAIN m /\ m[j - 1] = l[j]
    OBVIOUS
  <1> HIDE DEF m
  <1>3. \A i, j \in DOMAIN m : m[i] = m[j] => i = j
    <2> SUFFICES ASSUME NEW i \in DOMAIN m, NEW j \in DOMAIN m, m[i] = m[j]
                 PROVE  i = j
      OBVIOUS
    <2>1. i + 1 = j + 1
      BY <1>2 DEF LockRight
    <2> QED
      BY <1>2, <2>1
  <1>4. \A i \in DOMAIN m : /\ m[i] \in Tasks /\ InLock(g[m[i]], v)
                            /\ i > 1 => g[m[i]].pc = "lock"
    <2> SUFFICES ASSUME NEW i \in DOMAIN m
                 PROVE  /\ m[i] \in Tasks /\ InLock(g[m[i]], v)
                        /\ i > 1 => g[m[i]].pc = "lock"
      OBVIOUS
    <2>1. i + 1 \in DOMAIN l /\ i + 1 > 1 /\ i + 1 # 1 /\ m[i] = l[i + 1]
      BY <1>2
    <2>2. m[i] \in Tasks \ {t} /\ InLock(f[m[i]], v) /\ f[m[i]].pc = "lock"
      BY <1>1, <2>1 DEF LockRight
    <2> QED
      BY <2>2
  <1>5. \A u \in Tasks : InLock(g[u], v) => \E i \in DOMAIN m : m[i] = u
    <2> SUFFICES ASSUME NEW u \in Tasks, InLock(g[u], v)
                 PROVE  \E i \in DOMAIN m : m[i] = u
      OBVIOUS
    <2>1. u # t /\ InLock(f[u], v)
      OBVIOUS
    <2>2. PICK j \in DOMAIN l : l[j] = u
      BY <2>1 DEF LockRight
    <2> QED
      BY <1>1, <1>2, <2>1, <2>2
  <1>6. LockRight(m, g, v)
    BY <1>3, <1>4, <1>5 DEF LockRight
  <1> QED
    BY <1>6 DEF m

\* a task that finds it free takes it,
LEMMA FirstTakes ==
  ASSUME NEW f, NEW g, NEW v, NEW t \in Tasks, LockRight(<< >>, f, v),
         \A u \in Tasks \ {t} : g[u] = f[u], InLock(g[t], v)
  PROVE  LockRight(<<t>>, g, v)
  <1>1. \A u \in Tasks : ~InLock(f[u], v)
    BY DEF LockRight
  <1>2. DOMAIN <<t>> = {1} /\ <<t>>[1] = t
    OBVIOUS
  <1> QED
    BY <1>1, <1>2 DEF LockRight

\* or queues behind its holder;
LEMMA LastWaits ==
  ASSUME NEW l \in Seq(Tasks), NEW f, NEW g, NEW v, NEW t \in Tasks, LockRight(l, f, v),
         \A u \in Tasks \ {t} : g[u] = f[u], ~InLock(f[t], v),
         g[t].pc = "lock", g[t].service = v
  PROVE  LockRight(Append(l, t), g, v)
  <1> DEFINE n == Len(l) + 1
             m == Append(l, t)
  <1>1. /\ DOMAIN m = DOMAIN l \cup {n} /\ m[n] = t /\ n \notin DOMAIN l
        /\ \A i \in DOMAIN l : m[i] = l[i]
    OBVIOUS
  <1>2. \A i \in DOMAIN l : l[i] \in Tasks \ {t}
    BY DEF LockRight
  <1> HIDE DEF n, m
  <1>3. LockRight(m, g, v)
    <2>1. \A i, j \in DOMAIN m : m[i] = m[j] => i = j
      BY <1>1, <1>2 DEF LockRight
    <2>2. \A i \in DOMAIN m : m[i] \in Tasks /\ InLock(g[m[i]], v)
      BY <1>1, <1>2 DEF LockRight, InLock
    <2>3. \A u \in Tasks : InLock(g[u], v) => \E i \in DOMAIN m : m[i] = u
      BY <1>1 DEF LockRight
    <2>4. \A i \in DOMAIN m : i > 1 => g[m[i]].pc = "lock"
      BY <1>1, <1>2 DEF LockRight
    <2> QED
      BY <2>1, <2>2, <2>3, <2>4 DEF LockRight
  <1> QED
    BY <1>3 DEF m

\* and a task that has nothing to do with the lock leaves it alone.
LEMMA OthersLeave ==
  ASSUME NEW l, NEW f, NEW g, NEW v, NEW t \in Tasks, LockRight(l, f, v),
         \A u \in Tasks \ {t} : g[u] = f[u], ~InLock(f[t], v), ~InLock(g[t], v)
  PROVE  LockRight(l, g, v)
  <1>1. \A u \in Tasks : InLock(g[u], v) <=> InLock(f[u], v)
    OBVIOUS
  <1>2. \A i \in DOMAIN l : l[i] \in Tasks \ {t}
    BY DEF LockRight
  <1> QED
    BY <1>1, <1>2 DEF LockRight

\* What a section of t does with the lock of v when t has it or has found it free.
Leaves(t) == OnlyMoves(t) /\ task'[t].pc \notin UnderLock \cup {"lock"}
GoesOn(t, v) == OnlyMoves(t) /\ task'[t].service = v /\ task'[t].pc \in UnderLock
UsesLock(t, v) == (GoesOn(t, v) /\ Hold(t, v)) \/ (Leaves(t) /\ Unlock(t, v))

\* A request that is answered, or a run that returns, is under no lock,
LEMMA ReturnLeaves ==
  ASSUME TaskOK(task), NEW t \in Tasks, NEW s, Return(t, s)
  PROVE  Leaves(t)
  BY BecomeMoves DEF Return, Leaves, Idle, At, UnderLock

\* nor is a task that stops at another await,
LEMMA AtLeaves ==
  ASSUME TaskOK(task), NEW t \in Tasks, NEW pc, NEW v, NEW x, Become(t, At(pc, v, x)),
         pc \notin UnderLock \cup {"lock"}
  PROVE  Leaves(t)
  BY BecomeMoves DEF Leaves, At

\* nor one that restores services or stops its own,
LEMMA RestoreLeaves ==
  ASSUME TaskOK(task), NEW t \in Tasks, NEW v, NEW x, NEW s, Restore(t, v, x, s)
  PROVE  Leaves(t)
  <1>1. PICK p, todo : RestoreNext(t, v, x, p, todo)
    BY DEF Restore
  <1> QED
    BY <1>1, RestoreNextStops DEF Leaves, Stops, Idle, At, UnderLock

LEMMA AfterRunLeaves ==
  ASSUME TaskOK(task), NEW t \in Tasks, NEW v, NEW x, NEW s, AfterRun(t, v, x, s)
  PROVE  Leaves(t)
  BY ReturnLeaves, RestoreLeaves, AtLeaves DEF AfterRun, UnderLock

\* after an exception too: this is what keeps a failure from holding a lock.
LEMMA RaiseLeaves ==
  ASSUME TaskOK(task), NEW t \in Tasks, NEW v, NEW x, NEW s, Raise(t, v, x, s)
  PROVE  Leaves(t)
  BY ReturnLeaves, AfterRunLeaves DEF Raise

LEMMA ForwardLeaves ==
  ASSUME TaskOK(task), NEW t \in Tasks, NEW v, NEW x, NEW s, Forward(t, v, x, s)
  PROVE  Leaves(t)
  BY ReturnLeaves, AtLeaves DEF Forward, UnderLock

\* A start command and a sleep are under the lock,
LEMMA LaunchUses ==
  ASSUME TaskOK(task), NEW t \in Tasks, NEW v, NEW x, NEW s,
         Launch(t, v, x, s) \/ Sleep(t, v, x, s)
  PROVE  UsesLock(t, v)
  BY BecomeMoves DEF Launch, Sleep, UsesLock, GoesOn, At, UnderLock

\* and so is the whole wait for memory, unless an exception ends it,
LEMMA CapacityUses ==
  ASSUME TaskOK(task), NEW t \in Tasks, NEW v, NEW x, NEW s, Capacity(t, v, x, s)
  PROVE  UsesLock(t, v)
  <1> DEFINE r == RefreshActivity(s, Inspected(s, v))
             q(o) == [At("reclaim", v, x) EXCEPT !.todo = o, !.free = Free[up]]
  <1>1. CASE Unlock(t, v) /\ Raise(t, v, x, s)
    BY <1>1, RaiseLeaves DEF UsesLock
  <1>2. CASE Launch(t, v, x, s)
    BY <1>2, LaunchUses
  <1>3. CASE Sleep(t, v, x, r)
    BY <1>3, LaunchUses
  <1>4. ASSUME NEW o, Become(t, q(o)), Hold(t, v)
        PROVE  UsesLock(t, v)
    <2>1. q(o).pc = "reclaim" /\ q(o).service = v
      BY DEF At
    <2> HIDE DEF q
    <2> QED
      BY <1>4, <2>1, BecomeMoves DEF UsesLock, GoesOn, UnderLock
  <1>5. \/ Unlock(t, v) /\ Raise(t, v, x, s)
        \/ Launch(t, v, x, s)
        \/ Sleep(t, v, x, r)
        \/ \E o \in ReclaimOrders(r, v) : Become(t, q(o)) /\ Hold(t, v)
    BY DEF Capacity
  <1> HIDE DEF r, q
  <1> QED
    BY <1>1, <1>2, <1>3, <1>4, <1>5

\* or the service turns out to be up.
LEMMA LockedUses ==
  ASSUME TaskOK(task), NEW t \in Tasks, NEW v, NEW x, NEW s, Locked(t, v, x, s)
  PROVE  UsesLock(t, v)
  BY CapacityUses, ReturnLeaves, ForwardLeaves DEF Locked, UsesLock

\* The invariant after a section of a task that has the lock of v,
LEMMA UsesLockKeeps ==
  ASSUME LockOK(lock), LocksConsistent, NEW t \in Tasks, NEW v \in Services, UsesLock(t, v),
         \/ InLock(task[t], v) /\ Head(lock[v]) = t
         \/ lock[v] = << >> /\ task[t].pc \notin UnderLock \cup {"lock"}
  PROVE  LocksConsistent'
  <1>1. /\ OnlyMoves(t) /\ lock \in [Services -> Seq(Tasks)]
        /\ \A w \in Services : LockRight(lock[w], task, w)
    BY LocksConsistentRight DEF UsesLock, GoesOn, Leaves, LockOK
  <1>2. \A w \in Services \ {v} : ~InLock(task[t], w) /\ ~InLock(task'[t], w)
    BY DEF UsesLock, GoesOn, Leaves, InLock
  <1>3. \A w \in Services \ {v} : LockRight(lock'[w], task', w)
    BY <1>1, <1>2, OthersLeave DEF UsesLock, Hold, Unlock, OnlyMoves
  <1>4. InLock(task[t], v) => lock[v] # << >>
    BY <1>1 DEF LockRight
  <1>5. LockRight(lock'[v], task', v)
    <2>1. CASE GoesOn(t, v) /\ Hold(t, v)
      <3>1. InLock(task'[t], v)
        BY <2>1 DEF GoesOn, InLock
      <3>2. lock'[v] = IF lock[v] = << >> THEN <<t>> ELSE lock[v]
        BY <1>1, <2>1 DEF Hold
      <3> QED
        BY <1>1, <1>4, <3>1, <3>2, HeadGoesOn, FirstTakes DEF OnlyMoves
    <2>2. CASE Leaves(t) /\ Unlock(t, v)
      <3>1. ~InLock(task'[t], v)
        BY <2>2 DEF Leaves, InLock
      <3>2. lock'[v] = IF lock[v] = << >> THEN << >> ELSE Tail(lock[v])
        BY <1>1, <2>2 DEF Unlock
      <3>3. CASE lock[v] = << >>
        <4>1. ~InLock(task[t], v)
          BY <1>4, <3>3
        <4> QED
          BY <1>1, <3>1, <3>2, <3>3, <4>1, OthersLeave DEF OnlyMoves
      <3>4. CASE lock[v] # << >>
        BY <1>1, <3>1, <3>2, <3>4, HeadLeaves DEF OnlyMoves
      <3> QED
        BY <3>3, <3>4
    <2> QED
      BY <2>1, <2>2 DEF UsesLock
  <1> QED
    BY <1>3, <1>5, LocksConsistentRight

\* of a task that asks for it,
LEMMA AcquireKeeps ==
  ASSUME TaskOK(task), LockOK(lock), LocksConsistent, NEW t \in Tasks, NEW v \in Services,
         NEW x, NEW s, task[t].pc = "idle", Acquire(t, v, x, s)
  PROVE  LocksConsistent'
  <1>1. task[t].pc \notin UnderLock \cup {"lock"}
    BY DEF UnderLock
  <1>2. CASE lock[v] = << >> /\ Locked(t, v, x, s)
    BY <1>1, <1>2, LockedUses, UsesLockKeeps
  <1>3. CASE Become(t, At("lock", v, x)) /\ lock' = [lock EXCEPT ![v] = Append(@, t)]
    <2>1. OnlyMoves(t) /\ task'[t].pc = "lock" /\ task'[t].service = v
      BY <1>3, BecomeMoves DEF At
    <2>2. /\ lock \in [Services -> Seq(Tasks)]
          /\ \A w \in Services : LockRight(lock[w], task, w) /\ ~InLock(task[t], w)
      BY <1>1, LocksConsistentRight DEF LockOK, InLock
    <2>3. \A w \in Services \ {v} : ~InLock(task'[t], w) /\ lock'[w] = lock[w]
      BY <1>3, <2>1, <2>2 DEF InLock
    <2>4. \A w \in Services \ {v} : LockRight(lock'[w], task', w)
      BY <2>1, <2>2, <2>3, OthersLeave DEF OnlyMoves
    <2>5. lock'[v] = Append(lock[v], t)
      BY <1>3, <2>2
    <2>6. LockRight(Append(lock[v], t), task', v)
      <3>1. lock[v] \in Seq(Tasks) /\ LockRight(lock[v], task, v) /\ ~InLock(task[t], v)
        BY <2>2
      <3> QED
        BY <2>1, <3>1, LastWaits DEF OnlyMoves
    <2> QED
      BY <2>4, <2>5, <2>6, LocksConsistentRight
  <1> QED
    BY <1>2, <1>3 DEF Acquire

\* and of one that is elsewhere and stays elsewhere.
LEMMA ElsewhereKeeps ==
  ASSUME LocksConsistent, NEW t \in Tasks, UNCHANGED lock, Leaves(t),
         task[t].pc \notin UnderLock \cup {"lock"}
  PROVE  LocksConsistent'
  <1>1. \A w \in Services : /\ LockRight(lock[w], task, w)
                            /\ ~InLock(task[t], w) /\ ~InLock(task'[t], w)
    BY LocksConsistentRight DEF Leaves, InLock
  <1>2. \A w \in Services : LockRight(lock'[w], task', w)
    BY <1>1, OthersLeave DEF Leaves, OnlyMoves
  <1> QED
    BY <1>2, LocksConsistentRight

\* Whoever runs under a lock is at the head of its queue.
LEMMA AtHead ==
  ASSUME LockOK(lock), LocksConsistent, NEW t \in Tasks, NEW v \in Services,
         task[t].service = v, task[t].pc \in UnderLock
  PROVE  InLock(task[t], v) /\ Head(lock[v]) = t
  <1>1. /\ lock[v] \in Seq(Tasks) /\ LockRight(lock[v], task, v) /\ InLock(task[t], v)
    BY LocksConsistentRight DEF LockOK, InLock
  <1>2. PICK i \in DOMAIN lock[v] : lock[v][i] = t
    BY <1>1 DEF LockRight
  <1>3. ~(i > 1)
    BY <1>1, <1>2 DEF LockRight, UnderLock
  <1> QED
    BY <1>1, <1>2, <1>3

\* A candidate is stopped under the lock.
LEMMA ReclaimStopsUses ==
  ASSUME IInv, LocksConsistent, NEW t \in Tasks, NEW v \in Services, NEW x,
         ReclaimStops(t, v, x)
  PROVE  LocksConsistent'
  <1> DEFINE r == task[t]
             w == Head(r.todo)
             s == MarkServiceStopped(store, w)
             taken == Append(r.taken, w)
             free == r.free + Usage[w]
             p == [s EXCEPT !.pendingRestore[x] = taken]
             q == [r EXCEPT !.todo = Tail(@), !.taken = taken, !.free = free]
  <1>1. /\ TaskOK(task) /\ LockOK(lock) /\ r \in TaskState
        /\ r.pc = "reclaim" /\ r.service = v
    BY DEF ReclaimStops, On, IInv, TaskOK
  <1>2. InLock(r, v) /\ Head(lock[v]) = t
    BY <1>1, AtHead DEF UnderLock
  <1>3. \/ Launch(t, v, x, IF x = None THEN s ELSE p)
        \/ Sleep(t, v, x, s)
        \/ UNCHANGED lock /\ Become(t, q)
    BY DEF ReclaimStops
  <1>4. q.pc = "reclaim" /\ q.service = v
    BY <1>1 DEF TaskState
  <1> HIDE DEF s, taken, free, p, q
  <1>5. CASE UNCHANGED lock /\ Become(t, q)
    <2>1. OnlyMoves(t) /\ task'[t] = q
      BY <1>1, <1>5, BecomeMoves
    <2>2. lock[v] # << >>
      BY <1>1, <1>2, LocksConsistentRight DEF LockRight
    <2>3. GoesOn(t, v) /\ Hold(t, v)
      BY <1>1, <1>4, <1>5, <2>1, <2>2 DEF GoesOn, Hold, UnderLock, LockOK
    <2> QED
      BY <1>1, <1>2, <2>3, UsesLockKeeps DEF UsesLock
  <1> QED
    BY <1>1, <1>2, <1>3, <1>5, LaunchUses, UsesLockKeeps

\* The sections that start a service.
LEMMA StartStepLocks ==
  ASSUME IInv, LocksConsistent, NEW t \in Tasks, NEW v \in Services, NEW x, StartStep(t, v, x)
  PROVE  LocksConsistent'
  <1> DEFINE Head1 == InLock(task[t], v) /\ Head(lock[v]) = t
  <1>1. TaskOK(task) /\ LockOK(lock)
    BY DEF IInv
  <1>2. SUFFICES (Head1 /\ UsesLock(t, v)) \/ LocksConsistent'
    BY <1>1, UsesLockKeeps
  <1>3. ASSUME NEW pc \in UnderLock, On(t, pc, v, x)
        PROVE  Head1
    BY <1>1, <1>3, AtHead DEF On
  <1>4. CASE LockGranted(t, v, x)
    BY <1>1, <1>4, LockedUses DEF LockGranted, On, InLock
  <1>5. CASE ReclaimStops(t, v, x)
    BY <1>5, ReclaimStopsUses
  <1>6. CASE ReclaimStopFails(t, v, x)
    BY <1>1, <1>3, <1>6, LaunchUses DEF ReclaimStopFails, UnderLock
  <1>7. CASE CapacityRetry(t, v, x)
    BY <1>1, <1>3, <1>7, CapacityUses DEF CapacityRetry, UnderLock
  <1>8. CASE CapacityTimeout(t, v, x) \/ StartFails(t, v, x) \/ HealthTimeout(t, v, x)
    <2>1. Unlock(t, v) /\ Raise(t, v, x, store) /\ \E pc \in UnderLock : On(t, pc, v, x)
      BY <1>8 DEF CapacityTimeout, StartFails, HealthTimeout, UnderLock
    <2> QED
      BY <1>1, <1>3, <2>1, RaiseLeaves DEF UsesLock
  <1>9. CASE StartSucceeds(t, v, x)
    <2>1. GoesOn(t, v) /\ UNCHANGED lock /\ On(t, "start", v, x)
      BY <1>1, <1>9, BecomeMoves DEF StartSucceeds, GoesOn, At, UnderLock
    <2>2. Head1
      BY <1>3, <2>1 DEF UnderLock
    <2>3. lock[v] # << >>
      BY <2>2, LocksConsistentRight DEF LockRight
    <2>4. Hold(t, v)
      BY <1>1, <2>1, <2>3 DEF Hold, LockOK
    <2> QED
      BY <2>1, <2>2, <2>4 DEF UsesLock
  <1>10. CASE HealthyAfterStart(t, v, x)
    <2>1. Unlock(t, v) /\ Leaves(t) /\ On(t, "health", v, x)
      BY <1>1, <1>10, ReturnLeaves, ForwardLeaves DEF HealthyAfterStart
    <2> QED
      BY <1>3, <2>1 DEF UsesLock, UnderLock
  <1> QED
    BY <1>4, <1>5, <1>6, <1>7, <1>8, <1>9, <1>10 DEF StartStep

\* The sections of _run_one after it.
LEMMA RunStepLocks ==
  ASSUME IInv, LocksConsistent, NEW t \in Tasks, NEW v, NEW x, RunStep(t, v, x)
  PROVE  LocksConsistent'
  <1> DEFINE Away == {"forward", "once_stop", "restore_start", "restore_health"}
  <1>1. TaskOK(task) /\ \A pc \in Away : pc \notin UnderLock \cup {"lock"}
    BY DEF IInv, UnderLock
  <1>2. UNCHANGED lock /\ \E pc \in Away : On(t, pc, v, x)
    BY DEF RunStep, ForwardReturns, ForwardFails, OnceStops, OnceStopFails, RestoreStarts,
           RestoreHealthy, RestoreFails
  <1>3. SUFFICES Leaves(t)
    BY <1>1, <1>2, ElsewhereKeeps DEF On
  <1>4. CASE ForwardReturns(t, v, x) \/ ForwardFails(t, v, x)
    BY <1>1, <1>4, AfterRunLeaves, RaiseLeaves DEF ForwardReturns, ForwardFails
  <1>5. CASE OnceStops(t, v, x)
    BY <1>1, <1>5, RestoreLeaves DEF OnceStops
  <1>6. CASE OnceStopFails(t, v, x) \/ RestoreFails(t, v, x)
    BY <1>1, <1>6, AtLeaves DEF OnceStopFails, RestoreFails, UnderLock
  <1>7. CASE RestoreStarts(t, v, x)
    <2>1. task'[t] = [task[t] EXCEPT !.pc = "restore_health"] /\ OnlyMoves(t)
      BY <1>1, <1>7, BecomeMoves DEF RestoreStarts
    <2>2. task[t] \in TaskState
      BY <1>1 DEF TaskOK
    <2> QED
      BY <2>1, <2>2 DEF Leaves, UnderLock, TaskState
  <1>8. CASE RestoreHealthy(t, v, x)
    BY <1>1, <1>8, RestoreNextStops DEF RestoreHealthy, Leaves, Stops, Idle, At, UnderLock
  <1> QED
    BY <1>4, <1>5, <1>6, <1>7, <1>8 DEF RunStep

\* An answer that arrives leaves the locks and who waits for them.
LEMMA AnswerLocks ==
  ASSUME IInv, LocksConsistent, NEW t \in Tasks, Answer(t)
  PROVE  LocksConsistent'
  <1>1. UNCHANGED lock /\ \A u \in Tasks : Alike(task'[u], task[u])
    BY AnswerAlike DEF IInv
  <1>2. \A w \in Services : LockRight(lock[w], task, w)
    BY LocksConsistentRight
  <1>3. \A w \in Services : LockRight(lock[w], task', w)
    BY <1>1, <1>2 DEF LockRight, InLock, Alike
  <1> QED
    BY <1>1, <1>3, LocksConsistentRight

\* Every step keeps the locks.
LEMMA NextLocksConsistent == IInv /\ LocksConsistent /\ [Next]_vars => LocksConsistent'
  <1> SUFFICES ASSUME IInv, LocksConsistent, [Next]_vars PROVE LocksConsistent'
    OBVIOUS
  <1>1. /\ TaskOK(task) /\ LockOK(lock) /\ queue \in Seq(Sessions)
        /\ Workers \subseteq Tasks /\ Handlers \subseteq Tasks
    BY DEF IInv, Tasks
  <1>2. ASSUME UNCHANGED <<task, lock>>
        PROVE  LocksConsistent'
    BY <1>2 DEF LocksConsistent, Starting
  <1>3. ASSUME NEW t \in Workers, Dequeue(t)
        PROVE  LocksConsistent'
    <2> DEFINE x == Head(queue)
    <2>1. PICK a, s : \/ Return(t, s) /\ UNCHANGED lock
                      \/ Acquire(t, ServiceOf[x], x, a)
      BY <1>3 DEF Dequeue
    <2>2. task[t].pc = "idle" /\ ServiceOf[x] \in Services
      BY <1>1, <1>3, SessionsAssumption DEF Dequeue
    <2> QED
      BY <1>1, <2>1, <2>2, AcquireKeeps, ReturnLeaves, ElsewhereKeeps DEF UnderLock
  <1>4. ASSUME NEW t \in Workers, WorkerStep(t)
        PROVE  LocksConsistent'
    BY <1>1, <1>3, <1>4, AnswerLocks, StartStepLocks, RunStepLocks DEF WorkerStep
  <1>5. ASSUME NEW h \in Handlers, HandlerStep(h)
        PROVE  LocksConsistent'
    <2>3. SUFFICES ASSUME ~Answer(h) PROVE LocksConsistent'
      BY <1>1, AnswerLocks
    <2>1. PICK v \in Services : \/ StartStep(h, v, None)
                                \/ StopReturns(h, v) \/ StopFails(h, v)
                                \/ ProbeHealthy(h, v) \/ ProbeTimeout(h, v)
      BY <1>5, <2>3 DEF HandlerStep
    <2>2. CASE StopReturns(h, v) \/ StopFails(h, v) \/ ProbeHealthy(h, v) \/ ProbeTimeout(h, v)
      <3>1. /\ UNCHANGED lock /\ \E pc \in {"stop", "probe"} : On(h, pc, v, None)
            /\ \E s : Return(h, s)
        BY <2>2 DEF StopReturns, StopFails, ProbeHealthy, ProbeTimeout
      <3> QED
        BY <1>1, <3>1, ReturnLeaves, ElsewhereKeeps DEF On, UnderLock
    <2> QED
      BY <1>1, <2>1, <2>2, StartStepLocks
  <1>6. ASSUME NEW h \in Handlers, NEW v \in Services,
               StartService(h, v) \/ StopService(h, v) \/ Healthcheck(h, v)
        PROVE  LocksConsistent'
    <2>1. h \in Tasks /\ task[h].pc = "idle"
      BY <1>1, <1>6 DEF StartService, StopService, Healthcheck
    <2>2. CASE Acquire(h, v, None, store)
      BY <1>1, <2>1, <2>2, AcquireKeeps
    <2>3. CASE UNCHANGED lock /\ \E pc \in {"stop", "probe"} : Become(h, At(pc, v, None))
      BY <1>1, <2>1, <2>3, AtLeaves, ElsewhereKeeps DEF UnderLock
    <2> QED
      BY <1>2, <1>6, <2>2, <2>3 DEF StartService, StopService, Healthcheck
  <1>7. CASE Request
    BY <1>2, <1>6, <1>7 DEF Request, Submit, ReleaseLease, TouchLease, Cleanup
  <1>8. CASE Environment \/ UNCHANGED vars
    BY <1>2, <1>8 DEF Environment, Tick, Crash, vars
  <1> QED
    BY <1>4, <1>5, <1>7, <1>8 DEF Next

LEMMA InitLocksConsistent == Init => LocksConsistent
  <1> SUFFICES ASSUME Init, NEW v \in Services
               PROVE  LockRight(lock[v], task, v)
    BY LocksConsistentRight
  <1> QED
    BY DEF Init, LockRight, InLock, Idle, At, UnderLock

\* No lock is lost by an exception and no waiter is forgotten, for any number of workers
\* and handlers: the head of a lock's queue runs under it or is about to, and the tasks
\* that wait or run under it are all in its queue, once.
THEOREM LocksConsistentHolds == Spec => []LocksConsistent
  BY InitLocksConsistent, InitIInv, NextIInv, NextLocksConsistent, PTL DEF Spec

-----------------------------------------------------------------------------
(* One worker: the count is exact.                                         *)

\* A section of a handler leaves active_request_count; a worker's ends elsewhere than at
\* the forwarding, or has counted it.
Counts(t, x, s) ==
    IF x = None THEN store'.active = s.active
    ELSE task'[t].pc = "forward" => store'.active > 0

\* After its run a worker is elsewhere,
LEMMA AfterRunElsewhere ==
  ASSUME TaskOK(task), NEW t \in Tasks, NEW v, NEW x, NEW s,
         AfterRun(t, v, x, s) \/ Restore(t, v, x, s)
  PROVE  task'[t].pc # "forward"
  <1>1. ASSUME NEW r, Restore(t, v, x, r)
        PROVE  task'[t].pc # "forward"
    <2>1. PICK p, todo : RestoreNext(t, v, x, p, todo)
      BY <1>1 DEF Restore
    <2> QED
      BY <2>1, RestoreNextStops DEF Stops, Idle, At
  <1>2. CASE AfterRun(t, v, x, s)
    BY <1>1, <1>2, BecomeMoves DEF AfterRun, Return, Idle, At
  <1> QED
    BY <1>1, <1>2

\* also by an exception,
LEMMA RaiseCounts ==
  ASSUME TaskOK(task), NEW t \in Tasks, NEW v, NEW x, NEW s, Raise(t, v, x, s)
  PROVE  Counts(t, x, s)
  BY AfterRunElsewhere DEF Raise, Return, Counts

\* and a session that is forwarded is counted.
LEMMA ForwardCounts ==
  ASSUME TaskOK(task), NEW t \in Tasks, NEW v, NEW x \in Sessions, NEW s, WellFormed(s),
         Forward(t, v, x, s)
  PROVE  Counts(t, x, s)
  <1> DEFINE a == AbortIfBusy(s, x)
             n == a.active + 1
             f == [a EXCEPT !.inflight[v] = @ + 1, !.activeSession[v] = x,
                            !.status[v] = "processing", !.active = n,
                            !.session[x] = "processing"]
  <1>1. WellFormed(a) /\ x # None
    BY AbortIfBusyWellFormed, SessionsAssumption
  <1>2. \/ Return(t, Finally(a, v, x))
        \/ store' = f
    BY DEF Forward
  <1> HIDE DEF a
  <1>3. f.active = n /\ n > 0
    BY <1>1 DEF WellFormed, Store
  <1> HIDE DEF f, n
  <1>4. CASE Return(t, Finally(a, v, x))
    BY <1>1, <1>4, BecomeMoves DEF Return, Idle, At, Counts
  <1> QED
    BY <1>1, <1>2, <1>3, <1>4 DEF Counts

\* A start command and a wait for memory leave the count,
LEMMA LaunchCounts ==
  ASSUME TaskOK(task), NEW t \in Tasks, NEW v, NEW x, NEW s, WellFormed(s),
         Launch(t, v, x, s) \/ Sleep(t, v, x, s)
  PROVE  Counts(t, x, s)
  <1>1. task'[t].pc # "forward"
    BY BecomeMoves DEF Launch, Sleep, At
  <1>2. x = None => store'.active = s.active
    BY DEF Launch, Sleep, WellFormed, Store
  <1> QED
    BY <1>1, <1>2 DEF Counts

\* as does each round of the wait,
LEMMA CapacityCounts ==
  ASSUME TaskOK(task), NEW t \in Tasks, NEW v, NEW x, NEW s, WellFormed(s), Capacity(t, v, x, s)
  PROVE  Counts(t, x, s)
  <1> DEFINE r == RefreshActivity(s, Inspected(s, v))
             q(o) == [At("reclaim", v, x) EXCEPT !.todo = o, !.free = Free[up]]
  <1>1. \/ Raise(t, v, x, s)
        \/ Launch(t, v, x, s)
        \/ Sleep(t, v, x, r)
        \/ \E o \in ReclaimOrders(r, v) : store' = r /\ Become(t, q(o))
    BY DEF Capacity
  <1>2. WellFormed(r) /\ r.active = s.active
    <2>1. Inspected(s, v) \in SUBSET Services
      BY DEF Inspected, WellFormed, Store
    <2> QED
      BY <2>1, RefreshActivityWellFormed, RefreshActivityCounts DEF SameCounts
  <1>3. \A o : q(o).pc = "reclaim"
    BY DEF At
  <1> HIDE DEF r, q
  <1>4. CASE Sleep(t, v, x, r)
    BY <1>2, <1>4, LaunchCounts DEF Counts
  <1>5. ASSUME NEW o, store' = r, Become(t, q(o))
        PROVE  Counts(t, x, s)
    BY <1>2, <1>3, <1>5, BecomeMoves DEF Counts
  <1> QED
    BY <1>1, <1>4, <1>5, RaiseCounts, LaunchCounts

\* until the service is up.
LEMMA AcquireCounts ==
  ASSUME TaskOK(task), NEW t \in Tasks, NEW v, NEW x \in Sessions \cup {None}, NEW s,
         WellFormed(s), Acquire(t, v, x, s) \/ Locked(t, v, x, s)
  PROVE  Counts(t, x, s)
  <1>1. CASE Locked(t, v, x, s)
    <2>1. CASE Capacity(t, v, x, s)
      BY <2>1, CapacityCounts
    <2>2. CASE x = None /\ Return(t, s)
      BY <2>2 DEF Return, Counts
    <2>3. CASE x # None /\ Forward(t, v, x, s)
      BY <2>3, ForwardCounts
    <2> QED
      BY <1>1, <2>1, <2>2, <2>3 DEF Locked
  <1>2. CASE store' = s /\ Become(t, At("lock", v, x))
    BY <1>2, BecomeMoves DEF At, Counts
  <1> QED
    BY <1>1, <1>2 DEF Acquire

\* Stopping a candidate leaves it too.
LEMMA ReclaimStopsCounts ==
  ASSUME IInv, NEW t \in Tasks, NEW v, NEW x, ReclaimStops(t, v, x)
  PROVE  Counts(t, x, store)
  <1> DEFINE r == task[t]
             w == Head(r.todo)
             s == MarkServiceStopped(store, w)
             taken == Append(r.taken, w)
             free == r.free + Usage[w]
             p == [s EXCEPT !.pendingRestore[x] = taken]
             q == [r EXCEPT !.todo = Tail(@), !.taken = taken, !.free = free]
  <1>1. TaskOK(task) /\ r \in TaskState /\ r.pc = "reclaim" /\ r.todo # << >>
    BY DEF ReclaimStops, On, IInv, TaskOK
  <1>2. \/ Launch(t, v, x, IF x = None THEN s ELSE p)
        \/ Sleep(t, v, x, s)
        \/ store' = s /\ Become(t, q)
    BY DEF ReclaimStops
  <1>3. q.pc = "reclaim"
    BY <1>1 DEF TaskState
  <1>4. w \in Services
    BY <1>1 DEF TaskState
  <1>5. WellFormed(s) /\ s.active = store.active
    <2>1. WellFormed(s)
      BY <1>4, MarkServiceStoppedWellFormed DEF IInv
    <2>2. s.active = store.active
      BY DEF IInv, WellFormed, Store, MarkServiceStopped
    <2> QED
      BY <2>1, <2>2
  <1> HIDE DEF s, taken, free, p, q
  <1>6. CASE x = None
    BY <1>1, <1>2, <1>5, <1>6, LaunchCounts DEF Counts
  <1>7. CASE x # None
    <2>1. task'[t].pc # "forward"
      BY <1>1, <1>2, <1>3, BecomeMoves DEF Launch, Sleep, At
    <2> QED
      BY <1>7, <2>1 DEF Counts
  <1> QED
    BY <1>6, <1>7

\* So each section of a start leaves it or counts.
LEMMA StartStepCounts ==
  ASSUME IInv, NEW t \in Tasks, NEW v \in Services, NEW x \in Sessions \cup {None},
         StartStep(t, v, x)
  PROVE  Counts(t, x, store)
  <1>1. TaskOK(task) /\ WellFormed(store)
    BY DEF IInv
  <1>2. CASE LockGranted(t, v, x)
    BY <1>1, <1>2, AcquireCounts DEF LockGranted
  <1>3. CASE ReclaimStops(t, v, x)
    BY <1>3, ReclaimStopsCounts
  <1>4. CASE ReclaimStopFails(t, v, x)
    BY <1>1, <1>4, LaunchCounts DEF ReclaimStopFails
  <1>5. CASE CapacityRetry(t, v, x)
    BY <1>1, <1>5, CapacityCounts DEF CapacityRetry
  <1>6. CASE CapacityTimeout(t, v, x) \/ StartFails(t, v, x) \/ HealthTimeout(t, v, x)
    BY <1>1, <1>6, RaiseCounts DEF CapacityTimeout, StartFails, HealthTimeout
  <1>7. CASE StartSucceeds(t, v, x)
    BY <1>1, <1>7, BecomeMoves DEF StartSucceeds, At, Counts
  <1>8. CASE HealthyAfterStart(t, v, x)
    <2> DEFINE s == MarkServiceStarted(store, v)
    <2>1. s.active = store.active
      BY <1>1 DEF MarkServiceStarted, WellFormed, Store
    <2>2. WellFormed(s)
      BY <1>1, MarkServiceStartedWellFormed
    <2>3. IF x = None THEN Return(t, s) ELSE Forward(t, v, x, s)
      BY <1>8 DEF HealthyAfterStart
    <2> HIDE DEF s
    <2> QED
      BY <1>1, <2>1, <2>2, <2>3, ForwardCounts DEF Return, Counts
  <1> QED
    BY <1>2, <1>3, <1>4, <1>5, <1>6, <1>7, <1>8 DEF StartStep

\* Every step keeps the one worker counted while it forwards.
LEMMA NextCounted ==
  ASSUME IInv, WorkInv, NEW w, Workers = {w}, task[w].pc = "forward" => store.active > 0,
         [Next]_vars
  PROVE  task'[w].pc = "forward" => store'.active > 0
  <1> DEFINE Same == task'[w] = task[w] /\ store'.active = store.active
  <1> USE DEF IInv
  <1>1. /\ TaskOK(task) /\ WellFormed(store) /\ store \in Store /\ w \in Tasks
        /\ \A h \in Handlers : h \in Tasks /\ h # w
    BY TasksAssumption DEF Tasks, WellFormed
  <1>2. SUFFICES Same \/ (task'[w].pc = "forward" => store'.active > 0)
    OBVIOUS
  <1>3. ASSUME NEW v \in Services, NEW x \in Sessions, StartStep(w, v, x)
        PROVE  task'[w].pc = "forward" => store'.active > 0
    BY <1>1, <1>3, StartStepCounts, SessionsAssumption DEF Counts
  <1>4. ASSUME Dequeue(w), task'[w].pc = "forward"
        PROVE  store'.active > 0
    <2> DEFINE x == Head(queue)
               v == ServiceOf[x]
               n == store.queueSize[v] - 1
               s == [store EXCEPT !.queueSize[v] = n]
               a == AbortIfBusy(s, x)
    <2>1. queue # << >> /\ x \in Sessions /\ x # None
      BY <1>4, SessionsAssumption DEF Dequeue
    <2>2. v \in Services
      BY <2>1, SessionsAssumption
    <2>3. Return(w, Finally(a, v, x)) \/ Acquire(w, v, x, a)
      BY <1>4 DEF Dequeue
    <2> HIDE DEF x, v
    <2>4. n \in Int
      BY <1>1, <2>2 DEF Store
    <2> HIDE DEF n
    <2>5. WellFormed(a)
      <3>1. s \in Store /\ s.leases = store.leases /\ s.slots = store.slots
        BY <1>1, <2>2, <2>4 DEF Store
      <3> HIDE DEF s
      <3> QED
        BY <1>1, <2>1, <3>1, SameTables, AbortIfBusyWellFormed
    <2> HIDE DEF a
    <2>6. CASE Return(w, Finally(a, v, x))
      BY <1>1, <1>4, <2>6, BecomeMoves DEF Return, Idle, At
    <2>7. CASE Acquire(w, v, x, a)
      BY <1>1, <1>4, <2>1, <2>5, <2>7, AcquireCounts DEF Counts
    <2> QED
      BY <2>3, <2>6, <2>7
  <1>5. ASSUME NEW v \in Services, NEW x \in Sessions, RunStep(w, v, x)
        PROVE  task'[w].pc # "forward"
    <2>1. CASE ForwardReturns(w, v, x)
      BY <1>1, <2>1, AfterRunElsewhere DEF ForwardReturns
    <2>2. CASE ForwardFails(w, v, x)
      BY <1>1, <2>2, AfterRunElsewhere, SessionsAssumption DEF ForwardFails, Raise
    <2>3. CASE OnceStops(w, v, x)
      BY <1>1, <2>3, AfterRunElsewhere DEF OnceStops
    <2>4. CASE OnceStopFails(w, v, x) \/ RestoreFails(w, v, x)
      BY <1>1, <2>4, BecomeMoves DEF OnceStopFails, RestoreFails, At
    <2>5. CASE RestoreStarts(w, v, x)
      <3>1. task'[w] = [task[w] EXCEPT !.pc = "restore_health"] /\ task[w] \in TaskState
        BY <1>1, <2>5, BecomeMoves DEF RestoreStarts, TaskOK
      <3> QED
        BY <3>1 DEF TaskState
    <2>6. CASE RestoreHealthy(w, v, x)
      BY <1>1, <2>6, RestoreNextStops DEF RestoreHealthy, Stops, Idle, At
    <2> QED
      BY <1>5, <2>1, <2>2, <2>3, <2>4, <2>5, <2>6 DEF RunStep
  <1>6. ASSUME WorkerStep(w)
        PROVE  task'[w].pc = "forward" => store'.active > 0
    BY <1>1, <1>3, <1>4, <1>5, <1>6, AnswerAlike DEF WorkerStep, Alike
  <1>7. ASSUME NEW h \in Handlers, HandlerStep(h)
        PROVE  Same
    <2>1. task'[w] = task[w]
      BY <1>1, <1>7, HandlerStepHandled DEF Handled, OnlyMoves
    <2>6. SUFFICES ASSUME ~Answer(h) PROVE Same
      BY <1>1, <2>1, AnswerAlike
    <2>2. PICK v \in Services : \/ StartStep(h, v, None)
                                \/ StopReturns(h, v) \/ StopFails(h, v)
                                \/ ProbeHealthy(h, v) \/ ProbeTimeout(h, v)
      BY <1>7, <2>6 DEF HandlerStep
    <2>3. CASE StartStep(h, v, None)
      BY <1>1, <2>1, <2>3, StartStepCounts DEF Counts
    <2>4. CASE StopReturns(h, v) \/ StopFails(h, v) \/ ProbeTimeout(h, v)
      BY <1>1, <2>1, <2>4 DEF StopReturns, StopFails, ProbeTimeout, Return, MarkServiceStopped,
                              Store
    <2>5. CASE ProbeHealthy(h, v)
      <3> DEFINE r == RefreshActivity(store, {v})
                 f == [r EXCEPT !.status[v] = IF HasLease(r, v) THEN "external" ELSE "idle"]
                 m == MarkServiceStarted(store, v)
      <3>1. store' = f \/ store' = m
        BY <2>5 DEF ProbeHealthy, Return
      <3>2. f.active = store.active
        BY <1>1 DEF RefreshActivity, Store
      <3>3. m.active = store.active
        BY <1>1 DEF MarkServiceStarted, Store
      <3> HIDE DEF f, m
      <3> QED
        BY <2>1, <3>1, <3>2, <3>3
    <2> QED
      BY <2>2, <2>3, <2>4, <2>5
  <1>8. ASSUME NEW h \in Handlers, NEW v \in Services,
               StartService(h, v) \/ StopService(h, v) \/ Healthcheck(h, v)
        PROVE  Same
    <2>1. CASE Acquire(h, v, None, store)
      <3>1. task'[w] = task[w]
        BY <1>1, <2>1, AcquireOutcome DEF Outcome, Handled, OnlyMoves
      <3> QED
        BY <1>1, <2>1, <3>1, AcquireCounts DEF Counts
    <2>2. CASE StopService(h, v)
      BY <1>1, <2>2 DEF StopService, Become, RefreshActivity, TaskOK, Store
    <2>3. CASE Healthcheck(h, v)
      BY <1>1, <2>3 DEF Healthcheck, Become, TaskOK
    <2> QED
      BY <1>8, <2>1, <2>2, <2>3 DEF StartService
  <1>9. ASSUME NEW x \in Sessions, Submit(x)
        PROVE  Same
    BY <1>1, <1>9 DEF Submit, PruneReservedSlots, CreateSession, Store
  <1>10. CASE Request
    <2>1. ASSUME NEW k \in LeaseKeys, ReleaseLease(k)
          PROVE  Same
      BY <1>1, <2>1, ReleaseExternalLeaseCounts DEF ReleaseLease, SameCounts
    <2>2. ASSUME NEW k \in LeaseKeys, NEW ttl, NEW reserve, TouchLease(k, ttl, reserve)
          PROVE  Same
      BY <1>1, <2>2, TouchExternalLeaseCounts DEF TouchLease, SameCounts
    <2>3. ASSUME NEW old, Cleanup(old)
          PROVE  Same
      BY <1>1, <2>3 DEF Cleanup, CleanupExpired, RefreshActivity, Store
    <2> QED
      BY <1>8, <1>9, <1>10, <2>1, <2>2, <2>3 DEF Request
  <1>11. CASE Environment \/ UNCHANGED vars
    BY <1>1, <1>11 DEF Environment, Tick, Crash, Elapse, vars, Store
  <1> HIDE DEF Same
  <1> QED
    BY <1>6, <1>7, <1>10, <1>11 DEF Next

\* With one worker, active_request_count is the number of requests being forwarded,
\* whatever leases, handlers and failures do beside it.
THEOREM ActiveExactHolds ==
  ASSUME MaxConcurrency = 1
  PROVE  Spec => []ActiveExact
  <1>1. PICK w : Workers = {w}
    BY TasksAssumption, FS_Singleton
  <1> DEFINE Counted == task[w].pc = "forward" => store.active > 0
  <1>2. Init => Counted
    BY <1>1 DEF Init, Idle, At, Tasks
  <1>3. IInv /\ WorkInv /\ Counted /\ [Next]_vars => Counted'
    BY <1>1, NextCounted
  <1>4. IInv /\ NoSlotLeak /\ Counted => ActiveExact
    <2> SUFFICES ASSUME IInv, NoSlotLeak, Counted
                 PROVE  ActiveExact
      OBVIOUS
    <2>1. store.active \in Nat /\ store.active <= Cardinality(Forwarding)
      BY DEF IInv, WellFormed, Store, NoSlotLeak
    <2>2. CASE task[w].pc = "forward"
      <3>1. Forwarding = {w}
        BY <1>1, <2>2 DEF Forwarding
      <3>2. Cardinality(Forwarding) = 1
        BY <3>1, FS_Singleton
      <3> QED
        BY <2>1, <2>2, <3>2 DEF ActiveExact
    <2>3. CASE task[w].pc # "forward"
      <3>1. Forwarding = {}
        BY <1>1, <2>3 DEF Forwarding
      <3>2. Cardinality(Forwarding) = 0
        BY <3>1, FS_EmptySet
      <3> QED
        BY <2>1, <3>2 DEF ActiveExact
    <2> QED
      BY <2>2, <2>3
  <1> HIDE DEF Counted
  <1> QED
    BY <1>2, <1>3, <1>4, InvariantHolds, WorkInvHolds, NoSlotLeakHolds, PTL DEF Spec

-----------------------------------------------------------------------------
(* Processes.                                                              *)

\* Only workers start and stop services, and nothing else ends a process: no HTTP start or
\* stop, no streaming client, no crash.  A crash is seen by no status; a failed HTTP start
\* leaves "starting" behind, and a stop takes no lock.
OnlyWorkers == Handlers = {} /\ Leases = {} /\ "crash" \notin Faults

Launching == {"start", "health"}
StartsAt(y, v) == task[y].service = v /\ Starting(y)

\* The processes u are those the store s shows, as far as the workers other than t account
\* for it; what s shows of the services of E is open.
Apart(t, E, s, u) ==
    /\ s \in Store /\ u \subseteq Services
    /\ \A v \in Services : s.status[v] \in {"idle", "processing"} => v \in u
    /\ \A v \in Services : s.status[v] \notin {"external", "stopping"}
    /\ \A v \in Services \ E : s.status[v] = "starting" =>
          \E y \in Workers \ {t} : task[y].service = v /\ task[y].pc \in Launching
    /\ \A y \in Workers \ {t}, v \in Services : StartsAt(y, v) => s.inflight[v] = 0
    /\ \A v \in Services : s.status[v] \in {"stopped", "error", "starting"} => s.inflight[v] = 0
    /\ s.running \subseteq u

\* The strengthening of ShownServicesAreUp: a status "starting" is that of a launch, and no
\* request is in flight for a service that is being started.
ShownInv ==
    /\ \A v \in Services : store.status[v] \in {"idle", "processing"} => v \in up
    /\ \A v \in Services : store.status[v] \notin {"external", "stopping"}
    /\ \A v \in Services : store.status[v] = "starting" =>
          \E y \in Workers : task[y].service = v /\ task[y].pc \in Launching
    /\ \A y \in Workers, v \in Services : StartsAt(y, v) => store.inflight[v] = 0
    /\ \A v \in Services : store.status[v] \in {"stopped", "error", "starting"} =>
          store.inflight[v] = 0
    /\ store.running \subseteq up

\* No answer has been overtaken by the end of the process that gave it.
AnsweredUp == \A t \in Workers : task[t].answered => Asked(task[t]) \in up

SameShown(s, r) == r.status = s.status /\ r.inflight = s.inflight /\ r.running = s.running

\* A section begins with the processes and the store apart from its task;
LEMMA BeginApart ==
  ASSUME IInv, ShownInv, NEW t \in Workers, NEW E,
         task[t].pc \in Launching => task[t].service \in E
  PROVE  Apart(t, E, store, up)
  BY DEF IInv, WellFormed, ShownInv, Apart, Launching

\* it ends where its task is not under a lock, or starts a service nobody uses.
LEMMA EndShown ==
  ASSUME NEW t \in Workers, NEW E, Apart(t, E, store', up'), OnlyMoves(t),
         \A v \in Services : StartsAt(t, v)' => store'.inflight[v] = 0,
         \A v \in E : task'[t].service = v /\ task'[t].pc \in Launching
  PROVE  ShownInv'
  <1>1. \A y \in Workers \ {t} : task'[y] = task[y]
    BY DEF OnlyMoves, Tasks
  <1> QED
    BY <1>1 DEF Apart, ShownInv, StartsAt, Starting, Launching

\* What changes neither status, nor counters, nor what runs, keeps them apart;
LEMMA SameApart ==
  ASSUME NEW t, NEW E, NEW s, NEW u, Apart(t, E, s, u), NEW r \in Store, SameShown(s, r)
  PROVE  Apart(t, E, r, u)
  BY DEF Apart, SameShown

\* without leases that is so of a refresh,
LEMMA RefreshShown ==
  ASSUME Leases = {}, NEW s \in Store, NEW V,
         \A v \in Services : s.status[v] # "external"
  PROVE  SameShown(s, RefreshActivity(s, V))
  <1> DEFINE stale == {k \in V \X Leases : s.leases[k] = 0}
             r == [s EXCEPT
                     !.leases = [k \in LeaseKeys |-> IF k \in stale THEN Absent ELSE @[k]],
                     !.slots  = [k \in LeaseKeys |-> IF k \in stale THEN Absent ELSE @[k]]]
             status == [v \in Services |-> IF v \in V THEN SyncedStatus(r, v) ELSE r.status[v]]
  <1>1. /\ r.status = s.status /\ r.inflight = s.inflight /\ r.running = s.running
        /\ DOMAIN r = DOMAIN s
    BY DEF Store
  <1>2. RefreshActivity(s, V) = [r EXCEPT !.status = status]
    BY DEF RefreshActivity
  <1> HIDE DEF r
  <1>3. \A v \in Services : SyncedStatus(r, v) = s.status[v]
    BY <1>1 DEF SyncedStatus, HasLease
  <1>4. status = s.status
    BY <1>1, <1>3 DEF Store
  <1> HIDE DEF status
  <1>5. DOMAIN r = {"status", "activeSession", "queueSize", "inflight", "running", "active",
                    "leases", "slots", "pendingRestore", "session", "results"}
    BY <1>1 DEF Store
  <1> QED
    BY <1>1, <1>2, <1>4, <1>5 DEF SameShown

\* which keeps them apart too,
LEMMA RefreshApart ==
  ASSUME Leases = {}, NEW t, NEW E, NEW s, NEW u, WellFormed(s), Apart(t, E, s, u),
         NEW V \in SUBSET Services
  PROVE  Apart(t, E, RefreshActivity(s, V), u)
  <1>1. RefreshActivity(s, V) \in Store
    BY RefreshActivityWellFormed DEF WellFormed
  <1>2. SameShown(s, RefreshActivity(s, V))
    BY RefreshShown DEF Apart
  <1> QED
    BY <1>1, <1>2, SameApart

\* and of the abort check.
LEMMA AbortApart ==
  ASSUME NEW t, NEW E, NEW s, NEW u, WellFormed(s), Apart(t, E, s, u), NEW x \in Sessions
  PROVE  Apart(t, E, AbortIfBusy(s, x), u)
  <1>1. AbortIfBusy(s, x) \in Store
    BY AbortIfBusyWellFormed DEF WellFormed
  <1>2. SameShown(s, AbortIfBusy(s, x))
    BY DEF AbortIfBusy, PruneReservedSlots, SameShown, WellFormed, Store
  <1> QED
    BY <1>1, <1>2, SameApart

\* A service that is up is marked started,
LEMMA StartedApart ==
  ASSUME NEW t, NEW E, NEW s, NEW u, Apart(t, E, s, u), NEW v \in u
  PROVE  Apart(t, E \ {v}, MarkServiceStarted(s, v), u)
  <1> DEFINE m == MarkServiceStarted(s, v)
  <1>1. /\ s \in Store /\ v \in Services /\ s.status \in [Services -> ServiceStatus]
        /\ s.inflight \in [Services -> Nat]
    BY DEF Apart, Store
  <1>2. /\ m.status = [s.status EXCEPT ![v] = "idle"] /\ m.inflight = s.inflight
        /\ m.running = s.running \cup {v}
    BY <1>1 DEF MarkServiceStarted, Store
  <1>3. m \in Store
    BY <1>1 DEF MarkServiceStarted, Store, ServiceStatus
  <1> HIDE DEF m
  <1>4. Apart(t, E \ {v}, m, u)
    BY <1>1, <1>2, <1>3 DEF Apart
  <1> QED
    BY <1>4 DEF m

\* and one whose process ends is marked stopped.
LEMMA StoppedApart ==
  ASSUME NEW t, NEW E, NEW s, NEW u, Apart(t, E, s, u), NEW v \in Services
  PROVE  Apart(t, E, MarkServiceStopped(s, v), u \ {v})
  <1> DEFINE m == MarkServiceStopped(s, v)
  <1>1. /\ s \in Store /\ s.status \in [Services -> ServiceStatus]
        /\ s.inflight \in [Services -> Nat]
    BY DEF Apart, Store
  <1>2. /\ m.status = [s.status EXCEPT ![v] = "stopped"]
        /\ m.inflight = [s.inflight EXCEPT ![v] = 0] /\ m.running = s.running \ {v}
    BY <1>1 DEF MarkServiceStopped, Store
  <1>3. m \in Store
    BY <1>1 DEF MarkServiceStopped, Store, ServiceStatus
  <1> HIDE DEF m
  <1>4. \A w \in Services : s.inflight[w] = 0 => m.inflight[w] = 0
    BY <1>1, <1>2
  <1>5. Apart(t, E, m, u \ {v})
    BY <1>1, <1>2, <1>3, <1>4 DEF Apart
  <1> QED
    BY <1>5 DEF m

\* The finally block shows a failed run, or that the service is idle, once no other request
\* is counted for it.
LEMMA FinallyShown ==
  ASSUME Leases = {}, NEW s, WellFormed(s), NEW v \in Services, NEW x \in Sessions,
         \A w \in Services : s.status[w] # "external"
  PROVE  LET f == Finally(s, v, x)
         IN  /\ f.running = s.running
             /\ f.status = IF f.inflight[v] # 0 THEN s.status
                           ELSE [s.status EXCEPT ![v] = IF s.session[x] = "failed" THEN "error"
                                                        ELSE "idle"]
  <1> DEFINE n == IF s.inflight[v] > 0 THEN s.inflight[v] - 1 ELSE s.inflight[v]
             m == IF s.active > 0 THEN s.active - 1 ELSE s.active
             d == [s EXCEPT !.inflight[v] = n, !.active = m]
             c == [d EXCEPT !.activeSession[v] = None]
             r == RefreshActivity(c, {v})
             e == [c EXCEPT !.status[v] = "error"]
             i == [r EXCEPT !.status[v] = IF HasLease(r, v) THEN "external" ELSE "idle"]
  <1>1. s \in Store /\ n \in Nat /\ m \in Nat
    BY DEF WellFormed, Store
  <1>2. Finally(s, v, x) = IF d.inflight[v] # 0 THEN d
                           ELSE IF d.session[x] = "failed" THEN e ELSE i
    BY DEF Finally
  <1> HIDE DEF n, m
  <1>3. /\ d \in Store /\ d.status = s.status /\ d.running = s.running
        /\ d.session = s.session
    BY <1>1 DEF Store
  <1> HIDE DEF d
  <1>4. /\ c \in Store /\ c.status = s.status /\ c.running = s.running
        /\ c.inflight = d.inflight
    BY <1>3 DEF Store
  <1> HIDE DEF c
  <1>5. r.status = s.status /\ r.running = s.running /\ r.inflight = d.inflight
    BY <1>4, RefreshShown DEF SameShown
  <1>6. DOMAIN r = {"status", "activeSession", "queueSize", "inflight", "running", "active",
                    "leases", "slots", "pendingRestore", "session", "results"}
    BY <1>4 DEF RefreshActivity, Store
  <1> HIDE DEF r
  <1>7. ~HasLease(r, v)
    BY DEF HasLease
  <1>8. /\ e.status = [s.status EXCEPT ![v] = "error"] /\ e.running = s.running
        /\ e.inflight = d.inflight
    BY <1>4 DEF Store
  <1>9. /\ i.status = [s.status EXCEPT ![v] = "idle"] /\ i.running = s.running
        /\ i.inflight = d.inflight
    BY <1>5, <1>6, <1>7
  <1> HIDE DEF e, i
  <1> QED
    BY <1>2, <1>3, <1>8, <1>9

\* Then nothing of the service is open.
LEMMA FinallyApart ==
  ASSUME Leases = {}, NEW t, NEW v \in Services, NEW E \in SUBSET {v}, NEW s, NEW u,
         WellFormed(s), Apart(t, E, s, u), NEW x \in Sessions,
         s.session[x] = "failed" \/ (v \in u /\ E = {})
  PROVE  Apart(t, {}, Finally(s, v, x), u)
  <1> DEFINE f == Finally(s, v, x)
             n == IF s.inflight[v] > 0 THEN s.inflight[v] - 1 ELSE s.inflight[v]
  <1>1. /\ f \in Store /\ s \in Store /\ s.status \in [Services -> ServiceStatus]
        /\ s.inflight \in [Services -> Nat]
    BY FinallyWellFormed DEF WellFormed, Store
  <1>2. f.inflight = [s.inflight EXCEPT ![v] = n]
    BY FinallyCounts
  <1>3. /\ f.running = s.running
        /\ f.status = IF f.inflight[v] # 0 THEN s.status
                      ELSE [s.status EXCEPT ![v] = IF s.session[x] = "failed" THEN "error"
                                                   ELSE "idle"]
    BY FinallyShown DEF Apart
  <1> SUFFICES Apart(t, {}, f, u)
    OBVIOUS
  <1> HIDE DEF f
  <1>4. \A w \in Services : s.inflight[w] = 0 => f.inflight[w] = 0
    BY <1>1, <1>2
  <1>5. f.inflight[v] # 0 => s.inflight[v] # 0
    BY <1>4
  <1> HIDE DEF n
  <1>6. CASE f.inflight[v] # 0
    BY <1>1, <1>3, <1>4, <1>5, <1>6 DEF Apart
  <1>7. CASE f.inflight[v] = 0
    BY <1>1, <1>3, <1>4, <1>7 DEF Apart
  <1> QED
    BY <1>6, <1>7

-----------------------------------------------------------------------------
(* Processes through the sections.                                         *)

\* A task that is under no lock starts nothing.
LEMMA LeavesShown ==
  ASSUME NEW t \in Workers, Apart(t, {}, store', up'), Leaves(t)
  PROVE  ShownInv'
  <1>1. \A v : ~StartsAt(t, v)'
    BY DEF Leaves, StartsAt, Starting, UnderLock
  <1> QED
    BY <1>1, EndShown DEF Leaves

\* Restoring only forgets what was reclaimed,
LEMMA RestoreShown ==
  ASSUME TaskOK(task), NEW t \in Workers, NEW v, NEW x \in Sessions, NEW s,
         Apart(t, {}, s, up'), Restore(t, v, x, s)
  PROVE  ShownInv'
  <1> DEFINE p == [s EXCEPT !.pendingRestore[x] = << >>]
  <1>1. t \in Tasks /\ s \in Store
    BY DEF Tasks, Apart
  <1>2. store' = p
    BY <1>1, RestoreNextStops DEF Restore
  <1>3. << >> \in Seq(Services)
    OBVIOUS
  <1>4. p \in Store /\ SameShown(s, p)
    BY <1>1, <1>3 DEF Store, SameShown
  <1> HIDE DEF p
  <1>5. Apart(t, {}, store', up')
    BY <1>2, <1>4, SameApart
  <1> QED
    BY <1>1, <1>5, RestoreLeaves, LeavesShown

\* so that a run ends,
LEMMA AfterRunShown ==
  ASSUME Leases = {}, TaskOK(task), NEW t \in Workers, NEW v \in Services,
         NEW x \in Sessions, NEW s, WellFormed(s), Apart(t, {}, s, up'), AfterRun(t, v, x, s)
  PROVE  ShownInv'
  <1> DEFINE r == RefreshActivity(s, {v})
  <1>1. t \in Tasks
    BY DEF Tasks
  <1>2. Apart(t, {}, r, up')
    BY RefreshApart
  <1>3. \/ Return(t, s) \/ Restore(t, v, x, r)
        \/ store' = r /\ Become(t, At("once_stop", v, x))
    BY DEF AfterRun
  <1> HIDE DEF r
  <1>4. Leaves(t)
    BY <1>1, AfterRunLeaves
  <1> QED
    BY <1>2, <1>3, <1>4, RestoreShown, LeavesShown DEF Return

\* and a failed one, with its service shown as it is.
LEMMA RaiseShown ==
  ASSUME Leases = {}, TaskOK(task), NEW t \in Workers, NEW v \in Services,
         NEW x \in Sessions, NEW s, WellFormed(s), Apart(t, {v}, s, up'), Raise(t, v, x, s)
  PROVE  ShownInv'
  <1> DEFINE f == [s EXCEPT !.session[x] = "failed"]
  <1>1. s \in Store /\ s.session \in [Sessions -> SessionStatus] /\ x # None
    BY SessionsAssumption DEF WellFormed, Store
  <1>2. WellFormed(f) /\ f.session = [s.session EXCEPT ![x] = "failed"]
    BY FailedSession
  <1>3. SameShown(s, f)
    BY <1>1 DEF SameShown, Store
  <1>4. AfterRun(t, v, x, Finally(f, v, x))
    BY <1>1 DEF Raise
  <1> HIDE DEF f
  <1>5. Apart(t, {v}, f, up')
    BY <1>2, <1>3, SameApart DEF WellFormed
  <1>6. f.session[x] = "failed"
    BY <1>1, <1>2
  <1>7. Apart(t, {}, Finally(f, v, x), up')
    BY <1>2, <1>5, <1>6, FinallyApart
  <1>8. WellFormed(Finally(f, v, x))
    BY <1>2, FinallyWellFormed
  <1> QED
    BY <1>4, <1>7, <1>8, AfterRunShown

\* A session is forwarded to a process that is up and that nobody is starting.
LEMMA ForwardShown ==
  ASSUME Leases = {}, TaskOK(task), NEW t \in Workers, NEW v \in up', NEW x \in Sessions,
         NEW s, WellFormed(s), Apart(t, {}, s, up'), Forward(t, v, x, s),
         \A y \in Workers \ {t} : ~StartsAt(y, v)
  PROVE  ShownInv'
  <1> DEFINE a == AbortIfBusy(s, x)
             n == a.inflight[v] + 1
             m == a.active + 1
             f == [a EXCEPT !.inflight[v] = n, !.activeSession[v] = x,
                            !.status[v] = "processing", !.active = m,
                            !.session[x] = "processing"]
  <1>1. t \in Tasks /\ v \in Services
    BY DEF Tasks, Apart
  <1>2. WellFormed(a) /\ Apart(t, {}, a, up')
    BY AbortIfBusyWellFormed, AbortApart
  <1>3. (Aborts(s, x) /\ Return(t, Finally(a, v, x))) \/ store' = f
    BY DEF Forward
  <1>4. Aborts(s, x) => a.session[x] = "failed"
    BY DEF Aborts, AbortIfBusy, PruneReservedSlots, WellFormed, Store
  <1>5. Leaves(t)
    BY <1>1, ForwardLeaves
  <1> HIDE DEF a
  <1>6. CASE Aborts(s, x) /\ Return(t, Finally(a, v, x))
    <2>1. Apart(t, {}, Finally(a, v, x), up')
      BY <1>1, <1>2, <1>4, <1>6, FinallyApart
    <2> QED
      BY <1>5, <1>6, <2>1, LeavesShown DEF Return
  <1>7. CASE store' = f
    <2>1. /\ a \in Store /\ a.inflight \in [Services -> Nat] /\ n \in Nat /\ m \in Nat
          /\ a.status \in [Services -> ServiceStatus]
      BY <1>1, <1>2 DEF WellFormed, Store
    <2> HIDE DEF n, m
    <2>2. /\ f.status = [a.status EXCEPT ![v] = "processing"]
          /\ f.inflight = [a.inflight EXCEPT ![v] = n] /\ f.running = a.running
      BY <2>1 DEF Store
    <2>3. f \in Store
      BY <1>1, <2>1 DEF Store, ServiceStatus, SessionStatus
    <2> HIDE DEF f
    <2>4. Apart(t, {}, f, up')
      BY <1>1, <1>2, <2>1, <2>2, <2>3 DEF Apart
    <2> QED
      BY <1>5, <1>7, <2>4, LeavesShown
  <1> QED
    BY <1>3, <1>6, <1>7

\* A launch shows "starting" until its task is done with it;
LEMMA LaunchShown ==
  ASSUME TaskOK(task), NEW t \in Workers, NEW v \in Services, NEW x \in Sessions, NEW s,
         Apart(t, {}, s, up'), s.inflight[v] = 0, Launch(t, v, x, s)
  PROVE  ShownInv'
  <1> DEFINE f == [s EXCEPT !.status[v] = "starting", !.session[x] = "starting"]
  <1>1. /\ t \in Tasks /\ s \in Store /\ x # None /\ s.status \in [Services -> ServiceStatus]
    BY SessionsAssumption DEF Tasks, Apart, Store
  <1>2. store' = f
    BY <1>1 DEF Launch
  <1>3. /\ f.status = [s.status EXCEPT ![v] = "starting"] /\ f.inflight = s.inflight
        /\ f.running = s.running /\ f \in Store
    BY <1>1 DEF Store, ServiceStatus, SessionStatus
  <1> HIDE DEF f
  <1>4. Apart(t, {v}, f, up')
    BY <1>1, <1>3 DEF Apart
  <1>5. OnlyMoves(t) /\ task'[t].pc = "start" /\ task'[t].service = v
    BY <1>1, BecomeMoves DEF Launch, At
  <1> QED
    BY <1>2, <1>3, <1>4, <1>5, EndShown DEF StartsAt, Launching

\* a wait leaves the status.
LEMMA WaitShown ==
  ASSUME NEW t \in Workers, NEW v, NEW x, Apart(t, {}, store', up'), OnlyMoves(t),
         Stops(t, Waits, v, x), task'[t].pc = "lock" \/ store'.inflight[v] = 0
  PROVE  ShownInv'
  <1>1. \A w : StartsAt(t, w)' => w = v /\ task'[t].pc # "lock"
    BY DEF StartsAt, Starting, Stops
  <1> QED
    BY <1>1, EndShown

\* So does each round of the wait for memory,
LEMMA CapacityShown ==
  ASSUME Leases = {}, TaskOK(task), NEW t \in Workers, NEW v \in Services,
         NEW x \in Sessions, NEW s, WellFormed(s), Apart(t, {}, s, up'), s.inflight[v] = 0,
         Capacity(t, v, x, s)
  PROVE  ShownInv'
  <1> DEFINE r == RefreshActivity(s, Inspected(s, v))
             q(o) == [At("reclaim", v, x) EXCEPT !.todo = o, !.free = Free[up]]
  <1>1. \/ Raise(t, v, x, s)
        \/ Launch(t, v, x, s)
        \/ Sleep(t, v, x, r)
        \/ \E o \in ReclaimOrders(r, v) : store' = r /\ Become(t, q(o))
    BY DEF Capacity
  <1>2. t \in Tasks /\ Inspected(s, v) \in SUBSET Services
    BY DEF Tasks, Inspected, WellFormed, Store
  <1>3. Apart(t, {}, r, up') /\ r.inflight[v] = 0
    BY <1>2, RefreshApart, RefreshActivityCounts DEF SameCounts
  <1>4. \A o : q(o).pc = "reclaim" /\ q(o).service = v /\ q(o).session = x
    BY DEF At
  <1>5. Apart(t, {v}, s, up')
    BY DEF Apart
  <1> HIDE DEF r, q
  <1>6. CASE Sleep(t, v, x, r)
    BY <1>2, <1>3, <1>6, AtStops, WaitShown DEF Sleep, Stops, Waits
  <1>7. ASSUME NEW o, store' = r, Become(t, q(o))
        PROVE  ShownInv'
    BY <1>2, <1>3, <1>4, <1>7, BecomeMoves, WaitShown DEF Stops, Waits
  <1> QED
    BY <1>1, <1>5, <1>6, <1>7, RaiseShown, LaunchShown

\* Whoever has the lock of v, or finds it free, is the only one to start v.
LEMMA AloneUnderLock ==
  ASSUME LockOK(lock), LocksConsistent, NEW t \in Tasks, NEW v \in Services,
         lock[v] = << >> \/ Head(lock[v]) = t
  PROVE  \A y \in Workers \ {t} : ~StartsAt(y, v)
  <1> SUFFICES ASSUME NEW y \in Workers \ {t}, StartsAt(y, v)
               PROVE  FALSE
    OBVIOUS
  <1>1. y \in Tasks /\ task[y].service = v /\ task[y].pc \in UnderLock
    BY DEF Tasks, StartsAt, Starting, UnderLock
  <1>2. InLock(task[y], v) /\ Head(lock[v]) = y
    BY <1>1, AtHead
  <1>3. lock[v] # << >>
    BY <1>1, <1>2, LocksConsistentRight DEF LockRight
  <1> QED
    BY <1>2, <1>3

\* and then the service is shown to be up, or there is a wait for memory.
LEMMA LockedShown ==
  ASSUME Leases = {}, TaskOK(task), NEW t \in Workers, NEW v \in Services,
         NEW x \in Sessions, NEW s, WellFormed(s), Apart(t, {}, s, up'),
         \A y \in Workers \ {t} : ~StartsAt(y, v), Locked(t, v, x, s)
  PROVE  ShownInv'
  <1>1. x # None /\ s.status[v] \in ServiceStatus
    BY SessionsAssumption DEF WellFormed, Store
  <1>2. CASE s.status[v] \in {"stopped", "error"}
    <2>1. s.inflight[v] = 0
      BY <1>2 DEF Apart
    <2> QED
      BY <1>2, <2>1, CapacityShown DEF Locked
  <1>3. CASE s.status[v] \notin {"stopped", "error"}
    <2>1. s.status[v] # "starting"
      BY DEF Apart, StartsAt, Starting, Launching
    <2>2. v \in up'
      BY <1>1, <1>3, <2>1 DEF Apart, ServiceStatus
    <2> QED
      BY <1>1, <1>3, <2>2, ForwardShown DEF Locked
  <1> QED
    BY <1>2, <1>3

LEMMA AcquireShown ==
  ASSUME Leases = {}, TaskOK(task), LockOK(lock), LocksConsistent, NEW t \in Workers,
         NEW v \in Services, NEW x \in Sessions, NEW s, WellFormed(s), Apart(t, {}, s, up'),
         Acquire(t, v, x, s)
  PROVE  ShownInv'
  <1>1. t \in Tasks
    BY DEF Tasks
  <1>2. CASE lock[v] = << >> /\ Locked(t, v, x, s)
    BY <1>1, <1>2, AloneUnderLock, LockedShown
  <1>3. CASE store' = s /\ Become(t, At("lock", v, x))
    BY <1>1, <1>3, AtStops, WaitShown DEF Stops, Waits
  <1> QED
    BY <1>2, <1>3 DEF Acquire

-----------------------------------------------------------------------------
(* Processes through the actions of a worker.                              *)

\* Taking an item shows nothing new.
LEMMA DequeueShown ==
  ASSUME Leases = {}, IInv, LocksConsistent, ShownInv, NEW t \in Workers, Dequeue(t)
  PROVE  ShownInv'
  <1> DEFINE x == Head(queue)
             v == ServiceOf[x]
             n == store.queueSize[v] - 1
             s == [store EXCEPT !.queueSize[v] = n]
             a == AbortIfBusy(s, x)
  <1>1. /\ t \in Tasks /\ TaskOK(task) /\ LockOK(lock) /\ up' = up /\ task[t].pc = "idle"
        /\ queue # << >> /\ queue \in Seq(Sessions)
    BY DEF Tasks, Dequeue, IInv
  <1>2. x \in Sessions
    BY <1>1
  <1>3. v \in Services
    BY <1>2, SessionsAssumption
  <1>4. (Aborts(s, x) /\ Return(t, Finally(a, v, x))) \/ Acquire(t, v, x, a)
    BY DEF Dequeue
  <1> HIDE DEF x, v
  <1>5. n \in Int
    BY <1>3 DEF IInv, WellFormed, Store
  <1> HIDE DEF n
  <1>6. /\ s \in Store /\ s.leases = store.leases /\ s.slots = store.slots
        /\ SameShown(store, s)
    BY <1>3, <1>5 DEF IInv, WellFormed, Store, SameShown
  <1>7. Aborts(s, x) => a.session[x] = "failed"
    BY <1>2, <1>6 DEF Aborts, AbortIfBusy, PruneReservedSlots, Store
  <1> HIDE DEF s
  <1>8. WellFormed(s) /\ WellFormed(a)
    BY <1>2, <1>6, SameTables, AbortIfBusyWellFormed DEF IInv
  <1>9. Apart(t, {}, s, up')
    BY <1>1, <1>6, BeginApart, SameApart DEF Launching
  <1>10. Apart(t, {}, a, up')
    BY <1>2, <1>8, <1>9, AbortApart
  <1> HIDE DEF a
  <1>11. CASE Aborts(s, x) /\ Return(t, Finally(a, v, x))
    <2>1. Apart(t, {}, Finally(a, v, x), up')
      BY <1>2, <1>3, <1>7, <1>8, <1>10, <1>11, FinallyApart
    <2> QED
      BY <1>1, <1>11, <2>1, ReturnLeaves, LeavesShown DEF Return
  <1>12. CASE Acquire(t, v, x, a)
    BY <1>1, <1>2, <1>3, <1>8, <1>10, <1>12, AcquireShown
  <1> QED
    BY <1>4, <1>11, <1>12

\* A stopped candidate is shown as stopped.
LEMMA ReclaimStopsShown ==
  ASSUME IInv, ShownInv, NEW t \in Workers, NEW v \in Services, NEW x \in Sessions,
         ReclaimStops(t, v, x)
  PROVE  ShownInv'
  <1> DEFINE r == task[t]
             w == Head(r.todo)
             s == MarkServiceStopped(store, w)
             taken == Append(r.taken, w)
             free == r.free + Usage[w]
             p == [s EXCEPT !.pendingRestore[x] = taken]
             q == [r EXCEPT !.todo = Tail(r.todo), !.taken = taken, !.free = free]
  <1>1. /\ t \in Tasks /\ TaskOK(task) /\ r \in TaskState /\ r.todo # << >>
        /\ r.pc = "reclaim" /\ r.service = v /\ r.session = x /\ x # None
    BY SessionsAssumption DEF ReclaimStops, On, IInv, TaskOK, Tasks
  <1>2. w \in Services /\ taken \in Seq(Services)
    BY <1>1 DEF TaskState
  <1>3. up' = up \ {w}
    BY DEF ReclaimStops
  <1>4. \/ Launch(t, v, x, p)
        \/ Sleep(t, v, x, s)
        \/ store' = s /\ Become(t, q)
    BY <1>1 DEF ReclaimStops
  <1>5. q.pc = "reclaim" /\ q.service = v /\ q.session = x
    BY <1>1 DEF TaskState
  <1>6. Apart(t, {}, s, up')
    BY <1>1, <1>2, <1>3, BeginApart, StoppedApart DEF Launching
  <1>7. store.inflight[v] = 0 /\ store.inflight \in [Services -> Nat]
    BY <1>1 DEF ShownInv, StartsAt, Starting, IInv, WellFormed, Store
  <1>8. s.inflight[v] = 0
    BY <1>2, <1>7 DEF MarkServiceStopped, IInv, WellFormed, Store
  <1> HIDE DEF w, s, taken, q
  <1>9. p \in Store /\ SameShown(s, p)
    BY <1>2, <1>6 DEF SameShown, Apart, Store
  <1>10. Apart(t, {}, p, up') /\ p.inflight[v] = 0
    BY <1>6, <1>8, <1>9, SameApart DEF SameShown
  <1> HIDE DEF p
  <1>11. CASE Launch(t, v, x, p)
    BY <1>1, <1>10, <1>11, LaunchShown
  <1>12. CASE Sleep(t, v, x, s)
    BY <1>1, <1>6, <1>8, <1>12, AtStops, WaitShown DEF Sleep, Stops, Waits
  <1>13. CASE store' = s /\ Become(t, q)
    BY <1>1, <1>5, <1>6, <1>8, <1>13, BecomeMoves, WaitShown DEF Stops, Waits
  <1> QED
    BY <1>4, <1>11, <1>12, <1>13

\* Nor does another section of a start show what is not so.
LEMMA StartStepShown ==
  ASSUME Leases = {}, IInv, LocksConsistent, ShownInv, AnsweredUp, NEW t \in Workers,
         NEW v \in Services, NEW x \in Sessions, StartStep(t, v, x)
  PROVE  ShownInv'
  <1>1. /\ t \in Tasks /\ TaskOK(task) /\ LockOK(lock) /\ WellFormed(store) /\ x # None
        /\ store.inflight \in [Services -> Nat]
    BY SessionsAssumption DEF Tasks, IInv, WellFormed, Store
  <1>2. CASE LockGranted(t, v, x)
    <2>1. Apart(t, {}, store, up')
      BY <1>1, <1>2, BeginApart DEF LockGranted, On, Launching
    <2> QED
      BY <1>1, <1>2, <2>1, AloneUnderLock, LockedShown DEF LockGranted
  <1>3. CASE ReclaimStops(t, v, x)
    BY <1>3, ReclaimStopsShown
  <1>4. CASE ReclaimStopFails(t, v, x) \/ CapacityRetry(t, v, x)
    <2>1. /\ Apart(t, {}, store, up')
          /\ Sleep(t, v, x, store) \/ Capacity(t, v, x, store)
      BY <1>4, BeginApart DEF ReclaimStopFails, CapacityRetry, On, Launching
    <2>2. store.inflight[v] = 0
      BY <1>4 DEF ReclaimStopFails, CapacityRetry, On, ShownInv, StartsAt, Starting
    <2>3. CASE Sleep(t, v, x, store)
      BY <1>1, <2>1, <2>2, <2>3, AtStops, WaitShown DEF Sleep, Stops, Waits
    <2> QED
      BY <1>1, <2>1, <2>2, <2>3, CapacityShown
  <1>5. CASE CapacityTimeout(t, v, x) \/ StartFails(t, v, x) \/ HealthTimeout(t, v, x)
    <2>1. Raise(t, v, x, store) /\ up' = up /\ task[t].service = v
      BY <1>5 DEF CapacityTimeout, StartFails, HealthTimeout, On
    <2>2. Apart(t, {v}, store, up')
      BY <2>1, BeginApart
    <2> QED
      BY <1>1, <2>1, <2>2, RaiseShown
  <1>6. CASE StartSucceeds(t, v, x)
    <2>1. /\ OnlyMoves(t) /\ Stops(t, {"health"}, v, x) /\ store' = store
          /\ up' = up \cup {v} /\ task[t].pc = "start" /\ task[t].service = v
      BY <1>1, <1>6, AtStops DEF StartSucceeds, On
    <2>2. Apart(t, {v}, store', up')
      <3>1. Apart(t, {v}, store, up)
        BY <2>1, BeginApart
      <3> QED
        BY <2>1, <3>1 DEF Apart
    <2>3. store'.inflight[v] = 0
      BY <2>1 DEF ShownInv, StartsAt, Starting
    <2>4. \A w \in Services : StartsAt(t, w)' => store'.inflight[w] = 0
      BY <2>1, <2>3 DEF Stops, StartsAt
    <2>5. task'[t].service = v /\ task'[t].pc \in Launching
      BY <2>1 DEF Stops, Launching
    <2> QED
      BY <2>1, <2>2, <2>4, <2>5, EndShown
  <1>7. CASE HealthyAfterStart(t, v, x)
    <2> DEFINE s == MarkServiceStarted(store, v)
    <2>1. /\ task[t].pc = "health" /\ task[t].service = v /\ up' = up /\ v \in up
          /\ Forward(t, v, x, s)
      BY <1>1, <1>7 DEF HealthyAfterStart, On, AnsweredUp, Asked
    <2>2. Head(lock[v]) = t
      BY <1>1, <2>1, AtHead DEF UnderLock
    <2>3. \A y \in Workers \ {t} : ~StartsAt(y, v)
      BY <1>1, <2>2, AloneUnderLock
    <2>4. Apart(t, {v}, store, up')
      BY <2>1, BeginApart
    <2>5. Apart(t, {v} \ {v}, s, up')
      BY <2>1, <2>4, StartedApart
    <2>6. {v} \ {v} = {}
      OBVIOUS
    <2>7. WellFormed(s)
      BY <1>1, MarkServiceStartedWellFormed
    <2> HIDE DEF s
    <2>8. Apart(t, {}, s, up')
      BY <2>5, <2>6
    <2> QED
      BY <1>1, <2>1, <2>3, <2>7, <2>8, ForwardShown
  <1> QED
    BY <1>2, <1>3, <1>4, <1>5, <1>6, <1>7 DEF StartStep

\* A run shows what it has started or stopped,
LEMMA RunStepShown ==
  ASSUME Leases = {}, IInv, ShownInv, AnsweredUp, NEW t \in Workers, NEW v \in Services,
         NEW x \in Sessions, RunStep(t, v, x)
  PROVE  ShownInv'
  <1> USE DEF IInv
  <1>1. t \in Tasks /\ TaskOK(task) /\ WellFormed(store) /\ store \in Store /\ x # None
    BY SessionsAssumption DEF Tasks, WellFormed
  <1>2. Apart(t, {}, store, up) /\ Apart(t, {v}, store, up)
    <2>1. task[t].pc \notin Launching
      BY DEF RunStep, ForwardReturns, ForwardFails, OnceStops, OnceStopFails, RestoreStarts,
             RestoreHealthy, RestoreFails, On, Launching
    <2> QED
      BY <2>1, BeginApart
  <1>3. CASE ForwardReturns(t, v, x)
    <2> DEFINE s == [store EXCEPT !.results = @ \cup {x}, !.session[x] = "finished"]
    <2>1. AfterRun(t, v, x, Finally(s, v, x)) /\ v \in up' /\ up' = up
      BY <1>3 DEF ForwardReturns, On, AnsweredUp, Asked
    <2>2. s \in Store /\ s.leases = store.leases /\ s.slots = store.slots /\ SameShown(store, s)
      BY <1>1 DEF Store, SessionStatus, SameShown
    <2> HIDE DEF s
    <2>3. WellFormed(s) /\ Apart(t, {}, s, up')
      BY <1>1, <1>2, <2>1, <2>2, SameTables, SameApart
    <2>4. Apart(t, {}, Finally(s, v, x), up') /\ WellFormed(Finally(s, v, x))
      BY <2>1, <2>3, FinallyApart, FinallyWellFormed
    <2> QED
      BY <1>1, <2>1, <2>4, AfterRunShown
  <1>4. CASE ForwardFails(t, v, x)
    BY <1>1, <1>2, <1>4, RaiseShown DEF ForwardFails
  <1>5. CASE OnceStops(t, v, x)
    <2>1. Apart(t, {}, MarkServiceStopped(store, v), up')
      BY <1>2, <1>5, StoppedApart DEF OnceStops
    <2> QED
      BY <1>1, <1>5, <2>1, RestoreShown DEF OnceStops
  <1>6. CASE OnceStopFails(t, v, x) \/ RestoreFails(t, v, x)
    BY <1>1, <1>2, <1>6, AtLeaves, LeavesShown DEF OnceStopFails, RestoreFails, UnderLock
  <1>7. CASE RestoreStarts(t, v, x)
    <2> DEFINE w == Head(task[t].todo)
    <2>1. task[t] \in TaskState /\ task[t].todo # << >>
      BY <1>1, <1>7 DEF TaskOK, RestoreStarts, On
    <2>2. w \in Services
      BY <2>1 DEF TaskState
    <2>3. task'[t] = [task[t] EXCEPT !.pc = "restore_health"] /\ OnlyMoves(t)
      BY <1>1, <1>7, BecomeMoves DEF RestoreStarts
    <2>4. Leaves(t)
      BY <2>1, <2>3 DEF Leaves, UnderLock, TaskState
    <2>5. store' = store /\ up' = up \cup {w}
      BY <1>7 DEF RestoreStarts
    <2> HIDE DEF w
    <2>6. Apart(t, {}, store', up')
      BY <1>2, <2>2, <2>5 DEF Apart
    <2> QED
      BY <2>4, <2>6, LeavesShown
  <1>8. CASE RestoreHealthy(t, v, x)
    <2> DEFINE w == Head(task[t].todo)
               s == MarkServiceStarted(store, w)
    <2>1. w \in up /\ up' = up /\ RestoreNext(t, v, x, s, Tail(task[t].todo))
      BY <1>8 DEF RestoreHealthy, On, AnsweredUp, Asked
    <2>2. Apart(t, {} \ {w}, s, up)
      BY <1>2, <2>1, StartedApart
    <2>3. {} \ {w} = {}
      OBVIOUS
    <2> HIDE DEF w, s
    <2>4. Apart(t, {}, s, up')
      BY <2>1, <2>2, <2>3
    <2>5. store' = s /\ Leaves(t)
      BY <1>1, <2>1, RestoreNextStops DEF Leaves, Stops, Idle, At, UnderLock
    <2> QED
      BY <2>4, <2>5, LeavesShown
  <1> QED
    BY <1>3, <1>4, <1>5, <1>6, <1>7, <1>8 DEF RunStep

\* and a request of a client shows nothing.
LEMMA RequestShown ==
  ASSUME OnlyWorkers, IInv, ShownInv, Request
  PROVE  ShownInv'
  <1> USE DEF IInv
  <1>1. WellFormed(store) /\ store \in Store
    BY DEF WellFormed
  <1>2. ASSUME SameShown(store, store'), UNCHANGED <<task, up>>
        PROVE  ShownInv'
    BY <1>2 DEF ShownInv, SameShown, StartsAt, Starting
  <1>3. ASSUME NEW x \in Sessions, Submit(x)
        PROVE  ShownInv'
    <2> DEFINE p == PruneReservedSlots(store)
    <2>1. UNCHANGED <<task, up>> /\ (store' = p \/ store' = CreateSession(p, x))
      BY <1>3 DEF Submit
    <2>2. p \in Store /\ SameShown(store, p)
      BY <1>1, PruneReservedSlotsWellFormed DEF PruneReservedSlots, SameShown, WellFormed, Store
    <2> HIDE DEF p
    <2>3. SameShown(p, CreateSession(p, x))
      BY <2>2 DEF CreateSession, SameShown, Store
    <2> QED
      BY <1>2, <2>1, <2>2, <2>3 DEF SameShown
  <1>4. ASSUME NEW old \in SUBSET Expirable(store), Cleanup(old)
        PROVE  ShownInv'
    <2> DEFINE r == RefreshActivity(store, Services)
               e == [x \in Sessions |-> IF x \in old THEN "expired" ELSE r.session[x]]
               c == [r EXCEPT !.session = e, !.results = r.results \ old]
    <2>1. UNCHANGED <<task, up>> /\ store' = c
      BY <1>4 DEF Cleanup, CleanupExpired
    <2>2. SameShown(store, r)
      BY <1>1, RefreshShown DEF OnlyWorkers, ShownInv
    <2>3. SameShown(r, c)
      BY DEF SameShown
    <2> HIDE DEF c
    <2>4. SameShown(store, c)
      BY <2>2, <2>3 DEF SameShown
    <2> QED
      BY <1>2, <2>1, <2>4
  <1> QED
    BY <1>3, <1>4 DEF Request, OnlyWorkers, LeaseKeys

LEMMA NextShownInv ==
  ASSUME OnlyWorkers
  PROVE  IInv /\ LocksConsistent /\ AnsweredUp /\ ShownInv /\ [Next]_vars => ShownInv'
  <1> SUFFICES ASSUME IInv, LocksConsistent, AnsweredUp, ShownInv, [Next]_vars PROVE ShownInv'
    OBVIOUS
  <1>4. ASSUME NEW t \in Workers, Answer(t)
        PROVE  ShownInv'
    <2>1. UNCHANGED <<store, up>> /\ \A u \in Workers : Alike(task'[u], task[u])
      BY <1>4, AnswerAlike DEF IInv, Tasks
    <2> QED
      BY <2>1 DEF ShownInv, StartsAt, Starting, Alike
  <1>1. ASSUME NEW t \in Workers, WorkerStep(t)
        PROVE  ShownInv'
    BY <1>1, <1>4, DequeueShown, StartStepShown, RunStepShown DEF WorkerStep, OnlyWorkers
  <1>2. CASE Request
    BY <1>2, RequestShown
  <1>3. CASE Environment \/ UNCHANGED vars
    <2>1. UNCHANGED <<task, up>> /\ SameShown(store, store')
      BY <1>3 DEF Environment, Tick, Crash, Elapse, vars, OnlyWorkers, SameShown, IInv,
                  WellFormed, Store
    <2> QED
      BY <2>1 DEF ShownInv, SameShown, StartsAt, Starting
  <1> QED
    BY <1>1, <1>2, <1>3 DEF Next, OnlyWorkers

LEMMA ShownInvHolds ==
  ASSUME OnlyWorkers
  PROVE  Spec /\ []AnsweredUp => []ShownInv
  <1>1. Init => ShownInv
    <2> SUFFICES ASSUME Init
                 PROVE  ShownInv
      OBVIOUS
    <2>1. PICK healthy \in SUBSET up :
             /\ store.status = [v \in Services |-> IF v \in healthy THEN "idle" ELSE "stopped"]
             /\ store.inflight = [v \in Services |-> 0] /\ store.running = healthy
      BY DEF Init, InitialStore
    <2>2. \A t \in Workers, v \in Services : ~StartsAt(t, v)
      BY DEF Init, StartsAt, Starting, Idle, At, Tasks
    <2> QED
      BY <2>1, <2>2 DEF ShownInv
  <1>2. Init => LocksConsistent
    BY InitLocksConsistent
  <1> QED
    BY <1>1, <1>2, InitIInv, NextIInv, NextLocksConsistent, NextShownInv, PTL DEF Spec

-----------------------------------------------------------------------------
(* Answers that are not overtaken.                                         *)

\* A section ends where nothing has been answered yet.
Anew(t) == OnlyMoves(t) /\ ~task'[t].answered

\* What is answered is a call, to a process that is up.
AnswerRight(r, u) ==
    r.answered => /\ r.pc \in {"health", "forward", "restore_health", "probe"}
                  /\ Asked(r) \in u

LEMMA AtAnew ==
  ASSUME TaskOK(task), NEW t \in Tasks, NEW pc, NEW v, NEW x, Become(t, At(pc, v, x))
  PROVE  Anew(t)
  BY BecomeMoves DEF Anew, At

LEMMA ReturnAnew ==
  ASSUME TaskOK(task), NEW t \in Tasks, NEW s, Return(t, s)
  PROVE  Anew(t)
  BY AtAnew DEF Return, Idle

LEMMA RestoreNextAnew ==
  ASSUME TaskOK(task), NEW t \in Tasks, NEW v, NEW x, NEW s, NEW todo,
         RestoreNext(t, v, x, s, todo)
  PROVE  Anew(t)
  <1> DEFINE q == [At("restore_start", v, x) EXCEPT !.todo = todo]
  <1>1. \/ Become(t, At("dead", v, x)) \/ Become(t, Idle) \/ Become(t, q)
    BY DEF RestoreNext
  <1>2. q.answered = FALSE
    BY DEF At
  <1> HIDE DEF q
  <1> QED
    BY <1>1, <1>2, AtAnew, BecomeMoves DEF Idle, Anew

LEMMA AfterRunAnew ==
  ASSUME TaskOK(task), NEW t \in Tasks, NEW v, NEW x, NEW s, AfterRun(t, v, x, s)
  PROVE  Anew(t)
  BY ReturnAnew, RestoreNextAnew, AtAnew DEF AfterRun, Restore

LEMMA RaiseAnew ==
  ASSUME TaskOK(task), NEW t \in Tasks, NEW v, NEW x, NEW s, Raise(t, v, x, s)
  PROVE  Anew(t)
  BY ReturnAnew, AfterRunAnew DEF Raise

LEMMA ForwardAnew ==
  ASSUME TaskOK(task), NEW t \in Tasks, NEW v, NEW x, NEW s, Forward(t, v, x, s)
  PROVE  Anew(t)
  <1>1. Return(t, Finally(AbortIfBusy(s, x), v, x)) \/ Become(t, At("forward", v, x))
    BY DEF Forward
  <1> QED
    BY <1>1, ReturnAnew, AtAnew

LEMMA CapacityAnew ==
  ASSUME TaskOK(task), NEW t \in Tasks, NEW v, NEW x, NEW s, Capacity(t, v, x, s)
  PROVE  Anew(t)
  <1> DEFINE q(o) == [At("reclaim", v, x) EXCEPT !.todo = o, !.free = Free[up]]
  <1>1. \/ Raise(t, v, x, s)
        \/ \E pc : Become(t, At(pc, v, x))
        \/ \E o : Become(t, q(o))
    BY DEF Capacity, Launch, Sleep
  <1>2. \A o : q(o).answered = FALSE
    BY DEF At
  <1> HIDE DEF q
  <1> QED
    BY <1>1, <1>2, RaiseAnew, AtAnew, BecomeMoves DEF Anew

LEMMA LockedAnew ==
  ASSUME TaskOK(task), NEW t \in Tasks, NEW v, NEW x, NEW s, Locked(t, v, x, s)
  PROVE  Anew(t)
  BY CapacityAnew, ReturnAnew, ForwardAnew DEF Locked

\* So does every section of a worker that resumes.
LEMMA ResumeAnew ==
  ASSUME IInv, NEW t \in Workers, AnswerRight(task[t], up),
         NEW v \in Services, NEW x \in Sessions, StartStep(t, v, x) \/ RunStep(t, v, x)
  PROVE  Anew(t)
  <1>1. TaskOK(task) /\ t \in Tasks /\ task[t] \in TaskState
    BY DEF IInv, Tasks, TaskOK
  <1>2. CASE ReclaimStops(t, v, x)
    <2> DEFINE r == task[t]
               w == Head(r.todo)
               taken == Append(r.taken, w)
               free == r.free + Usage[w]
               q == [r EXCEPT !.todo = Tail(r.todo), !.taken = taken, !.free = free]
    <2>1. \/ \E pc : Become(t, At(pc, v, x)) \/ Become(t, q)
      BY <1>2 DEF ReclaimStops, Launch, Sleep
    <2>2. ~r.answered
      BY <1>2 DEF ReclaimStops, On, AnswerRight
    <2>3. ~q.answered
      BY <1>1, <2>2 DEF TaskState
    <2> HIDE DEF q
    <2> QED
      BY <1>1, <2>1, <2>3, AtAnew, BecomeMoves DEF Anew
  <1>3. CASE RestoreStarts(t, v, x)
    <2> DEFINE q == [task[t] EXCEPT !.pc = "restore_health"]
    <2>1. Become(t, q) /\ ~task[t].answered
      BY <1>3 DEF RestoreStarts, On, AnswerRight
    <2>2. ~q.answered
      BY <1>1, <2>1 DEF TaskState
    <2> HIDE DEF q
    <2> QED
      BY <1>1, <2>1, <2>2, BecomeMoves DEF Anew
  <1>4. CASE StartStep(t, v, x) /\ ~ReclaimStops(t, v, x)
    BY <1>1, <1>4, LockedAnew, CapacityAnew, RaiseAnew, ReturnAnew, ForwardAnew, AtAnew
    DEF StartStep, LockGranted, ReclaimStopFails, Sleep, CapacityRetry, CapacityTimeout,
        StartSucceeds, StartFails, HealthyAfterStart, HealthTimeout
  <1>5. CASE RunStep(t, v, x) /\ ~RestoreStarts(t, v, x)
    BY <1>1, <1>5, AfterRunAnew, RaiseAnew, RestoreNextAnew, AtAnew
    DEF RunStep, ForwardReturns, ForwardFails, OnceStops, Restore, OnceStopFails,
        RestoreHealthy, RestoreFails
  <1> QED
    BY <1>2, <1>3, <1>4, <1>5

LEMMA DequeueAnew ==
  ASSUME IInv, NEW t \in Workers, Dequeue(t)
  PROVE  Anew(t)
  <1>1. TaskOK(task) /\ t \in Tasks
    BY DEF IInv, Tasks
  <1>2. PICK a, v, x, s : Return(t, s) \/ Acquire(t, v, x, a)
    BY DEF Dequeue
  <1> QED
    BY <1>1, <1>2, ReturnAnew, LockedAnew, AtAnew DEF Acquire

\* With one worker nobody stops a process between its answer and the step that uses it.
LEMMA NextAnswerRight ==
  ASSUME OnlyWorkers, NEW w, Workers = {w}, IInv, AnswerRight(task[w], up), [Next]_vars
  PROVE  AnswerRight(task'[w], up')
  <1>1. w \in Tasks /\ TaskOK(task)
    BY DEF Tasks, IInv
  <1>2. CASE WorkerStep(w) /\ ~Answer(w)
    BY <1>2, ResumeAnew, DequeueAnew DEF WorkerStep, Anew, AnswerRight
  <1>3. CASE Answer(w)
    <2>1. /\ Alike(task'[w], task[w]) /\ up' = up /\ Asked(task[w]) \in up
          /\ task[w].pc \in {"health", "forward", "restore_health", "probe"}
      BY <1>1, <1>3, AnswerAlike
    <2>2. Asked(task'[w]) = Asked(task[w])
      BY <2>1 DEF Asked, Alike
    <2> QED
      BY <2>1, <2>2 DEF AnswerRight, Alike
  <1>4. CASE Request \/ Environment \/ UNCHANGED vars
    <2>1. UNCHANGED <<task, up>>
      BY <1>4 DEF Request, Submit, Cleanup, OnlyWorkers, LeaseKeys, Environment, Tick, Crash, vars
    <2> QED
      BY <2>1
  <1> QED
    BY <1>2, <1>3, <1>4 DEF Next, OnlyWorkers

LEMMA AnsweredUpHolds ==
  ASSUME OnlyWorkers, MaxConcurrency = 1
  PROVE  Spec => []AnsweredUp
  <1>1. PICK w : Workers = {w}
    BY TasksAssumption, FS_Singleton
  <1> DEFINE Right == AnswerRight(task[w], up)
  <1>2. Init => Right
    BY <1>1 DEF Init, Idle, At, Tasks, AnswerRight
  <1>3. IInv /\ Right /\ [Next]_vars => Right'
    BY <1>1, NextAnswerRight
  <1>4. Right => AnsweredUp
    BY <1>1 DEF AnswerRight, AnsweredUp
  <1> HIDE DEF Right
  <1> QED
    BY <1>2, <1>3, <1>4, InvariantHolds, PTL DEF Spec

\* While one worker alone starts and stops services and none crashes, the hub never shows a
\* service as usable whose process is down, through reclaims, restarts, ONCE stops, restores
\* and every failure of a command.  With more workers an answer may be overtaken by a stop,
\* and nothing else breaks it: ShownInvHolds is for any number of them.
THEOREM ShownServicesAreUpHolds ==
  ASSUME OnlyWorkers, MaxConcurrency = 1
  PROVE  Spec => []ShownServicesAreUp
  <1>1. ShownInv => ShownServicesAreUp
    BY DEF ShownInv, ShownServicesAreUp
  <1> QED
    BY <1>1, AnsweredUpHolds, ShownInvHolds, PTL

-----------------------------------------------------------------------------
(* Memory, with one worker.                                                *)

\* A process takes what its service declares as device_memory_usage, and gives it back.
UsageExact ==
    \A u \in SUBSET Services : \A v \in Services \ u : Free[u \cup {v}] = Free[u] - Usage[v]

\* Where the task r is to start a service there is room for it among the processes u, and a
\* reclaim frees what it projects: each candidate that is left is up, once.
Roomy(r, u) ==
    /\ Fits(u)
    /\ r.pc \in Launching => Fits(u \cup {r.service})
    /\ r.pc = "restore_start" => Fits(u \cup {Head(r.todo)})
    /\ r.pc = "reclaim" =>
        /\ r.free <= Free[u]
        /\ \A i \in DOMAIN r.todo : r.todo[i] \in u
        /\ \A i, j \in DOMAIN r.todo : r.todo[i] = r.todo[j] => i = j

\* The strengthening of NoOvercommit.
RoomInv == \A t \in Workers : Roomy(task[t], up)

\* A process that is declared to fit does,
LEMMA StartFits ==
  ASSUME UsageExact, NEW u \in SUBSET Services, NEW v \in Services, Free[u] >= Usage[v]
  PROVE  Fits(u \cup {v})
  <1>1. Free[u] \in Int /\ Usage[v] \in Nat
    BY MemoryAssumption
  <1>2. CASE v \in u
    <2>1. u \cup {v} = u
      BY <1>2
    <2> QED
      BY <1>1, <2>1 DEF Fits
  <1>3. CASE v \notin u
    <2>1. Free[u \cup {v}] = Free[u] - Usage[v]
      BY <1>3 DEF UsageExact
    <2> QED
      BY <1>1, <2>1 DEF Fits
  <1> QED
    BY <1>2, <1>3

\* and one that ends leaves what it used, so that the others fit all the more.
LEMMA StopFrees ==
  ASSUME UsageExact, NEW u \in SUBSET Services, NEW w \in Services
  PROVE  /\ w \in u => Free[u \ {w}] = Free[u] + Usage[w]
         /\ Fits(u) => Fits(u \ {w})
  <1>1. Free[u] \in Int /\ Free[u \ {w}] \in Int /\ Usage[w] \in Nat
    BY MemoryAssumption
  <1>2. CASE w \in u
    <2>1. (u \ {w}) \cup {w} = u /\ u \ {w} \in SUBSET Services /\ w \in Services \ (u \ {w})
      BY <1>2
    <2>2. Free[u] = Free[u \ {w}] - Usage[w]
      BY <2>1 DEF UsageExact
    <2> QED
      BY <1>1, <2>2 DEF Fits
  <1>3. CASE w \notin u
    <2>1. u \ {w} = u
      BY <1>3
    <2> QED
      BY <1>3, <2>1
  <1> QED
    BY <1>2, <1>3

\* A task that stops elsewhere asks for no memory;
LEMMA ElsewhereRoom ==
  ASSUME TaskOK(task), NEW t \in Tasks, NEW pc, NEW v, NEW x, Fits(up'),
         Become(t, At(pc, v, x)), pc \notin Launching \cup {"restore_start", "reclaim"}
  PROVE  Roomy(task'[t], up')
  <1>1. task'[t].pc = pc
    BY BecomeMoves DEF At
  <1> QED
    BY <1>1 DEF Roomy

LEMMA ReturnRoom ==
  ASSUME TaskOK(task), NEW t \in Tasks, NEW s, Fits(up'), Return(t, s)
  PROVE  Roomy(task'[t], up')
  BY ElsewhereRoom DEF Return, Idle, Launching

\* one that restores has asked how much is left,
LEMMA RestoreNextRoom ==
  ASSUME UsageExact, TaskOK(task), NEW t \in Tasks, NEW v, NEW x, NEW s,
         NEW todo \in Seq(Services), up' \in SUBSET Services, Fits(up'),
         RestoreNext(t, v, x, s, todo)
  PROVE  Roomy(task'[t], up')
  <1> DEFINE r == [At("restore_start", v, x) EXCEPT !.todo = todo]
  <1>1. \/ Become(t, At("dead", v, x))
        \/ Become(t, Idle)
        \/ todo # << >> /\ ~(Free[up'] < Usage[Head(todo)]) /\ Become(t, r)
    BY DEF RestoreNext
  <1>2. r.pc = "restore_start" /\ r.todo = todo
    BY DEF At
  <1> HIDE DEF r
  <1>3. CASE Become(t, At("dead", v, x))
    BY <1>3, ElsewhereRoom DEF Launching
  <1>4. CASE Become(t, Idle)
    BY <1>4, ElsewhereRoom DEF Idle, Launching
  <1>5. ASSUME todo # << >>, ~(Free[up'] < Usage[Head(todo)]), Become(t, r)
        PROVE  Roomy(task'[t], up')
    <2> DEFINE w == Head(todo)
    <2>1. w \in Services
      BY <1>5
    <2>2. ~(Free[up'] < Usage[w]) /\ task'[t] = r
      BY <1>5, BecomeMoves
    <2>3. Free[up'] \in Int /\ Usage[w] \in Nat
      BY <2>1, MemoryAssumption
    <2>4. Free[up'] >= Usage[w]
      BY <2>2, <2>3
    <2>5. Fits(up' \cup {w})
      BY <2>1, <2>4, StartFits
    <2> QED
      BY <1>2, <2>2, <2>5 DEF Roomy, Launching
  <1> QED
    BY <1>1, <1>3, <1>4, <1>5

LEMMA RestoreRoom ==
  ASSUME UsageExact, TaskOK(task), NEW t \in Tasks, NEW v, NEW x \in Sessions, NEW s,
         WellFormed(s), up' \in SUBSET Services, Fits(up'), Restore(t, v, x, s)
  PROVE  Roomy(task'[t], up')
  <1> DEFINE stopped == {w \in Range(s.pendingRestore[x]) : s.status[w] = "stopped"}
             p == [s EXCEPT !.pendingRestore[x] = << >>]
  <1>1. s.pendingRestore[x] \in Seq(Services)
    BY DEF WellFormed, Store
  <1>2. stopped \subseteq Services
    BY <1>1, RangeType
  <1>3. PICK recent \in SUBSET stopped : \E todo \in SetToSeqs(recent) :
            RestoreNext(t, v, x, p, todo)
    BY DEF Restore
  <1> HIDE DEF p
  <1>4. PICK todo \in SetToSeqs(recent) : RestoreNext(t, v, x, p, todo)
    BY <1>3
  <1>5. todo \in Seq(Services)
    BY <1>2, OrdersType
  <1> QED
    BY <1>4, <1>5, RestoreNextRoom

LEMMA AfterRunRoom ==
  ASSUME UsageExact, TaskOK(task), NEW t \in Tasks, NEW v \in Services, NEW x \in Sessions,
         NEW s, WellFormed(s), up' \in SUBSET Services, Fits(up'), AfterRun(t, v, x, s)
  PROVE  Roomy(task'[t], up')
  <1> DEFINE r == RefreshActivity(s, {v})
  <1>1. WellFormed(r)
    BY RefreshActivityWellFormed
  <1>2. \/ Return(t, s) \/ Restore(t, v, x, r) \/ Become(t, At("once_stop", v, x))
    BY DEF AfterRun
  <1> HIDE DEF r
  <1>3. CASE Return(t, s)
    BY <1>3, ReturnRoom
  <1>4. CASE Restore(t, v, x, r)
    BY <1>1, <1>4, RestoreRoom
  <1>5. CASE Become(t, At("once_stop", v, x))
    BY <1>5, ElsewhereRoom DEF Launching
  <1> QED
    BY <1>2, <1>3, <1>4, <1>5

LEMMA RaiseRoom ==
  ASSUME UsageExact, TaskOK(task), NEW t \in Tasks, NEW v \in Services, NEW x \in Sessions,
         NEW s, WellFormed(s), up' \in SUBSET Services, Fits(up'), Raise(t, v, x, s)
  PROVE  Roomy(task'[t], up')
  <1> DEFINE f == [s EXCEPT !.session[x] = "failed"]
  <1>1. x # None
    BY SessionsAssumption
  <1>2. AfterRun(t, v, x, Finally(f, v, x))
    BY <1>1 DEF Raise
  <1>3. WellFormed(f)
    BY FailedSession
  <1> HIDE DEF f
  <1>4. WellFormed(Finally(f, v, x))
    BY <1>3, FinallyWellFormed
  <1> QED
    BY <1>2, <1>4, AfterRunRoom

LEMMA ForwardRoom ==
  ASSUME TaskOK(task), NEW t \in Tasks, NEW v, NEW x, NEW s, Fits(up'), Forward(t, v, x, s)
  PROVE  Roomy(task'[t], up')
  <1>1. Return(t, Finally(AbortIfBusy(s, x), v, x)) \/ Become(t, At("forward", v, x))
    BY DEF Forward
  <1>2. CASE Return(t, Finally(AbortIfBusy(s, x), v, x))
    BY <1>2, ReturnRoom
  <1>3. CASE Become(t, At("forward", v, x))
    BY <1>3, ElsewhereRoom DEF Launching
  <1> QED
    BY <1>1, <1>2, <1>3

\* and so has one that starts a service.
LEMMA LaunchRoom ==
  ASSUME UsageExact, TaskOK(task), NEW t \in Tasks, NEW v \in Services, NEW x, NEW s,
         up' \in SUBSET Services, Fits(up'), Free[up'] >= Usage[v], Launch(t, v, x, s)
  PROVE  Roomy(task'[t], up')
  <1>1. task'[t] = At("start", v, x)
    BY BecomeMoves DEF Launch
  <1>2. task'[t].pc = "start" /\ task'[t].service = v
    BY <1>1 DEF At
  <1>3. Fits(up' \cup {v})
    BY StartFits
  <1> QED
    BY <1>2, <1>3 DEF Roomy

LEMMA SleepRoom ==
  ASSUME TaskOK(task), NEW t \in Tasks, NEW v, NEW x, NEW s, Fits(up'), Sleep(t, v, x, s)
  PROVE  Roomy(task'[t], up')
  BY ElsewhereRoom DEF Sleep, Launching

\* The candidates are services that are up, and none comes twice.
LEMMA CapacityRoom ==
  ASSUME UsageExact, TaskOK(task), NEW t \in Tasks, NEW v \in Services, NEW x \in Sessions,
         NEW s, WellFormed(s), s.running \subseteq up, up \in SUBSET Services, Fits(up), up' = up,
         Capacity(t, v, x, s)
  PROVE  Roomy(task'[t], up')
  <1> DEFINE r == RefreshActivity(s, Inspected(s, v))
             q(o) == [At("reclaim", v, x) EXCEPT !.todo = o, !.free = Free[up]]
  <1>1. \/ Raise(t, v, x, s)
        \/ Free[up] >= Usage[v] /\ Launch(t, v, x, s)
        \/ Sleep(t, v, x, r)
        \/ \E o \in ReclaimOrders(r, v) : Become(t, q(o))
    BY DEF Capacity
  <1>2. r.running = s.running
    BY DEF RefreshActivity, WellFormed, Store
  <1>3. ReclaimCandidates(r, v) \subseteq up
    BY <1>2 DEF ReclaimCandidates, Inspected
  <1>4. \A o : q(o).pc = "reclaim" /\ q(o).todo = o /\ q(o).free = Free[up]
    BY DEF At
  <1> HIDE DEF r, q
  <1>5. CASE Raise(t, v, x, s)
    BY <1>5, RaiseRoom
  <1>6. CASE Free[up] >= Usage[v] /\ Launch(t, v, x, s)
    BY <1>6, LaunchRoom
  <1>7. CASE Sleep(t, v, x, r)
    BY <1>7, SleepRoom
  <1>8. ASSUME NEW o \in ReclaimOrders(r, v), Become(t, q(o))
        PROVE  Roomy(task'[t], up')
    <2> DEFINE S == ReclaimCandidates(r, v)
    <2>1. o \in [1 .. Cardinality(S) -> S] /\ \A i, j \in 1 .. Cardinality(S) : i # j => o[i] # o[j]
      BY DEF ReclaimOrders, SetToSeqs
    <2>2. DOMAIN o = 1 .. Cardinality(S) /\ \A i \in DOMAIN o : o[i] \in up
      BY <1>3, <2>1
    <2>3. \A i, j \in DOMAIN o : o[i] = o[j] => i = j
      BY <2>1, <2>2
    <2>4. task'[t] = q(o)
      BY <1>8, BecomeMoves
    <2>5. task'[t].pc = "reclaim" /\ task'[t].todo = o /\ task'[t].free = Free[up]
      BY <1>4, <2>4
    <2>6. Free[up] \in Int /\ Free[up] <= Free[up]
      BY MemoryAssumption
    <2> QED
      BY <2>2, <2>3, <2>5, <2>6 DEF Roomy, Launching
  <1> QED
    BY <1>1, <1>5, <1>6, <1>7, <1>8

LEMMA LockedRoom ==
  ASSUME UsageExact, TaskOK(task), NEW t \in Tasks, NEW v \in Services, NEW x \in Sessions,
         NEW s, WellFormed(s), s.running \subseteq up, up \in SUBSET Services, Fits(up), up' = up,
         Locked(t, v, x, s)
  PROVE  Roomy(task'[t], up')
  <1>1. x # None /\ Fits(up')
    BY SessionsAssumption
  <1>2. Capacity(t, v, x, s) \/ Forward(t, v, x, s)
    BY <1>1 DEF Locked
  <1>3. CASE Capacity(t, v, x, s)
    BY <1>3, CapacityRoom
  <1>4. CASE Forward(t, v, x, s)
    BY <1>1, <1>4, ForwardRoom
  <1> QED
    BY <1>2, <1>3, <1>4

LEMMA AcquireRoom ==
  ASSUME UsageExact, TaskOK(task), NEW t \in Tasks, NEW v \in Services, NEW x \in Sessions,
         NEW s, WellFormed(s), s.running \subseteq up, up \in SUBSET Services, Fits(up), up' = up,
         Acquire(t, v, x, s)
  PROVE  Roomy(task'[t], up')
  <1>1. CASE Locked(t, v, x, s)
    BY <1>1, LockedRoom
  <1>2. CASE Become(t, At("lock", v, x))
    BY <1>2, ElsewhereRoom DEF Launching
  <1> QED
    BY <1>1, <1>2 DEF Acquire

-----------------------------------------------------------------------------
(* Memory through the actions of a worker.                                 *)

LEMMA DequeueRoom ==
  ASSUME UsageExact, IInv, ShownInv, NEW t \in Workers, Fits(up), Dequeue(t)
  PROVE  Roomy(task'[t], up')
  <1> DEFINE x == Head(queue)
             v == ServiceOf[x]
             n == store.queueSize[v] - 1
             s == [store EXCEPT !.queueSize[v] = n]
             a == AbortIfBusy(s, x)
  <1>1. /\ t \in Tasks /\ TaskOK(task) /\ up' = up /\ up \in SUBSET Services
        /\ queue # << >> /\ queue \in Seq(Sessions)
    BY DEF Tasks, Dequeue, IInv
  <1>2. x \in Sessions
    BY <1>1
  <1>3. v \in Services
    BY <1>2, SessionsAssumption
  <1>4. Return(t, Finally(a, v, x)) \/ Acquire(t, v, x, a)
    BY DEF Dequeue
  <1> HIDE DEF x, v
  <1>5. n \in Int
    BY <1>3 DEF IInv, WellFormed, Store
  <1> HIDE DEF n
  <1>6. /\ s \in Store /\ s.leases = store.leases /\ s.slots = store.slots
        /\ s.running = store.running
    BY <1>3, <1>5 DEF IInv, WellFormed, Store
  <1> HIDE DEF s
  <1>7. WellFormed(s) /\ WellFormed(a)
    BY <1>2, <1>6, SameTables, AbortIfBusyWellFormed DEF IInv
  <1>8. a.running = s.running
    BY <1>6 DEF AbortIfBusy, PruneReservedSlots, Store
  <1>9. a.running \subseteq up
    BY <1>6, <1>8 DEF ShownInv
  <1> HIDE DEF a
  <1>10. CASE Return(t, Finally(a, v, x))
    BY <1>1, <1>10, ReturnRoom
  <1>11. CASE Acquire(t, v, x, a)
    BY <1>1, <1>2, <1>3, <1>7, <1>9, <1>11, AcquireRoom
  <1> QED
    BY <1>4, <1>10, <1>11

\* A candidate that has been stopped has freed what was projected.
LEMMA ReclaimStopsRoom ==
  ASSUME UsageExact, IInv, NEW t \in Workers, NEW v \in Services, NEW x \in Sessions,
         Roomy(task[t], up), ReclaimStops(t, v, x)
  PROVE  Roomy(task'[t], up')
  <1> DEFINE r == task[t]
             todo == r.todo
             w == Head(todo)
             s == MarkServiceStopped(store, w)
             taken == Append(r.taken, w)
             free == r.free + Usage[w]
             p == [s EXCEPT !.pendingRestore[x] = taken]
             q == [r EXCEPT !.todo = Tail(todo), !.taken = taken, !.free = free]
  <1>1. /\ t \in Tasks /\ TaskOK(task) /\ r \in TaskState /\ todo # << >>
        /\ r.pc = "reclaim" /\ x # None /\ up \in SUBSET Services
    BY SessionsAssumption DEF ReclaimStops, On, IInv, TaskOK, Tasks
  <1>2. /\ todo \in Seq(Services) /\ r.free \in Int /\ r.free <= Free[up] /\ Fits(up)
        /\ \A i \in DOMAIN todo : todo[i] \in up
        /\ \A i, j \in DOMAIN todo : todo[i] = todo[j] => i = j
    BY <1>1 DEF Roomy, TaskState
  <1>3. up' = up \ {w}
    BY DEF ReclaimStops
  <1>4. \/ free >= Usage[v] /\ Launch(t, v, x, p)
        \/ Sleep(t, v, x, s)
        \/ Become(t, q)
    BY <1>1 DEF ReclaimStops
  <1>5. q.pc = "reclaim" /\ q.todo = Tail(todo) /\ q.free = free
    BY <1>1 DEF TaskState
  <1>6. w \in up /\ \A i \in DOMAIN Tail(todo) : Tail(todo)[i] = todo[i + 1] /\ i + 1 \in DOMAIN todo
    <2> HIDE DEF todo
    <2>1. w = todo[1] /\ 1 \in DOMAIN todo
      BY <1>1, <1>2
    <2>2. \A i \in DOMAIN Tail(todo) : Tail(todo)[i] = todo[i + 1] /\ i + 1 \in DOMAIN todo
      BY <1>1, <1>2
    <2> QED
      BY <1>2, <2>1, <2>2
  <1>7. w = todo[1] /\ 1 \in DOMAIN todo /\ Len(todo) \in Nat /\ DOMAIN todo = 1 .. Len(todo)
    <2> HIDE DEF todo
    <2> QED
      BY <1>1, <1>2
  <1> HIDE DEF r, todo, w, s, taken, p, q
  <1>8. \A i \in DOMAIN Tail(todo) : Tail(todo)[i] \in up \ {w}
    <2> SUFFICES ASSUME NEW i \in DOMAIN Tail(todo)
                 PROVE  Tail(todo)[i] \in up \ {w}
      OBVIOUS
    <2>1. i \in Nat \ {0}
      BY <1>1, <1>2
    <2>2. i + 1 # 1
      BY <2>1
    <2> QED
      BY <1>2, <1>6, <1>7, <2>2
  <1>9. \A i, j \in DOMAIN Tail(todo) : Tail(todo)[i] = Tail(todo)[j] => i = j
    <2> SUFFICES ASSUME NEW i \in DOMAIN Tail(todo), NEW j \in DOMAIN Tail(todo),
                        Tail(todo)[i] = Tail(todo)[j]
                 PROVE  i = j
      OBVIOUS
    <2>1. i \in Nat /\ j \in Nat
      BY <1>1, <1>2
    <2>2. i + 1 = j + 1
      BY <1>2, <1>6
    <2> QED
      BY <2>1, <2>2
  <1>10. Free[up \ {w}] = Free[up] + Usage[w] /\ Fits(up') /\ up' \in SUBSET Services
    BY <1>1, <1>2, <1>3, <1>6, StopFrees
  <1>11. free <= Free[up']
    <2>1. Usage[w] \in Nat /\ Free[up] \in Int
      BY <1>1, <1>6, MemoryAssumption
    <2> QED
      BY <1>2, <1>3, <1>10, <2>1 DEF r
  <1>12. free \in Int /\ Free[up'] \in Int /\ Usage[v] \in Nat
    <2>1. Usage[w] \in Nat
      BY <1>1, <1>6, MemoryAssumption
    <2> QED
      BY <1>2, <1>10, <2>1, MemoryAssumption DEF r
  <1> HIDE DEF free
  <1>13. CASE free >= Usage[v] /\ Launch(t, v, x, p)
    <2>1. Free[up'] >= Usage[v]
      BY <1>11, <1>12, <1>13
    <2> QED
      BY <1>1, <1>10, <1>13, <2>1, LaunchRoom
  <1>14. CASE Sleep(t, v, x, s)
    BY <1>1, <1>10, <1>14, SleepRoom
  <1>15. CASE Become(t, q)
    <2>1. task'[t] = q
      BY <1>1, <1>15, BecomeMoves
    <2> QED
      BY <1>3, <1>5, <1>8, <1>9, <1>10, <1>11, <2>1 DEF Roomy, Launching
  <1> QED
    BY <1>4, <1>13, <1>14, <1>15

LEMMA StartStepRoom ==
  ASSUME UsageExact, IInv, ShownInv, NEW t \in Workers, NEW v \in Services, NEW x \in Sessions,
         Roomy(task[t], up), StartStep(t, v, x)
  PROVE  Roomy(task'[t], up')
  <1>1. /\ t \in Tasks /\ TaskOK(task) /\ WellFormed(store) /\ store.running \subseteq up
        /\ up \in SUBSET Services /\ Fits(up)
    BY DEF Tasks, IInv, ShownInv, Roomy
  <1>2. CASE LockGranted(t, v, x)
    BY <1>1, <1>2, LockedRoom DEF LockGranted
  <1>3. CASE ReclaimStops(t, v, x)
    BY <1>3, ReclaimStopsRoom
  <1>4. CASE ReclaimStopFails(t, v, x)
    BY <1>1, <1>4, SleepRoom DEF ReclaimStopFails
  <1>5. CASE CapacityRetry(t, v, x)
    BY <1>1, <1>5, CapacityRoom DEF CapacityRetry
  <1>6. CASE CapacityTimeout(t, v, x) \/ StartFails(t, v, x) \/ HealthTimeout(t, v, x)
    <2>1. Raise(t, v, x, store) /\ up' = up
      BY <1>6 DEF CapacityTimeout, StartFails, HealthTimeout
    <2> QED
      BY <1>1, <2>1, RaiseRoom
  <1>7. CASE StartSucceeds(t, v, x)
    <2>1. Fits(up \cup {v}) /\ up' = up \cup {v} /\ Become(t, At("health", v, x))
      BY <1>7 DEF StartSucceeds
    <2>2. task'[t].pc = "health" /\ task'[t].service = v
      BY <1>1, <2>1, BecomeMoves DEF At
    <2>3. up' \cup {v} = up' /\ Fits(up')
      BY <2>1
    <2> QED
      BY <2>2, <2>3 DEF Roomy
  <1>8. CASE HealthyAfterStart(t, v, x)
    <2>1. up' = up /\ Forward(t, v, x, MarkServiceStarted(store, v))
      BY <1>8, SessionsAssumption DEF HealthyAfterStart
    <2> QED
      BY <1>1, <2>1, ForwardRoom
  <1> QED
    BY <1>2, <1>3, <1>4, <1>5, <1>6, <1>7, <1>8 DEF StartStep

LEMMA RunStepRoom ==
  ASSUME UsageExact, IInv, NEW t \in Workers, NEW v \in Services, NEW x \in Sessions,
         Roomy(task[t], up), RunStep(t, v, x)
  PROVE  Roomy(task'[t], up')
  <1>1. /\ t \in Tasks /\ TaskOK(task) /\ WellFormed(store) /\ store \in Store
        /\ up \in SUBSET Services /\ Fits(up)
    BY DEF Tasks, IInv, WellFormed, Roomy
  <1>2. CASE ForwardReturns(t, v, x)
    <2> DEFINE s == [store EXCEPT !.results = @ \cup {x}, !.session[x] = "finished"]
    <2>1. AfterRun(t, v, x, Finally(s, v, x)) /\ up' = up
      BY <1>2 DEF ForwardReturns
    <2>2. s \in Store /\ s.leases = store.leases /\ s.slots = store.slots
      BY <1>1 DEF Store, SessionStatus
    <2> HIDE DEF s
    <2>3. WellFormed(Finally(s, v, x))
      BY <1>1, <2>2, SameTables, FinallyWellFormed
    <2> QED
      BY <1>1, <2>1, <2>3, AfterRunRoom
  <1>3. CASE ForwardFails(t, v, x)
    BY <1>1, <1>3, RaiseRoom DEF ForwardFails
  <1>4. CASE OnceStops(t, v, x)
    <2>1. up' = up \ {v} /\ Restore(t, v, x, MarkServiceStopped(store, v))
      BY <1>4 DEF OnceStops
    <2>2. Fits(up') /\ up' \in SUBSET Services
      BY <1>1, <2>1, StopFrees
    <2> QED
      BY <1>1, <2>1, <2>2, MarkServiceStoppedWellFormed, RestoreRoom
  <1>5. CASE OnceStopFails(t, v, x) \/ RestoreFails(t, v, x)
    <2>1. Become(t, At("dead", v, x)) /\ up' = up
      BY <1>5 DEF OnceStopFails, RestoreFails
    <2> QED
      BY <1>1, <2>1, ElsewhereRoom DEF Launching
  <1>6. CASE RestoreStarts(t, v, x)
    <2> DEFINE w == Head(task[t].todo)
               q == [task[t] EXCEPT !.pc = "restore_health"]
    <2>1. Fits(up \cup {w}) /\ up' = up \cup {w} /\ task'[t] = q
      BY <1>1, <1>6, BecomeMoves DEF RestoreStarts
    <2>2. q.pc = "restore_health"
      BY <1>1 DEF TaskOK, TaskState
    <2> HIDE DEF w, q
    <2> QED
      BY <2>1, <2>2 DEF Roomy, Launching
  <1>7. CASE RestoreHealthy(t, v, x)
    <2> DEFINE s == MarkServiceStarted(store, Head(task[t].todo))
    <2>1. up' = up /\ RestoreNext(t, v, x, s, Tail(task[t].todo))
      BY <1>7 DEF RestoreHealthy
    <2>2. task[t].todo \in Seq(Services) /\ task[t].todo # << >>
      BY <1>1, <1>7 DEF TaskOK, TaskState, RestoreHealthy, On
    <2>3. Tail(task[t].todo) \in Seq(Services)
      BY <2>2
    <2> HIDE DEF s
    <2> QED
      BY <1>1, <2>1, <2>3, RestoreNextRoom
  <1> QED
    BY <1>2, <1>3, <1>4, <1>5, <1>6, <1>7 DEF RunStep

\* With one worker nobody else takes memory meanwhile.
LEMMA NextRoomInv ==
  ASSUME OnlyWorkers, MaxConcurrency = 1, UsageExact
  PROVE  IInv /\ ShownInv /\ RoomInv /\ [Next]_vars => RoomInv'
  <1> SUFFICES ASSUME IInv, ShownInv, RoomInv, [Next]_vars PROVE RoomInv'
    OBVIOUS
  <1>1. PICK w : Workers = {w}
    BY TasksAssumption, FS_Singleton
  <1>2. Roomy(task[w], up) /\ Fits(up)
    BY <1>1 DEF RoomInv, Roomy
  <1>3. ASSUME NEW t \in Workers, WorkerStep(t)
        PROVE  RoomInv'
    <2>4. SUFFICES ASSUME ~Answer(t) PROVE RoomInv'
      <3>1. ASSUME Answer(t)
            PROVE  up' = up /\ Alike(task'[t], task[t])
        BY <3>1, AnswerAlike DEF IInv, Tasks
      <3> QED
        BY <1>1, <1>2, <3>1 DEF RoomInv, Roomy, Alike
    <2>1. Dequeue(t) \/ \E v \in Services, x \in Sessions : StartStep(t, v, x) \/ RunStep(t, v, x)
      BY <1>3, <2>4 DEF WorkerStep
    <2>2. Roomy(task[t], up)
      BY <1>1, <1>2
    <2>3. Roomy(task'[t], up')
      BY <1>2, <2>1, <2>2, DequeueRoom, StartStepRoom, RunStepRoom
    <2> QED
      BY <1>1, <2>3 DEF RoomInv
  <1>4. CASE Request \/ Environment \/ UNCHANGED vars
    <2>1. UNCHANGED <<task, up>>
      BY <1>4 DEF Request, Environment, Submit, ReleaseLease, TouchLease, Cleanup, Tick, Crash,
                  vars, OnlyWorkers
    <2> QED
      BY <2>1 DEF RoomInv
  <1> QED
    BY <1>3, <1>4 DEF Next, OnlyWorkers

\* The processes that are up, the one that a worker starts and the one it restores always
\* fit the device: one worker checks what is free, projects what a reclaim frees, and nobody
\* takes it in between, for any number of services of any size and every failing command.
THEOREM NoOvercommitHolds ==
  ASSUME OnlyWorkers, MaxConcurrency = 1, UsageExact
  PROVE  Spec => []NoOvercommit
  <1>1. PICK w : Workers = {w}
    BY TasksAssumption, FS_Singleton
  <1>2. Init => RoomInv
    <2> SUFFICES ASSUME Init
                 PROVE  RoomInv
      OBVIOUS
    <2>1. Fits(up) /\ \A t \in Workers : task[t] = Idle
      BY DEF Init, Tasks
    <2>2. Idle.pc = "idle"
      BY DEF Idle, At
    <2> QED
      BY <2>1, <2>2 DEF RoomInv, Roomy, Launching
  <1>3. RoomInv => NoOvercommit
    <2> SUFFICES ASSUME RoomInv
                 PROVE  NoOvercommit
      OBVIOUS
    <2> DEFINE started == {task[t].service : t \in {u \in Tasks : task[u].pc \in {"start", "health"}}}
               restored == {Head(task[t].todo) : t \in {u \in Tasks : task[u].pc = "restore_start"}}
    <2>1. Roomy(task[w], up) /\ Tasks = {w}
      BY <1>1 DEF RoomInv, Tasks, OnlyWorkers
    <2>2. CASE task[w].pc \in Launching
      <3>1. started = {task[w].service} /\ restored = {}
        BY <2>1, <2>2 DEF Launching
      <3>2. Fits(up \cup started \cup restored)
        <4>1. up \cup started \cup restored = up \cup {task[w].service}
          BY <3>1
        <4> QED
          BY <2>1, <2>2, <4>1 DEF Roomy
      <3> QED
        BY <3>2 DEF NoOvercommit
    <2>3. CASE task[w].pc = "restore_start"
      <3>1. started = {} /\ restored = {Head(task[w].todo)}
        BY <2>1, <2>3
      <3>2. Fits(up \cup started \cup restored)
        <4>1. up \cup started \cup restored = up \cup {Head(task[w].todo)}
          BY <3>1
        <4> QED
          BY <2>1, <2>3, <4>1 DEF Roomy
      <3> QED
        BY <3>2 DEF NoOvercommit
    <2>4. CASE task[w].pc \notin Launching \cup {"restore_start"}
      <3>1. started = {} /\ restored = {}
        BY <2>1, <2>4 DEF Launching
      <3>2. Fits(up \cup started \cup restored)
        <4>1. up \cup started \cup restored = up
          BY <3>1
        <4> QED
          BY <2>1, <4>1 DEF Roomy
      <3> QED
        BY <3>2 DEF NoOvercommit
    <2> QED
      BY <2>2, <2>3, <2>4
  <1>4. Spec => []ShownInv
    BY AnsweredUpHolds, ShownInvHolds, PTL
  <1> QED
    BY <1>2, <1>3, <1>4, InitIInv, NextIInv, NextRoomInv, PTL DEF Spec
=============================================================================
