--------------------------- MODULE HubStoreProofs ---------------------------
(***************************************************************************)
(* Every operation of the store keeps the store well formed: of its type,  *)
(* each reserved slot backed by the lease that reserved it, and no more    *)
(* slots reserved than the device has.                                     *)
(***************************************************************************)
EXTENDS HubStore, TLAPS, FiniteSetTheorems

Backed(s) == \A k \in LeaseKeys : Holds(s, k) => s.leases[k] = s.slots[k]
Within(s) == Cardinality(ReservedSlots(s)) <= MaxConcurrency

WellFormed(s) == s \in Store /\ Backed(s) /\ Within(s)

-----------------------------------------------------------------------------

\* There are finitely many leases to tell apart.
LEMMA KeysFinite == IsFiniteSet(LeaseKeys)
  BY FS_Product, ServicesAssumption, LeasesAssumption DEF LeaseKeys

\* The set of reserved slots is finite, and its size is a number.
LEMMA ReservedFinite ==
  ASSUME NEW s
  PROVE  IsFiniteSet(ReservedSlots(s)) /\ Cardinality(ReservedSlots(s)) \in Nat
  BY KeysFinite, FS_Subset, FS_CardinalityType DEF ReservedSlots

\* A store whose lease and slot tables are those of a well-formed one is well formed.
LEMMA SameTables ==
  ASSUME NEW s, NEW t \in Store, WellFormed(s), t.leases = s.leases, t.slots = s.slots
  PROVE  WellFormed(t)
  BY DEF WellFormed, Backed, Within, ReservedSlots, Holds

\* So is one that reserves fewer slots and leaves the others backed.
LEMMA FewerSlots ==
  ASSUME NEW s, NEW t \in Store, WellFormed(s), Backed(t),
         ReservedSlots(t) \subseteq ReservedSlots(s)
  PROVE  WellFormed(t)
  <1>1. Cardinality(ReservedSlots(t)) <= Cardinality(ReservedSlots(s))
    BY ReservedFinite, FS_Subset
  <1> QED
    BY <1>1, ReservedFinite, ConcurrencyAssumption DEF WellFormed, Within

-----------------------------------------------------------------------------
(* The operations that touch no lease.                                     *)

\* create_session reserves nothing.
LEMMA CreateSessionWellFormed ==
  ASSUME NEW s, WellFormed(s), NEW x \in Sessions
  PROVE  WellFormed(CreateSession(s, x))
  <1> DEFINE v == ServiceOf[x]
             size == s.queueSize[v] + 1
             t == [s EXCEPT !.session[x] = "queued", !.queueSize[v] = size]
  <1>1. v \in Services
    BY SessionsAssumption
  <1>2. size \in Int
    BY <1>1 DEF WellFormed, Store
  <1>3. CreateSession(s, x) = t
    BY DEF CreateSession
  <1> HIDE DEF v, size
  <1>4. t \in Store /\ t.leases = s.leases /\ t.slots = s.slots
    BY <1>1, <1>2 DEF WellFormed, Store, SessionStatus
  <1> HIDE DEF t
  <1> QED
    BY <1>3, <1>4, SameTables

\* Nor does a service that has started,
LEMMA MarkServiceStartedWellFormed ==
  ASSUME NEW s, WellFormed(s), NEW v \in Services
  PROVE  WellFormed(MarkServiceStarted(s, v))
  <1>1. MarkServiceStarted(s, v) \in Store
    BY DEF WellFormed, MarkServiceStarted, Store, ServiceStatus
  <1> QED
    BY <1>1, SameTables DEF MarkServiceStarted, WellFormed, Store

\* or stopped: its leases and their slots stay.
LEMMA MarkServiceStoppedWellFormed ==
  ASSUME NEW s, WellFormed(s), NEW v \in Services
  PROVE  WellFormed(MarkServiceStopped(s, v))
  <1> DEFINE t == [s EXCEPT !.status[v] = "stopped", !.activeSession[v] = None,
                            !.inflight[v] = 0, !.running = @ \ {v}]
  <1>1. t \in Store /\ t.leases = s.leases /\ t.slots = s.slots
    BY DEF WellFormed, Store, ServiceStatus
  <1>2. MarkServiceStopped(s, v) = t
    BY DEF MarkServiceStopped
  <1> HIDE DEF t
  <1> QED
    BY <1>1, <1>2, SameTables

\* Showing a lease in the status of its service changes no lease.
LEMMA SyncStatusWellFormed ==
  ASSUME NEW s, WellFormed(s), NEW v \in Services
  PROVE  WellFormed(SyncStatus(s, v))
  <1>1. SyncedStatus(s, v) \in ServiceStatus
    BY DEF SyncedStatus, WellFormed, Store, ServiceStatus
  <1>2. SyncStatus(s, v) \in Store
    BY <1>1 DEF SyncStatus, WellFormed, Store
  <1> QED
    BY <1>2, SameTables DEF SyncStatus, WellFormed, Store

\* A lease with the only slot fails what waits; the counts stay numbers.
LEMMA FailQueuedSessionsWellFormed ==
  ASSUME NEW s, WellFormed(s)
  PROVE  WellFormed(FailQueuedSessions(s))
  <1> DEFINE size(v) == IF QueuedOf(s, v) = {} THEN s.queueSize[v]
                        ELSE AtLeastZero(s.queueSize[v] - Cardinality(QueuedOf(s, v)))
             sizes == [v \in Services |-> size(v)]
             status == [x \in Sessions |-> IF s.session[x] = "queued" THEN "failed"
                                           ELSE s.session[x]]
  <1>1. ASSUME NEW v \in Services
        PROVE  size(v) \in Int
    <2>1. Cardinality(QueuedOf(s, v)) \in Nat
      BY SessionsAssumption, FS_Subset, FS_CardinalityType DEF QueuedOf
    <2>2. s.queueSize[v] \in Int
      BY DEF WellFormed, Store
    <2> QED
      BY <2>1, <2>2 DEF AtLeastZero
  <1>2. sizes \in [Services -> Int]
    BY <1>1
  <1>3. status \in [Sessions -> SessionStatus]
    BY DEF WellFormed, Store, SessionStatus
  <1>4. FailQueuedSessions(s) = [s EXCEPT !.session = status, !.queueSize = sizes]
    BY DEF FailQueuedSessions
  <1> HIDE DEF sizes, status
  <1>5. FailQueuedSessions(s) \in Store
    BY <1>2, <1>3, <1>4 DEF WellFormed, Store
  <1> QED
    BY <1>4, <1>5, SameTables DEF WellFormed, Store

-----------------------------------------------------------------------------
(* Leases and slots.                                                       *)

\* Pruning drops slots and leaves the leases.
LEMMA PruneReservedSlotsWellFormed ==
  ASSUME NEW s, WellFormed(s)
  PROVE  WellFormed(PruneReservedSlots(s))
  <1> DEFINE kept == DropExpired(s.slots, LeaseKeys)
  <1>1. kept \in [LeaseKeys -> Expiry]
    BY LeasesAssumption DEF DropExpired, WellFormed, Store, Expiry, Absent
  <1>2. \A k \in LeaseKeys : kept[k] # Absent => kept[k] = s.slots[k]
    BY DEF DropExpired
  <1>3. PruneReservedSlots(s) = [s EXCEPT !.slots = kept]
    BY DEF PruneReservedSlots
  <1> HIDE DEF kept
  <1>4. PruneReservedSlots(s) \in Store
    BY <1>1, <1>3 DEF WellFormed, Store
  <1>5. PruneReservedSlots(s).slots = kept /\ PruneReservedSlots(s).leases = s.leases
    BY <1>3 DEF WellFormed, Store
  <1>6. ReservedSlots(PruneReservedSlots(s)) \subseteq ReservedSlots(s)
    BY <1>2, <1>5 DEF ReservedSlots
  <1>7. Backed(PruneReservedSlots(s))
    BY <1>2, <1>5 DEF Backed, Holds, WellFormed
  <1> QED
    BY <1>4, <1>6, <1>7, FewerSlots

\* A stale lease goes with its slot.
LEMMA RefreshActivityWellFormed ==
  ASSUME NEW s, WellFormed(s), NEW V \in SUBSET Services
  PROVE  WellFormed(RefreshActivity(s, V))
  <1> DEFINE stale == {k \in V \X Leases : s.leases[k] = 0}
             leases == [k \in LeaseKeys |-> IF k \in stale THEN Absent ELSE s.leases[k]]
             slots == [k \in LeaseKeys |-> IF k \in stale THEN Absent ELSE s.slots[k]]
             r == [s EXCEPT !.leases = leases, !.slots = slots]
             status == [v \in Services |-> IF v \in V THEN SyncedStatus(r, v) ELSE r.status[v]]
             t == [r EXCEPT !.status = status]
  <1>1. leases \in [LeaseKeys -> Expiry] /\ slots \in [LeaseKeys -> Expiry]
    BY LeasesAssumption DEF WellFormed, Store, Expiry, Absent
  <1>2. \A k \in LeaseKeys : slots[k] # Absent => slots[k] = s.slots[k] /\ leases[k] = s.leases[k]
    OBVIOUS
  <1>3. RefreshActivity(s, V) = t
    BY DEF RefreshActivity
  <1> HIDE DEF leases, slots
  <1>4. r \in Store /\ r.leases = leases /\ r.slots = slots
    BY <1>1 DEF WellFormed, Store
  <1> HIDE DEF r
  <1>5. status \in [Services -> ServiceStatus]
    BY <1>4 DEF SyncedStatus, Store, ServiceStatus
  <1> HIDE DEF status
  <1>6. t \in Store /\ t.leases = leases /\ t.slots = slots
    BY <1>4, <1>5 DEF Store
  <1> HIDE DEF t
  <1>7. ReservedSlots(t) \subseteq ReservedSlots(s) /\ Backed(t)
    BY <1>2, <1>6 DEF ReservedSlots, Backed, Holds, WellFormed
  <1> QED
    BY <1>3, <1>6, <1>7, FewerSlots

\* A touch that is not refused aligns the lease and its slot, and takes a slot
\* only when one is free.
LEMMA TouchExternalLeaseWellFormed ==
  ASSUME NEW s, WellFormed(s), NEW k \in LeaseKeys, NEW ttl \in 1 .. MaxTtl,
         NEW reserve \in BOOLEAN
  PROVE  WellFormed(TouchExternalLease(s, k, ttl, reserve))
  <1> DEFINE p == PruneReservedSlots(s)
             holds == Holds(p, k) \/ reserve
             slot == IF holds THEN ttl ELSE p.slots[k]
             t == [p EXCEPT !.leases[k] = ttl, !.slots[k] = slot]
             f == IF MaxConcurrency = 1 /\ holds THEN FailQueuedSessions(t) ELSE t
  <1>1. WellFormed(p) /\ k[1] \in Services
    BY PruneReservedSlotsWellFormed DEF LeaseKeys
  <1>2. CASE TouchRefused(s, k, reserve)
    BY <1>1, <1>2 DEF TouchExternalLease
  <1>3. CASE ~TouchRefused(s, k, reserve)
    <2>1. Holds(p, k) \/ ~reserve \/ DeviceSlotUsage(p) < MaxConcurrency
      BY <1>3 DEF TouchRefused, ExternalReserveSlotReady
    <2>2. ttl \in Expiry /\ ttl # Absent /\ slot \in Expiry
      BY <1>1, LeasesAssumption DEF Expiry, Absent, WellFormed, Store
    <2>3. ~holds => slot = Absent
      BY DEF Holds
    <2>4. holds => slot = ttl
      OBVIOUS
    <2>5. TouchExternalLease(s, k, ttl, reserve) = RefreshActivity(SyncStatus(f, k[1]), {k[1]})
      BY <1>3 DEF TouchExternalLease
    <2> HIDE DEF p, slot
    <2>6. t \in Store /\ t.leases = [p.leases EXCEPT ![k] = ttl]
                      /\ t.slots = [p.slots EXCEPT ![k] = slot] /\ t.active = p.active
      BY <1>1, <2>2 DEF WellFormed, Store
    <2> HIDE DEF t
    <2>7. Backed(t)
      BY <1>1, <2>2, <2>3, <2>4, <2>6 DEF Backed, Holds, WellFormed, Store
    <2>8. WellFormed(t)
      <3>1. CASE Holds(p, k) \/ ~holds
        <4>1. ReservedSlots(t) \subseteq ReservedSlots(p)
          BY <2>2, <2>3, <2>6, <3>1, <1>1 DEF ReservedSlots, Holds, WellFormed, Store
        <4> QED
          BY <1>1, <2>6, <2>7, <4>1, FewerSlots
      <3>2. CASE ~Holds(p, k) /\ holds
        <4>1. DeviceSlotUsage(p) < MaxConcurrency
          BY <2>1, <3>2
        <4>2. ReservedSlots(t) \subseteq ReservedSlots(p) \cup {k}
          BY <2>6, <1>1 DEF ReservedSlots, WellFormed, Store
        <4>3. k \notin ReservedSlots(p)
          BY <3>2 DEF ReservedSlots, Holds
        <4>4. Cardinality(ReservedSlots(t)) <= Cardinality(ReservedSlots(p)) + 1
          <5>1. /\ IsFiniteSet(ReservedSlots(p) \cup {k})
                /\ Cardinality(ReservedSlots(p) \cup {k}) = Cardinality(ReservedSlots(p)) + 1
            BY <4>3, ReservedFinite, FS_AddElement
          <5>2. Cardinality(ReservedSlots(t)) <= Cardinality(ReservedSlots(p) \cup {k})
            BY <4>2, <5>1, FS_Subset
          <5> QED
            BY <5>1, <5>2
        <4>5. p.active \in Nat
          BY <1>1 DEF WellFormed, Store
        <4>6. Cardinality(ReservedSlots(p)) + 1 <= MaxConcurrency
          BY <4>1, <4>5, ReservedFinite, ConcurrencyAssumption DEF DeviceSlotUsage
        <4>7. Within(t)
          BY <4>4, <4>6, ReservedFinite, ConcurrencyAssumption DEF Within
        <4> QED
          BY <2>6, <2>7, <4>7 DEF WellFormed
      <3> QED
        BY <3>1, <3>2
    <2>9. WellFormed(f)
      BY <2>8, FailQueuedSessionsWellFormed
    <2> HIDE DEF f
    <2>10. WellFormed(SyncStatus(f, k[1]))
      BY <1>1, <2>9, SyncStatusWellFormed
    <2> QED
      BY <1>1, <2>5, <2>10, RefreshActivityWellFormed
  <1> QED
    BY <1>2, <1>3

\* A release takes a lease and its slot together.
LEMMA ReleaseExternalLeaseWellFormed ==
  ASSUME NEW s, WellFormed(s), NEW k \in LeaseKeys
  PROVE  WellFormed(ReleaseExternalLease(s, k))
  <1> DEFINE t == [s EXCEPT !.leases[k] = Absent, !.slots[k] = Absent]
  <1>1. k[1] \in Services
    BY DEF LeaseKeys
  <1>2. ReleaseExternalLease(s, k) = RefreshActivity(SyncStatus(t, k[1]), {k[1]})
    BY DEF ReleaseExternalLease
  <1>3. Absent \in Expiry
    BY LeasesAssumption DEF Expiry, Absent
  <1>4. t \in Store /\ t.leases = [s.leases EXCEPT ![k] = Absent]
                    /\ t.slots = [s.slots EXCEPT ![k] = Absent]
    BY <1>3 DEF WellFormed, Store
  <1> HIDE DEF t
  <1>5. ReservedSlots(t) \subseteq ReservedSlots(s) /\ Backed(t)
    BY <1>4 DEF ReservedSlots, Backed, Holds, WellFormed, Store
  <1>6. WellFormed(SyncStatus(t, k[1]))
    BY <1>1, <1>4, <1>5, FewerSlots, SyncStatusWellFormed
  <1> QED
    BY <1>1, <1>2, <1>6, RefreshActivityWellFormed

-----------------------------------------------------------------------------
(* The abort check, the cleanup and time.                                  *)

\* The abort check prunes slots and may fail the session.
LEMMA AbortIfBusyWellFormed ==
  ASSUME NEW s, WellFormed(s), NEW x \in Sessions
  PROVE  WellFormed(AbortIfBusy(s, x))
  <1> DEFINE p == PruneReservedSlots(s)
             t == [p EXCEPT !.session[x] = "failed"]
  <1>1. WellFormed(p)
    BY PruneReservedSlotsWellFormed
  <1>2. AbortIfBusy(s, x) \in {s, p, t}
    BY DEF AbortIfBusy
  <1> HIDE DEF p
  <1>3. t \in Store /\ t.leases = p.leases /\ t.slots = p.slots
    BY <1>1 DEF WellFormed, Store, SessionStatus
  <1> HIDE DEF t
  <1>4. WellFormed(t)
    BY <1>1, <1>3, SameTables
  <1> QED
    BY <1>1, <1>2, <1>4

\* The cleanup drops stale leases with their slots and old sessions with their results.
LEMMA CleanupExpiredWellFormed ==
  ASSUME NEW s, WellFormed(s), NEW old \in SUBSET Sessions
  PROVE  WellFormed(CleanupExpired(s, old))
  <1> DEFINE r == RefreshActivity(s, Services)
             status == [x \in Sessions |-> IF x \in old THEN "expired" ELSE r.session[x]]
             t == [r EXCEPT !.session = status, !.results = @ \ old]
  <1>1. WellFormed(r)
    BY RefreshActivityWellFormed
  <1>2. CleanupExpired(s, old) = t
    BY DEF CleanupExpired
  <1> HIDE DEF r
  <1>3. status \in [Sessions -> SessionStatus]
    BY <1>1 DEF WellFormed, Store, SessionStatus
  <1> HIDE DEF status
  <1>4. t \in Store /\ t.leases = r.leases /\ t.slots = r.slots
    BY <1>1, <1>3 DEF WellFormed, Store
  <1> HIDE DEF t
  <1> QED
    BY <1>1, <1>2, <1>4, SameTables

\* A lease and its slot grow old together.
LEMMA ElapseWellFormed ==
  ASSUME NEW s, WellFormed(s)
  PROVE  WellFormed(Elapse(s))
  <1> DEFINE leases == Older(s.leases)
             slots == Older(s.slots)
             t == [s EXCEPT !.leases = leases, !.slots = slots]
  <1>1. leases \in [LeaseKeys -> Expiry] /\ slots \in [LeaseKeys -> Expiry]
    BY LeasesAssumption DEF Older, WellFormed, Store, Expiry, Absent
  <1>2. \A k \in LeaseKeys :
          /\ slots[k] # Absent => s.slots[k] # Absent
          /\ s.leases[k] = s.slots[k] => leases[k] = slots[k]
    BY LeasesAssumption DEF Older, WellFormed, Store, Expiry, Absent
  <1>3. Elapse(s) = t
    BY DEF Elapse
  <1> HIDE DEF leases, slots
  <1>4. t \in Store /\ t.leases = leases /\ t.slots = slots
    BY <1>1 DEF WellFormed, Store
  <1> HIDE DEF t
  <1>5. ReservedSlots(t) \subseteq ReservedSlots(s)
    BY <1>2, <1>4 DEF ReservedSlots
  <1>6. Backed(t)
    <2> SUFFICES ASSUME NEW k \in LeaseKeys, Holds(t, k)
                 PROVE  t.leases[k] = t.slots[k]
      BY DEF Backed
    <2>1. s.leases[k] = s.slots[k]
      BY <1>2, <1>4 DEF Holds, Backed, WellFormed
    <2> QED
      BY <1>2, <1>4, <2>1
  <1> QED
    BY <1>3, <1>4, <1>5, <1>6, FewerSlots

\* At startup nothing is leased.
LEMMA InitialStoreWellFormed ==
  ASSUME NEW healthy \in SUBSET Services
  PROVE  WellFormed(InitialStore(healthy))
  <1> DEFINE t == InitialStore(healthy)
  <1>1. Absent \in Expiry
    BY LeasesAssumption DEF Expiry, Absent
  <1>2. t \in Store /\ t.slots = [k \in LeaseKeys |-> Absent]
    BY <1>1 DEF InitialStore, Store, ServiceStatus, SessionStatus
  <1>3. ReservedSlots(t) = {}
    BY <1>2 DEF ReservedSlots
  <1>4. Backed(t)
    BY <1>2 DEF Backed, Holds
  <1> QED
    BY <1>2, <1>3, <1>4, FS_EmptySet, ConcurrencyAssumption DEF WellFormed, Within
=============================================================================
