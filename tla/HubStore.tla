------------------------------ MODULE HubStore ------------------------------
(***************************************************************************)
(* InMemoryStateStore of model_hub_py (state_store.py) for one device: the *)
(* runtime of its services, its sessions, the leases of external streaming *)
(* clients and the device slots those leases reserve.                      *)
(*                                                                         *)
(* The hub runs on one asyncio loop, so every method of the store is       *)
(* atomic and a handler makes several calls between two awaits.  A method  *)
(* is therefore an operator from a store to a store, and ModelHub composes *)
(* them into its actions.                                                  *)
(*                                                                         *)
(* Time.  A lease or slot expiry is held as the time that remains until it *)
(* passes, saturating at 0 (the code only ever asks expires_at <= now), so *)
(* no clock is needed and no bound is put on how long the hub runs.        *)
(* last_used_at, finished_at and the error texts are left out: the actions *)
(* that depend on them choose.                                             *)
(***************************************************************************)
EXTENDS Integers, Sequences, FiniteSets

CONSTANTS
    Services,        \* the services whose definition names this device
    Sessions,        \* session ids, one for each request clients will submit
    ServiceOf,       \* the service each of those requests names
    Leases,          \* lease ids external clients use
    MaxTtl,          \* bound: the longest ttl_seconds a client asks for
    MaxConcurrency,  \* DeviceDefinition.max_concurrency
    None             \* Python's None

ASSUME ServicesAssumption == IsFiniteSet(Services) /\ None \notin Services
ASSUME SessionsAssumption ==
    IsFiniteSet(Sessions) /\ None \notin Sessions /\ ServiceOf \in [Sessions -> Services]
ASSUME LeasesAssumption == IsFiniteSet(Leases) /\ MaxTtl \in Nat \ {0}
ASSUME ConcurrencyAssumption == MaxConcurrency \in Nat \ {0}

ServiceStatus ==
    {"stopped", "starting", "idle", "external", "processing", "stopping", "error"}

\* "unsubmitted": create_session has not made the record yet.
SessionStatus ==
    {"unsubmitted", "queued", "starting", "processing", "finished", "failed", "expired"}

Terminal == {"finished", "failed", "expired"}

Absent == -1
Expiry == Absent .. MaxTtl
LeaseKeys == Services \X Leases

Store ==
    [status         : [Services -> ServiceStatus],
     activeSession  : [Services -> Sessions \cup {None}],
     queueSize      : [Services -> Int],
     inflight       : [Services -> Nat],
     running        : SUBSET Services,
     active         : Nat,
     leases         : [LeaseKeys -> Expiry],
     slots          : [LeaseKeys -> Expiry],
     pendingRestore : [Sessions -> Seq(Services)],
     session        : [Sessions -> SessionStatus],
     results        : SUBSET Sessions]

\* The store as the constructor builds it and startup reconciliation leaves
\* it, `healthy` being the services whose health probe succeeded.
InitialStore(healthy) ==
    [status         |-> [v \in Services |-> IF v \in healthy THEN "idle" ELSE "stopped"],
     activeSession  |-> [v \in Services |-> None],
     queueSize      |-> [v \in Services |-> 0],
     inflight       |-> [v \in Services |-> 0],
     running        |-> healthy,
     active         |-> 0,
     leases         |-> [k \in LeaseKeys |-> Absent],
     slots          |-> [k \in LeaseKeys |-> Absent],
     pendingRestore |-> [x \in Sessions |-> << >>],
     session        |-> [x \in Sessions |-> "unsubmitted"],
     results        |-> {}]

-----------------------------------------------------------------------------
(* Sessions and the started / stopped marks.                               *)

\* Mutant of CreateSession: queue_size is not counted up.
CreateSessionUncounted(s, x) == [s EXCEPT !.session[x] = "queued"]

CreateSession(s, x) ==
    [s EXCEPT !.session[x] = "queued", !.queueSize[ServiceOf[x]] = @ + 1]

MarkServiceStarted(s, v) ==
    [s EXCEPT !.status[v] = "idle", !.running = @ \cup {v}]

MarkServiceStopped(s, v) ==
    [s EXCEPT !.status[v] = "stopped", !.activeSession[v] = None,
              !.inflight[v] = 0, !.running = @ \ {v}]

-----------------------------------------------------------------------------
(* Leases and device slots.                                                *)

HasLease(s, v) == \E l \in Leases : s.leases[<<v, l>>] # Absent

\* _sync_status_from_external_leases: the status v should show.
SyncedStatus(s, v) ==
    IF s.status[v] \in {"processing", "starting", "stopping"} THEN s.status[v]
    ELSE IF HasLease(s, v) THEN "external"
    ELSE IF s.status[v] = "external" THEN "idle"
    ELSE s.status[v]

SyncStatus(s, v) == [s EXCEPT !.status[v] = SyncedStatus(s, v)]

\* Mutant of DropExpired: an entry goes one unit of time too early.
DropExpiredEarly(table, K) ==
    [k \in LeaseKeys |-> IF k \in K /\ table[k] \in 0 .. 1 THEN Absent ELSE table[k]]

\* Drops the expired entries among the keys K of an expiry table.
DropExpired(table, K) ==
    [k \in LeaseKeys |-> IF k \in K /\ table[k] = 0 THEN Absent ELSE table[k]]

PruneReservedSlots(s) == [s EXCEPT !.slots = DropExpired(@, LeaseKeys)]

ReservedSlots(s) == {k \in LeaseKeys : s.slots[k] # Absent}

DeviceSlotUsage(s) == s.active + Cardinality(ReservedSlots(s))

\* can_accept_proxy_work; like every caller of device_slot_usage it prunes
\* first, and the caller's action keeps the pruned store.
CanAcceptProxyWork(s) == DeviceSlotUsage(PruneReservedSlots(s)) < MaxConcurrency

Holds(s, k) == s.slots[k] # Absent

\* Mutant of ExternalReserveSlotReady: used <= max_c.
ExternalReserveSlotReadyLoose(s, k) ==
    LET p == PruneReservedSlots(s)
    IN  Holds(p, k) \/ DeviceSlotUsage(p) <= MaxConcurrency

ExternalReserveSlotReady(s, k) ==
    LET p == PruneReservedSlots(s)
    IN  Holds(p, k) \/ DeviceSlotUsage(p) < MaxConcurrency

QueuedOf(s, v) == {x \in Sessions : s.session[x] = "queued" /\ ServiceOf[x] = v}

AtLeastZero(n) == IF n < 0 THEN 0 ELSE n

\* _fail_queued_sessions_on_device; what waits in the asyncio queue stays there.
FailQueuedSessions(s) ==
    [s EXCEPT
        !.session = [x \in Sessions |-> IF @[x] = "queued" THEN "failed" ELSE @[x]],
        !.queueSize = [v \in Services |->
            IF QueuedOf(s, v) = {} THEN @[v]
            ELSE AtLeastZero(@[v] - Cardinality(QueuedOf(s, v)))]]

\* service_has_external_activity for every service of V: pops the stale leases
\* with their slots and syncs the status.  Its result is HasLease afterwards.
RefreshActivity(s, V) ==
    LET stale == {k \in V \X Leases : s.leases[k] = 0}
        r == [s EXCEPT
                !.leases = [k \in LeaseKeys |-> IF k \in stale THEN Absent ELSE @[k]],
                !.slots  = [k \in LeaseKeys |-> IF k \in stale THEN Absent ELSE @[k]]]
    IN  [r EXCEPT !.status =
            [v \in Services |-> IF v \in V THEN SyncedStatus(r, v) ELSE @[v]]]

\* touch_external_lease returns an error exactly when this holds.
TouchRefused(s, k, reserve) == reserve /\ ~ExternalReserveSlotReady(s, k)

\* Mutant of TouchExternalLease: a renewal without reserve_device_slot leaves
\* the expiry of a slot the lease holds as it was.
TouchExternalLeaseUnaligned(s, k, ttl, reserve) ==
    LET p == PruneReservedSlots(s)
        t == [p EXCEPT !.leases[k] = ttl, !.slots[k] = IF reserve THEN ttl ELSE @]
        f == IF MaxConcurrency = 1 /\ (Holds(p, k) \/ reserve) THEN FailQueuedSessions(t) ELSE t
    IN  IF TouchRefused(s, k, reserve)
        THEN p
        ELSE RefreshActivity(SyncStatus(f, k[1]), {k[1]})

\* touch_external_lease, then the count_external_leases of its handler.
TouchExternalLease(s, k, ttl, reserve) ==
    LET p     == PruneReservedSlots(s)
        holds == Holds(p, k) \/ reserve
        t     == [p EXCEPT !.leases[k] = ttl, !.slots[k] = IF holds THEN ttl ELSE @]
        f     == IF MaxConcurrency = 1 /\ holds THEN FailQueuedSessions(t) ELSE t
    IN  IF TouchRefused(s, k, reserve)
        THEN p
        ELSE RefreshActivity(SyncStatus(f, k[1]), {k[1]})

\* release_external_lease, then the service_has_external_activity of its handler.
ReleaseExternalLease(s, k) ==
    LET r == [s EXCEPT !.leases[k] = Absent, !.slots[k] = Absent]
    IN  RefreshActivity(SyncStatus(r, k[1]), {k[1]})

-----------------------------------------------------------------------------
(* abort_proxy_session_device_busy and cleanup_expired.                    *)

Aborts(s, x) == s.session[x] = "queued" /\ ~CanAcceptProxyWork(s)

AbortIfBusy(s, x) ==
    IF s.session[x] # "queued" THEN s
    ELSE IF Aborts(s, x) THEN [PruneReservedSlots(s) EXCEPT !.session[x] = "failed"]
    ELSE PruneReservedSlots(s)

\* Mutant of Expirable: the age of a session that is still running is looked at.
ExpirableEarly(s) == {x \in Sessions : s.session[x] \in {"processing", "finished", "failed"}}

\* `old` are the finished or failed sessions whose result_ttl_seconds is over.
Expirable(s) == {x \in Sessions : s.session[x] \in {"finished", "failed"}}

\* Mutant of CleanupExpired: the result of an expired session stays.
CleanupExpiredKeepsResults(s, old) ==
    [RefreshActivity(s, Services) EXCEPT
        !.session = [x \in Sessions |-> IF x \in old THEN "expired" ELSE @[x]]]

CleanupExpired(s, old) ==
    [RefreshActivity(s, Services) EXCEPT
        !.session = [x \in Sessions |-> IF x \in old THEN "expired" ELSE @[x]],
        !.results = @ \ old]

\* Time passes for every expiry that is still ahead.
Older(table) == [k \in LeaseKeys |-> IF table[k] > 0 THEN table[k] - 1 ELSE table[k]]
Elapse(s) == [s EXCEPT !.leases = Older(@), !.slots = Older(@)]
=============================================================================
