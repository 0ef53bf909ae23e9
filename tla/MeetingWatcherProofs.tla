------------------------ MODULE MeetingWatcherProofs ------------------------
(***************************************************************************)
(* The meeting watcher keeps its device slot while it streams, for every   *)
(* ttl, latency, number of leases and behaviour of other clients; and its  *)
(* keyword watcher hears every keyword that fits its buffer, opens a new   *)
(* stream after a cooldown and spaces its reminders, for every keyword.    *)
(***************************************************************************)
EXTENDS MeetingWatcher, HubStoreProofs, SequenceTheorems

\* The heartbeat waits for half the ttl exactly, at least a second.
LEMMA HalfTtl ==
  /\ Interval \in Nat /\ Interval >= 1 /\ Interval + Interval = TtlSeconds
  /\ TtlSeconds \in 1 .. MaxTtl
  BY TtlAssumption, LeasesAssumption DEF Interval, Larger, Smaller

-----------------------------------------------------------------------------
(* What the hub does to the slot of a lease.                               *)

HasTables(s) == "leases" \in DOMAIN s /\ "slots" \in DOMAIN s

\* A well-formed store is a record with its tables.
LEMMA StoreTables ==
  ASSUME NEW s \in Store
  PROVE  HasTables(s) /\ s.leases \in [LeaseKeys -> Expiry] /\ s.slots \in [LeaseKeys -> Expiry]
  BY DEF Store, HasTables

\* A refresh leaves the slot of a lease that is not stale.
LEMMA RefreshKeeps ==
  ASSUME NEW s, HasTables(s), NEW V, NEW j \in LeaseKeys, s.leases[j] # 0
  PROVE  RefreshActivity(s, V).slots[j] = s.slots[j]
  <1> DEFINE stale == {k \in V \X Leases : s.leases[k] = 0}
             leases == [k \in LeaseKeys |-> IF k \in stale THEN Absent ELSE s.leases[k]]
             slots == [k \in LeaseKeys |-> IF k \in stale THEN Absent ELSE s.slots[k]]
             r == [s EXCEPT !.leases = leases, !.slots = slots]
             status == [v \in Services |-> IF v \in V THEN SyncedStatus(r, v) ELSE r.status[v]]
             t == [r EXCEPT !.status = status]
  <1>1. slots[j] = s.slots[j]
    OBVIOUS
  <1>2. RefreshActivity(s, V) = t
    BY DEF RefreshActivity
  <1> HIDE DEF leases, slots, status
  <1>3. t.slots = slots
    BY DEF HasTables
  <1> QED
    BY <1>1, <1>2, <1>3

\* Pruning leaves a live slot, and every lease.
LEMMA PruneKeeps ==
  ASSUME NEW s \in Store, NEW j \in LeaseKeys, s.slots[j] > 0
  PROVE  PruneReservedSlots(s).slots[j] = s.slots[j]
  <1> DEFINE kept == DropExpired(s.slots, LeaseKeys)
  <1>1. kept[j] = s.slots[j]
    BY DEF DropExpired
  <1>2. PruneReservedSlots(s) = [s EXCEPT !.slots = kept]
    BY DEF PruneReservedSlots
  <1> QED
    BY <1>1, <1>2, StoreTables DEF HasTables

\* Who holds a live slot is never refused.
LEMMA LiveSlotNotRefused ==
  ASSUME NEW s \in Store, NEW j \in LeaseKeys, s.slots[j] > 0
  PROVE  ~TouchRefused(s, j, TRUE)
  BY PruneKeeps DEF TouchRefused, ExternalReserveSlotReady, Holds, Absent

\* Syncing a status and failing what waits leave the tables.
LEMMA TablesKept ==
  ASSUME NEW s, HasTables(s), NEW v
  PROVE  /\ HasTables(SyncStatus(s, v)) /\ HasTables(FailQueuedSessions(s))
         /\ SyncStatus(s, v).leases = s.leases /\ SyncStatus(s, v).slots = s.slots
         /\ FailQueuedSessions(s).leases = s.leases /\ FailQueuedSessions(s).slots = s.slots
  <1> DEFINE session == [x \in Sessions |-> IF s.session[x] = "queued" THEN "failed"
                                            ELSE s.session[x]]
             size == [v_1 \in Services |->
                        IF QueuedOf(s, v_1) = {} THEN s.queueSize[v_1]
                        ELSE AtLeastZero(s.queueSize[v_1] - Cardinality(QueuedOf(s, v_1)))]
             status == SyncedStatus(s, v)
  <1>1. FailQueuedSessions(s) = [s EXCEPT !.session = session, !.queueSize = size]
    BY DEF FailQueuedSessions
  <1>2. SyncStatus(s, v) = [s EXCEPT !.status[v] = status]
    BY DEF SyncStatus
  <1> HIDE DEF session, size, status
  <1> QED
    BY <1>1, <1>2 DEF HasTables

\* A touch leaves the live slots of others; one that is not refused gives its
\* lease a slot for the whole ttl.
LEMMA TouchSlots ==
  ASSUME NEW s, WellFormed(s), NEW k \in LeaseKeys, NEW ttl \in 1 .. MaxTtl,
         NEW j \in LeaseKeys
  PROVE  /\ j # k /\ s.slots[j] > 0 => TouchExternalLease(s, k, ttl, TRUE).slots[j] = s.slots[j]
         /\ ~TouchRefused(s, k, TRUE) => TouchExternalLease(s, k, ttl, TRUE).slots[k] = ttl
  <1> DEFINE p == PruneReservedSlots(s)
             t == [p EXCEPT !.leases[k] = ttl, !.slots[k] = ttl]
             f == IF MaxConcurrency = 1 THEN FailQueuedSessions(t) ELSE t
             g == SyncStatus(f, k[1])
  <1>1. WellFormed(p) /\ p \in Store /\ s \in Store
    BY PruneReservedSlotsWellFormed DEF WellFormed
  <1>2. s.slots[j] > 0 => p.slots[j] = s.slots[j] /\ p.leases[j] = s.slots[j]
    <2>1. s.slots[j] > 0 => p.slots[j] = s.slots[j]
      BY <1>1, PruneKeeps
    <2> HIDE DEF p
    <2> QED
      BY <1>1, <2>1 DEF WellFormed, Backed, Holds, Absent
  <1>3. TouchRefused(s, k, TRUE) => TouchExternalLease(s, k, ttl, TRUE) = p
    BY DEF TouchExternalLease
  <1>4. ~TouchRefused(s, k, TRUE) =>
          TouchExternalLease(s, k, ttl, TRUE) = RefreshActivity(g, {k[1]})
    BY DEF TouchExternalLease
  <1> HIDE DEF p
  <1>5. /\ HasTables(t) /\ t.leases = [p.leases EXCEPT ![k] = ttl]
        /\ t.slots = [p.slots EXCEPT ![k] = ttl]
    BY <1>1, StoreTables DEF HasTables
  <1> HIDE DEF t
  <1>6. HasTables(f) /\ f.leases = t.leases /\ f.slots = t.slots
    BY <1>5, TablesKept
  <1> HIDE DEF f
  <1>7. HasTables(g) /\ g.leases = t.leases /\ g.slots = t.slots
    BY <1>6, TablesKept
  <1> HIDE DEF g
  <1>8. g.leases[k] = ttl /\ g.slots[k] = ttl /\ ttl # 0
    BY <1>1, <1>5, <1>7, StoreTables
  <1>9. j # k => g.leases[j] = p.leases[j] /\ g.slots[j] = p.slots[j]
    BY <1>1, <1>5, <1>7, StoreTables
  <1>10. ~TouchRefused(s, k, TRUE) => TouchExternalLease(s, k, ttl, TRUE).slots[k] = ttl
    <2>1. g.leases[k] # 0
      BY <1>8
    <2>2. RefreshActivity(g, {k[1]}).slots[k] = g.slots[k]
      BY <1>7, <2>1, RefreshKeeps
    <2> QED
      BY <1>4, <1>8, <2>2
  <1>11. j # k /\ s.slots[j] > 0 => TouchExternalLease(s, k, ttl, TRUE).slots[j] = s.slots[j]
    <2> SUFFICES ASSUME j # k, s.slots[j] > 0
                 PROVE  TouchExternalLease(s, k, ttl, TRUE).slots[j] = s.slots[j]
      OBVIOUS
    <2>1. g.leases[j] # 0 /\ g.slots[j] = s.slots[j]
      BY <1>2, <1>9
    <2>2. RefreshActivity(g, {k[1]}).slots[j] = s.slots[j]
      BY <1>7, <2>1, RefreshKeeps
    <2> QED
      BY <1>2, <1>3, <1>4, <2>2
  <1> QED
    BY <1>10, <1>11

\* So does a release of another lease.
LEMMA ReleaseSlots ==
  ASSUME NEW s, WellFormed(s), NEW k \in LeaseKeys, NEW j \in LeaseKeys, j # k, s.slots[j] > 0
  PROVE  ReleaseExternalLease(s, k).slots[j] = s.slots[j]
  <1> DEFINE t == [s EXCEPT !.leases[k] = Absent, !.slots[k] = Absent]
             g == SyncStatus(t, k[1])
  <1>1. ReleaseExternalLease(s, k) = RefreshActivity(g, {k[1]})
    BY DEF ReleaseExternalLease
  <1>2. HasTables(t) /\ t.leases[j] = s.leases[j] /\ t.slots[j] = s.slots[j]
    BY StoreTables DEF WellFormed, HasTables
  <1> HIDE DEF t
  <1>3. HasTables(g) /\ g.leases[j] = s.leases[j] /\ g.slots[j] = s.slots[j]
    BY <1>2, TablesKept
  <1> HIDE DEF g
  <1>4. s.leases[j] # 0
    BY DEF WellFormed, Backed, Holds, Absent
  <1> QED
    BY <1>1, <1>3, <1>4, RefreshKeeps

\* A refresh leaves every live slot.
LEMMA RefreshSlots ==
  ASSUME NEW s, WellFormed(s), NEW V, NEW j \in LeaseKeys, s.slots[j] > 0
  PROVE  RefreshActivity(s, V).slots[j] = s.slots[j]
  <1>1. s.leases[j] # 0 /\ HasTables(s)
    BY StoreTables DEF WellFormed, Backed, Holds, Absent
  <1> QED
    BY <1>1, RefreshKeeps

\* A second takes one from a live slot.
LEMMA ElapseSlots ==
  ASSUME NEW s \in Store, NEW j \in LeaseKeys, s.slots[j] > 0
  PROVE  Elapse(s).slots[j] = s.slots[j] - 1
  <1> DEFINE leases == Older(s.leases)
             slots == Older(s.slots)
  <1>1. slots[j] = s.slots[j] - 1
    BY DEF Older
  <1>2. Elapse(s) = [s EXCEPT !.leases = leases, !.slots = slots]
    BY DEF Elapse
  <1> HIDE DEF leases, slots
  <1> QED
    BY <1>1, <1>2, StoreTables DEF HasTables

-----------------------------------------------------------------------------
(* The threads and the wire.                                               *)

WireOK == wire \subseteq {"acquire", "renew", "release"}

ThreadsOK ==
    /\ main \in {"start", "ask", "open", "read", "checked", "post", "close",
                 "release", "last", "drain", "done"}
    /\ why \in {"eof", "interrupted", "error"}
    /\ join \in 0 .. JoinSeconds
    /\ chunk \in {"first", "continue"}
    /\ ear \in {"off", "listen", "append", "done"} /\ heard \in Results \cup {Nothing}
    /\ beat \in {"off", "wait", "renew", "done"}
    /\ due \in Nat
    /\ missed \in BOOLEAN /\ quiet \in 0 .. Cooldown /\ resume \in BOOLEAN

WatchOK ==
    watch \in [buffer : BoundedSeq(Characters, BufferSize), cooldown : 0 .. Cooldown,
               logged : BOOLEAN, next : {"first", "continue"}]

\* An answered renewal leaves the threads with their types.
LEMMA RenewedThreads ==
  ASSUME ThreadsOK, NEW lapsed \in BOOLEAN, Renewed(lapsed)
  PROVE  ThreadsOK'
  <1>1. missed' \in BOOLEAN
    BY DEF ThreadsOK, Renewed
  <1>2. beat' \in {"off", "wait", "renew", "done"} /\ due' \in Nat
    BY HalfTtl DEF ThreadsOK, Renewed
  <1> QED
    BY <1>1, <1>2 DEF ThreadsOK, Renewed

\* The threads keep their types.
LEMMA ThreadsStep ==
  ASSUME ThreadsOK, WatchOK, [Next]_vars
  PROVE  ThreadsOK'
  <1>1. CASE EnsureReady
    BY <1>1 DEF ThreadsOK, EnsureReady, Exit, history
  <1>2. CASE HubAcquires
    BY HalfTtl, <1>2 DEF ThreadsOK, HubAcquires, history
  <1>3. CASE StartFails
    BY <1>3 DEF ThreadsOK, StartFails, Exit, history
  <1>4. CASE OpenStream
    BY <1>4 DEF ThreadsOK, OpenStream, Exit, history
  <1>5. CASE ReadChunk
    BY <1>5 DEF ThreadsOK, ReadChunk, history, WatchOK
  <1>6. CASE ConsumeStreamState
    BY <1>6 DEF ThreadsOK, ConsumeStreamState, history, WatchOK
  <1>7. CASE PostChunk
    BY TimesAssumption, <1>7 DEF ThreadsOK, PostChunk, Leave, history
  <1>8. CASE LoopEnds
    BY TimesAssumption, <1>8 DEF ThreadsOK, LoopEnds, Leave, history
  <1>9. CASE CloseLease
    BY <1>9 DEF ThreadsOK, CloseLease, history
  <1>10. CASE HubReleases
    BY <1>10 DEF ThreadsOK, HubReleases, AfterClose, Exit, history
  <1>11. CASE ReleaseLost
    BY <1>11 DEF ThreadsOK, ReleaseLost, AfterClose, Exit, history
  <1>12. CASE PostLast
    BY <1>12 DEF ThreadsOK, PostLast, Exit, history
  <1>13. CASE Finish
    BY <1>13 DEF ThreadsOK, Finish, Exit, history
  <1>14. CASE Killed
    BY <1>14 DEF ThreadsOK, Killed, Exit, history
  <1>15. CASE \E r \in Results : Hear(r)
    BY <1>15 DEF ThreadsOK, Hear, history
  <1>16. CASE AppendResult
    BY <1>16 DEF ThreadsOK, AppendResult, history
  <1>17. CASE Remind
    BY TimesAssumption, <1>17 DEF ThreadsOK, Remind, history
  <1>18. CASE ListenerEnds
    BY <1>18 DEF ThreadsOK, ListenerEnds, history
  <1>19. CASE Renew
    BY LatencyAssumption, <1>19 DEF ThreadsOK, Renew, history
  <1>20. CASE HeartbeatStops
    BY <1>20 DEF ThreadsOK, HeartbeatStops, history
  <1>21. CASE HubRenews
    BY <1>21, RenewedThreads DEF HubRenews
  <1>22. CASE HubRefuses
    BY <1>22, RenewedThreads DEF HubRefuses
  <1>23. CASE RenewFails
    BY HalfTtl, <1>23 DEF ThreadsOK, RenewFails
  <1>24. CASE OthersUseHub
    BY <1>24 DEF ThreadsOK, OthersUseHub, threads, history
  <1>25. CASE Tick
    BY TimesAssumption, <1>25 DEF ThreadsOK, Tick, Larger, Smaller
  <1>26. CASE UNCHANGED vars
    BY <1>26 DEF ThreadsOK, vars
  <1> QED
    BY <1>1, <1>2, <1>3, <1>4, <1>5, <1>6, <1>7, <1>8, <1>9, <1>10, <1>11, <1>12, <1>13,
       <1>14, <1>15, <1>16, <1>17, <1>18, <1>19, <1>20, <1>21, <1>22, <1>23, <1>24, <1>25, <1>26 DEF Next

\* Nothing else is on the wire.
LEMMA WireStep ==
  ASSUME WireOK, [Next]_vars
  PROVE  WireOK'
  <1>1. CASE wire' \subseteq wire
    BY <1>1 DEF WireOK
  <1>2. CASE \E m \in {"acquire", "renew", "release"} : wire' = wire \cup {m}
    BY <1>2 DEF WireOK
  <1> QED
    BY <1>1, <1>2
    DEF Next, vars, EnsureReady, HubAcquires, StartFails, OpenStream, ReadChunk,
        ConsumeStreamState, PostChunk, LoopEnds, CloseLease, HubReleases, ReleaseLost, PostLast,
        Finish, Killed, Hear, AppendResult, Remind, ListenerEnds, Renew, HeartbeatStops,
        HubRenews, HubRefuses, Renewed, RenewFails, OthersUseHub, Tick

\* The hub's store stays well formed.
LEMMA HubStep ==
  ASSUME WellFormed(hub), [Next]_vars
  PROVE  WellFormed(hub')
  <1>1. CASE HubAcquires \/ HubRenews
    BY <1>1, HalfTtl, LeaseKeysAssumption, TouchExternalLeaseWellFormed DEF HubAcquires, HubRenews
  <1>2. CASE HubReleases
    BY <1>2, LeaseKeysAssumption, ReleaseExternalLeaseWellFormed DEF HubReleases
  <1>3. CASE HubRefuses
    BY <1>3, PruneReservedSlotsWellFormed DEF HubRefuses
  <1>4. CASE OthersUseHub
    <2>1. CASE \E k \in LeaseKeys, ttl \in OthersTtl : hub' = TouchExternalLease(hub, k, ttl, TRUE)
      BY <2>1, LeaseKeysAssumption, TouchExternalLeaseWellFormed
    <2>2. CASE \E k \in LeaseKeys : hub' = ReleaseExternalLease(hub, k)
      BY <2>2, ReleaseExternalLeaseWellFormed
    <2>3. CASE hub' = RefreshActivity(hub, Services)
      BY <2>3, RefreshActivityWellFormed
    <2>4. CASE hub' = PruneReservedSlots(hub)
      BY <2>4, PruneReservedSlotsWellFormed
    <2> QED
      BY <1>4, <2>1, <2>2, <2>3, <2>4 DEF OthersUseHub
  <1>5. CASE Tick
    BY <1>5, ElapseWellFormed DEF Tick
  <1>6. CASE hub' = hub
    BY <1>6
  <1> QED
    BY <1>1, <1>2, <1>3, <1>4, <1>5, <1>6
    DEF Next, vars, EnsureReady, StartFails, OpenStream, ReadChunk, ConsumeStreamState,
        PostChunk, LoopEnds, CloseLease, ReleaseLost, PostLast, Finish, Killed, Hear,
        AppendResult, Remind, ListenerEnds, Renew, HeartbeatStops, RenewFails

-----------------------------------------------------------------------------
(* The keyword watcher.                                                    *)

\* The tail is the end of the buffer, wherever a keyword fits it.
TailOK ==
    /\ tail \in BoundedSeq(Characters, Len(Keyword) - 1)
    /\ Len(Keyword) - 1 <= BufferSize => tail = Ending(watch.buffer, Len(Keyword) - 1)

\* A result waits to be appended only outside a cooldown: nobody but the listener
\* starts one.  What remains of a cooldown and what has passed since the reminder
\* make up the whole.
HearingOK ==
    /\ ear = "append" => watch.cooldown = 0
    /\ quiet + watch.cooldown >= Cooldown
    /\ TailOK
    /\ NewStreamAfterCooldown

\* One text is the end of another.
IsEnd(x, y) ==
    /\ Len(x) <= Len(y)
    /\ \A i \in 1 .. Len(x) : x[i] = y[Len(y) - Len(x) + i]

Text == Seq(Characters)

\* An ending is the end, as long as asked for where the text is.
LEMMA EndingIs ==
  ASSUME NEW text \in Text, NEW n \in Nat
  PROVE  /\ Ending(text, n) \in Text /\ IsEnd(Ending(text, n), text)
         /\ Len(Ending(text, n)) = IF Len(text) < n THEN Len(text) ELSE n
         /\ Ending(text, n) \in BoundedSeq(Characters, n)
  <1> DEFINE l == Len(text)
             m == Larger(1, l - n + 1)
             e == SubSeq(text, m, l)
  <1>1. l \in Nat /\ m \in Int /\ m >= 1 /\ m = (IF l < n THEN 1 ELSE l - n + 1)
    BY DEF Text, Larger
  <1>2. Ending(text, n) = e
    BY DEF Ending
  <1> HIDE DEF m
  <1>3. \A i \in m .. l : text[i] \in Characters
    BY <1>1 DEF Text
  <1>4. /\ e \in Text /\ Len(e) = IF m <= l THEN l - m + 1 ELSE 0
        /\ \A i \in 1 .. l - m + 1 : e[i] = text[m + i - 1]
    BY <1>1, <1>3, SubSeqProperties DEF Text
  <1>5. Len(e) = IF l < n THEN l ELSE n
    <2>1. Len(e) = IF m <= l THEN l - m + 1 ELSE 0
      BY <1>4
    <2> HIDE DEF e, l
    <2> QED
      BY <1>1, <2>1
  <1>6. IsEnd(e, text)
    <2>1. \A i \in 1 .. Len(e) : e[i] = text[l - Len(e) + i]
      <3> TAKE i \in 1 .. Len(e)
      <3>1. i \in 1 .. l - m + 1 /\ m + i - 1 = l - Len(e) + i
        <4> HIDE DEF e, l
        <4> QED
          BY <1>1, <1>5
      <3> QED
        BY <1>4, <3>1
    <2>2. Len(e) <= l
      <3> HIDE DEF e, l
      <3> QED
        BY <1>1, <1>5
    <2> HIDE DEF e
    <2> QED
      BY <2>1, <2>2 DEF IsEnd
  <1>7. e \in [1 .. Len(e) -> Characters] /\ Len(e) \in 0 .. n
    <2>1. e \in [1 .. Len(e) -> Characters]
      <3> HIDE DEF e
      <3> QED
        BY <1>4, LenProperties DEF Text
    <2>2. Len(e) \in 0 .. n
      <3> HIDE DEF e, l
      <3> QED
        BY <1>1, <1>5
    <2> QED
      BY <2>1, <2>2
  <1> HIDE DEF e
  <1>8. e \in BoundedSeq(Characters, n)
    BY <1>7 DEF BoundedSeq, SeqOf
  <1> QED
    BY <1>2, <1>4, <1>5, <1>6, <1>8

\* An end of an end is an end.
LEMMA EndOfEnd ==
  ASSUME NEW x \in Text, NEW y \in Text, NEW z \in Text, IsEnd(x, y), IsEnd(y, z)
  PROVE  IsEnd(x, z)
  <1>1. Len(x) \in Nat /\ Len(y) \in Nat /\ Len(z) \in Nat /\ Len(x) <= Len(y) /\ Len(y) <= Len(z)
    BY DEF Text, IsEnd
  <1>2. \A i \in 1 .. Len(x) : x[i] = z[Len(z) - Len(x) + i]
    <2> TAKE i \in 1 .. Len(x)
    <2> DEFINE j == Len(y) - Len(x) + i
    <2>1. j \in 1 .. Len(y) /\ Len(z) - Len(y) + j = Len(z) - Len(x) + i
      BY <1>1
    <2>2. x[i] = y[j]
      BY DEF IsEnd
    <2> HIDE DEF j
    <2>3. y[j] = z[Len(z) - Len(y) + j]
      BY <2>1 DEF IsEnd
    <2> QED
      BY <2>1, <2>2, <2>3
  <1> QED
    BY <1>1, <1>2 DEF IsEnd

\* Of two ends of a text, the shorter is the end of the longer.
LEMMA ShorterEnd ==
  ASSUME NEW x \in Text, NEW y \in Text, NEW z \in Text, IsEnd(x, z), IsEnd(y, z),
         Len(x) <= Len(y)
  PROVE  IsEnd(x, y) /\ (Len(x) = Len(y) => x = y)
  <1>1. Len(x) \in Nat /\ Len(y) \in Nat /\ Len(z) \in Nat /\ Len(y) <= Len(z)
    BY DEF Text, IsEnd
  <1>2. \A i \in 1 .. Len(x) : x[i] = y[Len(y) - Len(x) + i]
    <2> TAKE i \in 1 .. Len(x)
    <2> DEFINE j == Len(y) - Len(x) + i
    <2>1. j \in 1 .. Len(y) /\ Len(z) - Len(y) + j = Len(z) - Len(x) + i
      BY <1>1
    <2>2. x[i] = z[Len(z) - Len(x) + i]
      BY DEF IsEnd
    <2> HIDE DEF j
    <2>3. y[j] = z[Len(z) - Len(y) + j]
      BY <2>1 DEF IsEnd
    <2> QED
      BY <2>1, <2>2, <2>3
  <1>3. IsEnd(x, y)
    BY <1>2 DEF IsEnd
  <1>4. Len(x) = Len(y) => \A i \in 1 .. Len(x) : x[i] = y[i]
    BY <1>1, <1>2
  <1>5. Len(x) = Len(y) => x = y
    BY <1>4, SeqEqual DEF Text
  <1> QED
    BY <1>3, <1>5

\* What is said after a text and its end leaves them a text and its end.
LEMMA EndGrows ==
  ASSUME NEW x \in Text, NEW y \in Text, NEW r \in Text, IsEnd(x, y)
  PROVE  /\ x \o r \in Text /\ y \o r \in Text /\ IsEnd(x \o r, y \o r)
         /\ Len(x \o r) = Len(x) + Len(r)
  <1> DEFINE u == x \o r
             v == y \o r
  <1>1. Len(x) \in Nat /\ Len(y) \in Nat /\ Len(r) \in Nat /\ Len(x) <= Len(y)
    BY DEF Text, IsEnd
  <1>2. /\ u \in Text /\ Len(u) = Len(x) + Len(r)
        /\ \A i \in 1 .. Len(x) + Len(r) : u[i] = IF i <= Len(x) THEN x[i] ELSE r[i - Len(x)]
    BY ConcatProperties DEF Text
  <1>3. /\ v \in Text /\ Len(v) = Len(y) + Len(r)
        /\ \A i \in 1 .. Len(y) + Len(r) : v[i] = IF i <= Len(y) THEN y[i] ELSE r[i - Len(y)]
    BY ConcatProperties DEF Text
  <1> HIDE DEF u, v
  <1>4. \A i \in 1 .. Len(u) : u[i] = v[Len(v) - Len(u) + i]
    <2> TAKE i \in 1 .. Len(u)
    <2> DEFINE j == Len(y) - Len(x) + i
    <2>1. j = Len(v) - Len(u) + i /\ j \in 1 .. Len(y) + Len(r) /\ i \in 1 .. Len(x) + Len(r)
      BY <1>1, <1>2, <1>3
    <2>2. i <= Len(x) => x[i] = y[j]
      BY <1>1, <2>1 DEF IsEnd
    <2>3. (i <= Len(x) <=> j <= Len(y)) /\ i - Len(x) = j - Len(y)
      BY <1>1, <2>1
    <2> HIDE DEF j
    <2>4. v[j] = IF j <= Len(y) THEN y[j] ELSE r[j - Len(y)]
      BY <1>3, <2>1
    <2>5. u[i] = IF i <= Len(x) THEN x[i] ELSE r[i - Len(x)]
      BY <1>2, <2>1
    <2> QED
      BY <2>1, <2>2, <2>3, <2>4, <2>5
  <1>5. Len(u) <= Len(v)
    BY <1>1, <1>2, <1>3
  <1> QED
    BY <1>2, <1>3, <1>4, <1>5 DEF IsEnd, u, v

\* A keyword in the end of a text is in the text.
LEMMA KeywordInEnd ==
  ASSUME NEW x \in Text, NEW y \in Text, IsEnd(x, y), HasKeyword(x)
  PROVE  HasKeyword(y)
  <1> DEFINE k == Len(Keyword)
             d == Len(y) - Len(x)
  <1>1. Len(x) \in Nat /\ Len(y) \in Nat /\ k \in Nat /\ d \in Nat
    BY TextAssumption DEF Text, IsEnd
  <1>2. PICK i \in 0 .. Len(x) - k : SubSeq(x, i + 1, i + k) = Keyword
    BY DEF HasKeyword
  <1> DEFINE j == d + i
             s == SubSeq(x, i + 1, i + k)
             t == SubSeq(y, j + 1, j + k)
  <1>3. j \in 0 .. Len(y) - k
    BY <1>1, <1>2
  <1>4. \A n \in i + 1 .. i + k : x[n] \in Characters
    BY <1>1, <1>2 DEF Text
  <1>5. \A n \in j + 1 .. j + k : y[n] \in Characters
    BY <1>1, <1>2, <1>3 DEF Text
  <1>6. /\ s \in Text /\ Len(s) = k
        /\ \A n \in 1 .. k : s[n] = x[i + n]
    <2>1. i + 1 \in Int /\ i + k \in Int /\ (i + k) - (i + 1) + 1 = k
          /\ (i + 1 <= i + k <=> k > 0) /\ \A n \in 1 .. k : i + 1 + n - 1 = i + n
      BY <1>1, <1>2
    <2> QED
      BY <1>1, <1>4, <2>1, SubSeqProperties DEF Text
  <1>7. /\ t \in Text /\ Len(t) = k
        /\ \A n \in 1 .. k : t[n] = y[j + n]
    <2>1. j + 1 \in Int /\ j + k \in Int /\ (j + k) - (j + 1) + 1 = k
          /\ (j + 1 <= j + k <=> k > 0) /\ \A n \in 1 .. k : j + 1 + n - 1 = j + n
      BY <1>1, <1>3
    <2> HIDE DEF j
    <2> QED
      BY <1>1, <1>5, <2>1, SubSeqProperties DEF Text
  <1>8. \A n \in 1 .. k : x[i + n] = y[j + n]
    <2> TAKE n \in 1 .. k
    <2>1. i + n \in 1 .. Len(x) /\ Len(y) - Len(x) + (i + n) = j + n
      BY <1>1, <1>2
    <2> QED
      BY <2>1 DEF IsEnd
  <1> HIDE DEF j, s, t
  <1>9. s = t
    <2>1. Len(s) = Len(t) /\ s \in Seq(Characters) /\ t \in Seq(Characters)
      BY <1>6, <1>7 DEF Text
    <2>2. \A n \in 1 .. Len(s) : s[n] = t[n]
      BY <1>6, <1>7, <1>8
    <2> QED
      BY <2>1, <2>2, SeqEqual
  <1> QED
    BY <1>2, <1>3, <1>9 DEF HasKeyword, s, t

\* The texts the listener works with.
LEMMA Texts ==
  ASSUME WatchOK, ThreadsOK, TailOK
  PROVE  /\ watch.buffer \in Text /\ tail \in Text
         /\ heard.result \in Text /\ heard.fresh \in Text
         /\ Len(Keyword) - 1 \in Nat /\ BufferSize \in Nat
  <1>1. \A n \in Nat : \A t \in BoundedSeq(Characters, n) : t \in Text
    <2> TAKE n \in Nat
    <2> TAKE t \in BoundedSeq(Characters, n)
    <2>1. PICK m \in 0 .. n : t \in [1 .. m -> Characters]
      BY DEF BoundedSeq, SeqOf
    <2> QED
      BY <2>1 DEF Text
  <1>2. Len(Keyword) - 1 \in Nat /\ BufferSize \in Nat
    <2>1. Len(Keyword) \in Nat /\ Len(Keyword) # 0
      BY TextAssumption
    <2> QED
      BY <2>1, TextAssumption
  <1>3. watch.buffer \in BoundedSeq(Characters, BufferSize)
    BY DEF WatchOK
  <1>4. heard \in [result : Seq(Characters), fresh : Seq(Characters)]
    <2>1. CASE heard \in Results
      BY <2>1, TextAssumption
    <2>2. CASE heard = Nothing
      BY <2>2 DEF Nothing
    <2> QED
      BY <2>1, <2>2 DEF ThreadsOK
  <1> QED
    BY <1>1, <1>2, <1>3, <1>4 DEF TailOK, Text

\* What a result makes of the buffer is within its size.
LEMMA BufferedBounded ==
  ASSUME WatchOK, ThreadsOK, TailOK
  PROVE  /\ watch.buffer \o heard.result \in Text
         /\ Buffered \in BoundedSeq(Characters, BufferSize) /\ Buffered \in Text
         /\ IsEnd(Buffered, watch.buffer \o heard.result)
         /\ Len(Buffered) = IF Len(watch.buffer \o heard.result) < BufferSize
                            THEN Len(watch.buffer \o heard.result) ELSE BufferSize
  <1>1. watch.buffer \o heard.result \in Text
    BY Texts, ConcatProperties DEF Text
  <1> QED
    BY <1>1, Texts, EndingIs DEF Buffered, Newest

\* Beside the tail, a result that fits is the end of what the buffer becomes.
LEMMA TailOfBuffered ==
  ASSUME WatchOK, ThreadsOK, TailOK, Len(Keyword) - 1 <= BufferSize
  PROVE  /\ tail \o heard.result \in Text /\ Len(tail \o heard.result) = Len(tail) + Len(heard.result)
         /\ Len(tail) <= Len(Keyword) - 1
         /\ IsEnd(tail \o heard.result, watch.buffer \o heard.result)
         /\ Len(tail \o heard.result) <= BufferSize => IsEnd(tail \o heard.result, Buffered)
  <1>1. IsEnd(tail, watch.buffer) /\ Len(tail) <= Len(Keyword) - 1
    <2> DEFINE n == Len(Keyword) - 1
               e == Ending(watch.buffer, n)
    <2>1. n \in Nat /\ watch.buffer \in Text /\ Len(watch.buffer) \in Nat
      BY Texts DEF Text
    <2>2. IsEnd(e, watch.buffer) /\ Len(e) = IF Len(watch.buffer) < n THEN Len(watch.buffer) ELSE n
      BY <2>1, EndingIs
    <2>3. tail = e
      BY DEF TailOK
    <2> HIDE DEF e, n
    <2>4. IsEnd(tail, watch.buffer) /\ Len(tail) <= n
      BY <2>1, <2>2, <2>3
    <2> QED
      BY <2>4 DEF n
  <1>2. /\ tail \o heard.result \in Text /\ Len(tail \o heard.result) = Len(tail) + Len(heard.result)
        /\ IsEnd(tail \o heard.result, watch.buffer \o heard.result)
    BY <1>1, Texts, EndGrows
  <1>3. Len(tail \o heard.result) <= BufferSize => Len(tail \o heard.result) <= Len(Buffered)
    BY <1>2, BufferedBounded DEF IsEnd, Text
  <1>4. ASSUME Len(tail \o heard.result) <= BufferSize
        PROVE  IsEnd(tail \o heard.result, Buffered)
    BY <1>2, <1>3, <1>4, BufferedBounded, ShorterEnd
  <1> QED
    BY <1>1, <1>2, <1>4

\* The tail stays the end of the buffer when a result is appended to both.
LEMMA TailGrows ==
  ASSUME WatchOK, ThreadsOK, TailOK, Len(Keyword) - 1 <= BufferSize
  PROVE  Ending(tail \o heard.result, Len(Keyword) - 1) = Ending(Buffered, Len(Keyword) - 1)
  <1> DEFINE n == Len(Keyword) - 1
             t == tail \o heard.result
             z == watch.buffer \o heard.result
             x == Ending(t, n)
             y == Ending(Buffered, n)
  <1>1. /\ t \in Text /\ z \in Text /\ Buffered \in Text /\ n \in Nat /\ BufferSize \in Nat
        /\ n <= BufferSize
    BY Texts, BufferedBounded, TailOfBuffered
  <1>2. /\ IsEnd(t, z) /\ IsEnd(Buffered, z)
        /\ Len(Buffered) = IF Len(z) < BufferSize THEN Len(z) ELSE BufferSize
    BY BufferedBounded, TailOfBuffered
  <1>3. Len(z) < n \/ Len(t) < n => Len(t) = Len(z)
    <2>1. Len(tail) = IF Len(watch.buffer) < n THEN Len(watch.buffer) ELSE n
      BY <1>1, Texts, EndingIs DEF TailOK
    <2>2. Len(z) = Len(watch.buffer) + Len(heard.result)
      BY Texts, ConcatProperties DEF Text
    <2>3. Len(t) = Len(tail) + Len(heard.result)
      BY TailOfBuffered
    <2>4. Len(watch.buffer) \in Nat /\ Len(heard.result) \in Nat
      BY Texts DEF Text
    <2>5. \A b, r \in Nat : b + r < n \/ (IF b < n THEN b ELSE n) + r < n => b < n
      <3> HIDE DEF n
      <3> QED
        BY <1>1
    <2> QED
      BY <2>1, <2>2, <2>3, <2>4, <2>5
  <1>5. /\ x \in Text /\ IsEnd(x, t) /\ Len(x) = IF Len(t) < n THEN Len(t) ELSE n
        /\ y \in Text /\ IsEnd(y, Buffered) /\ Len(y) = IF Len(Buffered) < n THEN Len(Buffered) ELSE n
    BY <1>1, EndingIs
  <1> HIDE DEF n, t, z, x, y
  <1>6. IsEnd(x, z) /\ IsEnd(y, z)
    BY <1>1, <1>2, <1>5, EndOfEnd
  <1>7. Len(t) \in Nat /\ Len(z) \in Nat /\ Len(Buffered) \in Nat /\ Len(t) <= Len(z)
    BY <1>1, <1>2 DEF Text, IsEnd
  <1>8. Len(x) = Len(y)
    BY <1>1, <1>2, <1>3, <1>5, <1>7
  <1>9. Len(x) <= Len(y)
    BY <1>5, <1>8 DEF Text
  <1>10. x = y
    BY <1>1, <1>5, <1>6, <1>8, <1>9, ShorterEnd
  <1> QED
    BY <1>10 DEF x, y, n, t

\* What follows the result may complete the keyword as well.
LEMMA KeywordFound ==
  ASSUME WatchOK, ThreadsOK, TailOK, Fits(heard.result),
         HasKeyword(tail \o heard.result \o heard.fresh)
  PROVE  HasKeyword(Buffered \o heard.fresh)
  <1> DEFINE t == tail \o heard.result
  <1>1. Len(heard.result) \in Nat /\ Len(Keyword) - 1 \in Nat
    BY Texts DEF Text
  <1>2. Len(Keyword) - 1 <= BufferSize
    BY <1>1, Texts DEF Fits
  <1>3. t \in Text /\ Len(t) = Len(tail) + Len(heard.result) /\ Len(tail) <= Len(Keyword) - 1
        /\ (Len(t) <= BufferSize => IsEnd(t, Buffered))
    BY <1>2, TailOfBuffered
  <1>4. Len(tail) \in Nat
    BY Texts DEF Text
  <1> HIDE DEF t
  <1>5. IsEnd(t, Buffered)
    BY <1>1, <1>3, <1>4, Texts DEF Fits
  <1>6. /\ t \o heard.fresh \in Text /\ Buffered \o heard.fresh \in Text
        /\ IsEnd(t \o heard.fresh, Buffered \o heard.fresh)
    BY <1>3, <1>5, Texts, BufferedBounded, EndGrows
  <1>7. HasKeyword(t \o heard.fresh)
    BY DEF t
  <1> QED
    BY <1>6, <1>7, KeywordInEnd

\* The empty text is the end of the empty buffer.
LEMMA EmptyBuffer ==
  /\ << >> \in BoundedSeq(Characters, BufferSize)
  /\ << >> \in BoundedSeq(Characters, Len(Keyword) - 1)
  /\ << >> = Ending(<< >>, Len(Keyword) - 1)
  <1>1. Len(Keyword) - 1 \in Nat
    <2>1. Len(Keyword) \in Nat /\ Len(Keyword) # 0
      BY TextAssumption
    <2> QED
      BY <2>1
  <1>2. \A n \in Nat : << >> \in BoundedSeq(Characters, n)
    <2> TAKE n \in Nat
    <2>1. << >> \in [1 .. 0 -> Characters] /\ 0 \in 0 .. n
      OBVIOUS
    <2> QED
      BY <2>1 DEF BoundedSeq, SeqOf
  <1>3. << >> \in Text /\ Len(<< >>) = 0
    BY EmptySeq DEF Text
  <1>4. /\ Ending(<< >>, Len(Keyword) - 1) \in Text
        /\ Len(Ending(<< >>, Len(Keyword) - 1)) = 0
    BY <1>1, <1>3, EndingIs
  <1>5. Ending(<< >>, Len(Keyword) - 1) = << >>
    BY <1>4, EmptySeq DEF Text
  <1> QED
    BY <1>1, <1>2, <1>5, TextAssumption

\* Every step keeps the watch and what it has heard.
LEMMA WatchStep ==
  ASSUME ThreadsOK, WatchOK, HearingOK, [Next]_vars
  PROVE  WatchOK' /\ HearingOK'
  <1>1. CASE /\ watch' = watch /\ quiet' = quiet /\ UNCHANGED <<resume, tail>>
             /\ ear' = ear \/ ear' \in {"listen", "done"}
    BY <1>1 DEF WatchOK, HearingOK, TailOK, NewStreamAfterCooldown
  <1>2. CASE ReadChunk
    <2>1. WatchOK'
      BY <1>2, EmptyBuffer DEF ReadChunk, WatchOK
    <2>2. watch'.cooldown = watch.cooldown /\ ear' = ear /\ quiet' = quiet
      BY <1>2 DEF ReadChunk, WatchOK
    <2>3. \/ watch'.buffer = watch.buffer /\ tail' = tail
          \/ watch'.buffer = << >> /\ tail' = << >>
      BY <1>2 DEF ReadChunk, WatchOK
    <2>4. resume' => watch'.next = "first"
      BY <1>2 DEF ReadChunk, WatchOK
    <2>5. TailOK'
      BY <2>3, EmptyBuffer DEF HearingOK, TailOK
    <2> QED
      BY <2>1, <2>2, <2>4, <2>5 DEF HearingOK, NewStreamAfterCooldown
  <1>3. CASE ConsumeStreamState
    BY <1>3 DEF ConsumeStreamState, WatchOK, HearingOK, TailOK, NewStreamAfterCooldown
  <1>4. CASE \E r \in Results : Hear(r)
    <2>1. WatchOK'
      BY <1>4, EmptyBuffer DEF Hear, WatchOK
    <2>2. /\ watch'.cooldown = watch.cooldown /\ quiet' = quiet /\ UNCHANGED resume
          /\ watch'.next = watch.next
      BY <1>4 DEF Hear, WatchOK
    <2>3. \/ watch'.buffer = watch.buffer /\ tail' = tail
          \/ watch'.buffer = << >> /\ tail' = << >>
      BY <1>4 DEF Hear, WatchOK
    <2>4. ear' = "append" => ear = "append" \/ watch.cooldown = 0
      BY <1>4 DEF Hear, WatchOK, InCooldown
    <2>5. TailOK'
      BY <2>3, EmptyBuffer DEF HearingOK, TailOK
    <2> QED
      BY <2>1, <2>2, <2>4, <2>5 DEF HearingOK, NewStreamAfterCooldown
  <1>5. CASE AppendResult
    <2>0. TailOK
      BY DEF HearingOK
    <2>1. WatchOK'
      BY <1>5, <2>0, BufferedBounded DEF AppendResult, WatchOK
    <2>2. /\ watch'.cooldown = watch.cooldown /\ quiet' = quiet /\ UNCHANGED resume
          /\ watch'.next = watch.next /\ ear' = "listen"
      BY <1>5 DEF AppendResult, WatchOK
    <2>3. tail' = Ending(tail \o heard.result, Len(Keyword) - 1)
      BY <1>5 DEF AppendResult
    <2>4. TailOK'
      <3>1. tail' \in BoundedSeq(Characters, Len(Keyword) - 1)
        <4>1. tail \o heard.result \in Text
          BY <2>0, Texts, ConcatProperties DEF Text
        <4> QED
          BY <2>0, <2>3, <4>1, Texts, EndingIs
      <3>2. ASSUME Len(Keyword) - 1 <= BufferSize
            PROVE  tail' = Ending(watch'.buffer, Len(Keyword) - 1)
        <4>1. CASE heard.result = << >>
          <5>1. watch'.buffer = watch.buffer
            BY <1>5, <4>1 DEF AppendResult
          <5>2. tail \o heard.result = tail
            BY <2>0, <4>1, Texts, ConcatEmptySeq DEF Text
          <5>3. watch.buffer \o heard.result = watch.buffer
            BY <2>0, <4>1, Texts, ConcatEmptySeq DEF Text
          <5>4. Buffered = watch.buffer
            <6>1. IsEnd(Buffered, watch.buffer) /\ Buffered \in Text /\ watch.buffer \in Text
              BY <2>0, <5>3, BufferedBounded, Texts
            <6>2. Len(watch.buffer) \in 0 .. BufferSize
              <7>1. watch.buffer \in BoundedSeq(Characters, BufferSize)
                BY DEF WatchOK
              <7>2. PICK m \in 0 .. BufferSize : watch.buffer \in [1 .. m -> Characters]
                BY <7>1 DEF BoundedSeq, SeqOf
              <7>3. Len(watch.buffer) = m
                BY <2>0, <7>2, Texts DEF Text
              <7> QED
                BY <7>3
            <6>3. Len(Buffered) = Len(watch.buffer)
              BY <2>0, <5>3, <6>2, BufferedBounded, Texts
            <6>4. Len(Buffered) <= Len(watch.buffer) /\ IsEnd(watch.buffer, watch.buffer)
              BY <6>1, <6>3 DEF Text, IsEnd
            <6> QED
              BY <6>1, <6>3, <6>4, ShorterEnd
          <5> QED
            BY <2>0, <2>3, <3>2, <5>1, <5>4, TailGrows
        <4>2. CASE heard.result # << >>
          <5>1. watch'.buffer = Buffered
            BY <1>5, <4>2 DEF AppendResult, WatchOK
          <5> QED
            BY <2>0, <2>3, <3>2, <5>1, TailGrows
        <4> QED
          BY <4>1, <4>2
      <3> QED
        BY <3>1, <3>2 DEF TailOK
    <2> QED
      BY <2>1, <2>2, <2>4 DEF HearingOK, NewStreamAfterCooldown
  <1>6. CASE Remind
    <2>1. /\ watch' = [buffer |-> << >>, cooldown |-> Cooldown, logged |-> TRUE, next |-> "first"]
          /\ quiet' = 0 /\ ear' = "listen" /\ tail' = << >>
      BY <1>6 DEF Remind
    <2> QED
      BY <2>1, EmptyBuffer, TimesAssumption
      DEF WatchOK, HearingOK, TailOK, NewStreamAfterCooldown
  <1>7. CASE Tick
    <2>1. watch' = [watch EXCEPT !.cooldown = Larger(0, @ - 1)]
      BY <1>7 DEF Tick
    <2>2. /\ watch.cooldown \in 0 .. Cooldown /\ quiet \in 0 .. Cooldown
          /\ quiet' = Smaller(Cooldown, quiet + 1)
      BY <1>7 DEF Tick, WatchOK, ThreadsOK
    <2>3. /\ Larger(0, watch.cooldown - 1) \in 0 .. Cooldown
          /\ watch.cooldown = 0 => Larger(0, watch.cooldown - 1) = 0
          /\ quiet' + Larger(0, watch.cooldown - 1) >= Cooldown
      BY <2>2, TimesAssumption DEF Larger, Smaller, HearingOK
    <2>4. ear' = ear /\ UNCHANGED <<resume, tail>>
      BY <1>7 DEF Tick
    <2> QED
      BY <2>1, <2>3, <2>4 DEF WatchOK, HearingOK, TailOK, NewStreamAfterCooldown
  <1> QED
    BY <1>1, <1>2, <1>3, <1>4, <1>5, <1>6, <1>7
    DEF Next, vars, EnsureReady, HubAcquires, StartFails, OpenStream, PostChunk, LoopEnds, Leave,
        CloseLease, HubReleases, ReleaseLost, AfterClose, Exit, PostLast, Finish, Killed,
        ListenerEnds, Renew, HeartbeatStops, HubRenews, HubRefuses, Renewed, RenewFails,
        OthersUseHub, threads, history

-----------------------------------------------------------------------------
(* The slot.                                                               *)

Streaming == main \in {"open", "read", "checked", "post"}

\* While the thread waits, its slot outlives the wait by the time a renewal may
\* take, and more; while it renews, by the time the answer may still take.
SlotOK ==
    /\ Streaming => beat \in {"wait", "renew"}
    /\ "release" \in wire => main \in {"release", "last", "drain", "done"}
    /\ beat \in {"wait", "renew"} => due <= Interval
    /\ Streaming /\ ~missed /\ beat = "wait" => hub.slots[Mine] >= due + Interval
    /\ Streaming /\ ~missed /\ beat = "renew" => hub.slots[Mine] > due

\* The slot of a watcher that streams and has missed no renewal is live.
LEMMA SlotLive ==
  ASSUME ThreadsOK, SlotOK, hub \in Store, Streaming, ~missed
  PROVE  hub.slots[Mine] > 0 /\ hub.slots[Mine] \in Int
  <1>1. hub.slots[Mine] \in Int
    BY StoreTables, LeaseKeysAssumption, LeasesAssumption DEF Expiry, Absent
  <1> QED
    BY <1>1, HalfTtl DEF SlotOK, ThreadsOK

\* What others do to the hub leaves it.
LEMMA OthersKeepSlot ==
  ASSUME WellFormed(hub), hub.slots[Mine] > 0, OthersUseHub
  PROVE  hub'.slots[Mine] = hub.slots[Mine]
  <1>1. CASE \E k \in LeaseKeys \ {Mine}, ttl \in OthersTtl :
               hub' = TouchExternalLease(hub, k, ttl, TRUE)
    <2>1. PICK k \in LeaseKeys \ {Mine}, ttl \in OthersTtl :
                 hub' = TouchExternalLease(hub, k, ttl, TRUE)
      BY <1>1
    <2>2. ttl \in 1 .. MaxTtl /\ Mine \in LeaseKeys
      BY LeaseKeysAssumption
    <2>3. TouchExternalLease(hub, k, ttl, TRUE).slots[Mine] = hub.slots[Mine]
      BY <2>2, TouchSlots
    <2> QED
      BY <2>1, <2>3
  <1>2. CASE \E k \in LeaseKeys \ {Mine} : hub' = ReleaseExternalLease(hub, k)
    BY <1>2, LeaseKeysAssumption, ReleaseSlots
  <1>3. CASE hub' = RefreshActivity(hub, Services)
    BY <1>3, LeaseKeysAssumption, RefreshSlots
  <1>4. CASE hub' = PruneReservedSlots(hub)
    BY <1>4, LeaseKeysAssumption, PruneKeeps DEF WellFormed
  <1> QED
    BY <1>1, <1>2, <1>3, <1>4 DEF OthersUseHub

\* What the hub does with a request of the watcher while it streams.
LEMMA AnsweredSlot ==
  ASSUME WellFormed(hub), ThreadsOK, SlotOK, HubAcquires \/ HubRenews
  PROVE  SlotOK'
  <1>1. hub'.slots[Mine] = TtlSeconds
    BY HalfTtl, LeaseKeysAssumption, TouchSlots DEF HubAcquires, HubRenews
  <1>2. CASE HubAcquires
    <2>1. wire' \subseteq wire /\ UNCHANGED missed
      BY <1>2 DEF HubAcquires, history
    <2>2. CASE main = "ask"
      <3>1. main' = "open" /\ beat' = "wait" /\ due' = Interval
        BY <1>2, <2>2 DEF HubAcquires
      <3>2. "release" \notin wire
        BY <2>2 DEF SlotOK
      <3> QED
        BY <1>1, <2>1, <3>1, <3>2, HalfTtl DEF SlotOK, Streaming
    <2>3. CASE main # "ask"
      <3>1. main' = main /\ beat' = beat /\ due' = due
        BY <1>2, <2>3 DEF HubAcquires
      <3>2. beat \in {"wait", "renew"} => due \in Nat /\ due <= Interval
        BY DEF SlotOK, ThreadsOK
      <3> QED
        BY <1>1, <2>1, <3>1, <3>2, HalfTtl DEF SlotOK, Streaming
    <2> QED
      BY <2>2, <2>3
  <1>3. CASE HubRenews
    <2>1. UNCHANGED main /\ wire' \subseteq wire
      BY <1>3 DEF HubRenews, Renewed
    <2>2. CASE beat = "renew"
      <3>1. beat' = "wait" /\ due' = Interval
        BY <1>3, <2>2 DEF HubRenews, Renewed
      <3> QED
        BY <1>1, <2>1, <3>1, HalfTtl DEF SlotOK, Streaming
    <2>3. CASE beat # "renew"
      <3>1. beat' = beat /\ due' = due
        BY <1>3, <2>3 DEF HubRenews, Renewed
      <3>2. beat = "wait" => due \in Nat /\ due <= Interval
        BY DEF SlotOK, ThreadsOK
      <3> QED
        BY <1>1, <2>1, <2>3, <3>1, <3>2, HalfTtl DEF SlotOK, Streaming
    <2> QED
      BY <2>2, <2>3
  <1> QED
    BY <1>2, <1>3

\* Every step leaves a slot that outlives what the heartbeat waits for.
LEMMA SlotStep ==
  ASSUME WellFormed(hub), ThreadsOK, SlotOK, [Next]_vars
  PROVE  SlotOK'
  <1>1. hub \in Store
    BY DEF WellFormed
  <1>2. CASE HubAcquires \/ HubRenews
    BY <1>2, AnsweredSlot
  <1>3. CASE EnsureReady
    BY <1>3 DEF EnsureReady, Exit, SlotOK, Streaming
  <1>4. CASE \/ StartFails \/ OpenStream \/ PostLast \/ Finish \/ Killed
    BY <1>4 DEF StartFails, OpenStream, PostLast, Finish, Killed, Exit, SlotOK, Streaming, history
  <1>5. CASE ReadChunk \/ ConsumeStreamState \/ PostChunk \/ LoopEnds
    BY <1>5 DEF ReadChunk, ConsumeStreamState, PostChunk, LoopEnds, Leave, SlotOK, Streaming, history
  <1>6. CASE CloseLease \/ ReleaseLost
    BY <1>6 DEF CloseLease, ReleaseLost, AfterClose, Exit, SlotOK, Streaming, history
  <1>7. CASE HubReleases
    <2>1. ~Streaming /\ "release" \in wire
      BY <1>7 DEF HubReleases, SlotOK, Streaming
    <2> QED
      BY <1>7, <2>1 DEF HubReleases, AfterClose, Exit, SlotOK, Streaming, history
  <1>8. CASE (\E r \in Results : Hear(r)) \/ AppendResult \/ Remind \/ ListenerEnds
    BY <1>8 DEF Hear, AppendResult, Remind, ListenerEnds, SlotOK, Streaming, history
  <1>9. CASE Renew
    <2>1. ~(~missed /\ Streaming) \/ hub.slots[Mine] >= Interval
      BY <1>9, HalfTtl DEF Renew, SlotOK
    <2>2. beat' = "renew" /\ due' = Latency /\ hub' = hub /\ main' = main /\ UNCHANGED missed
      BY <1>9 DEF Renew, history
    <2>3. "release" \in wire' => "release" \in wire
      BY <1>9 DEF Renew
    <2>4. Latency < Interval /\ Latency \in Nat /\ Interval \in Nat
      BY LatencyAssumption, TtlAssumption, HalfTtl
    <2> QED
      BY <1>1, <2>1, <2>2, <2>3, <2>4, SlotLive DEF SlotOK, Streaming
  <1>10. CASE HeartbeatStops
    BY <1>10 DEF HeartbeatStops, Closing, SlotOK, Streaming, history
  <1>11. CASE HubRefuses
    <2>1. ~Streaming \/ missed
      BY <1>1, <1>11, SlotLive, LiveSlotNotRefused, LeaseKeysAssumption DEF HubRefuses
    <2> QED
      BY <1>11, <2>1, HalfTtl DEF HubRefuses, Renewed, SlotOK, Streaming
  <1>12. CASE RenewFails
    BY <1>12, HalfTtl DEF RenewFails, SlotOK, Streaming
  <1>13. CASE OthersUseHub
    <2>1. Streaming /\ ~missed => hub'.slots[Mine] = hub.slots[Mine]
      BY <1>1, <1>13, SlotLive, OthersKeepSlot
    <2> QED
      BY <1>13, <2>1 DEF OthersUseHub, threads, history, SlotOK, Streaming
  <1>14. CASE Tick
    <2>1. /\ due' = Larger(0, due - 1) /\ main' = main /\ beat' = beat /\ wire' = wire
          /\ UNCHANGED missed
      BY <1>14 DEF Tick
    <2>2. due \in Nat /\ due' \in Nat /\ due' <= due /\ (due > 0 => due' = due - 1)
      BY <2>1 DEF Larger, ThreadsOK
    <2>3. Streaming /\ ~missed =>
            /\ hub'.slots[Mine] = hub.slots[Mine] - 1
            /\ hub.slots[Mine] \in Int
      BY <1>1, <1>14, SlotLive, ElapseSlots, LeaseKeysAssumption DEF Tick
    <2>4. Streaming /\ ~missed => due > 0
      <3>1. Streaming /\ ~missed => ~TouchRefused(hub, Mine, TRUE)
        BY <1>1, SlotLive, LiveSlotNotRefused, LeaseKeysAssumption
      <3>2. /\ ~(beat = "wait" /\ due = 0)
            /\ ~(beat = "renew" /\ due = 0 /\ ~TouchRefused(hub, Mine, TRUE))
        BY <1>14 DEF Tick
      <3>3. Streaming => beat = "wait" \/ beat = "renew"
        BY DEF SlotOK
      <3>4. Streaming /\ ~missed => due # 0
        BY <3>1, <3>2, <3>3, Zenon
      <3> QED
        BY <2>2, <3>4
    <2> QED
      BY <2>1, <2>2, <2>3, <2>4, HalfTtl DEF SlotOK, Streaming
  <1>15. CASE UNCHANGED vars
    BY <1>15 DEF vars, SlotOK, Streaming
  <1> QED
    BY <1>2, <1>3, <1>4, <1>5, <1>6, <1>7, <1>8, <1>9, <1>10, <1>11, <1>12, <1>13, <1>14, <1>15
    DEF Next

-----------------------------------------------------------------------------
(* The theorems.                                                           *)

IInv ==
    WellFormed(hub) /\ WireOK /\ ThreadsOK /\ WatchOK /\ HearingOK /\ SlotOK

\* The invariant holds at the start,
LEMMA InitIInv == Init => IInv
  <1> SUFFICES ASSUME Init PROVE IInv
    OBVIOUS
  <1>1. WellFormed(hub)
    BY InitialStoreWellFormed DEF Init
  <1>2. WireOK
    BY DEF Init, WireOK
  <1>3. 0 \in 0 .. JoinSeconds /\ Cooldown \in 0 .. Cooldown
    BY TimesAssumption
  <1>4. ThreadsOK
    BY <1>3 DEF Init, ThreadsOK
  <1>5. WatchOK /\ HearingOK
    BY EmptyBuffer, TimesAssumption
    DEF Init, WatchOK, HearingOK, TailOK, NewStreamAfterCooldown
  <1>6. SlotOK
    BY DEF Init, SlotOK, Streaming
  <1> QED
    BY <1>1, <1>2, <1>4, <1>5, <1>6 DEF IInv

\* and every step keeps it.
LEMMA NextIInv == IInv /\ [Next]_vars => IInv'
  BY HubStep, WireStep, ThreadsStep, WatchStep, SlotStep DEF IInv

\* The inductive invariant holds throughout: store, threads, watch and slot fit
\* together for every ttl, latency, keyword and set of other clients.
THEOREM InvariantHolds == Spec => []IInv
  BY InitIInv, NextIInv, PTL DEF Spec

\* Every variable has its type at every moment; in particular the result buffer never
\* outgrows MAX_RESULT_BUFFER_SIZE.
THEOREM TypeCorrect == Spec => []TypeOK
  <1>1. IInv => TypeOK
    BY DEF IInv, TypeOK, WellFormed, WireOK, ThreadsOK, WatchOK, HearingOK, TailOK
  <1> QED
    BY <1>1, InvariantHolds, PTL

\* From its first chunk until it closes the lease, a watcher whose renewals have been
\* answered within the latency holds a live device slot, whatever other clients do.
THEOREM SlotWhileStreamingHolds == Spec => []SlotWhileStreaming
  <1>1. IInv => SlotWhileStreaming
    BY SlotLive DEF IInv, SlotWhileStreaming, Streaming, WellFormed
  <1> QED
    BY <1>1, InvariantHolds, PTL

\* A keyword that comes in pieces is heard, for every keyword, every buffer and all that
\* was heard before: a result that fits the buffer beside the start of a keyword and
\* completes one starts the reminder.
THEOREM KeywordHeardHolds == Spec => KeywordHeard
  <1>1. ASSUME IInv, AppendResult, heard.result # << >>, Fits(heard.result)
        PROVE  ~HasKeyword(tail \o heard.result \o heard.fresh)
    <2>1. ~HasKeyword(Buffered \o heard.fresh)
      BY <1>1 DEF IInv, HearingOK, AppendResult, Detected, InCooldown
    <2> QED
      BY <1>1, <2>1, KeywordFound DEF IInv, HearingOK
  <1>2. IInv /\ [Next]_vars =>
          [AppendResult /\ heard.result # << >> /\ Fits(heard.result)
           => ~HasKeyword(tail \o heard.result \o heard.fresh)]_vars
    BY <1>1
  <1> QED
    BY <1>2, InvariantHolds, PTL DEF Spec, KeywordHeard

\* The first chunk sent after a cooldown opens a new stream, however the listener and
\* the microphone interleave.
THEOREM NewStreamAfterCooldownHolds == Spec => []NewStreamAfterCooldown
  <1>1. IInv => NewStreamAfterCooldown
    BY DEF IInv, HearingOK
  <1> QED
    BY <1>1, InvariantHolds, PTL

\* Two reminders are at least a cooldown apart.
THEOREM RemindersSpacedHolds == Spec => RemindersSpaced
  <1>1. IInv /\ [Next]_vars => [Remind => quiet >= Cooldown]_vars
    BY TimesAssumption DEF IInv, HearingOK, WatchOK, ThreadsOK, Remind, Detected, InCooldown
  <1> QED
    BY <1>1, InvariantHolds, PTL DEF Spec, RemindersSpaced
=============================================================================
