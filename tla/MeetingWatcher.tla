--------------------------- MODULE MeetingWatcher ---------------------------
(***************************************************************************)
(* asr_meeting_watcher.py: a client of the hub that streams a microphone   *)
(* to the ASR service under a lease with a device slot, and runs a         *)
(* reminder script when it hears its keyword.                              *)
(*                                                                         *)
(* Three threads: the main thread reads the microphone and posts chunks,   *)
(* the listener reads the ASR server's results, the heartbeat renews the   *)
(* lease.  They share KeywordWatcherState, every method of which runs under*)
(* its lock and is one action or part of one.  The hub is the store of     *)
(* HubStore; another client of it wants the same device slot.              *)
(*                                                                         *)
(* Time is counted in whole seconds, and a time stamp is held as the time  *)
(* that remains until it stops mattering.  Direct mode (no hub, no lease), *)
(* the log and the debug recording are left out.                           *)
(***************************************************************************)
EXTENDS HubStore, SequencesExt

CONSTANTS
    Mine,         \* the lease of this watcher; all others are other clients'
    OthersTtl,    \* bound: the ttl those ask for
    TtlSeconds,   \* --lease-ttl-seconds
    Latency,      \* bound: the seconds after which the hub has answered a renewal
    JoinSeconds,  \* how long close() waits for the heartbeat thread
    Cooldown,     \* --cooldown-seconds
    Characters,   \* bound: the characters of the keyword and of what is heard
    Keyword,      \* a sequence of them
    Results,      \* bound: what one message of the ASR server can say
    BufferSize    \* MAX_RESULT_BUFFER_SIZE

ASSUME LeaseKeysAssumption == Mine \in LeaseKeys /\ OthersTtl \subseteq 1 .. MaxTtl
\* Half of an odd ttl is no whole number of seconds.
ASSUME TtlAssumption == TtlSeconds \in 1 .. MaxTtl /\ TtlSeconds % 2 = 0
\* The hub answers before the next renewal would be due.
ASSUME LatencyAssumption == Latency \in Nat /\ Latency < TtlSeconds \div 2
ASSUME TimesAssumption == JoinSeconds \in Nat /\ Cooldown \in Nat
ASSUME TextAssumption ==
    /\ Keyword \in Seq(Characters) /\ Keyword # << >> /\ BufferSize \in Nat \ {0}
    /\ Results \subseteq [result : Seq(Characters), fresh : Seq(Characters)]

VARIABLES
    hub,    \* the store of the hub
    wire,   \* requests of this watcher the hub has not handled
    main,   \* where the main thread is
    why,    \* why its loop ended: "eof", "interrupted" or "error"
    join,   \* seconds left of the join in close()
    chunk,  \* the stream state of the chunk at hand
    watch,  \* the KeywordWatcherState
    ear,    \* where the listener is
    heard,  \* the result it holds
    beat,   \* where the heartbeat is
    due,    \* seconds until it renews, or until its renewal has been answered
    missed, \* history: a renewal was lost or refused since the last one granted
    quiet,  \* history: seconds since the last reminder, counted up to Cooldown
    resume, \* history: the microphone has come out of a cooldown, no chunk sent since
    tail    \* history: the newest characters heard since the buffer was last emptied,
            \* one less than a keyword has

vars == <<hub, wire, main, why, join, chunk, watch, ear, heard, beat, due,
          missed, quiet, resume, tail>>
threads == <<main, why, join, chunk, ear, heard, beat, due>>
history == <<missed, quiet, resume, tail>>

Nothing == [result |-> << >>, fresh |-> << >>]

TypeOK ==
    /\ hub \in Store
    /\ wire \subseteq {"acquire", "renew", "release"}
    /\ main \in {"start", "ask", "open", "read", "checked", "post", "close",
                 "release", "last", "drain", "done"}
    /\ why \in {"eof", "interrupted", "error"}
    /\ join \in 0 .. JoinSeconds
    /\ chunk \in {"first", "continue"}
    /\ watch \in [buffer : BoundedSeq(Characters, BufferSize), cooldown : 0 .. Cooldown,
                  logged : BOOLEAN, next : {"first", "continue"}]
    /\ ear \in {"off", "listen", "append", "done"} /\ heard \in Results \cup {Nothing}
    /\ beat \in {"off", "wait", "renew", "done"}
    /\ due \in Nat
    /\ missed \in BOOLEAN /\ quiet \in 0 .. Cooldown /\ resume \in BOOLEAN
    /\ tail \in BoundedSeq(Characters, Len(Keyword) - 1)

Init ==
    /\ hub = InitialStore(Services) /\ wire = {}
    /\ main = "start" /\ why = "error" /\ join = 0 /\ chunk = "first"
    /\ watch = [buffer |-> << >>, cooldown |-> 0, logged |-> FALSE, next |-> "first"]
    /\ ear = "off" /\ heard = Nothing /\ beat = "off" /\ due = 0
    /\ missed = FALSE /\ quiet = Cooldown /\ resume = FALSE /\ tail = << >>

Smaller(a, b) == IF a < b THEN a ELSE b
Larger(a, b) == IF a < b THEN b ELSE a

\* Mutant of Interval: the heartbeat waits for the whole ttl.
WholeTtl == TtlSeconds

\* The wait of _heartbeat_loop.
Interval == Larger(1, Smaller(TtlSeconds \div 2, TtlSeconds - 1))

\* Mutant of Exit: the heartbeat outlives the process's main thread.
ExitWithoutHeartbeat == main' = "done" /\ ear' = "done" /\ UNCHANGED beat

\* The process ends, and its daemon threads with it.
Exit == main' = "done" /\ ear' = "done" /\ beat' = "done"

-----------------------------------------------------------------------------
(* The start: main() and ModelHubServiceLease.start                        *)

\* start_service, healthcheck_service, get_service and the watcher's own
\* health probe; then the first touch of the lease is on its way.
EnsureReady ==
    /\ main = "start"
    /\ \/ main' = "ask" /\ wire' = wire \cup {"acquire"} /\ UNCHANGED <<ear, beat>>
       \/ Exit /\ UNCHANGED wire
    /\ UNCHANGED <<hub, why, join, chunk, watch, heard, due, history>>

\* The hub answers the touch as soon as it can give the slot
\* (reserve_wait_timeout_seconds is 0: it waits for as long as that takes).
HubAcquires ==
    /\ "acquire" \in wire /\ ~TouchRefused(hub, Mine, TRUE)
    /\ hub' = TouchExternalLease(hub, Mine, TtlSeconds, TRUE)
    /\ wire' = wire \ {"acquire"}
    /\ IF main = "ask"
       THEN main' = "open" /\ beat' = "wait" /\ due' = Interval
       ELSE UNCHANGED <<main, beat, due>>
    /\ UNCHANGED <<why, join, chunk, watch, ear, heard, history>>

\* The touch fails, or split_base_url rejects the address afterwards.
StartFails ==
    /\ main \in {"ask", "open"}
    /\ Exit
    /\ UNCHANGED <<hub, wire, why, join, chunk, watch, heard, due, history>>

\* stream_mic starts the listener, then arecord and its files: a failure here
\* is outside its try statement, and the lease is not closed.
OpenStream ==
    /\ main = "open"
    /\ \/ main' = "read" /\ ear' = "listen" /\ UNCHANGED beat
       \/ Exit
    /\ UNCHANGED <<hub, wire, why, join, chunk, watch, heard, due, history>>

-----------------------------------------------------------------------------
(* The microphone loop of stream_mic                                       *)

InCooldown == watch.cooldown > 0

\* Mutants of ReadChunk: what a trigger has set is reset at the next chunk,
\* cooldown or not; the end of a cooldown does not start a new stream.
ReadChunkResumesEarly ==
    /\ main = "read"
    /\ IF watch.logged
       THEN /\ watch' = [buffer |-> << >>, cooldown |-> 0, logged |-> FALSE, next |-> "first"]
            /\ main' = "checked" /\ resume' = TRUE /\ tail' = << >>
       ELSE /\ main' = "checked" /\ UNCHANGED <<watch, resume, tail>>
    /\ UNCHANGED <<hub, wire, why, join, chunk, ear, heard, beat, due, missed, quiet>>
ReadChunkContinues ==
    /\ main = "read"
    /\ IF InCooldown THEN UNCHANGED <<main, watch, resume, tail>>
       ELSE /\ main' = "checked" /\ resume' = watch.logged
            /\ tail' = IF watch.logged THEN << >> ELSE tail
            /\ watch' = IF watch.logged
                        THEN [watch EXCEPT !.buffer = << >>, !.logged = FALSE]
                        ELSE watch
    /\ UNCHANGED <<hub, wire, why, join, chunk, ear, heard, beat, due, missed, quiet>>

\* A chunk is read; should_drop_audio_input.
ReadChunk ==
    /\ main = "read" /\ ~InCooldown
    /\ main' = "checked" /\ resume' = watch.logged
    /\ watch' = IF watch.logged
                THEN [watch EXCEPT !.buffer = << >>, !.logged = FALSE, !.next = "first"]
                ELSE watch
    /\ tail' = IF watch.logged THEN << >> ELSE tail
    /\ UNCHANGED <<hub, wire, why, join, chunk, ear, heard, beat, due, missed, quiet>>

\* consume_stream_state; the chunk is being posted.
ConsumeStreamState ==
    /\ main = "checked"
    /\ main' = "post" /\ chunk' = watch.next /\ watch' = [watch EXCEPT !.next = "continue"]
    /\ resume' = FALSE
    /\ UNCHANGED <<hub, wire, why, join, ear, heard, beat, due, missed, quiet, tail>>

\* The loop ends and lease.close() sets stop_event.
Leave(reason) ==
    /\ main' = "close" /\ why' = reason /\ join' = JoinSeconds

PostChunk ==
    /\ main = "post"
    /\ \/ main' = "read" /\ UNCHANGED <<why, join>>
       \/ Leave("error")
    /\ UNCHANGED <<hub, wire, chunk, watch, ear, heard, beat, due, history>>

\* The recorder ends, a chunk cannot be converted, or the user interrupts.
LoopEnds ==
    /\ \/ main = "read" /\ Leave("eof")
       \/ main = "checked" /\ Leave("error")
       \/ main \in {"read", "checked", "post"} /\ Leave("interrupted")
    /\ UNCHANGED <<hub, wire, chunk, watch, ear, heard, beat, due, history>>

\* thread.join ends, and the release is sent.
CloseLease ==
    /\ main = "close" /\ (beat = "done" \/ join = 0)
    /\ main' = "release" /\ wire' = wire \cup {"release"}
    /\ UNCHANGED <<hub, why, join, chunk, watch, ear, heard, beat, due, history>>

\* What follows the finally block.
AfterClose ==
    IF why = "eof" THEN main' = "last" /\ UNCHANGED <<ear, beat>> ELSE Exit

HubReleases ==
    /\ "release" \in wire
    /\ hub' = ReleaseExternalLease(hub, Mine)
    /\ wire' = wire \ {"release"}
    /\ IF main = "release" THEN AfterClose ELSE UNCHANGED <<main, ear, beat>>
    /\ UNCHANGED <<why, join, chunk, watch, heard, due, history>>

\* The release does not reach the hub: a warning.
ReleaseLost ==
    /\ main = "release" /\ "release" \in wire
    /\ wire' = wire \ {"release"}
    /\ AfterClose
    /\ UNCHANGED <<hub, why, join, chunk, watch, heard, due, history>>

\* The last chunk and the two seconds its results get, without the lease.
PostLast ==
    /\ main = "last"
    /\ \/ main' = "drain" /\ UNCHANGED <<ear, beat>>
       \/ Exit
    /\ UNCHANGED <<hub, wire, why, join, chunk, watch, heard, due, history>>

Finish ==
    /\ main = "drain" /\ Exit
    /\ UNCHANGED <<hub, wire, why, join, chunk, watch, heard, due, history>>

\* SIGTERM (stop.sh): no handler, nothing is closed; requests stay on the wire.
Killed ==
    /\ main # "done" /\ Exit
    /\ UNCHANGED <<hub, wire, why, join, chunk, watch, heard, due, history>>

-----------------------------------------------------------------------------
(* The listener: read_chunked_stream and handle_asr_result                 *)

HasKeyword(text) ==
    \E i \in 0 .. Len(text) - Len(Keyword) : SubSeq(text, i + 1, i + Len(Keyword)) = Keyword

Ending(text, n) == SubSeq(text, Larger(1, Len(text) - n + 1), Len(text))

\* Mutants of Newest: the buffer grows without end; it is cut one character short.
EverythingHeard(text) == text
NewestButOne(text) == Ending(text, BufferSize - 1)

Newest(text) == Ending(text, BufferSize)

\* A result arrives; should_drop_asr_result.
Hear(r) ==
    /\ ear = "listen"
    /\ IF InCooldown
       THEN /\ watch' = [watch EXCEPT !.buffer = << >>] /\ tail' = << >>
            /\ UNCHANGED <<ear, heard>>
       ELSE ear' = "append" /\ heard' = r /\ UNCHANGED <<watch, tail>>
    /\ UNCHANGED <<hub, wire, main, why, join, chunk, beat, due, missed, quiet, resume>>

Buffered == Newest(watch.buffer \o heard.result)

\* Mutant of Detected: only the new part of a result is searched.
DetectedInFresh == heard.result # << >> /\ HasKeyword(heard.fresh) /\ ~InCooldown

\* append_result_buffer finds the keyword, outside a cooldown.
Detected ==
    /\ heard.result # << >>
    /\ HasKeyword(Buffered) \/ HasKeyword(Buffered \o heard.fresh)
    /\ ~InCooldown

\* append_result_buffer without a reminder.
AppendResult ==
    /\ ear = "append" /\ ~Detected
    /\ ear' = "listen" /\ heard' = Nothing
    /\ watch' = IF heard.result = << >> THEN watch ELSE [watch EXCEPT !.buffer = Buffered]
    /\ tail' = Ending(tail \o heard.result, Len(Keyword) - 1)
    /\ UNCHANGED <<hub, wire, main, why, join, chunk, beat, due, missed, quiet, resume>>

\* append_result_buffer with one: the script is started under the lock.
Remind ==
    /\ ear = "append" /\ Detected
    /\ ear' = "listen" /\ heard' = Nothing
    /\ watch' = [buffer |-> << >>, cooldown |-> Cooldown, logged |-> TRUE, next |-> "first"]
    /\ quiet' = 0 /\ tail' = << >>
    /\ UNCHANGED <<hub, wire, main, why, join, chunk, beat, due, missed, resume>>

\* The stream ends or breaks.  It sets stop_event, which only the listener reads:
\* the microphone loop goes on.
ListenerEnds ==
    /\ ear = "listen" /\ ear' = "done"
    /\ UNCHANGED <<hub, wire, main, why, join, chunk, watch, heard, beat, due, history>>

-----------------------------------------------------------------------------
(* The heartbeat: _heartbeat_loop                                          *)

Closing == main \in {"close", "release", "last", "drain"}

Renew ==
    /\ beat = "wait" /\ due = 0 /\ ~Closing
    /\ beat' = "renew" /\ due' = Latency /\ wire' = wire \cup {"renew"}
    /\ UNCHANGED <<hub, main, why, join, chunk, watch, ear, heard, history>>

HeartbeatStops ==
    /\ beat = "wait" /\ Closing
    /\ beat' = "done"
    /\ UNCHANGED <<hub, wire, main, why, join, chunk, watch, ear, heard, due, history>>

\* The thread, if it still runs, waits again.
Renewed(lapsed) ==
    /\ wire' = wire \ {"renew"}
    /\ IF beat = "renew"
       THEN beat' = "wait" /\ due' = Interval /\ missed' = lapsed
       ELSE UNCHANGED <<beat, due, missed>>
    /\ UNCHANGED <<main, why, join, chunk, watch, ear, heard, quiet, resume, tail>>

HubRenews ==
    /\ "renew" \in wire /\ ~TouchRefused(hub, Mine, TRUE)
    /\ hub' = TouchExternalLease(hub, Mine, TtlSeconds, TRUE)
    /\ Renewed(FALSE)

\* The hub gives up waiting for a slot that somebody else has.
HubRefuses ==
    /\ "renew" \in wire /\ TouchRefused(hub, Mine, TRUE)
    /\ hub' = PruneReservedSlots(hub)
    /\ Renewed(TRUE)

\* The client times out or the request is lost: a warning.  The hub may still
\* have the request, and handle it later.
RenewFails ==
    /\ beat = "renew"
    /\ wire' \in {wire, wire \ {"renew"}}
    /\ beat' = "wait" /\ due' = Interval /\ missed' = TRUE
    /\ UNCHANGED <<hub, main, why, join, chunk, watch, ear, heard, quiet, resume, tail>>

-----------------------------------------------------------------------------
(* The rest of the world                                                   *)

\* Another client that wants the slot, or the hub's own housekeeping.
OthersUseHub ==
    /\ \/ \E k \in LeaseKeys \ {Mine} :
            \/ \E ttl \in OthersTtl : hub' = TouchExternalLease(hub, k, ttl, TRUE)
            \/ hub' = ReleaseExternalLease(hub, k)
       \/ hub' = RefreshActivity(hub, Services)
       \/ hub' = PruneReservedSlots(hub)
    /\ UNCHANGED <<wire, watch, threads, history>>

\* A second passes: threads that are due have run, and a renewal has been
\* answered within Latency.
Tick ==
    /\ ~(beat = "wait" /\ (due = 0 \/ Closing))
    /\ ~(beat = "renew" /\ due = 0 /\ ~TouchRefused(hub, Mine, TRUE))
    /\ ~(main = "close" /\ join = 0)
    /\ hub' = Elapse(hub)
    /\ due' = Larger(0, due - 1) /\ join' = Larger(0, join - 1)
    /\ watch' = [watch EXCEPT !.cooldown = Larger(0, @ - 1)]
    /\ quiet' = Smaller(Cooldown, quiet + 1)
    /\ UNCHANGED <<wire, main, why, chunk, ear, heard, beat, missed, resume, tail>>

Next ==
    \/ EnsureReady \/ HubAcquires \/ StartFails \/ OpenStream
    \/ ReadChunk \/ ConsumeStreamState \/ PostChunk \/ LoopEnds
    \/ CloseLease \/ HubReleases \/ ReleaseLost \/ PostLast \/ Finish \/ Killed
    \/ \E r \in Results : Hear(r)
    \/ AppendResult \/ Remind \/ ListenerEnds
    \/ Renew \/ HeartbeatStops \/ HubRenews \/ HubRefuses \/ RenewFails
    \/ OthersUseHub \/ Tick

\* Time passes.
Spec == Init /\ [][Next]_vars /\ WF_vars(Tick)

-----------------------------------------------------------------------------
(* Properties                                                              *)

\* As long as every renewal since the lease was taken has been answered in time,
\* the watcher holds a live device slot from its first chunk until it closes the
\* lease: interval, ttl, latency and the hub's pruning fit together.
SlotWhileStreaming ==
    main \in {"open", "read", "checked", "post"} /\ ~missed => hub.slots[Mine] > 0

\* The result fits the buffer beside the start of a keyword.
Fits(text) == Len(text) + Len(Keyword) - 1 <= BufferSize

\* A keyword that comes in pieces is heard: whatever results came before, and however
\* often the buffer was cut, a result that completes a keyword, by itself or with its
\* new part, starts the reminder.  Not promised: a keyword early in a result too long
\* for the buffer, which is cut before it is searched; a keyword across the moment a
\* cooldown empties the buffer.
KeywordHeard ==
    [][AppendResult /\ heard.result # << >> /\ Fits(heard.result)
       => ~HasKeyword(tail \o heard.result \o heard.fresh)]_vars

\* The first chunk sent after a cooldown opens a new stream on the ASR server,
\* whatever the listener does between the two locked sections of the microphone.
NewStreamAfterCooldown == resume => watch.next = "first"

\* Two reminders are at least a cooldown apart, although the microphone thread
\* takes the time stamp back that the listener thread sets.
RemindersSpaced == [][Remind => quiet >= Cooldown]_vars

\* However the watcher ends (killed, failed before its try statement, with a
\* renewal still on its way when it releases), its slot is free in the end.
SlotFreed == <>[](main = "done") => <>[](hub.slots[Mine] \in {Absent, 0})
=============================================================================
