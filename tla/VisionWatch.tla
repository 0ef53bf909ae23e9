----------------------------- MODULE VisionWatch -----------------------------
(***************************************************************************)
(* The camera monitor of rk-vl: watch.sh starts, stops and replaces a      *)
(* background run of detect_target.py --watch, which keeps its monitor     *)
(* state in a file and sends reminders.                                    *)
(*                                                                         *)
(* The processes are the invocations of watch.sh (Shells) and the monitors *)
(* they spawn.  They share the pid file, config.env and state.json, without*)
(* a lock.  A stop is SIGTERM, which ends a monitor wherever it is.        *)
(*                                                                         *)
(* A time stamp of the last reminder is held as the time since, counted up *)
(* to Limit; 0 in the code, "never", is Limit.  misses and hit_streak are  *)
(* counted up to the threshold they are compared with.                     *)
(***************************************************************************)
EXTENDS VisionReply, FiniteSets

CONSTANTS
    Queries,           \* what users ask to watch for
    Shells,            \* bound: invocations of watch.sh at one time
    Monitors,          \* bound: the monitor processes started in a behaviour
    Replies,           \* bound: what the vision model can answer
    HitConfirmations,  \* --hit-confirmations
    MissClearCount,    \* --miss-clear-count
    Cooldown,          \* --remind-cooldown-sec
    MaxSilence         \* --remind-max-silence-sec

ASSUME SetsAssumption ==
    IsFiniteSet(Monitors) /\ None \notin Monitors /\ None \notin Queries
ASSUME ThresholdsAssumption ==
    /\ HitConfirmations \in Nat \ {0} /\ MissClearCount \in Nat \ {0}
    /\ Cooldown \in Nat /\ MaxSilence \in Nat /\ Cooldown + MaxSilence > 0

ASSUME RepliesAssumption == \A reply \in Replies : IsReply(reply)

VARIABLES
    shell,    \* where each invocation of watch.sh is, with its local variables
    pidFile,  \* monitor.pid
    config,   \* the query in config.env
    disk,     \* state.json: None, Torn or a query with its target
    mon,      \* where each monitor is, with its target and the event it handles
    stray,    \* history: two invocations of watch.sh have run at the same time, or one
              \* has ended after it spawned a monitor and before it wrote its pid
    quiet     \* history: the time since the decision for the last reminder sent
              \* about the appearance of the target now going on

vars == <<shell, pidFile, config, disk, mon, stray, quiet>>

Smaller(a, b) == IF a < b THEN a ELSE b
Larger(a, b) == IF a < b THEN b ELSE a
Limit == Larger(Cooldown, MaxSilence)

Torn == [query |-> None, target |-> None]  \* truncated, or written in part

Target ==
    [present : BOOLEAN, silence : 0 .. Limit,
     misses : 0 .. MissClearCount, streak : 0 .. HitConfirmations]

\* A file that is missing is no file with a state.
ASSUME FileAssumption == None \notin [query : Queries, target : Target]

\* make_initial_monitor_state
InitialTarget == [present |-> FALSE, silence |-> Limit, misses |-> 0, streak |-> 0]

Idle == [pc |-> "idle", cmd |-> "status", query |-> None, pid |-> None]
Unborn == [pc |-> "unborn", query |-> None, target |-> InitialTarget, event |-> None, sure |-> TRUE]
Dead == [Unborn EXCEPT !.pc = "dead"]

TypeOK ==
    /\ shell \in [Shells ->
           [pc : {"idle", "stale", "kill", "remove", "config", "source", "spawn", "pid"},
            cmd : {"start", "stop", "status"},
            query : Queries \cup {None}, pid : Monitors \cup {None}]]
    /\ pidFile \in Monitors \cup {None} /\ config \in Queries \cup {None}
    /\ disk \in {None, Torn} \cup [query : Queries, target : Target]
    /\ \A m \in Monitors :
           /\ mon[m].pc \in {"unborn", "load", "poll", "save", "write", "send", "dead"}
           /\ mon[m].query \in Queries \cup {None} /\ mon[m].target \in Target
    /\ stray \in BOOLEAN /\ quiet \in 0 .. Limit

Init ==
    /\ shell = [s \in Shells |-> Idle] /\ pidFile = None /\ config = None
    /\ disk = None /\ mon = [m \in Monitors |-> Unborn]
    /\ stray = FALSE /\ quiet = Limit

Alive(m) == m # None /\ mon[m].pc \notin {"unborn", "dead"}

-----------------------------------------------------------------------------
(* watch.sh                                                                *)

Goto(s, r) == shell' = [shell EXCEPT ![s] = r]

\* The bound on the monitors is a bound on the starts.
MayStart ==
    Cardinality({s \in Shells : shell[s].cmd = "start" /\ shell[s].pc # "pid"})
        < Cardinality({m \in Monitors : mon[m].pc = "unborn"})

\* A command begins and reads the pid file; start reads it to stop what runs,
\* stop and status to see whether it is stale.
Begin(s, cmd, q) ==
    /\ shell[s].pc = "idle" /\ (cmd = "start" => MayStart)
    /\ Goto(s, [pc |-> IF cmd = "start" THEN "kill" ELSE "stale",
                cmd |-> cmd, query |-> q, pid |-> pidFile])
    /\ stray' = (stray \/ \E o \in Shells \ {s} : shell[o].pc # "idle")
    /\ UNCHANGED <<pidFile, config, disk, mon, quiet>>

\* cleanup_pid_if_stale removes the file of a dead monitor; the pid is read again.
CleanupStale(s) ==
    /\ shell[s].pc = "stale"
    /\ pidFile' = IF shell[s].pid # None /\ ~Alive(shell[s].pid) THEN None ELSE pidFile
    /\ IF shell[s].cmd = "stop" /\ pidFile' # None
       THEN Goto(s, [shell[s] EXCEPT !.pc = "kill", !.pid = pidFile'])
       ELSE Goto(s, Idle)
    /\ UNCHANGED <<config, disk, mon, stray, quiet>>

\* Mutant of KillExisting: a start leaves the old monitor alone.
KillExistingOnStop(s) ==
    /\ shell[s].pc = "kill"
    /\ mon' = IF Alive(shell[s].pid) /\ shell[s].cmd = "stop"
              THEN [mon EXCEPT ![shell[s].pid] = Dead] ELSE mon
    /\ Goto(s, [shell[s] EXCEPT !.pc = "remove", !.pid = None])
    /\ UNCHANGED <<pidFile, config, disk, stray, quiet>>

\* stop_existing_if_any: kill, wait, kill -9 ...
KillExisting(s) ==
    /\ shell[s].pc = "kill"
    /\ mon' = IF Alive(shell[s].pid) THEN [mon EXCEPT ![shell[s].pid] = Dead] ELSE mon
    /\ Goto(s, [shell[s] EXCEPT !.pc = "remove", !.pid = None])
    /\ UNCHANGED <<pidFile, config, disk, stray, quiet>>

\* ... and rm -f, whatever the file says by now.
RemovePidFile(s) ==
    /\ shell[s].pc = "remove"
    /\ pidFile' = None
    /\ Goto(s, IF shell[s].cmd = "start" THEN [shell[s] EXCEPT !.pc = "config"] ELSE Idle)
    /\ UNCHANGED <<config, disk, mon, stray, quiet>>

WriteConfig(s) ==
    /\ shell[s].pc = "config"
    /\ config' = shell[s].query
    /\ Goto(s, [shell[s] EXCEPT !.pc = "source"])
    /\ UNCHANGED <<pidFile, disk, mon, stray, quiet>>

\* load_watch_exec_array takes the query from the file.
SourceConfig(s) ==
    /\ shell[s].pc = "source"
    /\ Goto(s, [shell[s] EXCEPT !.pc = "spawn", !.query = config])
    /\ UNCHANGED <<pidFile, config, disk, mon, stray, quiet>>

Spawn(s) ==
    /\ shell[s].pc = "spawn"
    /\ \E m \in Monitors :
        /\ mon[m].pc = "unborn"
        /\ mon' = [mon EXCEPT ![m].pc = "load", ![m].query = shell[s].query]
        /\ Goto(s, [shell[s] EXCEPT !.pc = "pid", !.pid = m])
    /\ UNCHANGED <<pidFile, config, disk, stray, quiet>>

WritePid(s) ==
    /\ shell[s].pc = "pid"
    /\ pidFile' = shell[s].pid
    /\ Goto(s, Idle)
    /\ UNCHANGED <<config, disk, mon, stray, quiet>>

\* A command is killed, or a step of it fails (set -e).  What it has spawned stays.
ShellEnds(s) ==
    /\ shell[s].pc # "idle"
    /\ Goto(s, Idle)
    /\ stray' = (stray \/ shell[s].pc = "pid")
    /\ UNCHANGED <<pidFile, config, disk, mon, quiet>>

-----------------------------------------------------------------------------
(* update_monitor_state                                                    *)

\* The target is seen HitConfirmations times in a row, and no reminder is too
\* recent for a target that has stayed.
Due(t) ==
    /\ t.streak >= HitConfirmations
    /\ t.present => t.silence >= MaxSilence /\ t.silence >= Cooldown

\* Mutant of Hit: a target that stays is not reminded of again.
HitOnce(t) ==
    LET h == [t EXCEPT !.misses = 0, !.streak = Smaller(HitConfirmations, @ + 1)]
    IN  [target |-> [h EXCEPT !.present = TRUE, !.silence = IF Due(h) /\ ~h.present THEN 0 ELSE @],
         remind |-> Due(h) /\ ~h.present]

Hit(t) ==
    LET h == [t EXCEPT !.misses = 0, !.streak = Smaller(HitConfirmations, @ + 1)]
    IN  [target |-> [h EXCEPT !.present = TRUE, !.silence = IF Due(h) THEN 0 ELSE @],
         remind |-> Due(h)]

Miss(t) ==
    LET misses == Smaller(MissClearCount, t.misses + 1)
    IN  IF misses = MissClearCount
        THEN [InitialTarget EXCEPT !.misses = misses]
        ELSE [t EXCEPT !.misses = misses, !.streak = 0]

-----------------------------------------------------------------------------
(* run_watch_mode                                                          *)

\* Mutant of Load: a monitor begins afresh.
LoadNothing(m) ==
    /\ mon[m].pc = "load"
    /\ mon' = [mon EXCEPT ![m].pc = "poll", ![m].target = InitialTarget]
    /\ quiet' = IF disk # None /\ disk.query = mon[m].query THEN quiet
                ELSE Limit
    /\ UNCHANGED <<shell, pidFile, config, disk, stray>>

\* Mutant of Load: a torn file is taken for a state.
LoadTorn(m) ==
    /\ mon[m].pc = "load"
    /\ LET known == disk # None /\ disk.query \in {None, mon[m].query}
       IN  /\ mon' = [mon EXCEPT ![m].pc = "poll",
                                 ![m].target = IF known THEN disk.target ELSE @]
           /\ quiet' = IF known THEN quiet ELSE Limit
    /\ UNCHANGED <<shell, pidFile, config, disk, stray>>

\* load_monitor_state.  Nothing catches the error of a torn file (nor that of a
\* missing openclaw): the monitor ends.
Load(m) ==
    /\ mon[m].pc = "load"
    /\ \/ /\ disk # Torn
          /\ LET known == disk # None /\ disk.query = mon[m].query
             IN  /\ mon' = [mon EXCEPT ![m].pc = "poll",
                                       ![m].target = IF known THEN disk.target ELSE @]
                 /\ quiet' = IF known THEN quiet ELSE Limit
       \/ mon' = [mon EXCEPT ![m] = Dead] /\ UNCHANGED quiet
    /\ UNCHANGED <<shell, pidFile, config, disk, stray>>

\* A frame is captured and analysed, and the target updated.  The history
\* forgets the last reminder when the target is taken to have left.
Analyse(m) ==
    /\ mon[m].pc = "poll"
    /\ \E reply \in Replies :
        LET found == Detected(reply)
            hit   == Hit(mon[m].target)
        IN  IF found # << >>
            THEN /\ mon' = [mon EXCEPT ![m].pc = "save", ![m].target = hit.target,
                        ![m].event = IF hit.remind THEN Head(found) ELSE None,
                        ![m].sure = hit.remind => FirstObject(reply).kind = "matches"]
                 /\ UNCHANGED quiet
            ELSE /\ mon' = [mon EXCEPT ![m].pc = "save", ![m].target = Miss(@),
                        ![m].event = None, ![m].sure = TRUE]
                 /\ quiet' = IF Miss(mon[m].target).present THEN quiet
                             ELSE Limit
    /\ UNCHANGED <<shell, pidFile, config, disk, stray>>

\* Mutant of PollFails: an error of the save does not keep the reminder back.
PollFailsAndSends(m) ==
    /\ mon[m].pc \in {"poll", "save", "write", "send"}
    /\ mon' = [mon EXCEPT ![m].pc = IF @ \in {"save", "write"} /\ mon[m].event # None
                                   THEN "send" ELSE "poll",
                          ![m].event = IF mon[m].pc \in {"save", "write"} THEN @ ELSE None,
                          ![m].sure = TRUE]
    /\ UNCHANGED <<shell, pidFile, config, disk, stray, quiet>>

\* The camera, the hub, openclaw or the state file raises: the loop goes on, and
\* the event is forgotten, which memory and perhaps the file have as sent.
PollFails(m) ==
    /\ mon[m].pc \in {"poll", "save", "write", "send"}
    /\ mon' = [mon EXCEPT ![m].pc = "poll", ![m].event = None, ![m].sure = TRUE]
    /\ UNCHANGED <<shell, pidFile, config, disk, stray, quiet>>

\* save_monitor_state: write_text truncates the file ...
OpenState(m) ==
    /\ mon[m].pc = "save"
    /\ disk' = Torn
    /\ mon' = [mon EXCEPT ![m].pc = "write"]
    /\ UNCHANGED <<shell, pidFile, config, stray, quiet>>

AfterSave(m) == IF mon[m].event # None THEN "send" ELSE "poll"

\* ... and writes it.
WriteState(m) ==
    /\ mon[m].pc = "write"
    /\ disk' = [query |-> mon[m].query, target |-> mon[m].target]
    /\ mon' = [mon EXCEPT ![m].pc = AfterSave(m)]
    /\ UNCHANGED <<shell, pidFile, config, stray, quiet>>

\* pick_latest_target and send_remind succeed.
SendRemind(m) ==
    /\ mon[m].pc = "send"
    /\ mon' = [mon EXCEPT ![m].pc = "poll", ![m].event = None, ![m].sure = TRUE]
    /\ quiet' = mon[m].target.silence
    /\ UNCHANGED <<shell, pidFile, config, disk, stray>>

Later(t) == [t EXCEPT !.silence = Smaller(Limit, @ + 1)]

Tick ==
    /\ mon' = [m \in Monitors |-> [mon[m] EXCEPT !.target = Later(@)]]
    /\ disk' = IF disk \in {None, Torn} THEN disk ELSE [disk EXCEPT !.target = Later(@)]
    /\ quiet' = Smaller(Limit, quiet + 1)
    /\ UNCHANGED <<shell, pidFile, config, stray>>

Next ==
    \/ \E s \in Shells :
        \/ \E q \in Queries : Begin(s, "start", q)
        \/ Begin(s, "stop", None) \/ Begin(s, "status", None)
        \/ CleanupStale(s) \/ KillExisting(s) \/ RemovePidFile(s)
        \/ WriteConfig(s) \/ SourceConfig(s) \/ Spawn(s) \/ WritePid(s)
        \/ ShellEnds(s)
    \/ \E m \in Monitors :
        \/ Load(m) \/ Analyse(m) \/ PollFails(m)
        \/ OpenState(m) \/ WriteState(m) \/ SendRemind(m)
    \/ Tick

Spec == Init /\ [][Next]_vars

-----------------------------------------------------------------------------
(* Properties                                                              *)

\* As long as no two invocations of watch.sh have overlapped, and none has ended
\* between the spawn and its pid file, a monitor that runs is the one the pid file
\* names (or will, once its start has written it) and watches what was asked for
\* last: a new start replaces the old monitor, and none is left that stop cannot
\* find, wherever else a command ends.
OneMonitor ==
    ~stray => \A m \in Monitors : Alive(m) =>
        /\ pidFile = m \/ \E s \in Shells : shell[s].pc = "pid" /\ shell[s].pid = m
        /\ \A s \in Shells : shell[s].cmd = "start" => shell[s].pc \in {"kill", "pid"}
        /\ mon[m].query = config

\* A reminder is sent only when its decision is in the state file, so a monitor
\* killed or restarted around the sending does not send it twice.
DecisionSaved ==
    ~stray => \A m \in Monitors : mon[m].pc = "send" =>
        disk = [query |-> mon[m].query, target |-> mon[m].target]

\* A target seen often enough in a row is decided about: after its analysis the
\* last decision for a reminder is not as old as both remind_cooldown_sec and
\* remind_max_silence_sec.
InViewDecided ==
    [][\A m \in Monitors :
        mon[m].pc = "poll" /\ mon'[m].pc = "save"
                /\ mon'[m].target.streak = HitConfirmations
            => mon'[m].target.silence < Limit]_vars

\* A reminder shows a well-formed match, and one taken from a list of matches
\* has at least --min-score.
ReminderConfident ==
    \A m \in Monitors : mon[m].event # None =>
        MatchOK(mon[m].event) /\ (mon[m].sure => mon[m].event.score >= MinScore)

\* While a target stays in view, and across restarts of its monitor, the next
\* reminder is decided no earlier than remind_cooldown_sec and
\* remind_max_silence_sec after the decision for the last one sent.
RemindersSpaced ==
    [][\A m \in Monitors :
        ~stray /\ mon[m].pc = "poll" /\ mon'[m].event # None
            => quiet >= Limit]_vars
=============================================================================
