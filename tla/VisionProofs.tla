---------------------------- MODULE VisionProofs ----------------------------
(***************************************************************************)
(* The vision skills, the monitor and the image decoder.                   *)
(*                                                                         *)
(* As long as no two commands of watch.sh overlap, and none ends before    *)
(* the pid of its monitor is written, there is one monitor, the one asked  *)
(* for; its reminders are decided on disk, and spaced. A target that stays *)
(* in view is decided about, overlap or not, and a reminder shows a match  *)
(* that was good enough. All of it for any number of commands, monitors    *)
(* and queries, all thresholds and whatever the vision model answers.      *)
(*                                                                         *)
(* The converters put every sample in its place, for images, strides and   *)
(* files of any size.                                                      *)
(***************************************************************************)
EXTENDS VisionWatch, ImageDecoder, LoopProofs

-----------------------------------------------------------------------------
(* How an answer is read.                                                  *)

\* A match that is well formed, and confident enough.
Confident(item) == MatchOK(item) /\ item.score >= MinScore

\* The matches of a list are those of its items that are good.
LEMMA ListedAreGood ==
  ASSUME NEW object, object # None, object.kind = "matches", IsList(object.items),
         Matches(object) # << >>
  PROVE  Confident(Head(Matches(object)))
  <1> DEFINE items == object.items
             N == Len(items)
             I == {items[i] : i \in DOMAIN items}
             G == {item \in I : Confident(item)}
             next(s, n) == IF MatchOK(items[n]) /\ items[n].score >= MinScore
                           THEN Append(s, items[n]) ELSE s
             body(f) == [n \in 0 .. N |-> IF n = 0 THEN << >> ELSE next(f[n - 1], n)]
             matches == CHOOSE f : f = body(f)
             step == [p \in Seq(G) \X (1 .. N) |-> next(p[1], p[2])]
  <1>1. Matches(object) = matches[N]
    BY DEF Matches
  <1>2. items \in Seq(I)
    BY DEF IsList
  <1>3. N \in Nat /\ \A n \in 1 .. N : items[n] \in I
    BY <1>2
  <1> HIDE DEF items, N, I
  <1>4. \A s \in Seq(G), n \in 1 .. N : next(s, n) \in Seq(G)
    <2> TAKE s \in Seq(G), n \in 1 .. N
    <2>1. CASE Confident(items[n])
      <3>1. items[n] \in G
        BY <1>3, <2>1
      <3> HIDE DEF G
      <3> QED
        BY <2>1, <3>1 DEF Confident
    <2>2. CASE ~Confident(items[n])
      BY <2>2 DEF Confident
    <2> QED
      BY <2>1, <2>2
  <1>5. step \in [Seq(G) \X (1 .. N) -> Seq(G)]
    <2> HIDE DEF next
    <2> QED
      BY <1>4
  <1>6. << >> \in Seq(G)
    OBVIOUS
  <1>7. \A s \in Seq(G), n \in 1 .. N : step[<<s, n>>] = next(s, n)
    OBVIOUS
  <1> HIDE DEF G, step, next
  <1>8. PICK f \in [0 .. N -> Seq(G)] : Runs(f, N, << >>, step)
    BY <1>3, <1>5, <1>6, LoopExists DEF Loop
  <1>9. f = body(f)
    <2>1. \A n \in 1 .. N : f[n - 1] \in Seq(G)
      BY <1>3
    <2>2. \A n \in 1 .. N : f[n] = next(f[n - 1], n)
      BY <1>7, <1>8, <2>1 DEF Runs
    <2> QED
      BY <1>3, <1>8, <2>2 DEF Runs
  <1>10. matches = body(matches)
    <2> HIDE DEF body
    <2> QED
      BY <1>9
  <1> HIDE DEF matches
  <1>11. \A n \in 0 .. N : matches[n] \in Seq(G)
    <2>1. matches[0] \in Seq(G)
      BY <1>3, <1>6, <1>10
    <2>2. \A n \in 1 .. N : matches[n] = next(matches[n - 1], n)
      BY <1>3, <1>10
    <2>3. \A n \in 1 .. N : matches[n - 1] \in Seq(G) => matches[n] \in Seq(G)
      BY <1>4, <2>2
    <2> QED
      BY <1>3, <2>1, <2>3, LoopKeeps
  <1>12. Matches(object) \in Seq(G)
    BY <1>1, <1>3, <1>11
  <1>13. Head(Matches(object)) \in G
    BY <1>12
  <1> QED
    BY <1>13 DEF G

\* What is taken from an answer is one of the objects in it.
LEMMA FirstIsOne ==
  ASSUME NEW text, IsReply(text), FirstObject(text) # None
  PROVE  /\ FirstObject(text).kind \in {"matches", "single", "empty"}
         /\ FirstObject(text).kind = "matches" => IsList(FirstObject(text).items)
  <1> DEFINE c == Candidates(text)
             objects == {i \in DOMAIN c : c[i] # None}
             first == CHOOSE i \in objects : \A j \in objects : i <= j
  <1>1. objects # {} /\ FirstObject(text) = c[first]
    BY DEF FirstObject
  <1>2. objects \subseteq Nat
    <2> DEFINE f == text.fenced
               b == text.braced
               A == {text.whole}
               B == {f[i] : i \in DOMAIN f}
               C == {b[i] : i \in DOMAIN b}
    <2>1. <<text.whole>> \in Seq(A) /\ f \in Seq(B) /\ b \in Seq(C)
      BY DEF IsReply, IsList
    <2>2. c = <<text.whole>> \o f \o b
      BY DEF Candidates
    <2> HIDE DEF A, B, C, c, f, b
    <2>3. <<text.whole>> \in Seq(A \cup B \cup C) /\ f \in Seq(A \cup B \cup C)
          /\ b \in Seq(A \cup B \cup C)
      BY <2>1
    <2>4. c \in Seq(A \cup B \cup C)
      BY <2>2, <2>3
    <2>5. DOMAIN c \subseteq Nat
      BY <2>4
    <2> QED
      BY <2>5
  <1>3. first \in objects
    <2>1. \E i \in objects : \A j \in objects : i <= j
      BY <1>1, <1>2, Least
    <2> HIDE DEF objects
    <2> QED
      BY <2>1
  <1>4. first \in DOMAIN c /\ c[first] # None
    BY <1>3
  <1> QED
    BY <1>1, <1>4 DEF IsReply

\* What a reminder shows is good, or was not in a list.
LEMMA ReportedIsSound ==
  ASSUME NEW text, IsReply(text), Detected(text) # << >>
  PROVE  /\ MatchOK(Head(Detected(text)))
         /\ FirstObject(text).kind = "matches" => Confident(Head(Detected(text)))
  <1> DEFINE object == FirstObject(text)
  <1>1. Detected(text) = Matches(object) /\ Matches(object) # << >>
    BY DEF Detected
  <1>2. object # None
    BY <1>1 DEF Matches
  <1>3. /\ object.kind \in {"matches", "single", "empty"}
        /\ object.kind = "matches" => IsList(object.items)
    BY <1>2, FirstIsOne
  <1> HIDE DEF object
  <1>4. CASE object.kind = "matches"
    BY <1>1, <1>2, <1>3, <1>4, ListedAreGood DEF Confident, object
  <1>5. CASE object.kind = "single"
    <2>1. Matches(object) = IF MatchOK(object.item) THEN <<object.item>> ELSE << >>
      BY <1>2, <1>5 DEF Matches
    <2>2. MatchOK(object.item) /\ Matches(object) = <<object.item>>
      BY <1>1, <2>1
    <2> QED
      BY <1>1, <1>5, <2>2 DEF object
  <1>6. CASE object.kind = "empty"
    BY <1>1, <1>2, <1>6 DEF Matches
  <1> QED
    BY <1>3, <1>4, <1>5, <1>6

-----------------------------------------------------------------------------
(* The monitor: types.                                                     *)

Steps == {"unborn", "load", "poll", "save", "write", "send", "dead"}
Events == {None} \cup {Head(Detected(reply)) : reply \in Replies}

MonRecord ==
    [pc : Steps, query : Queries \cup {None}, target : Target, event : Events, sure : BOOLEAN]
ShellRecord ==
    [pc : {"idle", "stale", "kill", "remove", "config", "source", "spawn", "pid"},
     cmd : {"start", "stop", "status"},
     query : Queries \cup {None}, pid : Monitors \cup {None}]
DiskRecord == [query : Queries, target : Target]

\* A start has a query, and so has c, the file, from when it has written it.
ShellFits(r, c) ==
    /\ r.pc = "idle" => r.cmd = "status"
    /\ r.pc = "stale" => r.cmd # "start"
    /\ r.pc \in {"config", "source", "spawn", "pid"} => r.cmd = "start"
    /\ r.cmd = "start" => r.query \in Queries
    /\ r.pc \in {"source", "spawn", "pid"} => c \in Queries

\* An event is a match that is well formed, and confident enough if it was sure to be.
Sound(event, sure) == event # None => MatchOK(event) /\ (sure => event.score >= MinScore)

\* A monitor that runs has a query, and an event only while it handles one.
MonFits(r) ==
    /\ Sound(r.event, r.sure)
    /\ r.pc \notin {"unborn", "dead"} => r.query \in Queries
    /\ r.pc \notin {"save", "write", "send"} => r.event = None

TypeInv ==
    /\ shell \in [Shells -> ShellRecord] /\ mon \in [Monitors -> MonRecord]
    /\ \A s \in Shells : ShellFits(shell[s], config)
    /\ \A m \in Monitors : MonFits(mon[m])
    /\ pidFile \in Monitors \cup {None} /\ config \in Queries \cup {None}
    /\ disk \in {None, Torn} \cup DiskRecord
    /\ stray \in BOOLEAN /\ quiet \in 0 .. Limit

\* The larger of the two thresholds.
LEMMA LimitFacts ==
  /\ Limit \in Nat /\ Limit > 0
  /\ \A n \in Nat : n >= Limit <=> n >= MaxSilence /\ n >= Cooldown
  BY ThresholdsAssumption DEF Limit, Larger

\* A monitor begins with a target it has not seen.
LEMMA InitialTargetOK == InitialTarget \in Target
  BY LimitFacts, ThresholdsAssumption DEF InitialTarget, Target

\* What becomes of a target has its type: with the time,
LEMMA LaterIs ==
  ASSUME NEW t \in Target
  PROVE  /\ Later(t) \in Target /\ Later(t).present = t.present
         /\ Later(t).silence = IF t.silence = Limit THEN Limit ELSE t.silence + 1
  BY LimitFacts DEF Later, Target, Smaller

\* by a hit, which may be what a reminder was waiting for,
LEMMA HitIs ==
  ASSUME NEW t \in Target
  PROVE  /\ Hit(t).target \in Target /\ Hit(t).remind \in BOOLEAN /\ Hit(t).target.present
         /\ Hit(t).target.silence = IF Hit(t).remind THEN 0 ELSE t.silence
         /\ Hit(t).remind /\ t.present => t.silence >= Limit
         /\ Hit(t).target.streak = HitConfirmations /\ ~Hit(t).remind => t.silence < Limit
  <1> DEFINE n == Smaller(HitConfirmations, t.streak + 1)
             h == [t EXCEPT !.misses = 0, !.streak = n]
             silence == IF Due(h) THEN 0 ELSE h.silence
             g == [h EXCEPT !.present = TRUE, !.silence = silence]
  <1>1. Hit(t) = [target |-> g, remind |-> Due(h)]
    BY DEF Hit
  <1>2. n \in 0 .. HitConfirmations /\ 0 \in 0 .. MissClearCount
    BY ThresholdsAssumption DEF Target, Smaller
  <1> HIDE DEF n
  <1>3. h \in Target /\ h.present = t.present /\ h.silence = t.silence /\ h.streak = n
    BY <1>2 DEF Target
  <1>4. /\ t.silence \in Nat /\ t.silence <= Limit /\ t.present \in BOOLEAN /\ n \in Nat
    BY <1>2, LimitFacts, ThresholdsAssumption DEF Target
  <1> HIDE DEF h
  <1>5. Due(h) \in BOOLEAN
    BY DEF Due
  <1>6. silence \in 0 .. Limit /\ silence = IF Due(h) THEN 0 ELSE t.silence
    BY <1>3, <1>4, LimitFacts
  <1> HIDE DEF silence
  <1>7. g \in Target /\ g.present /\ g.streak = n /\ g.silence = silence
    BY <1>3, <1>6 DEF Target
  <1> HIDE DEF g
  <1>8. Due(h) /\ t.present => t.silence >= Limit
    BY <1>3, <1>4, LimitFacts DEF Due
  <1>9. n = HitConfirmations /\ ~Due(h) => t.silence < Limit
    BY <1>3, <1>4, LimitFacts, ThresholdsAssumption DEF Due
  <1> QED
    BY <1>1, <1>5, <1>6, <1>7, <1>8, <1>9

\* and by a miss, which may be the one that clears it.
LEMMA MissIs ==
  ASSUME NEW t \in Target
  PROVE  /\ Miss(t) \in Target /\ Miss(t).streak # HitConfirmations
         /\ Miss(t).present => t.present /\ Miss(t).silence = t.silence
  <1> DEFINE misses == Smaller(MissClearCount, t.misses + 1)
  <1>1. misses \in 0 .. MissClearCount /\ HitConfirmations \in Nat \ {0}
    BY ThresholdsAssumption DEF Target, Smaller
  <1>2. Miss(t) = IF misses = MissClearCount THEN [InitialTarget EXCEPT !.misses = misses]
                  ELSE [t EXCEPT !.misses = misses, !.streak = 0]
    BY DEF Miss
  <1> HIDE DEF misses
  <1>3. /\ [InitialTarget EXCEPT !.misses = misses] \in Target
        /\ ~[InitialTarget EXCEPT !.misses = misses].present
        /\ [InitialTarget EXCEPT !.misses = misses].streak = 0
    <2>1. ~InitialTarget.present /\ InitialTarget.streak = 0
      BY DEF InitialTarget
    <2>2. \A u \in Target :
            /\ [u EXCEPT !.misses = misses] \in Target
            /\ [u EXCEPT !.misses = misses].present = u.present
            /\ [u EXCEPT !.misses = misses].streak = u.streak
      BY <1>1 DEF Target
    <2> DEFINE u == InitialTarget
    <2>3. u \in Target /\ ~u.present /\ u.streak = 0
      BY <2>1, InitialTargetOK
    <2> SUFFICES /\ [u EXCEPT !.misses = misses] \in Target
                 /\ ~[u EXCEPT !.misses = misses].present
                 /\ [u EXCEPT !.misses = misses].streak = 0
      OBVIOUS
    <2> HIDE DEF u
    <2> QED
      BY <2>2, <2>3, Zenon
  <1>4. /\ [t EXCEPT !.misses = misses, !.streak = 0] \in Target
        /\ [t EXCEPT !.misses = misses, !.streak = 0].present = t.present
        /\ [t EXCEPT !.misses = misses, !.streak = 0].silence = t.silence
        /\ [t EXCEPT !.misses = misses, !.streak = 0].streak = 0
    <2> DEFINE u == [t EXCEPT !.misses = misses]
    <2>1. u \in Target /\ u.present = t.present /\ u.silence = t.silence
      BY <1>1 DEF Target
    <2>2. 0 \in 0 .. HitConfirmations
      BY <1>1
    <2> SUFFICES /\ [u EXCEPT !.streak = 0] \in Target
                 /\ [u EXCEPT !.streak = 0].present = t.present
                 /\ [u EXCEPT !.streak = 0].silence = t.silence
                 /\ [u EXCEPT !.streak = 0].streak = 0
      OBVIOUS
    <2> HIDE DEF u
    <2> QED
      BY <2>1, <2>2 DEF Target
  <1>5. HitConfirmations # 0
    BY <1>1
  <1> DEFINE cleared == [InitialTarget EXCEPT !.misses = misses]
             stays == [t EXCEPT !.misses = misses, !.streak = 0]
  <1>6. Miss(t) = cleared \/ Miss(t) = stays
    BY <1>2
  <1>7. /\ cleared \in Target /\ ~cleared.present /\ cleared.streak = 0
        /\ stays \in Target /\ stays.present = t.present /\ stays.silence = t.silence
        /\ stays.streak = 0
    BY <1>3, <1>4
  <1> HIDE DEF cleared, stays
  <1> QED
    BY <1>5, <1>6, <1>7

\* One monitor moves.
LEMMA MonMoves ==
  ASSUME TypeInv, NEW m \in Monitors, NEW r \in MonRecord, MonFits(r),
         mon' = [mon EXCEPT ![m] = r]
  PROVE  /\ mon' \in [Monitors -> MonRecord] /\ \A x \in Monitors : MonFits(mon'[x])
         /\ mon'[m] = r /\ \A x \in Monitors \ {m} : mon'[x] = mon[x]
  BY DEF TypeInv

\* One invocation of watch.sh moves; the query in the file is no less a query.
LEMMA ShellMoves ==
  ASSUME TypeInv, NEW s \in Shells, NEW r \in ShellRecord, shell' = [shell EXCEPT ![s] = r],
         ShellFits(r, config'), config \in Queries => config' \in Queries
  PROVE  /\ shell' \in [Shells -> ShellRecord] /\ \A x \in Shells : ShellFits(shell'[x], config')
         /\ shell'[s] = r /\ \A x \in Shells \ {s} : shell'[x] = shell[x]
  BY DEF TypeInv, ShellFits

\* The records of those that do nothing.
LEMMA IdleIs ==
  /\ Idle \in ShellRecord /\ Idle.pc = "idle" /\ \A c : ShellFits(Idle, c)
  /\ Unborn \in MonRecord /\ Unborn.pc = "unborn" /\ MonFits(Unborn)
  /\ Dead \in MonRecord /\ Dead.pc = "dead" /\ Dead.event = None /\ MonFits(Dead)
  <1>1. Idle \in ShellRecord /\ Idle.pc = "idle" /\ \A c : ShellFits(Idle, c)
    BY DEF Idle, ShellRecord, ShellFits
  <1> DEFINE t == InitialTarget
             u == [pc |-> "unborn", query |-> None, target |-> t, event |-> None, sure |-> TRUE]
  <1>2. t \in Target
    BY InitialTargetOK
  <1>3. Unborn = u
    BY DEF Unborn
  <1> HIDE DEF t
  <1>4. u \in MonRecord /\ u.pc = "unborn" /\ u.event = None
    BY <1>2 DEF MonRecord, Steps, Events
  <1> HIDE DEF u
  <1>5. /\ [u EXCEPT !.pc = "dead"] \in MonRecord
        /\ [u EXCEPT !.pc = "dead"].pc = "dead" /\ [u EXCEPT !.pc = "dead"].event = None
    BY <1>4 DEF MonRecord, Steps
  <1> QED
    BY <1>1, <1>3, <1>4, <1>5 DEF Dead, MonFits, Sound

\* What the steps of watch.sh are, as what becomes of the one that takes them.
LEMMA TypesOfShell ==
  ASSUME TypeInv, NEW s \in Shells, NEW r \in ShellRecord, shell' = [shell EXCEPT ![s] = r],
         ShellFits(r, config'), config \in Queries => config' \in Queries,
         mon' \in [Monitors -> MonRecord], \A m \in Monitors : MonFits(mon'[m]),
         pidFile' \in Monitors \cup {None}, config' \in Queries \cup {None},
         disk' = disk, stray' \in BOOLEAN, quiet' = quiet
  PROVE  TypeInv'
  <1>1. /\ shell' \in [Shells -> ShellRecord]
        /\ \A x \in Shells : ShellFits(shell'[x], config')
    BY ShellMoves
  <1> QED
    BY <1>1 DEF TypeInv

\* The same for a monitor.
LEMMA TypesOfMon ==
  ASSUME TypeInv, NEW m \in Monitors, NEW r \in MonRecord, mon' = [mon EXCEPT ![m] = r],
         MonFits(r), UNCHANGED <<shell, pidFile, config, stray>>,
         disk' \in {None, Torn} \cup DiskRecord, quiet' \in 0 .. Limit
  PROVE  TypeInv'
  <1>1. mon' \in [Monitors -> MonRecord] /\ \A x \in Monitors : MonFits(mon'[x])
    BY MonMoves
  <1> QED
    BY <1>1 DEF TypeInv

\* Every step keeps the types.
LEMMA NextTypeInv ==
  ASSUME TypeInv, [Next]_vars
  PROVE  TypeInv'
  <1>1. /\ shell \in [Shells -> ShellRecord] /\ mon \in [Monitors -> MonRecord]
        /\ \A s \in Shells : shell[s] \in ShellRecord /\ ShellFits(shell[s], config)
        /\ \A m \in Monitors : mon[m] \in MonRecord /\ MonFits(mon[m])
        /\ pidFile \in Monitors \cup {None} /\ config \in Queries \cup {None}
        /\ disk \in {None, Torn} \cup DiskRecord
        /\ stray \in BOOLEAN /\ quiet \in 0 .. Limit /\ Limit \in 0 .. Limit
        /\ None \notin Monitors /\ None \notin Queries
    BY LimitFacts, SetsAssumption DEF TypeInv
  <1>2. ASSUME NEW s \in Shells, NEW q \in Queries \cup {None},
               NEW cmd \in {"start", "stop", "status"}, cmd = "start" => q \in Queries,
               Begin(s, cmd, q)
        PROVE  TypeInv'
    <2> DEFINE r == [pc |-> IF cmd = "start" THEN "kill" ELSE "stale",
                     cmd |-> cmd, query |-> q, pid |-> pidFile]
    <2>1. r \in ShellRecord /\ ShellFits(r, config')
      BY <1>1, <1>2 DEF Begin, ShellRecord, ShellFits
    <2>2. shell' = [shell EXCEPT ![s] = r] /\ UNCHANGED <<pidFile, config, disk, mon, quiet>>
      BY <1>2 DEF Begin, Goto
    <2>3. stray' \in BOOLEAN
      BY <1>2 DEF Begin
    <2> HIDE DEF r
    <2> QED
      BY <1>1, <2>1, <2>2, <2>3, TypesOfShell
  <1>3. ASSUME NEW s \in Shells, CleanupStale(s)
        PROVE  TypeInv'
    <2> DEFINE r == [shell[s] EXCEPT !.pc = "kill", !.pid = pidFile']
    <2>1. pidFile' \in Monitors \cup {None} /\ UNCHANGED <<config, disk, mon, stray, quiet>>
      BY <1>1, <1>3 DEF CleanupStale
    <2>2. r \in ShellRecord /\ ShellFits(r, config')
      BY <1>1, <1>3, <2>1 DEF CleanupStale, ShellRecord, ShellFits
    <2>3. shell' = [shell EXCEPT ![s] = r] \/ shell' = [shell EXCEPT ![s] = Idle]
      BY <1>3 DEF CleanupStale, Goto
    <2> HIDE DEF r
    <2> QED
      BY <1>1, <2>1, <2>2, <2>3, TypesOfShell, IdleIs
  <1>4. ASSUME NEW s \in Shells, KillExisting(s)
        PROVE  TypeInv'
    <2> DEFINE r == [shell[s] EXCEPT !.pc = "remove", !.pid = None]
    <2>1. UNCHANGED <<pidFile, config, disk, stray, quiet>> /\ shell' = [shell EXCEPT ![s] = r]
      BY <1>4 DEF KillExisting, Goto
    <2>2. r \in ShellRecord /\ ShellFits(r, config')
      BY <1>1, <1>4, <2>1 DEF KillExisting, ShellRecord, ShellFits
    <2>3. mon' \in [Monitors -> MonRecord] /\ \A m \in Monitors : MonFits(mon'[m])
      <3>1. CASE Alive(shell[s].pid)
        <4>1. shell[s].pid \in Monitors /\ mon' = [mon EXCEPT ![shell[s].pid] = Dead]
          BY <1>1, <1>4, <3>1 DEF KillExisting, Alive, ShellRecord
        <4> QED
          BY <4>1, MonMoves, IdleIs
      <3>2. CASE ~Alive(shell[s].pid)
        BY <1>1, <1>4, <3>2 DEF KillExisting
      <3> QED
        BY <3>1, <3>2
    <2> HIDE DEF r
    <2> QED
      BY <1>1, <2>1, <2>2, <2>3, TypesOfShell
  <1>5. ASSUME NEW s \in Shells, RemovePidFile(s)
        PROVE  TypeInv'
    <2> DEFINE r == [shell[s] EXCEPT !.pc = "config"]
    <2>1. /\ pidFile' = None /\ UNCHANGED <<config, disk, mon, stray, quiet>>
          /\ \/ shell[s].cmd = "start" /\ shell' = [shell EXCEPT ![s] = r]
             \/ shell' = [shell EXCEPT ![s] = Idle]
      BY <1>5 DEF RemovePidFile, Goto
    <2>2. shell[s].cmd = "start" => r \in ShellRecord /\ ShellFits(r, config')
      BY <1>1, <2>1 DEF ShellRecord, ShellFits
    <2> HIDE DEF r
    <2> QED
      BY <1>1, <2>1, <2>2, TypesOfShell, IdleIs
  <1>6. ASSUME NEW s \in Shells, WriteConfig(s)
        PROVE  TypeInv'
    <2> DEFINE r == [shell[s] EXCEPT !.pc = "source"]
    <2>1. /\ config' = shell[s].query /\ UNCHANGED <<pidFile, disk, mon, stray, quiet>>
          /\ shell' = [shell EXCEPT ![s] = r]
      BY <1>6 DEF WriteConfig, Goto
    <2>2. config' \in Queries
      BY <1>1, <1>6, <2>1 DEF WriteConfig, ShellFits
    <2>3. r \in ShellRecord /\ ShellFits(r, config')
      BY <1>1, <1>6, <2>2 DEF WriteConfig, ShellRecord, ShellFits
    <2> HIDE DEF r
    <2> QED
      BY <1>1, <2>1, <2>2, <2>3, TypesOfShell
  <1>7. ASSUME NEW s \in Shells, SourceConfig(s)
        PROVE  TypeInv'
    <2> DEFINE r == [shell[s] EXCEPT !.pc = "spawn", !.query = config]
    <2>1. /\ UNCHANGED <<pidFile, config, disk, mon, stray, quiet>>
          /\ shell' = [shell EXCEPT ![s] = r]
      BY <1>7 DEF SourceConfig, Goto
    <2>2. r \in ShellRecord /\ ShellFits(r, config')
      BY <1>1, <1>7, <2>1 DEF SourceConfig, ShellRecord, ShellFits
    <2> HIDE DEF r
    <2> QED
      BY <1>1, <2>1, <2>2, TypesOfShell
  <1>8. ASSUME NEW s \in Shells, Spawn(s)
        PROVE  TypeInv'
    <2>1. PICK m \in Monitors :
            /\ mon[m].pc = "unborn"
            /\ mon' = [mon EXCEPT ![m].pc = "load", ![m].query = shell[s].query]
            /\ shell' = [shell EXCEPT ![s] = [shell[s] EXCEPT !.pc = "pid", !.pid = m]]
      BY <1>8 DEF Spawn, Goto
    <2> DEFINE r == [shell[s] EXCEPT !.pc = "pid", !.pid = m]
               n == [mon[m] EXCEPT !.pc = "load", !.query = shell[s].query]
    <2>2. UNCHANGED <<pidFile, config, disk, stray, quiet>> /\ shell[s].pc = "spawn"
      BY <1>8 DEF Spawn
    <2>3. shell[s].query \in Queries
      BY <1>1, <2>2 DEF ShellFits
    <2>4. r \in ShellRecord /\ ShellFits(r, config')
      BY <1>1, <2>2 DEF ShellRecord, ShellFits
    <2>5. n \in MonRecord /\ MonFits(n)
      BY <1>1, <2>1, <2>3 DEF MonRecord, MonFits, Steps
    <2>6. mon' = [mon EXCEPT ![m] = n]
      BY <1>1, <2>1
    <2>7. shell' = [shell EXCEPT ![s] = r]
      BY <2>1
    <2> HIDE DEF r, n
    <2>8. mon' \in [Monitors -> MonRecord] /\ \A x \in Monitors : MonFits(mon'[x])
      BY <2>5, <2>6, MonMoves
    <2> QED
      BY <1>1, <2>2, <2>4, <2>7, <2>8, TypesOfShell
  <1>9. ASSUME NEW s \in Shells, WritePid(s)
        PROVE  TypeInv'
    <2>1. /\ pidFile' = shell[s].pid /\ UNCHANGED <<config, disk, mon, stray, quiet>>
          /\ shell' = [shell EXCEPT ![s] = Idle]
      BY <1>9 DEF WritePid, Goto
    <2>2. pidFile' \in Monitors \cup {None}
      BY <1>1, <2>1 DEF ShellRecord
    <2> QED
      BY <1>1, <2>1, <2>2, TypesOfShell, IdleIs
  <1>10. ASSUME NEW m \in Monitors, Load(m)
         PROVE  TypeInv'
    <2> DEFINE known == disk # None /\ disk.query = mon[m].query
               target == IF known THEN disk.target ELSE mon[m].target
               n == [mon[m] EXCEPT !.pc = "poll", !.target = target]
    <2>1. UNCHANGED <<shell, pidFile, config, disk, stray>> /\ mon[m].pc = "load"
      BY <1>10 DEF Load
    <2>2. \/ mon' = [mon EXCEPT ![m] = Dead] /\ quiet' = quiet
          \/ disk # Torn /\ mon' = [mon EXCEPT ![m] = n] /\ quiet' \in {quiet, Limit}
      BY <1>1, <1>10 DEF Load
    <2>3. disk # Torn => target \in Target
      BY <1>1 DEF DiskRecord, MonRecord
    <2> HIDE DEF target
    <2>4. disk # Torn => n \in MonRecord /\ MonFits(n)
      BY <1>1, <2>1, <2>3 DEF MonRecord, MonFits, Steps
    <2> HIDE DEF n
    <2> QED
      BY <1>1, <2>1, <2>2, <2>4, TypesOfMon, IdleIs
  <1>11. ASSUME NEW m \in Monitors, Analyse(m)
         PROVE  TypeInv'
    <2>1. PICK reply \in Replies :
            LET found == Detected(reply)
                hit   == Hit(mon[m].target)
            IN  IF found # << >>
                THEN /\ mon' = [mon EXCEPT ![m].pc = "save", ![m].target = hit.target,
                            ![m].event = IF hit.remind THEN Head(found) ELSE None,
                            ![m].sure = hit.remind => FirstObject(reply).kind = "matches"]
                     /\ UNCHANGED quiet
                ELSE /\ mon' = [mon EXCEPT ![m].pc = "save", ![m].target = Miss(@),
                            ![m].event = None, ![m].sure = TRUE]
                     /\ quiet' = IF Miss(mon[m].target).present THEN quiet ELSE Limit
      BY <1>11 DEF Analyse
    <2> DEFINE hit == Hit(mon[m].target)
               event == IF hit.remind THEN Head(Detected(reply)) ELSE None
               sure == hit.remind => FirstObject(reply).kind = "matches"
               a == [mon[m] EXCEPT !.pc = "save", !.target = hit.target, !.event = event,
                                   !.sure = sure]
               b == [mon[m] EXCEPT !.pc = "save", !.target = Miss(mon[m].target), !.event = None,
                                   !.sure = TRUE]
    <2>2. /\ quiet' \in 0 .. Limit
          /\ \/ Detected(reply) # << >> /\ mon' = [mon EXCEPT ![m] = a]
             \/ mon' = [mon EXCEPT ![m] = b]
      BY <1>1, <2>1
    <2>3. UNCHANGED <<shell, pidFile, config, disk, stray>> /\ mon[m].pc = "poll"
      BY <1>11 DEF Analyse
    <2>4. mon[m].target \in Target /\ mon[m].query \in Queries
      BY <1>1, <2>3 DEF MonRecord, MonFits
    <2>5. hit.target \in Target /\ Miss(mon[m].target) \in Target
      BY <2>4, HitIs, MissIs
    <2>6. event \in Events /\ None \in Events /\ sure \in BOOLEAN
      BY DEF Events
    <2>6a. Detected(reply) # << >> => Sound(event, sure)
      BY RepliesAssumption, ReportedIsSound DEF Sound, Confident
    <2>6b. Sound(None, TRUE)
      BY DEF Sound
    <2> HIDE DEF hit, event, sure
    <2>7. Detected(reply) # << >> => a \in MonRecord /\ MonFits(a)
      BY <1>1, <2>4, <2>5, <2>6, <2>6a DEF MonRecord, MonFits, Steps
    <2>8. b \in MonRecord /\ MonFits(b)
      BY <1>1, <2>4, <2>5, <2>6, <2>6b DEF MonRecord, MonFits, Steps
    <2> HIDE DEF a, b
    <2> QED
      BY <1>1, <2>2, <2>3, <2>7, <2>8, TypesOfMon
  <1>12. ASSUME NEW m \in Monitors, PollFails(m) \/ SendRemind(m)
         PROVE  TypeInv'
    <2> DEFINE n == [mon[m] EXCEPT !.pc = "poll", !.event = None, !.sure = TRUE]
    <2>1. /\ UNCHANGED <<shell, pidFile, config, disk, stray>>
          /\ mon[m].pc \in {"poll", "save", "write", "send"}
          /\ quiet' \in {quiet, mon[m].target.silence}
      BY <1>12 DEF PollFails, SendRemind
    <2>2. mon' = [mon EXCEPT ![m] = n]
      BY <1>1, <1>12 DEF PollFails, SendRemind
    <2>3. quiet' \in 0 .. Limit
      BY <1>1, <2>1 DEF MonRecord, Target
    <2>4. Sound(None, TRUE)
      BY DEF Sound
    <2>5. n \in MonRecord /\ MonFits(n)
      BY <1>1, <2>1, <2>4 DEF MonRecord, MonFits, Steps, Events
    <2> HIDE DEF n
    <2> QED
      BY <1>1, <2>1, <2>2, <2>3, <2>5, TypesOfMon
  <1>13. ASSUME NEW m \in Monitors, OpenState(m) \/ WriteState(m)
         PROVE  TypeInv'
    <2> DEFINE n == [mon[m] EXCEPT !.pc = mon'[m].pc]
    <2>1. /\ UNCHANGED <<shell, pidFile, config, stray, quiet>>
          /\ mon[m].pc \in {"save", "write"}
          /\ disk' \in {Torn, [query |-> mon[m].query, target |-> mon[m].target]}
      BY <1>13 DEF OpenState, WriteState
    <2>2. \E pc \in {"write", "send", "poll"} :
            /\ mon' = [mon EXCEPT ![m] = [mon[m] EXCEPT !.pc = pc]]
            /\ pc = "poll" => mon[m].event = None
      BY <1>1, <1>13 DEF OpenState, WriteState, AfterSave
    <2>3. PICK pc \in {"write", "send", "poll"} :
            /\ mon' = [mon EXCEPT ![m] = [mon[m] EXCEPT !.pc = pc]]
            /\ pc = "poll" => mon[m].event = None
      BY <2>2
    <2>4. /\ [mon[m] EXCEPT !.pc = pc] \in MonRecord /\ MonFits([mon[m] EXCEPT !.pc = pc])
      BY <1>1, <2>1, <2>3 DEF MonRecord, MonFits, Steps
    <2>5. disk' \in {None, Torn} \cup DiskRecord
      BY <1>1, <2>1 DEF DiskRecord, MonRecord, MonFits
    <2> QED
      BY <1>1, <2>1, <2>3, <2>4, <2>5, TypesOfMon
  <1>14. CASE Tick
    <2>1. /\ UNCHANGED <<shell, pidFile, config, stray>>
          /\ quiet' = Smaller(Limit, quiet + 1)
          /\ mon' = [m \in Monitors |-> [mon[m] EXCEPT !.target = Later(mon[m].target)]]
          /\ disk' = IF disk \in {None, Torn} THEN disk
                     ELSE [disk EXCEPT !.target = Later(disk.target)]
      BY <1>14 DEF Tick
    <2>2. quiet' \in 0 .. Limit
      BY <1>1, <2>1, LimitFacts DEF Smaller
    <2>3. \A m \in Monitors : Later(mon[m].target) \in Target
      BY <1>1, LaterIs DEF MonRecord
    <2>4. \A m \in Monitors : mon'[m] \in MonRecord /\ MonFits(mon'[m])
      <3> TAKE m \in Monitors
      <3> DEFINE t == Later(mon[m].target)
      <3>1. mon'[m] = [mon[m] EXCEPT !.target = t] /\ t \in Target
        BY <2>1, <2>3
      <3> HIDE DEF t
      <3> QED
        BY <1>1, <3>1 DEF MonRecord, MonFits
    <2>5. mon' \in [Monitors -> MonRecord]
      BY <2>1, <2>4
    <2>6. disk' \in {None, Torn} \cup DiskRecord
      <3>1. CASE disk \in DiskRecord
        <4> DEFINE t == Later(disk.target)
        <4>1. t \in Target /\ disk' \in {disk, [disk EXCEPT !.target = t]}
          BY <2>1, <3>1, LaterIs DEF DiskRecord
        <4> HIDE DEF t
        <4> QED
          BY <1>1, <3>1, <4>1 DEF DiskRecord
      <3> QED
        BY <1>1, <2>1, <3>1
    <2> QED
      BY <1>1, <2>1, <2>2, <2>4, <2>5, <2>6 DEF TypeInv
  <1>15. ASSUME NEW s \in Shells, ShellEnds(s)
         PROVE  TypeInv'
    <2>1. /\ UNCHANGED <<pidFile, config, disk, mon, quiet>> /\ stray' \in BOOLEAN
          /\ shell' = [shell EXCEPT ![s] = Idle]
      BY <1>15 DEF ShellEnds, Goto
    <2> QED
      BY <1>1, <2>1, TypesOfShell, IdleIs
  <1>16. CASE UNCHANGED vars
    BY <1>16 DEF vars, TypeInv, ShellFits, MonFits
  <1> QED
    BY <1>2, <1>3, <1>4, <1>5, <1>6, <1>7, <1>8, <1>9, <1>10, <1>11, <1>12, <1>13, <1>14, <1>15,
       <1>16
       DEF Next

\* At the start nothing runs and there is no file.
LEMMA InitTypeInv == Init => TypeInv
  <1> SUFFICES ASSUME Init PROVE TypeInv
    OBVIOUS
  <1>1. /\ shell \in [Shells -> ShellRecord] /\ \A s \in Shells : ShellFits(shell[s], config)
    BY IdleIs DEF Init
  <1>2. /\ mon \in [Monitors -> MonRecord] /\ \A m \in Monitors : MonFits(mon[m])
    BY IdleIs DEF Init
  <1>3. quiet \in 0 .. Limit
    BY LimitFacts DEF Init
  <1> QED
    BY <1>1, <1>2, <1>3 DEF Init, TypeInv

\* The variables have their types: no invocation of watch.sh starts a monitor without a
\* query, and whatever a monitor loads from the state file is a state.
THEOREM TypeCorrect == Spec => []TypeOK
  <1>1. TypeInv => TypeOK
    BY DEF TypeInv, TypeOK, ShellRecord, MonRecord, DiskRecord, Steps
  <1> QED
    BY InitTypeInv, NextTypeInv, <1>1, PTL DEF Spec

\* A reminder shows a well-formed match, and one taken from a list of matches has at least
\* --min-score, whatever the vision model answers.
THEOREM ReminderConfidentHolds == Spec => []ReminderConfident
  <1>1. TypeInv => ReminderConfident
    BY DEF TypeInv, MonFits, Sound, ReminderConfident
  <1> QED
    BY InitTypeInv, NextTypeInv, <1>1, PTL DEF Spec

-----------------------------------------------------------------------------
(* The monitor: its steps, as what they do to it.                          *)

\* What m itself may do.
Loads(m) ==
    LET known == disk # None /\ disk.query = mon[m].query
    IN  /\ disk # Torn /\ mon[m].pc = "load" /\ mon'[m].pc = "poll"
        /\ mon'[m].target = IF known THEN disk.target ELSE mon[m].target
        /\ quiet' = IF known THEN quiet ELSE Limit

Hits(m) ==
    /\ mon[m].pc = "poll" /\ mon'[m].pc = "save"
    /\ mon'[m].target = Hit(mon[m].target).target
    /\ mon'[m].event # None => Hit(mon[m].target).remind
    /\ quiet' = quiet

Misses(m) ==
    /\ mon[m].pc = "poll" /\ mon'[m].pc = "save"
    /\ mon'[m].target = Miss(mon[m].target) /\ mon'[m].event = None
    /\ quiet' = IF Miss(mon[m].target).present THEN quiet ELSE Limit

Polls(m) ==
    /\ mon[m].pc # "load" /\ mon'[m].pc = "poll"
    /\ mon'[m].target = mon[m].target /\ mon'[m].event = None
    /\ quiet' = quiet \/ (mon[m].pc = "send" /\ quiet' = mon[m].target.silence)

Saves(m) ==
    /\ mon[m].pc \in {"save", "write"} /\ quiet' = quiet
    /\ mon'[m].target = mon[m].target /\ mon'[m].event = mon[m].event
    /\ \/ mon'[m].pc = "write" /\ disk' = Torn
       \/ /\ mon'[m].pc = IF mon[m].event # None THEN "send" ELSE "poll"
          /\ disk' = [query |-> mon[m].query, target |-> mon[m].target]

Acts(m) ==
    /\ \A x \in Monitors \ {m} : mon'[x] = mon[x]
    /\ mon[m].pc \notin {"unborn", "dead"}
    /\ UNCHANGED <<shell, pidFile, config, stray>>
    /\ \/ mon'[m] = Dead /\ UNCHANGED <<disk, quiet>>
       \/ /\ mon'[m].query = mon[m].query
          /\ \/ (Loads(m) \/ Hits(m) \/ Misses(m) \/ Polls(m)) /\ UNCHANGED disk
             \/ Saves(m)

LEMMA MonStepIs ==
  ASSUME TypeInv, NEW m \in Monitors,
         \/ Load(m) \/ Analyse(m) \/ PollFails(m)
         \/ OpenState(m) \/ WriteState(m) \/ SendRemind(m)
  PROVE  Acts(m)
  <1>1. mon \in [Monitors -> MonRecord] /\ mon[m] \in MonRecord
    BY DEF TypeInv
  <1>2. ASSUME NEW r, mon' = [mon EXCEPT ![m] = r]
        PROVE  mon'[m] = r /\ \A x \in Monitors \ {m} : mon'[x] = mon[x]
    BY <1>1, <1>2
  <1>3. CASE Load(m)
    <2> DEFINE known == disk # None /\ disk.query = mon[m].query
               target == IF known THEN disk.target ELSE mon[m].target
               n == [mon[m] EXCEPT !.pc = "poll", !.target = target]
    <2>1. /\ UNCHANGED <<shell, pidFile, config, disk, stray>> /\ mon[m].pc = "load"
          /\ \/ mon' = [mon EXCEPT ![m] = Dead] /\ quiet' = quiet
             \/ /\ disk # Torn /\ mon' = [mon EXCEPT ![m] = n]
                /\ quiet' = IF known THEN quiet ELSE Limit
      BY <1>1, <1>3 DEF Load
    <2>2. n.pc = "poll" /\ n.query = mon[m].query /\ n.target = target
      BY <1>1 DEF MonRecord
    <2>3. CASE mon' = [mon EXCEPT ![m] = Dead] /\ quiet' = quiet
      BY <1>2, <2>1, <2>3 DEF Acts
    <2>4. CASE disk # Torn /\ mon' = [mon EXCEPT ![m] = n] /\ quiet' = IF known THEN quiet ELSE Limit
      <3> HIDE DEF n
      <3>1. mon'[m] = n /\ \A x \in Monitors \ {m} : mon'[x] = mon[x]
        BY <1>2, <2>4
      <3>2. Loads(m)
        BY <2>1, <2>2, <2>4, <3>1 DEF Loads
      <3> QED
        BY <2>1, <2>2, <3>1, <3>2 DEF Acts
    <2> QED
      BY <2>1, <2>3, <2>4
  <1>4. CASE Analyse(m)
    <2>1. PICK reply \in Replies :
            LET found == Detected(reply)
                hit   == Hit(mon[m].target)
            IN  IF found # << >>
                THEN /\ mon' = [mon EXCEPT ![m].pc = "save", ![m].target = hit.target,
                            ![m].event = IF hit.remind THEN Head(found) ELSE None,
                            ![m].sure = hit.remind => FirstObject(reply).kind = "matches"]
                     /\ UNCHANGED quiet
                ELSE /\ mon' = [mon EXCEPT ![m].pc = "save", ![m].target = Miss(@),
                            ![m].event = None, ![m].sure = TRUE]
                     /\ quiet' = IF Miss(mon[m].target).present THEN quiet ELSE Limit
      BY <1>4 DEF Analyse
    <2> DEFINE hit == Hit(mon[m].target)
               event == IF hit.remind THEN Head(Detected(reply)) ELSE None
               sure == hit.remind => FirstObject(reply).kind = "matches"
               miss == Miss(mon[m].target)
               a == [mon[m] EXCEPT !.pc = "save", !.target = hit.target, !.event = event,
                                   !.sure = sure]
               b == [mon[m] EXCEPT !.pc = "save", !.target = miss, !.event = None,
                                   !.sure = TRUE]
    <2>2. \/ mon' = [mon EXCEPT ![m] = a] /\ quiet' = quiet
          \/ mon' = [mon EXCEPT ![m] = b] /\ quiet' = IF miss.present THEN quiet ELSE Limit
      BY <1>1, <2>1
    <2>3. UNCHANGED <<shell, pidFile, config, disk, stray>> /\ mon[m].pc = "poll"
      BY <1>4 DEF Analyse
    <2>4. event # None => hit.remind
      OBVIOUS
    <2> HIDE DEF event, sure
    <2>5. a.pc = "save" /\ a.query = mon[m].query /\ a.target = hit.target /\ a.event = event
      BY <1>1 DEF MonRecord
    <2>6. b.pc = "save" /\ b.query = mon[m].query /\ b.target = miss /\ b.event = None
      BY <1>1 DEF MonRecord
    <2> HIDE DEF a, b
    <2>7. CASE mon' = [mon EXCEPT ![m] = a] /\ quiet' = quiet
      <3>1. mon'[m] = a /\ \A x \in Monitors \ {m} : mon'[x] = mon[x]
        BY <1>2, <2>7
      <3>2. Hits(m)
        BY <2>3, <2>4, <2>5, <2>7, <3>1 DEF Hits
      <3> QED
        BY <2>3, <2>5, <3>1, <3>2 DEF Acts
    <2>8. CASE mon' = [mon EXCEPT ![m] = b] /\ quiet' = IF miss.present THEN quiet ELSE Limit
      <3>1. mon'[m] = b /\ \A x \in Monitors \ {m} : mon'[x] = mon[x]
        BY <1>2, <2>8
      <3>2. Misses(m)
        BY <2>3, <2>6, <2>8, <3>1 DEF Misses
      <3> QED
        BY <2>3, <2>6, <3>1, <3>2 DEF Acts
    <2> QED
      BY <2>2, <2>7, <2>8
  <1>5. CASE PollFails(m) \/ SendRemind(m)
    <2> DEFINE n == [mon[m] EXCEPT !.pc = "poll", !.event = None, !.sure = TRUE]
    <2>1. /\ UNCHANGED <<shell, pidFile, config, disk, stray>>
          /\ mon[m].pc \in {"poll", "save", "write", "send"}
          /\ quiet' = quiet \/ (mon[m].pc = "send" /\ quiet' = mon[m].target.silence)
      BY <1>5 DEF PollFails, SendRemind
    <2>2. mon' = [mon EXCEPT ![m] = n]
      BY <1>1, <1>5 DEF PollFails, SendRemind
    <2>3. n.pc = "poll" /\ n.query = mon[m].query /\ n.target = mon[m].target /\ n.event = None
      BY <1>1 DEF MonRecord
    <2> HIDE DEF n
    <2>4. mon'[m] = n /\ \A x \in Monitors \ {m} : mon'[x] = mon[x]
      BY <1>2, <2>2
    <2>5. Polls(m)
      BY <2>1, <2>3, <2>4 DEF Polls
    <2> QED
      BY <2>1, <2>3, <2>4, <2>5 DEF Acts
  <1>6. CASE OpenState(m) \/ WriteState(m)
    <2>1. /\ UNCHANGED <<shell, pidFile, config, stray, quiet>>
          /\ mon[m].pc \in {"save", "write"}
          /\ \E pc \in {"write", "send", "poll"} :
               /\ mon' = [mon EXCEPT ![m] = [mon[m] EXCEPT !.pc = pc]]
               /\ \/ pc = "write" /\ disk' = Torn
                  \/ /\ pc = IF mon[m].event # None THEN "send" ELSE "poll"
                     /\ disk' = [query |-> mon[m].query, target |-> mon[m].target]
      BY <1>1, <1>6 DEF OpenState, WriteState, AfterSave
    <2>2. PICK pc \in {"write", "send", "poll"} :
               /\ mon' = [mon EXCEPT ![m] = [mon[m] EXCEPT !.pc = pc]]
               /\ \/ pc = "write" /\ disk' = Torn
                  \/ /\ pc = IF mon[m].event # None THEN "send" ELSE "poll"
                     /\ disk' = [query |-> mon[m].query, target |-> mon[m].target]
      BY <2>1
    <2> DEFINE n == [mon[m] EXCEPT !.pc = pc]
    <2>3. n.pc = pc /\ n.query = mon[m].query /\ n.target = mon[m].target
          /\ n.event = mon[m].event
      BY <1>1 DEF MonRecord
    <2>4. mon' = [mon EXCEPT ![m] = n]
      BY <2>2
    <2> HIDE DEF n
    <2>5. mon'[m] = n /\ \A x \in Monitors \ {m} : mon'[x] = mon[x]
      BY <1>2, <2>4
    <2>6. Saves(m)
      BY <2>1, <2>2, <2>3, <2>5 DEF Saves
    <2> QED
      BY <2>1, <2>3, <2>5, <2>6 DEF Acts
  <1> QED
    BY <1>3, <1>4, <1>5, <1>6

\* watch.sh starts and kills, and touches nothing else of a monitor.
ActsOn ==
    /\ UNCHANGED <<disk, quiet>> /\ (stray => stray')
    /\ \A m \in Monitors :
        \/ mon'[m] = mon[m] \/ mon'[m] = Dead
        \/ mon'[m].pc = "load" /\ mon'[m].event = None

ShellNext(s) ==
    \/ \E q \in Queries : Begin(s, "start", q)
    \/ Begin(s, "stop", None) \/ Begin(s, "status", None)
    \/ CleanupStale(s) \/ KillExisting(s) \/ RemovePidFile(s)
    \/ WriteConfig(s) \/ SourceConfig(s) \/ Spawn(s) \/ WritePid(s)
    \/ ShellEnds(s)

LEMMA ShellStepIs ==
  ASSUME TypeInv, NEW s \in Shells, ShellNext(s)
  PROVE  ActsOn
  <1>1. mon \in [Monitors -> MonRecord] /\ \A m \in Monitors : MonFits(mon[m])
    BY DEF TypeInv
  <1>2. CASE KillExisting(s)
    BY <1>1, <1>2 DEF KillExisting, ActsOn
  <1>3. CASE Spawn(s)
    <2>1. PICK m \in Monitors :
            /\ mon[m].pc = "unborn"
            /\ mon' = [mon EXCEPT ![m].pc = "load", ![m].query = shell[s].query]
      BY <1>3 DEF Spawn
    <2>2. mon'[m].pc = "load" /\ mon'[m].event = None
      BY <1>1, <2>1 DEF MonRecord, MonFits
    <2>3. \A x \in Monitors \ {m} : mon'[x] = mon[x]
      BY <1>1, <2>1
    <2> QED
      BY <1>3, <2>2, <2>3 DEF Spawn, ActsOn
  <1>4. CASE UNCHANGED <<mon, disk, quiet>> /\ (stray => stray')
    BY <1>4 DEF ActsOn
  <1>5. ASSUME NEW q, NEW cmd, Begin(s, cmd, q)
        PROVE  ActsOn
    <2>1. stray' = (stray \/ \E o \in Shells \ {s} : shell[o].pc # "idle")
      BY <1>5 DEF Begin
    <2>2. stray => stray'
      BY <2>1
    <2> QED
      BY <1>4, <1>5, <2>2 DEF Begin
  <1>6. CASE CleanupStale(s) \/ RemovePidFile(s) \/ WriteConfig(s) \/ SourceConfig(s) \/ WritePid(s)
    BY <1>4, <1>6 DEF CleanupStale, RemovePidFile, WriteConfig, SourceConfig, WritePid
  <1>7. CASE ShellEnds(s)
    BY <1>4, <1>7 DEF ShellEnds
  <1> QED
    BY <1>2, <1>3, <1>5, <1>6, <1>7 DEF ShellNext

\* With time every silence is longer, and else nothing changes.
Ages ==
    /\ UNCHANGED <<shell, pidFile, config, stray>>
    /\ quiet' = IF quiet = Limit THEN Limit ELSE quiet + 1
    /\ disk \notin {None, Torn} => disk' = [disk EXCEPT !.target = Later(disk.target)]
    /\ disk \in {None, Torn} => disk' = disk
    /\ \A m \in Monitors :
        /\ mon'[m].target = Later(mon[m].target)
        /\ mon'[m].pc = mon[m].pc /\ mon'[m].query = mon[m].query /\ mon'[m].event = mon[m].event

LEMMA TickIs ==
  ASSUME TypeInv, Tick
  PROVE  Ages
  <1>1. quiet' = IF quiet = Limit THEN Limit ELSE quiet + 1
    <2>1. quiet' = Smaller(Limit, quiet + 1)
      BY DEF Tick
    <2>2. quiet \in Nat /\ quiet <= Limit /\ Limit \in Nat
      BY LimitFacts DEF TypeInv
    <2> QED
      BY <2>1, <2>2 DEF Smaller
  <1>2. disk \notin {None, Torn} => disk' = [disk EXCEPT !.target = Later(disk.target)]
    BY DEF Tick
  <1>3. ASSUME NEW m \in Monitors
        PROVE  /\ mon'[m].target = Later(mon[m].target) /\ mon'[m].pc = mon[m].pc
               /\ mon'[m].query = mon[m].query /\ mon'[m].event = mon[m].event
    <2> DEFINE t == Later(mon[m].target)
    <2>1. mon[m] \in MonRecord /\ mon'[m] = [mon[m] EXCEPT !.target = t]
      BY DEF TypeInv, Tick
    <2> HIDE DEF t
    <2>2. /\ mon'[m].target = t /\ mon'[m].pc = mon[m].pc
          /\ mon'[m].query = mon[m].query /\ mon'[m].event = mon[m].event
      BY <2>1 DEF MonRecord
    <2> QED
      BY <2>2 DEF t
  <1> QED
    BY <1>1, <1>2, <1>3 DEF Tick, Ages

\* Every step is one of these.
LEMMA StepIs ==
  ASSUME TypeInv, [Next]_vars
  PROVE  \/ UNCHANGED vars \/ Ages \/ (\E m \in Monitors : Acts(m))
         \/ \E s \in Shells : ShellNext(s) /\ ActsOn
  BY MonStepIs, ShellStepIs, TickIs DEF Next, ShellNext

\* A target seen often enough in a row is decided about, also where invocations overlap: no
\* step leaves it unseen and undecided past both thresholds.
THEOREM InViewDecidedHolds == Spec => InViewDecided
  <1> DEFINE Decided(m) ==
        mon[m].pc = "poll" /\ mon'[m].pc = "save" /\ mon'[m].target.streak = HitConfirmations
            => mon'[m].target.silence < Limit
  <1>1. ASSUME TypeInv, [Next]_vars, NEW m \in Monitors
        PROVE  Decided(m)
    <2>1. Dead.pc = "dead" /\ mon[m].target \in Target
      BY <1>1, IdleIs DEF TypeInv, MonRecord
    <2>2. CASE Acts(m)
      <3>1. CASE Hits(m)
        BY <2>1, <3>1, HitIs, LimitFacts DEF Hits
      <3>2. CASE Misses(m)
        BY <2>1, <3>2, MissIs DEF Misses
      <3> QED
        BY <2>1, <2>2, <3>1, <3>2 DEF Acts, Loads, Polls, Saves
    <2>3. CASE mon'[m] = mon[m] \/ mon'[m].pc \in {"dead", "load"} \/ Ages
      BY <2>3 DEF Ages
    <2> QED
      BY <1>1, <2>1, <2>2, <2>3, StepIs DEF Acts, ActsOn, vars
  <1>2. TypeInv /\ [Next]_vars => \A m \in Monitors : Decided(m)
    BY <1>1
  <1> QED
    BY InitTypeInv, NextTypeInv, <1>2, PTL DEF Spec, InViewDecided

-----------------------------------------------------------------------------
(* There is one monitor.                                                   *)

\* While no monitor is stray: what the one that runs has read is so, it kills what it
\* has found before it starts another, and the monitor watches what the file says.
WatchInv ==
    ~stray =>
        /\ \A s, o \in Shells : shell[s].pc # "idle" /\ shell[o].pc # "idle" => s = o
        /\ \A s \in Shells :
            /\ shell[s].pc \in {"stale", "kill"} => shell[s].pid = pidFile
            /\ shell[s].pc = "spawn" => shell[s].query = config
            /\ shell[s].pc \in {"remove", "config", "source", "spawn"} =>
                  \A m \in Monitors : ~Alive(m)
            /\ shell[s].pc = "pid" => \A m \in Monitors : Alive(m) => shell[s].pid = m
        /\ \A m \in Monitors : Alive(m) =>
            /\ mon[m].query = config
            /\ pidFile = m \/ \E s \in Shells : shell[s].pc = "pid"

\* There are no two monitors then.
LEMMA OnlyOne ==
  ASSUME WatchInv, ~stray, NEW m \in Monitors, NEW n \in Monitors, Alive(m), Alive(n)
  PROVE  m = n
  BY DEF WatchInv

\* A monitor alone changes nothing of this.
LEMMA WatchStays ==
  ASSUME WatchInv, UNCHANGED <<shell, pidFile, config, stray>>,
         \A m \in Monitors : mon'[m].pc \notin {"unborn", "dead"} =>
            mon[m].pc \notin {"unborn", "dead"} /\ mon'[m].query = mon[m].query
  PROVE  WatchInv'
  BY DEF WatchInv, Alive

\* The steps of one invocation, s, that is then r.
LEMMA WatchMoves ==
  ASSUME TypeInv, WatchInv, NEW s \in Shells, NEW r \in ShellRecord,
         shell' = [shell EXCEPT ![s] = r], ~stray' => ~stray,
         ~stray' =>
            /\ r.pc = "idle" \/ \A o \in Shells \ {s} : shell[o].pc = "idle"
            /\ r.pc \in {"stale", "kill"} => r.pid = pidFile'
            /\ r.pc = "spawn" => r.query = config'
            /\ r.pc \in {"remove", "config", "source", "spawn"} =>
                  \A m \in Monitors : mon'[m].pc \in {"unborn", "dead"}
            /\ r.pc = "pid" =>
                  \A m \in Monitors : mon'[m].pc \in {"unborn", "dead"} \/ r.pid = m
            /\ \A m \in Monitors : mon'[m].pc \notin {"unborn", "dead"} =>
                  /\ mon'[m].query = config'
                  /\ pidFile' = m \/ r.pc = "pid"
            /\ \A o \in Shells \ {s} : shell[o].pc = "idle"
  PROVE  WatchInv'
  <1>1. shell'[s] = r /\ \A x \in Shells \ {s} : shell'[x] = shell[x]
    BY DEF TypeInv
  <1> SUFFICES ASSUME ~stray' PROVE WatchInv'
    BY DEF WatchInv
  <1>2. \A x \in Shells \ {s} : shell'[x].pc = "idle"
    BY <1>1
  <1>3. \A x \in Shells :
          /\ shell'[x].pc \in {"stale", "kill"} => shell'[x].pid = pidFile'
          /\ shell'[x].pc = "spawn" => shell'[x].query = config'
          /\ shell'[x].pc \in {"remove", "config", "source", "spawn"} =>
                \A m \in Monitors : mon'[m].pc \in {"unborn", "dead"}
          /\ shell'[x].pc = "pid" =>
                \A m \in Monitors : mon'[m].pc \in {"unborn", "dead"} \/ shell'[x].pid = m
    BY <1>1, <1>2
  <1>4. \A m \in Monitors : mon'[m].pc \notin {"unborn", "dead"} =>
          /\ mon'[m].query = config'
          /\ pidFile' = m \/ \E x \in Shells : shell'[x].pc = "pid"
    BY <1>1
  <1> QED
    BY <1>2, <1>3, <1>4 DEF WatchInv, Alive

\* Every step keeps the one monitor.
LEMMA NextWatchInv ==
  ASSUME TypeInv, WatchInv, [Next]_vars
  PROVE  WatchInv'
  <1>1. /\ shell \in [Shells -> ShellRecord] /\ mon \in [Monitors -> MonRecord]
        /\ \A s \in Shells : shell[s] \in ShellRecord /\ ShellFits(shell[s], config)
        /\ pidFile \in Monitors \cup {None} /\ None \notin Monitors
    BY SetsAssumption DEF TypeInv
  <1>2. \A m \in Monitors : Alive(m) <=> mon[m].pc \notin {"unborn", "dead"}
    BY <1>1 DEF Alive
  <1>3. ASSUME ~stray, NEW s \in Shells, shell[s].pc # "idle"
        PROVE  \A o \in Shells \ {s} : shell[o].pc = "idle"
    BY <1>3 DEF WatchInv
  <1>4. ASSUME ~stray, NEW m \in Monitors, Alive(m)
        PROVE  mon[m].query = config /\ (pidFile = m \/ \E s \in Shells : shell[s].pc = "pid")
    BY <1>4 DEF WatchInv
  <1>5. ASSUME NEW s \in Shells, NEW q \in Queries \cup {None},
               NEW cmd \in {"start", "stop", "status"}, Begin(s, cmd, q)
        PROVE  WatchInv'
    <2> DEFINE r == [pc |-> IF cmd = "start" THEN "kill" ELSE "stale",
                     cmd |-> cmd, query |-> q, pid |-> pidFile]
    <2>1. r \in ShellRecord /\ r.pc \in {"kill", "stale"} /\ r.pid = pidFile
      BY <1>1 DEF ShellRecord
    <2>2. shell' = [shell EXCEPT ![s] = r] /\ UNCHANGED <<pidFile, config, disk, mon, quiet>>
      BY <1>5 DEF Begin, Goto
    <2>3. ~stray' => ~stray /\ \A o \in Shells \ {s} : shell[o].pc = "idle"
      <3>1. stray' = (stray \/ \E o \in Shells \ {s} : shell[o].pc # "idle")
        BY <1>5 DEF Begin
      <3> QED
        BY <3>1
    <2>4. shell[s].pc = "idle"
      BY <1>5 DEF Begin
    <2> HIDE DEF r
    <2>5. ~stray' => \A m \in Monitors : Alive(m) => mon[m].query = config /\ pidFile = m
      BY <1>4, <2>3, <2>4
    <2> QED
      BY <1>2, <2>1, <2>2, <2>3, <2>5, WatchMoves
  <1>6. ASSUME NEW s \in Shells, CleanupStale(s)
        PROVE  WatchInv'
    <2> DEFINE r == [shell[s] EXCEPT !.pc = "kill", !.pid = pidFile']
    <2>1. /\ UNCHANGED <<config, disk, mon, stray, quiet>> /\ shell[s].pc = "stale"
          /\ pidFile' = pidFile \/ (pidFile' = None /\ ~Alive(shell[s].pid))
      BY <1>6 DEF CleanupStale
    <2>2. r \in ShellRecord /\ r.pc = "kill" /\ r.pid = pidFile'
      BY <1>1, <2>1 DEF ShellRecord
    <2>3. shell' = [shell EXCEPT ![s] = r] \/ shell' = [shell EXCEPT ![s] = Idle]
      BY <1>6 DEF CleanupStale, Goto
    <2> HIDE DEF r
    <2>4. ~stray =>
            /\ \A o \in Shells \ {s} : shell[o].pc = "idle"
            /\ shell[s].pid = pidFile
      BY <1>3, <2>1 DEF WatchInv
    <2>5. ~stray => \A m \in Monitors : Alive(m) => mon[m].query = config /\ pidFile' = m
      BY <1>4, <2>1, <2>4
    <2> QED
      BY <1>2, <2>1, <2>2, <2>3, <2>4, <2>5, WatchMoves, IdleIs
  <1>7. ASSUME NEW s \in Shells, KillExisting(s)
        PROVE  WatchInv'
    <2> DEFINE r == [shell[s] EXCEPT !.pc = "remove", !.pid = None]
    <2>1. /\ UNCHANGED <<pidFile, config, disk, stray, quiet>> /\ shell[s].pc = "kill"
          /\ mon' = IF Alive(shell[s].pid) THEN [mon EXCEPT ![shell[s].pid] = Dead] ELSE mon
          /\ shell' = [shell EXCEPT ![s] = r]
      BY <1>7 DEF KillExisting, Goto
    <2>2. r \in ShellRecord /\ r.pc = "remove"
      BY <1>1, <2>1 DEF ShellRecord
    <2> HIDE DEF r
    <2>3. ~stray =>
            /\ \A o \in Shells \ {s} : shell[o].pc = "idle"
            /\ shell[s].pid = pidFile
      BY <1>3, <2>1 DEF WatchInv
    <2>4. ~stray => \A m \in Monitors : Alive(m) => shell[s].pid = m
      BY <1>4, <2>1, <2>3
    <2>5. ~stray => \A m \in Monitors : mon'[m].pc \in {"unborn", "dead"}
      BY <1>1, <1>2, <2>1, <2>4, IdleIs
    <2> QED
      BY <2>1, <2>2, <2>3, <2>5, WatchMoves
  <1>8. ASSUME NEW s \in Shells, NEW pc \in {"config", "source", "spawn", "idle"},
               NEW r \in ShellRecord, r.pc = pc, shell' = [shell EXCEPT ![s] = r],
               UNCHANGED <<mon, stray>>, pc = "spawn" => r.query = config',
               shell[s].pc \in {"remove", "config", "source"}
        PROVE  WatchInv'
    <2>1. ~stray =>
            /\ \A o \in Shells \ {s} : shell[o].pc = "idle"
            /\ \A m \in Monitors : mon[m].pc \in {"unborn", "dead"}
      BY <1>2, <1>3, <1>8 DEF WatchInv
    <2> QED
      BY <1>8, <2>1, WatchMoves
  <1>9. ASSUME NEW s \in Shells, RemovePidFile(s)
        PROVE  WatchInv'
    <2> DEFINE r == [shell[s] EXCEPT !.pc = "config"]
    <2>1. /\ UNCHANGED <<mon, stray>> /\ shell[s].pc = "remove"
          /\ shell' = [shell EXCEPT ![s] = r] \/ shell' = [shell EXCEPT ![s] = Idle]
      BY <1>9 DEF RemovePidFile, Goto
    <2>2. r \in ShellRecord /\ r.pc = "config"
      BY <1>1 DEF ShellRecord
    <2> HIDE DEF r
    <2>3. CASE shell' = [shell EXCEPT ![s] = r]
      BY <1>8, <2>1, <2>2, <2>3
    <2>4. CASE shell' = [shell EXCEPT ![s] = Idle]
      BY <1>8, <2>1, <2>4, IdleIs
    <2> QED
      BY <2>1, <2>3, <2>4
  <1>10. ASSUME NEW s \in Shells, WriteConfig(s)
         PROVE  WatchInv'
    <2> DEFINE r == [shell[s] EXCEPT !.pc = "source"]
    <2>1. /\ UNCHANGED <<mon, stray>> /\ shell[s].pc = "config"
          /\ shell' = [shell EXCEPT ![s] = r]
      BY <1>10 DEF WriteConfig, Goto
    <2>2. r \in ShellRecord /\ r.pc = "source"
      BY <1>1 DEF ShellRecord
    <2> HIDE DEF r
    <2> QED
      BY <1>8, <2>1, <2>2
  <1>11. ASSUME NEW s \in Shells, SourceConfig(s)
         PROVE  WatchInv'
    <2> DEFINE r == [shell[s] EXCEPT !.pc = "spawn", !.query = config]
    <2>1. /\ UNCHANGED <<mon, stray, config>> /\ shell[s].pc = "source"
          /\ shell' = [shell EXCEPT ![s] = r]
      BY <1>11 DEF SourceConfig, Goto
    <2>2. r \in ShellRecord /\ r.pc = "spawn" /\ r.query = config
      BY <1>1 DEF ShellRecord, TypeInv
    <2> HIDE DEF r
    <2> QED
      BY <1>8, <2>1, <2>2
  <1>12. ASSUME NEW s \in Shells, Spawn(s)
         PROVE  WatchInv'
    <2>1. PICK m \in Monitors :
            /\ mon[m].pc = "unborn"
            /\ mon' = [mon EXCEPT ![m].pc = "load", ![m].query = shell[s].query]
            /\ shell' = [shell EXCEPT ![s] = [shell[s] EXCEPT !.pc = "pid", !.pid = m]]
      BY <1>12 DEF Spawn, Goto
    <2> DEFINE r == [shell[s] EXCEPT !.pc = "pid", !.pid = m]
    <2>2. UNCHANGED <<pidFile, config, disk, stray, quiet>> /\ shell[s].pc = "spawn"
      BY <1>12 DEF Spawn
    <2>3. r \in ShellRecord /\ r.pc = "pid" /\ r.pid = m
      BY <1>1 DEF ShellRecord
    <2>4. /\ mon'[m].query = shell[s].query
          /\ \A x \in Monitors \ {m} : mon'[x] = mon[x]
      BY <1>1, <2>1 DEF MonRecord
    <2>5. ~stray =>
            /\ \A o \in Shells \ {s} : shell[o].pc = "idle"
            /\ shell[s].query = config
            /\ \A x \in Monitors : mon[x].pc \in {"unborn", "dead"}
      BY <1>2, <1>3, <2>2 DEF WatchInv
    <2>6. shell' = [shell EXCEPT ![s] = r]
      BY <2>1
    <2> HIDE DEF r
    <2> QED
      BY <2>2, <2>3, <2>4, <2>5, <2>6, WatchMoves
  <1>13. ASSUME NEW s \in Shells, WritePid(s)
         PROVE  WatchInv'
    <2>1. /\ pidFile' = shell[s].pid /\ UNCHANGED <<config, disk, mon, stray, quiet>>
          /\ shell' = [shell EXCEPT ![s] = Idle] /\ shell[s].pc = "pid"
      BY <1>13 DEF WritePid, Goto
    <2>2. ~stray =>
            /\ \A o \in Shells \ {s} : shell[o].pc = "idle"
            /\ \A m \in Monitors : Alive(m) => shell[s].pid = m /\ mon[m].query = config
      BY <1>3, <1>4, <2>1 DEF WatchInv
    <2> QED
      BY <1>2, <2>1, <2>2, WatchMoves, IdleIs
  <1>14. ASSUME NEW m \in Monitors, Acts(m)
         PROVE  WatchInv'
    <2>1. \A x \in Monitors : mon'[x].pc \notin {"unborn", "dead"} =>
            mon[x].pc \notin {"unborn", "dead"} /\ mon'[x].query = mon[x].query
      BY <1>14, IdleIs DEF Acts
    <2> QED
      BY <1>14, <2>1, WatchStays DEF Acts
  <1>15. CASE Ages
    BY <1>15, WatchStays DEF Ages
  <1>16. CASE UNCHANGED vars
    BY <1>16, WatchStays DEF vars
  <1>17. ASSUME NEW s \in Shells, ShellEnds(s)
         PROVE  WatchInv'
    <2>1. /\ UNCHANGED <<pidFile, config, disk, mon, quiet>> /\ shell[s].pc # "idle"
          /\ shell' = [shell EXCEPT ![s] = Idle] /\ stray' = (stray \/ shell[s].pc = "pid")
      BY <1>17 DEF ShellEnds, Goto
    <2>2. ~stray' =>
            /\ ~stray /\ \A o \in Shells : shell[o].pc # "pid"
            /\ \A o \in Shells \ {s} : shell[o].pc = "idle"
      BY <1>3, <2>1
    <2>3. ~stray' => \A m \in Monitors : Alive(m) => mon[m].query = config /\ pidFile = m
      BY <1>4, <2>2
    <2> QED
      BY <1>2, <2>1, <2>2, <2>3, WatchMoves, IdleIs
  <1> QED
    BY <1>5, <1>6, <1>7, <1>9, <1>10, <1>11, <1>12, <1>13, <1>14, <1>15, <1>16, <1>17, StepIs
       DEF ShellNext

\* At the start there is no monitor.
LEMMA InitWatchInv == Init => WatchInv
  BY IdleIs DEF Init, WatchInv, Alive

LEMMA WatchHolds == Spec => [](TypeInv /\ WatchInv)
  <1>1. TypeInv /\ WatchInv /\ [Next]_vars => TypeInv' /\ WatchInv'
    BY NextTypeInv, NextWatchInv
  <1> QED
    BY InitTypeInv, InitWatchInv, <1>1, PTL DEF Spec

\* As long as no two invocations of watch.sh have overlapped, and none has ended between the
\* spawn and its pid file, there is one monitor, the one that stop would find, and it watches
\* what was asked for last: a start kills what it has found before it starts another, and no
\* later one comes between.
THEOREM OneMonitorHolds == Spec => []OneMonitor
  <1>1. TypeInv /\ WatchInv => OneMonitor
    <2> SUFFICES ASSUME TypeInv, WatchInv, ~stray, NEW m \in Monitors, Alive(m)
                 PROVE  /\ pidFile = m \/ \E s \in Shells : shell[s].pc = "pid" /\ shell[s].pid = m
                        /\ \A s \in Shells : shell[s].cmd = "start" => shell[s].pc \in {"kill", "pid"}
                        /\ mon[m].query = config
      BY DEF OneMonitor
    <2>1. /\ pidFile = m \/ \E s \in Shells : shell[s].pc = "pid" /\ shell[s].pid = m
          /\ mon[m].query = config
      BY DEF WatchInv
    <2>2. \A s \in Shells : shell[s].cmd = "start" => shell[s].pc \in {"kill", "pid"}
      <3> TAKE s \in Shells
      <3>1. shell[s] \in ShellRecord /\ ShellFits(shell[s], config)
        BY DEF TypeInv
      <3>2. shell[s].pc \notin {"remove", "config", "source", "spawn"}
        BY DEF WatchInv
      <3> QED
        BY <3>1, <3>2 DEF ShellRecord, ShellFits
    <2> QED
      BY <2>1, <2>2
  <1> QED
    BY WatchHolds, <1>1, PTL

-----------------------------------------------------------------------------
(* The reminders.                                                          *)

\* The last reminder about t, as t has it, is no nearer than n.
Spaced(t, n) == n >= IF t.present THEN t.silence ELSE Limit

\* What a monitor that runs is to have right.
MonSpaced(r, n) ==
    /\ r.pc \in {"poll", "save", "write", "send"} => Spaced(r.target, n)
    /\ r.pc = "send" \/ r.event # None => r.target.present

SaveInv ==
    ~stray =>
        /\ disk \in DiskRecord => Spaced(disk.target, quiet)
        /\ \A m \in Monitors :
            /\ mon[m].pc = "send" => disk = [query |-> mon[m].query, target |-> mon[m].target]
            /\ MonSpaced(mon[m], quiet)

\* At the limit whatever a target has is spaced.
LEMMA LimitSpaced ==
  ASSUME NEW t \in Target
  PROVE  Spaced(t, Limit)
  BY LimitFacts DEF Spaced, Target

\* The time passes alike for a target and for the last reminder.
LEMMA LaterSpaced ==
  ASSUME NEW t \in Target, NEW n \in 0 .. Limit, Spaced(t, n)
  PROVE  Spaced(Later(t), IF n = Limit THEN Limit ELSE n + 1)
  <1>1. t.silence \in Nat /\ t.silence <= Limit /\ Limit \in Nat /\ n \in Nat /\ n <= Limit
    BY LimitFacts DEF Target
  <1>2. /\ Later(t).present = t.present
        /\ Later(t).silence = IF t.silence = Limit THEN Limit ELSE t.silence + 1
    BY LaterIs
  <1> QED
    BY <1>1, <1>2 DEF Spaced

\* One monitor moves, while the others do nothing.
LEMMA SaveMoves ==
  ASSUME TypeInv, WatchInv, SaveInv, NEW m \in Monitors, Acts(m),
         ~stray =>
            /\ disk' \in DiskRecord => Spaced(disk'.target, quiet')
            /\ mon'[m].pc = "send" =>
                  disk' = [query |-> mon'[m].query, target |-> mon'[m].target]
            /\ MonSpaced(mon'[m], quiet')
  PROVE  SaveInv'
  <1> SUFFICES ASSUME ~stray' PROVE SaveInv'
    BY DEF SaveInv
  <1>1. stray' = stray /\ \A x \in Monitors \ {m} : mon'[x] = mon[x]
    BY DEF Acts
  <1>2. \A x \in Monitors : Alive(x) <=> mon[x].pc \notin {"unborn", "dead"}
    BY SetsAssumption DEF Alive
  <1>3. \A x \in Monitors \ {m} : mon[x].pc \in {"unborn", "dead"} /\ MonFits(mon[x])
    BY <1>1, <1>2, OnlyOne DEF TypeInv, Acts
  <1>4. \A x \in Monitors : mon'[x].pc = "send" =>
           disk' = [query |-> mon'[x].query, target |-> mon'[x].target]
    BY <1>1, <1>3
  <1>5. \A x \in Monitors : MonSpaced(mon'[x], quiet')
    BY <1>1, <1>3 DEF MonSpaced, MonFits
  <1> QED
    BY <1>1, <1>4, <1>5 DEF SaveInv

\* Every step keeps the reminders spaced.
LEMMA NextSaveInv ==
  ASSUME TypeInv, WatchInv, SaveInv, [Next]_vars
  PROVE  SaveInv'
  <1>1. /\ mon \in [Monitors -> MonRecord] /\ quiet \in 0 .. Limit
        /\ \A m \in Monitors : mon[m].target \in Target /\ MonFits(mon[m])
        /\ disk \in {None, Torn} \cup DiskRecord
        /\ Dead.pc = "dead" /\ Dead.event = None
    BY IdleIs DEF TypeInv, MonRecord
  <1>2. Torn \notin DiskRecord /\ None \notin DiskRecord
    BY SetsAssumption, FileAssumption DEF Torn, DiskRecord
  <1>3. CASE UNCHANGED vars
    BY <1>3 DEF vars, SaveInv, MonSpaced
  <1>4. CASE ActsOn
    <2> SUFFICES ASSUME ~stray' PROVE SaveInv'
      BY DEF SaveInv
    <2>1. ~stray /\ UNCHANGED <<disk, quiet>>
      BY <1>4 DEF ActsOn
    <2>2. \A m \in Monitors :
            /\ mon'[m].pc = "send" => disk = [query |-> mon'[m].query, target |-> mon'[m].target]
            /\ MonSpaced(mon'[m], quiet)
      <3> TAKE m \in Monitors
      <3>1. CASE mon'[m] = mon[m]
        BY <2>1, <3>1 DEF SaveInv
      <3>2. CASE mon'[m].pc \in {"dead", "load"} /\ mon'[m].event = None
        BY <3>2 DEF MonSpaced
      <3> QED
        BY <1>1, <1>4, <3>1, <3>2 DEF ActsOn
    <2> QED
      BY <2>1, <2>2 DEF SaveInv
  <1>5. CASE Ages
    <2> SUFFICES ASSUME ~stray' PROVE SaveInv'
      BY DEF SaveInv
    <2>1. ~stray /\ quiet' = IF quiet = Limit THEN Limit ELSE quiet + 1
      BY <1>5 DEF Ages
    <2>2. disk' \in DiskRecord => Spaced(disk'.target, quiet')
      <3>1. CASE disk \in DiskRecord
        <4>1. disk.target \in Target /\ Spaced(disk.target, quiet)
          BY <2>1, <3>1 DEF DiskRecord, SaveInv
        <4>2. disk'.target = Later(disk.target)
          <5>1. disk' = [disk EXCEPT !.target = Later(disk.target)]
            BY <1>2, <1>5, <3>1 DEF Ages
          <5> QED
            BY <3>1, <5>1 DEF DiskRecord
        <4> QED
          BY <1>1, <2>1, <4>1, <4>2, LaterSpaced
      <3>2. CASE disk \notin DiskRecord
        BY <1>1, <1>5, <3>2 DEF Ages
      <3> QED
        BY <3>1, <3>2
    <2>3. ASSUME NEW m \in Monitors
          PROVE  MonSpaced(mon'[m], quiet')
      <3>1. /\ mon'[m].target = Later(mon[m].target) /\ mon'[m].pc = mon[m].pc
            /\ mon'[m].event = mon[m].event /\ MonSpaced(mon[m], quiet)
        BY <1>5, <2>1 DEF Ages, SaveInv
      <3>2. Spaced(mon[m].target, quiet) => Spaced(mon'[m].target, quiet')
        BY <1>1, <2>1, <3>1, LaterSpaced
      <3>3. mon'[m].target.present = mon[m].target.present
        BY <1>1, <3>1, LaterIs
      <3> QED
        BY <3>1, <3>2, <3>3 DEF MonSpaced
    <2>4. ASSUME NEW m \in Monitors, mon'[m].pc = "send"
          PROVE  disk' = [query |-> mon'[m].query, target |-> mon'[m].target]
      <3>1. /\ mon'[m].target = Later(mon[m].target) /\ mon'[m].pc = mon[m].pc
            /\ mon'[m].query = mon[m].query
        BY <1>5 DEF Ages
      <3>2. disk = [query |-> mon[m].query, target |-> mon[m].target]
        BY <2>1, <2>4, <3>1 DEF SaveInv
      <3>3. disk \in DiskRecord
        BY <1>1, <2>4, <3>1, <3>2 DEF DiskRecord, MonFits
      <3>4. disk' = [disk EXCEPT !.target = Later(disk.target)]
        BY <1>2, <1>5, <3>3 DEF Ages
      <3> QED
        BY <3>1, <3>2, <3>4
    <2> QED
      BY <2>1, <2>2, <2>3, <2>4 DEF SaveInv
  <1>6. ASSUME NEW m \in Monitors, Acts(m)
        PROVE  SaveInv'
    <2> DEFINE Goal ==
           ~stray =>
             /\ disk' \in DiskRecord => Spaced(disk'.target, quiet')
             /\ mon'[m].pc = "send" => disk' = [query |-> mon'[m].query, target |-> mon'[m].target]
             /\ MonSpaced(mon'[m], quiet')
    <2> SUFFICES Goal
      BY <1>6, SaveMoves
    <2>1. ~stray =>
            /\ disk \in DiskRecord => Spaced(disk.target, quiet)
            /\ mon[m].pc = "send" => disk = [query |-> mon[m].query, target |-> mon[m].target]
            /\ MonSpaced(mon[m], quiet)
      BY DEF SaveInv
    <2>2. mon[m].target \in Target /\ MonFits(mon[m])
      BY <1>1
    <2>3. /\ mon'[m].target \in Target /\ MonFits(mon'[m])
          /\ mon[m].pc \in Steps \ {"unborn", "dead"}
      BY <1>6, NextTypeInv DEF TypeInv, MonRecord, Acts
    <2>4. /\ mon[m].target.silence \in Nat /\ mon[m].target.silence <= Limit /\ Limit \in Nat
          /\ quiet \in Nat
      BY <1>1, <2>2, LimitFacts DEF Target
    <2>5. CASE mon'[m] = Dead /\ UNCHANGED <<disk, quiet>>
      BY <1>1, <2>1, <2>5 DEF MonSpaced
    <2>6. CASE Loads(m) /\ UNCHANGED disk
      <3> DEFINE known == disk # None /\ disk.query = mon[m].query
      <3>1. /\ disk # Torn /\ mon'[m].pc = "poll" /\ mon'[m].event = None
            /\ mon'[m].target = IF known THEN disk.target ELSE mon[m].target
            /\ quiet' = IF known THEN quiet ELSE Limit
        BY <2>3, <2>6 DEF Loads, MonFits
      <3>2. CASE known
        <4>1. disk \in DiskRecord
          BY <1>1, <3>1, <3>2
        <4> QED
          BY <2>1, <2>6, <3>1, <3>2, <4>1 DEF MonSpaced
      <3>3. CASE ~known
        <4>1. Spaced(mon'[m].target, quiet')
          BY <2>3, <3>1, <3>3, LimitSpaced
        <4>2. disk \in DiskRecord => Spaced(disk.target, quiet')
          BY <3>1, <3>3, LimitSpaced DEF DiskRecord
        <4> QED
          BY <2>6, <3>1, <4>1, <4>2 DEF MonSpaced
      <3> QED
        BY <3>2, <3>3
    <2>7. CASE Hits(m) /\ UNCHANGED disk
      <3>1. /\ mon[m].pc = "poll" /\ mon'[m].pc = "save" /\ quiet' = quiet
            /\ mon'[m].target.present
            /\ mon'[m].target.silence = 0 \/ mon'[m].target.silence = mon[m].target.silence
        BY <2>2, <2>7, HitIs DEF Hits
      <3>2. ~stray => Spaced(mon'[m].target, quiet')
        BY <2>1, <2>4, <3>1 DEF MonSpaced, Spaced
      <3> QED
        BY <2>1, <2>7, <3>1, <3>2 DEF MonSpaced
    <2>8. CASE Misses(m) /\ UNCHANGED disk
      <3> DEFINE t == Miss(mon[m].target)
      <3>1. /\ mon[m].pc = "poll" /\ mon'[m].pc = "save" /\ mon'[m].event = None
            /\ mon'[m].target = t /\ quiet' = IF t.present THEN quiet ELSE Limit
        BY <2>8 DEF Misses
      <3>2. t \in Target /\ (t.present => mon[m].target.present /\ t.silence = mon[m].target.silence)
        BY <2>2, MissIs
      <3> HIDE DEF t
      <3>3. CASE t.present
        BY <2>1, <2>8, <3>1, <3>2, <3>3 DEF MonSpaced, Spaced
      <3>4. CASE ~t.present
        <4>1. Spaced(t, quiet')
          BY <3>1, <3>2, <3>4, LimitSpaced
        <4>2. disk \in DiskRecord => Spaced(disk.target, quiet')
          BY <3>1, <3>4, LimitSpaced DEF DiskRecord
        <4> QED
          BY <2>8, <3>1, <4>1, <4>2 DEF MonSpaced
      <3> QED
        BY <3>3, <3>4
    <2>9. CASE Polls(m) /\ UNCHANGED disk
      <3>1. /\ mon[m].pc \in {"poll", "save", "write", "send"}
            /\ mon'[m].pc = "poll" /\ mon'[m].target = mon[m].target /\ mon'[m].event = None
        BY <2>3, <2>9 DEF Polls, Steps
      <3>2. CASE quiet' = quiet
        BY <2>1, <2>9, <3>1, <3>2 DEF MonSpaced
      <3>3. CASE mon[m].pc = "send" /\ quiet' = mon[m].target.silence
        <4>1. ~stray => disk.target = mon[m].target /\ mon[m].target.present
          BY <2>1, <3>3 DEF MonSpaced
        <4>2. ~stray => Spaced(mon[m].target, quiet')
          BY <2>4, <3>3, <4>1 DEF Spaced
        <4> QED
          BY <2>9, <3>1, <4>1, <4>2 DEF MonSpaced
      <3> QED
        BY <2>9, <3>2, <3>3 DEF Polls
    <2>10. CASE Saves(m) /\ mon'[m].query = mon[m].query
      <3>1. /\ mon[m].pc \in {"save", "write"} /\ quiet' = quiet
            /\ mon'[m].target = mon[m].target /\ mon'[m].event = mon[m].event
        BY <2>10 DEF Saves
      <3>2. ~stray =>
              /\ Spaced(mon'[m].target, quiet')
              /\ mon'[m].event # None => mon'[m].target.present
        BY <2>1, <3>1 DEF MonSpaced
      <3>3. CASE mon'[m].pc = "write" /\ disk' = Torn
        BY <1>2, <3>2, <3>3 DEF MonSpaced
      <3>4. CASE /\ mon'[m].pc = IF mon[m].event # None THEN "send" ELSE "poll"
                 /\ disk' = [query |-> mon[m].query, target |-> mon[m].target]
        BY <2>10, <3>1, <3>2, <3>4 DEF MonSpaced
      <3> QED
        BY <2>10, <3>3, <3>4 DEF Saves
    <2> QED
      BY <1>6, <2>5, <2>6, <2>7, <2>8, <2>9, <2>10 DEF Acts
  <1> QED
    BY <1>3, <1>4, <1>5, <1>6, StepIs

\* At the start nothing was sent.
LEMMA InitSaveInv == Init => SaveInv
  <1> SUFFICES ASSUME Init PROVE SaveInv
    OBVIOUS
  <1>1. disk \notin DiskRecord
    BY FileAssumption DEF Init, DiskRecord
  <1>2. \A m \in Monitors : mon[m].pc = "unborn" /\ mon[m].event = None
    BY DEF Init, Unborn
  <1> QED
    BY <1>1, <1>2 DEF SaveInv, MonSpaced

LEMMA SavedHolds == Spec => [](TypeInv /\ WatchInv /\ SaveInv)
  <1>1. TypeInv /\ WatchInv /\ SaveInv /\ [Next]_vars => SaveInv'
    BY NextSaveInv
  <1> QED
    BY WatchHolds, InitSaveInv, <1>1, PTL DEF Spec

\* A reminder is sent only when its decision is in the state file: no other monitor writes
\* there between the two, and a monitor that is killed around the sending leaves it there.
THEOREM DecisionSavedHolds == Spec => []DecisionSaved
  <1>1. SaveInv => DecisionSaved
    BY DEF SaveInv, DecisionSaved
  <1> QED
    BY SavedHolds, <1>1, PTL

\* The next reminder about a target that stays in view is decided no earlier than both
\* thresholds after the last one sent, whatever monitors were killed and started between.
THEOREM RemindersSpacedHolds == Spec => RemindersSpaced
  <1> DEFINE Apart(m) ==
        ~stray /\ mon[m].pc = "poll" /\ mon'[m].event # None => quiet >= Limit
  <1>1. ASSUME TypeInv, WatchInv, SaveInv, [Next]_vars, NEW m \in Monitors
        PROVE  Apart(m)
    <2> SUFFICES ASSUME ~stray, mon[m].pc = "poll", mon'[m].event # None
                 PROVE  quiet >= Limit
      OBVIOUS
    <2>1. /\ mon[m].target \in Target /\ mon[m].event = None /\ Dead.event = None
          /\ Spaced(mon[m].target, quiet)
      BY <1>1, IdleIs DEF TypeInv, MonRecord, MonFits, SaveInv, MonSpaced
    <2>2. Acts(m)
      BY <1>1, <2>1, StepIs DEF Acts, ActsOn, Ages, vars
    <2>3. Hits(m)
      BY <1>1, <2>1, <2>2 DEF Acts, Loads, Misses, Polls, Saves
    <2>4. mon[m].target.present => mon[m].target.silence >= Limit
      BY <2>1, <2>3, HitIs DEF Hits
    <2>5. mon[m].target.silence \in Nat /\ quiet \in Nat /\ Limit \in Nat
      BY <1>1, <2>1, LimitFacts DEF TypeInv, Target
    <2> QED
      BY <2>1, <2>4, <2>5 DEF Spaced
  <1>2. TypeInv /\ WatchInv /\ SaveInv /\ [Next]_vars => \A m \in Monitors : Apart(m)
    BY <1>1
  <1> QED
    BY SavedHolds, <1>2, PTL DEF Spec, RemindersSpaced

-----------------------------------------------------------------------------
(* The decoder: arithmetic of rows                                         *)

\* A row ends before the next one begins.
LEMMA RowFits ==
  ASSUME NEW s \in Nat, NEW h \in Nat, NEW y \in 0 .. h - 1
  PROVE  /\ y * s \in Nat /\ h * s \in Nat
         /\ y * s + s <= h * s
  <1>1. PICK d \in Nat : h = y + 1 + d
    <2>1. h - y - 1 \in Nat /\ h = y + 1 + (h - y - 1)
      OBVIOUS
    <2> QED
      BY <2>1
  <1>2. h * s = y * s + s + d * s
    BY <1>1
  <1>3. y * s \in Nat /\ h * s \in Nat /\ d * s \in Nat
    BY <1>1
  <1> QED
    BY <1>2, <1>3

\* What a column is made of.
LEMMA Columns ==
  ASSUME NEW x \in Nat
  PROVE  /\ x % 2 \in {0, 1} /\ x = 2 * (x \div 2) + (x % 2) /\ x \div 2 \in Nat
         /\ x % 4 \in 0 .. 3 /\ x = 4 * (x \div 4) + (x % 4) /\ x \div 4 \in Nat
  <1>1. x % 2 \in {0, 1} /\ x = 2 * (x \div 2) + (x % 2) /\ x \div 2 \in Nat
    OBVIOUS
  <1>2. x % 4 \in 0 .. 3 /\ x = 4 * (x \div 4) + (x % 4) /\ x \div 4 \in Nat
    OBVIOUS
  <1> QED
    BY <1>1, <1>2

\* The arguments of a job, and the stride that is used.
LEMMA StrideOK ==
  ASSUME NEW job \in Jobs
  PROVE  /\ job.format \in Formats /\ job.width \in Nat /\ job.height \in Nat
         /\ job.size \in Nat
         /\ MinStride(job) \in Nat /\ Stride(job) \in Nat /\ Stride(job) >= MinStride(job)
  <1>1. /\ job.format \in Formats /\ job.width \in Nat /\ job.height \in Nat
        /\ job.size \in Nat /\ job.stride \in Nat \cup {Unset}
    BY SizesAssumption DEF Jobs
  <1>2. MinStride(job) \in Nat
    BY <1>1 DEF MinStride
  <1> HIDE DEF MinStride
  <1>3. Stride(job) \in Nat /\ Stride(job) >= MinStride(job)
    BY <1>1, <1>2, SizesAssumption DEF Stride
  <1> QED
    BY <1>1, <1>2, <1>3

-----------------------------------------------------------------------------
(* The decoder: reading the file                                           *)

\* A byte inside the data is no error, and is the sample that a format of bytes
\* has at its place.
LEMMA ByteInPlace ==
  ASSUME NEW job \in Jobs, NEW row \in Nat, NEW n \in Nat, row + n < Required(job)
  PROVE  Byte(job, row + n) # IndexError /\ Byte(job, row + n) = Place(job, 8, row, n)
  <1>1. Byte(job, row + n) = [b \in 0 .. 7 |-> FileBit(job, 8 * (row + n) + b)]
    BY DEF Byte
  <1>2. \A b \in 0 .. 7 : 8 * (row + n) + b = 8 * row + 8 * n + b
    OBVIOUS
  <1>3. Byte(job, row + n) = Place(job, 8, row, n)
    BY <1>1, <1>2 DEF Place
  <1>4. 0 \in DOMAIN Byte(job, row + n) /\ DOMAIN IndexError = {}
    BY <1>1 DEF IndexError
  <1> QED
    BY <1>3, <1>4

\* Five bytes inside the data are the four samples of ten bits that are packed in
\* them.
LEMMA GroupInPlace ==
  ASSUME NEW job \in Jobs, NEW row \in Nat, NEW q \in Nat,
         NEW i \in 0 .. 3, row + 5 * q + 4 < Required(job)
  PROVE  /\ Unpack4x10(job, row + 5 * q)[i] # IndexError
         /\ Unpack4x10(job, row + 5 * q)[i] = Place(job, 10, row, 4 * q + i)
  <1> DEFINE at == row + 5 * q
             low == 8 - 2 * i
  <1>1. Unpack4x10(job, at)[i] =
           [b \in 0 .. 9 |-> IF b < low THEN FileBit(job, 8 * (at + i) + 2 * i + b)
                             ELSE FileBit(job, 8 * (at + i + 1) + b - low)]
    BY DEF Unpack4x10
  <1>2. \A b \in 0 .. 9 :
           /\ 8 * (at + i) + 2 * i + b = 8 * row + 10 * (4 * q + i) + b
           /\ 8 * (at + i + 1) + b - low = 8 * row + 10 * (4 * q + i) + b
    OBVIOUS
  <1>3. Unpack4x10(job, at)[i] = [b \in 0 .. 9 |-> FileBit(job, 8 * row + 10 * (4 * q + i) + b)]
    BY <1>1, <1>2
  <1>4. Unpack4x10(job, at)[i] = Place(job, 10, row, 4 * q + i)
    BY <1>3 DEF Place
  <1>5. 0 \in DOMAIN Unpack4x10(job, at)[i] /\ DOMAIN IndexError = {}
    BY <1>3 DEF IndexError
  <1> QED
    BY <1>4, <1>5

-----------------------------------------------------------------------------
(* Samples of eight bits                                                   *)

\* Sample <<c, x, y>> is no error, and has its place when it is in a complete group.
Good(job, sample, c, x, y) ==
    sample # IndexError /\ (InGroup(job, x, y) => sample = Expected(job, c, x, y))

LEMMA LumaSizeOK ==
  ASSUME NEW job \in Jobs
  PROVE  LumaSize(job) \in Nat
  BY StrideOK DEF LumaSize

LEMMA Luma8InPlace ==
  ASSUME NEW job \in Jobs, NEW x \in 0 .. job.width - 1, NEW y \in 0 .. job.height - 1,
         Stride(job) >= job.width, Required(job) \in Nat, Required(job) >= LumaSize(job)
  PROVE  Luma8(job, x, y) # IndexError /\ Luma8(job, x, y) = Place(job, 8, y * Stride(job), x)
  <1>1. y * Stride(job) \in Nat /\ y * Stride(job) + Stride(job) <= LumaSize(job)
    BY StrideOK, RowFits DEF LumaSize
  <1>2. y * Stride(job) + x < Required(job)
    BY <1>1, StrideOK, LumaSizeOK
  <1> QED
    BY <1>1, <1>2, ByteInPlace, StrideOK DEF Luma8

LEMMA Chroma8InPlace ==
  ASSUME NEW job \in Jobs, NEW x \in 0 .. job.width - 1, NEW row \in Nat, NEW rows \in Nat,
         NEW c \in {"U", "V"}, Required(job) = LumaSize(job) + rows * Stride(job)
  PROVE  /\ Chroma8(job, row, c, x) # IndexError
         /\ row < rows /\ (x - (x % 2)) + 1 < Stride(job)
                => Chroma8(job, row, c, x) =
                       Place(job, 8, LumaSize(job) + row * Stride(job), 2 * (x \div 2) + Second(c))
  <1> DEFINE n == (x - (x % 2)) + Second(c)
             at == row * Stride(job) + n
  <1>1. n \in Nat /\ n = 2 * (x \div 2) + Second(c) /\ n <= (x - (x % 2)) + 1
    BY Columns, StrideOK DEF Second
  <1> HIDE DEF n
  <1>2. row * Stride(job) \in Nat /\ rows * Stride(job) \in Nat /\ LumaSize(job) \in Nat
    BY StrideOK, LumaSizeOK
  <1>3. Chroma8(job, row, c, x) =
           IF at < Required(job) - LumaSize(job) THEN Byte(job, LumaSize(job) + at) ELSE Grey
    BY <1>1, <1>2, Columns, StrideOK DEF Chroma8, n, Second
  <1>4. LumaSize(job) + at = (LumaSize(job) + row * Stride(job)) + n
    BY <1>1, <1>2
  <1>5. ASSUME at < Required(job) - LumaSize(job)
        PROVE  /\ Byte(job, LumaSize(job) + at) # IndexError
               /\ Byte(job, LumaSize(job) + at) = Place(job, 8, LumaSize(job) + row * Stride(job), n)
    BY <1>1, <1>2, <1>4, <1>5, ByteInPlace
  <1>6. Grey # IndexError
    BY DEF Grey, IndexError
  <1>7. ASSUME row < rows, (x - (x % 2)) + 1 < Stride(job)
        PROVE  at < Required(job) - LumaSize(job)
    <2>1. row * Stride(job) + Stride(job) <= rows * Stride(job)
      BY <1>7, StrideOK, RowFits
    <2> QED
      BY <2>1, <1>1, <1>2, <1>7, StrideOK, Columns
  <1> QED
    BY <1>1, <1>3, <1>5, <1>6, <1>7

LEMMA NV12InPlace ==
  ASSUME NEW job \in Jobs, job.format = "NV12", NEW c \in {"Y", "U", "V"},
         NEW x \in 0 .. job.width - 1, NEW y \in 0 .. job.height - 1
  PROVE  Good(job, NV12(job, c, x, y), c, x, y)
  <1>1. /\ Required(job) = LumaSize(job) + (job.height \div 2) * Stride(job)
        /\ Stride(job) >= job.width
    BY StrideOK DEF Required, Plain, MinStride, Packed
  <1>2. job.height \div 2 \in Nat /\ y \div 2 \in Nat /\ (job.height \div 2) * Stride(job) \in Nat
    BY StrideOK, Columns
  <1>3. CASE c = "Y"
    <2>1. Luma8(job, x, y) # IndexError /\ Luma8(job, x, y) = Place(job, 8, y * Stride(job), x)
      BY <1>1, <1>2, StrideOK, LumaSizeOK, Luma8InPlace
    <2> QED
      BY <2>1, <1>3 DEF Good, NV12, Expected, Bits, Packed
  <1>4. CASE c \in {"U", "V"}
    <2>1. /\ Chroma8(job, y \div 2, c, x) # IndexError
          /\ y \div 2 < job.height \div 2 /\ (x - (x % 2)) + 1 < Stride(job)
                 => Chroma8(job, y \div 2, c, x) =
                        Place(job, 8, LumaSize(job) + (y \div 2) * Stride(job),
                              2 * (x \div 2) + Second(c))
      BY <1>1, <1>2, <1>4, Chroma8InPlace
    <2>2. InGroup(job, x, y) => y \div 2 < job.height \div 2 /\ (x - (x % 2)) + 1 < Stride(job)
      BY <1>1, StrideOK DEF InGroup, Packed, ShareX, ShareY
    <2> QED
      BY <2>1, <2>2, <1>4 DEF Good, NV12, Expected, Bits, Packed, ChromaRow, ShareX, ShareY
  <1> QED
    BY <1>3, <1>4

LEMMA NV16InPlace ==
  ASSUME NEW job \in Jobs, job.format = "NV16", NEW c \in {"Y", "U", "V"},
         NEW x \in 0 .. job.width - 1, NEW y \in 0 .. job.height - 1
  PROVE  Good(job, NV16(job, c, x, y), c, x, y)
  <1>1. Required(job) = LumaSize(job) + job.height * Stride(job) /\ Stride(job) >= job.width
    BY StrideOK, LumaSizeOK DEF Required, Plain, MinStride, Packed, LumaSize
  <1>2. y \in Nat /\ y \div 1 = y /\ job.height * Stride(job) \in Nat
    BY StrideOK
  <1>3. CASE c = "Y"
    <2>1. Luma8(job, x, y) # IndexError /\ Luma8(job, x, y) = Place(job, 8, y * Stride(job), x)
      BY <1>1, <1>2, StrideOK, LumaSizeOK, Luma8InPlace
    <2> QED
      BY <2>1, <1>3 DEF Good, NV16, Expected, Bits, Packed
  <1>4. CASE c \in {"U", "V"}
    <2>1. /\ Chroma8(job, y, c, x) # IndexError
          /\ y < job.height /\ (x - (x % 2)) + 1 < Stride(job)
                 => Chroma8(job, y, c, x) =
                        Place(job, 8, LumaSize(job) + y * Stride(job),
                              2 * (x \div 2) + Second(c))
      BY <1>1, <1>2, <1>4, StrideOK, Chroma8InPlace
    <2>2. InGroup(job, x, y) => y < job.height /\ (x - (x % 2)) + 1 < Stride(job)
      BY <1>1, StrideOK DEF InGroup, Packed, ShareX, ShareY
    <2> QED
      BY <2>1, <2>2, <1>2, <1>4
         DEF Good, NV16, Expected, Bits, Packed, ChromaRow, ShareX, ShareY
  <1> QED
    BY <1>3, <1>4

LEMMA NV24InPlace ==
  ASSUME NEW job \in Jobs, job.format = "NV24", NEW c \in {"Y", "U", "V"},
         NEW x \in 0 .. job.width - 1, NEW y \in 0 .. job.height - 1
  PROVE  Good(job, NV24(job, c, x, y), c, x, y)
  <1>1. Required(job) = 3 * LumaSize(job) /\ Stride(job) >= job.width /\ LumaSize(job) \in Nat
    BY StrideOK, LumaSizeOK DEF Required, Plain, MinStride, Packed
  <1>2. y \div 1 = y /\ x \div 1 = x
    OBVIOUS
  <1>3. CASE c = "Y"
    <2>1. Luma8(job, x, y) # IndexError /\ Luma8(job, x, y) = Place(job, 8, y * Stride(job), x)
      BY <1>1, Luma8InPlace
    <2> QED
      BY <2>1, <1>3 DEF Good, NV24, Expected, Bits, Packed
  <1>4. CASE c \in {"U", "V"}
    <2> DEFINE row == LumaSize(job) + y * (2 * Stride(job))
               n == 2 * x + Second(c)
    <2>1. y * Stride(job) \in Nat /\ y * Stride(job) + Stride(job) <= LumaSize(job)
      BY StrideOK, RowFits DEF LumaSize
    <2>2. /\ row = LumaSize(job) + 2 * (y * Stride(job))
          /\ y * Stride(job) * 2 = 2 * (y * Stride(job))
      BY StrideOK
    <2>3. n \in Nat /\ n < 2 * Stride(job)
      BY <1>1, StrideOK DEF Second
    <2>4. row \in Nat /\ row + n < Required(job)
      BY <1>1, <2>1, <2>2, <2>3, StrideOK
    <2>5. LumaSize(job) + y * Stride(job) * 2 + x * 2 + Second(c) = row + n
      BY <1>1, <2>1, <2>2 DEF Second
    <2>6. Byte(job, row + n) # IndexError /\ Byte(job, row + n) = Place(job, 8, row, n)
      BY <2>3, <2>4, ByteInPlace
    <2> QED
      BY <2>5, <2>6, <1>2, <1>4
         DEF Good, NV24, Expected, Bits, Packed, ChromaRow, ShareX, ShareY
  <1> QED
    BY <1>3, <1>4

LEMMA PlainInPlace ==
  ASSUME NEW job \in Jobs, job.format \in Plain, NEW c \in {"r", "g", "b", "a"},
         NEW x \in 0 .. job.width - 1, NEW y \in 0 .. job.height - 1
  PROVE  /\ job.format = "AB24" => Good(job, AB24(job, c, x, y), c, x, y)
         /\ job.format = "BG24" => Good(job, BG24(job, c, x, y), c, x, y)
  <1>1. Required(job) = LumaSize(job)
    BY DEF Required, Plain
  <1>2. y * Stride(job) \in Nat /\ y * Stride(job) + Stride(job) <= LumaSize(job)
    BY StrideOK, RowFits DEF LumaSize
  <1>3. ASSUME NEW k \in 0 .. 3, NEW n \in Nat, n + k < Stride(job)
        PROVE  /\ Byte(job, y * Stride(job) + n + k) # IndexError
               /\ Byte(job, y * Stride(job) + n + k) = Place(job, 8, y * Stride(job), n + k)
    <2>1. n + k \in Nat /\ y * Stride(job) + (n + k) < Required(job)
      BY <1>1, <1>2, <1>3, StrideOK, LumaSizeOK
    <2>2. y * Stride(job) + n + k = y * Stride(job) + (n + k)
      BY <1>2
    <2> QED
      BY <2>1, <2>2, <1>2, ByteInPlace
  <1>4. CASE job.format = "AB24"
    <2>1. Stride(job) >= job.width * 4
      BY <1>4, StrideOK DEF MinStride, Packed
    <2>2. \A k \in 0 .. 3 : /\ Byte(job, y * Stride(job) + x * 4 + k) # IndexError
                            /\ Byte(job, y * Stride(job) + x * 4 + k) =
                                   Place(job, 8, y * Stride(job), 4 * x + k)
      BY <2>1, <1>3, StrideOK
    <2>3. y * Stride(job) + x * 4 = y * Stride(job) + x * 4 + 0
      BY <1>2
    <2> QED
      BY <2>2, <2>3, <1>4 DEF Good, AB24, Expected
  <1>5. CASE job.format = "BG24"
    <2>1. Stride(job) >= job.width * 3
      BY <1>5, StrideOK DEF MinStride, Packed
    <2>2. \A k \in 0 .. 2 : /\ Byte(job, y * Stride(job) + x * 3 + k) # IndexError
                            /\ Byte(job, y * Stride(job) + x * 3 + k) =
                                   Place(job, 8, y * Stride(job), 3 * x + k)
      BY <2>1, <1>3, StrideOK
    <2>3. y * Stride(job) + x * 3 = y * Stride(job) + x * 3 + 0
      BY <1>2
    <2>4. Opaque # IndexError
      BY DEF Opaque, IndexError
    <2> QED
      BY <2>2, <2>3, <2>4, <1>5 DEF Good, BG24, Expected
  <1> QED
    BY <1>4, <1>5

-----------------------------------------------------------------------------
(* Samples of ten bits                                                     *)

\* The group of four that column x is in has its five bytes inside the row.
LEMMA GroupFits ==
  ASSUME NEW w \in Nat, NEW s \in Nat, s >= (w * 5 + 3) \div 4, NEW q \in Nat, 4 * q + 3 < w
  PROVE  5 * q + 4 < s
  OBVIOUS

LEMMA Luma10InPlace ==
  ASSUME NEW job \in Jobs, job.format \in Packed,
         NEW x \in 0 .. job.width - 1, NEW y \in 0 .. job.height - 1,
         Required(job) \in Nat, Required(job) >= LumaSize(job)
  PROVE  /\ Luma10(job, x, y) # IndexError
         /\ x < job.width - (job.width % 4)
                => Luma10(job, x, y) = Place(job, 10, y * Stride(job), x)
  <1> DEFINE q == x \div 4
             row == y * Stride(job)
  <1>1. q \in Nat /\ x % 4 \in 0 .. 3 /\ x = 4 * q + (x % 4)
    BY Columns
  <1>2. row \in Nat /\ row + Stride(job) <= LumaSize(job)
    BY StrideOK, RowFits DEF LumaSize
  <1>3. x - (x % 4) = 4 * q /\ ((x - (x % 4)) * 5) \div 4 = 5 * q
    BY <1>1
  <1> HIDE DEF q, row
  <1>4. Luma10(job, x, y) = IF 4 * q + 3 < job.width /\ row + 5 * q + 4 < Required(job)
                       THEN Unpack4x10(job, row + 5 * q)[x % 4] ELSE Black
    BY <1>3 DEF Luma10, row
  <1>5. ASSUME row + 5 * q + 4 < Required(job)
        PROVE  /\ Unpack4x10(job, row + 5 * q)[x % 4] # IndexError
               /\ Unpack4x10(job, row + 5 * q)[x % 4] = Place(job, 10, row, x)
    BY <1>1, <1>2, <1>5, GroupInPlace
  <1>6. Black # IndexError
    BY DEF Black, IndexError
  <1>7. ASSUME x < job.width - (job.width % 4)
        PROVE  4 * q + 3 < job.width /\ row + 5 * q + 4 < Required(job)
    <2>1. 4 * q + 3 < job.width
      BY <1>1, <1>7, StrideOK
    <2>2. Stride(job) >= (job.width * 5 + 3) \div 4
      BY StrideOK DEF MinStride
    <2>3. 5 * q + 4 < Stride(job)
      BY <1>1, <2>1, <2>2, StrideOK, GroupFits
    <2> QED
      BY <1>1, <1>2, <2>1, <2>3, StrideOK, LumaSizeOK
  <1> QED
    BY <1>4, <1>5, <1>6, <1>7 DEF row

LEMMA Chroma10InPlace ==
  ASSUME NEW job \in Jobs, job.format \in Packed,
         NEW x \in 0 .. job.width - 1, NEW row \in Nat, NEW rows \in Nat,
         NEW c \in {"U", "V"}, Required(job) = LumaSize(job) + rows * Stride(job)
  PROVE  /\ Chroma10(job, rows, row, c, x) # IndexError
         /\ row < rows /\ x < job.width - (job.width % 4)
                => Chroma10(job, rows, row, c, x) =
                       Place(job, 10, LumaSize(job) + row * Stride(job),
                             2 * (x \div 2) + Second(c))
  <1> DEFINE column == x \div 2
             p == column \div 2
             at == LumaSize(job) + row * Stride(job)
             i == 2 * (column % 2) + Second(c)
  <1>1. column \in Nat /\ p \in Nat /\ column % 2 \in {0, 1} /\ column = 2 * p + (column % 2)
    BY Columns
  <1>2. i \in 0 .. 3 /\ 4 * p + i = 2 * column + Second(c)
    BY <1>1 DEF Second
  <1>3. /\ at \in Nat /\ row * Stride(job) \in Nat
        /\ rows * Stride(job) \in Nat /\ LumaSize(job) \in Nat
    BY StrideOK, LumaSizeOK
  <1>4. column - (column % 2) = 2 * p /\ ((column - (column % 2)) * 5) \div 2 = 5 * p
    BY <1>1
  <1> HIDE DEF p, at
  <1>5. Chroma10(job, rows, row, c, x) =
            IF 2 * p + 1 < job.width \div 2 /\ row < rows /\ at + 5 * p + 4 < Required(job)
            THEN Unpack4x10(job, at + 5 * p)[i] ELSE Black
    BY <1>4 DEF Chroma10, at
  <1> HIDE DEF column, i
  <1>6. ASSUME at + 5 * p + 4 < Required(job)
        PROVE  /\ Unpack4x10(job, at + 5 * p)[i] # IndexError
               /\ Unpack4x10(job, at + 5 * p)[i] = Place(job, 10, at, 2 * column + Second(c))
    <2>1. /\ Unpack4x10(job, at + 5 * p)[i] # IndexError
          /\ Unpack4x10(job, at + 5 * p)[i] = Place(job, 10, at, 4 * p + i)
      BY <1>1, <1>2, <1>3, <1>6, GroupInPlace
    <2> QED
      BY <1>2, <2>1
  <1>7. Black # IndexError
    BY DEF Black, IndexError
  <1>8. ASSUME row < rows, x < job.width - (job.width % 4)
        PROVE  2 * p + 1 < job.width \div 2 /\ at + 5 * p + 4 < Required(job)
    <2>1. 4 * p + 3 < job.width /\ 2 * p + 1 < job.width \div 2
      BY <1>1, <1>8, StrideOK DEF column
    <2>2. Stride(job) >= (job.width * 5 + 3) \div 4
      BY StrideOK DEF MinStride
    <2>3. 5 * p + 4 < Stride(job)
      BY <1>1, <2>1, <2>2, StrideOK, GroupFits
    <2>4. row * Stride(job) + Stride(job) <= rows * Stride(job)
      BY <1>8, StrideOK, RowFits
    <2>5. at + 5 * p + 4 < Required(job)
      BY <1>1, <1>3, <2>3, <2>4, StrideOK DEF at
    <2> QED
      BY <2>1, <2>5
  <1> QED
    BY <1>5, <1>6, <1>7, <1>8 DEF column, at

LEMMA NV15InPlace ==
  ASSUME NEW job \in Jobs, job.format = "NV15", NEW c \in {"Y", "U", "V"},
         NEW x \in 0 .. job.width - 1, NEW y \in 0 .. job.height - 1
  PROVE  Good(job, NV15(job, c, x, y), c, x, y)
  <1>1. Required(job) = LumaSize(job) + (job.height \div 2) * Stride(job) /\ job.format \in Packed
    BY DEF Required, Plain, Packed
  <1>2. job.height \div 2 \in Nat /\ y \div 2 \in Nat /\ (job.height \div 2) * Stride(job) \in Nat
    BY StrideOK, Columns
  <1>3. InGroup(job, x, y) => /\ x < job.width - (job.width % 4)
                         /\ y \div 2 < job.height \div 2
    BY <1>1, StrideOK DEF InGroup, ShareY
  <1>4. CASE c = "Y"
    <2>1. /\ Luma10(job, x, y) # IndexError
          /\ x < job.width - (job.width % 4)
                 => Luma10(job, x, y) = Place(job, 10, y * Stride(job), x)
      BY <1>1, <1>2, LumaSizeOK, Luma10InPlace
    <2> QED
      BY <2>1, <1>1, <1>3, <1>4 DEF Good, NV15, Expected, Bits
  <1>5. CASE c \in {"U", "V"}
    <2>1. /\ Chroma10(job, job.height \div 2, y \div 2, c, x) # IndexError
          /\ y \div 2 < job.height \div 2 /\ x < job.width - (job.width % 4)
                 => Chroma10(job, job.height \div 2, y \div 2, c, x) =
                        Place(job, 10, LumaSize(job) + (y \div 2) * Stride(job),
                              2 * (x \div 2) + Second(c))
      BY <1>1, <1>2, <1>5, Chroma10InPlace
    <2> QED
      BY <2>1, <1>1, <1>3, <1>5 DEF Good, NV15, Expected, Bits, ChromaRow, ShareX, ShareY
  <1> QED
    BY <1>4, <1>5

LEMMA NV20InPlace ==
  ASSUME NEW job \in Jobs, job.format = "NV20", NEW c \in {"Y", "U", "V"},
         NEW x \in 0 .. job.width - 1, NEW y \in 0 .. job.height - 1
  PROVE  Good(job, NV20(job, c, x, y), c, x, y)
  <1>1. Required(job) = LumaSize(job) + job.height * Stride(job) /\ job.format \in Packed
    BY StrideOK, LumaSizeOK DEF Required, Plain, Packed, LumaSize
  <1>2. /\ y \in Nat /\ job.height \in Nat /\ y < job.height /\ y \div 1 = y
        /\ job.height * Stride(job) \in Nat
    BY StrideOK
  <1>3. InGroup(job, x, y) => x < job.width - (job.width % 4)
    BY <1>1 DEF InGroup
  <1>4. CASE c = "Y"
    <2>1. /\ Luma10(job, x, y) # IndexError
          /\ x < job.width - (job.width % 4)
                 => Luma10(job, x, y) = Place(job, 10, y * Stride(job), x)
      BY <1>1, <1>2, LumaSizeOK, Luma10InPlace
    <2> QED
      BY <2>1, <1>1, <1>3, <1>4 DEF Good, NV20, Expected, Bits
  <1>5. CASE c \in {"U", "V"}
    <2>1. /\ Chroma10(job, job.height, y, c, x) # IndexError
          /\ y < job.height /\ x < job.width - (job.width % 4)
                 => Chroma10(job, job.height, y, c, x) =
                        Place(job, 10, LumaSize(job) + y * Stride(job),
                              2 * (x \div 2) + Second(c))
      BY <1>1, <1>2, <1>5, Chroma10InPlace, Zenon
    <2>2. ChromaRow(job, y) = LumaSize(job) + y * Stride(job) /\ ShareX(job) = 2
      BY <1>2 DEF ChromaRow, ShareX, ShareY
    <2>3. Expected(job, c, x, y) =
              Place(job, 10, LumaSize(job) + y * Stride(job), 2 * (x \div 2) + Second(c))
      BY <2>2, <1>1, <1>5 DEF Expected, Bits
    <2>4. NV20(job, c, x, y) = Chroma10(job, job.height, y, c, x)
      BY <1>5 DEF NV20
    <2> QED
      BY <2>1, <2>3, <2>4, <1>2, <1>3, Zenon DEF Good
  <1> QED
    BY <1>4, <1>5

-----------------------------------------------------------------------------
(* All formats                                                             *)

LEMMA SampleGood ==
  ASSUME NEW job \in Jobs, NEW p \in Places(job)
  PROVE  Good(job, Sample(job, p[1], p[2], p[3]), p[1], p[2], p[3])
  <1> DEFINE c == p[1]
             x == p[2]
             y == p[3]
  <1>1. c \in Channels(job.format) /\ x \in 0 .. job.width - 1 /\ y \in 0 .. job.height - 1
    BY DEF Places
  <1> HIDE DEF c, x, y
  <1>2. job.format \in Formats
    BY StrideOK
  <1>3. CASE job.format \in Plain
    <2>1. c \in {"r", "g", "b", "a"}
      BY <1>1, <1>3 DEF Channels
    <2>2. CASE job.format = "AB24"
      BY <1>1, <1>3, <2>1, <2>2, PlainInPlace DEF Sample, c, x, y
    <2>3. CASE job.format = "BG24"
      BY <1>1, <1>3, <2>1, <2>3, PlainInPlace DEF Sample, c, x, y
    <2> QED
      BY <1>3, <2>2, <2>3 DEF Plain
  <1>4. CASE job.format \notin Plain
    <2>1. c \in {"Y", "U", "V"}
      BY <1>1, <1>4 DEF Channels
    <2>2. CASE job.format = "NV12"
      BY <1>1, <2>1, <2>2, NV12InPlace DEF Sample, c, x, y
    <2>3. CASE job.format = "NV16"
      BY <1>1, <2>1, <2>3, NV16InPlace DEF Sample, c, x, y
    <2>4. CASE job.format = "NV24"
      BY <1>1, <2>1, <2>4, NV24InPlace DEF Sample, c, x, y
    <2>5. CASE job.format = "NV15"
      BY <1>1, <2>1, <2>5, NV15InPlace DEF Sample, c, x, y
    <2>6. CASE job.format = "NV20"
      BY <1>1, <2>1, <2>6, NV20InPlace DEF Sample, c, x, y
    <2> QED
      BY <1>2, <1>4, <2>2, <2>3, <2>4, <2>5, <2>6 DEF Formats, Plain
  <1> QED
    BY <1>3, <1>4

\* A converter is called with a job.
LEMMA ArgsInvariant == DecoderSpec => [](args \in Jobs \cup {Unset})
  <1>1. DecoderInit => args \in Jobs \cup {Unset}
    BY DEF DecoderInit
  <1>2. args \in Jobs \cup {Unset} /\ [DecoderNext]_args => (args \in Jobs \cup {Unset})'
    BY DEF DecoderNext, Call, Return
  <1> QED
    BY <1>1, <1>2, PTL DEF DecoderSpec

\* No converter reads past its data, and every sample of a complete group is decoded
\* from its own bits.
THEOREM SamplesInPlaceHolds == DecoderSpec => []SamplesInPlace
  <1>1. args \in Jobs \cup {Unset} => SamplesInPlace
    BY SampleGood DEF SamplesInPlace, Good
  <1> QED
    BY <1>1, ArgsInvariant, PTL

-----------------------------------------------------------------------------
(* Colours                                                                 *)

\* What holds before the clipping.
Near8Unclipped(n, e) == -11000 <= 10000 * n - e /\ 10000 * n - e <= 11000
Near10Unclipped(n, e) == -12000 <= 10000 * n - 4 * e /\ 10000 * n - 4 * e <= 12000

\* What clipping returns.
LEMMA Clipped ==
  ASSUME NEW top \in Nat, NEW k \in Int
  PROVE  /\ k < 0 => Clip(top, k) = 0
         /\ k > top => Clip(top, k) = top
         /\ 0 <= k /\ k <= top => Clip(top, k) = k
  BY DEF Clip

\* Clipping keeps a level near.
LEMMA ClipNear8 ==
  ASSUME NEW n \in Int, NEW e \in Int, Near8Unclipped(n, e)
  PROVE  Near(Clip(255, n), Clip(2550000, e))
  <1> DEFINE m == Clip(255, n)
             f == Clip(2550000, e)
  <1>1. /\ n < 0 => m = 0
        /\ n > 255 => m = 255
        /\ 0 <= n /\ n <= 255 => m = n
    BY Clipped
  <1>2. /\ e < 0 => f = 0
        /\ e > 2550000 => f = 2550000
        /\ 0 <= e /\ e <= 2550000 => f = e
    BY Clipped
  <1>3. -11000 <= 10000 * n - e /\ 10000 * n - e <= 11000
    BY DEF Near8Unclipped
  <1> HIDE DEF m, f
  <1>4. m \in Int /\ f \in Int
    BY <1>1, <1>2
  <1>5. -11000 <= 10000 * m - f /\ 10000 * m - f <= 11000
    BY <1>1, <1>2, <1>3, <1>4
  <1>6. Near(m, f)
    BY <1>4, <1>5 DEF Near
  <1> QED
    BY <1>6 DEF m, f

\* The same for ten bits, written with eight.
LEMMA ClipNear10 ==
  ASSUME NEW n \in Int, NEW e \in Int, Near10Unclipped(n, e)
  PROVE  Near(ToPNG16(Clip(1023, n)), Clip(2550000, e))
  <1> DEFINE k == Clip(1023, n)
             m == ToPNG16(k)
             f == Clip(2550000, e)
  <1>1. /\ n < 0 => k = 0
        /\ n > 1023 => k = 1023
        /\ 0 <= n /\ n <= 1023 => k = n
    BY Clipped
  <1>2. /\ e < 0 => f = 0
        /\ e > 2550000 => f = 2550000
        /\ 0 <= e /\ e <= 2550000 => f = e
    BY Clipped
  <1>3. -12000 <= 10000 * n - 4 * e /\ 10000 * n - 4 * e <= 12000
    BY DEF Near10Unclipped
  <1>4. k \in Int /\ f \in Int
    <2> HIDE DEF k, f
    <2> QED
      BY <1>1, <1>2
  <1>5. m \in Int /\ 4 * m <= k /\ k <= 4 * m + 3
    <2> HIDE DEF k
    <2> QED
      BY <1>4 DEF ToPNG16
  <1> HIDE DEF k, m, f
  <1>6. -11000 <= 10000 * m - f /\ 10000 * m - f <= 11000
    BY <1>1, <1>2, <1>3, <1>4, <1>5
  <1>7. Near(m, f)
    BY <1>4, <1>5, <1>6 DEF Near
  <1> QED
    BY <1>7 DEF k, m, f

\* yuv_planes_to_rgb is near BT.601, for each sample of eight bits.
LEMMA Near8 ==
  ASSUME NEW Y \in 0 .. 255, NEW U \in 0 .. 255, NEW V \in 0 .. 255
  PROVE  /\ Near(ToRGB8(Y, U, V).r, Exact(1, Y, U, V).r)
         /\ Near(ToRGB8(Y, U, V).g, Exact(1, Y, U, V).g)
         /\ Near(ToRGB8(Y, U, V).b, Exact(1, Y, U, V).b)
  <1> DEFINE C == Y - 16
             D == U - 128
             E == V - 128
             R == (298 * C + 409 * E + 128) \div 256
             G == (298 * C - 100 * D - 208 * E + 128) \div 256
             B == (298 * C + 516 * D + 128) \div 256
             r == 11644 * C + 15960 * E
             g == 11644 * C - 3918 * D - 8130 * E
             b == 11644 * C + 20172 * D
  <1>1. C \in -16 .. 239 /\ D \in -128 .. 127 /\ E \in -128 .. 127
    OBVIOUS
  <1>2. /\ ToRGB8(Y, U, V).r = Clip(255, R) /\ ToRGB8(Y, U, V).g = Clip(255, G)
        /\ ToRGB8(Y, U, V).b = Clip(255, B)
    BY DEF ToRGB8
  <1>3. /\ Exact(1, Y, U, V).r = Clip(2550000, r) /\ Exact(1, Y, U, V).g = Clip(2550000, g)
        /\ Exact(1, Y, U, V).b = Clip(2550000, b)
    BY DEF Exact
  <1> HIDE DEF C, D, E
  <1>4. R \in Int /\ r \in Int /\ Near8Unclipped(R, r)
    BY <1>1 DEF Near8Unclipped
  <1>5. G \in Int /\ g \in Int /\ Near8Unclipped(G, g)
    BY <1>1 DEF Near8Unclipped
  <1>6. B \in Int /\ b \in Int /\ Near8Unclipped(B, b)
    BY <1>1 DEF Near8Unclipped
  <1> HIDE DEF R, G, B, r, g, b
  <1>7. Near(Clip(255, R), Clip(2550000, r))
    BY <1>4, ClipNear8
  <1>8. Near(Clip(255, G), Clip(2550000, g))
    BY <1>5, ClipNear8
  <1>9. Near(Clip(255, B), Clip(2550000, b))
    BY <1>6, ClipNear8
  <1> QED
    BY <1>2, <1>3, <1>7, <1>8, <1>9

TenBits == 0 .. 1023

\* yuv_planes_to_rgb10 is near BT.601, for each sample of ten bits.
LEMMA Near10 ==
  ASSUME NEW Y \in TenBits, NEW U \in TenBits, NEW V \in TenBits,
         NEW c \in {"r", "g", "b"}
  PROVE  Near(ToPNG16(ToRGB10(Y, U, V)[c]), Exact(4, Y, U, V)[c])
  <1> DEFINE C == Y - 64
             D == U - 512
             E == V - 512
             R == (1192 * C + 1634 * E + 512) \div 1024
             G == (1192 * C - 401 * D - 833 * E + 512) \div 1024
             B == (1192 * C + 2066 * D + 512) \div 1024
             r == (11644 * C + 15960 * E) \div 4
             g == (11644 * C - 3918 * D - 8130 * E) \div 4
             b == (11644 * C + 20172 * D) \div 4
  <1>1. C \in -64 .. 959 /\ D \in -512 .. 511 /\ E \in -512 .. 511
    BY DEF TenBits
  <1>2. /\ ToRGB10(Y, U, V).r = Clip(1023, R) /\ ToRGB10(Y, U, V).g = Clip(1023, G)
        /\ ToRGB10(Y, U, V).b = Clip(1023, B)
    BY DEF ToRGB10
  <1>3. /\ Exact(4, Y, U, V).r = Clip(2550000, r) /\ Exact(4, Y, U, V).g = Clip(2550000, g)
        /\ Exact(4, Y, U, V).b = Clip(2550000, b)
    BY DEF Exact
  <1> HIDE DEF C, D, E
  <1>4. R \in Int /\ r \in Int /\ Near10Unclipped(R, r)
    BY <1>1 DEF Near10Unclipped
  <1>5. G \in Int /\ g \in Int /\ Near10Unclipped(G, g)
    BY <1>1 DEF Near10Unclipped
  <1>6. B \in Int /\ b \in Int /\ Near10Unclipped(B, b)
    BY <1>1 DEF Near10Unclipped
  <1> HIDE DEF R, G, B, r, g, b
  <1>7. Near(ToPNG16(Clip(1023, R)), Clip(2550000, r))
    BY <1>4, ClipNear10
  <1>8. Near(ToPNG16(Clip(1023, G)), Clip(2550000, g))
    BY <1>5, ClipNear10
  <1>9. Near(ToPNG16(Clip(1023, B)), Clip(2550000, b))
    BY <1>6, ClipNear10
  <1>10. CASE c = "r"
    BY <1>2, <1>3, <1>7, <1>10
  <1>11. CASE c = "g"
    BY <1>2, <1>3, <1>8, <1>11
  <1>12. CASE c = "b"
    BY <1>2, <1>3, <1>9, <1>12
  <1> QED
    BY <1>10, <1>11, <1>12

\* The colours are those of BT.601, for all samples of eight and of ten bits.
THEOREM ColoursRightHolds == DecoderSpec => []ColoursRight
  <1>1. Exact8
    <2> SUFFICES ASSUME NEW Y \in Levels, NEW U \in Levels, NEW V \in Levels,
                        NEW c \in {"r", "g", "b"}
                 PROVE  Near(ToRGB8(Y, U, V)[c], Exact(1, Y, U, V)[c])
      BY DEF Exact8
    <2> QED
      BY LevelsAssumption, Near8
  <1>2. Exact10
    <2>1. FineLevels \subseteq TenBits
      BY LevelsAssumption DEF TenBits, FineLevels
    <2> SUFFICES ASSUME NEW Y \in FineLevels, NEW U \in FineLevels,
                        NEW V \in FineLevels,
                        NEW c \in {"r", "g", "b"}
                 PROVE  Near(ToPNG16(ToRGB10(Y, U, V)[c]), Exact(4, Y, U, V)[c])
      BY DEF Exact10
    <2>2. Y \in TenBits /\ U \in TenBits /\ V \in TenBits
      BY <2>1
    <2> QED
      BY <2>2, Near10, Zenon
  <1>3. ColoursRight
    BY <1>1, <1>2 DEF ColoursRight
  <1> QED
    BY <1>3, PTL
=============================================================================
