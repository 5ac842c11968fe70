------------------------------ MODULE Recording ------------------------------
(***************************************************************************)
(* The recordings of one lens: the table "lens/tier" -> RecordingBranch    *)
(* (sys_recording.c, and its callers in main.c), the scheduler thread that *)
(* walks it, the alert listener that pokes event recordings, the idle      *)
(* watchdogs and queued pokes of the main loop, and the shutdown sequence. *)
(*                                                                         *)
(* Three threads touch the table: the main loop (D-Bus handlers, timeouts, *)
(* queued calls), the scheduler, which holds scheduler_mutex for a whole   *)
(* pass, and the listener, which takes no lock.  Changing the table while  *)
(* another thread walks it, or using a recording that was freed, has no    *)
(* defined outcome: such a step sets undefined and the behaviour ends.     *)
(*                                                                         *)
(* Time is counted in ticks, Day of them to a day.  A pass of the          *)
(* scheduler takes less than a tick, and the thread is on time: no tick    *)
(* passes while it has a reason to run.                                    *)
(***************************************************************************)
EXTENDS Integers, FiniteSets

CONSTANTS
  Keys,         \* the "lens/tier" names of one lens
  Requests,     \* Requests[k]: what is asked for under k, see IsRequest
  MaxRecs,      \* bound: RecordingBranch objects made in a behaviour
  MaxAlerts,    \* bound: alerts that reach the listener
  Day,          \* ticks in a day (86400 seconds)
  Horizon,      \* bound: the last tick of wall-clock time
  MaxWait,      \* the longest sleep of the scheduler (300 seconds)
  DefaultWait,  \* its sleep when no boundary is ahead (60 seconds)
  CatchUp,      \* least rest of a window worth starting for (10 seconds)
  None          \* no recording, no boundary

Recs == 1 .. MaxRecs
Times == 1 .. Horizon

(* mode "continuous", "event", "once" or "daily" (the last two are mode     *)
(* "scheduled" with their schedule_type); a once window is a pair of times, *)
(* a daily one a pair of offsets into the day and may wrap around midnight. *)
IsRequest(q) ==
  /\ q.mode \in {"continuous", "event", "once", "daily"}
  /\ q.mode = "once" => q.start \in Times /\ q.end \in Int /\ q.start < q.end
  /\ q.mode = "daily" => q.start \in 0 .. Day - 1 /\ q.end \in 0 .. Day - 1

ASSUME KeysAssumption == /\ None \notin Recs /\ Keys # {}
                         /\ \A k \in Keys : None \notin Requests[k]
\* no boundary is not a time
ASSUME NoneAssumption == None \notin Int
ASSUME BoundAssumption == /\ MaxRecs \in Nat /\ MaxAlerts \in Nat
                          /\ Day \in Nat \ {0} /\ Horizon \in Nat \ {0}
                          /\ CatchUp \in Nat
ASSUME WaitAssumption == /\ MaxWait \in Nat \ {0}
                         /\ DefaultWait \in 1 .. MaxWait
ASSUME RequestAssumption == \A k \in Keys : \A q \in Requests[k] : IsRequest(q)

VARIABLES
  table,      \* engine->recordings
  req,        \* req[r]: what r was made for; None before it is made and
              \* once it is freed
  made,       \* the number of objects made
  running,    \* recordings whose running flag is set: their branch is attached
  finished,   \* recordings whose finished flag is set
  failed,     \* scheduled recordings whose last attach failed (history)
  timers,     \* recordings a live watchdog source points to
  pokes,      \* recordings a queued _poke_on_main points to
  capture,    \* whether the lens has a capture pipeline
  phase,      \* "running", then the steps of main() after the loop ends
  pc,         \* the scheduler: "wait", "pass" or "exit"
  todo,       \* keys the pass has still to visit
  next,       \* earliest boundary the pass has seen
  wait,       \* ticks left of the scheduler's sleep
  woken,      \* whether scheduler_cond was signalled since it went to sleep
  wall,       \* time(NULL)
  jumped,     \* whether the clock was set since the last pass (history)
  heard,      \* keys the listener has still to visit; None when it is idle
  alerts,     \* alerts received
  undefined   \* whether freed memory or a table being changed was used

recVars == <<table, req, made, running, finished, failed, timers>>
schedVars == <<pc, todo, next, wait, jumped>>
clockVars == <<wall>>
hearVars == <<heard, alerts>>
vars == <<table, req, made, running, finished, failed, timers, pokes,
          capture, phase, pc, todo, next, wait, woken, wall, jumped, heard,
          alerts, undefined>>

Mode(r) == req[r].mode
Freed(r) == r <= made /\ req[r] = None
Scheduled(q) == q.mode \in {"once", "daily"}
InTable(r) == \E k \in Keys : table[k] = r
Listening == heard # None
AllRequests == UNION {Requests[k] : k \in Keys}

TypeOK ==
  /\ table \in [Keys -> Recs \cup {None}]
  /\ req \in [Recs -> AllRequests \cup {None}]
  /\ made \in 0 .. MaxRecs
  /\ running \subseteq Recs /\ finished \subseteq Recs
  /\ failed \subseteq Recs /\ timers \subseteq Recs /\ pokes \subseteq Recs
  /\ capture \in BOOLEAN
  /\ phase \in {"running", "stopped", "joined", "exited"}
  /\ pc \in {"wait", "pass", "exit"}
  /\ todo \subseteq Keys
  /\ next \in Int \cup {None}
  /\ wait \in 0 .. MaxWait
  /\ woken \in BOOLEAN /\ jumped \in BOOLEAN /\ undefined \in BOOLEAN
  /\ wall \in Times
  /\ heard \in (SUBSET Keys) \cup {None}
  /\ alerts \in 0 .. MaxAlerts

Init ==
  /\ table = [k \in Keys |-> None]
  /\ req = [r \in Recs |-> None]
  /\ made = 0
  /\ running = {} /\ finished = {} /\ failed = {}
  /\ timers = {} /\ pokes = {}
  /\ capture = TRUE
  /\ phase = "running"
  /\ pc = "wait" /\ todo = {} /\ next = None /\ wait = 0 /\ woken = FALSE
  /\ wall = 1 /\ jumped = FALSE
  /\ heard = None /\ alerts = 0
  /\ undefined = FALSE

(***************************************************************************)
(* Schedules                                                               *)
(***************************************************************************)

TimeOfDay(t) == t % Day

\* _check_scheduled_status
ShouldRun(q, t) ==
  \/ q.mode = "once" /\ q.start <= t /\ t < q.end
  \/ /\ q.mode = "daily" /\ q.start < q.end
     /\ q.start <= TimeOfDay(t) /\ TimeOfDay(t) < q.end
  \/ /\ q.mode = "daily" /\ q.start >= q.end
     /\ q.start <= TimeOfDay(t) \/ TimeOfDay(t) < q.end

\* the end of a daily window, past midnight when it wraps
Unrolled(q) == IF q.end < q.start THEN q.end + Day ELSE q.end

\* Mutant: windows that only touch count as overlapping.
TouchingOverlap(a, b) ==
  LET Meet(s1, e1, s2, e2) == s1 <= e2 /\ s2 <= e1
  IN  \/ ~Scheduled(a) \/ ~Scheduled(b)
      \/ a.mode = b.mode /\ Meet(a.start, Unrolled(a), b.start, Unrolled(b))

\* recording_is_overlapping; a once window meets a daily one on the time of
\* day it starts at
Overlapping(a, b) ==
  LET Meet(s1, e1, s2, e2) == s1 < e2 /\ s2 < e1
      Mixed(once, daily) ==
        Meet(TimeOfDay(once.start), TimeOfDay(once.start) + once.end - once.start,
             daily.start, Unrolled(daily))
  IN  \/ ~Scheduled(a) \/ ~Scheduled(b)
      \/ a.mode = "once" /\ b.mode = "once" /\ Meet(a.start, a.end, b.start, b.end)
      \/ /\ a.mode = "daily" /\ b.mode = "daily"
         /\ Meet(a.start, Unrolled(a), b.start, Unrolled(b))
      \/ a.mode = "once" /\ b.mode = "daily" /\ Mixed(a, b)
      \/ a.mode = "daily" /\ b.mode = "once" /\ Mixed(b, a)

\* Mutant: a window that wraps sleeps on to its next start.
BoundaryForgetsWrap(q, t) ==
  IF q.mode = "once" THEN IF t < q.start THEN q.start
                          ELSE IF t < q.end THEN q.end ELSE None
  ELSE IF TimeOfDay(t) < q.start THEN t + (q.start - TimeOfDay(t))
  ELSE t + (Day - TimeOfDay(t) + q.start)

\* the next boundary of a schedule after t, None when a once window is over
Boundary(q, t) ==
  LET cur == TimeOfDay(t)
      Ahead(offset) == t + (offset - cur)
      Tomorrow(offset) == t + (Day - cur + offset)
  IN  CASE q.mode = "once" /\ t < q.start -> q.start
        [] q.mode = "once" /\ t >= q.start /\ t < q.end -> q.end
        [] q.mode = "once" /\ t >= q.start /\ t >= q.end -> None
        [] q.mode = "daily" /\ q.start < q.end ->
             IF cur < q.start THEN Ahead(q.start)
             ELSE IF cur < q.end THEN Ahead(q.end) ELSE Tomorrow(q.start)
        [] q.mode = "daily" /\ q.start >= q.end ->
             IF cur < q.end THEN Ahead(q.end)
             ELSE IF cur < q.start THEN Ahead(q.start) ELSE Tomorrow(q.end)

Earlier(a, b) == IF a = None THEN b ELSE IF b = None \/ a < b THEN a ELSE b

(***************************************************************************)
(* One recording                                                           *)
(***************************************************************************)

\* _start_recording_branch: attaching the elements may fail
Start(r, ok) == running' = IF ok THEN running \cup {r} ELSE running

\* recording_branch_stop on each of rs; one that is not running returns
\* before it looks at its watchdog
StopAll(rs) ==
  /\ running' = running \ rs
  /\ timers' = timers \ (rs \cap running)

\* recording_branch_free of each of rs
Free(rs) ==
  /\ StopAll(rs)
  /\ req' = [r \in Recs |-> IF r \in rs THEN None ELSE req[r]]
  /\ finished' = finished \ rs
  /\ failed' = failed \ rs

(***************************************************************************)
(* The main loop                                                           *)
(***************************************************************************)

OnMain == phase = "running"
MutexFree == pc # "pass"

\* _check_recording_locks: what is in the table under the key conflicts
Conflicts(k, q) ==
  table[k] # None /\ Overlapping(q, req[table[k]])

\* recording_branch_new, while those in gone are freed
NewRecording(q, gone) ==
  /\ made < MaxRecs /\ made' = made + 1
  /\ req' = [i \in Recs |-> IF i = made + 1 THEN q ELSE IF i \in gone THEN None ELSE req[i]]

\* recording_branch_start: the other modes are only armed
StartsAtOnce(q) == q.mode = "continuous"

\* Mutant: the recording that had the key is dropped without being freed.
StartRecordingDrops(k, q) ==
  /\ OnMain /\ MutexFree /\ ~Listening /\ capture
  /\ ~Conflicts(k, q)
  /\ NewRecording(q, {})
  /\ table' = [table EXCEPT ![k] = made + 1]
  /\ running' = running \cup (IF StartsAtOnce(q) THEN {made + 1} ELSE {})
  /\ woken' = TRUE
  /\ UNCHANGED <<timers, finished, failed, pokes, capture, phase, schedVars,
                 clockVars, hearVars, undefined>>

\* engine_start_recording: refused on a conflict; a continuous recording
\* starts at once and is dropped when it cannot; event and scheduled ones are
\* armed.  The insertion frees a scheduled recording that had the key.
StartRecording(k, q) ==
  LET r == made + 1
      old == {table[k]} \ {None}
  IN  /\ OnMain /\ MutexFree /\ ~Listening /\ capture
      /\ ~Conflicts(k, q)
      /\ NewRecording(q, old)
      /\ table' = [table EXCEPT ![k] = r]
      /\ running' = (running \ old) \cup (IF StartsAtOnce(q) THEN {r} ELSE {})
      /\ timers' = timers \ (old \cap running)
      /\ finished' = finished \ old
      /\ failed' = failed \ old
      /\ woken' = TRUE
      /\ UNCHANGED <<pokes, capture, phase, schedVars, clockVars, hearVars, undefined>>

\* engine_stop_recording
StopRecording(k) ==
  /\ OnMain /\ MutexFree /\ ~Listening /\ table[k] # None
  /\ Free({table[k]})
  /\ table' = [table EXCEPT ![k] = None]
  /\ woken' = TRUE
  /\ UNCHANGED <<made, pokes, capture, phase, schedVars, clockVars, hearVars, undefined>>

\* engine_stop_lens: every recording of the lens goes, without the mutex,
\* and then the capture pipeline
Recorded == {table[k] : k \in Keys} \ {None}

StopLens ==
  /\ OnMain /\ capture
  /\ (Listening \/ pc = "pass") => Recorded = {}
  /\ Free(Recorded)
  /\ table' = [k \in Keys |-> None]
  /\ capture' = FALSE
  /\ UNCHANGED <<made, pokes, phase, schedVars, woken, clockVars, hearVars, undefined>>

\* engine_configure_lens brings the pipeline back
ConfigureLens ==
  /\ OnMain /\ ~capture
  /\ capture' = TRUE
  /\ UNCHANGED <<recVars, pokes, phase, schedVars, woken, clockVars, hearVars, undefined>>

\* _poke_on_main, recording_branch_poke: the pointer was queued by the
\* listener.  The watchdog is set again also when the start failed.
PokeOnMain(r) ==
  /\ OnMain /\ r \in pokes /\ ~Freed(r)
  /\ pokes' = pokes \ {r}
  /\ \/ r \in running /\ UNCHANGED running
     \/ r \notin running /\ \E ok \in BOOLEAN : Start(r, ok)
  /\ timers' = timers \cup {r}
  /\ UNCHANGED <<table, req, made, finished, failed, capture, phase, schedVars,
                 woken, clockVars, hearVars, undefined>>

\* Mutant: the watchdog puts itself off when it fires.
EventTimeoutAgain(r) ==
  /\ OnMain /\ r \in timers /\ ~Freed(r)
  /\ UNCHANGED vars

\* _on_event_timeout: any time after it was set; the source ends
EventTimeout(r) ==
  /\ OnMain /\ r \in timers /\ ~Freed(r)
  /\ running' = running \ {r}
  /\ timers' = timers \ {r}
  /\ UNCHANGED <<table, req, made, finished, failed, pokes, capture, phase,
                 schedVars, woken, clockVars, hearVars, undefined>>

\* main() after the loop: the listener is joined, every recording and then
\* every capture is stopped, without the mutex
ShutdownStop ==
  /\ OnMain /\ ~Listening
  /\ phase' = "stopped"
  /\ StopAll(Recorded)
  /\ undefined' \in IF pc = "pass" THEN BOOLEAN ELSE {FALSE}
  /\ UNCHANGED <<table, req, made, finished, failed, pokes, capture,
                 schedVars, woken, clockVars, hearVars>>

\* recording_scheduler_stop: the thread has left its loop and is joined
ShutdownJoin ==
  /\ phase = "stopped" /\ pc = "exit"
  /\ phase' = "joined"
  /\ UNCHANGED <<recVars, pokes, capture, schedVars, woken, clockVars, hearVars, undefined>>

\* the captures are destroyed before the recordings, and destroying a running
\* recording would remove its branch from its capture
ShutdownDestroy ==
  /\ phase = "joined" /\ running = {}
  /\ phase' = "exited"
  /\ capture' = FALSE
  /\ Free(Recorded)
  /\ table' = [k \in Keys |-> None]
  /\ UNCHANGED <<made, pokes, schedVars, woken, clockVars, hearVars, undefined>>

(***************************************************************************)
(* Steps without a defined outcome                                         *)
(***************************************************************************)

BecomesUndefined ==
  /\ undefined' = TRUE
  /\ UNCHANGED <<recVars, pokes, capture, phase, schedVars, woken, clockVars, hearVars>>

\* a queued poke or a watchdog fires for a recording that was freed
UseFreed(r) ==
  /\ OnMain /\ r \in pokes \cup timers /\ Freed(r)
  /\ BecomesUndefined

\* a handler or the scheduler changes the table while the listener walks it,
\* or StopLens does while the scheduler is in its pass
TableRace ==
  /\ OnMain
  /\ \/ Listening /\ (MutexFree \/ \E k \in todo : table[k] \in finished)
     \/ pc = "pass" /\ Recorded # {}
  /\ BecomesUndefined

\* a recording restarted by the scheduler after the captures were stopped
DestroyRunning ==
  /\ phase = "joined" /\ running # {}
  /\ BecomesUndefined

(***************************************************************************)
(* The alert listener: _on_ai_event on the ZeroMQ thread                   *)
(***************************************************************************)

AlertBegin ==
  /\ OnMain /\ ~Listening /\ alerts < MaxAlerts
  /\ heard' = Keys
  /\ alerts' = alerts + 1
  /\ UNCHANGED <<recVars, pokes, capture, phase, schedVars, woken, clockVars, undefined>>

\* one entry: an event recording is handed to the main loop by pointer
AlertVisit(k) ==
  /\ OnMain /\ Listening /\ k \in heard
  /\ heard' = heard \ {k}
  /\ pokes' = IF table[k] # None /\ Mode(table[k]) = "event"
              THEN pokes \cup {table[k]} ELSE pokes
  /\ UNCHANGED <<recVars, capture, phase, schedVars, woken, clockVars, alerts, undefined>>

AlertEnd ==
  /\ OnMain /\ heard = {}
  /\ heard' = None
  /\ UNCHANGED <<recVars, pokes, capture, phase, schedVars, woken, clockVars, alerts, undefined>>

(***************************************************************************)
(* The scheduler thread                                                    *)
(***************************************************************************)

Due == wait = 0 \/ woken

\* a wake-up, on time, on a signal or spurious: the mutex is taken
PassBegin ==
  /\ pc = "wait" /\ phase \in {"running", "stopped"}
  /\ pc' = "pass" /\ todo' = Keys
  /\ woken' = FALSE
  /\ UNCHANGED <<recVars, pokes, capture, phase, next, wait, jumped, clockVars, hearVars, undefined>>

\* a recording that is finished leaves the table
Prune(k) ==
  /\ table[k] \in finished /\ ~Listening
  /\ Free({table[k]})
  /\ table' = [table EXCEPT ![k] = None]
  /\ UNCHANGED next

\* a scheduled recording is started, given up, stopped or left alone
Visit(k) ==
  LET r == table[k]
      q == req[r]
  IN  /\ r # None /\ r \notin finished /\ Scheduled(q)
      /\ next' = Earlier(Boundary(q, wall), next)
      /\ \/ /\ ShouldRun(q, wall) /\ r \notin running
            /\ q.mode = "once" => wall < q.end - CatchUp
            /\ \E ok \in BOOLEAN :
                 /\ Start(r, ok)
                 /\ failed' = IF ok THEN failed \ {r} ELSE failed \cup {r}
            /\ UNCHANGED <<finished, timers>>
         \/ /\ ShouldRun(q, wall) /\ r \notin running
            /\ q.mode = "once" /\ wall >= q.end - CatchUp
            /\ finished' = finished \cup {r}
            /\ UNCHANGED <<running, failed, timers>>
         \/ /\ ~ShouldRun(q, wall) /\ r \in running
            /\ StopAll({r})
            /\ finished' = IF q.mode = "once" THEN finished \cup {r} ELSE finished
            /\ UNCHANGED failed
         \/ /\ ShouldRun(q, wall) <=> r \in running
            /\ UNCHANGED <<running, finished, failed, timers>>
      /\ UNCHANGED <<table, req>>

\* no recording under the key, or one of another mode
Pass(k) ==
  /\ table[k] # None => table[k] \notin finished /\ ~Scheduled(req[table[k]])
  /\ UNCHANGED <<table, req, running, finished, failed, timers, next>>

SchedulerStep(k) ==
  /\ pc = "pass" /\ k \in todo
  /\ todo' = todo \ {k}
  /\ Prune(k) \/ Visit(k) \/ Pass(k)
  /\ UNCHANGED <<made, pokes, capture, phase, pc, wait, jumped, woken, clockVars,
                 hearVars, undefined>>

\* the length of the next sleep; the mutex is released by the wait
PassEnd ==
  /\ pc = "pass" /\ todo = {}
  /\ pc' = "wait"
  /\ wait' = IF next # None /\ next > wall
             THEN IF next - wall < MaxWait THEN next - wall ELSE MaxWait
             ELSE DefaultWait
  /\ next' = None
  /\ jumped' = FALSE
  /\ UNCHANGED <<recVars, pokes, capture, phase, todo, woken, clockVars, hearVars, undefined>>

\* recording_scheduler_stop clears scheduler_running and signals
SchedulerExit ==
  /\ pc = "wait" /\ phase = "stopped"
  /\ pc' = "exit"
  /\ UNCHANGED <<recVars, pokes, capture, phase, todo, next, wait, jumped, woken,
                 clockVars, hearVars, undefined>>

(***************************************************************************)
(* The clock                                                               *)
(***************************************************************************)

Tick ==
  /\ phase = "running" /\ pc = "wait" /\ ~Due /\ wall < Horizon
  /\ wall' = wall + 1
  /\ wait' = wait - 1
  /\ UNCHANGED <<recVars, pokes, capture, phase, pc, todo, next, woken, jumped, hearVars, undefined>>

\* NTP or the user sets the clock; the sleep is measured on the other one
SetClock ==
  /\ phase = "running" /\ pc = "wait" /\ ~jumped
  /\ wall' \in Times \ {wall}
  /\ jumped' = TRUE
  /\ UNCHANGED <<recVars, pokes, capture, phase, pc, todo, next, wait, woken, hearVars, undefined>>

Next ==
  /\ ~undefined
  /\ \/ \E k \in Keys : \E q \in Requests[k] : StartRecording(k, q)
     \/ \E k \in Keys : StopRecording(k) \/ AlertVisit(k) \/ SchedulerStep(k)
     \/ \E r \in Recs : PokeOnMain(r) \/ EventTimeout(r)
     \/ StopLens \/ ConfigureLens
     \/ ShutdownStop \/ ShutdownJoin \/ ShutdownDestroy
     \/ TableRace \/ DestroyRunning \/ \E r \in Recs : UseFreed(r)
     \/ AlertBegin \/ AlertEnd
     \/ PassBegin \/ PassEnd \/ SchedulerExit
     \/ Tick \/ SetClock

(* The main loop dispatches every source that is ready.                     *)
MainLoopFair == \A r \in Recs : /\ WF_vars(~undefined /\ EventTimeout(r))
                                /\ WF_vars(~undefined /\ PokeOnMain(r))

Spec == Init /\ [][Next]_vars /\ MainLoopFair

(***************************************************************************)
(* Properties                                                              *)
(***************************************************************************)

(* A recording that runs is the one the table has under some key: replacing, *)
(* stopping, pruning or losing the lens never leaves a recorder that no      *)
(* handler can reach any more.                                               *)
RunningReachable == \A r \in running : InTable(r) /\ ~Freed(r)

(* An event recording that runs has a live watchdog: whatever pokes, failed  *)
(* starts and timeouts came before, it will be stopped when alerts cease.    *)
EventWatched ==
  \A r \in running : Mode(r) = "event" => r \in timers

(* While the scheduler sleeps and has no reason to wake, every schedule is   *)
(* followed: nothing records outside its window, and inside it a recording   *)
(* runs unless its attach failed or it was given up as too late.             *)
FollowsSchedule ==
  (~undefined /\ phase = "running" /\ pc = "wait" /\ ~Due /\ ~jumped) =>
    \A r \in Recs : (InTable(r) /\ Scheduled(req[r])) =>
      IF ShouldRun(req[r], wall) THEN r \in running \cup finished \cup failed
                                 ELSE r \notin running

(* A schedule is refused only when some tick is in both windows, and two     *)
(* windows that do not leave their day never slip through.                   *)
InOneDay(q) == \/ q.mode = "daily" /\ q.start < q.end
               \/ q.mode = "once" /\ TimeOfDay(q.start) + q.end - q.start <= Day
Clash(a, b) ==
  \E t \in 0 .. Horizon + 2 * Day : ShouldRun(a, t) /\ ShouldRun(b, t)
ConflictsAreReal ==
  \A k \in Keys : \A q \in Requests[k] :
    (table[k] # None /\ Scheduled(q) /\ Scheduled(req[table[k]])) =>
      /\ Conflicts(k, q) => Clash(q, req[table[k]])
      /\ (InOneDay(q) /\ InOneDay(req[table[k]])) =>
            (Clash(q, req[table[k]]) => Conflicts(k, q))

(* Once alerts cease, every event recording ends.                           *)
EventRecordingEnds ==
  \A r \in Recs : (r \in running /\ Mode(r) = "event") ~> (r \notin running \/ undefined)
=============================================================================
