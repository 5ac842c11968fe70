--------------------------- MODULE StreamDelivery ---------------------------
(***************************************************************************)
(* Frames and locks around one ManagedStream: _on_new_sample on the        *)
(* encoder's streaming thread, the callbacks it makes into RTSP sessions   *)
(* and the HLS generator, and the mutexes those share with the threads     *)
(* that configure, leave and tear down (sys_stream.c, sys_rtsp.c,          *)
(* sys_hls.c, main.c).                                                     *)
(*                                                                         *)
(* A critical section inside which nothing waits is one step, guarded by   *)
(* the mutex being free; a mutex held while its owner waits for something  *)
(* else has an owner.  stream->lock never spans a wait and has none.       *)
(***************************************************************************)
EXTENDS Naturals, FiniteSets

CONSTANTS
    Sessions,       \* LazyRTSPData of the tier's factories; also their branch_lock
    Hls,            \* the tier's HLS generator; also its lock
    Main, Pump,     \* the main loop, the stream's streaming thread
    MgrLock, ConfigMutex, BranchMutex,
    Freed,          \* what a pointer to a freed generator points to
    None,
    MaxSubscribers, \* length of sub_snapshot
    Ops             \* which of "hls", "rebuild", "dump", "update", "fail" occur

Consumers == Sessions \cup {Hls}
Threads == Sessions \cup {Main, Pump}
Locks == Consumers \cup {MgrLock, ConfigMutex, BranchMutex}

ASSUME NamesAssumption ==
    /\ {Hls, Main, Pump, MgrLock, ConfigMutex, BranchMutex, Freed, None} \cap Sessions = {}
    /\ Hls \notin {Main, Pump, MgrLock, ConfigMutex, BranchMutex, Freed, None}
    /\ Main \notin {Pump, MgrLock, ConfigMutex, BranchMutex, Freed, None}
    /\ Pump \notin {MgrLock, ConfigMutex, BranchMutex, Freed, None}
    /\ MgrLock \notin {ConfigMutex, BranchMutex, Freed, None}
    /\ ConfigMutex \notin {BranchMutex, Freed, None}
    /\ BranchMutex \notin {Freed, None}
    /\ Freed # None
    /\ MaxSubscribers \in Nat \ {0}

VARIABLES
    owner,          \* mutex -> thread that holds it over a wait
    pc,             \* thread -> where it is
    stream,         \* the entry "lens:tier" of the stream table
    attached,       \* session -> appsrc is not NULL
    hls,            \* "none", "made" (in the table), "on" (is_active)
    frame,          \* _on_new_sample: what is left of sub_snapshot
    dumped          \* the factory _dump_all_dots is at

vars == <<owner, pc, stream, attached, hls, frame, dumped>>

Configuring == {"config", "acquire", "build", "bridge"}
SessionPCs == Configuring \cup
    {"idle", "failed", "active", "clear", "release", "silence", "remove"}
MainPCs == {"idle", "acquire", "build", "hlssub", "hlson", "hlsstop", "release",
            "silence", "remove", "force", "dump", "update"}
PumpPCs == {"idle", "walk", "entering", "pushing", "lost"}

NoStream == [up |-> FALSE, ref |-> 0, subs |-> {}]
NoFrame == [snap |-> {}, stale |-> {}, cur |-> None]

TypeOK ==
    /\ owner \in [Locks -> Threads \cup {None}]
    /\ pc \in [Threads -> SessionPCs \cup MainPCs \cup PumpPCs]
    /\ \A r \in Sessions : pc[r] \in SessionPCs
    /\ pc[Main] \in MainPCs /\ pc[Pump] \in PumpPCs
    /\ stream \in [up : BOOLEAN, ref : Nat, subs : SUBSET Consumers]
    /\ attached \in [Sessions -> BOOLEAN]
    /\ hls \in {"none", "made", "on"}
    /\ frame \in [snap : SUBSET (Consumers \cup {Freed}), stale : SUBSET Consumers,
                  cur : Consumers \cup {Freed, None}]
    /\ dumped \in Sessions \cup {None}

Init ==
    /\ owner = [l \in Locks |-> None]
    /\ pc = [t \in Threads |-> "idle"]
    /\ stream = NoStream
    /\ attached = [r \in Sessions |-> FALSE]
    /\ hls = "none"
    /\ frame = NoFrame
    /\ dumped = None

Free(l) == owner[l] = None
Goto(t, p) == pc' = [pc EXCEPT ![t] = p]
Lock(t, l) == owner' = [owner EXCEPT ![l] = t]

\* t unlocks everything but the mutexes in keep.
KeepOnly(t, keep) ==
    owner' = [l \in Locks |-> IF owner[l] = t /\ l \notin keep THEN None ELSE owner[l]]

----------------------------------------------------------------------------
(* stream_manager_acquire, subscribe, unsubscribe, release *)

\* Where an acquire that succeeded takes its caller, which by then holds its
\* own branch_lock at most.
Acquired(t) ==
    /\ KeepOnly(t, {t})
    /\ Goto(t, IF t = Main THEN "hlssub" ELSE "bridge")

AcquireExisting(t) ==
    /\ pc[t] = "acquire" /\ Free(MgrLock)
    /\ stream.up
    /\ stream' = [stream EXCEPT !.ref = @ + 1]
    /\ Acquired(t)
    /\ UNCHANGED <<attached, hls, frame, dumped>>

\* The branch is added under mgr_lock, which waits for branch_mutex.
AcquireNew(t) ==
    /\ pc[t] = "acquire" /\ Free(MgrLock)
    /\ ~stream.up
    /\ Lock(t, MgrLock)
    /\ Goto(t, "build")
    /\ UNCHANGED <<stream, attached, hls, frame, dumped>>

Build(t) ==
    /\ pc[t] = "build" /\ Free(BranchMutex)
    /\ stream' = [up |-> TRUE, ref |-> 1, subs |-> {}]
    /\ Acquired(t)
    /\ UNCHANGED <<attached, hls, frame, dumped>>

BuildFails(t) ==
    /\ "fail" \in Ops
    /\ pc[t] = "build"
    /\ KeepOnly(t, {})
    /\ Goto(t, IF t = Main THEN "idle" ELSE "failed")
    /\ UNCHANGED <<stream, attached, hls, frame, dumped>>

Subscribe(c) ==
    stream' = IF stream.up THEN [stream EXCEPT !.subs = @ \cup {c}] ELSE stream

\* g_free on the Subscriber, of which the snapshot may hold the address.
Unsubscribe(c) ==
    /\ stream' = [stream EXCEPT !.subs = @ \ {c}]
    /\ frame' = [frame EXCEPT !.stale = @ \cup ({c} \cap frame.snap)]

Release(t) ==
    /\ pc[t] = "release" /\ Free(MgrLock)
    /\ IF stream.up /\ stream.ref <= 1
       THEN Lock(t, MgrLock) /\ Goto(t, "silence") /\ UNCHANGED stream
       ELSE /\ stream' = IF stream.up THEN [stream EXCEPT !.ref = @ - 1] ELSE stream
            /\ Goto(t, "idle")
            /\ UNCHANGED owner
    /\ UNCHANGED <<attached, hls, frame, dumped>>

\* Mutant: the stream is freed without waiting for the streaming thread.
SilenceAtOnce(t) ==
    /\ pc[t] \in {"silence", "force"}
    /\ stream' = NoStream
    /\ KeepOnly(t, {})
    /\ Goto(t, IF pc[t] = "silence" THEN "remove" ELSE "idle")
    /\ UNCHANGED <<attached, hls, frame, dumped>>

\* The appsink's state change to NULL waits for the streaming thread to leave
\* the sink, with mgr_lock held; then the ManagedStream is freed.
Silence(t) ==
    /\ pc[t] \in {"silence", "force"}
    /\ pc[Pump] = "idle"
    /\ stream' = NoStream
    /\ KeepOnly(t, {})
    /\ Goto(t, IF pc[t] = "silence" THEN "remove" ELSE "idle")
    /\ UNCHANGED <<attached, hls, frame, dumped>>

RemoveBranch(t) ==
    /\ pc[t] = "remove" /\ Free(BranchMutex)
    /\ Goto(t, "idle")
    /\ UNCHANGED <<owner, stream, attached, hls, frame, dumped>>

----------------------------------------------------------------------------
(* _on_media_configure and _on_unprepared of session r *)

Configure(r) ==
    /\ pc[r] = "idle" /\ Free(r)
    /\ Lock(r, r)
    /\ Goto(r, "config")
    /\ UNCHANGED <<stream, attached, hls, frame, dumped>>

LockConfig(r) ==
    /\ pc[r] = "config" /\ Free(ConfigMutex)
    /\ Lock(r, ConfigMutex)
    /\ Goto(r, "acquire")
    /\ UNCHANGED <<stream, attached, hls, frame, dumped>>

\* appsrc is set, the callback subscribed, branch_lock dropped.
Bridge(r) ==
    /\ pc[r] = "bridge" /\ Free(MgrLock)
    /\ attached' = [attached EXCEPT ![r] = TRUE]
    /\ Subscribe(r)
    /\ KeepOnly(r, {})
    /\ Goto(r, "active")
    /\ UNCHANGED <<hls, frame, dumped>>

Unprepared(r) ==
    /\ pc[r] \in {"active", "failed"} /\ Free(MgrLock)
    /\ Unsubscribe(r)
    /\ Goto(r, "clear")
    /\ UNCHANGED <<owner, attached, hls, dumped>>

\* Mutant: appsrc is cleared without branch_lock.
ClearUnlocked(r) ==
    /\ pc[r] = "clear"
    /\ attached' = [attached EXCEPT ![r] = FALSE]
    /\ Goto(r, "release")
    /\ UNCHANGED <<owner, stream, hls, frame, dumped>>

\* Mutant: branch_lock is kept over the release.
ClearKeepsLock(r) ==
    /\ pc[r] = "clear" /\ Free(r)
    /\ attached' = [attached EXCEPT ![r] = FALSE]
    /\ Lock(r, r)
    /\ Goto(r, "release")
    /\ UNCHANGED <<stream, hls, frame, dumped>>

Clear(r) ==
    /\ pc[r] = "clear" /\ Free(r)
    /\ attached' = [attached EXCEPT ![r] = FALSE]
    /\ Goto(r, "release")
    /\ UNCHANGED <<owner, stream, hls, frame, dumped>>

----------------------------------------------------------------------------
(* The main loop: HLS, rebuilds, the dump timer, UpdateStreamParams *)

StartHls ==
    /\ "hls" \in Ops
    /\ pc[Main] = "idle" /\ hls = "none"
    /\ Goto(Main, "acquire")
    /\ UNCHANGED <<owner, stream, attached, hls, frame, dumped>>

HlsSubscribe ==
    /\ pc[Main] = "hlssub" /\ Free(MgrLock)
    /\ Subscribe(Hls)
    /\ hls' = "made"
    /\ Goto(Main, "hlson")
    /\ UNCHANGED <<owner, attached, frame, dumped>>

HlsActive ==
    /\ pc[Main] = "hlson"
    /\ hls' = "on"
    /\ Goto(Main, "idle")
    /\ UNCHANGED <<owner, stream, attached, frame, dumped>>

\* The launch line does not parse: in the table, neither subscribed nor active.
HlsLaunchFails ==
    /\ "fail" \in Ops
    /\ pc[Main] = "hlssub"
    /\ hls' = "made"
    /\ Goto(Main, "idle")
    /\ UNCHANGED <<owner, stream, attached, frame, dumped>>

StopHls ==
    /\ pc[Main] = "idle" /\ hls = "on" /\ Free(MgrLock)
    /\ Unsubscribe(Hls)
    /\ Goto(Main, "hlsstop")
    /\ UNCHANGED <<owner, attached, hls, dumped>>

\* is_active is cleared under the generator's lock and the generator freed; a
\* snapshot entry, or a callback waiting for the lock, still points at it.
HlsFree ==
    LET Dangling(c) == IF c = Hls THEN Freed ELSE c
    IN /\ pc[Main] = "hlsstop" /\ Free(Hls)
       /\ hls' = "none"
       /\ frame' = [snap |-> {Dangling(c) : c \in frame.snap},
                    stale |-> frame.stale \ {Hls}, cur |-> Dangling(frame.cur)]
       /\ Goto(Main, "release")
       /\ UNCHANGED <<owner, stream, attached, dumped>>

\* hls_generator_stop returns at once for a generator that never started.
StopInactiveHls ==
    /\ pc[Main] = "idle" /\ hls = "made"
    /\ hls' = "none"
    /\ Goto(Main, "release")
    /\ UNCHANGED <<owner, stream, attached, frame, dumped>>

ForceTeardown ==
    /\ "rebuild" \in Ops
    /\ pc[Main] = "idle" /\ Free(MgrLock) /\ stream.up
    /\ Lock(Main, MgrLock)
    /\ Goto(Main, "force")
    /\ UNCHANGED <<stream, attached, hls, frame, dumped>>

\* The factory matched by the mount path is the one last mounted: any.
DumpDots(r) ==
    /\ "dump" \in Ops
    /\ pc[Main] = "idle" /\ Free(ConfigMutex)
    /\ Lock(Main, ConfigMutex)
    /\ dumped' = r
    /\ Goto(Main, "dump")
    /\ UNCHANGED <<stream, attached, hls, frame>>

DumpFactory ==
    /\ pc[Main] = "dump" /\ Free(dumped)
    /\ KeepOnly(Main, {})
    /\ dumped' = None
    /\ Goto(Main, "idle")
    /\ UNCHANGED <<stream, attached, hls, frame>>

UpdateStream ==
    /\ "update" \in Ops
    /\ pc[Main] = "idle" /\ Free(BranchMutex)
    /\ Lock(Main, BranchMutex)
    /\ Goto(Main, "update")
    /\ UNCHANGED <<stream, attached, hls, frame, dumped>>

\* get_active_branch_name, then the elements are set and branch_mutex dropped.
UpdateElements ==
    /\ pc[Main] = "update" /\ Free(MgrLock)
    /\ KeepOnly(Main, {})
    /\ Goto(Main, "idle")
    /\ UNCHANGED <<stream, attached, hls, frame, dumped>>

----------------------------------------------------------------------------
(* _on_new_sample and the two _on_encoded_buffer *)

Silenced == \E t \in Threads : pc[t] \in {"silence", "force"}

\* More subscribers than sub_snapshot holds: some get no copy of this sample.
NewSample ==
    /\ pc[Pump] = "idle" /\ stream.up /\ ~Silenced
    /\ \E snap \in SUBSET stream.subs :
          /\ snap # {}
          /\ snap = stream.subs \/ Cardinality(snap) = MaxSubscribers
          /\ Cardinality(snap) <= MaxSubscribers
          /\ frame' = [NoFrame EXCEPT !.snap = snap]
    /\ Goto(Pump, "walk")
    /\ UNCHANGED <<owner, stream, attached, hls, dumped>>

\* Mutant: the index is not advanced.
CallAgain(c) ==
    /\ pc[Pump] = "walk" /\ c \in frame.snap
    /\ frame' = [frame EXCEPT !.cur = c]
    /\ Goto(Pump, "entering")
    /\ UNCHANGED <<owner, stream, attached, hls, dumped>>

\* subscriber->func(header_copy, subscriber->user_data).  A Subscriber freed
\* since the snapshot may still hold both.
Call(c) ==
    /\ pc[Pump] = "walk" /\ c \in frame.snap
    /\ frame' = [frame EXCEPT !.snap = @ \ {c}, !.stale = @ \ {c}, !.cur = c]
    /\ Goto(Pump, "entering")
    /\ UNCHANGED <<owner, stream, attached, hls, dumped>>

\* Back to the loop over the snapshot, or out of the sink.
NextEntry(f) ==
    /\ frame' = [f EXCEPT !.cur = None]
    /\ Goto(Pump, IF f.snap = {} THEN "idle" ELSE "walk")

\* A freed Subscriber with a NULL func is passed over.
SkipStale(c) ==
    /\ pc[Pump] = "walk" /\ c \in frame.snap
    /\ c \in frame.stale \cup {Freed}
    /\ NextEntry([frame EXCEPT !.snap = @ \ {c}, !.stale = @ \ {c}])
    /\ UNCHANGED <<owner, stream, attached, hls, dumped>>

\* Freed memory holds anything else: the thread crashes or hangs.
Stray ==
    /\ \/ pc[Pump] = "walk" /\ (frame.stale # {} \/ Freed \in frame.snap)
       \/ pc[Pump] = "entering" /\ frame.cur = Freed
    /\ Goto(Pump, "lost")
    /\ UNCHANGED <<owner, stream, attached, hls, frame, dumped>>

\* appsrc is not NULL; is_active.
Open(c) == IF c = Hls THEN hls = "on" ELSE attached[c]

Enter ==
    /\ pc[Pump] = "entering" /\ frame.cur \in Consumers /\ Free(frame.cur)
    /\ Open(frame.cur)
    /\ Lock(Pump, frame.cur)
    /\ Goto(Pump, "pushing")
    /\ UNCHANGED <<stream, attached, hls, frame, dumped>>

\* The callback finds its consumer closed, or a freed generator that still
\* reads as closed, and drops the buffer.
Drop ==
    /\ pc[Pump] = "entering"
    /\ frame.cur \in Consumers => Free(frame.cur) /\ ~Open(frame.cur)
    /\ NextEntry(frame)
    /\ UNCHANGED <<owner, stream, attached, hls, dumped>>

\* gst_app_src_push_buffer returns; it may have waited for room.
Pushed ==
    /\ pc[Pump] = "pushing"
    /\ KeepOnly(Pump, {})
    /\ NextEntry(frame)
    /\ UNCHANGED <<stream, attached, hls, dumped>>

----------------------------------------------------------------------------

TableStep(t) ==
    AcquireExisting(t) \/ AcquireNew(t) \/ Build(t) \/ BuildFails(t)
    \/ Release(t) \/ Silence(t) \/ RemoveBranch(t)

SessionStep(r) == TableStep(r) \/ LockConfig(r) \/ Bridge(r) \/ Clear(r)

MainStep ==
    TableStep(Main) \/ HlsSubscribe \/ HlsActive \/ HlsLaunchFails \/ HlsFree
    \/ DumpFactory \/ UpdateElements

PumpStep ==
    (\E c \in Consumers \cup {Freed} : Call(c) \/ SkipStale(c))
    \/ Stray \/ Enter \/ Drop \/ Pushed

Arrival ==
    (\E r \in Sessions : Configure(r) \/ Unprepared(r) \/ DumpDots(r))
    \/ StartHls \/ StopHls \/ StopInactiveHls \/ ForceTeardown \/ UpdateStream
    \/ NewSample

Next == Arrival \/ MainStep \/ PumpStep \/ \E r \in Sessions : SessionStep(r)

Spec == Init /\ [][Next]_vars

\* A thread that waits for a mutex gets it in the end if it is free again and
\* again, and a push returns: the media consumes what it is given.
Fairness ==
    /\ \A r \in Sessions : SF_vars(SessionStep(r))
    /\ SF_vars(MainStep)
    /\ SF_vars(PumpStep)

FairSpec == Spec /\ Fairness

----------------------------------------------------------------------------
(* Properties *)

\* A thread is outside every mutex when it is not inside a handler: error
\* returns of media-configure unlock what was locked (sys_rtsp.c:258-262).
NoLockLeaked ==
    \A l \in Locks : ~Free(l) =>
        pc[owner[l]] \in Configuring \cup {"silence", "force", "dump", "update", "pushing"}

\* While _on_new_sample walks its snapshot the ManagedStream it belongs to is
\* in the table (sys_stream.c:238-240, 302-306 [FIX-5]).
StreamOutlivesCallbacks == pc[Pump] # "idle" => stream.up

\* A buffer is pushed only to an appsrc that its session has, or a generator
\* that is active, until the push returns: a client that leaves cannot take
\* the element away under the callback, even one made for an old snapshot.
PushesToOpen == pc[Pump] = "pushing" => frame.cur \in Consumers /\ Open(frame.cur)

\* Whom t waits for.
WaitsFor(t) ==
    LET wanted == CASE pc[t] = "config" -> {ConfigMutex}
                    [] pc[t] \in {"acquire", "bridge", "release", "hlssub", "update"} -> {MgrLock}
                    [] pc[t] \in {"build", "remove"} -> {BranchMutex}
                    [] pc[t] = "clear" -> {t}
                    [] pc[t] = "hlsstop" -> {Hls}
                    [] pc[t] = "dump" -> {dumped}
                    [] pc[t] = "entering" -> {frame.cur} \cap Consumers
                    [] OTHER -> {}
    IN {owner[l] : l \in {k \in wanted : ~Free(k)}}
         \cup {u \in {Pump} : pc[t] \in {"silence", "force"} /\ pc[Pump] # "idle"}

\* A set of threads each waiting for another of the set: none moves again.
Deadlocked(S) == S # {} /\ \A t \in S : WaitsFor(t) \cap S # {}

\* Whatever the threads do, a deadlock takes a session that is inside
\* media-configure with its branch_lock: leaving, teardown, delivery, HLS and
\* the timers cannot close a cycle by themselves (sys_rtsp.c:309-316).
CyclesNeedConfigure ==
    \A S \in SUBSET Threads :
        Deadlocked(S) => \E r \in S \cap Sessions : pc[r] \in Configuring

\* A sample that was taken from the sink reaches the end of its snapshot,
\* unless the threads deadlock or a freed pointer was followed.
SamplesFinish ==
    pc[Pump] = "walk" ~>
        \/ pc[Pump] \in {"idle", "lost"}
        \/ \E S \in SUBSET Threads : Deadlocked(S)
=============================================================================
