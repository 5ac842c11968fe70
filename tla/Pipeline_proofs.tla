-------------------------- MODULE Pipeline_proofs --------------------------
(***************************************************************************)
(* Proofs about the two components whose steps are those of the pipeline's *)
(* own threads.                                                            *)
(*                                                                         *)
(* StreamDelivery, for any set of sessions and any Ops: what each mutex    *)
(* says about its owner (LockInv), that a buffer is pushed only to a       *)
(* consumer that is open, and that every deadlock takes a session in       *)
(* media-configure.                                                        *)
(*                                                                         *)
(* BranchTeardown, for any number of branches: a TeardownCtx is counted    *)
(* exactly, and the teardown of a branch runs at most once.                *)
(***************************************************************************)
EXTENDS StreamDelivery, BranchTeardown, TLAPS


\* Threads that work on the stream table.
Clients == Sessions \cup {Main}

PcTypes == TypeOK /\ (pc[Main] = "dump" => dumped \in Sessions)

\* The streaming thread holds the lock of the consumer it is pushing to, and
\* no other mutex.
PumpLocks ==
    /\ \A l \in Locks : owner[l] = Pump => pc[Pump] = "pushing" /\ frame.cur = l
    /\ pc[Pump] = "pushing" => frame.cur \in Consumers /\ owner[frame.cur] = Pump

\* branch_lock is held over a wait only inside media-configure, and the
\* generator's lock only by the streaming thread.
ConsumerLocks ==
    /\ \A r \in Sessions :
          /\ owner[r] \in {None, r, Pump}
          /\ owner[r] = r => pc[r] \in Configuring
    /\ owner[Hls] \in {None, Pump}

EngineLocks ==
    /\ ~Free(ConfigMutex) =>
          \/ owner[ConfigMutex] = Main /\ pc[Main] = "dump"
          \/ owner[ConfigMutex] \in Sessions /\ pc[owner[ConfigMutex]] \in {"acquire", "build"}
    /\ ~Free(MgrLock) =>
          /\ owner[MgrLock] \in Clients
          /\ pc[owner[MgrLock]] \in {"build", "silence", "force"}
    /\ ~Free(BranchMutex) => owner[BranchMutex] = Main /\ pc[Main] = "update"

LockInv == PcTypes /\ PumpLocks /\ ConsumerLocks /\ EngineLocks

\* No generator is on while a new one is being made.
MakingHls == pc[Main] \in {"acquire", "build", "hlssub"} => hls = "none"

OpenInv == MakingHls /\ PushesToOpen

USE NamesAssumption

----------------------------------------------------------------------------
(* Locks *)

LEMMA LockInit == Init => LockInv
BY DEF Init, LockInv, PcTypes, TypeOK, PumpLocks, ConsumerLocks, EngineLocks, Free, Locks,
       Threads, Consumers, SessionPCs, MainPCs, PumpPCs, NoFrame, NoStream

\* A step of a client on the stream table.
LEMMA LockTable ==
    ASSUME LockInv, NEW t \in Clients, TableStep(t)
    PROVE  LockInv'
<1> USE DEF LockInv, PcTypes, TypeOK, PumpLocks, ConsumerLocks, EngineLocks, Free, Locks,
            Threads, Consumers, Clients, SessionPCs, MainPCs, PumpPCs, Configuring,
            Goto, Lock, KeepOnly
<1>1. CASE AcquireExisting(t)
  BY <1>1 DEF AcquireExisting, Acquired
<1>2. CASE AcquireNew(t)
  BY <1>2 DEF AcquireNew
<1>3. CASE Build(t)
  BY <1>3 DEF Build, Acquired
<1>4. CASE BuildFails(t)
  BY <1>4 DEF BuildFails
<1>5. CASE Release(t)
  BY <1>5 DEF Release
<1>6. CASE Silence(t)
  BY <1>6 DEF Silence, NoStream
<1>7. CASE RemoveBranch(t)
  BY <1>7 DEF RemoveBranch
<1> QED BY <1>1, <1>2, <1>3, <1>4, <1>5, <1>6, <1>7, TableStep(t) DEF TableStep

\* A step of media-configure or unprepared.
LEMMA LockSession ==
    ASSUME LockInv, NEW r \in Sessions,
           LockConfig(r) \/ Bridge(r) \/ Clear(r) \/ Configure(r) \/ Unprepared(r)
    PROVE  LockInv'
<1> USE DEF LockInv, PcTypes, TypeOK, PumpLocks, ConsumerLocks, EngineLocks, Free, Locks,
            Threads, Consumers, Clients, SessionPCs, MainPCs, PumpPCs, Configuring,
            Goto, Lock, KeepOnly
<1>1. CASE LockConfig(r)
  BY <1>1 DEF LockConfig
<1>2. CASE Bridge(r)
  <2>1. stream' \in [up : BOOLEAN, ref : Nat, subs : SUBSET Consumers]
    BY <1>2 DEF Bridge, Subscribe
  <2> QED BY <1>2, <2>1 DEF Bridge
<1>3. CASE Clear(r)
  BY <1>3 DEF Clear
<1>4. CASE Configure(r)
  BY <1>4 DEF Configure
<1>5. CASE Unprepared(r)
  BY <1>5 DEF Unprepared, Unsubscribe
<1> QED BY <1>1, <1>2, <1>3, <1>4, <1>5

\* A step of the main loop outside the stream table.
LEMMA LockMain ==
    ASSUME LockInv,
           \/ HlsSubscribe \/ HlsActive \/ HlsLaunchFails \/ HlsFree
           \/ DumpFactory \/ UpdateElements
           \/ (\E r \in Sessions : DumpDots(r))
           \/ StartHls \/ StopHls \/ StopInactiveHls \/ ForceTeardown \/ UpdateStream
    PROVE  LockInv'
<1> USE DEF LockInv, PcTypes, TypeOK, PumpLocks, ConsumerLocks, EngineLocks, Free, Locks,
            Threads, Consumers, Clients, SessionPCs, MainPCs, PumpPCs, Configuring,
            Goto, Lock, KeepOnly
<1>1. CASE HlsSubscribe
  <2>1. stream' \in [up : BOOLEAN, ref : Nat, subs : SUBSET Consumers]
    BY <1>1 DEF HlsSubscribe, Subscribe
  <2> QED BY <1>1, <2>1 DEF HlsSubscribe
<1>2. CASE HlsActive
  BY <1>2 DEF HlsActive
<1>3. CASE HlsLaunchFails
  BY <1>3 DEF HlsLaunchFails
<1>4. CASE HlsFree
  <2>1. pc[Pump] = "pushing" => frame.cur # Hls
    BY <1>4 DEF HlsFree
  <2>2. pc[Pump] = "pushing" => frame'.cur = frame.cur
    BY <1>4, <2>1 DEF HlsFree
  <2> QED BY <1>4, <2>2 DEF HlsFree
<1>5. CASE DumpFactory
  BY <1>5 DEF DumpFactory
<1>6. CASE UpdateElements
  BY <1>6 DEF UpdateElements
<1>7. CASE \E r \in Sessions : DumpDots(r)
  BY <1>7 DEF DumpDots
<1>8. CASE StartHls
  BY <1>8 DEF StartHls
<1>9. CASE StopHls
  BY <1>9 DEF StopHls, Unsubscribe
<1>10. CASE StopInactiveHls
  BY <1>10 DEF StopInactiveHls
<1>11. CASE ForceTeardown
  BY <1>11 DEF ForceTeardown
<1>12. CASE UpdateStream
  BY <1>12 DEF UpdateStream
<1> QED BY <1>1, <1>2, <1>3, <1>4, <1>5, <1>6, <1>7, <1>8, <1>9, <1>10, <1>11, <1>12

\* A step of the streaming thread.
LEMMA LockPump ==
    ASSUME LockInv, NewSample \/ PumpStep
    PROVE  LockInv'
<1> USE DEF LockInv, PcTypes, TypeOK, PumpLocks, ConsumerLocks, EngineLocks, Free, Locks,
            Threads, Consumers, Clients, SessionPCs, MainPCs, PumpPCs, Configuring,
            Goto, Lock, KeepOnly
<1>1. CASE NewSample
  <2>1. PICK snap \in SUBSET stream.subs : frame' = [NoFrame EXCEPT !.snap = snap]
    BY <1>1 DEF NewSample
  <2>2. frame' = [snap |-> snap, stale |-> {}, cur |-> None]
    BY <2>1 DEF NoFrame
  <2>3. snap \in SUBSET (Consumers \cup {Freed})
    OBVIOUS
  <2> QED BY <1>1, <2>2, <2>3 DEF NewSample
<1>2. ASSUME NEW c \in Consumers \cup {Freed}, Call(c) PROVE LockInv'
  <2>1. frame' = [snap |-> frame.snap \ {c}, stale |-> frame.stale \ {c}, cur |-> c]
    BY <1>2 DEF Call
  <2> QED BY <1>2, <2>1 DEF Call
<1>3. ASSUME NEW c \in Consumers \cup {Freed}, SkipStale(c) PROVE LockInv'
  BY <1>3 DEF SkipStale, NextEntry
<1>4. CASE Stray
  BY <1>4 DEF Stray
<1>5. CASE Enter
  BY <1>5 DEF Enter
<1>6. CASE Drop
  BY <1>6 DEF Drop, NextEntry
<1>7. CASE Pushed
  BY <1>7 DEF Pushed, NextEntry
<1> QED BY <1>1, <1>2, <1>3, <1>4, <1>5, <1>6, <1>7 DEF PumpStep

LEMMA LockStep == LockInv /\ [Next]_vars => LockInv'
<1> SUFFICES ASSUME LockInv, [Next]_vars PROVE LockInv'
  OBVIOUS
<1>1. CASE UNCHANGED vars
  BY <1>1 DEF vars, LockInv, PcTypes, TypeOK, PumpLocks, ConsumerLocks, EngineLocks, Free
<1>2. CASE Arrival
  BY <1>2, LockSession, LockMain, LockPump DEF Arrival
<1>3. CASE MainStep
  BY <1>3, LockTable, LockMain DEF MainStep, Clients
<1>4. CASE PumpStep
  BY <1>4, LockPump
<1>5. ASSUME NEW r \in Sessions, SessionStep(r) PROVE LockInv'
  BY <1>5, LockTable, LockSession DEF SessionStep, Clients
<1> QED BY <1>1, <1>2, <1>3, <1>4, <1>5 DEF Next

LEMMA LockAlways == Spec => []LockInv
<1> QED BY LockInit, LockStep, PTL DEF Spec

\* TypeOK: every variable keeps its type; a stream's count never goes below 0,
\* whatever releases arrive for streams that were torn down.
THEOREM TypeCorrect == Spec => []TypeOK
<1> QED BY LockAlways, PTL DEF LockInv, PcTypes

\* NoLockLeaked: no path through a handler, error returns included, ends with
\* a mutex locked, for any number of sessions.
THEOREM NoLockIsLeaked == Spec => []NoLockLeaked
<1>1. LockInv => NoLockLeaked
  BY DEF LockInv, PcTypes, TypeOK, PumpLocks, ConsumerLocks, EngineLocks, NoLockLeaked, Free,
         Locks, Threads, Consumers, Clients, Configuring
<1> QED BY <1>1, LockAlways, PTL

----------------------------------------------------------------------------
(* Deadlocks *)

\* A deadlocked set without a session in media-configure loses its members one
\* kind at a time: the thread that holds branch_mutex or a consumer's lock,
\* then the streaming thread, then those that wait for it with mgr_lock held,
\* then everyone who waits for one of these.
LEMMA CyclesFromLocks == LockInv => CyclesNeedConfigure
<1> SUFFICES ASSUME LockInv, NEW S \in SUBSET Threads, Deadlocked(S),
                    \A r \in S \cap Sessions : pc[r] \notin Configuring
             PROVE  FALSE
  BY DEF CyclesNeedConfigure
<1> USE DEF LockInv, PcTypes, TypeOK, PumpLocks, ConsumerLocks, EngineLocks, Free, Locks, Threads,
            Consumers, Clients, SessionPCs, MainPCs, PumpPCs, Configuring
<1>1. \A t \in S : \E u \in S : u \in WaitsFor(t)
  BY DEF Deadlocked
<1>2. Pump \notin S
  <2>1. SUFFICES ASSUME Pump \in S PROVE FALSE
    OBVIOUS
  <2>2. PICK u \in S : u \in WaitsFor(Pump)
    BY <1>1, <2>1
  <2>3. pc[Pump] = "entering" /\ frame.cur \in Consumers /\ u = owner[frame.cur] /\ u # None
    BY <2>2 DEF WaitsFor
  <2>4. u \in Sessions /\ owner[u] = u
    BY <2>3
  <2> QED BY <2>4
<1>3. \A r \in Sessions \cap S : pc[r] \notin {"clear", "silence", "force"}
  <2>1. SUFFICES ASSUME NEW r \in Sessions \cap S, pc[r] \in {"clear", "silence", "force"}
                 PROVE  FALSE
    OBVIOUS
  <2>2. PICK u \in S : u \in WaitsFor(r)
    BY <1>1
  <2>3. u = Pump \/ (pc[r] = "clear" /\ u = owner[r])
    BY <2>1, <2>2 DEF WaitsFor
  <2> QED BY <1>2, <2>1, <2>3
<1>4. Main \in S => pc[Main] \notin {"silence", "force", "dump", "hlsstop"}
  <2>1. SUFFICES ASSUME Main \in S, pc[Main] \in {"silence", "force", "dump", "hlsstop"}
                 PROVE  FALSE
    OBVIOUS
  <2>2. PICK u \in S : u \in WaitsFor(Main)
    BY <1>1, <2>1
  <2>3. \/ u = Pump
        \/ pc[Main] = "dump" /\ u = owner[dumped]
        \/ pc[Main] = "hlsstop" /\ u = owner[Hls]
    BY <2>1, <2>2 DEF WaitsFor
  <2> QED BY <1>2, <2>3
<1>5. \A t \in S : owner[ConfigMutex] # t
  BY <1>4
<1>6. \A t \in S : owner[MgrLock] = t => t = Main /\ pc[Main] = "build"
  BY <1>3, <1>4
<1>7. Main \in S => pc[Main] # "build"
  <2>1. SUFFICES ASSUME Main \in S, pc[Main] = "build" PROVE FALSE
    OBVIOUS
  <2>2. PICK u \in S : u \in WaitsFor(Main)
    BY <1>1, <2>1
  <2>3. u = owner[BranchMutex] /\ u # None
    BY <2>1, <2>2 DEF WaitsFor
  <2> QED BY <2>1, <2>3
<1>8. \A t \in S : owner[MgrLock] # t
  BY <1>6, <1>7
<1>9. \A t \in S : owner[BranchMutex] # t
  <2>1. SUFFICES ASSUME Main \in S, pc[Main] = "update" PROVE FALSE
    OBVIOUS
  <2>2. PICK u \in S : u \in WaitsFor(Main)
    BY <1>1, <2>1
  <2>3. u = owner[MgrLock]
    BY <2>1, <2>2 DEF WaitsFor
  <2> QED BY <1>8, <2>3
<1>10. PICK t \in S : TRUE
  BY DEF Deadlocked
<1>11. PICK u \in S : u \in WaitsFor(t)
  BY <1>1
<1>12. u \in {owner[ConfigMutex], owner[MgrLock], owner[BranchMutex], Pump}
  <2>1. t \in Sessions \/ t = Main
    BY <1>2
  <2>2. CASE t \in Sessions
    BY <1>3, <1>11, <2>2 DEF WaitsFor
  <2>3. CASE t = Main
    BY <1>4, <1>11, <2>3 DEF WaitsFor
  <2> QED BY <2>1, <2>2, <2>3
<1> QED BY <1>2, <1>5, <1>8, <1>9, <1>12

\* CyclesNeedConfigure: for any number of sessions a deadlock takes one inside
\* media-configure; unprepared, which drops branch_lock before it releases,
\* cannot be the reason for one (sys_rtsp.c:309-316).
THEOREM DeadlocksNeedConfigure == Spec => []CyclesNeedConfigure
<1> QED BY LockAlways, CyclesFromLocks, PTL

----------------------------------------------------------------------------
(* Pushes *)

LEMMA OpenStep == LockInv /\ OpenInv /\ [Next]_vars => OpenInv'
<1> SUFFICES ASSUME LockInv, OpenInv, [Next]_vars PROVE OpenInv'
  OBVIOUS
<1> USE DEF LockInv, PcTypes, TypeOK, PumpLocks, ConsumerLocks, OpenInv, MakingHls, PushesToOpen,
            Open, Free, Locks, Threads, Consumers, Clients, SessionPCs, MainPCs, PumpPCs,
            Goto
<1>1. CASE UNCHANGED vars
  BY <1>1 DEF vars
<1>2. ASSUME NEW t \in Clients, TableStep(t) PROVE OpenInv'
  <2>1. pc'[Pump] = pc[Pump] /\ frame' = frame /\ attached' = attached /\ hls' = hls
    BY <1>2 DEF TableStep, AcquireExisting, AcquireNew, Acquired, Build, BuildFails,
                Release, Silence, RemoveBranch
  <2>2. pc'[Main] \in {"acquire", "build", "hlssub"}
           => pc[Main] \in {"acquire", "build", "hlssub"}
    BY <1>2 DEF TableStep, AcquireExisting, AcquireNew, Acquired, Build, BuildFails,
                Release, Silence, RemoveBranch
  <2> QED BY <2>1, <2>2
<1>3. ASSUME NEW r \in Sessions, LockConfig(r) \/ Configure(r) \/ Unprepared(r)
      PROVE  OpenInv'
  <2>1. pc'[Pump] = pc[Pump] /\ frame'.cur = frame.cur /\ attached' = attached /\ hls' = hls
    BY <1>3 DEF LockConfig, Configure, Unprepared, Unsubscribe
  <2>2. pc'[Main] = pc[Main]
    BY <1>3 DEF LockConfig, Configure, Unprepared
  <2> QED BY <2>1, <2>2
<1>4. ASSUME NEW r \in Sessions, Bridge(r) PROVE OpenInv'
  BY <1>4 DEF Bridge
<1>5. ASSUME NEW r \in Sessions, Clear(r) PROVE OpenInv'
  BY <1>5 DEF Clear
<1>6. CASE HlsSubscribe
  BY <1>6 DEF HlsSubscribe
<1>7. CASE HlsActive \/ HlsLaunchFails \/ StopInactiveHls
  BY <1>7 DEF HlsActive, HlsLaunchFails, StopInactiveHls
<1>8. CASE HlsFree
  <2>1. pc[Pump] = "pushing" => frame.cur # Hls
    BY <1>8 DEF HlsFree
  <2>2. pc[Pump] = "pushing" => frame'.cur = frame.cur
    BY <1>8, <2>1 DEF HlsFree
  <2> QED BY <1>8, <2>1, <2>2 DEF HlsFree
<1>9. CASE \/ DumpFactory \/ UpdateElements \/ (\E r \in Sessions : DumpDots(r))
           \/ StartHls \/ StopHls \/ ForceTeardown \/ UpdateStream
  <2>1. pc'[Pump] = pc[Pump] /\ attached' = attached /\ hls' = hls
    BY <1>9 DEF DumpFactory, UpdateElements, DumpDots, StartHls, StopHls,
                ForceTeardown, UpdateStream
  <2>2. frame'.cur = frame.cur
    BY <1>9 DEF DumpFactory, UpdateElements, DumpDots, StartHls, StopHls, Unsubscribe,
                ForceTeardown, UpdateStream
  <2>3. pc'[Main] \in {"acquire", "build", "hlssub"} => hls = "none"
    BY <1>9 DEF DumpFactory, UpdateElements, DumpDots, StartHls, StopHls,
                ForceTeardown, UpdateStream
  <2> QED BY <2>1, <2>2, <2>3
<1>10. CASE NewSample
  BY <1>10 DEF NewSample
<1>11. CASE PumpStep
  <2>1. CASE Enter
    BY <2>1 DEF Enter
  <2>2. ASSUME ~Enter PROVE pc'[Pump] # "pushing" /\ pc'[Main] = pc[Main] /\ hls' = hls
    <3>1. ASSUME NEW c \in Consumers \cup {Freed}, Call(c) \/ SkipStale(c)
          PROVE  pc'[Pump] # "pushing" /\ pc'[Main] = pc[Main] /\ hls' = hls
      BY <3>1 DEF Call, SkipStale, NextEntry
    <3>2. Stray => pc'[Pump] # "pushing" /\ pc'[Main] = pc[Main] /\ hls' = hls
      BY DEF Stray
    <3>3. Drop \/ Pushed => pc'[Pump] # "pushing" /\ pc'[Main] = pc[Main] /\ hls' = hls
      BY DEF Drop, Pushed, NextEntry
    <3> QED BY <1>11, <2>2, <3>1, <3>2, <3>3 DEF PumpStep
  <2> QED BY <2>1, <2>2
<1>12. CASE Arrival
  BY <1>3, <1>7, <1>9, <1>10, <1>12 DEF Arrival
<1>13. CASE MainStep
  BY <1>2, <1>6, <1>7, <1>8, <1>9, <1>13 DEF MainStep
<1>14. ASSUME NEW r \in Sessions, SessionStep(r) PROVE OpenInv'
  BY <1>2, <1>3, <1>4, <1>5, <1>14 DEF SessionStep
<1> QED BY <1>1, <1>11, <1>12, <1>13, <1>14 DEF Next

\* PushesToOpen: whatever snapshot a callback was made from, the element it
\* pushes to stays until the push returns.
THEOREM PushesOnlyToOpen == Spec => []PushesToOpen
<1>1. Init => OpenInv
  BY DEF Init, OpenInv, MakingHls, PushesToOpen, Threads
<1>2. OpenInv => PushesToOpen
  BY DEF OpenInv
<1> QED BY <1>1, <1>2, OpenStep, LockAlways, PTL DEF Spec

----------------------------------------------------------------------------
(* The stream under a callback *)

\* Nobody but Silence takes a stream away, and it waits for the streaming
\* thread; no sample is taken while there is none.
LEMMA OutlivesStep ==
    LockInv /\ StreamOutlivesCallbacks /\ [Next]_vars => StreamOutlivesCallbacks'
<1> SUFFICES ASSUME LockInv, StreamOutlivesCallbacks, [Next]_vars
             PROVE  StreamOutlivesCallbacks'
  OBVIOUS
<1> USE DEF LockInv, PcTypes, TypeOK, StreamOutlivesCallbacks, Threads, Clients, Goto
<1>1. CASE UNCHANGED vars
  BY <1>1 DEF vars
<1>2. ASSUME NEW t \in Clients, TableStep(t) PROVE StreamOutlivesCallbacks'
  <2>1. pc'[Pump] = pc[Pump]
    BY <1>2 DEF TableStep, AcquireExisting, AcquireNew, Acquired, Build, BuildFails,
                Release, Silence, RemoveBranch
  <2>2. CASE Silence(t)
    BY <2>1, <2>2 DEF Silence
  <2>3. CASE ~Silence(t)
    <3>1. stream.up => stream'.up
      BY <1>2, <2>3 DEF TableStep, AcquireExisting, AcquireNew, Acquired, Build, BuildFails,
                        Release, RemoveBranch
    <3> QED BY <2>1, <3>1
  <2> QED BY <2>2, <2>3
<1>3. ASSUME NEW r \in Sessions,
             LockConfig(r) \/ Bridge(r) \/ Clear(r) \/ Configure(r) \/ Unprepared(r)
                 \/ DumpDots(r)
      PROVE  StreamOutlivesCallbacks'
  <2>1. pc'[Pump] = pc[Pump]
    BY <1>3 DEF LockConfig, Bridge, Clear, Configure, Unprepared, DumpDots
  <2>2. stream'.up = stream.up
    BY <1>3 DEF LockConfig, Bridge, Clear, Configure, Unprepared, DumpDots, Subscribe, Unsubscribe
  <2> QED BY <2>1, <2>2
<1>4. CASE \/ HlsSubscribe \/ HlsActive \/ HlsLaunchFails \/ HlsFree \/ DumpFactory
           \/ UpdateElements \/ StartHls \/ StopHls \/ StopInactiveHls
           \/ ForceTeardown \/ UpdateStream
  <2>1. pc'[Pump] = pc[Pump]
    BY <1>4 DEF HlsSubscribe, HlsActive, HlsLaunchFails, HlsFree, DumpFactory, UpdateElements,
                StartHls, StopHls, StopInactiveHls, ForceTeardown, UpdateStream
  <2>2. stream'.up = stream.up
    BY <1>4 DEF HlsSubscribe, HlsActive, HlsLaunchFails, HlsFree, DumpFactory, UpdateElements,
                StartHls, StopHls, StopInactiveHls, ForceTeardown, UpdateStream,
                Subscribe, Unsubscribe
  <2> QED BY <2>1, <2>2
<1>5. CASE NewSample
  BY <1>5 DEF NewSample
<1>6. CASE PumpStep
  <2>1. pc[Pump] # "idle" /\ stream' = stream
    BY <1>6 DEF PumpStep, Call, SkipStale, Stray, Enter, Drop, Pushed
  <2> QED BY <2>1
<1>7. CASE Arrival
  BY <1>3, <1>4, <1>5, <1>7 DEF Arrival
<1>8. CASE MainStep
  BY <1>2, <1>4, <1>8 DEF MainStep
<1>9. ASSUME NEW r \in Sessions, SessionStep(r) PROVE StreamOutlivesCallbacks'
  BY <1>2, <1>3, <1>9 DEF SessionStep
<1> QED BY <1>1, <1>6, <1>7, <1>8, <1>9 DEF Next

\* StreamOutlivesCallbacks: the ManagedStream is in the table, and so not
\* freed, as long as _on_new_sample runs (sys_stream.c:238-240, 302-306).
THEOREM StreamsOutliveCallbacks == Spec => []StreamOutlivesCallbacks
<1>1. Init => StreamOutlivesCallbacks
  BY DEF Init, StreamOutlivesCallbacks, Threads
<1> QED BY <1>1, OutlivesStep, LockAlways, PTL DEF Spec

----------------------------------------------------------------------------
(* BranchTeardown                                                          *)
(*                                                                         *)
(* The count alone is not inductive.  That ArmFallback and EosSchedules    *)
(* add a holder that was not there needs SourceInv; that Unlink starts     *)
(* from a count of zero needs FreshInv; both need LoopInv.                 *)


\* BTTypeOK with a count that may be any integer, which steps preserve one by
\* one; that it is never negative follows from CtxCounted.
LoopType == [pc : LoopPC, branch : Branches \cup {NoBranch},
             source : Sources \cup {"none"}]

WeakType ==
    /\ live \in BOOLEAN
    /\ phase \in [Branches -> Phases]
    /\ inBin \in SUBSET Branches
    /\ refs \in [Branches -> Int]
    /\ done \in SUBSET Branches
    /\ timeout_id \in SUBSET Branches
    /\ probe \in [Branches -> ProbePC]
    /\ due \in [Branches -> SUBSET Sources]
    /\ loop \in LoopType
    /\ runs \in [Branches -> Nat]

\* No removal of b has begun, and none will if b is lost.
Fresh(b) == phase[b] \in {"absent", "failed", "attached", "removing", "lost"}

FreshInv ==
    \A b \in Branches : Fresh(b) =>
        /\ probe[b] = "none"
        /\ runs[b] = 0
        /\ \A s \in Sources : ~SourceHolds(b, s)

SourceInv ==
    \A b \in Branches :
        /\ phase[b] = "sent" => ~SourceHolds(b, "fallback")
        /\ probe[b] \in {"set", "cancel", "schedule"} => ~SourceHolds(b, "final")

LoopInv ==
    /\ loop.pc \in Dispatching => loop.branch \in Branches /\ loop.source \in Sources
    /\ loop.pc = "attach" => loop.branch \in AiShm /\ phase[loop.branch] = "absent"

OnceInv ==
    \A b \in Branches :
        /\ runs[b] \in {0, 1}
        /\ runs[b] = 1 => b \in done
        /\ loop.pc \in {"clear", "null", "remove"} /\ loop.branch = b
              => b \in done /\ runs[b] = 0

TeardownInv == WeakType /\ CtxCounted /\ FreshInv /\ SourceInv /\ LoopInv /\ OnceInv

----------------------------------------------------------------------------
(* Every action keeps the types. *)

LEMMA TeardownInit == BTInit => TeardownInv
  <1> SUFFICES ASSUME BTInit PROVE TeardownInv
    OBVIOUS
  <1> USE BranchesAssumption DEF BTInit, LoopIdle, Sources
  <1>1. WeakType
    BY DEF WeakType, LoopType, Phases, ProbePC, LoopPC
  <1>2. \A b \in Branches, s \in Sources : ~SourceHolds(b, s)
    BY DEF SourceHolds, BeingDispatched, Dispatching
  <1>3. CtxCounted
    <2> SUFFICES ASSUME NEW b \in Branches
                 PROVE refs[b] = One(phase[b] \in InCallback) + One(probe[b] # "none")
                                   + One(SourceHolds(b, "fallback"))
                                   + One(SourceHolds(b, "final"))
      BY DEF CtxCounted
    <2>1. phase[b] \notin InCallback /\ probe[b] = "none" /\ refs[b] = 0
      BY DEF InCallback
    <2>2. ~SourceHolds(b, "fallback") /\ ~SourceHolds(b, "final")
      BY <1>2
    <2> QED
      BY <2>1, <2>2 DEF One
  <1>4. FreshInv /\ SourceInv /\ LoopInv /\ OnceInv
    BY <1>2 DEF FreshInv, SourceInv, LoopInv, OnceInv, Dispatching
  <1> QED
    BY <1>1, <1>3, <1>4 DEF TeardownInv

LEMMA TypesStep == WeakType /\ LoopInv /\ [BTNext]_BTvars => WeakType'
  <1> SUFFICES ASSUME WeakType, LoopInv, [BTNext]_BTvars PROVE WeakType'
    OBVIOUS
  <1> USE BranchesAssumption
       DEF WeakType, LoopType, Phases, ProbePC, LoopPC, Sources, LoopIdle,
           PhaseTo, ProbeTo, LoopTo, Ref, Unref
  <1>1. ASSUME NEW b \in Branches, Attach(b) PROVE WeakType'
    BY <1>1 DEF Attach, AddBranch
  <1>2. ASSUME NEW b \in Branches, AttachShm(b) PROVE WeakType'
    BY <1>2 DEF AttachShm
  <1>3. ASSUME AddShm PROVE WeakType'
    BY <1>3 DEF AddShm, AddBranch, LoopInv
  <1>4. ASSUME NEW b \in Branches, CaptureRemoveBranch(b) PROVE WeakType'
    BY <1>4 DEF CaptureRemoveBranch
  <1>5. ASSUME NEW b \in Branches, UnlinkStep(b) PROVE WeakType'
    <2>1. CASE Unlink(b)
      BY <2>1 DEF Unlink
    <2>2. CASE ArmFallback(b)
      BY <2>2 DEF ArmFallback
    <2>3. CASE StoreTimeoutId(b)
      BY <2>3 DEF StoreTimeoutId
    <2>4. CASE LeaveCallback(b)
      BY <2>4 DEF LeaveCallback
    <2> QED
      BY <1>5, <2>1, <2>2, <2>3, <2>4 DEF UnlinkStep
  <1>6. ASSUME NEW b \in Branches, EosArrives(b) PROVE WeakType'
    BY <1>6 DEF EosArrives
  <1>7. ASSUME NEW b \in Branches, EosStep(b) PROVE WeakType'
    <2>1. CASE EosCancels(b)
      BY <2>1 DEF EosCancels, CancelFallback
    <2>2. CASE EosSchedules(b)
      BY <2>2 DEF EosSchedules
    <2>3. CASE EosLeaves(b)
      BY <2>3 DEF EosLeaves
    <2> QED
      BY <1>7, <2>1, <2>2, <2>3 DEF EosStep
  <1>8. ASSUME NEW b \in Branches, NEW s \in Sources, Dispatch(b, s) PROVE WeakType'
    BY <1>8 DEF Dispatch
  <1>9. CASE TeardownCheck
    BY <1>9, loop.branch \in Branches DEF TeardownCheck, LoopInv, Dispatching
  <1>10. CASE TeardownClear
    BY <1>10, loop.branch \in Branches DEF TeardownClear, CancelFallback, LoopInv, Dispatching
  <1>11. CASE TeardownNull
    BY <1>11 DEF TeardownNull
  <1>12. CASE TeardownRemove
    BY <1>12, loop.branch \in Branches DEF TeardownRemove, LoopInv, Dispatching
  <1>13. CASE TeardownReturn
    BY <1>13, loop.branch \in Branches DEF TeardownReturn, LoopInv, Dispatching
  <1>14. CASE StopCapture
    <2>1. /\ phase' \in [Branches -> Phases]
          /\ probe' \in [Branches -> ProbePC]
          /\ refs' \in [Branches -> Int]
      BY <1>14 DEF StopCapture
    <2> QED
      BY <1>14, <2>1 DEF StopCapture
  <1>15. CASE UNCHANGED BTvars
    BY <1>15 DEF BTvars
  <1> QED
    BY <1>1, <1>2, <1>3, <1>4, <1>5, <1>6, <1>7, <1>8, <1>9, <1>10, <1>11, <1>12,
       <1>13, <1>14, <1>15 DEF BTNext, MainLoopStep

----------------------------------------------------------------------------
(* Every action keeps the parts of the inductive invariant. *)

\* The main loop is dispatching a source of a branch, or attaching a new one.
LEMMA LoopStep == TeardownInv /\ [BTNext]_BTvars => LoopInv'
  <1> SUFFICES ASSUME TeardownInv, [BTNext]_BTvars PROVE LoopInv'
    OBVIOUS
  <1> USE BranchesAssumption
       DEF TeardownInv, WeakType, LoopType, LoopInv, Dispatching, LoopIdle, PhaseTo, ProbeTo,
           LoopTo, Sources
  <1>1. ASSUME NEW b \in Branches, Attach(b) PROVE LoopInv'
    BY <1>1 DEF Attach, AddBranch
  <1>2. ASSUME NEW b \in Branches, AttachShm(b) PROVE LoopInv'
    BY <1>2 DEF AttachShm
  <1>3. CASE AddShm
    BY <1>3 DEF AddShm, AddBranch
  <1>4. ASSUME NEW b \in Branches, CaptureRemoveBranch(b) PROVE LoopInv'
    BY <1>4 DEF CaptureRemoveBranch
  <1>5. ASSUME NEW b \in Branches, Unlink(b) PROVE LoopInv'
    BY <1>5 DEF Unlink
  <1>6. ASSUME NEW b \in Branches, ArmFallback(b) PROVE LoopInv'
    BY <1>6 DEF ArmFallback
  <1>7. ASSUME NEW b \in Branches, StoreTimeoutId(b) PROVE LoopInv'
    BY <1>7 DEF StoreTimeoutId
  <1>8. ASSUME NEW b \in Branches, LeaveCallback(b) PROVE LoopInv'
    BY <1>8 DEF LeaveCallback
  <1>9. ASSUME NEW b \in Branches, EosArrives(b) PROVE LoopInv'
    BY <1>9 DEF EosArrives
  <1>10. ASSUME NEW b \in Branches, EosCancels(b) PROVE LoopInv'
    BY <1>10 DEF EosCancels, CancelFallback
  <1>11. ASSUME NEW b \in Branches, EosSchedules(b) PROVE LoopInv'
    BY <1>11 DEF EosSchedules
  <1>12. ASSUME NEW b \in Branches, EosLeaves(b) PROVE LoopInv'
    BY <1>12 DEF EosLeaves
  <1>13. ASSUME NEW b \in Branches, NEW s \in Sources, Dispatch(b, s) PROVE LoopInv'
    BY <1>13 DEF Dispatch
  <1>14. CASE TeardownCheck
    BY <1>14 DEF TeardownCheck
  <1>15. CASE TeardownClear
    BY <1>15 DEF TeardownClear, CancelFallback
  <1>16. CASE TeardownNull
    BY <1>16 DEF TeardownNull
  <1>17. CASE TeardownRemove
    BY <1>17 DEF TeardownRemove
  <1>18. CASE TeardownReturn
    BY <1>18 DEF TeardownReturn
  <1>19. CASE StopCapture
    BY <1>19 DEF StopCapture
  <1>20. CASE UNCHANGED BTvars
    BY <1>20 DEF BTvars
  <1> QED
    BY <1>1, <1>2, <1>3, <1>4, <1>5, <1>6, <1>7, <1>8, <1>9, <1>10,
       <1>11, <1>12, <1>13, <1>14, <1>15, <1>16, <1>17, <1>18, <1>19, <1>20
       DEF BTNext, MainLoopStep, UnlinkStep, EosStep

\* A branch whose removal has not begun has no ctx, probe or source.
LEMMA FreshStep == TeardownInv /\ [BTNext]_BTvars => FreshInv'
  <1> SUFFICES ASSUME TeardownInv, [BTNext]_BTvars PROVE FreshInv'
    OBVIOUS
  <1> USE BranchesAssumption
       DEF TeardownInv, WeakType, LoopType, LoopInv, Dispatching, LoopIdle, PhaseTo, ProbeTo,
           LoopTo,
           FreshInv, Fresh, SourceHolds, BeingDispatched, Sources, Ref, Unref
  <1>1. ASSUME NEW b \in Branches, Attach(b) PROVE FreshInv'
    BY <1>1 DEF Attach, AddBranch
  <1>2. ASSUME NEW b \in Branches, AttachShm(b) PROVE FreshInv'
    BY <1>2 DEF AttachShm
  <1>3. CASE AddShm
    BY <1>3 DEF AddShm, AddBranch
  <1>4. ASSUME NEW b \in Branches, CaptureRemoveBranch(b) PROVE FreshInv'
    BY <1>4 DEF CaptureRemoveBranch
  <1>5. ASSUME NEW b \in Branches, Unlink(b) PROVE FreshInv'
    BY <1>5 DEF Unlink
  <1>6. ASSUME NEW b \in Branches, ArmFallback(b) PROVE FreshInv'
    BY <1>6 DEF ArmFallback
  <1>7. ASSUME NEW b \in Branches, StoreTimeoutId(b) PROVE FreshInv'
    BY <1>7 DEF StoreTimeoutId
  <1>8. ASSUME NEW b \in Branches, LeaveCallback(b) PROVE FreshInv'
    BY <1>8 DEF LeaveCallback
  <1>9. ASSUME NEW b \in Branches, EosArrives(b) PROVE FreshInv'
    BY <1>9 DEF EosArrives
  <1>10. ASSUME NEW b \in Branches, EosCancels(b) PROVE FreshInv'
    BY <1>10 DEF EosCancels, CancelFallback
  <1>11. ASSUME NEW b \in Branches, EosSchedules(b) PROVE FreshInv'
    BY <1>11 DEF EosSchedules
  <1>12. ASSUME NEW b \in Branches, EosLeaves(b) PROVE FreshInv'
    BY <1>12 DEF EosLeaves
  <1>13. ASSUME NEW b \in Branches, NEW s \in Sources, Dispatch(b, s) PROVE FreshInv'
    BY <1>13 DEF Dispatch
  <1>14. CASE TeardownCheck
    BY <1>14 DEF TeardownCheck
  <1>15. CASE TeardownClear
    BY <1>15 DEF TeardownClear, CancelFallback
  <1>16. CASE TeardownNull
    BY <1>16 DEF TeardownNull
  <1>17. CASE TeardownRemove
    BY <1>17 DEF TeardownRemove
  <1>18. CASE TeardownReturn
    BY <1>18 DEF TeardownReturn
  <1>19. CASE StopCapture
    BY <1>19 DEF StopCapture
  <1>20. CASE UNCHANGED BTvars
    BY <1>20 DEF BTvars
  <1> QED
    BY <1>1, <1>2, <1>3, <1>4, <1>5, <1>6, <1>7, <1>8, <1>9, <1>10,
       <1>11, <1>12, <1>13, <1>14, <1>15, <1>16, <1>17, <1>18, <1>19, <1>20
       DEF BTNext, MainLoopStep, UnlinkStep, EosStep

\* Nobody adds a source that is already there.
LEMMA SourceStep == TeardownInv /\ [BTNext]_BTvars => SourceInv'
  <1> SUFFICES ASSUME TeardownInv, [BTNext]_BTvars PROVE SourceInv'
    OBVIOUS
  <1> USE BranchesAssumption
       DEF TeardownInv, WeakType, LoopType, LoopInv, Dispatching, LoopIdle, PhaseTo, ProbeTo,
           LoopTo,
           FreshInv, Fresh, SourceHolds, BeingDispatched, Sources, Ref, Unref, SourceInv
  <1>1. ASSUME NEW b \in Branches, Attach(b) PROVE SourceInv'
    BY <1>1 DEF Attach, AddBranch
  <1>2. ASSUME NEW b \in Branches, AttachShm(b) PROVE SourceInv'
    BY <1>2 DEF AttachShm
  <1>3. CASE AddShm
    BY <1>3 DEF AddShm, AddBranch
  <1>4. ASSUME NEW b \in Branches, CaptureRemoveBranch(b) PROVE SourceInv'
    BY <1>4 DEF CaptureRemoveBranch
  <1>5. ASSUME NEW b \in Branches, Unlink(b) PROVE SourceInv'
    BY <1>5 DEF Unlink
  <1>6. ASSUME NEW b \in Branches, ArmFallback(b) PROVE SourceInv'
    BY <1>6 DEF ArmFallback
  <1>7. ASSUME NEW b \in Branches, StoreTimeoutId(b) PROVE SourceInv'
    BY <1>7 DEF StoreTimeoutId
  <1>8. ASSUME NEW b \in Branches, LeaveCallback(b) PROVE SourceInv'
    BY <1>8 DEF LeaveCallback
  <1>9. ASSUME NEW b \in Branches, EosArrives(b) PROVE SourceInv'
    BY <1>9 DEF EosArrives
  <1>10. ASSUME NEW b \in Branches, EosCancels(b) PROVE SourceInv'
    BY <1>10 DEF EosCancels, CancelFallback
  <1>11. ASSUME NEW b \in Branches, EosSchedules(b) PROVE SourceInv'
    BY <1>11 DEF EosSchedules
  <1>12. ASSUME NEW b \in Branches, EosLeaves(b) PROVE SourceInv'
    BY <1>12 DEF EosLeaves
  <1>13. ASSUME NEW b \in Branches, NEW s \in Sources, Dispatch(b, s) PROVE SourceInv'
    BY <1>13 DEF Dispatch
  <1>14. CASE TeardownCheck
    BY <1>14 DEF TeardownCheck
  <1>15. CASE TeardownClear
    BY <1>15 DEF TeardownClear, CancelFallback
  <1>16. CASE TeardownNull
    BY <1>16 DEF TeardownNull
  <1>17. CASE TeardownRemove
    BY <1>17 DEF TeardownRemove
  <1>18. CASE TeardownReturn
    BY <1>18 DEF TeardownReturn
  <1>19. CASE StopCapture
    BY <1>19 DEF StopCapture
  <1>20. CASE UNCHANGED BTvars
    BY <1>20 DEF BTvars
  <1> QED
    BY <1>1, <1>2, <1>3, <1>4, <1>5, <1>6, <1>7, <1>8, <1>9, <1>10,
       <1>11, <1>12, <1>13, <1>14, <1>15, <1>16, <1>17, <1>18, <1>19, <1>20
       DEF BTNext, MainLoopStep, UnlinkStep, EosStep

\* done is set before the teardown runs and never cleared after.
LEMMA OnceStep == TeardownInv /\ [BTNext]_BTvars => OnceInv'
  <1> SUFFICES ASSUME TeardownInv, [BTNext]_BTvars PROVE OnceInv'
    OBVIOUS
  <1> USE BranchesAssumption
       DEF TeardownInv, WeakType, LoopType, LoopInv, Dispatching, LoopIdle, PhaseTo, ProbeTo,
           LoopTo,
           FreshInv, Fresh, SourceHolds, BeingDispatched, Sources, Ref, Unref, OnceInv
  <1>1. ASSUME NEW b \in Branches, Attach(b) PROVE OnceInv'
    BY <1>1 DEF Attach, AddBranch
  <1>2. ASSUME NEW b \in Branches, AttachShm(b) PROVE OnceInv'
    BY <1>2 DEF AttachShm
  <1>3. CASE AddShm
    BY <1>3 DEF AddShm, AddBranch
  <1>4. ASSUME NEW b \in Branches, CaptureRemoveBranch(b) PROVE OnceInv'
    BY <1>4 DEF CaptureRemoveBranch
  <1>5. ASSUME NEW b \in Branches, Unlink(b) PROVE OnceInv'
    BY <1>5 DEF Unlink
  <1>6. ASSUME NEW b \in Branches, ArmFallback(b) PROVE OnceInv'
    BY <1>6 DEF ArmFallback
  <1>7. ASSUME NEW b \in Branches, StoreTimeoutId(b) PROVE OnceInv'
    BY <1>7 DEF StoreTimeoutId
  <1>8. ASSUME NEW b \in Branches, LeaveCallback(b) PROVE OnceInv'
    BY <1>8 DEF LeaveCallback
  <1>9. ASSUME NEW b \in Branches, EosArrives(b) PROVE OnceInv'
    BY <1>9 DEF EosArrives
  <1>10. ASSUME NEW b \in Branches, EosCancels(b) PROVE OnceInv'
    BY <1>10 DEF EosCancels, CancelFallback
  <1>11. ASSUME NEW b \in Branches, EosSchedules(b) PROVE OnceInv'
    BY <1>11 DEF EosSchedules
  <1>12. ASSUME NEW b \in Branches, EosLeaves(b) PROVE OnceInv'
    BY <1>12 DEF EosLeaves
  <1>13. ASSUME NEW b \in Branches, NEW s \in Sources, Dispatch(b, s) PROVE OnceInv'
    BY <1>13 DEF Dispatch
  <1>14. CASE TeardownCheck
    BY <1>14 DEF TeardownCheck
  <1>15. CASE TeardownClear
    BY <1>15 DEF TeardownClear, CancelFallback
  <1>16. CASE TeardownNull
    BY <1>16 DEF TeardownNull
  <1>17. CASE TeardownRemove
    BY <1>17 DEF TeardownRemove
  <1>18. CASE TeardownReturn
    BY <1>18 DEF TeardownReturn
  <1>19. CASE StopCapture
    BY <1>19 DEF StopCapture
  <1>20. CASE UNCHANGED BTvars
    BY <1>20 DEF BTvars
  <1> QED
    BY <1>1, <1>2, <1>3, <1>4, <1>5, <1>6, <1>7, <1>8, <1>9, <1>10,
       <1>11, <1>12, <1>13, <1>14, <1>15, <1>16, <1>17, <1>18, <1>19, <1>20
       DEF BTNext, MainLoopStep, UnlinkStep, EosStep

\* Every action adds or drops a reference with its holder.
LEMMA CountStep == TeardownInv /\ [BTNext]_BTvars => CtxCounted'
  <1> SUFFICES ASSUME TeardownInv, [BTNext]_BTvars PROVE CtxCounted'
    OBVIOUS
  <1> USE BranchesAssumption
       DEF TeardownInv, WeakType, LoopType, LoopInv, Dispatching, LoopIdle, PhaseTo, ProbeTo,
           LoopTo,
           FreshInv, Fresh, SourceHolds, BeingDispatched, Sources, Ref, Unref,
           SourceInv, CtxCounted, One, InCallback
  <1>1. ASSUME NEW b \in Branches, Attach(b) PROVE CtxCounted'
    BY <1>1 DEF Attach, AddBranch
  <1>2. ASSUME NEW b \in Branches, AttachShm(b) PROVE CtxCounted'
    BY <1>2 DEF AttachShm
  <1>3. CASE AddShm
    BY <1>3 DEF AddShm, AddBranch
  <1>4. ASSUME NEW b \in Branches, CaptureRemoveBranch(b) PROVE CtxCounted'
    BY <1>4 DEF CaptureRemoveBranch
  <1>5. ASSUME NEW b \in Branches, Unlink(b) PROVE CtxCounted'
    BY <1>5 DEF Unlink
  <1>6. ASSUME NEW b \in Branches, ArmFallback(b) PROVE CtxCounted'
    BY <1>6 DEF ArmFallback
  <1>7. ASSUME NEW b \in Branches, StoreTimeoutId(b) PROVE CtxCounted'
    BY <1>7 DEF StoreTimeoutId
  <1>8. ASSUME NEW b \in Branches, LeaveCallback(b) PROVE CtxCounted'
    BY <1>8 DEF LeaveCallback
  <1>9. ASSUME NEW b \in Branches, EosArrives(b) PROVE CtxCounted'
    BY <1>9 DEF EosArrives
  <1>10. ASSUME NEW b \in Branches, EosCancels(b) PROVE CtxCounted'
    BY <1>10 DEF EosCancels, CancelFallback
  <1>11. ASSUME NEW b \in Branches, EosSchedules(b) PROVE CtxCounted'
    BY <1>11 DEF EosSchedules
  <1>12. ASSUME NEW b \in Branches, EosLeaves(b) PROVE CtxCounted'
    BY <1>12 DEF EosLeaves
  <1>13. ASSUME NEW b \in Branches, NEW s \in Sources, Dispatch(b, s) PROVE CtxCounted'
    BY <1>13 DEF Dispatch
  <1>14. CASE TeardownCheck
    BY <1>14 DEF TeardownCheck
  <1>15. CASE TeardownClear
    BY <1>15 DEF TeardownClear, CancelFallback
  <1>16. CASE TeardownNull
    BY <1>16 DEF TeardownNull
  <1>17. CASE TeardownRemove
    BY <1>17 DEF TeardownRemove
  <1>18. CASE TeardownReturn
    BY <1>18 DEF TeardownReturn
  <1>19. CASE StopCapture
    BY <1>19 DEF StopCapture
  <1>20. CASE UNCHANGED BTvars
    BY <1>20 DEF BTvars
  <1> QED
    BY <1>1, <1>2, <1>3, <1>4, <1>5, <1>6, <1>7, <1>8, <1>9, <1>10,
       <1>11, <1>12, <1>13, <1>14, <1>15, <1>16, <1>17, <1>18, <1>19, <1>20
       DEF BTNext, MainLoopStep, UnlinkStep, EosStep

----------------------------------------------------------------------------

LEMMA TeardownAlways == BTSpec => []TeardownInv
  <1>1. TeardownInv /\ [BTNext]_BTvars => TeardownInv'
    BY TypesStep, LoopStep, FreshStep, SourceStep, OnceStep, CountStep DEF TeardownInv
  <1> QED
    BY TeardownInit, <1>1, PTL DEF BTSpec

\* The count of a TeardownCtx is the number of its holders, for any number of
\* branches and with the capture stopped at any time (sys_capture.c:505-537).
THEOREM CtxAlwaysCounted == BTSpec => []CtxCounted
  <1>1. TeardownInv => CtxCounted
    BY DEF TeardownInv
  <1> QED
    BY TeardownAlways, <1>1, PTL

\* The body of _teardown_run is executed at most once per branch, whichever
\* of the two sources comes first (sys_capture.c:539-545).
THEOREM TeardownRunsOnce == BTSpec => []TornDownOnce
  <1>1. TeardownInv => TornDownOnce
    <2> SUFFICES ASSUME TeardownInv, NEW b \in Branches PROVE runs[b] <= 1
      BY DEF TornDownOnce
    <2>1. runs[b] \in {0, 1}
      BY DEF TeardownInv, OnceInv
    <2> QED
      BY <2>1
  <1> QED
    BY TeardownAlways, <1>1, PTL

\* For any number of branches the hand-kept count of a ctx is exact and its
\* branch is taken down once (sys_capture.c:520-545).
THEOREM TeardownExact == BTSpec => []TeardownIsExact
  <1>1. CtxCounted /\ TornDownOnce => TeardownIsExact
    BY DEF TeardownIsExact
  <1> QED
    BY CtxAlwaysCounted, TeardownRunsOnce, <1>1, PTL

\* Types are kept; the count of a ctx is never negative, so that no ctx is
\* freed twice (sys_capture.c:520-531).
THEOREM TeardownTypes == BTSpec => []BTTypeOK
  <1>1. ASSUME TeardownInv PROVE BTTypeOK
    <2>1. ASSUME NEW b \in Branches PROVE refs[b] \in Nat
      <3> DEFINE p == One(phase[b] \in InCallback)
                 q == One(probe[b] # "none")
                 f == One(SourceHolds(b, "fallback"))
                 l == One(SourceHolds(b, "final"))
      <3>1. p \in Nat /\ q \in Nat /\ f \in Nat /\ l \in Nat
        BY DEF One
      <3>2. refs[b] = p + q + f + l
        BY <1>1 DEF TeardownInv, CtxCounted
      <3> HIDE DEF p, q, f, l
      <3> QED
        BY <3>1, <3>2
    <2> QED
      BY <1>1, <2>1 DEF TeardownInv, WeakType, LoopType, BTTypeOK
  <1> QED
    BY TeardownAlways, <1>1, PTL
=============================================================================
