---------------------------- MODULE Evidence_proofs ----------------------------
(***************************************************************************)
(* What the product keeps of an incident: its recordings and its pictures. *)
(*                                                                         *)
(* Of Recording, for any tiers, requests, number of recordings and lengths *)
(* of the day and the sleeps: the types, that a running recording can      *)
(* always be reached through the table, that an event recording that runs  *)
(* has its watchdog, that the sleeping scheduler has followed every        *)
(* schedule, and that a refused schedule conflicts.                        *)
(*                                                                         *)
(* Of AlertSystem, for any models, frames, queues and mail server: that    *)
(* the manager's ring is its recent past, that a picture leaves its        *)
(* directory only for recipients who have it, that nobody is alerted twice *)
(* while he is followed and remembered, and that after a frame each        *)
(* detection is followed by one track.                                     *)
(***************************************************************************)
EXTENDS Recording, AlertSystem, FiniteSetTheorems, TLAPS


(* A recording exists exactly while the table has it, under one key.        *)
TableOwns ==
  /\ \A r \in Recs : req[r] # None <=> InTable(r)
  /\ \A k1, k2 \in Keys : table[k1] # None /\ table[k1] = table[k2] => k1 = k2

(* Only objects that were made are pointed to.                              *)
OnlyMade ==
  /\ \A k \in Keys : table[k] # None => table[k] <= made
  /\ \A r \in pokes \cup timers : r <= made

(* The inductive invariant.                                                 *)
IInv ==
  /\ TypeOK
  /\ TableOwns
  /\ OnlyMade
  /\ \A r \in running : InTable(r)
  /\ EventWatched

LEMMA RequestFacts ==
  ASSUME NEW q \in AllRequests
  PROVE  IsRequest(q) /\ q # None
  BY RequestAssumption, KeysAssumption DEF AllRequests

\* A boundary is a time or None.
LEMMA BoundaryType ==
  ASSUME NEW q \in AllRequests, NEW t \in Times, Scheduled(q)
  PROVE  Boundary(q, t) \in Int \cup {None}
  <1>1. IsRequest(q) /\ Day \in Int /\ t \in Int /\ Horizon \in Int
    BY RequestFacts, BoundAssumption DEF Times
  <1>2. q.start \in Int /\ q.end \in Int
    BY <1>1 DEF IsRequest, Scheduled, Times
  <1>3. TimeOfDay(t) \in Int
    BY <1>1, BoundAssumption DEF TimeOfDay
  <1> QED BY <1>1, <1>2, <1>3 DEF Boundary, Scheduled

LEMMA EarlierType ==
  ASSUME NEW a \in Int \cup {None}, NEW b \in Int \cup {None}
  PROVE  Earlier(a, b) \in Int \cup {None}
  BY DEF Earlier

LEMMA InitIInv == Init => IInv
  <1> SUFFICES ASSUME Init PROVE IInv
    OBVIOUS
  <1>1. TypeOK
    <2>1. wall \in Times /\ wait \in 0 .. MaxWait /\ made \in 0 .. MaxRecs /\ alerts \in 0 .. MaxAlerts
      BY BoundAssumption, WaitAssumption DEF Init, Times
    <2>2. table \in [Keys -> Recs \cup {None}] /\ req \in [Recs -> AllRequests \cup {None}]
      BY DEF Init
    <2>3. next \in Int \cup {None} /\ heard \in (SUBSET Keys) \cup {None}
      BY DEF Init
    <2> QED BY <2>1, <2>2, <2>3 DEF Init, TypeOK
  <1>2. TableOwns
    BY KeysAssumption DEF Init, TableOwns, InTable
  <1> QED BY <1>1, <1>2 DEF Init, IInv, OnlyMade, EventWatched

\* Freeing recordings and taking them out of the table, whole keys at a time.
LEMMA FreeKeeps ==
  ASSUME IInv, NEW ks \in SUBSET Keys,
         Free({table[k] : k \in ks} \ {None}),
         table' = [k \in Keys |-> IF k \in ks THEN None ELSE table[k]],
         made' = made, pokes' = pokes
  PROVE  /\ table' \in [Keys -> Recs \cup {None}]
         /\ req' \in [Recs -> AllRequests \cup {None}]
         /\ running' \subseteq Recs /\ timers' \subseteq Recs
         /\ finished' \subseteq Recs /\ failed' \subseteq Recs
         /\ TableOwns' /\ OnlyMade' /\ (\A r \in running : InTable(r))'
         /\ EventWatched'
  <1> DEFINE gone == {table[k] : k \in ks} \ {None}
  <1>1. gone \subseteq Recs
    BY DEF IInv, TypeOK
  <1>2. /\ req' = [r \in Recs |-> IF r \in gone THEN None ELSE req[r]]
        /\ running' = running \ gone
        /\ timers' = timers \ (gone \cap running)
        /\ finished' = finished \ gone /\ failed' = failed \ gone
    BY DEF Free, StopAll
  <1>3. ASSUME NEW r \in Recs, r \notin gone
        PROVE  InTable(r)' <=> InTable(r)
    BY <1>3, KeysAssumption DEF InTable, IInv, TypeOK
  <1>4. ASSUME NEW r \in gone
        PROVE  ~InTable(r)'
    <2>1. PICK k \in ks : table[k] = r /\ r # None
      BY <1>4
    <2> QED BY <2>1, KeysAssumption DEF InTable, IInv, TableOwns, TypeOK
  <1> HIDE DEF gone
  <1>5. TableOwns'
    <2>1. ASSUME NEW r \in Recs PROVE (req[r] # None)' <=> InTable(r)'
      BY <1>1, <1>2, <1>3, <1>4 DEF IInv, TableOwns
    <2>2. ASSUME NEW k1 \in Keys, NEW k2 \in Keys, table'[k1] # None, table'[k1] = table'[k2]
          PROVE  k1 = k2
      BY <2>2 DEF IInv, TableOwns, TypeOK
    <2> QED BY <2>1, <2>2 DEF TableOwns
  <1>6. OnlyMade'
    BY <1>2 DEF IInv, OnlyMade, TypeOK
  <1>7. (\A r \in running : InTable(r))'
    BY <1>2, <1>3 DEF IInv, TypeOK
  <1>8. EventWatched'
    BY <1>2 DEF IInv, EventWatched, Mode, TypeOK
  <1>9. table' \in [Keys -> Recs \cup {None}]
    BY DEF IInv, TypeOK
  <1>10. req' \in [Recs -> AllRequests \cup {None}]
    BY <1>2 DEF IInv, TypeOK
  <1>11. /\ running' \subseteq Recs /\ timers' \subseteq Recs
         /\ finished' \subseteq Recs /\ failed' \subseteq Recs
    BY <1>2 DEF IInv, TypeOK
  <1> QED BY <1>5, <1>6, <1>7, <1>8, <1>9, <1>10, <1>11

\* Steps that leave the recordings and what points to them alone.
LEMMA RecordingsUntouched ==
  ASSUME IInv, UNCHANGED <<recVars, pokes>>
  PROVE  TableOwns' /\ OnlyMade' /\ (\A r \in running : InTable(r))' /\ EventWatched'
  BY DEF IInv, recVars, TableOwns, OnlyMade, EventWatched, InTable, Mode

LEMMA StartRecordingIInv ==
  ASSUME IInv, NEW k \in Keys, NEW q \in Requests[k], StartRecording(k, q)
  PROVE  IInv'
  <1>a. PICK r \in Recs : r = made + 1
    BY BoundAssumption DEF StartRecording, NewRecording, IInv, TypeOK, Recs
  <1>b. PICK old \in SUBSET Recs : old = {table[k]} \ {None}
    BY DEF IInv, TypeOK
  <1>1. q \in AllRequests /\ q # None /\ r # None
    BY KeysAssumption DEF AllRequests
  <1>2. ~InTable(r) /\ r \notin running /\ old \subseteq Recs /\ r \notin old
    BY <1>1, <1>a, <1>b DEF IInv, OnlyMade, InTable, TypeOK, Recs
  <1>3. /\ table' = [table EXCEPT ![k] = r]
        /\ req' = [i \in Recs |-> IF i = r THEN q ELSE IF i \in old THEN None ELSE req[i]]
        /\ running' = (running \ old) \cup (IF StartsAtOnce(q) THEN {r} ELSE {})
        /\ timers' = timers \ (old \cap running)
        /\ made' = r /\ pokes' = pokes
    BY <1>a, <1>b DEF StartRecording, NewRecording
  <1>4a. DOMAIN table = Keys /\ table'[k] = r /\ (\A j \in Keys \ {k} : table'[j] = table[j])
    BY <1>3 DEF IInv, TypeOK
  <1>4. ASSUME NEW i \in Recs, i # r, i \notin old
        PROVE  InTable(i)' <=> InTable(i)
    <2>1. i # None
      BY KeysAssumption
    <2> QED BY <2>1, <1>4, <1>4a, <1>b DEF InTable
  <1>5. InTable(r)'
    BY <1>4a DEF InTable
  <1>6. \A i \in old : ~InTable(i)'
    BY <1>1, <1>2, <1>3, <1>b DEF InTable, IInv, TypeOK, TableOwns
  <1>7. TypeOK'
    <2>1. table' \in [Keys -> Recs \cup {None}]
      BY <1>1, <1>3 DEF IInv, TypeOK
    <2>2. req' \in [Recs -> AllRequests \cup {None}]
      BY <1>1, <1>3 DEF IInv, TypeOK
    <2>3. /\ running' \subseteq Recs /\ timers' \subseteq Recs
          /\ finished' \subseteq Recs /\ failed' \subseteq Recs
      BY <1>1, <1>3 DEF StartRecording, IInv, TypeOK
    <2>4. made' \in 0 .. MaxRecs
      BY <1>1, <1>3, BoundAssumption DEF Recs
    <2> QED BY <2>1, <2>2, <2>3, <2>4
        DEF StartRecording, IInv, TypeOK, schedVars, clockVars, hearVars
  <1>8. TableOwns'
    <2>1. ASSUME NEW i \in Recs PROVE (req[i] # None)' <=> InTable(i)'
      BY <1>1, <1>3, <1>4, <1>5, <1>6 DEF IInv, TableOwns
    <2>2. ASSUME NEW k1 \in Keys, NEW k2 \in Keys, table'[k1] # None, table'[k1] = table'[k2]
          PROVE  k1 = k2
      BY <1>2, <1>3, <2>2 DEF IInv, TableOwns, TypeOK, InTable
    <2> QED BY <2>1, <2>2 DEF TableOwns
  <1>9. OnlyMade'
    <2>1. made \in Nat /\ r = made + 1 /\ (\A i \in pokes \cup timers : i \in Int)
      BY <1>a, BoundAssumption DEF IInv, TypeOK, Recs
    <2>2. \A j \in Keys : table'[j] # None => table'[j] <= made'
      <3> TAKE j \in Keys
      <3>1. table[j] \in Int \/ table[j] = None
        BY BoundAssumption DEF IInv, TypeOK, Recs
      <3>2. table[j] # None => table[j] <= made
        BY DEF IInv, OnlyMade
      <3> QED BY <2>1, <3>1, <3>2, <1>3, <1>4a
    <2>3. \A i \in pokes' \cup timers' : i <= made'
      BY <2>1, <1>3 DEF IInv, OnlyMade
    <2> QED BY <2>2, <2>3 DEF OnlyMade
  <1>10. (\A i \in running : InTable(i))'
    BY <1>1, <1>3, <1>4, <1>5 DEF IInv, TypeOK
  <1>11. EventWatched'
    BY <1>2, <1>3, <1>1 DEF IInv, EventWatched, Mode, TypeOK, StartsAtOnce
  <1> QED BY <1>7, <1>8, <1>9, <1>10, <1>11 DEF IInv

LEMMA StopRecordingIInv ==
  ASSUME IInv, NEW k \in Keys, StopRecording(k)
  PROVE  IInv'
  <1>1. {table[j] : j \in {k}} \ {None} = {table[k]}
    BY DEF StopRecording
  <1>2. /\ Free({table[j] : j \in {k}} \ {None})
        /\ table' = [j \in Keys |-> IF j \in {k} THEN None ELSE table[j]]
        /\ made' = made /\ pokes' = pokes
    BY <1>1 DEF StopRecording, IInv, TypeOK
  <1>3. TableOwns' /\ OnlyMade' /\ (\A r \in running : InTable(r))' /\ EventWatched'
    BY <1>2, FreeKeeps
  <1>4. TypeOK'
    BY <1>2, FreeKeeps
    DEF StopRecording, IInv, TypeOK, schedVars, clockVars, hearVars
  <1> QED BY <1>3, <1>4 DEF IInv

LEMMA StopLensIInv == ASSUME IInv, StopLens PROVE IInv'
  <1>1. /\ Free({table[j] : j \in Keys} \ {None})
        /\ table' = [j \in Keys |-> IF j \in Keys THEN None ELSE table[j]]
        /\ made' = made /\ pokes' = pokes
    BY DEF StopLens, Recorded
  <1>2. TableOwns' /\ OnlyMade' /\ (\A r \in running : InTable(r))' /\ EventWatched'
    BY <1>1, FreeKeeps
  <1>3. TypeOK'
    BY <1>1, FreeKeeps
    DEF StopLens, IInv, TypeOK, schedVars, clockVars, hearVars
  <1> QED BY <1>2, <1>3 DEF IInv

LEMMA ShutdownDestroyIInv == ASSUME IInv, ShutdownDestroy PROVE IInv'
  <1>1. /\ Free({table[j] : j \in Keys} \ {None})
        /\ table' = [j \in Keys |-> IF j \in Keys THEN None ELSE table[j]]
        /\ made' = made /\ pokes' = pokes
    BY DEF ShutdownDestroy, Recorded
  <1>2. TableOwns' /\ OnlyMade' /\ (\A r \in running : InTable(r))' /\ EventWatched'
    BY <1>1, FreeKeeps
  <1>3. TypeOK'
    BY <1>1, FreeKeeps
    DEF ShutdownDestroy, IInv, TypeOK, schedVars, clockVars, hearVars
  <1> QED BY <1>2, <1>3 DEF IInv

LEMMA ShutdownStopIInv == ASSUME IInv, ShutdownStop PROVE IInv'
  <1>1. running' \subseteq running /\ timers' \subseteq timers
        /\ running' = running \ Recorded
        /\ timers' = timers \ (Recorded \cap running)
    BY DEF ShutdownStop, StopAll
  <1>2. TypeOK'
    BY <1>1 DEF ShutdownStop, IInv, TypeOK, schedVars, clockVars, hearVars
  <1>3. TableOwns' /\ OnlyMade' /\ (\A r \in running : InTable(r))' /\ EventWatched'
    BY <1>1 DEF ShutdownStop, IInv, TableOwns, OnlyMade, EventWatched, InTable, Mode
  <1> QED BY <1>2, <1>3 DEF IInv

LEMMA PokeOnMainIInv == ASSUME IInv, NEW r \in Recs, PokeOnMain(r) PROVE IInv'
  <1>1. r <= made /\ InTable(r)
    BY DEF PokeOnMain, Freed, IInv, OnlyMade, TableOwns
  <1>2. running' \subseteq running \cup {r} /\ timers' = timers \cup {r} /\ pokes' \subseteq pokes
    BY DEF PokeOnMain, Start
  <1>3. TypeOK'
    BY <1>2 DEF PokeOnMain, IInv, TypeOK, schedVars, clockVars, hearVars
  <1>4. TableOwns' /\ OnlyMade' /\ (\A i \in running : InTable(i))' /\ EventWatched'
    BY <1>1, <1>2 DEF PokeOnMain, IInv, TableOwns, OnlyMade, EventWatched, InTable, Mode
  <1> QED BY <1>3, <1>4 DEF IInv

LEMMA EventTimeoutIInv == ASSUME IInv, NEW r \in Recs, EventTimeout(r) PROVE IInv'
  <1>1. TypeOK'
    BY DEF EventTimeout, IInv, TypeOK, schedVars, clockVars, hearVars
  <1>2. TableOwns' /\ OnlyMade' /\ (\A i \in running : InTable(i))' /\ EventWatched'
    BY DEF EventTimeout, IInv, TableOwns, OnlyMade, EventWatched, InTable, Mode
  <1> QED BY <1>1, <1>2 DEF IInv

LEMMA AlertVisitIInv == ASSUME IInv, NEW k \in Keys, AlertVisit(k) PROVE IInv'
  <1>1. TypeOK'
    BY DEF AlertVisit, Listening, IInv, TypeOK, recVars, schedVars, clockVars
  <1>2. TableOwns' /\ OnlyMade' /\ (\A i \in running : InTable(i))' /\ EventWatched'
    BY DEF AlertVisit, IInv, TypeOK, recVars, TableOwns, OnlyMade, EventWatched, InTable, Mode
  <1> QED BY <1>1, <1>2 DEF IInv

\* One entry of the scheduler's pass.
LEMMA SchedulerStepIInv == ASSUME IInv, NEW k \in Keys, SchedulerStep(k) PROVE IInv'
  <1>1. CASE Prune(k)
    <2>1. table[k] # None
      BY <1>1, KeysAssumption DEF Prune, IInv, TypeOK
    <2>2. {table[j] : j \in {k}} \ {None} = {table[k]}
      BY <2>1
    <2>3. /\ Free({table[j] : j \in {k}} \ {None})
          /\ table' = [j \in Keys |-> IF j \in {k} THEN None ELSE table[j]]
          /\ made' = made /\ pokes' = pokes
      BY <1>1, <2>2 DEF Prune, SchedulerStep, IInv, TypeOK
    <2>4. TableOwns' /\ OnlyMade' /\ (\A r \in running : InTable(r))' /\ EventWatched'
      BY <2>3, FreeKeeps
    <2>5. /\ table' \in [Keys -> Recs \cup {None}]
          /\ req' \in [Recs -> AllRequests \cup {None}]
          /\ running' \subseteq Recs /\ timers' \subseteq Recs
          /\ finished' \subseteq Recs /\ failed' \subseteq Recs
      BY <2>3, FreeKeeps
    <2>6. todo' \subseteq Keys /\ next' = next
      BY <1>1 DEF Prune, SchedulerStep, IInv, TypeOK
    <2>7. TypeOK'
      BY <2>5, <2>6 DEF SchedulerStep, IInv, TypeOK, clockVars, hearVars
    <2> QED BY <2>4, <2>7 DEF IInv
  <1>2. CASE Visit(k)
    <2> DEFINE r == table[k]
               q == req[r]
    <2>1. r \in Recs /\ InTable(r) /\ q \in AllRequests /\ Scheduled(q) /\ r \notin finished
      BY <1>2 DEF Visit, IInv, TypeOK, TableOwns, InTable
    <2>2. q.mode # "event"
      BY <2>1 DEF Scheduled
    <2>3. next' \in Int \cup {None}
      BY <1>2, <2>1, BoundaryType, EarlierType DEF Visit, IInv, TypeOK
    <2>4. /\ running' \subseteq running \cup {r}
          /\ finished' \subseteq finished \cup {r} /\ failed' \subseteq failed \cup {r}
          /\ \/ timers' = timers
             \/ timers' = timers \ ({r} \cap running) /\ running' = running \ {r}
          /\ UNCHANGED <<table, req>>
      BY <1>2 DEF Visit, Start, StopAll
    <2>5. TypeOK'
      BY <2>1, <2>3, <2>4 DEF SchedulerStep, IInv, TypeOK, clockVars, hearVars
    <2>6. TableOwns' /\ (\A i \in running : InTable(i))'
      BY <2>1, <2>4 DEF IInv, TableOwns, InTable
    <2>7. OnlyMade'
      BY <2>4 DEF SchedulerStep, IInv, OnlyMade
    <2>8. EventWatched'
      BY <2>2, <2>4 DEF IInv, EventWatched, Mode
    <2> QED BY <2>5, <2>6, <2>7, <2>8 DEF IInv
  <1>3. CASE Pass(k)
    <2>1. TypeOK'
      BY <1>3 DEF Pass, SchedulerStep, IInv, TypeOK, clockVars, hearVars
    <2>2. UNCHANGED <<recVars, pokes>>
      BY <1>3 DEF Pass, SchedulerStep, recVars
    <2> QED BY <2>1, <2>2, RecordingsUntouched DEF IInv
  <1> QED BY <1>1, <1>2, <1>3 DEF SchedulerStep

\* The steps of the scheduler between passes, of the clock and of the others
\* that change no recording.
LEMMA OtherStepsIInv ==
  ASSUME IInv,
         \/ ConfigureLens \/ ShutdownJoin \/ AlertBegin \/ AlertEnd
         \/ PassBegin \/ PassEnd \/ SchedulerExit \/ Tick \/ SetClock
         \/ TableRace \/ DestroyRunning \/ (\E r \in Recs : UseFreed(r))
         \/ UNCHANGED vars
  PROVE  IInv'
  <1>1. UNCHANGED <<recVars, pokes>>
    BY DEF ConfigureLens, ShutdownJoin, AlertBegin, AlertEnd, PassBegin, PassEnd,
           SchedulerExit, Tick, SetClock, TableRace, DestroyRunning, UseFreed,
           BecomesUndefined, recVars, vars
  <1>2. wait' \in 0 .. MaxWait /\ wall' \in Times
    <2>1. CASE PassEnd
      BY <2>1, WaitAssumption, KeysAssumption, BoundAssumption
      DEF PassEnd, IInv, TypeOK, Times, clockVars
    <2>2. CASE Tick
      BY <2>2, WaitAssumption, BoundAssumption DEF Tick, Due, IInv, TypeOK, Times
    <2>3. CASE SetClock
      BY <2>3 DEF SetClock, IInv, TypeOK
    <2> QED BY <2>1, <2>2, <2>3 DEF ConfigureLens, ShutdownJoin, AlertBegin, AlertEnd,
           PassBegin, SchedulerExit, TableRace, DestroyRunning, UseFreed,
           BecomesUndefined, clockVars, schedVars, vars, IInv, TypeOK
  <1>3. /\ todo' \subseteq Keys /\ next' \in Int \cup {None}
        /\ heard' \in (SUBSET Keys) \cup {None} /\ alerts' \in 0 .. MaxAlerts
    BY BoundAssumption DEF ConfigureLens, ShutdownJoin, AlertBegin, AlertEnd, PassBegin, PassEnd,
           SchedulerExit, Tick, SetClock, TableRace, DestroyRunning, UseFreed,
           BecomesUndefined, schedVars, hearVars, vars, IInv, TypeOK
  <1>4. /\ phase' \in {"running", "stopped", "joined", "exited"}
        /\ pc' \in {"wait", "pass", "exit"} /\ capture' \in BOOLEAN
        /\ woken' \in BOOLEAN /\ jumped' \in BOOLEAN /\ undefined' \in BOOLEAN
    BY DEF ConfigureLens, ShutdownJoin, AlertBegin, AlertEnd, PassBegin, PassEnd,
           SchedulerExit, Tick, SetClock, TableRace, DestroyRunning, UseFreed,
           BecomesUndefined, schedVars, vars, IInv, TypeOK
  <1>5. TypeOK'
    BY <1>1, <1>2, <1>3, <1>4 DEF recVars, IInv, TypeOK
  <1> QED BY <1>1, <1>5, RecordingsUntouched DEF IInv

LEMMA NextIInv == IInv /\ [Next]_vars => IInv'
  <1> SUFFICES ASSUME IInv, [Next]_vars PROVE IInv'
    OBVIOUS
  <1> QED
    BY StartRecordingIInv, StopRecordingIInv, StopLensIInv, ShutdownDestroyIInv,
       ShutdownStopIInv, PokeOnMainIInv, EventTimeoutIInv, AlertVisitIInv,
       SchedulerStepIInv, OtherStepsIInv
    DEF Next

LEMMA InvariantHolds == Spec => []IInv
  BY InitIInv, NextIInv, PTL DEF Spec

(* The types of all variables hold in every reachable state, whatever the    *)
(* tiers, the requests and the lengths of day and sleep.                     *)
THEOREM TypeCorrect == Spec => []TypeOK
  <1>1. IInv => TypeOK
    BY DEF IInv
  <1> QED BY <1>1, InvariantHolds, PTL

(* A recorder that runs can be reached through the table and is not freed:   *)
(* replacing, stopping, pruning, losing the lens and shutting down never     *)
(* strand one.                                                               *)
THEOREM NoRecorderStranded == Spec => []RunningReachable
  <1>1. IInv => RunningReachable
    BY KeysAssumption DEF IInv, TypeOK, TableOwns, RunningReachable, Freed
  <1> QED BY <1>1, InvariantHolds, PTL

(* An event recording that runs always has a live watchdog, so it ends when  *)
(* alerts cease.                                                             *)
THEOREM EventsAreWatched == Spec => []EventWatched
  <1>1. IInv => EventWatched
    BY DEF IInv
  <1> QED BY <1>1, InvariantHolds, PTL

(***************************************************************************)
(* Schedules                                                               *)
(***************************************************************************)

\* The time of day is in the day and grows with the clock until midnight.
LEMMA TimeOfDayRange ==
  ASSUME NEW t \in Int
  PROVE  TimeOfDay(t) \in 0 .. Day - 1
  BY BoundAssumption DEF TimeOfDay

LEMMA TimeOfDayUnique ==
  ASSUME NEW t \in Int, NEW d \in Int, NEW q \in Int, 0 <= d, d < Day, t = (Day * q) + d
  PROVE  TimeOfDay(t) = d
  BY BoundAssumption DEF TimeOfDay

LEMMA TimeOfDayShift ==
  ASSUME NEW t \in Int, NEW j \in Int, 0 <= TimeOfDay(t) + j, TimeOfDay(t) + j < Day
  PROVE  TimeOfDay(t + j) = TimeOfDay(t) + j
  <1> DEFINE d == t \div Day
  <1>1. d \in Int /\ t = (Day * d) + TimeOfDay(t)
    BY BoundAssumption DEF TimeOfDay
  <1> HIDE DEF d
  <1>2. TimeOfDay(t) \in Int /\ Day \in Int
    BY TimeOfDayRange, BoundAssumption
  <1>3. PICK u \in Int, e \in Int : u = t + j /\ e = TimeOfDay(t) + j
    BY <1>2
  <1>4. u = (Day * d) + e /\ 0 <= e /\ e < Day
    BY <1>1, <1>2, <1>3
  <1>5. TimeOfDay(u) = e
    BY <1>1, <1>4, TimeOfDayUnique
  <1> QED BY <1>3, <1>5

LEMMA TimeOfDayNext ==
  ASSUME NEW t \in Int
  PROVE  TimeOfDay(t + 1) = IF TimeOfDay(t) = Day - 1 THEN 0 ELSE TimeOfDay(t) + 1
  <1>1. TimeOfDay(t) \in 0 .. Day - 1 /\ Day \in Nat \ {0}
    BY TimeOfDayRange, BoundAssumption
  <1>2. CASE TimeOfDay(t) # Day - 1
    <2>1. 0 <= TimeOfDay(t) + 1 /\ TimeOfDay(t) + 1 < Day /\ 1 \in Int
      BY <1>1, <1>2
    <2>2. TimeOfDay(t + 1) = TimeOfDay(t) + 1
      BY ONLY <2>1, TimeOfDayShift
    <2> QED BY <1>2, <2>2
  <1>3. CASE TimeOfDay(t) = Day - 1
    <2> DEFINE d == t \div Day
    <2>1. d \in Int /\ t = (Day * d) + TimeOfDay(t)
      BY BoundAssumption DEF TimeOfDay
    <2> HIDE DEF d
    <2>2. PICK u \in Int, e \in Int : u = t + 1 /\ e = d + 1
      BY <2>1
    <2>3. u = (Day * e) + 0 /\ 0 < Day
      BY <1>1, <1>3, <2>1, <2>2
    <2>4. TimeOfDay(u) = 0
      BY <2>3, TimeOfDayUnique
    <2> QED BY <1>3, <2>2, <2>4
  <1> QED BY <1>2, <1>3

\* The numbers of a schedule.
LEMMA WindowFacts ==
  ASSUME NEW q \in AllRequests, Scheduled(q)
  PROVE  /\ q.start \in Int /\ q.end \in Int
         /\ q.mode = "once" => 1 <= q.start /\ q.start < q.end
         /\ q.mode = "daily" => /\ 0 <= q.start /\ q.start < Day
                                /\ 0 <= q.end /\ q.end < Day
         /\ q.mode = "once" \/ q.mode = "daily"
  <1>1. IsRequest(q)
    BY RequestFacts
  <1>2. Day \in Int /\ Horizon \in Int
    BY BoundAssumption
  <1> QED BY <1>1, <1>2 DEF IsRequest, Scheduled, Times

\* A boundary lies ahead.
LEMMA BoundaryAhead ==
  ASSUME NEW q \in AllRequests, Scheduled(q), NEW t \in Times, Boundary(q, t) # None
  PROVE  Boundary(q, t) \in Int /\ Boundary(q, t) > t
  <1>1. TimeOfDay(t) \in Int /\ 0 <= TimeOfDay(t) /\ TimeOfDay(t) < Day /\ t \in Int /\ Day \in Int
    BY TimeOfDayRange, BoundAssumption DEF Times
  <1>2. CASE q.mode = "once"
    BY <1>1, <1>2, WindowFacts DEF Boundary
  <1>3. CASE q.mode = "daily"
    BY <1>1, <1>3, WindowFacts DEF Boundary
  <1> QED BY <1>2, <1>3, WindowFacts

\* A tick that reaches no boundary changes nothing of what the schedule asks.
LEMMA BetweenBoundaries ==
  ASSUME NEW q \in AllRequests, Scheduled(q), NEW t \in Times, t + 1 \in Times,
         Boundary(q, t) # None => t + 1 < Boundary(q, t)
  PROVE  /\ ShouldRun(q, t + 1) <=> ShouldRun(q, t)
         /\ Boundary(q, t + 1) = Boundary(q, t)
  <1>1. /\ TimeOfDay(t) \in Int /\ 0 <= TimeOfDay(t) /\ TimeOfDay(t) < Day
        /\ t \in Int /\ Day \in Int
    BY TimeOfDayRange, BoundAssumption DEF Times
  <1>2. TimeOfDay(t + 1) = IF TimeOfDay(t) = Day - 1 THEN 0 ELSE TimeOfDay(t) + 1
    BY <1>1, TimeOfDayNext
  <1>3. CASE q.mode = "once"
    <2>1. ShouldRun(q, t + 1) <=> ShouldRun(q, t)
      BY <1>1, <1>3, WindowFacts, NoneAssumption DEF Boundary, ShouldRun
    <2>2. Boundary(q, t + 1) = Boundary(q, t)
      BY <1>1, <1>3, WindowFacts, NoneAssumption DEF Boundary
    <2> QED BY <2>1, <2>2
  <1>4. CASE q.mode = "daily"
    <2>1. Boundary(q, t) # None
      BY <1>1, <1>4, WindowFacts, NoneAssumption DEF Boundary
    <2>2. ShouldRun(q, t + 1) <=> ShouldRun(q, t)
      BY <1>1, <1>2, <1>4, <2>1, WindowFacts DEF Boundary, ShouldRun
    <2>3. Boundary(q, t + 1) = Boundary(q, t)
      BY <1>1, <1>2, <1>4, <2>1, WindowFacts DEF Boundary
    <2> QED BY <2>2, <2>3
  <1> QED BY <1>3, <1>4, WindowFacts

(***************************************************************************)
(* The scheduler follows the schedules                                     *)
(***************************************************************************)

OnSchedule(k) == table[k] # None /\ Scheduled(req[table[k]])
NextBoundary(k) == Boundary(req[table[k]], wall)

\* What FollowsSchedule says of one recording.
Followed(r) ==
  IF ShouldRun(req[r], wall) THEN r \in running \cup finished \cup failed
                             ELSE r \notin running

Live == ~undefined /\ phase = "running"

(* Pokes and watchdogs are for event recordings only, so neither ever        *)
(* starts or stops a scheduled one.                                          *)
EventsOnly == \A r \in pokes \cup timers : req[r] # None => Mode(r) = "event"

NextAhead == next = None \/ (pc = "pass" /\ next > wall)

(* What the pass has visited is as its schedule asks, and next is not later  *)
(* than any boundary it has seen.                                            *)
PassSoFar ==
  (Live /\ pc = "pass") =>
    \A k \in Keys \ todo : OnSchedule(k) =>
      /\ Followed(table[k])
      /\ NextBoundary(k) # None => next # None /\ next <= NextBoundary(k)

(* Asleep, it does not sleep past a boundary.                                *)
SleepIsShort ==
  (Live /\ pc = "wait" /\ ~woken /\ ~jumped) =>
    \A k \in Keys : (OnSchedule(k) /\ wait > 0) =>
      /\ Followed(table[k])
      /\ NextBoundary(k) # None => wall + wait <= NextBoundary(k)

SchedInv == EventsOnly /\ NextAhead /\ PassSoFar /\ SleepIsShort

LEMMA InitSched == Init => SchedInv
  BY DEF Init, SchedInv, EventsOnly, NextAhead, PassSoFar, SleepIsShort

\* A request that is on schedule is one of those that may be asked for.
LEMMA OnScheduleFacts ==
  ASSUME IInv, NEW k \in Keys, OnSchedule(k)
  PROVE  /\ table[k] \in Recs /\ req[table[k]] \in AllRequests
         /\ Scheduled(req[table[k]]) /\ Mode(table[k]) # "event"
         /\ wall \in Times /\ wall \in Int
  <1>1. table[k] \in Recs /\ InTable(table[k])
    BY DEF OnSchedule, IInv, TypeOK, InTable
  <1>2. req[table[k]] # None
    BY <1>1 DEF IInv, TableOwns
  <1> QED BY <1>1, <1>2 DEF OnSchedule, IInv, TypeOK, Times, Scheduled, Mode

(* A step that leaves the clock, the sleep and what is on schedule alone.    *)
ScheduleKept(k) ==
  /\ OnSchedule(k)
  /\ table'[k] = table[k] /\ req'[table[k]] = req[table[k]]
  /\ table[k] \in running' <=> table[k] \in running
  /\ table[k] \in finished' <=> table[k] \in finished
  /\ table[k] \in failed' <=> table[k] \in failed

LEMMA KeptFollowed ==
  ASSUME NEW k \in Keys, ScheduleKept(k), wall' = wall
  PROVE  /\ Followed(table[k])' <=> Followed(table[k])
         /\ NextBoundary(k)' = NextBoundary(k)
  BY DEF ScheduleKept, Followed, NextBoundary

(* Steps of the others: they only take recordings off schedule, or wake the  *)
(* scheduler.                                                                *)
LEMMA OthersKeepSched ==
  ASSUME IInv, SchedInv, EventsOnly', UNCHANGED <<pc, wait, next, wall, todo, jumped>>,
         Live' => Live,
         woken' \/ (woken' = woken),
         (Live' /\ pc = "wait" /\ ~woken') => \A k \in Keys : OnSchedule(k)' => ScheduleKept(k),
         (Live' /\ pc = "pass") => \A k \in Keys : OnSchedule(k)' => ScheduleKept(k)
  PROVE  SchedInv'
  <1>1. NextAhead'
    BY DEF SchedInv, NextAhead
  <1>2. PassSoFar'
    <2> SUFFICES ASSUME Live', pc' = "pass", NEW k \in (Keys \ todo)', OnSchedule(k)'
                 PROVE  /\ Followed(table[k])'
                        /\ NextBoundary(k)' # None => next' # None /\ next' <= NextBoundary(k)'
      BY DEF PassSoFar
    <2>1. ScheduleKept(k) /\ OnSchedule(k) /\ table'[k] = table[k] /\ k \in Keys \ todo
      BY DEF ScheduleKept
    <2>2. /\ Followed(table[k])
          /\ NextBoundary(k) # None => next # None /\ next <= NextBoundary(k)
      BY <2>1 DEF SchedInv, PassSoFar
    <2>3. /\ Followed(table[k])' <=> Followed(table[k])
          /\ NextBoundary(k)' = NextBoundary(k)
      BY <2>1, KeptFollowed
    <2> QED BY <2>2, <2>3
  <1>3. SleepIsShort'
    <2> SUFFICES ASSUME Live', pc' = "wait", ~woken', ~jumped', NEW k \in Keys, OnSchedule(k)', wait' > 0
                 PROVE  /\ Followed(table[k])'
                        /\ NextBoundary(k)' # None => wall' + wait' <= NextBoundary(k)'
      BY DEF SleepIsShort
    <2>1. ScheduleKept(k) /\ OnSchedule(k) /\ table'[k] = table[k]
      BY DEF ScheduleKept
    <2>2. /\ Followed(table[k])
          /\ NextBoundary(k) # None => wall + wait <= NextBoundary(k)
      BY <2>1 DEF SchedInv, SleepIsShort
    <2>3. /\ Followed(table[k])' <=> Followed(table[k])
          /\ NextBoundary(k)' = NextBoundary(k)
      BY <2>1, KeptFollowed
    <2> QED BY <2>2, <2>3
  <1> QED BY <1>1, <1>2, <1>3 DEF SchedInv

LEMMA EventsOnlyKept ==
  ASSUME IInv, EventsOnly, pokes' \cup timers' \subseteq pokes \cup timers,
         \A r \in pokes \cup timers : req'[r] = req[r] \/ req'[r] = None
  PROVE  EventsOnly'
  BY DEF EventsOnly, Mode

LEMMA StartRecordingSched ==
  ASSUME IInv, SchedInv, Live, NEW k \in Keys, NEW q \in Requests[k], StartRecording(k, q)
  PROVE  SchedInv'
  <1>1. \A r \in pokes \cup timers : r # made + 1 /\ r \in Recs
    BY DEF IInv, OnlyMade, TypeOK, Recs
  <1>2. \A r \in pokes \cup timers : req'[r] = req[r] \/ req'[r] = None
    BY <1>1 DEF StartRecording, NewRecording
  <1>3. EventsOnly'
    BY <1>2, EventsOnlyKept DEF StartRecording, SchedInv
  <1>4. woken' /\ pc # "pass" /\ UNCHANGED <<pc, wait, next, wall, todo, jumped>>
    BY DEF StartRecording, MutexFree, schedVars, clockVars
  <1> QED BY <1>3, <1>4, OthersKeepSched

LEMMA StopRecordingSched ==
  ASSUME IInv, SchedInv, Live, NEW k \in Keys, StopRecording(k)
  PROVE  SchedInv'
  <1>1. \A r \in pokes \cup timers : r \in Recs
    BY DEF IInv, TypeOK
  <1>2. EventsOnly'
    BY <1>1, EventsOnlyKept DEF StopRecording, SchedInv, Free, StopAll
  <1>3. woken' /\ pc # "pass" /\ UNCHANGED <<pc, wait, next, wall, todo, jumped>>
    BY DEF StopRecording, MutexFree, schedVars, clockVars
  <1> QED BY <1>2, <1>3, OthersKeepSched

LEMMA StopLensSched ==
  ASSUME IInv, SchedInv, Live, StopLens
  PROVE  SchedInv'
  <1>1. \A r \in pokes \cup timers : r \in Recs
    BY DEF IInv, TypeOK
  <1>2. EventsOnly'
    BY <1>1, EventsOnlyKept DEF StopLens, SchedInv, Free, StopAll
  <1>3. UNCHANGED <<pc, wait, next, wall, todo, jumped, woken>>
    BY DEF StopLens, schedVars, clockVars
  <1>4. \A k \in Keys : ~OnSchedule(k)'
    BY DEF StopLens, OnSchedule
  <1> QED BY <1>2, <1>3, <1>4, OthersKeepSched

\* A poke or a watchdog is about an event recording.
LEMMA EventStepSched ==
  ASSUME IInv, SchedInv, Live, NEW r \in Recs, PokeOnMain(r) \/ EventTimeout(r)
  PROVE  SchedInv'
  <1>1. r \in pokes \cup timers /\ r <= made /\ ~Freed(r)
    BY DEF PokeOnMain, EventTimeout, IInv, OnlyMade
  <1>2. Mode(r) = "event"
    BY <1>1 DEF Freed, SchedInv, EventsOnly
  <1>3. /\ pokes' \cup timers' \subseteq pokes \cup timers
        /\ UNCHANGED <<table, req, finished, failed, pc, wait, next, wall, todo, jumped, woken>>
        /\ \A i \in Recs : i # r => (i \in running' <=> i \in running)
    BY DEF PokeOnMain, EventTimeout, Start, schedVars, clockVars
  <1>4. EventsOnly'
    BY <1>3, EventsOnlyKept DEF SchedInv
  <1>5. ASSUME NEW k \in Keys, OnSchedule(k)' PROVE ScheduleKept(k)
    <2>1. OnSchedule(k)
      BY <1>3, <1>5 DEF OnSchedule
    <2>2. table[k] \in Recs /\ table[k] # r
      BY <1>2, <2>1, OnScheduleFacts
    <2> QED BY <1>3, <2>1, <2>2 DEF ScheduleKept
  <1> QED BY <1>3, <1>4, <1>5, OthersKeepSched

LEMMA AlertVisitSched ==
  ASSUME IInv, SchedInv, Live, NEW k \in Keys, AlertVisit(k)
  PROVE  SchedInv'
  <1>1. /\ UNCHANGED <<table, req, running, finished, failed, timers>>
        /\ UNCHANGED <<pc, wait, next, wall, todo, jumped, woken>>
    BY DEF AlertVisit, recVars, schedVars, clockVars
  <1>2. \A r \in pokes' : r \in pokes \/ Mode(r) = "event"
    BY DEF AlertVisit
  <1>3. EventsOnly'
    BY <1>1, <1>2 DEF SchedInv, EventsOnly, Mode
  <1>4. ASSUME NEW j \in Keys, OnSchedule(j)' PROVE ScheduleKept(j)
    BY <1>1, <1>4 DEF OnSchedule, ScheduleKept
  <1>5. Live' => Live
    OBVIOUS
  <1> QED BY <1>1, <1>3, <1>4, OthersKeepSched

\* Steps that change no recording, no clock and nothing of the scheduler.
LEMMA NeutralSched ==
  ASSUME IInv, SchedInv, UNCHANGED <<recVars, pokes>>, Live' => Live,
         UNCHANGED <<pc, wait, next, wall, todo, jumped, woken>>
  PROVE  SchedInv'
  <1>1. UNCHANGED <<table, req, running, finished, failed, timers>>
    BY DEF recVars
  <1>2. EventsOnly'
    BY <1>1 DEF SchedInv, EventsOnly, Mode
  <1>3. ASSUME NEW j \in Keys, OnSchedule(j)' PROVE ScheduleKept(j)
    BY <1>1, <1>3 DEF OnSchedule, ScheduleKept
  <1> QED BY <1>2, <1>3, OthersKeepSched

LEMMA EarlierFacts ==
  ASSUME NEW a \in Int \cup {None}, NEW b \in Int \cup {None}
  PROVE  /\ a # None => Earlier(a, b) # None /\ Earlier(a, b) <= a
         /\ b # None => Earlier(a, b) # None /\ Earlier(a, b) <= b
         /\ Earlier(a, b) = a \/ Earlier(a, b) = b
  BY NoneAssumption DEF Earlier

\* A visit leaves its recording as its schedule asks.
LEMMA VisitFollows ==
  ASSUME IInv, NEW k \in Keys, Visit(k), wall' = wall
  PROVE  Followed(table[k])' /\ OnSchedule(k)
  <1>1. table[k] # None /\ table[k] \notin finished /\ Scheduled(req[table[k]])
    BY DEF Visit
  <1>2. table' = table /\ req' = req
    BY DEF Visit
  <1>3. PICK r \in Recs, q \in AllRequests : r = table[k] /\ q = req[r]
    BY <1>1, OnScheduleFacts DEF OnSchedule
  <1>4. IF ShouldRun(q, wall) THEN r \in running' \cup finished' \cup failed'
                              ELSE r \notin running'
    BY <1>1, <1>3 DEF Visit, Start, StopAll
  <1> QED BY <1>1, <1>2, <1>3, <1>4 DEF Followed, OnSchedule

\* A visit or a pruning of one key is no matter to what another key has.
LEMMA StepKeepsOthers ==
  ASSUME IInv, NEW k \in Keys, NEW j \in Keys, j # k,
         Prune(k) \/ Visit(k) \/ Pass(k), OnSchedule(j)'
  PROVE  ScheduleKept(j)
  <1>1. table'[j] = table[j]
    BY DEF Prune, Visit, Pass, IInv, TypeOK
  <1>2. table[j] \in Recs /\ table[j] # table[k]
    BY <1>1 DEF OnSchedule, IInv, TypeOK, TableOwns
  <1>3. /\ req'[table[j]] = req[table[j]]
        /\ table[j] \in running' <=> table[j] \in running
        /\ table[j] \in finished' <=> table[j] \in finished
        /\ table[j] \in failed' <=> table[j] \in failed
    <2>1. CASE Prune(k)
      BY <1>2, <2>1 DEF Prune, Free, StopAll
    <2>2. CASE Visit(k)
      BY <1>2, <2>2 DEF Visit, Start, StopAll
    <2>3. CASE Pass(k)
      BY <2>3 DEF Pass
    <2> QED BY <2>1, <2>2, <2>3
  <1>4. OnSchedule(j)
    BY <1>1, <1>3 DEF OnSchedule
  <1> QED BY <1>1, <1>3, <1>4 DEF ScheduleKept

LEMMA SchedulerStepSched ==
  ASSUME IInv, SchedInv, Live, NEW k \in Keys, SchedulerStep(k)
  PROVE  SchedInv'
  <1>1. /\ pc = "pass" /\ pc' = "pass" /\ wall' = wall /\ todo' = todo \ {k}
        /\ pokes' = pokes /\ k \in todo /\ todo \subseteq Keys
        /\ Prune(k) \/ Visit(k) \/ Pass(k)
    BY DEF SchedulerStep, clockVars, IInv, TypeOK
  <1>2. timers' \subseteq timers /\ \A r \in Recs : req'[r] = req[r] \/ req'[r] = None
    BY <1>1 DEF Prune, Visit, Pass, Free, StopAll
  <1>3. EventsOnly'
    <2>1. \A r \in pokes \cup timers : r \in Recs
      BY DEF IInv, TypeOK
    <2> QED BY <1>1, <1>2, <2>1, EventsOnlyKept DEF SchedInv
  <1>4. ASSUME Visit(k)
        PROVE  /\ next' = Earlier(NextBoundary(k), next)
               /\ NextBoundary(k) \in Int \cup {None} /\ next \in Int \cup {None}
               /\ NextBoundary(k) # None => NextBoundary(k) > wall
    <2>1. OnSchedule(k)
      BY <1>4 DEF Visit, OnSchedule
    <2>2. next' = Earlier(NextBoundary(k), next)
      BY <1>4 DEF Visit, NextBoundary
    <2>3. next \in Int \cup {None}
      BY DEF IInv, TypeOK
    <2> QED BY <2>1, <2>2, <2>3, OnScheduleFacts, BoundaryType, BoundaryAhead DEF NextBoundary
  <1>5. \/ Visit(k) \/ next' = next
    BY <1>1 DEF Prune, Pass
  <1>6. NextAhead'
    BY <1>1, <1>4, <1>5, EarlierFacts DEF SchedInv, NextAhead
  <1>7. next # None => next' # None /\ next' <= next
    <2>1. next \in Int \cup {None}
      BY DEF IInv, TypeOK
    <2> QED BY <2>1, <1>4, <1>5, EarlierFacts
  <1>8. PassSoFar'
    <2> SUFFICES ASSUME NEW j \in Keys, j \notin todo', OnSchedule(j)'
                 PROVE  /\ Followed(table[j])'
                        /\ NextBoundary(j)' # None => next' # None /\ next' <= NextBoundary(j)'
      BY DEF PassSoFar
    <2>1. CASE j # k
      <3>1. ScheduleKept(j)
        BY <1>1, <2>1, StepKeepsOthers
      <3>2. OnSchedule(j) /\ j \notin todo /\ table'[j] = table[j]
        BY <1>1, <2>1, <3>1 DEF ScheduleKept
      <3>3. /\ Followed(table[j])
            /\ NextBoundary(j) # None => next # None /\ next <= NextBoundary(j)
        BY <1>1, <3>2 DEF SchedInv, PassSoFar
      <3>4. /\ Followed(table[j])' <=> Followed(table[j])
            /\ NextBoundary(j)' = NextBoundary(j)
        BY <1>1, <3>1, KeptFollowed
      <3>5. NextBoundary(j) \in Int \cup {None} /\ next \in Int \cup {None} /\ next' \in Int \cup {None}
        <4>1. NextBoundary(j) \in Int \cup {None} /\ next \in Int \cup {None}
          BY <3>2, OnScheduleFacts, BoundaryType DEF NextBoundary, IInv, TypeOK
        <4> QED BY <4>1, <1>4, <1>5, EarlierType
      <3> QED BY <1>7, <3>3, <3>4, <3>5, NoneAssumption
    <2>2. CASE j = k /\ Visit(k)
      <3>1. Followed(table[k])' /\ OnSchedule(k)
        BY <1>1, <2>2, VisitFollows
      <3>2. NextBoundary(k)' = NextBoundary(k)
        BY <1>1, <2>2 DEF Visit, NextBoundary
      <3> QED BY <1>4, <2>2, <3>1, <3>2, EarlierFacts
    <2>3. CASE j = k /\ Prune(k)
      BY <2>3 DEF Prune, OnSchedule, IInv, TypeOK
    <2>4. CASE j = k /\ Pass(k)
      BY <2>4 DEF Pass, OnSchedule
    <2> QED BY <1>1, <2>1, <2>2, <2>3, <2>4
  <1> QED BY <1>1, <1>3, <1>6, <1>8 DEF SchedInv, SleepIsShort

LEMMA PassEndSched ==
  ASSUME IInv, SchedInv, Live, PassEnd
  PROVE  SchedInv'
  <1>1. /\ pc = "pass" /\ todo = {} /\ pc' = "wait" /\ next' = None
        /\ UNCHANGED <<table, req, running, finished, failed, timers, pokes, wall>>
    BY DEF PassEnd, recVars, clockVars
  <1>2. EventsOnly'
    BY <1>1 DEF SchedInv, EventsOnly, Mode
  <1>3. wall \in Int /\ next \in Int \cup {None} /\ MaxWait \in Int
    BY WaitAssumption, BoundAssumption DEF IInv, TypeOK, Times
  <1>4. next # None => wall' + wait' <= next
    BY <1>1, <1>3, NoneAssumption DEF PassEnd, SchedInv, NextAhead
  <1>5. SleepIsShort'
    <2> SUFFICES ASSUME NEW k \in Keys, OnSchedule(k)'
                 PROVE  /\ Followed(table[k])'
                        /\ NextBoundary(k)' # None => wall' + wait' <= NextBoundary(k)'
      BY DEF SleepIsShort
    <2>1. OnSchedule(k) /\ ScheduleKept(k) /\ table'[k] = table[k]
      BY <1>1 DEF OnSchedule, ScheduleKept
    <2>2. /\ Followed(table[k])
          /\ NextBoundary(k) # None => next # None /\ next <= NextBoundary(k)
      BY <1>1, <2>1 DEF SchedInv, PassSoFar
    <2>3. NextBoundary(k) \in Int \cup {None}
      BY <2>1, OnScheduleFacts, BoundaryType DEF NextBoundary
    <2>4. /\ Followed(table[k])' <=> Followed(table[k])
          /\ NextBoundary(k)' = NextBoundary(k)
      BY <1>1, <2>1, KeptFollowed
    <2>5. wall' + wait' \in Int
      BY <1>1, <1>3, WaitAssumption, NoneAssumption DEF PassEnd
    <2> QED BY <1>3, <1>4, <2>2, <2>3, <2>4, <2>5, NoneAssumption
  <1> QED BY <1>1, <1>2, <1>5 DEF SchedInv, NextAhead, PassSoFar

LEMMA TickSched ==
  ASSUME IInv, SchedInv, Live, Tick
  PROVE  SchedInv'
  <1>1. /\ pc = "wait" /\ pc' = "wait" /\ wall' = wall + 1 /\ wait' = wait - 1 /\ ~woken
        /\ next' = next /\ jumped' = jumped /\ wait # 0 /\ wall < Horizon
        /\ UNCHANGED <<table, req, running, finished, failed, timers, pokes>>
    BY DEF Tick, Due, recVars
  <1>2. EventsOnly'
    BY <1>1 DEF SchedInv, EventsOnly, Mode
  <1>3. wall \in Int /\ wait \in Int /\ wall \in Times /\ wall + 1 \in Times
    BY <1>1, WaitAssumption, BoundAssumption DEF IInv, TypeOK, Times
  <1>4. SleepIsShort'
    <2> SUFFICES ASSUME ~jumped', NEW k \in Keys, OnSchedule(k)', wait' > 0
                 PROVE  /\ Followed(table[k])'
                        /\ NextBoundary(k)' # None => wall' + wait' <= NextBoundary(k)'
      BY DEF SleepIsShort
    <2>1. OnSchedule(k) /\ wait > 0
      BY <1>1, <1>3 DEF OnSchedule
    <2>2. /\ Followed(table[k])
          /\ NextBoundary(k) # None => wall + wait <= NextBoundary(k)
      BY <1>1, <2>1 DEF SchedInv, SleepIsShort
    <2>3. PICK q \in AllRequests : q = req[table[k]] /\ Scheduled(q)
      BY <2>1, OnScheduleFacts
    <2>4. Boundary(q, wall) # None => wall + 1 < Boundary(q, wall)
      <3>1. Boundary(q, wall) # None => Boundary(q, wall) \in Int
        BY <1>3, <2>3, BoundaryAhead
      <3> QED BY <1>1, <1>3, <2>2, <2>3, <3>1 DEF NextBoundary
    <2>5. /\ ShouldRun(q, wall + 1) <=> ShouldRun(q, wall)
          /\ Boundary(q, wall + 1) = Boundary(q, wall)
      BY <1>3, <2>3, <2>4, BetweenBoundaries
    <2>6. Followed(table[k])'
      BY <1>1, <2>2, <2>3, <2>5 DEF Followed
    <2>7. NextBoundary(k)' = NextBoundary(k)
      BY <1>1, <2>3, <2>5 DEF NextBoundary
    <2> QED BY <1>1, <1>3, <2>2, <2>6, <2>7
  <1> QED BY <1>1, <1>2, <1>4 DEF SchedInv, NextAhead, PassSoFar

LEMMA PassBeginSched ==
  ASSUME IInv, SchedInv, PassBegin \/ SchedulerExit \/ SetClock
  PROVE  SchedInv'
  <1>1. UNCHANGED <<table, req, running, finished, failed, timers, pokes, next>>
    BY DEF PassBegin, SchedulerExit, SetClock, recVars
  <1>2. EventsOnly'
    BY <1>1 DEF SchedInv, EventsOnly, Mode
  <1>3. NextAhead'
    BY <1>1 DEF PassBegin, SchedulerExit, SetClock, SchedInv, NextAhead
  <1>4. PassSoFar' /\ SleepIsShort'
    BY DEF PassBegin, SchedulerExit, SetClock, PassSoFar, SleepIsShort
  <1> QED BY <1>2, <1>3, <1>4 DEF SchedInv

\* The recordings are live until the main loop ends, and never again.
LEMMA StaysDown == Next /\ ~Live => ~Live'
  BY DEF Next, Live, StartRecording, StopRecording, AlertVisit, SchedulerStep,
     PokeOnMain, EventTimeout, StopLens, ConfigureLens, ShutdownStop, ShutdownJoin,
     ShutdownDestroy, TableRace, DestroyRunning, UseFreed, BecomesUndefined,
     AlertBegin, AlertEnd, PassBegin, PassEnd, SchedulerExit, Tick, SetClock, OnMain

LEMMA NextSched == IInv /\ (Live => SchedInv) /\ [Next]_vars => (Live' => SchedInv')
  <1> SUFFICES ASSUME IInv, Live => SchedInv, [Next]_vars, Live' PROVE SchedInv'
    OBVIOUS
  <1>1. CASE UNCHANGED vars
    <2>1. Live /\ UNCHANGED <<recVars, pokes>> /\ UNCHANGED <<pc, wait, next, wall, todo, jumped, woken>>
      BY <1>1 DEF vars, recVars, Live
    <2> QED BY <2>1, NeutralSched
  <1>2. CASE Next
    <2>0. Live /\ SchedInv
      BY <1>2, StaysDown
    <2>1. CASE \/ ConfigureLens \/ AlertBegin \/ AlertEnd \/ ShutdownJoin
               \/ TableRace \/ DestroyRunning \/ \E r \in Recs : UseFreed(r)
      <3>1. /\ UNCHANGED <<recVars, pokes>>
            /\ UNCHANGED <<pc, wait, next, wall, todo, jumped, woken>>
        BY <2>1 DEF ConfigureLens, AlertBegin, AlertEnd, ShutdownJoin, TableRace,
                    DestroyRunning, UseFreed, BecomesUndefined, schedVars, clockVars
      <3> QED BY <2>0, <3>1, NeutralSched
    <2>2. CASE ShutdownStop \/ ShutdownDestroy
      BY <2>2 DEF ShutdownStop, ShutdownDestroy, Live
    <2> QED BY <1>2, <2>0, <2>1, <2>2, StartRecordingSched, StopRecordingSched,
               StopLensSched, EventStepSched, AlertVisitSched, SchedulerStepSched,
               PassEndSched, TickSched, PassBeginSched DEF Next
  <1> QED BY <1>1, <1>2

(* While the scheduler sleeps with nothing to wake it, every schedule is     *)
(* followed, whatever the windows, the length of the day and the sleeps: the *)
(* pass of recording_scheduler_loop never sleeps past the next boundary of any      *)
(* daily or once window, and no poke or watchdog touches a scheduled         *)
(* recording.                                                                *)
THEOREM SchedulesFollowed == Spec => []FollowsSchedule
  <1>1. IInv /\ (Live => SchedInv) => FollowsSchedule
    <2> SUFFICES ASSUME IInv, SchedInv, Live, pc = "wait", ~Due, ~jumped,
                        NEW r \in Recs, InTable(r), Scheduled(req[r])
                 PROVE  Followed(r)
      BY DEF FollowsSchedule, Followed, Live
    <2>1. PICK k \in Keys : table[k] = r
      BY DEF InTable
    <2>2. OnSchedule(k)
      BY <2>1, KeysAssumption DEF OnSchedule
    <2>3. wait > 0 /\ ~woken
      BY WaitAssumption DEF Due, IInv, TypeOK
    <2> QED BY <2>1, <2>2, <2>3 DEF SchedInv, SleepIsShort
  <1>2. Init => (Live => SchedInv)
    BY InitSched
  <1> QED BY <1>1, <1>2, InvariantHolds, NextSched, PTL DEF Spec

(***************************************************************************)
(* A refused schedule really conflicts                                     *)
(***************************************************************************)

LEMMA TimeOfDayIdentity ==
  ASSUME NEW t \in Int, 0 <= t, t < Day
  PROVE  TimeOfDay(t) = t
  <1>1. t = (Day * 0) + t
    BY BoundAssumption
  <1> QED BY <1>1, TimeOfDayUnique

Meets(s1, e1, s2, e2) == s1 < e2 /\ s2 < e1

LEMMA OnceOnce ==
  ASSUME NEW a \in AllRequests, NEW b \in AllRequests, a.mode = "once", b.mode = "once"
  PROVE  /\ Meets(a.start, a.end, b.start, b.end) => Clash(a, b)
         /\ Clash(a, b) => Meets(a.start, a.end, b.start, b.end)
  <1>1. /\ a.start \in Times /\ a.end \in Int /\ a.start < a.end
        /\ b.start \in Times /\ b.end \in Int /\ b.start < b.end
    BY RequestFacts DEF IsRequest
  <1>2. PICK t \in Int : t = IF a.start < b.start THEN b.start ELSE a.start
    BY <1>1, BoundAssumption DEF Times
  <1>3. t \in 0 .. Horizon + 2 * Day
    BY <1>1, <1>2, BoundAssumption DEF Times
  <1>4. ASSUME Meets(a.start, a.end, b.start, b.end)
        PROVE  ShouldRun(a, t) /\ ShouldRun(b, t)
    BY <1>1, <1>2, <1>4, BoundAssumption DEF Meets, ShouldRun, Times
  <1>5. ASSUME NEW u \in 0 .. Horizon + 2 * Day, ShouldRun(a, u), ShouldRun(b, u)
        PROVE  Meets(a.start, a.end, b.start, b.end)
    BY <1>1, <1>5, BoundAssumption DEF Meets, ShouldRun, Times
  <1> QED BY <1>3, <1>4, <1>5 DEF Clash

LEMMA DailyDaily ==
  ASSUME NEW a \in AllRequests, NEW b \in AllRequests, a.mode = "daily", b.mode = "daily"
  PROVE  /\ Meets(a.start, Unrolled(a), b.start, Unrolled(b)) => Clash(a, b)
         /\ InOneDay(a) /\ InOneDay(b) /\ Clash(a, b) =>
              Meets(a.start, Unrolled(a), b.start, Unrolled(b))
  <1>1. /\ a.start \in Int /\ 0 <= a.start /\ a.start < Day
        /\ a.end \in Int /\ 0 <= a.end /\ a.end < Day
        /\ b.start \in Int /\ 0 <= b.start /\ b.start < Day
        /\ b.end \in Int /\ 0 <= b.end /\ b.end < Day
    BY RequestFacts, BoundAssumption DEF IsRequest
  <1>2. PICK t \in Int : t = IF a.start < b.start THEN b.start ELSE a.start
    BY <1>1
  <1>3. t \in 0 .. Horizon + 2 * Day
    BY <1>1, <1>2, BoundAssumption
  <1>4. TimeOfDay(t) = t
    BY <1>1, <1>2, TimeOfDayIdentity
  <1>5. ASSUME Meets(a.start, Unrolled(a), b.start, Unrolled(b))
        PROVE  ShouldRun(a, t) /\ ShouldRun(b, t)
    BY <1>1, <1>2, <1>4, <1>5 DEF Meets, Unrolled, ShouldRun
  <1>6. ASSUME InOneDay(a), InOneDay(b),
               NEW u \in 0 .. Horizon + 2 * Day, ShouldRun(a, u), ShouldRun(b, u)
        PROVE  Meets(a.start, Unrolled(a), b.start, Unrolled(b))
    <2>1. TimeOfDay(u) \in Int
      BY TimeOfDayRange, BoundAssumption
    <2> QED BY <1>1, <1>6, <2>1 DEF InOneDay, Meets, Unrolled, ShouldRun
  <1> QED BY <1>3, <1>5, <1>6 DEF Clash

LEMMA OnceDaily ==
  ASSUME NEW a \in AllRequests, NEW b \in AllRequests, a.mode = "once", b.mode = "daily"
  PROVE  /\ Meets(TimeOfDay(a.start), TimeOfDay(a.start) + a.end - a.start,
                  b.start, Unrolled(b))
              => Clash(a, b) /\ Clash(b, a)
         /\ InOneDay(a) /\ InOneDay(b) /\ (Clash(a, b) \/ Clash(b, a)) =>
              Meets(TimeOfDay(a.start), TimeOfDay(a.start) + a.end - a.start,
                    b.start, Unrolled(b))
  <1>1. /\ a.start \in Int /\ 1 <= a.start /\ a.start <= Horizon
        /\ a.end \in Int /\ a.start < a.end
        /\ b.start \in Int /\ 0 <= b.start /\ b.start < Day
        /\ b.end \in Int /\ 0 <= b.end /\ b.end < Day
    BY RequestFacts, BoundAssumption DEF IsRequest, Times
  <1>2. PICK d \in Int : d = TimeOfDay(a.start) /\ 0 <= d /\ d < Day
    BY <1>1, TimeOfDayRange, BoundAssumption
  <1>3. PICK u \in Int : u = IF d < b.start THEN b.start ELSE d
    BY <1>1
  <1>4. PICK j \in Int : j = u - d
    OBVIOUS
  <1>5. TimeOfDay(a.start + j) = u /\ a.start + j \in 0 .. Horizon + 2 * Day
    <2>1. TimeOfDay(a.start) + j = u
      BY <1>2, <1>4
    <2>2. 0 <= u /\ u < Day
      BY <1>1, <1>2, <1>3
    <2>3. TimeOfDay(a.start + j) = u
      BY <1>1, <2>1, <2>2, TimeOfDayShift
    <2>4. a.start + j \in 0 .. Horizon + 2 * Day
      BY <1>1, <1>2, <1>3, <1>4, BoundAssumption
    <2> QED BY <2>3, <2>4
  <1>6. ASSUME Meets(d, d + a.end - a.start, b.start, Unrolled(b))
        PROVE  ShouldRun(a, a.start + j) /\ ShouldRun(b, a.start + j)
    <2>1. ShouldRun(a, a.start + j)
      BY <1>1, <1>2, <1>3, <1>4, <1>6 DEF Meets, ShouldRun
    <2>2. ShouldRun(b, a.start + j)
      BY <1>1, <1>2, <1>3, <1>5, <1>6 DEF Meets, Unrolled, ShouldRun
    <2> QED BY <2>1, <2>2
  <1>7. ASSUME InOneDay(a), InOneDay(b),
               NEW t \in 0 .. Horizon + 2 * Day, ShouldRun(a, t), ShouldRun(b, t)
        PROVE  Meets(d, d + a.end - a.start, b.start, Unrolled(b))
    <2>1. a.start <= t /\ t < a.end /\ t \in Int
      BY <1>7, BoundAssumption DEF ShouldRun
    <2>2. d + a.end - a.start <= Day
      BY <1>2, <1>7 DEF InOneDay
    <2>3. PICK i \in Int : i = t - a.start
      BY <1>1, <2>1
    <2>4. 0 <= d + i /\ d + i < Day /\ a.start + i = t
      BY <1>1, <1>2, <2>1, <2>2, <2>3, BoundAssumption
    <2>5. TimeOfDay(a.start + i) = TimeOfDay(a.start) + i
      BY <1>1, <1>2, <2>4, TimeOfDayShift
    <2>6. TimeOfDay(t) = d + i
      BY <1>2, <2>4, <2>5
    <2>7. b.start < b.end /\ b.start <= d + i /\ d + i < b.end
      BY <1>1, <1>7, <2>6 DEF InOneDay, ShouldRun
    <2> QED BY <1>1, <1>2, <2>1, <2>3, <2>7 DEF Meets, Unrolled
  <1> QED BY <1>2, <1>5, <1>6, <1>7 DEF Clash

\* What recording_is_overlapping decides, case by case.
LEMMA OverlappingClash ==
  ASSUME NEW a \in AllRequests, NEW b \in AllRequests, Scheduled(a), Scheduled(b)
  PROVE  /\ Overlapping(a, b) => Clash(a, b)
         /\ InOneDay(a) /\ InOneDay(b) /\ Clash(a, b) => Overlapping(a, b)
  <1>1. CASE a.mode = "once" /\ b.mode = "once"
    <2>1. Overlapping(a, b) <=> Meets(a.start, a.end, b.start, b.end)
      BY <1>1 DEF Overlapping, Meets, Scheduled
    <2> QED BY <1>1, <2>1, OnceOnce
  <1>2. CASE a.mode = "daily" /\ b.mode = "daily"
    <2>1. Overlapping(a, b) <=> Meets(a.start, Unrolled(a), b.start, Unrolled(b))
      BY <1>2 DEF Overlapping, Meets, Scheduled
    <2> QED BY <1>2, <2>1, DailyDaily
  <1>3. CASE a.mode = "once" /\ b.mode = "daily"
    <2>1. Overlapping(a, b) <=>
            Meets(TimeOfDay(a.start), TimeOfDay(a.start) + a.end - a.start,
                  b.start, Unrolled(b))
      BY <1>3 DEF Overlapping, Meets, Scheduled
    <2> QED BY <1>3, <2>1, OnceDaily
  <1>4. CASE a.mode = "daily" /\ b.mode = "once"
    <2>1. Overlapping(a, b) <=>
            Meets(TimeOfDay(b.start), TimeOfDay(b.start) + b.end - b.start,
                  a.start, Unrolled(a))
      BY <1>4 DEF Overlapping, Meets, Scheduled
    <2> QED BY <1>4, <2>1, OnceDaily
  <1> QED BY <1>1, <1>2, <1>3, <1>4 DEF Scheduled

(* For any requests and any length of the day, recording_is_overlapping      *)
(* refuses a schedule only for one it really meets, and lets none slip that  *)
(* stays in its day.                                                         *)
THEOREM ConflictsReal == Spec => []ConflictsAreReal
  <1>1. IInv => ConflictsAreReal
    <2> SUFFICES ASSUME IInv, NEW k \in Keys, NEW q \in Requests[k],
                        table[k] # None, Scheduled(q), Scheduled(req[table[k]])
                 PROVE  /\ Conflicts(k, q) => Clash(q, req[table[k]])
                        /\ (InOneDay(q) /\ InOneDay(req[table[k]])) =>
                              (Clash(q, req[table[k]]) => Conflicts(k, q))
      BY DEF ConflictsAreReal
    <2>1. PICK p \in AllRequests : p = req[table[k]]
      BY OnScheduleFacts DEF OnSchedule
    <2>2. q \in AllRequests
      BY DEF AllRequests
    <2>3. Conflicts(k, q) <=> Overlapping(q, p)
      BY <2>1 DEF Conflicts
    <2> QED BY <2>1, <2>2, <2>3, OverlappingClash
  <1> QED BY <1>1, InvariantHolds, PTL

----------------------------------------------------------------------------
(* The ring holds the last alerts received at their slots.                  *)
HistoryInv ==
  /\ received \in Seq({received[k] : k \in DOMAIN received})
  /\ head = Len(received)
  /\ count = IF head <= RingSize THEN head ELSE RingSize
  /\ DOMAIN ring = 0 .. RingSize - 1
  /\ \A k \in 1 .. head : head - RingSize < k => ring[(k - 1) % RingSize] = received[k]

(* What a job took for sent was delivered, unless it only pretends.        *)
PicturesInv ==
  /\ written \in Nat
  /\ {"batches", "at", "tries", "sent", "ok", "dry"} \subseteq DOMAIN job
  /\ ~job.dry => job.sent \subseteq M!Delivered
  /\ 1 .. written \ pictures \subseteq M!Delivered

----------------------------------------------------------------------------
(* AlertSystem: the history *)

\* Two numbers less than a ring apart have different slots in it.
LEMMA SlotsApart ==
  ASSUME NEW R \in Nat \ {0}, NEW a \in Nat, NEW b \in Nat, a < b, b < a + R
  PROVE  a % R # b % R
  <1> DEFINE p == a \div R
             q == b \div R
  <1>1. p \in Int /\ q \in Int /\ a = R * p + (a % R) /\ b = R * q + (b % R)
    OBVIOUS
  <1> SUFFICES ASSUME a % R = b % R PROVE FALSE
    OBVIOUS
  <1> HIDE DEF p, q
  <1>2. R * (q - p) = b - a
    BY <1>1
  <1>3. CASE q - p <= 0
    <2>1. R * (q - p) <= 0
      BY <1>1, <1>3
    <2> QED BY <1>2, <2>1
  <1>4. CASE q - p >= 1
    <2>1. R * (q - p) >= R
      BY <1>1, <1>4
    <2> QED BY <1>2, <2>1
  <1> QED BY <1>1, <1>3, <1>4

LEMMA MinOfTwo ==
  ASSUME NEW a \in Nat, NEW b \in Nat
  PROVE  Min({a, b}) = IF a <= b THEN a ELSE b
  BY DEF Min

LEMMA ReceivedGrows ==
  ASSUME NEW s, s \in Seq({s[k] : k \in DOMAIN s}), NEW e
  PROVE  LET t == Append(s, e)
         IN /\ t \in Seq({t[k] : k \in DOMAIN t})
            /\ Len(t) = Len(s) + 1 /\ t[Len(s) + 1] = e
            /\ \A k \in 1 .. Len(s) : t[k] = s[k]
  <1> DEFINE S == {s[k] : k \in DOMAIN s} \cup {e}
             t == Append(s, e)
  <1>1. s \in Seq(S) /\ e \in S
    OBVIOUS
  <1> HIDE DEF S
  <1>2. /\ t \in Seq(S) /\ Len(t) = Len(s) + 1 /\ t[Len(s) + 1] = e
        /\ \A k \in 1 .. Len(s) : t[k] = s[k]
    BY <1>1
  <1> HIDE DEF t
  <1>3. t \in Seq({t[k] : k \in DOMAIN t})
    BY <1>2
  <1> QED BY <1>2, <1>3 DEF t

LEMMA InitHistory == SystemInit => HistoryInv
  <1> SUFFICES ASSUME AlertsInit PROVE HistoryInv
    BY DEF SystemInit
  <1>1. received = <<>> /\ head = 0 /\ count = 0 /\ ring = EmptyRing
    BY DEF AlertsInit
  <1> QED BY <1>1, AlertsAssumption DEF HistoryInv, EmptyRing

LEMMA StoreKeeps ==
  ASSUME HistoryInv, NEW alert, Store(alert), received' = Append(received, alert)
  PROVE  HistoryInv'
  <1> DEFINE R == RingSize
  <1>1. R \in Nat \ {0} /\ head \in Nat /\ head = Len(received)
    BY AlertsAssumption DEF HistoryInv
  <1>2. /\ received' \in Seq({received'[k] : k \in DOMAIN received'})
        /\ Len(received') = head + 1 /\ received'[head + 1] = alert
        /\ \A k \in 1 .. head : received'[k] = received[k]
    BY <1>1, ReceivedGrows DEF HistoryInv
  <1>3. head' = head + 1 /\ ring' = [ring EXCEPT ![head % R] = alert]
    BY DEF Store
  <1>4. count' = IF head + 1 <= R THEN head + 1 ELSE R
    <2>1. count \in Nat /\ count + 1 \in Nat
      BY <1>1 DEF HistoryInv
    <2>2. count' = IF count + 1 <= R THEN count + 1 ELSE R
      BY <1>1, <2>1, MinOfTwo DEF Store
    <2> QED BY <1>1, <2>2 DEF HistoryInv
  <1>5. head % R \in 0 .. R - 1 /\ DOMAIN ring = 0 .. R - 1
    BY <1>1 DEF HistoryInv
  <1>6. DOMAIN ring' = 0 .. R - 1 /\ ring'[head % R] = alert
    BY <1>3, <1>5
  <1>7. ASSUME NEW k \in 1 .. head', head' - R < k
        PROVE  ring'[(k - 1) % R] = received'[k]
    <2>1. CASE k = head + 1
      BY <1>1, <1>2, <1>6, <2>1
    <2>2. CASE k # head + 1
      <3>1. k \in 1 .. head /\ head - R < k /\ k - 1 < head /\ head < k - 1 + R /\ k - 1 \in Nat
        BY <1>1, <1>3, <1>7, <2>2
      <3>2. (k - 1) % R # head % R
        BY <1>1, <3>1, SlotsApart
      <3>3. (k - 1) % R \in 0 .. R - 1
        BY <1>1, <3>1
      <3>4. ring'[(k - 1) % R] = ring[(k - 1) % R]
        BY <1>3, <1>5, <3>2, <3>3
      <3> QED BY <1>2, <3>1, <3>4 DEF HistoryInv
    <2> QED BY <2>1, <2>2
  <1> QED BY <1>2, <1>3, <1>4, <1>6, <1>7 DEF HistoryInv

LEMMA StepHistory == HistoryInv /\ [SystemNext]_Everything => HistoryInv'
  <1> SUFFICES ASSUME HistoryInv, [SystemNext]_Everything PROVE HistoryInv'
    OBVIOUS
  <1>1. ASSUME UNCHANGED managerVars PROVE HistoryInv'
    BY <1>1 DEF HistoryInv, managerVars
  <1>2. ASSUME OnAlert PROVE HistoryInv'
    BY <1>2, StoreKeeps DEF OnAlert
  <1>3. ASSUME NEW s \in Subscribers, Dies(s) PROVE HistoryInv'
    <2>1. CASE UNCHANGED managerVars
      BY <1>1, <2>1
    <2>2. CASE ring' = EmptyRing /\ head' = 0 /\ count' = 0 /\ received' = <<>>
      BY <2>2, AlertsAssumption DEF HistoryInv, EmptyRing
    <2> QED BY <1>3, <2>1, <2>2 DEF Dies
  <1>4. ASSUME NEW frame, OnNewSample(frame) PROVE UNCHANGED managerVars
    BY <1>4 DEF OnNewSample
  <1>5. ASSUME AlertsNext PROVE HistoryInv'
    BY <1>1, <1>2, <1>3, <1>4, <1>5 
       DEF AlertsNext, Load, StopModel, SetAiConfig, Sample, ShowCoords, HandleAlert, Starts, AiDies, AlertsTick
  <1> QED BY <1>1, <1>5 DEF SystemNext, Everything, alertsVars

(* Whatever alerts come, are dropped or die with a process, the ring that    *)
(* _on_alert fills (alert_manager/main.c) holds the last ones, newest behind *)
(* head, for a ring of any size.                                             *)
THEOREM HistoryKeepsTheLast == SystemSpec => []HistoryIsRecent
  <1>1. HistoryInv => HistoryIsRecent
    <2> SUFFICES ASSUME HistoryInv PROVE HistoryIsRecent
      OBVIOUS
    <2>1. RingSize \in Nat \ {0} /\ head \in Nat /\ head = Len(received)
      BY AlertsAssumption DEF HistoryInv
    <2>2. count = Min({Len(received), RingSize})
      BY <2>1, MinOfTwo DEF HistoryInv
    <2>3. ASSUME NEW i \in 1 .. count
          PROVE  ring[(head - i) % RingSize] = received[Len(received) - i + 1]
      <3> DEFINE k == head - i + 1
      <3>1. k \in 1 .. head /\ head - RingSize < k /\ k - 1 = head - i
        BY <2>1 DEF HistoryInv
      <3> HIDE DEF k
      <3>2. ring[(k - 1) % RingSize] = received[k]
        BY <3>1 DEF HistoryInv
      <3> QED BY <2>1, <3>1, <3>2 DEF k
    <2> QED BY <2>2, <2>3 DEF HistoryIsRecent
  <1> QED BY <1>1, InitHistory, StepHistory, PTL DEF SystemSpec

----------------------------------------------------------------------------
(* AlertSystem: the pictures *)

LEMMA InitPictures == SystemInit => PicturesInv
  <1> SUFFICES ASSUME AlertsInit, M!Init PROVE PicturesInv
    BY DEF SystemInit
  <1>1. written = 0 /\ pictures = {} /\ job = M!NoJob
    BY DEF AlertsInit, M!Init
  <1>2. 1 .. 0 = {}
    OBVIOUS
  <1> QED BY <1>1, <1>2 DEF PicturesInv, M!NoJob

\* Going on to the next batch changes nothing else, and takes for sent what it says.
LEMMA AdvanceJob ==
  ASSUME PicturesInv, NEW new, NEW ok, job' = M!Advance(new, ok)
  PROVE  DOMAIN job' = DOMAIN job /\ job'.dry = job.dry /\ job'.sent = job.sent \cup new
  BY DEF M!Advance, PicturesInv

LEMMA MoreLetters == letters \subseteq letters' => M!Delivered \subseteq M!Delivered'
  BY DEF M!Delivered

\* A batch that is through is in a letter, unless the run is dry.
LEMMA AdvanceKeeps ==
  ASSUME PicturesInv, NEW new, NEW ok, job' = M!Advance(new, ok),
         UNCHANGED <<pictures, written>>,
         letters \subseteq letters', ~job.dry => new \subseteq M!Delivered'
  PROVE  PicturesInv'
  BY AdvanceJob, MoreLetters DEF PicturesInv

LEMMA BatchDelivered == M!Letter \in letters' => M!ToSet(M!Batch) \subseteq M!Delivered'
  <1>1. M!Letter.images = M!Batch
    BY DEF M!Letter
  <1> QED BY <1>1 DEF M!Delivered

LEMMA StepMail ==
  ASSUME PicturesInv, NEW paths, M!Next(paths), UNCHANGED written
  PROVE  PicturesInv'
  <1>1. ASSUME UNCHANGED <<pictures, letters, job>> PROVE PicturesInv'
    BY <1>1 DEF PicturesInv, M!Delivered
  <1>2. ASSUME UNCHANGED <<pictures, letters>>, DOMAIN job \subseteq DOMAIN job', job'.sent = {}
        PROVE  PicturesInv'
    BY <1>2 DEF PicturesInv, M!Delivered
  <1>3. DOMAIN M!NoJob = {"batches", "at", "tries", "sent", "ok", "total", "dry", "keep"} /\ M!NoJob.sent = {}
    BY DEF M!NoJob
  <1>4. ASSUME UNCHANGED <<pictures, letters>>, job' = M!NoJob PROVE PicturesInv'
    BY <1>3, <1>4 DEF PicturesInv, M!Delivered
  <1>5. ASSUME NEW mode \in Modes, M!SendSnapshots(paths, mode.dry, mode.keep) PROVE PicturesInv'
    <2>1. CASE job' = job
      BY <1>1, <1>5, <2>1 DEF M!SendSnapshots
    <2>2. CASE job' # job
      <3>1. PICK batches, total :
              job' = [M!NoJob EXCEPT !.batches = batches, !.at = 1, !.total = total,
                                     !.dry = mode.dry, !.keep = mode.keep]
        BY <1>5, <2>2 DEF M!SendSnapshots
      <3>2. DOMAIN job' = DOMAIN M!NoJob /\ job'.sent = {}
        BY <1>3, <3>1
      <3>3. UNCHANGED <<pictures, letters>>
        BY <1>5 DEF M!SendSnapshots
      <3> QED BY <1>3, <3>2, <3>3 DEF PicturesInv, M!Delivered
    <2> QED BY <2>1, <2>2
  <1>6. ASSUME M!MailAccepted PROVE PicturesInv'
    <2>1. job' = M!Advance(M!ToSet(M!Batch), TRUE)
      BY <1>6 DEF M!MailAccepted, M!NextBatch
    <2>2. /\ letters \subseteq letters' /\ UNCHANGED pictures
          /\ ~job.dry => M!Letter \in letters'
      BY <1>6 DEF M!MailAccepted
    <2> QED BY <2>1, <2>2, BatchDelivered, AdvanceKeeps
  <1>7. ASSUME M!NextBatch(FALSE) = job', letters \subseteq letters', UNCHANGED pictures
        PROVE  PicturesInv'
    <2>1. job' = M!Advance({}, FALSE)
      BY <1>7 DEF M!NextBatch
    <2> QED BY <1>7, <2>1, AdvanceKeeps
  <1>8. ASSUME M!SendingRefused PROVE PicturesInv'
    BY <1>7, <1>8 DEF M!SendingRefused
  <1>9. ASSUME NEW arrived \in BOOLEAN, M!AttemptFails(arrived) PROVE PicturesInv'
    <2>1. letters \subseteq letters' /\ UNCHANGED pictures
      BY <1>9 DEF M!AttemptFails
    <2>2. CASE job' = [job EXCEPT !.tries = @ + 1]
      BY <2>1, <2>2, MoreLetters DEF PicturesInv
    <2>3. CASE job' = M!NextBatch(FALSE)
      BY <1>7, <2>1, <2>3
    <2> QED BY <1>9, <2>2, <2>3 DEF M!AttemptFails
  <1>10. ASSUME M!Finish PROVE PicturesInv'
    <2>1. CASE UNCHANGED pictures
      BY <1>4, <1>10, <2>1 DEF M!Finish
    <2>2. CASE ~job.dry /\ M!ArchiveOrDelete(job.sent)
      <3>1. pictures \ job.sent \subseteq pictures'
        BY <2>2 DEF M!ArchiveOrDelete
      <3>2. job' = M!NoJob /\ UNCHANGED letters
        BY <1>10 DEF M!Finish
      <3> QED BY <1>3, <2>2, <3>1, <3>2 DEF PicturesInv, M!Delivered
    <2> QED BY <1>10, <2>1, <2>2 DEF M!Finish
  <1>11. ASSUME M!Dies PROVE PicturesInv'
    BY <1>4, <1>11 DEF M!Dies
  <1> QED BY <1>5, <1>6, <1>8, <1>9, <1>10, <1>11 DEF M!Next

\* A picture more is a picture there is.
LEMMA PictureKeeps ==
  ASSUME PicturesInv, UNCHANGED mailVars, TakePicture \/ UNCHANGED fileVars
  PROVE  PicturesInv'
  <1>1. UNCHANGED <<job, letters>>
    BY DEF mailVars
  <1>2. CASE UNCHANGED fileVars
    BY <1>1, <1>2 DEF PicturesInv, M!Delivered, fileVars
  <1>3. CASE TakePicture
    <2>1. 1 .. written' \ pictures' \subseteq 1 .. written \ pictures
      BY <1>3 DEF TakePicture, PicturesInv
    <2> QED BY <1>1, <1>3, <2>1 DEF PicturesInv, M!Delivered, TakePicture
  <1> QED BY <1>2, <1>3

LEMMA StepPictures == PicturesInv /\ [SystemNext]_Everything => PicturesInv'
  <1> SUFFICES ASSUME PicturesInv, [SystemNext]_Everything PROVE PicturesInv'
    OBVIOUS
  <1>1. ASSUME NEW frame, OnNewSample(frame) PROVE TakePicture \/ UNCHANGED fileVars
    <2>1. PICK r : PublishDetections(r)
      BY <1>1 DEF OnNewSample
    <2> QED BY <2>1 DEF PublishDetections
  <1>2. ASSUME HandleAlert PROVE TakePicture \/ UNCHANGED fileVars
    <2>1. EvidenceFor(Head(queue.engine))
      BY <1>2 DEF HandleAlert
    <2> QED BY <2>1 DEF EvidenceFor
  <1>3. ASSUME AlertsNext PROVE TakePicture \/ UNCHANGED fileVars
    BY <1>1, <1>2, <1>3
       DEF AlertsNext, Load, StopModel, SetAiConfig, Sample, ShowCoords, OnAlert, Dies, Starts, AiDies, AlertsTick
  <1>4. CASE AlertsNext /\ UNCHANGED mailVars
    BY <1>3, <1>4, PictureKeeps
  <1>5. CASE M!Next(SetToSortSeq(Named, <)) /\ UNCHANGED written
    <2> DEFINE paths == SetToSortSeq(Named, <)
    <2>1. M!Next(paths)
      BY <1>5
    <2> HIDE DEF paths
    <2> QED BY <1>5, <2>1, StepMail
  <1>6. CASE UNCHANGED Everything
    BY <1>6, PictureKeeps DEF Everything, alertsVars
  <1> QED BY <1>4, <1>5, <1>6 DEF SystemNext

(* send_snapshots removes a picture only when a mail with it arrived: for any *)
(* batches, retries, refused logins and dry runs, and while the AI engine and *)
(* the video engine go on adding pictures to the directory.                   *)
THEOREM PicturesReachPeople == SystemSpec => []LeavesWhenDelivered
  <1>1. PicturesInv => LeavesWhenDelivered
    BY DEF PicturesInv, LeavesWhenDelivered
  <1> QED BY <1>1, InitPictures, StepPictures, PTL DEF SystemSpec

----------------------------------------------------------------------------
(* Orders, and the lists the detections and trackers make *)

(* A strict order of the items in a set. *)
StrictOrder(before, items) ==
  /\ \A i \in items : <<i, i>> \notin before
  /\ \A i, j, k \in items : <<i, j>> \in before /\ <<j, k>> \in before => <<i, k>> \in before

TotalOrder(before, items) ==
  /\ StrictOrder(before, items)
  /\ \A i, j \in items : i # j => <<i, j>> \in before \/ <<j, i>> \in before

\* In a totally ordered finite set each place is taken by exactly one item.
LEMMA Places ==
  ASSUME NEW items, NEW before, IsFiniteSet(items), TotalOrder(before, items)
  PROVE  LET Place(i) == Cardinality({j \in items : j = i \/ <<j, i>> \in before})
         IN /\ \A i \in items : Place(i) \in 1..Cardinality(items)
            /\ \A i, j \in items : Place(i) = Place(j) => i = j
            /\ \A k \in 1..Cardinality(items) : \E i \in items : Place(i) = k
  <1> DEFINE Upto(i) == {j \in items : j = i \/ <<j, i>> \in before}
             Place(i) == Cardinality(Upto(i))
             n == Cardinality(items)
  <1>1. n \in Nat
    BY FS_CardinalityType
  <1>2. \A i \in items : IsFiniteSet(Upto(i)) /\ Place(i) \in Nat /\ Place(i) <= n
    BY FS_Subset, FS_CardinalityType
  <1>3. \A i \in items : Place(i) # 0
    <2> TAKE i \in items
    <2>1. i \in Upto(i)
      OBVIOUS
    <2> QED BY <1>2, <2>1, FS_EmptySet
  <1>4. \A i \in items : Place(i) \in 1..n
    BY <1>1, <1>2, <1>3
  <1>5. \A i, j \in items : <<i, j>> \in before => Place(i) # Place(j)
    <2> SUFFICES ASSUME NEW i \in items, NEW j \in items, <<i, j>> \in before
                 PROVE  Place(i) # Place(j)
      OBVIOUS
    <2>1. Upto(i) \subseteq Upto(j)
      BY DEF TotalOrder, StrictOrder
    <2>2. j \in Upto(j) /\ j \notin Upto(i)
      BY DEF TotalOrder, StrictOrder
    <2> QED BY <1>2, <2>1, <2>2, FS_Subset
  <1>6. \A i, j \in items : Place(i) = Place(j) => i = j
    BY <1>5 DEF TotalOrder
  <1> DEFINE f == [i \in items |-> Place(i)]
  <1> HIDE DEF Place, n
  <1>7. f \in Injection(items, 1..n)
    BY <1>4, <1>6 DEF Injection, IsInjective
  <1>8. IsFiniteSet(1..n) /\ Cardinality(1..n) = n
    BY <1>1, FS_Interval
  <1>9. f \in Surjection(items, 1..n)
    BY <1>7, <1>8, FS_Injection DEF n
  <1>10. \A k \in 1..n : \E i \in items : Place(i) = k
    BY <1>9 DEF Surjection
  <1> QED BY <1>4, <1>6, <1>10 DEF Place, n

LEMMA SubOrder ==
  ASSUME NEW items, NEW before, TotalOrder(before, items), NEW some \in SUBSET items
  PROVE  TotalOrder(before, some)
  BY DEF TotalOrder, StrictOrder

\* A finite order has a last item.
LEMMA LastItem ==
  ASSUME NEW items, NEW before, IsFiniteSet(items), TotalOrder(before, items), items # {}
  PROVE  \E m \in items : \A p \in items : <<m, p>> \notin before
  <1> DEFINE Upto(i) == {j \in items : j = i \/ <<j, i>> \in before}
             Place(i) == Cardinality(Upto(i))
             n == Cardinality(items)
  <1>1. /\ \A i \in items : Place(i) \in 1..n
        /\ \A k \in 1..n : \E i \in items : Place(i) = k
    BY Places
  <1>2. n \in 1..n
    BY FS_CardinalityType, FS_EmptySet
  <1>3. PICK m \in items : Place(m) = n
    BY <1>1, <1>2
  <1>4. Upto(m) = items
    <2>1. /\ IsFiniteSet(items) /\ Upto(m) \in SUBSET items
          /\ Cardinality(Upto(m)) = Cardinality(items)
      BY <1>3
    <2> QED BY <2>1, FS_Subset
  <1>5. ASSUME NEW p \in items, <<m, p>> \in before PROVE FALSE
    <2>1. p \in Upto(m)
      BY <1>4
    <2> QED BY <2>1, <1>5 DEF TotalOrder, StrictOrder
  <1> QED BY <1>5

Greedily(items, beats, taken) ==
  \A p \in items : p \in taken <=> ~\E q \in taken : <<q, p>> \in beats

\* A greedy choice exists when an item can only be beaten by an earlier one.
LEMMA GreedyExists ==
  ASSUME NEW items, NEW before, NEW beats, IsFiniteSet(items), TotalOrder(before, items),
         beats \subseteq before
  PROVE  \E taken \in SUBSET items : Greedily(items, beats, taken)
  <1> DEFINE Bad == {some \in SUBSET items :
                       ~\E taken \in SUBSET some : Greedily(some, beats, taken)}
  <1> SUFFICES ASSUME Bad # {} PROVE FALSE
    <2>1. items \notin Bad
      OBVIOUS
    <2> QED BY <2>1
  <1>1. IsWellFoundedOn(StrictSubsetOrdering(items), SUBSET items)
    BY FS_StrictSubsetOrderingWellFounded, FS_FiniteSubsetsOfFinite
  <1>2. PICK some \in Bad : \A less \in Bad : <<less, some>> \notin StrictSubsetOrdering(items)
    <2>1. Bad \subseteq SUBSET items
      OBVIOUS
    <2> HIDE DEF Bad
    <2> QED BY <1>1, <2>1, WFMin
  <1>3. IsFiniteSet(some) /\ TotalOrder(before, some) /\ some \subseteq items
    BY <1>2, SubOrder, FS_Subset
  <1>4. some # {}
    BY DEF Greedily
  <1>5. PICK m \in some : \A p \in some : <<m, p>> \notin before
    BY <1>3, <1>4, LastItem
  <1>6. some \ {m} \notin Bad
    <2>1. some \ {m} \in SUBSET items /\ some \ {m} \subseteq some /\ some \ {m} # some
      BY <1>3, <1>5
    <2> QED BY <1>2, <1>3, <2>1 DEF StrictSubsetOrdering
  <1>7. PICK taken \in SUBSET (some \ {m}) : Greedily(some \ {m}, beats, taken)
    BY <1>3, <1>6
  <1>8. \A p \in some : <<m, p>> \notin beats
    BY <1>5
  <1>9. CASE \E q \in taken : <<q, m>> \in beats
    <2>1. Greedily(some, beats, taken)
      BY <1>7, <1>9 DEF Greedily
    <2> QED BY <1>2, <1>7, <2>1
  <1>10. CASE ~\E q \in taken : <<q, m>> \in beats
    <2>1. Greedily(some, beats, taken \cup {m})
      BY <1>5, <1>7, <1>8, <1>10 DEF Greedily
    <2> QED BY <1>2, <1>5, <1>7, <2>1
  <1> QED BY <1>9, <1>10

LEMMA GreedyIs ==
  ASSUME NEW items, NEW before, NEW beats, IsFiniteSet(items), TotalOrder(before, items),
         beats \subseteq before
  PROVE  Greedy(items, beats) \in SUBSET items /\ Greedily(items, beats, Greedy(items, beats))
  <1>1. \E taken : taken \in SUBSET items /\ Greedily(items, beats, taken)
    BY GreedyExists
  <1>2. Greedy(items, beats)
          = CHOOSE taken : taken \in SUBSET items /\ Greedily(items, beats, taken)
    BY Zenon DEF Greedy, Greedily
  <1> QED BY <1>1, <1>2, Zenon

\* A sequence of whatever it holds.
IsList(s) == s \in Seq(ToSet(s))

LEMMA ListIs ==
  ASSUME NEW s, NEW n \in Nat, s = [i \in 1..n |-> s[i]]
  PROVE  IsList(s) /\ Len(s) = n /\ DOMAIN s = 1..n
  <1>1. DOMAIN s = 1..n
    OBVIOUS
  <1>2. ToSet(s) = {s[i] : i \in 1..n}
    BY <1>1 DEF ToSet
  <1>3. s \in [1..n -> ToSet(s)]
    BY <1>2
  <1> HIDE DEF ToSet
  <1> QED BY <1>1, <1>3 DEF IsList

LEMMA ListFacts ==
  ASSUME NEW s, IsList(s)
  PROVE  Len(s) \in Nat /\ DOMAIN s = 1..Len(s) /\ s = [i \in 1..Len(s) |-> s[i]]
  BY DEF IsList

LEMMA JoinedIs ==
  ASSUME NEW s, NEW t, IsList(s), IsList(t)
  PROVE  /\ IsList(s \o t) /\ Len(s \o t) = Len(s) + Len(t)
         /\ \A i \in 1..Len(s \o t) :
              (s \o t)[i] = IF i <= Len(s) THEN s[i] ELSE t[i - Len(s)]
  <1> DEFINE S == ToSet(s) \cup ToSet(t)
  <1> HIDE DEF S
  <1>1. s \in Seq(S) /\ t \in Seq(S)
    BY DEF S, IsList
  <1>2. /\ s \o t \in Seq(S) /\ Len(s \o t) = Len(s) + Len(t)
        /\ \A i \in 1..Len(s \o t) :
             (s \o t)[i] = IF i <= Len(s) THEN s[i] ELSE t[i - Len(s)]
    BY <1>1
  <1>3. s \o t = [i \in 1..Len(s \o t) |-> (s \o t)[i]] /\ Len(s \o t) \in Nat
    <2>1. \A u \in Seq(S) : u = [i \in 1..Len(u) |-> u[i]] /\ Len(u) \in Nat
      OBVIOUS
    <2> QED BY <1>2, <2>1
  <1> QED BY <1>2, <1>3, ListIs

\* p has the items of s with the chosen indices, each once.
Holds(p, s, chosen) ==
  /\ IsList(p) /\ Len(p) = Cardinality(chosen)
  /\ \E e \in Bijection(1..Len(p), chosen) : \A k \in 1..Len(p) : p[k] = s[e[k]]

LEMMA HoldsIs ==
  ASSUME NEW p, NEW s, NEW chosen, NEW n, n = Cardinality(chosen), n \in Nat,
         NEW e \in Bijection(1..n, chosen), p = [k \in 1..n |-> s[e[k]]]
  PROVE  Holds(p, s, chosen)
  <1>1. p = [k \in 1..n |-> p[k]] /\ \A k \in 1..n : p[k] = s[e[k]]
    OBVIOUS
  <1>2. IsList(p) /\ Len(p) = n
    BY <1>1, ListIs
  <1> QED BY <1>1, <1>2 DEF Holds

LEMMA ArrangedIs ==
  ASSUME NEW s, NEW chosen, NEW before, IsFiniteSet(chosen), TotalOrder(before, chosen)
  PROVE  Holds(Arranged(s, chosen, before), s, chosen)
  <1> DEFINE Place(i) == Cardinality({j \in chosen : j = i \/ <<j, i>> \in before})
             n == Cardinality(chosen)
             e == [k \in 1..n |-> CHOOSE i \in chosen : Place(i) = k]
  <1>1. /\ \A i \in chosen : Place(i) \in 1..n
        /\ \A i, j \in chosen : Place(i) = Place(j) => i = j
        /\ \A k \in 1..n : \E i \in chosen : Place(i) = k
    BY Places
  <1>2. Arranged(s, chosen, before) = [k \in 1..n |-> s[e[k]]]
    BY DEF Arranged
  <1> HIDE DEF Place, n
  <1>3. \A k \in 1..n : e[k] \in chosen /\ Place(e[k]) = k
    BY <1>1
  <1> HIDE DEF e
  <1>4. e \in [1..n -> chosen]
    BY <1>3 DEF e
  <1>5. e \in Bijection(1..n, chosen)
    BY <1>1, <1>3, <1>4 DEF Bijection, Injection, Surjection, IsInjective
  <1>6. n \in Nat
    BY FS_CardinalityType DEF n
  <1> QED BY <1>2, <1>5, <1>6, HoldsIs DEF n

LEMMA PickedIs ==
  ASSUME NEW s, NEW n \in Nat, NEW chosen, chosen \subseteq 1..n
  PROVE  /\ IsFiniteSet(chosen) /\ Cardinality(chosen) \in Nat
         /\ Holds(Picked(s, chosen), s, chosen)
  <1> PICK before : before = {p \in (1..n) \X (1..n) : p[1] < p[2]}
    OBVIOUS
  <1> DEFINE Place(i) == Cardinality(chosen \cap 1..i)
             m == Cardinality(chosen)
             e == [k \in 1..m |-> CHOOSE i \in chosen : Place(i) = k]
  <1>1. IsFiniteSet(chosen) /\ m \in Nat
    <2>1. IsFiniteSet(1..n)
      BY FS_Interval
    <2> QED BY <2>1, FS_Subset, FS_CardinalityType
  <1>2. \A i, j \in 1..n : <<i, j>> \in before <=> i < j
    OBVIOUS
  <1>3. TotalOrder(before, chosen)
    BY <1>2 DEF TotalOrder, StrictOrder
  <1>4. \A i \in chosen : {j \in chosen : j = i \/ <<j, i>> \in before} = chosen \cap 1..i
    BY <1>2
  <1>5. Picked(s, chosen) = [k \in 1..m |-> s[e[k]]]
    BY DEF Picked
  <1>6. /\ \A i \in chosen : Place(i) \in 1..m
        /\ \A i, j \in chosen : Place(i) = Place(j) => i = j
        /\ \A k \in 1..m : \E i \in chosen : Place(i) = k
    <2> DEFINE Put(i) == Cardinality({j \in chosen : j = i \/ <<j, i>> \in before})
    <2>1. \A i \in chosen : Place(i) = Put(i)
      BY <1>4
    <2>2. /\ \A i \in chosen : Put(i) \in 1..m
          /\ \A i, j \in chosen : Put(i) = Put(j) => i = j
          /\ \A k \in 1..m : \E i \in chosen : Put(i) = k
      <3>1. IsFiniteSet(chosen)
        BY <1>1
      <3> QED BY ONLY <3>1, <1>3, Places
    <2> HIDE DEF Place, Put, m
    <2> QED BY <2>1, <2>2
  <1> HIDE DEF Place, m
  <1>7. \A k \in 1..m : e[k] \in chosen /\ Place(e[k]) = k
    BY <1>6
  <1> HIDE DEF e
  <1>8. e \in [1..m -> chosen]
    BY <1>7 DEF e
  <1>9. e \in Injection(1..m, chosen)
    BY <1>7, <1>8 DEF Injection, IsInjective
  <1>10. e \in Surjection(1..m, chosen)
    <2>1. \A i \in chosen : e[Place(i)] = i
      BY <1>6, <1>7
    <2> QED BY <1>6, <1>8, <2>1 DEF Surjection
  <1>11. e \in Bijection(1..m, chosen)
    BY <1>9, <1>10 DEF Bijection
  <1> QED BY <1>1, <1>5, <1>11, HoldsIs DEF m

LEMMA PickedList ==
  ASSUME NEW s, IsList(s), NEW chosen, chosen \subseteq DOMAIN s
  PROVE  Holds(Picked(s, chosen), s, chosen)
  BY ListFacts, PickedIs

LEMMA HoldsFacts ==
  ASSUME NEW p, NEW s, NEW chosen, Holds(p, s, chosen)
  PROVE  /\ Len(p) \in Nat /\ DOMAIN p = 1..Len(p)
         /\ \A k \in DOMAIN p : \E i \in chosen : p[k] = s[i]
         /\ \A i \in chosen : \E k \in DOMAIN p : p[k] = s[i]
  <1>1. Len(p) \in Nat /\ DOMAIN p = 1..Len(p)
    BY ListFacts DEF Holds
  <1>2. PICK e \in Bijection(1..Len(p), chosen) : \A k \in 1..Len(p) : p[k] = s[e[k]]
    BY DEF Holds
  <1>3. \A k \in 1..Len(p) : e[k] \in chosen
    BY <1>2 DEF Bijection, Injection
  <1>4. \A i \in chosen : \E k \in 1..Len(p) : e[k] = i
    BY <1>2 DEF Bijection, Surjection
  <1> QED BY <1>1, <1>2, <1>3, <1>4

\* The detections that survive are a list, each one of those given.
LEMMA NmsList ==
  ASSUME NEW dets, IsList(dets), \A i \in DOMAIN dets : dets[i].conf \in Nat, NEW pix
  PROVE  /\ IsList(Nms(dets, pix))
         /\ \A k \in DOMAIN Nms(dets, pix) : \E i \in DOMAIN dets : Nms(dets, pix)[k] = dets[i]
  <1> DEFINE beats == {p \in Surer(dets) :
                         IouAbove(dets[p[1]].box, dets[p[2]].box, pix, NmsThreshold)}
             kept == Greedy(DOMAIN dets, beats)
  <1>1. Len(dets) \in Nat /\ DOMAIN dets = 1..Len(dets)
    BY ListFacts
  <1>2. \A i, j \in DOMAIN dets :
          <<i, j>> \in Surer(dets) <=>
            dets[i].conf > dets[j].conf \/ (dets[i].conf = dets[j].conf /\ i > j)
    BY DEF Surer
  <1>3. TotalOrder(Surer(dets), DOMAIN dets)
    BY <1>1, <1>2 DEF TotalOrder, StrictOrder
  <1>4. IsFiniteSet(DOMAIN dets)
    BY <1>1, FS_Interval
  <1>5. beats \subseteq Surer(dets)
    OBVIOUS
  <1> HIDE DEF beats
  <1>6. kept \in SUBSET DOMAIN dets
    BY <1>3, <1>4, <1>5, GreedyIs
  <1> HIDE DEF kept
  <1>7. IsFiniteSet(kept) /\ TotalOrder(Surer(dets), kept)
    BY <1>3, <1>4, <1>6, SubOrder, FS_Subset
  <1> PICK left : left = Arranged(dets, kept, Surer(dets))
    OBVIOUS
  <1>8. Holds(left, dets, kept)
    BY <1>7, ArrangedIs
  <1>9. IsList(left) /\ \A k \in DOMAIN left : \E i \in DOMAIN dets : left[k] = dets[i]
    <2>1. \A k \in DOMAIN left : \E i \in kept : left[k] = dets[i]
      BY ONLY <1>8, HoldsFacts
    <2>2. IsList(left)
      BY ONLY <1>8 DEF Holds
    <2> QED BY ONLY <1>6, <2>1, <2>2
  <1>10. Nms(dets, pix) = left
    BY DEF Nms, kept, beats
  <1> QED BY ONLY <1>9, <1>10

\* A list that is mapped item by item stays one.
LEMMA MappedList ==
  ASSUME NEW s, IsList(s), NEW t, t = [i \in DOMAIN s |-> t[i]]
  PROVE  IsList(t) /\ Len(t) = Len(s) /\ DOMAIN t = DOMAIN s
  BY ListFacts, ListIs

\* A list of detections with a confidence.
Sure(dets) == IsList(dets) /\ \A i \in DOMAIN dets : dets[i].conf \in Nat

LEMMA FrameSure ==
  ASSUME NEW frame \in Frames
  PROVE  /\ IsList(frame) /\ \A i \in DOMAIN frame : frame[i] \in Candidates
         /\ Sure(frame)
  <1>1. frame \in Seq(Candidates)
    BY FrameAssumption
  <1>2. \A i \in 1..Len(frame) : frame[i] \in Candidates
    BY <1>1
  <1>3. Len(frame) \in Nat /\ frame = [i \in 1..Len(frame) |-> frame[i]]
    BY <1>1
  <1>4. IsList(frame) /\ DOMAIN frame = 1..Len(frame)
    BY <1>3, ListIs
  <1> QED BY <1>2, <1>4 DEF Sure, Candidates

LEMMA PassingSure ==
  ASSUME NEW frame \in Frames
  PROVE  /\ Sure(Passing(frame))
         /\ \A i \in DOMAIN Passing(frame) : Passing(frame)[i] \in Candidates
  <1> DEFINE chosen == {i \in DOMAIN frame : frame[i].conf > AiThreshold}
  <1>1. Holds(Passing(frame), frame, chosen)
    BY FrameSure, PickedList DEF Passing
  <1>2. \A k \in DOMAIN Passing(frame) : \E i \in chosen : Passing(frame)[k] = frame[i]
    BY <1>1, HoldsFacts
  <1>3. \A k \in DOMAIN Passing(frame) : Passing(frame)[k] \in Candidates
    BY <1>2, FrameSure
  <1> QED BY <1>1, <1>3 DEF Holds, Sure, Candidates

LEMMA HelmetsList == ASSUME NEW frame \in Frames PROVE IsList(HelmetsIn[frame])
  <1> DEFINE kept == Nms(Passing(frame), 0)
             listed == HelmetDetections(frame)
  <1>1. IsList(kept)
    BY PassingSure, NmsList DEF Sure
  <1>2. listed = [i \in DOMAIN kept |-> listed[i]]
    BY DEF HelmetDetections
  <1>3. IsList(listed)
    BY <1>1, <1>2, MappedList
  <1> QED BY <1>3 DEF HelmetsIn

LEMMA PersonsList == ASSUME NEW frame \in Frames PROVE IsList(PersonsIn[frame])
  <1> DEFINE chosen == {i \in DOMAIN frame : frame[i].cid = Person /\ frame[i].conf > AiThreshold}
             found == Picked(frame, chosen)
  <1>1. Holds(found, frame, chosen)
    BY FrameSure, PickedList
  <1>2. \A k \in DOMAIN found : \E i \in chosen : found[k] = frame[i]
    <2> HIDE DEF found, chosen
    <2> QED BY <1>1, HoldsFacts
  <1>3. IsList(found) /\ \A k \in DOMAIN found : found[k].conf \in Nat
    BY <1>1, <1>2, FrameSure DEF Holds, Sure
  <1>4. IsList(PersonDetections(frame))
    BY <1>3, NmsList DEF PersonDetections
  <1> QED BY <1>4 DEF PersonsIn

LEMMA VehiclesList == ASSUME NEW frame \in Frames PROVE IsList(VehiclesIn[frame])
  <1> DEFINE passing == Passing(frame)
             chosen == {i \in DOMAIN passing : passing[i].cid \in Vehicles}
             found == Picked(passing, chosen)
             clipped == [i \in DOMAIN found |-> WithBox(found[i], ClippedInside(found[i].box))]
  <1> HIDE DEF passing
  <1>1. IsList(passing) /\ \A i \in DOMAIN passing : passing[i] \in Candidates
    BY PassingSure DEF passing, Sure
  <1>2. Holds(found, passing, chosen)
    BY <1>1, PickedList
  <1>3. \A k \in DOMAIN found : \E i \in chosen : found[k] = passing[i]
    <2> HIDE DEF found, chosen
    <2> QED BY <1>2, HoldsFacts
  <1>4. \A k \in DOMAIN found : found[k] \in Candidates
    BY <1>1, <1>3
  <1> HIDE DEF found
  <1>5. \A k \in DOMAIN found : clipped[k].conf \in Nat
    BY <1>4 DEF Candidates, WithBox
  <1>6. IsList(found)
    BY <1>2 DEF Holds
  <1>7. clipped = [i \in DOMAIN found |-> clipped[i]]
    OBVIOUS
  <1> HIDE DEF clipped
  <1>8. IsList(clipped) /\ DOMAIN clipped = DOMAIN found
    BY <1>6, <1>7, MappedList
  <1>9. IsList(Nms(clipped, 1))
    BY <1>5, <1>8, NmsList
  <1> QED BY <1>9 DEF VehiclesIn, VehicleDetections, clipped, found, passing

LEMMA GroupsList == ASSUME NEW frame \in Frames PROVE IsList(GroupsIn[frame])
  <1> DEFINE raw == HelmetDetections(frame)
             mcs == Arranged(raw, OfClass(raw, Motorcycle), Larger(raw))
             persons == Picked(raw, OfClass(raw, Person))
             all == [m \in DOMAIN mcs |-> m]
             chosen == {m \in DOMAIN mcs : IsViolation(mcs[m], Riders(mcs, persons, m))}
             found == Picked(all, chosen)
             groups == RidingDetections(raw)
  <1>1. IsList(raw)
    BY HelmetsList DEF HelmetsIn
  <1>2. \E n \in Nat : DOMAIN mcs = 1..n
    <2>1. IsFiniteSet(OfClass(raw, Motorcycle))
      <3>1. IsFiniteSet(DOMAIN raw)
        BY <1>1, ListFacts, FS_Interval
      <3>2. OfClass(raw, Motorcycle) \in SUBSET DOMAIN raw
        BY DEF OfClass
      <3> QED BY <3>1, <3>2, FS_Subset
    <2>2. Cardinality(OfClass(raw, Motorcycle)) \in Nat
      BY <2>1, FS_CardinalityType
    <2> QED BY <2>2 DEF Arranged
  <1> HIDE DEF mcs, persons
  <1>3. IsList(all) /\ DOMAIN all = DOMAIN mcs
    BY <1>2, ListIs
  <1>4. IsList(found)
    BY <1>3, PickedList DEF Holds
  <1>5. groups = [k \in DOMAIN found |-> groups[k]]
    BY DEF RidingDetections, mcs, persons
  <1>6. IsList(groups)
    BY <1>4, <1>5, MappedList
  <1> QED BY <1>6 DEF GroupsIn

----------------------------------------------------------------------------
(* The trackers *)

Distinct(s) == \A i, j \in DOMAIN s : s[i].tid = s[j].tid => i = j

\* What is picked from a list of things with ids of their own has them too.
LEMMA PickedDistinct ==
  ASSUME NEW s, IsList(s), Distinct(s), NEW chosen, chosen \subseteq DOMAIN s
  PROVE  LET p == Picked(s, chosen)
         IN /\ IsList(p) /\ Distinct(p)
            /\ \A k \in DOMAIN p : \E i \in chosen : p[k] = s[i]
            /\ \A i \in chosen : \E k \in DOMAIN p : p[k] = s[i]
  <1> DEFINE p == Picked(s, chosen)
  <1>1. Holds(p, s, chosen)
    BY PickedList
  <1> HIDE DEF p
  <1>2. PICK e \in Bijection(1..Len(p), chosen) : \A k \in 1..Len(p) : p[k] = s[e[k]]
    BY <1>1 DEF Holds
  <1>3. DOMAIN p = 1..Len(p)
    BY <1>1, HoldsFacts
  <1>4. /\ \A k \in DOMAIN p : e[k] \in DOMAIN s
        /\ \A k, l \in DOMAIN p : e[k] = e[l] => k = l
    BY <1>2, <1>3 DEF Bijection, Injection, IsInjective
  <1>5. Distinct(p)
    BY <1>2, <1>3, <1>4 DEF Distinct
  <1>6. IsList(p)
    BY <1>1 DEF Holds
  <1> QED BY <1>1, <1>5, <1>6, HoldsFacts DEF p

IsTrack(k) ==
  k = [tid |-> k.tid, box |-> k.box, gone |-> k.gone, hist |-> k.hist] /\ k.tid \in Nat

\* Tracks with ids of their own, all given out before next.
TracksOK(tracks, upper) ==
  /\ IsList(tracks)
  /\ \A i \in DOMAIN tracks : IsTrack(tracks[i]) /\ tracks[i].tid < upper
  /\ Distinct(tracks)

IsTracker(t) ==
  /\ t = [next |-> t.next, tracks |-> t.tracks, saved |-> t.saved, buckets |-> t.buckets]
  /\ t.next \in Nat

TrackerOK(t) == IsTracker(t) /\ TracksOK(t.tracks, t.next)

\* u came of t by some frame: ids are given out in order, and once.
Continues(t, u) ==
  /\ TrackerOK(u)
  /\ u.next >= t.next
  /\ \A tid \in Tids(u.tracks) : tid \in Tids(t.tracks) \/ tid >= t.next

\* The same tracks, moved or missed.
LEMMA SameTracks ==
  ASSUME NEW tracks, NEW upper, TracksOK(tracks, upper), NEW moved,
         moved = [i \in DOMAIN tracks |-> moved[i]],
         \A i \in DOMAIN tracks : IsTrack(moved[i]) /\ moved[i].tid = tracks[i].tid
  PROVE  TracksOK(moved, upper) /\ Tids(moved) = Tids(tracks)
  <1>1. IsList(moved) /\ DOMAIN moved = DOMAIN tracks
    BY MappedList DEF TracksOK
  <1> QED BY <1>1 DEF TracksOK, Distinct, Tids

LEMMA RemainingOK ==
  ASSUME NEW tracks, NEW upper, TracksOK(tracks, upper), NEW gone
  PROVE  /\ TracksOK(Remaining(tracks, gone), upper)
         /\ Tids(Remaining(tracks, gone)) \subseteq Tids(tracks)
  <1> DEFINE chosen == {i \in DOMAIN tracks : tracks[i].gone <= gone}
             kept == Picked(tracks, chosen)
  <1>1. chosen \subseteq DOMAIN tracks
    OBVIOUS
  <1> HIDE DEF chosen
  <1>2. /\ IsList(kept) /\ Distinct(kept)
        /\ \A k \in DOMAIN kept : \E i \in chosen : kept[k] = tracks[i]
    BY <1>1, PickedDistinct DEF TracksOK
  <1> HIDE DEF kept
  <1>3. \A k \in DOMAIN kept : IsTrack(kept[k]) /\ kept[k].tid < upper
    BY <1>1, <1>2 DEF TracksOK
  <1>4. Tids(kept) \subseteq Tids(tracks)
    BY <1>1, <1>2 DEF Tids
  <1> QED BY <1>2, <1>3, <1>4 DEF TracksOK, Remaining, kept, chosen

LEMMA RegisteredOK ==
  ASSUME NEW t, IsTracker(t), NEW tracks, TracksOK(tracks, t.next), NEW new, IsList(new)
  PROVE  /\ TrackerOK(Registered(t, tracks, new))
         /\ Registered(t, tracks, new).next >= t.next
         /\ Registered(t, tracks, new).saved = t.saved
         /\ \A tid \in Tids(Registered(t, tracks, new).tracks) :
              tid \in Tids(tracks) \/ tid >= t.next
  <1> DEFINE added == [k \in DOMAIN new |-> Track(t.next + k - 1, new[k])]
             u == Registered(t, tracks, new)
  <1>1. Len(new) \in Nat /\ DOMAIN new = 1..Len(new)
    BY ListFacts
  <1>2. added = [k \in DOMAIN new |-> added[k]]
    OBVIOUS
  <1>3. /\ IsList(added) /\ Len(added) = Len(new) /\ DOMAIN added = DOMAIN new
    <2> HIDE DEF added
    <2> QED BY <1>2, MappedList
  <1>4. \A k \in 1..Len(new) : IsTrack(added[k]) /\ added[k].tid = t.next + k - 1
    BY <1>1 DEF IsTrack, Track, IsTracker
  <1>5. /\ IsTracker(u) /\ u.next = t.next + Len(new) /\ u.tracks = tracks \o added
        /\ u.saved = t.saved
    <2> PICK joined : joined = tracks \o added
      OBVIOUS
    <2>1. u = [t EXCEPT !.next = @ + Len(new), !.tracks = joined]
      BY DEF Registered
    <2> HIDE DEF u, added
    <2>2. t = [next |-> t.next, tracks |-> t.tracks, saved |-> t.saved, buckets |-> t.buckets]
      BY DEF IsTracker
    <2>3. u = [next |-> t.next + Len(new), tracks |-> joined, saved |-> t.saved,
               buckets |-> t.buckets]
      BY <2>1, <2>2
    <2>4. t.next + Len(new) \in Nat
      BY <1>1 DEF IsTracker
    <2> QED BY <2>3, <2>4 DEF IsTracker
  <1> HIDE DEF added, u
  <1>6. IsList(tracks) /\ Len(tracks) \in Nat /\ DOMAIN tracks = 1..Len(tracks)
    BY ListFacts DEF TracksOK
  <1>7. /\ IsList(u.tracks) /\ Len(u.tracks) = Len(tracks) + Len(new)
        /\ \A i \in 1..Len(u.tracks) :
             u.tracks[i] = IF i <= Len(tracks) THEN tracks[i] ELSE added[i - Len(tracks)]
    <2> PICK joined : joined = tracks \o added
      OBVIOUS
    <2>1. /\ IsList(joined) /\ Len(joined) = Len(tracks) + Len(added)
          /\ \A i \in 1..Len(joined) :
               joined[i] = IF i <= Len(tracks) THEN tracks[i] ELSE added[i - Len(tracks)]
      BY <1>3, <1>6, JoinedIs
    <2> QED BY <1>3, <1>5, <2>1
  <1>8. DOMAIN u.tracks = 1..(Len(tracks) + Len(new))
    BY <1>7, ListFacts
  <1>9. ASSUME NEW i \in DOMAIN u.tracks
        PROVE  \/ i \in 1..Len(tracks) /\ u.tracks[i] = tracks[i]
               \/ i - Len(tracks) \in 1..Len(new) /\ u.tracks[i] = added[i - Len(tracks)]
    BY <1>1, <1>6, <1>7, <1>8
  <1>10. \A i \in DOMAIN u.tracks : IsTrack(u.tracks[i]) /\ u.tracks[i].tid < u.next
    <2> TAKE i \in DOMAIN u.tracks
    <2>1. CASE i \in 1..Len(tracks) /\ u.tracks[i] = tracks[i]
      BY <1>1, <1>5, <1>6, <2>1 DEF TracksOK, IsTracker, IsTrack
    <2>2. CASE i - Len(tracks) \in 1..Len(new) /\ u.tracks[i] = added[i - Len(tracks)]
      BY <1>1, <1>4, <1>5, <2>2 DEF IsTracker
    <2> QED BY <1>9, <2>1, <2>2
  <1>11. \A i, j \in DOMAIN u.tracks : u.tracks[i].tid = u.tracks[j].tid => i = j
    <2> SUFFICES ASSUME NEW i \in DOMAIN u.tracks, NEW j \in DOMAIN u.tracks,
                        u.tracks[i].tid = u.tracks[j].tid
                 PROVE  i = j
      OBVIOUS
    <2> DEFINE n == Len(tracks)
    <2>a. \A k \in 1..n : u.tracks[k].tid = tracks[k].tid /\ tracks[k].tid \in Nat
                           /\ tracks[k].tid < t.next
      BY <1>6, <1>7, <1>8 DEF TracksOK, IsTrack
    <2>b. \A k \in DOMAIN u.tracks : k \notin 1..n => u.tracks[k].tid = t.next + (k - n) - 1
      BY <1>1, <1>4, <1>6, <1>8, <1>9
    <2>c. t.next \in Nat /\ n \in Nat /\ DOMAIN u.tracks \subseteq Nat
      BY <1>1, <1>6, <1>8 DEF IsTracker
    <2>1. CASE i \in 1..Len(tracks) /\ j \in 1..Len(tracks)
      BY <1>6, <1>7, <1>8, <2>1 DEF TracksOK, Distinct
    <2>2. CASE i \notin 1..Len(tracks) /\ j \notin 1..Len(tracks)
      BY <2>b, <2>c, <2>2
    <2>3. CASE (i \in 1..Len(tracks)) # (j \in 1..Len(tracks))
      BY <1>8, <2>a, <2>b, <2>c, <2>3
    <2> QED BY <2>1, <2>2, <2>3
  <1>12. \A i \in DOMAIN u.tracks : u.tracks[i].tid \in Tids(tracks) \/ u.tracks[i].tid >= t.next
    BY <1>1, <1>4, <1>6, <1>9 DEF Tids, IsTracker
  <1>13. TrackerOK(u)
    BY <1>5, <1>7, <1>10, <1>11 DEF TrackerOK, TracksOK, Distinct
  <1>14. u.next >= t.next
    BY <1>1, <1>5 DEF IsTracker
  <1>15. \A tid \in Tids(u.tracks) : tid \in Tids(tracks) \/ tid >= t.next
    BY <1>12, Zenon DEF Tids
  <1> QED BY <1>5, <1>13, <1>14, <1>15 DEF u

LEMMA UnpairedList ==
  ASSUME NEW pairs, NEW dets, IsList(dets)
  PROVE  IsList(Unpaired(pairs, dets))
  <1>1. Holds(Unpaired(pairs, dets), dets, {j \in DOMAIN dets : \A p \in pairs : p[2] # j})
    BY PickedList DEF Unpaired
  <1> QED BY <1>1 DEF Holds

LEMMA StableOK ==
  ASSUME NEW t, TrackerOK(t), NEW dets, IsList(dets), NEW pct, NEW gone
  PROVE  /\ Continues(t, StableUpdate(t, dets, pct, gone))
         /\ StableUpdate(t, dets, pct, gone).saved = t.saved
  <1> DEFINE pairs == Pairs(t.tracks, dets, pct)
             Best(i) == dets[Max(PartnerOf(pairs, i))]
             moved == [i \in DOMAIN t.tracks |->
                         IF PartnerOf(pairs, i) = {} THEN Missed(t.tracks[i])
                         ELSE Follow(t.tracks[i], Best(i))]
             kept == Remaining(moved, gone)
             u == Registered(t, kept, Unpaired(pairs, dets))
  <1>1. StableUpdate(t, dets, pct, gone) = u
    BY DEF StableUpdate
  <1> HIDE DEF pairs
  <1>2. \A i \in DOMAIN t.tracks : \A d :
          /\ IsTrack(Missed(t.tracks[i])) /\ Missed(t.tracks[i]).tid = t.tracks[i].tid
          /\ IsTrack(Follow(t.tracks[i], d)) /\ Follow(t.tracks[i], d).tid = t.tracks[i].tid
    <2> SUFFICES ASSUME NEW k, IsTrack(k), NEW d
                 PROVE  /\ IsTrack(Missed(k)) /\ Missed(k).tid = k.tid
                        /\ IsTrack(Follow(k, d)) /\ Follow(k, d).tid = k.tid
      BY DEF TrackerOK, TracksOK
    <2>1. Missed(k) = [tid |-> k.tid, box |-> k.box, gone |-> k.gone + 1, hist |-> k.hist]
      BY DEF Missed, IsTrack
    <2>2. Follow(k, d) = [tid |-> k.tid, box |-> d.box, gone |-> 0,
                          hist |-> LastOf(Append(k.hist, d), Smoothing)]
      <3> PICK hist : hist = LastOf(Append(k.hist, d), Smoothing)
        OBVIOUS
      <3>1. Follow(k, d) = [k EXCEPT !.box = d.box, !.gone = 0, !.hist = hist]
        BY DEF Follow
      <3> QED BY <3>1 DEF IsTrack
    <2> QED BY <2>1, <2>2 DEF IsTrack
  <1> HIDE DEF Best
  <1>3. /\ moved = [i \in DOMAIN t.tracks |-> moved[i]]
        /\ \A i \in DOMAIN t.tracks : IsTrack(moved[i]) /\ moved[i].tid = t.tracks[i].tid
    BY <1>2
  <1> HIDE DEF moved
  <1>4. TracksOK(moved, t.next) /\ Tids(moved) = Tids(t.tracks)
    BY <1>3, SameTracks DEF TrackerOK
  <1>5. TracksOK(kept, t.next) /\ Tids(kept) \subseteq Tids(moved)
    BY <1>4, RemainingOK
  <1> HIDE DEF kept
  <1>6. /\ TrackerOK(u) /\ u.next >= t.next /\ u.saved = t.saved
        /\ \A tid \in Tids(u.tracks) : tid \in Tids(kept) \/ tid >= t.next
    BY <1>5, UnpairedList, RegisteredOK DEF TrackerOK
  <1> HIDE DEF u
  <1> QED BY <1>1, <1>4, <1>5, <1>6 DEF Continues

LEMMA CentroidOK ==
  ASSUME NEW t, TrackerOK(t), NEW dets, IsList(dets)
  PROVE  /\ Continues(t, CentroidUpdate(t, dets))
         /\ CentroidUpdate(t, dets).saved \subseteq t.saved
         /\ t.saved \cap Tids(CentroidUpdate(t, dets).tracks) \subseteq CentroidUpdate(t, dets).saved
  <1> DEFINE pairs == Nearest(t.tracks, dets)
             enough == Len(t.tracks) >= Len(dets)
             Best(i) == dets[Max(PartnerOf(pairs, i))]
             moved == [i \in DOMAIN t.tracks |->
                         IF PartnerOf(pairs, i) # {}
                         THEN [t.tracks[i] EXCEPT !.box = Best(i).box, !.gone = 0]
                         ELSE IF enough THEN Missed(t.tracks[i]) ELSE t.tracks[i]]
             kept == Remaining(moved, MaxGone.overspeed)
             left == Tids(moved) \ Tids(kept)
             new == IF enough THEN <<>> ELSE Unpaired(pairs, dets)
             s == [t EXCEPT !.saved = @ \ left]
             u == Registered(s, kept, new)
  <1>1. CentroidUpdate(t, dets) = u
    BY DEF CentroidUpdate
  <1>2. IsList(new)
    <2>1. IsList(<<>>)
      BY DEF IsList
    <2> QED BY <2>1, UnpairedList
  <1> HIDE DEF pairs, enough, new, Best
  <1>3. \A i \in DOMAIN t.tracks : IsTrack(moved[i]) /\ moved[i].tid = t.tracks[i].tid
    <2> DEFINE Met(k, b) == [k EXCEPT !.box = b, !.gone = 0]
    <2> SUFFICES ASSUME NEW k, IsTrack(k), NEW b
                 PROVE  /\ IsTrack(Missed(k)) /\ Missed(k).tid = k.tid
                        /\ IsTrack(Met(k, b)) /\ Met(k, b).tid = k.tid
      BY DEF TrackerOK, TracksOK
    <2>1. k = [tid |-> k.tid, box |-> k.box, gone |-> k.gone, hist |-> k.hist] /\ k.tid \in Nat
      BY DEF IsTrack
    <2>2. Missed(k) = [tid |-> k.tid, box |-> k.box, gone |-> k.gone + 1, hist |-> k.hist]
      BY <2>1 DEF Missed
    <2>3. Met(k, b) = [tid |-> k.tid, box |-> b, gone |-> 0, hist |-> k.hist]
      <3> PICK met : met = Met(k, b)
        OBVIOUS
      <3>1. met = [k EXCEPT !.box = b, !.gone = 0]
        OBVIOUS
      <3> HIDE DEF Met
      <3> QED BY <2>1, <3>1
    <2> QED BY <2>1, <2>2, <2>3 DEF IsTrack
  <1>4. moved = [i \in DOMAIN t.tracks |-> moved[i]]
    OBVIOUS
  <1> HIDE DEF moved
  <1>5. TracksOK(moved, t.next) /\ Tids(moved) = Tids(t.tracks)
    BY <1>3, <1>4, SameTracks DEF TrackerOK
  <1>6. TracksOK(kept, t.next) /\ Tids(kept) \subseteq Tids(moved)
    BY <1>5, RemainingOK
  <1> HIDE DEF kept
  <1>7. IsTracker(s) /\ s.next = t.next /\ s.saved = t.saved \ left
    <2> HIDE DEF left
    <2>1. t = [next |-> t.next, tracks |-> t.tracks, saved |-> t.saved, buckets |-> t.buckets]
      BY DEF TrackerOK, IsTracker
    <2>2. s = [next |-> t.next, tracks |-> t.tracks, saved |-> t.saved \ left,
               buckets |-> t.buckets]
      BY <2>1
    <2> QED BY <2>2 DEF TrackerOK, IsTracker
  <1> HIDE DEF s
  <1>8. /\ TrackerOK(u) /\ u.next >= t.next /\ u.saved = t.saved \ left
        /\ \A tid \in Tids(u.tracks) : tid \in Tids(kept) \/ tid >= t.next
    BY <1>2, <1>6, <1>7, RegisteredOK
  <1> HIDE DEF u
  <1>9. \A tid \in Tids(t.tracks) : ~(tid >= t.next)
    BY DEF Tids, TrackerOK, TracksOK, IsTracker, IsTrack
  <1>10. left \cap Tids(u.tracks) = {}
    BY <1>5, <1>8, <1>9
  <1> QED BY <1>1, <1>5, <1>6, <1>8, <1>10 DEF Continues

\* The alerts of a frame: one for each of the new things, and none is of a person.
ReportsNew(reports, things, saved) ==
  /\ IsList(reports) /\ Distinct(reports)
  /\ \A i \in DOMAIN reports :
       reports[i].type # "person_detected" /\ reports[i].tid \in things \ saved
  /\ reports = <<>> => things \subseteq saved

LEMMA AlertsForIs ==
  ASSUME NEW kind \in {"no_helmet", "triple_riding", "overspeed"},
         NEW listed, IsList(listed), Distinct(listed), NEW chosen, chosen \subseteq DOMAIN listed,
         NEW saved
  PROVE  ReportsNew(AlertsFor(kind, listed, chosen, saved), Chosen(listed, chosen), saved)
  <1> DEFINE some == {i \in chosen : listed[i].tid \notin saved}
             new == Picked(listed, some)
             a == AlertsFor(kind, listed, chosen, saved)
  <1>1. some \subseteq DOMAIN listed
    OBVIOUS
  <1>2. a = [i \in DOMAIN new |-> Alert(kind, new[i].tid, new[i].conf)]
    BY DEF AlertsFor
  <1>3. /\ IsList(new) /\ Distinct(new)
        /\ \A k \in DOMAIN new : \E i \in some : new[k] = listed[i]
        /\ \A i \in some : \E k \in DOMAIN new : new[k] = listed[i]
    <2> HIDE DEF some
    <2> QED BY <1>1, PickedDistinct
  <1> HIDE DEF new, a
  <1>4. /\ a = [i \in DOMAIN new |-> a[i]]
        /\ \A i \in DOMAIN new : a[i].type = kind /\ a[i].tid = new[i].tid
    BY <1>2 DEF Alert
  <1>5. IsList(a) /\ DOMAIN a = DOMAIN new
    BY <1>3, <1>4, MappedList
  <1>6. Distinct(a)
    BY <1>3, <1>4, <1>5 DEF Distinct
  <1>7. \A i \in DOMAIN a : a[i].type = kind /\ a[i].tid \in Chosen(listed, chosen) \ saved
    <2> TAKE i \in DOMAIN a
    <2>1. PICK n \in some : new[i] = listed[n]
      BY <1>3, <1>5
    <2> QED BY <1>4, <1>5, <2>1 DEF Chosen
  <1>8. ASSUME a = <<>> PROVE Chosen(listed, chosen) \subseteq saved
    <2>1. DOMAIN new = {}
      BY <1>5, <1>8
    <2>2. some = {}
      BY <1>3, <2>1
    <2> QED BY <2>2 DEF Chosen
  <1> QED BY <1>5, <1>6, <1>7, <1>8 DEF ReportsNew, a

\* The alerts of a frame are of objects that are followed and were not remembered.
Alerted(t, r) ==
  /\ Continues(t, r.tracker)
  /\ IsList(r.alerts) /\ Distinct(r.alerts)
  /\ \A i \in DOMAIN r.alerts :
       /\ r.alerts[i].type # "person_detected"
       /\ r.alerts[i].tid \in Tids(r.tracker.tracks) \ t.saved

\* Whoever is still followed stays remembered, and whoever was alerted is.
Remembers(t, r) ==
  /\ t.saved \cap Tids(r.tracker.tracks) \subseteq r.tracker.saved
  /\ \A i \in DOMAIN r.alerts : r.alerts[i].tid \in r.tracker.saved

Emptied(r) == r.alerts # <<>> /\ r.tracker.saved = {}

LEMMA NothingAlerted ==
  ASSUME NEW t, TrackerOK(t)
  PROVE  Alerted(t, NothingSeen(t)) /\ Remembers(t, NothingSeen(t)) /\ NothingSeen(t).tracker = t
  <1>1. NothingSeen(t).tracker = t /\ NothingSeen(t).alerts = <<>>
    BY DEF NothingSeen, Report
  <1>2. IsList(<<>>) /\ Distinct(<<>>) /\ DOMAIN <<>> = {}
    BY DEF IsList, Distinct
  <1>3. Continues(t, t)
    BY DEF Continues, TrackerOK, IsTracker
  <1> QED BY <1>1, <1>2, <1>3 DEF Alerted, Remembers

\* r reports the new ones of some things, and remembers them.
LEMMA RememberedAlerts ==
  ASSUME NEW t, TrackerOK(t), Remembered(t.saved) = t.saved,
         NEW u, Continues(t, u), u.saved = t.saved,
         NEW things, things \subseteq Tids(u.tracks),
         NEW r, ReportsNew(r.alerts, things, u.saved), IsTracker(r.tracker),
         r.tracker.next = u.next, r.tracker.tracks = u.tracks,
         r.tracker.saved = Remembered(u.saved \cup things)
  PROVE  /\ Alerted(t, r) /\ Remembered(r.tracker.saved) = r.tracker.saved
         /\ Remembers(t, r) \/ Emptied(r)
  <1> PICK saved, all, a : saved = t.saved /\ all = saved \cup things /\ a = r.alerts
    OBVIOUS
  <1>1. /\ IsList(a) /\ Distinct(a)
        /\ \A i \in DOMAIN a : a[i].type # "person_detected" /\ a[i].tid \in things \ saved
        /\ a = <<>> => things \subseteq saved
    BY DEF ReportsNew
  <1>2. r.alerts = a /\ r.tracker.saved = Remembered(all)
    OBVIOUS
  <1>3. Continues(t, r.tracker) /\ Tids(r.tracker.tracks) = Tids(u.tracks)
    BY DEF Continues, TrackerOK
  <1>5. Alerted(t, r)
    BY <1>1, <1>2, <1>3 DEF Alerted
  <1>6. Remembered({}) = {} /\ (Remembered(all) = {} \/ Remembered(all) = all)
    BY DEF Remembered
  <1>7. Remembered(r.tracker.saved) = r.tracker.saved
    BY <1>2, <1>6
  <1>8. CASE a = <<>>
    <2>1. all = saved
      BY <1>1, <1>8
    <2>2. r.tracker.saved = t.saved
      BY <1>2, <2>1
    <2>3. DOMAIN a = {}
      BY <1>8
    <2>4. Remembers(t, r)
      BY <1>2, <2>2, <2>3 DEF Remembers
    <2> QED BY <1>5, <1>7, <2>4
  <1>9. CASE a # <<>> /\ r.tracker.saved = {}
    BY <1>2, <1>5, <1>7, <1>9 DEF Emptied
  <1>10. CASE r.tracker.saved = all
    <2>1. Remembers(t, r)
      BY <1>1, <1>2, <1>10 DEF Remembers
    <2> QED BY <1>5, <1>7, <2>1
  <1> QED BY <1>2, <1>6, <1>8, <1>9, <1>10

\* A tracker that is told what to remember.
LEMMA SavedIs ==
  ASSUME NEW u, TrackerOK(u), NEW saved
  PROVE  LET v == [u EXCEPT !.saved = saved]
         IN IsTracker(v) /\ v.next = u.next /\ v.tracks = u.tracks /\ v.saved = saved
  <1>1. u = [next |-> u.next, tracks |-> u.tracks, saved |-> u.saved, buckets |-> u.buckets]
    BY DEF TrackerOK, IsTracker
  <1>2. [u EXCEPT !.saved = saved]
          = [next |-> u.next, tracks |-> u.tracks, saved |-> saved, buckets |-> u.buckets]
    BY <1>1
  <1> QED BY <1>2 DEF TrackerOK, IsTracker

LEMMA SeenIs ==
  ASSUME NEW t, TrackerOK(t)
  PROVE  /\ IsList(Seen(t)) /\ Distinct(Seen(t))
         /\ \A i \in DOMAIN Seen(t) : Seen(t)[i].tid \in Tids(t.tracks)
  <1> DEFINE chosen == {i \in DOMAIN t.tracks : t.tracks[i].gone = 0}
             seen == Picked(t.tracks, chosen)
  <1>1. chosen \subseteq DOMAIN t.tracks
    OBVIOUS
  <1> HIDE DEF chosen
  <1>2. /\ IsList(seen) /\ Distinct(seen)
        /\ \A k \in DOMAIN seen : \E i \in chosen : seen[k] = t.tracks[i]
    BY <1>1, PickedDistinct DEF TrackerOK, TracksOK
  <1> HIDE DEF seen
  <1>3. \A i \in DOMAIN seen : seen[i].tid \in Tids(t.tracks)
    BY <1>1, <1>2 DEF Tids
  <1> QED BY <1>2, <1>3 DEF Seen, seen, chosen

LEMMA StableSeenIs ==
  ASSUME NEW t, TrackerOK(t)
  PROVE  /\ IsList(StableSeen(t)) /\ Distinct(StableSeen(t))
         /\ \A i \in DOMAIN StableSeen(t) : StableSeen(t)[i].tid \in Tids(t.tracks)
  <1> DEFINE all == [i \in DOMAIN t.tracks |-> Stable(t.tracks[i])]
             chosen == {i \in DOMAIN all : t.tracks[i].gone = 0 /\ all[i].conf >= MinStable}
             seen == Picked(all, chosen)
  <1>1. chosen \subseteq DOMAIN all
    OBVIOUS
  <1>2. \A i \in DOMAIN t.tracks : all[i].tid = t.tracks[i].tid
    BY DEF Stable
  <1>3. all = [i \in DOMAIN t.tracks |-> all[i]]
    OBVIOUS
  <1> HIDE DEF chosen, all
  <1>4. IsList(all) /\ DOMAIN all = DOMAIN t.tracks
    BY <1>3, MappedList DEF TrackerOK, TracksOK
  <1>5. Distinct(all)
    BY <1>2, <1>4 DEF Distinct, TrackerOK, TracksOK
  <1>6. /\ IsList(seen) /\ Distinct(seen)
        /\ \A k \in DOMAIN seen : \E i \in chosen : seen[k] = all[i]
    BY <1>1, <1>4, <1>5, PickedDistinct
  <1> HIDE DEF seen
  <1>7. \A i \in DOMAIN seen : seen[i].tid \in Tids(t.tracks)
    BY <1>1, <1>2, <1>4, <1>6 DEF Tids
  <1> QED BY <1>6, <1>7 DEF StableSeen, seen, chosen, all

LEMMA HelmetAlerts ==
  ASSUME NEW t, TrackerOK(t), Remembered(t.saved) = t.saved, NEW frame \in Frames
  PROVE  LET r == HelmetProcess(HelmetUpdate(t, frame), frame)
         IN /\ Alerted(t, r) /\ Remembered(r.tracker.saved) = r.tracker.saved
            /\ Remembers(t, r) \/ Emptied(r)
  <1>1. CASE Passing(frame) = <<>>
    <2>1. HelmetProcess(HelmetUpdate(t, frame), frame) = NothingSeen(t)
      BY <1>1 DEF HelmetProcess, HelmetUpdate
    <2> QED BY <2>1, NothingAlerted
  <1>2. CASE Passing(frame) # <<>>
    <2> DEFINE raw == HelmetsIn[frame]
               u == StableUpdate(t, raw, HelmetIou, MaxGone.helmet)
               stable == StableSeen(u)
               violators == {i \in DOMAIN stable : stable[i].cid = NoHelmet}
               plates == SelectSeq(raw, LAMBDA d : d.cid = Plate)
               coords == Coords(plates) \o Coords(stable)
               r == HelmetProcess(HelmetUpdate(t, frame), frame)
    <2>1. r = Report([u EXCEPT !.saved = Remembered(@ \cup Chosen(stable, violators))], coords,
                     AlertsFor("no_helmet", stable, violators, u.saved))
      BY <1>2 DEF HelmetProcess, HelmetUpdate
    <2>a. /\ r.alerts = AlertsFor("no_helmet", stable, violators, u.saved)
          /\ r.tracker = [u EXCEPT !.saved = Remembered(u.saved \cup Chosen(stable, violators))]
      <3> HIDE DEF u, stable, violators, coords, r
      <3> QED BY <2>1 DEF Report
    <2>2. violators \subseteq DOMAIN stable
      OBVIOUS
    <2>3. Continues(t, u) /\ u.saved = t.saved
      BY HelmetsList, StableOK
    <2> HIDE DEF u, violators, coords, r
    <2>4. /\ IsList(stable) /\ Distinct(stable)
          /\ \A i \in DOMAIN stable : stable[i].tid \in Tids(u.tracks)
      BY <2>3, StableSeenIs DEF Continues
    <2> HIDE DEF stable
    <2>b. /\ IsTracker(r.tracker) /\ r.tracker.next = u.next /\ r.tracker.tracks = u.tracks
          /\ r.tracker.saved = Remembered(u.saved \cup Chosen(stable, violators))
      BY <2>a, <2>3, SavedIs DEF Continues
    <2>c. Chosen(stable, violators) \subseteq Tids(u.tracks)
      BY <2>2, <2>4 DEF Chosen
    <2>d. ReportsNew(r.alerts, Chosen(stable, violators), u.saved)
      BY <2>2, <2>4, <2>a, AlertsForIs
    <2>5. /\ Alerted(t, r) /\ Remembered(r.tracker.saved) = r.tracker.saved
          /\ Remembers(t, r) \/ Emptied(r)
      BY <2>b, <2>c, <2>d, <2>3, RememberedAlerts
    <2> QED BY <2>5 DEF r
  <1> QED BY <1>1, <1>2

LEMMA RidingAlerts ==
  ASSUME NEW t, TrackerOK(t), Remembered(t.saved) = t.saved, NEW frame \in Frames
  PROVE  LET r == RidingProcess(RidingUpdate(t, frame), frame)
         IN /\ Alerted(t, r) /\ Remembered(r.tracker.saved) = r.tracker.saved
            /\ Remembers(t, r) \/ Emptied(r)
  <1>1. CASE Passing(frame) = <<>>
    <2>1. RidingProcess(RidingUpdate(t, frame), frame) = NothingSeen(t)
      BY <1>1 DEF RidingProcess, RidingUpdate
    <2> QED BY <2>1, NothingAlerted
  <1>2. CASE Passing(frame) # <<>>
    <2> DEFINE u == StableUpdate(t, GroupsIn[frame], RidingIou, MaxGone.triple_riding)
               seen == Seen(u)
               groups == [i \in DOMAIN seen |->
                            [tid |-> seen[i].tid, box |-> seen[i].box, conf |-> 0]]
               all == DOMAIN groups
               coords == [i \in DOMAIN seen |-> Coord(Last(seen[i].hist))]
               r == RidingProcess(RidingUpdate(t, frame), frame)
    <2>1. r = Report([u EXCEPT !.saved = Remembered(@ \cup Chosen(groups, all))], coords,
                     AlertsFor("triple_riding", groups, all, u.saved))
      BY <1>2 DEF RidingProcess, RidingUpdate
    <2>a. /\ r.alerts = AlertsFor("triple_riding", groups, all, u.saved)
          /\ r.tracker = [u EXCEPT !.saved = Remembered(u.saved \cup Chosen(groups, all))]
      <3> HIDE DEF u, groups, coords, r
      <3> QED BY <2>1 DEF Report
    <2>2. Continues(t, u) /\ u.saved = t.saved
      BY GroupsList, StableOK
    <2> HIDE DEF u, coords, r
    <2>3. /\ IsList(seen) /\ Distinct(seen)
          /\ \A i \in DOMAIN seen : seen[i].tid \in Tids(u.tracks)
      BY <2>2, SeenIs DEF Continues
    <2>4. /\ groups = [i \in DOMAIN seen |-> groups[i]]
          /\ \A i \in DOMAIN seen : groups[i].tid = seen[i].tid
      OBVIOUS
    <2> HIDE DEF seen, groups
    <2>5. IsList(groups) /\ DOMAIN groups = DOMAIN seen
      BY <2>3, <2>4, MappedList
    <2>6. Distinct(groups) /\ \A i \in DOMAIN groups : groups[i].tid \in Tids(u.tracks)
      BY <2>3, <2>4, <2>5 DEF Distinct
    <2>b. /\ IsTracker(r.tracker) /\ r.tracker.next = u.next /\ r.tracker.tracks = u.tracks
          /\ r.tracker.saved = Remembered(u.saved \cup Chosen(groups, all))
      BY <2>a, <2>2, SavedIs DEF Continues
    <2>c. Chosen(groups, all) \subseteq Tids(u.tracks)
      BY <2>6 DEF Chosen
    <2>d. ReportsNew(r.alerts, Chosen(groups, all), u.saved)
      BY <2>5, <2>6, <2>a, AlertsForIs
    <2>7. /\ Alerted(t, r) /\ Remembered(r.tracker.saved) = r.tracker.saved
          /\ Remembers(t, r) \/ Emptied(r)
      BY <2>b, <2>c, <2>d, <2>2, RememberedAlerts
    <2> QED BY <2>7 DEF r
  <1> QED BY <1>1, <1>2

LEMMA OverspeedAlerts ==
  ASSUME NEW t, TrackerOK(t), NEW frame \in Frames
  PROVE  LET r == OverspeedProcess(t, OverspeedUpdate(t, frame), frame)
         IN Alerted(t, r) /\ Remembers(t, r)
  <1> DEFINE dets == VehiclesIn[frame]
             u == CentroidUpdate(t, dets)
             tracks == [i \in DOMAIN u.tracks |-> Moved(t, u.tracks[i])]
             fast == {i \in DOMAIN tracks : Speeding(tracks[i])}
             vehicles == [i \in DOMAIN tracks |-> [tid |-> tracks[i].tid, conf |-> 0]]
             coords == [i \in DOMAIN tracks |-> [box |-> BoxNear(tracks[i], dets), conf |-> 0]]
             things == Chosen(vehicles, fast)
             r == OverspeedProcess(t, OverspeedUpdate(t, frame), frame)
  <1>1. /\ Continues(t, u) /\ u.saved \subseteq t.saved
        /\ t.saved \cap Tids(u.tracks) \subseteq u.saved
    BY VehiclesList, CentroidOK
  <1>2. r = Report([u EXCEPT !.tracks = tracks, !.saved = @ \cup things], coords,
                   AlertsFor("overspeed", vehicles, fast, u.saved))
    BY DEF OverspeedProcess, OverspeedUpdate
  <1> HIDE DEF u
  <1>3. \A i \in DOMAIN u.tracks : IsTrack(tracks[i]) /\ tracks[i].tid = u.tracks[i].tid
    <2> SUFFICES ASSUME NEW k, IsTrack(k) PROVE IsTrack(Moved(t, k)) /\ Moved(t, k).tid = k.tid
      BY <1>1 DEF Continues, TrackerOK, TracksOK
    <2> PICK hist :
          hist = LastOf(Append(IF k.tid >= t.next THEN <<>> ELSE k.hist, Center(k.box)), Lag + 1)
      OBVIOUS
    <2>1. Moved(t, k) = [k EXCEPT !.hist = hist]
      BY DEF Moved
    <2>2. Moved(t, k) = [tid |-> k.tid, box |-> k.box, gone |-> k.gone, hist |-> hist]
      BY <2>1 DEF IsTrack
    <2> QED BY <2>2 DEF IsTrack
  <1>4. tracks = [i \in DOMAIN u.tracks |-> tracks[i]]
    OBVIOUS
  <1>5. /\ fast \subseteq DOMAIN tracks
        /\ vehicles = [i \in DOMAIN tracks |-> vehicles[i]]
        /\ \A i \in DOMAIN tracks : vehicles[i].tid = tracks[i].tid
    OBVIOUS
  <1>6. r.alerts = AlertsFor("overspeed", vehicles, fast, u.saved)
    <2> HIDE DEF tracks, vehicles, fast, coords, things, r
    <2> QED BY <1>2 DEF Report
  <1>7. r.tracker = [u EXCEPT !.tracks = tracks, !.saved = @ \cup things]
    <2> HIDE DEF tracks, vehicles, fast, coords, things, r
    <2> QED BY <1>2 DEF Report
  <1> HIDE DEF tracks, vehicles, fast, r
  <1>8. TracksOK(tracks, u.next) /\ Tids(tracks) = Tids(u.tracks)
    BY <1>1, <1>3, <1>4, SameTracks DEF Continues, TrackerOK
  <1>9. IsList(vehicles) /\ DOMAIN vehicles = DOMAIN tracks
    BY <1>5, <1>8, MappedList DEF TracksOK
  <1>10. Distinct(vehicles) /\ things \subseteq Tids(tracks)
    BY <1>5, <1>8, <1>9 DEF Distinct, TracksOK, Chosen, Tids
  <1>11. ReportsNew(r.alerts, things, u.saved)
    BY <1>5, <1>6, <1>9, <1>10, AlertsForIs
  <1> HIDE DEF things
  <1>12. /\ IsTracker(r.tracker) /\ r.tracker.next = u.next /\ r.tracker.tracks = tracks
         /\ r.tracker.saved = u.saved \cup things
    <2>1. u = [next |-> u.next, tracks |-> u.tracks, saved |-> u.saved, buckets |-> u.buckets]
      BY <1>1 DEF Continues, TrackerOK, IsTracker
    <2>2. r.tracker = [next |-> u.next, tracks |-> tracks, saved |-> u.saved \cup things,
                       buckets |-> u.buckets]
      BY <1>7, <2>1
    <2> QED BY <1>1, <2>2 DEF Continues, TrackerOK, IsTracker
  <1>13. Continues(t, r.tracker)
    BY <1>1, <1>8, <1>12 DEF Continues, TrackerOK
  <1>14. Alerted(t, r)
    BY <1>1, <1>8, <1>10, <1>11, <1>12, <1>13 DEF Alerted, ReportsNew
  <1>15. Remembers(t, r)
    BY <1>1, <1>8, <1>11, <1>12 DEF Remembers, ReportsNew
  <1> QED BY <1>14, <1>15 DEF r

LEMMA PersonAlerts ==
  ASSUME NEW t, TrackerOK(t), NEW frame \in Frames, NEW time
  PROVE  LET r == PersonProcess(t, frame, time)
         IN /\ TrackerOK(r.tracker) /\ IsList(r.alerts)
            /\ \A i \in DOMAIN r.alerts : r.alerts[i].type = "person_detected"
  <1> DEFINE dets == PersonsIn[frame]
             r == PersonProcess(t, frame, time)
  <1>1. CASE dets = <<>>
    <2>1. r = NothingSeen(t)
      BY <1>1 DEF PersonProcess
    <2>2. r.tracker = t /\ r.alerts = <<>> /\ IsList(<<>>)
      BY <2>1 DEF NothingSeen, Report, IsList
    <2> QED BY <2>2
  <1>2. CASE dets # <<>>
    <2> DEFINE Ready(i) ==
                 /\ SinceAlert(t.buckets, Bucket(dets[i]), time) >= Cooldown
                 /\ \A j \in 1..i - 1 : Bucket(dets[j]) # Bucket(dets[i])
               all == [i \in DOMAIN dets |-> i]
               chosen == {i \in DOMAIN dets : Ready(i)}
               at == Picked(all, chosen)
               buckets == [b \in {Bucket(dets[at[k]]) : k \in DOMAIN at} |-> 0] @@ t.buckets
               live == {b \in DOMAIN buckets : buckets[b] < BucketTtl}
               left == [b \in live |-> buckets[b]]
               coords == [i \in DOMAIN dets |-> Coord(WithBox(dets[i], Clipped(dets[i].box)))]
               reports == [k \in DOMAIN at |-> Alert("person_detected", 0, dets[at[k]].conf)]
    <2>1. r = Report([t EXCEPT !.buckets = left], coords, reports)
      BY <1>2 DEF PersonProcess
    <2>2. chosen \subseteq DOMAIN all
      OBVIOUS
    <2>3. IsList(all)
      BY PersonsList, ListFacts, ListIs
    <2> HIDE DEF chosen, all
    <2>4. IsList(at)
      BY <2>2, <2>3, PickedList DEF Holds
    <2> HIDE DEF at
    <2>5. /\ reports = [k \in DOMAIN at |-> reports[k]]
          /\ \A k \in DOMAIN at : reports[k].type = "person_detected"
      BY DEF Alert
    <2> HIDE DEF reports, left, coords, r
    <2>6. IsList(reports) /\ DOMAIN reports = DOMAIN at
      BY <2>4, <2>5, MappedList
    <2>7. r.alerts = reports /\ r.tracker = [t EXCEPT !.buckets = left]
      BY <2>1 DEF Report
    <2>8. t = [next |-> t.next, tracks |-> t.tracks, saved |-> t.saved, buckets |-> t.buckets]
      BY DEF TrackerOK, IsTracker
    <2>9. r.tracker = [next |-> t.next, tracks |-> t.tracks, saved |-> t.saved, buckets |-> left]
      BY <2>7, <2>8
    <2>10. TrackerOK(r.tracker)
      BY <2>9 DEF TrackerOK, IsTracker
    <2> QED BY <2>5, <2>6, <2>7, <2>10 DEF r
  <1> QED BY <1>1, <1>2

\* A frame of a model that follows things, whichever it is.
LEMMA ProcessAlerts ==
  ASSUME NEW model \in Models, NEW t, TrackerOK(t), NEW frame \in Frames, NEW time,
         model \in {"helmet", "triple_riding"} => Remembered(t.saved) = t.saved
  PROVE  LET r == Process(model, t, Updated(model, t, frame), frame, time)
         IN /\ TrackerOK(r.tracker) /\ IsList(r.alerts)
            /\ \A i \in DOMAIN r.alerts : r.alerts[i].type = "person_detected" <=> model = "person"
            /\ model # "person" => Alerted(t, r)
            /\ model # "person" =>
                 Remembers(t, r) \/ (Emptied(r) /\ model \in {"helmet", "triple_riding"})
            /\ model \in {"helmet", "triple_riding"} =>
                 Remembered(r.tracker.saved) = r.tracker.saved
  <1> DEFINE r == Process(model, t, Updated(model, t, frame), frame, time)
  <1>1. CASE model = "helmet"
    <2>1. r = HelmetProcess(HelmetUpdate(t, frame), frame)
      BY <1>1 DEF Process, Updated
    <2> HIDE DEF r
    <2> QED BY <1>1, <2>1, HelmetAlerts DEF Alerted, Continues, r
  <1>2. CASE model = "triple_riding"
    <2>1. r = RidingProcess(RidingUpdate(t, frame), frame)
      BY <1>2 DEF Process, Updated
    <2> HIDE DEF r
    <2> QED BY <1>2, <2>1, RidingAlerts DEF Alerted, Continues, r
  <1>3. CASE model = "overspeed"
    <2>1. r = OverspeedProcess(t, OverspeedUpdate(t, frame), frame)
      BY <1>3 DEF Process, Updated
    <2> HIDE DEF r
    <2> QED BY <1>3, <2>1, OverspeedAlerts DEF Alerted, Continues, r
  <1>4. CASE model = "person"
    <2>1. r = PersonProcess(t, frame, time)
      BY <1>4 DEF Process
    <2> HIDE DEF r
    <2> QED BY <1>4, <2>1, PersonAlerts DEF r
  <1> QED BY <1>1, <1>2, <1>3, <1>4 DEF Models

----------------------------------------------------------------------------
(* Alerts are not repeated *)

(* Who was alerted is remembered, or no longer followed, and his id is not *)
(* given again.                                                            *)
SentOnce(alert) ==
  /\ alert.type = "person_detected" <=> ai.model = "person"
  /\ alert.forgot \in 0..ai.forgot
  /\ ai.model # "person" /\ alert.forgot = ai.forgot =>
       /\ alert.tid \in Nat /\ alert.tid < ai.tracker.next
       /\ alert.tid \in ai.tracker.saved \/ alert.tid \notin Tids(ai.tracker.tracks)

AiForm ==
  ai = [model |-> ai.model, lens |-> ai.lens, tracker |-> ai.tracker, load |-> ai.load,
        forgot |-> ai.forgot, snapshots |-> ai.snapshots, snapThreshold |-> ai.snapThreshold]

AiInv ==
  /\ AiForm /\ (ai.model = "" \/ ai.model \in Models) /\ ai.load \in Nat /\ ai.forgot \in Nat
  /\ TrackerOK(ai.tracker)
  /\ ai.model \in {"helmet", "triple_riding"} => Remembered(ai.tracker.saved) = ai.tracker.saved

SentInv ==
  /\ IsList(sent)
  /\ \A i \in DOMAIN sent : sent[i].load \in 0..ai.load
  /\ \A i \in DOMAIN sent : ai.model # "" /\ sent[i].load = ai.load => SentOnce(sent[i])

OnceInv == AiInv /\ SentInv /\ AlertedOnce

LEMMA NewTrackerOK == TrackerOK(NewTracker) /\ Remembered(NewTracker.saved) = NewTracker.saved
  <1>1. IsList(<<>>)
    BY DEF IsList
  <1>2. TrackerOK(NewTracker)
    BY <1>1 DEF NewTracker, TrackerOK, IsTracker, TracksOK, Distinct
  <1>3. Remembered({}) = {}
    BY DEF Remembered
  <1> QED BY <1>2, <1>3 DEF NewTracker

LEMMA InitOnce == SystemInit => OnceInv
  <1> SUFFICES ASSUME SystemInit PROVE OnceInv
    OBVIOUS
  <1>1. ai = Stopped(0) /\ sent = <<>>
    BY DEF SystemInit, AlertsInit
  <1>2. AiInv
    BY <1>1, NewTrackerOK DEF AiInv, AiForm, Stopped
  <1>3. SentInv /\ AlertedOnce
    BY <1>1 DEF SentInv, AlertedOnce, IsList
  <1> QED BY <1>2, <1>3 DEF OnceInv

\* Nothing is sent and the same model runs on.
LEMMA RunsOn ==
  ASSUME OnceInv, sent' = sent, AiForm', ai'.model = ai.model, ai'.load = ai.load,
         ai'.forgot = ai.forgot, TrackerOK(ai'.tracker), ai'.tracker.next = ai.tracker.next,
         ai'.tracker.tracks = ai.tracker.tracks, ai'.tracker.saved = ai.tracker.saved
  PROVE  OnceInv'
  <1>1. AiInv'
    BY DEF OnceInv, AiInv
  <1>2. SentInv'
    BY DEF OnceInv, SentInv, SentOnce
  <1> QED BY <1>1, <1>2 DEF OnceInv, AlertedOnce

\* Nothing is sent; no model runs, or another load of one.
LEMMA StartsOver ==
  ASSUME OnceInv, sent' = sent, AiForm', ai'.tracker = NewTracker, ai'.forgot = 0,
         \/ ai'.model = "" /\ ai'.load = ai.load
         \/ ai'.model \in Models /\ ai'.load = ai.load + 1
  PROVE  OnceInv'
  <1>1. TrackerOK(ai'.tracker) /\ Remembered(ai'.tracker.saved) = ai'.tracker.saved
    BY NewTrackerOK
  <1>2. ai.load \in Nat
    BY DEF OnceInv, AiInv
  <1>3. \A i \in DOMAIN sent : sent[i].load \in 0..ai.load
    BY DEF OnceInv, SentInv
  <1>4. CASE ai'.model = "" /\ ai'.load = ai.load
    <2>a. ai'.forgot \in Nat /\ ai'.load \in Nat
      <3>1. ai'.load = ai.load
        BY <1>4
      <3> QED BY ONLY ai'.forgot = 0, <1>2, <3>1
    <2>1. AiInv'
      BY <1>1, <1>4, <2>a, Zenon DEF AiInv
    <2>2. SentInv'
      BY <1>3, <1>4 DEF OnceInv, SentInv
    <2> QED BY <2>1, <2>2 DEF OnceInv, AlertedOnce
  <1>5. CASE ai'.model \in Models /\ ai'.load = ai.load + 1
    <2>a. ai'.forgot \in Nat /\ ai'.load \in Nat
      BY ONLY ai'.forgot = 0, <1>2, <1>5
    <2>1. AiInv'
      BY <1>1, <1>5, <2>a, Zenon DEF AiInv
    <2>2. \A i \in DOMAIN sent : sent[i].load \in 0..ai'.load /\ sent[i].load # ai'.load
      BY ONLY <1>2, <1>3, <1>5
    <2>3. SentInv'
      BY <2>2 DEF OnceInv, SentInv
    <2> QED BY <2>1, <2>3 DEF OnceInv, AlertedOnce
  <1> QED BY <1>4, <1>5

LEMMA StoppedOnce ==
  ASSUME OnceInv, sent' = sent, ai' = Stopped(ai.load)
  PROVE  OnceInv'
  BY StartsOver DEF Stopped, AiForm

LEMMA LoadedOnce ==
  ASSUME OnceInv, sent' = sent, NEW model \in Models, NEW lens \in Lenses,
         ai' = Loaded(model, lens, ai.load)
  PROVE  OnceInv'
  <1>1. Loaded(model, lens, ai.load)
          = [[model |-> "", lens |-> "", tracker |-> NewTracker, load |-> ai.load, forgot |-> 0,
              snapshots |-> TRUE, snapThreshold |-> 50]
             EXCEPT !.model = model, !.lens = lens, !.load = ai.load + 1]
    BY DEF Loaded, Stopped
  <1>2. ai' = [model |-> model, lens |-> lens, tracker |-> NewTracker, load |-> ai.load + 1,
               forgot |-> 0, snapshots |-> TRUE, snapThreshold |-> 50]
    BY <1>1
  <1>3. /\ AiForm' /\ ai'.tracker = NewTracker /\ ai'.forgot = 0
        /\ ai'.model \in Models /\ ai'.load = ai.load + 1
    BY <1>2 DEF AiForm
  <1> QED BY <1>3, StartsOver

\* The alerts of a frame go out, those that are sure enough.
LEMMA PublishedOnce ==
  ASSUME OnceInv, NEW r, NEW some, NEW out, NEW snapshot, NEW chosen,
         ai.model \in Models, chosen \subseteq DOMAIN r.alerts,
         some = Picked(r.alerts, chosen), out = Enriched(some, snapshot), sent' = sent \o out,
         AiForm', ai'.model = ai.model, ai'.load = ai.load, ai'.tracker = r.tracker,
         ai'.forgot = IF Forgot(r) THEN ai.forgot + 1 ELSE ai.forgot,
         TrackerOK(r.tracker), IsList(r.alerts),
         \A i \in DOMAIN r.alerts : r.alerts[i].type = "person_detected" <=> ai.model = "person",
         ai.model # "person" => Alerted(ai.tracker, r),
         ai.model # "person" => Remembers(ai.tracker, r) \/ Forgot(r),
         ai.model \in {"helmet", "triple_riding"} => Remembered(r.tracker.saved) = r.tracker.saved
  PROVE  OnceInv'
  <1>1. AiInv'
    <2>1. ai.forgot \in Nat /\ ai.load \in Nat
      BY DEF OnceInv, AiInv
    <2>2. ai'.forgot \in Nat
      BY <2>1
    <2> QED BY <2>1, <2>2, Zenon DEF AiInv
  <1>2. ai.load \in Nat /\ ai.forgot \in Nat /\ ai'.forgot \in Nat /\ ai'.forgot >= ai.forgot
        /\ (ai'.forgot = ai.forgot <=> ~Forgot(r))
    <2>1. ai.forgot \in Nat /\ ai.load \in Nat
      BY DEF OnceInv, AiInv
    <2>2. ai'.forgot = IF Forgot(r) THEN ai.forgot + 1 ELSE ai.forgot
      OBVIOUS
    <2> QED BY ONLY <2>1, <2>2
  <1>3. /\ IsList(some)
        /\ \A k \in DOMAIN some : \E i \in DOMAIN r.alerts : some[k] = r.alerts[i]
        /\ ai.model # "person" => Distinct(some)
    <2>1. Holds(some, r.alerts, chosen)
      BY PickedList
    <2>2. \A k \in DOMAIN some : \E i \in chosen : some[k] = r.alerts[i]
      BY <2>1, HoldsFacts
    <2>3. ai.model # "person" => Distinct(some)
      BY PickedDistinct DEF Alerted
    <2> QED BY <2>1, <2>2, <2>3 DEF Holds
  <1>4. /\ out = [i \in DOMAIN some |-> out[i]]
        /\ \A i \in DOMAIN some :
             /\ out[i].type = some[i].type /\ out[i].tid = some[i].tid
             /\ out[i].load = ai.load /\ out[i].forgot = ai.forgot
    BY DEF Enriched
  <1>5. IsList(out) /\ DOMAIN out = DOMAIN some
    BY <1>3, <1>4, MappedList
  <1>6. IsList(sent)
    BY DEF OnceInv, SentInv
  <1>7. /\ IsList(sent') /\ Len(sent') = Len(sent) + Len(out)
        /\ \A i \in 1..Len(sent') :
             sent'[i] = IF i <= Len(sent) THEN sent[i] ELSE out[i - Len(sent)]
    BY <1>5, <1>6, JoinedIs
  <1>8. /\ Len(sent) \in Nat /\ DOMAIN sent = 1..Len(sent)
        /\ Len(out) \in Nat /\ DOMAIN out = 1..Len(out)
        /\ DOMAIN sent' = 1..(Len(sent) + Len(out))
    BY <1>5, <1>6, <1>7, ListFacts
  <1>9. ASSUME NEW k \in DOMAIN out
        PROVE  /\ out[k].type = "person_detected" <=> ai.model = "person"
               /\ out[k].load = ai.load /\ out[k].forgot = ai.forgot
    BY <1>3, <1>4, <1>5
  <1>10. ASSUME NEW k \in DOMAIN out, ai.model # "person"
         PROVE  /\ out[k].tid \in Nat /\ out[k].tid < r.tracker.next
                /\ out[k].tid \in Tids(r.tracker.tracks) /\ out[k].tid \notin ai.tracker.saved
                /\ out[k].tid \in Tids(ai.tracker.tracks) \/ out[k].tid >= ai.tracker.next
                /\ ~Forgot(r) => out[k].tid \in r.tracker.saved
    <2>1. PICK i \in DOMAIN r.alerts : out[k].tid = r.alerts[i].tid
      BY <1>3, <1>4, <1>5
    <2>2. out[k].tid \in Tids(r.tracker.tracks) \ ai.tracker.saved
      BY <1>10, <2>1 DEF Alerted
    <2>3. \A tid \in Tids(r.tracker.tracks) : tid \in Nat /\ tid < r.tracker.next
      BY DEF TrackerOK, TracksOK, IsTrack, Tids
    <2>4. out[k].tid \in Tids(ai.tracker.tracks) \/ out[k].tid >= ai.tracker.next
      BY <1>10, <2>2 DEF Alerted, Continues
    <2>5. ~Forgot(r) => out[k].tid \in r.tracker.saved
      BY <1>10, <2>1 DEF Remembers
    <2> QED BY <2>2, <2>3, <2>4, <2>5
  <1>11. ASSUME NEW i \in DOMAIN sent
         PROVE  /\ sent[i].load \in 0..ai.load
                /\ sent[i].load = ai.load => SentOnce(sent[i])
    BY DEF OnceInv, SentInv, Models
  <1>12. ASSUME NEW CONSTANT a, SentOnce(a) PROVE SentOnce(a)'
    <2>1. SentOnce(a)
      BY <1>12
    <2>2. (a.type = "person_detected" <=> ai'.model = "person") /\ a.forgot \in 0..ai'.forgot
      <3>1. a.forgot \in 0..ai.forgot
        BY <2>1 DEF SentOnce
      <3>2. a.forgot \in 0..ai'.forgot
        BY ONLY <3>1, <1>2
      <3> QED BY <2>1, <3>2, Zenon DEF SentOnce
    <2>3. ASSUME ai'.model # "person", a.forgot = ai'.forgot
          PROVE  /\ a.tid \in Nat /\ a.tid < ai'.tracker.next
                 /\ a.tid \in ai'.tracker.saved \/ a.tid \notin Tids(ai'.tracker.tracks)
      <3>1. a.forgot \in 0..ai.forgot
        BY <2>1 DEF SentOnce
      <3>2. a.forgot = ai.forgot /\ ~Forgot(r)
        BY ONLY <3>1, <2>3, <1>2
      <3>3. /\ a.tid \in Nat /\ a.tid < ai.tracker.next
            /\ a.tid \in ai.tracker.saved \/ a.tid \notin Tids(ai.tracker.tracks)
        BY <2>1, <2>3, <3>2 DEF SentOnce
      <3>4. /\ r.tracker.next \in Nat /\ ai.tracker.next \in Nat /\ r.tracker.next >= ai.tracker.next
            /\ \A tid \in Tids(r.tracker.tracks) :
                 tid \in Tids(ai.tracker.tracks) \/ tid >= ai.tracker.next
            /\ ai.tracker.saved \cap Tids(r.tracker.tracks) \subseteq r.tracker.saved
        BY <2>3, <3>2 DEF OnceInv, AiInv, TrackerOK, IsTracker, Alerted, Continues, Remembers
      <3>5. ai'.tracker = r.tracker
        OBVIOUS
      <3> QED BY ONLY <3>3, <3>4, <3>5
    <2> QED BY <2>2, <2>3, Zenon DEF SentOnce
  <1>13. ASSUME NEW k \in DOMAIN out PROVE SentOnce(out[k])'
    <2> DEFINE a == out[k]
    <2>1. /\ a.type = "person_detected" <=> ai'.model = "person"
          /\ a.forgot = ai.forgot
      BY <1>9
    <2>2. ai.model # "person" => /\ a.tid \in Nat /\ a.tid < r.tracker.next
                                 /\ ~Forgot(r) => a.tid \in r.tracker.saved
      BY <1>10
    <2> HIDE DEF a
    <2>3. a.forgot \in 0..ai'.forgot
      BY ONLY <1>2, <2>1
    <2>4. ASSUME ai'.model # "person", a.forgot = ai'.forgot
          PROVE  /\ a.tid \in Nat /\ a.tid < ai'.tracker.next
                 /\ a.tid \in ai'.tracker.saved
      <3>1. ~Forgot(r)
        BY ONLY <1>2, <2>1, <2>4
      <3> QED BY <2>2, <2>4, <3>1, Zenon
    <2> QED BY <2>1, <2>3, <2>4, Zenon DEF SentOnce, a
  <1>14. ASSUME NEW i \in DOMAIN sent'
         PROVE  \/ i \in DOMAIN sent /\ sent'[i] = sent[i]
                \/ i > Len(sent) /\ i - Len(sent) \in DOMAIN out /\ sent'[i] = out[i - Len(sent)]
    BY <1>7, <1>8
  <1>15. SentInv'
    <2>1. ASSUME NEW i \in DOMAIN sent' PROVE sent'[i].load \in 0..ai'.load
      BY <1>2, <1>9, <1>11, <1>14
    <2>2. ASSUME NEW i \in DOMAIN sent', sent'[i].load = ai'.load PROVE SentOnce(sent[i])'
      <3> PICK a : a = sent'[i]
        OBVIOUS
      <3>1. SentOnce(a)'
        BY <1>11, <1>12, <1>13, <1>14, <2>2
      <3> QED BY <3>1 DEF SentOnce
    <2> QED BY <1>7, <2>1, <2>2, Zenon DEF SentInv
  <1>16. AlertedOnce'
    <2> SUFFICES ASSUME NEW i \in DOMAIN sent', NEW j \in DOMAIN sent', i < j,
                        sent'[i].type # "person_detected", sent'[i].load = sent'[j].load,
                        sent'[i].tid = sent'[j].tid, sent'[i].forgot = sent'[j].forgot
                 PROVE  FALSE
      BY DEF AlertedOnce
    <2>1. CASE j \in DOMAIN sent
      <3>1. i \in DOMAIN sent /\ sent'[i] = sent[i] /\ sent'[j] = sent[j]
        BY <1>7, <1>8, <2>1
      <3>2. AlertedOnce
        BY DEF OnceInv
      <3>3. j \in DOMAIN sent /\ i < j
        BY <2>1
      <3>4. sent[i].type # "person_detected" =>
              \/ sent[i].load # sent[j].load \/ sent[i].tid # sent[j].tid
              \/ sent[i].forgot # sent[j].forgot
        BY ONLY <3>1, <3>2, <3>3 DEF AlertedOnce
      <3> QED BY <3>1, <3>4
    <2>2. CASE j \notin DOMAIN sent
      <3> PICK l \in DOMAIN out : l = j - Len(sent) /\ sent'[j] = out[l]
        BY <1>14, <2>2
      <3>1. CASE i \in DOMAIN sent
        <4>1. sent'[i] = sent[i]
          BY <1>7, <1>8, <3>1
        <4>2. SentOnce(sent[i]) /\ sent[i].forgot = ai.forgot /\ ai.model # "person"
          BY <1>9, <1>11, <3>1, <4>1 DEF SentOnce
        <4>3. /\ sent[i].tid \in Nat /\ sent[i].tid < ai.tracker.next
              /\ sent[i].tid \in ai.tracker.saved \/ sent[i].tid \notin Tids(ai.tracker.tracks)
          BY <4>2 DEF SentOnce
        <4>4. /\ sent[i].tid \notin ai.tracker.saved
              /\ sent[i].tid \in Tids(ai.tracker.tracks) \/ sent[i].tid >= ai.tracker.next
          BY <1>10, <4>1, <4>2
        <4>5. ai.tracker.next \in Nat
          BY DEF OnceInv, AiInv, TrackerOK, IsTracker
        <4> QED BY ONLY <4>3, <4>4, <4>5
      <3>2. CASE i \notin DOMAIN sent
        <4> PICK k \in DOMAIN out : k = i - Len(sent) /\ sent'[i] = out[k]
          BY <1>14, <3>2
        <4>1. ai.model # "person"
          BY <1>9
        <4>2. some[k].tid = some[l].tid /\ k \in DOMAIN some /\ l \in DOMAIN some
          BY <1>4, <1>5
        <4>3. k = l
          BY <1>3, <4>1, <4>2 DEF Distinct
        <4>4. i \in Int /\ j \in Int /\ Len(sent) \in Int
          BY <1>8
        <4> QED BY <4>3, <4>4
      <3> QED BY <3>1, <3>2
    <2> QED BY <2>1, <2>2
  <1> QED BY <1>1, <1>15, <1>16 DEF OnceInv

LEMMA SampleOnce ==
  ASSUME OnceInv, NEW frame \in Frames, OnNewSample(frame)
  PROVE  OnceInv'
  <1> PICK r : r = Process(ai.model, ai.tracker, Updated(ai.model, ai.tracker, frame), frame, uptime)
    OBVIOUS
  <1>1. ai.model \in Models /\ PublishDetections(r)
    BY DEF OnNewSample, OnceInv, AiInv
  <1>2. /\ TrackerOK(r.tracker) /\ IsList(r.alerts)
        /\ \A i \in DOMAIN r.alerts : r.alerts[i].type = "person_detected" <=> ai.model = "person"
        /\ ai.model # "person" => Alerted(ai.tracker, r)
        /\ ai.model # "person" =>
             Remembers(ai.tracker, r) \/ (Emptied(r) /\ ai.model \in {"helmet", "triple_riding"})
        /\ ai.model \in {"helmet", "triple_riding"} => Remembered(r.tracker.saved) = r.tracker.saved
    <2>1. TrackerOK(ai.tracker)
      BY DEF OnceInv, AiInv
    <2>2. ai.model \in {"helmet", "triple_riding"} =>
            Remembered(ai.tracker.saved) = ai.tracker.saved
      BY DEF OnceInv, AiInv
    <2> QED BY <1>1, <2>1, <2>2, ProcessAlerts
  <1>3. ai.model # "person" => Remembers(ai.tracker, r) \/ Forgot(r)
    BY <1>2 DEF Emptied, Forgot
  <1> DEFINE chosen == {i \in DOMAIN r.alerts : r.alerts[i].conf >= ai.snapThreshold}
             some == Picked(r.alerts, chosen)
  <1>4. PICK snapshot : sent' = sent \o Enriched(some, snapshot)
    BY <1>1 DEF PublishDetections
  <1>5. ai' = [ai EXCEPT !.tracker = r.tracker, !.forgot = IF Forgot(r) THEN @ + 1 ELSE @]
    BY <1>1 DEF PublishDetections
  <1>6. /\ AiForm' /\ ai'.model = ai.model /\ ai'.load = ai.load /\ ai'.tracker = r.tracker
        /\ ai'.forgot = IF Forgot(r) THEN ai.forgot + 1 ELSE ai.forgot
    <2>1. AiForm
      BY DEF OnceInv, AiInv
    <2> PICK n : n = IF Forgot(r) THEN ai.forgot + 1 ELSE ai.forgot
      OBVIOUS
    <2>2. ai' = [model |-> ai.model, lens |-> ai.lens, tracker |-> r.tracker, load |-> ai.load,
                 forgot |-> n, snapshots |-> ai.snapshots, snapThreshold |-> ai.snapThreshold]
      BY <1>5, <2>1 DEF AiForm
    <2> QED BY <2>2 DEF AiForm
  <1> PICK ch : ch = chosen
    OBVIOUS
  <1>7. ch \subseteq DOMAIN r.alerts /\ some = Picked(r.alerts, ch)
    OBVIOUS
  <1> HIDE DEF chosen, some
  <1> QED BY <1>1, <1>2, <1>3, <1>4, <1>6, <1>7, PublishedOnce

LEMMA StepOnce == OnceInv /\ [SystemNext]_Everything => OnceInv'
  <1> SUFFICES ASSUME OnceInv, [SystemNext]_Everything PROVE OnceInv'
    OBVIOUS
  <1>a. AiForm
    BY DEF OnceInv, AiInv
  <1>1. CASE UNCHANGED <<ai, sent>>
    BY <1>1, <1>a, RunsOn DEF AiForm, OnceInv, AiInv
  <1>2. CASE \E q \in LoadRequests : Load(q.model, q.lens)
    <2> PICK q \in LoadRequests : Load(q.model, q.lens)
      BY <1>2
    <2>1. q.model \in Models /\ q.lens \in Lenses
      BY AlertsAssumption
    <2> QED BY <2>1, LoadedOnce DEF Load
  <1>3. CASE StopModel \/ AiDies
    BY <1>3, StoppedOnce DEF StopModel, AiDies
  <1>4. CASE \E snapshots \in BOOLEAN, threshold \in SnapThresholds : SetAiConfig(snapshots, threshold)
    <2> PICK pics \in BOOLEAN, least \in SnapThresholds : SetAiConfig(pics, least)
      BY <1>4
    <2>1. ai' = [ai EXCEPT !.snapshots = pics, !.snapThreshold = least] /\ sent' = sent
      BY DEF SetAiConfig
    <2>2. ai' = [model |-> ai.model, lens |-> ai.lens, tracker |-> ai.tracker, load |-> ai.load,
                 forgot |-> ai.forgot, snapshots |-> pics, snapThreshold |-> least]
      BY <1>a, <2>1 DEF AiForm
    <2>3. AiForm' /\ ai'.model = ai.model /\ ai'.load = ai.load /\ ai'.forgot = ai.forgot
          /\ ai'.tracker = ai.tracker
      BY <2>2 DEF AiForm
    <2> QED BY <2>1, <2>3, RunsOn DEF OnceInv, AiInv
  <1>5. CASE Sample
    BY <1>5, SampleOnce DEF Sample
  <1>6. CASE AlertsTick
    <2> PICK left :
          left = [b \in DOMAIN ai.tracker.buckets |-> Until(ai.tracker.buckets[b], BucketTtl)]
      OBVIOUS
    <2>1. ai' = [ai EXCEPT !.tracker.buckets = left] /\ sent' = sent
      BY <1>6 DEF AlertsTick
    <2> PICK t : t = ai.tracker
      OBVIOUS
    <2>2. t = [next |-> t.next, tracks |-> t.tracks, saved |-> t.saved, buckets |-> t.buckets]
          /\ TrackerOK(t)
      BY DEF OnceInv, AiInv, TrackerOK, IsTracker
    <2>3. ai'.tracker = [next |-> t.next, tracks |-> t.tracks, saved |-> t.saved, buckets |-> left]
      BY <1>a, <2>1, <2>2 DEF AiForm
    <2>4. TrackerOK(ai'.tracker) /\ ai'.tracker.next = t.next /\ ai'.tracker.tracks = t.tracks
          /\ ai'.tracker.saved = t.saved
      BY <2>2, <2>3 DEF TrackerOK, IsTracker
    <2>5. AiForm' /\ ai'.model = ai.model /\ ai'.load = ai.load /\ ai'.forgot = ai.forgot
      BY <1>a, <2>1 DEF AiForm
    <2> QED BY <2>1, <2>4, <2>5, RunsOn
  <1>7. CASE ShowCoords \/ HandleAlert \/ OnAlert \/ \E s \in Subscribers : Dies(s) \/ Starts(s)
    BY <1>1, <1>7 DEF ShowCoords, HandleAlert, OnAlert, Dies, Starts, aiVars
  <1> QED
    BY <1>1, <1>2, <1>3, <1>4, <1>5, <1>6, <1>7
       DEF SystemNext, AlertsNext, Everything, alertsVars, aiVars

(* Nobody is alerted twice for the same offence while he is followed: ids  *)
(* are not given again, saved_violations has all who were alerted and are  *)
(* still followed, and when it is emptied the count forgot says so.        *)
THEOREM NobodyAlertedTwice == SystemSpec => []AlertedOnce
  <1>1. SystemInit => OnceInv
    BY InitOnce
  <1>2. OnceInv /\ [SystemNext]_Everything => OnceInv'
    BY StepOnce
  <1>3. OnceInv => AlertedOnce
    BY DEF OnceInv
  <1> QED BY <1>1, <1>2, <1>3, PTL DEF SystemSpec


----------------------------------------------------------------------------
(* Every detection is followed *)

\* Each of one set has one of the other, and the other way round.
OneToOne(R, A, B) ==
  /\ \A a \in A : \E b \in B : <<a, b>> \in R
  /\ \A b \in B : \E a \in A : <<a, b>> \in R
  /\ \A a1, a2 \in A : \A b1, b2 \in B :
       <<a1, b1>> \in R /\ <<a2, b2>> \in R => (a1 = a2 <=> b1 = b2)

LEMMA SameSize ==
  ASSUME NEW A, NEW B, NEW R, IsFiniteSet(A), OneToOne(R, A, B)
  PROVE  Cardinality(B) = Cardinality(A)
  <1> DEFINE f == [a \in A |-> CHOOSE b \in B : <<a, b>> \in R]
  <1>1. \A a \in A : f[a] \in B /\ <<a, f[a]>> \in R
    BY DEF OneToOne
  <1>2. f \in [A -> B]
    BY <1>1
  <1> HIDE DEF f
  <1>3. f \in Injection(A, B)
    <2>1. \A a1, a2 \in A : f[a1] = f[a2] => a1 = a2
      BY <1>1 DEF OneToOne
    <2> QED BY <1>2, <2>1 DEF Injection, IsInjective
  <1>4. f \in Surjection(A, B)
    <2>1. \A b \in B : \E a \in A : f[a] = b
      BY <1>1 DEF OneToOne
    <2> QED BY <1>2, <2>1 DEF Surjection
  <1>5. ExistsBijection(A, B)
    BY <1>3, <1>4 DEF Bijection, ExistsBijection
  <1> QED BY <1>5, FS_Bijection

\* Fractions are compared by their products.
LEMMA Scaled ==
  ASSUME NEW x \in Int, NEW y \in Int, NEW k \in Int, k > 0
  PROVE  /\ x > y <=> x * k > y * k
         /\ x >= y <=> x * k >= y * k
  OBVIOUS

LEMMA FractionsFollow ==
  ASSUME NEW a \in Int, NEW b \in Int, NEW c \in Int,
         NEW x \in Int, NEW y \in Int, NEW z \in Int, x > 0, y > 0, z > 0,
         a * y >= b * x, b * z >= c * y
  PROVE  /\ a * z >= c * x
         /\ a * y > b * x \/ b * z > c * y => a * z > c * x
  <1>1. (a * y) * z >= (b * x) * z /\ (b * z) * x >= (c * y) * x
    BY Scaled
  <1>2. /\ a * y > b * x => (a * y) * z > (b * x) * z
        /\ b * z > c * y => (b * z) * x > (c * y) * x
    BY Scaled
  <1>3. /\ (a * y) * z = (a * z) * y /\ (b * x) * z = (b * z) * x /\ (c * y) * x = (c * x) * y
    OBVIOUS
  <1>4. (a * z) * y >= (c * x) * y
    BY <1>1, <1>3
  <1>5. a * y > b * x \/ b * z > c * y => (a * z) * y > (c * x) * y
    BY <1>1, <1>2, <1>3
  <1> QED BY <1>4, <1>5, Scaled

\* Boxes have whole areas, so overlaps are compared exactly.
LEMMA AreasAreWhole ==
  ASSUME NEW b \in Boxes, NEW c \in Boxes
  PROVE  Inter(b, c, 0) \in Int /\ Union(b, c, 0) \in Int
  <1>1. /\ b[1] \in Int /\ b[2] \in Int /\ b[3] \in Int /\ b[4] \in Int
        /\ c[1] \in Int /\ c[2] \in Int /\ c[3] \in Int /\ c[4] \in Int
    BY DEF Boxes
  <1>2. \A m, n \in Int : Pos(n) \in Int /\ Lesser(m, n) \in Int /\ Greater(m, n) \in Int
    BY DEF Pos, Lesser, Greater
  <1>3. Inter(b, c, 0) \in Int
    <2> PICK w : w = Lesser(b[3], c[3]) - Greater(b[1], c[1]) + 0
      OBVIOUS
    <2> PICK h : h = Lesser(b[4], c[4]) - Greater(b[2], c[2]) + 0
      OBVIOUS
    <2>1. w \in Int /\ h \in Int
      <3>1. Lesser(b[3], c[3]) \in Int /\ Greater(b[1], c[1]) \in Int
        BY <1>1 DEF Lesser, Greater
      <3>2. Lesser(b[4], c[4]) \in Int /\ Greater(b[2], c[2]) \in Int
        BY <1>1 DEF Lesser, Greater
      <3> QED BY <3>1, <3>2
    <2>2. Pos(w) \in Int /\ Pos(h) \in Int
      BY <1>2, <2>1
    <2>3. Inter(b, c, 0) = Pos(w) * Pos(h)
      BY DEF Inter
    <2> QED BY <2>2, <2>3
  <1>4. \A d \in {b, c} : Area(d, 0) \in Int
    BY <1>1 DEF Area, Wide, High
  <1> QED BY <1>3, <1>4 DEF Union

\* Things with a box of whole coordinates.
Boxed(s) == IsList(s) /\ \A i \in DOMAIN s : s[i].box \in Boxes

\* The pairs that overlap are ordered by how much.
LEMMA PairsOrdered ==
  ASSUME NEW tracks, Boxed(tracks), NEW dets, Boxed(dets), NEW pct, NEW over, NEW before,
         over = OverlapPairs(tracks, dets, pct),
         before = {r \in over \X over : BetterPair(tracks, dets, r[1], r[2])}
  PROVE  IsFiniteSet(over) /\ TotalOrder(before, over)
  <1> DEFINE Over(p) == Inter(tracks[p[1]].box, dets[p[2]].box, 0)
             Under(p) == Union(tracks[p[1]].box, dets[p[2]].box, 0)
  <1>1. /\ Len(tracks) \in Nat /\ DOMAIN tracks = 1..Len(tracks)
        /\ Len(dets) \in Nat /\ DOMAIN dets = 1..Len(dets)
    BY ListFacts DEF Boxed
  <1>2. \A p \in over : /\ p = <<p[1], p[2]>>
                         /\ p[1] \in DOMAIN tracks /\ p[2] \in DOMAIN dets
                         /\ p[1] \in Int /\ p[2] \in Int
    BY <1>1 DEF OverlapPairs
  <1>3. \A p \in over : Over(p) \in Int /\ Under(p) \in Int /\ Under(p) > 0
    <2> TAKE p \in over
    <2>1. tracks[p[1]].box \in Boxes /\ dets[p[2]].box \in Boxes
      BY <1>2 DEF Boxed
    <2>2. Under(p) > 0
      BY DEF OverlapPairs, IouAbove
    <2> QED BY <2>1, <2>2, AreasAreWhole
  <1>4. IsFiniteSet(over)
    <2>1. IsFiniteSet(DOMAIN tracks) /\ IsFiniteSet(DOMAIN dets)
      BY <1>1, FS_Interval
    <2>2. IsFiniteSet((DOMAIN tracks) \X (DOMAIN dets))
      BY <2>1, FS_Product
    <2>3. over \in SUBSET ((DOMAIN tracks) \X (DOMAIN dets))
      BY DEF OverlapPairs
    <2> QED BY <2>2, <2>3, FS_Subset
  <1>5. \A p, q \in over :
          <<p, q>> \in before <=>
            \/ Over(p) * Under(q) > Over(q) * Under(p)
            \/ /\ Over(p) * Under(q) = Over(q) * Under(p)
               /\ p[1] < q[1] \/ (p[1] = q[1] /\ p[2] < q[2])
    BY DEF BetterPair
  <1> HIDE DEF Over, Under
  <1>6. \A p \in over : <<p, p>> \notin before
    BY <1>2, <1>3, <1>5
  <1>7. ASSUME NEW p \in over, NEW q \in over, NEW r \in over,
               <<p, q>> \in before, <<q, r>> \in before
        PROVE  <<p, r>> \in before
    <2>1. Over(p) * Under(q) >= Over(q) * Under(p) /\ Over(q) * Under(r) >= Over(r) * Under(q)
      BY <1>3, <1>5, <1>7
    <2>2. /\ Over(p) * Under(r) >= Over(r) * Under(p)
          /\ Over(p) * Under(q) > Over(q) * Under(p) \/ Over(q) * Under(r) > Over(r) * Under(q)
               => Over(p) * Under(r) > Over(r) * Under(p)
      BY <1>3, <2>1, FractionsFollow
    <2>3. CASE Over(p) * Under(r) > Over(r) * Under(p)
      BY <1>5, <2>3
    <2>4. CASE ~(Over(p) * Under(r) > Over(r) * Under(p))
      <3>1. /\ p[1] < q[1] \/ (p[1] = q[1] /\ p[2] < q[2])
            /\ q[1] < r[1] \/ (q[1] = r[1] /\ q[2] < r[2])
        BY <1>5, <1>7, <2>2, <2>4
      <3>2. p[1] < r[1] \/ (p[1] = r[1] /\ p[2] < r[2])
        BY <1>2, <3>1
      <3>3. Over(p) * Under(r) = Over(r) * Under(p)
        <4>1. Over(p) * Under(r) \in Int /\ Over(r) * Under(p) \in Int
          BY <1>3
        <4> QED BY <2>2, <2>4, <4>1
      <3> QED BY <1>5, <3>2, <3>3
    <2> QED BY <2>3, <2>4
  <1>8. ASSUME NEW p \in over, NEW q \in over, p # q
        PROVE  <<p, q>> \in before \/ <<q, p>> \in before
    <2>1. p[1] # q[1] \/ p[2] # q[2]
      BY <1>2, <1>8
    <2>2. Over(p) * Under(q) \in Int /\ Over(q) * Under(p) \in Int
      BY <1>3
    <2> QED BY <1>2, <1>5, <2>1, <2>2
  <1> QED BY <1>4, <1>6, <1>7, <1>8 DEF TotalOrder, StrictOrder

\* Pairs of two sets' members, none of them in two.
IsMatching(pairs, A, B) ==
  /\ \A p \in pairs : p = <<p[1], p[2]>> /\ p[1] \in A /\ p[2] \in B
  /\ \A p, q \in pairs : p[1] = q[1] <=> p[2] = q[2]

\* No track and no detection is in two pairs, and pairs are of tracks and detections.
LEMMA PairsMatch ==
  ASSUME NEW tracks, Boxed(tracks), NEW dets, Boxed(dets), NEW pct,
         NEW pairs, pairs = Pairs(tracks, dets, pct)
  PROVE  IsMatching(pairs, DOMAIN tracks, DOMAIN dets)
  <1> PICK over : over = OverlapPairs(tracks, dets, pct)
    OBVIOUS
  <1> PICK before : before = {r \in over \X over : BetterPair(tracks, dets, r[1], r[2])}
    OBVIOUS
  <1> PICK beats : beats = {r \in over \X over :
                              Contend(r[1], r[2]) /\ BetterPair(tracks, dets, r[1], r[2])}
    OBVIOUS
  <1>1. pairs = Greedy(over, beats)
    BY DEF Pairs
  <1>2. IsFiniteSet(over) /\ TotalOrder(before, over)
    BY PairsOrdered
  <1>3. beats \subseteq before
    OBVIOUS
  <1>4. pairs \in SUBSET over /\ Greedily(over, beats, pairs)
    BY <1>1, <1>2, <1>3, GreedyIs
  <1>5. over \subseteq (DOMAIN tracks) \X (DOMAIN dets)
    BY DEF OverlapPairs
  <1>6. \A p, q \in pairs : <<p, q>> \notin beats
    <2> TAKE p \in pairs, q \in pairs
    <2>1. ~\E r \in pairs : <<r, q>> \in beats
      BY <1>4 DEF Greedily
    <2> QED BY <2>1
  <1>7. \A p, q \in pairs : p # q => ~Contend(p, q)
    <2> SUFFICES ASSUME NEW p \in pairs, NEW q \in pairs, p # q, Contend(p, q) PROVE FALSE
      OBVIOUS
    <2>1. <<p, q>> \in before \/ <<q, p>> \in before
      BY <1>2, <1>4 DEF TotalOrder
    <2>2. <<p, q>> \in beats \/ <<q, p>> \in beats
      BY <1>4, <2>1 DEF Contend
    <2> QED BY <1>6, <2>2
  <1>8. \A p, q \in pairs : p = q <=> p[1] = q[1] /\ p[2] = q[2]
    BY <1>4, <1>5
  <1>9. \A p, q \in pairs : p[1] = q[1] <=> p[2] = q[2]
    BY <1>7, <1>8 DEF Contend
  <1> QED BY <1>4, <1>5, <1>9 DEF IsMatching

\* The tracks after the pairing.
Paired(tracks, dets, pairs) ==
  [i \in DOMAIN tracks |-> IF PartnerOf(pairs, i) = {} THEN Missed(tracks[i])
                           ELSE Follow(tracks[i], dets[Max(PartnerOf(pairs, i))])]

\* A track is where its detection is, or was missed once more.
Moves(tracks, dets, pairs, moved) ==
  \A i \in DOMAIN tracks :
    \/ /\ \A p \in pairs : p[1] # i
       /\ moved[i].box = tracks[i].box /\ moved[i].gone = tracks[i].gone + 1
    \/ \E j \in DOMAIN dets :
         <<i, j>> \in pairs /\ moved[i].box = dets[j].box /\ moved[i].gone = 0

LEMMA MovedIs ==
  ASSUME NEW tracks, NEW dets, NEW pairs, NEW moved, \A j \in DOMAIN dets : j \in Int,
         IsMatching(pairs, DOMAIN tracks, DOMAIN dets),
         \A i \in DOMAIN tracks : IsTrack(tracks[i]), moved = Paired(tracks, dets, pairs)
  PROVE  Moves(tracks, dets, pairs, moved)
  <1> USE DEF Paired, IsMatching
  <1> SUFFICES ASSUME NEW i \in DOMAIN tracks
               PROVE  \/ /\ \A p \in pairs : p[1] # i
                         /\ moved[i].box = tracks[i].box /\ moved[i].gone = tracks[i].gone + 1
                      \/ \E j \in DOMAIN dets :
                           <<i, j>> \in pairs /\ moved[i].box = dets[j].box /\ moved[i].gone = 0
    BY DEF Moves
  <1> PICK k : k = tracks[i]
    OBVIOUS
  <1>1. k = [tid |-> k.tid, box |-> k.box, gone |-> k.gone, hist |-> k.hist]
    BY DEF IsTrack
  <1>2. CASE \A p \in pairs : p[1] # i
    <2>1. PartnerOf(pairs, i) = {}
      BY <1>2 DEF PartnerOf
    <2>2. moved[i] = Missed(k)
      BY <2>1
    <2>3. Missed(k) = [tid |-> k.tid, box |-> k.box, gone |-> k.gone + 1, hist |-> k.hist]
      BY <1>1 DEF Missed
    <2> QED BY <1>2, <2>2, <2>3
  <1>3. CASE \E p \in pairs : p[1] = i
    <2> PICK p \in pairs : p[1] = i
      BY <1>3
    <2> PICK j \in DOMAIN dets : j = p[2]
      OBVIOUS
    <2>1. PartnerOf(pairs, i) = {j}
      BY DEF PartnerOf
    <2>2. Max({j}) = j
      BY DEF Max
    <2>3. moved[i] = Follow(k, dets[j])
      BY <2>1, <2>2
    <2>4. Follow(k, dets[j]).box = dets[j].box /\ Follow(k, dets[j]).gone = 0
      <3> PICK hist : hist = LastOf(Append(k.hist, dets[j]), Smoothing)
        OBVIOUS
      <3> PICK d : d = dets[j]
        OBVIOUS
      <3>1. Follow(k, d) = [k EXCEPT !.box = d.box, !.gone = 0, !.hist = hist]
        BY DEF Follow
      <3>2. Follow(k, d) = [tid |-> k.tid, box |-> d.box, gone |-> 0, hist |-> hist]
        BY <1>1, <3>1
      <3> QED BY <3>2
    <2>5. p = <<i, j>>
      OBVIOUS
    <2> QED BY <2>3, <2>4, <2>5
  <1> QED BY <1>2, <1>3

\* The marks are the tracks that were kept, then one for each new detection.
Joins(marks, kept, new) ==
  /\ DOMAIN marks = 1..(Len(kept) + Len(new))
  /\ \A i \in 1..Len(kept) : marks[i] = kept[i]
  /\ \A k \in 1..Len(new) :
       marks[Len(kept) + k].box = new[k].box /\ marks[Len(kept) + k].gone = 0

LEMMA RegisteredBoxes ==
  ASSUME NEW t, IsTracker(t), NEW tracks, IsList(tracks), NEW new, IsList(new),
         NEW u, u = Registered(t, tracks, new)
  PROVE  IsList(u.tracks) /\ Joins(u.tracks, tracks, new)
  <1> PICK added : added = [k \in DOMAIN new |-> Track(t.next + k - 1, new[k])]
    OBVIOUS
  <1>1. /\ Len(new) \in Nat /\ DOMAIN new = 1..Len(new)
        /\ Len(tracks) \in Nat /\ DOMAIN tracks = 1..Len(tracks)
    BY ListFacts
  <1>2. added = [k \in DOMAIN new |-> added[k]]
    OBVIOUS
  <1>3. IsList(added) /\ Len(added) = Len(new) /\ DOMAIN added = DOMAIN new
    BY <1>2, MappedList
  <1>4. \A k \in 1..Len(new) : added[k].box = new[k].box /\ added[k].gone = 0
    BY <1>1 DEF Track
  <1> PICK joined : joined = tracks \o added
    OBVIOUS
  <1>5. u.tracks = joined
    <2>1. u = [t EXCEPT !.next = @ + Len(new), !.tracks = joined]
      BY DEF Registered
    <2>2. t = [next |-> t.next, tracks |-> t.tracks, saved |-> t.saved, buckets |-> t.buckets]
      BY DEF IsTracker
    <2> QED BY ONLY <2>1, <2>2
  <1>6. /\ IsList(joined) /\ Len(joined) = Len(tracks) + Len(added)
        /\ \A i \in 1..Len(joined) :
             joined[i] = IF i <= Len(tracks) THEN tracks[i] ELSE added[i - Len(tracks)]
    BY <1>3, JoinedIs
  <1>7. DOMAIN joined = 1..(Len(tracks) + Len(new))
    BY <1>3, <1>6, ListFacts
  <1>8. \A i \in 1..Len(tracks) : joined[i] = tracks[i]
    BY ONLY <1>1, <1>3, <1>6
  <1>9. \A k \in 1..Len(new) : joined[Len(tracks) + k] = added[k]
    <2> TAKE k \in 1..Len(new)
    <2>1. Len(tracks) + k \in 1..Len(joined) /\ ~(Len(tracks) + k <= Len(tracks))
          /\ Len(tracks) + k - Len(tracks) = k
      BY ONLY <1>1, <1>3, <1>6, k \in 1..Len(new)
    <2> QED BY <1>6, <2>1
  <1>10. \A k \in 1..Len(new) :
           joined[Len(tracks) + k].box = new[k].box /\ joined[Len(tracks) + k].gone = 0
    BY <1>4, <1>9
  <1>11. Joins(joined, tracks, new)
    BY ONLY <1>7, <1>8, <1>10 DEF Joins
  <1> QED BY ONLY <1>5, <1>6, <1>11

\* Tracks with a box of whole coordinates and a count of the frames they were missed in.
Placed(tracks) == \A i \in DOMAIN tracks : tracks[i].box \in Boxes /\ tracks[i].gone \in Nat

\* What the tracks T are after the pairing; those that were seen are among the kept.
Settles(T, dets, pairs, moved, C) ==
  \A i \in T :
    /\ moved[i].box \in Boxes /\ moved[i].gone \in Nat
    /\ moved[i].gone = 0 => i \in C /\ \E j \in DOMAIN dets : <<i, j>> \in pairs
    /\ \A j \in DOMAIN dets :
         <<i, j>> \in pairs => moved[i].gone = 0 /\ moved[i].box = dets[j].box

Unmet(U, pairs, dets) ==
  U \subseteq DOMAIN dets /\ \A j \in DOMAIN dets : j \in U <=> \A p \in pairs : p[2] # j

\* The tracks seen in this frame.
Shows(marks) == {k \in DOMAIN marks : marks[k].gone = 0}

\* Each detection has one of those of its own, where it is, and there is no other.
EachOnce(F, marks, dets) ==
  \E R : /\ OneToOne(R, F, DOMAIN dets)
        /\ \A k \in F : \A j \in DOMAIN dets : <<k, j>> \in R => marks[k].box = dets[j].box

\* The marks are those of the tracks that were kept and of the new ones: each detection
\* has one of its own that was seen in this frame, where it is.
LEMMA Matched ==
  ASSUME NEW T, NEW moved, NEW C, C \subseteq T, NEW kept, Holds(kept, moved, C),
         NEW dets, Boxed(dets), NEW U, NEW new, Holds(new, dets, U), NEW pairs,
         Settles(T, dets, pairs, moved, C), Unmet(U, pairs, dets), IsMatching(pairs, T, DOMAIN dets),
         NEW marks, Joins(marks, kept, new),
         NEW F, F = Shows(marks)
  PROVE  Placed(marks) /\ EachOnce(F, marks, dets)
  <1> PICK n : n = Len(kept)
    OBVIOUS
  <1> PICK m : m = Len(new)
    OBVIOUS
  <1> USE DEF Settles, Unmet, IsMatching, Shows
  <1> PICK e \in Bijection(1..n, C) : \A k \in 1..n : kept[k] = moved[e[k]]
    BY DEF Holds
  <1> PICK h \in Bijection(1..m, U) : \A k \in 1..m : new[k] = dets[h[k]]
    BY DEF Holds
  <1>11. n \in Nat /\ m \in Nat
    BY HoldsFacts
  <1>12. /\ DOMAIN marks = 1..(n + m)
         /\ \A i \in 1..n : marks[i] = kept[i]
         /\ \A k \in 1..m : marks[n + k].box = new[k].box /\ marks[n + k].gone = 0
    BY DEF Joins
  <1>13. /\ \A k \in 1..n : e[k] \in C
         /\ \A k, l \in 1..n : e[k] = e[l] => k = l
         /\ \A i \in C : \E k \in 1..n : e[k] = i
    BY DEF Bijection, Injection, Surjection, IsInjective
  <1>14. /\ \A k \in 1..m : h[k] \in U
         /\ \A k, l \in 1..m : h[k] = h[l] => k = l
         /\ \A j \in U : \E k \in 1..m : h[k] = j
    BY DEF Bijection, Injection, Surjection, IsInjective
  <1>15. \A k \in DOMAIN marks : k \in 1..n \/ (k \notin 1..n /\ k - n \in 1..m /\ k = n + (k - n))
    BY ONLY <1>11, <1>12
  <1>16. \A k \in 1..m : n + k \in DOMAIN marks /\ n + k \notin 1..n /\ (n + k) - n = k
    BY ONLY <1>11, <1>12
  <1>17. \A k \in 1..n : k \in DOMAIN marks
    BY ONLY <1>11, <1>12
  <1>18. Placed(marks)
    <2> SUFFICES ASSUME NEW k \in DOMAIN marks
                 PROVE  marks[k].box \in Boxes /\ marks[k].gone \in Nat
      BY DEF Placed
    <2>1. CASE k \in 1..n
      BY <1>12, <1>13, <2>1
    <2>2. CASE k \notin 1..n
      <3> PICK l \in 1..m : k = n + l
        BY <1>15, <2>2
      <3>1. marks[k].box = new[l].box /\ marks[k].gone = 0
        BY <1>12
      <3>2. new[l].box \in Boxes
        BY <1>14 DEF Boxed
      <3> QED BY <3>1, <3>2
    <2> QED BY <2>1, <2>2
  <1> DEFINE Old(k, j) == k \in 1..n /\ <<e[k], j>> \in pairs
             New(k, j) == k \notin 1..n /\ h[k - n] = j
  <1> PICK R : R = {r \in F \X DOMAIN dets : Old(r[1], r[2]) \/ New(r[1], r[2])}
    OBVIOUS
  <1>19. \A k \in F : \A j \in DOMAIN dets : <<k, j>> \in R <=> Old(k, j) \/ New(k, j)
    OBVIOUS
  <1>20. ASSUME NEW k \in F PROVE \E j \in DOMAIN dets : Old(k, j) \/ New(k, j)
    <2>1. CASE k \in 1..n
      <3>1. moved[e[k]].gone = 0 /\ e[k] \in T
        BY <1>12, <1>13, <2>1
      <3> QED BY <2>1, <3>1
    <2>2. CASE k \notin 1..n
      <3>1. k - n \in 1..m
        BY <1>15, <2>2
      <3>2. h[k - n] \in DOMAIN dets
        BY <1>14, <3>1
      <3> QED BY <2>2, <3>2
    <2> QED BY <2>1, <2>2
  <1>21. ASSUME NEW j \in DOMAIN dets PROVE \E k \in F : Old(k, j) \/ New(k, j)
    <2>1. CASE \E p \in pairs : p[2] = j
      <3> PICK p \in pairs : p[2] = j
        BY <2>1
      <3> PICK i \in T : i = p[1]
        OBVIOUS
      <3>1. <<i, j>> \in pairs
        OBVIOUS
      <3>2. moved[i].gone = 0 /\ i \in C
        BY <3>1
      <3> PICK k \in 1..n : e[k] = i
        BY <1>13, <3>2
      <3>3. marks[k].gone = 0 /\ k \in DOMAIN marks
        BY <1>12, <1>17, <3>2
      <3> QED BY <3>1, <3>3
    <2>2. CASE j \in U
      <3> PICK k \in 1..m : h[k] = j
        BY <1>14, <2>2
      <3>1. n + k \in F
        BY <1>12, <1>16
      <3>2. New(n + k, j)
        BY <1>16
      <3> QED BY <3>1, <3>2
    <2> QED BY <2>1, <2>2
  <1>22. ASSUME NEW k1 \in F, NEW k2 \in F, NEW j1 \in DOMAIN dets, NEW j2 \in DOMAIN dets,
                Old(k1, j1) \/ New(k1, j1), Old(k2, j2) \/ New(k2, j2)
         PROVE  k1 = k2 <=> j1 = j2
    <2>1. CASE Old(k1, j1) /\ Old(k2, j2)
      <3>1. e[k1] = e[k2] <=> j1 = j2
        BY <2>1
      <3> QED BY <1>13, <2>1, <3>1
    <2>2. CASE New(k1, j1) /\ New(k2, j2)
      <3>1. k1 - n \in 1..m /\ k2 - n \in 1..m /\ k1 = n + (k1 - n) /\ k2 = n + (k2 - n)
        BY <1>15, <2>2
      <3> QED BY <1>14, <2>2, <3>1
    <2>3. \A k, l \in F : \A i, j \in DOMAIN dets : Old(k, i) /\ New(l, j) => k # l /\ i # j
      <3> SUFFICES ASSUME NEW k \in F, NEW l \in F, NEW i \in DOMAIN dets, NEW j \in DOMAIN dets,
                          Old(k, i), New(l, j)
                   PROVE  k # l /\ i # j
        OBVIOUS
      <3>1. l - n \in 1..m
        BY <1>15
      <3>2. j \in U
        BY <1>14, <3>1
      <3>3. <<e[k], i>> \in pairs /\ <<e[k], i>>[2] = i
        OBVIOUS
      <3> QED BY <3>2, <3>3
    <2> QED BY <1>22, <2>1, <2>2, <2>3
  <1>23. ASSUME NEW k \in F, NEW j \in DOMAIN dets, Old(k, j) \/ New(k, j)
         PROVE  marks[k].box = dets[j].box
    <2>1. CASE Old(k, j)
      BY <1>12, <1>13, <2>1
    <2>2. CASE New(k, j)
      <3> PICK l \in 1..m : k = n + l /\ l = k - n
        BY <1>15, <2>2
      <3>1. marks[k].box = new[l].box
        BY <1>12
      <3> QED BY <2>2, <3>1
    <2> QED BY <1>23, <2>1, <2>2
  <1> HIDE DEF Old, New
  <1>24. OneToOne(R, F, DOMAIN dets)
    BY <1>19, <1>20, <1>21, <1>22 DEF OneToOne
  <1>25. \A k \in F : \A j \in DOMAIN dets : <<k, j>> \in R => marks[k].box = dets[j].box
    BY <1>19, <1>23
  <1>26. EachOnce(F, marks, dets)
    BY ONLY <1>24, <1>25 DEF EachOnce
  <1> QED BY ONLY <1>18, <1>26

\* Each detection has a track of its own that was seen in this frame, where it is, and
\* no other track was seen.
LEMMA StableFollows ==
  ASSUME NEW t, TrackerOK(t), Placed(t.tracks), NEW dets, Boxed(dets), NEW pct, NEW gone \in Nat,
         NEW u, u = StableUpdate(t, dets, pct, gone)
  PROVE  IsList(u.tracks) /\ Placed(u.tracks) /\ EachOnce(Shows(u.tracks), u.tracks, dets)
  <1> PICK tracks : tracks = t.tracks
    OBVIOUS
  <1> PICK pairs : pairs = Pairs(tracks, dets, pct)
    OBVIOUS
  <1> PICK moved : moved = Paired(tracks, dets, pairs)
    OBVIOUS
  <1> PICK C : C = {i \in DOMAIN moved : moved[i].gone <= gone}
    OBVIOUS
  <1> PICK kept : kept = Picked(moved, C)
    OBVIOUS
  <1> PICK U : U = {j \in DOMAIN dets : \A p \in pairs : p[2] # j}
    OBVIOUS
  <1> PICK new : new = Picked(dets, U)
    OBVIOUS
  <1>1. u = Registered(t, kept, new)
    BY DEF StableUpdate, Remaining, Unpaired, Paired
  <1>2. /\ IsList(tracks) /\ IsList(dets) /\ Boxed(tracks) /\ Len(dets) \in Nat
        /\ DOMAIN dets = 1..Len(dets) /\ DOMAIN moved = DOMAIN tracks
    BY ListFacts DEF TrackerOK, TracksOK, Placed, Boxed, Paired
  <1>3. IsMatching(pairs, DOMAIN tracks, DOMAIN dets)
    BY <1>2, PairsMatch
  <1>4. /\ \A i \in DOMAIN tracks : IsTrack(tracks[i]) /\ tracks[i].gone \in Nat
        /\ \A j \in DOMAIN dets : j \in Int
    BY <1>2 DEF TrackerOK, TracksOK, Placed
  <1>5. Moves(tracks, dets, pairs, moved)
    BY ONLY <1>3, <1>4, MovedIs, moved = Paired(tracks, dets, pairs)
  <1>6. Settles(DOMAIN tracks, dets, pairs, moved, C)
    <2> SUFFICES ASSUME NEW i \in DOMAIN tracks
                 PROVE  /\ moved[i].box \in Boxes /\ moved[i].gone \in Nat
                        /\ moved[i].gone = 0 => \E j \in DOMAIN dets : <<i, j>> \in pairs
                        /\ \A j \in DOMAIN dets :
                             <<i, j>> \in pairs => moved[i].gone = 0 /\ moved[i].box = dets[j].box
      BY <1>2 DEF Settles
    <2> USE DEF IsMatching, Moves
    <2>1. CASE /\ \A p \in pairs : p[1] # i
               /\ moved[i].box = tracks[i].box /\ moved[i].gone = tracks[i].gone + 1
      <3>1. moved[i].box \in Boxes
        BY <2>1 DEF Placed
      <3>2. moved[i].gone \in Nat /\ moved[i].gone # 0
        BY ONLY <1>4, <2>1, i \in DOMAIN tracks
      <3>3. \A j \in DOMAIN dets : <<i, j>> \notin pairs
        BY <2>1
      <3> QED BY <3>1, <3>2, <3>3
    <2>2. CASE \E j \in DOMAIN dets :
                 <<i, j>> \in pairs /\ moved[i].box = dets[j].box /\ moved[i].gone = 0
      <3> PICK j \in DOMAIN dets :
                 <<i, j>> \in pairs /\ moved[i].box = dets[j].box /\ moved[i].gone = 0
        BY <2>2
      <3>1. \A k \in DOMAIN dets : <<i, k>> \in pairs => k = j
        BY <1>3
      <3>2. moved[i].box \in Boxes
        BY DEF Boxed
      <3> QED BY <3>1, <3>2
    <2> QED BY <1>5, <2>1, <2>2 DEF Moves
  <1>7. moved = [i \in DOMAIN tracks |-> moved[i]]
    BY DEF Paired
  <1>8. IsList(moved)
    BY <1>2, <1>7, MappedList
  <1>9. Holds(kept, moved, C)
    BY <1>8, PickedList
  <1>10. Holds(new, dets, U)
    BY <1>2, PickedList
  <1>11. /\ IsList(kept) /\ IsList(new) /\ IsTracker(t)
         /\ DOMAIN kept = 1..Len(kept) /\ DOMAIN new = 1..Len(new)
         /\ Len(kept) \in Nat /\ Len(new) \in Nat
    BY <1>9, <1>10, ListFacts DEF Holds, TrackerOK
  <1>12. IsList(u.tracks) /\ Joins(u.tracks, kept, new)
    BY ONLY <1>1, <1>11, RegisteredBoxes
  <1>13. C \subseteq DOMAIN tracks
    BY <1>2
  <1>14. Unmet(U, pairs, dets)
    BY DEF Unmet
  <1> PICK marks : marks = u.tracks
    OBVIOUS
  <1>15. Placed(marks) /\ EachOnce(Shows(marks), marks, dets)
    BY ONLY <1>3, <1>6, <1>9, <1>10, <1>12, <1>13, <1>14, Matched, Boxed(dets), marks = u.tracks
  <1> QED BY ONLY <1>12, <1>15, marks = u.tracks

\* What is shown of the tracks is what was detected.
LEMMA SeenOnce ==
  ASSUME NEW u, TrackerOK(u), NEW dets, IsList(dets), EachOnce(Shows(u.tracks), u.tracks, dets)
  PROVE  /\ {k.box : k \in ToSet(Seen(u))} = {d.box : d \in ToSet(dets)}
         /\ Len(Seen(u)) = Len(dets)
         /\ Cardinality(Tids(u.tracks)) = Len(u.tracks)
         /\ \A k \in ToSet(u.tracks) : k.tid < u.next
  <1> PICK marks : marks = u.tracks
    OBVIOUS
  <1> PICK seen : seen = Seen(u)
    OBVIOUS
  <1> PICK F : F = Shows(marks)
    OBVIOUS
  <1>1. IsList(marks) /\ DOMAIN marks = 1..Len(marks) /\ Len(marks) \in Nat
    BY ListFacts DEF TrackerOK, TracksOK
  <1>2. F \subseteq DOMAIN marks /\ seen = Picked(marks, F)
    BY DEF Shows, Seen
  <1>3. Holds(seen, marks, F)
    BY <1>1, <1>2, PickedList
  <1>4. DOMAIN dets = 1..Len(dets) /\ Len(dets) \in Nat
    BY ListFacts
  <1> PICK R : /\ OneToOne(R, F, DOMAIN dets)
              /\ \A k \in F : \A j \in DOMAIN dets : <<k, j>> \in R => marks[k].box = dets[j].box
    BY DEF EachOnce
  <1>5. IsFiniteSet(DOMAIN marks) /\ Cardinality(DOMAIN marks) = Len(marks)
    BY <1>1, FS_Interval
  <1>6. IsFiniteSet(F)
    BY <1>2, <1>5, FS_Subset
  <1>7. Cardinality(DOMAIN dets) = Len(dets)
    <2> PICK n \in Nat : n = Len(dets)
      BY <1>4
    <2>1. Cardinality(1..n) = n
      BY ONLY FS_Interval, n \in Nat
    <2> QED BY ONLY <1>4, <2>1, n = Len(dets)
  <1>8. Len(seen) = Len(dets)
    BY <1>3, <1>6, <1>7, SameSize DEF Holds
  <1>9. /\ \A k \in DOMAIN seen : \E i \in F : seen[k] = marks[i]
        /\ \A i \in F : \E k \in DOMAIN seen : seen[k] = marks[i]
    BY <1>3, HoldsFacts
  <1>10. /\ \A k \in DOMAIN seen : \E j \in DOMAIN dets : seen[k].box = dets[j].box
         /\ \A j \in DOMAIN dets : \E k \in DOMAIN seen : seen[k].box = dets[j].box
    <2>1. /\ \A i \in F : \E j \in DOMAIN dets : marks[i].box = dets[j].box
          /\ \A j \in DOMAIN dets : \E i \in F : marks[i].box = dets[j].box
      BY DEF OneToOne
    <2> QED BY ONLY <1>9, <2>1
  <1>11. ToSet(seen) = {seen[k] : k \in DOMAIN seen} /\ ToSet(dets) = {dets[k] : k \in DOMAIN dets}
    BY DEF ToSet
  <1>12. {k.box : k \in ToSet(seen)} = {d.box : d \in ToSet(dets)}
    BY ONLY <1>10, <1>11
  <1>13. Cardinality(Tids(marks)) = Len(marks)
    <2> PICK S : S = {<<i, marks[i].tid>> : i \in DOMAIN marks}
      OBVIOUS
    <2>1. \A i, j \in DOMAIN marks : marks[i].tid = marks[j].tid => i = j
      BY DEF TrackerOK, TracksOK, Distinct
    <2>2. OneToOne(S, DOMAIN marks, Tids(marks))
      BY <2>1 DEF OneToOne, Tids
    <2> QED BY <1>5, <2>2, SameSize
  <1>14. \A k \in ToSet(marks) : k.tid < u.next
    BY DEF TrackerOK, TracksOK, ToSet
  <1> QED BY <1>8, <1>12, <1>13, <1>14

\* What a network finds has boxes of whole coordinates.
LEMMA HelmetsBoxed ==
  ASSUME NEW frame \in Frames
  PROVE  Boxed(HelmetsIn[frame])
  <1> PICK kept : kept = Nms(Passing(frame), 0)
    OBVIOUS
  <1> PICK found : found = HelmetDetections(frame)
    OBVIOUS
  <1>1. /\ IsList(kept)
        /\ \A k \in DOMAIN kept : \E i \in DOMAIN Passing(frame) : kept[k] = Passing(frame)[i]
    BY PassingSure, NmsList DEF Sure
  <1>2. \A k \in DOMAIN kept : kept[k] \in Candidates
    BY <1>1, PassingSure
  <1>3. found = [i \in DOMAIN kept |-> WithBox(kept[i], Clipped(kept[i].box))]
    BY DEF HelmetDetections
  <1>4. found = [i \in DOMAIN kept |-> found[i]]
    BY <1>3
  <1>5. IsList(found) /\ DOMAIN found = DOMAIN kept
    BY <1>1, <1>4, MappedList
  <1>6. \A b \in Boxes : Clipped(b) \in Boxes
    <2> TAKE b \in Boxes
    <2>1. b[1] \in Int /\ b[2] \in Int /\ b[3] \in Int /\ b[4] \in Int
      BY DEF Boxes
    <2>2. Width \in Int /\ Height \in Int
      BY FrameAssumption
    <2>3. Pos(b[1]) \in Int /\ Pos(b[2]) \in Int /\ Lesser(Width, b[3]) \in Int
          /\ Lesser(Height, b[4]) \in Int
      BY ONLY <2>1, <2>2 DEF Pos, Lesser
    <2> QED BY <2>3 DEF Clipped, Boxes
  <1>7. ASSUME NEW d \in Candidates, NEW b \in Boxes
        PROVE  WithBox(d, b).box = b
    BY DEF WithBox, Candidates
  <1>8. \A i \in DOMAIN found : found[i].box \in Boxes
    <2> TAKE i \in DOMAIN found
    <2> PICK d : d = kept[i]
      OBVIOUS
    <2>1. d \in Candidates /\ d.box \in Boxes
      BY <1>2, <1>5 DEF Candidates
    <2> PICK b \in Boxes : b = Clipped(d.box)
      BY <1>6, <2>1
    <2>2. found[i] = WithBox(d, b)
      BY <1>3, <1>5
    <2> QED BY <1>7, <2>1, <2>2
  <1>9. HelmetsIn[frame] = found
    BY DEF HelmetsIn
  <1> QED BY <1>5, <1>8, <1>9 DEF Boxed

LEMMA HeldBoxed ==
  ASSUME NEW p, NEW s, Boxed(s), NEW chosen, chosen \subseteq DOMAIN s, Holds(p, s, chosen)
  PROVE  Boxed(p)
  <1>1. IsList(p)
    BY DEF Holds
  <1>2. \A k \in DOMAIN p : \E i \in chosen : p[k] = s[i]
    BY ONLY HoldsFacts, Holds(p, s, chosen)
  <1> QED BY ONLY <1>1, <1>2, Boxed(s), chosen \subseteq DOMAIN s DEF Boxed

\* A finite set of numbers has a least and a greatest.
LEMMA Extremes ==
  ASSUME NEW S, S \subseteq Int, IsFiniteSet(S), S # {}
  PROVE  Min(S) \in Int /\ Max(S) \in Int
  <1>1. Max(S) \in S
    <2> DEFINE rising == {p \in S \X S : p[1] < p[2]}
    <2>1. \A x, y \in S : <<x, y>> \in rising <=> x < y
      OBVIOUS
    <2> HIDE DEF rising
    <2>2. TotalOrder(rising, S)
      BY <2>1 DEF TotalOrder, StrictOrder
    <2> PICK m \in S : \A x \in S : <<m, x>> \notin rising
      BY <2>2, LastItem
    <2>3. \A x \in S : m >= x
      <3> TAKE x \in S
      <3>1. m \in Int /\ x \in Int
        OBVIOUS
      <3>2. <<m, x>> \notin rising
        OBVIOUS
      <3>3. ~(m < x)
        BY ONLY <2>1, <3>2, m \in S, x \in S
      <3> QED BY ONLY <3>1, <3>3
    <2> QED BY <2>3 DEF Max
  <1>2. Min(S) \in S
    <2> DEFINE falling == {p \in S \X S : p[1] > p[2]}
    <2>1. \A x, y \in S : <<x, y>> \in falling <=> x > y
      OBVIOUS
    <2> HIDE DEF falling
    <2>2. TotalOrder(falling, S)
      BY <2>1 DEF TotalOrder, StrictOrder
    <2> PICK m \in S : \A x \in S : <<m, x>> \notin falling
      BY <2>2, LastItem
    <2>3. \A x \in S : m <= x
      <3> TAKE x \in S
      <3>1. m \in Int /\ x \in Int
        OBVIOUS
      <3>2. <<m, x>> \notin falling
        OBVIOUS
      <3>3. ~(m > x)
        BY ONLY <2>1, <3>2, m \in S, x \in S
      <3> QED BY ONLY <3>1, <3>3
    <2> QED BY <2>3 DEF Min
  <1> QED BY <1>1, <1>2

LEMMA UnionBoxed ==
  ASSUME NEW boxes, boxes \subseteq Boxes, IsFiniteSet(boxes), boxes # {}
  PROVE  UnionBox(boxes) \in Boxes
  <1>1. \A k \in 1..4 : Edge(boxes, k) \subseteq Int /\ Edge(boxes, k) # {}
    BY DEF Edge, Boxes
  <1>2. ASSUME NEW k \in 1..4 PROVE IsFiniteSet(Edge(boxes, k))
    <2> PICK f : f = [b \in boxes |-> b[k]]
      OBVIOUS
    <2>1. Edge(boxes, k) = {f[b] : b \in boxes}
      BY DEF Edge
    <2>2. f \in Surjection(boxes, Edge(boxes, k))
      BY <2>1 DEF Surjection
    <2> QED BY <2>2, FS_Surjection
  <1>3. /\ Min(Edge(boxes, 1)) \in Int /\ Min(Edge(boxes, 2)) \in Int
        /\ Max(Edge(boxes, 3)) \in Int /\ Max(Edge(boxes, 4)) \in Int
    BY <1>1, <1>2, Extremes
  <1> QED BY <1>3 DEF UnionBox, Boxes

LEMMA GroupsBoxed ==
  ASSUME NEW frame \in Frames
  PROVE  Boxed(GroupsIn[frame])
  <1> PICK raw : raw = HelmetDetections(frame)
    OBVIOUS
  <1> PICK cycles : cycles = OfClass(raw, Motorcycle)
    OBVIOUS
  <1> PICK mcs : mcs = Arranged(raw, cycles, Larger(raw))
    OBVIOUS
  <1> PICK persons : persons = Picked(raw, OfClass(raw, Person))
    OBVIOUS
  <1> PICK found : found = Picked([m \in DOMAIN mcs |-> m],
                      {m \in DOMAIN mcs : IsViolation(mcs[m], Riders(mcs, persons, m))})
    OBVIOUS
  <1> PICK groups : groups = GroupsIn[frame]
    OBVIOUS
  <1>1. Boxed(raw)
    BY HelmetsBoxed DEF HelmetsIn
  <1>2. Boxed(persons)
    <2>1. OfClass(raw, Person) \subseteq DOMAIN raw
      BY DEF OfClass
    <2>2. Holds(persons, raw, OfClass(raw, Person))
      BY <1>1, <2>1, PickedList DEF Boxed
    <2> QED BY ONLY <1>1, <2>1, <2>2, HeldBoxed
  <1>3. Boxed(mcs)
    <2>1. cycles \subseteq DOMAIN raw
      BY DEF OfClass
    <2>2. DOMAIN raw = 1..Len(raw) /\ Len(raw) \in Nat
      BY <1>1, ListFacts DEF Boxed
    <2>3. IsFiniteSet(cycles)
      <3>1. IsFiniteSet(DOMAIN raw)
        BY <2>2, FS_Interval
      <3> QED BY <2>1, <3>1, FS_Subset
    <2> DEFINE Size(i) == Area(raw[i].box, 0)
    <2>4. \A i \in DOMAIN raw : Size(i) \in Int
      <3>1. \A b \in Boxes : Area(b, 0) \in Int
        BY DEF Boxes, Area, Wide, High
      <3> QED BY <1>1, <3>1 DEF Boxed
    <2>5. \A i, j \in DOMAIN raw :
            <<i, j>> \in Larger(raw) <=> Size(i) > Size(j) \/ (Size(i) = Size(j) /\ i < j)
      BY DEF Larger
    <2> HIDE DEF Size
    <2>6. TotalOrder(Larger(raw), DOMAIN raw)
      BY ONLY <2>2, <2>4, <2>5 DEF TotalOrder, StrictOrder
    <2>7. TotalOrder(Larger(raw), cycles)
      BY <2>1, <2>6, SubOrder
    <2>8. Holds(mcs, raw, cycles)
      BY <2>3, <2>7, ArrangedIs
    <2> QED BY ONLY <1>1, <2>1, <2>8, HeldBoxed
  <1>4. IsList(groups)
    BY GroupsList
  <1>5. groups = [k \in DOMAIN found |-> Reported(mcs[found[k]], Riders(mcs, persons, found[k]))]
    BY DEF GroupsIn, RidingDetections
  <1>6. \A k \in DOMAIN found : found[k] \in DOMAIN mcs
    <2> PICK all : all = [m \in DOMAIN mcs |-> m]
      OBVIOUS
    <2> PICK chosen : chosen = {m \in DOMAIN mcs : IsViolation(mcs[m], Riders(mcs, persons, m))}
      OBVIOUS
    <2>1. IsList(all) /\ DOMAIN all = DOMAIN mcs
      <3>1. all = [m \in DOMAIN mcs |-> all[m]] /\ IsList(mcs)
        BY <1>3 DEF Boxed
      <3> QED BY ONLY <3>1, MappedList
    <2>2. Holds(found, all, chosen)
      BY <2>1, PickedList
    <2>3. \A k \in DOMAIN found : \E i \in chosen : found[k] = all[i]
      BY ONLY <2>2, HoldsFacts
    <2> QED BY <2>3
  <1>7. ASSUME NEW m \in DOMAIN mcs
        PROVE  Reported(mcs[m], Riders(mcs, persons, m)).box \in Boxes
    <2> PICK riders : riders = Riders(mcs, persons, m)
      OBVIOUS
    <2> PICK all : all = <<mcs[m]>> \o riders
      OBVIOUS
    <2> PICK chosen : /\ chosen \subseteq DOMAIN persons
                      /\ riders = Picked(persons, chosen)
      BY DEF Riders
    <2>1. Holds(riders, persons, chosen)
      BY <1>2, PickedList DEF Boxed
    <2>2. Boxed(riders)
      BY ONLY <1>2, <2>1, HeldBoxed, chosen \subseteq DOMAIN persons
    <2>3. /\ IsList(<<mcs[m]>>) /\ Len(<<mcs[m]>>) = 1 /\ <<mcs[m]>>[1] = mcs[m]
      BY DEF IsList, ToSet
    <2> PICK one : one = <<mcs[m]>>
      OBVIOUS
    <2>4. /\ IsList(all) /\ Len(all) = 1 + Len(riders)
          /\ \A i \in 1..Len(all) : all[i] = IF i <= 1 THEN one[i] ELSE riders[i - 1]
      <3>1. IsList(one) /\ Len(one) = 1 /\ IsList(riders) /\ all = one \o riders
        BY <2>2, <2>3 DEF Boxed
      <3> QED BY ONLY <3>1, JoinedIs
    <2>5. /\ DOMAIN all = 1..(1 + Len(riders)) /\ Len(riders) \in Nat
          /\ DOMAIN riders = 1..Len(riders)
      BY <2>2, <2>4, ListFacts DEF Boxed
    <2>6. ASSUME NEW i \in DOMAIN all PROVE all[i].box \in Boxes
      <3>1. CASE i = 1
        <4>1. all[i] = mcs[m]
          BY <2>3, <2>4, <2>5, <3>1
        <4> QED BY <1>3, <4>1 DEF Boxed
      <3>2. CASE i # 1
        <4>1. i - 1 \in DOMAIN riders /\ all[i] = riders[i - 1]
          BY ONLY <2>4, <2>5, <3>2, i \in DOMAIN all
        <4> QED BY <2>2, <4>1 DEF Boxed
      <3> QED BY <3>1, <3>2
    <2> PICK boxes : boxes = {all[i].box : i \in DOMAIN all}
      OBVIOUS
    <2>7. boxes \subseteq Boxes
      BY ONLY <2>6, boxes = {all[i].box : i \in DOMAIN all}
    <2>8. boxes # {}
      <3>1. 1 \in DOMAIN all
        BY ONLY <2>5
      <3> QED BY <3>1
    <2>9. IsFiniteSet(boxes)
      <3> PICK f : f = [i \in DOMAIN all |-> all[i].box]
        OBVIOUS
      <3>1. f \in Surjection(DOMAIN all, boxes)
        BY DEF Surjection
      <3>2. IsFiniteSet(DOMAIN all)
        <4> PICK n \in Nat : n = Len(riders)
          BY <2>5
        <4>1. IsFiniteSet(1..(1 + n))
          BY ONLY FS_Interval, n \in Nat
        <4> QED BY ONLY <2>5, <4>1, n = Len(riders)
      <3> QED BY <3>1, <3>2, FS_Surjection
    <2>10. UnionBox(boxes) \in Boxes
      BY <2>7, <2>8, <2>9, UnionBoxed
    <2>11. Reported(mcs[m], riders).box = UnionBox(boxes)
      BY DEF Reported
    <2> QED BY <2>10, <2>11
  <1>8. \A k \in DOMAIN groups : groups[k].box \in Boxes
    BY <1>5, <1>6, <1>7
  <1> QED BY <1>4, <1>8 DEF Boxed

(* A track has a box and a count of the frames that missed it, whatever    *)
(* frames came.                                                            *)
FollowInv == ai.model \in {"helmet", "triple_riding"} => Placed(ai.tracker.tracks)

LEMMA NothingPlaced == Placed(NewTracker.tracks)
  BY DEF Placed, NewTracker

\* A frame leaves the tracks placed.
LEMMA UpdatedPlaced ==
  ASSUME NEW model, model \in {"helmet", "triple_riding"}, NEW t, TrackerOK(t), Placed(t.tracks),
         NEW frame \in Frames
  PROVE  /\ TrackerOK(Updated(model, t, frame))
         /\ Placed(Updated(model, t, frame).tracks)
  <1>1. Boxed(HelmetsIn[frame]) /\ Boxed(GroupsIn[frame])
    BY HelmetsBoxed, GroupsBoxed
  <1> PICK dets, pct, gone :
         /\ gone \in Nat /\ Boxed(dets)
         /\ \/ Updated(model, t, frame) = t
            \/ Updated(model, t, frame) = StableUpdate(t, dets, pct, gone)
    <2>1. CASE model = "helmet"
      <3> PICK limit \in Nat : limit = MaxGone.helmet
        BY TrackerAssumption
      <3> PICK found : found = HelmetsIn[frame] /\ Boxed(found)
        BY <1>1
      <3>1. Updated(model, t, frame) = HelmetUpdate(t, frame)
        BY <2>1 DEF Updated
      <3>2. \/ HelmetUpdate(t, frame) = t
            \/ HelmetUpdate(t, frame) = StableUpdate(t, found, HelmetIou, limit)
        BY Zenon DEF HelmetUpdate
      <3> QED BY ONLY <3>1, <3>2, limit \in Nat, Boxed(found), Zenon
    <2>2. CASE model = "triple_riding"
      <3> PICK limit \in Nat : limit = MaxGone.triple_riding
        BY TrackerAssumption
      <3> PICK found : found = GroupsIn[frame] /\ Boxed(found)
        BY <1>1
      <3>1. Updated(model, t, frame) = RidingUpdate(t, frame)
        BY <2>2 DEF Updated
      <3>2. \/ RidingUpdate(t, frame) = t
            \/ RidingUpdate(t, frame) = StableUpdate(t, found, RidingIou, limit)
        BY Zenon DEF RidingUpdate
      <3> QED BY ONLY <3>1, <3>2, limit \in Nat, Boxed(found), Zenon
    <2> QED BY <2>1, <2>2
  <1> PICK u : u = StableUpdate(t, dets, pct, gone)
    OBVIOUS
  <1>2. TrackerOK(u)
    BY StableOK DEF Boxed, Continues
  <1>3. Placed(u.tracks)
    BY StableFollows
  <1> QED BY <1>2, <1>3

\* What is reported of the tracks leaves them where they are.
LEMMA ProcessKeepsTracks ==
  ASSUME NEW model, model \in {"helmet", "triple_riding"}, NEW t, NEW u, TrackerOK(u),
         NEW frame, NEW now
  PROVE  Process(model, t, u, frame, now).tracker.tracks = u.tracks
  <1>1. \A saved : [u EXCEPT !.saved = saved].tracks = u.tracks
    <2> TAKE saved
    <2>1. u = [next |-> u.next, tracks |-> u.tracks, saved |-> u.saved, buckets |-> u.buckets]
      BY DEF TrackerOK, IsTracker
    <2>2. [u EXCEPT !.saved = saved]
            = [next |-> u.next, tracks |-> u.tracks, saved |-> saved, buckets |-> u.buckets]
      BY <2>1
    <2> QED BY <2>2
  <1>2. \A coords, reports : NothingSeen(u).tracker = u
    BY DEF NothingSeen, Report
  <1> DEFINE Told(saved, coords, reports) == Report([u EXCEPT !.saved = saved], coords, reports)
  <1>3. \A saved, coords, reports : Told(saved, coords, reports).tracker.tracks = u.tracks
    BY <1>1 DEF Report
  <1>4. CASE model = "helmet"
    <2>1. Process(model, t, u, frame, now) = HelmetProcess(u, frame)
      BY <1>4 DEF Process
    <2>2. \/ HelmetProcess(u, frame) = NothingSeen(u)
          \/ \E saved, coords, reports : HelmetProcess(u, frame) = Told(saved, coords, reports)
      BY Zenon DEF HelmetProcess
    <2> HIDE DEF Told
    <2> QED BY <1>2, <1>3, <2>1, <2>2
  <1>5. CASE model = "triple_riding"
    <2>1. Process(model, t, u, frame, now) = RidingProcess(u, frame)
      BY <1>5 DEF Process
    <2>2. \/ RidingProcess(u, frame) = NothingSeen(u)
          \/ \E saved, coords, reports : RidingProcess(u, frame) = Told(saved, coords, reports)
      BY Zenon DEF RidingProcess
    <2> HIDE DEF Told
    <2> QED BY <1>2, <1>3, <2>1, <2>2
  <1> QED BY <1>4, <1>5

LEMMA InitFollow == SystemInit => FollowInv
  <1>1. SystemInit => ai = Stopped(0)
    BY DEF SystemInit, AlertsInit
  <1>2. Stopped(0).model = ""
    BY DEF Stopped
  <1> QED BY <1>1, <1>2 DEF FollowInv

LEMMA StepFollow == OnceInv /\ FollowInv /\ [SystemNext]_Everything => FollowInv'
  <1> SUFFICES ASSUME OnceInv, FollowInv, [SystemNext]_Everything PROVE FollowInv'
    OBVIOUS
  <1>a. AiForm /\ TrackerOK(ai.tracker)
    BY DEF OnceInv, AiInv
  <1>1. CASE ai' = ai
    BY <1>1 DEF FollowInv
  <1>2. CASE \E q \in LoadRequests : Load(q.model, q.lens)
    <2> PICK model, lens : ai' = Loaded(model, lens, ai.load)
      BY <1>2 DEF Load
    <2>1. ai' = [model |-> model, lens |-> lens, tracker |-> NewTracker, load |-> ai.load + 1,
                 forgot |-> 0, snapshots |-> TRUE, snapThreshold |-> 50]
      BY DEF Loaded, Stopped
    <2> QED BY <2>1, NothingPlaced DEF FollowInv
  <1>3. CASE StopModel \/ AiDies
    <2>1. ai' = Stopped(ai.load)
      BY <1>3 DEF StopModel, AiDies
    <2>2. ai'.model = ""
      BY <2>1 DEF Stopped
    <2> QED BY <2>2 DEF FollowInv
  <1>4. CASE \E snapshots \in BOOLEAN, threshold \in SnapThresholds : SetAiConfig(snapshots, threshold)
    <2> PICK pics, least : ai' = [ai EXCEPT !.snapshots = pics, !.snapThreshold = least]
      BY <1>4 DEF SetAiConfig
    <2>1. ai'.model = ai.model /\ ai'.tracker = ai.tracker
      BY <1>a DEF AiForm
    <2> QED BY <2>1 DEF FollowInv
  <1>5. CASE Sample
    <2> PICK frame \in Frames : OnNewSample(frame)
      BY <1>5 DEF Sample
    <2> PICK u : u = Updated(ai.model, ai.tracker, frame)
      OBVIOUS
    <2> PICK r : r = Process(ai.model, ai.tracker, u, frame, uptime)
      OBVIOUS
    <2>1. PublishDetections(r)
      BY DEF OnNewSample
    <2>2. ai'.model = ai.model /\ ai'.tracker = r.tracker
      <3> PICK n : ai' = [ai EXCEPT !.tracker = r.tracker, !.forgot = n]
        BY <2>1 DEF PublishDetections
      <3> PICK tracker : tracker = r.tracker
        OBVIOUS
      <3>1. ai' = [ai EXCEPT !.tracker = tracker, !.forgot = n]
        OBVIOUS
      <3>2. ai' = [model |-> ai.model, lens |-> ai.lens, tracker |-> tracker, load |-> ai.load,
                   forgot |-> n, snapshots |-> ai.snapshots, snapThreshold |-> ai.snapThreshold]
        BY ONLY <1>a, <3>1 DEF AiForm
      <3> QED BY ONLY <3>2, tracker = r.tracker
    <2>3. ASSUME ai.model \in {"helmet", "triple_riding"} PROVE Placed(r.tracker.tracks)
      <3>1. Placed(ai.tracker.tracks)
        BY <2>3 DEF FollowInv
      <3>2. TrackerOK(u) /\ Placed(u.tracks)
        BY <1>a, <2>3, <3>1, UpdatedPlaced
      <3>3. r.tracker.tracks = u.tracks
        BY <2>3, <3>2, ProcessKeepsTracks
      <3> QED BY <3>2, <3>3
    <2> QED BY <2>2, <2>3 DEF FollowInv
  <1>6. CASE AlertsTick
    <2> PICK left : ai' = [ai EXCEPT !.tracker.buckets = left]
      BY <1>6 DEF AlertsTick
    <2> PICK t : t = ai.tracker
      OBVIOUS
    <2>1. t = [next |-> t.next, tracks |-> t.tracks, saved |-> t.saved, buckets |-> t.buckets]
      BY <1>a DEF TrackerOK, IsTracker
    <2>2. ai'.tracker = [next |-> t.next, tracks |-> t.tracks, saved |-> t.saved, buckets |-> left]
          /\ ai'.model = ai.model
      BY <1>a, <2>1 DEF AiForm
    <2>3. ai'.tracker.tracks = t.tracks
      BY <2>2
    <2> QED BY <2>2, <2>3 DEF FollowInv
  <1>7. CASE ShowCoords \/ HandleAlert \/ OnAlert \/ \E s \in Subscribers : Dies(s) \/ Starts(s)
    BY <1>1, <1>7 DEF ShowCoords, HandleAlert, OnAlert, Dies, Starts, aiVars
  <1> QED
    BY <1>1, <1>2, <1>3, <1>4, <1>5, <1>6, <1>7
       DEF SystemNext, AlertsNext, Everything, alertsVars, aiVars

LEMMA FollowedIs == OnceInv /\ FollowInv => EachIsFollowed
  <1> SUFFICES ASSUME OnceInv, FollowInv, ai.model \in {"helmet", "triple_riding"},
                      NEW frame \in Frames,
                      NEW dets, dets = HelmetsIn[frame],
                      NEW u, u = StableUpdate(ai.tracker, dets, HelmetIou, MaxGone.helmet)
               PROVE  /\ {k.box : k \in ToSet(Seen(u))} = {d.box : d \in ToSet(dets)}
                      /\ Len(Seen(u)) = Len(dets)
                      /\ Cardinality(Tids(u.tracks)) = Len(u.tracks)
                      /\ \A k \in ToSet(u.tracks) : k.tid < u.next
    BY DEF EachIsFollowed
  <1>1. TrackerOK(ai.tracker) /\ Placed(ai.tracker.tracks)
    BY DEF OnceInv, AiInv, FollowInv
  <1>2. Boxed(dets) /\ IsList(dets)
    BY HelmetsBoxed DEF Boxed
  <1>3. MaxGone.helmet \in Nat
    BY TrackerAssumption
  <1>4. TrackerOK(u)
    BY <1>1, <1>2, StableOK DEF Continues
  <1>5. EachOnce(Shows(u.tracks), u.tracks, dets)
    BY <1>1, <1>2, <1>3, StableFollows
  <1> QED BY <1>2, <1>4, <1>5, SeenOnce

(* After any frame, and whatever the tracker went through before, exactly  *)
(* one track was seen for each detection, where the detection is: pairing  *)
(* by overlap loses none and follows none twice, and ids are never shared. *)
THEOREM DetectionsAreFollowed == SystemSpec => []EachIsFollowed
  <1>1. SystemInit => OnceInv /\ FollowInv
    BY InitOnce, InitFollow
  <1>2. (OnceInv /\ FollowInv) /\ [SystemNext]_Everything => (OnceInv /\ FollowInv)'
    BY StepOnce, StepFollow
  <1>3. OnceInv /\ FollowInv => EachIsFollowed
    BY FollowedIs
  <1> QED BY <1>1, <1>2, <1>3, PTL DEF SystemSpec
=============================================================================
