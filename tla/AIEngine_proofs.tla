--------------------------- MODULE AIEngine_proofs ---------------------------
(***************************************************************************)
(* What was stopped stays stopped, and an inference uses what is loaded,   *)
(* for any lenses, models, pipelines and crashes.  A pipeline that is not  *)
(* the active one is retired: its watchdog has been told to stop and can   *)
(* no longer reach the places where it plays or asks for a feed.  And a    *)
(* lens that is not the current one is settled: a feed it still has, or is *)
(* still asked for, is followed by a DetachSHM in the queue.               *)
(***************************************************************************)
EXTENDS AIEngine, TLAPS

\* Told to stop, and past the point from which it could play or retry.
Retired(p) == p \in stop /\ wd[p] \in {"done", "attach", "bus", "top"}

PipesInv ==
  /\ active \in 0 .. made
  /\ \A p \in Pipes : p > made => wd[p] = "none"
  /\ \A p \in Pipes : p <= made /\ p # active => Retired(p)
  /\ active # 0 /\ main \in {"join", "null"} => active \in stop
  /\ active # 0 /\ main = "null" => Retired(active)
  /\ \A p \in Pipes : pstate[p] = "playing" \/ cb[p] # "idle" => p = active

LoadInv ==
  /\ main \in {"detach", "swap", "attach", "exited"} => active = 0
  /\ active # 0 => /\ lens # None /\ plens[active] = lens
                   /\ model # None /\ interp = model /\ tracker = model
  /\ main = "swap" => want \in Requests /\ tracker = want.model /\ lens \in {None, want.lens}
  /\ main = "attach" => lens # None /\ model # None /\ interp = model /\ tracker = model

DetachOf(l) == [kind |-> "detach", lens |-> l]
AttachOf(l) == [kind |-> "attach", lens |-> l]

\* Once the calls in the queue are handled the lens has no feed.
Settled(l) ==
  /\ sock[l] = "served" => \E j \in 1 .. Len(calls) : calls[j] = DetachOf(l)
  /\ \A i \in 1 .. Len(calls) : calls[i] = AttachOf(l) =>
        \E j \in 1 .. Len(calls) : i < j /\ calls[j] = DetachOf(l)

FeedInv ==
  /\ ~up => calls = <<>> /\ \A l \in Lenses : sock[l] # "served"
  /\ \A l \in Lenses : l # lens \/ main = "detach" => Settled(l)

EngineInv == TypeOK /\ PipesInv /\ LoadInv /\ FeedInv

----------------------------------------------------------------------------
(* Types *)

LEMMA SendTyped ==
  ASSUME calls \in Seq(Calls), NEW kind \in {"attach", "detach"}, NEW l \in Lenses,
         Send(kind, l)
  PROVE  calls' \in Seq(Calls)
  <1>1. [kind |-> kind, lens |-> l] \in Calls
    BY DEF Calls
  <1> QED BY <1>1 DEF Send

LEMMA InitTyped == Init => TypeOK
  BY PipesAssumption DEF Init, TypeOK

LEMMA StepTyped == TypeOK /\ LoadInv /\ [Next]_vars => TypeOK'
  <1> SUFFICES ASSUME TypeOK, LoadInv, [Next]_vars PROVE TypeOK'
    OBVIOUS
  <1> USE DEF vars, modelVars, pipeVars, engineVars
  <1>1. ASSUME StopModel PROVE TypeOK'
    BY <1>1 DEF TypeOK, EnterStop, StopModel
  <1>2. ASSUME JoinWatchdog PROVE TypeOK'
    BY <1>2 DEF TypeOK, JoinWatchdog
  <1>3. ASSUME SetNull PROVE TypeOK'
    BY SendTyped, <1>3 DEF TypeOK, Detach, SetNull, Pipes
  <1>4. ASSUME Cleared PROVE TypeOK'
    BY <1>4 DEF TypeOK, Cleared, Requests
  <1>5. ASSUME Swap PROVE TypeOK'
    BY SendTyped, <1>5 DEF TypeOK, Swap, LoadInv, Requests
  <1>6. ASSUME SwapFails PROVE TypeOK'
    BY <1>6 DEF TypeOK, SwapFails, LoadInv, Requests
  <1>7. ASSUME Build PROVE TypeOK'
    BY PipesAssumption, <1>7 DEF TypeOK, Build, Pipes
  <1>8. ASSUME Quit PROVE TypeOK'
    BY <1>8 DEF TypeOK, Quit
  <1>9. ASSUME NEW r \in Requests, LoadModel(r) PROVE TypeOK'
    BY <1>9 DEF TypeOK, EnterStop, LoadModel, Requests
  <1>10. ASSUME NEW p \in Pipes, WatchdogTop(p) PROVE TypeOK'
    BY <1>10 DEF TypeOK, WatchdogTop, WatchdogOnly
  <1>11. ASSUME NEW p \in Pipes, WatchdogPlay(p) PROVE TypeOK'
    BY <1>11 DEF TypeOK, WatchdogPlay, WatchdogOnly
  <1>12. ASSUME NEW p \in Pipes, WatchdogRetry(p) PROVE TypeOK'
    BY SendTyped, <1>12 DEF TypeOK, WatchdogRetry, WatchdogOnly
  <1>13. ASSUME NEW p \in Pipes, WatchdogWait(p) PROVE TypeOK'
    BY <1>13 DEF TypeOK, WatchdogWait, WatchdogOnly
  <1>14. ASSUME NEW p \in Pipes, WatchdogAnswered(p) PROVE TypeOK'
    BY <1>14 DEF TypeOK, WatchdogAnswered, WatchdogOnly
  <1>15. ASSUME NEW p \in Pipes, WatchdogBus(p) PROVE TypeOK'
    BY <1>15 DEF TypeOK, WatchdogBus, WatchdogOnly
  <1>16. ASSUME NEW p \in Pipes, SampleArrives(p) PROVE TypeOK'
    BY <1>16 DEF TypeOK, SampleArrives, SampleOnly
  <1>17. ASSUME NEW p \in Pipes, SampleLocks(p) PROVE TypeOK'
    BY <1>17 DEF TypeOK, SampleLocks, SampleOnly
  <1>18. ASSUME NEW p \in Pipes, SampleSkips(p) PROVE TypeOK'
    BY <1>18 DEF TypeOK, SampleSkips, SampleOnly
  <1>19. ASSUME NEW p \in Pipes, SampleMapFails(p) PROVE TypeOK'
    BY <1>19 DEF TypeOK, SampleMapFails, SampleOnly
  <1>20. ASSUME NEW p \in Pipes, SampleDone(p) PROVE TypeOK'
    BY <1>20 DEF TypeOK, SampleDone, SampleOnly
  <1>21. ASSUME EngineHandles PROVE TypeOK'
    <2> DEFINE c == Head(calls)
               next == CASE sock[c.lens] = "stale" -> "stale"
                         [] sock[c.lens] = "served" -> "none"
                         [] sock[c.lens] = "none" -> IF c.kind = "attach" /\ c.lens \notin draining
                                                     THEN "served" ELSE "none"
    <2>1. c \in Calls /\ Tail(calls) \in Seq(Calls)
      BY <1>21 DEF TypeOK, EngineHandles
    <2>2. c.lens \in Lenses
      BY <2>1 DEF Calls
    <2>3. sock[c.lens] \in {"none", "served", "stale"}
      BY <2>2 DEF TypeOK
    <2>4. next \in {"none", "served", "stale"}
      BY <2>3
    <2>5. /\ sock' = [sock EXCEPT ![c.lens] = next] /\ calls' = Tail(calls)
          /\ draining' \in {draining, draining \cup {c.lens}}
          /\ UNCHANGED <<up, crashes>> /\ EngineOnly
      BY <1>21 DEF EngineHandles
    <2> HIDE DEF c, next
    <2> QED BY <2>1, <2>2, <2>4, <2>5 DEF TypeOK, EngineOnly
  <1>22. ASSUME EngineStarts PROVE TypeOK'
    BY <1>22 DEF TypeOK, EngineStarts, EngineOnly
  <1>23. ASSUME NEW l \in Lenses, Drained(l) PROVE TypeOK'
    BY <1>23 DEF TypeOK, Drained, EngineOnly
  <1>24. ASSUME NEW file \in {"none", "stale"}, EngineGoes(file) PROVE TypeOK'
    <2>1. crashes' \in 0 .. MaxCrashes
      BY <1>24, PipesAssumption DEF TypeOK, EngineGoes
    <2>2. <<>> \in Seq(Calls)
      OBVIOUS
    <2> QED BY <1>24, <2>1, <2>2 DEF TypeOK, EngineGoes, EngineOnly
  <1>25. CASE UNCHANGED vars
    BY <1>25 DEF TypeOK
  <1> QED
    BY [Next]_vars, <1>1, <1>2, <1>3, <1>4, <1>5, <1>6, <1>7, <1>8, <1>9, <1>10, <1>11, <1>12, <1>13, <1>14, <1>15, <1>16, <1>17, <1>18, <1>19, <1>20, <1>21, <1>22, <1>23, <1>24, <1>25
       DEF Next, MainStep, WatchdogStep, SampleStep

----------------------------------------------------------------------------
(* Threads *)

\* A watchdog that was told to stop goes nowhere else.
LEMMA RetiredStays ==
  ASSUME TypeOK, NEW p \in Pipes, Retired(p), NEW q \in Pipes,
         WatchdogStep(q) \/ WatchdogRetry(q)
  PROVE  Retired(p)'
  BY DEF TypeOK, Retired, WatchdogStep, WatchdogTop, WatchdogPlay, WatchdogRetry, WatchdogWait,
         WatchdogAnswered, WatchdogBus, WatchdogOnly

\* Nor does it play, and no other watchdog plays its pipeline.
LEMMA WatchdogPlaysOwn ==
  ASSUME TypeOK, NEW q \in Pipes, WatchdogStep(q) \/ WatchdogRetry(q),
         NEW p \in Pipes, pstate'[p] = "playing"
  PROVE  pstate[p] = "playing" \/ (p = q /\ ~Retired(p))
  BY DEF TypeOK, Retired, WatchdogStep, WatchdogTop, WatchdogPlay, WatchdogRetry, WatchdogWait,
         WatchdogAnswered, WatchdogBus

LEMMA InitPipes == Init => PipesInv
  BY PipesAssumption DEF Init, PipesInv, Pipes

LEMMA WatchdogPipes ==
  ASSUME TypeOK, PipesInv, NEW q \in Pipes, WatchdogStep(q) \/ WatchdogRetry(q)
  PROVE  PipesInv'
  <1>1. UNCHANGED <<active, main, made, stop, cb>>
    BY DEF WatchdogStep, WatchdogTop, WatchdogPlay, WatchdogRetry, WatchdogWait,
           WatchdogAnswered, WatchdogBus, WatchdogOnly, modelVars
  <1>2. wd[q] # "none" /\ \A p \in Pipes \ {q} : wd'[p] = wd[p]
    BY DEF WatchdogStep, WatchdogTop, WatchdogPlay, WatchdogRetry, WatchdogWait,
           WatchdogAnswered, WatchdogBus, TypeOK
  <1>3. active # 0 => active \in Pipes
    BY DEF TypeOK
  <1>4. \A p \in Pipes : p <= made /\ p # active => Retired(p)'
    BY <1>1, RetiredStays DEF PipesInv
  <1>5. active # 0 /\ main = "null" => Retired(active)'
    BY <1>1, <1>3, RetiredStays DEF PipesInv
  <1>6. \A p \in Pipes : p > made => wd'[p] = "none"
    BY <1>2 DEF PipesInv
  <1>7. ASSUME NEW p \in Pipes, pstate'[p] = "playing" \/ cb'[p] # "idle" PROVE p = active
    <2>1. CASE cb[p] # "idle" \/ pstate[p] = "playing"
      BY <2>1 DEF PipesInv
    <2>2. CASE p = q /\ ~Retired(p)
      BY <1>2, <2>2 DEF PipesInv, TypeOK, Pipes
    <2> QED BY <1>1, <1>7, <2>1, <2>2, WatchdogPlaysOwn
  <1> QED
    BY <1>1, <1>4, <1>5, <1>6, <1>7 DEF PipesInv, Retired

LEMMA StepPipes == TypeOK /\ LoadInv /\ PipesInv /\ [Next]_vars => PipesInv'
  <1> SUFFICES ASSUME TypeOK, LoadInv, PipesInv, [Next]_vars PROVE PipesInv'
    OBVIOUS
  <1> USE DEF modelVars, pipeVars, engineVars
  <1>1. ASSUME StopModel PROVE PipesInv'
    BY <1>1 DEF TypeOK, PipesInv, StopModel, EnterStop, Retired
  <1>2. ASSUME JoinWatchdog PROVE PipesInv'
    BY <1>2 DEF TypeOK, PipesInv, JoinWatchdog, Retired
  <1>3. ASSUME SetNull PROVE PipesInv'
    BY <1>3 DEF TypeOK, PipesInv, SetNull, Detach, Retired, Pipes
  <1>4. ASSUME Cleared PROVE PipesInv'
    BY <1>4 DEF TypeOK, PipesInv, Cleared, Retired
  <1>5. ASSUME Swap PROVE PipesInv'
    BY <1>5 DEF TypeOK, PipesInv, Swap, Retired
  <1>6. ASSUME SwapFails PROVE PipesInv'
    BY <1>6 DEF TypeOK, PipesInv, SwapFails, Retired
  <1>7. ASSUME Build PROVE PipesInv'
    <2> DEFINE p == made + 1
    <2>1. active = 0 /\ p \in Pipes
      BY <1>7, PipesAssumption DEF Build, LoadInv, TypeOK, Pipes
    <2> QED BY <1>7, <2>1 DEF TypeOK, PipesInv, Build, Retired, Pipes
  <1>8. ASSUME Quit PROVE PipesInv'
    BY <1>8 DEF TypeOK, PipesInv, Quit, Retired
  <1>9. ASSUME NEW r \in Requests, LoadModel(r) PROVE PipesInv'
    BY <1>9 DEF TypeOK, PipesInv, LoadModel, EnterStop, Retired
  <1>10. ASSUME NEW p \in Pipes, WatchdogStep(p) \/ WatchdogRetry(p) PROVE PipesInv'
    BY <1>10, WatchdogPipes
  <1>11. ASSUME NEW p \in Pipes, SampleArrives(p) \/ SampleStep(p) PROVE PipesInv'
    BY <1>11 DEF TypeOK, PipesInv, SampleArrives, SampleStep, SampleLocks, SampleSkips,
                 SampleMapFails, SampleDone, SampleOnly, Retired
  <1>12. ASSUME UNCHANGED <<active, main, made, stop, pstate, wd, cb>> PROVE PipesInv'
    BY <1>12 DEF PipesInv, Retired
  <1> QED
    BY <1>1, <1>2, <1>3, <1>4, <1>5, <1>6, <1>7, <1>8, <1>9, <1>10, <1>11, <1>12
       DEF Next, MainStep, EngineHandles, EngineStarts, Drained, EngineGoes, EngineOnly, vars

----------------------------------------------------------------------------
(* What is loaded *)

LEMMA InitLoad == Init => LoadInv
  BY DEF Init, LoadInv

LEMMA StepLoad == TypeOK /\ PipesInv /\ LoadInv /\ [Next]_vars => LoadInv'
  <1> SUFFICES ASSUME TypeOK, PipesInv, LoadInv, [Next]_vars PROVE LoadInv'
    OBVIOUS
  <1> USE DEF modelVars, pipeVars, engineVars
  <1>1. ASSUME StopModel PROVE LoadInv'
    BY <1>1 DEF LoadInv, StopModel, EnterStop
  <1>2. ASSUME JoinWatchdog PROVE LoadInv'
    BY <1>2 DEF LoadInv, JoinWatchdog
  <1>3. ASSUME SetNull PROVE LoadInv'
    BY <1>3 DEF LoadInv, SetNull, Detach
  <1>4. ASSUME Cleared PROVE LoadInv'
    BY <1>4 DEF LoadInv, Cleared, TypeOK
  <1>5. ASSUME Swap PROVE LoadInv'
    <2>1. want.lens # None /\ want.model # None
      BY <1>5, NoneAssumption DEF TypeOK, LoadInv, Swap, Requests
    <2> QED BY <1>5, <2>1 DEF LoadInv, Swap
  <1>6. ASSUME SwapFails PROVE LoadInv'
    BY <1>6 DEF LoadInv, SwapFails
  <1>7. ASSUME Build PROVE LoadInv'
    BY <1>7, PipesAssumption DEF LoadInv, Build, TypeOK, Pipes
  <1>8. ASSUME Quit PROVE LoadInv'
    BY <1>8 DEF LoadInv, Quit
  <1>9. ASSUME NEW r \in Requests, LoadModel(r) PROVE LoadInv'
    BY <1>9 DEF LoadInv, LoadModel, EnterStop
  <1>10. ASSUME UNCHANGED <<modelVars, main, want, plens>> PROVE LoadInv'
    BY <1>10 DEF LoadInv
  <1>11. ASSUME NEW p \in Pipes, WatchdogStep(p) \/ WatchdogRetry(p)
         PROVE UNCHANGED <<modelVars, main, want, plens>>
    BY <1>11 DEF WatchdogStep, WatchdogTop, WatchdogPlay, WatchdogRetry, WatchdogWait,
                 WatchdogAnswered, WatchdogBus, WatchdogOnly
  <1>12. ASSUME NEW p \in Pipes, SampleArrives(p) \/ SampleStep(p)
         PROVE UNCHANGED <<modelVars, main, want, plens>>
    BY <1>12 DEF SampleArrives, SampleStep, SampleLocks, SampleSkips,
                 SampleMapFails, SampleDone, SampleOnly
  <1> QED
    BY <1>1, <1>2, <1>3, <1>4, <1>5, <1>6, <1>7, <1>8, <1>9, <1>10, <1>11, <1>12
       DEF Next, MainStep, EngineHandles, EngineStarts, Drained, EngineGoes, EngineOnly, vars

----------------------------------------------------------------------------
(* Feeds *)

\* Settling is about the queue and the socket alone; another call in the
\* queue asks for nothing here unless it is an AttachSHM for the lens.
LEMMA SendSettles ==
  ASSUME TypeOK, NEW l \in Lenses, NEW m \in Lenses, NEW kind \in {"attach", "detach"},
         Send(kind, m), UNCHANGED sock,
         ~up => calls = <<>> /\ sock[l] # "served",
         (kind = "detach" /\ m = l) \/ (m # l /\ Settled(l))
  PROVE  Settled(l)'
  <1>1. CASE ~up
    BY <1>1 DEF Send, Settled
  <1>2. CASE up
    <2> DEFINE n == Len(calls)
               c == [kind |-> kind, lens |-> m]
    <2>1. /\ n \in Nat /\ Len(calls') = n + 1 /\ calls'[n + 1] = c
          /\ \A i \in 1 .. n : calls'[i] = calls[i]
      BY <1>2 DEF Send, TypeOK
    <2>2. CASE kind = "detach" /\ m = l
      <3>1. calls'[n + 1] = DetachOf(l) /\ calls'[n + 1] # AttachOf(l)
        BY <2>1, <2>2 DEF DetachOf, AttachOf
      <3> QED BY <2>1, <3>1 DEF Settled, DetachOf, AttachOf
    <2>3. CASE m # l
      <3>1. calls'[n + 1] # AttachOf(l)
        BY <2>1, <2>3 DEF AttachOf
      <3>2. Settled(l)
        BY <2>3
      <3> QED BY <2>1, <3>1, <3>2 DEF Settled, DetachOf, AttachOf
    <2> QED BY <2>2, <2>3
  <1> QED BY <1>1, <1>2

LEMMA HandleSettles ==
  ASSUME TypeOK, NEW l \in Lenses, Settled(l), EngineHandles
  PROVE  Settled(l)'
  <1> DEFINE n == Len(calls)
             c == Head(calls)
  <1>1. /\ n \in Nat \ {0} /\ c = calls[1] /\ c \in Calls /\ Len(calls') = n - 1
        /\ \A i \in 1 .. n - 1 : calls'[i] = calls[i + 1]
    BY DEF EngineHandles, TypeOK
  <1>2. sock'[l] = "served" =>
           c = AttachOf(l) \/ (sock[l] = "served" /\ c.lens # l)
    <2>1. CASE c.lens = l
      <3>1. c.kind = "attach" => c = AttachOf(l)
        BY <1>1, <2>1 DEF Calls, AttachOf
      <3>2. sock[l] \in {"none", "served", "stale"}
        BY DEF TypeOK
      <3>3. sock'[l] = CASE sock[l] = "stale" -> "stale"
                         [] sock[l] = "served" -> "none"
                         [] sock[l] = "none" -> IF c.kind = "attach" /\ l \notin draining
                                                THEN "served" ELSE "none"
        BY <2>1 DEF EngineHandles, TypeOK
      <3>4. sock'[l] = "served" => c.kind = "attach"
        BY <3>2, <3>3
      <3> QED BY <3>1, <3>4
    <2>2. CASE c.lens # l
      <3>1. sock'[l] = sock[l]
        BY <1>1, <2>2 DEF EngineHandles, TypeOK
      <3> QED BY <2>2, <3>1
    <2> QED BY <2>1, <2>2
  <1> HIDE DEF c
  <1>3. ASSUME sock'[l] = "served"
        PROVE  \E j \in 1 .. Len(calls') : calls'[j] = DetachOf(l)
    <2>1. \E j \in 2 .. n : calls[j] = DetachOf(l)
      <3>1. CASE sock[l] = "served" /\ c.lens # l
        <4>1. PICK j \in 1 .. n : calls[j] = DetachOf(l)
          BY <3>1 DEF Settled
        <4>2. j # 1
          BY <1>1, <3>1, <4>1 DEF DetachOf
        <4> QED BY <1>1, <4>1, <4>2
      <3>2. CASE c = AttachOf(l)
        <4>1. 1 \in 1 .. n /\ calls[1] = AttachOf(l)
          BY <1>1, <3>2
        <4>2. PICK j \in 1 .. n : 1 < j /\ calls[j] = DetachOf(l)
          BY <4>1 DEF Settled
        <4> QED BY <1>1, <4>2
      <3> QED BY <1>2, <1>3, <3>1, <3>2
    <2>2. PICK j \in 2 .. n : calls[j] = DetachOf(l)
      BY <2>1
    <2>3. j - 1 \in 1 .. n - 1 /\ calls'[j - 1] = DetachOf(l)
      BY <1>1, <2>2
    <2> QED BY <1>1, <2>3
  <1>4. ASSUME NEW i \in 1 .. Len(calls'), calls'[i] = AttachOf(l)
        PROVE  \E j \in 1 .. Len(calls') : i < j /\ calls'[j] = DetachOf(l)
    <2>1. i + 1 \in 1 .. n /\ calls[i + 1] = AttachOf(l) /\ i \in Nat
      BY <1>1, <1>4
    <2>2. PICK j \in 1 .. n : i + 1 < j /\ calls[j] = DetachOf(l)
      BY <2>1 DEF Settled
    <2>3. j - 1 \in 1 .. n - 1 /\ i < j - 1 /\ calls'[j - 1] = DetachOf(l)
      BY <1>1, <2>1, <2>2
    <2> QED BY <1>1, <2>3
  <1> QED BY <1>3, <1>4 DEF Settled, DetachOf, AttachOf

LEMMA SettledStays ==
  ASSUME NEW l, Settled(l), UNCHANGED <<sock, calls>>
  PROVE  Settled(l)'
  BY DEF Settled, DetachOf, AttachOf

LEMMA InitFeed == Init => FeedInv
  BY DEF Init, FeedInv, Settled

\* Feeds are asked for by the watchdog of the active pipeline alone, and
\* there is one only while no detach is under way.
LEMMA RetryIsActive ==
  ASSUME TypeOK, PipesInv, LoadInv, NEW p \in Pipes, WatchdogRetry(p)
  PROVE  lens \in Lenses /\ main # "detach" /\ Send("attach", lens) /\ UNCHANGED <<lens, main, sock, up>>
  <1>1. wd[p] = "missing" /\ lens # None
    BY DEF WatchdogRetry
  <1>2. p = active
    BY <1>1 DEF PipesInv, TypeOK, Retired, Pipes
  <1>3. main # "detach"
    BY <1>2 DEF LoadInv, Pipes
  <1> QED BY <1>1, <1>3 DEF TypeOK, WatchdogRetry, WatchdogOnly, modelVars

LEMMA StepFeed == TypeOK /\ PipesInv /\ LoadInv /\ FeedInv /\ [Next]_vars => FeedInv'
  <1> SUFFICES ASSUME TypeOK, PipesInv, LoadInv, FeedInv, [Next]_vars PROVE FeedInv'
    OBVIOUS
  <1>1. ASSUME SetNull PROVE FeedInv'
    <2>1. main' = "detach" /\ UNCHANGED <<lens, sock, up>>
      BY <1>1 DEF SetNull, Detach
    <2>2. ASSUME NEW l \in Lenses PROVE Settled(l)'
      <3>1. CASE lens = None
        <4>1. Settled(l) /\ UNCHANGED calls
          BY <1>1, <3>1, NoneAssumption DEF FeedInv, SetNull, Detach
        <4> QED BY <2>1, <4>1, SettledStays
      <3>2. CASE lens # None
        <4>1. lens \in Lenses /\ Send("detach", lens)
          BY <1>1, <3>2 DEF TypeOK, SetNull, Detach
        <4>2. /\ ~up => calls = <<>> /\ sock[l] # "served"
              /\ l # lens => Settled(l)
          BY DEF FeedInv
        <4> QED BY <2>1, <4>1, <4>2, SendSettles
      <3> QED BY <3>1, <3>2
    <2>3. ~up => calls' = <<>>
      BY <1>1 DEF FeedInv, SetNull, Detach, Send
    <2> QED BY <2>1, <2>2, <2>3 DEF FeedInv
  <1>2. ASSUME Cleared PROVE FeedInv'
    <2>1. main = "detach" /\ UNCHANGED <<sock, calls, up>>
      BY <1>2 DEF Cleared, engineVars
    <2> QED BY <2>1, SettledStays DEF FeedInv
  <1>3. ASSUME Swap PROVE FeedInv'
    <2>1. /\ main' = "attach" /\ UNCHANGED <<sock, up>> /\ Send("attach", want.lens)
          /\ lens' = want.lens /\ lens \in {None, want.lens} /\ want.lens \in Lenses
      BY <1>3 DEF Swap, LoadInv, Requests
    <2>2. ASSUME NEW l \in Lenses, l # lens' PROVE Settled(l)'
      BY <2>1, <2>2, SendSettles, NoneAssumption DEF FeedInv
    <2>3. ~up => calls' = <<>>
      BY <2>1 DEF FeedInv, Send
    <2> QED BY <2>1, <2>2, <2>3 DEF FeedInv
  <1>4. ASSUME NEW p \in Pipes, WatchdogRetry(p) PROVE FeedInv'
    <2>1. /\ lens \in Lenses /\ main # "detach" /\ Send("attach", lens)
          /\ UNCHANGED <<lens, main, sock, up>>
      BY <1>4, RetryIsActive
    <2>2. ASSUME NEW l \in Lenses, l # lens PROVE Settled(l)'
      BY <2>1, <2>2, SendSettles DEF FeedInv
    <2>3. ~up => calls' = <<>>
      BY <2>1 DEF FeedInv, Send
    <2> QED BY <2>1, <2>2, <2>3 DEF FeedInv
  <1>5. ASSUME EngineHandles PROVE FeedInv'
    <2>1. up /\ UNCHANGED <<up, lens, main>>
      BY <1>5 DEF EngineHandles, EngineOnly, modelVars
    <2> QED BY <1>5, <2>1, HandleSettles DEF FeedInv
  <1>6. ASSUME NEW file \in {"none", "stale"}, EngineGoes(file) PROVE FeedInv'
    <2>1. calls' = <<>> /\ \A l \in Lenses : sock'[l] # "served"
      BY <1>6 DEF EngineGoes, TypeOK
    <2> QED BY <2>1 DEF FeedInv, Settled
  <1>7. ASSUME EngineStarts PROVE FeedInv'
    BY <1>7, SettledStays DEF FeedInv, EngineStarts, EngineOnly, modelVars
  <1>8. ASSUME UNCHANGED <<lens, sock, calls, up>>, main' = "detach" => main = "detach" PROVE FeedInv'
    BY <1>8, SettledStays DEF FeedInv
  <1>9. ASSUME NEW p \in Pipes, WatchdogStep(p)
        PROVE UNCHANGED <<lens, sock, calls, up, main>>
    BY <1>9 DEF WatchdogStep, WatchdogTop, WatchdogPlay, WatchdogWait, WatchdogAnswered,
                WatchdogBus, WatchdogOnly, modelVars
  <1>10. ASSUME NEW p \in Pipes, SampleArrives(p) \/ SampleStep(p)
         PROVE UNCHANGED <<lens, sock, calls, up, main>>
    BY <1>10 DEF SampleArrives, SampleStep, SampleLocks, SampleSkips, SampleMapFails,
                 SampleDone, SampleOnly, modelVars, engineVars
  <1>11. ASSUME StopModel \/ JoinWatchdog \/ SwapFails \/ Build \/ Quit
         PROVE UNCHANGED <<lens, sock, calls, up>> /\ main' # "detach"
    BY <1>11 DEF StopModel, JoinWatchdog, SwapFails, Build, Quit, EnterStop, modelVars, engineVars
  <1>12. ASSUME NEW r \in Requests, LoadModel(r)
         PROVE UNCHANGED <<lens, sock, calls, up>> /\ main' # "detach"
    BY <1>12 DEF LoadModel, EnterStop, engineVars
  <1>13. ASSUME NEW l \in Lenses, Drained(l)
         PROVE UNCHANGED <<lens, sock, calls, up, main>>
    BY <1>13 DEF Drained, EngineOnly, modelVars
  <1>14. ASSUME UNCHANGED vars PROVE UNCHANGED <<lens, sock, calls, up, main>>
    BY <1>14 DEF vars, modelVars, engineVars
  <1> QED
    BY <1>1, <1>2, <1>3, <1>4, <1>5, <1>6, <1>7, <1>8, <1>9, <1>10, <1>11, <1>12, <1>13, <1>14
       DEF Next, MainStep

----------------------------------------------------------------------------
LEMMA EngineInvariant == Init /\ [][Next]_vars => []EngineInv
  <1>1. Init => EngineInv
    BY InitTyped, InitPipes, InitLoad, InitFeed DEF EngineInv
  <1>2. EngineInv /\ [Next]_vars => EngineInv'
    BY StepTyped, StepPipes, StepLoad, StepFeed DEF EngineInv
  <1> QED BY <1>1, <1>2, PTL

\* InferenceConsistent: whatever loads, stops, lock and watchdogs do between
\* two steps of the sample callback (ai_engine.py:414), an inference runs on
\* the model, tracker and lens that are loaded.
THEOREM InferencesAreConsistent == Spec => []InferenceConsistent
  <1>1. EngineInv => InferenceConsistent
    BY DEF EngineInv, PipesInv, LoadInv, InferenceConsistent, Pipes
  <1> QED BY <1>1, EngineInvariant, PTL DEF Spec

\* StoppedStays: a pipeline that was stopped never plays again, and once the
\* video engine has handled its calls it feeds the current lens alone, also
\* when a watchdog outlived its join or the engine crashed.
THEOREM StoppedPipesStay == Spec => []StoppedStays
  <1>1. EngineInv => StoppedStaysStopped
    BY DEF EngineInv, PipesInv, StoppedStaysStopped
  <1>2. EngineInv => FeedsFollowLens
    BY DEF EngineInv, FeedInv, Settled, FeedsFollowLens
  <1>3. EngineInv => StoppedStays
    BY <1>1, <1>2 DEF StoppedStays
  <1> QED BY <1>3, EngineInvariant, PTL DEF Spec

=============================================================================
