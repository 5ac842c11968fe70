------------------------------- MODULE AIEngine -------------------------------
(***************************************************************************)
(* The AI engine (ai_engine.py): loading and stopping a model on D-Bus, the *)
(* watchdog thread of each pipeline, the sample callback of the pipeline's  *)
(* streaming thread, the model lock, and the AttachSHM and DetachSHM calls  *)
(* to the video engine, which may be slow, stopped or crash.                *)
(*                                                                         *)
(* The main loop runs one D-Bus method at a time and blocks in it: while it *)
(* joins a watchdog (3 s at most), waits for the model lock, or waits for   *)
(* the answer of the video engine.  An answer may come after the wait timed *)
(* out, so a call returns at any time once it is sent.                      *)
(***************************************************************************)
EXTENDS Naturals, Sequences

CONSTANTS
  Lenses,      \* lens1 and lens2
  Models,      \* helmet, triple_riding, overspeed, person
  MaxPipes,    \* bound: pipelines built in a behaviour
  MaxCrashes,  \* bound: crashes of the video engine
  MaxCalls,    \* bound: calls the video engine is behind with
  None

Pipes == 1 .. MaxPipes

ASSUME NoneAssumption == None \notin Lenses /\ None \notin Models
ASSUME PipesAssumption == MaxPipes \in Nat /\ MaxCrashes \in Nat /\ MaxCalls \in Nat

VARIABLES
  active,    \* active_pipeline; 0 when None
  lens,      \* current_lens
  model,     \* current_model
  interp,    \* the model the interpreter was built from
  tracker,   \* the model the tracker belongs to
  lock,      \* the pipelines whose callback holds _model_lock
  main,      \* where the D-Bus method stands
  want,      \* the request of the LoadModel under way, or None
  made,      \* the number of pipelines built
  pstate,    \* pstate[p]: state of pipeline p
  plens,     \* plens[p]: the lens of its socket path
  stop,      \* pipelines whose watchdog's stop event is set
  wd,        \* wd[p]: where its watchdog thread stands
  cb,        \* cb[p]: where its sample callback stands
  calls,     \* calls the video engine has not handled yet, in order
  up,        \* whether the video engine runs
  sock,      \* sock[l]: the socket file of lens l
  draining,  \* lenses whose shm branch is being removed
  crashes    \* crashes so far

engineVars == <<calls, up, sock, draining, crashes>>
modelVars == <<active, lens, model, interp, tracker>>
pipeVars == <<made, pstate, plens, stop>>
vars == <<modelVars, lock, main, want, pipeVars, wd, cb, engineVars>>

Requests == [lens : Lenses, model : Models]
Calls == [kind : {"attach", "detach"}, lens : Lenses]

TypeOK ==
  /\ active \in Pipes \cup {0}
  /\ lens \in Lenses \cup {None}
  /\ model \in Models \cup {None} /\ interp \in Models \cup {None}
  /\ tracker \in Models \cup {None}
  /\ lock \subseteq Pipes
  /\ main \in {"idle", "join", "null", "detach", "swap", "attach", "exited"}
  /\ want \in Requests \cup {None}
  /\ made \in 0 .. MaxPipes
  /\ pstate \in [Pipes -> {"null", "ready", "playing"}]
  /\ plens \in [Pipes -> Lenses \cup {None}]
  /\ stop \subseteq Pipes
  /\ wd \in [Pipes -> {"none", "top", "late", "missing", "attach", "bus", "done"}]
  /\ cb \in [Pipes -> {"idle", "checked", "infer"}]
  /\ calls \in Seq(Calls)
  /\ up \in BOOLEAN
  /\ sock \in [Lenses -> {"none", "served", "stale"}]
  /\ draining \subseteq Lenses
  /\ crashes \in 0 .. MaxCrashes

Init ==
  /\ active = 0 /\ lens = None /\ model = None /\ interp = None /\ tracker = None
  /\ lock = {} /\ main = "idle" /\ want = None
  /\ made = 0
  /\ pstate = [p \in Pipes |-> "null"]
  /\ plens = [p \in Pipes |-> None]
  /\ stop = {}
  /\ wd = [p \in Pipes |-> "none"]
  /\ cb = [p \in Pipes |-> "idle"]
  /\ calls = <<>> /\ up \in BOOLEAN
  /\ sock = [l \in Lenses |-> "none"] /\ draining = {}
  /\ crashes = 0

\* a call on the session bus: one connection, so calls arrive in order; it
\* fails at once when nobody owns the name
Send(kind, l) ==
  /\ Len(calls) < MaxCalls
  /\ calls' = IF up THEN Append(calls, [kind |-> kind, lens |-> l]) ELSE calls

(***************************************************************************)
(* stop_model, also the first part of a load for another lens and the last  *)
(* thing the process does                                                   *)
(***************************************************************************)

EnterStop == /\ stop' = IF active = 0 THEN stop ELSE stop \cup {active}
             /\ main' = "join"

StopModel ==
  /\ main = "idle"
  /\ EnterStop
  /\ UNCHANGED <<modelVars, lock, want, made, pstate, plens, wd, cb, engineVars>>

\* Mutant: the watchdog is told to stop and not waited for.
JoinWatchdogNot ==
  /\ main = "join" /\ main' = "null"
  /\ UNCHANGED <<modelVars, lock, want, pipeVars, wd, cb, engineVars>>

\* the join ends with the thread, or after 3 seconds: only a call to the
\* video engine keeps a watchdog that long
JoinWatchdog ==
  /\ main = "join"
  /\ active # 0 => wd[active] \in {"done", "attach", "bus"}
  /\ main' = "null"
  /\ UNCHANGED <<modelVars, lock, want, pipeVars, wd, cb, engineVars>>

\* DetachSHM is called for the lens, if there is one
Detach == /\ IF lens = None THEN UNCHANGED calls ELSE Send("detach", lens)
          /\ main' = "detach"
          /\ active' = 0
          /\ UNCHANGED <<lens, model, interp, tracker, lock, want, made, plens, stop, wd, cb,
                         up, sock, draining, crashes>>

\* set_state(NULL) waits for the streaming thread to leave the callback
SetNull ==
  /\ main = "null"
  /\ active # 0 => cb[active] = "idle"
  /\ pstate' = IF active = 0 THEN pstate ELSE [pstate EXCEPT ![active] = "null"]
  /\ Detach

\* the call has returned; a load for another lens goes on
Cleared ==
  /\ main = "detach"
  /\ lens' = None /\ model' = None /\ interp' = None
  /\ tracker' = IF want = None THEN None ELSE want.model
  /\ main' = IF want = None THEN "idle" ELSE "swap"
  /\ UNCHANGED <<active, lock, want, pipeVars, wd, cb, engineVars>>

(***************************************************************************)
(* load_model                                                               *)
(***************************************************************************)

\* Mutant: a load for the lens that has a pipeline swaps its model.
LoadModelSwaps(r) ==
  /\ main = "idle" /\ made < MaxPipes
  /\ want' = r
  /\ \/ lens \notin {None, r.lens} /\ EnterStop /\ UNCHANGED tracker
     \/ /\ lens \in {None, r.lens}
        /\ tracker' = r.model /\ main' = "swap" /\ UNCHANGED stop
  /\ UNCHANGED <<active, lens, model, interp, lock, made, pstate, plens, wd, cb, engineVars>>

\* another lens is stopped first; a pipeline for this lens is kept as it is,
\* and so is its model
LoadModel(r) ==
  /\ main = "idle" /\ made < MaxPipes
  /\ \/ /\ lens \notin {None, r.lens}
        /\ EnterStop /\ UNCHANGED tracker
     \/ /\ lens \in {None, r.lens} /\ active = 0
        /\ tracker' = r.model /\ main' = "swap" /\ UNCHANGED stop
  /\ want' = r
  /\ UNCHANGED <<active, lens, model, interp, lock, made, pstate, plens, wd, cb, engineVars>>

\* with self._model_lock: the interpreter is replaced, then AttachSHM called
Swap ==
  /\ main = "swap" /\ lock = {}
  /\ interp' = want.model /\ model' = want.model /\ lens' = want.lens
  /\ Send("attach", want.lens)
  /\ main' = "attach"
  /\ UNCHANGED <<active, tracker, lock, want, pipeVars, wd, cb, up, sock, draining, crashes>>

\* the model file is missing, or the interpreter cannot be built from it
SwapFails ==
  /\ main = "swap" /\ lock = {}
  /\ interp' \in {interp, want.model}
  /\ main' = "idle" /\ want' = None
  /\ UNCHANGED <<active, lens, model, tracker, lock, pipeVars, wd, cb, engineVars>>

\* the call has returned; the pipeline is READY and its watchdog starts
Build ==
  LET p == made + 1
  IN  /\ main = "attach" /\ made < MaxPipes
      /\ made' = p /\ active' = p
      /\ pstate' = [pstate EXCEPT ![p] = "ready"]
      /\ plens' = [plens EXCEPT ![p] = lens]
      /\ wd' = [wd EXCEPT ![p] = "top"]
      /\ main' = "idle" /\ want' = None
      /\ UNCHANGED <<lens, model, interp, tracker, lock, stop, cb, engineVars>>

\* SIGTERM: the loop ends and the model is stopped
Quit ==
  /\ main = "idle" /\ active = 0 /\ lens = None
  /\ main' = "exited"
  /\ UNCHANGED <<modelVars, lock, want, pipeVars, wd, cb, engineVars>>

(***************************************************************************)
(* _socket_watchdog, one thread for each pipeline                           *)
(***************************************************************************)

WatchdogOnly == UNCHANGED <<modelVars, lock, main, want, made, plens, stop, cb,
                            up, sock, draining, crashes>>

\* os.path.exists(socket_path): the file, whether or not anybody serves it
WatchdogTop(p) ==
  /\ wd[p] = "top"
  /\ \/ /\ p \in stop
        /\ wd' = [wd EXCEPT ![p] = "done"]
        /\ UNCHANGED pstate
     \/ /\ p \notin stop /\ sock[plens[p]] # "none"
        /\ wd' = [wd EXCEPT ![p] = IF pstate[p] = "playing" THEN "bus" ELSE "late"]
        /\ UNCHANGED pstate
     \/ /\ p \notin stop /\ sock[plens[p]] = "none"
        /\ pstate' = [pstate EXCEPT ![p] = IF @ = "playing" THEN "ready" ELSE @]
        /\ wd' = [wd EXCEPT ![p] = "missing"]
  /\ UNCHANGED calls /\ WatchdogOnly

\* Mutant: the pipeline is started only the first time.
WatchdogPlayOnce(p) ==
  /\ wd[p] = "late"
  /\ wd' = [wd EXCEPT ![p] = "bus"]
  /\ pstate' = [pstate EXCEPT ![p] = IF sock[plens[p]] = "served" /\ @ = "null" THEN "playing" ELSE @]
  /\ UNCHANGED calls /\ WatchdogOnly

\* half a second later; the state change fails when nobody serves the socket
WatchdogPlay(p) ==
  /\ wd[p] = "late"
  /\ wd' = [wd EXCEPT ![p] = "bus"]
  /\ pstate' = [pstate EXCEPT ![p] = IF sock[plens[p]] = "served" THEN "playing" ELSE @]
  /\ UNCHANGED calls /\ WatchdogOnly

\* the feed is asked for again, every 30 seconds
WatchdogRetry(p) ==
  /\ wd[p] = "missing" /\ lens # None
  /\ Send("attach", lens)
  /\ wd' = [wd EXCEPT ![p] = "attach"]
  /\ UNCHANGED pstate /\ WatchdogOnly

\* it is not time yet; after ten seconds the pipeline goes to NULL
WatchdogWait(p) ==
  /\ wd[p] = "missing"
  /\ wd' = [wd EXCEPT ![p] = "bus"]
  /\ pstate' \in {pstate, [pstate EXCEPT ![p] = "null"]}
  /\ UNCHANGED calls /\ WatchdogOnly

WatchdogAnswered(p) ==
  /\ wd[p] = "attach"
  /\ wd' = [wd EXCEPT ![p] = "bus"]
  /\ UNCHANGED <<pstate, calls>> /\ WatchdogOnly

\* an error message resets the pipeline, through NULL and a second's sleep
WatchdogBus(p) ==
  /\ wd[p] = "bus"
  /\ wd' = [wd EXCEPT ![p] = "top"]
  /\ \/ UNCHANGED pstate
     \/ cb[p] = "idle" /\ pstate' = [pstate EXCEPT ![p] = "ready"]
  /\ UNCHANGED calls /\ WatchdogOnly

(***************************************************************************)
(* _on_new_sample, on the streaming thread of a pipeline that plays         *)
(***************************************************************************)

SampleOnly == UNCHANGED <<modelVars, main, want, pipeVars, wd, engineVars>>

SampleArrives(p) ==
  /\ pstate[p] = "playing" /\ cb[p] = "idle" /\ sock[plens[p]] = "served"
  /\ model # None /\ interp # None
  /\ cb' = [cb EXCEPT ![p] = "checked"]
  /\ UNCHANGED lock /\ SampleOnly

\* the lock is tried, never waited for
SampleLocks(p) ==
  /\ cb[p] = "checked" /\ lock = {}
  /\ lock' = {p}
  /\ cb' = [cb EXCEPT ![p] = "infer"]
  /\ SampleOnly

SampleSkips(p) ==
  /\ cb[p] = "checked" /\ lock # {}
  /\ cb' = [cb EXCEPT ![p] = "idle"]
  /\ UNCHANGED lock /\ SampleOnly

\* the buffer cannot be mapped: the callback returns with the lock held
SampleMapFails(p) ==
  /\ cb[p] = "infer"
  /\ cb' = [cb EXCEPT ![p] = "idle"]
  /\ UNCHANGED lock /\ SampleOnly

\* inference, tracking, publishing; an exception ends here as well
SampleDone(p) ==
  /\ cb[p] = "infer"
  /\ cb' = [cb EXCEPT ![p] = "idle"]
  /\ lock' = lock \ {p}
  /\ SampleOnly

(***************************************************************************)
(* The video engine                                                         *)
(***************************************************************************)

EngineOnly == UNCHANGED <<modelVars, lock, main, want, pipeVars, wd, cb>>

\* engine_attach_shm, engine_detach_shm: attaching again removes the branch,
\* and while one drains its name is taken and no other is added
EngineHandles ==
  /\ up /\ calls # <<>>
  /\ LET c == Head(calls)
     IN  /\ draining' = IF sock[c.lens] = "served" THEN draining \cup {c.lens} ELSE draining
         /\ sock' = [sock EXCEPT ![c.lens] =
                       CASE @ = "stale" -> "stale"
                         [] @ = "served" -> "none"
                         [] @ = "none" -> IF c.kind = "attach" /\ c.lens \notin draining
                                          THEN "served" ELSE "none"]
  /\ calls' = Tail(calls)
  /\ UNCHANGED <<up, crashes>> /\ EngineOnly

Drained(l) ==
  /\ l \in draining
  /\ draining' = draining \ {l}
  /\ UNCHANGED <<calls, up, sock, crashes>> /\ EngineOnly

\* an orderly stop removes the socket files, a crash leaves them
EngineGoes(file) ==
  /\ up /\ crashes < MaxCrashes
  /\ up' = FALSE /\ crashes' = crashes + 1
  /\ calls' = <<>> /\ draining' = {}
  /\ sock' = [l \in Lenses |-> IF sock[l] = "served" THEN file ELSE sock[l]]
  /\ EngineOnly

EngineStarts ==
  /\ ~up /\ up' = TRUE
  /\ UNCHANGED <<calls, sock, draining, crashes>> /\ EngineOnly

MainStep == JoinWatchdog \/ SetNull \/ Cleared \/ Swap \/ SwapFails \/ Build

WatchdogStep(p) == \/ WatchdogTop(p) \/ WatchdogPlay(p) \/ WatchdogWait(p)
                   \/ WatchdogAnswered(p) \/ WatchdogBus(p)

SampleStep(p) == SampleLocks(p) \/ SampleSkips(p) \/ SampleMapFails(p) \/ SampleDone(p)

Next == \/ StopModel \/ Quit \/ MainStep
        \/ \E r \in Requests : LoadModel(r)
        \/ \E p \in Pipes : WatchdogStep(p) \/ WatchdogRetry(p)
        \/ \E p \in Pipes : SampleArrives(p) \/ SampleStep(p)
        \/ EngineHandles \/ EngineStarts
        \/ \E l \in Lenses : Drained(l)
        \/ \E file \in {"none", "stale"} : EngineGoes(file)

(* Threads run; the video engine handles its calls, drains what it removes  *)
(* and is started again; a retry that is put off comes due.                 *)
Fairness ==
  /\ WF_vars(MainStep) /\ SF_vars(SetNull)
  /\ \A p \in Pipes : /\ WF_vars(WatchdogStep(p)) /\ SF_vars(WatchdogRetry(p))
                      /\ WF_vars(SampleStep(p))
  /\ WF_vars(EngineHandles) /\ WF_vars(EngineStarts)
  /\ \A l \in Lenses : WF_vars(Drained(l))

Spec == Init /\ [][Next]_vars /\ Fairness

(***************************************************************************)
(* Properties                                                              *)
(***************************************************************************)

(* An inference uses the interpreter and the tracker of the loaded model,   *)
(* on frames of the current lens: no load, stop or leftover watchdog swaps  *)
(* them under the callback, so what is published is labelled right.         *)
InferenceConsistent ==
  \A p \in Pipes : cb[p] = "infer" =>
    p = active /\ plens[p] = lens /\ model # None /\ interp = model /\ tracker = model

(* Only the active pipeline plays.                                          *)
StoppedStaysStopped == \A p \in Pipes : pstate[p] = "playing" => p = active

(* When nothing is under way, the video engine feeds no lens but the        *)
(* current one.                                                             *)
FeedsFollowLens ==
  (main \in {"idle", "exited"} /\ calls = <<>>) =>
    \A l \in Lenses : sock[l] = "served" => l = lens

(* What was stopped stays stopped, at both ends of the shared memory: a     *)
(* watchdog that outlives its join (ai_engine.py:317-318) neither plays the *)
(* old pipeline again nor has the old lens attached anew.                   *)
StoppedStays == StoppedStaysStopped /\ FeedsFollowLens

\* a call is handled while its caller waits for the answer, 25 seconds
InTime == calls # <<>> => main \in {"attach", "detach"} \/ \E p \in Pipes : wd[p] = "attach"

(* Once the video engine is no longer late with its calls, a pipeline plays *)
(* in the end, unless it is stopped, whatever was refused, answered too     *)
(* late or lost with the video engine before: a missing feed is asked for   *)
(* until it is there.  (While calls outlive their callers, a retry may meet *)
(* the feed of the one before and remove it.)  One case has no recovery,    *)
(* the file a crash of the video engine leaves: it passes for a feed        *)
(* (ai_engine.py:265) and none is asked for.                                *)
FeedComesBack ==
  <>[]InTime =>
    \A p \in Pipes :
      (active = p) ~> (active # p \/ pstate[p] = "playing" \/ sock[plens[p]] = "stale")

=============================================================================
