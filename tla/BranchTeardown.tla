--------------------------- MODULE BranchTeardown ---------------------------
(***************************************************************************)
(* The asynchronous removal of a branch from a capture pipeline            *)
(* (sys_capture.c).  capture_pipeline_remove_branch takes the branch out   *)
(* of the table and leaves an IDLE probe on its tee pad; the probe unlinks *)
(* the branch, sends EOS into it and arms a fallback timer; an EOS probe   *)
(* near the end of the branch replaces the timer by a "final" source (an   *)
(* idle, or 1000 ms for a recording); whichever source the main loop       *)
(* dispatches first runs the teardown.  They share a TeardownCtx, counted  *)
(* by hand.                                                                *)
(*                                                                         *)
(* Four threads meet here: the remover, the thread of the tee pad (IDLE    *)
(* probe), the thread of the branch (EOS probe) and the main loop.  An     *)
(* action is a step of one of them between two accesses to the ctx.        *)
(***************************************************************************)
EXTENDS Integers

CONSTANTS
    Branches,       \* instances of DynamicBranch, each attached at most once
    AiShm,          \* those called "ai_shm"; every other name is unique
    NoBranch,
    StopsMidway,    \* may the capture be stopped with a source pending?
    BranchFails     \* may a branch fail to build or link on its own?

ASSUME BranchesAssumption ==
    /\ AiShm \subseteq Branches
    /\ NoBranch \notin Branches
    /\ StopsMidway \in BOOLEAN
    /\ BranchFails \in BOOLEAN

VARIABLES
    live,           \* the capture has its GstPipeline
    phase,          \* branch -> where it is, IDLE probe callback included
    inBin,          \* branches whose elements are children of the pipeline
    refs,           \* branch -> ref_count of its TeardownCtx, 0 when freed
    done,           \* branches whose ctx is done
    timeout_id,     \* branches whose ctx holds the id of the fallback source
    probe,          \* branch -> the EOS probe: absent, set, or its callback
    due,            \* branch -> sources attached to the main context
    loop,           \* the main loop: idle, in AttachSHM, or dispatching
    runs            \* history: branch -> times its teardown ran

BTvars == <<live, phase, inBin, refs, done, timeout_id, probe, due, loop, runs>>

Sources == {"fallback", "final"}

\* removing: the IDLE probe is set; sent, armed, stored: in its callback.
Phases == {"absent", "failed", "attached", "removing",
           "sent", "armed", "stored", "left", "lost"}

InCallback == {"sent", "armed", "stored"}

ProbePC == {"none", "set", "cancel", "schedule", "leave"}
LoopPC == {"idle", "attach", "check", "clear", "null", "remove", "return"}
Dispatching == {"check", "clear", "null", "remove", "return"}

BTTypeOK ==
    /\ live \in BOOLEAN
    /\ phase \in [Branches -> Phases]
    /\ inBin \in SUBSET Branches
    /\ refs \in [Branches -> Nat]
    /\ done \in SUBSET Branches
    /\ timeout_id \in SUBSET Branches
    /\ probe \in [Branches -> ProbePC]
    /\ due \in [Branches -> SUBSET Sources]
    /\ loop \in [pc : LoopPC, branch : Branches \cup {NoBranch},
                 source : Sources \cup {"none"}]
    /\ runs \in [Branches -> Nat]

LoopIdle == [pc |-> "idle", branch |-> NoBranch, source |-> "none"]

BTInit ==
    /\ live = TRUE
    /\ phase = [b \in Branches |-> "absent"]
    /\ inBin = {}
    /\ refs = [b \in Branches |-> 0]
    /\ done = {}
    /\ timeout_id = {}
    /\ probe = [b \in Branches |-> "none"]
    /\ due = [b \in Branches |-> {}]
    /\ loop = LoopIdle
    /\ runs = [b \in Branches |-> 0]

Ref(b) == refs' = [refs EXCEPT ![b] = @ + 1]           \* _teardown_ctx_ref
Unref(b) == refs' = [refs EXCEPT ![b] = @ - 1]         \* _teardown_ctx_unref

PhaseTo(b, p) == phase' = [phase EXCEPT ![b] = p]
ProbeTo(b, p) == probe' = [probe EXCEPT ![b] = p]
LoopTo(p) == loop' = [loop EXCEPT !.pc = p]

----------------------------------------------------------------------------
(* add_branch, remove_branch, attach_ai_shm *)

\* An element name is already used in the bin: gst_bin_add only warns, the
\* link to the tee then fails.
NameTaken(b) == b \in AiShm /\ AiShm \cap inBin # {}

AddBranch(b) ==
    \/ ~NameTaken(b) /\ PhaseTo(b, "attached") /\ inBin' = inBin \cup {b}
    \/ /\ BranchFails \/ NameTaken(b)
       /\ PhaseTo(b, "failed")
       /\ UNCHANGED inBin

\* A stream's or a recording's branch, from any thread.
Attach(b) ==
    /\ live
    /\ b \notin AiShm
    /\ phase[b] = "absent"
    /\ AddBranch(b)
    /\ UNCHANGED <<live, refs, done, timeout_id, probe, due, loop, runs>>

\* AttachSHM removes the ai_shm branch in the table, if there is one ...
AttachShm(b) ==
    /\ live
    /\ loop.pc = "idle"
    /\ b \in AiShm
    /\ phase[b] = "absent"
    /\ phase' = [o \in Branches |-> IF o \in AiShm /\ phase[o] = "attached"
                                    THEN "removing" ELSE phase[o]]
    /\ loop' = [pc |-> "attach", branch |-> b, source |-> "none"]
    /\ UNCHANGED <<live, inBin, refs, done, timeout_id, probe, due, runs>>

\* ... and adds the new branch in the same handler, whether or not the IDLE
\* probe of the old one has fired.
AddShm ==
    /\ loop.pc = "attach"
    /\ AddBranch(loop.branch)
    /\ loop' = LoopIdle
    /\ UNCHANGED <<live, refs, done, timeout_id, probe, due, runs>>

\* The lookup, the removing flag and the steal: one section of branch_mutex,
\* so a second remover finds nothing.  The IDLE probe follows.
CaptureRemoveBranch(b) ==
    /\ phase[b] = "attached"
    /\ b \in AiShm => loop.pc = "idle"
    /\ PhaseTo(b, "removing")
    /\ UNCHANGED <<live, inBin, refs, done, timeout_id, probe, due, loop, runs>>

----------------------------------------------------------------------------
(* _unlink_and_cleanup_probe_cb, on the thread of the tee pad *)

\* Unlinks the branch, creates the ctx, sets the EOS probe and sends EOS.  A
\* branch without a pad to watch relies on the fallback alone.
Unlink(b) ==
    /\ phase[b] = "removing"
    /\ PhaseTo(b, "sent")
    /\ done' = done \ {b}
    /\ timeout_id' = timeout_id \ {b}
    /\ \/ ProbeTo(b, "set") /\ refs' = [refs EXCEPT ![b] = 2]
       \/ UNCHANGED probe /\ refs' = [refs EXCEPT ![b] = 1]
    /\ UNCHANGED <<live, inBin, due, loop, runs>>

\* Mutant: the timer is only armed for a branch without an EOS probe.
ArmUnwatchedOnly(b) ==
    /\ phase[b] = "sent"
    /\ PhaseTo(b, "armed")
    /\ IF probe[b] = "none"
       THEN due' = [due EXCEPT ![b] = @ \cup {"fallback"}] /\ Ref(b)
       ELSE UNCHANGED <<due, refs>>
    /\ UNCHANGED <<live, inBin, done, timeout_id, probe, loop, runs>>

\* EOS may have arrived, and the teardown may have run, before the timer
\* exists and before its id is stored.
ArmFallback(b) ==
    /\ phase[b] = "sent"
    /\ PhaseTo(b, "armed")
    /\ due' = [due EXCEPT ![b] = @ \cup {"fallback"}]
    /\ Ref(b)
    /\ UNCHANGED <<live, inBin, done, timeout_id, probe, loop, runs>>

StoreTimeoutId(b) ==
    /\ phase[b] = "armed"
    /\ PhaseTo(b, "stored")
    /\ timeout_id' = timeout_id \cup {b}
    /\ UNCHANGED <<live, inBin, refs, done, probe, due, loop, runs>>

LeaveCallback(b) ==
    /\ phase[b] = "stored"
    /\ PhaseTo(b, "left")
    /\ Unref(b)
    /\ UNCHANGED <<live, inBin, done, timeout_id, probe, due, loop, runs>>

UnlinkStep(b) ==
    Unlink(b) \/ ArmFallback(b) \/ StoreTimeoutId(b) \/ LeaveCallback(b)

----------------------------------------------------------------------------
(* _eos_probe_cb, on the thread of the branch *)

BeingDispatched(b, s) ==
    loop.pc \in Dispatching /\ loop.branch = b /\ loop.source = s

\* Clears timeout_id and calls g_source_remove: the reference the source had
\* is dropped at once, or by the dispatch that is under way.
CancelFallback(b) ==
    LET removed == b \in timeout_id /\ "fallback" \in due[b]
    IN /\ timeout_id' = timeout_id \ {b}
       /\ due' = IF removed THEN [due EXCEPT ![b] = @ \ {"fallback"}] ELSE due
       /\ IF removed /\ ~BeingDispatched(b, "fallback") THEN Unref(b)
          ELSE UNCHANGED refs

EosSent(b) == phase[b] \in {"sent", "armed", "stored", "left"}

\* The elements must still be running: loop.pc # "remove" is after NULL.
EosArrives(b) ==
    /\ EosSent(b)
    /\ probe[b] = "set"
    /\ ~(loop.pc = "remove" /\ loop.branch = b)
    /\ IF b \in done
       THEN ProbeTo(b, "leave")
       ELSE ProbeTo(b, "cancel")
    /\ UNCHANGED <<live, phase, inBin, refs, done, timeout_id, due, loop, runs>>

EosCancels(b) ==
    /\ probe[b] = "cancel"
    /\ CancelFallback(b)
    /\ ProbeTo(b, "schedule")
    /\ UNCHANGED <<live, phase, inBin, done, loop, runs>>

EosSchedules(b) ==
    /\ probe[b] = "schedule"
    /\ due' = [due EXCEPT ![b] = @ \cup {"final"}]
    /\ Ref(b)
    /\ ProbeTo(b, "leave")
    /\ UNCHANGED <<live, phase, inBin, done, timeout_id, loop, runs>>

EosLeaves(b) ==
    /\ probe[b] = "leave"
    /\ ProbeTo(b, "none")
    /\ Unref(b)
    /\ UNCHANGED <<live, phase, inBin, done, timeout_id, due, loop, runs>>

EosStep(b) == EosCancels(b) \/ EosSchedules(b) \/ EosLeaves(b)

----------------------------------------------------------------------------
(* _teardown_run, dispatched by the main loop *)

Dispatch(b, s) ==
    /\ loop.pc = "idle"
    /\ s \in due[b]
    /\ loop' = [pc |-> "check", branch |-> b, source |-> s]
    /\ UNCHANGED <<live, phase, inBin, refs, done, timeout_id, probe, due, runs>>

\* Mutant: done is set and never tested.
TeardownUnchecked ==
    /\ loop.pc = "check"
    /\ done' = done \cup {loop.branch}
    /\ LoopTo("clear")
    /\ UNCHANGED <<live, phase, inBin, refs, timeout_id, probe, due, runs>>

TeardownCheck ==
    LET b == loop.branch
    IN /\ loop.pc = "check"
       /\ done' = done \cup {b}
       /\ LoopTo(IF b \in done THEN "return" ELSE "clear")
       /\ UNCHANGED <<live, phase, inBin, refs, timeout_id, probe, due, runs>>

TeardownClear ==
    /\ loop.pc = "clear"
    /\ CancelFallback(loop.branch)
    /\ LoopTo("null")
    /\ UNCHANGED <<live, phase, inBin, done, probe, runs>>

\* Setting an element to NULL waits for the thread in its probe.
TeardownNull ==
    /\ loop.pc = "null"
    /\ probe[loop.branch] \in {"none", "set"}
    /\ LoopTo("remove")
    /\ UNCHANGED <<live, phase, inBin, refs, done, timeout_id, probe, due, runs>>

\* Leaving the bin frees the elements, and with them a probe still set.
TeardownRemove ==
    LET b == loop.branch
    IN /\ loop.pc = "remove"
       /\ inBin' = inBin \ {b}
       /\ runs' = [runs EXCEPT ![b] = @ + 1]
       /\ ProbeTo(b, "none")
       /\ IF probe[b] = "none" THEN UNCHANGED refs ELSE Unref(b)
       /\ LoopTo("return")
       /\ UNCHANGED <<live, phase, done, timeout_id, due>>

\* G_SOURCE_REMOVE: the source goes, if it has not gone already.
TeardownReturn ==
    LET b == loop.branch
    IN /\ loop.pc = "return"
       /\ due' = [due EXCEPT ![b] = @ \ {loop.source}]
       /\ Unref(b)
       /\ loop' = LoopIdle
       /\ UNCHANGED <<live, phase, inBin, done, timeout_id, probe, runs>>

MainLoopStep ==
    \/ \E b \in Branches, s \in Sources : Dispatch(b, s)
    \/ TeardownCheck \/ TeardownClear \/ TeardownNull \/ TeardownRemove
    \/ TeardownReturn \/ AddShm

----------------------------------------------------------------------------
(* capture_pipeline_stop and _free, from StopLens *)

\* Waits for the streaming threads; then the elements and their probes are
\* gone, and a branch whose IDLE probe has not fired is lost with its pad.
\* Sources of the main context stay attached.
StopCapture ==
    /\ live
    /\ loop.pc = "idle"
    /\ \A b \in Branches : phase[b] \notin InCallback /\ probe[b] \in {"none", "set"}
    /\ StopsMidway \/ \A b \in Branches : due[b] = {}
    /\ live' = FALSE
    /\ inBin' = {}
    /\ phase' = [b \in Branches |->
                   IF phase[b] \in {"attached", "removing"} THEN "lost"
                   ELSE phase[b]]
    /\ probe' = [b \in Branches |-> "none"]
    /\ refs' = [b \in Branches |-> IF probe[b] = "none" THEN refs[b] ELSE refs[b] - 1]
    /\ UNCHANGED <<done, timeout_id, due, loop, runs>>

BTNext ==
    \/ MainLoopStep
    \/ StopCapture
    \/ \E b \in Branches :
          \/ Attach(b) \/ AttachShm(b) \/ CaptureRemoveBranch(b)
          \/ UnlinkStep(b) \/ EosArrives(b) \/ EosStep(b)

BTSpec == BTInit /\ [][BTNext]_BTvars

\* Callbacks run to their end, the tee pad becomes idle between two buffers,
\* timers and idles are dispatched.  EOS need not arrive.
BTFairness ==
    /\ WF_BTvars(MainLoopStep)
    /\ \A b \in Branches : WF_BTvars(UnlinkStep(b)) /\ WF_BTvars(EosStep(b))

BTFairSpec == BTSpec /\ BTFairness

----------------------------------------------------------------------------
(* Properties *)

One(p) == IF p THEN 1 ELSE 0

SourceHolds(b, s) == s \in due[b] \/ BeingDispatched(b, s)

\* The count of a TeardownCtx is the number of those that will touch it
\* again: the callback that created it, the EOS probe and the two sources.
CtxCounted ==
    \A b \in Branches :
        refs[b] = One(phase[b] \in InCallback) + One(probe[b] # "none")
                        + One(SourceHolds(b, "fallback")) + One(SourceHolds(b, "final"))

\* The elements of a branch leave the bin, and its tee pad is released, at
\* most once, although timer and EOS may both have a source pending.
TornDownOnce == \A b \in Branches : runs[b] <= 1

\* Whichever of EOS, timer and teardown overtakes the others, nobody uses a
\* freed ctx, nobody frees it twice, and the elements go once (sys_capture.c:
\* 520-545, docs/CODEBASE_DOCUMENTATION.md:425).
TeardownIsExact == CtxCounted /\ TornDownOnce

\* A branch that was taken out of the table leaves the pipeline and its
\* TeardownCtx is freed, even if EOS gets stuck in its encoder: the EOS probe
\* never cancels the timer without a source to take its place.
RemovalCompletes ==
    \A b \in Branches : /\ (phase[b] = "removing") ~> (b \notin inBin)
                        /\ (phase[b] = "sent") ~> (refs[b] = 0)
=============================================================================
