--------------------------- MODULE SharedEncoder ---------------------------
(***************************************************************************)
(* The users of the shared-encoder table and everything that changes it:   *)
(*                                                                         *)
(*   - one RTSP media per factory (sys_rtsp.c), configured on the first    *)
(*     client and unprepared after the last, on gst-rtsp-server's threads; *)
(*   - one HLS generator per tier (sys_hls.c, engine_start_hls,            *)
(*     engine_stop_hls, the reaper in _log_system_stats);                  *)
(*   - engine_configure_lens, which mounts factories and rebuilds tiers,   *)
(*     and engine_stop_lens.                                               *)
(*                                                                         *)
(* D-Bus handlers and timers run on the main loop, one at a time: `main`   *)
(* is its program counter.  Media callbacks of one factory are sequential, *)
(* those of two factories are not.  A step ends where the code gives up    *)
(* mgr_lock or branch_mutex.                                               *)
(***************************************************************************)
EXTENDS StreamManager

CONSTANTS
    Factories,      \* objects that can serve as a mount's LazyRTSPData
    Third,          \* the tier that is always mounted
    NoFactory,      \* nothing mounted
    Ops,            \* which of "static", "cairo", "stop", "fail" occur
    MaxGen, MaxHandler, MaxCapture      \* bounds of the model

Users == Factories \cup Tiers           \* the HLS generator of t is named t

ASSUME UsersAssumption ==
    /\ IsFiniteSet(Users)
    /\ Factories \cap Tiers = {}
    /\ Third \in Tiers
    /\ NoFactory \notin Factories
    /\ MaxGen \in Nat /\ MaxHandler \in Nat /\ MaxCapture \in Nat

VARIABLES
    rtsp,           \* factory -> LazyRTSPData and where its media is
    mount,          \* tier -> mounted factory; also: tier is in branch_configs
    hls,            \* tier -> entry of hls_generators
    capture,        \* the lens's CapturePipeline
    main,           \* the main loop's program counter and locals
    held            \* history: user -> generation it acquired and still owes

engineVars == <<rtsp, mount, hls, capture, main>>
vars == <<streams, branches, nextGen, nextHandler,
          rtsp, mount, hls, capture, main, held>>

MediaPC == {"idle", "found", "acquired", "failed", "active", "leaving", "removing"}
MainPC == {"idle", "audit", "tiers", "name", "rmbranch", "force", "mount",
           "hlsstart", "reap", "release", "remove", "stopcapture"}

MediaRecord == [pc : MediaPC, tier : Tiers, cap : Nat, handler : Nat, dropped : Nat]

MainRecord == [pc : MainPC, todo : SUBSET Tiers, audit : SUBSET Tiers,
               tier : Tiers, gen : Nat]

EngineTypeOK ==
    /\ rtsp \in [Factories -> MediaRecord]
    /\ mount \in [Tiers -> Factories \cup {NoFactory}]
    /\ hls \in [Tiers -> [on : BOOLEAN, handler : Nat]]
    /\ capture \in [id : Nat, live : BOOLEAN]
    /\ main \in MainRecord
    /\ held \in [Users -> Nat]

TypeOK == SMTypeOK /\ EngineTypeOK

Idle == [pc |-> "idle", todo |-> {}, audit |-> {}, tier |-> Third, gen |-> 0]

Init ==
    /\ SMInit
    /\ rtsp = [f \in Factories |-> [pc |-> "idle", tier |-> Third, cap |-> 0,
                                    handler |-> 0, dropped |-> 0]]
    /\ mount = [t \in Tiers |-> NoFactory]
    /\ hls = [t \in Tiers |-> [on |-> FALSE, handler |-> 0]]
    /\ capture = [id |-> 0, live |-> FALSE]
    /\ main = Idle
    /\ held = [u \in Users |-> 0]

Mounted(t) == mount[t] # NoFactory
Retired(f) == rtsp[f].pc = "idle" /\ \A t \in Tiers : mount[t] # f
Alive(c) == capture.live /\ capture.id = c

\* Clients stop arriving once the generations or handlers are used up.
WithinBounds == nextGen <= MaxGen /\ nextHandler <= MaxHandler

----------------------------------------------------------------------------
(* RTSP: media-configure, in two critical sections *)

\* A client's request found the mounted factory, which has no media yet.
Connect(f) ==
    /\ WithinBounds
    /\ rtsp[f].pc = "idle"
    /\ mount[rtsp[f].tier] = f
    /\ rtsp' = [rtsp EXCEPT ![f].pc = "found"]
    /\ UNCHANGED <<smVars, mount, hls, capture, main, held>>

ConfigureAcquire(f) ==
    LET t == rtsp[f].tier
        c == rtsp[f].cap
    IN /\ rtsp[f].pc = "found"
       /\ AcquireExisting(t) \/ AcquireNew(t, c, Alive(c))
       /\ rtsp' = [rtsp EXCEPT ![f].pc = "acquired"]
       /\ held' = [held EXCEPT ![f] = AcquiredGen(t)]
       /\ UNCHANGED <<mount, hls, capture, main>>

\* No return value tells the server: the media plays on without an encoder.
ConfigureFails(f) ==
    /\ "fail" \in Ops \/ ~Alive(rtsp[f].cap)
    /\ rtsp[f].pc = "found"
    /\ AcquireFails(rtsp[f].tier)
    /\ rtsp' = [rtsp EXCEPT ![f].pc = "failed"]
    /\ UNCHANGED <<mount, hls, capture, main, held>>

ConfigureSubscribe(f) ==
    LET t == rtsp[f].tier
    IN /\ rtsp[f].pc = "acquired"
       /\ Subscribe(t)
       /\ rtsp' = [rtsp EXCEPT ![f] = [@ EXCEPT !.pc = "active",
                                                !.handler = SubscribedHandler(t)]]
       /\ UNCHANGED <<mount, hls, capture, main, held>>

----------------------------------------------------------------------------
(* RTSP: unprepared, in three; it runs for every media, configured or not *)

\* Mutant: the handler is left in the table for release to clean up.
UnpreparedKeepsHandler(f) ==
    /\ rtsp[f].pc \in {"active", "failed"}
    /\ rtsp' = [rtsp EXCEPT ![f].pc = "leaving"]
    /\ UNCHANGED <<smVars, mount, hls, capture, main, held>>

UnpreparedUnsubscribe(f) ==
    /\ rtsp[f].pc \in {"active", "failed"}
    /\ Unsubscribe(rtsp[f].tier, rtsp[f].handler)
    /\ rtsp' = [rtsp EXCEPT ![f].pc = "leaving"]
    /\ UNCHANGED <<mount, hls, capture, main, held>>

UnpreparedRelease(f) ==
    LET t == rtsp[f].tier
        g == DroppedBranch(t)
    IN /\ rtsp[f].pc = "leaving"
       /\ Release(t)
       /\ rtsp' = [rtsp EXCEPT
                    ![f] = [@ EXCEPT !.pc = IF g = 0 THEN "idle" ELSE "removing",
                                     !.dropped = g]]
       /\ held' = [held EXCEPT ![f] = 0]
       /\ UNCHANGED <<mount, hls, capture, main>>

UnpreparedRemoveBranch(f) ==
    /\ rtsp[f].pc = "removing"
    /\ RemoveBranch(rtsp[f].dropped)
    /\ rtsp' = [rtsp EXCEPT ![f] = [@ EXCEPT !.pc = "idle", !.dropped = 0]]
    /\ UNCHANGED <<mount, hls, capture, main, held>>

RtspStep(f) ==
    \/ ConfigureAcquire(f) \/ ConfigureFails(f) \/ ConfigureSubscribe(f)
    \/ UnpreparedRelease(f) \/ UnpreparedRemoveBranch(f)

----------------------------------------------------------------------------
(* HLS on the main loop *)

\* A generator that exists is only refreshed, which changes nothing here.
StartHls(t) ==
    /\ WithinBounds
    /\ main.pc = "idle"
    /\ ~hls[t].on /\ capture.live /\ Mounted(t)
    /\ AcquireExisting(t) \/ AcquireNew(t, capture.id, TRUE)
    /\ held' = [held EXCEPT ![t] = AcquiredGen(t)]
    /\ main' = [main EXCEPT !.pc = "hlsstart", !.tier = t]
    /\ UNCHANGED <<rtsp, mount, hls, capture>>

StartHlsFails(t) ==
    /\ "fail" \in Ops /\ WithinBounds
    /\ main.pc = "idle"
    /\ ~hls[t].on /\ capture.live /\ Mounted(t)
    /\ AcquireFails(t)
    /\ UNCHANGED <<engineVars, held>>

\* hls_generator_start and the insertion into hls_generators.
HlsSubscribe ==
    LET t == main.tier
    IN /\ main.pc = "hlsstart"
       /\ Subscribe(t)
       /\ hls' = [hls EXCEPT ![t] = [on |-> TRUE, handler |-> SubscribedHandler(t)]]
       /\ main' = Idle
       /\ UNCHANGED <<rtsp, mount, capture, held>>

\* The launch line does not parse: inserted all the same, never subscribed.
HlsLaunchFails ==
    /\ "fail" \in Ops
    /\ main.pc = "hlsstart"
    /\ hls' = [hls EXCEPT ![main.tier] = [on |-> TRUE, handler |-> 0]]
    /\ main' = Idle
    /\ UNCHANGED <<smVars, rtsp, mount, capture, held>>

\* g_hash_table_remove frees the generator, which unsubscribes it.  The
\* reaper takes any generator: how long it has been idle is not modelled.
RemoveHls(t, next) ==
    /\ main.pc = "idle"
    /\ hls[t].on
    /\ Unsubscribe(t, hls[t].handler)
    /\ hls' = [hls EXCEPT ![t] = [on |-> FALSE, handler |-> 0]]
    /\ main' = [main EXCEPT !.pc = next, !.tier = t]
    /\ UNCHANGED <<rtsp, mount, capture, held>>

StopHls(t) == RemoveHls(t, "release")
ReapHls(t) == RemoveHls(t, "reap")

\* The reaper's stream_manager_is_active; the release is another section.
ReapCheck ==
    LET t == main.tier
    IN /\ main.pc = "reap"
       /\ main' = IF Present(t) THEN [main EXCEPT !.pc = "release"] ELSE Idle
       /\ held' = IF Present(t) THEN held ELSE [held EXCEPT ![t] = 0]
       /\ UNCHANGED <<smVars, rtsp, mount, hls, capture>>

HlsRelease ==
    LET t == main.tier
        g == DroppedBranch(t)
    IN /\ main.pc = "release"
       /\ Release(t)
       /\ main' = IF g = 0 THEN Idle ELSE [main EXCEPT !.pc = "remove", !.gen = g]
       /\ held' = [held EXCEPT ![t] = 0]
       /\ UNCHANGED <<rtsp, mount, hls, capture>>

HlsRemoveBranch ==
    /\ main.pc = "remove"
    /\ RemoveBranch(main.gen)
    /\ main' = Idle
    /\ UNCHANGED <<rtsp, mount, hls, capture, held>>

----------------------------------------------------------------------------
(* ConfigureLens: audit, then one rebuild or mount per requested tier *)

\* A changed "cairo" sends the configured tiers outside the request to audit.
ConfigureLens(request, cairo) ==
    /\ main.pc = "idle"
    /\ cairo => "cairo" \in Ops
    /\ main' = [main EXCEPT !.pc = "audit", !.todo = request,
                  !.audit = IF cairo THEN {t \in Tiers \ request : Mounted(t)} ELSE {}]
    /\ UNCHANGED <<smVars, rtsp, mount, hls, capture, held>>

AuditTeardown(t) ==
    /\ main.pc = "audit"
    /\ t \in main.audit
    /\ ForceTeardown(t)
    /\ main' = [main EXCEPT !.audit = @ \ {t}]
    /\ UNCHANGED <<rtsp, mount, hls, capture, held>>

EnsureCapture ==
    /\ main.pc = "audit" /\ main.audit = {}
    /\ capture' = IF capture.live THEN capture
                  ELSE [id |-> capture.id + 1, live |-> TRUE]
    /\ main' = [main EXCEPT !.pc = "tiers"]
    /\ UNCHANGED <<smVars, rtsp, mount, hls, held>>

\* Parameters that fit the running branch are set on its elements.
DynamicUpdate(t) ==
    /\ main.pc = "tiers" /\ t \in main.todo
    /\ Mounted(t)
    /\ main' = [main EXCEPT !.todo = @ \ {t}]
    /\ UNCHANGED <<smVars, rtsp, mount, hls, capture, held>>

\* Codec, overlay or NTP changed: is_live is read, the factory unmounted.
StaticChange(t) ==
    /\ "static" \in Ops
    /\ main.pc = "tiers" /\ t \in main.todo
    /\ Mounted(t)
    /\ mount' = [mount EXCEPT ![t] = NoFactory]
    /\ main' = [main EXCEPT !.pc = IF Present(t) THEN "name" ELSE "force", !.tier = t]
    /\ UNCHANGED <<smVars, rtsp, hls, capture, held>>

ReadBranchName ==
    /\ main.pc = "name"
    /\ main' = IF Present(main.tier)
               THEN [main EXCEPT !.pc = "rmbranch", !.gen = streams[main.tier].gen]
               ELSE [main EXCEPT !.pc = "force"]
    /\ UNCHANGED <<smVars, rtsp, mount, hls, capture, held>>

\* The name is a pointer into the stream, used after mgr_lock is dropped: if
\* the stream was freed since, the bytes may still be there or may not.
RemoveLiveBranch ==
    /\ main.pc = "rmbranch"
    /\ \/ RemoveBranch(main.gen)
       \/ streams[main.tier].gen # main.gen /\ UNCHANGED smVars
    /\ main' = [main EXCEPT !.pc = "force", !.gen = 0]
    /\ UNCHANGED <<rtsp, mount, hls, capture, held>>

\* Mutant: a rebuild removes the branch and forgets the table entry.
RebuildWithoutTeardown ==
    /\ main.pc = "force"
    /\ main' = [main EXCEPT !.pc = "mount"]
    /\ UNCHANGED <<smVars, rtsp, mount, hls, capture, held>>

RebuildTeardown ==
    /\ main.pc = "force"
    /\ ForceTeardown(main.tier)
    /\ main' = [main EXCEPT !.pc = "mount"]
    /\ UNCHANGED <<rtsp, mount, hls, capture, held>>

\* The old factory lives on with its media; the new one shares the name.
MountFactory(f) ==
    LET t == main.tier
    IN /\ main.pc = "mount"
       /\ Retired(f)
       /\ rtsp' = [rtsp EXCEPT ![f] = [pc |-> "idle", tier |-> t, cap |-> capture.id,
                                       handler |-> 0, dropped |-> 0]]
       /\ mount' = [mount EXCEPT ![t] = f]
       /\ main' = [main EXCEPT !.pc = "tiers", !.todo = @ \ {t}]
       /\ UNCHANGED <<smVars, hls, capture, held>>

\* A tier of the request, or at the end `third`, that has no config yet.
NewTier(t) ==
    /\ main.pc = "tiers"
    /\ t \in main.todo \/ (main.todo = {} /\ t = Third)
    /\ ~Mounted(t)
    /\ main' = [main EXCEPT !.pc = "mount", !.tier = t]
    /\ UNCHANGED <<smVars, rtsp, mount, hls, capture, held>>

ConfigureDone ==
    /\ main.pc = "tiers" /\ main.todo = {}
    /\ Mounted(Third)
    /\ main' = Idle
    /\ UNCHANGED <<smVars, rtsp, mount, hls, capture, held>>

----------------------------------------------------------------------------
(* StopLens: the factories and configs go, then the capture *)

StopLens ==
    /\ "stop" \in Ops /\ capture.id < MaxCapture
    /\ main.pc = "idle"
    /\ mount' = [t \in Tiers |-> NoFactory]
    /\ main' = [main EXCEPT !.pc = "stopcapture"]
    /\ UNCHANGED <<smVars, rtsp, hls, capture, held>>

StopCapture ==
    /\ main.pc = "stopcapture"
    /\ capture' = [capture EXCEPT !.live = FALSE]
    /\ branches' = {}
    /\ main' = Idle
    /\ UNCHANGED <<streams, nextGen, nextHandler, rtsp, mount, hls, held>>

----------------------------------------------------------------------------

MainStep ==
    \/ HlsSubscribe \/ HlsLaunchFails
    \/ ReapCheck \/ HlsRelease \/ HlsRemoveBranch
    \/ \E t \in Tiers : AuditTeardown(t) \/ DynamicUpdate(t) \/ StaticChange(t) \/ NewTier(t)
    \/ \E f \in Factories : MountFactory(f)
    \/ EnsureCapture \/ ReadBranchName \/ RemoveLiveBranch \/ RebuildTeardown
    \/ ConfigureDone \/ StopCapture

Request ==
    \/ \E f \in Factories : Connect(f) \/ UnpreparedUnsubscribe(f)
    \/ \E t \in Tiers : StartHls(t) \/ StartHlsFails(t) \/ StopHls(t) \/ ReapHls(t)
    \/ \E request \in SUBSET Tiers, cairo \in BOOLEAN : ConfigureLens(request, cairo)
    \/ StopLens

Next == Request \/ MainStep \/ \E f \in Factories : RtspStep(f)

Spec == Init /\ [][Next]_vars

\* A callback or handler that has started runs to its end.  Nothing obliges a
\* client to come or go, or a request to be made.
Fairness == WF_vars(MainStep) /\ \A f \in Factories : WF_vars(RtspStep(f))

FairSpec == Spec /\ Fairness

----------------------------------------------------------------------------
(* Properties *)

\* The users that acquired generation g and have not released since.
Holders(g) == {u \in Users : held[u] = g}

TierOf(u) == IF u \in Tiers THEN u ELSE rtsp[u].tier

\* Without rebuilds, failures and StopLens the count of a stream is the
\* number of its users, and every user's stream is in the table: acquire and
\* release pair up over all interleavings of the RTSP threads with the main
\* loop (sys_stream.c:128-135, 225-231).
RefExact ==
    /\ \A t \in Tiers : Present(t) =>
          streams[t].ref = Cardinality(Holders(streams[t].gen))
    /\ \A u \in Users : held[u] # 0 => held[u] = streams[TierOf(u)].gen

\* Whatever happens, a stream in the table has at least one user who acquired
\* it, and is counted at most once per such user: releases that arrive for an
\* older generation, or for an acquire that failed, can only drop the count
\* too early, never leave an encoder running that nobody will release.
RefBound ==
    \A t \in Tiers : Present(t) =>
        streams[t].ref \in 1..Cardinality(Holders(streams[t].gen))

\* The user a subscription of tier t will call back.
Owners(t, h) ==
    {f \in Factories : rtsp[f].pc = "active" /\ rtsp[f].tier = t /\ rtsp[f].handler = h}
      \cup {u \in {t} : hls[u].on /\ hls[u].handler = h}

\* Every subscription belongs to exactly one user that is still there.
SubscriptionsOwned ==
    \A t \in Tiers : \A h \in streams[t].subs : Cardinality(Owners(t, h)) = 1

\* A user that streams from the generation it acquired is subscribed to it.
HoldersSubscribed ==
    \A t \in Tiers : Present(t) =>
        /\ \A f \in Factories :
              rtsp[f].pc = "active" /\ rtsp[f].tier = t /\ held[f] = streams[t].gen
              => rtsp[f].handler \in streams[t].subs
        /\ hls[t].on /\ hls[t].handler # 0 /\ held[t] = streams[t].gen
              => hls[t].handler \in streams[t].subs

\* Subscriptions are those of the users.  No path out of a session leaves one
\* behind, not even in a stream built by a rebuild after the user acquired, so
\* the user_data a callback gets has not been freed; and the stale unsubscribes
\* of older generations, which look the stream up by name, never take away a
\* handler that is not theirs (sys_stream.c:370-393).
UsersSubscribed == SubscriptionsOwned /\ HoldersSubscribed

\* A stream of the running capture has its branch in the pipeline, except
\* while the rebuild of its own tier is about to tear it down: between
\* remove_branch and force_teardown a client can still share the stream.
StreamsHaveBranches ==
    \A t \in Tiers : Present(t) /\ Alive(streams[t].cap) =>
        \/ streams[t].gen \in branches
        \/ main.pc = "force" /\ main.tier = t

\* Without rebuilds every encoder branch that has lost its last user leaves
\* the pipeline (sys_stream.h:35 "If refcount hits 0, the branch is removed.").
UnusedEncoderGoes ==
    \A g \in 1..(MaxGen + Cardinality(Users)) :
        (g \in branches /\ Holders(g) = {}) ~> g \notin branches

\* Without rebuilds, failures and StopLens the table, its users and the
\* branches are an on-demand encoder per tier (CODEBASE_DOCUMENTATION.md:601).
OnDemand == INSTANCE OnDemandEncoder WITH
    Keys <- Tiers,
    Clients <- Users,
    users <- [t \in Tiers |-> {u \in Users : held[u] # 0 /\ TierOf(u) = t}],
    encoder <- [t \in Tiers |-> streams[t].gen],
    lingering <- branches \ {streams[t].gen : t \in Tiers}

ImplementsOnDemand == OnDemand!Spec
=============================================================================
