# A verification project for the smart IP camera stack (BSP_IP)

TLA+ modules of the camera software under `src/codebase_c_parser_eos/src/` and of the
kernel driver of the head-mounted camera, TLC configurations that check them on small
instances, and theorems checked by TLAPS. Every definition is translated from the
source; `PROJECT.json` maps each one to its lines. Paths below are relative to
`src/codebase_c_parser_eos/src/` unless they begin with `src/`.

## The system

One engine process (`engine/`) owns the cameras ("lenses"). A lens has a capture
pipeline with a tee; each encoded tier (`main`, `sub`, `third`, ...) is a branch of that
tee built on demand and shared by RTSP clients and an HLS generator. A control plane
(HTTP, accounts) and two command line clients drive it over D-Bus; an AI engine takes
frames from it through shared memory and publishes boxes and alerts over ZeroMQ, which
the engine (to draw boxes, take pictures, record events) and an alert manager read.

| Component | State | Operations | Talks to |
|---|---|---|---|
| Shared-encoder table, `engine/subsystems/sys_stream.c` | `streams` ("lens:tier" to ManagedStream: count, subscribers, branch name), `mgr_lock`, `stream->lock` | acquire, release, force_teardown, subscribe, unsubscribe, `_on_new_sample` | capture pipeline; calls its subscribers back on the streaming thread |
| RTSP lazy factories, `sys_rtsp.c` | LazyRTSPData: settings, appsrc, handler id, `branch_lock`, count | media-configure, unprepared, buffer callback, dot dump | acquire and release by name; `config_mutex` |
| HLS generators, `sys_hls.c` | `hls_generators`, `is_active`, `lock` | start, stop, reap, buffer callback | same |
| Lens configuration, `main.c` | `branch_configs`, `rtsp_factories`, `captures` | ConfigureLens, StopLens, reaper, dumps | everything above |
| Encoder builder and dynamic update, `encoder_builder.c`, `main.c` | the elements of a branch, `pending_caps` on a pad | build, UpdateStreamParams, ToggleOverlay, ToggleNTP, the resolution probe | streaming thread |
| Capture pipeline, `sys_capture.c` | `dynamic_branches`, TeardownCtx | start, add, remove, IDLE and EOS probes, timers, the AI feed | GStreamer threads, main loop |
| Recording and scheduler, `sys_recording.c` | `recordings`, `scheduler_mutex`, watchdogs | start, stop, poke, overlap test, scheduler thread, shutdown | capture branches, ZeroMQ listener |
| Configuration store, `main.c:239-433`, `sys_config.c` | `user_config.json` and its `.bak`, `config_mutex` | save, rotate, load, recover, autostart | ConfigureLens |
| AI engine, `ai_engine/` | model, lens, pipeline, `_model_lock`, trackers | LoadModel, StopModel, SetAIConfig, watchdog, frame callback | engine over D-Bus, shared memory, ZeroMQ |
| Event broker and alert manager | queues, a ring of alerts | publish, receive, store | AI engine, engine |
| Mail, `control_plane/auth/smtp_sender.c` | picture directory, archive | load_config, send_snapshots | mail server |
| Accounts, `control_plane/core/auth.c`, `control_plane/auth/` | user table, pending, revoked, secret | login, second factor, reset, revoke, user management | database, mail |
| HTTP control plane and clients, `control_plane/`, `cli/` | one loop, activity log | routing, roles, bus calls with a timeout | engine, AI engine |
| SmartCamera server, `control_plane/high_feature_control_plane/` | user table, `_pending`, `_sessions`, `stream_pid`, a thread per connection | login, second factor, reset, user management, start and stop of a stream, device calls | database, a gst-launch child, mail |
| ICM-20948 driver, `src/Head_mount/.../icm20948.c` | chip registers, sensitivities | probe, ioctl, read, sysfs | I2C |

What is hard here, and what would make each part correct:

- *Shared encoders.* Three kinds of thread use one table by name, and a name outlives a
  stream. Counts must match clients; no client may lose an encoder it uses.
- *Delivery.* Callbacks run from a copy of the subscriber list after the lock is
  dropped, and teardown waits for the streaming thread while it holds a mutex.
- *Branch teardown.* Four threads share a hand-counted context; EOS and two timers
  overtake one another; StopLens frees everything under them.
- *A running branch.* The settings of a tier live in three places that every request
  writes in another order; a resolution changes while frames flow.
- *Recording.* Midnight, a clock that is set, a scheduler thread next to D-Bus handlers
  and a listener without a lock, timers with raw pointers.
- *Configuration.* A crash or a power cut between rename and write, two savers.
- *AI engine.* A video engine that answers late, stops, or dies and leaves its socket
  file; a watchdog that outlives its join; a lock one error path keeps.
- *Alerts.* Messages dropped on the way, identities of objects over frames, retries.
- *Commands.* A call that timed out is done later; three processes wait for one another.
- *Accounts.* Bounded tables, overwritten pending logins, restarts that lose tables.
- *SmartCamera server.* Every handler drops its lock between reading an entry and writing
  it back; a stop waits for a child that may end, or be replaced, by itself.
- *Driver.* No lock at all, a banked register file, transfers that fail.

`PROJECT.json` lists each of these under `hazards`, at its line, with the properties
that watch it, or the reason why none does.

## Modules

    OnDemandEncoder             what sharing promises, per tier
      ^ refined by
    SharedEncoder               users of the table: RTSP, HLS, ConfigureLens, StopLens
      EXTENDS StreamManager     the table: one operator per critical section
    StreamDelivery              samples, callbacks and mutexes around one stream
    BranchTeardown              the asynchronous removal of a branch
    LiveBranch                  what a branch runs with, against its configuration
    Recording                   recordings, scheduler, watchdogs, listener, shutdown
    ConfigStore                 the stored configuration
    AIEngine                    loading, watchdogs, the lock, AttachSHM
    AlertSystem                 Alerts composed with Mail over one directory
      EXTENDS Alerts            frames to boxes, alerts, pictures and the history
        EXTENDS Trackers EXTENDS Detections      pure operators
      INSTANCE Mail
    Control                     the path of a command through three processes
      EXTENDS CliCommands EXTENDS ControlRoutes  pure operators
    Accounts                    users, logins, tokens, restarts
    CameraServer                the SmartCamera server, one thread per connection
    AccessRoles                 the roles and their order, of ControlRoutes and Accounts
    Imu                         the kernel driver
    *_proofs                    theorems; MC* give TLC its constants

**StreamManager, SharedEncoder.** A stream is named by its *generation*, the instance
number in its branch name; the key is reused and the generation is not, which lets the
model tell a stale release from a proper one. Each operator of `StreamManager` is one
section under `mgr_lock` (or `branch_mutex`), and `SharedEncoder` takes a step per
section, so everything the code does between two sections can be interleaved. `rtsp[f]`
is a LazyRTSPData with the place its media is at; `mount` is the factory mounted on a
tier; `main` is the program counter of the main loop; `held` is a history variable, the
generation a user acquired and has not released. ConfigureLens is: audit (cairo changes
tear down the tiers outside the request), ensure a capture, then per tier a new mount, a
dynamic update or a static rebuild (read is_live, unmount, read the branch name, remove
the branch, force teardown, mount), and at the end `third` is mounted if it is not.
Reading the branch name after the lock is dropped may read freed memory: both outcomes
are allowed.

**StreamDelivery.** One stream, its consumers and five kinds of mutex. A section in
which nothing waits is one step guarded by "the mutex is free"; a mutex held while its
owner waits has an owner. Setting the appsink to NULL waits until `_on_new_sample` has
returned (`Silence`). `frame` is the copy of the subscriber list; `stale` the copied
Subscribers freed since, with three outcomes: the bytes are still there and the callback
is made, they are zero and the entry is skipped, or the thread is lost (`Stray`).

**BranchTeardown.** `phase[b]` is where a branch is, including the steps inside the IDLE
probe's callback; `probe[b]` the EOS probe; `due[b]` the sources attached to the main
context; `loop` the main loop's place in `_teardown_run`; `refs`, `done`, `timeout_id`
the fields of the TeardownCtx. An action is what one thread does between two accesses to
the context. The initial state is a capture that was created and started, which
ConfigureLens does in one go; a capture that does not start ends the process.

**LiveBranch.** Per tier `config` (BranchConfig), `factory` (the settings the RTSP
factory copied), `branch` (what the elements run with) and `pad` (the capsfilter, the
scaler and the probes between them). Every D-Bus handler is one step with all its
guards; frames, stream-start and CAPS are steps of the streaming thread. `behind` and
`spoiled` record which fields are known to be left behind, and which changes the probe
cannot finish; the properties say nothing of those and everything of the others. A string
used after it was freed has the value `Garbled`.

**Recording.** Objects are numbered, so that a freed one is distinct from its successor.
The scheduler's pass holds its mutex and visits the keys in any order; the listener
takes none, and a table changed under it ends the behaviour as `undefined`. `jumped`
says the clock was set since the last pass. `failed` is history.

**ConfigStore.** The contents of a file are one version per lens; `synced` says whether
they are on the disk. A save is four steps of its thread (read, test, rename, write);
a crash stops them anywhere, a power cut may also tear what was not synced. `kept` is
what a restart must find and `mishaps` what entitles it to less.

**AIEngine.** The main loop's place inside a D-Bus method, one watchdog and one sample
callback per pipeline, the calls the engine has not taken yet, and the socket file of
each lens with or without a server. An engine call returns at any time once it is sent.

**Detections, Trackers, Alerts, Mail, AlertSystem.** Frames are small sets of candidate
boxes in the real 640 by 360 picture with integer arithmetic. Each post-processor's
filters, suppression and matching are choices of indices from a sequence: a greedy loop of
the code is the one subset in which an item is taken exactly if nothing taken beats it
(`Greedy`), a sort is the place each item has (`Arranged`). `OnNewSample` is the whole callback: detections, tracker, snapshot threshold, coords heartbeat, publication.
A publisher sends to those connected and drops what does not fit. Confidences are in percent.

**ControlRoutes, CliCommands, Control.** A request is its path, members and role;
`Refusal` is the list of checks of its handler in their order and `Call` the bus call it
becomes. `LocalEnds` is every way out of a handler that makes no call: the status, what
took place, and the lines the activity log gets. A handler that ignores a result (`fork`,
`system`, an SQL statement, a mail) has two ways out with one status; a line is `under` the
account of the caller or of the target, and `by` says whether its details name the caller.
`Commands` is every command of the two clients with what it is for. `Control`
sends them through the loop, the queues of the two services and their timeouts; what a
command does there is one `effects` entry. Whether the account a users command names exists
follows from the requests before it (`UserExists`). `Misdirected` lists the nine commands
whose request is routed, filled or spelt otherwise than the other side expects;
`SuccessMeansDone` also checks that none of them ever does what it is for. `Unchecked`
lists the operations whose result no handler looks at.

**Accounts.** One action per handler; passwords are a length and the character classes
present, checked by `PolicyErrors`; the secret is a number per run of the process.

**CameraServer.** `work[c]` is where the thread of connection `c` is and what it copied
before it let go of a table: a step is one stretch between two places where another
thread can come in. `kids`, `ended` and `stream_pid` are the children, those that exited
and the one the server remembers; `awaited` is held from the SIGTERM of stop-stream until
the child is reaped, as `stream_mutex` is. `proven` and `raced` are history: who entered a
code or a TOTP that no reset has used, and whose pending entry two requests have handled
at once. `MCAccounts` checks it next to `Accounts`: the two servers share nothing, and one
of them runs.

**Imu.** A call is a sequence of sections, each a bank and its transfers; callers
interleave at each transfer.

## Runs

| Run | What it asks | Properties |
|---|---|---|
| `encoder_sharing` | Two RTSP factories and two HLS generators come and go on two tiers, nothing is rebuilt. | `RefExact`: a stream is counted once per user. `ImplementsOnDemand`: under the mapping of `SharedEncoder`, every step is one of `OnDemandEncoder` (or none). `UnusedEncoderGoes`: an encoder whose last user left leaves the capture. |
| `encoder_rebuild` | One tier, both factories, and everything that can go wrong at once: static rebuild, cairo audit, an acquire that fails, StopLens. | `RefBound`: a stream in the table is counted between one and the number of users that acquired it. `UsersSubscribed`: a user that streams from the generation it acquired is subscribed to it, and every subscription has exactly one user that is still there. `StreamsHaveBranches`: every stream in the table has its branch, except between the two steps of its own rebuild. |
| `stream_delivery` | Samples to two RTSP sessions and HLS while sessions configure and leave and the tier is rebuilt. | `StreamOutlivesCallbacks`: a stream is not freed while its sample is delivered. `PushesToOpen`: a buffer goes only into an appsrc that stays open until the push returns. `CyclesNeedConfigure`: every cycle of waiting threads has a session in media-configure. `SamplesFinish`: a delivery ends, unless there is such a cycle. |
| `branch_teardown` | An encoded branch and the AI branch removed together, StopLens midway. | `TeardownIsExact`: the count of a context is the number of callbacks that will still use it, and a branch is taken down once. `RemovalCompletes`: the branch leaves and the context is freed, also without EOS. |
| `live_branch` | Two tiers through updates, toggles, reconfigurations, clients that come and go. | `RunningMatchesConfig`: a branch runs with what its configuration says, but for the fields in `behind`. `FlowFits`: with no probe in the way, frames have the size the capsfilter asks for. `ResolutionSettles`: a change of resolution ends with the new size flowing, but for the changes in `spoiled`. |
| `recording` | Two tiers recorded on demand, by schedule and on alerts; failed attaches, a clock that is set, shutdown. | `RunningReachable`: no running recorder is lost from the table. `FollowsSchedule`: while the scheduler sleeps and nothing is due, what should record does, unless its attach failed, and nothing else. `ConflictsAreReal`: a schedule is refused only for a window that does overlap, and windows inside one day never slip through. `EventRecordingEnds`: once alerts cease. |
| `config_store` | Two savers; failing writes, crashes and power cuts at every step, restarts. | `SettingsSurvive`: a restart finds what was stored unless one of three named mishaps took place. |
| `ai_engine` | Two lenses and models; a video engine that answers late, stops or crashes. | `InferenceConsistent`: a frame is judged by one whole model. `StoppedStays`: nothing brings back a pipeline that was stopped. `FeedComesBack`: once calls are handled while their callers wait (`InTime`), the active pipeline plays in the end, whatever was refused, late or lost before; the one exception is the socket file a crash left, which passes for a feed for ever. |
| `alerts` | Two lenses watched by each of the models, frames that overlap, empty and return; lost messages, restarts, mails that fail. | `HistoryIsRecent`: the ring holds the latest alerts received. `AlertedOnce`: one alert per violator for as long as he is followed. `EachIsFollowed`: each detection has its own track. `LeavesWhenDelivered`: a picture leaves the directory only for recipients who have it. `StaleBoxesVanish`: with a model on the lens and the engine up, a deserted picture ends without boxes. |
| `control` | Every command of the two clients by an administrator and a viewer, against a second one. | `SuccessMeansDone`: what is reported as done was done. The exceptions: a tick of the menu, which looks only at the HTTP status; the operations of `Unchecked`, answered 200 with their result ignored; `Misdirected`, which never do it. `FailureMeansUndone`: of what is reported as an error nothing took place, `MayLeave` excepted, and nothing is under way. `AckIsFinal`: once the engine has done a command, no older one can undo it. `LogAgrees`: what the control plane did itself, except the three handlers of `Unlogged`, has a line that says so and names who asked, as has every refusal for a role; a line of something done belongs to a request answered so, a line of a failure to one answered with an error, and the words of `Known` are written only of what took place. What the engines do is never in the log. `LogoutStopsCommands`: after a logout only a call that had timed out, or lost its service, may still take effect. `AnsweredEventually`. |
| `accounts` | Two accounts, logins and resets over one pending slot, a restart; the same for the SmartCamera server with two threads inside its handlers. | `LogoutIsFinal`: a token logged out is never valid again, also after a restart. `CodeIsFresh`: a pending login takes only the last mailed, unspent code. `OneStream`: a child that streams and was not reaped is the one `stream_pid` names. `AccountsChangeByProof`: an account keeps its role, address and authenticator, and its password changes by a proof no reset has used, unless two requests about its entry overlapped. |
| `imu` | Two processes and the probe, one failing transfer. | `BankOwned`: the chip is outside bank 0 only inside a section of a call, or after a failed `bank_select`. `ScaleFollowsRange`: the sensitivity reported is that of the range set. |

Some of these hold only under a condition that names the exception the code makes
(`behind`, `spoiled`, `mishaps`, a session in media-configure, a failed bank select).
Each exception is as narrow as the checks allow: removing it makes the run fail, and what
it stands for is listed under *Disagreements met while modelling*.

### Bounds

- `encoder_sharing`: 2 tiers, 2 factories per capture, `MaxGen` 2 instances per tier,
  `MaxHandler` 3 handler ids, one capture. A third factory adds a user, not a kind of user.
- `encoder_rebuild`: one tier (`third`, which ConfigureLens also mounts by itself), the two
  factories interchangeable (SYMMETRY; only invariants are checked), 2 instances,
  2 handler ids, 2 captures: a rebuild needs an old and a new of each.
- `stream_delivery`: two sessions and HLS, so `MaxSubscribers` is 2 instead of 16 and the
  third subscription meets the full table.
- `branch_teardown`: one branch of each kind, the build may fail, StopLens once.
- `live_branch`: two tiers, three sizes, hardware encoder and cairo; `MaxRequests` 2 counts
  the requests that reach a configured tier.
- `recording`: a day of `Day` 3 ticks and a `Horizon` of 4, so a daily window wraps once;
  2 records, 2 alerts, sleeps of 1 and 2, and `CatchUp` 1 tick as the rest of a `once`
  window that is still worth starting for.
- `config_store`: 2 lenses, of which one is in the shipped configuration; 3 versions, so
  that the file, its backup and the running settings may all differ.
- `ai_engine`: 2 lenses, 2 models, 2 pipelines (a swap needs two), 1 crash, 1 call under way;
  287 336 distinct states.
- `alerts`: `Smoothing`, `Lag`, `RingSize` and `Hwm` 2, `MaxGone`, `SavedMax`, `Heartbeat`,
  `Cooldown` 1: each limit is met within the `MaxScenes` 2 frames, `MaxLoads` 2 loads,
  `MaxSent` 3 and `MaxEvents` 2. Mail: 1 recipient of 2, 1 batch, 2 pictures, 2 attempts,
  1 job, started when no frame is left to show: the directory is all the two halves share.
- `control`: 2 clients, every command first and one of three rivals second; 1 crash; 690 145
  distinct states. One rival overtakes a call that timed out, one keeps the AI engine busy,
  one logs out: the three ways a second request changes what the first comes to.
- `accounts`: 2 users, 2 passwords of which one passes the policy, 2 codes, 1 pending slot
  (a second login must evict), codes of 1 tick, tokens that expire at the next one, 2 ticks,
  2 tokens, 1 restart. Of the SmartCamera server: 2 threads, 2 pids, 1 session and 1
  pending slot, lives of 1 tick. It is either working its stream or its accounts
  (`StreamIsWorked`, `AccountsAreWorked`): the two share only sessions, and a behaviour is
  followed until two requests of one user race, after which nothing is promised of him.
- `imu`: range 2 of the four, 2 samples per read, 1 failing transfer.

### Fairness

- `SharedEncoder`: a handler that runs on the main loop and a factory callback that began
  go on (weak). No client is assumed to come or to leave.
- `StreamDelivery`: strong fairness of each thread's steps. A mutex is contended, and
  GLib's are granted in the end; nothing is assumed of a thread that waits in a cycle.
- `BranchTeardown`: the main loop dispatches attached sources, GStreamer runs an IDLE probe
  and an EOS callback it has begun. That EOS arrives is *not* assumed: the fallback timer
  is there for that.
- `LiveBranch`: the stream starts, frames and CAPS events pass once they are due.
- `Recording`: the main loop dispatches a timeout that is due and a poke. The scheduler
  thread and the clock may stop.
- `AIEngine`: its main loop, watchdogs and callbacks run; the video engine takes calls,
  restarts after a crash and drains a socket. Strong fairness where another thread can
  disable the step for a while (setting a pipeline to NULL, the watchdog's retry).
- `AlertSystem`: the engine's listener reads its queue, and time or empty frames go on.
- `Control`: only the control plane's loop and its timeouts. Neither service is assumed
  to do anything, which is what the timeouts are for.

### Deadlock

`encoder_sharing`, `encoder_rebuild` and `live_branch` are checked for deadlock. The others
may stop: their bounds are used up (no request, restart or call is left), and in
`stream_delivery` the program itself can stop, which `CyclesNeedConfigure` describes. In
`recording` the behaviours `undefined` are ends too.

## Proofs

TLC checks the instances above; the theorems hold for every value of the constants that
satisfies the named assumptions of the module (`UsersAssumption`, `NamesAssumption`,
`BranchesAssumption`, `LiveBranchAssumption`, `KeysAssumption` with `BoundAssumption`,
`WaitAssumption`, `RequestAssumption` and `NoneAssumption`, `ConfigAssumption` and
`FileAssumption`, `FrameAssumption`, `TrackerAssumption`, `AlertsAssumption`, `AccountsAssumption`, `CameraAssumption`,
`ControlAssumption`, `PipesAssumption`, `ImuAssumption`). They only say that bounds are
numbers, that sets of names are disjoint or finite, that "nothing" is not a value, that a
frame is a list of boxes with whole coordinates, and that the numbers in a request are numbers or absent (`LiveBranch`: the handlers
read them as JSON numbers).

| Module | Theorems | Argument |
|---|---|---|
| `SharedEncoder_proofs` | `TypeCorrect`, `RefCountBounded` | `RefBound` alone is not inductive: a release acts by key. `RefInv` adds that generations are never reused (`GenInv`), that a stream is released under its own name (`TierInv`) and that only a user between its acquire and its release owes anything (`OwedInv`). Adding or dropping a holder changes a cardinality by one (`AddHolder`, `DropHolder`); one lemma per kind of step. |
| | `SubscriptionsExact` | `SubInv`: handlers are issued once (`HandlerInv`), each is that of a user streaming from the tier (`OwnerInv`), and whoever streams from the generation it acquired is in the list (`SubscribedInv`). |
| | `BranchesPresent` | `BranchInv`: the branch a thread is about to remove is that of no stream, or of the tier being rebuilt (`RtspRemoves`, `MainRemoves`); no stream is on a capture yet to be made. |
| | `RefCountExact`, `EncoderOnDemand` | For `Ops = {}`, without which both are false: the code's release by name after a rebuild takes away a reference of another stream. The main loop then never reaches the places of a rebuild and the capture stays (`QuietInv`), so whoever acquired owes a release and the stream it owes it to is there (`HeldInv`). The refinement is proved step by step: each action is a step of `OnDemandEncoder` or a stutter under the mapping. |
| `Pipeline_proofs` | `TypeCorrect`, `NoLockIsLeaked`, `DeadlocksNeedConfigure`, `PushesOnlyToOpen`, `StreamsOutliveCallbacks` | Of `StreamDelivery`. `LockInv` fixes which mutexes a thread has at each place. A cycle needs a thread that holds one of the locks the next waits for; without a session in media-configure the places leave no such chain. `OpenInv` says that `lock` or `branch_lock` is held for the whole of a push. |
| | `CtxAlwaysCounted`, `TeardownRunsOnce`, `TeardownExact`, `TeardownTypes` | Of `BranchTeardown`. The count (`CtxCounted`) is not inductive: that arming a timer or the EOS source adds a holder that was not there needs `SourceInv`, that a removal starts from zero needs `FreshInv`, and both need the place of the main loop (`LoopInv`); `OnceInv` ties `done` to the number of teardowns run. |
| `LiveBranch_proofs` | `FramesFit` | `PadInv`: each pad is `Fitting`: the flowing size is the filter's, or a probe holds it. |
| | `BranchesMatch` | `HealthInv`: every running tier has a config and is `Healthy`, a predicate of the settings alone, so that each part of an update (size, rate, bit rate, overlay) is a lemma about one settings record. |
| `Evidence_proofs` | `TypeCorrect`, `NoRecorderStranded`, `EventsAreWatched` | Of `Recording`. `IInv`: the table owns each record once, only made records run, a running one is in the table or in the hands of the call removing it, and a running event recording has its watchdog. |
| | `SchedulesFollowed` | `SchedInv`: the wake-up the scheduler sleeps for is not after the next edge of any window (`NextAhead`, `SleepIsShort`), and what its pass has looked at is as it should be (`PassSoFar`). |
| | `ConflictsReal` | From the types: a lemma per pair of modes gives the tick both windows contain. |
| | `HistoryKeepsTheLast` | Of `AlertSystem`. `HistoryInv`: `head` counts what was received, and every alert less than a ring old is in its slot; the slot written next is that of none of them (`SlotsApart`). |
| | `PicturesReachPeople` | `PicturesInv`: what a job took for sent is in a letter, unless it is a dry run, which removes nothing. |
| | `NobodyAlertedTwice` | Of `AlertSystem`, for any frames. `OnceInv`: the tracks of the tracker have ids of their own, all below `next` (`TrackerOK`), and whoever was alerted since the load and the last clearing of `saved_violations` is remembered or not followed any more (`SentOnce`). First that the code's loops are well defined: the greedy choice exists and is the only one (`GreedyExists`, from the surest item of a finite set), picking and sorting give every chosen item one place. From there one lemma per post-processor: ids are handed out in order and once (`Continues`), alerts are for objects followed and not remembered, which then are (`Remembers`), or the memory was just emptied (`Emptied`), which raises `forgot`. |
| | `DetectionsAreFollowed` | `FollowInv`, with `OnceInv`: every track has a box of whole coordinates and a count of missed frames. Overlaps are fractions, compared by their products: that order is total (`PairsOrdered`), so the greedy choice is a matching (`PairsMatch`); tracks seen and detections then correspond one to one (`Matched`, `StableFollows`), and what is picked, clipped or united of boxes are boxes again (`HelmetsBoxed`, `GroupsBoxed`). |
| `ConfigStore_proofs` | `TypeCorrect`, `SettingsAreKept` | `IInv`: what a saver has read is sound (`ReadSound`), what must be kept is in a file or about to be (`Stored`, `Quiet`), and a file is never newer than what was stored (`Dated`, `Fresh`). |
| `ControlPlane_proofs` | `LogoutsAreFinal`, `CodesAreFresh`, `RestartsKeepAccounts` | Of `Accounts`. Tokens carry the secret of the run that signed them (`Signed`), and a token logged out in this run is in its table (`Remembered`); `CodeIsFresh` is inductive once the tables have their shape (`Shaped`). |
| | `PathIsInvariant`, `AcknowledgedIsFinal`, `ErrorsAreErrors`, `TheLogAgrees`, `NothingAfterLogout` | Of `Control`, for any number of clients, requests and crashes, and any of the commands. `PathInv` says where each request is and who may still act on it: what the queues hold belongs to requests that were taken (`RequestInv`, `QueueInv`), the AI engine works on one of them and asks the engine in its name (`AiOwn`, `AiAsks`), and what took place did so for a request that was entitled to it (`DoneInv`). A step takes or ends at most one request (`Step`) and places an operation only for the one it takes or for one still open (`Places`), from which each property follows as an action property. About the tables the proof needs three facts, proved handler by handler: a command that is not public asks for a token (`TokenAsked`); each way out of each handler tells what it did, names the caller, and its words fit its status (`Tells`, `EndsTell`); the lines of a refusal are those of its status (`RefusalsTell`). `LogInv` adds that lines are only of requests that are over, so that no later step can change what a line says of them. |
| | `CameraTypes`, `OneStreamRuns` | Of `CameraServer`. A child that streams is safe from a stop in progress because the thread that waits is alone, holds the mutex and waits for the remembered child (`StreamHeld`). |
| | `PasswordsChangeByProof` | `ProofInv`: until two requests about a user overlap, one thread at most handles his entry; a proof in the entry, or in the copy a thread will write back, is one no reset has used, or the reset that used it is about to delete the entry (`ProofKept`). |
| `AIEngine_proofs` | `InferencesAreConsistent`, `StoppedPipesStay` | A pipeline that is not the active one is `Retired`: told to stop, with its watchdog past the places where it could play or ask again (`PipesInv`). What is loaded agrees with the active pipeline (`LoadInv`). A lens that is not the current one is `Settled`: a feed it has, or is being asked for, is followed by a detach in the queue (`FeedInv`). |
| `Imu_proofs` | `TypeCorrect`, `BankIsOwned` | `BankOwned` is inductive once each caller is known to be in a place of its program (`Placed`) and every program is bracketed: its last section is in bank 0 and no call returns early from another bank (`Programs`). |
| | `ScaleFits` | `ScaleInv`: while nothing was dropped or overlapped, the scale follows the range or a call that will make it follow is under way, at a known place of its program. |

Every strengthening was checked as an invariant of the run before it was proved.

Only model-checked: every liveness property, and `SuccessMeansDone` of
`Control`. Liveness under fairness and ENABLED are beyond this prover;
`SuccessMeansDone` compares the request each of some eighty commands becomes with what the command is for, a
finite table without parameters that TLC evaluates entirely (the run `control` issues every
one of them). `TypeOK` of `Control` and `AlertsTypeOK` of `AlertSystem` are checked by
adding them to the runs, which otherwise do not repeat them.

## Disagreements met while modelling

Where the code does not do what its comments or documents say, the model does what the
code does, and the property is stated so as to leave exactly that case out.

Streams and branches
- After a static rebuild a session of the old factory releases *by name* and so takes away
  a reference of the new stream (`sys_rtsp.c:326`); `CODEBASE_DOCUMENTATION.md:601` says
  the last client destroys it. Hence `RefBound`, with `RefExact` only without rebuilds.
- A callback may still be made after `unsubscribe` returned, from the copied list
  (`sys_stream.c:466`; `sys_rtsp.c:301-302` relies on the contrary). `PushesToOpen` shows
  that the locks still prevent a push into a closed appsrc, when the memory is intact.
- Setting the appsink to NULL under `mgr_lock` (`sys_stream.c:242`) waits for a delivery
  that may wait for a `branch_lock` whose owner waits for `mgr_lock`; the comment at
  `:254-258` speaks of avoiding this.
- A cairo audit tears the stream down and leaves its branch attached; StopLens frees the
  capture and leaves the streams in the table; an AttachSHM while one is attached adds
  nothing; a teardown may run after its capture was freed (hence `StopsMidway`).
- Media-configure builds from the factory's copy (`sys_rtsp.c:206-231`) although
  [FIX-STALE-CFG] above it says the latest settings are used: an update of frame rate,
  size or bitrate is lost at the next RTSP connection, and asking for it again is skipped
  as already made. HLS uses the live configuration.
- ConfigureLens stores the new settings before it calls `engine_update_stream`, which then
  finds nothing to do; asking for the size the filter already has arms a probe whose CAPS
  never comes and the tier is frozen until it is rebuilt. `main.c:957-960` calls the probe
  stable regardless of hardware latency; `spoiled` names the cases where it is not.
- A static rebuild that omits resolution or encoder uses strings of the freed
  configuration (`main.c:755-765`).
- A frame rate of 0 gives a bitrate of 0, below the clamp's own minimum, and no key
  frames; the first build does not clamp; an update of an idle tier bypasses the limits of
  `third`; `bitrate_mode` is never stored.
- ToggleOverlay never changes the configuration; ToggleNTP with a tier changes it and
  answers an error.

Recording and configuration
- A `once` recording that never ran is never marked finished (`sys_recording.h:47`).
- The overlap test unrolls a single day (`sys_recording.c:315`, `:331`) and may miss an
  overlap of windows that leave their day, which `ConflictsAreReal` therefore leaves out.
- The listener and StopLens go through `recordings` without the mutex.
- `sys_config.c:106-108` promises to save a clean copy again, which it does not when
  the file is malformed; `:101-103` says the backup always holds the last committed
  version, which a second save by the same engine, or a crash, makes false; a crash in the
  middle of the autostart after a recovery loses the other lens. These are `mishaps`.
- SaveCurrentConfig drops overlay, cairo, AI and recordings; AI thresholds are stored but
  not loaded; a configuration given on the command line never uses its backup.

Alerts and mail
- `triple_riding` and `helmet` return early on an empty frame without ageing the tracker;
  the centroid tracker ignores a vehicle when it has as many tracks as vehicles and has no
  distance limit. Riding and overspeed alerts carry no confidence and pass only a
  threshold of 0. An object is marked as alerted before the threshold is applied and so may
  never be alerted. No person is alerted in the first 30 s of uptime.
- After the AI engine crashed its last boxes stay drawn (`StaleBoxesVanish` is under the
  assumption that frames, even empty ones, go on). Loading a model on a lens that has another
  does nothing.
- Nobody reads the alert manager's ring and nothing calls `send_snapshots`, although
  `smtp_sender.c:5` says the alert manager does; pictures beyond 64 batches or 256 files
  are left out with `all_ok` true (`smtp_sender.h:85`); the cooldown of pictures starts
  even when the picture fails.
- `ai_engine.py:499` returns with `_model_lock` held when a frame cannot be mapped.
- A crash of the video engine leaves its socket file, `os.path.exists` (`ai_engine.py:265`)
  takes it for a feed, and AttachSHM is not asked for again: that lens stays without AI until
  somebody removes the file. While the engine answers later than the 25 s its caller waits,
  a repeated AttachSHM removes the branch the one before added.

Control and accounts
- The nine `Misdirected` commands; `record_stop` of another tier stops `main`; resets are
  stubs; an invalid log level is forwarded and answered ok; a menu shows success for an error
  that comes with status 200, the device menu always.
- `main.c:1798-1807` says that the tier `ai` makes every recording on alerts fail, but an
  event recording goes by `rec_defaults` or 1280x720 and looks up no branch
  (`main.c:1684-1694`, `sys_recording.c:270-276`): it is armed and answered "recording",
  which is how the model has it (`Armed`).
- 200 is answered whatever came of a new or removed account (`auth.c:243`, `:262`), a
  forgotten password without an account or with a failed mail (`auth.c:587-590`, `:605`), a
  reboot (`device_controls.c:173`), a network reset (`:257`) and the mail server
  (`http_server.c:1037`). These are `Unchecked`.
- The activity log: the deletion of a recording, the mail server, the log level and every
  command of the engines leave no line (`Unlogged`). USER_CREATED and USER_REMOVED are under
  the account of the target, with the administrator in the details of the handler's own line
  only (`auth.c:246`, `:266`, `http_server.c:576`). FORGOT_PW, the password and TOTP lines,
  reboot and network_reset are written whatever came of it, config_reset and factory_reset of
  stubs: such a word shows what was asked for, and `LogAgrees` claims no more of it.
- SetAIConfig that fails leaves `snapshots` stored; LoadModel that fails may leave the old
  lens detached; a playlist is answered 404 though StartHLS took effect.
- `do_logout` of the client never revokes the token; the permission tables and `token_auth_check_perm` are
  never consulted; a code whose mail failed stays in force (`auth.c:326-332`); `add_user`
  stores a password that fails the policy.
- The SmartCamera server: of two requests about one pending entry the later writes back
  what it copied, so a deleted entry can return (`raced`); with the session table full a
  client gets a token no slot holds; after a failed fork `stream_pid` names a reaped child,
  and if the child that reboots gets that pid, start answers "already running".
- A capture that does not reach PLAYING within 5 s ends the engine with `g_error`
  (`sys_capture.c:302-303`); the deferral by `shm_requested` is dead code.

## Not modelled

- Time stamps, buffers and their reference counts in the RTSP and HLS callbacks; the
  fields of a branch configuration read without a lock by media-configure. The hazards
  that stay without a property (`sys_hls.c:73`, `:85`, `sys_rtsp.c:217`, `main.c:262`,
  `main.c:974`) are there, or inside one step of a model, and say so.
- GStreamer's and GLib's insides, D-Bus marshalling, SMTP and MIME, SQL, the network of
  an AI model, mapping its boxes back to the picture, and drawing: external, modelled
  where the code relies on them by what it expects.
- The NTP monitor: it records what is shown, no decision reads it; a clock that is set is
  `SetClock` in `Recording`. Its `get_status` may show an old flag with a new stamp.
- Password hashing (a library call, which ends the process when it fails), a log file that
  cannot be opened, the mail with the TOTP picture, a crash of the control plane, static files and Range requests, the text of replies
  and logs, statistics, discovery, the engine's one-shot snapshot branch.
- The head-mounted camera's SEI injection: a prototype in some fifteen diverging copies,
  none of which the build names; the HLS test server; older copies of the control plane
  and of the engine (`mergingplan_somefiles/`, `modified_files/`).
- Of the SmartCamera server: its pages, activity log, QR codes and mail; wrong codes and
  passwords, which end a request as it stands.

## Plan

Done: sharing and its abstract specification, delivery and locks, teardown, live updates,
recording, configuration, AI engine, alerts and mail, control, accounts, SmartCamera
server, driver.

1. `SuccessMeansDone` of `Control` as a theorem: one lemma per handler about the call it
   makes, one leaf per command.
2. `LiveBranch` at the grain of the probe's own steps (hazard `main.c:974`).
3. Time stamps in `StreamDelivery` (hazards `sys_hls.c:73` and `:85`).

## Use

    tlc -workers 2 -config recording.cfg MCRecording      # module and cfg as in PROJECT.json
    tlapm Evidence_proofs.tla
