----------------------------- MODULE LiveBranch -----------------------------
(***************************************************************************)
(* What one tier's encoder branch runs with, against what its BranchConfig *)
(* says: encoder_builder.c builds the chain, engine_update_stream,         *)
(* engine_toggle_overlay and engine_toggle_ntp change the elements of a    *)
(* live one, engine_configure_lens updates or rebuilds, and a pad probe on *)
(* the streaming thread carries a change of resolution out.                *)
(*                                                                         *)
(* D-Bus handlers run one at a time on the main loop and each is one step. *)
(* Who holds a stream is SharedEncoder's subject: here the first user      *)
(* builds the branch and the last takes it down.  Bit rates are in kbit/s, *)
(* sizes are values.  The lens does not change its cairo_capable.          *)
(***************************************************************************)
EXTENDS Integers, FiniteSets

CONSTANTS
    Tiers, Third,           \* the tiers of the lens, one of them "third"
    Sizes, DefaultSize, ThirdSize,
    Garbled,                \* what is left of a string after it was freed
    None,                   \* a field a request does not have
    Capable,                \* LensInfo.cairo_capable
    Hardware,               \* the VPU's v4l2 encoders are installed
    LensRequests,           \* tier objects of ConfigureLens
    Updates,                \* objects of UpdateStreamParams
    MaxRequests             \* bound: requests for a tier that has a config

ASSUME LiveBranchAssumption ==
    /\ Third \in Tiers /\ DefaultSize \in Sizes /\ ThirdSize \in Sizes
    /\ Garbled \notin Sizes /\ None \notin Sizes \cup {Garbled}
    /\ Capable \in BOOLEAN /\ Hardware \in BOOLEAN
    /\ MaxRequests \in Nat
    \* the handlers read "fps" and "bitrate" as JSON numbers
    /\ \A u \in Updates \cup LensRequests : {u.fps, u.bitrate} \subseteq Int \cup {None}

VARIABLES
    config,         \* tier -> BranchConfig, or NoConfig
    factory,        \* tier -> the settings its RTSP factory was created with
    branch,         \* tier -> settings of the elements, or NoBranch
    pad,            \* tier -> the sink pad of res_<uid> and its probes
    behind,         \* history: tier -> settings the branch was left without
    spoiled,        \* history: tiers given a change of size that cannot finish
    requests

vars == <<config, factory, branch, pad, behind, spoiled, requests>>

AnySize == Sizes \cup {Garbled}
Codecs == {"h264", "h265", "mjpeg", Garbled}
Settings == {"resolution", "fps", "bitrate"}

NoConfig == [set |-> FALSE, resolution |-> DefaultSize, fps |-> 0, codec |-> Garbled,
             bitrate |-> 0, overlay |-> FALSE, ntp |-> FALSE]
NoBranch == [live |-> FALSE, cairo |-> "absent", drawn |-> DefaultSize, clock |-> "absent",
             rate |-> 0, encoder |-> "none", bitrate |-> None, gop |-> None, mode |-> None]
NoPad == [filter |-> DefaultSize, scaler |-> None, pending |-> None,
          probes |-> 0, sent |-> FALSE, stuck |-> FALSE]

TypeOK ==
    /\ config \in [Tiers -> [set : BOOLEAN, resolution : AnySize, fps : Int, codec : Codecs,
                             bitrate : Int, overlay : BOOLEAN, ntp : BOOLEAN]]
    /\ \A t \in Tiers : factory[t].resolution \in AnySize
    /\ \A t \in Tiers : /\ branch[t].live \in BOOLEAN /\ branch[t].rate \in Int
                        /\ branch[t].cairo \in {"absent", "on", "off"}
                        /\ branch[t].clock \in {"absent", "shown", "silent"}
    /\ pad \in [Tiers -> [filter : AnySize, scaler : AnySize \cup {None},
                          pending : AnySize \cup {None}, probes : Nat,
                          sent : BOOLEAN, stuck : BOOLEAN]]
    /\ behind \in [Tiers -> SUBSET Settings]
    /\ spoiled \subseteq Tiers

Init ==
    /\ config = [t \in Tiers |-> NoConfig]
    /\ factory = [t \in Tiers |-> NoConfig]
    /\ branch = [t \in Tiers |-> NoBranch]
    /\ pad = [t \in Tiers |-> NoPad]
    /\ behind = [t \in Tiers |-> {}]
    /\ spoiled = {}
    /\ requests = 0

GivenOr(x, otherwise) == IF x = None THEN otherwise ELSE x
Lesser(a, b) == IF a < b THEN a ELSE b
Put(f, t, x) == [f EXCEPT ![t] = x]

----------------------------------------------------------------------------
(* Building a branch *)

DefaultBitrate == 4000
MinBitrate == 50

\* _clamp_bitrate_by_fps; below one frame per second the ceiling is not
\* above the floor, and wins.
ClampBitrate(fps, kbps) ==
    LET ceiling == IF fps < 10 THEN Lesser(fps * 700, 7000) ELSE Lesser(fps * 600, 16000)
    IN IF kbps < MinBitrate THEN MinBitrate ELSE Lesser(kbps, ceiling)

GopFor(fps) == 2 * fps

\* What the builder makes of a rate of zero, and live updates of any rate.
BuiltFps(fps) == IF fps > 0 THEN fps ELSE 30
LiveFps(fps) == Lesser(BuiltFps(fps), 30)

CairoActive(t, overlay) == Capable /\ overlay /\ t # Third

EncoderOf(t, codec) ==
    CASE t = Third                       -> "x264"
      [] t # Third /\ codec = "mjpeg"    -> "jpeg"
      [] t # Third /\ codec # "mjpeg"    -> IF Hardware THEN "v4l2"
                                            ELSE IF codec = "h265" THEN "x265" ELSE "x264"

\* Only the third tier's x264enc and the VPU are given a bit rate.  The mode
\* is not passed on, and nothing is clamped.
BuildElements(t, c) ==
    LET enc == EncoderOf(t, c.codec)
        tuned == t = Third \/ enc = "v4l2"
    IN [live |-> TRUE,
        cairo |-> IF CairoActive(t, c.overlay) THEN "on" ELSE "absent",
        drawn |-> c.resolution,
        clock |-> IF c.ntp THEN "shown" ELSE "absent",
        rate |-> BuiltFps(c.fps),
        encoder |-> enc,
        bitrate |-> IF ~tuned THEN None
                    ELSE IF c.bitrate > 0 THEN c.bitrate
                    ELSE IF t = Third THEN 500 ELSE DefaultBitrate,
        gop |-> IF tuned THEN BuiltFps(c.fps) ELSE None,
        mode |-> None]

Build(t, c, left) ==
    /\ config[t].set /\ ~branch[t].live
    /\ branch' = Put(branch, t, BuildElements(t, c))
    /\ pad' = Put(pad, t, [NoPad EXCEPT !.filter = c.resolution])
    /\ behind' = Put(behind, t, left)
    /\ spoiled' = spoiled \ {t}
    /\ UNCHANGED <<config, factory, requests>>

\* media-configure reads overlay and NTP from the BranchConfig, the rest
\* from what the factory was created with.
RtspConnect(t) ==
    Build(t, [factory[t] EXCEPT !.overlay = config[t].overlay, !.ntp = config[t].ntp],
          {s \in Settings : factory[t][s] # config[t][s]})

StartHls(t) == Build(t, config[t], {})

BranchGone(t) ==
    /\ branch' = Put(branch, t, NoBranch)
    /\ pad' = Put(pad, t, NoPad)
    /\ behind' = Put(behind, t, {})
    /\ spoiled' = spoiled \ {t}

LastUserLeaves(t) ==
    /\ branch[t].live
    /\ BranchGone(t)
    /\ UNCHANGED <<config, factory, requests>>

----------------------------------------------------------------------------
(* UpdateStreamParams on a live branch: each part maps the settings `s`,   *)
(* the config, the elements, the pad and the history, to the next ones.    *)

SettingsOf(t) == [c |-> config[t], b |-> branch[t], p |-> pad[t], behind |-> behind[t],
                  spoilt |-> FALSE]

WithOverlay(s, on) ==
    IF on = None THEN s
    ELSE [s EXCEPT !.c.overlay = on,
                   !.b.cairo = IF @ = "absent" THEN @ ELSE IF on THEN "on" ELSE "off"]

WithNtp(s, on) ==
    IF on = None THEN s
    ELSE [s EXCEPT !.c.ntp = on,
                   !.b.clock = IF @ = "absent" THEN @ ELSE IF on THEN "shown" ELSE "silent"]

\* Only the VPU follows; an x264enc of another tier keeps its bit rate.
WithFps(s, t, fps) ==
    LET rate == LiveFps(fps)
        kbps == ClampBitrate(rate, s.c.bitrate)
        vpu == s.b.encoder = "v4l2"
    IN IF fps = None \/ t = Third \/ rate = s.c.fps THEN s
       ELSE [s EXCEPT !.c.fps = rate, !.c.bitrate = kbps,
                      !.b.rate = rate,
                      !.b.bitrate = IF vpu THEN kbps ELSE @,
                      !.b.gop = IF vpu THEN GopFor(rate) ELSE @,
                      !.behind = (@ \ {"fps"}) \ (IF vpu THEN {"bitrate"} ELSE {})]

\* The change comes before the first frame, after the probe has passed the
\* previous one on, or asks for the size the capsfilter has.
Spoils(p, size) == p.scaler = None \/ (p.pending # None /\ p.sent) \/ p.filter = size

\* pending_caps is replaced, a probe is added each time.
WithSize(s, t, size) ==
    IF size = None \/ t = Third \/ size = s.c.resolution THEN s
    ELSE [s EXCEPT !.c.resolution = size, !.b.drawn = size,
                   !.p.pending = size, !.p.probes = @ + 1,
                   !.behind = @ \ {"resolution"},
                   !.spoilt = Spoils(s.p, size)]

\* Mutant: the config keeps what was asked for.
WithBitrateAsked(s, kbps) ==
    IF kbps = None \/ ClampBitrate(s.c.fps, kbps) = s.c.bitrate THEN s
    ELSE [s EXCEPT !.c.bitrate = kbps,
                   !.b.bitrate = IF s.b.encoder \in {"v4l2", "x264"}
                                 THEN ClampBitrate(s.c.fps, kbps) ELSE @,
                   !.behind = @ \ {"bitrate"}]

\* The limit is that of the config's fps, whatever the branch runs at.
WithBitrate(s, kbps) ==
    LET held == ClampBitrate(s.c.fps, kbps)
        vpu == s.b.encoder = "v4l2"
    IN IF kbps = None \/ held = s.c.bitrate THEN s
       ELSE [s EXCEPT !.c.bitrate = held,
                      !.b.bitrate = IF s.b.encoder \in {"v4l2", "x264"} THEN held ELSE @,
                      !.b.gop = IF vpu THEN GopFor(s.c.fps) ELSE @,
                      !.behind = @ \ {"bitrate"}]

\* The mode reaches the encoder and is never stored.
WithMode(s, mode) ==
    IF mode = None \/ s.b.encoder \notin {"v4l2", "x264"} THEN s ELSE [s EXCEPT !.b.mode = mode]

Updated(s, t, u) ==
    LET overlaid == WithNtp(WithOverlay(s, u.overlay), u.ntp)
        sized == WithSize(WithFps(overlaid, t, u.fps), t, u.resolution)
    IN WithMode(WithBitrate(sized, u.bitrate), u.mode)

Apply(t, s) ==
    /\ config' = Put(config, t, s.c)
    /\ branch' = Put(branch, t, s.b)
    /\ pad' = Put(pad, t, s.p)
    /\ behind' = Put(behind, t, s.behind)
    /\ spoiled' = IF s.spoilt THEN spoiled \cup {t} ELSE spoiled

Request == requests < MaxRequests /\ requests' = requests + 1

UpdateLive(t, u) ==
    /\ Request
    /\ config[t].set /\ branch[t].live
    /\ Apply(t, Updated(SettingsOf(t), t, u))
    /\ UNCHANGED factory

\* No branch: stored for the next connect as it came, "third" included; a
\* bit rate is not looked at.
UpdateIdle(t, u) ==
    /\ Request
    /\ config[t].set /\ ~branch[t].live
    /\ config' = Put(config, t, [config[t] EXCEPT !.fps = GivenOr(u.fps, @),
                                                  !.resolution = GivenOr(u.resolution, @),
                                                  !.ntp = GivenOr(u.ntp, @),
                                                  !.overlay = GivenOr(u.overlay, @)])
    /\ UNCHANGED <<factory, branch, pad, behind, spoiled>>

----------------------------------------------------------------------------
(* ToggleOverlay and ToggleNTP *)

Configured == \E t \in Tiers : config[t].set

\* Branches are named shared_<lens>_<tier>_<n>: none has a tier as suffix.
Matching(tier) == IF tier = None THEN {t \in Tiers : branch[t].live} ELSE {}

ToggleOverlay(tier, on) ==
    /\ Request /\ Configured
    /\ branch' = [t \in Tiers |->
                    IF t \in Matching(tier) /\ branch[t].cairo # "absent"
                    THEN [branch[t] EXCEPT !.cairo = IF on THEN "on" ELSE "off"] ELSE branch[t]]
    /\ UNCHANGED <<config, factory, pad, behind, spoiled>>

\* With a tier only its config changes, without one only the elements.
ToggleNtp(tier, on) ==
    /\ Request /\ Configured
    /\ config' = [t \in Tiers |-> IF t = tier /\ config[t].set
                                  THEN [config[t] EXCEPT !.ntp = on] ELSE config[t]]
    /\ branch' = [t \in Tiers |->
                    IF t \in Matching(tier) /\ branch[t].clock # "absent"
                    THEN [branch[t] EXCEPT !.clock = IF on THEN "shown" ELSE "silent"]
                    ELSE branch[t]]
    /\ UNCHANGED <<factory, pad, behind, spoiled>>

----------------------------------------------------------------------------
(* ConfigureLens, for one tier of the request *)

\* Missing fields are taken from the stored config, "third" is fixed.
Coalesced(t, r) ==
    LET c == config[t]
    IN [resolution |-> IF t = Third THEN ThirdSize
                       ELSE GivenOr(r.resolution, IF c.set THEN c.resolution ELSE DefaultSize),
        fps |-> IF t = Third THEN 3 ELSE GivenOr(r.fps, IF c.set THEN c.fps ELSE 25),
        codec |-> IF t = Third THEN "h264"
                  ELSE GivenOr(r.codec, IF c.set THEN c.codec ELSE "h264"),
        overlay |-> GivenOr(r.overlay, IF c.set THEN c.overlay ELSE TRUE),
        ntp |-> GivenOr(r.ntp, IF c.set THEN c.ntp ELSE FALSE)]

NewConfig(n, kbps) ==
    [set |-> TRUE, resolution |-> n.resolution, fps |-> n.fps, codec |-> n.codec,
     bitrate |-> GivenOr(kbps, DefaultBitrate), overlay |-> n.overlay, ntp |-> n.ntp]

ThirdConfig == NewConfig([resolution |-> ThirdSize, fps |-> 3, codec |-> "h264",
                          overlay |-> FALSE, ntp |-> FALSE], None)

\* The end of the handler: "third" is mounted if it has no config.
WithThird(f, t) == IF t # Third /\ ~config[Third].set THEN Put(f, Third, ThirdConfig) ELSE f

Mount(t, c) ==
    /\ config' = WithThird(Put(config, t, c), t)
    /\ factory' = WithThird(Put(factory, t, c), t)

SameStructure(t, n) ==
    /\ config[t].codec = n.codec
    /\ CairoActive(t, config[t].overlay) = CairoActive(t, n.overlay)
    /\ config[t].ntp = n.ntp

ConfigureNew(t, r) ==
    /\ ~config[t].set
    /\ Mount(t, NewConfig(Coalesced(t, r), r.bitrate))
    /\ UNCHANGED <<branch, pad, behind, spoiled, requests>>

ConfigWritten(t, n) ==
    [config[t] EXCEPT !.fps = n.fps, !.resolution = n.resolution,
                      !.overlay = n.overlay, !.ntp = n.ntp]

LeftBehind(t, c) == {x \in {"fps", "resolution"} : c[x] # config[t][x]}

\* The config is written first; the update it then sends to the live branch
\* finds size and rate "already" there and skips them.
ConfigureDynamic(t, r) ==
    LET n == Coalesced(t, r)
        c == ConfigWritten(t, n)
        s == [SettingsOf(t) EXCEPT !.c = c, !.behind = @ \cup LeftBehind(t, c)]
        u == [resolution |-> n.resolution, fps |-> n.fps, bitrate |-> None,
              overlay |-> n.overlay, ntp |-> n.ntp, mode |-> None]
    IN /\ Request
       /\ config[t].set /\ SameStructure(t, n)
       /\ Apply(t, IF branch[t].live THEN Updated(s, t, u) ELSE [s EXCEPT !.behind = {}])
       /\ UNCHANGED factory

\* Strings taken from the stored config are used after it was freed.
Dangling(given, old) == IF given = None THEN {old, Garbled} ELSE {given}

ConfigureRebuild(t, r) ==
    LET n == Coalesced(t, r)
    IN /\ Request
       /\ config[t].set /\ ~SameStructure(t, n)
       /\ \E size \in IF t = Third THEN {ThirdSize} ELSE Dangling(r.resolution, n.resolution),
             codec \in IF t = Third THEN {"h264"} ELSE Dangling(r.codec, n.codec) :
             Mount(t, NewConfig([n EXCEPT !.resolution = size, !.codec = codec], r.bitrate))
       /\ BranchGone(t)

----------------------------------------------------------------------------
(* The streaming thread at the sink pad of res_<uid> *)

Started(t) == pad[t].scaler # None

\* The probe's first call, whatever it is called for.
Triggered(p) == IF p.sent THEN p ELSE [p EXCEPT !.filter = p.pending, !.sent = TRUE]

\* Mutant: the state the probe keeps on the pad is not cleaned up.
ProbeDoneUnclean(p, size) == [p EXCEPT !.scaler = size, !.pending = None, !.probes = 0]

\* A CAPS event that matches: every probe finds its work done and leaves.
ProbeDone(p, size) ==
    [p EXCEPT !.scaler = size, !.pending = None, !.sent = FALSE, !.probes = 0]

\* Mutant: the earlier version, which drops a frame and leaves.
DropOne(p) == [p EXCEPT !.filter = p.pending, !.pending = None, !.probes = 0]

\* A buffer is dropped; after a drop no other probe is asked.
DropBuffer(p) == Triggered(p)

\* An armed probe answers stream-start with OK, and a blocking probe that
\* says OK blocks: nobody removes it then.
StreamStarts(t) ==
    LET p == pad[t]
    IN /\ branch[t].live /\ ~Started(t) /\ ~p.stuck
       /\ p.filter # Garbled
       /\ pad' = Put(pad, t, IF p.probes = 0 THEN [p EXCEPT !.scaler = p.filter]
                             ELSE [Triggered(p) EXCEPT !.stuck = TRUE])
       /\ UNCHANGED <<config, factory, branch, behind, spoiled, requests>>

\* A frame of the size the scaler still makes; without a probe it passes.
Buffer(t) ==
    LET p == pad[t]
    IN /\ branch[t].live /\ Started(t) /\ ~p.stuck
       /\ p.probes > 0
       /\ pad' = Put(pad, t, DropBuffer(p))
       /\ UNCHANGED <<config, factory, branch, behind, spoiled, requests>>

\* The scaler follows the filter and says so, once.
Caps(t) ==
    LET p == pad[t]
        q == Triggered(p)
    IN /\ branch[t].live /\ Started(t) /\ ~p.stuck
       /\ p.filter # p.scaler /\ p.probes > 0
       /\ pad' = Put(pad, t, IF p.filter = q.pending THEN ProbeDone(q, p.filter)
                             ELSE [q EXCEPT !.stuck = TRUE])
       /\ UNCHANGED <<config, factory, branch, behind, spoiled, requests>>

Stream(t) == StreamStarts(t) \/ Buffer(t) \/ Caps(t)

----------------------------------------------------------------------------
Next ==
    \/ \E t \in Tiers : RtspConnect(t) \/ StartHls(t) \/ LastUserLeaves(t) \/ Stream(t)
    \/ \E t \in Tiers, u \in Updates : UpdateLive(t, u) \/ UpdateIdle(t, u)
    \/ \E t \in Tiers, r \in LensRequests :
          ConfigureNew(t, r) \/ ConfigureDynamic(t, r) \/ ConfigureRebuild(t, r)
    \/ \E tier \in Tiers \cup {None}, on \in BOOLEAN :
          ToggleOverlay(tier, on) \/ ToggleNtp(tier, on)

\* The camera goes on delivering frames and the scaler renegotiates.
Spec ==
    /\ Init /\ [][Next]_vars
    /\ \A t \in Tiers : WF_vars(StreamStarts(t)) /\ WF_vars(Buffer(t)) /\ WF_vars(Caps(t))

----------------------------------------------------------------------------
(* Properties *)

Target(t) == IF pad[t].pending = None THEN pad[t].filter ELSE pad[t].pending

(* A running branch has the resolution, frame rate and bit rate of its       *)
(* BranchConfig, or is on its way there, and its boxes are drawn to the same *)
(* size, unless it is known to have been left behind: a factory created      *)
(* before the config changed, or a ConfigureLens that wrote the config first *)
(* (sys_rtsp.c:206, main.c:699; sys_capture.h:43 calls it the branch's       *)
(* configuration).                                                           *)
RunningMatchesConfig ==
    \A t \in Tiers : branch[t].live =>
        /\ "resolution" \notin behind[t] => Target(t) = config[t].resolution
        /\ "fps" \notin behind[t] => branch[t].rate = BuiltFps(config[t].fps)
        /\ "bitrate" \notin behind[t] /\ (t = Third \/ branch[t].encoder = "v4l2") =>
               branch[t].bitrate = config[t].bitrate \/ config[t].bitrate <= 0
        /\ branch[t].cairo # "absent" => branch[t].drawn = Target(t)

(* A frame goes past the sink pad only while no probe is on it, and then it  *)
(* has the size the capsfilter asks for: a frame of the old size there is    *)
(* "not negotiated" and ends the whole capture (main.c:1259).                *)
FlowFits ==
    \A t \in Tiers : Started(t) /\ pad[t].probes = 0 => pad[t].scaler = pad[t].filter

(* A change of resolution asked of a running branch is carried out and       *)
(* frames flow again, as the comment on the probe promises "regardless of    *)
(* hardware latency" (main.c:960), but for changes that spoil it: one before *)
(* the first frame, one while the scaler is changing over, and one to the    *)
(* size the branch has although its config says another.                     *)
ResolutionSettles ==
    \A t \in Tiers : pad[t].pending # None /\ t \notin spoiled
                      ~> pad[t].pending = None \/ t \in spoiled

=============================================================================
