-------------------------- MODULE LiveBranch_proofs --------------------------
(***************************************************************************)
(* For any tiers, sizes, hardware and requests.  No frame of another size  *)
(* gets past the sink pad of the resolution filter: a change of size only  *)
(* ever arms a probe, and the one step that takes probes off leaves the    *)
(* scaler at the size of the filter.  And a running branch has what its    *)
(* BranchConfig says, or its settings are on the list of those left        *)
(* behind: each part of an update moves both or neither.                   *)
(***************************************************************************)
EXTENDS LiveBranch, TLAPS

PadFields == {"filter", "scaler", "pending", "probes", "sent", "stuck"}
SettingsFields == {"c", "b", "p", "behind", "spoilt"}

\* A pad that lets only frames of its filter's size past, or none.
Fitting(p) ==
    /\ DOMAIN p = PadFields
    /\ p.probes \in Nat
    /\ p.scaler # None /\ p.probes = 0 => p.scaler = p.filter

PadInv == DOMAIN pad = Tiers /\ \A t \in Tiers : Fitting(pad[t])

Shaped(s) == DOMAIN s = SettingsFields /\ Fitting(s.p)

LEMMA NoPadFits == ASSUME NEW size PROVE Fitting([NoPad EXCEPT !.filter = size])
  BY DEF Fitting, NoPad, PadFields

LEMMA PutFits ==
  ASSUME PadInv, NEW t, NEW p, Fitting(p), pad' = Put(pad, t, p)
  PROVE  PadInv'
  BY DEF PadInv, Put

\* The parts of an update that are not about the size leave the pad alone.
LEMMA PadUntouched ==
  ASSUME NEW s, Shaped(s), NEW t, NEW x
  PROVE  /\ Shaped(WithOverlay(s, x))
         /\ Shaped(WithNtp(s, x))
         /\ Shaped(WithFps(s, t, x))
         /\ Shaped(WithBitrate(s, x))
         /\ Shaped(WithMode(s, x))
  <1>1. Shaped(WithOverlay(s, x))
    BY DEF Shaped, SettingsFields, WithOverlay
  <1>2. Shaped(WithNtp(s, x))
    BY DEF Shaped, SettingsFields, WithNtp
  <1>3. Shaped(WithFps(s, t, x))
    BY DEF Shaped, SettingsFields, WithFps
  <1>4. Shaped(WithBitrate(s, x))
    BY DEF Shaped, SettingsFields, WithBitrate
  <1>5. Shaped(WithMode(s, x))
    BY DEF Shaped, SettingsFields, WithMode
  <1> QED BY <1>1, <1>2, <1>3, <1>4, <1>5

\* A change of size puts a probe on the pad.
LEMMA SizeArms ==
  ASSUME NEW s, Shaped(s), NEW t, NEW size
  PROVE  Shaped(WithSize(s, t, size))
  BY DEF Shaped, SettingsFields, PadFields, Fitting, WithSize

LEMMA UpdateFits ==
  ASSUME NEW s, Shaped(s), NEW t, NEW u
  PROVE  Shaped(Updated(s, t, u))
  <1> DEFINE overlaid == WithNtp(WithOverlay(s, u.overlay), u.ntp)
             sized == WithSize(WithFps(overlaid, t, u.fps), t, u.resolution)
  <1>1. Shaped(overlaid)
    BY PadUntouched
  <1>2. Shaped(sized)
    BY <1>1, PadUntouched, SizeArms
  <1> HIDE DEF sized
  <1>3. Shaped(WithMode(WithBitrate(sized, u.bitrate), u.mode))
    BY <1>2, PadUntouched
  <1> QED BY <1>3 DEF Updated, sized

LEMMA ApplyFits ==
  ASSUME PadInv, NEW t, NEW s, Shaped(s), Apply(t, s)
  PROVE  PadInv'
  BY PutFits DEF Apply, Shaped

----------------------------------------------------------------------------
(* The streaming thread *)

LEMMA TriggeredFits ==
  ASSUME NEW p, Fitting(p), p.probes > 0
  PROVE  Fitting(Triggered(p)) /\ Triggered(p).probes = p.probes
  BY DEF Fitting, Triggered, PadFields

LEMMA StreamFits ==
  ASSUME PadInv, NEW t \in Tiers, Stream(t)
  PROVE  PadInv'
  <1> DEFINE p == pad[t]
  <1>1. Fitting(p)
    BY DEF PadInv
  <1>2. CASE StreamStarts(t)
    <2>1. CASE p.probes = 0
      <3>1. Fitting([p EXCEPT !.scaler = p.filter])
        BY <1>1, <2>1 DEF Fitting, PadFields
      <3> QED BY <1>2, <2>1, <3>1, PutFits DEF StreamStarts
    <2>2. CASE p.probes # 0
      <3>1. Fitting([Triggered(p) EXCEPT !.stuck = TRUE])
        BY <1>1, <2>2, TriggeredFits DEF Fitting, PadFields
      <3> QED BY <1>2, <2>2, <3>1, PutFits DEF StreamStarts
    <2> QED BY <2>1, <2>2
  <1>3. CASE Buffer(t)
    BY <1>1, <1>3, TriggeredFits, PutFits DEF Buffer, DropBuffer
  <1>4. CASE Caps(t)
    <2> DEFINE q == Triggered(p)
    <2>1. Fitting(q) /\ p.probes > 0 /\ q.probes = p.probes
      BY <1>1, <1>4, TriggeredFits DEF Caps
    <2>2. CASE p.filter = q.pending
      <3>1. q.filter = p.filter
        BY <1>1, <2>2 DEF Triggered, Fitting, PadFields
      <3>2. Fitting(ProbeDone(q, p.filter))
        BY <2>1, <3>1 DEF ProbeDone, Fitting, PadFields
      <3> QED BY <1>4, <2>2, <3>2, PutFits DEF Caps
    <2>3. CASE p.filter # q.pending
      <3>1. Fitting([q EXCEPT !.stuck = TRUE])
        BY <2>1 DEF Fitting, PadFields
      <3> QED BY <1>4, <2>3, <3>1, PutFits DEF Caps
    <2> QED BY <2>2, <2>3
  <1> QED BY <1>2, <1>3, <1>4 DEF Stream

----------------------------------------------------------------------------
LEMMA SettingsShaped == ASSUME PadInv, NEW t \in Tiers PROVE Shaped(SettingsOf(t))
  BY DEF PadInv, Shaped, SettingsOf, SettingsFields

LEMMA BranchGoneFits == ASSUME PadInv, NEW t, BranchGone(t) PROVE PadInv'
  <1>1. Fitting(NoPad)
    BY DEF Fitting, NoPad, PadFields
  <1> QED BY <1>1, PutFits DEF BranchGone

LEMMA InitFits == Init => PadInv
  BY DEF Init, PadInv, Fitting, NoPad, PadFields

LEMMA StepFits == PadInv /\ [Next]_vars => PadInv'
  <1> SUFFICES ASSUME PadInv, [Next]_vars PROVE PadInv'
    OBVIOUS
  <1>1. CASE UNCHANGED vars
    BY <1>1 DEF vars, PadInv
  <1>2. ASSUME NEW t \in Tiers, RtspConnect(t) \/ StartHls(t) PROVE PadInv'
    BY <1>2, NoPadFits, PutFits DEF RtspConnect, StartHls, Build
  <1>3. ASSUME NEW t \in Tiers, LastUserLeaves(t) PROVE PadInv'
    BY <1>3, BranchGoneFits DEF LastUserLeaves
  <1>4. ASSUME NEW t \in Tiers, Stream(t) PROVE PadInv'
    BY <1>4, StreamFits
  <1>5. ASSUME NEW t \in Tiers, NEW u \in Updates, UpdateLive(t, u) PROVE PadInv'
    BY <1>5, SettingsShaped, UpdateFits, ApplyFits DEF UpdateLive
  <1>6. ASSUME NEW t \in Tiers, NEW r \in LensRequests, ConfigureDynamic(t, r) PROVE PadInv'
    <2> DEFINE n == Coalesced(t, r)
               c == ConfigWritten(t, n)
               s == [SettingsOf(t) EXCEPT !.c = c, !.behind = @ \cup LeftBehind(t, c)]
               u == [resolution |-> n.resolution, fps |-> n.fps, bitrate |-> None,
                     overlay |-> n.overlay, ntp |-> n.ntp, mode |-> None]
    <2>1. Shaped(s)
      BY SettingsShaped DEF Shaped, SettingsFields
    <2>2. Shaped([s EXCEPT !.behind = {}])
      BY <2>1 DEF Shaped, SettingsFields
    <2>3. Shaped(Updated(s, t, u))
      BY <2>1, UpdateFits
    <2>4. Apply(t, IF branch[t].live THEN Updated(s, t, u) ELSE [s EXCEPT !.behind = {}])
      BY <1>6 DEF ConfigureDynamic
    <2> HIDE DEF s, u
    <2> QED BY <2>2, <2>3, <2>4, ApplyFits
  <1>7. ASSUME NEW t \in Tiers, NEW r \in LensRequests, ConfigureRebuild(t, r) PROVE PadInv'
    BY <1>7, BranchGoneFits DEF ConfigureRebuild
  <1>8. ASSUME UNCHANGED pad PROVE PadInv'
    BY <1>8 DEF PadInv
  <1> QED
    BY <1>1, <1>2, <1>3, <1>4, <1>5, <1>6, <1>7, <1>8
       DEF Next, UpdateIdle, ConfigureNew, ToggleOverlay, ToggleNtp

\* FlowFits: no frame of another size than the capsfilter's reaches it, for
\* any number of tiers, sizes and requests: the probe of
\* _resolution_change_probe_cb (main.c:968) does what it is there for.
THEOREM FramesFit == Spec => []FlowFits
  <1>1. PadInv => FlowFits
    BY DEF PadInv, FlowFits, Started, Fitting
  <1>2. Init /\ [][Next]_vars => []PadInv
    BY InitFits, StepFits, PTL
  <1> QED BY <1>1, <1>2, PTL DEF Spec

----------------------------------------------------------------------------
(* Running as configured.  A running branch is healthy when each setting   *)
(* that is not left behind has reached its elements, where the size counts *)
(* as reached once a probe carries it.                                     *)

ConfigFields == {"set", "resolution", "fps", "codec", "bitrate", "overlay", "ntp"}
BranchFields == {"live", "cairo", "drawn", "clock", "rate", "encoder", "bitrate", "gop", "mode"}

Kept(c) == DOMAIN c = ConfigFields /\ c.fps \in Int /\ c.bitrate \in Int

\* The parts of a setting that every update leaves whole.
Whole(s) == Shaped(s) /\ Kept(s.c) /\ DOMAIN s.b = BranchFields /\ s.b.live

\* The size a pad has or is on its way to.
Aim(p) == IF p.pending = None THEN p.filter ELSE p.pending

SizeReached(s) ==
    /\ "resolution" \notin s.behind => Aim(s.p) = s.c.resolution
    /\ s.b.cairo # "absent" => s.b.drawn = Aim(s.p)
    /\ s.p.probes > 0 => s.p.pending # None

RateReached(s) == "fps" \notin s.behind => s.b.rate = BuiltFps(s.c.fps)

BitrateReached(t, s) ==
    /\ t = Third => s.b.encoder = "x264"
    /\ "bitrate" \notin s.behind /\ (t = Third \/ s.b.encoder = "v4l2") =>
           s.b.bitrate = s.c.bitrate \/ s.c.bitrate <= 0

Healthy(t, s) == Whole(s) /\ SizeReached(s) /\ RateReached(s) /\ BitrateReached(t, s)

TablesInv ==
    /\ DOMAIN config = Tiers /\ DOMAIN factory = Tiers
    /\ DOMAIN branch = Tiers /\ DOMAIN behind = Tiers
    /\ \A t \in Tiers : /\ Kept(config[t]) /\ Kept(factory[t])
                        /\ DOMAIN branch[t] = BranchFields

HealthInv ==
    \A t \in Tiers : branch[t].live => config[t].set /\ Healthy(t, SettingsOf(t))

MatchInv == PadInv /\ TablesInv /\ HealthInv

\* A rate that was set on a live branch is one the builder keeps.
LEMMA LiveFpsRuns ==
  ASSUME NEW fps \in Int
  PROVE  LiveFps(fps) \in Int /\ BuiltFps(LiveFps(fps)) = LiveFps(fps)
  BY DEF LiveFps, BuiltFps, Lesser

LEMMA ClampIsInt ==
  ASSUME NEW fps \in Int, NEW kbps \in Int
  PROVE  ClampBitrate(fps, kbps) \in Int
  BY DEF ClampBitrate, MinBitrate, Lesser

(* Each part of an update keeps a running branch healthy. *)

LEMMA OverlayHealthy ==
  ASSUME NEW t, NEW s, Healthy(t, s), NEW on
  PROVE  Healthy(t, WithOverlay(s, on))
  <1> DEFINE q == WithOverlay(s, on)
  <1>1. Whole(q)
    BY PadUntouched DEF Healthy, Whole, WithOverlay, Kept, ConfigFields, BranchFields, Shaped, SettingsFields
  <1>2. /\ q.p = s.p /\ q.behind = s.behind /\ q.b.encoder = s.b.encoder
        /\ q.b.rate = s.b.rate /\ q.b.drawn = s.b.drawn /\ q.b.bitrate = s.b.bitrate
        /\ q.c.fps = s.c.fps /\ q.c.resolution = s.c.resolution /\ q.c.bitrate = s.c.bitrate
        /\ q.b.cairo # "absent" => s.b.cairo # "absent"
    BY DEF Healthy, Whole, WithOverlay, Kept, ConfigFields, BranchFields, Shaped, SettingsFields
  <1> QED
    BY <1>1, <1>2 DEF Healthy, SizeReached, RateReached, BitrateReached

LEMMA NtpHealthy ==
  ASSUME NEW t, NEW s, Healthy(t, s), NEW on
  PROVE  Healthy(t, WithNtp(s, on))
  <1> DEFINE q == WithNtp(s, on)
  <1>1. Whole(q)
    BY PadUntouched DEF Healthy, Whole, WithNtp, Kept, ConfigFields, BranchFields, Shaped, SettingsFields
  <1>2. /\ q.p = s.p /\ q.behind = s.behind /\ q.b.encoder = s.b.encoder
        /\ q.b.rate = s.b.rate /\ q.b.drawn = s.b.drawn /\ q.b.bitrate = s.b.bitrate
        /\ q.c.fps = s.c.fps /\ q.c.resolution = s.c.resolution /\ q.c.bitrate = s.c.bitrate
        /\ q.b.cairo = s.b.cairo
    BY DEF Healthy, Whole, WithNtp, Kept, ConfigFields, BranchFields, Shaped, SettingsFields
  <1> QED
    BY <1>1, <1>2 DEF Healthy, SizeReached, RateReached, BitrateReached

LEMMA FpsHealthy ==
  ASSUME NEW t, NEW s, Healthy(t, s), NEW fps \in Int \cup {None}
  PROVE  Healthy(t, WithFps(s, t, fps))
  <1> DEFINE rate == LiveFps(fps)
             kbps == ClampBitrate(rate, s.c.bitrate)
             vpu == s.b.encoder = "v4l2"
             q == [s EXCEPT !.c.fps = rate, !.c.bitrate = kbps,
                            !.b.rate = rate,
                            !.b.bitrate = IF vpu THEN kbps ELSE @,
                            !.b.gop = IF vpu THEN GopFor(rate) ELSE @,
                            !.behind = (@ \ {"fps"}) \ (IF vpu THEN {"bitrate"} ELSE {})]
  <1>1. CASE fps = None \/ t = Third \/ rate = s.c.fps
    BY <1>1 DEF WithFps
  <1>2. CASE ~(fps = None \/ t = Third \/ rate = s.c.fps)
    <2>1. rate \in Int /\ BuiltFps(rate) = rate /\ kbps \in Int
      BY <1>2, LiveFpsRuns, ClampIsInt DEF Healthy, Whole, Kept
    <2> HIDE DEF rate, kbps
    <2>2. /\ q.p = s.p /\ q.b.encoder = s.b.encoder /\ q.b.cairo = s.b.cairo
          /\ q.b.drawn = s.b.drawn /\ q.b.live = s.b.live
          /\ q.b.rate = rate /\ q.b.bitrate = (IF vpu THEN kbps ELSE s.b.bitrate)
          /\ q.c.resolution = s.c.resolution /\ q.c.fps = rate /\ q.c.bitrate = kbps
          /\ DOMAIN q = DOMAIN s /\ DOMAIN q.c = DOMAIN s.c /\ DOMAIN q.b = DOMAIN s.b
          /\ q.behind = (s.behind \ {"fps"}) \ (IF vpu THEN {"bitrate"} ELSE {})
      BY DEF Healthy, Whole, Kept, ConfigFields, BranchFields, Shaped, SettingsFields
    <2> HIDE DEF q
    <2>3. Whole(q)
      BY <2>1, <2>2 DEF Healthy, Whole, Shaped, Kept
    <2>4. SizeReached(q) /\ RateReached(q) /\ BitrateReached(t, q)
      BY <1>2, <2>1, <2>2 DEF Healthy, SizeReached, RateReached, BitrateReached
    <2>5. q = WithFps(s, t, fps)
      BY <1>2 DEF q, WithFps, rate, kbps
    <2> QED BY <2>3, <2>4, <2>5 DEF Healthy
  <1> QED BY <1>1, <1>2

LEMMA SizeHealthy ==
  ASSUME NEW t, NEW s, Healthy(t, s), NEW size
  PROVE  Healthy(t, WithSize(s, t, size))
  <1> DEFINE q == [s EXCEPT !.c.resolution = size, !.b.drawn = size,
                            !.p.pending = size, !.p.probes = @ + 1,
                            !.behind = @ \ {"resolution"},
                            !.spoilt = Spoils(s.p, size)]
  <1>1. CASE size = None \/ t = Third \/ size = s.c.resolution
    BY <1>1 DEF WithSize
  <1>2. CASE ~(size = None \/ t = Third \/ size = s.c.resolution)
    <2>1. q = WithSize(s, t, size)
      BY <1>2 DEF WithSize
    <2>2. Shaped(q)
      BY <2>1, SizeArms DEF Healthy, Whole
    <2>3. /\ q.p.pending = size
          /\ q.b.encoder = s.b.encoder /\ q.b.live = s.b.live
          /\ q.b.drawn = size /\ q.b.rate = s.b.rate /\ q.b.bitrate = s.b.bitrate
          /\ q.c.resolution = size /\ q.c.fps = s.c.fps /\ q.c.bitrate = s.c.bitrate
          /\ DOMAIN q.c = DOMAIN s.c /\ DOMAIN q.b = DOMAIN s.b
          /\ q.behind = s.behind \ {"resolution"}
      BY DEF Healthy, Whole, Kept, ConfigFields, BranchFields, Shaped, SettingsFields,
             Fitting, PadFields
    <2> HIDE DEF q
    <2>4. Whole(q)
      BY <2>2, <2>3 DEF Healthy, Whole, Kept
    <2>5. SizeReached(q) /\ RateReached(q) /\ BitrateReached(t, q)
      BY <1>2, <2>3 DEF Healthy, SizeReached, RateReached, BitrateReached, Aim
    <2> QED BY <2>1, <2>4, <2>5 DEF Healthy
  <1> QED BY <1>1, <1>2

LEMMA BitrateHealthy ==
  ASSUME NEW t, NEW s, Healthy(t, s), NEW kbps \in Int \cup {None}
  PROVE  Healthy(t, WithBitrate(s, kbps))
  <1> DEFINE held == ClampBitrate(s.c.fps, kbps)
             vpu == s.b.encoder = "v4l2"
             q == [s EXCEPT !.c.bitrate = held,
                            !.b.bitrate = IF s.b.encoder \in {"v4l2", "x264"} THEN held ELSE @,
                            !.b.gop = IF vpu THEN GopFor(s.c.fps) ELSE @,
                            !.behind = @ \ {"bitrate"}]
  <1>1. CASE kbps = None \/ held = s.c.bitrate
    BY <1>1 DEF WithBitrate
  <1>2. CASE ~(kbps = None \/ held = s.c.bitrate)
    <2>1. held \in Int
      BY <1>2, ClampIsInt DEF Healthy, Whole, Kept
    <2> HIDE DEF held
    <2>2. /\ q.p = s.p /\ q.b.encoder = s.b.encoder /\ q.b.cairo = s.b.cairo
          /\ q.b.drawn = s.b.drawn /\ q.b.live = s.b.live /\ q.b.rate = s.b.rate
          /\ q.b.bitrate = (IF s.b.encoder \in {"v4l2", "x264"} THEN held ELSE s.b.bitrate)
          /\ q.c.resolution = s.c.resolution /\ q.c.fps = s.c.fps /\ q.c.bitrate = held
          /\ DOMAIN q = DOMAIN s /\ DOMAIN q.c = DOMAIN s.c /\ DOMAIN q.b = DOMAIN s.b
          /\ q.behind = s.behind \ {"bitrate"}
      BY DEF Healthy, Whole, Kept, ConfigFields, BranchFields, Shaped, SettingsFields
    <2> HIDE DEF q
    <2>3. Whole(q)
      BY <2>1, <2>2 DEF Healthy, Whole, Shaped, Kept
    <2>4. SizeReached(q) /\ RateReached(q) /\ BitrateReached(t, q)
      BY <2>2 DEF Healthy, SizeReached, RateReached, BitrateReached
    <2>5. q = WithBitrate(s, kbps)
      BY <1>2 DEF q, WithBitrate, held
    <2> QED BY <2>3, <2>4, <2>5 DEF Healthy
  <1> QED BY <1>1, <1>2

LEMMA ModeHealthy ==
  ASSUME NEW t, NEW s, Healthy(t, s), NEW mode
  PROVE  Healthy(t, WithMode(s, mode))
  <1> DEFINE q == WithMode(s, mode)
  <1>1. Whole(q)
    BY PadUntouched DEF Healthy, Whole, WithMode, Kept, ConfigFields, BranchFields, Shaped, SettingsFields
  <1>2. /\ q.p = s.p /\ q.behind = s.behind /\ q.c = s.c /\ q.b.encoder = s.b.encoder
        /\ q.b.rate = s.b.rate /\ q.b.drawn = s.b.drawn /\ q.b.bitrate = s.b.bitrate
        /\ q.b.cairo = s.b.cairo
    BY DEF Healthy, Whole, WithMode, BranchFields, Shaped, SettingsFields
  <1> QED
    BY <1>1, <1>2 DEF Healthy, SizeReached, RateReached, BitrateReached

LEMMA UpdateHealthy ==
  ASSUME NEW t, NEW s, Healthy(t, s), NEW u,
         u.fps \in Int \cup {None}, u.bitrate \in Int \cup {None}
  PROVE  Healthy(t, Updated(s, t, u))
  <1> DEFINE overlaid == WithNtp(WithOverlay(s, u.overlay), u.ntp)
             sized == WithSize(WithFps(overlaid, t, u.fps), t, u.resolution)
  <1>1. Healthy(t, overlaid)
    BY OverlayHealthy, NtpHealthy
  <1> HIDE DEF overlaid
  <1>2. Healthy(t, sized)
    BY <1>1, FpsHealthy, SizeHealthy
  <1> HIDE DEF sized
  <1>3. Healthy(t, WithMode(WithBitrate(sized, u.bitrate), u.mode))
    BY <1>2, BitrateHealthy, ModeHealthy
  <1> QED BY <1>3 DEF Updated, sized, overlaid

\* No update takes the config away.
LEMMA UpdateStaysSet ==
  ASSUME NEW t, NEW s, Healthy(t, s), NEW u
  PROVE  Updated(s, t, u).c.set = s.c.set
  <1> DEFINE Same(q) == DOMAIN q = SettingsFields /\ DOMAIN q.c = ConfigFields /\ q.c.set = s.c.set
             a == WithOverlay(s, u.overlay)
             b == WithNtp(a, u.ntp)
             c == WithFps(b, t, u.fps)
             d == WithSize(c, t, u.resolution)
             e == WithBitrate(d, u.bitrate)
  <1>1. Same(s)
    BY DEF Healthy, Whole, Shaped, Kept
  <1>2. Same(a)
    BY <1>1 DEF WithOverlay, SettingsFields, ConfigFields
  <1> HIDE DEF a
  <1>3. Same(b)
    BY <1>2 DEF WithNtp, SettingsFields, ConfigFields
  <1> HIDE DEF b
  <1>4. Same(c)
    BY <1>3 DEF WithFps, SettingsFields, ConfigFields
  <1> HIDE DEF c
  <1>5. Same(d)
    BY <1>4 DEF WithSize, SettingsFields, ConfigFields
  <1> HIDE DEF d
  <1>6. Same(e)
    BY <1>5 DEF WithBitrate, SettingsFields, ConfigFields
  <1> HIDE DEF e
  <1>7. Same(WithMode(e, u.mode))
    BY <1>6 DEF WithMode, SettingsFields, ConfigFields
  <1> QED BY <1>7 DEF Updated, a, b, c, d, e

----------------------------------------------------------------------------
(* The steps *)

\* What a step does not touch of a tier stays healthy.
LEMMA TierAlone ==
  ASSUME HealthInv, NEW t \in Tiers,
         config'[t] = config[t], branch'[t] = branch[t],
         pad'[t] = pad[t], behind'[t] = behind[t]
  PROVE  branch'[t].live => config'[t].set /\ Healthy(t, SettingsOf(t)')
  BY DEF HealthInv, SettingsOf

\* Nor does mounting: a tier that gets a new config has no branch.
LEMMA MountKeeps ==
  ASSUME TablesInv, NEW t \in Tiers, NEW c, Kept(c), c.set, Mount(t, c)
  PROVE  /\ DOMAIN config' = Tiers /\ DOMAIN factory' = Tiers
         /\ \A i \in Tiers : Kept(config'[i]) /\ Kept(factory'[i])
         /\ config'[t] = c
         /\ \A i \in Tiers \ {t} :
               config'[i] = config[i] \/ (i = Third /\ ~config[i].set)
  <1>1. Kept(ThirdConfig)
    BY DEF Kept, ThirdConfig, NewConfig, ConfigFields, GivenOr, DefaultBitrate
  <1>2. Third \in Tiers
    BY LiveBranchAssumption
  <1> QED BY <1>1, <1>2 DEF Mount, WithThird, Put, TablesInv

LEMMA ElementsMatch ==
  ASSUME NEW t, NEW c, Kept(c), NEW k, Kept(k), NEW left,
         "resolution" \notin left => c.resolution = k.resolution,
         "fps" \notin left => c.fps = k.fps,
         "bitrate" \notin left => c.bitrate = k.bitrate
  PROVE  Healthy(t, [c |-> k, b |-> BuildElements(t, c),
                     p |-> [NoPad EXCEPT !.filter = c.resolution],
                     behind |-> left, spoilt |-> FALSE])
  <1> DEFINE b == BuildElements(t, c)
             p == [NoPad EXCEPT !.filter = c.resolution]
             s == [c |-> k, b |-> b, p |-> p, behind |-> left, spoilt |-> FALSE]
  <1>1. DOMAIN b = BranchFields /\ b.live /\ b.drawn = c.resolution
        /\ b.rate = BuiltFps(c.fps) /\ b.encoder = EncoderOf(t, c.codec)
    BY DEF BuildElements, BranchFields
  <1>2. (t = Third \/ b.encoder = "v4l2") => b.bitrate = c.bitrate \/ c.bitrate <= 0
    BY DEF BuildElements, Kept
  <1>3. t = Third => b.encoder = "x264"
    BY <1>1 DEF EncoderOf
  <1> HIDE DEF b
  <1>4. p.pending = None /\ p.filter = c.resolution /\ p.probes = 0
    BY DEF NoPad
  <1>5. Fitting(p)
    BY NoPadFits
  <1> HIDE DEF p
  <1>6. Whole(s)
    BY <1>1, <1>5 DEF Whole, Shaped, SettingsFields
  <1>7. SizeReached(s) /\ RateReached(s) /\ BitrateReached(t, s)
    BY <1>1, <1>2, <1>3, <1>4 DEF SizeReached, RateReached, BitrateReached, Aim
  <1>8. Healthy(t, s)
    BY <1>6, <1>7 DEF Healthy
  <1> QED BY <1>8 DEF b, p

LEMMA BuildMatches ==
  ASSUME PadInv, TablesInv, HealthInv, NEW t \in Tiers, NEW c, Kept(c), NEW left,
         "resolution" \notin left => c.resolution = config[t].resolution,
         "fps" \notin left => c.fps = config[t].fps,
         "bitrate" \notin left => c.bitrate = config[t].bitrate,
         Build(t, c, left)
  PROVE  TablesInv' /\ HealthInv'
  <1> DEFINE b == BuildElements(t, c)
             p == [NoPad EXCEPT !.filter = c.resolution]
             s == [c |-> config[t], b |-> b, p |-> p, behind |-> left, spoilt |-> FALSE]
  <1>1. Healthy(t, s)
    BY ElementsMatch DEF TablesInv
  <1>2. DOMAIN b = BranchFields
    BY DEF BuildElements, BranchFields
  <1> HIDE DEF b, p
  <1>3. /\ config[t].set /\ config' = config /\ factory' = factory
        /\ branch' = [branch EXCEPT ![t] = b] /\ pad' = [pad EXCEPT ![t] = p]
        /\ behind' = [behind EXCEPT ![t] = left]
    BY DEF Build, Put, b, p
  <1>4. TablesInv'
    BY <1>2, <1>3 DEF TablesInv
  <1>5. SettingsOf(t)' = s
    BY <1>3 DEF SettingsOf, TablesInv, PadInv
  <1> HIDE DEF s
  <1>6. ASSUME NEW i \in Tiers
        PROVE  branch'[i].live => config'[i].set /\ Healthy(i, SettingsOf(i)')
    <2>1. CASE i = t
      BY <2>1, <1>1, <1>3, <1>5
    <2>2. CASE i # t
      BY <2>2, <1>3, TierAlone DEF TablesInv, PadInv
    <2> QED BY <2>1, <2>2
  <1>7. HealthInv'
    BY <1>6 DEF HealthInv
  <1> QED BY <1>4, <1>7

LEMMA GoneMatches ==
  ASSUME PadInv, TablesInv, HealthInv, NEW t \in Tiers, BranchGone(t),
         DOMAIN config' = Tiers, DOMAIN factory' = Tiers,
         \A i \in Tiers : Kept(config'[i]) /\ Kept(factory'[i]),
         \A i \in Tiers \ {t} : config'[i] = config[i] \/ ~config[i].set
  PROVE  TablesInv' /\ HealthInv'
  <1>1. /\ branch' = [branch EXCEPT ![t] = NoBranch] /\ pad' = [pad EXCEPT ![t] = NoPad]
        /\ behind' = [behind EXCEPT ![t] = {}]
    BY DEF BranchGone, Put
  <1>2. DOMAIN NoBranch = BranchFields /\ ~NoBranch.live
    BY DEF NoBranch, BranchFields
  <1>3. TablesInv'
    BY <1>1, <1>2 DEF TablesInv
  <1>4. ASSUME NEW i \in Tiers
        PROVE  branch'[i].live => config'[i].set /\ Healthy(i, SettingsOf(i)')
    <2>1. CASE i = t
      BY <2>1, <1>1, <1>2 DEF TablesInv
    <2>2. CASE i # t /\ ~config[i].set
      BY <2>2, <1>1 DEF TablesInv, HealthInv
    <2>3. CASE i # t /\ config'[i] = config[i]
      BY <2>3, <1>1, TierAlone DEF TablesInv, PadInv
    <2> QED BY <2>1, <2>2, <2>3
  <1>5. HealthInv'
    BY <1>4 DEF HealthInv
  <1> QED BY <1>3, <1>5

\* The settings of a tier are replaced as a whole.
LEMMA ApplyMatches ==
  ASSUME PadInv, TablesInv, HealthInv, NEW t \in Tiers, NEW s, Apply(t, s),
         Kept(s.c), DOMAIN s.b = BranchFields,
         s.b.live => s.c.set /\ Healthy(t, s),
         UNCHANGED factory
  PROVE  TablesInv' /\ HealthInv'
  <1>1. /\ config' = [config EXCEPT ![t] = s.c] /\ branch' = [branch EXCEPT ![t] = s.b]
        /\ pad' = [pad EXCEPT ![t] = s.p] /\ behind' = [behind EXCEPT ![t] = s.behind]
    BY DEF Apply, Put
  <1>2. TablesInv'
    BY <1>1 DEF TablesInv
  <1>3. /\ SettingsOf(t)' = [c |-> s.c, b |-> s.b, p |-> s.p, behind |-> s.behind, spoilt |-> FALSE]
        /\ config'[t] = s.c /\ branch'[t] = s.b
    BY <1>1 DEF SettingsOf, TablesInv, PadInv
  <1>4. ASSUME NEW i \in Tiers
        PROVE  branch'[i].live => config'[i].set /\ Healthy(i, SettingsOf(i)')
    <2>1. CASE i = t
      <3>1. Healthy(t, s) => Healthy(t, SettingsOf(t)')
        BY <1>3 DEF Healthy, Whole, Shaped, SettingsFields, SizeReached, RateReached,
                    BitrateReached
      <3> QED BY <2>1, <3>1, <1>3
    <2>2. CASE i # t
      BY <2>2, <1>1, TierAlone DEF TablesInv, PadInv
    <2> QED BY <2>1, <2>2
  <1>5. HealthInv'
    BY <1>4 DEF HealthInv
  <1> QED BY <1>2, <1>5

\* The probe carries a size out: what the pad aims at is the same after it.
LEMMA StreamMatches ==
  ASSUME PadInv, TablesInv, HealthInv, NEW t \in Tiers, Stream(t)
  PROVE  TablesInv' /\ HealthInv'
  <1> DEFINE p == pad[t]
             q == pad'[t]
  <1>1. /\ branch[t].live /\ UNCHANGED <<config, factory, branch, behind>>
        /\ \E new : pad' = [pad EXCEPT ![t] = new]
    BY DEF Stream, StreamStarts, Buffer, Caps, Put
  <1>2. Fitting(p) /\ (p.probes > 0 => p.pending # None)
    BY <1>1 DEF HealthInv, Healthy, SizeReached, PadInv, SettingsOf
  <1>3. Fitting(q)
    BY StreamFits DEF PadInv
  <1>4. Aim(q) = Aim(p) /\ (q.probes > 0 => q.pending # None)
    <2>1. CASE StreamStarts(t)
      <3>1. q = IF p.probes = 0 THEN [p EXCEPT !.scaler = p.filter]
                ELSE [Triggered(p) EXCEPT !.stuck = TRUE]
        BY <2>1 DEF StreamStarts, Put, PadInv
      <3> HIDE DEF q
      <3> QED BY <1>2, <3>1 DEF Triggered, Aim, Fitting, PadFields
    <2>2. CASE Buffer(t)
      <3>1. q = Triggered(p) /\ p.probes > 0
        BY <2>2 DEF Buffer, DropBuffer, Put, PadInv
      <3> HIDE DEF q
      <3> QED BY <1>2, <3>1 DEF Triggered, Aim, Fitting, PadFields
    <2>3. CASE Caps(t)
      <3> DEFINE r == Triggered(p)
      <3>1. /\ q = IF p.filter = r.pending THEN ProbeDone(r, p.filter)
                   ELSE [r EXCEPT !.stuck = TRUE]
            /\ p.probes > 0
        BY <2>3 DEF Caps, Put, PadInv
      <3>2. /\ DOMAIN r = PadFields /\ r.pending = p.pending /\ r.probes = p.probes
            /\ r.filter \in {p.filter, p.pending}
        BY <1>2 DEF Triggered, Fitting, PadFields
      <3> HIDE DEF q, r
      <3> QED BY <1>2, <3>1, <3>2 DEF ProbeDone, Aim, PadFields
    <2> QED BY <2>1, <2>2, <2>3 DEF Stream
  <1> DEFINE s == [c |-> config[t], b |-> branch[t], p |-> q, behind |-> behind[t],
                   spoilt |-> FALSE]
  <1>5. SettingsOf(t)' = s
    BY <1>1 DEF SettingsOf
  <1>6. Healthy(t, SettingsOf(t)) /\ config[t].set
    BY <1>1 DEF HealthInv
  <1>7. Healthy(t, s)
    <2>1. /\ s.p = q /\ s.c = config[t] /\ s.b = branch[t] /\ s.behind = behind[t]
          /\ DOMAIN s = SettingsFields
      BY DEF SettingsFields
    <2>2. /\ SettingsOf(t).p = p /\ SettingsOf(t).c = config[t]
          /\ SettingsOf(t).b = branch[t] /\ SettingsOf(t).behind = behind[t]
      BY DEF SettingsOf
    <2> HIDE DEF s, p, q
    <2>3. Whole(s)
      BY <1>3, <1>6, <2>1, <2>2 DEF Healthy, Whole, Shaped
    <2>4. SizeReached(s) /\ RateReached(s) /\ BitrateReached(t, s)
      BY <1>4, <1>6, <2>1, <2>2 DEF Healthy, SizeReached, RateReached, BitrateReached
    <2> QED BY <2>3, <2>4 DEF Healthy
  <1> HIDE DEF s
  <1>8. TablesInv'
    BY <1>1 DEF TablesInv
  <1>9. ASSUME NEW i \in Tiers
        PROVE  branch'[i].live => config'[i].set /\ Healthy(i, SettingsOf(i)')
    <2>1. CASE i = t
      BY <2>1, <1>1, <1>5, <1>6, <1>7
    <2>2. CASE i # t
      BY <2>2, <1>1, TierAlone DEF PadInv
    <2> QED BY <2>1, <2>2
  <1>10. HealthInv'
    BY <1>9 DEF HealthInv
  <1> QED BY <1>8, <1>10

\* What a request is made up to has numbers where the config has them.
LEMMA CoalescedKept ==
  ASSUME TablesInv, NEW t \in Tiers, NEW r \in LensRequests
  PROVE  /\ Coalesced(t, r).fps \in Int
         /\ Kept(ConfigWritten(t, Coalesced(t, r)))
         /\ ConfigWritten(t, Coalesced(t, r)).set = config[t].set
         /\ ConfigWritten(t, Coalesced(t, r)).bitrate = config[t].bitrate
  <1> DEFINE n == Coalesced(t, r)
  <1>1. {r.fps, r.bitrate} \subseteq Int \cup {None}
    BY LiveBranchAssumption
  <1>2. Kept(config[t])
    BY DEF TablesInv
  <1>3. n.fps \in Int
    BY <1>1, <1>2 DEF Coalesced, GivenOr, Kept
  <1> HIDE DEF n
  <1>4. /\ Kept(ConfigWritten(t, n)) /\ ConfigWritten(t, n).set = config[t].set
        /\ ConfigWritten(t, n).bitrate = config[t].bitrate
    BY <1>2, <1>3 DEF ConfigWritten, Kept, ConfigFields
  <1> QED BY <1>3, <1>4 DEF n

LEMMA NewConfigKept ==
  ASSUME NEW n, n.fps \in Int, NEW kbps \in Int \cup {None}
  PROVE  Kept(NewConfig(n, kbps)) /\ NewConfig(n, kbps).set
  BY DEF NewConfig, Kept, ConfigFields, GivenOr, DefaultBitrate

LEMMA NewMatches ==
  ASSUME PadInv, TablesInv, HealthInv, NEW t \in Tiers, NEW r \in LensRequests,
         ConfigureNew(t, r)
  PROVE  TablesInv' /\ HealthInv'
  <1> DEFINE c == NewConfig(Coalesced(t, r), r.bitrate)
  <1>1. {r.fps, r.bitrate} \subseteq Int \cup {None}
    BY LiveBranchAssumption
  <1>2. Kept(c) /\ c.set
    BY <1>1, CoalescedKept, NewConfigKept
  <1>3. ~config[t].set /\ Mount(t, c) /\ UNCHANGED <<branch, pad, behind>>
    BY DEF ConfigureNew
  <1> HIDE DEF c
  <1>4. /\ DOMAIN config' = Tiers /\ DOMAIN factory' = Tiers
        /\ \A i \in Tiers : Kept(config'[i]) /\ Kept(factory'[i])
        /\ \A i \in Tiers : config'[i] = config[i] \/ ~config[i].set
    BY <1>2, <1>3, MountKeeps
  <1>5. TablesInv'
    BY <1>3, <1>4 DEF TablesInv
  <1>6. ASSUME NEW i \in Tiers
        PROVE  branch'[i].live => config'[i].set /\ Healthy(i, SettingsOf(i)')
    <2>1. CASE ~config[i].set
      BY <2>1, <1>3 DEF HealthInv
    <2>2. CASE config'[i] = config[i]
      BY <2>2, <1>3, TierAlone
    <2> QED BY <2>1, <2>2, <1>4
  <1>7. HealthInv'
    BY <1>6 DEF HealthInv
  <1> QED BY <1>5, <1>7

LEMMA RebuildMatches ==
  ASSUME PadInv, TablesInv, HealthInv, NEW t \in Tiers, NEW r \in LensRequests,
         ConfigureRebuild(t, r)
  PROVE  TablesInv' /\ HealthInv'
  <1> DEFINE n == Coalesced(t, r)
  <1>1. {r.fps, r.bitrate} \subseteq Int \cup {None}
    BY LiveBranchAssumption
  <1>2. n.fps \in Int
    BY CoalescedKept
  <1>3. PICK size, codec : Mount(t, NewConfig([n EXCEPT !.resolution = size, !.codec = codec],
                                              r.bitrate))
    BY DEF ConfigureRebuild
  <1> DEFINE m == [n EXCEPT !.resolution = size, !.codec = codec]
             c == NewConfig(m, r.bitrate)
  <1>4. m.fps \in Int
    BY <1>2 DEF Coalesced
  <1> HIDE DEF m
  <1>5. Kept(c) /\ c.set
    BY <1>1, <1>4, NewConfigKept
  <1>6. Mount(t, c)
    BY <1>3 DEF m
  <1> HIDE DEF c
  <1>7. /\ DOMAIN config' = Tiers /\ DOMAIN factory' = Tiers
        /\ \A i \in Tiers : Kept(config'[i]) /\ Kept(factory'[i])
        /\ \A i \in Tiers \ {t} : config'[i] = config[i] \/ ~config[i].set
    BY <1>5, <1>6, MountKeeps
  <1>8. BranchGone(t)
    BY DEF ConfigureRebuild
  <1> QED BY <1>7, <1>8, GoneMatches

\* What ConfigureLens wrote and the branch has not is left behind.
LEMMA WrittenHealthy ==
  ASSUME NEW t \in Tiers, NEW c, Kept(c), c.bitrate = config[t].bitrate,
         Healthy(t, SettingsOf(t))
  PROVE  Healthy(t, [SettingsOf(t) EXCEPT !.c = c, !.behind = @ \cup LeftBehind(t, c)])
  <1> DEFINE q == SettingsOf(t)
             s == [q EXCEPT !.c = c, !.behind = @ \cup LeftBehind(t, c)]
  <1>1. /\ s.c = c /\ s.b = q.b /\ s.p = q.p /\ DOMAIN s = DOMAIN q
        /\ s.behind = q.behind \cup LeftBehind(t, c) /\ q.c = config[t]
    BY DEF SettingsOf
  <1>2. /\ "fps" \notin LeftBehind(t, c) => c.fps = config[t].fps
        /\ "resolution" \notin LeftBehind(t, c) => c.resolution = config[t].resolution
    BY DEF LeftBehind
  <1> HIDE DEF q, s
  <1>3. Healthy(t, q)
    BY DEF q
  <1>4. Whole(s)
    BY <1>1, <1>3 DEF Healthy, Whole, Shaped
  <1>5. SizeReached(s) /\ RateReached(s) /\ BitrateReached(t, s)
    BY <1>1, <1>2, <1>3 DEF Healthy, SizeReached, RateReached, BitrateReached
  <1>6. Healthy(t, s)
    BY <1>4, <1>5 DEF Healthy
  <1> QED BY <1>6 DEF s, q

LEMMA DynamicMatches ==
  ASSUME PadInv, TablesInv, HealthInv, NEW t \in Tiers, NEW r \in LensRequests,
         ConfigureDynamic(t, r)
  PROVE  TablesInv' /\ HealthInv'
  <1> DEFINE n == Coalesced(t, r)
             c == ConfigWritten(t, n)
             s == [SettingsOf(t) EXCEPT !.c = c, !.behind = @ \cup LeftBehind(t, c)]
             u == [resolution |-> n.resolution, fps |-> n.fps, bitrate |-> None,
                   overlay |-> n.overlay, ntp |-> n.ntp, mode |-> None]
             result == IF branch[t].live THEN Updated(s, t, u) ELSE [s EXCEPT !.behind = {}]
  <1>1. /\ Kept(c) /\ c.set = config[t].set /\ c.bitrate = config[t].bitrate
        /\ n.fps \in Int
    BY CoalescedKept
  <1>2. config[t].set /\ Apply(t, result) /\ UNCHANGED factory
    BY DEF ConfigureDynamic
  <1> HIDE DEF c
  <1>3. s.c = c /\ s.b = branch[t]
    BY DEF SettingsOf
  <1>4. CASE branch[t].live
    <2>1. Healthy(t, s)
      BY <1>1, <1>4, WrittenHealthy DEF HealthInv
    <2>2. u.fps \in Int \cup {None} /\ u.bitrate \in Int \cup {None}
      BY <1>1
    <2> HIDE DEF s, u
    <2> DEFINE q == Updated(s, t, u)
    <2>3. Healthy(t, q)
      BY <2>1, <2>2, UpdateHealthy
    <2>4. q.c.set = s.c.set
      BY <2>1, UpdateStaysSet
    <2> HIDE DEF q
    <2>5. Apply(t, q)
      BY <1>2, <1>4 DEF q
    <2>6. q.c.set /\ Kept(q.c) /\ DOMAIN q.b = BranchFields
      BY <1>1, <1>2, <1>3, <2>3, <2>4 DEF Healthy, Whole
    <2> QED BY <1>2, <2>3, <2>5, <2>6, ApplyMatches
  <1>5. CASE ~branch[t].live
    <2> DEFINE q == [s EXCEPT !.behind = {}]
    <2>1. q.c = c /\ q.b = branch[t]
      BY <1>3 DEF SettingsOf
    <2> HIDE DEF s, q
    <2>2. Apply(t, q)
      BY <1>2, <1>5 DEF q
    <2>3. Kept(q.c) /\ DOMAIN q.b = BranchFields /\ ~q.b.live
      BY <1>1, <1>5, <2>1 DEF TablesInv
    <2> QED BY <1>2, <2>2, <2>3, ApplyMatches
  <1> QED BY <1>4, <1>5

LEMMA LiveMatches ==
  ASSUME PadInv, TablesInv, HealthInv, NEW t \in Tiers, NEW u \in Updates,
         UpdateLive(t, u)
  PROVE  TablesInv' /\ HealthInv'
  <1> DEFINE s == SettingsOf(t)
             q == Updated(s, t, u)
  <1>1. /\ config[t].set /\ branch[t].live /\ Apply(t, q) /\ UNCHANGED factory
    BY DEF UpdateLive
  <1>2. Healthy(t, s) /\ s.c.set
    BY <1>1 DEF HealthInv, SettingsOf
  <1>3. {u.fps, u.bitrate} \subseteq Int \cup {None}
    BY LiveBranchAssumption
  <1> HIDE DEF s
  <1>4. Healthy(t, q) /\ q.c.set
    BY <1>2, <1>3, UpdateHealthy, UpdateStaysSet
  <1> HIDE DEF q
  <1>5. Kept(q.c) /\ DOMAIN q.b = BranchFields
    BY <1>4 DEF Healthy, Whole
  <1> QED BY <1>1, <1>4, <1>5, ApplyMatches

LEMMA IdleMatches ==
  ASSUME PadInv, TablesInv, HealthInv, NEW t \in Tiers, NEW u \in Updates,
         UpdateIdle(t, u)
  PROVE  TablesInv' /\ HealthInv'
  <1> DEFINE c == [config[t] EXCEPT !.fps = GivenOr(u.fps, @),
                                    !.resolution = GivenOr(u.resolution, @),
                                    !.ntp = GivenOr(u.ntp, @),
                                    !.overlay = GivenOr(u.overlay, @)]
  <1>1. {u.fps, u.bitrate} \subseteq Int \cup {None}
    BY LiveBranchAssumption
  <1>2. Kept(c)
    BY <1>1 DEF TablesInv, Kept, ConfigFields, GivenOr
  <1>3. /\ ~branch[t].live /\ config' = [config EXCEPT ![t] = c]
        /\ UNCHANGED <<factory, branch, pad, behind>>
    BY DEF UpdateIdle, Put
  <1> HIDE DEF c
  <1>4. TablesInv'
    BY <1>2, <1>3 DEF TablesInv
  <1>5. ASSUME NEW i \in Tiers
        PROVE  branch'[i].live => config'[i].set /\ Healthy(i, SettingsOf(i)')
    <2>1. CASE i = t
      BY <2>1, <1>3
    <2>2. CASE i # t
      BY <2>2, <1>3, TierAlone DEF TablesInv
    <2> QED BY <2>1, <2>2
  <1>6. HealthInv'
    BY <1>5 DEF HealthInv
  <1> QED BY <1>4, <1>6

\* A toggle shows and hides: it moves no size, rate or bit rate, and no
\* element comes or goes.
Alike(s, q) ==
    /\ q.p = s.p /\ q.behind = s.behind
    /\ q.c.set = s.c.set /\ q.c.fps = s.c.fps /\ q.c.bitrate = s.c.bitrate
    /\ q.c.resolution = s.c.resolution
    /\ q.b.live = s.b.live /\ q.b.encoder = s.b.encoder /\ q.b.rate = s.b.rate
    /\ q.b.drawn = s.b.drawn /\ q.b.bitrate = s.b.bitrate
    /\ q.b.cairo = "absent" <=> s.b.cairo = "absent"
    /\ DOMAIN q = DOMAIN s /\ DOMAIN q.c = DOMAIN s.c /\ DOMAIN q.b = DOMAIN s.b

LEMMA AlikeHealthy ==
  ASSUME NEW t, NEW s, NEW q, Healthy(t, s), Alike(s, q)
  PROVE  Healthy(t, q)
  <1>1. Whole(q)
    BY DEF Alike, Healthy, Whole, Shaped, Kept
  <1>2. SizeReached(q) /\ RateReached(q) /\ BitrateReached(t, q)
    BY DEF Alike, Healthy, SizeReached, RateReached, BitrateReached
  <1> QED BY <1>1, <1>2 DEF Healthy

LEMMA ToggleMatches ==
  ASSUME PadInv, TablesInv, HealthInv, NEW tier, NEW on \in BOOLEAN,
         ToggleOverlay(tier, on) \/ ToggleNtp(tier, on)
  PROVE  TablesInv' /\ HealthInv'
  <1>1. UNCHANGED <<factory, pad, behind>>
    BY DEF ToggleOverlay, ToggleNtp
  <1>2. /\ DOMAIN config' = Tiers /\ DOMAIN branch' = Tiers
        /\ \A i \in Tiers : config'[i] \in {config[i], [config[i] EXCEPT !.ntp = on]}
    BY DEF ToggleOverlay, ToggleNtp, TablesInv
  <1>3. \A i \in Tiers :
           branch'[i] \in {branch[i]}
                          \cup {[branch[i] EXCEPT !.clock = x] : x \in {"shown", "silent"}}
                          \cup {x \in {[branch[i] EXCEPT !.cairo = "on"],
                                       [branch[i] EXCEPT !.cairo = "off"]} :
                                   branch[i].cairo # "absent"}
    <2>1. CASE ToggleOverlay(tier, on)
      BY <2>1 DEF ToggleOverlay
    <2>2. CASE ToggleNtp(tier, on)
      BY <2>2 DEF ToggleNtp
    <2> QED BY <2>1, <2>2
  <1>4. ASSUME NEW i \in Tiers
        PROVE  Kept(config'[i]) /\ DOMAIN branch'[i] = BranchFields /\ Alike(SettingsOf(i), SettingsOf(i)')
    <2>1. Kept(config[i]) /\ DOMAIN branch[i] = BranchFields
      BY DEF TablesInv
    <2> DEFINE c == config'[i]
               b == branch'[i]
    <2>2. /\ Kept(c) /\ c.set = config[i].set /\ c.fps = config[i].fps
          /\ c.bitrate = config[i].bitrate /\ c.resolution = config[i].resolution
      BY <1>2, <2>1 DEF Kept, ConfigFields
    <2>3. /\ DOMAIN b = BranchFields /\ b.live = branch[i].live
          /\ b.encoder = branch[i].encoder /\ b.rate = branch[i].rate
          /\ b.drawn = branch[i].drawn /\ b.bitrate = branch[i].bitrate
          /\ b.cairo = "absent" <=> branch[i].cairo = "absent"
      BY <1>3, <2>1 DEF BranchFields
    <2>4. SettingsOf(i)' = [c |-> c, b |-> b, p |-> pad[i], behind |-> behind[i],
                            spoilt |-> FALSE]
      BY <1>1 DEF SettingsOf
    <2> HIDE DEF c, b
    <2>5. Alike(SettingsOf(i), [c |-> c, b |-> b, p |-> pad[i], behind |-> behind[i],
                                spoilt |-> FALSE])
      BY <2>1, <2>2, <2>3 DEF Alike, SettingsOf, Kept
    <2>6. Alike(SettingsOf(i), SettingsOf(i)')
      BY <2>4, <2>5
    <2>7. Kept(config'[i]) /\ DOMAIN branch'[i] = BranchFields
      BY <2>2, <2>3 DEF c, b
    <2> QED BY <2>6, <2>7
  <1>5. TablesInv'
    BY <1>1, <1>2, <1>4 DEF TablesInv
  <1>6. ASSUME NEW i \in Tiers
        PROVE  branch'[i].live => config'[i].set /\ Healthy(i, SettingsOf(i)')
    <2> DEFINE s == SettingsOf(i)
               q == SettingsOf(i)'
    <2>1. s.c = config[i] /\ s.b = branch[i] /\ q.c = config'[i] /\ q.b = branch'[i]
      BY DEF SettingsOf
    <2>2. Alike(s, q)
      BY <1>4
    <2>3. branch[i].live => config[i].set /\ Healthy(i, s)
      BY DEF HealthInv
    <2> HIDE DEF s, q
    <2>4. branch'[i].live = branch[i].live /\ config'[i].set = config[i].set
      BY <2>1, <2>2 DEF Alike
    <2>5. branch'[i].live => config'[i].set /\ Healthy(i, q)
      BY <2>2, <2>3, <2>4, AlikeHealthy
    <2> QED BY <2>5 DEF q
  <1>7. HealthInv'
    BY <1>6 DEF HealthInv
  <1> QED BY <1>5, <1>7

LEMMA InitMatches == Init => MatchInv
  <1> SUFFICES ASSUME Init PROVE MatchInv
    OBVIOUS
  <1>1. PadInv
    BY InitFits
  <1>2. Kept(NoConfig) /\ DOMAIN NoBranch = BranchFields /\ ~NoBranch.live
    BY DEF Kept, NoConfig, ConfigFields, NoBranch, BranchFields
  <1>3. TablesInv /\ HealthInv
    BY <1>2 DEF Init, TablesInv, HealthInv
  <1> QED BY <1>1, <1>3 DEF MatchInv

LEMMA StepMatches == MatchInv /\ [Next]_vars => MatchInv'
  <1> SUFFICES ASSUME PadInv, TablesInv, HealthInv, [Next]_vars
               PROVE  TablesInv' /\ HealthInv'
    BY StepFits DEF MatchInv
  <1>1. CASE UNCHANGED vars
    <2>1. TablesInv'
      BY <1>1 DEF vars, TablesInv
    <2>2. HealthInv'
      BY <1>1 DEF vars, HealthInv, SettingsOf
    <2> QED BY <2>1, <2>2
  <1>2. ASSUME NEW t \in Tiers, RtspConnect(t) PROVE TablesInv' /\ HealthInv'
    <2> DEFINE c == [factory[t] EXCEPT !.overlay = config[t].overlay, !.ntp = config[t].ntp]
               left == {s \in Settings : factory[t][s] # config[t][s]}
    <2>1. Kept(factory[t])
      BY DEF TablesInv
    <2>2. /\ Kept(c) /\ c.resolution = factory[t].resolution /\ c.fps = factory[t].fps
          /\ c.bitrate = factory[t].bitrate
      BY <2>1 DEF Kept, ConfigFields
    <2>3. /\ "resolution" \notin left => factory[t].resolution = config[t].resolution
          /\ "fps" \notin left => factory[t].fps = config[t].fps
          /\ "bitrate" \notin left => factory[t].bitrate = config[t].bitrate
      BY DEF Settings
    <2>4. Build(t, c, left)
      BY <1>2 DEF RtspConnect
    <2> HIDE DEF c, left
    <2> QED BY <2>2, <2>3, <2>4, BuildMatches
  <1>3. ASSUME NEW t \in Tiers, StartHls(t) PROVE TablesInv' /\ HealthInv'
    <2>1. Build(t, config[t], {}) /\ Kept(config[t])
      BY <1>3 DEF StartHls, TablesInv
    <2> QED BY <2>1, BuildMatches
  <1>4. ASSUME NEW t \in Tiers, LastUserLeaves(t) PROVE TablesInv' /\ HealthInv'
    <2>1. BranchGone(t) /\ UNCHANGED <<config, factory>>
      BY <1>4 DEF LastUserLeaves
    <2> QED BY <2>1, GoneMatches DEF TablesInv
  <1>5. ASSUME NEW t \in Tiers, Stream(t) PROVE TablesInv' /\ HealthInv'
    BY <1>5, StreamMatches
  <1>6. ASSUME NEW t \in Tiers, NEW u \in Updates, UpdateLive(t, u) \/ UpdateIdle(t, u)
        PROVE  TablesInv' /\ HealthInv'
    BY <1>6, LiveMatches, IdleMatches
  <1>7. ASSUME NEW t \in Tiers, NEW r \in LensRequests,
               ConfigureNew(t, r) \/ ConfigureDynamic(t, r) \/ ConfigureRebuild(t, r)
        PROVE  TablesInv' /\ HealthInv'
    BY <1>7, NewMatches, DynamicMatches, RebuildMatches
  <1>8. ASSUME NEW tier, NEW on \in BOOLEAN, ToggleOverlay(tier, on) \/ ToggleNtp(tier, on)
        PROVE  TablesInv' /\ HealthInv'
    BY <1>8, ToggleMatches
  <1> QED BY <1>1, <1>2, <1>3, <1>4, <1>5, <1>6, <1>7, <1>8 DEF Next

\* RunningMatchesConfig: whatever the order of clients, updates, toggles,
\* reconfigurations and probe calls, a running branch has the size, rate and
\* bit rate of its BranchConfig (capture.c:98) or is known to be left behind.
THEOREM BranchesMatch == Spec => []RunningMatchesConfig
  <1>1. MatchInv => RunningMatchesConfig
    BY DEF MatchInv, HealthInv, Healthy, SizeReached, RateReached, BitrateReached,
           RunningMatchesConfig, SettingsOf, Target, Aim
  <1>2. Init /\ [][Next]_vars => []MatchInv
    BY InitMatches, StepMatches, PTL
  <1> QED BY <1>1, <1>2, PTL DEF Spec

=============================================================================
