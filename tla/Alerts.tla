-------------------------------- MODULE Alerts --------------------------------
(***************************************************************************)
(* From a frame to what people see of it: the AI engine's inference        *)
(* callback (ai_engine.py, _on_new_sample) publishes boxes and alerts on a *)
(* ZeroMQ PUB socket (event_broker.py and .c); the video engine draws the   *)
(* boxes and takes a picture of an alert that has none (engine/main.c,     *)
(* _on_ai_event; sys_capture.c, _on_cairo_draw); the alert manager keeps   *)
(* the last alerts in a ring (alert_manager/main.c).                       *)
(*                                                                         *)
(* How a model is loaded is in AIEngine and what an alert does to an event *)
(* recording in Recording.  A PUB socket sends to whoever is connected and *)
(* drops what would not fit; a process may restart at any time.            *)
(* Bounds: MaxLoads models loaded, MaxScenes frames with something to see, *)
(* MaxSent alerts, MaxEvents processes that die or settings that change. *)
(* Time is counted up to the longest delay it is compared with.            *)
(***************************************************************************)
EXTENDS Trackers

CONSTANTS Lenses, LoadRequests,     \* records [model, lens]: what clients ask for
          SnapThresholds,           \* values of snapshot_threshold clients may set
          Heartbeat, SnapCooldown,  \* 2 s and 5 s
          RingSize,                 \* entries of the history (100)
          Hwm,                      \* messages a socket queues for one subscriber
          MaxLoads, MaxScenes, MaxSent, MaxEvents

ASSUME AlertsAssumption ==
  /\ LoadRequests \subseteq [model : Models, lens : Lenses] /\ <<>> \in Frames
  /\ RingSize \in Nat \ {0} /\ Hwm \in Nat \ {0}
  /\ Heartbeat \in Nat /\ SnapCooldown \in Nat

VARIABLES
  ai,         \* the AI engine: model, lens, tracker, settings
  scenes,     \* frames with something in them that are still to come
  sinceCoords, sinceSnap, uptime,
  queue,      \* queue[s]: messages on their way to subscriber s
  up,         \* subscribers that run
  shown,      \* shown[l]: capture_pipe->ai.coords of lens l
  pictures,   \* picture files there are
  written,    \* pictures ever written
  ring, head, count,
  received,   \* alerts the manager was given since it started
  sent,       \* alerts published
  events      \* deaths and changes of settings

aiVars == <<ai, scenes, sinceCoords, uptime, sent>>
engineVars == <<shown, sinceSnap>>
managerVars == <<ring, head, count, received>>
fileVars == <<pictures, written>>
alertsVars == <<aiVars, engineVars, managerVars, fileVars, queue, up, events>>

Subscribers == {"engine", "manager"}
Topics == [engine |-> {"coords", "alerts"}, manager |-> {"alerts"}]

NoPicture == 0
NoAlert == [type |-> "", tid |-> 0, conf |-> 0, load |-> 0, forgot |-> 0, snapshot |-> NoPicture]

\* lens and model of the current load, counted by load; forgot counts the times
\* the tracker emptied saved_violations.
Stopped(n) == [model |-> "", lens |-> "", tracker |-> NewTracker, load |-> n, forgot |-> 0,
               snapshots |-> TRUE, snapThreshold |-> 50]
Loaded(model, lens, n) == [Stopped(n) EXCEPT !.model = model, !.lens = lens, !.load = n + 1]

Until(n, limit) == Min({n + 1, limit})

----------------------------------------------------------------------------
(* The broker *)

CoordsMessage(lens, coords) ==
  [topic |-> "coords", lens |-> lens, coords |-> coords, alert |-> NoAlert]
AlertMessage(lens, alert) == [topic |-> "alerts", lens |-> lens, coords |-> <<>>, alert |-> alert]

\* Sent to a subscriber that is there; what does not fit is dropped.
Published(q, messages) ==
  [s \in Subscribers |->
     IF s \notin up THEN q[s]
     ELSE LET wanted == SelectSeq(messages, LAMBDA m : m.topic \in Topics[s])
          IN q[s] \o SubSeq(wanted, 1, Min({Len(wanted), Hwm - Len(q[s])}))]

----------------------------------------------------------------------------
(* The AI engine *)

Cleared(lens) == CoordsMessage(lens, <<>>)

\* Another lens: the old model is stopped and its boxes are taken away first.  The
\* same lens: nothing is done, whichever model was asked for.
Load(model, lens) ==
  /\ ai.lens # lens /\ ai.load < MaxLoads
  /\ queue' = Published(queue, (IF ai.lens = "" THEN <<>> ELSE <<Cleared(ai.lens)>>)
                               \o <<Cleared(lens)>>)
  /\ ai' = Loaded(model, lens, ai.load)
  /\ UNCHANGED <<scenes, sinceCoords, uptime, sent, engineVars, managerVars, fileVars, up, events>>

StopModel ==
  /\ ai.lens # ""
  /\ queue' = Published(queue, <<Cleared(ai.lens)>>)
  /\ ai' = Stopped(ai.load)
  /\ UNCHANGED <<scenes, sinceCoords, uptime, sent, engineVars, managerVars, fileVars, up, events>>

SetAiConfig(snapshots, threshold) ==
  /\ ai.lens # "" /\ events < MaxEvents
  /\ events' = events + 1
  /\ ai' = [ai EXCEPT !.snapshots = snapshots, !.snapThreshold = threshold]
  /\ UNCHANGED <<scenes, sinceCoords, uptime, sent, engineVars, managerVars, fileVars, queue, up>>

ShouldPublishSeen(coords) == coords # <<>>

\* Boxes at every frame that has some, an empty list every Heartbeat.
ShouldPublish(coords) == coords # <<>> \/ sinceCoords >= Heartbeat

Forgot(r) == r.alerts # <<>> /\ r.tracker.saved = {} /\ ai.model \in {"helmet", "triple_riding"}

\* The alerts that go out: sure enough, with the picture of the frame if one was made.
Enriched(alerts, snapshot) ==
  [i \in DOMAIN alerts |->
     [type |-> alerts[i].type, tid |-> alerts[i].tid, conf |-> alerts[i].conf,
      load |-> ai.load, forgot |-> ai.forgot, snapshot |-> snapshot]]

\* Every alert's picture has the time in its name, to the millisecond.
TakePicture == pictures' = pictures \cup {written + 1} /\ written' = written + 1

\* What becomes of the result r of a frame: the tracker is kept, boxes and alerts go out.
PublishDetections(r) ==
  LET coords == SelectSeq(r.coords, LAMBDA d : d.conf >= AiThreshold)
      boxes == IF ShouldPublish(coords) THEN <<CoordsMessage(ai.lens, coords)>> ELSE <<>>
      alerts == Picked(r.alerts, {i \in DOMAIN r.alerts : r.alerts[i].conf >= ai.snapThreshold})
      Out(snapshot) ==
        LET out == Enriched(alerts, snapshot)
        IN /\ sent' = sent \o out
           /\ queue' = Published(queue, boxes \o
                                       [i \in DOMAIN out |-> AlertMessage(ai.lens, out[i])])
  IN /\ Len(sent) + Len(alerts) <= MaxSent
     /\ ai' = [ai EXCEPT !.tracker = r.tracker,
                         !.forgot = IF Forgot(r) THEN @ + 1 ELSE @]
     /\ sinceCoords' = IF ShouldPublish(coords) THEN 0 ELSE sinceCoords
     /\ \/ /\ alerts # <<>> /\ ai.snapshots
           /\ TakePicture
           /\ Out(written')
        \/ \* no alert, no pictures wanted, or cv2.imwrite failed
           /\ Out(NoPicture)
           /\ UNCHANGED fileVars

OnNewSample(frame) ==
  /\ ai.model # ""
  /\ IF frame = <<>> THEN UNCHANGED scenes ELSE scenes > 0 /\ scenes' = scenes - 1
  /\ \E u \in {Updated(ai.model, ai.tracker, frame)} :
       \E r \in {Process(ai.model, ai.tracker, u, frame, uptime)} : PublishDetections(r)
  /\ UNCHANGED <<uptime, engineVars, managerVars, up, events>>

----------------------------------------------------------------------------
(* The video engine *)

Took(s) == queue' = [queue EXCEPT ![s] = Tail(@)]

ShowCoords ==
  /\ "engine" \in up /\ queue.engine # <<>>
  /\ LET m == Head(queue.engine)
     IN /\ m.topic = "coords"
        /\ shown' = [shown EXCEPT ![m.lens] = m.coords]
  /\ Took("engine")
  /\ UNCHANGED <<aiVars, sinceSnap, managerVars, fileVars, up, events>>

\* An alert without a picture: one is taken, at most every SnapCooldown; the time is
\* noted before it is known whether there is a frame to take it from.
EvidenceFor(m) ==
  IF m.alert.snapshot = NoPicture /\ sinceSnap[m.lens] >= SnapCooldown
  THEN /\ sinceSnap' = [sinceSnap EXCEPT ![m.lens] = 0]
       /\ TakePicture \/ UNCHANGED fileVars
  ELSE UNCHANGED <<sinceSnap, fileVars>>

HandleAlert ==
  /\ "engine" \in up /\ queue.engine # <<>>
  /\ LET m == Head(queue.engine) IN m.topic = "alerts" /\ EvidenceFor(m)
  /\ Took("engine")
  /\ UNCHANGED <<aiVars, shown, managerVars, up, events>>

MaxDrawn == 32

\* What a branch of this size draws over its picture.
Drawn(l, enabled, width, height) ==
  IF ~enabled THEN <<>> ELSE
  LET boxes == SubSeq(shown[l], 1, Min({MaxDrawn, Len(shown[l])}))
  IN [i \in DOMAIN boxes |->
        [k \in 1..4 |-> IF k \in {1, 3} THEN (boxes[i].box[k] * width) \div Width
                                         ELSE (boxes[i].box[k] * height) \div Height]]

----------------------------------------------------------------------------
(* The alert manager *)

\* A ring that would start writing at its second slot.
StoreLate(alert) ==
  /\ head' = head + 1
  /\ ring' = [ring EXCEPT ![head' % RingSize] = alert]
  /\ count' = Min({count + 1, RingSize})

Store(alert) ==
  /\ ring' = [ring EXCEPT ![head % RingSize] = alert]
  /\ head' = head + 1
  /\ count' = Min({count + 1, RingSize})

OnAlert ==
  /\ "manager" \in up /\ queue.manager # <<>>
  /\ Store(Head(queue.manager).alert)
  /\ received' = Append(received, Head(queue.manager).alert)
  /\ Took("manager")
  /\ UNCHANGED <<aiVars, engineVars, fileVars, up, events>>

----------------------------------------------------------------------------
(* Processes and time *)

EmptyRing == [k \in 0..RingSize - 1 |-> NoAlert]

\* What was on its way to a subscriber is lost with it, and what it knew.
Dies(s) ==
  /\ events < MaxEvents /\ s \in up
  /\ events' = events + 1
  /\ up' = up \ {s}
  /\ queue' = [queue EXCEPT ![s] = <<>>]
  /\ IF s = "engine"
     THEN /\ shown' = [l \in Lenses |-> <<>>]
          /\ sinceSnap' = [l \in Lenses |-> SnapCooldown]
          /\ UNCHANGED managerVars
     ELSE /\ ring' = EmptyRing /\ head' = 0 /\ count' = 0 /\ received' = <<>>
          /\ UNCHANGED engineVars
  /\ UNCHANGED <<aiVars, fileVars>>

Starts(s) ==
  /\ s \notin up
  /\ up' = up \cup {s}
  /\ UNCHANGED <<aiVars, engineVars, managerVars, fileVars, queue, events>>

\* The publisher dies: part of what it sent is still delivered, nothing more is said.
AiDies ==
  /\ events < MaxEvents /\ ai.lens # ""
  /\ events' = events + 1
  /\ ai' = Stopped(ai.load)
  /\ sinceCoords' = Heartbeat
  /\ \E n \in 0..Len(queue.engine) : queue' = [queue EXCEPT !.engine = SubSeq(@, 1, n)]
  /\ UNCHANGED <<scenes, uptime, sent, engineVars, managerVars, fileVars, up>>

AlertsTick ==
  /\ sinceCoords' = Until(sinceCoords, Heartbeat)
  /\ sinceSnap' = [l \in Lenses |-> Until(sinceSnap[l], SnapCooldown)]
  /\ uptime' = Until(uptime, Cooldown)
  /\ ai' = [ai EXCEPT !.tracker.buckets = [b \in DOMAIN @ |-> Until(@[b], BucketTtl)]]
  /\ UNCHANGED <<scenes, sent, shown, managerVars, fileVars, queue, up, events>>

AlertsInit ==
  /\ ai = Stopped(0) /\ scenes = MaxScenes
  /\ sinceCoords = Heartbeat /\ uptime = 0
  /\ sinceSnap = [l \in Lenses |-> SnapCooldown]
  /\ queue = [s \in Subscribers |-> <<>>] /\ up = Subscribers
  /\ shown = [l \in Lenses |-> <<>>]
  /\ pictures = {} /\ written = 0
  /\ ring = EmptyRing /\ head = 0 /\ count = 0
  /\ received = <<>> /\ sent = <<>> /\ events = 0

Sample == \E frame \in Frames : OnNewSample(frame)

AlertsNext ==
  \/ \E r \in LoadRequests : Load(r.model, r.lens)
  \/ StopModel
  \/ \E snapshots \in BOOLEAN, threshold \in SnapThresholds : SetAiConfig(snapshots, threshold)
  \/ Sample
  \/ ShowCoords \/ HandleAlert \/ OnAlert
  \/ \E s \in Subscribers : Dies(s) \/ Starts(s)
  \/ AiDies \/ AlertsTick
=============================================================================
