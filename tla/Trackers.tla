------------------------------- MODULE Trackers -------------------------------
(***************************************************************************)
(* The objects the AI engine follows from frame to frame, and the boxes    *)
(* and alerts it reports for a frame: HelmetTracker, TripleRidingTracker,  *)
(* OverspeedTracker and PersonTracker.  A tracker is a record; processing  *)
(* a frame gives [tracker, coords, alerts].  A report without a "conf"     *)
(* member has conf 0 here, which is what ai_engine.py reads for one.       *)
(*                                                                         *)
(* The constants stand for 5 smoothed frames, 5 frames of speed, 30, 8 and *)
(* 15 frames of absence, 1000 remembered violators, 30 s and 300 s.        *)
(* best_violation_data, saved_plates and violation_status are written and  *)
(* never read, and are left out.                                           *)
(***************************************************************************)
EXTENDS Detections

CONSTANTS Smoothing, Lag, MaxGone,  \* MaxGone: a record, one bound per model
          SavedMax, Cooldown, BucketTtl

ASSUME TrackerAssumption ==
  /\ Smoothing \in Nat \ {0} /\ Lag \in Nat \ {0, 1}
  /\ SavedMax \in Nat /\ Cooldown \in Nat \ {0} /\ BucketTtl \in Nat
  /\ {MaxGone.helmet, MaxGone.triple_riding, MaxGone.overspeed} \subseteq Nat

Models == {"helmet", "triple_riding", "overspeed", "person"}

NewTracker == [next |-> 0, tracks |-> <<>>, saved |-> {}, buckets |-> <<>>]

LastOf(s, n) == SubSeq(s, Greater(1, Len(s) - n + 1), Len(s))

Report(t, coords, alerts) == [tracker |-> t, coords |-> coords, alerts |-> alerts]
NothingSeen(t) == Report(t, <<>>, <<>>)

Alert(kind, tid, conf) == [type |-> kind, tid |-> tid, conf |-> conf]
Coord(d) == [box |-> d.box, conf |-> d.conf]

Track(tid, d) == [tid |-> tid, box |-> d.box, gone |-> 0, hist |-> <<d>>]

\* The detections nobody took become tracks, with ids not used before.
Registered(t, tracks, new) ==
  [t EXCEPT !.next = @ + Len(new),
            !.tracks = tracks \o [k \in DOMAIN new |-> Track(t.next + k - 1, new[k])]]

Follow(track, d) ==
  [track EXCEPT !.box = d.box, !.gone = 0, !.hist = LastOf(Append(@, d), Smoothing)]

Missed(track) == [track EXCEPT !.gone = @ + 1]
Remaining(tracks, gone) == Picked(tracks, {i \in DOMAIN tracks : tracks[i].gone <= gone})

Seen(t) == Picked(t.tracks, {i \in DOMAIN t.tracks : t.tracks[i].gone = 0})
Tids(s) == {s[i].tid : i \in DOMAIN s}

\* saved_violations is emptied when it has grown too large.
Remembered(saved) == IF Cardinality(saved) > SavedMax THEN {} ELSE saved

----------------------------------------------------------------------------
(* StableTracker: tracks and detections are paired by overlap, best first *)

OverlapPairs(tracks, dets, pct) ==
  {p \in (DOMAIN tracks) \X (DOMAIN dets) : IouAbove(tracks[p[1]].box, dets[p[2]].box, 0, pct)}

\* The pair p overlaps more than q does, or as much and comes first.
BetterPair(tracks, dets, p, q) ==
  LET Over(r) == Inter(tracks[r[1]].box, dets[r[2]].box, 0)
      Under(r) == Union(tracks[r[1]].box, dets[r[2]].box, 0)
      a == Over(p) * Under(q)
      b == Over(q) * Under(p)
  IN a > b \/ (a = b /\ (p[1] < q[1] \/ (p[1] = q[1] /\ p[2] < q[2])))

Contend(p, q) == p # q /\ (p[1] = q[1] \/ p[2] = q[2])

\* A pair is taken unless a better one has its track or its detection.
Pairs(tracks, dets, pct) ==
  LET over == OverlapPairs(tracks, dets, pct)
      beats == {r \in over \X over :
                  Contend(r[1], r[2]) /\ BetterPair(tracks, dets, r[1], r[2])}
  IN Greedy(over, beats)

PartnerOf(pairs, i) == {p[2] : p \in {q \in pairs : q[1] = i}}

\* The detections no pair has, in their order.
Unpaired(pairs, dets) == Picked(dets, {j \in DOMAIN dets : \A p \in pairs : p[2] # j})

\* StableTracker.update; with no detection every track is missed, with no track all are new.
StableUpdate(t, dets, pct, gone) ==
  LET pairs == Pairs(t.tracks, dets, pct)
      tracks == [i \in DOMAIN t.tracks |->
                   IF PartnerOf(pairs, i) = {} THEN Missed(t.tracks[i])
                   ELSE Follow(t.tracks[i], dets[Max(PartnerOf(pairs, i))])]
  IN Registered(t, Remaining(tracks, gone), Unpaired(pairs, dets))

----------------------------------------------------------------------------
(* Helmets *)

HelmetIou == 40
MinStable == 25

Weight(hist, cid) == FoldLeft(LAMBDA sum, d : IF d.cid = cid THEN sum + d.conf ELSE sum, 0, hist)

\* The class with the most confidence behind it, the first seen of equals.
StableClass(hist) ==
  LET weight == [i \in DOMAIN hist |-> Weight(hist, hist[i].cid)]
      most == Max({weight[i] : i \in DOMAIN hist})
  IN hist[Min({i \in DOMAIN hist : weight[i] = most})].cid

\* What is shown of a track: its last box, the class its history gives it and the
\* mean confidence of that class.
Stable(track) ==
  LET cid == StableClass(track.hist)
      n == Cardinality({i \in DOMAIN track.hist : track.hist[i].cid = cid})
  IN [tid |-> track.tid, box |-> track.box, cid |-> cid, conf |-> Weight(track.hist, cid) \div n]

StableSeen(t) ==
  LET shown == [i \in DOMAIN t.tracks |-> Stable(t.tracks[i])]
  IN Picked(shown, {i \in DOMAIN shown : t.tracks[i].gone = 0 /\ shown[i].conf >= MinStable})

Coords(dets) == [i \in DOMAIN dets |-> Coord(dets[i])]

Chosen(dets, chosen) == {dets[i].tid : i \in chosen}

\* A tracker that alerts at every frame.
AlertsForAll(kind, dets, chosen, saved) ==
  LET all == Picked(dets, chosen)
  IN [i \in DOMAIN all |-> Alert(kind, all[i].tid, all[i].conf)]

\* An alert for each of the chosen objects that is not remembered yet.
AlertsFor(kind, dets, chosen, saved) ==
  LET new == Picked(dets, {i \in chosen : dets[i].tid \notin saved})
  IN [i \in DOMAIN new |-> Alert(kind, new[i].tid, new[i].conf)]

\* Nothing above the threshold: the tracker is not even told of the frame.
HelmetUpdate(t, frame) ==
  IF Passing(frame) = <<>> THEN t
  ELSE StableUpdate(t, HelmetsIn[frame], HelmetIou, MaxGone.helmet)

HelmetProcess(u, frame) ==
  IF Passing(frame) = <<>> THEN NothingSeen(u) ELSE
  LET stable == StableSeen(u)
      violators == {i \in DOMAIN stable : stable[i].cid = NoHelmet}
      plates == SelectSeq(HelmetsIn[frame], LAMBDA d : d.cid = Plate)
  IN Report([u EXCEPT !.saved = Remembered(@ \cup Chosen(stable, violators))],
            Coords(plates) \o Coords(stable), AlertsFor("no_helmet", stable, violators, u.saved))

----------------------------------------------------------------------------
(* Triple riding *)

RidingIou == 50

RidingUpdate(t, frame) ==
  IF Passing(frame) = <<>> THEN t
  ELSE StableUpdate(t, GroupsIn[frame], RidingIou, MaxGone.triple_riding)

\* The alert has a score and no conf.
RidingProcess(u, frame) ==
  IF Passing(frame) = <<>> THEN NothingSeen(u) ELSE
  LET seen == Seen(u)
      groups == [i \in DOMAIN seen |-> [tid |-> seen[i].tid, box |-> seen[i].box, conf |-> 0]]
      all == DOMAIN groups
  IN Report([u EXCEPT !.saved = Remembered(@ \cup Chosen(groups, all))],
            [i \in DOMAIN seen |-> Coord(Last(seen[i].hist))],
            AlertsFor("triple_riding", groups, all, u.saved))

----------------------------------------------------------------------------
(* Speed: CentroidTracker.  A track's history is of centroids. *)

Dist2(a, b) == (a[1] - b[1]) * (a[1] - b[1]) + (a[2] - b[2]) * (a[2] - b[2])

\* The nearest vehicle of each track; the tracks choose in order of that distance,
\* and one whose vehicle is taken gets none, however many are left.
Nearest(tracks, dets) ==
  LET Far(i, j) == Dist2(Center(tracks[i].box), Center(dets[j].box))
      Best(i) == Min({Far(i, j) : j \in DOMAIN dets})
      Choice(i) == Min({j \in DOMAIN dets : Far(i, j) = Best(i)})
      Before(k, i) == Best(k) < Best(i) \/ (Best(k) = Best(i) /\ k < i)
  IN IF dets = <<>> THEN {}
     ELSE {<<i, Choice(i)>> : i \in {n \in DOMAIN tracks :
             ~\E k \in DOMAIN tracks : Before(k, n) /\ Choice(k) = Choice(n)}}

\* With at least as many tracks as vehicles the others are missed and a vehicle
\* nobody took is ignored; with fewer, it is registered and no track is missed.
CentroidUpdate(t, dets) ==
  LET pairs == Nearest(t.tracks, dets)
      enough == Len(t.tracks) >= Len(dets)
      tracks == [i \in DOMAIN t.tracks |->
                   IF PartnerOf(pairs, i) # {}
                   THEN [t.tracks[i] EXCEPT !.box = dets[Max(PartnerOf(pairs, i))].box, !.gone = 0]
                   ELSE IF enough THEN Missed(t.tracks[i]) ELSE t.tracks[i]]
      kept == Remaining(tracks, MaxGone.overspeed)
      left == Tids(tracks) \ Tids(kept)
  IN Registered([t EXCEPT !.saved = @ \ left], kept, IF enough THEN <<>> ELSE Unpaired(pairs, dets))

\* Every track's history grows, a missed one's by the place it was last seen at.
Moved(old, track) ==
  LET before == IF track.tid >= old.next THEN <<>> ELSE track.hist
  IN [track EXCEPT !.hist = LastOf(Append(before, Center(track.box)), Lag + 1)]

\* 60 km/h at 25 pixels per meter and 30 frames per second, over Lag - 1 frames.
Speeding(track) ==
  \E h \in {track.hist} :
    /\ Len(h) > Lag
    /\ 11664 * Dist2(h[Len(h)], h[Len(h) - Lag + 1]) > (1500 * (Lag - 1)) * (1500 * (Lag - 1))

\* The first vehicle near enough to the track, or an empty box.
BoxNear(track, dets) ==
  LET near == SelectSeq(dets, LAMBDA d : Dist2(Center(d.box), Center(track.box)) < 2500)
  IN IF near = <<>> THEN <<0, 0, 0, 0>> ELSE Head(near).box

OverspeedUpdate(t, frame) == CentroidUpdate(t, VehiclesIn[frame])

OverspeedProcess(t, u, frame) ==
  LET tracks == [i \in DOMAIN u.tracks |-> Moved(t, u.tracks[i])]
      fast == {i \in DOMAIN tracks : Speeding(tracks[i])}
      vehicles == [i \in DOMAIN tracks |-> [tid |-> tracks[i].tid, conf |-> 0]]
  IN Report([u EXCEPT !.tracks = tracks, !.saved = @ \cup Chosen(vehicles, fast)],
            [i \in DOMAIN tracks |-> [box |-> BoxNear(tracks[i], VehiclesIn[frame]), conf |-> 0]],
            AlertsFor("overspeed", vehicles, fast, u.saved))

----------------------------------------------------------------------------
(* Persons: no tracks, a cooldown for each square of 50 pixels.  A bucket  *)
(* never alerted counts as alerted at time 0, when the machine booted.     *)

Bucket(d) == LET c == Center(d.box) IN <<c[1] \div 50, c[2] \div 50>>

SinceAlert(buckets, b, uptime) == IF b \in DOMAIN buckets THEN buckets[b] ELSE uptime

PersonProcess(t, frame, uptime) ==
  LET dets == PersonsIn[frame]
      Alerted(i) ==
        /\ SinceAlert(t.buckets, Bucket(dets[i]), uptime) >= Cooldown
        /\ \A j \in 1..i - 1 : Bucket(dets[j]) # Bucket(dets[i])
      at == Picked([i \in DOMAIN dets |-> i], {i \in DOMAIN dets : Alerted(i)})
      buckets == [b \in {Bucket(dets[at[k]]) : k \in DOMAIN at} |-> 0] @@ t.buckets
      live == {b \in DOMAIN buckets : buckets[b] < BucketTtl}
  IN IF dets = <<>> THEN NothingSeen(t)
     ELSE Report([t EXCEPT !.buckets = [b \in live |-> buckets[b]]],
                 [i \in DOMAIN dets |-> Coord(WithBox(dets[i], Clipped(dets[i].box)))],
                 [k \in DOMAIN at |-> Alert("person_detected", 0, dets[at[k]].conf)])

----------------------------------------------------------------------------
\* The tracker with the frame's detections, then what is reported of it: t is the
\* tracker before the frame and u the one with it.
Updated(model, t, frame) ==
  CASE model = "helmet" -> HelmetUpdate(t, frame)
    [] model = "triple_riding" -> RidingUpdate(t, frame)
    [] model = "overspeed" -> OverspeedUpdate(t, frame)
    [] model = "person" -> t

Process(model, t, u, frame, uptime) ==
  CASE model = "helmet" -> HelmetProcess(u, frame)
    [] model = "triple_riding" -> RidingProcess(u, frame)
    [] model = "overspeed" -> OverspeedProcess(t, u, frame)
    [] model = "person" -> PersonProcess(t, frame, uptime)
=============================================================================
