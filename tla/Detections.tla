------------------------------ MODULE Detections ------------------------------
(***************************************************************************)
(* What the AI engine's post-processors make of one frame                  *)
(* (ai_utils_helmet.py, ai_utils_triding.py, ai_utils_overspeed.py,        *)
(* ai_utils_person.py), before any tracking.  Pure operators.              *)
(*                                                                         *)
(* A frame is the sequence of candidates the network finds in it, each a   *)
(* box <<x1, y1, x2, y2>> in pixels of the inference frame, a class and a  *)
(* confidence in percent.  Clients may set the threshold; here it is the   *)
(* one a load sets.  Dequantisation, transposition and the inverse of the  *)
(* letterbox are left out: they say where a candidate is.                  *)
(***************************************************************************)
EXTENDS Integers, SequencesExt

CONSTANTS Width, Height,    \* of the inference frame (640 by 360)
          Frames

Boxes == Int \X Int \X Int \X Int
Candidates == [box : Boxes, cid : Nat, conf : Nat]

ASSUME FrameAssumption ==
  /\ Width \in Nat \ {0} /\ Height \in Nat \ {0}
  /\ Frames \subseteq Seq(Candidates)

----------------------------------------------------------------------------
(* Lists are picked, sorted and thinned out by their indices: an order is  *)
(* the set of the pairs <<i, j>> with i before j.                          *)

\* The items of s with the chosen indices, in that order.
Arranged(s, chosen, before) ==
  LET Place(i) == Cardinality({j \in chosen : j = i \/ <<j, i>> \in before})
  IN [k \in 1..Cardinality(chosen) |-> s[CHOOSE i \in chosen : Place(i) = k]]

\* Those items as s has them.
Picked(s, chosen) ==
  [k \in 1..Cardinality(chosen) |-> s[CHOOSE i \in chosen : Cardinality(chosen \cap 1..i) = k]]

\* The greedy choice: an item is taken unless one that is taken beats it.
Greedy(items, beats) ==
  CHOOSE taken \in SUBSET items :
    \A p \in items : p \in taken <=> ~\E q \in taken : <<q, p>> \in beats

----------------------------------------------------------------------------
(* Boxes *)

Pos(n) == IF n > 0 THEN n ELSE 0
Lesser(a, b) == IF a < b THEN a ELSE b
Greater(a, b) == IF a > b THEN a ELSE b
Wide(b) == b[3] - b[1]
High(b) == b[4] - b[2]
Center(b) == <<(b[1] + b[3]) \div 2, (b[2] + b[4]) \div 2>>

\* pix is 1 where the code counts both border pixels, 0 elsewhere.
Area(b, pix) == (Wide(b) + pix) * (High(b) + pix)

Inter(b, c, pix) ==
  Pos(Lesser(b[3], c[3]) - Greater(b[1], c[1]) + pix) *
  Pos(Lesser(b[4], c[4]) - Greater(b[2], c[2]) + pix)

Union(b, c, pix) == Area(b, pix) + Area(c, pix) - Inter(b, c, pix)

\* Intersection over union above pct percent; a box clipped to less than nothing
\* overlaps with no other.
IouAbove(b, c, pix, pct) ==
  Union(b, c, pix) > 0 /\ 100 * Inter(b, c, pix) > pct * Union(b, c, pix)

\* Only the near edges are clipped to 0 and the far ones to the frame.
Clipped(b) == <<Pos(b[1]), Pos(b[2]), Lesser(Width, b[3]), Lesser(Height, b[4])>>

InFrame(n, side) == Lesser(Pos(n), side - 1)
ClippedInside(b) ==
  <<InFrame(b[1], Width), InFrame(b[2], Height), InFrame(b[3], Width), InFrame(b[4], Height)>>

WithBox(d, b) == [d EXCEPT !.box = b]

NmsThreshold == 45

\* By confidence, the later of equals first (argsort, reversed).
Surer(dets) ==
  {p \in (DOMAIN dets) \X (DOMAIN dets) :
     \/ dets[p[1]].conf > dets[p[2]].conf
     \/ dets[p[1]].conf = dets[p[2]].conf /\ p[1] > p[2]}

\* Greedy non-maximum suppression, surest first.
Nms(dets, pix) ==
  LET Same(p) == IouAbove(dets[p[1]].box, dets[p[2]].box, pix, NmsThreshold)
      kept == Greedy(DOMAIN dets, {p \in Surer(dets) : Same(p)})
  IN Arranged(dets, kept, Surer(dets))

AiThreshold == 40
Passing(frame) == Picked(frame, {i \in DOMAIN frame : frame[i].conf > AiThreshold})

----------------------------------------------------------------------------
(* Helmets: 0 helmet, 1 no helmet, 2 number plate *)

NoHelmet == 1
Plate == 2

HelmetDetections(frame) ==
  LET kept == Nms(Passing(frame), 0)
  IN [i \in DOMAIN kept |-> WithBox(kept[i], Clipped(kept[i].box))]

----------------------------------------------------------------------------
(* Persons: class 0 of the same network *)

Person == 0
PersonDetections(frame) ==
  Nms(Picked(frame, {i \in DOMAIN frame : frame[i].cid = Person /\ frame[i].conf > AiThreshold}), 0)

----------------------------------------------------------------------------
(* Vehicles: clipped before they are compared *)

Vehicles == 1..11
VehicleDetections(frame) ==
  LET passing == Passing(frame)
      found == Picked(passing, {i \in DOMAIN passing : passing[i].cid \in Vehicles})
  IN Nms([i \in DOMAIN found |-> WithBox(found[i], ClippedInside(found[i].box))], 1)

----------------------------------------------------------------------------
(* Triple riding: persons are given to the motorcycles they overlap *)

Motorcycle == 1
MinPersonsPerMc == 2
RiderIoa == 30
PersonMinHeight == 70

\* Riders sit above the motorcycle: the box grows sideways and upwards.
Expanded(b) ==
  LET dx == (7 * Wide(b)) \div 10
      dy == (25 * High(b)) \div 10
  IN <<Pos(b[1] - dx), Pos(b[2] - dy), Lesser(Width - 1, b[3] + dx), Lesser(Height - 1, b[4])>>

\* Enough of the person's own area lies in the box.
IoaAtLeast(box, person, pct) ==
  Area(person, 0) > 0 /\ 100 * Inter(box, person, 0) >= pct * Area(person, 0)

Rides(person, mc) ==
  High(person.box) >= PersonMinHeight /\ IoaAtLeast(Expanded(mc.box), person.box, RiderIoa)

\* One box that holds two riders: too tall, too wide, or too tall for the motorcycle.
Oversized(person, mc) ==
  /\ High(person.box) >= PersonMinHeight
  /\ \/ 100 * Wide(person.box) < 80 * High(person.box)
     \/ 10 * Wide(person.box) > 15 * High(person.box)
     \/ High(mc.box) > 20 /\ 10 * High(person.box) > 19 * High(mc.box)

Edge(boxes, k) == {b[k] : b \in boxes}
UnionBox(boxes) ==
  <<Min(Edge(boxes, 1)), Min(Edge(boxes, 2)), Max(Edge(boxes, 3)), Max(Edge(boxes, 4))>>

TooMany(riders) == Len(riders) >= MinPersonsPerMc

IsViolation(mc, riders) == TooMany(riders) \/ (Len(riders) = 1 /\ Oversized(riders[1], mc))

\* What a motorcycle with these riders is reported as; the class is the count of riders.
Reported(mc, riders) ==
  LET all == <<mc>> \o riders
      total == FoldLeft(LAMBDA sum, d : sum + d.conf, 0, all)
  IN [box |-> UnionBox({all[i].box : i \in DOMAIN all}),
      cid |-> IF TooMany(riders) THEN Len(riders) + 1 ELSE 3,
      conf |-> total \div Len(all)]

OfClass(raw, cid) == {i \in DOMAIN raw : raw[i].cid = cid}

Larger(raw) ==
  {p \in (DOMAIN raw) \X (DOMAIN raw) :
     LET a == Area(raw[p[1]].box, 0)  b == Area(raw[p[2]].box, 0)
     IN a > b \/ (a = b /\ p[1] < p[2])}

\* A person goes to the first motorcycle that he can ride.
Riders(mcs, persons, m) ==
  Picked(persons, {i \in DOMAIN persons :
    /\ Rides(persons[i], mcs[m])
    /\ \A n \in 1..m - 1 : ~Rides(persons[i], mcs[n])})

\* The largest motorcycle chooses its riders first; a rider given away stays given.
RidingDetections(raw) ==
  LET mcs == Arranged(raw, OfClass(raw, Motorcycle), Larger(raw))
      persons == Picked(raw, OfClass(raw, Person))
      found == Picked([m \in DOMAIN mcs |-> m],
                      {m \in DOMAIN mcs : IsViolation(mcs[m], Riders(mcs, persons, m))})
  IN [k \in DOMAIN found |-> Reported(mcs[found[k]], Riders(mcs, persons, found[k]))]

----------------------------------------------------------------------------
\* What each network finds in each frame.
HelmetsIn == [frame \in Frames |-> HelmetDetections(frame)]
PersonsIn == [frame \in Frames |-> PersonDetections(frame)]
VehiclesIn == [frame \in Frames |-> VehicleDetections(frame)]
GroupsIn == [frame \in Frames |-> RidingDetections(HelmetDetections(frame))]
=============================================================================
