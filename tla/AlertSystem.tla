------------------------------ MODULE AlertSystem ------------------------------
(***************************************************************************)
(* The alert path (Alerts) and the mailing of its pictures (Mail) over the *)
(* one directory of pictures.  The pictures mailed are those the alerts in *)
(* the manager's history name, in the order they were taken.               *)
(***************************************************************************)
EXTENDS Alerts

CONSTANTS SmtpConfs, Modes, SizeOf(_), MaxRecipients, MaxSnapshots, MaxBatches, MaxRetries, MaxJobs

VARIABLES archive, cfg, job, letters, jobs, result

M == INSTANCE Mail

mailVars == <<archive, cfg, job, letters, jobs, result>>
Everything == <<alertsVars, mailVars>>

Named == {ring[k].snapshot : k \in DOMAIN ring} \ {NoPicture}

SystemInit == AlertsInit /\ M!Init

SystemNext ==
  /\ \/ AlertsNext /\ UNCHANGED mailVars
     \/ /\ M!Next(SetToSortSeq(Named, <))
        /\ UNCHANGED <<aiVars, engineVars, managerVars, written, queue, up, events>>
  /\ ai'.load + events' + jobs' <= MaxEvents
  /\ jobs' # jobs => scenes = 0 /\ \A s \in Subscribers : queue[s] = <<>>

SystemSpec == SystemInit /\ [][SystemNext]_Everything

(* The broker's threads deliver; time passes while no heartbeat is due, and *)
(* when one is GStreamer hands over a frame, for as long as a model runs.   *)
Beat == UNCHANGED mailVars /\ (AlertsTick \/ OnNewSample(<<>>))

Fairness ==
  /\ WF_queue(UNCHANGED mailVars /\ (ShowCoords \/ HandleAlert))
  /\ WF_sinceCoords(Beat)

FairSpec == SystemSpec /\ Fairness

----------------------------------------------------------------------------
\* The types of the variables.
AlertsTypeOK ==
  /\ ai.model \in Models \cup {""} /\ ai.lens \in Lenses \cup {""}
  /\ up \subseteq Subscribers /\ events \in 0..MaxEvents
  /\ \A s \in Subscribers : Len(queue[s]) <= Hwm /\ (s \notin up => queue[s] = <<>>)
  /\ sinceCoords \in 0..Heartbeat /\ uptime \in 0..Cooldown
  /\ pictures \subseteq 1..written /\ archive \subseteq 1..written

(* The history holds the last alerts the manager was given, the newest     *)
(* behind head, and no more than it has room for.                          *)
HistoryIsRecent ==
  /\ count = Min({Len(received), RingSize})
  /\ \A i \in 1..count : ring[(head - i) % RingSize] = received[Len(received) - i + 1]

(* A violator is alerted once for as long as he is followed: the same      *)
(* object of the same load is not alerted again unless saved_violations    *)
(* was emptied meanwhile for being too large.  (A person has no track; the *)
(* cooldown of his square is all there is.)                                *)
AlertedOnce ==
  \A i, j \in DOMAIN sent :
    i < j /\ sent[i].type # "person_detected" =>
      \/ sent[i].load # sent[j].load \/ sent[i].tid # sent[j].tid
      \/ sent[i].forgot # sent[j].forgot

(* Whatever the frame, a StableTracker ends with exactly one followed      *)
(* track for each detection, at its place, and no id is given twice.       *)
EachIsFollowed ==
  ai.model \in {"helmet", "triple_riding"} =>
    \A frame \in Frames :
      LET dets == HelmetsIn[frame]
          u == StableUpdate(ai.tracker, dets, HelmetIou, MaxGone.helmet)
      IN /\ {k.box : k \in ToSet(Seen(u))} = {d.box : d \in ToSet(dets)}
         /\ Len(Seen(u)) = Len(dets)
         /\ Cardinality(Tids(u.tracks)) = Len(u.tracks)
         /\ \A k \in ToSet(u.tracks) : k.tid < u.next

(* Boxes do not stay on a deserted picture: with a model running on the    *)
(* lens and the engine up, nothing is drawn in the end, although a PUB     *)
(* socket loses messages.  Only the heartbeat of empty lists does it.      *)
StaleBoxesVanish ==
  \A l \in Lenses :
    <>[](scenes = 0 /\ ai.lens = l /\ "engine" \in up) => <>[](Drawn(l, TRUE, Width, Height) = <<>>)

(* A picture leaves the directory only for recipients who have it.         *)
LeavesWhenDelivered == 1..written \ pictures \subseteq M!Delivered

=============================================================================
