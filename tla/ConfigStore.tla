---------------------------- MODULE ConfigStore ----------------------------
(***************************************************************************)
(* The stored configuration: user_config.json, its backup, the two threads *)
(* that save it (the main loop and, without config_mutex, the recording    *)
(* scheduler) and the load at start-up (main.c, subsystems/sys_config.c).  *)
(* Of the contents only the streams of each lens are kept, as a version:   *)
(* the number of the ConfigureLens that set them, 0 for none.              *)
(*                                                                         *)
(* A crash leaves the files as they are.  A power cut may tear each file   *)
(* whose data has not reached the disk.  g_file_set_contents makes the     *)
(* new data durable before its rename only if it replaces a file that is   *)
(* there and not empty (GLib's documentation of ONLY_EXISTING).            *)
(*                                                                         *)
(* Bounds: MaxVersion requests that change streams.                        *)
(***************************************************************************)
EXTENDS Naturals

CONSTANTS Lenses,
          Defaults,   \* the lenses that manufacturer_defaults gives streams
          MaxVersion,
          Absent, Torn

ASSUME ConfigAssumption == Defaults \subseteq Lenses /\ MaxVersion \in Nat

Savers == {"main", "sched"}
Versions == 0 .. MaxVersion
Streams == [Lenses -> Versions]
Good == [streams : Streams, synced : BOOLEAN]
File == Good \cup {Absent, Torn}

ASSUME FileAssumption == Absent # Torn /\ Absent \notin Good /\ Torn \notin Good

VARIABLES
  main, bak,  \* user_config.json and user_config.json.bak
  mem,        \* mem[l]: the version in branch_configs
  up,         \* the engine runs
  plan, todo, \* what sys_config_load_and_apply parsed, the lenses still to configure
  pc, draft,  \* where each saver is, and the JSON it will write
  clock,      \* requests made
  kept,       \* history: the streams user_config.json had on the disk
  mishaps     \* history: what happened that may lose streams

files == <<main, bak>>
engine == <<mem, up, plan, todo, clock>>
history == <<kept, mishaps>>
vars == <<main, bak, mem, up, plan, todo, pc, draft, clock, kept, mishaps>>

NoStreams == [l \in Lenses |-> 0]
NoWorse(new, old) == [l \in Lenses |-> IF new[l] < old[l] THEN new[l] ELSE old[l]]

----------------------------------------------------------------------------
(* The load: the first tier whose file holds JSON. *)

TryLoadConfig(f) == f \in Good

Found == IF TryLoadConfig(main) THEN main.streams
         ELSE IF TryLoadConfig(bak) THEN bak.streams
         ELSE NoStreams

\* found_streams: a lens without a tier is not configured.
WithStreams(streams) == {l \in Lenses : streams[l] > 0}

\* No user file: the defaults are applied, at the version of this start.
LoadAndApply ==
  /\ ~up /\ up' = TRUE
  /\ IF TryLoadConfig(main) \/ TryLoadConfig(bak)
     THEN /\ plan' = Found /\ todo' = WithStreams(Found)
          /\ clock' = clock
     ELSE /\ clock < MaxVersion /\ clock' = clock + 1
          /\ plan' = [l \in Lenses |-> IF l \in Defaults THEN clock' ELSE 0]
          /\ todo' = Defaults
  /\ mem' = NoStreams
  /\ UNCHANGED <<main, bak, pc, draft, kept, mishaps>>

Autostart(l) ==
  /\ up /\ pc["main"] = "idle" /\ l \in todo
  /\ todo' = todo \ {l}
  /\ mem' = [mem EXCEPT ![l] = plan[l]] /\ plan' = [plan EXCEPT ![l] = 0]
  /\ pc' = [pc EXCEPT !["main"] = "read"]
  /\ UNCHANGED <<main, bak, up, draft, clock, kept, mishaps>>

----------------------------------------------------------------------------
\* The other saver has read what it builds on and has not written yet.
Overlaps(s) ==
  IF \E o \in Savers \ {s} : pc[o] \in {"test", "rotate", "write"} THEN {"overlap"} ELSE {}

(* Requests, on the main loop, once everything was started. *)

Ready == up /\ todo = {} /\ pc["main"] = "idle"

\* ConfigureLens or UpdateStreamParams: new streams, then a save.
ConfigureLens(l) ==
  /\ Ready /\ clock < MaxVersion
  /\ clock' = clock + 1
  /\ mem' = [mem EXCEPT ![l] = clock']
  /\ pc' = [pc EXCEPT !["main"] = "read"]
  /\ mishaps' = mishaps \cup Overlaps("main")
  /\ UNCHANGED <<main, bak, up, plan, todo, draft, kept>>

\* StartRecording, ToggleNTP: a save of what there is.
Resave ==
  /\ Ready
  /\ pc' = [pc EXCEPT !["main"] = "read"]
  /\ UNCHANGED <<files, engine, draft, history>>

\* The lens leaves branch_configs, and nothing is saved.
StopLens(l) ==
  /\ Ready /\ mem[l] > 0
  /\ mem' = [mem EXCEPT ![l] = 0]
  /\ UNCHANGED <<files, up, plan, todo, pc, draft, clock, history>>

\* A pruned recording: engine_persist_state on the scheduler's thread.
PersistState ==
  /\ up /\ todo = {} /\ pc["sched"] = "idle"
  /\ pc' = [pc EXCEPT !["sched"] = "read"]
  /\ UNCHANGED <<files, engine, draft, history>>

----------------------------------------------------------------------------
(* _save_user_config_unlocked, by either thread. *)

Goto(s, place) == pc' = [pc EXCEPT ![s] = place]
Finish(s) == Goto(s, "idle") /\ draft' = [draft EXCEPT ![s] = NoStreams]

MergeAnew(base) == mem

\* The lenses without streams in memory keep those of the file.
Merge(base) == [l \in Lenses |-> IF mem[l] > 0 THEN mem[l] ELSE base[l]]

\* A stored file that does not parse ends the save; no file, and the save
\* starts from the defaults, which have no user_overrides.
Refuses(f) == f = Torn

ReadStored(s) ==
  /\ pc[s] = "read"
  /\ IF Refuses(main)
     THEN /\ Goto(s, "idle")
          /\ UNCHANGED <<draft, mishaps>>
     ELSE /\ Goto(s, "test")
          /\ draft' = [draft EXCEPT ![s] =
                         Merge(IF main \in Good THEN main.streams ELSE NoStreams)]
          /\ mishaps' = mishaps \cup Overlaps(s) \cup
               (IF main \notin Good /\ bak \in Good /\ \E l \in Lenses : draft'[s][l] < bak.streams[l]
                THEN {"rebased"} ELSE {})
  /\ UNCHANGED <<files, engine, kept>>

TestExists(s) ==
  /\ pc[s] = "test"
  /\ Goto(s, IF main = Absent THEN "write" ELSE "rotate")
  /\ UNCHANGED <<files, engine, draft, history>>

\* The rename may fail: the file is gone meanwhile, or for another reason.
Rotate(s) ==
  /\ pc[s] = "rotate"
  /\ \/ main # Absent /\ bak' = main /\ main' = Absent
     \/ UNCHANGED files
  /\ Goto(s, "write")
  /\ UNCHANGED <<engine, draft, history>>

\* g_file_set_contents: whether the data is durable when it returns.
Durable(synced) ==
  /\ main \in Good => synced
  /\ main = Absent => ~synced

SetContents(streams) ==
  \E synced \in BOOLEAN :
    /\ Durable(synced)
    /\ main' = [streams |-> streams, synced |-> synced]
    /\ bak' = bak

Written(s) ==
  /\ pc[s] = "write"
  /\ SetContents(draft[s])
  /\ kept' = IF main'.synced THEN draft[s] ELSE kept
  /\ Finish(s)
  /\ UNCHANGED <<engine, mishaps>>

WriteFails(s) ==
  /\ pc[s] = "write"
  /\ Finish(s)
  /\ UNCHANGED <<files, engine, history>>

----------------------------------------------------------------------------
\* SaveCurrentConfig (engine_save_config) writes what is in memory, over
\* whatever is there and without a backup; the lenses it drops are meant to go.
SaveCurrentConfig ==
  /\ Ready
  /\ SetContents(mem)
  /\ kept' = IF main'.synced THEN mem ELSE NoWorse(mem, kept)
  /\ UNCHANGED <<engine, pc, draft, mishaps>>

----------------------------------------------------------------------------
(* The machine *)

Down ==
  /\ up /\ up' = FALSE
  /\ pc' = [s \in Savers |-> "idle"] /\ draft' = [s \in Savers |-> NoStreams]
  /\ mem' = NoStreams /\ plan' = NoStreams /\ todo' = {} /\ clock' = clock

Crash == Down /\ UNCHANGED <<files, history>>

Synced(f) == f \in Good /\ f.synced

\* What a power cut can leave of a file.
Cut(f, after) == after = f \/ (f \in Good /\ ~f.synced /\ after = Torn)

PowerCut ==
  /\ Down
  /\ \E m, b \in {main, bak, Torn} :
       Cut(main, m) /\ Cut(bak, b) /\ main' = m /\ bak' = b
  /\ mishaps' = mishaps \cup (IF bak \in Good /\ ~Synced(bak) /\ ~Synced(main)
                              THEN {"unflushed"} ELSE {})
  /\ kept' = kept

\* The file system writes back.
FlushMain ==
  /\ main \in Good /\ ~main.synced
  /\ main' = [main EXCEPT !.synced = TRUE]
  /\ kept' = main.streams
  /\ UNCHANGED <<bak, engine, pc, draft, mishaps>>

FlushBak ==
  /\ bak \in Good /\ ~bak.synced
  /\ bak' = [bak EXCEPT !.synced = TRUE]
  /\ UNCHANGED <<main, engine, pc, draft, history>>

Init ==
  /\ main = Absent /\ bak = Absent
  /\ mem = NoStreams /\ up = FALSE /\ plan = NoStreams /\ todo = {}
  /\ pc = [s \in Savers |-> "idle"] /\ draft = [s \in Savers |-> NoStreams]
  /\ clock = 0 /\ kept = NoStreams /\ mishaps = {}

Next ==
  \/ LoadAndApply \/ Resave \/ PersistState \/ SaveCurrentConfig
  \/ \E l \in Lenses : Autostart(l) \/ ConfigureLens(l) \/ StopLens(l)
  \/ \E s \in Savers : \/ ReadStored(s) \/ TestExists(s) \/ Rotate(s)
                       \/ Written(s) \/ WriteFails(s)
  \/ Crash \/ PowerCut \/ FlushMain \/ FlushBak

Spec == Init /\ [][Next]_vars

----------------------------------------------------------------------------
\* The types of the variables; what start-up still has to configure has streams.
TypeOK ==
  /\ main \in File /\ bak \in File
  /\ mem \in Streams /\ plan \in Streams /\ kept \in Streams
  /\ up \in BOOLEAN /\ todo \subseteq {l \in Lenses : plan[l] > 0} /\ clock \in Versions
  /\ pc \in [Savers -> {"idle", "read", "test", "rotate", "write"}]
  /\ draft \in [Savers -> Streams]
  /\ mishaps \subseteq {"overlap", "rebased", "unflushed"}

(* Once streams were stored on the disk, every restart finds a file that   *)
(* loads, however the two savers interleave, writes fail and power is cut; *)
(* except for a cut while neither file is flushed, the backup being        *)
(* rotated from a file that was not (main.c:404-413).                      *)
Recoverable ==
  kept # NoStreams /\ "unflushed" \notin mishaps => TryLoadConfig(main) \/ TryLoadConfig(bak)

(* What a restart finds of a lens is never older than what was stored.     *)
(* Streams go back or vanish only if the unlocked save of the scheduler    *)
(* overlaps a ConfigureLens, or a save starts from the defaults while only *)
(* the backup has a lens, or after an unflushed cut.                       *)
NeverOlder == mishaps = {} => \A l \in Lenses : Found[l] >= kept[l]

\* Both: what the rotation to .bak and the merge are for.
SettingsSurvive == Recoverable /\ NeverOlder
=============================================================================
