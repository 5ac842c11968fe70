-------------------------- MODULE ConfigStore_proofs --------------------------
(***************************************************************************)
(* For any lenses and number of requests: once streams were stored, a      *)
(* restart finds a file that loads, and unless one of the three mishaps    *)
(* happened it finds nothing older.                                        *)
(***************************************************************************)
EXTENDS ConfigStore, TLAPS

Past(s) == pc[s] \in {"test", "rotate", "write"}

AtMost(f, g) == \A l \in Lenses : f[l] <= g[l]

\* A saver past its reading saw a file that parses, or none.
ReadSound == \A s \in Savers : Past(s) => main # Torn

\* What was stored is on the disk, or is the backup.
Stored ==
  kept # NoStreams /\ "unflushed" \notin mishaps => Synced(main) \/ bak \in Good

\* Nothing happens before start-up is over, or without the engine.
Quiet ==
  /\ todo # {} => pc["sched"] = "idle" /\ up
  /\ ~up => \A s \in Savers : pc[s] = "idle"
  /\ \A l \in todo : mem[l] = 0

\* No version is newer than the last request.
Dated ==
  /\ AtMost(kept, [l \in Lenses |-> clock])
  /\ AtMost(mem, [l \in Lenses |-> clock]) /\ AtMost(plan, [l \in Lenses |-> clock])
  /\ \A s \in Savers : AtMost(draft[s], [l \in Lenses |-> clock])
  /\ main \in Good => AtMost(main.streams, [l \in Lenses |-> clock])
  /\ bak \in Good => AtMost(bak.streams, [l \in Lenses |-> clock])

\* The files are not older than what was stored.
FilesFresh ==
  /\ main \in Good => AtMost(kept, main.streams)
  /\ Synced(main) \/ kept = NoStreams \/ (bak \in Good /\ AtMost(kept, bak.streams))

\* What the engine runs, or is about to start, is not older than the files.
MemoryFresh ==
  /\ \A l \in Lenses : mem[l] > 0 => mem[l] >= kept[l]
  /\ \A l \in todo : plan[l] >= kept[l]
  /\ main \in Good => /\ \A l \in Lenses : mem[l] > 0 => mem[l] >= main.streams[l]
                      /\ \A l \in todo : plan[l] >= main.streams[l]

\* A draft is not older than anything, and one saver at a time has one.
DraftFresh ==
  /\ ~(Past("main") /\ Past("sched"))
  /\ \A s \in Savers : Past(s) =>
       /\ AtMost(kept, draft[s]) /\ AtMost(mem, draft[s])
       /\ \A l \in Lenses : mem[l] > 0 => mem[l] = draft[s][l]
       /\ \A l \in todo : draft[s][l] <= plan[l]
       /\ main \in Good => AtMost(main.streams, draft[s])

Fresh == mishaps = {} => FilesFresh /\ MemoryFresh /\ DraftFresh

IInv == TypeOK /\ ReadSound /\ Stored /\ Quiet /\ Dated /\ Fresh

LEMMA InitIInv == Init => IInv
<1> SUFFICES ASSUME Init PROVE IInv
  OBVIOUS
<1>0. NoStreams \in Streams /\ 0 \in Versions
  BY ConfigAssumption DEF NoStreams, Streams, Versions
<1>1. TypeOK
  BY <1>0, FileAssumption DEF Init, TypeOK, File, Savers, WithStreams
<1>2. ReadSound /\ Quiet /\ Stored
  BY FileAssumption DEF Init, ReadSound, Past, Quiet, Stored, NoStreams
<1>3. Dated
  BY <1>0, FileAssumption DEF Init, Dated, AtMost, NoStreams
<1>4. Fresh
  BY <1>0, FileAssumption DEF Init, Fresh, FilesFresh, MemoryFresh, DraftFresh, AtMost, NoStreams, Past, Savers, Synced
<1>5. QED
  BY <1>1, <1>2, <1>3, <1>4 DEF IInv

\* The streams of a file that holds JSON.
LEMMA GoodType ==
  ASSUME NEW f \in Good
  PROVE  f.streams \in Streams /\ f.synced \in BOOLEAN /\ f # Torn /\ f # Absent
  BY FileAssumption DEF Good

LEMMA FoundType ==
  ASSUME TypeOK
  PROVE  Found \in Streams
  <1>1. NoStreams \in Streams
    BY ConfigAssumption DEF NoStreams, Streams, Versions
  <1>2. QED
    BY <1>1, GoodType DEF Found, TryLoadConfig

(* Start-up *)
LEMMA LoadIInv == IInv /\ LoadAndApply => IInv'
<1> SUFFICES ASSUME IInv, LoadAndApply PROVE IInv'
  OBVIOUS
<1> USE DEF IInv
<1>1. mem' = NoStreams /\ NoStreams \in Streams
  BY ConfigAssumption DEF LoadAndApply, NoStreams, Streams, Versions
<1>2. clock' \in Versions /\ clock \in Nat /\ clock' \in Nat /\ clock <= clock'
  BY ConfigAssumption DEF LoadAndApply, TypeOK, Versions
<1>3. plan' \in Streams /\ todo' \subseteq WithStreams(plan') /\ todo' \subseteq Lenses
  <2>1. CASE TryLoadConfig(main) \/ TryLoadConfig(bak)
    BY <2>1, FoundType DEF LoadAndApply, WithStreams
  <2>2. CASE ~(TryLoadConfig(main) \/ TryLoadConfig(bak))
    BY <2>2, <1>2, ConfigAssumption DEF LoadAndApply, WithStreams, Streams, Versions
  <2>3. QED BY <2>1, <2>2
<1>4. TypeOK'
  BY <1>1, <1>2, <1>3 DEF LoadAndApply, TypeOK, WithStreams
<1>5. ReadSound' /\ Stored' /\ Quiet'
  BY <1>3 DEF LoadAndApply, ReadSound, Past, Stored, Synced, Good, Quiet, NoStreams, Savers
<1>6. Dated'
  <2>1. AtMost(plan', [l \in Lenses |-> clock'])
    <3>1. CASE TryLoadConfig(main) \/ TryLoadConfig(bak)
      BY <3>1, <1>2 DEF LoadAndApply, Dated, AtMost, Found, TryLoadConfig
    <3>2. CASE ~(TryLoadConfig(main) \/ TryLoadConfig(bak))
      BY <3>2, <1>2 DEF LoadAndApply, AtMost
    <3>3. QED BY <3>1, <3>2
  <2>2. AtMost(mem', [l \in Lenses |-> clock'])
    BY <1>1, <1>2 DEF AtMost, NoStreams
  <2>3. \A f \in Streams : AtMost(f, [l \in Lenses |-> clock]) => AtMost(f, [l \in Lenses |-> clock'])
    BY <1>2 DEF AtMost, Streams, Versions
  <2>4. QED
    BY <2>1, <2>2, <2>3, GoodType DEF LoadAndApply, Dated, TypeOK
<1>7. Fresh'
  <2> SUFFICES ASSUME mishaps = {} PROVE FilesFresh' /\ MemoryFresh' /\ DraftFresh'
    BY DEF Fresh, LoadAndApply
  <2>1. FilesFresh /\ kept \in Streams
    BY DEF Fresh, TypeOK
  <2>2. FilesFresh'
    BY <2>1 DEF LoadAndApply, FilesFresh, Synced, Good
  <2>3. DraftFresh'
    BY DEF LoadAndApply, Quiet, DraftFresh, Past, Savers
  <2>4. ASSUME NEW l \in todo' PROVE plan'[l] >= kept[l]
    <3>1. CASE TryLoadConfig(main)
      BY <3>1, <2>1, <1>3, GoodType DEF LoadAndApply, Found, TryLoadConfig, FilesFresh, AtMost, Streams, Versions
    <3>2. CASE ~TryLoadConfig(main) /\ TryLoadConfig(bak)
      <4>1. ~Synced(main) /\ plan' = bak.streams
        BY <3>2 DEF LoadAndApply, Found, TryLoadConfig, Synced
      <4>2. l \in Lenses
        BY <1>3
      <4>3. kept = NoStreams \/ AtMost(kept, bak.streams)
        BY <4>1, <2>1 DEF FilesFresh
      <4>4. QED
        BY <4>1, <4>2, <4>3, <2>1, <1>3 DEF AtMost, NoStreams, Streams, Versions
    <3>3. CASE ~TryLoadConfig(main) /\ ~TryLoadConfig(bak)
      BY <3>3, <2>1, <1>3 DEF TryLoadConfig, FilesFresh, Synced, NoStreams, Streams, Versions
    <3>4. QED BY <3>1, <3>2, <3>3
  <2>5. ASSUME NEW l \in todo', main \in Good PROVE plan'[l] >= main.streams[l]
    BY <2>5, <1>3, GoodType DEF LoadAndApply, Found, TryLoadConfig, Streams, Versions
  <2>6. MemoryFresh'
    BY <2>4, <2>5, <1>1 DEF LoadAndApply, MemoryFresh, NoStreams
  <2>7. QED BY <2>2, <2>3, <2>6
<1>8. QED
  BY <1>4, <1>5, <1>6, <1>7

(* The frame of the invariant's parts. *)
LEMMA DatedLater ==
  ASSUME TypeOK, Dated, clock' \in Nat, clock <= clock'
  PROVE  \A f \in Streams : AtMost(f, [l \in Lenses |-> clock])
                           => AtMost(f, [l \in Lenses |-> clock'])
  BY DEF AtMost, Streams, Versions, TypeOK

LEMMA AutostartIInv == ASSUME NEW l \in Lenses PROVE IInv /\ Autostart(l) => IInv'
<1> SUFFICES ASSUME IInv, Autostart(l) PROVE IInv'
  OBVIOUS
<1> USE DEF IInv
<1>1. plan \in Streams /\ mem \in Streams /\ plan[l] \in Versions /\ 0 \in Versions /\ clock \in Nat /\ l \in todo
  BY ConfigAssumption DEF TypeOK, Streams, Versions, Autostart
<1>2. mem' \in Streams /\ plan' \in Streams
  BY <1>1 DEF Autostart, Streams
<1>3. TypeOK'
  BY <1>1, <1>2 DEF Autostart, TypeOK, WithStreams, Savers, Streams
<1>4. ReadSound' /\ Stored' /\ Quiet'
  BY <1>1 DEF Autostart, ReadSound, Past, Stored, Synced, Quiet, Savers, TypeOK, Streams
<1>5. Dated'
  BY <1>1 DEF Autostart, Dated, AtMost, Streams, Versions
<1>6. Fresh'
  <2> SUFFICES ASSUME mishaps = {} PROVE FilesFresh' /\ MemoryFresh' /\ DraftFresh'
    BY DEF Fresh, Autostart
  <2>1. FilesFresh'
    BY DEF Autostart, FilesFresh, Synced, Fresh
  <2>2. MemoryFresh'
    BY <1>1 DEF Autostart, MemoryFresh, Fresh, Streams, TypeOK
  <2>3. DraftFresh'
    BY <1>1 DEF Autostart, Quiet, DraftFresh, Past, Savers, TypeOK
  <2>4. QED BY <2>1, <2>2, <2>3
<1>7. QED
  BY <1>3, <1>4, <1>5, <1>6

(* Requests *)
LEMMA ConfigureIInv == ASSUME NEW l \in Lenses PROVE IInv /\ ConfigureLens(l) => IInv'
<1> SUFFICES ASSUME IInv, ConfigureLens(l) PROVE IInv'
  OBVIOUS
<1> USE DEF IInv
<1>1. clock \in Nat /\ clock' = clock + 1 /\ clock' \in Versions /\ mem \in Streams
  BY ConfigAssumption DEF TypeOK, Versions, ConfigureLens
<1>2. mem' = [mem EXCEPT ![l] = clock'] /\ mem' \in Streams
  BY <1>1 DEF ConfigureLens, Streams
<1>3. TypeOK'
  BY <1>1, <1>2 DEF ConfigureLens, Ready, TypeOK, Savers, Overlaps
<1>4. ReadSound' /\ Stored' /\ Quiet'
  BY DEF ConfigureLens, Ready, ReadSound, Past, Stored, Synced, Quiet, Savers, TypeOK, Overlaps
<1>5. Dated'
  <2>1. \A f \in Streams : AtMost(f, [k \in Lenses |-> clock]) => AtMost(f, [k \in Lenses |-> clock'])
    BY <1>1, DatedLater
  <2>2. AtMost(mem', [k \in Lenses |-> clock'])
    BY <1>1, <1>2 DEF AtMost, Dated, Streams, Versions
  <2>3. QED
    BY <2>1, <2>2, GoodType DEF ConfigureLens, Dated, TypeOK
<1>6. Fresh'
  <2> SUFFICES ASSUME mishaps' = {} PROVE FilesFresh' /\ MemoryFresh' /\ DraftFresh'
    BY DEF Fresh
  <2>1. mishaps = {} /\ ~Past("sched") /\ todo' = {}
    BY DEF ConfigureLens, Ready, Overlaps, Past, Savers
  <2>2. FilesFresh'
    BY <2>1 DEF ConfigureLens, FilesFresh, Synced, Fresh
  <2>3. kept[l] <= clock /\ (main \in Good => main.streams[l] <= clock)
    BY DEF Dated, AtMost
  <2>4. kept[l] \in Nat /\ (main \in Good => main.streams[l] \in Nat)
    BY GoodType DEF TypeOK, Streams, Versions
  <2>5. MemoryFresh'
    BY <1>1, <1>2, <2>1, <2>3, <2>4 DEF ConfigureLens, MemoryFresh, Fresh, Streams
  <2>6. DraftFresh'
    BY <2>1 DEF ConfigureLens, DraftFresh, Past, Savers, TypeOK
  <2>7. QED BY <2>2, <2>5, <2>6
<1>7. QED
  BY <1>3, <1>4, <1>5, <1>6

LEMMA ResaveIInv == IInv /\ (Resave \/ PersistState) => IInv'
<1> SUFFICES ASSUME IInv, Resave \/ PersistState PROVE IInv'
  OBVIOUS
<1> USE DEF IInv, Resave, PersistState, Ready, files, engine, history
<1>1. TypeOK' /\ todo = {}
  BY DEF TypeOK, Savers
<1>2. ReadSound' /\ Stored' /\ Quiet'
  BY <1>1 DEF ReadSound, Past, Stored, Synced, Quiet, Savers, TypeOK
<1>3. Dated'
  BY DEF Dated
<1>4. \A s \in Savers : Past(s)' => Past(s)
  BY DEF Past, Savers, TypeOK
<1>5. Fresh'
  BY <1>1, <1>4 DEF Fresh, FilesFresh, MemoryFresh, DraftFresh, Synced, Savers
<1>6. QED
  BY <1>1, <1>2, <1>3, <1>5

LEMMA StopIInv == ASSUME NEW l \in Lenses PROVE IInv /\ StopLens(l) => IInv'
<1> SUFFICES ASSUME IInv, StopLens(l) PROVE IInv'
  OBVIOUS
<1> USE DEF IInv, StopLens, Ready, files, history
<1>1. mem \in Streams /\ 0 \in Versions /\ mem' \in Streams
  BY ConfigAssumption DEF TypeOK, Streams, Versions
<1>2. TypeOK'
  BY <1>1 DEF TypeOK
<1>3. ReadSound' /\ Stored' /\ Quiet'
  BY <1>1 DEF ReadSound, Past, Stored, Synced, Quiet, Streams
<1>4. Dated'
  BY <1>1 DEF Dated, AtMost, Streams, Versions, TypeOK
<1>5. Fresh'
  <2> SUFFICES ASSUME mishaps = {} PROVE FilesFresh' /\ MemoryFresh' /\ DraftFresh'
    BY DEF Fresh
  <2>1. FilesFresh' /\ MemoryFresh'
    BY <1>1 DEF FilesFresh, Synced, MemoryFresh, Fresh, Streams
  <2>2. \A s \in Savers, k \in Lenses : draft[s][k] \in Nat
    BY DEF TypeOK, Streams, Versions
  <2>3. DraftFresh'
    BY <1>1, <2>2 DEF DraftFresh, Fresh, Past, AtMost, Streams
  <2>4. QED BY <2>1, <2>3
<1>6. QED
  BY <1>2, <1>3, <1>4, <1>5

(* A save *)
LEMMA MergeType ==
  ASSUME mem \in Streams, NEW base \in Streams
  PROVE  Merge(base) \in Streams
  BY DEF Merge, Streams

LEMMA ReadIInv == ASSUME NEW s \in Savers PROVE IInv /\ ReadStored(s) => IInv'
<1> SUFFICES ASSUME IInv, ReadStored(s) PROVE IInv'
  OBVIOUS
<1> USE DEF IInv, files, engine
<1>1. CASE Refuses(main)
  <2>1. pc' = [pc EXCEPT ![s] = "idle"] /\ UNCHANGED <<files, engine, draft, mishaps, kept>>
    BY <1>1 DEF ReadStored, Goto
  <2>2. TypeOK' /\ \A o \in Savers : Past(o)' => Past(o)
    BY <2>1 DEF TypeOK, Past
  <2>3. ReadSound' /\ Stored' /\ Quiet' /\ Dated'
    BY <2>1, <2>2 DEF ReadSound, Stored, Synced, Quiet, Dated, TypeOK, Savers
  <2>4. Fresh'
    BY <2>1, <2>2 DEF Fresh, FilesFresh, MemoryFresh, DraftFresh, Synced, Savers
  <2>5. QED BY <2>2, <2>3, <2>4
<1>2. CASE ~Refuses(main)
  <2> DEFINE base == IF main \in Good THEN main.streams ELSE NoStreams
             new == Merge(base)
  <2>1. pc[s] = "read" /\ pc' = [pc EXCEPT ![s] = "test"] /\ UNCHANGED <<files, engine, kept>>
    BY <1>2 DEF ReadStored, Goto
  <2>2. draft' = [draft EXCEPT ![s] = new] /\ mem \in Streams /\ base \in Streams
    BY <1>2, GoodType, ConfigAssumption DEF ReadStored, TypeOK, NoStreams, Streams, Versions
  <2>3. new \in Streams /\ draft'[s] = new /\ draft' \in [Savers -> Streams]
    BY <2>2, MergeType DEF TypeOK
  <2>4. mishaps' \subseteq {"overlap", "rebased", "unflushed"} /\ mishaps \subseteq mishaps'
        /\ ("unflushed" \in mishaps' <=> "unflushed" \in mishaps)
    BY <1>2 DEF ReadStored, Overlaps, TypeOK
  <2>5. TypeOK'
    BY <2>1, <2>3, <2>4 DEF TypeOK
  <2>6. ReadSound'
    BY <1>2, <2>1 DEF ReadSound, Refuses, TypeOK
  <2>7. Stored'
    BY <2>1, <2>4 DEF Stored, Synced
  <2>8. Quiet'
    BY <2>1 DEF Quiet, TypeOK, Savers
  <2>9. Dated'
    <3>1. AtMost(new, [l \in Lenses |-> clock])
      BY <2>2, ConfigAssumption DEF Merge, AtMost, Dated, NoStreams, TypeOK, Versions
    <3>2. QED
      BY <2>1, <2>2, <2>3, <3>1 DEF Dated, TypeOK
  <2>10. Fresh'
    <3> SUFFICES ASSUME mishaps' = {} PROVE FilesFresh' /\ MemoryFresh' /\ DraftFresh'
      BY DEF Fresh
    <3>1. FilesFresh /\ MemoryFresh /\ DraftFresh
      BY <2>4 DEF Fresh
    <3>2. FilesFresh' /\ MemoryFresh'
      BY <2>1, <3>1 DEF FilesFresh, Synced, MemoryFresh
    <3>3. \A o \in Savers \ {s} : ~Past(o) /\ ~Past(o)'
      BY <1>2, <2>1 DEF ReadStored, Overlaps, Past, TypeOK
    <3>4. AtMost(kept, new)
      <4> SUFFICES ASSUME NEW l \in Lenses PROVE kept[l] <= new[l]
        BY DEF AtMost
      <4>0. kept[l] \in Nat /\ mem[l] \in Nat /\ base[l] \in Nat
            /\ new[l] = IF mem[l] > 0 THEN mem[l] ELSE base[l]
        BY <2>2 DEF TypeOK, Streams, Versions, Merge
      <4>1. CASE main \in Good
        BY <4>0, <4>1, <3>1 DEF MemoryFresh, FilesFresh, AtMost
      <4>2. CASE main \notin Good
        <5>1. kept = NoStreams \/ (bak \in Good /\ AtMost(kept, bak.streams))
          BY <4>2, <3>1 DEF FilesFresh, Synced
        <5>2. CASE kept = NoStreams
          BY <5>2, <4>0 DEF NoStreams
        <5>3. CASE bak \in Good /\ AtMost(kept, bak.streams)
          <6>1. ~(draft'[s][l] < bak.streams[l])
            BY <1>2, <4>2, <5>3 DEF ReadStored
          <6>2. bak.streams[l] \in Nat /\ kept[l] <= bak.streams[l]
            BY <5>3, GoodType DEF Streams, Versions, AtMost
          <6>3. QED BY <6>1, <6>2, <4>0, <2>3
        <5>4. QED BY <5>1, <5>2, <5>3
      <4>3. QED BY <4>1, <4>2
    <3>5. AtMost(mem, new) /\ (\A l \in Lenses : mem[l] > 0 => mem[l] = new[l])
      BY <2>2 DEF AtMost, Merge, Streams, Versions
    <3>6. \A l \in todo : new[l] <= plan[l]
      <4>1. \A l \in todo : l \in Lenses /\ mem[l] = 0 /\ plan[l] \in Nat
        BY DEF Quiet, TypeOK, WithStreams, Streams, Versions
      <4>2. QED
        BY <4>1, <3>1 DEF Merge, MemoryFresh, NoStreams
    <3>7. main \in Good => AtMost(main.streams, new)
      BY <2>2, <3>1 DEF Merge, MemoryFresh, AtMost, Streams, Versions
    <3>8. DraftFresh'
      BY <2>1, <2>3, <3>3, <3>4, <3>5, <3>6, <3>7 DEF DraftFresh, AtMost, Savers, Past
    <3>9. QED BY <3>2, <3>8
  <2>11. QED
    BY <2>5, <2>6, <2>7, <2>8, <2>9, <2>10
<1>3. QED BY <1>1, <1>2

LEMMA TestIInv == ASSUME NEW s \in Savers PROVE IInv /\ TestExists(s) => IInv'
<1> SUFFICES ASSUME IInv, TestExists(s) PROVE IInv'
  OBVIOUS
<1> USE DEF IInv, TestExists, Goto, files, engine, history
<1>1. TypeOK' /\ \A o \in Savers : Past(o)' <=> Past(o)
  BY DEF TypeOK, Past
<1>2. ReadSound' /\ Stored' /\ Quiet' /\ Dated'
  BY <1>1 DEF ReadSound, Stored, Synced, Quiet, Dated, TypeOK, Savers
<1>3. Fresh'
  BY <1>1 DEF Fresh, FilesFresh, MemoryFresh, DraftFresh, Synced, Savers
<1>4. QED BY <1>1, <1>2, <1>3

LEMMA RotateIInv == ASSUME NEW s \in Savers PROVE IInv /\ Rotate(s) => IInv'
<1> SUFFICES ASSUME IInv, Rotate(s) PROVE IInv'
  OBVIOUS
<1> USE DEF IInv, Rotate, Goto, files, engine, history
<1>1. TypeOK' /\ \A o \in Savers : Past(o)' <=> Past(o)
  BY DEF TypeOK, Past, File
<1>2. main # Torn /\ (UNCHANGED files \/ (main \in Good /\ bak' = main /\ main' = Absent /\ main' \notin Good))
  BY FileAssumption DEF ReadSound, Past, TypeOK, File
<1>3. ReadSound' /\ Quiet'
  BY <1>1, <1>2, FileAssumption DEF ReadSound, Quiet, TypeOK, Savers
<1>4. Stored' /\ Dated'
  BY <1>2 DEF Stored, Synced, Dated
<1>5. Fresh'
  BY <1>1, <1>2 DEF Fresh, FilesFresh, MemoryFresh, DraftFresh, Synced, Savers
<1>6. QED BY <1>1, <1>3, <1>4, <1>5

LEMMA FailsIInv == ASSUME NEW s \in Savers PROVE IInv /\ WriteFails(s) => IInv'
<1> SUFFICES ASSUME IInv, WriteFails(s) PROVE IInv'
  OBVIOUS
<1> USE DEF IInv, WriteFails, Finish, Goto, files, engine, history
<1>0. NoStreams \in Streams /\ AtMost(NoStreams, [l \in Lenses |-> clock])
  BY ConfigAssumption DEF NoStreams, Streams, Versions, AtMost, TypeOK
<1>1. TypeOK' /\ ~Past(s)' /\ \A o \in Savers \ {s} : (Past(o)' <=> Past(o)) /\ draft'[o] = draft[o]
  BY <1>0 DEF TypeOK, Past
<1>2. ReadSound' /\ Stored' /\ Quiet'
  BY <1>1 DEF ReadSound, Stored, Synced, Quiet, TypeOK, Savers
<1>3. Dated'
  BY <1>0, <1>1 DEF Dated, TypeOK
<1>4. Fresh'
  BY <1>1 DEF Fresh, FilesFresh, MemoryFresh, DraftFresh, Synced, Savers
<1>5. QED BY <1>1, <1>2, <1>3, <1>4

\* A write makes a file that holds JSON, durable if it replaces one.
LEMMA SetFacts ==
  ASSUME TypeOK, NEW streams \in Streams, SetContents(streams)
  PROVE  /\ main' \in Good /\ main'.streams = streams /\ main'.synced \in BOOLEAN
         /\ bak' = bak /\ (main \in Good => main'.synced)
  BY DEF SetContents, Durable, Good

LEMMA WrittenIInv == ASSUME NEW s \in Savers PROVE IInv /\ Written(s) => IInv'
<1> SUFFICES ASSUME IInv, Written(s) PROVE IInv'
  OBVIOUS
<1> USE DEF IInv, Written, Finish, Goto, engine
<1>0. NoStreams \in Streams /\ AtMost(NoStreams, [l \in Lenses |-> clock])
  BY ConfigAssumption DEF NoStreams, Streams, Versions, AtMost, TypeOK
<1>1. draft[s] \in Streams /\ AtMost(draft[s], [l \in Lenses |-> clock]) /\ Past(s)
  BY DEF TypeOK, Dated, Past
<1>2. /\ main' \in Good /\ main'.streams = draft[s] /\ main'.synced \in BOOLEAN
      /\ bak' = bak /\ (main \in Good => main'.synced)
  BY <1>1, SetFacts
<1>3. kept' \in Streams /\ (kept' = draft[s] \/ kept' = kept)
  BY <1>1 DEF TypeOK
<1>4. ~Past(s)' /\ \A o \in Savers \ {s} : (Past(o)' <=> Past(o)) /\ draft'[o] = draft[o]
  BY DEF TypeOK, Past
<1>5. TypeOK'
  BY <1>0, <1>2, <1>3 DEF TypeOK, File
<1>6. ReadSound' /\ Quiet'
  BY <1>2, <1>4, GoodType DEF ReadSound, Quiet, TypeOK, Savers
<1>7. Stored'
  BY <1>2 DEF Stored, Synced
<1>8. Dated'
  BY <1>0, <1>1, <1>2, <1>3, <1>4 DEF Dated, TypeOK
<1>9. Fresh'
  <2> SUFFICES ASSUME mishaps = {} PROVE FilesFresh' /\ MemoryFresh' /\ DraftFresh'
    BY DEF Fresh
  <2>1. FilesFresh /\ MemoryFresh /\ DraftFresh
    BY DEF Fresh
  <2>2. AtMost(kept, draft[s]) /\ AtMost(draft[s], draft[s])
    BY <1>1, <2>1 DEF DraftFresh, AtMost, Streams, Versions
  <2>3. FilesFresh'
    <3>1. CASE main'.synced
      BY <3>1, <1>2, <2>2 DEF FilesFresh, Synced
    <3>2. CASE ~main'.synced
      BY <3>2, <1>2, <2>1, <2>2 DEF FilesFresh, Synced
    <3>3. QED BY <3>1, <3>2
  <2>4. \A l \in Lenses : mem[l] > 0 => mem[l] >= draft[s][l]
    BY <1>1, <2>1 DEF DraftFresh, TypeOK, Streams, Versions
  <2>5. \A l \in todo : plan[l] >= draft[s][l]
    BY <1>1, <2>1 DEF DraftFresh, TypeOK, WithStreams, Streams, Versions
  <2>6. MemoryFresh'
    BY <1>2, <1>3, <2>1, <2>4, <2>5 DEF MemoryFresh
  <2>7. \A o \in Savers : ~Past(o)'
    BY <1>1, <1>4, <2>1 DEF DraftFresh, Savers
  <2>8. DraftFresh'
    BY <2>7 DEF DraftFresh, Savers
  <2>9. QED BY <2>3, <2>6, <2>8
<1>10. QED BY <1>5, <1>6, <1>7, <1>8, <1>9

LEMMA SaveCurrentIInv == IInv /\ SaveCurrentConfig => IInv'
<1> SUFFICES ASSUME IInv, SaveCurrentConfig PROVE IInv'
  OBVIOUS
<1> USE DEF IInv, SaveCurrentConfig, Ready, engine
<1>1. mem \in Streams /\ AtMost(mem, [l \in Lenses |-> clock])
  BY DEF TypeOK, Dated
<1>2. /\ main' \in Good /\ main'.streams = mem /\ main'.synced \in BOOLEAN
      /\ bak' = bak /\ (main \in Good => main'.synced)
  BY <1>1, SetFacts
<1>3. NoWorse(mem, kept) \in Streams /\ AtMost(NoWorse(mem, kept), mem) /\ AtMost(NoWorse(mem, kept), kept)
  BY <1>1 DEF TypeOK, NoWorse, AtMost, Streams, Versions
<1>4. kept' \in Streams /\ AtMost(kept', mem) /\ (main'.synced \/ AtMost(kept', kept))
  <2>1. AtMost(mem, mem)
    BY <1>1 DEF AtMost, Streams, Versions
  <2>2. QED BY <1>1, <1>3, <2>1
<1>5. TypeOK' /\ \A s \in Savers : Past(s)' <=> Past(s)
  BY <1>2, <1>4 DEF TypeOK, File, Past
<1>6. ReadSound' /\ Quiet'
  BY <1>2, GoodType DEF ReadSound, Quiet
<1>7. kept = NoStreams => main'.synced \/ kept' = NoStreams
  BY <1>1 DEF NoWorse, NoStreams, Streams, Versions
<1>8. Stored'
  BY <1>2, <1>7 DEF Stored, Synced
<1>9. AtMost(kept', [l \in Lenses |-> clock])
  BY <1>1, <1>4 DEF AtMost, TypeOK, Streams, Versions
<1>10. Dated'
  BY <1>1, <1>2, <1>9 DEF Dated
<1>11. Fresh'
  <2> SUFFICES ASSUME mishaps = {} PROVE FilesFresh' /\ MemoryFresh' /\ DraftFresh'
    BY DEF Fresh
  <2>1. FilesFresh /\ MemoryFresh /\ DraftFresh
    BY DEF Fresh
  <2>2. \A f \in Streams : AtMost(mem, f) => AtMost(kept', f)
    BY <1>1, <1>4 DEF AtMost, Streams, Versions
  <2>3. bak \in Good /\ AtMost(kept, bak.streams) /\ ~main'.synced => AtMost(kept', bak.streams)
    BY <1>4, GoodType DEF AtMost, TypeOK, Streams, Versions
  <2>4. FilesFresh'
    <3>1. CASE main'.synced
      BY <3>1, <1>2, <1>4 DEF FilesFresh, Synced
    <3>2. CASE ~main'.synced
      BY <3>2, <1>2, <1>4, <1>7, <2>1, <2>3 DEF FilesFresh, Synced
    <3>3. QED BY <3>1, <3>2
  <2>5. MemoryFresh'
    BY <1>1, <1>2, <1>4, <2>1 DEF MemoryFresh, AtMost, Streams, Versions
  <2>6. \A s \in Savers : Past(s)' => AtMost(mem, draft'[s]) /\ draft'[s] \in Streams
    BY <1>5, <2>1 DEF DraftFresh, TypeOK
  <2>7. DraftFresh'
    BY <1>2, <1>5, <2>1, <2>2, <2>6 DEF DraftFresh, Savers
  <2>8. QED BY <2>4, <2>5, <2>7
<1>12. QED BY <1>5, <1>6, <1>8, <1>10, <1>11

(* The machine *)
\* What the end of the engine makes of the parts that speak of it.
LEMMA DownKeeps ==
  ASSUME IInv, Down, main' \in File, bak' \in File, kept' = kept, mishaps \subseteq mishaps',
         mishaps' \subseteq {"overlap", "rebased", "unflushed"},
         main' \in Good => main' = main, bak' \in Good => bak' = bak
  PROVE  TypeOK' /\ ReadSound' /\ Quiet' /\ Dated' /\ (mishaps' = {} => MemoryFresh' /\ DraftFresh')
<1> USE DEF IInv
<1>1. NoStreams \in Streams /\ AtMost(NoStreams, [l \in Lenses |-> clock]) /\ clock' = clock
  BY ConfigAssumption DEF NoStreams, Streams, Versions, AtMost, TypeOK, Down
<1>2. mem' = NoStreams /\ plan' = NoStreams /\ todo' = {} /\ up' = FALSE
      /\ pc' = [s \in Savers |-> "idle"] /\ draft' = [s \in Savers |-> NoStreams]
  BY DEF Down
<1>3. TypeOK'
  BY <1>1, <1>2 DEF TypeOK
<1>4. \A s \in Savers : ~Past(s)'
  BY <1>2 DEF Past
<1>5. ReadSound' /\ Quiet'
  BY <1>2, <1>4 DEF ReadSound, Quiet
<1>6. Dated'
  BY <1>1, <1>2 DEF Dated
<1>7. MemoryFresh' /\ DraftFresh'
  BY <1>2, <1>4 DEF MemoryFresh, DraftFresh, NoStreams, Savers
<1>8. QED BY <1>3, <1>5, <1>6, <1>7

LEMMA CrashIInv == IInv /\ Crash => IInv'
<1> SUFFICES ASSUME IInv, Crash PROVE IInv'
  OBVIOUS
<1> USE DEF IInv, Crash, files, history
<1>1. TypeOK' /\ ReadSound' /\ Quiet' /\ Dated' /\ (mishaps' = {} => MemoryFresh' /\ DraftFresh')
  BY DownKeeps DEF TypeOK
<1>2. Stored' /\ (mishaps' = {} => FilesFresh')
  BY DEF Stored, Synced, Fresh, FilesFresh
<1>3. QED BY <1>1, <1>2 DEF Fresh

LEMMA CutIInv == IInv /\ PowerCut => IInv'
<1> SUFFICES ASSUME IInv, PowerCut PROVE IInv'
  OBVIOUS
<1> USE DEF IInv
<1>1. Cut(main, main') /\ Cut(bak, bak') /\ kept' = kept /\ Down
  BY DEF PowerCut
<1>2. /\ main' \in File /\ bak' \in File
      /\ main' \in Good => main' = main
      /\ bak' \in Good => bak' = bak
      /\ Synced(main) => main' = main
      /\ (bak \in Good /\ (Synced(bak) \/ ("unflushed" \notin mishaps' /\ ~Synced(main)))) => bak' = bak
  BY <1>1, FileAssumption DEF Cut, Synced, TypeOK, File, PowerCut
<1>3. mishaps \subseteq mishaps' /\ mishaps' \subseteq {"overlap", "rebased", "unflushed"}
  BY DEF PowerCut, TypeOK
<1>4. TypeOK' /\ ReadSound' /\ Quiet' /\ Dated' /\ (mishaps' = {} => MemoryFresh' /\ DraftFresh')
  BY <1>1, <1>2, <1>3, DownKeeps
<1>5. Stored'
  BY <1>1, <1>2, <1>3 DEF Stored, Synced
<1>6. ASSUME mishaps' = {} PROVE FilesFresh'
  <2>1. FilesFresh
    BY <1>3, <1>6 DEF Fresh
  <2>2. QED BY <1>1, <1>2, <1>6, <2>1 DEF FilesFresh, Synced
<1>7. QED BY <1>4, <1>5, <1>6 DEF Fresh

LEMMA FlushIInv == IInv /\ (FlushMain \/ FlushBak) => IInv'
<1> SUFFICES ASSUME IInv, FlushMain \/ FlushBak PROVE IInv'
  OBVIOUS
<1> USE DEF IInv, engine, history
<1>1. CASE FlushMain
  <2> USE <1>1 DEF FlushMain
  <2>1. main' \in Good /\ main'.streams = main.streams /\ main'.synced /\ main.streams \in Streams
    BY GoodType DEF Good
  <2>2. TypeOK' /\ ReadSound' /\ Quiet' /\ Stored' /\ Dated'
    BY <2>1, GoodType DEF TypeOK, File, ReadSound, Past, Quiet, Stored, Synced, Dated
  <2>3. AtMost(main.streams, main.streams)
    BY <2>1 DEF AtMost, Streams, Versions
  <2>4. Fresh'
    BY <2>1, <2>3 DEF Fresh, FilesFresh, MemoryFresh, DraftFresh, Synced, Past
  <2>5. QED BY <2>2, <2>4
<1>2. CASE FlushBak
  <2> USE <1>2 DEF FlushBak
  <2>1. bak' \in Good /\ bak'.streams = bak.streams
    BY GoodType DEF Good
  <2>2. TypeOK' /\ ReadSound' /\ Quiet' /\ Stored' /\ Dated'
    BY <2>1 DEF TypeOK, File, ReadSound, Past, Quiet, Stored, Synced, Dated
  <2>3. Fresh'
    BY <2>1 DEF Fresh, FilesFresh, MemoryFresh, DraftFresh, Synced, Past
  <2>4. QED BY <2>2, <2>3
<1>3. QED BY <1>1, <1>2

LEMMA NextIInv == IInv /\ [Next]_vars => IInv'
<1> SUFFICES ASSUME IInv, [Next]_vars PROVE IInv'
  OBVIOUS
<1>1. CASE Next
  BY <1>1, LoadIInv, AutostartIInv, ConfigureIInv, ResaveIInv, StopIInv, ReadIInv, TestIInv,
     RotateIInv, WrittenIInv, FailsIInv, SaveCurrentIInv, CrashIInv, CutIInv, FlushIInv DEF Next
<1>2. CASE UNCHANGED vars
  BY <1>2 DEF vars, IInv, TypeOK, ReadSound, Past, Stored, Synced, Quiet, Dated, Fresh,
     FilesFresh, MemoryFresh, DraftFresh
<1>3. QED BY <1>1, <1>2

\* The types of files, memory and savers (main.c:250-433, sys_config.c).
THEOREM TypeCorrect == Spec => []TypeOK
<1>1. IInv => TypeOK
  BY DEF IInv
<1>2. QED BY InitIInv, NextIInv, <1>1, PTL DEF Spec

(* Once stored, a configuration is found by every restart, and no older    *)
(* one unless a mishap happened (main.c:404-413, sys_config.c:85-116).     *)
THEOREM SettingsAreKept == Spec => []SettingsSurvive
<1>1. IInv => SettingsSurvive
  <2> SUFFICES ASSUME IInv PROVE Recoverable /\ NeverOlder
    BY DEF SettingsSurvive
  <2>1. Recoverable
    BY DEF IInv, Stored, Synced, Recoverable, TryLoadConfig
  <2>2. NeverOlder
    <3> SUFFICES ASSUME mishaps = {}, NEW l \in Lenses PROVE Found[l] >= kept[l]
      BY DEF NeverOlder
    <3>1. FilesFresh /\ kept[l] \in Nat
      BY DEF IInv, Fresh, TypeOK, Streams, Versions
    <3>2. Found[l] \in Nat
      BY FoundType DEF IInv, Streams, Versions
    <3>3. CASE main \in Good
      BY <3>1, <3>2, <3>3 DEF FilesFresh, AtMost, Found, TryLoadConfig
    <3>4. CASE main \notin Good
      BY <3>1, <3>2, <3>4 DEF FilesFresh, AtMost, Found, TryLoadConfig, Synced, NoStreams
    <3>5. QED BY <3>3, <3>4
  <2>3. QED BY <2>1, <2>2
<1>2. QED BY InitIInv, NextIInv, <1>1, PTL DEF Spec
=============================================================================
