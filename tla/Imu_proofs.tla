----------------------------- MODULE Imu_proofs -----------------------------
(***************************************************************************)
(* Proofs about the IMU driver, for any number of callers, any ranges, any *)
(* number of samples and of failing transfers.  BankOwned is inductive     *)
(* once the programs are known to be bracketed: the last section of every  *)
(* call is in bank 0, and no call returns early from another bank.         *)
(***************************************************************************)
EXTENDS Imu, SequenceTheorems, TLAPS

Returning(o) == o.kind = "read" \/ o.onError = "return"

\* A section a call may be left from in the middle is in bank 0.
Safe(s) == s.bank = 0 \/ \A i \in DOMAIN s.ops : ~Returning(s.ops[i])

Bracketed(p) ==
  /\ p # << >> => p[Len(p)].bank = 0
  /\ \A i \in DOMAIN p : Safe(p[i])

\* Every operation and section written in the module is well formed.
LEMMA DoTyped ==
  ASSUME NEW k \in Kinds, NEW e \in OnError
  PROVE  Do(k, e) \in Operation
  BY DEF Do, Operation, Sensors, FullScales

LEMMA PutTyped ==
  ASSUME NEW k \in Kinds, NEW e \in OnError, NEW v \in FullScales
  PROVE  Put(k, v, e) \in Operation /\ Put(k, v, e).kind = k /\ Put(k, v, e).onError = e
  BY DEF Put, Do, Operation, Sensors, FullScales

LEMMA ScaleTyped ==
  ASSUME NEW s \in Sensors, NEW v \in FullScales
  PROVE  Scale(s, v) \in Operation /\ Scale(s, v).kind = "scale"
         /\ Scale(s, v).onError = "ignore"
  BY DEF Scale, Do, Operation, Sensors, FullScales, Kinds, OnError

\* The sections of the initialisation are typed and safe to be left.
LEMMA InitSections ==
  /\ Inside(0, Init0) \in Section /\ Safe(Inside(0, Init0))
  /\ Inside(2, Init2) \in Section /\ Safe(Inside(2, Init2))
  /\ Inside(3, Init3) \in Section /\ Safe(Inside(3, Init3))
  /\ Inside(0, <<Others>>) \in Section /\ Safe(Inside(0, <<Others>>))
<1> DEFINE reset == Do("reset", "ignore")
           acc == Put("accel_config", 0, "ignore")
           one == Put("register_one", 3, "ignore")
           sa == Scale("accel", 0)
           sg == Scale("gyro", 3)
<1>1. /\ reset \in Operation /\ Others \in Operation
      /\ acc \in Operation /\ one \in Operation /\ sa \in Operation /\ sg \in Operation
  BY DoTyped, PutTyped, ScaleTyped DEF Others, Kinds, OnError, Sensors, FullScales
<1>2. ~Returning(Others) /\ ~Returning(acc) /\ ~Returning(one) /\ ~Returning(sa) /\ ~Returning(sg)
  BY PutTyped, ScaleTyped DEF Others, Do, Returning, Kinds, OnError, Sensors, FullScales
<1>3. /\ Init0 = <<reset, Others>>
      /\ Init2 = <<Others, acc, sa, Others, one, sg>>
      /\ Init3 = <<one, Others>>
  BY DEF Init0, Init2, Init3
<1> HIDE DEF reset, acc, one, sa, sg
<1>4. Init0 \in Seq(Operation) /\ Init3 \in Seq(Operation) /\ <<Others>> \in Seq(Operation)
  BY <1>1, <1>3
<1>5. Init2 \in Seq(Operation)
  BY <1>1, <1>3
<1>6. \A i \in DOMAIN Init2 : ~Returning(Init2[i])
  BY <1>2, <1>3
<1>7. \A i \in DOMAIN Init3 : ~Returning(Init3[i])
  BY <1>2, <1>3
<1>8. QED
  BY <1>4, <1>5, <1>6, <1>7 DEF Inside, Section, Safe

\* Every call of the driver is a sequence of sections, bracketed by bank 0.
LEMMA Programs ==
  ASSUME NEW k \in Calls, NEW v \in FullScales
  PROVE  Program(k, v) \in Seq(Section) /\ Bracketed(Program(k, v))
<1> DEFINE home == Inside(0, << >>)
           init0 == Inside(0, Init0)
           init2 == Inside(2, Init2)
           init3 == Inside(3, Init3)
           others == Inside(0, <<Others>>)
           one(o) == <<Inside(0, <<o>>)>>
<1>1. home \in Section /\ Safe(home) /\ home.bank = 0
  BY DEF Inside, Section, Safe
<1>2. \A o \in Operation : /\ one(o) \in Seq(Section) /\ Bracketed(one(o))
                           /\ Len(one(o)) = 1
  <2> TAKE o \in Operation
  <2>1. <<o>> \in Seq(Operation)
    OBVIOUS
  <2>2. Inside(0, <<o>>) \in Section /\ Inside(0, <<o>>).bank = 0 /\ Safe(Inside(0, <<o>>))
    BY <2>1 DEF Inside, Section, Safe
  <2>3. QED
    BY <2>2 DEF Bracketed
<1>3. InitSensor \in Seq(Section) /\ Bracketed(InitSensor) /\ Len(InitSensor) = 5
  <2>1. InitSensor = <<init0, init2, others, init3, home>>
    BY DEF InitSensor
  <2>2. /\ init0 \in Section /\ init2 \in Section /\ others \in Section /\ init3 \in Section
        /\ Safe(init0) /\ Safe(init2) /\ Safe(others) /\ Safe(init3)
    BY InitSections
  <2> HIDE DEF home, init0, init2, init3, others
  <2>3. InitSensor \in Seq(Section)
    BY <2>1, <2>2, <1>1
  <2>4. Len(InitSensor) = 5 /\ InitSensor[5] = home
    BY <2>1
  <2>5. \A i \in DOMAIN InitSensor : Safe(InitSensor[i])
    BY <2>1, <2>2, <1>1
  <2>6. InitSensor[Len(InitSensor)].bank = 0
    <3>1. InitSensor[Len(InitSensor)] = home
      BY <2>4
    <3>2. QED
      BY <3>1, <1>1
  <2>7. QED
    BY <2>3, <2>4, <2>5, <2>6 DEF Bracketed
<1>4. Reset \in Seq(Section) /\ Bracketed(Reset)
  <2> DEFINE first == one(Do("reset", "return"))
  <2>1. first \in Seq(Section) /\ Bracketed(first) /\ Len(first) = 1
    BY <1>2, DoTyped DEF Kinds, OnError
  <2>2. Reset = first \o InitSensor
    BY DEF Reset
  <2> HIDE DEF first
  <2>3. /\ first \o InitSensor \in Seq(Section)
        /\ Len(first \o InitSensor) = Len(first) + Len(InitSensor)
        /\ \A i \in 1..(Len(first) + Len(InitSensor)) : (first \o InitSensor)[i] =
             IF i <= Len(first) THEN first[i] ELSE InitSensor[i - Len(first)]
    BY <2>1, <1>3, ConcatProperties
  <2>4. /\ Reset \in Seq(Section) /\ Len(Reset) = 6 /\ DOMAIN Reset = 1..6
        /\ \A i \in 1..6 : Reset[i] = IF i <= 1 THEN first[1] ELSE InitSensor[i - 1]
    <3>1. Len(first) = 1 /\ Len(InitSensor) = 5 /\ Len(first) + Len(InitSensor) = 6
      BY <2>1, <1>3
    <3>2. Len(Reset) = 6 /\ Reset \in Seq(Section)
      BY <2>2, <2>3, <3>1
    <3>3. ASSUME NEW i \in 1..6
          PROVE  Reset[i] = IF i <= 1 THEN first[1] ELSE InitSensor[i - 1]
      <4>1. Reset[i] = IF i <= 1 THEN first[i] ELSE InitSensor[i - 1]
        BY <2>2, <2>3, <3>1
      <4>2. Len(<< >>) = 0
        BY EmptySeq
      <4>3. QED
        BY <4>1, <4>2
    <3>4. QED
      BY <3>2, <3>3
  <2>5. first[1] = Reset[1] /\ Safe(first[1])
    BY <2>1, <2>4 DEF Bracketed
  <2>6. \A i \in 1..5 : Safe(InitSensor[i])
    BY <1>3 DEF Bracketed
  <2>7. InitSensor[5].bank = 0
    BY <1>3 DEF Bracketed
  <2>8. \A i \in 1..6 : Safe(Reset[i])
    BY <2>4, <2>5, <2>6
  <2>9. Reset[6].bank = 0
    BY <2>4, <2>7
  <2>10. QED
    BY <2>4, <2>8, <2>9 DEF Bracketed
<1>5. Get \in Seq(Section) /\ Bracketed(Get)
  BY <1>2, DoTyped DEF Get, Kinds, OnError
<1>6. Read \in Seq(Section) /\ Bracketed(Read)
  <2>1. [i \in 1..Samples |-> Do("read", "return")] \in Seq(Operation)
    BY DoTyped, ImuAssumption DEF Kinds, OnError
  <2>2. Inside(0, [i \in 1..Samples |-> Do("read", "return")]) \in Section
    BY <2>1 DEF Inside, Section
  <2>3. QED
    BY <2>2 DEF Read, Bracketed, Safe, Inside
<1>7. ASSUME NEW o \in Operation, ~Returning(o), NEW q \in Operation
      PROVE  LET p == <<Inside(2, <<o>>), Inside(0, <<q>>)>>
             IN p \in Seq(Section) /\ Bracketed(p)
  <2>1. <<o>> \in Seq(Operation) /\ <<q>> \in Seq(Operation)
    OBVIOUS
  <2>2. Inside(2, <<o>>) \in Section /\ Safe(Inside(2, <<o>>))
    BY <1>7, <2>1 DEF Inside, Section, Safe
  <2>3. Inside(0, <<q>>) \in Section /\ Safe(Inside(0, <<q>>)) /\ Inside(0, <<q>>).bank = 0
    BY <2>1 DEF Inside, Section, Safe
  <2>4. QED
    BY <2>2, <2>3 DEF Bracketed
<1>8. SetAccelFsr(v) \in Seq(Section) /\ Bracketed(SetAccelFsr(v))
  <2>1. Put("accel_config", v, "keep") \in Operation /\ ~Returning(Put("accel_config", v, "keep"))
    BY PutTyped DEF Returning, Kinds, OnError
  <2>2. Scale("accel", v) \in Operation
    BY ScaleTyped DEF Sensors
  <2>3. QED
    BY <2>1, <2>2, <1>7 DEF SetAccelFsr
<1>9. SetGyroFsr(v) \in Seq(Section) /\ Bracketed(SetGyroFsr(v))
  <2>1. Put("register_one", v, "keep") \in Operation /\ ~Returning(Put("register_one", v, "keep"))
    BY PutTyped DEF Returning, Kinds, OnError
  <2>2. Scale("gyro", v) \in Operation
    BY ScaleTyped DEF Sensors
  <2>3. QED
    BY <2>1, <2>2, <1>7 DEF SetGyroFsr
<1>10. SetOdr \in Seq(Section) /\ Bracketed(SetOdr)
  <2> DEFINE o == Do("write", "keep")
  <2>1. o \in Operation /\ ~Returning(o)
    BY DoTyped DEF Returning, Do, Kinds, OnError
  <2>2. <<o>> \in Seq(Operation)
    BY <2>1
  <2>3. Inside(2, <<o>>) \in Section /\ Safe(Inside(2, <<o>>))
    BY <2>1, <2>2 DEF Inside, Section, Safe
  <2>4. QED
    BY <2>3, <1>1 DEF SetOdr, Bracketed
<1>11. QED
  BY <1>3, <1>4, <1>5, <1>6, <1>8, <1>9, <1>10
     DEF Calls, Readers, Program, GetAccel, GetGyro, GetMag, Show

----------------------------------------------------------------------------
\* Caller c is where its program can be, and may only leave from bank 0.
Placed(c) ==
  /\ ~Busy(c) => in[c] = 0
  /\ Bracketed(todo[c])
  /\ in[c] # 0 => todo[c] # << >>
  /\ in[c] # 0 => \A i \in DOMAIN ops[c] : ~Returning(ops[c][i])

IInv == TypeOK /\ (\A c \in Actors : Placed(c)) /\ BankOwned

LEMMA InitIInv == Init => IInv
<1> SUFFICES ASSUME Init PROVE IInv
  OBVIOUS
<1>1. TypeOK
  <2>1. range \in [Sensors -> FullScales] /\ scale \in [Sensors -> FullScales]
    BY DEF Init, PowerOn, Configured, Sensors, FullScales
  <2>2. /\ todo \in [Actors -> Seq(Section)] /\ ops \in [Actors -> Seq(Operation)]
    BY DEF Init
  <2>3. /\ call \in [Actors -> Calls \cup {"none"}]
        /\ in \in [Actors -> 0..3] /\ err \in [Actors -> BOOLEAN]
    BY DEF Init, Idle
  <2>4. bank \in 0..3 /\ faults \in 0..MaxFaults
    BY ImuAssumption DEF Init
  <2>5. overlapped \in BOOLEAN
    BY DEF Init
  <2>6. /\ dropped \subseteq {"select", "write"} /\ registered \subseteq DOMAIN Needs
        /\ driver \in {"new", "configuring", "configured", "bound", "failed"}
    BY DEF Init
  <2>7. QED
    BY <2>1, <2>2, <2>3, <2>4, <2>5, <2>6 DEF TypeOK
<1>2. \A c \in Actors : Placed(c)
  BY DEF Init, Placed, Bracketed, Busy, Idle
<1>3. BankOwned
  BY DEF Init, BankOwned
<1>4. QED
  BY <1>1, <1>2, <1>3 DEF IInv

\* What a transfer that fails changes.
LEMMA FaultTyped ==
  ASSUME TypeOK, NEW k \in {"select", "write", "read"}, NEW i \in BOOLEAN, Fault(k, i),
         k = "read" => ~i
  PROVE  /\ bank' = bank /\ range' = range
         /\ dropped' \subseteq {"select", "write"} /\ dropped \subseteq dropped'
         /\ faults' \in 0..MaxFaults
  BY ImuAssumption DEF TypeOK, Fault, chip

\* Leaving a call, and going on to the next operation, keep the types.
LEMMA LeaveTyped ==
  ASSUME TypeOK, NEW c \in Actors, Leave(c)
  PROVE  /\ call' \in [Actors -> Calls \cup {"none"}] /\ todo' \in [Actors -> Seq(Section)]
         /\ ops' \in [Actors -> Seq(Operation)] /\ in' \in [Actors -> 0..3]
         /\ err' \in [Actors -> BOOLEAN]
  BY DEF TypeOK, Leave

LEMMA AdvanceTyped ==
  ASSUME TypeOK, NEW c \in Actors, ops[c] # << >>, Advance(c)
  PROVE  /\ call' \in [Actors -> Calls \cup {"none"}] /\ todo' \in [Actors -> Seq(Section)]
         /\ ops' \in [Actors -> Seq(Operation)] /\ in' \in [Actors -> 0..3]
         /\ Head(ops[c]) \in Operation
<1>1. ops[c] \in Seq(Operation) /\ Tail(ops[c]) \in Seq(Operation)
  BY DEF TypeOK
<1>2. Head(ops[c]) \in Operation
  BY <1>1
<1>3. QED
  BY <1>1, <1>2 DEF TypeOK, Advance

\* A caller that leaves from bank 0, or goes on, is still placed.
LEMMA LeavePlaced ==
  ASSUME TypeOK, NEW c \in Actors, Leave(c), \A d \in Actors : Placed(d)
  PROVE  (\A d \in Actors : Placed(d))' /\ (\A d \in Actors \ {c} : in'[d] = in[d])
<1>1. Placed(c)'
  BY DEF TypeOK, Leave, Placed, Bracketed, Busy
<1>2. ASSUME NEW d \in Actors \ {c} PROVE Placed(d)' /\ in'[d] = in[d]
  BY DEF TypeOK, Leave, Placed, Busy
<1>3. QED
  BY <1>1, <1>2

LEMMA AdvancePlaced ==
  ASSUME TypeOK, NEW c \in Actors, ops[c] # << >>, Advance(c), \A d \in Actors : Placed(d)
  PROVE  (\A d \in Actors : Placed(d))' /\ in' = in
<1>1. Placed(c)'
  <2>1. ops[c] \in Seq(Operation) /\ ops'[c] = Tail(ops[c]) /\ todo' = todo /\ in' = in
    BY DEF TypeOK, Advance
  <2>2. \A i \in DOMAIN Tail(ops[c]) : i + 1 \in DOMAIN ops[c] /\ Tail(ops[c])[i] = ops[c][i + 1]
    BY <2>1
  <2>3. QED
    BY <2>1, <2>2 DEF Placed, Busy, Advance
<1>2. ASSUME NEW d \in Actors \ {c} PROVE Placed(d)'
  BY DEF TypeOK, Advance, Placed, Busy
<1>3. QED
  BY <1>1, <1>2 DEF Advance

\* A call starts with its program, outside every section.
LEMMA EnterKeeps ==
  ASSUME IInv, NEW c \in Actors, NEW k \in Calls, NEW v \in FullScales, Enter(c, k, v),
         driver' \in {"new", "configuring", "configured", "bound", "failed"},
         registered' = registered
  PROVE  IInv'
<1>1. Program(k, v) \in Seq(Section) /\ Bracketed(Program(k, v))
  BY Programs
<1>2. TypeOK'
  <2>1. call' \in [Actors -> Calls \cup {"none"}]
    BY DEF IInv, TypeOK, Enter
  <2>2. todo' \in [Actors -> Seq(Section)]
    BY <1>1 DEF IInv, TypeOK, Enter
  <2>3. overlapped' \in BOOLEAN
    BY DEF IInv, TypeOK, Enter
  <2>4. QED
    BY <2>1, <2>2, <2>3 DEF IInv, TypeOK, Enter, chip
<1>3. ASSUME NEW d \in Actors PROVE Placed(d)'
  <2>1. in' = in /\ ops' = ops /\ todo' = [todo EXCEPT ![c] = Program(k, v)]
    BY DEF Enter
  <2>2. CASE d = c
    <3>1. in[c] = 0
      BY DEF IInv, Placed, Enter
    <3>2. QED
      BY <1>1, <2>1, <2>2, <3>1 DEF IInv, TypeOK, Placed, Busy, Enter
  <2>3. CASE d # c
    BY <2>1, <2>3 DEF IInv, TypeOK, Placed, Busy, Enter
  <2>4. QED
    BY <2>2, <2>3
<1>4. BankOwned'
  BY DEF IInv, BankOwned, Enter, chip
<1>5. QED
  BY <1>2, <1>3, <1>4 DEF IInv

LEMMA SelectKeeps ==
  ASSUME IInv, NEW c \in Actors, NextSection(c)
  PROVE  IInv'
<1> DEFINE s == Head(todo[c])
<1>1. /\ todo[c] \in Seq(Section) /\ todo[c] # << >>
      /\ Tail(todo[c]) \in Seq(Section) /\ s \in Section /\ s = todo[c][1]
  BY DEF IInv, TypeOK, NextSection
<1>2. s.bank \in 0..3 /\ s.ops \in Seq(Operation)
  BY <1>1 DEF Section
<1>3. /\ in' = [in EXCEPT ![c] = s.bank] /\ ops' = [ops EXCEPT ![c] = s.ops]
      /\ todo' = [todo EXCEPT ![c] = Tail(todo[c])] /\ call' = call /\ Busy(c)
  BY DEF IInv, TypeOK, NextSection
<1>4. /\ bank' \in 0..3 /\ range' = range
      /\ dropped' \subseteq {"select", "write"} /\ faults' \in 0..MaxFaults
      /\ bank' = s.bank \/ "select" \in dropped'
  <2>1. CASE bank' = s.bank /\ UNCHANGED <<range, dropped, faults>>
    BY <1>2, <2>1 DEF IInv, TypeOK
  <2>2. CASE Fault("select", TRUE)
    <3>1. "select" \in dropped'
      BY <2>2 DEF Fault
    <3>2. QED
      BY <2>2, <3>1, FaultTyped DEF IInv, TypeOK
  <2>3. QED
    BY <2>1, <2>2 DEF NextSection, BankSelect
<1>5. TypeOK'
  <2>1. /\ in' \in [Actors -> 0..3] /\ ops' \in [Actors -> Seq(Operation)]
        /\ todo' \in [Actors -> Seq(Section)]
    BY <1>1, <1>2, <1>3 DEF IInv, TypeOK
  <2>2. QED
    BY <2>1, <1>3, <1>4 DEF IInv, TypeOK, NextSection
<1>6. Placed(c)'
  <2>1. Bracketed(todo[c])
    BY DEF IInv, Placed
  <2>2. \A i \in DOMAIN Tail(todo[c]) : i + 1 \in DOMAIN todo[c] /\ Tail(todo[c])[i] = todo[c][i + 1]
    BY <1>1
  <2>3. Tail(todo[c]) # << >> =>
          /\ Len(Tail(todo[c])) \in DOMAIN Tail(todo[c])
          /\ Len(Tail(todo[c])) + 1 = Len(todo[c])
    BY <1>1
  <2>4. Bracketed(Tail(todo[c]))
    BY <2>1, <2>2, <2>3, <1>1 DEF Bracketed
  <2>5. Tail(todo[c]) = << >> => s.bank = 0
    <3>1. Tail(todo[c]) = << >> => Len(todo[c]) = 1
      <4>1. PICK t \in Seq(Section) : t = Tail(todo[c])
        BY <1>1
      <4>2. Len(t) = Len(todo[c]) - 1 /\ Len(todo[c]) \in Nat /\ Len(t) \in Nat
        BY <4>1, <1>1
      <4>3. t = << >> => Len(t) = 0
        BY EmptySeq
      <4>4. QED
        BY <4>1, <4>2, <4>3
    <3>2. QED
      BY <3>1, <2>1, <1>1 DEF Bracketed
  <2>6. s.bank # 0 => \A i \in DOMAIN s.ops : ~Returning(s.ops[i])
    <3>1. 1 \in DOMAIN todo[c]
      BY <1>1
    <3>2. QED
      BY <3>1, <2>1, <1>1 DEF Bracketed, Safe
  <2>7. todo'[c] = Tail(todo[c]) /\ in'[c] = s.bank /\ ops'[c] = s.ops
    BY <1>3 DEF IInv, TypeOK
  <2> HIDE DEF s
  <2>8. QED
    BY <1>3, <2>4, <2>5, <2>6, <2>7 DEF Placed, Busy
<1>7. ASSUME NEW d \in Actors, d # c PROVE Placed(d)' /\ in'[d] = in[d]
  BY <1>3, <1>7 DEF IInv, TypeOK, Placed, Busy
<1>8. BankOwned'
  <2>1. CASE "select" \in dropped'
    BY <2>1 DEF BankOwned
  <2>2. CASE bank' = s.bank
    <3>1. in'[c] = s.bank
      BY <1>3 DEF IInv, TypeOK
    <3>2. QED
      BY <2>2, <3>1 DEF BankOwned
  <2>3. QED
    BY <2>1, <2>2, <1>4
<1>9. QED
  BY <1>5, <1>6, <1>7, <1>8 DEF IInv

\* BankOwned survives a step that keeps the bank, or selects 0, and in which
\* only a caller in bank 0 may change its place.
LEMMA OwnedKeeps ==
  ASSUME BankOwned, NEW c \in Actors,
         bank' = bank \/ bank' = 0, dropped \subseteq dropped',
         \A d \in Actors \ {c} : in'[d] = in[d], in[c] # 0 => in'[c] = in[c]
  PROVE  BankOwned'
<1> SUFFICES ASSUME bank' # 0, "select" \notin dropped' PROVE \E d \in Actors : in'[d] # 0
  BY DEF BankOwned
<1>1. PICK d \in Actors : in[d] # 0
  BY DEF BankOwned
<1>2. QED
  BY <1>1

LEMMA WriteKeeps ==
  ASSUME IInv, NEW c \in Actors, RegWrite(c)
  PROVE  IInv'
<1> DEFINE o == Head(ops[c])
<1>0. /\ ops[c] # << >> /\ ops[c] \in Seq(Operation) /\ o = ops[c][1]
      /\ 1 \in DOMAIN ops[c] /\ o \in Operation
  BY DEF RegWrite, IInv, TypeOK
<1>1. o.val \in FullScales
  BY <1>0 DEF Operation
<1> USE DEF IInv
<1>2. CASE Landed(o) /\ Advance(c) /\ UNCHANGED err
  <2>1. range' \in [Sensors -> FullScales] /\ bank' \in 0..3 /\ (bank' = bank \/ bank' = 0)
        /\ dropped' = dropped /\ faults' = faults
    <3>1. PowerOn \in [Sensors -> FullScales]
      BY DEF PowerOn, Sensors, FullScales
    <3>2. range' \in [Sensors -> FullScales]
      BY <1>1, <1>2, <3>1 DEF Landed, TypeOK
    <3>3. QED
      BY <1>2, <3>2 DEF Landed, TypeOK
  <2>2. TypeOK'
    BY <1>0, <1>2, <2>1, AdvanceTyped DEF RegWrite, TypeOK
  <2>3. (\A d \in Actors : Placed(d))' /\ in' = in
    BY <1>0, <1>2, AdvancePlaced
  <2>4. BankOwned'
    BY <2>1, <2>3, OwnedKeeps
  <2>5. QED
    BY <2>2, <2>3, <2>4
<1>3. CASE Fault("write", o.onError = "ignore") /\ o.onError = "return" /\ Leave(c)
  <2>1. /\ bank' = bank /\ range' = range /\ dropped' \subseteq {"select", "write"}
        /\ dropped \subseteq dropped' /\ faults' \in 0..MaxFaults
    BY <1>3, FaultTyped
  <2>2. TypeOK'
    BY <1>3, <2>1, LeaveTyped DEF RegWrite, TypeOK
  <2>3. (\A d \in Actors : Placed(d))' /\ (\A d \in Actors \ {c} : in'[d] = in[d])
    BY <1>3, LeavePlaced
  <2>4. in[c] = 0
    BY <1>0, <1>3 DEF Placed, Returning
  <2>5. BankOwned'
    BY <2>1, <2>3, <2>4, OwnedKeeps
  <2>6. QED
    BY <2>2, <2>3, <2>5
<1>4. CASE /\ Fault("write", o.onError = "ignore") /\ Advance(c)
           /\ err' = [err EXCEPT ![c] = TRUE] \/ err' = err
  <2>1. /\ bank' = bank /\ range' = range /\ dropped' \subseteq {"select", "write"}
        /\ dropped \subseteq dropped' /\ faults' \in 0..MaxFaults
    BY <1>4, FaultTyped
  <2>2. err' \in [Actors -> BOOLEAN]
    BY <1>4 DEF TypeOK
  <2>3. TypeOK'
    BY <1>0, <1>4, <2>1, <2>2, AdvanceTyped DEF RegWrite, TypeOK
  <2>4. (\A d \in Actors : Placed(d))' /\ in' = in
    BY <1>0, <1>4, AdvancePlaced
  <2>5. BankOwned'
    BY <2>1, <2>4, OwnedKeeps
  <2>6. QED
    BY <2>3, <2>4, <2>5
<1>5. QED
  BY <1>2, <1>3, <1>4 DEF RegWrite

LEMMA ReadKeeps ==
  ASSUME IInv, NEW c \in Actors, RegReadBlock(c)
  PROVE  IInv'
<1> USE DEF IInv
<1>0. ops[c] # << >> /\ 1 \in DOMAIN ops[c] /\ ops[c][1].kind = "read"
  BY DEF RegReadBlock, TypeOK
<1>1. CASE Advance(c) /\ UNCHANGED <<err, chip, dropped, faults>>
  <2>1. TypeOK'
    BY <1>0, <1>1, AdvanceTyped DEF RegReadBlock, TypeOK, chip
  <2>2. (\A d \in Actors : Placed(d))' /\ in' = in
    BY <1>0, <1>1, AdvancePlaced
  <2>3. BankOwned'
    BY <1>1, <2>2, OwnedKeeps DEF chip
  <2>4. QED
    BY <2>1, <2>2, <2>3
<1>2. CASE Fault("read", FALSE) /\ Leave(c)
  <2>1. /\ bank' = bank /\ range' = range /\ dropped' \subseteq {"select", "write"}
        /\ dropped \subseteq dropped' /\ faults' \in 0..MaxFaults
    BY <1>2, FaultTyped
  <2>2. TypeOK'
    BY <1>2, <2>1, LeaveTyped DEF RegReadBlock, TypeOK
  <2>3. (\A d \in Actors : Placed(d))' /\ (\A d \in Actors \ {c} : in'[d] = in[d])
    BY <1>2, LeavePlaced
  <2>4. in[c] = 0
    BY <1>0 DEF Placed, Returning
  <2>5. BankOwned'
    BY <2>1, <2>3, <2>4, OwnedKeeps
  <2>6. QED
    BY <2>2, <2>3, <2>5
<1>3. QED
  BY <1>1, <1>2 DEF RegReadBlock

LEMMA SetSensitivityKeeps ==
  ASSUME IInv, NEW c \in Actors, SetSensitivity(c)
  PROVE  IInv'
<1> USE DEF IInv
<1>1. ops[c] # << >> /\ Advance(c)
  BY DEF SetSensitivity
<1>2. scale' \in [Sensors -> FullScales]
  <2>1. Head(ops[c]) \in Operation
    BY <1>1, AdvanceTyped
  <2>2. Head(ops[c]).val \in FullScales
    BY <2>1 DEF Operation
  <2>3. QED
    BY <2>2 DEF SetSensitivity, TypeOK
<1>3. TypeOK'
  BY <1>1, <1>2, AdvanceTyped DEF SetSensitivity, TypeOK, chip
<1>4. (\A d \in Actors : Placed(d))' /\ in' = in
  BY <1>1, AdvancePlaced
<1>5. BankOwned'
  BY <1>4, OwnedKeeps DEF SetSensitivity, chip
<1>6. QED
  BY <1>3, <1>4, <1>5

LEMMA ReturnKeeps ==
  ASSUME IInv, NEW c \in Actors, Return(c)
  PROVE  IInv'
<1> USE DEF IInv
<1>1. TypeOK'
  BY LeaveTyped DEF Return, TypeOK, chip
<1>2. (\A d \in Actors : Placed(d))' /\ (\A d \in Actors \ {c} : in'[d] = in[d])
  BY LeavePlaced DEF Return
<1>3. in[c] = 0
  BY DEF Return, Placed
<1>4. BankOwned'
  BY <1>2, <1>3, OwnedKeeps DEF Return, chip
<1>5. QED
  BY <1>1, <1>2, <1>4

\* A step of the probe that only registers.
LEMMA RegistrationKeeps ==
  ASSUME IInv,
         driver' \in {"new", "configuring", "configured", "bound", "failed"},
         registered' \subseteq DOMAIN Needs,
         UNCHANGED <<chip, scale, position, dropped, overlapped, faults>>
  PROVE  IInv'
<1>1. TypeOK'
  BY DEF IInv, TypeOK, chip, position
<1>2. (\A c \in Actors : Placed(c))'
  BY DEF IInv, Placed, Busy, position
<1>3. BankOwned'
  BY DEF IInv, BankOwned, chip, position
<1>4. QED
  BY <1>1, <1>2, <1>3 DEF IInv

LEMMA NextKeeps == IInv /\ [Next]_vars => IInv'
<1> SUFFICES ASSUME IInv, [Next]_vars PROVE IInv'
  OBVIOUS
<1>1. CASE \E c \in Callers, k \in Calls, v \in Selectable : Begin(c, k, v)
  <2>1. PICK c \in Callers, k \in Calls, v \in Selectable : Begin(c, k, v)
    BY <1>1
  <2>2. c \in Actors /\ v \in FullScales
    BY ImuAssumption DEF Actors, FullScales
  <2>3. QED
    BY <2>1, <2>2, EnterKeeps DEF Begin, IInv, TypeOK
<1>2. CASE \E c \in Actors : \/ NextSection(c) \/ RegWrite(c) \/ RegReadBlock(c)
                            \/ SetSensitivity(c) \/ Return(c)
  BY <1>2, SelectKeeps, WriteKeeps, ReadKeeps, SetSensitivityKeeps, ReturnKeeps
<1>3. CASE Probe
  <2>1. Prober \in Actors /\ "init" \in Calls /\ 0 \in FullScales
    BY DEF Actors, Calls, FullScales
  <2>2. QED
    BY <1>3, <2>1, EnterKeeps DEF Probe
<1>4. CASE ProbeRefused
  BY <1>4, RegistrationKeeps DEF ProbeRefused, IInv, TypeOK
<1>5. CASE \E r \in DOMAIN Needs : Register(r) \/ RegisterFails(r)
  <2>1. PICK r \in DOMAIN Needs : Register(r) \/ RegisterFails(r)
    BY <1>5
  <2>2. registered' \subseteq DOMAIN Needs
    BY <2>1 DEF Register, RegisterFails, IInv, TypeOK
  <2>3. driver' \in {"new", "configuring", "configured", "bound", "failed"}
    BY <2>1 DEF Register, RegisterFails, IInv, TypeOK
  <2>4. QED
    BY <2>1, <2>2, <2>3, RegistrationKeeps DEF Register, RegisterFails
<1>6. CASE UNCHANGED vars
  <2>1. UNCHANGED <<chip, scale, position, dropped, overlapped, faults, driver, registered>>
    BY <1>6 DEF vars, chip, position
  <2>2. QED
    BY <2>1, RegistrationKeeps DEF IInv, TypeOK
<1>7. QED
  BY <1>1, <1>2, <1>3, <1>4, <1>5, <1>6 DEF Next

\* Every variable of the driver and the chip keeps its type.
THEOREM TypeCorrect == Spec => []TypeOK
  BY InitIInv, NextKeeps, PTL DEF Spec, IInv

(* However many callers interleave, and whatever transfers fail, the chip  *)
(* is out of bank 0 only inside a section of a running call, unless a      *)
(* bank_select failed unnoticed.                                           *)
THEOREM BankIsOwned == Spec => []BankOwned
  BY InitIInv, NextKeeps, PTL DEF Spec, IInv

----------------------------------------------------------------------------
(* The sensitivity fits the range.  A caller that writes the ranges is     *)
(* alone, so where it is in its program tells what it has written so far   *)
(* and what it still owes; the others leave range and sensitivity alone.   *)

Same == scale = range
Fits(s) == scale[s] = range[s]
At(c, t, os) == todo[c] = t /\ ops[c] \in os

\* What is left of the section of bank 2, and of the sections, of an init.
AccelPut == Put("accel_config", 0, "ignore")
GyroPut == Put("register_one", 3, "ignore")
Left1 == <<Scale("gyro", 3)>>
Left2 == <<GyroPut, Scale("gyro", 3)>>
Left3 == <<Others, GyroPut, Scale("gyro", 3)>>
Left4 == <<Scale("accel", 0), Others, GyroPut, Scale("gyro", 3)>>
Left5 == <<AccelPut, Scale("accel", 0), Others, GyroPut, Scale("gyro", 3)>>
Plain == <<Others>>
From5 == <<Inside(0, << >>)>>
From4 == <<Inside(3, Init3), Inside(0, << >>)>>
From3 == <<Inside(0, Plain), Inside(3, Init3), Inside(0, << >>)>>
From2 == <<Inside(2, Init2), Inside(0, Plain), Inside(3, Init3), Inside(0, << >>)>>

\* Within the section of bank 2, by what is left of it.
InitScale(o) ==
  \/ o \in {Init2, Left5}
  \/ o = Left4 /\ range["accel"] = 0
  \/ o \in {Left3, Left2} /\ Fits("accel")
  \/ o = Left1 /\ Fits("accel") /\ range["gyro"] = 3
  \/ o = << >> /\ Same

InitAt(c) ==
  /\ ~err[c]
  /\ \/ At(c, InitSensor, {<< >>})
     \/ At(c, From2, {Init0, Plain, << >>})
     \/ todo[c] = From3 /\ in[c] = 2 /\ bank = 2 /\ InitScale(ops[c])
     \/ Same /\ At(c, From4, {Plain, << >>})
     \/ Same /\ in[c] = 3 /\ bank = 3 /\ At(c, From5, {Init3, Plain, << >>})
     \/ Same /\ At(c, << >>, {<< >>})

ResetOp == <<Do("reset", "return")>>
ResetAt(c) ==
  \/ ~err[c] /\ Same /\ At(c, Reset, {<< >>})
  \/ ~err[c] /\ Same /\ At(c, InitSensor, {ResetOp})
  \/ InitAt(c)

ConfigKind(s) == IF s = "accel" THEN "accel_config" ELSE "register_one"
ConfigOp(s, v) == <<Put(ConfigKind(s), v, "keep")>>
ScaleOp(s, v) == <<Scale(s, v)>>
LastSection(s, v) == <<Inside(0, ScaleOp(s, v))>>
SetFsr(s, v) == <<Inside(2, ConfigOp(s, v)), Inside(0, ScaleOp(s, v))>>

Written(s, v) == range[s] = v /\ \A r \in Sensors \ {s} : Fits(r)
Owed(c, s, v) == IF err[c] THEN Same ELSE Written(s, v)

SetterPlace(c, s, v) ==
  \/ ~err[c] /\ Same /\ At(c, SetFsr(s, v), {<< >>})
  \/ ~err[c] /\ Same /\ bank = 2 /\ At(c, LastSection(s, v), {ConfigOp(s, v)})
  \/ Owed(c, s, v) /\ At(c, LastSection(s, v), {<< >>})
  \/ Owed(c, s, v) /\ At(c, << >>, {ScaleOp(s, v)})
  \/ Same /\ At(c, << >>, {<< >>})
SetterAt(c, s) == \E v \in FullScales : SetterPlace(c, s, v)

RangeWriters == {"init", "reset", "accel_fsr", "gyro_fsr"}
Harmless(q) == \A i \in DOMAIN q : q[i].kind \in {"write", "read"}
AllHarmless(p) == \A i \in DOMAIN p : Harmless(p[i].ops)

Stage(c) ==
  /\ call[c] \notin RangeWriters => Harmless(ops[c]) /\ AllHarmless(todo[c])
  /\ call[c] = "init" => InitAt(c)
  /\ call[c] = "reset" => ResetAt(c)
  /\ call[c] = "accel_fsr" => SetterAt(c, "accel")
  /\ call[c] = "gyro_fsr" => SetterAt(c, "gyro")

Alone ==
  \A c, d \in Actors : c # d /\ Busy(c) /\ Busy(d) => call[c] \in Readers /\ call[d] \in Readers

NoWriter == \A c \in Actors : call[c] \notin RangeWriters

ScaleCore ==
  /\ Alone
  /\ driver # "new" /\ NoWriter => Same
  /\ \A c \in Actors : Stage(c)

Clean == driver # "failed" /\ dropped = {} /\ ~overlapped
ScaleInv == Clean => ScaleCore

(* Only the probe configures an unregistered chip, and a call begins with  *)
(* nothing left of the one before.                                         *)
ProbeInv ==
  /\ driver \in {"new", "configuring", "failed"} => "cdev" \notin registered
  /\ driver # "configuring" => ~Busy(Prober)
  /\ driver \in {"new", "configuring"} => \A c \in Callers : ~Busy(c)
  /\ \A c \in Actors : ~Busy(c) => ~err[c] /\ ops[c] = << >>

LEMMA InitScaleInv == Init => ScaleInv /\ ProbeInv
<1> SUFFICES ASSUME Init PROVE ScaleInv /\ ProbeInv
  OBVIOUS
<1>1. \A c \in Actors : call[c] = "none" /\ todo[c] = << >> /\ ops[c] = << >> /\ ~err[c]
  BY DEF Init, Idle
<1>2. Prober \in Actors /\ Callers \subseteq Actors
  BY DEF Actors
<1>3. ScaleCore
  BY <1>1 DEF Init, ScaleCore, Alone, Busy, Stage, Harmless, AllHarmless, RangeWriters
<1>4. ProbeInv
  BY <1>1, <1>2 DEF Init, ProbeInv, Busy
<1>5. QED
  BY <1>3, <1>4 DEF ScaleInv

\* The operations of an init, one by one.
LEMMA InitOps ==
  /\ Init0 = <<Do("reset", "ignore"), Others>>
  /\ Init2 # << >> /\ Head(Init2) = Others /\ Tail(Init2) = Left5
  /\ Left5 # << >> /\ Head(Left5) = AccelPut /\ Tail(Left5) = Left4
  /\ Left4 # << >> /\ Head(Left4) = Scale("accel", 0) /\ Tail(Left4) = Left3
  /\ Left3 # << >> /\ Head(Left3) = Others /\ Tail(Left3) = Left2
  /\ Left2 # << >> /\ Head(Left2) = GyroPut /\ Tail(Left2) = Left1
  /\ Left1 # << >> /\ Head(Left1) = Scale("gyro", 3) /\ Tail(Left1) = << >>
  /\ Plain # << >> /\ Head(Plain) = Others /\ Tail(Plain) = << >>
  /\ Init0 # << >> /\ Head(Init0) = Do("reset", "ignore") /\ Tail(Init0) = Plain
  /\ Init3 # << >> /\ Head(Init3) = GyroPut /\ Tail(Init3) = Plain
  /\ ResetOp # << >> /\ Head(ResetOp) = Do("reset", "return") /\ Tail(ResetOp) = << >>
<1> DEFINE reset == Do("reset", "ignore")
           other == Others
           acc == AccelPut
           gyro == GyroPut
           sa == Scale("accel", 0)
           sg == Scale("gyro", 3)
           again == Do("reset", "return")
<1>1. /\ Init0 = <<reset, other>> /\ Init3 = <<gyro, other>> /\ Plain = <<other>>
      /\ Init2 = <<other, acc, sa, other, gyro, sg>>
      /\ Left5 = <<acc, sa, other, gyro, sg>> /\ Left4 = <<sa, other, gyro, sg>>
      /\ Left3 = <<other, gyro, sg>> /\ Left2 = <<gyro, sg>> /\ Left1 = <<sg>>
      /\ ResetOp = <<again>>
  BY DEF Init0, Init2, Init3, Plain, AccelPut, GyroPut, Left1, Left2, Left3, Left4, Left5, ResetOp
<1> HIDE DEF reset, other, acc, gyro, sa, sg, again
<1>2. /\ Init2 # << >> /\ Head(Init2) = other /\ Tail(Init2) = Left5
  BY <1>1
<1>3. /\ Left5 # << >> /\ Head(Left5) = acc /\ Tail(Left5) = Left4
  BY <1>1
<1>4. /\ Left4 # << >> /\ Head(Left4) = sa /\ Tail(Left4) = Left3
  BY <1>1
<1>5. /\ Left3 # << >> /\ Head(Left3) = other /\ Tail(Left3) = Left2
      /\ Left2 # << >> /\ Head(Left2) = gyro /\ Tail(Left2) = Left1
      /\ Left1 # << >> /\ Head(Left1) = sg /\ Tail(Left1) = << >>
  BY <1>1
<1>6. /\ Plain # << >> /\ Head(Plain) = other /\ Tail(Plain) = << >>
      /\ Init0 # << >> /\ Head(Init0) = reset /\ Tail(Init0) = Plain
      /\ Init3 # << >> /\ Head(Init3) = gyro /\ Tail(Init3) = Plain
      /\ ResetOp # << >> /\ Head(ResetOp) = again /\ Tail(ResetOp) = << >>
  BY <1>1
<1>7. QED
  BY <1>1, <1>2, <1>3, <1>4, <1>5, <1>6 DEF reset, other, acc, gyro, sa, sg, again

\* Putting an element in front of a sequence.
LEMMA FrontAdded ==
  ASSUME NEW S, NEW x \in S, NEW s \in Seq(S)
  PROVE  <<x>> \o s # << >> /\ Head(<<x>> \o s) = x /\ Tail(<<x>> \o s) = s
<1> DEFINE t == <<x>> \o s
<1>1. <<x>> \in Seq(S) /\ Len(<<x>>) = 1 /\ <<x>>[1] = x
  OBVIOUS
<1>2. /\ t \in Seq(S) /\ Len(t) = 1 + Len(s)
      /\ \A i \in 1 .. 1 + Len(s) : t[i] = IF i <= 1 THEN <<x>>[i] ELSE s[i - 1]
  BY <1>1, ConcatProperties
<1> HIDE DEF t
<1>3. Len(s) \in Nat
  BY LenProperties
<1>4. t # << >> /\ t[1] = x
  BY <1>1, <1>2, <1>3, EmptySeq
<1>5. /\ Tail(t) \in Seq(S) /\ Len(Tail(t)) = Len(s)
      /\ \A i \in 1 .. Len(Tail(t)) : Tail(t)[i] = t[i + 1]
  BY <1>2, <1>3, <1>4, HeadTailProperties
<1>6. \A i \in 1 .. Len(s) : t[i + 1] = s[i]
  BY <1>2, <1>3
<1>7. Tail(t) = s
  BY <1>5, <1>6, SeqEqual
<1>8. Head(t) = x
  BY <1>2, <1>4
<1>9. QED
  BY <1>4, <1>7, <1>8 DEF t

LEMMA InitTodo ==
  /\ InitSensor # << >> /\ Head(InitSensor).bank = 0 /\ Head(InitSensor).ops = Init0
  /\ Tail(InitSensor) = From2
  /\ From2 # << >> /\ Head(From2).bank = 2 /\ Head(From2).ops = Init2 /\ Tail(From2) = From3
  /\ From3 # << >> /\ Head(From3).bank = 0 /\ Head(From3).ops = Plain /\ Tail(From3) = From4
  /\ From4 # << >> /\ Head(From4).bank = 3 /\ Head(From4).ops = Init3 /\ Tail(From4) = From5
  /\ From5 # << >> /\ Head(From5).bank = 0 /\ Head(From5).ops = << >> /\ Tail(From5) = << >>
  /\ Reset # << >> /\ Head(Reset).bank = 0 /\ Head(Reset).ops = ResetOp
  /\ Tail(Reset) = InitSensor
<1> DEFINE a == Inside(0, Init0)
           b == Inside(2, Init2)
           c == Inside(0, Plain)
           d == Inside(3, Init3)
           e == Inside(0, << >>)
           r == Inside(0, ResetOp)
<1>1a. InitSensor = <<a, b, c, d, e>> /\ From2 = <<b, c, d, e>> /\ From3 = <<c, d, e>>
  BY DEF InitSensor, From2, From3, Plain
<1>1b. From4 = <<d, e>> /\ From5 = <<e>> /\ From3 = <<c, d, e>>
  BY DEF From3, From4, From5, Plain
<1>1c. Reset = <<r>> \o InitSensor
  BY DEF Reset, ResetOp
<1>2. /\ a.bank = 0 /\ a.ops = Init0 /\ b.bank = 2 /\ b.ops = Init2 /\ c.bank = 0 /\ c.ops = Plain
      /\ d.bank = 3 /\ d.ops = Init3 /\ e.bank = 0 /\ e.ops = << >>
      /\ r.bank = 0 /\ r.ops = ResetOp
  BY DEF Inside
<1> HIDE DEF a, b, c, d, e, r
<1>3. InitSensor # << >> /\ Head(InitSensor) = a /\ Tail(InitSensor) = From2
  BY <1>1a
<1>4. From2 # << >> /\ Head(From2) = b /\ Tail(From2) = From3
  BY <1>1a
<1>5. /\ From3 # << >> /\ Head(From3) = c /\ Tail(From3) = From4
      /\ From4 # << >> /\ Head(From4) = d /\ Tail(From4) = From5
      /\ From5 # << >> /\ Head(From5) = e /\ Tail(From5) = << >>
  BY <1>1b
<1>6. Reset = <<r>> \o InitSensor
  BY <1>1c
<1>7. Reset # << >> /\ Head(Reset) = r /\ Tail(Reset) = InitSensor
  <2> DEFINE S == {a, b, c, d, e, r}
  <2>1. r \in S /\ InitSensor \in Seq(S)
    BY <1>1a
  <2> HIDE DEF S
  <2>2. QED
    BY <1>6, <2>1, FrontAdded
<1>8. QED
  BY <1>2, <1>3, <1>4, <1>5, <1>7

LEMMA SetterParts ==
  ASSUME NEW s \in Sensors, NEW v \in FullScales
  PROVE  /\ SetFsr(s, v) # << >> /\ Head(SetFsr(s, v)).bank = 2
         /\ Head(SetFsr(s, v)).ops = ConfigOp(s, v) /\ Tail(SetFsr(s, v)) = LastSection(s, v)
         /\ LastSection(s, v) # << >> /\ Head(LastSection(s, v)).ops = ScaleOp(s, v)
         /\ Tail(LastSection(s, v)) = << >>
         /\ ConfigOp(s, v) # << >> /\ Head(ConfigOp(s, v)) = Put(ConfigKind(s), v, "keep")
         /\ Tail(ConfigOp(s, v)) = << >>
         /\ ScaleOp(s, v) # << >> /\ Head(ScaleOp(s, v)) = Scale(s, v)
         /\ Tail(ScaleOp(s, v)) = << >>
<1> DEFINE x == Put(ConfigKind(s), v, "keep")
           y == Scale(s, v)
           a == Inside(2, <<x>>)
           b == Inside(0, <<y>>)
<1>1. /\ ConfigOp(s, v) = <<x>> /\ ScaleOp(s, v) = <<y>>
      /\ SetFsr(s, v) = <<a, b>> /\ LastSection(s, v) = <<b>>
  BY DEF ConfigOp, ScaleOp, SetFsr, LastSection
<1>2. a.bank = 2 /\ a.ops = <<x>> /\ b.ops = <<y>>
  BY DEF Inside
<1> HIDE DEF x, y, a, b
<1>3. SetFsr(s, v) # << >> /\ Head(SetFsr(s, v)) = a /\ Tail(SetFsr(s, v)) = LastSection(s, v)
  BY <1>1
<1>4. LastSection(s, v) # << >> /\ Head(LastSection(s, v)) = b /\ Tail(LastSection(s, v)) = << >>
  BY <1>1
<1>5. /\ ConfigOp(s, v) # << >> /\ Head(ConfigOp(s, v)) = x /\ Tail(ConfigOp(s, v)) = << >>
      /\ ScaleOp(s, v) # << >> /\ Head(ScaleOp(s, v)) = y /\ Tail(ScaleOp(s, v)) = << >>
  BY <1>1
<1>6. QED
  BY <1>1, <1>2, <1>3, <1>4, <1>5 DEF x, y

\* The fields of the operations a program is made of.
LEMMA OpFields ==
  /\ Others.kind = "write" /\ Others.onError = "ignore"
  /\ AccelPut.kind = "accel_config" /\ AccelPut.val = 0 /\ AccelPut.onError = "ignore"
  /\ GyroPut.kind = "register_one" /\ GyroPut.val = 3 /\ GyroPut.onError = "ignore"
  /\ \A e \in OnError : Do("reset", e).kind = "reset" /\ Do("reset", e).onError = e
  /\ \A s \in Sensors, v \in FullScales :
       /\ Scale(s, v).kind = "scale" /\ Scale(s, v).of = s /\ Scale(s, v).val = v
       /\ Put(ConfigKind(s), v, "keep").kind = ConfigKind(s)
       /\ Put(ConfigKind(s), v, "keep").val = v
       /\ Put(ConfigKind(s), v, "keep").onError = "keep"
  BY DEF Others, AccelPut, GyroPut, Do, Put, Scale, OnError, Sensors, FullScales

----------------------------------------------------------------------------
\* What each step does of interest, when no failure goes unnoticed.
LEMMA SelectStep ==
  ASSUME TypeOK, NEW c \in Actors, NextSection(c), dropped' = {}
  PROVE  /\ Busy(c) /\ ops[c] = << >> /\ todo[c] # << >>
         /\ todo'[c] = Tail(todo[c]) /\ ops'[c] = Head(todo[c]).ops
         /\ in'[c] = Head(todo[c]).bank /\ bank' = Head(todo[c]).bank
         /\ range' = range /\ scale' = scale /\ err' = err /\ call' = call
         /\ \A d \in Actors \ {c} : todo'[d] = todo[d] /\ ops'[d] = ops[d]
  BY DEF NextSection, BankSelect, Fault, TypeOK

Lands(c, o) ==
  /\ todo'[c] = todo[c] /\ ops'[c] = Tail(ops[c]) /\ in'[c] = in[c]
  /\ call'[c] = call[c] /\ err'[c] = err[c]
  /\ range' = IF o.kind = "reset" /\ bank = 0 THEN PowerOn
              ELSE IF o.kind = "accel_config" /\ bank = 2
                   THEN [range EXCEPT !["accel"] = o.val]
              ELSE IF o.kind = "register_one" /\ bank = 2
                   THEN [range EXCEPT !["gyro"] = o.val]
              ELSE range

LEMMA WriteStep ==
  ASSUME TypeOK, NEW c \in Actors, RegWrite(c), dropped' = {}, NEW o, o = Head(ops[c])
  PROVE  /\ ops[c] # << >> /\ o.kind \notin {"read", "scale"}
         /\ scale' = scale /\ bank' = bank
         /\ \A d \in Actors \ {c} :
              todo'[d] = todo[d] /\ ops'[d] = ops[d] /\ call'[d] = call[d] /\ err'[d] = err[d]
         /\ \/ Lands(c, o)
            \/ /\ o.onError = "keep" /\ range' = range
               /\ todo'[c] = todo[c] /\ ops'[c] = Tail(ops[c]) /\ in'[c] = in[c]
               /\ call'[c] = call[c] /\ err'[c] = TRUE
            \/ /\ o.onError = "return" /\ range' = range
               /\ call'[c] = "none" /\ ops'[c] = << >> /\ todo'[c] = << >>
               /\ err'[c] = FALSE
<1>1. /\ ops[c] # << >> /\ o.kind \notin {"read", "scale"} /\ scale' = scale
  BY DEF RegWrite
<1>2. CASE Landed(o) /\ Advance(c) /\ UNCHANGED err
  BY <1>1, <1>2 DEF Landed, Lands, Advance, TypeOK
<1>3. CASE Fault("write", o.onError = "ignore") /\ o.onError = "return" /\ Leave(c)
  BY <1>1, <1>3 DEF Fault, Leave, chip, TypeOK
<1>4. CASE /\ Fault("write", o.onError = "ignore") /\ Advance(c) /\ o.onError = "keep"
           /\ err' = [err EXCEPT ![c] = TRUE]
  BY <1>1, <1>4 DEF Fault, Advance, chip, TypeOK
<1>5. CASE Fault("write", o.onError = "ignore") /\ o.onError \notin {"return", "keep"}
  <2>1. o.onError = "ignore"
    <3>1. o \in Operation
      <4>1. ops[c] \in Seq(Operation)
        BY DEF TypeOK
      <4>2. QED
        BY <1>1, <4>1
    <3>2. QED
      BY <1>5, <3>1 DEF Operation, OnError
  <2>2. QED
    BY <1>5, <2>1 DEF Fault
<1>6. QED
  BY <1>2, <1>3, <1>4, <1>5 DEF RegWrite

LEMMA ScaleStep ==
  ASSUME TypeOK, NEW c \in Actors, SetSensitivity(c), NEW o, o = Head(ops[c])
  PROVE  /\ ops[c] # << >> /\ o.kind = "scale"
         /\ scale' = IF err[c] THEN scale ELSE [scale EXCEPT ![o.of] = o.val]
         /\ todo'[c] = todo[c] /\ ops'[c] = Tail(ops[c])
         /\ \A d \in Actors \ {c} : todo'[d] = todo[d] /\ ops'[d] = ops[d]
         /\ range' = range /\ bank' = bank /\ in' = in /\ err' = err /\ call' = call
  BY DEF SetSensitivity, Advance, chip, TypeOK

LEMMA ReadStep ==
  ASSUME TypeOK, NEW c \in Actors, RegReadBlock(c)
  PROVE  /\ ops[c] # << >> /\ Head(ops[c]).kind = "read"
         /\ scale' = scale /\ range' = range /\ bank' = bank
         /\ \A d \in Actors \ {c} :
              todo'[d] = todo[d] /\ ops'[d] = ops[d] /\ call'[d] = call[d] /\ err'[d] = err[d]
         /\ \/ /\ todo'[c] = todo[c] /\ ops'[c] = Tail(ops[c])
               /\ call'[c] = call[c] /\ err'[c] = err[c]
            \/ /\ call'[c] = "none" /\ ops'[c] = << >> /\ todo'[c] = << >>
               /\ err'[c] = FALSE
  BY DEF RegReadBlock, Fault, Advance, Leave, chip, TypeOK

----------------------------------------------------------------------------
\* The writers of the ranges, step by step.
LEMMA RangeFacts ==
  ASSUME TypeOK
  PROVE  /\ range = [s \in Sensors |-> range[s]] /\ scale = [s \in Sensors |-> scale[s]]
         /\ Fits("accel") /\ Fits("gyro") <=> Same
<1>1. /\ range = [s \in Sensors |-> range[s]] /\ scale = [s \in Sensors |-> scale[s]]
  BY DEF TypeOK
<1>2. ASSUME Fits("accel"), Fits("gyro") PROVE Same
  <2>1. \A s \in Sensors : scale[s] = range[s]
    BY <1>2 DEF Fits, Sensors
  <2>2. QED
    BY <2>1 DEF Same, TypeOK
<1>3. QED
  BY <1>1, <1>2 DEF Same, Fits

LEMMA SelectInit ==
  ASSUME TypeOK, NEW c \in Actors, NextSection(c), dropped' = {}, InitAt(c)
  PROVE  InitAt(c)'
<1>1. /\ ops[c] = << >> /\ todo[c] # << >> /\ ~err[c]
      /\ todo'[c] = Tail(todo[c]) /\ ops'[c] = Head(todo[c]).ops
      /\ in'[c] = Head(todo[c]).bank /\ bank' = Head(todo[c]).bank
      /\ range' = range /\ scale' = scale /\ err' = err
  BY SelectStep DEF InitAt
<1>2. CASE todo[c] = InitSensor
  <2>1. todo'[c] = From2 /\ ops'[c] = Init0
    BY <1>1, <1>2, InitTodo
  <2>2. QED
    BY <1>1, <2>1 DEF InitAt, At
<1>3. CASE todo[c] = From2
  <2>1. todo'[c] = From3 /\ ops'[c] = Init2 /\ in'[c] = 2 /\ bank' = 2
    BY <1>1, <1>3, InitTodo
  <2>2. QED
    BY <1>1, <2>1 DEF InitAt, InitScale
<1>4. CASE todo[c] = From3 /\ InitScale(ops[c])
  <2>1. todo'[c] = From4 /\ ops'[c] = Plain
    BY <1>1, <1>4, InitTodo
  <2>2. Same
    BY <1>1, <1>4, InitOps DEF InitScale
  <2>3. QED
    BY <1>1, <2>1, <2>2 DEF InitAt, At, Same
<1>5. CASE Same /\ todo[c] = From4
  <2>1. todo'[c] = From5 /\ ops'[c] = Init3 /\ in'[c] = 3 /\ bank' = 3
    BY <1>1, <1>5, InitTodo
  <2>2. QED
    BY <1>1, <1>5, <2>1 DEF InitAt, At, Same
<1>6. CASE Same /\ todo[c] = From5
  <2>1. todo'[c] = << >> /\ ops'[c] = << >>
    BY <1>1, <1>6, InitTodo
  <2>2. QED
    BY <1>1, <1>6, <2>1 DEF InitAt, At, Same
<1>7. QED
  BY <1>1, <1>2, <1>3, <1>4, <1>5, <1>6 DEF InitAt, At

LEMMA WriteInit ==
  ASSUME TypeOK, NEW c \in Actors, RegWrite(c), dropped' = {}, InitAt(c)
  PROVE  InitAt(c)' /\ call'[c] = call[c]
<1>0. PICK o : o = Head(ops[c])
  OBVIOUS
<1>1. /\ ops[c] # << >> /\ o.kind \notin {"read", "scale"} /\ ~err[c]
      /\ scale' = scale /\ bank' = bank
  BY <1>0, WriteStep DEF InitAt
<1>2. \/ o = Others \/ o = AccelPut \/ o = GyroPut \/ o = Do("reset", "ignore")
  <2>1. ops[c] \in {Init0, Plain, Init2, Left5, Left4, Left3, Left2, Left1, Init3}
    BY <1>1 DEF InitAt, At, InitScale
  <2>2. o # Scale("accel", 0) /\ o # Scale("gyro", 3)
    BY <1>1, OpFields DEF Sensors, FullScales
  <2>3. QED
    BY <1>0, <2>1, <2>2, InitOps
<1>3. o.onError = "ignore"
  BY <1>2, OpFields DEF OnError
<1>4. /\ todo'[c] = todo[c] /\ ops'[c] = Tail(ops[c]) /\ in'[c] = in[c]
      /\ call'[c] = call[c] /\ err'[c] = err[c]
      /\ range' = IF o.kind = "reset" /\ bank = 0 THEN PowerOn
                  ELSE IF o.kind = "accel_config" /\ bank = 2
                       THEN [range EXCEPT !["accel"] = o.val]
                  ELSE IF o.kind = "register_one" /\ bank = 2
                       THEN [range EXCEPT !["gyro"] = o.val]
                  ELSE range
  <2>1. Lands(c, o)
    BY <1>0, <1>3, WriteStep
  <2>2. QED
    BY <2>1 DEF Lands
<1>5. CASE At(c, From2, {Init0, Plain})
  <2>1. ops'[c] \in {Plain, << >>}
    BY <1>4, <1>5, InitOps DEF At
  <2>2. QED
    BY <1>1, <1>4, <1>5, <2>1 DEF InitAt, At
<1>6. CASE todo[c] = From3 /\ in[c] = 2 /\ bank = 2 /\ InitScale(ops[c])
  <2>1. InitScale(ops[c])'
    <3>1. CASE ops[c] = Init2
      <4>1. ops'[c] = Left5
        BY <1>4, <3>1, InitOps
      <4>2. QED
        BY <4>1 DEF InitScale
    <3>2. CASE ops[c] = Left5
      <4>1. ops'[c] = Left4 /\ o = AccelPut
        BY <1>0, <1>4, <3>2, InitOps
      <4>2. range' = [range EXCEPT !["accel"] = 0]
        BY <1>4, <1>6, <4>1, OpFields
      <4>3. range'["accel"] = 0
        BY <4>2 DEF TypeOK, Sensors
      <4>4. QED
        BY <4>1, <4>3 DEF InitScale
    <3>3. CASE ops[c] = Left4
      <4>1. o = Scale("accel", 0)
        BY <1>0, <3>3, InitOps
      <4>2. QED
        BY <1>1, <4>1, OpFields DEF Sensors, FullScales
    <3>4. CASE ops[c] = Left3 /\ Fits("accel")
      <4>1. ops'[c] = Left2 /\ o = Others
        BY <1>0, <1>4, <3>4, InitOps
      <4>2. range' = range
        BY <1>4, <4>1, OpFields
      <4>3. QED
        BY <1>1, <3>4, <4>1, <4>2 DEF InitScale, Fits
    <3>5. CASE ops[c] = Left2 /\ Fits("accel")
      <4>1. ops'[c] = Left1 /\ o = GyroPut
        BY <1>0, <1>4, <3>5, InitOps
      <4>2. range' = [range EXCEPT !["gyro"] = 3]
        BY <1>4, <1>6, <4>1, OpFields
      <4>3. range'["gyro"] = 3 /\ range'["accel"] = range["accel"]
        BY <4>2 DEF TypeOK, Sensors
      <4>4. QED
        BY <1>1, <3>5, <4>1, <4>3 DEF InitScale, Fits
    <3>6. CASE ops[c] = Left1
      <4>1. o = Scale("gyro", 3)
        BY <1>0, <3>6, InitOps
      <4>2. QED
        BY <1>1, <4>1, OpFields DEF Sensors, FullScales
    <3>7. QED
      BY <1>1, <1>6, <3>1, <3>2, <3>3, <3>4, <3>5, <3>6 DEF InitScale
  <2>2. QED
    BY <1>1, <1>4, <1>6, <2>1 DEF InitAt
<1>7. CASE Same /\ At(c, From4, {Plain})
  <2>1. ops'[c] = << >> /\ o = Others
    BY <1>0, <1>4, <1>7, InitOps DEF At
  <2>2. range' = range
    BY <1>4, <2>1, OpFields
  <2>3. QED
    BY <1>1, <1>4, <1>7, <2>1, <2>2 DEF InitAt, At, Same
<1>8. CASE Same /\ in[c] = 3 /\ bank = 3 /\ At(c, From5, {Init3, Plain})
  <2>1. ops'[c] \in {Plain, << >>} /\ (o = Others \/ o = GyroPut)
    BY <1>0, <1>4, <1>8, InitOps DEF At
  <2>2. range' = range
    BY <1>4, <1>8, <2>1, OpFields
  <2>3. QED
    BY <1>1, <1>4, <1>8, <2>1, <2>2 DEF InitAt, At, Same
<1>9. QED
  <2>1. InitAt(c)'
    BY <1>1, <1>5, <1>6, <1>7, <1>8 DEF InitAt, At
  <2>2. QED
    BY <1>4, <2>1

LEMMA ScaleInit ==
  ASSUME TypeOK, NEW c \in Actors, SetSensitivity(c), InitAt(c)
  PROVE  InitAt(c)'
<1>0. PICK o : o = Head(ops[c])
  OBVIOUS
<1>1. /\ ops[c] # << >> /\ o.kind = "scale" /\ ~err[c]
      /\ scale' = [scale EXCEPT ![o.of] = o.val]
      /\ todo'[c] = todo[c] /\ ops'[c] = Tail(ops[c])
      /\ range' = range /\ bank' = bank /\ in' = in /\ err' = err
  BY <1>0, ScaleStep DEF InitAt
<1>2. \/ todo[c] = From3 /\ in[c] = 2 /\ bank = 2 /\ ops[c] = Left4 /\ range["accel"] = 0
      \/ /\ todo[c] = From3 /\ in[c] = 2 /\ bank = 2 /\ ops[c] = Left1
         /\ Fits("accel") /\ range["gyro"] = 3
  <2>1. \A q \in {Init0, Plain, Init2, Left5, Left3, Left2, Init3} : Head(q).kind # "scale"
    BY InitOps, OpFields DEF OnError
  <2>2. ops[c] \notin {Init0, Plain, Init2, Left5, Left3, Left2, Init3}
    BY <1>0, <1>1, <2>1
  <2>3. QED
    BY <1>1, <2>2 DEF InitAt, At, InitScale
<1>3. CASE ops[c] = Left4
  <2>1. ops'[c] = Left3 /\ o = Scale("accel", 0) /\ o.of = "accel" /\ o.val = 0
    BY <1>0, <1>1, <1>3, InitOps, OpFields DEF Sensors, FullScales
  <2>2. scale'["accel"] = 0
    BY <1>1, <2>1 DEF TypeOK, Sensors
  <2>3. range["accel"] = 0
    BY <1>2, <1>3, InitOps
  <2>4. QED
    BY <1>1, <1>2, <2>1, <2>2, <2>3 DEF InitAt, InitScale, Fits
<1>4. CASE ops[c] = Left1 /\ Fits("accel") /\ range["gyro"] = 3
  <2>1. ops'[c] = << >> /\ o = Scale("gyro", 3) /\ o.of = "gyro" /\ o.val = 3
    BY <1>0, <1>1, <1>4, InitOps, OpFields DEF Sensors, FullScales
  <2>2. scale'["gyro"] = 3 /\ scale'["accel"] = scale["accel"] /\ scale' \in [Sensors -> FullScales]
    BY <1>1, <2>1 DEF TypeOK, Sensors, FullScales
  <2>3. \A s \in Sensors : scale'[s] = range[s]
    BY <1>4, <2>2 DEF Fits, Sensors
  <2>4. scale' = range
    BY <2>2, <2>3 DEF TypeOK
  <2>5. QED
    BY <1>1, <1>2, <2>1, <2>4 DEF InitAt, InitScale, Same
<1>5. QED
  BY <1>2, <1>3, <1>4

LEMMA SelectReset ==
  ASSUME TypeOK, NEW c \in Actors, NextSection(c), dropped' = {}, ResetAt(c)
  PROVE  ResetAt(c)'
<1>1. CASE ~err[c] /\ Same /\ At(c, Reset, {<< >>})
  <2>1. /\ todo'[c] = InitSensor /\ ops'[c] = ResetOp /\ ~err'[c]
        /\ range' = range /\ scale' = scale
    BY <1>1, SelectStep, InitTodo DEF At
  <2>2. QED
    BY <1>1, <2>1 DEF ResetAt, At, Same
<1>2. CASE At(c, InitSensor, {ResetOp})
  BY <1>2, SelectStep, InitOps DEF At
<1>3. CASE InitAt(c)
  BY <1>3, SelectInit DEF ResetAt
<1>4. QED
  BY <1>1, <1>2, <1>3 DEF ResetAt

\* A reset whose write fails returns at once, and has written nothing.
LEMMA WriteReset ==
  ASSUME TypeOK, NEW c \in Actors, RegWrite(c), dropped' = {}, ResetAt(c)
  PROVE  \/ ResetAt(c)' /\ call'[c] = call[c]
         \/ /\ call'[c] = "none" /\ ops'[c] = << >> /\ todo'[c] = << >> /\ Same'
<1>1. CASE At(c, Reset, {<< >>})
  BY <1>1, WriteStep DEF At
<1>2. CASE ~err[c] /\ Same /\ At(c, InitSensor, {ResetOp})
  <2>1. PICK o : o = Head(ops[c]) /\ o.onError = "return"
    BY <1>2, InitOps, OpFields DEF At, OnError
  <2>2. CASE Lands(c, o)
    <3>1. todo'[c] = InitSensor /\ ops'[c] = << >> /\ ~err'[c] /\ call'[c] = call[c]
      BY <1>2, <2>1, <2>2, InitOps DEF Lands, At
    <3>2. QED
      BY <3>1 DEF ResetAt, InitAt, At
  <2>3. CASE /\ call'[c] = "none" /\ ops'[c] = << >> /\ todo'[c] = << >>
             /\ range' = range /\ scale' = scale
    BY <1>2, <2>3 DEF Same
  <2>4. QED
    BY <2>1, <2>2, <2>3, WriteStep
<1>3. CASE InitAt(c)
  BY <1>3, WriteInit DEF ResetAt
<1>4. QED
  BY <1>1, <1>2, <1>3 DEF ResetAt

LEMMA ScaleReset ==
  ASSUME TypeOK, NEW c \in Actors, SetSensitivity(c), ResetAt(c)
  PROVE  ResetAt(c)'
<1>1. CASE At(c, Reset, {<< >>})
  BY <1>1, ScaleStep DEF At
<1>2. CASE At(c, InitSensor, {ResetOp})
  <2>1. Head(ops[c]).kind = "reset"
    BY <1>2, InitOps, OpFields DEF At, OnError
  <2>2. QED
    BY <2>1, ScaleStep
<1>3. CASE InitAt(c)
  BY <1>3, ScaleInit DEF ResetAt
<1>4. QED
  BY <1>1, <1>2, <1>3 DEF ResetAt

LEMMA SelectSetter ==
  ASSUME TypeOK, NEW c \in Actors, NextSection(c), dropped' = {},
         NEW s \in Sensors, NEW v \in FullScales, SetterPlace(c, s, v)
  PROVE  SetterPlace(c, s, v)'
<1>1. /\ ops[c] = << >> /\ todo[c] # << >>
      /\ todo'[c] = Tail(todo[c]) /\ ops'[c] = Head(todo[c]).ops
      /\ bank' = Head(todo[c]).bank
      /\ range' = range /\ scale' = scale /\ err' = err
  BY SelectStep
<1>2. CASE ~err[c] /\ Same /\ todo[c] = SetFsr(s, v)
  <2>1. todo'[c] = LastSection(s, v) /\ ops'[c] = ConfigOp(s, v) /\ bank' = 2
    BY <1>1, <1>2, SetterParts
  <2>2. QED
    BY <1>1, <1>2, <2>1 DEF SetterPlace, At, Same
<1>3. CASE Owed(c, s, v) /\ todo[c] = LastSection(s, v)
  <2>1. todo'[c] = << >> /\ ops'[c] = ScaleOp(s, v)
    BY <1>1, <1>3, SetterParts
  <2>2. Owed(c, s, v)'
    BY <1>1, <1>3 DEF Owed, Same, Written, Fits
  <2>3. QED
    BY <2>1, <2>2 DEF SetterPlace, At
<1>4. QED
  BY <1>1, <1>2, <1>3, SetterParts DEF SetterPlace, At

LEMMA WriteSetter ==
  ASSUME TypeOK, NEW c \in Actors, RegWrite(c), dropped' = {},
         NEW s \in Sensors, NEW v \in FullScales, SetterPlace(c, s, v)
  PROVE  SetterPlace(c, s, v)' /\ call'[c] = call[c]
<1>0. PICK o : o = Head(ops[c])
  OBVIOUS
<1>1. /\ ops[c] # << >> /\ o.kind \notin {"read", "scale"}
      /\ scale' = scale /\ bank' = bank
  BY <1>0, WriteStep
<1>2. /\ ~err[c] /\ Same /\ bank = 2
      /\ todo[c] = LastSection(s, v) /\ ops[c] = ConfigOp(s, v)
  <2>1. ops[c] # ScaleOp(s, v)
    BY <1>0, <1>1, SetterParts, OpFields
  <2>2. QED
    BY <1>1, <2>1 DEF SetterPlace, At
<1>3. /\ o = Put(ConfigKind(s), v, "keep") /\ o.kind = ConfigKind(s) /\ o.val = v
      /\ o.onError = "keep" /\ Tail(ops[c]) = << >>
  BY <1>0, <1>2, SetterParts, OpFields
<1>4. CASE Lands(c, o)
  <2>1. todo'[c] = LastSection(s, v) /\ ops'[c] = << >> /\ ~err'[c] /\ call'[c] = call[c]
    BY <1>2, <1>3, <1>4 DEF Lands
  <2>2. range' = [range EXCEPT ![s] = v]
    BY <1>2, <1>3, <1>4 DEF Lands, ConfigKind, Sensors
  <2>3. Written(s, v)'
    BY <1>1, <1>2, <2>2 DEF Written, Fits, Same, TypeOK
  <2>4. QED
    BY <2>1, <2>3 DEF SetterPlace, At, Owed
<1>5. CASE /\ range' = range /\ todo'[c] = todo[c] /\ ops'[c] = Tail(ops[c])
           /\ call'[c] = call[c] /\ err'[c] = TRUE
  BY <1>1, <1>2, <1>3, <1>5 DEF SetterPlace, At, Owed, Same
<1>6. QED
  BY <1>0, <1>3, <1>4, <1>5, WriteStep

LEMMA ScaleSetter ==
  ASSUME TypeOK, NEW c \in Actors, SetSensitivity(c),
         NEW s \in Sensors, NEW v \in FullScales, SetterPlace(c, s, v)
  PROVE  SetterPlace(c, s, v)'
<1>0. PICK o : o = Head(ops[c])
  OBVIOUS
<1>1. /\ ops[c] # << >> /\ o.kind = "scale"
      /\ scale' = IF err[c] THEN scale ELSE [scale EXCEPT ![o.of] = o.val]
      /\ todo'[c] = todo[c] /\ ops'[c] = Tail(ops[c]) /\ range' = range
  BY <1>0, ScaleStep
<1>2. Owed(c, s, v) /\ todo[c] = << >> /\ ops[c] = ScaleOp(s, v)
  <2>1. ConfigKind(s) # "scale"
    BY DEF ConfigKind
  <2>2. ops[c] # ConfigOp(s, v)
    BY <1>0, <1>1, <2>1, SetterParts, OpFields
  <2>3. QED
    BY <1>1, <2>2 DEF SetterPlace, At
<1>3. o = Scale(s, v) /\ o.of = s /\ o.val = v /\ Tail(ops[c]) = << >>
  BY <1>0, <1>2, SetterParts, OpFields
<1>4. Same'
  <2>1. CASE err[c]
    BY <1>1, <1>2, <2>1 DEF Owed, Same
  <2>2. CASE ~err[c]
    <3>1. Written(s, v) /\ scale' = [scale EXCEPT ![s] = v]
      BY <1>1, <1>2, <1>3, <2>2 DEF Owed
    <3>2. \A r \in Sensors : scale'[r] = range[r]
      BY <3>1 DEF Written, Fits, TypeOK
    <3>3. scale' \in [Sensors -> FullScales]
      BY <3>1 DEF TypeOK
    <3>4. QED
      BY <1>1, <3>2, <3>3 DEF Same, TypeOK
  <2>3. QED
    BY <2>1, <2>2
<1>5. QED
  BY <1>1, <1>2, <1>3, <1>4 DEF SetterPlace, At

----------------------------------------------------------------------------
\* One step of a call.
CallStep(c) ==
  NextSection(c) \/ RegWrite(c) \/ RegReadBlock(c) \/ SetSensitivity(c) \/ Return(c)

(* After it the caller is at a stage of its program, and if it then writes *)
(* no range it has left the sensitivity fitting, or untouched.             *)
StepResult(c) ==
  /\ call'[c] = call[c] \/ call'[c] = "none"
  /\ Stage(c)'
  /\ call'[c] \notin RangeWriters =>
       \/ Same'
       \/ call[c] \notin RangeWriters /\ range' = range /\ scale' = scale

LEMMA DoneStage ==
  ASSUME NEW c \in Actors, call'[c] = "none", ops'[c] = << >>, todo'[c] = << >>
  PROVE  Stage(c)'
  BY DEF Stage, RangeWriters, Harmless, AllHarmless

LEMMA WriterStep ==
  ASSUME TypeOK, NEW c \in Actors, Stage(c), call[c] \in RangeWriters, dropped' = {},
         NextSection(c) \/ RegWrite(c) \/ SetSensitivity(c)
  PROVE  StepResult(c)
<1> DEFINE Over == call'[c] = "none" /\ ops'[c] = << >> /\ todo'[c] = << >> /\ Same'
<1>1. CASE call[c] = "init"
  <2>1. InitAt(c)' /\ call'[c] = call[c]
    BY <1>1, SelectInit, WriteInit, ScaleInit, SelectStep, ScaleStep DEF Stage
  <2>2. QED
    BY <1>1, <2>1 DEF StepResult, Stage, RangeWriters
<1>2. CASE call[c] = "reset"
  <2>1. (ResetAt(c)' /\ call'[c] = call[c]) \/ Over
    BY <1>2, SelectReset, WriteReset, ScaleReset, SelectStep, ScaleStep DEF Stage
  <2>2. QED
    BY <1>2, <2>1, DoneStage DEF StepResult, Stage, RangeWriters
<1>3. ASSUME NEW s \in Sensors, SetterAt(c, s)
      PROVE  SetterAt(c, s)' /\ call'[c] = call[c]
  <2>1. PICK v \in FullScales : SetterPlace(c, s, v)
    BY <1>3 DEF SetterAt
  <2>2. SetterPlace(c, s, v)' /\ call'[c] = call[c]
    BY <2>1, SelectSetter, WriteSetter, ScaleSetter, SelectStep, ScaleStep
  <2>3. QED
    BY <2>2 DEF SetterAt
<1>4. CASE call[c] = "accel_fsr"
  <2>1. SetterAt(c, "accel")' /\ call'[c] = call[c]
    BY <1>3, <1>4 DEF Stage, Sensors
  <2>2. QED
    BY <1>4, <2>1 DEF StepResult, Stage, RangeWriters
<1>5. CASE call[c] = "gyro_fsr"
  <2>1. SetterAt(c, "gyro")' /\ call'[c] = call[c]
    BY <1>3, <1>5 DEF Stage, Sensors
  <2>2. QED
    BY <1>5, <2>1 DEF StepResult, Stage, RangeWriters
<1>6. QED
  BY <1>1, <1>2, <1>4, <1>5 DEF RangeWriters

\* A caller that writes the ranges never reads.
LEMMA WriterReads ==
  ASSUME TypeOK, NEW c \in Actors, Stage(c), call[c] \in RangeWriters, ops[c] # << >>
  PROVE  Head(ops[c]).kind # "read"
<1>1. /\ \A q \in {Init0, Init2, Left5, Left4, Left3, Left2, Left1, Init3, Plain, ResetOp} :
           Head(q).kind # "read"
  BY InitOps, OpFields DEF OnError, Sensors, FullScales
<1>2. ASSUME InitAt(c) PROVE Head(ops[c]).kind # "read"
  BY <1>1, <1>2 DEF InitAt, InitScale, At
<1>3. ASSUME ResetAt(c) PROVE Head(ops[c]).kind # "read"
  BY <1>1, <1>2, <1>3 DEF ResetAt, At
<1>4. ASSUME NEW s \in Sensors, SetterAt(c, s) PROVE Head(ops[c]).kind # "read"
  <2>1. PICK v \in FullScales : SetterPlace(c, s, v)
    BY <1>4 DEF SetterAt
  <2>2. Head(ConfigOp(s, v)).kind # "read" /\ Head(ScaleOp(s, v)).kind # "read"
    BY SetterParts, OpFields DEF ConfigKind
  <2>3. QED
    BY <2>1, <2>2 DEF SetterPlace, At
<1>5. QED
  BY <1>2, <1>3, <1>4 DEF Stage, RangeWriters, Sensors

LEMMA WriterReturn ==
  ASSUME TypeOK, NEW c \in Actors, Stage(c), call[c] \in RangeWriters, Return(c)
  PROVE  StepResult(c)
<1>1. ops[c] = << >> /\ todo[c] = << >> /\ range' = range /\ scale' = scale
  BY DEF Return, chip
<1>2. call'[c] = "none" /\ ops'[c] = << >> /\ todo'[c] = << >>
  BY DEF Return, Leave, TypeOK
<1>3. ASSUME InitAt(c) PROVE Same
  BY <1>1, <1>3, InitTodo DEF InitAt, At
<1>4. ASSUME ResetAt(c) PROVE Same
  BY <1>1, <1>3, <1>4, InitTodo DEF ResetAt, At
<1>5. ASSUME NEW s \in Sensors, SetterAt(c, s) PROVE Same
  BY <1>1, <1>5, SetterParts DEF SetterAt, SetterPlace, At
<1>6. Same
  BY <1>3, <1>4, <1>5 DEF Stage, RangeWriters, Sensors
<1>7. QED
  BY <1>1, <1>2, <1>6, DoneStage DEF StepResult, Same

LEMMA HarmlessTail ==
  ASSUME NEW q \in Seq(Operation), q # << >>, Harmless(q)
  PROVE  Harmless(Tail(q)) /\ Head(q).kind \in {"write", "read"}
<1>1. \A i \in DOMAIN Tail(q) : i + 1 \in DOMAIN q /\ Tail(q)[i] = q[i + 1]
  OBVIOUS
<1>2. 1 \in DOMAIN q /\ Head(q) = q[1]
  OBVIOUS
<1>3. QED
  BY <1>1, <1>2 DEF Harmless

LEMMA AllHarmlessTail ==
  ASSUME NEW p \in Seq(Section), p # << >>, AllHarmless(p)
  PROVE  AllHarmless(Tail(p)) /\ Harmless(Head(p).ops)
<1>1. \A i \in DOMAIN Tail(p) : i + 1 \in DOMAIN p /\ Tail(p)[i] = p[i + 1]
  OBVIOUS
<1>2. 1 \in DOMAIN p /\ Head(p) = p[1]
  OBVIOUS
<1>3. QED
  BY <1>1, <1>2 DEF AllHarmless

LEMMA HarmlessStep ==
  ASSUME TypeOK, NEW c \in Actors, Stage(c), call[c] \notin RangeWriters, dropped' = {},
         CallStep(c)
  PROVE  StepResult(c)
<1>1. /\ Harmless(ops[c]) /\ AllHarmless(todo[c])
      /\ ops[c] \in Seq(Operation) /\ todo[c] \in Seq(Section)
  BY DEF Stage, TypeOK
<1>2. "none" \notin RangeWriters
  BY DEF RangeWriters
<1>3. ASSUME call'[c] = call[c], Harmless(ops'[c]), AllHarmless(todo'[c]),
             range' = range, scale' = scale
      PROVE  StepResult(c)
  BY <1>3 DEF StepResult, Stage, RangeWriters
<1>4. ASSUME call'[c] = "none", ops'[c] = << >>, todo'[c] = << >>,
             range' = range, scale' = scale
      PROVE  StepResult(c)
  BY <1>2, <1>4, DoneStage DEF StepResult
<1>5. CASE NextSection(c)
  BY <1>1, <1>3, <1>5, SelectStep, AllHarmlessTail
<1>6. CASE RegWrite(c)
  <2>1. PICK o : o = Head(ops[c])
    OBVIOUS
  <2>2. ops[c] # << >> /\ o.kind = "write" /\ Harmless(Tail(ops[c])) /\ scale' = scale
    BY <1>1, <1>6, <2>1, WriteStep, HarmlessTail
  <2>3. CASE Lands(c, o)
    <3>1. range' = range /\ call'[c] = call[c] /\ ops'[c] = Tail(ops[c]) /\ todo'[c] = todo[c]
      BY <2>2, <2>3 DEF Lands
    <3>2. QED
      BY <1>1, <1>3, <2>2, <3>1
  <2>4. CASE ~Lands(c, o)
    <3>1. /\ range' = range
          /\ \/ call'[c] = call[c] /\ ops'[c] = Tail(ops[c]) /\ todo'[c] = todo[c]
             \/ call'[c] = "none" /\ ops'[c] = << >> /\ todo'[c] = << >>
      BY <1>6, <2>1, <2>4, WriteStep
    <3>2. QED
      BY <1>1, <1>3, <1>4, <2>2, <3>1
  <2>5. QED
    BY <2>3, <2>4
<1>7. CASE RegReadBlock(c)
  <2>1. /\ ops[c] # << >> /\ scale' = scale /\ range' = range
        /\ \/ call'[c] = call[c] /\ ops'[c] = Tail(ops[c]) /\ todo'[c] = todo[c]
           \/ call'[c] = "none" /\ ops'[c] = << >> /\ todo'[c] = << >>
    BY <1>7, ReadStep
  <2>2. QED
    BY <1>1, <1>3, <1>4, <2>1, HarmlessTail
<1>8. CASE SetSensitivity(c)
  <2>1. ops[c] # << >> /\ Head(ops[c]).kind = "scale"
    BY <1>8 DEF SetSensitivity
  <2>2. QED
    BY <1>1, <2>1, HarmlessTail
<1>9. CASE Return(c)
  <2>1. call'[c] = "none" /\ ops'[c] = << >> /\ todo'[c] = << >> /\ range' = range /\ scale' = scale
    BY <1>9 DEF Return, Leave, chip, TypeOK
  <2>2. QED
    BY <1>4, <2>1
<1>10. QED
  BY <1>5, <1>6, <1>7, <1>8, <1>9 DEF CallStep

\* What stays of the others when one caller makes a step.
LEMMA CallStepOthers ==
  ASSUME TypeOK, NEW c \in Actors, CallStep(c)
  PROVE  /\ Busy(c) \/ ops[c] # << >>
         /\ \A d \in Actors \ {c} :
              /\ todo'[d] = todo[d] /\ ops'[d] = ops[d] /\ call'[d] = call[d]
              /\ err'[d] = err[d] /\ in'[d] = in[d]
         /\ call'[c] = call[c] \/ (call'[c] = "none" /\ ops'[c] = << >> /\ ~err'[c])
         /\ dropped \subseteq dropped' /\ overlapped' = overlapped /\ registered' = registered
         /\ driver' = driver \/ (c = Prober /\ driver' = "configured" /\ call'[c] = "none")
<1>1. CASE NextSection(c)
  BY <1>1 DEF NextSection, BankSelect, Fault, TypeOK
<1>2. CASE RegWrite(c)
  <2>1. Landed(Head(ops[c])) \/ \E b \in BOOLEAN : Fault("write", b)
    BY <1>2 DEF RegWrite
  <2>2. dropped \subseteq dropped'
    BY <2>1 DEF Landed, Fault
  <2>3. Leave(c) \/ (Advance(c) /\ (err' = err \/ err' = [err EXCEPT ![c] = TRUE]))
    BY <1>2 DEF RegWrite
  <2>4. QED
    BY <1>2, <2>2, <2>3 DEF RegWrite, Advance, Leave, TypeOK
<1>3. CASE RegReadBlock(c)
  BY <1>3 DEF RegReadBlock, Fault, Advance, Leave, TypeOK
<1>4. CASE SetSensitivity(c)
  BY <1>4 DEF SetSensitivity, Advance, TypeOK
<1>5. CASE Return(c)
  BY <1>5 DEF Return, Leave, TypeOK
<1>6. QED
  BY <1>1, <1>2, <1>3, <1>4, <1>5 DEF CallStep

LEMMA CallStepProbe ==
  ASSUME TypeOK, ProbeInv, NEW c \in Actors, CallStep(c)
  PROVE  ProbeInv' /\ Busy(c) /\ driver # "new"
<1>1. Busy(c)
  BY CallStepOthers DEF ProbeInv
<1>2. driver # "new" /\ (c = Prober => driver = "configuring") /\ (driver = "configuring" => c = Prober)
  BY <1>1 DEF ProbeInv, Actors
<1>3. \A d \in Actors : ~Busy(d) => ~Busy(d)' /\ d # c
  BY <1>1, CallStepOthers DEF Busy
<1>4. driver' \in {"new", "configuring", "failed"} => driver' = driver
  BY CallStepOthers
<1>5. "configured" # driver' => driver' = driver
  BY CallStepOthers
<1>6. \A d \in Actors : ~Busy(d)' => ~err'[d] /\ ops'[d] = << >>
  <2> TAKE d \in Actors
  <2>1. CASE d = c
    BY <1>1, <2>1, CallStepOthers DEF Busy
  <2>2. CASE d # c
    BY <2>2, CallStepOthers DEF Busy, ProbeInv
  <2>3. QED
    BY <2>1, <2>2
<1>7. driver' # "configuring" => ~Busy(Prober)'
  <2>1. CASE driver' = driver
    BY <1>3, <2>1 DEF ProbeInv, Actors
  <2>2. CASE c = Prober /\ call'[c] = "none"
    BY <2>2 DEF Busy
  <2>3. QED
    BY <2>1, <2>2, CallStepOthers
<1>8. driver' \in {"new", "configuring"} => \A d \in Callers : ~Busy(d)'
  BY <1>3, <1>4 DEF ProbeInv, Actors
<1>9. driver' \in {"new", "configuring", "failed"} => "cdev" \notin registered'
  BY <1>4, CallStepOthers DEF ProbeInv
<1>10. QED
  BY <1>1, <1>2, <1>6, <1>7, <1>8, <1>9 DEF ProbeInv, Busy

LEMMA CallStepScale ==
  ASSUME TypeOK, ProbeInv, ScaleInv, NEW c \in Actors, CallStep(c)
  PROVE  ScaleInv'
<1> SUFFICES ASSUME Clean' PROVE ScaleCore'
  BY DEF ScaleInv
<1>1. Clean /\ dropped' = {}
  BY CallStepOthers, CallStepProbe DEF Clean, ProbeInv, Actors
<1>2. ScaleCore /\ Stage(c) /\ Busy(c) /\ driver # "new"
  BY <1>1, CallStepProbe DEF ScaleInv, ScaleCore
<1>3. StepResult(c)
  <2>1. CASE call[c] \notin RangeWriters
    BY <1>1, <1>2, <2>1, HarmlessStep
  <2>2. CASE call[c] \in RangeWriters
    BY <1>1, <1>2, <2>2, WriterStep, WriterReturn, WriterReads DEF CallStep, RegReadBlock
  <2>3. QED
    BY <2>1, <2>2
<1>4. \A d \in Actors \ {c} : call'[d] = call[d]
  BY CallStepOthers
<1>5. Alone'
  <2>1. \A d \in Actors : Busy(d)' => Busy(d) /\ call'[d] = call[d]
    BY <1>3, <1>4 DEF StepResult, Busy
  <2>2. QED
    BY <1>2, <2>1 DEF ScaleCore, Alone
<1>6. ASSUME NEW d \in Actors, d # c PROVE Stage(d)' /\ call[d] \notin RangeWriters
  <2>1. call[d] \notin RangeWriters
    <3>1. Busy(d) => call[d] \in Readers
      BY <1>2, <1>6 DEF ScaleCore, Alone
    <3>2. QED
      BY <3>1 DEF Busy, Readers, RangeWriters
  <2>2. Harmless(ops[d]) /\ AllHarmless(todo[d])
    BY <1>2, <2>1 DEF ScaleCore, Stage
  <2>3. ops'[d] = ops[d] /\ todo'[d] = todo[d] /\ call'[d] = call[d]
    BY <1>6, CallStepOthers
  <2>4. QED
    BY <2>1, <2>2, <2>3 DEF Stage, RangeWriters
<1>7. NoWriter' => Same'
  <2> SUFFICES ASSUME NoWriter' PROVE Same'
    OBVIOUS
  <2>1. call'[c] \notin RangeWriters
    BY DEF NoWriter
  <2>2. CASE call[c] \notin RangeWriters /\ range' = range /\ scale' = scale
    <3>1. NoWriter
      BY <1>6, <2>2 DEF NoWriter
    <3>2. QED
      BY <1>2, <2>2, <3>1 DEF ScaleCore, Same
  <2>3. QED
    BY <1>3, <2>1, <2>2 DEF StepResult
<1>8. \A d \in Actors : Stage(d)'
  BY <1>3, <1>6 DEF StepResult
<1>9. QED
  BY <1>5, <1>7, <1>8 DEF ScaleCore

\* The calls that write no range: reads, and the output data rates.
LEMMA HarmlessPrograms ==
  ASSUME NEW k \in Calls, NEW v \in FullScales, k \notin RangeWriters
  PROVE  AllHarmless(Program(k, v))
<1>1. \A q : AllHarmless(<<Inside(0, q)>>) <=> Harmless(q)
  BY DEF AllHarmless, Inside
<1>2. Harmless(<<Do("read", "return")>>)
  BY DEF Harmless, Do
<1>3. AllHarmless(Get)
  BY <1>1, <1>2 DEF Get
<1>4. AllHarmless(Read)
  <2>1. Harmless([i \in 1..Samples |-> Do("read", "return")])
    BY DEF Harmless, Do
  <2>2. QED
    BY <1>1, <2>1 DEF Read
<1>5. AllHarmless(SetOdr)
  <2> DEFINE a == Inside(2, <<Do("write", "keep")>>)
             b == Inside(0, << >>)
  <2>1. Harmless(a.ops) /\ Harmless(b.ops)
    BY DEF Inside, Harmless, Do
  <2>2. SetOdr = <<a, b>>
    BY DEF SetOdr
  <2> HIDE DEF a, b
  <2>3. QED
    BY <2>1, <2>2 DEF AllHarmless
<1>6. QED
  BY <1>3, <1>4, <1>5 DEF Calls, Readers, RangeWriters, Program, GetAccel, GetGyro, GetMag, Show

LEMMA EnterScale ==
  ASSUME TypeOK, ProbeInv, ScaleInv, NEW c \in Actors, NEW k \in Calls, NEW v \in FullScales,
         Enter(c, k, v), driver' # "failed", driver # "failed",
         driver = "new" => k = "init" /\ \A d \in Actors : ~Busy(d)
  PROVE  ScaleInv'
<1> SUFFICES ASSUME Clean' PROVE ScaleCore'
  BY DEF ScaleInv
<1>1. /\ ~Busy(c) /\ ~err[c] /\ ops[c] = << >>
      /\ call' = [call EXCEPT ![c] = k] /\ todo' = [todo EXCEPT ![c] = Program(k, v)]
      /\ range' = range /\ scale' = scale /\ bank' = bank
      /\ in' = in /\ ops' = ops /\ err' = err /\ dropped' = dropped
  BY DEF Enter, ProbeInv, chip
<1>2. /\ \A d \in Actors : Busy(d) => k \in Readers /\ call[d] \in Readers
      /\ ~overlapped
  BY DEF Enter, Clean
<1>3. ScaleCore
  BY <1>1, <1>2 DEF Clean, ScaleInv
<1>4. /\ call'[c] = k /\ todo'[c] = Program(k, v)
      /\ \A d \in Actors \ {c} : call'[d] = call[d] /\ todo'[d] = todo[d]
  BY <1>1 DEF TypeOK
<1>5. Alone'
  BY <1>2, <1>3, <1>4 DEF ScaleCore, Alone, Busy
<1>6. \A d \in Actors : call[d] \notin RangeWriters
  BY <1>2 DEF Busy, Readers, RangeWriters
<1>7. driver # "new" => Same
  BY <1>3, <1>6 DEF ScaleCore, NoWriter
<1>8. driver' # "new" /\ NoWriter' => Same'
  <2>1. NoWriter' => k \notin RangeWriters
    BY <1>4 DEF NoWriter
  <2>2. NoWriter' => driver # "new"
    BY <2>1 DEF RangeWriters
  <2>3. QED
    BY <1>1, <1>7, <2>2 DEF Same
<1>9. Stage(c)'
  <2>1. ops'[c] = << >> /\ ~err'[c] /\ (driver # "new" => Same')
    BY <1>1, <1>7 DEF Same
  <2>2. k = "init" => InitAt(c)'
    BY <1>4, <2>1 DEF InitAt, At, Program
  <2>3. k # "init" => Same'
    BY <2>1
  <2>4. k = "reset" => ResetAt(c)'
    BY <1>4, <2>1, <2>3 DEF ResetAt, At, Program
  <2>5. k = "accel_fsr" => SetterAt(c, "accel")'
    <3>1. SetFsr("accel", v) = SetAccelFsr(v)
      BY DEF SetFsr, SetAccelFsr, ConfigOp, ScaleOp, ConfigKind
    <3>2. k = "accel_fsr" => SetterPlace(c, "accel", v)'
      BY <1>4, <2>1, <2>3, <3>1 DEF SetterPlace, At, Program
    <3>3. QED
      BY <3>2 DEF SetterAt
  <2>6. k = "gyro_fsr" => SetterAt(c, "gyro")'
    <3>1. SetFsr("gyro", v) = SetGyroFsr(v)
      BY DEF SetFsr, SetGyroFsr, ConfigOp, ScaleOp, ConfigKind
    <3>2. k = "gyro_fsr" => SetterPlace(c, "gyro", v)'
      BY <1>4, <2>1, <2>3, <3>1 DEF SetterPlace, At, Program
    <3>3. QED
      BY <3>2 DEF SetterAt
  <2>7. k \notin RangeWriters => Harmless(ops'[c]) /\ AllHarmless(todo'[c])
    BY <1>4, <2>1, HarmlessPrograms DEF Harmless
  <2>8. QED
    BY <1>4, <2>2, <2>4, <2>5, <2>6, <2>7 DEF Stage
<1>10. ASSUME NEW d \in Actors, d # c PROVE Stage(d)'
  <2>1. Harmless(ops[d]) /\ AllHarmless(todo[d])
    BY <1>3, <1>6 DEF ScaleCore, Stage
  <2>2. call'[d] = call[d] /\ todo'[d] = todo[d] /\ ops'[d] = ops[d]
    BY <1>1, <1>4, <1>10
  <2>3. QED
    BY <1>6, <2>1, <2>2 DEF Stage, RangeWriters
<1>11. QED
  BY <1>5, <1>8, <1>9, <1>10 DEF ScaleCore

LEMMA EnterProbe ==
  ASSUME TypeOK, ProbeInv, NEW c \in Actors, NEW k \in Calls, NEW v \in FullScales,
         Enter(c, k, v), registered' = registered,
         \/ c = Prober /\ driver = "new" /\ driver' = "configuring"
         \/ c \in Callers /\ "cdev" \in registered /\ driver' = driver
  PROVE  ProbeInv'
<1>1. /\ \A d \in Actors \ {c} : call'[d] = call[d]
      /\ ops' = ops /\ err' = err /\ call'[c] = k /\ k # "none"
  BY DEF Enter, TypeOK, Calls, Readers
<1>2. Prober \notin Callers
  BY ImuAssumption
<1>3. QED
  BY <1>1, <1>2 DEF ProbeInv, Busy, Actors

LEMMA NextScale == IInv /\ ProbeInv /\ ScaleInv /\ [Next]_vars => ProbeInv' /\ ScaleInv'
<1> SUFFICES ASSUME TypeOK, ProbeInv, ScaleInv, [Next]_vars PROVE ProbeInv' /\ ScaleInv'
  BY DEF IInv
<1>1. ASSUME NEW c \in Callers, NEW k \in Calls, NEW v \in Selectable, Begin(c, k, v)
      PROVE  ProbeInv' /\ ScaleInv'
  <2>1. c \in Actors /\ v \in FullScales
    BY ImuAssumption DEF Actors, FullScales
  <2>2. Enter(c, k, v) /\ "cdev" \in registered /\ driver' = driver /\ registered' = registered
    BY <1>1 DEF Begin
  <2>3. driver \notin {"new", "failed"}
    BY <2>2 DEF ProbeInv
  <2>4. QED
    BY <2>1, <2>2, <2>3, EnterScale, EnterProbe
<1>2. ASSUME NEW c \in Actors, CallStep(c) PROVE ProbeInv' /\ ScaleInv'
  BY <1>2, CallStepProbe, CallStepScale
<1>3. CASE Probe
  <2>1. Prober \in Actors /\ "init" \in Calls /\ 0 \in FullScales
    BY DEF Actors, Calls, FullScales
  <2>2. /\ Enter(Prober, "init", 0) /\ driver = "new" /\ driver' = "configuring"
        /\ registered' = registered
    BY <1>3 DEF Probe
  <2>3. \A d \in Actors : ~Busy(d)
    BY <2>2 DEF ProbeInv, Actors
  <2>4. QED
    BY <2>1, <2>2, <2>3, EnterScale, EnterProbe
<1>4. ASSUME UNCHANGED <<chip, scale, position, dropped, overlapped>>,
             \/ driver' = "failed" /\ "cdev" \notin registered' /\ driver \in {"new", "configured"}
             \/ driver = "configured" /\ driver' \in {"configured", "bound"}
             \/ driver' = driver /\ registered' = registered
      PROVE  ProbeInv' /\ ScaleInv'
  <2>1. UNCHANGED <<bank, range, scale, call, todo, in, ops, err, dropped, overlapped>>
    BY <1>4 DEF chip, position
  <2>2. ProbeInv'
    BY <1>4, <2>1 DEF ProbeInv, Busy
  <2>3. \A c \in Actors : Stage(c) => Stage(c)'
    BY <2>1 DEF Stage, InitAt, ResetAt, SetterAt, SetterPlace, InitScale, At, Same, Fits,
                Owed, Written
  <2>4. Clean' => ScaleCore
    BY <1>4, <2>1 DEF Clean, ScaleInv
  <2>5. Clean' => ScaleCore'
    BY <1>4, <2>1, <2>3, <2>4 DEF ScaleCore, Clean, Alone, Busy, NoWriter, Same
  <2>6. QED
    BY <2>2, <2>5 DEF ScaleInv
<1>5. CASE ProbeRefused
  BY <1>4, <1>5 DEF ProbeRefused, ProbeInv
<1>6. ASSUME NEW r \in DOMAIN Needs, Register(r) PROVE ProbeInv' /\ ScaleInv'
  BY <1>4, <1>6 DEF Register
<1>7. ASSUME NEW r \in DOMAIN Needs, RegisterFails(r) PROVE ProbeInv' /\ ScaleInv'
  <2>1. "cdev" \notin registered'
    BY <1>7 DEF RegisterFails, Needs, Unwind
  <2>2. QED
    BY <1>4, <1>7, <2>1 DEF RegisterFails
<1>8. CASE UNCHANGED vars
  BY <1>4, <1>8 DEF vars, chip, position
<1>9. QED
  BY <1>1, <1>2, <1>3, <1>5, <1>6, <1>7, <1>8 DEF Next, CallStep

(* With no call running the sensitivity fits the range, for any number of  *)
(* callers in any order: a range setter whose transfer failed, a reset     *)
(* that failed half way and a reinitialisation through sysfs all leave the *)
(* two in step, unless an ignored transfer failed or calls overlapped.     *)
THEOREM ScaleFits == Spec => []ScaleFollowsRange
<1>1. ProbeInv /\ ScaleInv => ScaleFollowsRange
  <2> SUFFICES ASSUME ScaleCore, driver = "bound", \A c \in Actors : ~Busy(c) PROVE Same
    BY DEF ScaleFollowsRange, ScaleInv, Clean, Same
  <2>1. NoWriter
    BY DEF NoWriter, Busy, RangeWriters
  <2>2. QED
    BY <2>1 DEF ScaleCore
<1>2. QED
  BY <1>1, InitIInv, NextKeeps, InitScaleInv, NextScale, PTL DEF Spec

=============================================================================
