-------------------------------- MODULE Imu --------------------------------
(***************************************************************************)
(* The ICM-20948 kernel driver of the head-mounted camera (icm20948.c).    *)
(* The chip shows one of four register banks at a time; every call of the  *)
(* driver selects a bank, transfers, and returns to bank 0.  The driver    *)
(* takes no lock: ioctl, read and sysfs calls of several processes         *)
(* interleave at each I2C transfer, and any transfer may fail.             *)
(*                                                                         *)
(* A call is a sequence of sections, each a bank and the operations done   *)
(* in it.  Bound: MaxFaults failing transfers.  Samples stands for the 300 *)
(* samples of one read().                                                  *)
(***************************************************************************)
EXTENDS Naturals, Sequences

CONSTANTS Callers,    \* processes with the device or a sysfs file open
          Prober,     \* the context that runs icm20948_probe
          Selectable, \* the full-scale ranges the callers ask for
          Samples,    \* samples of one read()
          MaxFaults   \* failing transfers in a behaviour

ASSUME ImuAssumption ==
  /\ Prober \notin Callers
  /\ Selectable \subseteq 0..3
  /\ Samples \in Nat /\ MaxFaults \in Nat

VARIABLES
  bank,        \* the chip: the selected bank
  range,       \* the chip: full-scale selection of each sensor
  scale,       \* current_sensitivity, current_gyro_sensitivity, as the range they fit
  call,        \* call[c]: the call c is executing
  todo,        \* todo[c]: sections c has not entered yet
  in,          \* in[c]: bank of the section c is in, 0 outside a call
  ops,         \* ops[c]: operations left in that section
  err,         \* err[c]: the `ret` a setter keeps over its return to bank 0
  dropped,     \* kinds of transfer whose failure no caller was told of
  overlapped,  \* a call that writes registers has run along with another call
  driver,      \* progress of the probe
  registered,  \* what the probe has registered with the kernel
  faults       \* failing transfers so far

chip == <<bank, range>>
position == <<call, todo, in, ops, err>>
vars == <<bank, range, scale, call, todo, in, ops, err, dropped, overlapped,
          driver, registered, faults>>

Actors == Callers \cup {Prober}
Sensors == {"accel", "gyro"}
FullScales == 0..3                    \* ACCEL_FS_SEL, GYRO_FS_SEL
PowerOn == [accel |-> 0, gyro |-> 0]  \* 2 g, 250 dps
Configured == [accel |-> 0, gyro |-> 3]

----------------------------------------------------------------------------
(* The calls, as sections *)

Kinds == {"reset", "accel_config", "register_one", "write", "read", "scale"}
OnError == {"ignore", "keep", "return"}
Operation == [kind : Kinds, of : Sensors, val : FullScales, onError : OnError]
Section == [bank : 0..3, ops : Seq(Operation)]

Do(kind, onError) == [kind |-> kind, of |-> "accel", val |-> 0, onError |-> onError]
Put(kind, val, onError) == [Do(kind, onError) EXCEPT !.val = val]
Scale(s, val) == [Do("scale", "ignore") EXCEPT !.of = s, !.val = val]
Inside(b, operations) == [bank |-> b, ops |-> operations]

Others == Do("write", "ignore")  \* writes in a row that no property depends on
Init0 == <<Do("reset", "ignore"), Others>>
Init2 == <<Others, Put("accel_config", 0, "ignore"), Scale("accel", 0),
           Others, Put("register_one", 3, "ignore"), Scale("gyro", 3)>>
Init3 == <<Put("register_one", 3, "ignore"), Others>>

InitSensor == <<Inside(0, Init0), Inside(2, Init2), Inside(0, <<Others>>),
                Inside(3, Init3), Inside(0, << >>)>>

Reset == <<Inside(0, <<Do("reset", "return")>>)>> \o InitSensor

Get == <<Inside(0, <<Do("read", "return")>>)>>
GetAccel == Get
GetGyro == Get
GetMag == Get   \* and GET_ALL, one burst over the three sensors
Show == Get     \* the sysfs attributes

Read == <<Inside(0, [i \in 1..Samples |-> Do("read", "return")])>>

SetAccelFsr(val) == <<Inside(2, <<Put("accel_config", val, "keep")>>),
                      Inside(0, <<Scale("accel", val)>>)>>

SetGyroFsr(val) == <<Inside(2, <<Put("register_one", val, "keep")>>),
                     Inside(0, <<Scale("gyro", val)>>)>>

SetOdrStays == <<Inside(2, <<Do("write", "keep")>>)>>

\* SET_ACCEL_ODR (two writes) and SET_GYRO_ODR.
SetOdr == <<Inside(2, <<Do("write", "keep")>>), Inside(0, << >>)>>

Readers == {"get_accel", "get_gyro", "get_mag", "show", "read"}
Calls == Readers \cup {"init", "reset", "accel_fsr", "gyro_fsr", "odr"}

Program(k, val) ==
  CASE k = "init" -> InitSensor
    [] k = "reset" -> Reset
    [] k = "get_accel" -> GetAccel
    [] k = "get_gyro" -> GetGyro
    [] k = "get_mag" -> GetMag
    [] k = "show" -> Show
    [] k = "read" -> Read
    [] k = "accel_fsr" -> SetAccelFsr(val)
    [] k = "gyro_fsr" -> SetGyroFsr(val)
    [] OTHER -> SetOdr

----------------------------------------------------------------------------
(* Transfers *)

Busy(c) == call[c] # "none"
Idle == [c \in Actors |-> "none"]

\* The transfer fails; a failure the code ignores is remembered here only.
Fault(kind, ignored) ==
  /\ faults < MaxFaults
  /\ faults' = faults + 1
  /\ dropped' = IF ignored THEN dropped \cup {kind} ELSE dropped
  /\ UNCHANGED chip

(* What a write that reaches the chip changes.  An address means another   *)
(* register in another bank: DEVICE_RESET resets in bank 0 only,           *)
(* ACCEL_CONFIG exists in bank 2 only, and address 1 is GYRO_CONFIG_1 in   *)
(* bank 2 and I2C_MST_CTRL in bank 3.                                      *)
Landed(o) ==
  /\ range' = IF o.kind = "reset" /\ bank = 0 THEN PowerOn
              ELSE IF o.kind = "accel_config" /\ bank = 2 THEN [range EXCEPT !.accel = o.val]
              ELSE IF o.kind = "register_one" /\ bank = 2 THEN [range EXCEPT !.gyro = o.val]
              ELSE range
  /\ bank' = IF o.kind = "reset" /\ bank = 0 THEN 0 ELSE bank
  /\ UNCHANGED <<dropped, faults>>

\* Every call ignores the result of bank_select.
BankSelect(b) ==
  \/ bank' = b /\ UNCHANGED <<range, dropped, faults>>
  \/ Fault("select", TRUE)

----------------------------------------------------------------------------
Leave(c) ==
  /\ call' = [call EXCEPT ![c] = "none"]
  /\ todo' = [todo EXCEPT ![c] = << >>]
  /\ ops' = [ops EXCEPT ![c] = << >>]
  /\ err' = [err EXCEPT ![c] = FALSE]
  /\ in' = [in EXCEPT ![c] = 0]

Advance(c) ==
  /\ ops' = [ops EXCEPT ![c] = Tail(@)]
  /\ UNCHANGED <<call, todo, in>>

Enter(c, k, val) ==
  /\ ~Busy(c)
  /\ call' = [call EXCEPT ![c] = k]
  /\ todo' = [todo EXCEPT ![c] = Program(k, val)]
  /\ overlapped' = (overlapped \/ \E d \in Actors :
                      Busy(d) /\ ~(k \in Readers /\ call[d] \in Readers))
  /\ UNCHANGED <<chip, scale, in, ops, err, dropped, faults>>

\* A call through the character device or sysfs: the node must exist.
Begin(c, k, val) ==
  /\ c \in Callers
  /\ "cdev" \in registered
  /\ Enter(c, k, val)
  /\ UNCHANGED <<driver, registered>>

NextSection(c) ==
  /\ Busy(c)
  /\ ops[c] = << >>
  /\ todo[c] # << >>
  /\ in' = [in EXCEPT ![c] = Head(todo[c]).bank]
  /\ ops' = [ops EXCEPT ![c] = Head(todo[c]).ops]
  /\ todo' = [todo EXCEPT ![c] = Tail(@)]
  /\ BankSelect(Head(todo[c]).bank)
  /\ UNCHANGED <<call, err, scale, overlapped, driver, registered>>

RegWrite(c) ==
  /\ ops[c] # << >>
  /\ Head(ops[c]).kind \notin {"read", "scale"}
  /\ LET o == Head(ops[c]) IN
       \/ Landed(o) /\ Advance(c) /\ UNCHANGED err
       \/ /\ Fault("write", o.onError = "ignore")
          /\ CASE o.onError = "return" -> Leave(c)
               [] o.onError = "keep" -> Advance(c) /\ err' = [err EXCEPT ![c] = TRUE]
               [] OTHER -> Advance(c) /\ UNCHANGED err
  /\ UNCHANGED <<scale, overlapped, driver, registered>>

RegReadBlock(c) ==
  /\ ops[c] # << >>
  /\ Head(ops[c]).kind = "read"
  /\ \/ Advance(c) /\ UNCHANGED <<err, chip, dropped, faults>>
     \/ Fault("read", FALSE) /\ Leave(c)
  /\ UNCHANGED <<scale, overlapped, driver, registered>>

SetSensitivityAnyway(c) ==
  /\ ops[c] # << >>
  /\ Head(ops[c]).kind = "scale"
  /\ scale' = [scale EXCEPT ![Head(ops[c]).of] = Head(ops[c]).val]
  /\ Advance(c)
  /\ UNCHANGED <<err, chip, dropped, overlapped, driver, registered, faults>>

\* A setter that kept an error returns before it touches the sensitivity.
SetSensitivity(c) ==
  /\ ops[c] # << >>
  /\ Head(ops[c]).kind = "scale"
  /\ scale' = IF err[c] THEN scale ELSE [scale EXCEPT ![Head(ops[c]).of] = Head(ops[c]).val]
  /\ Advance(c)
  /\ UNCHANGED <<err, chip, dropped, overlapped, driver, registered, faults>>

Return(c) ==
  /\ Busy(c)
  /\ ops[c] = << >> /\ todo[c] = << >>
  /\ Leave(c)
  /\ driver' = IF c = Prober THEN "configured" ELSE driver
  /\ UNCHANGED <<chip, scale, dropped, overlapped, registered, faults>>

----------------------------------------------------------------------------
(* icm20948_probe.  Nothing can reach the driver before cdev_add. *)

\* WHO_AM_I reads right, then icm20948_init_sensor runs.
Probe ==
  /\ driver = "new"
  /\ Enter(Prober, "init", 0)
  /\ driver' = "configuring"
  /\ UNCHANGED registered

ProbeRefused ==
  /\ driver = "new"
  /\ driver' = "failed"
  /\ UNCHANGED <<chip, scale, position, dropped, overlapped, registered, faults>>

Needs == [region |-> {}, cdev |-> {"region"}, class |-> {"region", "cdev"},
          device |-> {"region", "cdev", "class"}]

Register(r) ==
  /\ driver = "configured"
  /\ registered = Needs[r]
  /\ registered' = registered \cup {r}
  /\ driver' = IF r = "device" THEN "bound" ELSE driver
  /\ UNCHANGED <<chip, scale, position, dropped, overlapped, faults>>

\* What the error path after each registration takes back.
Unwind(r) == CASE r = "region" -> {}
               [] r = "cdev" -> {"region"}
               [] r = "class" -> {"cdev", "region"}
               [] OTHER -> {"class", "cdev", "region"}

RegisterFails(r) ==
  /\ driver = "configured"
  /\ registered = Needs[r]
  /\ registered' = registered \ Unwind(r)
  /\ driver' = "failed"
  /\ UNCHANGED <<chip, scale, position, dropped, overlapped, faults>>

----------------------------------------------------------------------------
Init ==
  /\ bank = 0 /\ range = PowerOn /\ scale = Configured
  /\ call = Idle
  /\ todo = [c \in Actors |-> << >>]
  /\ ops = [c \in Actors |-> << >>]
  /\ in = [c \in Actors |-> 0]
  /\ err = [c \in Actors |-> FALSE]
  /\ dropped = {} /\ overlapped = FALSE
  /\ driver = "new" /\ registered = {}
  /\ faults = 0

Next ==
  \/ \E c \in Callers, k \in Calls, val \in Selectable : Begin(c, k, val)
  \/ \E c \in Actors : \/ NextSection(c) \/ RegWrite(c) \/ RegReadBlock(c)
                       \/ SetSensitivity(c) \/ Return(c)
  \/ Probe \/ ProbeRefused
  \/ \E r \in DOMAIN Needs : Register(r) \/ RegisterFails(r)

Spec == Init /\ [][Next]_vars

----------------------------------------------------------------------------
\* The types of the variables.
TypeOK ==
  /\ bank \in 0..3
  /\ range \in [Sensors -> FullScales] /\ scale \in [Sensors -> FullScales]
  /\ call \in [Actors -> Calls \cup {"none"}]
  /\ todo \in [Actors -> Seq(Section)] /\ ops \in [Actors -> Seq(Operation)]
  /\ in \in [Actors -> 0..3] /\ err \in [Actors -> BOOLEAN]
  /\ dropped \subseteq {"select", "write"} /\ overlapped \in BOOLEAN
  /\ driver \in {"new", "configuring", "configured", "bound", "failed"}
  /\ registered \subseteq DOMAIN Needs
  /\ faults \in 0..MaxFaults

(* The chip is out of bank 0 only while some call is inside a section of   *)
(* another bank: with any number of unlocked callers in any order, when    *)
(* the calls are over the output registers are the ones a read sees.  Only *)
(* a failing bank_select, whose result every call ignores, breaks it.      *)
BankOwned ==
  bank # 0 /\ "select" \notin dropped => \E c \in Actors : in[c] # 0

(* With no call running, the sensitivity by which readings are divided     *)
(* fits the chip's range, whichever call failed half way, unless an        *)
(* ignored transfer failed or a register writer overlapped another call.   *)
ScaleFollowsRange ==
  driver = "bound" /\ (\A c \in Actors : ~Busy(c)) /\ dropped = {} /\ ~overlapped
    => scale = range
=============================================================================
