------------------------------ MODULE Control ------------------------------
(***************************************************************************)
(* The path of a command: a client sends an HTTP request, the one loop of  *)
(* the control plane checks it and calls the engine or the AI engine over  *)
(* D-Bus, waiting a bounded time for the reply (control_plane/main.c,      *)
(* core/http_server.c, device_controls.c); the engine takes calls in the   *)
(* order they came (engine/api/dbus_handlers.c); the AI engine makes calls *)
(* to the engine of its own while it handles one (ai_engine.py).  A call   *)
(* that timed out stays with its service and is done later.  Services may  *)
(* crash and lose what they were asked.                                    *)
(*                                                                         *)
(* What the operations do is in the modules of the engine; here they only  *)
(* take place or do not.  What happens after a reboot is not followed.     *)
(* Bounds: MaxRequests requests, the first of them any command and the     *)
(* others from Rivals, in any order at the server; MaxCrashes crashes.     *)
(***************************************************************************)
EXTENDS CliCommands

CONSTANTS Clients,
          Account(_),      \* the role a client's login gives it
          Used, Rivals,    \* the commands sent first, and those sent after them
          MaxRequests, MaxCrashes

ASSUME ControlAssumption ==
  /\ \A c \in Clients : Account(c) \in Roles
  /\ Used \subseteq DOMAIN Commands /\ Rivals \subseteq Used
  /\ MaxRequests \in Nat /\ MaxCrashes \in Nat

VARIABLES
  session,    \* session[c]: the role c's token gives it, "none" without a valid one
  reqs,       \* every request sent, with how far it got and what was answered
  received,   \* the requests in the order the loop took them
  waiting,    \* waiting[c]: the request c waits for, 0 for none
  engineQ,    \* calls the engine has not taken up
  aiQ,        \* requests the AI engine has not taken up
  ai,         \* the request the AI engine handles and the steps it has left
  effects,    \* what took place, with the request it was for
  audit,      \* entries of the activity log
  up,         \* services that are running
  crashes

vars == <<session, reqs, received, waiting, engineQ, aiQ, ai, effects, audit, up, crashes>>

Services == {"engine", "ai"}
Said == {Blank, "done", "more", "error", "timeout", "lost", "file"}
Idle == [id |-> 0, todo |-> <<>>, asked |-> FALSE]

Of(i) == Commands[reqs[i].cmd].req

\* Tables of what ControlRoutes says of each command.
Calls == [cmd \in Used |-> Call(Commands[cmd].req)]
Streams == {cmd \in Used : Handler(Commands[cmd].req) = <<"stream">>}
Effects == [cmd \in Used |-> LocalEffect(Commands[cmd].req)]
LocalEndsOf == [cmd \in Used |-> LocalEnds(Commands[cmd].req)]
Verdicts == [cmd \in Used |-> [role \in Roles |-> [exists \in BOOLEAN |->
               Refusal(Commands[cmd].req, role, exists)]]]

CallOf(i) == Calls[reqs[i].cmd]
LocalOf(i) == Effects[reqs[i].cmd]
Wants(i) == Commands[reqs[i].cmd].wants
Did(i) == {effects[k].op : k \in {n \in DOMAIN effects : effects[n].id = i}}

\* Whether the account a users command names is there: as the requests left it,
\* or, before any of them, either way.
UserExists ==
  LET changes == {k \in DOMAIN effects :
                    effects[k].op \in {Control("create-user"), Control("delete-user")}}
      left == {effects[k].op = Control("create-user") :
                 k \in {n \in changes : \A l \in changes : l <= n}}
  IN IF changes = {} THEN BOOLEAN ELSE left

LoopIdle == \A i \in DOMAIN reqs : reqs[i].stage \notin {"call", "poll"}

----------------------------------------------------------------------------
(* Clients *)

Send(c, cmd) ==
  /\ Len(reqs) < MaxRequests /\ waiting[c] = 0
  /\ reqs # <<>> => cmd \in Rivals
  /\ reqs' = Append(reqs, [by |-> c, cmd |-> cmd, stage |-> "sent", status |-> 0, said |-> Blank])
  /\ waiting' = [waiting EXCEPT ![c] = Len(reqs')]
  /\ UNCHANGED <<session, received, engineQ, aiQ, ai, effects, audit, up, crashes>>

\* urllib's timeout; the request stays where it is.
GiveUp(c) ==
  /\ waiting[c] # 0
  /\ waiting' = [waiting EXCEPT ![c] = 0]
  /\ UNCHANGED <<session, reqs, received, engineQ, aiQ, ai, effects, audit, up, crashes>>

----------------------------------------------------------------------------
(* The control plane's loop *)

Release(i) == [c \in Clients |-> IF waiting[c] = i THEN 0 ELSE waiting[c]]

Answered(rs, i, status, said) ==
  [rs EXCEPT ![i].stage = "answered", ![i].status = status, ![i].said = said]

\* Two ways to lose the difference between a reply, an error and a timeout.
CallOverTrusting(rs, i, said) == Answered(rs, i, 200, "done")
CallOverFlat(rs, i, said) == Answered(rs, i, 200, IF said = "timeout" THEN "error" ELSE said)

\* What the handler does once its call is over; the stream handler looks for the file.
CallOver(rs, i, said) ==
  CASE rs[i].cmd \in Streams -> [rs EXCEPT ![i].stage = "poll"]
    [] CallOf(i).to = "ai" ->
         Answered(rs, i, IF said \in {"done", "error"} THEN 200 ELSE 503, said)
    [] OTHER -> Answered(rs, i, 200, said)

Answer(i, status, said) ==
  /\ reqs' = Answered(reqs, i, status, said)
  /\ waiting' = Release(i)

Effect(i, op) == IF op = Nothing THEN <<>> ELSE <<[id |-> i, op |-> op]>>

\* The log if it had only the account a line is under.
EntryBare(i, line) == [id |-> i, what |-> line.what, under |-> line.under, by |-> Blank]

\* The lines of request i, as activity_log_event files them.
Entry(i, line) == [id |-> i, what |-> line.what, under |-> line.under, by |-> line.by]

Filed(i, lines) == {Entry(i, line) : line \in lines}

RoleOf(i) == session[reqs[i].by]

\* Authorization as it would be if the role were taken when the request was sent.
RoleAtConnect(i) == Account(reqs[i].by)

Takes(i) == reqs[i].stage = "sent" /\ LoopIdle /\ received' = Append(received, i)

\* What the checks may come to, 0 for a request that passes them.
VerdictEarly(i) == {Verdicts[reqs[i].cmd][RoleAtConnect(i)][there] : there \in UserExists}
Verdict(i) == {Verdicts[reqs[i].cmd][RoleOf(i)][there] : there \in UserExists}

Refuse(i) ==
  /\ Takes(i)
  /\ \E status \in Verdict(i) \ {0} :
       /\ Answer(i, status, "error")
       /\ audit' = audit \cup Filed(i, RefusalLines(Of(i), status))
  /\ UNCHANGED <<session, engineQ, aiQ, ai, effects, up, crashes>>

\* Handlers that end without a call.
ServeLocal(i) ==
  /\ Takes(i)
  /\ 0 \in Verdict(i) /\ CallOf(i).to = "none"
  /\ \E end \in LocalEndsOf[reqs[i].cmd] :
       /\ Answer(i, end.status, SaidOf(end.status))
       /\ effects' = effects \o Effect(i, end.op)
       /\ audit' = audit \cup Filed(i, end.lines)
       /\ session' = CASE end.op = Control("login") ->
                            [session EXCEPT ![reqs[i].by] = Account(reqs[i].by)]
                       [] end.op = Control("logout") ->
                            [session EXCEPT ![reqs[i].by] = "none"]
                       [] OTHER -> session
  /\ UNCHANGED <<engineQ, aiQ, ai, up, crashes>>

\* _call_engine and the like: the call is sent, or fails at once without a service.
Forward(i) ==
  LET call == CallOf(i) IN
  /\ Takes(i)
  /\ 0 \in Verdict(i) /\ call.to # "none"
  /\ effects' = effects \o Effect(i, LocalOf(i))
  /\ IF call.to \in up
     THEN /\ reqs' = [reqs EXCEPT ![i].stage = "call"]
          /\ engineQ' = IF call.to = "ai" THEN engineQ
                        ELSE Append(engineQ, [id |-> i, from |-> "http", call |-> call])
          /\ aiQ' = IF call.to = "ai" THEN Append(aiQ, i) ELSE aiQ
          /\ UNCHANGED waiting
     ELSE /\ reqs' = CallOver(reqs, i, "lost")
          /\ waiting' = IF reqs'[i].stage = "answered" THEN Release(i) ELSE waiting
          /\ UNCHANGED <<engineQ, aiQ>>
  /\ UNCHANGED <<session, ai, audit, up, crashes>>

Replied(i, said) ==
  IF reqs[i].stage = "call"
  THEN /\ reqs' = CallOver(reqs, i, said)
       /\ waiting' = IF reqs'[i].stage = "answered" THEN Release(i) ELSE waiting
  ELSE UNCHANGED <<reqs, waiting>>

\* Waiting for the AI engine without a limit.
EngineCallTimesOut(i) ==
  /\ reqs[i].stage = "call" /\ CallOf(i).to = "engine"
  /\ Replied(i, "timeout")
  /\ UNCHANGED <<session, received, engineQ, aiQ, ai, effects, audit, up, crashes>>

CallTimesOut(i) ==
  /\ reqs[i].stage = "call"
  /\ Replied(i, "timeout")
  /\ UNCHANGED <<session, received, engineQ, aiQ, ai, effects, audit, up, crashes>>

\* The stream handler found the file, or did not within three seconds.
PollEnds(i) ==
  /\ reqs[i].stage = "poll"
  /\ \/ Answer(i, 200, "file")
     \/ Answer(i, 404, "file")
  /\ UNCHANGED <<session, received, engineQ, aiQ, ai, effects, audit, up, crashes>>

----------------------------------------------------------------------------
(* The engine: one call after the other on its main loop *)

\* engine_get_status and engine_set_log_level always succeed.
Outcomes(call) ==
  IF ~Understood(call) THEN {"error"}
  ELSE IF call.method \in {"GetStatus", "SetLogLevel"} THEN {"done"} ELSE {"done", "error"}

\* The AI engine's call k is over, in whatever way.
AiGoesOn(k) == IF ai.id = k /\ ai.asked THEN [ai EXCEPT !.todo = Tail(@), !.asked = FALSE] ELSE ai

Handle(m, rest) ==
  /\ engineQ' = rest
  /\ \E said \in Outcomes(m.call) :
       /\ effects' = effects \o IF said = "done" THEN Effect(m.id, Does(m.call)) ELSE <<>>
       /\ IF m.from = "http" THEN Replied(m.id, said) /\ UNCHANGED ai
          ELSE ai' = AiGoesOn(m.id) /\ UNCHANGED <<reqs, waiting>>
  /\ UNCHANGED <<session, received, aiQ, audit, up, crashes>>

\* The calls in any order, as they would be with a thread for each.
EngineHandlesAny ==
  /\ "engine" \in up
  /\ \E k \in DOMAIN engineQ : Handle(engineQ[k], RemoveAt(engineQ, k))

EngineHandles ==
  /\ "engine" \in up /\ engineQ # <<>>
  /\ Handle(Head(engineQ), Tail(engineQ))

----------------------------------------------------------------------------
(* The AI engine *)

\* The steps of a method: calls to the engine, and "fail" where it gives up.
Steps(i) ==
  LET call == CallOf(i) IN
  CASE call.method = "LoadModel" ->
         { <<>>, <<"fail">>, <<"AttachSHM">>, <<"DetachSHM", "fail">>,
           <<"DetachSHM", "AttachSHM">> }
    [] call.method = "StopModel" -> { <<>>, <<"DetachSHM">> }
    [] call.method = "SetAIConfig" ->
         (IF "threshold" \in call.keys THEN { <<"fail">> } ELSE {}) \cup
         { IF "overlay" \in call.keys THEN <<"ToggleOverlay">> ELSE <<>> }
    [] OTHER -> { <<>> }

AiTakes ==
  /\ "ai" \in up /\ ai.id = 0 /\ aiQ # <<>>
  /\ \E steps \in Steps(Head(aiQ)) : ai' = [id |-> Head(aiQ), todo |-> steps, asked |-> FALSE]
  /\ aiQ' = Tail(aiQ)
  /\ UNCHANGED <<session, reqs, received, waiting, engineQ, effects, audit, up, crashes>>

\* Asks the engine and waits; it goes on without one.
AiCalls ==
  /\ ai.todo # <<>> /\ ~ai.asked /\ Head(ai.todo) # "fail"
  /\ IF "engine" \in up
     THEN /\ ai' = [ai EXCEPT !.asked = TRUE]
          /\ engineQ' = Append(engineQ, [id |-> ai.id, from |-> "ai",
               call |-> BusCall("engine", Head(ai.todo), {"lens"}, Blank)])
     ELSE ai' = [ai EXCEPT !.todo = Tail(@)] /\ UNCHANGED engineQ
  /\ UNCHANGED <<session, reqs, received, waiting, aiQ, effects, audit, up, crashes>>

\* After dbus-python's 25 s; the handler that waits for the AI engine, at most
\* 15 s, has given up by then.
AiCallTimesOut ==
  /\ ai.asked /\ reqs[ai.id].stage # "call"
  /\ ai' = AiGoesOn(ai.id)
  /\ UNCHANGED <<session, reqs, received, waiting, engineQ, aiQ, effects, audit, up, crashes>>

\* SetAIConfig stores the members one by one until it meets a bad one.
Partly(i) ==
  IF CallOf(i).method = "SetAIConfig" /\ "snapshots" \in CallOf(i).keys
  THEN Effect(i, Ai("snapshots")) ELSE <<>>

AiFinishes ==
  /\ ai.id # 0 /\ ~ai.asked /\ ai.todo \in {<<>>, <<"fail">>}
  /\ IF ai.todo = <<>>
     THEN effects' = effects \o Effect(ai.id, Does(CallOf(ai.id))) /\ Replied(ai.id, "done")
     ELSE effects' = effects \o Partly(ai.id) /\ Replied(ai.id, "error")
  /\ ai' = Idle
  /\ UNCHANGED <<session, received, engineQ, aiQ, audit, up, crashes>>

----------------------------------------------------------------------------
(* Crashes: the queue is gone, whoever waits learns it at once.  The call  *)
(* the engine was at may have been done without an answer.                 *)

EngineDies ==
  /\ "engine" \in up /\ crashes < MaxCrashes
  /\ up' = up \ {"engine"} /\ crashes' = crashes + 1
  /\ LET waits(i) == \E k \in DOMAIN engineQ : engineQ[k].id = i /\ engineQ[k].from = "http"
         lost == {i \in DOMAIN reqs : reqs[i].stage = "call" /\ waits(i)}
     IN /\ reqs' = [i \in DOMAIN reqs |-> IF i \in lost THEN CallOver(reqs, i, "lost")[i] ELSE reqs[i]]
        /\ waiting' = [c \in Clients |->
                         IF waiting[c] \in lost /\ reqs'[waiting[c]].stage = "answered"
                         THEN 0 ELSE waiting[c]]
  /\ effects' \in {effects} \cup
       (IF engineQ # <<>> /\ "done" \in Outcomes(Head(engineQ).call)
        THEN {effects \o Effect(Head(engineQ).id, Does(Head(engineQ).call))} ELSE {})
  /\ engineQ' = <<>>
  /\ ai' = AiGoesOn(ai.id)
  /\ UNCHANGED <<session, received, aiQ, audit>>

AiDies ==
  /\ "ai" \in up /\ crashes < MaxCrashes
  /\ up' = up \ {"ai"} /\ crashes' = crashes + 1
  /\ LET lost == {i \in DOMAIN reqs :
                    reqs[i].stage = "call" /\ (i = ai.id \/ Contains(aiQ, i))}
     IN /\ reqs' = [i \in DOMAIN reqs |-> IF i \in lost THEN CallOver(reqs, i, "lost")[i] ELSE reqs[i]]
        /\ waiting' = [c \in Clients |-> IF waiting[c] \in lost THEN 0 ELSE waiting[c]]
  /\ aiQ' = <<>> /\ ai' = Idle
  /\ UNCHANGED <<session, received, engineQ, effects, audit>>

Starts(s) ==
  /\ s \notin up
  /\ up' = up \cup {s}
  /\ UNCHANGED <<session, reqs, received, waiting, engineQ, aiQ, ai, effects, audit, crashes>>

----------------------------------------------------------------------------
Init ==
  /\ session \in [Clients -> Roles] /\ \A c \in Clients : session[c] \in {"none", Account(c)}
  /\ reqs = <<>> /\ received = <<>>
  /\ waiting = [c \in Clients |-> 0]
  /\ engineQ = <<>> /\ aiQ = <<>> /\ ai = Idle
  /\ effects = <<>> /\ audit = {}
  /\ up = Services /\ crashes = 0

Loop == \E i \in DOMAIN reqs : Refuse(i) \/ ServeLocal(i) \/ Forward(i) \/ PollEnds(i)
Timeouts == \E i \in DOMAIN reqs : CallTimesOut(i)

Next ==
  \/ \E c \in Clients : GiveUp(c) \/ \E cmd \in Used : Send(c, cmd)
  \/ Loop \/ Timeouts
  \/ EngineHandles \/ AiTakes \/ AiCalls \/ AiCallTimesOut \/ AiFinishes
  \/ EngineDies \/ AiDies \/ \E s \in Services : Starts(s)

(* The loop of the control plane runs and its timers fire.  Nothing is     *)
(* asked of the services: they may be stuck for ever.                      *)
Fairness == WF_vars(Loop) /\ WF_vars(Timeouts)

Spec == Init /\ [][Next]_vars /\ Fairness

----------------------------------------------------------------------------
\* The types of the variables.
TypeOK ==
  /\ session \in [Clients -> Roles]
  /\ \A i \in DOMAIN reqs :
       /\ reqs[i].by \in Clients /\ reqs[i].cmd \in Used
       /\ reqs[i].stage \in {"sent", "call", "poll", "answered"} /\ reqs[i].said \in Said
       /\ reqs[i].status \in Nat
  /\ Cardinality({i \in DOMAIN reqs : reqs[i].stage \in {"call", "poll"}}) <= 1
  /\ \A c \in Clients : waiting[c] \in 0..Len(reqs)
  /\ ToSet(received) \subseteq DOMAIN reqs
  /\ \A k \in DOMAIN engineQ : engineQ[k].id \in ToSet(received)
  /\ ToSet(aiQ) \cup {ai.id} \subseteq ToSet(received) \cup {0}
  /\ up \subseteq Services /\ crashes \in 0..MaxCrashes

\* What the user is told: a reply read as such, a tick for a status, a tick in any
\* case.  Neither client claims anything while the login has a step to go.
Claims(i) ==
  /\ reqs[i].stage = "answered"
  /\ CASE Commands[reqs[i].cmd].shows = "reply" -> reqs[i].said = "done"
       [] Commands[reqs[i].cmd].shows = "tick" -> reqs[i].status < 400 /\ reqs[i].said # "more"
       [] OTHER -> TRUE

\* The operations whose result the handler does not look at: fork, system(), the
\* statements of db_manager.c, the mail of a forgotten password.
Unchecked ==
  { Control(what) : what \in {"reboot", "network-reset", "create-user", "delete-user",
                              "password", "totp", "mail", "smtp"} }

(* A claim of success is true: what the command is for has taken place.    *)
(* The exceptions are the ones the code has: the misdirected commands,     *)
(* which can never do it, operations whose result nobody looks at, an      *)
(* error of the engine under status 200, a tick of the device menu, which  *)
(* does not look either, and a playlist of an earlier run (main.c:53,      *)
(* smartip_cli.py:801, http_server.c:739).                                 *)
SuccessMeansDone ==
  \A i \in DOMAIN reqs :
    /\ Claims(i) =>
         \/ Wants(i) \in Did(i) \cup {Nothing}
         \/ Wants(i) \in Unchecked /\ reqs[i].status < 400
         \/ reqs[i].cmd \in Misdirected
         \/ Commands[reqs[i].cmd].shows = "tick" /\ reqs[i].status = 200
              /\ reqs[i].said \in {"error", "timeout", "lost", "file"}
         \/ Commands[reqs[i].cmd].shows = "always" /\ reqs[i].status \in {401, 403}
    /\ reqs[i].cmd \in Misdirected => Wants(i) \notin Did(i)

\* What a request may leave behind although it was answered with an error.
MayLeave(i) ==
  CASE CallOf(i).method = "LoadModel" -> {Engine("DetachSHM", Blank)}
    [] CallOf(i).method = "SetAIConfig" -> {Ai("snapshots")}
    [] OTHER -> {}

(* An error is an error: nothing of the request took place and nothing of  *)
(* it is under way.  Only the AI engine leaves what it did before it gave  *)
(* up: the old lens detached, the first members of a configuration stored. *)
(* A timeout says nothing either way and is not an error in this sense.    *)
FailureMeansUndone ==
  \A i \in DOMAIN reqs :
    reqs[i].stage = "answered" /\ reqs[i].said = "error" =>
      /\ Did(i) \subseteq MayLeave(i)
      /\ \A k \in DOMAIN engineQ : engineQ[k].id # i
      /\ ~Contains(aiQ, i) /\ ai.id # i

ReceivedBefore(j, i) ==
  \E m, n \in DOMAIN received : m < n /\ received[m] = j /\ received[n] = i

(* Once the engine has done a command, no older one can undo it: a call    *)
(* that timed out earlier has been taken up before.  Only what the AI      *)
(* engine asks for on its own comes later.                                 *)
AckIsFinal ==
  \A i, j \in DOMAIN reqs :
    /\ ReceivedBefore(j, i) /\ reqs[i].said = "done" /\ CallOf(i).to = "engine"
    => \A k \in DOMAIN engineQ : engineQ[k].id = j => engineQ[k].from = "ai"

Public == {Control("login"), Control("mail"), Control("password")}

(* After a logout nothing of that client begins: what still takes place    *)
(* was answered before, without a word on its outcome, when its call ran   *)
(* into the timeout or its service was gone.                               *)
LogoutStopsCommands ==
  [][\A k \in DOMAIN effects' \ DOMAIN effects :
       LET e == effects'[k] IN
       session[reqs[e.id].by] = "none" /\ e.op \notin Public =>
         reqs[e.id].stage = "answered" /\ reqs[e.id].said \notin {"done", "error"}]_vars

\* What the control plane does without a line in the log.  The commands of the
\* engine and the AI engine have none either.
Unlogged == { Control(what) : what \in {"delete-file", "smtp", "log-level"} }
OnRecord(op) == op[1] = "control" /\ op \notin Unlogged

NamesCaller(entry) == "caller" \in {entry.under, entry.by}

\* What a word of the log says was done.
Means(what) ==
  CASE what = "LOGIN_SUCCESS" -> Control("login")
    [] what \in {"OTP_SENT", "FORGOT_PW"} -> Control("mail")
    [] what = "LOGOUT" -> Control("logout")
    [] what = "TOTP_SETUP" -> Control("totp")
    [] what \in {"PW_CHANGED", "PW_RESET"} -> Control("password")
    [] what = "USER_CREATED" -> Control("create-user")
    [] what = "USER_REMOVED" -> Control("delete-user")
    [] what = "device_reboot" -> Control("reboot")
    [] what = "network_reset" -> Control("network-reset")
    [] what = "config_reset" -> Control("config-reset")
    [] what = "factory_reset" -> Control("factory-reset")
    [] OTHER -> Nothing

\* The words written once it is known; the others are written in any case.
Known == {"LOGIN_SUCCESS", "OTP_SENT", "LOGOUT"}
Refusals == {"ACCESS_DENIED", "LOGIN_FAIL", "OTP_FAIL", "TOTP_FAIL", "PW_CHANGE_FAIL",
             "RESET_PW_FAIL"}

(* The activity log, the answers and what took place agree.  What the      *)
(* control plane did, but for the deletion of a recording, the mail server *)
(* and the log level, which leave no line, has a line that says so and     *)
(* names who asked for it; so has every request refused for its role.  A   *)
(* line that says a thing was done belongs to a request answered so, and   *)
(* where the code knew, it was done; a line of a failure belongs to a      *)
(* request answered with an error (auth.c:243-267, http_server.c:525-600). *)
LogAgrees ==
  /\ \A k \in DOMAIN effects :
       OnRecord(effects[k].op) =>
         \E e \in audit : /\ e.id = effects[k].id /\ NamesCaller(e)
                          /\ Means(e.what) = effects[k].op
  /\ \A i \in DOMAIN reqs :
       reqs[i].status = 403 =>
         \E e \in audit : e.id = i /\ NamesCaller(e) /\ e.what = "ACCESS_DENIED"
  /\ \A e \in audit :
       /\ Means(e.what) # Nothing => reqs[e.id].status \in 200..399
       /\ e.what \in Known => Means(e.what) \in Did(e.id)
       /\ e.what \in Refusals => reqs[e.id].status >= 400

(* Every request is answered, whatever the engine and the AI engine do:    *)
(* the loop waits for a bounded time only, and they never wait for it.     *)
AnsweredEventually ==
  \A i \in 1..MaxRequests : (i \in DOMAIN reqs) ~> (i \in DOMAIN reqs /\ reqs[i].stage = "answered")
=============================================================================
