--------------------------- MODULE ControlRoutes ---------------------------
(***************************************************************************)
(* What the control plane does with an HTTP request before anything moves: *)
(* which handler gets it, the checks of that handler in the order they are *)
(* made, and the bus call an accepted request becomes                      *)
(* (control_plane/main.c, core/http_server.c, engine/api/dbus_handlers.c). *)
(* CliCommands has the requests the two command line clients make.         *)
(*                                                                         *)
(* A path is the sequence of its components after /api/v1; the one served  *)
(* from outside it, /recordings, starts with "files".  Of a body the model *)
(* keeps whether there is one, whether it parses, which members it has,    *)
(* and the value of "branch".  A member is in keys when it is there and    *)
(* not empty or false.  "right" stands for credentials that match and a    *)
(* new password the policy takes; "event" and "scheduled" for that value   *)
(* of "mode".  A hash that cannot be made ends the process where a user is *)
(* added (g_error) and is left out there.                                  *)
(***************************************************************************)
EXTENDS AccessRoles, FiniteSets, SequencesExt

\* The empty string: no component, no tier, no word.
Blank == ""

Req(method, path, body, keys, tier) ==
  [method |-> method, path |-> path, body |-> body, keys |-> keys, tier |-> tier]

\* The last component; strrchr(path, '/') + 1.
Suffix(r) == IF r.path = <<>> THEN Blank ELSE Last(r.path)
Part(r, i) == IF i <= Len(r.path) THEN r.path[i] ELSE Blank

----------------------------------------------------------------------------
(* Routing: the handler registered for the longest prefix of the path. The *)
(* handlers of main.c replace those of http_server.c for three of them.    *)

Registered ==
  { <<>>, <<"health">>, <<"stream">>, <<"files">>, <<"system">>, <<"lenses">>,
    <<"recordings">>, <<"ai">>, <<"users">>, <<"device">>, <<"system", "smtp">>,
    <<"auth", "login">>, <<"auth", "verify-otp">>, <<"auth", "verify-totp">>,
    <<"auth", "setup-totp">>, <<"auth", "logout">>, <<"auth", "change-password">>,
    <<"auth", "forgot-password">>, <<"auth", "reset-password">> }

Handler(r) ==
  CHOOSE p \in Registered :
    /\ IsPrefix(p, r.path)
    /\ \A q \in Registered : IsPrefix(q, r.path) => Len(q) <= Len(p)

----------------------------------------------------------------------------
(* A check is <<what must hold, the status when it does not>>.             *)

Authorized(role, required) ==
  << <<role # "none", 401>>, <<RoleSatisfies(role, required), 403>> >>

Method(r, methods) == << <<r.method \in methods, 405>> >>
ParseBody(r) == << <<r.body = "object", 400>> >>
SomeBody(r) == << <<r.body # "none", 400>> >>
Has(r, key, status) == << <<key \in r.keys, status>> >>

RootChecks(r) == Method(r, {"GET"})
HealthChecks(r) == Method(r, {"GET"})

\* login, verify-otp, verify-totp: no token, the credentials decide.
LoginChecks(r) == Method(r, {"POST"}) \o ParseBody(r) \o Has(r, "right", 401)
VerifyOtpChecks(r) == Method(r, {"POST"}) \o ParseBody(r) \o Has(r, "right", 401)
VerifyTotpChecks(r) == Method(r, {"POST"}) \o ParseBody(r) \o Has(r, "right", 401)

\* forgot-password says yes to everyone.
ForgotChecks(r) == Method(r, {"POST"}) \o ParseBody(r)
ResetChecks(r) == Method(r, {"POST"}) \o ParseBody(r) \o Has(r, "right", 400)

SetupTotpChecks(r, role) == Method(r, {"POST"}) \o Authorized(role, "viewer")
LogoutChecks(r, role) == Method(r, {"POST"}) \o << <<role # "none", 401>> >>
ChangePasswordChecks(r, role) ==
  Method(r, {"POST"}) \o Authorized(role, "viewer") \o ParseBody(r) \o Has(r, "right", 400)

UsersChecks(r, role, exists) ==
  Authorized(role, "admin") \o Method(r, {"GET", "POST", "DELETE"}) \o
  CASE r.method = "POST" ->
         ParseBody(r) \o Has(r, "username", 400) \o Has(r, "password", 400)
                      \o << <<~exists, 409>> >>
    [] r.method = "DELETE" -> << <<Suffix(r) # Blank, 400>>, <<exists, 404>> >>
    [] OTHER -> <<>>

DeviceActions == {"status", "reboot", "network-reset", "config-reset", "factory-reset"}

DeviceChecks(r, role) ==
  LET action == Suffix(r) IN
  << <<action # Blank, 400>> >> \o
  Authorized(role, CASE action = "status" -> "viewer"
                     [] action = "network-reset" -> "operator"
                     [] OTHER -> "admin") \o
  << <<action \in DeviceActions, 404>> >> \o
  Method(r, IF action = "status" THEN {"GET"} ELSE {"POST"}) \o
  IF action = "factory-reset" THEN ParseBody(r) \o Has(r, "confirm", 400) ELSE <<>>

\* The role is asked for first, whatever the method; anything else than OPTIONS is a GET.
StreamChecks(r, role) ==
  Authorized(role, "viewer") \o << <<r.method = "OPTIONS" \/ Len(r.path) >= 4, 404>> >>

FilesChecks(r, role) ==
  Authorized(role, "viewer") \o Method(r, {"GET"}) \o << <<Suffix(r) # Blank, 404>> >>

RecordingsChecks(r, role) ==
  CASE r.method = "GET" -> Authorized(role, "viewer")
    [] r.method = "DELETE" -> Authorized(role, "operator") \o << <<Suffix(r) # Blank, 400>> >>
    [] OTHER -> Method(r, {"GET", "DELETE"})

SmtpChecks(r, role) ==
  Authorized(role, "admin") \o Method(r, {"GET", "PUT"}) \o
  IF r.method = "PUT" THEN ParseBody(r) ELSE <<>>

SystemChecks(r, role) ==
  CASE Suffix(r) = "status" -> Authorized(role, "viewer") \o Method(r, {"GET"})
    [] Suffix(r) = "log_level" ->
         Authorized(role, "admin") \o Method(r, {"PUT"}) \o ParseBody(r)
    [] OTHER -> << <<FALSE, 404>> >>

LensChecks(r, role) ==
  Authorized(role, "operator") \o << <<Len(r.path) >= 3, 404>> >> \o
  CASE Part(r, 3) = "config" -> Method(r, {"PATCH"}) \o ParseBody(r)
    [] Part(r, 3) = "recording" -> Method(r, {"POST", "DELETE"})
    [] Part(r, 3) = "snapshot" -> Method(r, {"POST"})
    [] Part(r, 3) = "streams" ->
         Method(r, {"PATCH"}) \o << <<Part(r, 5) = "params", 404>> >> \o SomeBody(r)
    [] Part(r, 3) = "overlay" -> Method(r, {"PATCH"}) \o SomeBody(r)
    [] OTHER -> << <<FALSE, 404>> >>

AiEndpoint(r) ==
  CASE Suffix(r) = "status" /\ r.method = "GET" -> "GetStatus"
    [] Suffix(r) = "load" /\ r.method = "POST" -> "LoadModel"
    [] Suffix(r) = "stop" /\ r.method = "POST" -> "StopModel"
    [] Suffix(r) = "config" /\ r.method = "POST" -> "SetAIConfig"
    [] OTHER -> Blank

AiChecks(r, role) ==
  Authorized(role, "operator") \o << <<AiEndpoint(r) # Blank, 404>> >> \o
  IF AiEndpoint(r) = "GetStatus" THEN <<>> ELSE << <<r.body # "none", 500>> >>

Checks(r, role, exists) ==
  LET h == Handler(r) IN
  CASE h = <<>> -> RootChecks(r)
    [] h = <<"health">> -> HealthChecks(r)
    [] h = <<"auth", "login">> -> LoginChecks(r)
    [] h = <<"auth", "verify-otp">> -> VerifyOtpChecks(r)
    [] h = <<"auth", "verify-totp">> -> VerifyTotpChecks(r)
    [] h = <<"auth", "forgot-password">> -> ForgotChecks(r)
    [] h = <<"auth", "reset-password">> -> ResetChecks(r)
    [] h = <<"auth", "setup-totp">> -> SetupTotpChecks(r, role)
    [] h = <<"auth", "logout">> -> LogoutChecks(r, role)
    [] h = <<"auth", "change-password">> -> ChangePasswordChecks(r, role)
    [] h = <<"users">> -> UsersChecks(r, role, exists)
    [] h = <<"device">> -> DeviceChecks(r, role)
    [] h = <<"stream">> -> StreamChecks(r, role)
    [] h = <<"files">> -> FilesChecks(r, role)
    [] h = <<"recordings">> -> RecordingsChecks(r, role)
    [] h = <<"system", "smtp">> -> SmtpChecks(r, role)
    [] h = <<"system">> -> SystemChecks(r, role)
    [] h = <<"lenses">> -> LensChecks(r, role)
    [] h = <<"ai">> -> AiChecks(r, role)

\* The status of the first check that fails, 0 when the request is accepted.
Refusal(r, role, exists) ==
  LET checks == Checks(r, role, exists)
      failed == {i \in DOMAIN checks : ~checks[i][1]}
  IN IF failed = {} THEN 0
     ELSE checks[CHOOSE i \in failed : \A j \in failed : i <= j][2]

----------------------------------------------------------------------------
(* What an accepted request asks for.  An operation is <<where, what, of   *)
(* which tier>>; the tier is Blank where none is named.                    *)

Nothing == <<"none", Blank, Blank>>
Control(what) == <<"control", what, Blank>>

IsPlaylist(r) == Suffix(r) = "playlist.m3u8"

\* The bus call: the service, the method, the members it is sent, the tier.
BusCall(service, method, keys, tier) ==
  [to |-> service, method |-> method, keys |-> keys, tier |-> tier]

NoCall == BusCall("none", Blank, {}, Blank)

Call(r) ==
  LET h == Handler(r)
  IN CASE h = <<"lenses">> ->
            (CASE Part(r, 3) = "config" ->
                    BusCall("engine", "ConfigureLens", r.keys \cup {"lens"}, Blank)
               [] Part(r, 3) = "recording" /\ r.method = "POST" ->
                    BusCall("engine", "StartRecording", r.keys,
                       IF r.body = "none" THEN "main" ELSE r.tier)
               [] Part(r, 3) = "recording" /\ r.method = "DELETE" ->
                    BusCall("engine", "StopRecording", {"lens", "branch"}, "main")
               [] Part(r, 3) = "snapshot" ->
                    BusCall("engine", "TakeSnapshot", {"lens", "path"}, Blank)
               [] Part(r, 3) = "streams" ->
                    BusCall("engine", "UpdateStreamParams", r.keys, Part(r, 4))
               [] Part(r, 3) = "overlay" -> BusCall("engine", "ToggleOverlay", r.keys, r.tier)
               [] OTHER -> NoCall)
       [] h = <<"system">> ->
            IF Suffix(r) = "status" THEN BusCall("engine", "GetStatus", {}, Blank)
            ELSE BusCall("engine", "SetLogLevel", r.keys, Blank)
       [] h = <<"stream">> /\ r.method # "OPTIONS" /\ (IsPlaylist(r) \/ Suffix(r) = "0.ts") ->
            BusCall("engine", "StartHLS", {"lens", "branch", "output_dir"}, Part(r, 3))
       [] h = <<"ai">> -> BusCall("ai", AiEndpoint(r), r.keys, Blank)
       [] OTHER -> NoCall

\* The members a method does not do without.
Needs(method) ==
  CASE method = "ToggleOverlay" -> {"overlay_on"}
    [] method = "ToggleNTP" -> {"ntp_on"}
    [] method = "TakeSnapshot" -> {"path"}
    [] OTHER -> {}

EngineMethods ==
  { "ConfigureLens", "UpdateStreamParams", "StopLens", "TakeSnapshot", "StartRecording",
    "StopRecording", "StartHLS", "StopHLS", "GetStatus", "SetLogLevel", "AttachSHM",
    "DetachSHM", "ToggleOverlay", "ToggleNTP", "SaveCurrentConfig" }

\* The tiers branch_configs may have.  An armed recording takes any: it goes by
\* rec_defaults or a format of its own and need not find a branch.
Tiers == {Blank, "main", "sub", "third"}
Armed(call) == call.method = "StartRecording" /\ {"event", "scheduled"} \cap call.keys # {}

\* Whether the engine can do what the call asks for, in some state of its own.
Understood(call) ==
  /\ call.method \in EngineMethods
  /\ Needs(call.method) \subseteq call.keys
  /\ call.tier \in Tiers \/ Armed(call)

\* What a call does where it is done.
Does(call) == <<call.to, call.method, call.tier>>

\* What the control plane does itself before it calls.
LocalEffect(r) ==
  IF Handler(r) = <<"system">> /\ Suffix(r) = "log_level" THEN Control("log-level") ELSE Nothing

----------------------------------------------------------------------------
(* How an accepted request can end when no bus call answers it: the        *)
(* status, what took place, and the lines the activity log gets.  A line   *)
(* is under the account of the caller or of the target; its details may    *)
(* name the caller too.                                                    *)

Line(what, under, by) == [what |-> what, under |-> under, by |-> by]
Own(what) == Line(what, "caller", Blank)

WaysOut(status, ops, lines) == {[status |-> status, op |-> op, lines |-> lines] : op \in ops}
Plain(status) == WaysOut(status, {Nothing}, {})

\* The handler does not look at the result.
Perhaps(op) == {op, Nothing}

\* Without an address the token comes at once, else a code is mailed.
LoginEnds ==
  WaysOut(200, {Control("login")}, {Own("LOGIN_SUCCESS")})
    \cup WaysOut(202, {Control("mail")}, {Own("OTP_SENT")})
    \cup WaysOut(202, {Nothing}, {Own("OTP_SEND_FAIL")})

VerifyOtpEnds ==
  WaysOut(200, {Control("login")}, {Own("OTP_VERIFIED"), Own("LOGIN_SUCCESS")})
    \cup WaysOut(202, {Nothing}, {Own("OTP_VERIFIED")})

VerifyTotpEnds == WaysOut(200, {Control("login")}, {Own("TOTP_VERIFIED"), Own("LOGIN_SUCCESS")})

\* No such account any more, or no picture of the code: 500.
SetupTotpEnds == WaysOut(200, Perhaps(Control("totp")), {Own("TOTP_SETUP")}) \cup Plain(500)

LogoutEnds == WaysOut(200, {Control("logout")}, {Own("LOGOUT")})

\* 400 where the account is gone or the hash cannot be made.
PasswordEnds(what) == WaysOut(200, Perhaps(Control("password")), {Own(what)}) \cup Plain(400)

\* Without an account or an address nothing at all.
ForgotEnds == Plain(200) \cup WaysOut(200, Perhaps(Control("mail")), {Own("FORGOT_PW")})

\* token_auth_add_user has a line of its own, without the administrator.
UsersEnds(r) ==
  CASE r.method = "POST" ->
         WaysOut(201, Perhaps(Control("create-user")),
              {Line("USER_CREATED", "target", Blank), Line("USER_CREATED", "target", "caller")})
    [] r.method = "DELETE" ->
         WaysOut(200, Perhaps(Control("delete-user")), {Line("USER_REMOVED", "target", "caller")})
    [] OTHER -> Plain(200)

\* The two resets of the configuration are stubs.
DeviceEnds(r) ==
  CASE Suffix(r) = "reboot" -> WaysOut(200, Perhaps(Control("reboot")), {Own("device_reboot")})
    [] Suffix(r) = "network-reset" ->
         WaysOut(200, Perhaps(Control("network-reset")), {Own("network_reset")})
    [] Suffix(r) = "config-reset" -> WaysOut(200, {Nothing}, {Own("config_reset")})
    [] Suffix(r) = "factory-reset" -> WaysOut(200, {Nothing}, {Own("factory_reset")})
    [] OTHER -> WaysOut(200, {Nothing}, {Own("device_status")})

StreamEnds(r) == IF r.method = "OPTIONS" THEN Plain(204) ELSE Plain(200) \cup Plain(404)

RecordingsEnds(r) ==
  IF r.method = "DELETE" THEN WaysOut(200, {Control("delete-file")}, {}) \cup Plain(404)
  ELSE Plain(200)

SmtpEnds(r) ==
  IF r.method = "PUT" THEN WaysOut(200, Perhaps(Control("smtp")), {})
  ELSE Plain(200) \cup Plain(500)

LocalEnds(r) ==
  LET h == Handler(r) IN
  CASE h = <<"auth", "login">> -> LoginEnds
    [] h = <<"auth", "verify-otp">> -> VerifyOtpEnds
    [] h = <<"auth", "verify-totp">> -> VerifyTotpEnds
    [] h = <<"auth", "setup-totp">> -> SetupTotpEnds
    [] h = <<"auth", "logout">> -> LogoutEnds
    [] h = <<"auth", "change-password">> -> PasswordEnds("PW_CHANGED")
    [] h = <<"auth", "reset-password">> -> PasswordEnds("PW_RESET")
    [] h = <<"auth", "forgot-password">> -> ForgotEnds
    [] h = <<"users">> -> UsersEnds(r)
    [] h = <<"device">> -> DeviceEnds(r)
    [] h = <<"stream">> -> StreamEnds(r)
    [] h = <<"files">> -> Plain(200) \cup Plain(404)
    [] h = <<"recordings">> -> RecordingsEnds(r)
    [] h = <<"system", "smtp">> -> SmtpEnds(r)
    [] OTHER -> Plain(200)

\* A 202 asks for the next step of the login.
SaidOf(status) == CASE status >= 400 -> "error" [] status = 202 -> "more" [] OTHER -> "done"

\* The lines of a refused request.
RefusalLines(r, status) ==
  LET h == Handler(r) IN
  IF status = 403 THEN {Own("ACCESS_DENIED")}
  ELSE IF r.body # "object" THEN {}
  ELSE CASE h = <<"auth", "login">> /\ status = 401 -> {Own("LOGIN_FAIL")}
         [] h = <<"auth", "verify-otp">> /\ status = 401 -> {Own("OTP_FAIL")}
         [] h = <<"auth", "verify-totp">> /\ status = 401 -> {Own("TOTP_FAIL")}
         [] h = <<"auth", "change-password">> /\ status = 400 -> {Own("PW_CHANGE_FAIL")}
         [] h = <<"auth", "reset-password">> /\ status = 400 -> {Own("RESET_PW_FAIL")}
         [] OTHER -> {}
=============================================================================
