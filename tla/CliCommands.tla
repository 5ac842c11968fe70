---------------------------- MODULE CliCommands ----------------------------
(***************************************************************************)
(* The requests of the two clients: the mock CLI (cli/main.c), which       *)
(* prints the reply, and the menu (cli/smartip_cli.py), which prints a     *)
(* tick for any status below 400, and in the device menu for any at all.   *)
(* Beside each request is what the command is for.  Lens and tier are what *)
(* the user would type; the choices that change only values are one.       *)
(***************************************************************************)
EXTENDS ControlRoutes

Cmd(shows, req, wants) == [shows |-> shows, req |-> req, wants |-> wants]

\* A client sends no body where it has nothing to put in one.
Ask(method, path, keys, tier) ==
  Req(method, path, IF keys = {} THEN "none" ELSE "object", keys, tier)

Get(path) == Ask("GET", path, {}, Blank)
Post(path, keys) == Ask("POST", path, keys, Blank)
Put(path, keys) == Ask("PUT", path, keys, Blank)
Patch(path, keys) == Ask("PATCH", path, keys, Blank)
Delete(path) == Ask("DELETE", path, {}, Blank)

Engine(method, tier) == <<"engine", method, tier>>
Ai(method) == <<"ai", method, Blank>>

Reply(req, wants) == Cmd("reply", req, wants)
Tick(req, wants) == Cmd("tick", req, wants)
Always(req, wants) == Cmd("always", req, wants)

----------------------------------------------------------------------------
(* cli/main.c *)

MockLogin ==
  [mock_login |-> Reply(Post(<<"auth", "login">>, {"username", "password", "right"}),
                        Control("login")),
   mock_login_wrong |-> Reply(Post(<<"auth", "login">>, {"username", "password"}),
                              Control("login")),
   mock_otp |-> Reply(Post(<<"auth", "verify-otp">>, {"username", "otp", "right"}),
                      Control("login")),
   mock_totp |-> Reply(Post(<<"auth", "verify-totp">>, {"username", "totp_code", "right"}),
                       Control("login"))]

MockLens ==
  [mock_status |-> Reply(Get(<<"system", "status">>), Engine("GetStatus", Blank)),
   mock_configure |-> Reply(Patch(<<"lenses", "lens1", "config">>, {"lens", "main"}),
                            Engine("ConfigureLens", Blank)),
   mock_snapshot |-> Reply(Post(<<"lenses", "lens1", "snapshot">>, {}),
                           Engine("TakeSnapshot", Blank))]

\* record_start without an argument sends both members, record_schedule what the
\* user typed; record_stop puts the tier into the path only.
MockRecording ==
  [mock_record_start |->
     Reply(Ask("POST", <<"lenses", "lens1", "recording", "main">>, {"lens", "branch"}, "main"),
           Engine("StartRecording", "main")),
   mock_record_stop |-> Reply(Delete(<<"lenses", "lens1", "recording", "main">>),
                              Engine("StopRecording", "main")),
   mock_record_stop_sub |-> Reply(Delete(<<"lenses", "lens1", "recording", "sub">>),
                                  Engine("StopRecording", "sub")),
   mock_ai_recording_on |->
     Reply(Ask("POST", <<"lenses", "lens1", "recording", "ai">>,
               {"lens", "branch", "mode", "event", "output_dir"}, "ai"),
           Engine("StartRecording", "ai")),
   mock_ai_recording_off |-> Reply(Delete(<<"lenses", "lens1", "recording", "ai">>),
                                   Engine("StopRecording", "ai")),
   mock_record_schedule |->
     Reply(Ask("POST", <<"lenses", "lens1", "recording", "main">>,
               {"lens", "branch", "mode", "scheduled", "start_time", "end_time"}, "sub"),
           Engine("StartRecording", "sub"))]

MockSystem ==
  [mock_log |-> Reply(Put(<<"system", "log_level">>, {"level"}), Engine("SetLogLevel", Blank)),
   mock_ntp |-> Reply(Patch(<<"lenses", "lens1", "ntp_overlay">>,
                            {"lens_id", "tier_name", "ntp_on"}),
                      Engine("ToggleNTP", "main")),
   mock_smtp_get |-> Reply(Get(<<"system", "smtp">>), Nothing),
   mock_smtp |-> Reply(Put(<<"system", "smtp">>, {"host", "port", "use_ssl"}),
                       Control("smtp"))]

MockAdmin ==
  [mock_user_add |-> Reply(Post(<<"users">>, {"username", "password", "role", "email"}),
                           Control("create-user")),
   mock_user_list |-> Reply(Get(<<"users">>), Nothing),
   mock_user_del |-> Reply(Delete(<<"users", "guest">>), Control("delete-user")),
   mock_reboot |-> Reply(Post(<<"device", "reboot">>, {}), Control("reboot")),
   mock_factory_reset |-> Reply(Post(<<"device", "factory-reset">>, {"confirm"}),
                                Control("factory-reset")),
   mock_net_reset |-> Reply(Post(<<"device", "network-reset">>, {}), Control("network-reset")),
   mock_totp_setup |-> Reply(Post(<<"auth", "setup-totp">>, {}), Control("totp")),
   mock_pass_change |-> Reply(Post(<<"auth", "change-password">>,
                                   {"old_password", "new_password", "right"}),
                              Control("password"))]

----------------------------------------------------------------------------
(* cli/smartip_cli.py *)

\* Both steps of the login; do_logout tells the server nothing.
MenuLogin ==
  [menu_login |-> Tick(Post(<<"auth", "login">>, {"username", "password", "right"}),
                       Control("login")),
   menu_otp |-> Tick(Post(<<"auth", "verify-otp">>, {"username", "otp"}), Control("login"))]

\* do_health asks for a path only main.c's system handler gets.
MenuHealth == [menu_health |-> Tick(Get(<<"system", "health">>), Nothing)]

MenuStatus == [menu_status |-> Tick(Get(<<"system", "status">>), Engine("GetStatus", Blank))]

MenuConfigure ==
  [menu_configure |-> Tick(Patch(<<"lenses", "lens1", "config">>, {"main", "sub", "cairo"}),
                           Engine("ConfigureLens", Blank))]

\* Choices 1 to 4; a DELETE carries members the handler does not read.
MenuRecording ==
  [menu_record |->
     Tick(Ask("POST", <<"lenses", "lens1", "recording", "main">>,
              {"lens", "branch", "mode", "output_dir"}, "main"),
          Engine("StartRecording", "main")),
   menu_record_event |->
     Tick(Ask("POST", <<"lenses", "lens1", "recording", "ai">>,
              {"lens", "branch", "mode", "event", "output_dir", "idle_timeout"}, "ai"),
          Engine("StartRecording", "ai")),
   menu_record_schedule |->
     Tick(Ask("POST", <<"lenses", "lens1", "recording", "sub">>,
              {"lens", "branch", "mode", "scheduled", "output_dir", "schedule_type"}, "sub"),
          Engine("StartRecording", "sub")),
   menu_record_stop |->
     Tick(Ask("DELETE", <<"lenses", "lens1", "recording", "main">>, {"lens", "branch"}, "main"),
          Engine("StopRecording", "main")),
   menu_record_stop_sub |->
     Tick(Ask("DELETE", <<"lenses", "lens1", "recording", "sub">>, {"lens", "branch"}, "sub"),
          Engine("StopRecording", "sub"))]

MenuSnapshot ==
  [menu_snapshot |-> Tick(Post(<<"lenses", "lens1", "snapshot">>, {}),
                          Engine("TakeSnapshot", Blank))]

MenuUpdate ==
  [menu_update |-> Tick(Patch(<<"lenses", "lens1", "streams", "sub", "params">>,
                              {"fps", "resolution", "bitrate"}),
                        Engine("UpdateStreamParams", "sub"))]

MenuLogLevel ==
  [menu_log |-> Tick(Put(<<"system", "log_level">>, {"level"}), Engine("SetLogLevel", Blank))]

MenuAiModel ==
  [menu_ai_load |-> Tick(Post(<<"ai", "load">>, {"lens", "model"}), Ai("LoadModel")),
   menu_ai_stop |-> Tick(Post(<<"ai", "stop">>, {"lens"}), Ai("StopModel"))]

\* do_ai_config makes up to three requests of its own.
MenuAiConfig ==
  [menu_ai_config |-> Tick(Post(<<"ai", "config">>, {"lens", "snapshots", "threshold"}),
                           Ai("SetAIConfig")),
   menu_ai_arm |->
     Tick(Ask("POST", <<"lenses", "lens1", "recording">>,
              {"branch", "mode", "event", "output_dir", "idle_timeout"}, "main"),
          Engine("StartRecording", "main")),
   menu_ai_disarm |-> Tick(Delete(<<"lenses", "lens1", "recording">>),
                           Engine("StopRecording", "main")),
   menu_overlay |-> Tick(Patch(<<"lenses", "lens1", "overlay">>, {"enabled", "lens", "branch"}),
                         Engine("ToggleOverlay", Blank))]

MenuAiStatus == [menu_ai_status |-> Tick(Get(<<"ai", "status">>), Ai("GetStatus"))]

\* The stream addresses it prints are opened by a player.
MenuUrls ==
  [player_playlist |-> Tick(Get(<<"stream", "lens1", "main", "playlist.m3u8">>),
                            Engine("StartHLS", "main")),
   player_segment |-> Tick(Get(<<"stream", "lens1", "main", "0.ts">>), Nothing)]

MenuUsers ==
  [menu_user_list |-> Tick(Get(<<"users">>), Nothing),
   menu_user_add |-> Tick(Post(<<"users">>, {"username", "password", "role", "email"}),
                          Control("create-user")),
   menu_user_add_blank |-> Tick(Post(<<"users">>, {"role"}), Control("create-user")),
   menu_user_del |-> Tick(Delete(<<"users", "guest">>), Control("delete-user")),
   menu_user_del_blank |-> Tick(Delete(<<"users", Blank>>), Control("delete-user"))]

\* The fourth entry of the menu, the config reset, sends nothing.
MenuDevice ==
  [menu_reboot |-> Always(Post(<<"device", "reboot">>, {}), Control("reboot")),
   menu_factory_reset |-> Always(Post(<<"device", "factory-reset">>, {"confirm"}),
                                 Control("factory-reset")),
   menu_net_reset |-> Always(Post(<<"device", "network-reset">>, {}), Control("network-reset"))]

\* The third entry, the forgotten password, sends nothing.
MenuSecurity ==
  [menu_totp_setup |-> Tick(Post(<<"auth", "setup-totp">>, {}), Control("totp")),
   menu_pass_change |-> Tick(Post(<<"auth", "change-password">>, {"old_password", "new_password"}),
                             Control("password"))]

\* With every question skipped the body is empty.
MenuSmtp ==
  [menu_smtp_get |-> Tick(Get(<<"system", "smtp">>), Nothing),
   menu_smtp |-> Tick(Put(<<"system", "smtp">>, {"host"}), Control("smtp")),
   menu_smtp_blank |-> Tick(Put(<<"system", "smtp">>, {}), Control("smtp"))]

----------------------------------------------------------------------------
(* What other clients of the same interface send. *)

Api ==
  [api_logout |-> Reply(Post(<<"auth", "logout">>, {}), Control("logout")),
   api_forgot |-> Reply(Post(<<"auth", "forgot-password">>, {"username"}), Control("mail")),
   api_reset |-> Reply(Post(<<"auth", "reset-password">>, {"username", "otp", "new_password",
                                                          "right"}), Control("password")),
   api_reset_wrong |-> Reply(Post(<<"auth", "reset-password">>, {"username", "otp"}),
                             Control("password")),
   api_dashboard |-> Reply(Get(<<>>), Nothing),
   api_unknown |-> Reply(Post(<<"settings">>, {"x"}), Nothing),
   api_health |-> Reply(Get(<<"health">>), Nothing),
   api_preflight |-> Reply(Ask("OPTIONS", <<"stream", "lens1">>, {}, Blank), Nothing),
   api_stream_short |-> Reply(Get(<<"stream", "lens1">>), Nothing),
   api_files |-> Reply(Get(<<"files", "a.mp4">>), Nothing),
   api_files_put |-> Reply(Put(<<"files", "a.mp4">>, {}), Nothing),
   api_list |-> Reply(Get(<<"recordings">>), Nothing),
   api_remove |-> Reply(Delete(<<"recordings", "a.mp4">>), Control("delete-file")),
   api_overlay |-> Reply(Patch(<<"lenses", "lens1", "overlay">>,
                               {"lens_id", "tier_name", "overlay_on"}),
                         Engine("ToggleOverlay", Blank)),
   api_config_bad |-> Reply(Req("PATCH", <<"lenses", "lens1", "config">>, "bad", {}, Blank),
                            Engine("ConfigureLens", Blank)),
   api_params_path |-> Reply(Patch(<<"lenses", "lens1", "streams", "sub">>, {"fps"}),
                             Engine("UpdateStreamParams", "sub")),
   api_lens_put |-> Reply(Put(<<"lenses", "lens1", "snapshot">>, {}), Nothing),
   api_ai_overlay |-> Reply(Post(<<"ai", "config">>, {"lens", "overlay"}),
                            Engine("ToggleOverlay", Blank)),
   api_ai_blank |-> Reply(Post(<<"ai", "load">>, {}), Ai("LoadModel")),
   api_device_status |-> Reply(Get(<<"device", "status">>), Nothing),
   api_config_reset |-> Reply(Post(<<"device", "config-reset">>, {}), Control("config-reset")),
   api_device_unknown |-> Reply(Post(<<"device", "halt">>, {}), Nothing)]

Commands ==
  MockLogin @@ MockLens @@ MockRecording @@ MockSystem @@ MockAdmin @@ MenuLogin @@
  MenuHealth @@ MenuStatus @@ MenuConfigure @@ MenuRecording @@ MenuSnapshot @@ MenuUpdate @@
  MenuLogLevel @@ MenuAiModel @@ MenuAiConfig @@ MenuAiStatus @@ MenuUrls @@ MenuUsers @@
  MenuDevice @@ MenuSecurity @@ MenuSmtp @@ Api

(* The commands that cannot do what they are for, because the request they *)
(* make is routed, filled or spelt otherwise than the other side expects.  *)
Misdirected ==
  { "mock_record_stop_sub", "menu_record_stop_sub", "mock_ai_recording_off",
    "mock_ntp", "menu_overlay", "api_ai_overlay",
    "mock_factory_reset", "menu_factory_reset", "api_config_reset" }
=============================================================================
