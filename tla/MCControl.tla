----------------------------- MODULE MCControl -----------------------------
(* Two clients, one with every right and one with few; all the commands.   *)
EXTENDS Control

CONSTANTS alice, bob

RoleAccount(c) == IF c = alice THEN "admin" ELSE "viewer"
AllCommands == DOMAIN Commands
RivalCommands == {"mock_configure", "menu_ai_load", "api_logout"}
=============================================================================
