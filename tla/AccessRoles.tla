------------------------------ MODULE AccessRoles ------------------------------
(* The roles of the control plane's users and their order, _role_satisfies in *)
(* core/http_server.c; "none" is the role of a request without a valid token. *)
EXTENDS Naturals

Roles == {"none", "viewer", "operator", "admin"}

Rank == [none |-> 0, viewer |-> 1, operator |-> 2, admin |-> 3]

RoleSatisfies(actual, required) == Rank[actual] >= Rank[required]
================================================================================
