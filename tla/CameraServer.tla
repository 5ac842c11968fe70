---------------------------- MODULE CameraServer ----------------------------
(***************************************************************************)
(* The SmartCamera server (high_feature_control_plane), an earlier server  *)
(* with a build and a database of its own: accounts in SQLite, the second  *)
(* factor of a login, passwords reset by a proof, and the one gst-launch   *)
(* child that streams the camera.  libmicrohttpd gives every connection a  *)
(* thread (server_version1.c:1563), so a handler is interrupted wherever   *)
(* it lets go of _sess_mutex, of stream_mutex or of the database: each     *)
(* step below is one stretch between two such places, and work[c] is what  *)
(* the thread of connection c carries across.                              *)
(*                                                                         *)
(* A code a client got wrong, a password the policy refuses and a mail     *)
(* that fails end a request as it stands and are left out.  Ids, tokens    *)
(* and hashes are drawn, so only their being the same or not is kept;      *)
(* times are the ticks that are left.  Bounds: the sets Conns and Pids and *)
(* the slots of the two tables.                                            *)
(***************************************************************************)
EXTENDS Naturals, FiniteSets

CONSTANTS People,                    \* names an account can have
          SeedRole,                  \* the role of each account setup() adds
          OldTables,                 \* what users.db may hold at the first start
          Hashes,                    \* what hash_password makes of accepted passwords
          Conns, Pids,
          SessionSlots, MaxPendings, \* MAX_SESSIONS and MAX_PENDING
          SessionTtl, CodeTtl,       \* TOKEN_TTL_SEC and OTP_TTL_SEC
          AddedRoles,                \* roles asked for in add-user
          Nil

ServerRoles == {"admin", "operator", "viewer"}

Viewing == {"secure-data", "start-stream", "stop-stream", "device:status"}
Operating == Viewing \cup {"device:network-reset", "device:config-reset"}
Administering == Operating \cup {"device:reboot", "device:factory-reset",
                                 "manage:add-user", "manage:remove-user"}

Permitted == [admin |-> Administering, operator |-> Operating, viewer |-> Viewing]

UserRecord == [role : ServerRoles, email : BOOLEAN, totp : BOOLEAN, hash : Hashes]

\* A PendingSession; proved is otp_verified or totp_verified.
PendingEntry == [reset : BOOLEAN, proved : BOOLEAN, role : ServerRoles, left : 0..CodeTtl]

LoginSession == [user : People, role : ServerRoles, left : 0..SessionTtl]

ASSUME CameraAssumption ==
  /\ DOMAIN SeedRole \subseteq People
  /\ \A u \in DOMAIN SeedRole : SeedRole[u] \in ServerRoles
  /\ OldTables \subseteq [People -> UserRecord \cup {Nil}]
  /\ AddedRoles \subseteq ServerRoles /\ Hashes # {}
  /\ MaxPendings \in Nat /\ SessionTtl \in Nat /\ CodeTtl \in Nat
  /\ Nil \notin UserRecord \cup PendingEntry \cup LoginSession \cup ServerRoles
                  \cup Pids \cup People

VARIABLES
  rows,        \* rows[u]: the account of u in users.db, Nil without one
  pendings,    \* pendings[u]: u's slot of _pending, Nil without an active one
  sessions,    \* sessions[s]: slot s of _sessions, Nil when not active
  work,        \* work[c]: where the thread of c is, for whom, with which copy
  stream_pid,
  kids,        \* kids[p]: what the child p of the server is, "none" once reaped
  ended,       \* children that have exited
  awaited,     \* the child the holder of stream_mutex waits for, Nil when it is free
  proven,      \* proven[u]: u entered a reset code or a TOTP no reset has used yet
  raced        \* raced[u]: requests about the pending entry of u have overlapped

cameraVars == <<rows, pendings, sessions, work, stream_pid, kids, ended, awaited,
                proven, raced>>
accountState == <<rows, pendings, sessions, proven, raced>>
streamState == <<stream_pid, kids, ended, awaited>>

\* Places a thread can stop at: inside a handler, or past require_auth.
Stages == {"rest", "set", "verified", "issue", "reset", "stored", "insert", "stopping"}
            \cup Administering

AtRest == [at |-> "rest", user |-> Nil, copy |-> Nil]

Goes(c, at, u, copy) ==
  work' = [work EXCEPT ![c] = [at |-> at, user |-> u, copy |-> copy]]

\* The response is sent; another request may come in on c.
Replies(c) == work' = [work EXCEPT ![c] = AtRest]

----------------------------------------------------------------------------
(* The tables (db_manager, session_manager) *)

HasAccount(u) == rows[u] # Nil
HasMail(u) == HasAccount(u) /\ rows[u].email
HasAuthenticator(u) == HasAccount(u) /\ rows[u].totp

\* INSERT OR IGNORE
Inserted(table, u, row) == IF table[u] = Nil THEN [table EXCEPT ![u] = row] ELSE table

\* UPDATE changes no row when there is none.
WithHash(u, h) == IF HasAccount(u) THEN [rows EXCEPT ![u].hash = h] ELSE rows

WithSecret(u) == IF HasAccount(u) THEN [rows EXCEPT ![u].totp = TRUE] ELSE rows

RowsWithout(u) == [rows EXCEPT ![u] = Nil]

PendingFound(u) == pendings[u] # Nil /\ pendings[u].left > 0

\* Over the user's entry, or in a free slot; a full table drops it.
PendingWith(u, entry) ==
  IF pendings[u] # Nil \/ Cardinality({v \in People : pendings[v] # Nil}) < MaxPendings
  THEN [pendings EXCEPT ![u] = entry] ELSE pendings

PendingWithout(u) == [pendings EXCEPT ![u] = Nil]

SessionsWithout(s) == [sessions EXCEPT ![s] = Nil]

\* pending_get or validate_session meets an entry that is too old.
PendingLapses(u) ==
  /\ pendings[u] # Nil /\ pendings[u].left = 0
  /\ pendings' = PendingWithout(u)
  /\ UNCHANGED <<rows, sessions, work, proven, raced, streamState>>

SessionLapses(s) ==
  /\ sessions[s] # Nil /\ sessions[s].left = 0
  /\ sessions' = SessionsWithout(s)
  /\ UNCHANGED <<rows, pendings, work, proven, raced, streamState>>

----------------------------------------------------------------------------
(* Logging in and resetting a password.  A request copies or makes an      *)
(* entry in one stretch and writes or uses it in a later one.              *)

NewEntry(u, reset, proved) ==
  [reset |-> reset, proved |-> proved, role |-> rows[u].role, left |-> CodeTtl]

\* Threads that will still write, use or delete an entry of u.
Handling(u) == {c \in Conns : work[c].user = u /\ work[c].at \in {"set", "reset", "stored"}}

Begins(c, at, u, copy) ==
  /\ work[c].at = "rest"
  /\ Goes(c, at, u, copy)
  /\ raced' = [raced EXCEPT ![u] = @ \/ Handling(u) # {}]
  /\ UNCHANGED <<rows, pendings, sessions, streamState>>

Proves(u) == proven' = [proven EXCEPT ![u] = TRUE]

\* The password was right.
HandleLogin(c, u) ==
  HasAccount(u) /\ Begins(c, "set", u, NewEntry(u, FALSE, FALSE)) /\ UNCHANGED proven

HandleSendEmailOtp(c, u) ==
  /\ PendingFound(u) /\ HasMail(u)
  /\ Begins(c, "set", u, [pendings[u] EXCEPT !.left = CodeTtl])
  /\ UNCHANGED proven

HandleForgotSendEmail(c, u) ==
  HasMail(u) /\ Begins(c, "set", u, NewEntry(u, TRUE, FALSE)) /\ UNCHANGED proven

HandleForgotVerifyOtp(c, u) ==
  /\ PendingFound(u) /\ pendings[u].reset
  /\ Begins(c, "set", u, [pendings[u] EXCEPT !.proved = TRUE])
  /\ Proves(u)

HandleForgotVerifyTotp(c, u) ==
  HasAuthenticator(u) /\ Begins(c, "set", u, NewEntry(u, TRUE, TRUE)) /\ Proves(u)

HandleResetPassword(c, u) ==
  /\ PendingFound(u) /\ pendings[u].reset /\ pendings[u].proved
  /\ Begins(c, "reset", u, Nil)
  /\ UNCHANGED proven

Verifies(c, u) ==
  /\ work[c].at = "rest" /\ PendingFound(u)
  /\ Goes(c, "verified", u, pendings[u])
  /\ UNCHANGED <<accountState, streamState>>

\* What the entry holds is entered, be it an entry for a login or for a reset.
HandleVerifyOtp(c, u) == Verifies(c, u)

HandleVerifyTotp(c, u) == HasAuthenticator(u) /\ Verifies(c, u)

SetsEntry(c) ==
  /\ work[c].at = "set"
  /\ pendings' = PendingWith(work[c].user, work[c].copy)
  /\ Replies(c)
  /\ UNCHANGED <<rows, sessions, proven, raced, streamState>>

StoresHash(c, h) ==
  /\ work[c].at = "reset"
  /\ rows' = WithHash(work[c].user, h)
  /\ proven' = [proven EXCEPT ![work[c].user] = FALSE]
  /\ Goes(c, "stored", work[c].user, Nil)
  /\ UNCHANGED <<pendings, sessions, raced, streamState>>

\* A reset that left its entry to lapse by itself.
PendingKept(c) == pendings

PendingSpent(c) == PendingWithout(work[c].user)

DeletesEntry(c) ==
  /\ work[c].at \in {"verified", "stored"}
  /\ pendings' = PendingSpent(c)
  /\ IF work[c].at = "verified" THEN Goes(c, "issue", work[c].user, work[c].copy)
     ELSE Replies(c)
  /\ UNCHANGED <<rows, sessions, proven, raced, streamState>>

\* create_session; with the table full the client gets a token no slot holds.
CreatesSession(c) ==
  LET free == {s \in SessionSlots : sessions[s] = Nil} IN
  /\ work[c].at = "issue"
  /\ \/ \E s \in free : sessions' = [sessions EXCEPT ![s] =
          [user |-> work[c].user, role |-> work[c].copy.role, left |-> SessionTtl]]
     \/ free = {} /\ UNCHANGED sessions
  /\ Replies(c)
  /\ UNCHANGED <<rows, pendings, proven, raced, streamState>>

\* An account without a secret gets one before it is mailed.
HandleResendTotp(u) ==
  /\ HasMail(u)
  /\ rows' = WithSecret(u)
  /\ UNCHANGED <<pendings, sessions, work, proven, raced, streamState>>

----------------------------------------------------------------------------
(* Requests with a token *)

Allowed(s, action) ==
  /\ sessions[s] # Nil /\ sessions[s].left > 0
  /\ action \in Permitted[sessions[s].role]

\* require_auth lets the request pass; what it does comes later.
RequireAuth(c, s, action) ==
  /\ work[c].at = "rest" /\ Allowed(s, action)
  /\ Goes(c, action, sessions[s].user, Nil)
  /\ UNCHANGED <<accountState, streamState>>

Finishes(c, action) ==
  work[c].at = action /\ Replies(c) /\ UNCHANGED <<accountState, streamState>>

HandleSecureData(c) == Finishes(c, "secure-data")
HandleDeviceStatus(c) == Finishes(c, "device:status")
HandleNetworkReset(c) == Finishes(c, "device:network-reset")
HandleConfigReset(c) == Finishes(c, "device:config-reset")
HandleFactoryReset(c) == Finishes(c, "device:factory-reset")

HandleLogout(s) ==
  /\ sessions[s] # Nil /\ sessions[s].left > 0
  /\ sessions' = SessionsWithout(s)
  /\ UNCHANGED <<rows, pendings, work, proven, raced, streamState>>

\* user_exists, then the mail with the QR code, and only then the INSERT.
HandleAddUser(c, u) ==
  /\ work[c].at = "manage:add-user"
  /\ IF HasAccount(u) THEN Replies(c) ELSE Goes(c, "insert", u, Nil)
  /\ UNCHANGED <<accountState, streamState>>

Inserts(c, role, h) ==
  /\ work[c].at = "insert"
  /\ rows' = Inserted(rows, work[c].user,
                      [role |-> role, email |-> TRUE, totp |-> TRUE, hash |-> h])
  /\ Replies(c)
  /\ UNCHANGED <<pendings, sessions, proven, raced, streamState>>

\* Not one's own account.  The sessions and the pending entry of u stay.
HandleRemoveUser(c, u) ==
  /\ work[c].at = "manage:remove-user"
  /\ rows' = IF u = work[c].user THEN rows ELSE RowsWithout(u)
  /\ Replies(c)
  /\ UNCHANGED <<pendings, sessions, proven, raced, streamState>>

----------------------------------------------------------------------------
(* The stream, under stream_mutex *)

LockIgnored == TRUE

LockFree == awaited = Nil

Alive == {p \in Pids : kids[p] # "none"} \ ended

\* waitpid(stream_pid, NULL, WNOHANG) == 0
Streaming == stream_pid \in Alive

\* waitpid finds p ended; a pid it reaped can be given to another child.
Reaped(p) == [q \in Pids |-> IF q = p /\ p \in ended THEN "none" ELSE kids[q]]

\* /dev/video<n> cannot be opened or captures nothing.
HasNoCamera(c) == Finishes(c, "start-stream")

HandleStartStream(c) ==
  /\ work[c].at = "start-stream" /\ LockFree
  /\ IF Streaming THEN UNCHANGED <<stream_pid, kids, ended>>
     ELSE /\ ended' = ended \ {stream_pid}
          /\ \/ \E p \in Pids :
                  /\ Reaped(stream_pid)[p] = "none"
                  /\ kids' = [Reaped(stream_pid) EXCEPT ![p] = "stream"]
                  /\ stream_pid' = p
             \/ kids' = Reaped(stream_pid) /\ UNCHANGED stream_pid    \* fork failed
  /\ Replies(c)
  /\ UNCHANGED <<accountState, awaited>>

HandleStopStream(c) ==
  /\ work[c].at = "stop-stream" /\ LockFree
  /\ IF Streaming
     THEN /\ awaited' = stream_pid
          /\ Goes(c, "stopping", work[c].user, Nil)
          /\ UNCHANGED <<stream_pid, kids, ended>>
     ELSE /\ kids' = Reaped(stream_pid) /\ ended' = ended \ {stream_pid}
          /\ stream_pid' = Nil
          /\ Replies(c)
          /\ UNCHANGED awaited
  /\ UNCHANGED accountState

\* The second waitpid returns.
StreamStopped(c) ==
  /\ work[c].at = "stopping" /\ awaited \notin Alive
  /\ kids' = Reaped(awaited) /\ ended' = ended \ {awaited}
  /\ stream_pid' = Nil /\ awaited' = Nil
  /\ Replies(c)
  /\ UNCHANGED accountState

\* Nobody waits for the child that runs reboot.
ForksReboot ==
  \/ \E p \in Pids : kids[p] = "none" /\ kids' = [kids EXCEPT ![p] = "reboot"]
  \/ UNCHANGED kids

HandleDeviceReboot(c) ==
  /\ work[c].at = "device:reboot"
  /\ ForksReboot
  /\ Replies(c)
  /\ UNCHANGED <<accountState, stream_pid, ended, awaited>>

ChildEnds(p) ==
  /\ p \in Alive
  /\ ended' = ended \cup {p}
  /\ UNCHANGED <<accountState, work, stream_pid, kids, awaited>>

----------------------------------------------------------------------------
(* The process *)

FirstHash == CHOOSE h \in Hashes : TRUE

\* setup() adds its accounts, each unless user_exists.
WithSeeds(table) ==
  [u \in People |-> IF u \in DOMAIN SeedRole /\ table[u] = Nil
     THEN [role |-> SeedRole[u], email |-> TRUE, totp |-> TRUE, hash |-> FirstHash]
     ELSE table[u]]

\* Threads, tables and the pid are lost; a stream that ran is nobody's child.
Booted ==
  /\ pendings' = [u \in People |-> Nil]
  /\ sessions' = [s \in SessionSlots |-> Nil]
  /\ work' = [c \in Conns |-> AtRest]
  /\ stream_pid' = Nil /\ awaited' = Nil
  /\ kids' = [p \in Pids |-> "none"] /\ ended' = {}
  /\ proven' = [u \in People |-> FALSE] /\ raced' = [u \in People |-> FALSE]

ServerRestarts == rows' = WithSeeds(rows) /\ Booted

Older(table) == [k \in DOMAIN table |->
  IF table[k] = Nil \/ table[k].left = 0 THEN table[k] ELSE [table[k] EXCEPT !.left = @ - 1]]

SecondPasses ==
  /\ pendings' = Older(pendings) /\ sessions' = Older(sessions)
  /\ work' = [c \in Conns |-> IF work[c].at = "set" /\ work[c].copy.left > 0
                              THEN [work[c] EXCEPT !.copy.left = @ - 1] ELSE work[c]]
  /\ UNCHANGED <<rows, proven, raced, streamState>>

CameraInit ==
  /\ \E table \in OldTables : rows = WithSeeds(table)
  /\ pendings = [u \in People |-> Nil]
  /\ sessions = [s \in SessionSlots |-> Nil]
  /\ work = [c \in Conns |-> AtRest]
  /\ stream_pid = Nil /\ awaited = Nil
  /\ kids = [p \in Pids |-> "none"] /\ ended = {}
  /\ proven = [u \in People |-> FALSE] /\ raced = [u \in People |-> FALSE]

Requests(c) ==
  \/ \E u \in People :
       \/ HandleLogin(c, u) \/ HandleSendEmailOtp(c, u)
       \/ HandleVerifyOtp(c, u) \/ HandleVerifyTotp(c, u)
       \/ HandleForgotSendEmail(c, u) \/ HandleForgotVerifyOtp(c, u)
       \/ HandleForgotVerifyTotp(c, u) \/ HandleResetPassword(c, u)
  \/ \E s \in SessionSlots, action \in Administering : RequireAuth(c, s, action)

Continues(c) ==
  \/ SetsEntry(c) \/ DeletesEntry(c) \/ CreatesSession(c)
  \/ \E h \in Hashes : StoresHash(c, h) \/ \E role \in AddedRoles : Inserts(c, role, h)
  \/ \E u \in People : HandleAddUser(c, u) \/ HandleRemoveUser(c, u)
  \/ HandleSecureData(c) \/ HandleDeviceStatus(c) \/ HandleNetworkReset(c)
  \/ HandleConfigReset(c) \/ HandleFactoryReset(c) \/ HandleDeviceReboot(c)
  \/ HasNoCamera(c) \/ HandleStartStream(c) \/ HandleStopStream(c) \/ StreamStopped(c)

CameraNext ==
  \/ \E c \in Conns : Requests(c) \/ Continues(c)
  \/ \E u \in People : PendingLapses(u) \/ HandleResendTotp(u)
  \/ \E s \in SessionSlots : SessionLapses(s) \/ HandleLogout(s)
  \/ \E p \in Pids : ChildEnds(p)
  \/ SecondPasses \/ ServerRestarts

CameraSpec == CameraInit /\ [][CameraNext]_cameraVars

----------------------------------------------------------------------------
TablesTyped ==
  /\ rows \in [People -> UserRecord \cup {Nil}]
  /\ pendings \in [People -> PendingEntry \cup {Nil}]
  /\ sessions \in [SessionSlots -> LoginSession \cup {Nil}]

ThreadsTyped ==
  /\ work \in [Conns -> [at : Stages, user : People \cup {Nil}, copy : PendingEntry \cup {Nil}]]
  /\ \A c \in Conns :
       /\ work[c].at # "rest" => work[c].user \in People
       /\ work[c].at \in {"set", "verified", "issue"} => work[c].copy # Nil

ChildrenTyped ==
  /\ stream_pid \in Pids \cup {Nil} /\ awaited \in Pids \cup {Nil}
  /\ kids \in [Pids -> {"none", "stream", "reboot"}] /\ ended \subseteq Pids

\* The types of the variables.
CameraTypeOK ==
  /\ TablesTyped /\ ThreadsTyped /\ ChildrenTyped
  /\ proven \in [People -> BOOLEAN] /\ raced \in [People -> BOOLEAN]

(* However starts, stops, failed forks and the end of the stream by itself *)
(* are mixed, a child that streams the camera and was not reaped is the    *)
(* one stream_pid names: there is one, and stop-stream reaches it.         *)
OneStream == \A p \in Pids : kids[p] = "stream" => p = stream_pid

(* An account that exists keeps its role, address and authenticator, and   *)
(* its password changes by a proof that no reset has used yet, however the *)
(* requests of several threads are mixed: adding a user never overwrites   *)
(* one another administrator just added (db_manager_version1.c:9), nor     *)
(* does a restart.  Not so once two requests about the account's pending   *)
(* entry overlapped: each writes back what it copied.                      *)
AccountsChangeByProof ==
  [][\A u \in People : rows[u] # Nil /\ rows'[u] # Nil =>
       /\ rows'[u].role = rows[u].role /\ rows'[u].email = rows[u].email
       /\ rows[u].totp => rows'[u].totp
       /\ rows'[u].hash # rows[u].hash => proven[u] \/ raced[u]]_cameraVars
=============================================================================
