------------------------------ MODULE Accounts ------------------------------
(***************************************************************************)
(* The control plane's accounts: the user table in SQLite, the two-step    *)
(* login with its table of pending sessions, signed tokens and their       *)
(* revocation (core/auth.c, auth/session_manager.c, auth/db_manager.c) as  *)
(* reached through the handlers of core/http_server.c.  Every handler runs *)
(* to its end on the one GLib loop, so each is an action.  A restart loses *)
(* the pending and the revoked tables and draws a new signing secret; the  *)
(* users stay.                                                             *)
(*                                                                         *)
(* Bounds: MaxTime ticks, MaxTokens tokens held by clients, MaxRestarts.   *)
(* A client's wrong password or code changes nothing and is left out.      *)
(***************************************************************************)
EXTENDS AccessRoles, FiniteSets

CONSTANTS Users, Admin, NewRoles, Codes, None,
          Passwords,                \* each by its length and the classes of its characters
          MaxPending,               \* slots of the pending table (64)
          OtpTtl, TokenTtl,         \* lives of a code and of a token
          MaxTime, MaxTokens, MaxRestarts

UserRoles == Roles \ {"none"}

\* password_policy_check; what is not in a class counts for the length only.
Classes == {"upper", "lower", "digit", "special"}

PolicyErrors(pw) == (IF pw.length < 8 THEN {"short"} ELSE {}) \cup (Classes \ pw.classes)

Strong == {pw \in Passwords : PolicyErrors(pw) = {}}

ASSUME AccountsAssumption ==
  /\ Admin \in Users /\ NewRoles \subseteq UserRoles /\ Strong # {}
  /\ MaxPending \in Nat /\ OtpTtl \in Nat /\ TokenTtl \in Nat
  /\ MaxTime \in Nat /\ MaxTokens \in Nat /\ MaxRestarts \in Nat

VARIABLES
  users,      \* users[u]: the row of u in the database, None without one
  pending,    \* pending[u]: the pending session of u, None without one
  key,        \* the signing secret, one per run of the process
  revoked,    \* tokens in auth->revoked
  tokens,     \* tokens handed to clients
  now,        \* time(NULL)
  loggedOut,  \* tokens a client was told are logged out, by any run
  mailed      \* mailed[u]: the code last mailed to u and when, None once used

accountsVars == <<users, pending, key, revoked, tokens, now, loggedOut, mailed>>

Row == [role : UserRoles, email : BOOLEAN, totp : BOOLEAN, pw : Passwords]
PendingSession == [code : Codes, verified : BOOLEAN, reset : BOOLEAN,
                   role : UserRoles, expires : Nat]
Token == [user : Users, role : UserRoles, exp : Nat, key : Nat]
Mail == [code : Codes, at : Nat]

ASSUME NoneAssumption == None \notin Row \cup PendingSession \cup Mail

Exists(u) == users[u] # None

----------------------------------------------------------------------------
(* The user table (db_manager.c) *)

\* INSERT OR IGNORE
InsertUser(table, u, row) == IF table[u] = None THEN [table EXCEPT ![u] = row] ELSE table

UpdatePasswordHash(u, new) ==
  users' = IF Exists(u) THEN [users EXCEPT ![u].pw = new] ELSE users

UpdateTotpSecret(u) ==
  users' = IF Exists(u) THEN [users EXCEPT ![u].totp = TRUE] ELSE users

RemoveRow(u) == users' = [users EXCEPT ![u] = None]

----------------------------------------------------------------------------
(* The pending table (session_manager.c) *)

Slots == {u \in Users : pending[u] # None}

\* Overwrites the user's entry, or takes a free slot; a full table drops it.
PendingSet(u, session) ==
  pending' = IF u \in Slots \/ Cardinality(Slots) < MaxPending
             THEN [pending EXCEPT ![u] = session] ELSE pending

VerifiedRenewed(session) == [session EXCEPT !.verified = TRUE, !.expires = now + OtpTtl]

\* verify_otp writes the session back with the expiry it had.
Verified(session) == [session EXCEPT !.verified = TRUE]

PendingGet(u) == pending[u] # None /\ now <= pending[u].expires

PendingDelete(u) == pending' = [pending EXCEPT ![u] = None]

\* verify_otp, verify_totp or reset_password finds an expired entry.
PendingExpires(u) ==
  /\ pending[u] # None /\ ~PendingGet(u)
  /\ pending' = [pending EXCEPT ![u] = None]
  /\ UNCHANGED <<users, key, revoked, tokens, now, loggedOut, mailed>>

----------------------------------------------------------------------------
(* Tokens *)

IssueToken(u, role) ==
  LET t == [user |-> u, role |-> role, exp |-> now + TokenTtl, key |-> key]
  IN tokens' = tokens \cup {t} /\ Cardinality(tokens') <= MaxTokens

Validate(t) == t \notin revoked /\ t.key = key /\ t.exp >= now

Authorize(t, required) == t \in tokens /\ Validate(t) /\ RoleSatisfies(t.role, required)

\* A code is generated for u and mailed.
MailCode(u, code, reset) ==
  /\ PendingSet(u, [code |-> code, verified |-> FALSE, reset |-> reset,
                    role |-> users[u].role, expires |-> now + OtpTtl])
  /\ mailed' = [mailed EXCEPT ![u] = [code |-> code, at |-> now]]

UseCode(u) == mailed' = [mailed EXCEPT ![u] = None]

----------------------------------------------------------------------------
(* Login *)

LoginWithoutEmail(u, pw) ==
  /\ Exists(u) /\ users[u].pw = pw /\ ~users[u].email
  /\ IssueToken(u, users[u].role)
  /\ UNCHANGED <<users, pending, key, revoked, now, loggedOut, mailed>>

Login(u, pw, code) ==
  /\ Exists(u) /\ users[u].pw = pw /\ users[u].email
  /\ MailCode(u, code, FALSE)
  /\ UNCHANGED <<users, key, revoked, tokens, now, loggedOut>>

HasTotp(u) == Exists(u) /\ users[u].totp

VerifyOtp(u, code) ==
  /\ PendingGet(u) /\ pending[u].code = code
  /\ IF HasTotp(u)
     THEN /\ PendingSet(u, Verified(pending[u]))
          /\ UNCHANGED <<tokens, mailed>>
     ELSE /\ PendingDelete(u)
          /\ IssueToken(u, pending[u].role)
          /\ UseCode(u)
  /\ UNCHANGED <<users, key, revoked, now, loggedOut>>

VerifyTotp(u) ==
  /\ PendingGet(u) /\ pending[u].verified /\ HasTotp(u)
  /\ PendingDelete(u)
  /\ IssueToken(u, pending[u].role)
  /\ UseCode(u)
  /\ UNCHANGED <<users, key, revoked, now, loggedOut>>

Revoke(t) == revoked' = revoked \cup {t}

Logout(t) ==
  /\ t \in tokens /\ Validate(t)
  /\ Revoke(t)
  /\ loggedOut' = loggedOut \cup {t}
  /\ UNCHANGED <<users, pending, key, tokens, now, mailed>>

----------------------------------------------------------------------------
(* Passwords and TOTP *)

ForgotPassword(u, code) ==
  /\ Exists(u) /\ users[u].email
  /\ MailCode(u, code, TRUE)
  /\ UNCHANGED <<users, key, revoked, tokens, now, loggedOut>>

ResetPassword(u, code, new) ==
  /\ PendingGet(u) /\ pending[u].reset /\ pending[u].code = code
  /\ new \in Strong
  /\ UpdatePasswordHash(u, new)
  /\ PendingDelete(u)
  /\ UseCode(u)
  /\ UNCHANGED <<key, revoked, tokens, now, loggedOut>>

ChangePassword(t, old, new) ==
  /\ Authorize(t, "viewer")
  /\ Exists(t.user) /\ users[t.user].pw = old
  /\ new \in Strong
  /\ UpdatePasswordHash(t.user, new)
  /\ UNCHANGED <<pending, key, revoked, tokens, now, loggedOut, mailed>>

SetupTotp(t) ==
  /\ Authorize(t, "viewer")
  /\ Exists(t.user)
  /\ UpdateTotpSecret(t.user)
  /\ UNCHANGED <<pending, key, revoked, tokens, now, loggedOut, mailed>>

----------------------------------------------------------------------------
(* User management.  A password that fails the policy is stored anyway. *)

NewRow(role, email, pw) == [role |-> role, email |-> email, totp |-> FALSE, pw |-> pw]

CreateUser(t, u, pw, role, email) ==
  /\ Authorize(t, "admin")
  /\ ~Exists(u)
  /\ users' = InsertUser(users, u, NewRow(role, email, pw))
  /\ UNCHANGED <<pending, key, revoked, tokens, now, loggedOut, mailed>>

DeleteUser(t, u) ==
  /\ Authorize(t, "admin")
  /\ Exists(u)
  /\ RemoveRow(u)
  /\ UNCHANGED <<pending, key, revoked, tokens, now, loggedOut, mailed>>

----------------------------------------------------------------------------
(* The process *)

DefaultPassword == CHOOSE pw \in Strong : TRUE

\* main.c adds its accounts at every start; one that exists is left alone.
Seeded(table) == InsertUser(table, Admin, NewRow("admin", FALSE, DefaultPassword))

ConfiguredKey(k) == k

\* token_auth_new(NULL, ...) draws a secret for each run.
FreshKey(k) == k + 1

Restart ==
  /\ key < MaxRestarts
  /\ key' = FreshKey(key)
  /\ users' = Seeded(users)
  /\ pending' = [u \in Users |-> None]
  /\ revoked' = {}
  /\ UNCHANGED <<tokens, now, loggedOut, mailed>>

ClockTicks ==
  /\ now < MaxTime
  /\ now' = now + 1
  /\ UNCHANGED <<users, pending, key, revoked, tokens, loggedOut, mailed>>

AccountsInit ==
  /\ users = Seeded([u \in Users |-> None])
  /\ pending = [u \in Users |-> None]
  /\ key = 0 /\ now = 0
  /\ revoked = {} /\ tokens = {} /\ loggedOut = {}
  /\ mailed = [u \in Users |-> None]

AccountsNext ==
  \/ \E u \in Users :
       \/ PendingExpires(u) \/ VerifyTotp(u)
       \/ \E pw \in Passwords : LoginWithoutEmail(u, pw)
       \/ \E pw \in Passwords, code \in Codes : Login(u, pw, code)
       \/ \E code \in Codes : VerifyOtp(u, code) \/ ForgotPassword(u, code)
       \/ \E code \in Codes, new \in Passwords : ResetPassword(u, code, new)
  \/ \E t \in tokens :
       \/ Logout(t) \/ SetupTotp(t)
       \/ \E old, new \in Passwords : ChangePassword(t, old, new)
       \/ \E u \in Users : DeleteUser(t, u)
       \/ \E u \in Users, pw \in Passwords, role \in NewRoles, email \in BOOLEAN :
            CreateUser(t, u, pw, role, email)
  \/ ClockTicks \/ Restart

AccountsSpec == AccountsInit /\ [][AccountsNext]_accountsVars

----------------------------------------------------------------------------
\* The types of the variables.
AccountsTypeOK ==
  /\ users \in [Users -> Row \cup {None}]
  /\ \A u \in Slots : pending[u] \in PendingSession
  /\ DOMAIN pending = Users /\ Cardinality(Slots) <= MaxPending
  /\ key \in 0..MaxRestarts /\ now \in 0..MaxTime
  /\ tokens \subseteq Token /\ revoked \subseteq tokens /\ loggedOut \subseteq tokens
  /\ \A u \in Users : mailed[u] # None => mailed[u] \in Mail

(* A token logged out is never accepted again, not by the same run, whose  *)
(* revoked table has it, and not by a later one, which lost the table but  *)
(* signs with another secret (main.c passes no secret to token_auth_new).  *)
LogoutIsFinal == \A t \in loggedOut : ~Validate(t)

(* The code a pending session accepts is the last one mailed to the user,  *)
(* for a login or a reset whichever came later; it dies OtpTtl after it    *)
(* was mailed, whatever was verified meanwhile, and has bought nothing yet.*)
CodeIsFresh ==
  \A u \in Slots :
    /\ mailed[u] # None
    /\ pending[u].code = mailed[u].code
    /\ pending[u].expires = mailed[u].at + OtpTtl

(* A restart keeps the accounts there were, with the passwords they had:   *)
(* seeding is a no-op for a row that exists (main.c:375).                  *)
RestartKeepsAccounts ==
  [][key' # key => \A u \in Users : Exists(u) => users'[u] = users[u]]_accountsVars
=============================================================================
