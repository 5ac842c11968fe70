-------------------------- MODULE ControlPlane_proofs --------------------------
(***************************************************************************)
(* Proofs about the two servers a device can run.                          *)
(*                                                                         *)
(* Accounts, for any users, codes, table size, clock and number of         *)
(* restarts: a logout is final, a pending code is the last one mailed, a   *)
(* restart keeps the accounts.                                             *)
(*                                                                         *)
(* Control, for any clients, any of the commands, any number of requests   *)
(* and crashes: the requests, the calls under way and what took place      *)
(* agree (PathInv), so that an error left nothing behind, nothing older    *)
(* comes after an acknowledgement, the log agrees with what was done and   *)
(* answered, and a logout stops what has not begun.                        *)
(*                                                                         *)
(* CameraServer, for any accounts, threads and sizes of its tables: one    *)
(* child streams, and accounts change by a proof.                          *)
(***************************************************************************)
EXTENDS Accounts, CameraServer, Control, SequenceTheorems, WellFoundedInduction, TLAPS

----------------------------------------------------------------------------
(* Accounts: the invariant *)

\* A token carries the secret of the run that signed it, and no later one.
Signed ==
  /\ key \in Nat
  /\ \A t \in tokens : t.key \in 0..key
  /\ revoked \subseteq tokens /\ loggedOut \subseteq tokens

\* What was logged out in this run is in this run's table.
Remembered == \A t \in loggedOut : t.key = key => t \in revoked

Shaped ==
  /\ users \in [Users -> Row \cup {None}]
  /\ pending \in [Users -> PendingSession \cup {None}]
  /\ mailed \in [Users -> Mail \cup {None}]
  /\ now \in Nat

AccountsInv == Signed /\ Remembered /\ Shaped /\ CodeIsFresh

LEMMA SeededShaped ==
  ASSUME NEW table \in [Users -> Row \cup {None}]
  PROVE  Seeded(table) \in [Users -> Row \cup {None}]
<1>1. DefaultPassword \in Passwords
  BY AccountsAssumption DEF DefaultPassword, Strong
<1>2. NewRow("admin", FALSE, DefaultPassword) \in Row
  BY <1>1 DEF NewRow, Row, Roles, UserRoles
<1>3. QED
  BY <1>2 DEF Seeded, InsertUser

LEMMA AccountsInitInv == AccountsInit => AccountsInv
<1> SUFFICES ASSUME AccountsInit PROVE AccountsInv
  OBVIOUS
<1>1. users \in [Users -> Row \cup {None}]
  BY SeededShaped DEF AccountsInit
<1>2. Shaped
  BY <1>1 DEF AccountsInit, Shaped
<1>3. Signed /\ Remembered
  BY DEF AccountsInit, Signed, Remembered
<1>4. CodeIsFresh
  BY DEF AccountsInit, CodeIsFresh, Slots
<1>5. QED
  BY <1>2, <1>3, <1>4 DEF AccountsInv

\* A token is issued, and nothing else about tokens changes.
LEMMA IssueKeeps ==
  ASSUME Signed, Remembered, NEW u, NEW r, IssueToken(u, r),
         UNCHANGED <<key, revoked, loggedOut>>
  PROVE  Signed' /\ Remembered'
  BY DEF Signed, Remembered, IssueToken

LEMMA TokensKept ==
  ASSUME Signed, Remembered, UNCHANGED <<key, revoked, loggedOut, tokens>>
  PROVE  Signed' /\ Remembered'
  BY DEF Signed, Remembered

\* Deleting u's pending session, with or without using its code, keeps the rest.
LEMMA DeleteKeeps ==
  ASSUME Shaped, CodeIsFresh, NEW u \in Users, PendingDelete(u),
         UseCode(u) \/ mailed' = mailed
  PROVE  /\ pending' \in [Users -> PendingSession \cup {None}]
         /\ mailed' \in [Users -> Mail \cup {None}]
         /\ CodeIsFresh'
  BY DEF Shaped, CodeIsFresh, PendingDelete, UseCode, Slots

LEMMA CodesKept ==
  ASSUME CodeIsFresh, UNCHANGED <<pending, mailed>>
  PROVE  CodeIsFresh'
  BY DEF CodeIsFresh, Slots

\* A mailed code replaces the user's pending session or, with the table full,
\* finds none to replace.
LEMMA MailKeeps ==
  ASSUME AccountsInv, NEW u \in Users, NEW code \in Codes, NEW reset \in BOOLEAN, Exists(u),
         MailCode(u, code, reset), UNCHANGED <<users, now>>
  PROVE  Shaped' /\ CodeIsFresh'
<1> DEFINE entry == [code |-> code, verified |-> FALSE, reset |-> reset,
                     role |-> users[u].role, expires |-> now + OtpTtl]
           mail == [code |-> code, at |-> now]
<1>1. entry \in PendingSession
  BY AccountsAssumption DEF AccountsInv, Shaped, Exists, Row, PendingSession
<1>2. mail \in Mail /\ mail # None
  BY NoneAssumption DEF AccountsInv, Shaped, Mail
<1>3. mailed' = [mailed EXCEPT ![u] = mail]
  BY DEF MailCode
<1>4. pending' = [pending EXCEPT ![u] = entry] \/ (pending' = pending /\ u \notin Slots)
  BY DEF MailCode, PendingSet
<1>5. Shaped'
  <2>1. pending' \in [Users -> PendingSession \cup {None}]
    BY <1>1, <1>4 DEF AccountsInv, Shaped
  <2>2. mailed' \in [Users -> Mail \cup {None}]
    BY <1>2, <1>3 DEF AccountsInv, Shaped
  <2>3. QED
    BY <2>1, <2>2 DEF AccountsInv, Shaped
<1>6. CodeIsFresh'
  <2> SUFFICES ASSUME NEW v \in Users, pending'[v] # None
               PROVE  /\ mailed'[v] # None
                      /\ pending'[v].code = mailed'[v].code
                      /\ pending'[v].expires = mailed'[v].at + OtpTtl
    BY DEF CodeIsFresh, Slots
  <2>1. CASE v # u
    BY <1>3, <1>4, <2>1 DEF AccountsInv, Shaped, CodeIsFresh, Slots
  <2>2. CASE v = u
    <3>1. pending'[u] = entry
      BY <1>4, <2>2 DEF AccountsInv, Shaped, Slots
    <3>2. mailed'[u] = mail
      BY <1>3 DEF AccountsInv, Shaped
    <3>3. QED
      BY <1>2, <2>2, <3>1, <3>2
  <2>3. QED
    BY <2>1, <2>2
<1>7. QED
  BY <1>5, <1>6

LEMMA VerifyOtpKeeps ==
  ASSUME AccountsInv, NEW u \in Users, NEW code \in Codes, VerifyOtp(u, code)
  PROVE  AccountsInv'
<1> USE DEF AccountsInv
<1>1. CASE HasTotp(u)
  <2> DEFINE entry == Verified(pending[u])
  <2>1. PendingSet(u, entry) /\ tokens' = tokens /\ mailed' = mailed
    BY <1>1 DEF VerifyOtp
  <2>2. pending[u] \in PendingSession /\ u \in Slots
    BY DEF VerifyOtp, PendingGet, Shaped, Slots
  <2>3. /\ entry \in PendingSession
        /\ entry.code = pending[u].code /\ entry.expires = pending[u].expires
    BY <2>2 DEF Verified, PendingSession
  <2>4. pending' = [pending EXCEPT ![u] = entry]
    BY <2>1, <2>2 DEF PendingSet
  <2>5. Shaped'
    BY <2>1, <2>3, <2>4 DEF Shaped, VerifyOtp
  <2>6. CodeIsFresh'
    <3> SUFFICES ASSUME NEW v \in Users, pending'[v] # None
                 PROVE  /\ mailed'[v] # None
                        /\ pending'[v].code = mailed'[v].code
                        /\ pending'[v].expires = mailed'[v].at + OtpTtl
      BY DEF CodeIsFresh, Slots
    <3>1. /\ pending[v] # None
          /\ pending'[v].code = pending[v].code /\ pending'[v].expires = pending[v].expires
      BY <2>2, <2>3, <2>4 DEF Shaped, Slots
    <3>2. QED
      BY <2>1, <3>1 DEF CodeIsFresh, Slots
  <2>7. QED
    BY <2>1, <2>5, <2>6, TokensKept DEF VerifyOtp
<1>2. CASE ~HasTotp(u)
  <2>1. PendingDelete(u) /\ UseCode(u) /\ IssueToken(u, pending[u].role)
    BY <1>2 DEF VerifyOtp
  <2>2. Shaped' /\ CodeIsFresh'
    BY <2>1, DeleteKeeps DEF Shaped, VerifyOtp
  <2>3. QED
    BY <2>1, <2>2, IssueKeeps DEF VerifyOtp
<1>3. QED
  BY <1>1, <1>2

\* A change of the user table alone.
LEMMA TableKeeps ==
  ASSUME AccountsInv, users' \in [Users -> Row \cup {None}],
         UNCHANGED <<pending, key, revoked, tokens, now, loggedOut, mailed>>
  PROVE  AccountsInv'
<1>1. Signed' /\ Remembered'
  BY TokensKept DEF AccountsInv
<1>2. Shaped'
  BY DEF AccountsInv, Shaped
<1>3. CodeIsFresh'
  BY CodesKept DEF AccountsInv
<1>4. QED
  BY <1>1, <1>2, <1>3 DEF AccountsInv

\* The steps a client takes without a token.
LEMMA UserKeeps ==
  ASSUME AccountsInv, NEW u \in Users
  PROVE  /\ PendingExpires(u) => AccountsInv'
         /\ VerifyTotp(u) => AccountsInv'
         /\ \A pw \in Passwords : LoginWithoutEmail(u, pw) => AccountsInv'
         /\ \A pw \in Passwords, code \in Codes : Login(u, pw, code) => AccountsInv'
         /\ \A code \in Codes : VerifyOtp(u, code) \/ ForgotPassword(u, code) => AccountsInv'
         /\ \A code \in Codes, new \in Passwords : ResetPassword(u, code, new) => AccountsInv'
<1> USE DEF AccountsInv
<1>1. ASSUME PendingExpires(u) PROVE AccountsInv'
  <2>1. PendingDelete(u) /\ mailed' = mailed
    BY <1>1 DEF PendingExpires, PendingDelete
  <2>2. QED
    BY <1>1, <2>1, DeleteKeeps, TokensKept DEF PendingExpires, Shaped
<1>2. ASSUME VerifyTotp(u) PROVE AccountsInv'
  <2>1. Shaped' /\ CodeIsFresh'
    BY <1>2, DeleteKeeps DEF VerifyTotp, Shaped
  <2>2. QED
    BY <1>2, <2>1, IssueKeeps DEF VerifyTotp
<1>3. ASSUME NEW pw \in Passwords, LoginWithoutEmail(u, pw) PROVE AccountsInv'
  BY <1>3, IssueKeeps, CodesKept DEF LoginWithoutEmail, Shaped
<1>4. ASSUME NEW pw \in Passwords, NEW code \in Codes, Login(u, pw, code) PROVE AccountsInv'
  BY <1>4, MailKeeps, TokensKept DEF Login
<1>5. ASSUME NEW code \in Codes, ForgotPassword(u, code) PROVE AccountsInv'
  BY <1>5, MailKeeps, TokensKept DEF ForgotPassword
<1>6. ASSUME NEW code \in Codes, NEW new \in Passwords, ResetPassword(u, code, new)
             PROVE  AccountsInv'
  <2>1. users' \in [Users -> Row \cup {None}]
    BY <1>6, SMTT(30) DEF ResetPassword, UpdatePasswordHash, Shaped, Exists, Row
  <2>2. Shaped' /\ CodeIsFresh'
    BY <1>6, <2>1, DeleteKeeps DEF ResetPassword, Shaped
  <2>3. QED
    BY <1>6, <2>2, TokensKept DEF ResetPassword
<1>7. QED
  BY <1>1, <1>2, <1>3, <1>4, <1>5, <1>6, VerifyOtpKeeps

\* The steps of a client with a token.
LEMMA TokenKeeps ==
  ASSUME AccountsInv, NEW t \in tokens
  PROVE  /\ Logout(t) => AccountsInv'
         /\ SetupTotp(t) => AccountsInv'
         /\ \A old, new \in Passwords : ChangePassword(t, old, new) => AccountsInv'
         /\ \A u \in Users : DeleteUser(t, u) => AccountsInv'
         /\ \A u \in Users, pw \in Passwords, role \in NewRoles, email \in BOOLEAN :
              CreateUser(t, u, pw, role, email) => AccountsInv'
<1>1. ASSUME Logout(t) PROVE AccountsInv'
  <2>1. Signed' /\ Remembered'
    BY <1>1 DEF AccountsInv, Signed, Remembered, Logout, Revoke
  <2>2. QED
    BY <1>1, <2>1, CodesKept DEF AccountsInv, Shaped, Logout
<1>2. ASSUME SetupTotp(t) PROVE AccountsInv'
  <2>1. users' \in [Users -> Row \cup {None}]
    BY <1>2, ZenonT(60) DEF SetupTotp, UpdateTotpSecret, AccountsInv, Shaped, Exists, Row
  <2>2. QED
    BY <1>2, <2>1, TableKeeps DEF SetupTotp
<1>3. ASSUME NEW old \in Passwords, NEW new \in Passwords, ChangePassword(t, old, new)
      PROVE  AccountsInv'
  <2>1. users \in [Users -> Row \cup {None}] /\ users[t.user] # None
    BY <1>3 DEF ChangePassword, Exists, AccountsInv, Shaped
  <2>2. users' = [users EXCEPT ![t.user] = [users[t.user] EXCEPT !.pw = new]]
    BY <1>3, <2>1 DEF ChangePassword, UpdatePasswordHash, Exists
  <2>3. \A row \in Row : [row EXCEPT !.pw = new] \in Row
    BY DEF Row
  <2>4. users' \in [Users -> Row \cup {None}]
    BY <2>1, <2>2, <2>3
  <2>5. QED
    BY <1>3, <2>4, TableKeeps DEF ChangePassword
<1>4. ASSUME NEW u \in Users, DeleteUser(t, u) PROVE AccountsInv'
  <2>1. users' \in [Users -> Row \cup {None}]
    BY <1>4 DEF DeleteUser, RemoveRow, AccountsInv, Shaped
  <2>2. QED
    BY <1>4, <2>1, TableKeeps DEF DeleteUser
<1>5. ASSUME NEW u \in Users, NEW pw \in Passwords, NEW role \in NewRoles, NEW email \in BOOLEAN,
             CreateUser(t, u, pw, role, email)
      PROVE  AccountsInv'
  <2>1. NewRow(role, email, pw) \in Row
    BY AccountsAssumption DEF NewRow, Row
  <2>2. users' \in [Users -> Row \cup {None}]
    BY <1>5, <2>1 DEF CreateUser, InsertUser, AccountsInv, Shaped
  <2>3. QED
    BY <1>5, <2>2, TableKeeps DEF CreateUser
<1>6. QED
  BY <1>1, <1>2, <1>3, <1>4, <1>5

LEMMA RestartKeeps == AccountsInv /\ Restart => AccountsInv'
<1> SUFFICES ASSUME AccountsInv, Restart PROVE AccountsInv'
  OBVIOUS
<1>1. Signed' /\ Remembered'
  <2>1. key \in Nat /\ key' = key + 1
    BY DEF AccountsInv, Signed, Restart, FreshKey
  <2>2. \A t \in tokens : t.key \in 0..key
    BY DEF AccountsInv, Signed
  <2>3. \A t \in tokens' : t.key \in 0..key' /\ t.key # key'
    BY <2>1, <2>2 DEF Restart
  <2>4. revoked' \subseteq tokens' /\ loggedOut' \subseteq tokens'
    BY DEF AccountsInv, Signed, Restart
  <2>5. QED
    BY <2>1, <2>3, <2>4 DEF Signed, Remembered
<1>2. Shaped'
  BY SeededShaped DEF AccountsInv, Shaped, Restart
<1>3. CodeIsFresh'
  BY DEF CodeIsFresh, Slots, Restart
<1>4. QED
  BY <1>1, <1>2, <1>3 DEF AccountsInv

LEMMA AccountsKeep == AccountsInv /\ [AccountsNext]_accountsVars => AccountsInv'
<1> SUFFICES ASSUME AccountsInv, [AccountsNext]_accountsVars PROVE AccountsInv'
  OBVIOUS
<1>1. CASE ClockTicks
  BY <1>1, TokensKept, CodesKept DEF AccountsInv, Shaped, ClockTicks
<1>2. CASE UNCHANGED accountsVars
  BY <1>2, TokensKept, CodesKept DEF AccountsInv, Shaped, accountsVars
<1>3. QED
  BY <1>1, <1>2, UserKeeps, TokenKeeps, RestartKeeps DEF AccountsNext

(* A token logged out is never accepted again, by this run or a later one. *)
THEOREM LogoutsAreFinal == AccountsSpec => []LogoutIsFinal
<1>1. AccountsInv => LogoutIsFinal
  BY DEF AccountsInv, Remembered, LogoutIsFinal, Validate
<1>2. QED
  BY <1>1, AccountsInitInv, AccountsKeep, PTL DEF AccountsSpec

(* A pending session accepts the last code mailed to its user, for OtpTtl  *)
(* from the mail, and only until the code has bought something.            *)
THEOREM CodesAreFresh == AccountsSpec => []CodeIsFresh
  BY AccountsInitInv, AccountsKeep, PTL DEF AccountsSpec, AccountsInv

(* Seeding at a restart leaves every account that exists as it was.        *)
THEOREM RestartsKeepAccounts == AccountsSpec => RestartKeepsAccounts
<1>1. ASSUME AccountsInv, [AccountsNext]_accountsVars, key' # key
      PROVE  \A u \in Users : Exists(u) => users'[u] = users[u]
  <2>1. Restart
    BY <1>1 DEF AccountsNext, accountsVars, PendingExpires, VerifyTotp, LoginWithoutEmail,
       Login, VerifyOtp,
       ForgotPassword, ResetPassword, Logout, SetupTotp, ChangePassword, DeleteUser,
       CreateUser, ClockTicks
  <2>2. QED
    BY <1>1, <2>1 DEF Restart, Seeded, InsertUser, Exists, AccountsInv, Shaped
<1>2. QED
  BY <1>1, AccountsInitInv, AccountsKeep, PTL DEF AccountsSpec, RestartKeepsAccounts

----------------------------------------------------------------------------
(* Control: the checks of the handlers *)

Statuses == {400, 401, 403, 404, 405, 409, 500}
Check == BOOLEAN \X Statuses

LEMMA StatusesAre ==
    /\ 400 \in Statuses /\ 401 \in Statuses /\ 403 \in Statuses /\ 404 \in Statuses
    /\ 405 \in Statuses /\ 409 \in Statuses /\ 500 \in Statuses
  BY DEF Statuses

AllHold(checks) == \A i \in DOMAIN checks : checks[i][1]

\* Checks are made in sequence.
LEMMA ChecksJoin ==
    ASSUME NEW s \in Seq(Check), NEW t \in Seq(Check)
    PROVE  /\ s \o t \in Seq(Check)
           /\ AllHold(s \o t) <=> AllHold(s) /\ AllHold(t)
  <1>1. s \o t \in Seq(Check)
    OBVIOUS
  <1>2. ASSUME AllHold(s), AllHold(t) PROVE AllHold(s \o t)
    BY <1>2, ConcatProperties DEF AllHold
  <1>3. ASSUME AllHold(s \o t) PROVE AllHold(s) /\ AllHold(t)
    <2>1. ASSUME NEW i \in DOMAIN s PROVE s[i][1]
      BY <1>3, ConcatProperties DEF AllHold
    <2>2. ASSUME NEW i \in DOMAIN t PROVE t[i][1]
      <3>1. i \in 1 .. Len(t) /\ Len(s) + i \in 1 .. Len(s) + Len(t)
        OBVIOUS
      <3>2. (s \o t)[Len(s) + i] = t[i]
        BY <3>1, ConcatProperties
      <3> QED BY <1>3, <3>1, <3>2, ConcatProperties DEF AllHold
    <2> QED BY <2>1, <2>2 DEF AllHold
  <1> QED BY <1>1, <1>2, <1>3

LEMMA OneCheck ==
    ASSUME NEW b \in BOOLEAN, NEW c \in Statuses
    PROVE  /\ << <<b, c>> >> \in Seq(Check)
           /\ AllHold(<< <<b, c>> >>) <=> b
  BY DEF Check, AllHold

LEMMA NoCheck == << >> \in Seq(Check) /\ AllHold(<< >>)
  BY DEF AllHold

\* Some number of a set of them is the least.
LEMMA Least ==
    ASSUME NEW T, T \subseteq Nat, T # {}
    PROVE  \E x \in T : \A y \in T : x <= y
  <1>1. PICK x \in T : \A y \in T : ~(<<y, x>> \in OpToRel(<, Nat))
    BY NatLessThanWellFounded, WFMin
  <1>2. ASSUME NEW y \in T PROVE ~(y < x)
    BY <1>1 DEF OpToRel
  <1> QED BY <1>2

LEMMA RefusalOf ==
    ASSUME NEW r, NEW role, NEW exists, Checks(r, role, exists) \in Seq(Check)
    PROVE  /\ Refusal(r, role, exists) \in Statuses \cup {0}
           /\ Refusal(r, role, exists) = 0 <=> AllHold(Checks(r, role, exists))
  <1> DEFINE checks == Checks(r, role, exists)
           failed == {i \in DOMAIN checks : ~checks[i][1]}
           first == CHOOSE i \in failed : \A j \in failed : i <= j
  <1>1. CASE failed = {}
    <2>1. Refusal(r, role, exists) = 0
      BY <1>1 DEF Refusal
    <2> QED BY <1>1, <2>1 DEF AllHold
  <1>2. CASE failed # {}
    <2>0. failed \subseteq Nat
      OBVIOUS
    <2>1. \E i \in failed : \A j \in failed : i <= j
      BY <1>2, <2>0, Least
    <2>2. first \in failed
      BY <2>1
    <2>3. checks[first] \in Check
      BY <2>2
    <2>4. Refusal(r, role, exists) = checks[first][2]
      BY <1>2 DEF Refusal
    <2>5. Refusal(r, role, exists) \in Statuses
      BY <2>3, <2>4 DEF Check
    <2>6. ~AllHold(checks)
      BY <1>2 DEF AllHold
    <2> QED BY <2>5, <2>6 DEF Statuses
  <1> QED BY <1>1, <1>2

LEMMA MethodCheck ==
    ASSUME NEW r, NEW methods
    PROVE  /\ Method(r, methods) \in Seq(Check)
           /\ AllHold(Method(r, methods)) <=> r.method \in methods
  <1> DEFINE b == r.method \in methods
  <1>1. b \in BOOLEAN /\ (b <=> r.method \in methods)
    OBVIOUS
  <1> HIDE DEF b
  <1>2. << <<b, 405>> >> \in Seq(Check) /\ (AllHold(<< <<b, 405>> >>) <=> b)
    BY <1>1, StatusesAre, OneCheck
  <1> QED BY <1>1, <1>2 DEF b, Method

LEMMA ObjectCheck ==
    ASSUME NEW r
    PROVE  /\ ParseBody(r) \in Seq(Check)
           /\ AllHold(ParseBody(r)) <=> r.body = "object"
  <1> DEFINE b == r.body = "object"
  <1>1. b \in BOOLEAN /\ (b <=> r.body = "object")
    OBVIOUS
  <1> HIDE DEF b
  <1>2. << <<b, 400>> >> \in Seq(Check) /\ (AllHold(<< <<b, 400>> >>) <=> b)
    BY <1>1, StatusesAre, OneCheck
  <1> QED BY <1>1, <1>2 DEF b, ParseBody

LEMMA BodyCheck ==
    ASSUME NEW r
    PROVE  /\ SomeBody(r) \in Seq(Check)
           /\ AllHold(SomeBody(r)) <=> r.body # "none"
  <1> DEFINE b == r.body # "none"
  <1>1. b \in BOOLEAN /\ (b <=> r.body # "none")
    OBVIOUS
  <1> HIDE DEF b
  <1>2. << <<b, 400>> >> \in Seq(Check) /\ (AllHold(<< <<b, 400>> >>) <=> b)
    BY <1>1, StatusesAre, OneCheck
  <1> QED BY <1>1, <1>2 DEF b, SomeBody

LEMMA HasCheck ==
    ASSUME NEW r, NEW k, NEW status \in Statuses
    PROVE  /\ Has(r, k, status) \in Seq(Check)
           /\ AllHold(Has(r, k, status)) <=> k \in r.keys
  <1> DEFINE b == k \in r.keys
  <1>1. b \in BOOLEAN /\ (b <=> k \in r.keys)
    OBVIOUS
  <1> HIDE DEF b
  <1>2. << <<b, status>> >> \in Seq(Check) /\ (AllHold(<< <<b, status>> >>) <=> b)
    BY <1>1, StatusesAre, OneCheck
  <1> QED BY <1>1, <1>2 DEF b, Has

LEMMA AuthorizedCheck ==
    ASSUME NEW role \in Roles, NEW required \in Roles
    PROVE  /\ Authorized(role, required) \in Seq(Check)
           /\ AllHold(Authorized(role, required)) => role # "none"
  <1> DEFINE b == role # "none"
           c == RoleSatisfies(role, required)
  <1>1. b \in BOOLEAN /\ c \in BOOLEAN
    BY DEF RoleSatisfies
  <1>2. Authorized(role, required) = << <<b, 401>>, <<c, 403>> >>
    BY DEF Authorized
  <1>3. b <=> role # "none"
    OBVIOUS
  <1> HIDE DEF b, c
  <1>4. <<b, 401>> \in Check /\ <<c, 403>> \in Check
    BY <1>1, StatusesAre DEF Check
  <1>5. AllHold(<< <<b, 401>>, <<c, 403>> >>) => b
    BY DEF AllHold
  <1> QED BY <1>2, <1>3, <1>4, <1>5

LEMMA RolesAre == {"viewer", "operator", "admin"} \subseteq Roles
  BY DEF Roles

LEMMA OpenChecks ==
    ASSUME NEW r
    PROVE  /\ RootChecks(r) \in Seq(Check) /\ HealthChecks(r) \in Seq(Check)
           /\ LoginChecks(r) \in Seq(Check) /\ VerifyOtpChecks(r) \in Seq(Check)
           /\ VerifyTotpChecks(r) \in Seq(Check) /\ ForgotChecks(r) \in Seq(Check)
           /\ ResetChecks(r) \in Seq(Check)
  BY MethodCheck, ObjectCheck, HasCheck, StatusesAre, ChecksJoin
     DEF RootChecks, HealthChecks, LoginChecks, VerifyOtpChecks, VerifyTotpChecks,
         ForgotChecks, ResetChecks

Asks(checks, role) == checks \in Seq(Check) /\ (AllHold(checks) => role # "none")

LEMMA AsksFirst ==
    ASSUME NEW role, NEW s, Asks(s, role), NEW t \in Seq(Check)
    PROVE  Asks(s \o t, role)
  BY ChecksJoin DEF Asks

LEMMA AsksLater ==
    ASSUME NEW role, NEW s \in Seq(Check), NEW t, Asks(t, role)
    PROVE  Asks(s \o t, role)
  BY ChecksJoin DEF Asks

LEMMA AuthorizedAsks ==
    ASSUME NEW role \in Roles
    PROVE  /\ Asks(Authorized(role, "viewer"), role)
           /\ Asks(Authorized(role, "operator"), role)
           /\ Asks(Authorized(role, "admin"), role)
  BY AuthorizedCheck, RolesAre DEF Asks

LEMMA AuthAsks ==
    ASSUME NEW r, NEW role \in Roles
    PROVE  Asks(SetupTotpChecks(r, role), role) /\ Asks(ChangePasswordChecks(r, role), role)
  <1>1. Asks(SetupTotpChecks(r, role), role)
    BY MethodCheck, AuthorizedAsks, AsksLater DEF SetupTotpChecks
  <1>2. Asks(Method(r, {"POST"}) \o Authorized(role, "viewer"), role)
    BY MethodCheck, AuthorizedAsks, AsksLater
  <1>3. Asks(Method(r, {"POST"}) \o Authorized(role, "viewer") \o ParseBody(r), role)
    BY <1>2, ObjectCheck, AsksFirst
  <1>4. Has(r, "right", 400) \in Seq(Check)
    BY HasCheck, StatusesAre
  <1>5. Asks(ChangePasswordChecks(r, role), role)
    BY <1>3, <1>4, AsksFirst DEF ChangePasswordChecks
  <1> QED BY <1>1, <1>5

LEMMA LogoutAsks ==
    ASSUME NEW r, NEW role \in Roles
    PROVE  Asks(LogoutChecks(r, role), role)
  <1> DEFINE b == role # "none"
  <1>1. b \in BOOLEAN /\ (b <=> role # "none")
    OBVIOUS
  <1>2. LogoutChecks(r, role) = Method(r, {"POST"}) \o << <<b, 401>> >>
    BY DEF LogoutChecks
  <1> HIDE DEF b
  <1>3. Asks(<< <<b, 401>> >>, role)
    BY <1>1, StatusesAre, OneCheck DEF Asks
  <1> QED BY <1>2, <1>3, MethodCheck, AsksLater

LEMMA UsersAsks ==
    ASSUME NEW r, NEW role \in Roles, NEW exists \in BOOLEAN
    PROVE  Asks(UsersChecks(r, role, exists), role)
  <1> DEFINE a == ~exists
           b == Suffix(r) # Blank
           create == ParseBody(r) \o Has(r, "username", 400) \o Has(r, "password", 400)
                        \o << <<a, 409>> >>
           delete == << <<b, 400>>, <<exists, 404>> >>
           rest == CASE r.method = "POST" -> create
                     [] r.method = "DELETE" -> delete
                     [] OTHER -> <<>>
  <1>1. a \in BOOLEAN /\ b \in BOOLEAN
    OBVIOUS
  <1>2. UsersChecks(r, role, exists)
        = Authorized(role, "admin") \o Method(r, {"GET", "POST", "DELETE"}) \o rest
    BY DEF UsersChecks
  <1> HIDE DEF a, b
  <1>3. create \in Seq(Check)
    <2>1. /\ ParseBody(r) \in Seq(Check)
          /\ Has(r, "username", 400) \in Seq(Check) /\ Has(r, "password", 400) \in Seq(Check)
      BY ObjectCheck, HasCheck, StatusesAre
    <2>2. << <<a, 409>> >> \in Seq(Check)
      BY <1>1, StatusesAre DEF Check
    <2> QED BY <2>1, <2>2
  <1>4. delete \in Seq(Check)
    BY <1>1, StatusesAre DEF Check
  <1> HIDE DEF create, delete
  <1>5. rest \in Seq(Check)
    BY <1>3, <1>4, NoCheck
  <1> QED BY <1>2, <1>5, MethodCheck, AuthorizedAsks, AsksFirst

LEMMA DeviceAsks ==
    ASSUME NEW r, NEW role \in Roles
    PROVE  Asks(DeviceChecks(r, role), role)
  <1> DEFINE action == Suffix(r)
           a == action # Blank
           b == action \in DeviceActions
           required == CASE action = "status" -> "viewer"
                         [] action = "network-reset" -> "operator"
                         [] OTHER -> "admin"
           methods == IF action = "status" THEN {"GET"} ELSE {"POST"}
           rest == IF action = "factory-reset" THEN ParseBody(r) \o Has(r, "confirm", 400) ELSE <<>>
  <1>1. a \in BOOLEAN /\ b \in BOOLEAN
    OBVIOUS
  <1>2. DeviceChecks(r, role)
          = << <<a, 400>> >> \o Authorized(role, required) \o << <<b, 404>> >>
              \o Method(r, methods) \o rest
    BY DEF DeviceChecks
  <1>3. Asks(Authorized(role, required), role)
    BY AuthorizedAsks
  <1>4. rest \in Seq(Check)
    BY ObjectCheck, HasCheck, StatusesAre, NoCheck
  <1> HIDE DEF action, a, b, required, rest, methods
  <1>5. << <<a, 400>> >> \in Seq(Check) /\ << <<b, 404>> >> \in Seq(Check)
    BY <1>1, StatusesAre DEF Check
  <1>6. Asks(<< <<a, 400>> >> \o Authorized(role, required), role)
    BY <1>3, <1>5, AsksLater
  <1>7. Asks(<< <<a, 400>> >> \o Authorized(role, required) \o << <<b, 404>> >>, role)
    BY <1>5, <1>6, AsksFirst
  <1>8. Asks(<< <<a, 400>> >> \o Authorized(role, required) \o << <<b, 404>> >>
               \o Method(r, methods), role)
    BY <1>7, MethodCheck, AsksFirst
  <1> QED BY ZenonT(60), <1>2, <1>4, <1>8, AsksFirst

LEMMA StreamAsks ==
    ASSUME NEW r, NEW role \in Roles
    PROVE  Asks(StreamChecks(r, role), role)
  <1> DEFINE b == r.method = "OPTIONS" \/ Len(r.path) >= 4
  <1>1. b \in BOOLEAN
    OBVIOUS
  <1>2. StreamChecks(r, role) = Authorized(role, "viewer") \o << <<b, 404>> >>
    BY DEF StreamChecks
  <1> HIDE DEF b
  <1>3. << <<b, 404>> >> \in Seq(Check)
    BY <1>1, StatusesAre DEF Check
  <1> QED BY ZenonT(60), <1>2, <1>3, AuthorizedAsks, AsksFirst

LEMMA FilesAsks ==
    ASSUME NEW r, NEW role \in Roles
    PROVE  Asks(FilesChecks(r, role), role) /\ Asks(RecordingsChecks(r, role), role)
  <1> DEFINE b == Suffix(r) # Blank
  <1>1. b \in BOOLEAN
    OBVIOUS
  <1>2. FilesChecks(r, role) = Authorized(role, "viewer") \o Method(r, {"GET"}) \o << <<b, 404>> >>
    BY DEF FilesChecks
  <1>3. RecordingsChecks(r, role) =
        CASE r.method = "GET" -> Authorized(role, "viewer")
          [] r.method = "DELETE" -> Authorized(role, "operator") \o << <<b, 400>> >>
          [] OTHER -> Method(r, {"GET", "DELETE"})
    BY DEF RecordingsChecks
  <1> HIDE DEF b
  <1>4. << <<b, 404>> >> \in Seq(Check) /\ << <<b, 400>> >> \in Seq(Check)
    BY <1>1, StatusesAre DEF Check
  <1>5. Asks(Authorized(role, "viewer") \o Method(r, {"GET"}), role)
    BY MethodCheck, AuthorizedAsks, AsksFirst
  <1>6. Asks(FilesChecks(r, role), role)
    BY <1>2, <1>4, <1>5, AsksFirst
  <1>7. Asks(Authorized(role, "operator") \o << <<b, 400>> >>, role)
    BY <1>4, AuthorizedAsks, AsksFirst
  <1>8. CASE r.method \in {"GET", "DELETE"}
    BY <1>3, <1>6, <1>7, <1>8, AuthorizedAsks
  <1>9. CASE r.method \notin {"GET", "DELETE"}
    BY <1>3, <1>6, <1>9, MethodCheck DEF Asks
  <1> QED BY <1>8, <1>9

LEMMA SystemAsks ==
    ASSUME NEW r, NEW role \in Roles
    PROVE  Asks(SmtpChecks(r, role), role) /\ Asks(SystemChecks(r, role), role)
  <1> DEFINE rest == IF r.method = "PUT" THEN ParseBody(r) ELSE <<>>
           never == << <<FALSE, 404>> >>
  <1>1. SmtpChecks(r, role) = Authorized(role, "admin") \o Method(r, {"GET", "PUT"}) \o rest
    BY DEF SmtpChecks
  <1>2. rest \in Seq(Check)
    BY ObjectCheck, NoCheck
  <1>3. Asks(never, role)
    <2>1. FALSE \in BOOLEAN /\ 404 \in Statuses
      BY StatusesAre
    <2>2. never \in Seq(Check) /\ ~AllHold(never)
      BY ZenonT(60), <2>1, OneCheck
    <2> QED BY <2>2 DEF Asks
  <1>4. SystemChecks(r, role) =
        CASE Suffix(r) = "status" -> Authorized(role, "viewer") \o Method(r, {"GET"})
          [] Suffix(r) = "log_level" ->
               Authorized(role, "admin") \o Method(r, {"PUT"}) \o ParseBody(r)
          [] OTHER -> never
    BY DEF SystemChecks
  <1> HIDE DEF rest, never
  <1>5. Asks(SmtpChecks(r, role), role)
    <2>1. Asks(Authorized(role, "admin") \o Method(r, {"GET", "PUT"}), role)
      BY MethodCheck, AuthorizedAsks, AsksFirst
    <2> QED BY <1>1, <1>2, <2>1, AsksFirst
  <1>6. Asks(Authorized(role, "viewer") \o Method(r, {"GET"}), role)
    BY MethodCheck, AuthorizedAsks, AsksFirst
  <1>7. Asks(Authorized(role, "admin") \o Method(r, {"PUT"}) \o ParseBody(r), role)
    <2>1. Asks(Authorized(role, "admin") \o Method(r, {"PUT"}), role)
      BY MethodCheck, AuthorizedAsks, AsksFirst
    <2> QED BY <2>1, ObjectCheck, AsksFirst
  <1> QED BY <1>3, <1>4, <1>5, <1>6, <1>7

LEMMA LensAsks ==
    ASSUME NEW r, NEW role \in Roles
    PROVE  Asks(LensChecks(r, role), role)
  <1> DEFINE a == Len(r.path) >= 3
           b == Part(r, 5) = "params"
           never == << <<FALSE, 404>> >>
           rest == CASE Part(r, 3) = "config" -> Method(r, {"PATCH"}) \o ParseBody(r)
                     [] Part(r, 3) = "recording" -> Method(r, {"POST", "DELETE"})
                     [] Part(r, 3) = "snapshot" -> Method(r, {"POST"})
                     [] Part(r, 3) = "streams" ->
                          Method(r, {"PATCH"}) \o << <<b, 404>> >> \o SomeBody(r)
                     [] Part(r, 3) = "overlay" -> Method(r, {"PATCH"}) \o SomeBody(r)
                     [] OTHER -> never
  <1>1. a \in BOOLEAN /\ b \in BOOLEAN
    OBVIOUS
  <1>2. LensChecks(r, role) = Authorized(role, "operator") \o << <<a, 404>> >> \o rest
    BY DEF LensChecks
  <1>3. never \in Seq(Check)
    BY ZenonT(60), StatusesAre, OneCheck
  <1> HIDE DEF a, b, never
  <1>4. << <<a, 404>> >> \in Seq(Check) /\ << <<b, 404>> >> \in Seq(Check)
    BY <1>1, StatusesAre DEF Check
  <1>5. /\ \A methods : Method(r, methods) \in Seq(Check)
      /\ ParseBody(r) \in Seq(Check) /\ SomeBody(r) \in Seq(Check)
    BY MethodCheck, ObjectCheck, BodyCheck
  <1>7. rest \in Seq(Check)
    BY <1>3, <1>4, <1>5, ChecksJoin
  <1> HIDE DEF rest
  <1>6. Asks(Authorized(role, "operator") \o << <<a, 404>> >>, role)
    BY SMTT(30), <1>4, AuthorizedAsks, AsksFirst
  <1> QED BY <1>2, <1>7, <1>6, AsksFirst

LEMMA AiRouteAsks ==
    ASSUME NEW r, NEW role \in Roles
    PROVE  Asks(AiChecks(r, role), role)
  <1> DEFINE a == AiEndpoint(r) # Blank
           b == r.body # "none"
           rest == IF AiEndpoint(r) = "GetStatus" THEN <<>> ELSE << <<b, 500>> >>
  <1>1. a \in BOOLEAN /\ b \in BOOLEAN
    OBVIOUS
  <1>2. AiChecks(r, role) = Authorized(role, "operator") \o << <<a, 404>> >> \o rest
    BY DEF AiChecks
  <1> HIDE DEF a, b
  <1>3. << <<a, 404>> >> \in Seq(Check) /\ << <<b, 500>> >> \in Seq(Check)
    BY <1>1, StatusesAre DEF Check
  <1>4. rest \in Seq(Check)
    BY <1>3, NoCheck
  <1> HIDE DEF rest
  <1>5. Asks(Authorized(role, "operator") \o << <<a, 404>> >>, role)
    BY SMTT(30), <1>3, AuthorizedAsks, AsksFirst
  <1> QED BY SMTT(30), <1>2, <1>4, <1>5, AsksFirst


----------------------------------------------------------------------------
(* What the tables of the routes say of any request. *)

LEMMA BlankApart ==
  Blank \notin {"done", "more", "error"}
  BY Zenon DEF Blank

LEMMA ControlApart ==
  ASSUME NEW a, NEW b
  PROVE  Control(a) # Nothing /\ (Control(a) = Control(b) => a = b)
  BY DEF Control, Nothing

LEMMA BusCallFields ==
  \A service, method, keys, tier :
    /\ BusCall(service, method, keys, tier).to = service
    /\ BusCall(service, method, keys, tier).method = method
    /\ BusCall(service, method, keys, tier).keys = keys
    /\ BusCall(service, method, keys, tier).tier = tier
  BY DEF BusCall

\* A bus call goes with no local effect, but for the log level, which the
\* engine is never at a loss about.
LEMMA CallsAre ==
  ASSUME NEW r
  PROVE  /\ Call(r).to \in {"none", "engine", "ai"}
         /\ Call(r).to = "ai" => LocalEffect(r) = Nothing
         /\ Call(r).to = "engine" =>
              \/ LocalEffect(r) = Nothing
              \/ /\ LocalEffect(r) = Control("log-level")
                 /\ Call(r).method = "SetLogLevel" /\ Call(r).tier = Blank
  <1> DEFINE h == Handler(r)
  <1>1. CASE h = <<"lenses">>
    <2>1. LocalEffect(r) = Nothing
      BY <1>1 DEF LocalEffect
    <2>2. Call(r).to \in {"none", "engine"}
      BY <1>1, BusCallFields DEF Call, NoCall
    <2> QED BY <2>1, <2>2
  <1>2. CASE h = <<"system">>
    <2>1. LocalEffect(r) = IF Suffix(r) = "log_level" THEN Control("log-level") ELSE Nothing
      BY <1>2 DEF LocalEffect
    <2>2. Call(r) = IF Suffix(r) = "status" THEN BusCall("engine", "GetStatus", {}, Blank)
                    ELSE BusCall("engine", "SetLogLevel", r.keys, Blank)
      BY <1>2 DEF Call
    <2>3. Call(r).to = "engine"
      BY <2>2, BusCallFields
    <2>4. Suffix(r) = "log_level" => Call(r).method = "SetLogLevel" /\ Call(r).tier = Blank
      BY <2>2, BusCallFields
    <2> QED BY <2>1, <2>3, <2>4
  <1>3. CASE h = <<"stream">>
    <2>1. LocalEffect(r) = Nothing
      BY <1>3 DEF LocalEffect
    <2>2. Call(r).to \in {"none", "engine"}
      BY <1>3, BusCallFields DEF Call, NoCall
    <2> QED BY <2>1, <2>2
  <1>4. CASE h = <<"ai">>
    <2>1. LocalEffect(r) = Nothing
      BY <1>4 DEF LocalEffect
    <2>2. Call(r).to = "ai"
      BY <1>4, BusCallFields DEF Call
    <2> QED BY <2>1, <2>2
  <1>5. CASE h \notin {<<"lenses">>, <<"system">>, <<"stream">>, <<"ai">>}
    <2>1. Call(r).to = "none"
      BY <1>5, BusCallFields DEF Call, NoCall
    <2> QED BY <2>1
  <1> QED BY <1>1, <1>2, <1>3, <1>4, <1>5

\* What is on record is of the control plane, and not of its three silent handlers.
LEMMA OnRecordAre ==
  /\ ~OnRecord(Nothing)
  /\ \A op : OnRecord(op) => op[1] = "control"
  /\ \A what \in {"delete-file", "smtp", "log-level"} : ~OnRecord(Control(what))
  BY DEF OnRecord, Unlogged, Nothing

LEMMA MeansAre ==
  /\ Means("LOGIN_SUCCESS") = Control("login")
  /\ Means("OTP_SENT") = Control("mail") /\ Means("FORGOT_PW") = Control("mail")
  /\ Means("LOGOUT") = Control("logout") /\ Means("TOTP_SETUP") = Control("totp")
  /\ Means("PW_CHANGED") = Control("password") /\ Means("PW_RESET") = Control("password")
  /\ Means("USER_CREATED") = Control("create-user")
  /\ Means("USER_REMOVED") = Control("delete-user")
  /\ Means("device_reboot") = Control("reboot")
  /\ Means("network_reset") = Control("network-reset")
  /\ \A what \in Refusals : Means(what) = Nothing /\ what \notin Known
  BY DEF Means, Refusals, Known

(* A way out says what it is: an error leaves nothing, what is done has a  *)
(* line that names the caller, and a line that says so is of no error.     *)
Tells(end) ==
  /\ end.status \in {200, 201, 202, 204, 400, 404, 500}
  /\ end.status >= 400 => end.op = Nothing
  /\ OnRecord(end.op) => \E line \in end.lines : NamesCaller(line) /\ Means(line.what) = end.op
  /\ \A line \in end.lines :
       /\ end.status < 400 /\ line.what \notin Refusals
       /\ line.what \in Known => Means(line.what) = end.op

LEMMA WayOutIs ==
  ASSUME NEW status, NEW ops, NEW lines, NEW end \in WaysOut(status, ops, lines)
  PROVE  end.status = status /\ end.op \in ops /\ end.lines = lines
  BY DEF WaysOut

LEMMA PlainTells ==
  ASSUME NEW status \in {200, 204, 400, 404, 500}, NEW end \in Plain(status)
  PROVE  Tells(end)
  <1>1. end.status = status /\ end.op = Nothing /\ end.lines = {}
    BY WayOutIs DEF Plain
  <1> QED BY <1>1, OnRecordAre DEF Tells

LEMMA LineIs ==
  ASSUME NEW what, NEW under, NEW by
  PROVE  /\ Line(what, under, by).what = what
         /\ NamesCaller(Line(what, under, by)) <=> "caller" \in {under, by}
         /\ Own(what).what = what /\ NamesCaller(Own(what))
  BY DEF Line, Own, NamesCaller

\* A way out with one line of the caller's, whose word stands for the operation.
LEMMA OwnTells ==
  ASSUME NEW status \in {200, 201, 202}, NEW op, NEW what, what \notin Refusals,
         what \in Known => Means(what) = op, OnRecord(op) => Means(what) = op,
         NEW end, end.status = status, end.op = op, end.lines = {Own(what)}
  PROVE  Tells(end)
  BY LineIs DEF Tells

LEMMA LoginTells ==
  ASSUME NEW end \in LoginEnds \cup VerifyOtpEnds \cup VerifyTotpEnds
  PROVE  Tells(end) /\ end.op \in Public \cup {Nothing}
  <1>1. CASE end \in WaysOut(200, {Control("login")}, {Own("LOGIN_SUCCESS")})
    <2>1. end.status = 200 /\ end.op = Control("login") /\ end.lines = {Own("LOGIN_SUCCESS")}
      BY <1>1, WayOutIs
    <2>2. "LOGIN_SUCCESS" \notin Refusals
      BY DEF Refusals
    <2> QED BY <2>1, <2>2, MeansAre, OwnTells DEF Public
  <1>2. CASE end \in WaysOut(202, {Control("mail")}, {Own("OTP_SENT")})
    <2>1. end.status = 202 /\ end.op = Control("mail") /\ end.lines = {Own("OTP_SENT")}
      BY <1>2, WayOutIs
    <2>2. "OTP_SENT" \notin Refusals
      BY DEF Refusals
    <2> QED BY <2>1, <2>2, MeansAre, OwnTells DEF Public
  <1>3. ASSUME NEW what \in {"OTP_SEND_FAIL", "OTP_VERIFIED"},
               end \in WaysOut(202, {Nothing}, {Own(what)})
        PROVE  Tells(end) /\ end.op \in Public \cup {Nothing}
    <2>1. end.status = 202 /\ end.op = Nothing /\ end.lines = {Own(what)}
      BY <1>3, WayOutIs
    <2>2. what \notin Refusals /\ what \notin Known
      BY DEF Refusals, Known
    <2> QED BY <2>1, <2>2, OnRecordAre, OwnTells
  <1>4. ASSUME NEW what \in {"OTP_VERIFIED", "TOTP_VERIFIED"},
               end \in WaysOut(200, {Control("login")}, {Own(what), Own("LOGIN_SUCCESS")})
        PROVE  Tells(end) /\ end.op \in Public \cup {Nothing}
    <2>1. /\ end.status = 200 /\ end.op = Control("login")
          /\ end.lines = {Own(what), Own("LOGIN_SUCCESS")}
      BY <1>4, WayOutIs
    <2>2. /\ what \notin Refusals /\ what \notin Known
          /\ "LOGIN_SUCCESS" \notin Refusals
      BY DEF Refusals, Known
    <2>3. \A line \in end.lines : line.what \in {what, "LOGIN_SUCCESS"}
      BY <2>1, LineIs
    <2>4. Own("LOGIN_SUCCESS") \in end.lines /\ NamesCaller(Own("LOGIN_SUCCESS"))
          /\ Own("LOGIN_SUCCESS").what = "LOGIN_SUCCESS"
      BY <2>1, LineIs
    <2>5. Tells(end)
      BY <2>1, <2>2, <2>3, <2>4, MeansAre DEF Tells
    <2> QED BY <2>1, <2>5 DEF Public
  <1> QED BY <1>1, <1>2, <1>3, <1>4 DEF LoginEnds, VerifyOtpEnds, VerifyTotpEnds

\* The operations that are done or not under one and the same line.
LEMMA PerhapsTells ==
  ASSUME NEW status \in {200, 201, 202}, NEW op, NEW what, Means(what) = op,
         what \notin Refusals, what \notin Known,
         NEW end \in WaysOut(status, Perhaps(op), {Own(what)})
  PROVE  Tells(end) /\ end.op \in Perhaps(op)
  <1>1. end.status = status /\ end.op \in Perhaps(op) /\ end.lines = {Own(what)}
    BY WayOutIs
  <1>2. OnRecord(end.op) => Means(what) = end.op
    BY <1>1, OnRecordAre DEF Perhaps
  <1>3. what \in Known => Means(what) = end.op
    OBVIOUS
  <1> QED BY <1>1, <1>2, <1>3, OwnTells

LEMMA AccountTells ==
  ASSUME NEW end \in SetupTotpEnds \cup LogoutEnds \cup PasswordEnds("PW_CHANGED")
                       \cup PasswordEnds("PW_RESET") \cup ForgotEnds
  PROVE  Tells(end)
  <1>1. CASE end \in LogoutEnds
    <2>1. end.status = 200 /\ end.op = Control("logout") /\ end.lines = {Own("LOGOUT")}
      BY <1>1, WayOutIs DEF LogoutEnds
    <2>2. "LOGOUT" \notin Refusals
      BY DEF Refusals
    <2> QED BY <2>1, <2>2, MeansAre, OwnTells
  <1>2. \A what \in {"TOTP_SETUP", "PW_CHANGED", "PW_RESET", "FORGOT_PW"} :
          what \notin Refusals /\ what \notin Known
    BY DEF Refusals, Known
  <1>3. CASE end \in SetupTotpEnds
    BY <1>2, <1>3, MeansAre, PerhapsTells, PlainTells DEF SetupTotpEnds
  <1>4. CASE end \in PasswordEnds("PW_CHANGED") \cup PasswordEnds("PW_RESET")
    BY <1>2, <1>4, MeansAre, PerhapsTells, PlainTells DEF PasswordEnds
  <1>5. CASE end \in ForgotEnds
    BY <1>2, <1>5, MeansAre, PerhapsTells, PlainTells DEF ForgotEnds
  <1> QED BY <1>1, <1>3, <1>4, <1>5

LEMMA UsersTells ==
  ASSUME NEW r, NEW end \in UsersEnds(r)
  PROVE  Tells(end)
  <1>1. "USER_CREATED" \notin Refusals \cup Known /\ "USER_REMOVED" \notin Refusals \cup Known
    BY DEF Refusals, Known
  <1>2. CASE r.method = "POST"
    <2> DEFINE bare == Line("USER_CREATED", "target", Blank)
               full == Line("USER_CREATED", "target", "caller")
    <2>1. end.status = 201 /\ end.op \in Perhaps(Control("create-user")) /\ end.lines = {bare, full}
      BY <1>2, WayOutIs DEF UsersEnds
    <2>2. bare.what = "USER_CREATED" /\ full.what = "USER_CREATED" /\ NamesCaller(full)
      BY LineIs
    <2> HIDE DEF bare, full
    <2> QED BY <1>1, <2>1, <2>2, MeansAre, OnRecordAre DEF Tells, Perhaps
  <1>3. CASE r.method = "DELETE"
    <2> DEFINE full == Line("USER_REMOVED", "target", "caller")
    <2>1. end.status = 200 /\ end.op \in Perhaps(Control("delete-user")) /\ end.lines = {full}
      BY <1>3, WayOutIs DEF UsersEnds
    <2>2. full.what = "USER_REMOVED" /\ NamesCaller(full)
      BY LineIs
    <2> HIDE DEF full
    <2> QED BY <1>1, <2>1, <2>2, MeansAre, OnRecordAre DEF Tells, Perhaps
  <1>4. CASE r.method \notin {"POST", "DELETE"}
    BY <1>4, PlainTells DEF UsersEnds
  <1> QED BY <1>2, <1>3, <1>4

LEMMA DeviceTells ==
  ASSUME NEW r, NEW end \in DeviceEnds(r)
  PROVE  Tells(end)
  <1>1. \A what \in {"device_reboot", "network_reset", "config_reset", "factory_reset",
                     "device_status"} : what \notin Refusals /\ what \notin Known
    BY DEF Refusals, Known
  <1>2. CASE end \in WaysOut(200, Perhaps(Control("reboot")), {Own("device_reboot")})
    BY <1>1, <1>2, MeansAre, PerhapsTells
  <1>3. CASE end \in WaysOut(200, Perhaps(Control("network-reset")), {Own("network_reset")})
    BY <1>1, <1>3, MeansAre, PerhapsTells
  <1>4. ASSUME NEW what \in {"config_reset", "factory_reset", "device_status"},
               end \in WaysOut(200, {Nothing}, {Own(what)})
        PROVE  Tells(end)
    <2>1. end.status = 200 /\ end.op = Nothing /\ end.lines = {Own(what)}
      BY <1>4, WayOutIs
    <2>2. OnRecord(end.op) => Means(what) = end.op
      BY <2>1, OnRecordAre
    <2>3. what \notin Refusals /\ (what \in Known => Means(what) = end.op)
      BY <1>1
    <2> QED BY <2>1, <2>2, <2>3, OwnTells
  <1> QED BY <1>2, <1>3, <1>4 DEF DeviceEnds

LEMMA SilentTells ==
  ASSUME NEW r, NEW end \in RecordingsEnds(r) \cup SmtpEnds(r) \cup StreamEnds(r)
                              \cup Plain(200) \cup Plain(404)
  PROVE  Tells(end)
  <1>1. CASE end \in WaysOut(200, {Control("delete-file")}, {})
                       \cup WaysOut(200, Perhaps(Control("smtp")), {})
    <2>1. /\ end.status = 200 /\ end.lines = {}
          /\ end.op \in {Control("delete-file"), Control("smtp"), Nothing}
      BY <1>1, WayOutIs DEF Perhaps
    <2> QED BY <2>1, OnRecordAre DEF Tells
  <1>2. CASE \E status \in {200, 204, 404, 500} : end \in Plain(status)
    BY <1>2, PlainTells
  <1> QED BY <1>1, <1>2 DEF RecordingsEnds, SmtpEnds, StreamEnds

LEMMA EndsTell ==
  ASSUME NEW r, NEW end \in LocalEnds(r)
  PROVE  Tells(end)
  <1>1. \/ end \in LoginEnds \cup VerifyOtpEnds \cup VerifyTotpEnds
        \/ end \in SetupTotpEnds \cup LogoutEnds \cup PasswordEnds("PW_CHANGED")
                     \cup PasswordEnds("PW_RESET") \cup ForgotEnds
        \/ end \in UsersEnds(r) \/ end \in DeviceEnds(r)
        \/ end \in RecordingsEnds(r) \cup SmtpEnds(r) \cup StreamEnds(r)
                     \cup Plain(200) \cup Plain(404)
    BY DEF LocalEnds
  <1> QED BY <1>1, LoginTells, AccountTells, UsersTells, DeviceTells, SilentTells

\* The lines of a refusal, and of nothing else.
LEMMA RefusalsTell ==
  ASSUME NEW r, NEW status
  PROVE  /\ status = 403 => \E line \in RefusalLines(r, status) :
                              NamesCaller(line) /\ line.what = "ACCESS_DENIED"
         /\ \A line \in RefusalLines(r, status) :
              status \in {400, 401, 403} /\ line.what \in Refusals
  <1>1. CASE status = 403
    <2>1. RefusalLines(r, status) = {Own("ACCESS_DENIED")}
      BY <1>1 DEF RefusalLines
    <2> QED BY <1>1, <2>1, LineIs DEF Refusals
  <1>2. CASE status # 403
    <2>1. \/ RefusalLines(r, status) = {}
          \/ /\ status \in {400, 401}
             /\ \E what \in {"LOGIN_FAIL", "OTP_FAIL", "TOTP_FAIL", "PW_CHANGE_FAIL",
                             "RESET_PW_FAIL"} : RefusalLines(r, status) = {Own(what)}
      BY <1>2 DEF RefusalLines
    <2> QED BY <1>2, <2>1, LineIs DEF Refusals
  <1> QED BY <1>1, <1>2

LEMMA TokenAsked ==
  ASSUME NEW r, NEW exists \in BOOLEAN, Refusal(r, "none", exists) = 0
  PROVE  /\ \A end \in LocalEnds(r) : end.op \in Public \cup {Nothing}
         /\ LocalEffect(r) = Nothing /\ Call(r).to = "none"
  <1> DEFINE h == Handler(r)
             checks == Checks(r, "none", exists)
  <1>1. ~Asks(checks, "none")
    BY RefusalOf DEF Asks
  <1>2. "none" \in Roles
    BY DEF Roles
  <1>3. h # <<"users">>
    BY <1>1, <1>2, UsersAsks DEF Checks
  <1>4. h # <<"device">>
    BY <1>1, <1>2, DeviceAsks DEF Checks
  <1>5. h # <<"stream">>
    BY <1>1, <1>2, StreamAsks DEF Checks
  <1>6. h # <<"recordings">>
    BY <1>1, <1>2, FilesAsks DEF Checks
  <1>7. h # <<"system", "smtp">> /\ h # <<"system">>
    BY <1>1, <1>2, SystemAsks DEF Checks
  <1>8. h # <<"lenses">>
    BY <1>1, <1>2, LensAsks DEF Checks
  <1>9. h # <<"ai">>
    BY <1>1, <1>2, AiRouteAsks DEF Checks
  <1>10. h # <<"auth", "setup-totp">> /\ h # <<"auth", "change-password">>
    BY <1>1, <1>2, AuthAsks DEF Checks
  <1>11. h # <<"auth", "logout">>
    BY <1>1, <1>2, LogoutAsks DEF Checks
  <1> HIDE DEF checks
  <1>12. Call(r).to = "none"
    BY <1>5, <1>7, <1>8, <1>9, BusCallFields DEF Call, NoCall
  <1>13. LocalEffect(r) = Nothing
    BY <1>7 DEF LocalEffect
  <1>14. ASSUME NEW end \in LocalEnds(r) PROVE end.op \in Public \cup {Nothing}
    <2>1. \/ end \in LoginEnds \cup VerifyOtpEnds \cup VerifyTotpEnds
          \/ end \in PasswordEnds("PW_RESET") \cup ForgotEnds
          \/ end \in Plain(200) \cup Plain(404)
      BY <1>3, <1>4, <1>5, <1>6, <1>7, <1>10, <1>11 DEF LocalEnds
    <2>2. end.op \in {Control("password"), Control("mail"), Nothing}
            \/ end \in LoginEnds \cup VerifyOtpEnds \cup VerifyTotpEnds
      BY <2>1, WayOutIs DEF PasswordEnds, ForgotEnds, Plain, Perhaps
    <2> QED BY <2>2, LoginTells DEF Public
  <1> QED BY <1>12, <1>13, <1>14

----------------------------------------------------------------------------
(* The invariant of the path of a command. *)

IsSeq(s) == s \in Seq({s[k] : k \in DOMAIN s})

Shape(q) ==
  /\ DOMAIN q = {"by", "cmd", "stage", "status", "said"}
  /\ q.by \in Clients /\ q.cmd \in Used
  /\ q.stage \in {"sent", "call", "poll", "answered"}
  /\ q.stage # "answered" => q.said = Blank

Busy(i) == reqs[i].stage \in {"call", "poll"}
Taken(i) == \E m \in DOMAIN received : received[m] = i

\* Nobody was told how it ended.
Open(i) == Busy(i) \/ (reqs[i].stage = "answered" /\ reqs[i].said \notin {"done", "error"})

(* Requests are taken once; the loop is busy with the last one taken, and  *)
(* nobody logs its client out meanwhile.                                   *)
RequestInv ==
  /\ session \in [Clients -> Roles]
  /\ IsSeq(reqs) /\ \A i \in DOMAIN reqs : Shape(reqs[i])
  /\ received \in Seq(Nat)
  /\ \A m \in DOMAIN received : received[m] \in DOMAIN reqs /\ reqs[received[m]].stage # "sent"
  /\ \A m, n \in DOMAIN received : received[m] = received[n] => m = n
  /\ \A i \in DOMAIN reqs : Busy(i) =>
       /\ Len(received) # 0 /\ received[Len(received)] = i
       /\ session[reqs[i].by] # "none"

(* The engine has the calls of requests whose end nobody was told, those   *)
(* of the control plane in the order the requests were taken.              *)
QueueInv ==
  /\ IsSeq(engineQ)
  /\ \A k \in DOMAIN engineQ :
       /\ Taken(engineQ[k].id) /\ Open(engineQ[k].id) /\ engineQ[k].call.to = "engine"
       /\ engineQ[k].from \in {"http", "ai"}
       /\ engineQ[k].from = "http" => engineQ[k].call = CallOf(engineQ[k].id)
       /\ engineQ[k].from = "ai" => CallOf(engineQ[k].id).to = "ai"
  /\ \A k, l \in DOMAIN engineQ :
       k < l /\ engineQ[k].from = "http" /\ engineQ[l].from = "http" =>
         ReceivedBefore(engineQ[k].id, engineQ[l].id)

Todos == { <<>>, <<"fail">>, <<"AttachSHM">>, <<"DetachSHM">>, <<"DetachSHM", "fail">>,
           <<"DetachSHM", "AttachSHM">>, <<"ToggleOverlay">> }
Failing == { <<"fail">>, <<"DetachSHM", "fail">> }

ForAi(i) == Taken(i) /\ Open(i) /\ CallOf(i).to = "ai"

(* The AI engine has each of its requests once.                            *)
AiOwn ==
  /\ aiQ \in Seq(Nat)
  /\ \A k \in DOMAIN aiQ : ForAi(aiQ[k]) /\ aiQ[k] # ai.id
  /\ \A k, l \in DOMAIN aiQ : aiQ[k] = aiQ[l] => k = l
  /\ DOMAIN ai = {"id", "todo", "asked"} /\ ai.todo \in Todos
  /\ ai.id # 0 => ForAi(ai.id)
  /\ ai.id = 0 => ai.todo = <<>> /\ ~ai.asked
  /\ ai.asked => ai.todo \notin {<<>>, <<"fail">>}

(* While the control plane waits for the AI engine, the engine has at most *)
(* the one call it is at; the calls left over belong to requests it is     *)
(* through with.                                                           *)
AiAsks ==
  \A k \in DOMAIN engineQ : engineQ[k].from = "ai" =>
    /\ \A l \in DOMAIN aiQ : aiQ[l] # engineQ[k].id
    /\ reqs[engineQ[k].id].stage = "call" =>
         /\ ai.id = engineQ[k].id /\ ai.asked
         /\ \A l \in DOMAIN engineQ : engineQ[l].from = "ai" /\ engineQ[l].id = ai.id => l = k

\* Nothing takes place for a request before it is taken.
DoneIds ==
  /\ IsSeq(effects)
  /\ \A n \in DOMAIN effects : effects[n].id \in DOMAIN reqs
  /\ \A i \in DOMAIN reqs : reqs[i].stage = "sent" => Did(i) = {}

\* Before its call is handled, only what the control plane does itself.
DoneCalls ==
  \A k \in DOMAIN engineQ : engineQ[k].from = "http" =>
    Did(engineQ[k].id) \subseteq {LocalOf(engineQ[k].id)} \ {Nothing}

\* For a request that waits for the AI engine, nothing at all.
DoneWaiting == \A k \in DOMAIN aiQ : Did(aiQ[k]) = {}

(* A method of the AI engine that is going to fail has left no more behind *)
(* than it may, and has asked for no more.                                 *)
DoneFailing ==
  ai.id # 0 /\ ai.todo \in Failing =>
    /\ Did(ai.id) \subseteq MayLeave(ai.id)
    /\ \A k \in DOMAIN engineQ :
         engineQ[k].id = ai.id => Does(engineQ[k].call) \in MayLeave(ai.id)
    /\ ai.todo = <<"DetachSHM", "fail">> => CallOf(ai.id).method = "LoadModel"

DoneErrors ==
  \A i \in DOMAIN reqs :
    reqs[i].stage = "answered" /\ reqs[i].said = "error" => Did(i) \subseteq MayLeave(i)

DoneInv == DoneIds /\ DoneCalls /\ DoneWaiting /\ DoneFailing /\ DoneErrors

----------------------------------------------------------------------------
(* Sequences and requests *)

LEMMA SeqIs ==
  ASSUME NEW s, IsSeq(s)
  PROVE  Len(s) \in Nat /\ DOMAIN s = 1 .. Len(s)
  BY DEF IsSeq

LEMMA SeqOver ==
  ASSUME NEW S, NEW t \in Seq(S)
  PROVE  IsSeq(t)
  <1>1. Len(t) \in Nat /\ DOMAIN t = 1 .. Len(t) /\ t = [k \in 1 .. Len(t) |-> t[k]]
    OBVIOUS
  <1>2. t \in [1 .. Len(t) -> {t[k] : k \in DOMAIN t}]
    BY <1>1
  <1> QED BY <1>1, <1>2 DEF IsSeq

LEMMA Grown ==
  ASSUME NEW s, IsSeq(s), NEW e
  PROVE  LET t == Append(s, e) IN
         /\ IsSeq(t) /\ Len(t) = Len(s) + 1 /\ t[Len(s) + 1] = e
         /\ \A k \in 1 .. Len(s) : t[k] = s[k]
  <1> DEFINE t == Append(s, e)
             S == {s[k] : k \in DOMAIN s} \cup {e}
  <1>1. s \in Seq(S) /\ e \in S
    BY DEF IsSeq
  <1> HIDE DEF S
  <1>2. /\ t \in Seq(S) /\ Len(t) = Len(s) + 1 /\ t[Len(s) + 1] = e
        /\ \A k \in 1 .. Len(s) : t[k] = s[k]
    BY <1>1
  <1>3. IsSeq(t)
    BY <1>2, SeqOver
  <1> QED BY <1>2, <1>3

LEMMA Shortened ==
  ASSUME NEW s, IsSeq(s), s # <<>>, NEW t, t = Tail(s)
  PROVE  /\ IsSeq(t) /\ Len(t) = Len(s) - 1 /\ Len(s) \in Nat \ {0} /\ Head(s) = s[1]
         /\ \A k \in 1 .. Len(t) : t[k] = s[k + 1]
  <1> DEFINE S == {s[k] : k \in DOMAIN s}
  <1>1. s \in Seq(S)
    BY DEF IsSeq
  <1> HIDE DEF S
  <1>2. /\ t \in Seq(S) /\ Len(t) = Len(s) - 1 /\ Len(s) \in Nat \ {0} /\ Head(s) = s[1]
        /\ \A k \in 1 .. Len(t) : t[k] = s[k + 1]
    BY <1>1
  <1> QED BY <1>2, SeqOver

\* A change of one element keeps the sequence.
LEMMA Changed ==
  ASSUME NEW s, IsSeq(s), NEW t, t = [k \in DOMAIN s |-> t[k]]
  PROVE  IsSeq(t)
  <1>1. Len(s) \in Nat /\ DOMAIN s = 1 .. Len(s)
    BY SeqIs
  <1>2. t \in [1 .. Len(s) -> {t[k] : k \in DOMAIN t}]
    BY <1>1
  <1> QED BY <1>1, <1>2 DEF IsSeq

LEMMA AnsweredIs ==
  ASSUME NEW rs, IsSeq(rs), NEW i \in DOMAIN rs, Shape(rs[i]), NEW status, NEW said,
         NEW t, t = Answered(rs, i, status, said)
  PROVE  /\ IsSeq(t) /\ DOMAIN t = DOMAIN rs /\ \A j \in DOMAIN rs : j # i => t[j] = rs[j]
         /\ t[i].by = rs[i].by /\ t[i].cmd = rs[i].cmd /\ Shape(t[i])
         /\ t[i].stage = "answered" /\ t[i].said = said /\ t[i].status = status
  <1>1. /\ DOMAIN t = DOMAIN rs /\ \A j \in DOMAIN rs : j # i => t[j] = rs[j]
        /\ t = [k \in DOMAIN rs |-> t[k]]
    BY DEF Answered
  <1>2. t[i] = [rs[i] EXCEPT !.stage = "answered", !.status = status, !.said = said]
    BY DEF Answered
  <1>3. /\ t[i].by = rs[i].by /\ t[i].cmd = rs[i].cmd /\ Shape(t[i])
        /\ t[i].stage = "answered" /\ t[i].said = said /\ t[i].status = status
    BY <1>2 DEF Shape
  <1> QED BY <1>1, <1>3, Changed

LEMMA CallOverIs ==
  ASSUME NEW rs, IsSeq(rs), NEW i \in DOMAIN rs, Shape(rs[i]), rs[i].stage # "answered", NEW said,
         NEW t, t = CallOver(rs, i, said)
  PROVE  /\ IsSeq(t) /\ DOMAIN t = DOMAIN rs /\ \A j \in DOMAIN rs : j # i => t[j] = rs[j]
         /\ t[i].by = rs[i].by /\ t[i].cmd = rs[i].cmd /\ Shape(t[i])
         /\ \/ t[i].stage = "poll" /\ t[i].status = rs[i].status
            \/ t[i].stage = "answered" /\ t[i].said = said /\ t[i].status \in {200, 503}
  <1>1. CASE t = [rs EXCEPT ![i].stage = "poll"]
    <2>1. /\ DOMAIN t = DOMAIN rs /\ \A j \in DOMAIN rs : j # i => t[j] = rs[j]
          /\ t = [k \in DOMAIN rs |-> t[k]] /\ t[i] = [rs[i] EXCEPT !.stage = "poll"]
      BY <1>1
    <2>2. /\ t[i].by = rs[i].by /\ t[i].cmd = rs[i].cmd /\ Shape(t[i])
          /\ t[i].stage = "poll" /\ t[i].status = rs[i].status
      BY <2>1 DEF Shape
    <2> QED BY <2>1, <2>2, Changed
  <1>2. CASE \E status \in {200, 503} : t = Answered(rs, i, status, said)
    BY <1>2, AnsweredIs
  <1>3. \/ t = [rs EXCEPT ![i].stage = "poll"]
        \/ \E status \in {200, 503} : t = Answered(rs, i, status, said)
    BY DEF CallOver
  <1> QED BY <1>1, <1>2, <1>3

----------------------------------------------------------------------------
(* What a step may do to the requests: nothing, one more, one taken from   *)
(* where it waits, or one that is over.                                    *)

Moves(i) ==
  /\ i \in DOMAIN reqs /\ IsSeq(reqs') /\ DOMAIN reqs' = DOMAIN reqs
  /\ \A j \in DOMAIN reqs : j # i => reqs'[j] = reqs[j]
  /\ reqs'[i].by = reqs[i].by /\ reqs'[i].cmd = reqs[i].cmd
  /\ Shape(reqs'[i]) /\ reqs'[i].stage # "sent"

Quiet == UNCHANGED <<session, reqs, received>>

Asked ==
  /\ \E q : Shape(q) /\ q.stage = "sent" /\ q.status = 0 /\ reqs' = Append(reqs, q)
  /\ UNCHANGED <<session, received>>

Takings(i) ==
  /\ Moves(i) /\ reqs[i].stage = "sent" /\ LoopIdle
  /\ received' = Append(received, i)
  /\ session' \in [Clients -> Roles]
  /\ reqs'[i].stage \in {"call", "poll"} => session' = session /\ RoleOf(i) # "none"

Ends(i) == Moves(i) /\ Busy(i) /\ reqs'[i].stage # "call" /\ UNCHANGED <<session, received>>

Step(i) == (i = 0 /\ (Quiet \/ Asked)) \/ Takings(i) \/ Ends(i)

\* What no step changes, except for the stage and the outcome of request i.
Carries(i) ==
  /\ DOMAIN reqs \subseteq DOMAIN reqs' /\ DOMAIN received \subseteq DOMAIN received'
  /\ \A j \in DOMAIN reqs :
       /\ j # i => reqs'[j] = reqs[j]
       /\ reqs'[j].by = reqs[j].by /\ reqs'[j].cmd = reqs[j].cmd
  /\ \A m \in DOMAIN received : received'[m] = received[m]

LEMMA Ids ==
  ASSUME RequestInv
  PROVE  /\ Len(reqs) \in Nat /\ DOMAIN reqs = 1 .. Len(reqs) /\ 0 \notin DOMAIN reqs
         /\ Len(received) \in Nat /\ DOMAIN received = 1 .. Len(received)
  BY SeqIs DEF RequestInv

LEMMA AskedKeeps ==
  ASSUME RequestInv, Asked
  PROVE  RequestInv' /\ Carries(0) /\ DOMAIN reqs' = DOMAIN reqs \cup {Len(reqs) + 1}
         /\ reqs'[Len(reqs) + 1].stage = "sent" /\ reqs'[Len(reqs) + 1].status = 0
  <1>1. PICK q : Shape(q) /\ q.stage = "sent" /\ q.status = 0 /\ reqs' = Append(reqs, q)
    BY DEF Asked
  <1>2. /\ IsSeq(reqs') /\ Len(reqs') = Len(reqs) + 1 /\ reqs'[Len(reqs) + 1] = q
        /\ \A k \in 1 .. Len(reqs) : reqs'[k] = reqs[k]
    <2>1. IsSeq(reqs)
      BY DEF RequestInv
    <2>2. reqs' = Append(reqs, q)
      BY <1>1
    <2> QED BY <2>1, <2>2, Grown
  <1>3. Len(reqs) \in Nat /\ DOMAIN reqs = 1 .. Len(reqs) /\ DOMAIN reqs' = 1 .. Len(reqs) + 1
    BY <1>2, Ids, SeqIs
  <1>4. session' = session /\ received' = received
    BY DEF Asked
  <1>5. \A j \in DOMAIN reqs' : (j \in DOMAIN reqs /\ reqs'[j] = reqs[j]) \/ reqs'[j] = q
    BY <1>2, <1>3
  <1>6. \A j \in DOMAIN reqs' : Shape(reqs'[j])
    BY <1>1, <1>5 DEF RequestInv
  <1>7. \A m \in DOMAIN received : received[m] \in DOMAIN reqs' /\ reqs'[received[m]].stage # "sent"
    BY <1>2, <1>3 DEF RequestInv
  <1>8. ASSUME NEW j \in DOMAIN reqs', reqs'[j].stage \in {"call", "poll"}
        PROVE  Len(received) # 0 /\ received[Len(received)] = j /\ session[reqs'[j].by] # "none"
    <2>1. j \in DOMAIN reqs /\ reqs'[j] = reqs[j]
      BY <1>1, <1>5, <1>8
    <2> QED BY <2>1, <1>8 DEF RequestInv, Busy
  <1>9. RequestInv'
    BY <1>2, <1>4, <1>6, <1>7, <1>8 DEF RequestInv, Busy
  <1>10. Carries(0)
    BY <1>2, <1>3, <1>4 DEF Carries
  <1>11. DOMAIN reqs' = DOMAIN reqs \cup {Len(reqs) + 1}
    BY <1>3
  <1> QED BY <1>1, <1>2, <1>9, <1>10, <1>11

LEMMA QuietKeeps ==
  ASSUME RequestInv, Quiet
  PROVE  RequestInv' /\ Carries(0)
  BY DEF RequestInv, Quiet, Carries, Busy

LEMMA MovesKeeps ==
  ASSUME RequestInv, NEW i, Moves(i), DOMAIN received \subseteq DOMAIN received',
         \A m \in DOMAIN received : received'[m] = received[m]
  PROVE  /\ Carries(i) /\ IsSeq(reqs)' /\ \A j \in DOMAIN reqs' : Shape(reqs'[j])
         /\ i \in DOMAIN reqs /\ DOMAIN reqs' = DOMAIN reqs /\ reqs'[i].stage # "sent"
  BY DEF Moves, Carries, RequestInv

LEMMA TakingsKeeps ==
  ASSUME RequestInv, NEW i, Takings(i)
  PROVE  /\ RequestInv' /\ Carries(i) /\ ~Taken(i) /\ Taken(i)'
         /\ \A j : Taken(j) => j # i /\ ReceivedBefore(j, i)'
         /\ \A j, k : ReceivedBefore(j, k)' => ReceivedBefore(j, k) \/ k = i
         /\ \A j : ~ReceivedBefore(i, j)'
  <1>1. Moves(i) /\ reqs[i].stage = "sent" /\ LoopIdle /\ received' = Append(received, i)
    BY DEF Takings
  <1>2. i \in Nat
    BY <1>1, Ids DEF Moves
  <1>3. /\ received' \in Seq(Nat) /\ Len(received') = Len(received) + 1
        /\ received'[Len(received) + 1] = i
        /\ \A k \in 1 .. Len(received) : received'[k] = received[k]
    BY <1>1, <1>2 DEF RequestInv
  <1>4. /\ Len(received) \in Nat /\ DOMAIN received = 1 .. Len(received)
        /\ DOMAIN received' = 1 .. Len(received) + 1
    BY <1>3, Ids
  <1>5. /\ Carries(i) /\ IsSeq(reqs)' /\ \A j \in DOMAIN reqs' : Shape(reqs'[j])
        /\ i \in DOMAIN reqs /\ DOMAIN reqs' = DOMAIN reqs /\ reqs'[i].stage # "sent"
    BY <1>1, <1>3, <1>4, MovesKeeps
  <1>6. \A m \in DOMAIN received : received[m] # i
    BY <1>1 DEF RequestInv
  <1>7. \A m \in DOMAIN received' :
          \/ m \in DOMAIN received /\ received'[m] = received[m]
          \/ m = Len(received) + 1 /\ received'[m] = i
    <2> SUFFICES ASSUME NEW m \in DOMAIN received'
                 PROVE  \/ m \in DOMAIN received /\ received'[m] = received[m]
                        \/ m = Len(received) + 1 /\ received'[m] = i
      OBVIOUS
    <2>1. m \in 1 .. Len(received) \/ m = Len(received) + 1
      BY <1>4
    <2> QED BY <2>1, <1>3, <1>4
  <1>8. \A m \in DOMAIN received' :
          received'[m] \in DOMAIN reqs' /\ reqs'[received'[m]].stage # "sent"
    BY <1>5, <1>6, <1>7 DEF RequestInv, Carries
  <1>9. \A m, n \in DOMAIN received' : received'[m] = received'[n] => m = n
    BY <1>6, <1>7 DEF RequestInv
  <1>10. ASSUME NEW j \in DOMAIN reqs', reqs'[j].stage \in {"call", "poll"}
         PROVE  /\ Len(received') # 0 /\ received'[Len(received')] = j
                /\ session'[reqs'[j].by] # "none"
    <2>1. j = i
      BY <1>1, <1>5, <1>10 DEF LoopIdle, Carries
    <2>2. session' = session /\ RoleOf(i) # "none"
      BY <2>1, <1>10 DEF Takings
    <2>3. session'[reqs'[j].by] # "none"
      BY <2>1, <2>2, <1>5 DEF Carries, RoleOf
    <2> QED BY <2>1, <2>3, <1>3, <1>4
  <1>11. RequestInv'
    BY <1>3, <1>5, <1>8, <1>9, <1>10 DEF RequestInv, Busy, Takings
  <1>12. ~Taken(i) /\ Taken(i)'
    BY <1>3, <1>4, <1>6 DEF Taken
  <1>13. \A j : Taken(j) => j # i /\ ReceivedBefore(j, i)'
    <2> SUFFICES ASSUME NEW j, Taken(j) PROVE j # i /\ ReceivedBefore(j, i)'
      OBVIOUS
    <2>1. PICK m \in DOMAIN received : received[m] = j
      BY DEF Taken
    <2>2. m \in DOMAIN received' /\ Len(received) + 1 \in DOMAIN received' /\ m < Len(received) + 1
      BY <1>4
    <2> QED BY <2>1, <2>2, <1>3, <1>4, <1>6 DEF ReceivedBefore
  <1>14. ASSUME NEW j, NEW k, ReceivedBefore(j, k)' PROVE ReceivedBefore(j, k) \/ k = i
    <2>1. PICK m \in DOMAIN received', n \in DOMAIN received' :
            m < n /\ received'[m] = j /\ received'[n] = k
      BY <1>14 DEF ReceivedBefore
    <2>2. CASE n \in DOMAIN received
      <3>1. m \in DOMAIN received
        BY <2>1, <2>2, <1>4
      <3> QED BY <2>1, <2>2, <3>1, <1>3, <1>4 DEF ReceivedBefore
    <2> QED BY <2>1, <2>2, <1>7
  <1>15. ASSUME NEW j, ReceivedBefore(i, j)' PROVE FALSE
    <2>1. PICK m \in DOMAIN received', n \in DOMAIN received' : m < n /\ received'[m] = i
      BY <1>15 DEF ReceivedBefore
    <2>2. m \in DOMAIN received
      BY <2>1, <1>4
    <2> QED BY <2>1, <2>2, <1>3, <1>4, <1>6
  <1> QED BY <1>5, <1>11, <1>12, <1>13, <1>14, <1>15

LEMMA EndsKeeps ==
  ASSUME RequestInv, NEW i, Ends(i)
  PROVE  RequestInv' /\ Carries(i)
  <1>1. Moves(i) /\ Busy(i) /\ session' = session /\ received' = received
    BY DEF Ends
  <1>2. /\ Carries(i) /\ IsSeq(reqs)' /\ \A j \in DOMAIN reqs' : Shape(reqs'[j])
        /\ i \in DOMAIN reqs /\ DOMAIN reqs' = DOMAIN reqs /\ reqs'[i].stage # "sent"
    BY <1>1, MovesKeeps
  <1>3. \A m \in DOMAIN received : received[m] \in DOMAIN reqs' /\ reqs'[received[m]].stage # "sent"
    BY <1>2 DEF RequestInv, Carries
  <1>4. ASSUME NEW j \in DOMAIN reqs', reqs'[j].stage \in {"call", "poll"}
        PROVE  Len(received) # 0 /\ received[Len(received)] = j /\ session[reqs'[j].by] # "none"
    <2>1. Busy(j) /\ reqs'[j].by = reqs[j].by
      BY <1>1, <1>2, <1>4 DEF Carries, Busy
    <2> QED BY <2>1, <1>2 DEF RequestInv
  <1> QED BY <1>1, <1>2, <1>3, <1>4 DEF RequestInv, Busy

LEMMA StepKeeps ==
  ASSUME RequestInv, NEW i, Step(i)
  PROVE  RequestInv' /\ Carries(i) /\ DOMAIN reqs \subseteq DOMAIN reqs'
  BY AskedKeeps, QuietKeeps, TakingsKeeps, EndsKeeps DEF Step, Carries

\* Only a request just taken begins to wait; a request that was taken stays so.
LEMMA StepForward ==
  ASSUME RequestInv, NEW i, Step(i)
  PROVE  /\ \A j \in DOMAIN reqs : /\ reqs'[j].stage = "sent" => reqs[j].stage = "sent"
                                   /\ j = i => reqs'[j].stage # "sent"
         /\ \A j : Taken(j) => /\ j \in DOMAIN reqs
                               /\ reqs'[j].stage = "call" => reqs[j].stage = "call" /\ j # i
         /\ \A j \in DOMAIN reqs' \ DOMAIN reqs : reqs'[j].stage = "sent"
  <1>1. CASE i = 0 /\ Quiet
    BY <1>1, Ids DEF Quiet, Taken, RequestInv
  <1>2. CASE i = 0 /\ Asked
    BY <1>2, Ids, AskedKeeps DEF Carries, Taken, RequestInv
  <1>3. CASE Takings(i)
    <2>1. Moves(i) /\ reqs[i].stage = "sent" /\ Carries(i)
      BY <1>3, TakingsKeeps DEF Takings
    <2> QED BY <1>3, <2>1 DEF Taken, RequestInv, Carries, Moves
  <1>4. CASE Ends(i)
    <2>1. Moves(i) /\ reqs'[i].stage # "call" /\ Carries(i)
      BY <1>4, EndsKeeps DEF Ends
    <2> QED BY <1>4, <2>1 DEF Taken, RequestInv, Carries, Moves
  <1> QED BY <1>1, <1>2, <1>3, <1>4 DEF Step

LEMMA Carried ==
  ASSUME RequestInv, NEW i, Carries(i)
  PROVE  /\ \A j \in DOMAIN reqs : /\ CallOf(j)' = CallOf(j) /\ LocalOf(j)' = LocalOf(j)
                                   /\ MayLeave(j)' = MayLeave(j)
                                   /\ j # i => Open(j)' = Open(j) /\ Busy(j)' = Busy(j)
         /\ \A j : Taken(j) => Taken(j)' /\ j \in DOMAIN reqs /\ j # 0
         /\ \A j, k : ReceivedBefore(j, k) => ReceivedBefore(j, k)'
  <1>1. ASSUME NEW j \in DOMAIN reqs
        PROVE  CallOf(j)' = CallOf(j) /\ LocalOf(j)' = LocalOf(j)
    BY DEF Carries, CallOf, LocalOf
  <1>2. \A j \in DOMAIN reqs : MayLeave(j)' = MayLeave(j)
    BY <1>1 DEF MayLeave
  <1>3. \A j \in DOMAIN reqs : j # i => Open(j)' = Open(j) /\ Busy(j)' = Busy(j)
    BY DEF Carries, Open, Busy
  <1>4. \A j : Taken(j) => Taken(j)' /\ j \in DOMAIN reqs /\ j # 0
    BY Ids DEF Carries, Taken, RequestInv
  <1>5. \A j, k : ReceivedBefore(j, k) => ReceivedBefore(j, k)'
    BY DEF Carries, ReceivedBefore
  <1> QED BY <1>1, <1>2, <1>3, <1>4, <1>5

----------------------------------------------------------------------------
(* The engine's queue: calls leave it at the head and are appended. *)

LEMMA QueueRest ==
  ASSUME RequestInv, QueueInv, NEW i, Carries(i), NEW d \in Nat, IsSeq(engineQ'),
         \A k \in DOMAIN engineQ' :
           /\ k + d \in DOMAIN engineQ /\ engineQ'[k] = engineQ[k + d]
           /\ engineQ'[k].id = i => Open(i)'
  PROVE  QueueInv'
  <1>1. ASSUME NEW k \in DOMAIN engineQ', NEW m, m = engineQ'[k]
        PROVE  /\ Taken(m.id)' /\ Open(m.id)' /\ m.call.to = "engine" /\ m.from \in {"http", "ai"}
               /\ m.from = "http" => m.call = CallOf(m.id)'
               /\ m.from = "ai" => CallOf(m.id)'.to = "ai"
    <2>1. /\ Taken(m.id) /\ Open(m.id) /\ m.call.to = "engine" /\ m.from \in {"http", "ai"}
          /\ m.from = "http" => m.call = CallOf(m.id)
          /\ m.from = "ai" => CallOf(m.id).to = "ai"
      BY <1>1 DEF QueueInv
    <2>2. m.id \in DOMAIN reqs /\ Taken(m.id)'
      BY <2>1, Carried
    <2>3. CallOf(m.id)' = CallOf(m.id) /\ (m.id # i => Open(m.id)')
      BY <2>1, <2>2, Carried
    <2>4. m.id = i => Open(m.id)'
      BY <1>1
    <2> QED BY <2>1, <2>2, <2>3, <2>4
  <1>2. ASSUME NEW k \in DOMAIN engineQ', NEW l \in DOMAIN engineQ', k < l,
               engineQ'[k].from = "http", engineQ'[l].from = "http"
        PROVE  ReceivedBefore(engineQ[k].id, engineQ[l].id)'
    <2>1. k \in Nat /\ l \in Nat
      BY SeqIs
    <2>2. k + d < l + d
      BY <2>1, <1>2
    <2>3. ReceivedBefore(engineQ'[k].id, engineQ'[l].id)
      BY <2>2, <1>2 DEF QueueInv
    <2>4. \A x, y : ReceivedBefore(x, y) => ReceivedBefore(x, y)'
      BY Carried
    <2>5. \A x, y : x = engineQ'[k].id /\ y = engineQ'[l].id =>
                      ReceivedBefore(x, y)' = ReceivedBefore(engineQ[k].id, engineQ[l].id)'
      OBVIOUS
    <2> QED BY <2>3, <2>4, <2>5
  <1>3. IsSeq(engineQ)'
    OBVIOUS
  <1> QED BY <1>1, <1>2, <1>3 DEF QueueInv

LEMMA QueueKept ==
  ASSUME RequestInv, QueueInv, NEW i, Carries(i), UNCHANGED engineQ,
         \A k \in DOMAIN engineQ : engineQ[k].id = i => Open(i)'
  PROVE  QueueInv'
  <1>1. \A k \in DOMAIN engineQ' : /\ k + 0 \in DOMAIN engineQ /\ engineQ'[k] = engineQ[k + 0]
                                   /\ engineQ'[k].id = i => Open(i)'
    BY SeqIs DEF QueueInv
  <1>2. IsSeq(engineQ') /\ 0 \in Nat
    BY DEF QueueInv
  <1> QED BY <1>1, <1>2, QueueRest

LEMMA HeadIs ==
  ASSUME QueueInv, engineQ # <<>>
  PROVE  /\ 1 \in DOMAIN engineQ /\ Head(engineQ) = engineQ[1] /\ IsSeq(Tail(engineQ))
         /\ \A k \in DOMAIN Tail(engineQ) : /\ k + 1 \in DOMAIN engineQ /\ k + 1 > 1
                                            /\ Tail(engineQ)[k] = engineQ[k + 1]
  <1> DEFINE t == Tail(engineQ)
  <1>1. IsSeq(engineQ)
    BY DEF QueueInv
  <1>2. /\ IsSeq(t) /\ Len(t) = Len(engineQ) - 1 /\ Len(engineQ) \in Nat \ {0}
        /\ Head(engineQ) = engineQ[1]
        /\ \A k \in 1 .. Len(t) : t[k] = engineQ[k + 1]
    BY <1>1, Shortened
  <1>3. DOMAIN engineQ = 1 .. Len(engineQ) /\ DOMAIN t = 1 .. Len(t)
    BY <1>1, <1>2, SeqIs
  <1> QED BY <1>2, <1>3

LEMMA QueueShrinks ==
  ASSUME RequestInv, QueueInv, engineQ # <<>>, engineQ' = Tail(engineQ), NEW i, Carries(i),
         \A k \in DOMAIN engineQ : k > 1 /\ engineQ[k].id = i => Open(i)'
  PROVE  QueueInv'
  <1>1. \A k \in DOMAIN engineQ' : /\ k + 1 \in DOMAIN engineQ /\ engineQ'[k] = engineQ[k + 1]
                                   /\ engineQ'[k].id = i => Open(i)'
    BY HeadIs
  <1>2. IsSeq(engineQ') /\ 1 \in Nat
    BY HeadIs
  <1> QED BY <1>1, <1>2, QueueRest

LEMMA Appended ==
  ASSUME IsSeq(engineQ), NEW m, engineQ' = Append(engineQ, m)
  PROVE  /\ IsSeq(engineQ') /\ Len(engineQ) + 1 \in DOMAIN engineQ'
         /\ DOMAIN engineQ \subseteq DOMAIN engineQ'
         /\ \A k \in DOMAIN engineQ : engineQ'[k] = engineQ[k] /\ k # Len(engineQ) + 1
         /\ \A k \in DOMAIN engineQ' : k \in DOMAIN engineQ \/ k = Len(engineQ) + 1
         /\ engineQ'[Len(engineQ) + 1] = m
         /\ \A k, l \in DOMAIN engineQ' : k < l => k \in DOMAIN engineQ
  <1>1. /\ IsSeq(engineQ') /\ Len(engineQ') = Len(engineQ) + 1 /\ engineQ'[Len(engineQ) + 1] = m
        /\ \A k \in 1 .. Len(engineQ) : engineQ'[k] = engineQ[k]
    BY Grown
  <1>2. /\ Len(engineQ) \in Nat /\ DOMAIN engineQ = 1 .. Len(engineQ)
        /\ DOMAIN engineQ' = 1 .. Len(engineQ) + 1
    BY <1>1, SeqIs
  <1> QED BY <1>1, <1>2

LEMMA QueueGrows ==
  ASSUME RequestInv, QueueInv, NEW i, Carries(i), NEW m, engineQ' = Append(engineQ, m),
         \A k \in DOMAIN engineQ : engineQ[k].id # i,
         Taken(m.id)', Open(m.id)', m.call.to = "engine", m.from \in {"http", "ai"},
         m.from = "http" => /\ m.call = CallOf(m.id)'
                            /\ \A k \in DOMAIN engineQ : ReceivedBefore(engineQ[k].id, m.id)',
         m.from = "ai" => CallOf(m.id)'.to = "ai"
  PROVE  QueueInv'
  <1>1. /\ IsSeq(engineQ')
        /\ \A k \in DOMAIN engineQ : engineQ'[k] = engineQ[k]
        /\ \A k \in DOMAIN engineQ' : k \in DOMAIN engineQ \/ engineQ'[k] = m
        /\ \A k, l \in DOMAIN engineQ' : k < l => k \in DOMAIN engineQ
    BY Appended DEF QueueInv
  <1>2. ASSUME NEW k \in DOMAIN engineQ', NEW n, n = engineQ'[k]
        PROVE  /\ Taken(n.id)' /\ Open(n.id)' /\ n.call.to = "engine" /\ n.from \in {"http", "ai"}
               /\ n.from = "http" => n.call = CallOf(n.id)'
               /\ n.from = "ai" => CallOf(n.id)'.to = "ai"
    <2>1. CASE n = m
      BY <2>1
    <2>2. CASE k \in DOMAIN engineQ
      <3>1. /\ Taken(n.id) /\ Open(n.id) /\ n.call.to = "engine" /\ n.from \in {"http", "ai"}
            /\ n.from = "http" => n.call = CallOf(n.id)
            /\ n.from = "ai" => CallOf(n.id).to = "ai"
            /\ n.id # i
        BY <1>1, <1>2, <2>2 DEF QueueInv
      <3>2. n.id \in DOMAIN reqs /\ Taken(n.id)'
        BY <3>1, Carried
      <3>3. Open(n.id)' /\ CallOf(n.id)' = CallOf(n.id)
        BY <3>1, <3>2, Carried
      <3> QED BY <3>1, <3>2, <3>3
    <2> QED BY <2>1, <2>2, <1>1, <1>2
  <1>3. ASSUME NEW k \in DOMAIN engineQ', NEW l \in DOMAIN engineQ', k < l,
               engineQ'[k].from = "http", engineQ'[l].from = "http"
        PROVE  ReceivedBefore(engineQ[k].id, engineQ[l].id)'
    <2>1. k \in DOMAIN engineQ /\ engineQ'[k] = engineQ[k]
      BY <1>1, <1>3
    <2>2. \A x, y : x = engineQ'[k].id /\ y = engineQ'[l].id =>
                      ReceivedBefore(x, y)' = ReceivedBefore(engineQ[k].id, engineQ[l].id)'
      OBVIOUS
    <2>3. CASE engineQ'[l] = m
      <3>1. ReceivedBefore(engineQ[k].id, m.id)'
        BY <2>1, <2>3, <1>3
      <3> QED BY <2>1, <2>2, <2>3, <3>1
    <2>4. CASE l \in DOMAIN engineQ
      <3>1. ReceivedBefore(engineQ[k].id, engineQ[l].id) /\ engineQ'[l] = engineQ[l]
        BY <2>1, <2>4, <1>1, <1>3 DEF QueueInv
      <3>2. \A x, y : ReceivedBefore(x, y) => ReceivedBefore(x, y)'
        BY Carried
      <3> QED BY <2>1, <2>2, <3>1, <3>2
    <2> QED BY <2>3, <2>4, <1>1
  <1>4. IsSeq(engineQ)'
    BY <1>1
  <1> QED BY <1>2, <1>3, <1>4 DEF QueueInv

\* No two calls of the control plane are for one request.
LEMMA CallsApart ==
  ASSUME RequestInv, QueueInv, NEW k \in DOMAIN engineQ, NEW l \in DOMAIN engineQ,
         engineQ[k].from = "http", engineQ[l].id = engineQ[k].id
  PROVE  l = k
  <1>1. k \in Nat /\ l \in Nat
    BY SeqIs DEF QueueInv
  <1>2. engineQ[l].from = "http"
    BY DEF QueueInv
  <1>3. \A j : ~ReceivedBefore(j, j)
    <2> SUFFICES ASSUME NEW j, ReceivedBefore(j, j) PROVE FALSE
      OBVIOUS
    <2>1. PICK m \in DOMAIN received, n \in DOMAIN received :
            m < n /\ received[m] = received[n]
      BY DEF ReceivedBefore
    <2>2. m = n /\ m \in Nat
      BY <2>1, Ids DEF RequestInv
    <2> QED BY <2>1, <2>2
  <1>4. k < l \/ l < k \/ l = k
    BY <1>1
  <1> QED BY <1>2, <1>3, <1>4 DEF QueueInv

\* Which of two requests was taken first is settled.
LEMMA BeforeOnce ==
  ASSUME RequestInv, NEW i, NEW j, ReceivedBefore(i, j), ReceivedBefore(j, i)
  PROVE  FALSE
  <1>1. PICK m \in DOMAIN received, n \in DOMAIN received :
          m < n /\ received[m] = i /\ received[n] = j
    BY DEF ReceivedBefore
  <1>2. PICK p \in DOMAIN received, q \in DOMAIN received :
          p < q /\ received[p] = j /\ received[q] = i
    BY DEF ReceivedBefore
  <1>3. p = n /\ q = m
    BY <1>1, <1>2 DEF RequestInv
  <1>4. m \in Nat /\ n \in Nat
    BY Ids
  <1> QED BY <1>1, <1>2, <1>3, <1>4

----------------------------------------------------------------------------
(* What took place: one more operation, for one request, or nothing. *)

Adds(i, op) ==
  /\ IsSeq(effects') /\ DOMAIN effects \subseteq DOMAIN effects'
  /\ \A k \in DOMAIN effects : effects'[k] = effects[k]
  /\ \A k \in DOMAIN effects' \ DOMAIN effects :
       op # Nothing /\ effects'[k].id = i /\ effects'[k].op = op

LEMMA NothingAdded ==
  ASSUME DoneIds, UNCHANGED effects, NEW i, NEW op
  PROVE  Adds(i, op)
  BY DEF DoneIds, Adds

LEMMA EffectAdded ==
  ASSUME DoneIds, NEW i, NEW op, effects' = effects \o Effect(i, op)
  PROVE  Adds(i, op)
  <1>1. IsSeq(effects)
    BY DEF DoneIds
  <1>2. Len(effects) \in Nat /\ DOMAIN effects = 1 .. Len(effects)
    BY <1>1, SeqIs
  <1>3. CASE op = Nothing
    <2>1. effects' = effects
      BY <1>1, <1>3 DEF Effect, IsSeq
    <2> QED BY <2>1, NothingAdded
  <1>4. CASE op # Nothing
    <2> DEFINE e == [id |-> i, op |-> op]
    <2>1. effects' = effects \o <<e>>
      BY <1>4 DEF Effect
    <2>2. effects' = Append(effects, e)
      <3> DEFINE S == {effects[k] : k \in DOMAIN effects} \cup {e}
      <3>1. effects \in Seq(S) /\ e \in S
        BY <1>1 DEF IsSeq
      <3> HIDE DEF S
      <3> QED BY <2>1, <3>1
    <2> HIDE DEF e
    <2>3. /\ IsSeq(effects') /\ Len(effects') = Len(effects) + 1
          /\ effects'[Len(effects) + 1] = e
          /\ \A k \in 1 .. Len(effects) : effects'[k] = effects[k]
      BY <1>1, <2>2, Grown
    <2>4. DOMAIN effects' = 1 .. Len(effects) + 1
      BY <1>2, <2>3, SeqIs
    <2>5. \A k \in DOMAIN effects' \ DOMAIN effects : effects'[k] = e
      BY <1>2, <2>3, <2>4
    <2>6. e.id = i /\ e.op = op
      BY DEF e
    <2> QED BY <1>2, <1>4, <2>3, <2>4, <2>5, <2>6 DEF Adds
  <1> QED BY <1>3, <1>4

LEMMA DidAdded ==
  ASSUME DoneIds, NEW i, NEW op, op # Nothing, effects' = effects \o Effect(i, op)
  PROVE  op \in Did(i)'
  <1> DEFINE e == [id |-> i, op |-> op]
             S == {effects[k] : k \in DOMAIN effects} \cup {e}
  <1>1. IsSeq(effects) /\ effects' = effects \o <<e>>
    BY DEF DoneIds, Effect
  <1>2. effects \in Seq(S) /\ e \in S
    BY <1>1 DEF IsSeq
  <1> HIDE DEF S
  <1>3. effects' = Append(effects, e)
    BY <1>1, <1>2
  <1> HIDE DEF e
  <1>4. Len(effects) + 1 \in DOMAIN effects' /\ effects'[Len(effects) + 1] = e
    <2>1. IsSeq(effects') /\ Len(effects') = Len(effects) + 1 /\ effects'[Len(effects) + 1] = e
      BY <1>1, <1>3, Grown
    <2>2. Len(effects) \in Nat /\ DOMAIN effects' = 1 .. Len(effects')
      BY <1>1, <2>1, SeqIs
    <2> QED BY <2>1, <2>2
  <1>5. e.id = i /\ e.op = op
    BY DEF e
  <1> QED BY <1>4, <1>5 DEF Did

LEMMA DidGrows ==
  ASSUME NEW i, NEW op, Adds(i, op)
  PROVE  /\ \A j : j # i => Did(j)' \subseteq Did(j)
         /\ Did(i)' \subseteq Did(i) \cup ({op} \ {Nothing})
         /\ op = Nothing => \A j : Did(j)' \subseteq Did(j)
  BY DEF Adds, Did

----------------------------------------------------------------------------
(* What each action does, in these terms. *)

LEMMA TablesAre ==
  ASSUME RequestInv, NEW i \in DOMAIN reqs
  PROVE  /\ CallOf(i) = Call(Of(i)) /\ LocalOf(i) = LocalEffect(Of(i))
         /\ LocalEndsOf[reqs[i].cmd] = LocalEnds(Of(i))
         /\ UserExists \subseteq BOOLEAN
         /\ \A role \in Roles, there \in BOOLEAN :
              Verdicts[reqs[i].cmd][role][there] = Refusal(Of(i), role, there)
  <1>1. reqs[i].cmd \in Used
    BY DEF RequestInv, Shape
  <1>2. UserExists \subseteq BOOLEAN
    BY DEF UserExists
  <1> QED BY <1>1, <1>2 DEF CallOf, LocalOf, Of, Calls, Effects, LocalEndsOf, Verdicts

LEMMA RoleIs ==
  ASSUME RequestInv, NEW i \in DOMAIN reqs
  PROVE  RoleOf(i) \in Roles /\ reqs[i].by \in Clients
  BY DEF RequestInv, Shape, RoleOf

LEMMA WithoutToken ==
  ASSUME RequestInv, NEW i \in DOMAIN reqs, 0 \in Verdict(i), RoleOf(i) = "none"
  PROVE  /\ \A end \in LocalEnds(Of(i)) : end.op \in Public \cup {Nothing}
         /\ CallOf(i).to = "none"
  <1>1. PICK there \in UserExists : Verdicts[reqs[i].cmd][RoleOf(i)][there] = 0
    BY DEF Verdict
  <1>2. there \in BOOLEAN /\ Refusal(Of(i), "none", there) = 0
    BY <1>1, TablesAre, RoleIs
  <1> QED BY <1>2, TokenAsked, TablesAre

LEMMA AnswerMoves ==
  ASSUME RequestInv, NEW i \in DOMAIN reqs, NEW status, NEW said,
         reqs' = Answered(reqs, i, status, said)
  PROVE  /\ Moves(i) /\ reqs'[i].stage = "answered"
         /\ reqs'[i].said = said /\ reqs'[i].status = status
  <1>1. IsSeq(reqs) /\ Shape(reqs[i])
    BY DEF RequestInv
  <1> QED BY <1>1, AnsweredIs DEF Moves

LEMMA CallOverMoves ==
  ASSUME RequestInv, NEW i \in DOMAIN reqs, reqs[i].stage # "answered", NEW said,
         reqs' = CallOver(reqs, i, said)
  PROVE  /\ Moves(i)
         /\ \/ reqs'[i].stage = "poll" /\ reqs'[i].status = reqs[i].status
            \/ /\ reqs'[i].stage = "answered" /\ reqs'[i].said = said
               /\ reqs'[i].status \in {200, 503}
  <1>1. IsSeq(reqs) /\ Shape(reqs[i])
    BY DEF RequestInv
  <1> QED BY <1>1, CallOverIs DEF Moves

LEMMA RefuseDoes ==
  ASSUME RequestInv, NEW i \in DOMAIN reqs, Refuse(i)
  PROVE  /\ Takings(i) /\ reqs'[i].stage = "answered" /\ reqs'[i].said = "error"
         /\ audit' = audit \cup Filed(i, RefusalLines(Of(i), reqs'[i].status))
  <1>1. PICK status \in Verdict(i) \ {0} :
          /\ Answer(i, status, "error")
          /\ audit' = audit \cup Filed(i, RefusalLines(Of(i), status))
    BY DEF Refuse
  <1>2. /\ Moves(i) /\ reqs'[i].stage = "answered"
        /\ reqs'[i].said = "error" /\ reqs'[i].status = status
    BY <1>1, AnswerMoves DEF Answer
  <1>3. session' = session /\ session \in [Clients -> Roles]
    BY DEF Refuse, RequestInv
  <1>4. Takings(i)
    BY <1>2, <1>3 DEF Refuse, Takes, Takings
  <1> QED BY <1>1, <1>2, <1>4

LEMMA ServeDoes ==
  ASSUME RequestInv, NEW i \in DOMAIN reqs, ServeLocal(i)
  PROVE  /\ Takings(i) /\ reqs'[i].stage = "answered" /\ CallOf(i).to = "none"
         /\ \E end \in LocalEnds(Of(i)) :
              /\ reqs'[i].status = end.status /\ reqs'[i].said = SaidOf(end.status)
              /\ effects' = effects \o Effect(i, end.op)
              /\ audit' = audit \cup Filed(i, end.lines)
              /\ RoleOf(i) = "none" => end.op \in Public \cup {Nothing}
  <1>1. PICK end \in LocalEnds(Of(i)) :
          /\ Answer(i, end.status, SaidOf(end.status))
          /\ effects' = effects \o Effect(i, end.op)
          /\ audit' = audit \cup Filed(i, end.lines)
          /\ session' = CASE end.op = Control("login") ->
                               [session EXCEPT ![reqs[i].by] = Account(reqs[i].by)]
                          [] end.op = Control("logout") ->
                               [session EXCEPT ![reqs[i].by] = "none"]
                          [] OTHER -> session
    BY TablesAre DEF ServeLocal
  <1>2. /\ Moves(i) /\ reqs'[i].stage = "answered" /\ reqs'[i].status = end.status
        /\ reqs'[i].said = SaidOf(end.status)
    BY <1>1, AnswerMoves DEF Answer
  <1>3. session' \in [Clients -> Roles]
    <2>1. session \in [Clients -> Roles] /\ reqs[i].by \in Clients
      BY RoleIs DEF RequestInv
    <2>2. Account(reqs[i].by) \in Roles /\ "none" \in Roles
      BY <2>1, ControlAssumption DEF Roles
    <2> QED BY <1>1, <2>1, <2>2
  <1>4. Takings(i)
    BY <1>2, <1>3 DEF ServeLocal, Takes, Takings
  <1>5. 0 \in Verdict(i) /\ CallOf(i).to = "none"
    BY DEF ServeLocal
  <1>6. RoleOf(i) = "none" => end.op \in Public \cup {Nothing}
    BY <1>5, WithoutToken
  <1> QED BY <1>1, <1>2, <1>4, <1>5, <1>6

LEMMA ForwardDoes ==
  ASSUME RequestInv, NEW i \in DOMAIN reqs, Forward(i)
  PROVE  /\ Takings(i) /\ effects' = effects \o Effect(i, LocalOf(i)) /\ RoleOf(i) # "none"
         /\ reqs'[i].status = reqs[i].status \/ reqs'[i].status \in {200, 503}
         /\ \/ /\ reqs'[i].stage = "call" /\ CallOf(i).to = "ai"
               /\ engineQ' = engineQ /\ aiQ' = Append(aiQ, i)
            \/ /\ reqs'[i].stage = "call" /\ CallOf(i).to = "engine" /\ aiQ' = aiQ
               /\ engineQ' = Append(engineQ, [id |-> i, from |-> "http", call |-> CallOf(i)])
            \/ /\ \/ reqs'[i].stage = "poll"
                  \/ reqs'[i].stage = "answered" /\ reqs'[i].said = "lost"
               /\ CallOf(i).to \in {"engine", "ai"} /\ engineQ' = engineQ /\ aiQ' = aiQ
  <1>1. CallOf(i).to \in {"engine", "ai"}
    BY TablesAre, CallsAre DEF Forward
  <1>2. RoleOf(i) # "none"
    BY WithoutToken DEF Forward
  <1>3. /\ reqs[i].stage = "sent" /\ LoopIdle /\ received' = Append(received, i)
        /\ session' = session /\ session \in [Clients -> Roles]
        /\ effects' = effects \o Effect(i, LocalOf(i))
    BY DEF Forward, Takes, RequestInv
  <1>4. CASE CallOf(i).to \in up
    <2>1. /\ reqs' = [reqs EXCEPT ![i].stage = "call"]
          /\ engineQ' = IF CallOf(i).to = "ai" THEN engineQ
                        ELSE Append(engineQ, [id |-> i, from |-> "http", call |-> CallOf(i)])
          /\ aiQ' = IF CallOf(i).to = "ai" THEN Append(aiQ, i) ELSE aiQ
      BY <1>4 DEF Forward
    <2>2. IsSeq(reqs) /\ Shape(reqs[i])
      BY DEF RequestInv
    <2>3. /\ DOMAIN reqs' = DOMAIN reqs /\ \A j \in DOMAIN reqs : j # i => reqs'[j] = reqs[j]
          /\ reqs' = [k \in DOMAIN reqs |-> reqs'[k]]
          /\ reqs'[i] = [reqs[i] EXCEPT !.stage = "call"]
      BY <2>1
    <2>4. /\ reqs'[i].by = reqs[i].by /\ reqs'[i].cmd = reqs[i].cmd /\ Shape(reqs'[i])
          /\ reqs'[i].stage = "call" /\ reqs'[i].status = reqs[i].status
      BY <1>3, <2>2, <2>3 DEF Shape
    <2>5. IsSeq(reqs')
      BY <2>2, <2>3, Changed
    <2>6. Takings(i)
      BY <1>2, <1>3, <2>3, <2>4, <2>5 DEF Moves, Takings
    <2> QED BY <1>1, <1>2, <1>3, <2>1, <2>4, <2>6
  <1>5. CASE CallOf(i).to \notin up
    <2>1. reqs' = CallOver(reqs, i, "lost") /\ engineQ' = engineQ /\ aiQ' = aiQ
      BY <1>5 DEF Forward
    <2>2. /\ Moves(i)
          /\ \/ reqs'[i].stage = "poll" /\ reqs'[i].status = reqs[i].status
             \/ /\ reqs'[i].stage = "answered" /\ reqs'[i].said = "lost"
                /\ reqs'[i].status \in {200, 503}
      BY <1>3, <2>1, CallOverMoves
    <2>3. Takings(i)
      BY <1>2, <1>3, <2>2 DEF Takings
    <2> QED BY <1>1, <1>2, <1>3, <2>1, <2>2, <2>3
  <1> QED BY <1>4, <1>5

LEMMA RepliedDoes ==
  ASSUME RequestInv, NEW i \in DOMAIN reqs, NEW said, Replied(i, said),
         UNCHANGED <<session, received>>
  PROVE  \/ Quiet /\ reqs[i].stage # "call"
         \/ /\ Ends(i) /\ reqs[i].stage = "call"
            /\ \/ reqs'[i].stage = "poll" /\ reqs'[i].status = reqs[i].status
               \/ /\ reqs'[i].stage = "answered" /\ reqs'[i].said = said
                  /\ reqs'[i].status \in {200, 503}
  <1>1. CASE reqs[i].stage = "call"
    <2>1. reqs' = CallOver(reqs, i, said)
      BY <1>1 DEF Replied
    <2> QED BY <1>1, <2>1, CallOverMoves DEF Ends, Busy
  <1>2. CASE reqs[i].stage # "call"
    BY <1>2 DEF Replied, Quiet
  <1> QED BY <1>1, <1>2

LEMMA PollDoes ==
  ASSUME RequestInv, NEW i \in DOMAIN reqs, PollEnds(i)
  PROVE  /\ Ends(i) /\ reqs'[i].stage = "answered" /\ reqs'[i].said = "file"
         /\ reqs'[i].status \in {200, 404} /\ reqs[i].stage = "poll"
  <1>1. PICK status \in {200, 404} : reqs' = Answered(reqs, i, status, "file")
    BY DEF PollEnds, Answer
  <1>2. /\ Moves(i) /\ reqs'[i].stage = "answered"
        /\ reqs'[i].said = "file" /\ reqs'[i].status = status
    BY <1>1, AnswerMoves
  <1> QED BY <1>2 DEF PollEnds, Ends, Busy

\* A service that dies answers at most the one request the loop is busy with.
LEMMA LostDoes ==
  ASSUME RequestInv, NEW lost, lost \subseteq {i \in DOMAIN reqs : reqs[i].stage = "call"},
         reqs' = [i \in DOMAIN reqs |->
                    IF i \in lost THEN CallOver(reqs, i, "lost")[i] ELSE reqs[i]],
         UNCHANGED <<session, received>>
  PROVE  \/ Quiet /\ lost = {}
         \/ \E i \in DOMAIN reqs :
              /\ Ends(i) /\ reqs[i].stage = "call" /\ lost = {i}
              /\ \/ reqs'[i].stage = "poll" /\ reqs'[i].status = reqs[i].status
                 \/ /\ reqs'[i].stage = "answered" /\ reqs'[i].said = "lost"
                    /\ reqs'[i].status \in {200, 503}
  <1>1. IsSeq(reqs) /\ Len(reqs) \in Nat /\ DOMAIN reqs = 1 .. Len(reqs)
    BY Ids DEF RequestInv
  <1>2. reqs = [i \in DOMAIN reqs |-> reqs[i]]
    BY <1>1 DEF IsSeq
  <1>3. CASE lost = {}
    BY <1>2, <1>3 DEF Quiet
  <1>4. CASE lost # {}
    <2>1. PICK i \in lost : TRUE
      BY <1>4
    <2>2. i \in DOMAIN reqs /\ reqs[i].stage = "call" /\ Shape(reqs[i])
      BY <2>1 DEF RequestInv
    <2>3. \A j \in lost : j = i
      BY <2>1, <2>2 DEF RequestInv, Busy
    <2>4. lost = {i}
      BY <2>1, <2>3
    <2> DEFINE t == CallOver(reqs, i, "lost")
    <2>5. /\ IsSeq(t) /\ DOMAIN t = DOMAIN reqs /\ \A j \in DOMAIN reqs : j # i => t[j] = reqs[j]
          /\ t[i].by = reqs[i].by /\ t[i].cmd = reqs[i].cmd /\ Shape(t[i])
          /\ \/ t[i].stage = "poll" /\ t[i].status = reqs[i].status
             \/ t[i].stage = "answered" /\ t[i].said = "lost" /\ t[i].status \in {200, 503}
      BY <1>1, <2>2, CallOverIs
    <2> HIDE DEF t
    <2>6. reqs' = [j \in DOMAIN reqs |-> IF j = i THEN t[i] ELSE reqs[j]]
      BY <2>4 DEF t
    <2>7. IsSeq(reqs')
      BY <1>1, <2>6, Changed
    <2>8. Moves(i)
      BY <2>2, <2>5, <2>6, <2>7 DEF Moves
    <2> QED BY <2>2, <2>4, <2>5, <2>6, <2>8 DEF Ends, Busy
  <1> QED BY <1>3, <1>4

----------------------------------------------------------------------------
(* What the AI engine has *)

LEMMA ForAiKept ==
  ASSUME RequestInv, NEW i, Carries(i), NEW j, ForAi(j), j = i => Open(i)'
  PROVE  ForAi(j)'
  <1>1. Taken(j) /\ Open(j) /\ CallOf(j).to = "ai"
    BY DEF ForAi
  <1>2. j \in DOMAIN reqs /\ Taken(j)' /\ CallOf(j)' = CallOf(j) /\ (j # i => Open(j)')
    BY <1>1, Carried
  <1>3. j = i => Open(j)'
    OBVIOUS
  <1> QED BY <1>1, <1>2, <1>3 DEF ForAi

LEMMA AiOwnKept ==
  ASSUME RequestInv, AiOwn, NEW i, Carries(i), UNCHANGED <<aiQ, ai>>,
         i # 0 /\ (i = ai.id \/ \E k \in DOMAIN aiQ : aiQ[k] = i) => Open(i)'
  PROVE  AiOwn'
  <1>1. \A k \in DOMAIN aiQ : ForAi(aiQ[k])'
    <2> SUFFICES ASSUME NEW k \in DOMAIN aiQ, NEW j, j = aiQ[k] PROVE ForAi(j)'
      OBVIOUS
    <2>1. ForAi(j) /\ j # 0
      BY Carried DEF AiOwn, ForAi
    <2> QED BY <2>1, ForAiKept
  <1>2. ai.id # 0 => ForAi(ai.id)'
    <2> SUFFICES ASSUME NEW j, j = ai.id, j # 0 PROVE ForAi(j)'
      OBVIOUS
    <2>1. ForAi(j)
      BY DEF AiOwn
    <2> QED BY <2>1, ForAiKept
  <1> QED BY <1>1, <1>2 DEF AiOwn

LEMMA AiAsksRest ==
  ASSUME RequestInv, QueueInv, AiAsks, NEW i, Step(i), NEW d \in Nat, IsSeq(engineQ'),
         \A k \in DOMAIN engineQ' : k + d \in DOMAIN engineQ /\ engineQ'[k] = engineQ[k + d],
         \A k \in DOMAIN aiQ' : ~Taken(aiQ'[k]) \/ \E l \in DOMAIN aiQ : aiQ'[k] = aiQ[l],
         \A k \in DOMAIN engineQ' :
           engineQ'[k].from = "ai" /\ reqs'[engineQ'[k].id].stage = "call" =>
             ai'.id = ai.id /\ ai'.asked
  PROVE  AiAsks'
  <1> SUFFICES ASSUME NEW k \in DOMAIN engineQ', engineQ'[k].from = "ai"
               PROVE  /\ \A l \in DOMAIN aiQ' : aiQ'[l] # engineQ'[k].id
                      /\ reqs'[engineQ'[k].id].stage = "call" =>
                           /\ ai'.id = engineQ'[k].id /\ ai'.asked
                           /\ \A l \in DOMAIN engineQ' :
                                engineQ'[l].from = "ai" /\ engineQ'[l].id = ai'.id => l = k
    BY DEF AiAsks
  <1>1. Taken(engineQ'[k].id)
    BY DEF QueueInv
  <1>2. \A l \in DOMAIN aiQ' : aiQ'[l] # engineQ'[k].id
    BY <1>1 DEF AiAsks
  <1>3. ASSUME reqs'[engineQ'[k].id].stage = "call"
        PROVE  /\ ai'.id = engineQ'[k].id /\ ai'.asked
               /\ \A l \in DOMAIN engineQ' :
                    engineQ'[l].from = "ai" /\ engineQ'[l].id = ai'.id => l = k
    <2>1. reqs[engineQ'[k].id].stage = "call"
      BY <1>1, <1>3, StepForward
    <2>2. /\ ai.id = engineQ[k + d].id
          /\ \A l \in DOMAIN engineQ : engineQ[l].from = "ai" /\ engineQ[l].id = ai.id => l = k + d
      BY <2>1 DEF AiAsks
    <2>3. ai'.id = ai.id /\ ai'.asked
      BY <1>3
    <2>4. k \in Nat /\ \A l \in DOMAIN engineQ' : l \in Nat
      BY SeqIs
    <2>5. ASSUME NEW l \in DOMAIN engineQ', engineQ'[l].from = "ai", engineQ'[l].id = ai'.id
          PROVE  l = k
      <3>1. l + d = k + d
        BY <2>2, <2>3, <2>5
      <3> QED BY <2>4, <3>1
    <2> QED BY <2>2, <2>3, <2>5
  <1> QED BY <1>2, <1>3

\* Steps that leave the queues and the AI engine alone.
LEMMA RestSame ==
  ASSUME RequestInv, QueueInv, AiOwn, AiAsks, NEW i, Step(i), UNCHANGED <<engineQ, aiQ, ai>>,
         Taken(i) => Open(i)'
  PROVE  QueueInv' /\ AiOwn' /\ AiAsks'
  <1>1. Carries(i)
    BY StepKeeps
  <1>2. \A k \in DOMAIN engineQ : Taken(engineQ[k].id)
    BY DEF QueueInv
  <1>3. QueueInv'
    BY <1>1, <1>2, QueueKept
  <1>4. \A k \in DOMAIN aiQ : Taken(aiQ[k])
    BY DEF AiOwn, ForAi
  <1>5. i = ai.id => i = 0 \/ Taken(i)
    BY DEF AiOwn, ForAi
  <1>7. AiOwn'
    BY <1>1, <1>4, <1>5, AiOwnKept
  <1>8. \A k \in DOMAIN engineQ' : k + 0 \in DOMAIN engineQ /\ engineQ'[k] = engineQ[k + 0]
    BY SeqIs DEF QueueInv
  <1>9. \A k \in DOMAIN engineQ' :
          engineQ'[k].from = "ai" /\ reqs'[engineQ'[k].id].stage = "call" =>
            ai'.id = ai.id /\ ai'.asked
    BY <1>2, StepForward DEF AiAsks
  <1>10. \A k \in DOMAIN aiQ' : ~Taken(aiQ'[k]) \/ \E l \in DOMAIN aiQ : aiQ'[k] = aiQ[l]
    OBVIOUS
  <1>11. AiAsks'
    <2>1. IsSeq(engineQ') /\ 0 \in Nat
      BY DEF QueueInv
    <2> QED BY <1>8, <1>9, <1>10, <2>1, AiAsksRest
  <1> QED BY <1>3, <1>7, <1>11

LEMMA TodoTail ==
  ASSUME NEW todo \in Todos, todo \notin {<<>>, <<"fail">>}
  PROVE  /\ Tail(todo) \in Todos
         /\ Tail(todo) \in Failing => todo = <<"DetachSHM", "fail">>
         /\ Tail(todo) # <<"DetachSHM", "fail">>
  <1>1. CASE todo \in {<<"AttachSHM">>, <<"DetachSHM">>, <<"ToggleOverlay">>}
    <2>1. /\ Tail(<<"AttachSHM">>) = <<>> /\ Tail(<<"DetachSHM">>) = <<>>
          /\ Tail(<<"ToggleOverlay">>) = <<>>
      OBVIOUS
    <2>2. Tail(todo) = <<>>
      BY <1>1, <2>1
    <2> QED BY <2>2 DEF Todos, Failing
  <1>2. CASE todo = <<"DetachSHM", "fail">>
    <2>1. Tail(todo) = <<"fail">>
      BY <1>2
    <2> QED BY <1>2, <2>1 DEF Todos
  <1>3. CASE todo = <<"DetachSHM", "AttachSHM">>
    <2>1. Tail(todo) = <<"AttachSHM">>
      BY <1>3
    <2> QED BY <2>1 DEF Todos, Failing
  <1> QED BY <1>1, <1>2, <1>3 DEF Todos

LEMMA GoesOnIs ==
  ASSUME AiOwn, NEW k, ai' = AiGoesOn(k)
  PROVE  /\ DOMAIN ai' = {"id", "todo", "asked"} /\ ai'.id = ai.id /\ ai'.todo \in Todos
         /\ ai' = ai \/ (ai.id = k /\ ai.asked /\ ~ai'.asked)
         /\ ai'.asked => ai' = ai
         /\ ai.id = 0 => ai' = ai
         /\ ai'.todo \in Failing => ai.todo \in Failing
         /\ ai'.todo = <<"DetachSHM", "fail">> => ai' = ai
  <1>1. CASE ai.id = k /\ ai.asked
    <2>1. ai' = [ai EXCEPT !.todo = Tail(@), !.asked = FALSE]
      BY <1>1 DEF AiGoesOn
    <2>2. /\ DOMAIN ai' = {"id", "todo", "asked"} /\ ai'.id = ai.id /\ ai'.todo = Tail(ai.todo)
          /\ ~ai'.asked
      BY <2>1 DEF AiOwn
    <2>3. ai.todo \in Todos /\ ai.todo \notin {<<>>, <<"fail">>} /\ ai.id # 0
      BY <1>1 DEF AiOwn
    <2>4. /\ ai'.todo \in Todos
          /\ ai'.todo \in Failing => ai.todo \in Failing
          /\ ai'.todo # <<"DetachSHM", "fail">>
      BY <2>2, <2>3, TodoTail DEF Failing
    <2> QED BY <1>1, <2>2, <2>3, <2>4
  <1>2. CASE ~(ai.id = k /\ ai.asked)
    <2>1. ai' = ai
      BY <1>2 DEF AiGoesOn
    <2> QED BY <2>1 DEF AiOwn
  <1> QED BY <1>1, <1>2

LEMMA AiOwnGoesOn ==
  ASSUME RequestInv, AiOwn, NEW i, Carries(i), NEW k, ai' = AiGoesOn(k), aiQ' = aiQ,
         i # 0 /\ (i = ai.id \/ \E l \in DOMAIN aiQ : aiQ[l] = i) => Open(i)'
  PROVE  AiOwn'
  <1>1. /\ DOMAIN ai' = {"id", "todo", "asked"} /\ ai'.id = ai.id /\ ai'.todo \in Todos
        /\ ai'.asked => ai' = ai
        /\ ai.id = 0 => ai' = ai
    BY GoesOnIs
  <1>2. \A l \in DOMAIN aiQ : ForAi(aiQ[l])'
    <2> SUFFICES ASSUME NEW l \in DOMAIN aiQ, NEW j, j = aiQ[l] PROVE ForAi(j)'
      OBVIOUS
    <2>1. ForAi(j) /\ j # 0
      BY Carried DEF AiOwn, ForAi
    <2> QED BY <2>1, ForAiKept
  <1>3. ai.id # 0 => ForAi(ai.id)'
    <2> SUFFICES ASSUME NEW j, j = ai.id, j = ai'.id, j # 0 PROVE ForAi(j)'
      BY <1>1
    <2>1. ForAi(j)
      BY DEF AiOwn
    <2> QED BY <2>1, ForAiKept
  <1> QED BY <1>1, <1>2, <1>3 DEF AiOwn

LEMMA AiHeadIs ==
  ASSUME AiOwn, aiQ # <<>>
  PROVE  /\ 1 \in DOMAIN aiQ /\ Head(aiQ) = aiQ[1] /\ Tail(aiQ) \in Seq(Nat)
         /\ \A k \in DOMAIN Tail(aiQ) : /\ k \in Nat /\ k + 1 \in DOMAIN aiQ /\ k + 1 # 1
                                        /\ Tail(aiQ)[k] = aiQ[k + 1]
  <1> DEFINE t == Tail(aiQ)
  <1>1. aiQ \in Seq(Nat)
    BY DEF AiOwn
  <1>2. /\ t \in Seq(Nat) /\ Len(t) = Len(aiQ) - 1 /\ Len(aiQ) \in Nat \ {0} /\ Head(aiQ) = aiQ[1]
        /\ \A k \in 1 .. Len(t) : t[k] = aiQ[k + 1]
    BY <1>1
  <1>3. DOMAIN aiQ = 1 .. Len(aiQ) /\ DOMAIN t = 1 .. Len(t)
    BY <1>1, <1>2
  <1> QED BY <1>2, <1>3

LEMMA StepsAre ==
  ASSUME NEW i
  PROVE  /\ Steps(i) \subseteq Todos
         /\ \A todo \in Steps(i) : todo = <<"DetachSHM", "fail">> => CallOf(i).method = "LoadModel"
  <1>1. CASE CallOf(i).method = "LoadModel"
    BY <1>1 DEF Steps, Todos
  <1>2. CASE CallOf(i).method = "StopModel"
    BY <1>2 DEF Steps, Todos
  <1>3. CASE CallOf(i).method = "SetAIConfig"
    <2>1. Steps(i) \subseteq {<<"fail">>, <<"ToggleOverlay">>, <<>>}
      BY <1>3 DEF Steps
    <2> QED BY <2>1 DEF Todos
  <1>4. CASE CallOf(i).method \notin {"LoadModel", "StopModel", "SetAIConfig"}
    BY <1>4 DEF Steps, Todos
  <1> QED BY <1>1, <1>2, <1>3, <1>4

----------------------------------------------------------------------------
(* Every action keeps what the queues and the AI engine have. *)

LEMMA NobodyIsZero ==
  ASSUME RequestInv
  PROVE  ~Taken(0) /\ (Quiet => Step(0))
  BY Ids DEF Taken, RequestInv, Step

LEMMA CallsAsk ==
  ASSUME RequestInv, QueueInv, AiAsks, NEW i, Step(i)
  PROVE  \A k \in DOMAIN engineQ :
           engineQ[k].from = "ai" /\ reqs'[engineQ[k].id].stage = "call" =>
             /\ ai.id = engineQ[k].id /\ ai.asked /\ reqs[ai.id].stage = "call" /\ ai.id # i
             /\ \A l \in DOMAIN engineQ : engineQ[l].from = "ai" /\ engineQ[l].id = ai.id => l = k
  BY StepForward DEF QueueInv, AiAsks

LEMMA ForwardPath ==
  ASSUME RequestInv, QueueInv, AiOwn, AiAsks, NEW i \in DOMAIN reqs, Forward(i)
  PROVE  QueueInv' /\ AiOwn' /\ AiAsks'
  <1>1. Takings(i) /\ ai' = ai
    <2>1. Takings(i)
      BY ZenonT(60), ForwardDoes
    <2> QED BY <2>1 DEF Forward
  <1>2. /\ Carries(i) /\ ~Taken(i) /\ Taken(i)' /\ Step(i)
        /\ \A j : Taken(j) => j # i /\ ReceivedBefore(j, i)'
    BY <1>1, TakingsKeeps DEF Step
  <1>3. \A k \in DOMAIN engineQ : engineQ[k].id # i /\ Taken(engineQ[k].id)
    BY <1>2 DEF QueueInv
  <1>4. /\ \A k \in DOMAIN aiQ : aiQ[k] # i
        /\ ai.id # i
    BY <1>2, Ids DEF AiOwn, ForAi
  <1>5. CallOf(i)' = CallOf(i) /\ i \in Nat
    BY <1>2, Carried, Ids
  <1>6. CASE /\ reqs'[i].stage = "call" /\ CallOf(i).to = "ai"
             /\ engineQ' = engineQ /\ aiQ' = Append(aiQ, i)
    <2>1. QueueInv'
      BY <1>2, <1>3, <1>6, QueueKept
    <2>2. aiQ \in Seq(Nat)
      BY DEF AiOwn
    <2>3. /\ aiQ' \in Seq(Nat) /\ \A k \in DOMAIN aiQ : aiQ'[k] = aiQ[k]
          /\ Len(aiQ) + 1 \notin DOMAIN aiQ /\ aiQ'[Len(aiQ) + 1] = i
          /\ \A k \in DOMAIN aiQ' : k \in DOMAIN aiQ \/ k = Len(aiQ) + 1
      BY <1>5, <1>6, <2>2
    <2>4. ASSUME NEW k \in DOMAIN aiQ', NEW j, j = aiQ'[k] PROVE ForAi(j)' /\ j # ai'.id
      <3>1. CASE j = i
        BY <1>1, <1>2, <1>4, <1>5, <1>6, <3>1 DEF ForAi, Open, Busy
      <3>2. CASE j # i
        <4>1. k \in DOMAIN aiQ /\ j = aiQ[k]
          BY <2>3, <2>4, <3>2
        <4>2. ForAi(j) /\ j # ai.id
          BY <4>1 DEF AiOwn
        <4>3. ForAi(j)'
          BY <1>2, <3>2, <4>2, ForAiKept
        <4> QED BY <1>1, <4>2, <4>3
      <3> QED BY <3>1, <3>2
    <2>5. \A k, l \in DOMAIN aiQ' : aiQ'[k] = aiQ'[l] => k = l
      BY <1>4, <2>3 DEF AiOwn
    <2>6. ai.id # 0 => ForAi(ai.id)'
      <3> SUFFICES ASSUME NEW j, j = ai.id, j = ai'.id, j # 0 PROVE ForAi(j)'
        BY <1>1
      <3>1. ForAi(j) /\ j # i
        BY <1>4 DEF AiOwn
      <3> QED BY <1>2, <3>1, ForAiKept
    <2>7. AiOwn'
      BY <1>1, <2>3, <2>4, <2>5, <2>6 DEF AiOwn
    <2>8. \A k \in DOMAIN engineQ' : k + 0 \in DOMAIN engineQ /\ engineQ'[k] = engineQ[k + 0]
      BY <1>6, SeqIs DEF QueueInv
    <2>9. \A k \in DOMAIN aiQ' : ~Taken(aiQ'[k]) \/ \E l \in DOMAIN aiQ : aiQ'[k] = aiQ[l]
      BY <1>2, <2>3
    <2>10. \A k \in DOMAIN engineQ' :
             engineQ'[k].from = "ai" /\ reqs'[engineQ'[k].id].stage = "call" =>
               ai'.id = ai.id /\ ai'.asked
      BY <1>1, <1>2, <1>6, CallsAsk
    <2>11. IsSeq(engineQ') /\ 0 \in Nat
      BY <1>6 DEF QueueInv
    <2>12. AiAsks'
      BY <1>2, <2>8, <2>9, <2>10, <2>11, AiAsksRest
    <2> QED BY <2>1, <2>7, <2>12
  <1>7. ASSUME NEW m, m = [id |-> i, from |-> "http", call |-> CallOf(i)],
               reqs'[i].stage = "call", CallOf(i).to = "engine", aiQ' = aiQ,
               engineQ' = Append(engineQ, m)
        PROVE  QueueInv' /\ AiOwn' /\ AiAsks'
    <2>1. m.id = i /\ m.from = "http" /\ m.call = CallOf(i)
      BY <1>7
    <2>2. /\ \A k \in DOMAIN engineQ : engineQ'[k] = engineQ[k]
          /\ \A k \in DOMAIN engineQ' : k \in DOMAIN engineQ \/ engineQ'[k] = m
      BY <1>7, Appended DEF QueueInv
    <2>3. \A k \in DOMAIN engineQ : ReceivedBefore(engineQ[k].id, m.id)'
      <3> SUFFICES ASSUME NEW k \in DOMAIN engineQ, NEW j, j = engineQ[k].id, j = engineQ'[k].id
                   PROVE  ReceivedBefore(j, m.id)'
        BY <2>2
      <3> QED BY <1>2, <1>3, <2>1
    <2>4. Taken(m.id)' /\ Open(m.id)' /\ CallOf(m.id)' = m.call
      BY <1>2, <1>5, <1>7, <2>1 DEF Open, Busy
    <2>5. QueueInv'
      BY <1>2, <1>3, <1>7, <2>1, <2>3, <2>4, QueueGrows
    <2>6. AiOwn'
      BY <1>1, <1>2, <1>4, <1>7, AiOwnKept
    <2>7. AiAsks'
      BY <1>1, <1>2, <1>7, <2>1, <2>2, CallsAsk DEF AiAsks
    <2> QED BY <2>5, <2>6, <2>7
  <1>8. CASE engineQ' = engineQ /\ aiQ' = aiQ
    BY <1>1, <1>2, <1>8, RestSame
  <1>9. CASE /\ reqs'[i].stage = "call" /\ CallOf(i).to = "engine" /\ aiQ' = aiQ
             /\ engineQ' = Append(engineQ, [id |-> i, from |-> "http", call |-> CallOf(i)])
    BY <1>7, <1>9
  <1> QED BY <1>6, <1>8, <1>9, ForwardDoes

\* A request whose end is told is in no queue; any other step leaves it open.
LEMMA RepliedStep ==
  ASSUME RequestInv, NEW j \in DOMAIN reqs, NEW said, Replied(j, said),
         UNCHANGED <<session, received>>
  PROVE  \E i \in {0, j} :
           /\ Step(i)
           /\ i = j => /\ Ends(j) /\ reqs[j].stage = "call"
                       /\ reqs'[j].stage = "poll" \/ reqs'[j].said = said
           /\ i = 0 => Quiet
  <1>1. 0 \notin DOMAIN reqs
    BY Ids
  <1>2. CASE Quiet
    BY <1>1, <1>2 DEF Step
  <1>3. CASE /\ Ends(j) /\ reqs[j].stage = "call"
             /\ reqs'[j].stage = "poll" \/ reqs'[j].said = said
    BY <1>1, <1>3 DEF Step
  <1> QED BY <1>2, <1>3, RepliedDoes

LEMMA HandlesPath ==
  ASSUME RequestInv, QueueInv, AiOwn, AiAsks, EngineHandles
  PROVE  /\ QueueInv' /\ AiOwn' /\ AiAsks' /\ engineQ # <<>>
         /\ \E i : Step(i) /\ (i # 0 => /\ i = engineQ[1].id /\ engineQ[1].from = "http"
                                        /\ Ends(i) /\ ai' = ai)
  <1> DEFINE m == engineQ[1]
  <1>1. /\ engineQ # <<>> /\ 1 \in DOMAIN engineQ /\ Head(engineQ) = m
        /\ engineQ' = Tail(engineQ) /\ IsSeq(engineQ')
        /\ \A k \in DOMAIN engineQ' : /\ k + 1 \in DOMAIN engineQ /\ k + 1 > 1
                                      /\ engineQ'[k] = engineQ[k + 1]
    BY HeadIs DEF EngineHandles, Handle
  <1>2. /\ Taken(m.id) /\ m.from \in {"http", "ai"} /\ m.call.to = "engine"
        /\ m.from = "http" => m.call = CallOf(m.id)
    BY <1>1 DEF QueueInv
  <1>3. aiQ' = aiQ /\ UNCHANGED <<session, received>>
    BY <1>1 DEF EngineHandles, Handle
  <1>4. CASE m.from = "http"
    <2>1. PICK said : Replied(m.id, said) /\ ai' = ai
      BY <1>1, <1>4 DEF EngineHandles, Handle
    <2>2. m.id \in DOMAIN reqs /\ m.id # 0
      BY <1>2, NobodyIsZero DEF Taken, RequestInv
    <2>3. PICK i \in {0, m.id} : Step(i) /\ (i = m.id => Ends(m.id)) /\ (i = 0 => Quiet)
      BY <1>3, <2>1, <2>2, RepliedStep
    <2>4. Carries(i)
      BY <2>3, StepKeeps
    <2>5. \A k \in DOMAIN engineQ : k > 1 => engineQ[k].id # i
      <3>1. \A k \in DOMAIN engineQ : engineQ[k].id = m.id => k = 1
        BY <1>1, <1>4, CallsApart
      <3>2. \A k \in DOMAIN engineQ : engineQ[k].id # 0
        BY NobodyIsZero DEF QueueInv
      <3> QED BY <2>3, <3>1, <3>2
    <2>6. QueueInv'
      BY <1>1, <2>4, <2>5, QueueShrinks
    <2>7. i # 0 => i # ai.id /\ \A k \in DOMAIN aiQ : aiQ[k] # i
      BY <1>2, <1>4, <2>3 DEF AiOwn, ForAi
    <2>8. AiOwn'
      BY <1>3, <2>1, <2>4, <2>7, AiOwnKept
    <2>9. \A k \in DOMAIN engineQ' :
            engineQ'[k].from = "ai" /\ reqs'[engineQ'[k].id].stage = "call" =>
              ai'.id = ai.id /\ ai'.asked
      BY <1>1, <2>1, <2>3, CallsAsk
    <2>10. \A k \in DOMAIN aiQ' : ~Taken(aiQ'[k]) \/ \E l \in DOMAIN aiQ : aiQ'[k] = aiQ[l]
      BY <1>3
    <2>11. AiAsks'
      <3>1. 1 \in Nat
        OBVIOUS
      <3> QED BY <1>1, <2>3, <2>9, <2>10, <3>1, AiAsksRest
    <2> QED BY <1>1, <1>4, <2>1, <2>3, <2>6, <2>8, <2>11
  <1>5. CASE m.from = "ai"
    <2>1. ai' = AiGoesOn(m.id) /\ Quiet
      BY <1>1, <1>3, <1>5 DEF EngineHandles, Handle, Quiet
    <2>2. Step(0) /\ Carries(0)
      BY <2>1, NobodyIsZero, StepKeeps
    <2>3. \A k \in DOMAIN engineQ : engineQ[k].id # 0
      BY NobodyIsZero DEF QueueInv
    <2>4. QueueInv'
      BY <1>1, <2>2, <2>3, QueueShrinks
    <2>5. AiOwn'
      BY <1>3, <2>1, <2>2, AiOwnGoesOn
    <2>6. \A k \in DOMAIN engineQ' :
            engineQ'[k].from = "ai" /\ reqs'[engineQ'[k].id].stage = "call" =>
              ai'.id = ai.id /\ ai'.asked
      <3> SUFFICES ASSUME NEW k \in DOMAIN engineQ', engineQ'[k].from = "ai",
                          reqs'[engineQ'[k].id].stage = "call"
                   PROVE  ai'.id = ai.id /\ ai'.asked
        OBVIOUS
      <3>1. /\ ai.asked /\ k + 1 # 1
            /\ engineQ[1].from = "ai" /\ engineQ[1].id = ai.id => 1 = k + 1
        BY <1>1, <2>2, CallsAsk
      <3>2. ai.id # m.id
        BY <1>5, <3>1
      <3>3. ai' = ai
        BY <2>1, <3>2 DEF AiGoesOn
      <3> QED BY <3>1, <3>3
    <2>7. \A k \in DOMAIN aiQ' : ~Taken(aiQ'[k]) \/ \E l \in DOMAIN aiQ : aiQ'[k] = aiQ[l]
      BY <1>3
    <2>8. AiAsks'
      <3>1. 1 \in Nat
        OBVIOUS
      <3> QED BY <1>1, <2>2, <2>6, <2>7, <3>1, AiAsksRest
    <2> QED BY <1>1, <2>2, <2>4, <2>5, <2>8
  <1> QED BY <1>2, <1>4, <1>5

LEMMA SameQueue ==
  ASSUME QueueInv, engineQ' = engineQ
  PROVE  /\ IsSeq(engineQ') /\ 0 \in Nat
         /\ \A k \in DOMAIN engineQ' : k + 0 \in DOMAIN engineQ /\ engineQ'[k] = engineQ[k + 0]
  BY SeqIs DEF QueueInv

LEMMA TakesPath ==
  ASSUME RequestInv, QueueInv, AiOwn, AiAsks, AiTakes
  PROVE  /\ QueueInv' /\ AiOwn' /\ AiAsks' /\ Step(0)
         /\ ai'.id = aiQ[1] /\ ai'.todo \in Steps(aiQ[1]) /\ ~ai'.asked /\ 1 \in DOMAIN aiQ
         /\ \A k \in DOMAIN aiQ' : k + 1 \in DOMAIN aiQ /\ aiQ'[k] = aiQ[k + 1]
  <1>1. /\ ai.id = 0 /\ aiQ # <<>> /\ aiQ' = Tail(aiQ) /\ engineQ' = engineQ /\ Quiet
        /\ \E steps \in Steps(Head(aiQ)) : ai' = [id |-> Head(aiQ), todo |-> steps, asked |-> FALSE]
    BY DEF AiTakes, Quiet
  <1>2. /\ 1 \in DOMAIN aiQ /\ Head(aiQ) = aiQ[1] /\ aiQ' \in Seq(Nat)
        /\ \A k \in DOMAIN aiQ' : /\ k \in Nat /\ k + 1 \in DOMAIN aiQ /\ k + 1 # 1
                                  /\ aiQ'[k] = aiQ[k + 1]
    BY <1>1, AiHeadIs
  <1>3. Step(0) /\ Carries(0)
    BY <1>1, NobodyIsZero, StepKeeps
  <1>4. /\ DOMAIN ai' = {"id", "todo", "asked"} /\ ai'.id = aiQ[1] /\ ai'.todo \in Steps(aiQ[1])
        /\ ~ai'.asked
    BY <1>1, <1>2
  <1>5. QueueInv'
    <2>1. \A k \in DOMAIN engineQ : engineQ[k].id # 0
      BY NobodyIsZero DEF QueueInv
    <2> QED BY <1>1, <1>3, <2>1, QueueKept
  <1>6. ASSUME NEW k \in DOMAIN aiQ, NEW j, j = aiQ[k] PROVE ForAi(j)' /\ j # 0
    <2>1. ForAi(j) /\ j # 0
      BY <1>6, NobodyIsZero DEF AiOwn, ForAi
    <2> QED BY <1>3, <2>1, ForAiKept
  <1>7. AiOwn'
    <2>1. ForAi(ai.id)' /\ ai'.id # 0
      <3> SUFFICES ASSUME NEW j, j = ai'.id PROVE ForAi(j)' /\ j # 0
        OBVIOUS
      <3> QED BY <1>2, <1>4, <1>6
    <2>2. ASSUME NEW k \in DOMAIN aiQ' PROVE ForAi(aiQ[k])' /\ aiQ'[k] # ai'.id
      <3> SUFFICES ASSUME NEW j, j = aiQ'[k] PROVE ForAi(j)' /\ j # ai'.id
        OBVIOUS
      <3>1. j # ai'.id
        BY <1>2, <1>4 DEF AiOwn
      <3> QED BY <1>2, <1>6, <3>1
    <2>3. ASSUME NEW k \in DOMAIN aiQ', NEW l \in DOMAIN aiQ', aiQ'[k] = aiQ'[l] PROVE k = l
      <3>1. k + 1 = l + 1 /\ k \in Nat /\ l \in Nat
        BY <1>2, <2>3 DEF AiOwn
      <3> QED BY <3>1
    <2>4. ai'.todo \in Todos
      BY <1>4, StepsAre
    <2> QED BY <1>2, <1>4, <2>1, <2>2, <2>3, <2>4 DEF AiOwn
  <1>8. AiAsks'
    <2>1. \A k \in DOMAIN engineQ' :
            engineQ'[k].from = "ai" /\ reqs'[engineQ'[k].id].stage = "call" =>
              ai'.id = ai.id /\ ai'.asked
      BY <1>1, <1>3, CallsAsk DEF AiOwn
    <2>2. \A k \in DOMAIN aiQ' : ~Taken(aiQ'[k]) \/ \E l \in DOMAIN aiQ : aiQ'[k] = aiQ[l]
      BY <1>2
    <2> QED BY <1>1, <1>3, <2>1, <2>2, SameQueue, AiAsksRest
  <1> QED BY <1>2, <1>3, <1>4, <1>5, <1>7, <1>8

LEMMA CallsPath ==
  ASSUME RequestInv, QueueInv, AiOwn, AiAsks, AiCalls
  PROVE  /\ QueueInv' /\ AiOwn' /\ AiAsks' /\ Step(0)
         /\ ai.id # 0 /\ ai'.id = ai.id /\ aiQ' = aiQ
         /\ ai'.todo \in {ai.todo, Tail(ai.todo)} /\ ai.todo \notin {<<>>, <<"fail">>}
         /\ \/ engineQ' = engineQ
            \/ engineQ' = Append(engineQ, [id |-> ai.id, from |-> "ai",
                            call |-> BusCall("engine", Head(ai.todo), {"lens"}, Blank)])
  <1>1. /\ ai.todo # <<>> /\ ~ai.asked /\ Head(ai.todo) # "fail" /\ Quiet /\ aiQ' = aiQ
    BY DEF AiCalls, Quiet
  <1>2. Step(0) /\ Carries(0)
    BY <1>1, NobodyIsZero, StepKeeps
  <1>3. ai.id # 0 /\ ForAi(ai.id) /\ ai.todo \in Todos /\ ai.todo # <<"fail">>
    BY <1>1 DEF AiOwn
  <1>4. ForAi(ai.id)' \/ ai'.id # ai.id
    <2> SUFFICES ASSUME NEW j, j = ai.id, j = ai'.id PROVE ForAi(j)'
      OBVIOUS
    <2> QED BY <1>2, <1>3, ForAiKept
  <1>5. \A k \in DOMAIN aiQ : ForAi(aiQ[k])'
    <2> SUFFICES ASSUME NEW k \in DOMAIN aiQ, NEW j, j = aiQ[k] PROVE ForAi(j)'
      BY <1>1
    <2>1. ForAi(j) /\ j # 0
      BY NobodyIsZero DEF AiOwn, ForAi
    <2> QED BY <1>2, <2>1, ForAiKept
  <1>6. ~\E k \in DOMAIN engineQ : /\ engineQ[k].from = "ai"
                                   /\ reqs'[engineQ[k].id].stage = "call"
    BY <1>1, <1>2, CallsAsk
  <1>7. \A k \in DOMAIN engineQ : engineQ[k].id # 0
    BY NobodyIsZero DEF QueueInv
  <1>8. CASE "engine" \in up
    <2>1. PICK m : /\ m = [id |-> ai.id, from |-> "ai",
                           call |-> BusCall("engine", Head(ai.todo), {"lens"}, Blank)]
                   /\ engineQ' = Append(engineQ, m)
      BY <1>8 DEF AiCalls
    <2>2. /\ DOMAIN ai' = {"id", "todo", "asked"} /\ ai'.id = ai.id /\ ai'.todo = ai.todo
          /\ ai'.asked
      BY <1>8 DEF AiCalls, AiOwn
    <2>3. m.id = ai.id /\ m.from = "ai" /\ m.call.to = "engine"
      BY <2>1, BusCallFields
    <2>4. Taken(m.id)' /\ Open(m.id)' /\ CallOf(m.id)'.to = "ai" /\ Taken(m.id)
      <3>1. ForAi(m.id)
        BY <1>3, <2>3
      <3>2. ForAi(m.id)'
        BY <1>2, <1>3, <2>3, <3>1, ForAiKept
      <3> QED BY <3>1, <3>2 DEF ForAi
    <2>5. QueueInv'
      BY <1>2, <1>7, <2>1, <2>3, <2>4, QueueGrows
    <2>6. AiOwn'
      BY <1>1, <1>3, <1>4, <1>5, <2>2 DEF AiOwn
    <2>7. /\ Len(engineQ) + 1 \in DOMAIN engineQ'
          /\ \A k \in DOMAIN engineQ : engineQ'[k] = engineQ[k]
          /\ \A k \in DOMAIN engineQ' : k \in DOMAIN engineQ \/ k = Len(engineQ) + 1
          /\ engineQ'[Len(engineQ) + 1] = m
      BY <2>1, Appended DEF QueueInv
    <2>8. ASSUME NEW k \in DOMAIN engineQ', engineQ'[k].from = "ai"
          PROVE  /\ \A l \in DOMAIN aiQ' : aiQ'[l] # engineQ'[k].id
                 /\ reqs'[engineQ'[k].id].stage = "call" =>
                      /\ ai'.id = engineQ'[k].id /\ ai'.asked
                      /\ \A l \in DOMAIN engineQ' :
                           engineQ'[l].from = "ai" /\ engineQ'[l].id = ai'.id => l = k
      <3>1. CASE k \in DOMAIN engineQ
        BY <1>1, <1>6, <2>7, <2>8, <3>1 DEF AiAsks
      <3>2. CASE k = Len(engineQ) + 1
        <4>1. \A l \in DOMAIN aiQ' : aiQ'[l] # engineQ'[k].id
          BY <1>1, <2>3, <2>7, <3>2 DEF AiOwn
        <4>2. ASSUME reqs'[engineQ'[k].id].stage = "call",
                     NEW l \in DOMAIN engineQ', engineQ'[l].from = "ai", engineQ'[l].id = ai'.id
              PROVE  l = k
          BY <1>6, <2>2, <2>3, <2>7, <3>2, <4>2
        <4> QED BY <2>2, <2>3, <2>7, <3>2, <4>1, <4>2
      <3> QED BY <2>7, <3>1, <3>2
    <2>9. AiAsks'
      BY <2>8 DEF AiAsks
    <2> QED BY <1>1, <1>2, <1>3, <2>1, <2>2, <2>5, <2>6, <2>9
  <1>9. CASE "engine" \notin up
    <2>1. engineQ' = engineQ /\ ai' = [ai EXCEPT !.todo = Tail(@)]
      BY <1>9 DEF AiCalls
    <2>2. /\ DOMAIN ai' = {"id", "todo", "asked"} /\ ai'.id = ai.id /\ ai'.todo = Tail(ai.todo)
          /\ ~ai'.asked
      BY <1>1, <2>1 DEF AiOwn
    <2>3. QueueInv'
      BY <1>2, <1>7, <2>1, QueueKept
    <2>4. Tail(ai.todo) \in Todos
      BY <1>1, <1>3, TodoTail
    <2>5. AiOwn'
      BY <1>1, <1>3, <1>4, <1>5, <2>2, <2>4 DEF AiOwn
    <2>6. AiAsks'
      <3>1. \A k \in DOMAIN engineQ' :
              engineQ'[k].from = "ai" /\ reqs'[engineQ'[k].id].stage = "call" =>
                ai'.id = ai.id /\ ai'.asked
        BY <1>6, <2>1
      <3>2. \A k \in DOMAIN aiQ' : ~Taken(aiQ'[k]) \/ \E l \in DOMAIN aiQ : aiQ'[k] = aiQ[l]
        BY <1>1
      <3> QED BY <1>2, <2>1, <3>1, <3>2, SameQueue, AiAsksRest
    <2> QED BY <1>1, <1>2, <1>3, <2>1, <2>2, <2>3, <2>5, <2>6
  <1> QED BY <1>8, <1>9

LEMMA GivesUpPath ==
  ASSUME RequestInv, QueueInv, AiOwn, AiAsks, AiCallTimesOut
  PROVE  QueueInv' /\ AiOwn' /\ AiAsks' /\ Step(0)
  <1>1. /\ ai.asked /\ reqs[ai.id].stage # "call" /\ ai' = AiGoesOn(ai.id)
        /\ Quiet /\ aiQ' = aiQ /\ engineQ' = engineQ
    BY DEF AiCallTimesOut, Quiet
  <1>2. Step(0) /\ Carries(0)
    BY <1>1, NobodyIsZero, StepKeeps
  <1>3. QueueInv'
    <2>1. \A k \in DOMAIN engineQ : engineQ[k].id # 0
      BY NobodyIsZero DEF QueueInv
    <2> QED BY <1>1, <1>2, <2>1, QueueKept
  <1>4. AiOwn'
    BY <1>1, <1>2, AiOwnGoesOn
  <1>5. AiAsks'
    <2>1. \A k \in DOMAIN engineQ' :
            engineQ'[k].from = "ai" /\ reqs'[engineQ'[k].id].stage = "call" =>
              ai'.id = ai.id /\ ai'.asked
      BY <1>1, <1>2, CallsAsk
    <2>2. \A k \in DOMAIN aiQ' : ~Taken(aiQ'[k]) \/ \E l \in DOMAIN aiQ : aiQ'[k] = aiQ[l]
      BY <1>1
    <2> QED BY <1>1, <1>2, <2>1, <2>2, SameQueue, AiAsksRest
  <1> QED BY <1>2, <1>3, <1>4, <1>5

LEMMA FinishesPath ==
  ASSUME RequestInv, QueueInv, AiOwn, AiAsks, AiFinishes
  PROVE  /\ QueueInv' /\ AiOwn' /\ AiAsks' /\ ai.id \in DOMAIN reqs
         /\ \E i \in {0, ai.id} : Step(i) /\ (i = 0 => Quiet)
  <1>1. /\ ai.id # 0 /\ ~ai.asked /\ aiQ' = aiQ /\ engineQ' = engineQ /\ ai' = Idle
        /\ UNCHANGED <<session, received>> /\ \E said : Replied(ai.id, said)
    BY DEF AiFinishes
  <1>2. ForAi(ai.id) /\ ai.id \in DOMAIN reqs
    BY <1>1, Carried DEF AiOwn, ForAi, Taken, RequestInv
  <1>3. PICK i \in {0, ai.id} : /\ Step(i)
                                /\ i = ai.id => Ends(i) /\ reqs[i].stage = "call"
                                /\ i = 0 => Quiet
    BY <1>1, <1>2, RepliedStep
  <1>4. Carries(i)
    BY <1>3, StepKeeps
  <1>5. \A k \in DOMAIN engineQ : engineQ[k].id # i
    <2> SUFFICES ASSUME NEW k \in DOMAIN engineQ, engineQ[k].id = i PROVE FALSE
      OBVIOUS
    <2>1. Taken(i) /\ i # 0
      BY NobodyIsZero DEF QueueInv
    <2>2. i = ai.id /\ reqs[i].stage = "call" /\ CallOf(i).to = "ai"
      BY <1>2, <1>3, <2>1 DEF ForAi
    <2>3. engineQ[k].from = "ai"
      BY <2>2 DEF QueueInv
    <2> QED BY <1>1, <2>2, <2>3 DEF AiAsks
  <1>6. QueueInv'
    BY <1>1, <1>4, <1>5, QueueKept
  <1>7. AiOwn'
    <2>1. \A k \in DOMAIN aiQ' : ForAi(aiQ[k])' /\ aiQ'[k] # 0
      <3> SUFFICES ASSUME NEW k \in DOMAIN aiQ, NEW j, j = aiQ[k] PROVE ForAi(j)' /\ j # 0
        BY <1>1
      <3>1. ForAi(j) /\ j # 0 /\ j # ai.id
        BY NobodyIsZero DEF AiOwn, ForAi
      <3> QED BY <1>3, <1>4, <3>1, ForAiKept
    <2>2. ai'.id = 0 /\ ai'.todo = <<>> /\ ~ai'.asked /\ DOMAIN ai' = {"id", "todo", "asked"}
      BY <1>1 DEF Idle
    <2> QED BY <1>1, <2>1, <2>2 DEF AiOwn, Todos
  <1>8. AiAsks'
    <2>1. \A k \in DOMAIN engineQ' :
            engineQ'[k].from = "ai" /\ reqs'[engineQ'[k].id].stage = "call" =>
              ai'.id = ai.id /\ ai'.asked
      BY <1>1, <1>3, CallsAsk
    <2>2. \A k \in DOMAIN aiQ' : ~Taken(aiQ'[k]) \/ \E l \in DOMAIN aiQ : aiQ'[k] = aiQ[l]
      BY <1>1
    <2> QED BY <1>1, <1>3, <2>1, <2>2, SameQueue, AiAsksRest
  <1> QED BY <1>2, <1>3, <1>6, <1>7, <1>8

\* The handler of request i learns that its service is gone.
Unsaid(i) ==
  \/ reqs'[i].stage = "poll" /\ reqs'[i].status = reqs[i].status
  \/ /\ reqs'[i].stage = "answered" /\ reqs'[i].said = "lost"
     /\ reqs'[i].status \in {200, 503}

\* Of the requests a dying service leaves, none is told its end.
LEMMA LostStep ==
  ASSUME RequestInv, NEW lost, lost \subseteq {i \in DOMAIN reqs : reqs[i].stage = "call"},
         reqs' = [i \in DOMAIN reqs |->
                    IF i \in lost THEN CallOver(reqs, i, "lost")[i] ELSE reqs[i]],
         UNCHANGED <<session, received>>
  PROVE  \E i : /\ Step(i) /\ lost \subseteq {i}
                /\ i # 0 => i \in DOMAIN reqs /\ Open(i)' /\ Ends(i) /\ Unsaid(i)
                /\ i = 0 => Quiet
  <1>1. 0 \notin DOMAIN reqs
    BY Ids
  <1>2. CASE Quiet /\ lost = {}
    BY <1>1, <1>2 DEF Step
  <1>3. ASSUME NEW i \in DOMAIN reqs, Ends(i), lost = {i}, Unsaid(i)
        PROVE  Step(i) /\ lost \subseteq {i} /\ i \in DOMAIN reqs /\ Open(i)' /\ i # 0
    BY <1>1, <1>3 DEF Step, Open, Busy, Unsaid
  <1>4. CASE \E i \in DOMAIN reqs : Ends(i) /\ lost = {i} /\ Unsaid(i)
    BY <1>3, <1>4
  <1>5. \/ Quiet /\ lost = {}
        \/ \E i \in DOMAIN reqs : Ends(i) /\ lost = {i} /\ Unsaid(i)
    BY LostDoes DEF Unsaid
  <1> QED BY <1>2, <1>4, <1>5

LEMMA EngineDiesPath ==
  ASSUME RequestInv, QueueInv, AiOwn, AiAsks, EngineDies
  PROVE  /\ QueueInv' /\ AiOwn' /\ AiAsks' /\ engineQ' = <<>>
         /\ \E i : Step(i) /\ (i # 0 => Ends(i) /\ Open(i)' /\ Unsaid(i)) /\ (i = 0 => Quiet)
  <1>1. /\ ai' = AiGoesOn(ai.id) /\ aiQ' = aiQ /\ engineQ' = <<>>
        /\ UNCHANGED <<session, received>>
    BY DEF EngineDies
  <1>2. PICK i : /\ Step(i)
                 /\ i # 0 => i \in DOMAIN reqs /\ Open(i)' /\ Ends(i) /\ Unsaid(i)
                 /\ i = 0 => Quiet
    <2> DEFINE waits(j) == \E k \in DOMAIN engineQ : engineQ[k].id = j /\ engineQ[k].from = "http"
               lost == {j \in DOMAIN reqs : reqs[j].stage = "call" /\ waits(j)}
    <2>1. /\ reqs' = [j \in DOMAIN reqs |->
                        IF j \in lost THEN CallOver(reqs, j, "lost")[j] ELSE reqs[j]]
          /\ lost \subseteq {j \in DOMAIN reqs : reqs[j].stage = "call"}
      BY DEF EngineDies
    <2> HIDE DEF lost
    <2> QED BY <1>1, <2>1, LostStep
  <1>3. Carries(i)
    BY <1>2, StepKeeps
  <1>4. QueueInv'
    <2>1. DOMAIN engineQ' = {} /\ IsSeq(engineQ')
      BY <1>1 DEF IsSeq
    <2> QED BY <2>1 DEF QueueInv
  <1>5. AiOwn'
    BY <1>1, <1>2, <1>3, AiOwnGoesOn
  <1>6. AiAsks'
    BY <1>1 DEF AiAsks
  <1> QED BY <1>1, <1>2, <1>4, <1>5, <1>6

LEMMA AiDiesPath ==
  ASSUME RequestInv, QueueInv, AiOwn, AiAsks, AiDies
  PROVE  /\ QueueInv' /\ AiOwn' /\ AiAsks' /\ ai'.id = 0 /\ aiQ' = <<>>
         /\ \E i : Step(i) /\ (i # 0 => Ends(i) /\ Open(i)' /\ Unsaid(i)) /\ (i = 0 => Quiet)
  <1>1. ai' = Idle /\ aiQ' = <<>> /\ engineQ' = engineQ /\ UNCHANGED <<session, received>>
    BY DEF AiDies
  <1> DEFINE lost == {j \in DOMAIN reqs :
                        reqs[j].stage = "call" /\ (j = ai.id \/ Contains(aiQ, j))}
  <1>2. /\ reqs' = [j \in DOMAIN reqs |->
                      IF j \in lost THEN CallOver(reqs, j, "lost")[j] ELSE reqs[j]]
        /\ lost \subseteq {j \in DOMAIN reqs : reqs[j].stage = "call"}
    BY DEF AiDies
  <1>3. \A j \in DOMAIN reqs : reqs[j].stage = "call" /\ j = ai.id => j \in lost
    OBVIOUS
  <1> HIDE DEF lost
  <1>4. PICK i : /\ Step(i) /\ lost \subseteq {i}
                 /\ i # 0 => i \in DOMAIN reqs /\ Open(i)' /\ Ends(i) /\ Unsaid(i)
                 /\ i = 0 => Quiet
    BY <1>1, <1>2, LostStep
  <1>5. Carries(i)
    BY <1>4, StepKeeps
  <1>6. \A k \in DOMAIN engineQ : Taken(engineQ[k].id)
    BY DEF QueueInv
  <1>7. QueueInv'
    BY <1>1, <1>4, <1>5, <1>6, NobodyIsZero, QueueKept
  <1>8. ai'.id = 0 /\ ai'.todo = <<>> /\ ~ai'.asked /\ DOMAIN ai' = {"id", "todo", "asked"}
    BY <1>1 DEF Idle
  <1>9. AiOwn'
    BY <1>1, <1>8 DEF AiOwn, Todos
  <1>10. \A k \in DOMAIN engineQ' :
           engineQ'[k].from = "ai" /\ reqs'[engineQ'[k].id].stage = "call" =>
             ai'.id = ai.id /\ ai'.asked
    <2> SUFFICES ASSUME NEW k \in DOMAIN engineQ, engineQ[k].from = "ai",
                        reqs'[engineQ[k].id].stage = "call"
                 PROVE  FALSE
      BY <1>1
    <2>1. ai.id = engineQ[k].id /\ reqs[ai.id].stage = "call" /\ ai.id # i
      BY <1>4, CallsAsk
    <2>2. ai.id \in DOMAIN reqs
      BY <1>6, <2>1, Carried, <1>5
    <2> QED BY <1>3, <1>4, <2>1, <2>2
  <1>11. AiAsks'
    <2>1. \A k \in DOMAIN aiQ' : ~Taken(aiQ'[k]) \/ \E l \in DOMAIN aiQ : aiQ'[k] = aiQ[l]
      BY <1>1
    <2> QED BY <1>1, <1>4, <1>10, <2>1, SameQueue, AiAsksRest
  <1> QED BY <1>1, <1>4, <1>7, <1>8, <1>9, <1>11

----------------------------------------------------------------------------
(* What takes place is for a request taken just now or still open. *)

Places(i, e, op) ==
  /\ Step(i) /\ Adds(e, op)
  /\ op # Nothing =>
       /\ e \in DOMAIN reqs
       /\ \/ Taken(e) /\ Open(e)
          \/ /\ e = i /\ reqs[e].stage = "sent"
             /\ RoleOf(e) = "none" => op \in Public

LEMMA DoneIdsKept ==
  ASSUME RequestInv, DoneIds, NEW i, NEW e, NEW op, Places(i, e, op)
  PROVE  DoneIds'
  <1>1. Step(i) /\ Adds(e, op) /\ DOMAIN reqs \subseteq DOMAIN reqs'
    BY StepKeeps DEF Places
  <1>2. op # Nothing => e \in DOMAIN reqs /\ reqs'[e].stage # "sent"
    <2> SUFFICES ASSUME op # Nothing PROVE e \in DOMAIN reqs /\ reqs'[e].stage # "sent"
      OBVIOUS
    <2>1. e \in DOMAIN reqs /\ (Taken(e) \/ e = i)
      BY DEF Places
    <2>2. Taken(e) => reqs[e].stage # "sent"
      BY DEF Taken, RequestInv
    <2> QED BY <1>1, <2>1, <2>2, StepForward
  <1>3. \A n \in DOMAIN effects' : effects'[n].id \in DOMAIN reqs
    BY <1>1, <1>2 DEF Adds, DoneIds
  <1>4. ASSUME NEW j \in DOMAIN reqs', reqs'[j].stage = "sent" PROVE Did(j)' = {}
    <2>1. CASE j \in DOMAIN reqs
      <3>1. reqs[j].stage = "sent"
        BY <1>1, <1>4, <2>1, StepForward
      <3>2. Did(j) = {} /\ (op # Nothing => j # e)
        BY <1>2, <1>4, <2>1, <3>1 DEF DoneIds
      <3> QED BY <1>1, <3>2, DidGrows
    <2>2. CASE j \notin DOMAIN reqs
      BY <1>3, <2>2 DEF Did
    <2> QED BY <2>1, <2>2
  <1>5. IsSeq(effects)' /\ \A n \in DOMAIN effects' : effects'[n].id \in DOMAIN reqs'
    BY <1>1, <1>3 DEF Adds
  <1> QED BY <1>4, <1>5 DEF DoneIds

LEMMA DoneErrorsKept ==
  ASSUME RequestInv, DoneErrors, NEW i, NEW e, NEW op, Places(i, e, op),
         i \in DOMAIN reqs /\ reqs'[i].stage = "answered" /\ reqs'[i].said = "error" =>
           Did(i)' \subseteq MayLeave(i)
  PROVE  DoneErrors'
  <1>1. Step(i) /\ Adds(e, op) /\ Carries(i)
    BY StepKeeps DEF Places
  <1> SUFFICES ASSUME NEW j \in DOMAIN reqs', reqs'[j].stage = "answered", reqs'[j].said = "error"
               PROVE  Did(j)' \subseteq MayLeave(j)'
    BY DEF DoneErrors
  <1>2. j \in DOMAIN reqs
    BY <1>1, StepForward
  <1>3. MayLeave(j)' = MayLeave(j)
    BY <1>1, <1>2, Carried
  <1>4. CASE j = i
    BY <1>2, <1>3, <1>4
  <1>5. CASE j # i
    <2>1. reqs'[j] = reqs[j] /\ Did(j) \subseteq MayLeave(j)
      BY <1>1, <1>2, <1>5 DEF Carries, DoneErrors
    <2>2. op # Nothing => j # e
      BY <1>5, <2>1 DEF Places, Open, Busy
    <2>3. Did(j)' \subseteq Did(j)
      BY <1>1, <2>2, DidGrows
    <2> QED BY <1>3, <2>1, <2>3
  <1> QED BY <1>4, <1>5

LEMMA DoneCallsKept ==
  ASSUME RequestInv, QueueInv, DoneIds, DoneCalls, NEW i, NEW e, NEW op, Places(i, e, op),
         \A k \in DOMAIN engineQ' : engineQ'[k].from = "http" =>
           \/ /\ \E l \in DOMAIN engineQ : engineQ'[k] = engineQ[l]
              /\ op # Nothing => engineQ'[k].id # e
           \/ /\ engineQ'[k].id = i /\ i \in DOMAIN reqs /\ reqs[i].stage = "sent"
              /\ op \in {LocalOf(i), Nothing}
  PROVE  DoneCalls'
  <1>1. Step(i) /\ Adds(e, op) /\ Carries(i)
    BY StepKeeps DEF Places
  <1> SUFFICES ASSUME NEW k \in DOMAIN engineQ', engineQ'[k].from = "http",
                      NEW j, j = engineQ'[k].id
               PROVE  Did(j)' \subseteq {LocalOf(j)'} \ {Nothing}
    BY DEF DoneCalls
  <1>2. CASE (\E l \in DOMAIN engineQ : engineQ'[k] = engineQ[l]) /\ (op # Nothing => j # e)
    <2>1. Taken(j) /\ Did(j) \subseteq {LocalOf(j)} \ {Nothing}
      BY <1>2 DEF QueueInv, DoneCalls
    <2>2. LocalOf(j)' = LocalOf(j)
      BY <1>1, <2>1, Carried
    <2>3. Did(j)' \subseteq Did(j)
      BY <1>1, <1>2, DidGrows
    <2> QED BY <2>1, <2>2, <2>3
  <1>3. CASE /\ j = i /\ i \in DOMAIN reqs /\ reqs[i].stage = "sent"
             /\ op \in {LocalOf(i), Nothing}
    <2>1. Did(j) = {}
      BY <1>3 DEF DoneIds
    <2>2. Did(j)' \subseteq Did(j) \cup ({op} \ {Nothing})
      BY <1>1, DidGrows
    <2>3. LocalOf(j)' = LocalOf(j)
      BY <1>1, <1>3, Carried
    <2> QED BY <1>3, <2>1, <2>2, <2>3
  <1> QED BY <1>2, <1>3

LEMMA DoneWaitingKept ==
  ASSUME DoneWaiting, NEW i, NEW e, NEW op, Places(i, e, op),
         \A k \in DOMAIN aiQ' : /\ \E l \in DOMAIN aiQ : aiQ'[k] = aiQ[l]
                                /\ op # Nothing => aiQ'[k] # e
  PROVE  DoneWaiting'
  <1> SUFFICES ASSUME NEW k \in DOMAIN aiQ', NEW j, j = aiQ'[k] PROVE Did(j)' = {}
    BY DEF DoneWaiting
  <1>1. Did(j) = {}
    BY DEF DoneWaiting
  <1>2. Did(j)' \subseteq Did(j)
    BY DidGrows DEF Places
  <1> QED BY <1>1, <1>2

LEMMA DoneFailingKept ==
  ASSUME RequestInv, AiOwn, DoneFailing, NEW i, NEW e, NEW op, Places(i, e, op),
         \A k \in DOMAIN engineQ' : engineQ'[k].id = ai.id =>
           \/ \E l \in DOMAIN engineQ : engineQ'[k] = engineQ[l]
           \/ ai'.todo \in Failing => Does(engineQ'[k].call) \in MayLeave(ai.id),
         \/ ai'.id = 0
         \/ /\ ai'.id = ai.id
            /\ ai'.todo \in Failing =>
                 /\ ai.todo \in Failing
                 /\ op # Nothing /\ e = ai.id => op \in MayLeave(ai.id)
            /\ ai'.todo = <<"DetachSHM", "fail">> => ai.todo = ai'.todo
  PROVE  DoneFailing'
  <1>1. Step(i) /\ Adds(e, op) /\ Carries(i)
    BY StepKeeps DEF Places
  <1> SUFFICES ASSUME ai'.id # 0, ai'.todo \in Failing, NEW j, j = ai.id, j = ai'.id
               PROVE  /\ Did(j)' \subseteq MayLeave(j)'
                      /\ \A k \in DOMAIN engineQ' :
                           engineQ'[k].id = j => Does(engineQ[k].call)' \in MayLeave(j)'
                      /\ ai'.todo = <<"DetachSHM", "fail">> => CallOf(j)'.method = "LoadModel"
    BY DEF DoneFailing
  <1>2. j \in DOMAIN reqs
    BY <1>1, Carried DEF AiOwn, ForAi
  <1>3. MayLeave(j)' = MayLeave(j) /\ CallOf(j)' = CallOf(j)
    BY <1>1, <1>2, Carried
  <1>4. /\ Did(j) \subseteq MayLeave(j)
        /\ \A k \in DOMAIN engineQ : engineQ[k].id = j => Does(engineQ[k].call) \in MayLeave(j)
        /\ ai.todo = <<"DetachSHM", "fail">> => CallOf(j).method = "LoadModel"
    BY DEF DoneFailing
  <1>5. Did(j)' \subseteq MayLeave(j)
    <2>1. op # Nothing /\ e = j => op \in MayLeave(j)
      OBVIOUS
    <2> QED BY <1>1, <1>4, <2>1, DidGrows
  <1>6. \A k \in DOMAIN engineQ' : engineQ'[k].id = j => Does(engineQ[k].call)' \in MayLeave(j)
    <2> SUFFICES ASSUME NEW k \in DOMAIN engineQ', engineQ'[k].id = j
                 PROVE  Does(engineQ[k].call)' \in MayLeave(j)
      OBVIOUS
    <2>1. Does(engineQ'[k].call) \in MayLeave(j)
      BY <1>4
    <2>2. Does(engineQ[k].call)' = Does(engineQ'[k].call)
      BY DEF Does
    <2> QED BY <2>1, <2>2
  <1>7. ai'.todo = <<"DetachSHM", "fail">> => CallOf(j).method = "LoadModel"
    BY <1>4
  <1> QED BY <1>3, <1>5, <1>6, <1>7

(* The log keeps what it has, and gets what it must have of a step that    *)
(* places op for e and changes request i; the lines it gets are of i, and  *)
(* agree with the answer.                                                  *)
Tell(log, i, op) == \E a \in log : a.id = i /\ NamesCaller(a) /\ Means(a.what) = op
Denied(log, i) == \E a \in log : a.id = i /\ NamesCaller(a) /\ a.what = "ACCESS_DENIED"

Records(i, e, op) ==
  /\ audit \subseteq audit'
  /\ OnRecord(op) => Tell(audit', e, op)
  /\ i \in DOMAIN reqs /\ reqs'[i].status = 403 => reqs[i].status = 403 \/ Denied(audit', i)
  /\ \A a \in audit' \ audit :
       /\ a.id = i /\ i \in DOMAIN reqs /\ reqs'[i].stage = "answered"
       /\ Means(a.what) # Nothing => reqs'[i].status \in 200..399
       /\ a.what \in Known => Means(a.what) \in Did(i)'
       /\ a.what \in Refusals => reqs'[i].status >= 400

\* Lines are of requests that are over, so that what they say stays so.
LogInv ==
  /\ LogAgrees
  /\ \A a \in audit : a.id \in DOMAIN reqs /\ reqs[a.id].stage = "answered"

LEMMA LoggedKept ==
  ASSUME RequestInv, DoneIds, LogInv, NEW i, NEW e, NEW op,
         Places(i, e, op), Records(i, e, op)
  PROVE  LogInv'
  <1>1. Step(i) /\ Adds(e, op) /\ Carries(i)
    BY StepKeeps DEF Places
  <1>2. ASSUME NEW k \in DOMAIN effects', OnRecord(effects'[k].op)
        PROVE  Tell(audit', effects'[k].id, effects'[k].op)
    <2>1. CASE k \in DOMAIN effects
      <3>1. effects'[k] = effects[k]
        BY <1>1, <2>1 DEF Adds
      <3>2. Tell(audit, effects[k].id, effects[k].op)
        BY <1>2, <2>1, <3>1 DEF LogInv, LogAgrees, Tell
      <3> QED BY <3>1, <3>2 DEF Records, Tell
    <2>2. CASE k \notin DOMAIN effects
      <3>1. effects'[k].id = e /\ effects'[k].op = op
        BY <1>1, <2>2 DEF Adds
      <3> QED BY <1>2, <3>1 DEF Records
    <2> QED BY <2>1, <2>2
  <1>3. ASSUME NEW j \in DOMAIN reqs', reqs'[j].status = 403
        PROVE  Denied(audit', j)
    <2>1. CASE j \in DOMAIN reqs
      <3>1. reqs[j].status = 403 => Denied(audit', j)
        BY <2>1 DEF LogInv, LogAgrees, Denied, Records
      <3>2. j # i => reqs'[j] = reqs[j]
        BY <1>1, <2>1 DEF Carries
      <3> QED BY <1>3, <2>1, <3>1, <3>2 DEF Records
    <2>2. CASE j \notin DOMAIN reqs
      <3>1. i = 0 /\ Asked
        BY <1>1, <2>2 DEF Step, Takings, Ends, Moves, Quiet
      <3>2. reqs'[j].status = 0
        BY <2>2, <3>1, AskedKeeps
      <3> QED BY <1>3, <3>2
    <2> QED BY <2>1, <2>2
  <1>4. \A j : Did(j) \subseteq Did(j)'
    BY <1>1 DEF Adds, Did
  <1>5. ASSUME NEW a \in audit'
        PROVE  /\ a.id \in DOMAIN reqs' /\ reqs'[a.id].stage = "answered"
               /\ Means(a.what) # Nothing => reqs'[a.id].status \in 200..399
               /\ a.what \in Known => Means(a.what) \in Did(a.id)'
               /\ a.what \in Refusals => reqs'[a.id].status >= 400
    <2>1. CASE a \in audit
      <3>1. /\ a.id \in DOMAIN reqs /\ reqs[a.id].stage = "answered"
            /\ Means(a.what) # Nothing => reqs[a.id].status \in 200..399
            /\ a.what \in Known => Means(a.what) \in Did(a.id)
            /\ a.what \in Refusals => reqs[a.id].status >= 400
        BY <2>1 DEF LogInv, LogAgrees
      <3>2. a.id # i
        BY <1>1, <3>1, Ids DEF Step, Takings, Ends, Busy
      <3>3. a.id \in DOMAIN reqs' /\ reqs'[a.id] = reqs[a.id]
        BY <1>1, <3>1, <3>2 DEF Carries
      <3> QED BY <1>4, <3>1, <3>3
    <2>2. CASE a \notin audit
      <3>1. /\ a.id = i /\ i \in DOMAIN reqs /\ reqs'[i].stage = "answered"
            /\ Means(a.what) # Nothing => reqs'[i].status \in 200..399
            /\ a.what \in Known => Means(a.what) \in Did(i)'
            /\ a.what \in Refusals => reqs'[i].status >= 400
        BY <2>2 DEF Records
      <3>2. i \in DOMAIN reqs'
        BY <1>1, <3>1 DEF Carries
      <3> QED BY <3>1, <3>2
    <2> QED BY <2>1, <2>2
  <1>6. LogAgrees'
    BY <1>2, <1>3, <1>5 DEF LogAgrees, Tell, Denied
  <1> QED BY <1>5, <1>6 DEF LogInv

\* Whoever is told "done" is told so by a step of the queue's first call.
LEMMA AckKept ==
  ASSUME RequestInv, AckIsFinal, NEW i, Step(i),
         \A k \in DOMAIN engineQ' : engineQ'[k].from # "ai" =>
           \/ \E l \in DOMAIN engineQ : engineQ'[k] = engineQ[l]
           \/ engineQ'[k].id = i /\ Takings(i),
         i \in DOMAIN reqs /\ reqs'[i].said = "done" /\ CallOf(i).to = "engine" =>
           /\ Ends(i)
           /\ \A k \in DOMAIN engineQ' : engineQ'[k].from # "ai" =>
                ~ReceivedBefore(engineQ'[k].id, i)
  PROVE  AckIsFinal'
  <1>1. Carries(i) /\ RequestInv'
    BY StepKeeps
  <1> SUFFICES ASSUME NEW x \in DOMAIN reqs', NEW j \in DOMAIN reqs', ReceivedBefore(j, x)',
                      reqs'[x].said = "done", CallOf(x)'.to = "engine",
                      NEW k \in DOMAIN engineQ', engineQ'[k].id = j, engineQ'[k].from # "ai"
               PROVE  FALSE
    BY DEF AckIsFinal
  <1>2. x \in DOMAIN reqs
    <2>1. reqs'[x].stage # "sent"
      <3>1. Shape(reqs'[x])
        BY <1>1 DEF RequestInv
      <3>2. "done" # Blank
        BY BlankApart
      <3> QED BY <3>1, <3>2 DEF Shape
    <2> QED BY <2>1, StepForward
  <1>3. CallOf(x).to = "engine"
    BY <1>1, <1>2, Carried
  <1>4. x # i => ReceivedBefore(j, x)
    <2>1. CASE Takings(i)
      BY <2>1, TakingsKeeps
    <2>2. CASE received' = received
      BY <2>2 DEF ReceivedBefore
    <2> QED BY <2>1, <2>2 DEF Step, Quiet, Asked, Ends
  <1>5. CASE x = i
    <2>1. Ends(i) /\ ~ReceivedBefore(j, i)
      BY <1>2, <1>3, <1>5
    <2> QED BY <1>5, <2>1 DEF ReceivedBefore, Ends
  <1>6. CASE x # i
    <2>1. reqs[x].said = "done" /\ ReceivedBefore(j, x)
      BY <1>1, <1>2, <1>4, <1>6 DEF Carries
    <2>2. CASE \E l \in DOMAIN engineQ : engineQ'[k] = engineQ[l]
      <3>1. j \in DOMAIN reqs
        BY <2>1 DEF ReceivedBefore, RequestInv
      <3> QED BY <1>2, <1>3, <2>1, <2>2, <3>1 DEF AckIsFinal
    <2>3. CASE j = i /\ Takings(i)
      BY <2>3, TakingsKeeps
    <2> QED BY <2>2, <2>3
  <1> QED BY <1>5, <1>6

(* Steps that leave the queues and the AI engine alone and answer a        *)
(* request, if one, without a word on a command of the engine.             *)
LEMMA CalmDone ==
  ASSUME RequestInv, QueueInv, AiOwn, DoneInv, NEW i, NEW e, NEW op, Places(i, e, op),
         UNCHANGED <<engineQ, aiQ, ai>>, op # Nothing => ~Taken(e),
         i \in DOMAIN reqs /\ reqs'[i].stage = "answered" /\ reqs'[i].said = "error" =>
           Did(i)' \subseteq MayLeave(i)
  PROVE  DoneInv'
  <1>1. DoneIds'
    BY DoneIdsKept DEF DoneInv
  <1>2. DoneCalls'
    <2>1. \A k \in DOMAIN engineQ' : engineQ'[k].from = "http" =>
            /\ \E l \in DOMAIN engineQ : engineQ'[k] = engineQ[l]
            /\ op # Nothing => engineQ'[k].id # e
      BY DEF QueueInv
    <2> QED BY <2>1, DoneCallsKept DEF DoneInv
  <1>3. DoneWaiting'
    <2>1. \A k \in DOMAIN aiQ' : /\ \E l \in DOMAIN aiQ : aiQ'[k] = aiQ[l]
                                 /\ op # Nothing => aiQ'[k] # e
      BY DEF AiOwn, ForAi
    <2> QED BY <2>1, DoneWaitingKept DEF DoneInv
  <1>4. DoneFailing'
    <2>1. ai.id # 0 /\ op # Nothing => e # ai.id
      BY DEF AiOwn, ForAi
    <2>2. \A k \in DOMAIN engineQ' : \E l \in DOMAIN engineQ : engineQ'[k] = engineQ[l]
      OBVIOUS
    <2> QED BY <2>1, <2>2, DoneFailingKept DEF DoneInv
  <1>5. DoneErrors'
    BY DoneErrorsKept DEF DoneInv
  <1> QED BY <1>1, <1>2, <1>3, <1>4, <1>5 DEF DoneInv

LEMMA NothingPlaced ==
  ASSUME RequestInv, DoneIds, NEW i, Step(i), UNCHANGED effects
  PROVE  Places(i, i, Nothing) /\ ~OnRecord(Nothing)
  BY NothingAdded, OnRecordAre DEF Places

PathInv == RequestInv /\ QueueInv /\ AiOwn /\ AiAsks /\ DoneInv

(* What is proved of every step: the invariant goes on, the log and the    *)
(* order are kept, and what takes place is for a request that is open.     *)
Good ==
  /\ PathInv'
  /\ LogInv => LogInv'
  /\ AckIsFinal => AckIsFinal'
  /\ \E i, e, op : Places(i, e, op)

\* A calm step is a good one.
LEMMA CalmIsGood ==
  ASSUME PathInv, NEW i, NEW op, Places(i, i, op), Records(i, i, op),
         UNCHANGED <<engineQ, aiQ, ai>>, op # Nothing => ~Taken(i), Taken(i) => Open(i)',
         i \in DOMAIN reqs /\ reqs'[i].stage = "answered" /\ reqs'[i].said = "error" =>
           Did(i)' \subseteq MayLeave(i),
         i \in DOMAIN reqs /\ reqs'[i].said = "done" => CallOf(i).to # "engine"
  PROVE  Good
  <1>1. RequestInv /\ QueueInv /\ AiOwn /\ AiAsks /\ DoneInv /\ Step(i)
    BY DEF PathInv, Places
  <1>2. RequestInv'
    BY <1>1, StepKeeps
  <1>3. QueueInv' /\ AiOwn' /\ AiAsks'
    BY <1>1, RestSame
  <1>4. DoneInv'
    BY <1>1, CalmDone
  <1>5. LogInv => LogInv'
    BY <1>1, LoggedKept DEF DoneInv
  <1>6. AckIsFinal => AckIsFinal'
    <2>1. \A k \in DOMAIN engineQ' : \E l \in DOMAIN engineQ : engineQ'[k] = engineQ[l]
      OBVIOUS
    <2> QED BY <1>1, <2>1, AckKept
  <1> QED BY <1>2, <1>3, <1>4, <1>5, <1>6 DEF Good, PathInv

----------------------------------------------------------------------------
(* Every action is good. *)

LEMMA SendGood ==
  ASSUME PathInv, NEW c \in Clients, NEW cmd \in Used, Send(c, cmd)
  PROVE  Good
  <1> DEFINE q == [by |-> c, cmd |-> cmd, stage |-> "sent", status |-> 0, said |-> Blank]
  <1>1. Shape(q) /\ q.stage = "sent" /\ q.status = 0
    BY DEF Shape
  <1>2. reqs' = Append(reqs, q) /\ UNCHANGED <<session, received, engineQ, aiQ, ai, effects, audit>>
    BY DEF Send
  <1> HIDE DEF q
  <1>3. Asked /\ Step(0)
    BY <1>1, <1>2 DEF Asked, Step
  <1>4. 0 \notin DOMAIN reqs /\ ~Taken(0)
    BY Ids, NobodyIsZero DEF PathInv
  <1>5. Places(0, 0, Nothing) /\ Records(0, 0, Nothing)
    BY <1>2, <1>3, <1>4, NothingPlaced DEF PathInv, DoneInv, Records
  <1> QED BY <1>2, <1>4, <1>5, CalmIsGood

\* GiveUp and Starts.
LEMMA QuietGood ==
  ASSUME PathInv, Quiet, UNCHANGED <<engineQ, aiQ, ai, effects, audit>>
  PROVE  Good
  <1>1. 0 \notin DOMAIN reqs /\ ~Taken(0) /\ Step(0)
    BY Ids, NobodyIsZero DEF PathInv
  <1>2. Places(0, 0, Nothing) /\ Records(0, 0, Nothing)
    BY <1>1, NothingPlaced DEF PathInv, DoneInv, Records
  <1> QED BY <1>1, <1>2, CalmIsGood

LEMMA FiledIs ==
  ASSUME NEW i, NEW lines
  PROVE  /\ \A a \in Filed(i, lines) : \E line \in lines : a = Entry(i, line)
         /\ \A line \in lines : Entry(i, line) \in Filed(i, lines)
         /\ \A line : /\ Entry(i, line).id = i /\ Entry(i, line).what = line.what
                      /\ NamesCaller(line) => NamesCaller(Entry(i, line))
  BY DEF Filed, Entry, NamesCaller

LEMMA RefuseGood ==
  ASSUME PathInv, NEW i \in DOMAIN reqs, Refuse(i)
  PROVE  Good
  <1>1. /\ Takings(i) /\ reqs'[i].stage = "answered" /\ reqs'[i].said = "error"
        /\ audit' = audit \cup Filed(i, RefusalLines(Of(i), reqs'[i].status))
    BY RefuseDoes DEF PathInv
  <1>2. UNCHANGED <<engineQ, aiQ, ai, effects>>
    BY DEF Refuse
  <1>3. ~Taken(i) /\ reqs[i].stage = "sent" /\ Step(i)
    BY <1>1, TakingsKeeps DEF PathInv, Takings, Step
  <1>4. Places(i, i, Nothing) /\ Records(i, i, Nothing)
    <2>1. Places(i, i, Nothing) /\ ~OnRecord(Nothing)
      BY <1>2, <1>3, NothingPlaced DEF PathInv, DoneInv
    <2>2. reqs'[i].status = 403 => Denied(audit', i)
      <3>1. reqs'[i].status = 403 =>
              \E line \in RefusalLines(Of(i), reqs'[i].status) :
                NamesCaller(line) /\ line.what = "ACCESS_DENIED"
        BY RefusalsTell
      <3> QED BY <1>1, <3>1, FiledIs DEF Denied
    <2>3. ASSUME NEW a \in audit' \ audit
          PROVE  a.id = i /\ a.what \in Refusals /\ reqs'[i].status \in {400, 401, 403}
      <3>1. PICK line \in RefusalLines(Of(i), reqs'[i].status) : a = Entry(i, line)
        BY <1>1, <2>3, FiledIs
      <3>2. a.id = i /\ a.what = line.what
        BY <3>1, FiledIs
      <3>3. line.what \in Refusals /\ reqs'[i].status \in {400, 401, 403}
        BY RefusalsTell
      <3> QED BY <3>2, <3>3
    <2> QED BY <1>1, <2>1, <2>2, <2>3, MeansAre DEF Records
  <1>5. Did(i)' \subseteq MayLeave(i)
    <2>1. Did(i) = {}
      BY <1>3 DEF PathInv, DoneInv, DoneIds
    <2> QED BY <1>4, <2>1, DidGrows DEF Places
  <1> QED BY <1>1, <1>2, <1>3, <1>4, <1>5, CalmIsGood

LEMMA ServeGood ==
  ASSUME PathInv, NEW i \in DOMAIN reqs, ServeLocal(i)
  PROVE  Good
  <1>1. Takings(i) /\ reqs'[i].stage = "answered" /\ CallOf(i).to = "none"
    BY ServeDoes DEF PathInv
  <1>2. PICK end \in LocalEnds(Of(i)) :
          /\ reqs'[i].status = end.status /\ reqs'[i].said = SaidOf(end.status)
          /\ effects' = effects \o Effect(i, end.op)
          /\ audit' = audit \cup Filed(i, end.lines)
          /\ RoleOf(i) = "none" => end.op \in Public \cup {Nothing}
    BY ServeDoes DEF PathInv
  <1> DEFINE op == end.op
  <1>3. UNCHANGED <<engineQ, aiQ, ai>> /\ Tells(end)
    BY EndsTell DEF ServeLocal
  <1>4. ~Taken(i) /\ reqs[i].stage = "sent" /\ Step(i)
    BY <1>1, TakingsKeeps DEF PathInv, Takings, Step
  <1>5. Adds(i, op)
    BY <1>2, EffectAdded DEF PathInv, DoneInv
  <1>6. Places(i, i, op)
    BY <1>2, <1>4, <1>5 DEF Places
  <1>7. op # Nothing => op \in Did(i)'
    BY <1>2, DidAdded DEF PathInv, DoneInv
  <1>8. Records(i, i, op)
    <2>1. audit \subseteq audit' /\ reqs'[i].status # 403
      BY <1>2, <1>3 DEF Tells
    <2>2. OnRecord(op) => Tell(audit', i, op)
      <3>1. OnRecord(op) => \E line \in end.lines : NamesCaller(line) /\ Means(line.what) = op
        BY <1>3 DEF Tells
      <3> QED BY <1>2, <3>1, FiledIs DEF Tell
    <2>3. ASSUME NEW a \in audit' \ audit
          PROVE  /\ a.id = i /\ reqs'[i].status \in 200..399 /\ a.what \notin Refusals
                 /\ a.what \in Known => Means(a.what) \in Did(i)'
      <3>1. PICK line \in end.lines : a = Entry(i, line)
        BY <1>2, <2>3, FiledIs
      <3>2. a.id = i /\ a.what = line.what
        BY <3>1, FiledIs
      <3>3. /\ end.status \in {200, 201, 202, 204, 400, 404, 500} /\ end.status < 400
            /\ a.what \notin Refusals
            /\ a.what \in Known => Means(a.what) = op
        BY <1>3, <3>2 DEF Tells
      <3>4. a.what \in Known => Means(a.what) # Nothing
        BY MeansAre, ControlApart DEF Known
      <3>5. reqs'[i].status \in 200..399
        <4>1. end.status \in 200..399
          BY <3>3
        <4>2. reqs'[i].status = end.status
          BY <1>2
        <4> QED BY <4>1, <4>2
      <3> QED BY <1>7, <3>2, <3>3, <3>4, <3>5
    <2> QED BY <1>1, <2>1, <2>2, <2>3 DEF Records
  <1>9. reqs'[i].said = "error" => Did(i)' \subseteq MayLeave(i)
    <2>1. Did(i) = {}
      BY <1>4 DEF PathInv, DoneInv, DoneIds
    <2>2. reqs'[i].said = "error" => op = Nothing
      BY <1>2, <1>3 DEF SaidOf, Tells
    <2> QED BY <1>5, <2>1, <2>2, DidGrows
  <1> QED BY <1>1, <1>3, <1>4, <1>6, <1>8, <1>9, CalmIsGood

\* PollEnds and CallTimesOut.
LEMMA EndsGood ==
  ASSUME PathInv, NEW i \in DOMAIN reqs, Ends(i), UNCHANGED <<engineQ, aiQ, ai, effects, audit>>,
         \/ reqs'[i].stage = "poll" /\ reqs'[i].status = reqs[i].status
         \/ /\ reqs'[i].stage = "answered" /\ reqs'[i].said \in {"file", "timeout"}
            /\ reqs'[i].status # 403
  PROVE  Good
  <1>1. Step(i) /\ Open(i)'
    BY DEF Step, Open, Busy
  <1>2. Places(i, i, Nothing) /\ Records(i, i, Nothing)
    BY <1>1, NothingPlaced DEF PathInv, DoneInv, Records
  <1>3. reqs'[i].said # "done"
    <2>1. reqs'[i].stage = "poll" => reqs'[i].said = Blank
      BY DEF Ends, Moves, Shape
    <2> QED BY <2>1, BlankApart
  <1> QED BY <1>1, <1>2, <1>3, CalmIsGood

LEMMA PollGood ==
  ASSUME PathInv, NEW i \in DOMAIN reqs, PollEnds(i)
  PROVE  Good
  <1>1. /\ Ends(i) /\ reqs'[i].stage = "answered" /\ reqs'[i].said = "file"
        /\ reqs'[i].status \in {200, 404}
    BY PollDoes DEF PathInv
  <1>2. UNCHANGED <<engineQ, aiQ, ai, effects, audit>>
    BY DEF PollEnds
  <1> QED BY <1>1, <1>2, EndsGood

LEMMA TimeoutGood ==
  ASSUME PathInv, NEW i \in DOMAIN reqs, CallTimesOut(i)
  PROVE  Good
  <1>1. /\ UNCHANGED <<session, received, engineQ, aiQ, ai, effects, audit>>
        /\ reqs[i].stage = "call" /\ Replied(i, "timeout")
    BY DEF CallTimesOut
  <1>2. /\ Ends(i)
        /\ \/ reqs'[i].stage = "poll" /\ reqs'[i].status = reqs[i].status
           \/ /\ reqs'[i].stage = "answered" /\ reqs'[i].said = "timeout"
              /\ reqs'[i].status \in {200, 503}
    BY <1>1, RepliedDoes DEF PathInv
  <1> QED BY <1>1, <1>2, EndsGood

LEMMA ForwardGood ==
  ASSUME PathInv, NEW i \in DOMAIN reqs, Forward(i)
  PROVE  Good
  <1>1. /\ Takings(i) /\ effects' = effects \o Effect(i, LocalOf(i)) /\ RoleOf(i) # "none"
        /\ reqs'[i].status = reqs[i].status \/ reqs'[i].status \in {200, 503}
        /\ reqs'[i].stage # "sent" /\ CallOf(i).to \in {"engine", "ai"}
        /\ ai' = ai /\ audit' = audit
    <2>1. /\ Takings(i) /\ RoleOf(i) # "none"
          /\ reqs'[i].status = reqs[i].status \/ reqs'[i].status \in {200, 503}
      BY ZenonT(60), ForwardDoes DEF PathInv
    <2>2. CallOf(i).to \in {"engine", "ai"}
      BY TablesAre, CallsAre DEF PathInv, Forward
    <2>3. reqs'[i].stage # "sent"
      BY <2>1 DEF Takings, Moves
    <2>4. ai' = ai /\ audit' = audit /\ effects' = effects \o Effect(i, LocalOf(i))
      BY DEF Forward
    <2> QED BY <2>1, <2>2, <2>3, <2>4
  <1>2. \/ /\ CallOf(i).to = "ai" /\ engineQ' = engineQ /\ aiQ' = Append(aiQ, i)
           /\ reqs'[i].stage = "call"
        \/ /\ engineQ' = Append(engineQ, [id |-> i, from |-> "http", call |-> CallOf(i)])
           /\ aiQ' = aiQ /\ reqs'[i].stage = "call"
        \/ /\ engineQ' = engineQ /\ aiQ' = aiQ
           /\ \/ reqs'[i].stage = "poll"
              \/ reqs'[i].stage = "answered" /\ reqs'[i].said = "lost"
    BY ForwardDoes DEF PathInv
  <1>3. ~Taken(i) /\ reqs[i].stage = "sent" /\ Step(i) /\ i # 0 /\ i \in Nat
    BY <1>1, TakingsKeeps, Ids DEF PathInv, Takings, Step
  <1>4. QueueInv' /\ AiOwn' /\ AiAsks'
    BY ForwardPath DEF PathInv
  <1>5. ~OnRecord(LocalOf(i)) /\ (CallOf(i).to = "ai" => LocalOf(i) = Nothing)
    <2>1. /\ CallOf(i).to = "ai" => LocalOf(i) = Nothing
          /\ CallOf(i).to = "engine" => LocalOf(i) \in {Nothing, Control("log-level")}
      BY TablesAre, CallsAre DEF PathInv
    <2> QED BY <1>1, <2>1, OnRecordAre
  <1> DEFINE op == LocalOf(i)
  <1>6. Adds(i, op) /\ Places(i, i, op)
    BY <1>1, <1>3, EffectAdded DEF PathInv, DoneInv, Places
  <1>7. Records(i, i, op)
    BY <1>1, <1>5 DEF Records
  <1>8. reqs'[i].said # "done" /\ ~(reqs'[i].stage = "answered" /\ reqs'[i].said = "error")
    <2>1. reqs'[i].stage \in {"call", "poll"} => reqs'[i].said = Blank
      BY <1>1 DEF Takings, Moves, Shape
    <2> QED BY <1>2, <2>1, BlankApart
  <1>9. ASSUME NEW k \in DOMAIN engineQ'
        PROVE  \/ \E l \in DOMAIN engineQ : engineQ'[k] = engineQ[l] /\ engineQ'[k].id # i
               \/ engineQ'[k].id = i
    <2>1. CASE engineQ' = engineQ
      BY <2>1
    <2>2. CASE engineQ' = Append(engineQ, [id |-> i, from |-> "http", call |-> CallOf(i)])
      <3>1. \/ k \in DOMAIN engineQ /\ engineQ'[k] = engineQ[k]
            \/ engineQ'[k] = [id |-> i, from |-> "http", call |-> CallOf(i)]
        BY <2>2, Appended DEF PathInv, QueueInv
      <3> QED BY <3>1
    <2> QED BY <1>2, <2>1, <2>2
  <1>10. DoneIds'
    BY <1>6, DoneIdsKept DEF PathInv, DoneInv
  <1>11. DoneCalls'
    BY <1>3, <1>6, <1>9, DoneCallsKept DEF PathInv, DoneInv
  <1>12. DoneWaiting'
    <2>1. CASE aiQ' = aiQ
      <3>1. \A k \in DOMAIN aiQ : aiQ[k] # i
        BY <1>3 DEF PathInv, AiOwn, ForAi
      <3> QED BY <1>6, <2>1, <3>1, DoneWaitingKept DEF PathInv, DoneInv
    <2>2. CASE CallOf(i).to = "ai" /\ aiQ' = Append(aiQ, i)
      <3>1. aiQ \in Seq(Nat)
        BY DEF PathInv, AiOwn
      <3>2. \A k \in DOMAIN aiQ' : aiQ'[k] = i \/ \E l \in DOMAIN aiQ : aiQ'[k] = aiQ[l]
        BY <1>3, <2>2, <3>1
      <3>3. \A j : Did(j)' \subseteq Did(j)
        BY <1>5, <1>6, <2>2, DidGrows
      <3>4. Did(i) = {}
        BY <1>3 DEF PathInv, DoneInv, DoneIds
      <3> SUFFICES ASSUME NEW k \in DOMAIN aiQ', NEW j, j = aiQ'[k] PROVE Did(j)' = {}
        BY DEF DoneWaiting
      <3>5. Did(j) = {}
        BY <3>2, <3>4 DEF PathInv, DoneInv, DoneWaiting
      <3> QED BY <3>3, <3>5
    <2> QED BY <1>2, <2>1, <2>2
  <1>13. DoneFailing'
    <2>1. ai.id # i
      BY <1>3 DEF PathInv, AiOwn, ForAi
    <2> QED BY <1>1, <1>6, <1>9, <2>1, DoneFailingKept DEF PathInv, DoneInv
  <1>14. DoneErrors'
    BY <1>6, <1>8, DoneErrorsKept DEF PathInv, DoneInv
  <1>15. RequestInv'
    BY <1>3, StepKeeps DEF PathInv
  <1>16. LogInv => LogInv'
    BY <1>6, <1>7, LoggedKept DEF PathInv, DoneInv
  <1>17. AckIsFinal => AckIsFinal'
    BY <1>1, <1>3, <1>8, <1>9, AckKept DEF PathInv
  <1> HIDE DEF op
  <1> QED BY <1>4, <1>6, <1>10, <1>11, <1>12, <1>13, <1>14, <1>15, <1>16, <1>17
          DEF Good, PathInv, DoneInv

LEMMA DoesApart ==
  ASSUME NEW c, c.to \in {"engine", "ai"}
  PROVE  ~OnRecord(Does(c)) /\ Does(c) # Nothing
  <1>1. Does(c)[1] = c.to
    BY DEF Does
  <1>2. Nothing[1] = "none"
    BY DEF Nothing
  <1> QED BY <1>1, <1>2, OnRecordAre

\* A command the control plane has begun by itself is never refused by the engine.
LEMMA BegunIsUnderstood ==
  ASSUME RequestInv, NEW i \in DOMAIN reqs, CallOf(i).to = "engine", LocalOf(i) # Nothing
  PROVE  "error" \notin Outcomes(CallOf(i))
  <1>1. CallOf(i).method = "SetLogLevel" /\ CallOf(i).tier = Blank
    BY TablesAre, CallsAre
  <1>2. Needs(CallOf(i).method) = {} /\ CallOf(i).method \in EngineMethods
    BY <1>1 DEF Needs, EngineMethods
  <1>3. Blank \in Tiers
    BY DEF Tiers
  <1> QED BY <1>1, <1>2, <1>3 DEF Outcomes, Understood

LEMMA HandleGood ==
  ASSUME PathInv, EngineHandles
  PROVE  Good
  <1> DEFINE m == engineQ[1]
  <1>1. /\ engineQ # <<>> /\ 1 \in DOMAIN engineQ /\ Head(engineQ) = m
        /\ \A k \in DOMAIN engineQ' : /\ k + 1 \in DOMAIN engineQ /\ k + 1 > 1
                                      /\ engineQ'[k] = engineQ[k + 1]
    BY HeadIs DEF PathInv, EngineHandles, Handle
  <1>2. /\ Taken(m.id) /\ Open(m.id) /\ m.from \in {"http", "ai"} /\ m.call.to = "engine"
        /\ m.from = "http" => m.call = CallOf(m.id)
        /\ m.from = "ai" => CallOf(m.id).to = "ai"
    BY <1>1 DEF PathInv, QueueInv
  <1>3. PICK said \in Outcomes(m.call) :
          /\ effects' = effects \o IF said = "done" THEN Effect(m.id, Does(m.call)) ELSE <<>>
          /\ IF m.from = "http" THEN Replied(m.id, said) /\ UNCHANGED ai
             ELSE ai' = AiGoesOn(m.id) /\ UNCHANGED <<reqs, waiting>>
    BY <1>1 DEF EngineHandles, Handle
  <1>4. aiQ' = aiQ /\ audit' = audit /\ UNCHANGED <<session, received>>
    BY <1>1 DEF EngineHandles, Handle
  <1>5. QueueInv' /\ AiOwn' /\ AiAsks'
    BY HandlesPath DEF PathInv
  <1> DEFINE op == IF said = "done" THEN Does(m.call) ELSE Nothing
             e == m.id
  <1>6. Adds(e, op)
    <2>1. effects' = effects \o Effect(e, op)
      BY <1>3 DEF Effect
    <2> HIDE DEF op, e
    <2> QED BY <2>1, EffectAdded DEF PathInv, DoneInv
  <1>7. ~OnRecord(op)
    BY <1>2, DoesApart, OnRecordAre
  <1>8. e \in DOMAIN reqs /\ e # 0
    BY <1>2, NobodyIsZero DEF PathInv, RequestInv, Taken
  <1>9. \E i \in {0, e} :
          /\ Step(i) /\ (i = 0 => Quiet)
          /\ i = e => /\ m.from = "http" /\ Ends(i) /\ ai' = ai
                      /\ \/ reqs'[i].stage = "poll" /\ reqs'[i].status = reqs[i].status
                         \/ /\ reqs'[i].stage = "answered" /\ reqs'[i].said = said
                            /\ reqs'[i].status \in {200, 503}
    <2>1. CASE m.from = "http"
      <3>1. Replied(e, said) /\ ai' = ai
        BY <1>3, <2>1
      <3>2. \/ Quiet
            \/ /\ Ends(e)
               /\ \/ reqs'[e].stage = "poll" /\ reqs'[e].status = reqs[e].status
                  \/ /\ reqs'[e].stage = "answered" /\ reqs'[e].said = said
                     /\ reqs'[e].status \in {200, 503}
        BY <1>4, <1>8, <3>1, RepliedDoes DEF PathInv
      <3>3. Quiet => Step(0)
        BY NobodyIsZero DEF PathInv
      <3>4. Ends(e) => Step(e)
        BY DEF Step
      <3> QED BY <1>8, <2>1, <3>1, <3>2, <3>3, <3>4
    <2>2. CASE m.from = "ai"
      <3>1. Quiet
        BY <1>3, <1>4, <2>2 DEF Quiet
      <3>2. Step(0)
        BY <3>1, NobodyIsZero DEF PathInv
      <3> QED BY <1>8, <3>1, <3>2
    <2> QED BY <1>2, <2>1, <2>2
  <1> HIDE DEF e
  <1>10. PICK i \in {0, e} :
          /\ Step(i) /\ (i = 0 => Quiet)
          /\ i = e => /\ m.from = "http" /\ Ends(i) /\ ai' = ai
                      /\ \/ reqs'[i].stage = "poll" /\ reqs'[i].status = reqs[i].status
                         \/ /\ reqs'[i].stage = "answered" /\ reqs'[i].said = said
                            /\ reqs'[i].status \in {200, 503}
    BY <1>9
  <1>11. Places(i, e, op)
    BY <1>2, <1>6, <1>8, <1>10 DEF Places, e
  <1>12. Records(i, e, op)
    <2>1. i \in DOMAIN reqs => i = e
      BY <1>10, Ids DEF PathInv
    <2> QED BY <1>4, <1>7, <1>10, <2>1 DEF Records
  <1>13. \A k \in DOMAIN engineQ' :
           /\ \E l \in DOMAIN engineQ : engineQ'[k] = engineQ[l]
           /\ engineQ'[k].from = "http" => engineQ'[k].id # e
    <2> SUFFICES ASSUME NEW k \in DOMAIN engineQ', engineQ'[k].from = "http", engineQ'[k].id = e
                 PROVE  FALSE
      BY <1>1
    <2>1. 1 = k + 1
      BY <1>1, CallsApart DEF PathInv, e
    <2> QED BY <1>1, <2>1
  <1>14. \A k \in DOMAIN aiQ : aiQ[k] # e
    BY <1>1, <1>2 DEF PathInv, AiOwn, ForAi, AiAsks, e
  <1>15. i \in DOMAIN reqs /\ reqs'[i].stage = "answered" /\ reqs'[i].said = "error" =>
           Did(i)' \subseteq MayLeave(i)
    <2> SUFFICES ASSUME i \in DOMAIN reqs, reqs'[i].stage = "answered", reqs'[i].said = "error"
                 PROVE  Did(i)' \subseteq MayLeave(i)
      OBVIOUS
    <2>1. i = e /\ m.from = "http" /\ said = "error"
      BY <1>10, Ids DEF PathInv
    <2>2. Did(e) \subseteq {LocalOf(e)} \ {Nothing}
      BY <1>1, <2>1 DEF PathInv, DoneInv, DoneCalls, e
    <2>3. m.call = CallOf(e) /\ CallOf(e).to = "engine"
      BY <1>2, <2>1 DEF e
    <2>4. LocalOf(e) = Nothing
      BY <1>3, <1>8, <2>1, <2>3, BegunIsUnderstood DEF PathInv
    <2>5. Did(i)' \subseteq Did(i)
      BY <1>6, <2>1, DidGrows
    <2> QED BY <2>1, <2>2, <2>4, <2>5
  <1>16. \/ ai'.id = 0
         \/ /\ ai'.id = ai.id
            /\ ai'.todo \in Failing =>
                 /\ ai.todo \in Failing
                 /\ op # Nothing /\ e = ai.id => op \in MayLeave(ai.id)
            /\ ai'.todo = <<"DetachSHM", "fail">> => ai.todo = ai'.todo
    <2>1. /\ ai'.id = ai.id
          /\ ai'.todo \in Failing => ai.todo \in Failing
          /\ ai'.todo = <<"DetachSHM", "fail">> => ai.todo = ai'.todo
      <3>1. AiOwn
        BY DEF PathInv
      <3>2. ai' = ai \/ ai' = AiGoesOn(m.id)
        BY <1>3
      <3> QED BY <3>1, <3>2, GoesOnIs
    <2>2. ASSUME ai.todo \in Failing, op # Nothing, e = ai.id PROVE op \in MayLeave(ai.id)
      <3>1. op = Does(m.call) /\ m.id = ai.id /\ ai.id # 0
        BY <1>8, <2>2 DEF e
      <3> QED BY <1>1, <2>2, <3>1 DEF PathInv, DoneInv, DoneFailing
    <2> QED BY <2>1, <2>2
  <1> HIDE DEF op
  <1>17. DoneIds' /\ DoneErrors'
    BY <1>11, <1>15, DoneIdsKept, DoneErrorsKept DEF PathInv, DoneInv
  <1>18. DoneCalls'
    BY <1>11, <1>13, DoneCallsKept DEF PathInv, DoneInv
  <1>19. DoneWaiting'
    BY <1>4, <1>11, <1>14, DoneWaitingKept DEF PathInv, DoneInv
  <1>20. DoneFailing'
    BY <1>11, <1>13, <1>16, DoneFailingKept DEF PathInv, DoneInv
  <1>21. LogInv => LogInv'
    BY <1>11, <1>12, LoggedKept DEF PathInv, DoneInv
  <1>22. AckIsFinal => AckIsFinal'
    <2>1. ASSUME i \in DOMAIN reqs, reqs'[i].said = "done"
          PROVE  /\ Ends(i)
                 /\ \A k \in DOMAIN engineQ' : engineQ'[k].from # "ai" =>
                      ~ReceivedBefore(engineQ'[k].id, i)
      <3>1. i = e /\ m.from = "http" /\ Ends(i)
        BY <1>10, <2>1, Ids DEF PathInv
      <3>2. ASSUME NEW k \in DOMAIN engineQ', engineQ'[k].from # "ai",
                   ReceivedBefore(engineQ'[k].id, i)
            PROVE  FALSE
        <4>1. k + 1 \in DOMAIN engineQ /\ 1 < k + 1 /\ engineQ'[k] = engineQ[k + 1]
          BY <1>1, <3>2
        <4>2. engineQ[k + 1].from = "http"
          BY <3>2, <4>1 DEF PathInv, QueueInv
        <4>3. ReceivedBefore(e, engineQ[k + 1].id)
          BY <1>1, <3>1, <4>1, <4>2 DEF PathInv, QueueInv, e
        <4> QED BY <3>1, <3>2, <4>1, <4>3, BeforeOnce DEF PathInv
      <3> QED BY <3>1, <3>2
    <2> QED BY <1>10, <1>13, <2>1, AckKept DEF PathInv
  <1>23. RequestInv'
    BY <1>10, StepKeeps DEF PathInv
  <1> QED BY <1>5, <1>11, <1>17, <1>18, <1>19, <1>20, <1>21, <1>22, <1>23
          DEF Good, PathInv, DoneInv

\* The steps of the AI engine and the crashes.
LEMMA OtherGood ==
  ASSUME PathInv, QueueInv', AiOwn', AiAsks', DoneFailing', NEW i, NEW e, NEW op,
         Places(i, e, op), Records(i, e, op),
         \A k \in DOMAIN engineQ' : engineQ'[k].from # "ai" =>
           /\ \E l \in DOMAIN engineQ : engineQ'[k] = engineQ[l]
           /\ op # Nothing => engineQ'[k].id # e,
         \A k \in DOMAIN aiQ' : /\ \E l \in DOMAIN aiQ : aiQ'[k] = aiQ[l]
                                /\ op # Nothing => aiQ'[k] # e,
         i \in DOMAIN reqs /\ reqs'[i].stage = "answered" /\ reqs'[i].said = "error" =>
           Did(i)' \subseteq MayLeave(i),
         i \in DOMAIN reqs /\ reqs'[i].said = "done" => CallOf(i).to # "engine"
  PROVE  Good
  <1>1. RequestInv /\ QueueInv /\ AiOwn /\ DoneInv /\ Step(i)
    BY DEF PathInv, Places
  <1>2. RequestInv'
    BY <1>1, StepKeeps
  <1>3. DoneIds' /\ DoneErrors'
    BY <1>1, DoneIdsKept, DoneErrorsKept DEF DoneInv
  <1>4. DoneCalls'
    BY <1>1, DoneCallsKept DEF DoneInv
  <1>5. DoneWaiting'
    BY <1>1, DoneWaitingKept DEF DoneInv
  <1>6. LogInv => LogInv'
    BY <1>1, LoggedKept DEF DoneInv
  <1>7. AckIsFinal => AckIsFinal'
    BY <1>1, AckKept
  <1> QED BY <1>2, <1>3, <1>4, <1>5, <1>6, <1>7 DEF Good, PathInv, DoneInv

LEMMA TakesGood ==
  ASSUME PathInv, AiTakes
  PROVE  Good
  <1>1. /\ QueueInv' /\ AiOwn' /\ AiAsks' /\ Step(0)
        /\ ai'.id = aiQ[1] /\ ai'.todo \in Steps(aiQ[1]) /\ ~ai'.asked /\ 1 \in DOMAIN aiQ
        /\ \A k \in DOMAIN aiQ' : k + 1 \in DOMAIN aiQ /\ aiQ'[k] = aiQ[k + 1]
    BY TakesPath DEF PathInv
  <1>2. UNCHANGED <<engineQ, effects, audit, reqs>>
    BY DEF AiTakes
  <1>3. 0 \notin DOMAIN reqs
    BY Ids DEF PathInv
  <1>4. Places(0, 0, Nothing) /\ Records(0, 0, Nothing)
    BY <1>1, <1>2, <1>3, NothingPlaced DEF PathInv, DoneInv, Records
  <1>5. DoneFailing'
    <2> SUFFICES ASSUME NEW j, j = aiQ[1], j = ai'.id
                 PROVE  /\ Did(j)' \subseteq MayLeave(j)'
                        /\ \A k \in DOMAIN engineQ' :
                             engineQ'[k].id = j => Does(engineQ[k].call)' \in MayLeave(j)'
                        /\ ai'.todo = <<"DetachSHM", "fail">> => CallOf(j)'.method = "LoadModel"
      BY <1>1 DEF DoneFailing
    <2>1. Did(j) = {} /\ ForAi(j)
      BY <1>1 DEF PathInv, DoneInv, DoneWaiting, AiOwn
    <2>2. Did(j)' = {}
      BY <1>2, <2>1 DEF Did
    <2>3. \A k \in DOMAIN engineQ' : engineQ'[k].id # j
      <3> SUFFICES ASSUME NEW k \in DOMAIN engineQ, engineQ[k].id = j PROVE FALSE
        BY <1>2
      <3>1. engineQ[k].from = "ai"
        BY <2>1 DEF PathInv, QueueInv, ForAi
      <3> QED BY <1>1, <3>1 DEF PathInv, AiAsks
    <2>4. ai'.todo = <<"DetachSHM", "fail">> => CallOf(j).method = "LoadModel"
      BY <1>1, StepsAre
    <2>5. CallOf(j)' = CallOf(j)
      BY <1>2 DEF CallOf
    <2> QED BY <2>2, <2>3, <2>4, <2>5
  <1> QED BY <1>1, <1>2, <1>3, <1>4, <1>5, OtherGood

LEMMA CallsGood ==
  ASSUME PathInv, AiCalls
  PROVE  Good
  <1>1. /\ QueueInv' /\ AiOwn' /\ AiAsks' /\ Step(0)
        /\ ai.id # 0 /\ ai'.id = ai.id /\ aiQ' = aiQ
        /\ ai'.todo \in {ai.todo, Tail(ai.todo)} /\ ai.todo \notin {<<>>, <<"fail">>}
    BY CallsPath DEF PathInv
  <1>2. UNCHANGED <<effects, audit, reqs>>
    BY DEF AiCalls
  <1>3. 0 \notin DOMAIN reqs
    BY Ids DEF PathInv
  <1>4. Places(0, 0, Nothing) /\ Records(0, 0, Nothing)
    BY <1>1, <1>2, <1>3, NothingPlaced DEF PathInv, DoneInv, Records
  <1>5. /\ ai'.todo \in Failing => ai.todo = <<"DetachSHM", "fail">> /\ ai.todo \in Failing
        /\ ai'.todo = <<"DetachSHM", "fail">> => ai.todo = ai'.todo
    <2>1. ai.todo \in Todos
      BY DEF PathInv, AiOwn
    <2> QED BY <1>1, <2>1, TodoTail DEF Failing
  <1>6. ASSUME NEW k \in DOMAIN engineQ'
        PROVE  \/ \E l \in DOMAIN engineQ : engineQ'[k] = engineQ[l]
               \/ /\ engineQ'[k].from = "ai"
                  /\ ai'.todo \in Failing => Does(engineQ'[k].call) \in MayLeave(ai.id)
    <2> DEFINE m == [id |-> ai.id, from |-> "ai",
                     call |-> BusCall("engine", Head(ai.todo), {"lens"}, Blank)]
    <2>1. CASE engineQ' = engineQ
      BY <2>1
    <2>2. CASE engineQ' = Append(engineQ, m)
      <3>1. (\E l \in DOMAIN engineQ : engineQ'[k] = engineQ[l]) \/ engineQ'[k] = m
        <4> HIDE DEF m
        <4> QED BY <2>2, Appended DEF PathInv, QueueInv
      <3>2. ASSUME ai'.todo \in Failing PROVE Does(m.call) \in MayLeave(ai.id)
        <4>1. ai.todo = <<"DetachSHM", "fail">> /\ ai.todo \in Failing
          BY <1>5, <3>2
        <4>2. CallOf(ai.id).method = "LoadModel"
          BY <1>1, <4>1 DEF PathInv, DoneInv, DoneFailing
        <4>3. Head(ai.todo) = "DetachSHM"
          BY <4>1
        <4>4. Does(m.call) = <<"engine", "DetachSHM", Blank>>
          BY <4>3, BusCallFields DEF Does
        <4> QED BY <4>2, <4>4 DEF MayLeave, Engine
      <3> QED BY <3>1, <3>2
    <2>3. engineQ' = engineQ \/ engineQ' = Append(engineQ, m)
      BY CallsPath DEF PathInv
    <2> QED BY <2>1, <2>2, <2>3
  <1>7. DoneFailing'
    BY <1>1, <1>4, <1>5, <1>6, DoneFailingKept DEF PathInv, DoneInv
  <1> QED BY <1>1, <1>3, <1>4, <1>6, <1>7, OtherGood

LEMMA GivesUpGood ==
  ASSUME PathInv, AiCallTimesOut
  PROVE  Good
  <1>1. QueueInv' /\ AiOwn' /\ AiAsks' /\ Step(0)
    BY GivesUpPath DEF PathInv
  <1>2. UNCHANGED <<effects, audit, aiQ, engineQ>> /\ ai' = AiGoesOn(ai.id)
    BY DEF AiCallTimesOut
  <1>3. 0 \notin DOMAIN reqs
    BY Ids DEF PathInv
  <1>4. Places(0, 0, Nothing) /\ Records(0, 0, Nothing)
    BY <1>1, <1>2, <1>3, NothingPlaced DEF PathInv, DoneInv, Records
  <1>5. /\ ai'.id = ai.id
        /\ ai'.todo \in Failing => ai.todo \in Failing
        /\ ai'.todo = <<"DetachSHM", "fail">> => ai' = ai
    BY <1>2, GoesOnIs DEF PathInv
  <1>6. DoneFailing'
    <2>1. \A k \in DOMAIN engineQ' : \E l \in DOMAIN engineQ : engineQ'[k] = engineQ[l]
      BY <1>2
    <2> QED BY <1>4, <1>5, <2>1, DoneFailingKept DEF PathInv, DoneInv
  <1> QED BY <1>1, <1>2, <1>3, <1>4, <1>6, OtherGood

LEMMA FinishesGood ==
  ASSUME PathInv, AiFinishes
  PROVE  Good
  <1>1. QueueInv' /\ AiOwn' /\ AiAsks' /\ ai.id \in DOMAIN reqs
    BY FinishesPath DEF PathInv
  <1>2. /\ UNCHANGED <<audit, aiQ, engineQ, session, received>> /\ ai' = Idle /\ ai.id # 0
        /\ ai.todo \in {<<>>, <<"fail">>}
    BY DEF AiFinishes
  <1> DEFINE e == ai.id
  <1>3. Taken(e) /\ Open(e) /\ CallOf(e).to = "ai"
    BY <1>2 DEF PathInv, AiOwn, ForAi
  <1>4. PICK op, said :
          /\ effects' = effects \o Effect(e, op) /\ Replied(e, said)
          /\ op = Nothing \/ op = Does(CallOf(e)) \/ op = Ai("snapshots")
          /\ said \in {"done", "error"}
          /\ said = "error" => /\ ai.todo = <<"fail">>
                               /\ op # Nothing => op \in MayLeave(e)
    <2>1. CASE ai.todo = <<>>
      <3>1. effects' = effects \o Effect(e, Does(CallOf(e))) /\ Replied(e, "done")
        BY <2>1 DEF AiFinishes
      <3> QED BY <3>1
    <2>2. CASE ai.todo = <<"fail">>
      <3>1. effects' = effects \o Partly(e) /\ Replied(e, "error")
        BY <2>2 DEF AiFinishes
      <3>2. CASE CallOf(e).method = "SetAIConfig" /\ "snapshots" \in CallOf(e).keys
        <4>1. Partly(e) = Effect(e, Ai("snapshots"))
          BY <3>2 DEF Partly
        <4>2. Ai("snapshots") \in MayLeave(e)
          BY <3>2 DEF MayLeave
        <4> QED BY <2>2, <3>1, <4>1, <4>2
      <3>3. CASE ~(CallOf(e).method = "SetAIConfig" /\ "snapshots" \in CallOf(e).keys)
        <4>1. Partly(e) = Effect(e, Nothing)
          BY <3>3 DEF Partly, Effect
        <4> QED BY <2>2, <3>1, <4>1
      <3> QED BY <3>2, <3>3
    <2> QED BY <1>2, <2>1, <2>2
  <1>5. ~OnRecord(op)
    <2>1. Ai("snapshots")[1] = "ai"
      BY DEF Ai
    <2>2. ~OnRecord(Ai("snapshots"))
      BY <2>1, OnRecordAre
    <2> QED BY <1>3, <1>4, <2>2, DoesApart, OnRecordAre
  <1> HIDE DEF e
  <1>6. Adds(e, op)
    BY <1>4, EffectAdded DEF PathInv, DoneInv
  <1>7. PICK i \in {0, e} :
          /\ Step(i)
          /\ i = e => \/ reqs'[i].stage = "poll" /\ reqs'[i].status = reqs[i].status
                      \/ /\ reqs'[i].stage = "answered" /\ reqs'[i].said = said
                         /\ reqs'[i].status \in {200, 503}
    <2>1. e \in DOMAIN reqs /\ e # 0
      BY <1>1, <1>2 DEF e
    <2>2. \/ Quiet
          \/ /\ Ends(e)
             /\ \/ reqs'[e].stage = "poll" /\ reqs'[e].status = reqs[e].status
                \/ /\ reqs'[e].stage = "answered" /\ reqs'[e].said = said
                   /\ reqs'[e].status \in {200, 503}
      BY <1>2, <1>4, <2>1, RepliedDoes DEF PathInv
    <2>3. (Quiet => Step(0)) /\ (Ends(e) => Step(e))
      BY NobodyIsZero DEF PathInv, Step
    <2> QED BY <2>1, <2>2, <2>3
  <1>8. Places(i, e, op)
    BY <1>1, <1>3, <1>6, <1>7 DEF Places, e
  <1>9. i \in DOMAIN reqs => i = e
    BY <1>7, Ids DEF PathInv
  <1>10. Records(i, e, op)
    BY <1>2, <1>5, <1>7, <1>9 DEF Records
  <1>11. \A k \in DOMAIN engineQ : engineQ[k].from # "ai" => engineQ[k].id # e
    BY <1>3 DEF PathInv, QueueInv
  <1>12. \A k \in DOMAIN aiQ : aiQ[k] # e
    BY DEF PathInv, AiOwn, e
  <1>13. i \in DOMAIN reqs /\ reqs'[i].stage = "answered" /\ reqs'[i].said = "error" =>
           Did(i)' \subseteq MayLeave(i)
    <2> SUFFICES ASSUME i = e, reqs'[i].stage = "answered", reqs'[i].said = "error"
                 PROVE  Did(i)' \subseteq MayLeave(i)
      BY <1>9
    <2>1. ai.todo = <<"fail">> /\ (op # Nothing => op \in MayLeave(e))
      BY <1>4, <1>7
    <2>2. Did(e) \subseteq MayLeave(e)
      BY <1>2, <2>1 DEF PathInv, DoneInv, DoneFailing, Failing, e
    <2>3. Adds(i, op)
      BY <1>6
    <2>4. Did(i)' \subseteq Did(i) \cup ({op} \ {Nothing})
      BY <2>3, DidGrows
    <2> QED BY <2>1, <2>2, <2>4
  <1>14. DoneFailing'
    <2>1. ai'.id = 0
      BY <1>2 DEF Idle
    <2> QED BY <2>1 DEF DoneFailing
  <1> QED BY <1>1, <1>2, <1>3, <1>8, <1>9, <1>10, <1>11, <1>12, <1>13, <1>14, OtherGood

LEMMA EngineDiesGood ==
  ASSUME PathInv, EngineDies
  PROVE  Good
  <1>1. QueueInv' /\ AiOwn' /\ AiAsks' /\ engineQ' = <<>>
    BY EngineDiesPath DEF PathInv
  <1>2. PICK i : Step(i) /\ (i # 0 => Ends(i) /\ Unsaid(i)) /\ (i = 0 => Quiet)
    BY EngineDiesPath DEF PathInv
  <1>3. UNCHANGED <<session, received, aiQ, audit>> /\ ai' = AiGoesOn(ai.id)
    BY DEF EngineDies
  <1>4. i \in DOMAIN reqs => Ends(i) /\ Unsaid(i)
    BY <1>2, Ids DEF PathInv
  <1>5. PICK e, op :
          /\ Adds(e, op) /\ ~OnRecord(op)
          /\ op # Nothing =>
               /\ Taken(e) /\ Open(e) /\ e \in DOMAIN reqs
               /\ \A k \in DOMAIN aiQ : aiQ[k] # e
               /\ ai.todo \in Failing /\ e = ai.id => op \in MayLeave(ai.id)
    <2>1. CASE effects' = effects
      <3>1. Adds(0, Nothing) /\ ~OnRecord(Nothing)
        BY <2>1, NothingAdded, OnRecordAre DEF PathInv, DoneInv
      <3> QED BY <3>1
    <2>2. ASSUME engineQ # <<>>, NEW m, m = Head(engineQ),
                 effects' = effects \o Effect(m.id, Does(m.call))
          PROVE  /\ Adds(m.id, Does(m.call)) /\ ~OnRecord(Does(m.call))
                 /\ Taken(m.id) /\ Open(m.id) /\ m.id \in DOMAIN reqs
                 /\ \A k \in DOMAIN aiQ : aiQ[k] # m.id
                 /\ ai.todo \in Failing /\ m.id = ai.id => Does(m.call) \in MayLeave(ai.id)
      <3>1. 1 \in DOMAIN engineQ /\ m = engineQ[1]
        BY <2>2, HeadIs DEF PathInv, QueueInv
      <3>2. /\ Taken(m.id) /\ Open(m.id) /\ m.call.to = "engine"
            /\ m.from \in {"http", "ai"} /\ (m.from = "http" => m.call = CallOf(m.id))
        BY <3>1 DEF PathInv, QueueInv
      <3>3. m.id \in DOMAIN reqs /\ m.id # 0
        BY <3>2, NobodyIsZero DEF PathInv, RequestInv, Taken
      <3>4. \A k \in DOMAIN aiQ : aiQ[k] # m.id
        BY <3>1, <3>2 DEF PathInv, AiOwn, ForAi, AiAsks
      <3>5. ai.todo \in Failing /\ m.id = ai.id => Does(m.call) \in MayLeave(ai.id)
        BY <3>1, <3>3 DEF PathInv, DoneInv, DoneFailing
      <3>6. ~OnRecord(Does(m.call))
        BY <3>2, DoesApart
      <3>7. Adds(m.id, Does(m.call))
        BY <2>2, EffectAdded DEF PathInv, DoneInv
      <3> QED BY <3>2, <3>3, <3>4, <3>5, <3>6, <3>7
    <2>3. \/ effects' = effects
          \/ /\ engineQ # <<>>
             /\ effects' = effects \o Effect(Head(engineQ).id, Does(Head(engineQ).call))
      BY DEF EngineDies
    <2>4. CASE engineQ # <<>>
               /\ effects' = effects \o Effect(Head(engineQ).id, Does(Head(engineQ).call))
      <3>1. PICK m : m = Head(engineQ)
        OBVIOUS
      <3> QED BY <2>2, <2>4, <3>1
    <2> QED BY <2>1, <2>3, <2>4
  <1>6. Places(i, e, op)
    BY <1>2, <1>5 DEF Places
  <1>7. Records(i, e, op)
    <2>1. i \in DOMAIN reqs => \/ reqs'[i].status = reqs[i].status
                              \/ reqs'[i].status # 403
      BY <1>4 DEF Unsaid
    <2> QED BY <1>3, <1>5, <2>1 DEF Records
  <1>8. \A k \in DOMAIN engineQ' : FALSE
    BY <1>1
  <1>9. DoneFailing'
    <2>1. /\ ai'.id = ai.id
          /\ ai'.todo \in Failing => ai.todo \in Failing
          /\ ai'.todo = <<"DetachSHM", "fail">> => ai' = ai
      BY <1>3, GoesOnIs DEF PathInv
    <2> QED BY <1>5, <1>6, <1>8, <2>1, DoneFailingKept DEF PathInv, DoneInv
  <1>10. i \in DOMAIN reqs => /\ reqs'[i].said # "done"
                              /\ reqs'[i].stage = "answered" => reqs'[i].said # "error"
    <2>1. i \in DOMAIN reqs /\ reqs'[i].stage = "poll" => reqs'[i].said = Blank
      BY <1>4 DEF Ends, Moves, Shape
    <2> QED BY <1>4, <2>1, BlankApart DEF Unsaid
  <1> QED BY <1>1, <1>3, <1>5, <1>6, <1>7, <1>8, <1>9, <1>10, OtherGood

LEMMA AiDiesGood ==
  ASSUME PathInv, AiDies
  PROVE  Good
  <1>1. QueueInv' /\ AiOwn' /\ AiAsks' /\ ai'.id = 0 /\ aiQ' = <<>>
    BY AiDiesPath DEF PathInv
  <1>2. PICK i : Step(i) /\ (i # 0 => Ends(i) /\ Unsaid(i)) /\ (i = 0 => Quiet)
    BY AiDiesPath DEF PathInv
  <1>3. UNCHANGED <<session, received, engineQ, effects, audit>>
    BY DEF AiDies
  <1>4. i \in DOMAIN reqs => Ends(i) /\ Unsaid(i)
    BY <1>2, Ids DEF PathInv
  <1>5. Places(i, i, Nothing) /\ ~OnRecord(Nothing)
    BY <1>2, <1>3, NothingPlaced DEF PathInv, DoneInv
  <1>6. Records(i, i, Nothing)
    <2>1. i \in DOMAIN reqs => \/ reqs'[i].status = reqs[i].status
                              \/ reqs'[i].status # 403
      BY <1>4 DEF Unsaid
    <2> QED BY <1>3, <1>5, <2>1 DEF Records
  <1>7. DoneFailing'
    BY <1>1 DEF DoneFailing
  <1>8. \A k \in DOMAIN aiQ' : FALSE
    BY <1>1
  <1>9. i \in DOMAIN reqs => /\ reqs'[i].said # "done"
                             /\ reqs'[i].stage = "answered" => reqs'[i].said # "error"
    <2>1. i \in DOMAIN reqs /\ reqs'[i].stage = "poll" => reqs'[i].said = Blank
      BY <1>4 DEF Ends, Moves, Shape
    <2> QED BY <1>4, <2>1, BlankApart DEF Unsaid
  <1> QED BY <1>1, <1>3, <1>5, <1>6, <1>7, <1>8, <1>9, OtherGood

----------------------------------------------------------------------------
(* The theorems *)

LEMMA InitGood ==
  ASSUME Init
  PROVE  PathInv /\ LogInv /\ AckIsFinal
  <1>1. /\ session \in [Clients -> Roles] /\ reqs = <<>> /\ received = <<>>
        /\ engineQ = <<>> /\ aiQ = <<>> /\ effects = <<>>
        /\ ai = [id |-> 0, todo |-> <<>>, asked |-> FALSE]
    BY DEF Init, Idle
  <1>2. /\ DOMAIN reqs = {} /\ DOMAIN received = {} /\ DOMAIN engineQ = {}
        /\ DOMAIN aiQ = {} /\ DOMAIN effects = {}
    BY <1>1
  <1>3. IsSeq(reqs) /\ IsSeq(engineQ) /\ IsSeq(effects)
    BY <1>1 DEF IsSeq
  <1>4. received \in Seq(Nat) /\ aiQ \in Seq(Nat)
    BY <1>1
  <1>5. RequestInv
    BY <1>1, <1>2, <1>3, <1>4 DEF RequestInv, Busy
  <1>6. QueueInv /\ AiAsks
    BY <1>2, <1>3 DEF QueueInv, AiAsks
  <1>7. AiOwn
    BY <1>1, <1>2, <1>4 DEF AiOwn, Todos
  <1>8. DoneInv
    <2>1. DoneIds /\ DoneCalls /\ DoneWaiting /\ DoneErrors
      BY <1>2, <1>3 DEF DoneIds, DoneCalls, DoneWaiting, DoneErrors
    <2>2. DoneFailing
      BY <1>1 DEF DoneFailing
    <2> QED BY <2>1, <2>2 DEF DoneInv
  <1>9. audit = {}
    BY DEF Init
  <1>10. LogInv /\ AckIsFinal
    BY <1>2, <1>9 DEF LogInv, LogAgrees, AckIsFinal
  <1> QED BY <1>5, <1>6, <1>7, <1>8, <1>10 DEF PathInv

LEMMA NextGood ==
  ASSUME PathInv, Next
  PROVE  Good
  <1>1. ASSUME NEW c \in Clients, GiveUp(c) PROVE Good
    BY <1>1, QuietGood DEF GiveUp, Quiet
  <1>2. ASSUME NEW c \in Clients, NEW cmd \in Used, Send(c, cmd) PROVE Good
    BY <1>2, SendGood
  <1>3. ASSUME NEW i \in DOMAIN reqs,
               Refuse(i) \/ ServeLocal(i) \/ Forward(i) \/ PollEnds(i) \/ CallTimesOut(i)
        PROVE  Good
    BY <1>3, RefuseGood, ServeGood, ForwardGood, PollGood, TimeoutGood
  <1>4. CASE EngineHandles
    BY <1>4, HandleGood
  <1>5. CASE AiTakes \/ AiCalls \/ AiCallTimesOut \/ AiFinishes
    BY <1>5, TakesGood, CallsGood, GivesUpGood, FinishesGood
  <1>6. CASE EngineDies \/ AiDies
    BY <1>6, EngineDiesGood, AiDiesGood
  <1>7. ASSUME NEW s \in Services, Starts(s) PROVE Good
    BY <1>7, QuietGood DEF Starts, Quiet
  <1> QED BY <1>1, <1>2, <1>3, <1>4, <1>5, <1>6, <1>7 DEF Next, Loop, Timeouts

\* A step that changes none of the variables.
LEMMA StutterGood ==
  ASSUME PathInv, UNCHANGED vars
  PROVE  Good
  BY QuietGood DEF vars, Quiet

(* The requests, the calls under way and what took place go together as    *)
(* the parts of PathInv say, whatever is asked, times out or dies.         *)
THEOREM PathIsInvariant == Spec => []PathInv
  <1>1. Init => PathInv
    BY InitGood
  <1>2. PathInv /\ [Next]_vars => PathInv'
    BY NextGood, StutterGood DEF Good
  <1> QED BY <1>1, <1>2, PTL DEF Spec

(* The engine takes its calls in the order the control plane sent them, so *)
(* no older command undoes one that was acknowledged, and only the AI      *)
(* engine's own calls come later (ControlAssumption is all that is asked   *)
(* of the constants).                                                      *)
THEOREM AcknowledgedIsFinal == Spec => []AckIsFinal
  <1>1. Init => PathInv /\ AckIsFinal
    BY InitGood
  <1>2. PathInv /\ AckIsFinal /\ [Next]_vars => PathInv' /\ AckIsFinal'
    BY NextGood, StutterGood DEF Good
  <1> QED BY <1>1, <1>2, PTL DEF Spec

(* The activity log, the answers and what the control plane did agree: but *)
(* for the three handlers that write nothing, what was done has a line that*)
(* says so and names who asked, as every request refused for its role has; *)
(* no line that says a thing was done is of a request answered with an     *)
(* error, and no line of a failure is of one answered otherwise (the calls *)
(* of activity_log_event in http_server.c, auth.c and device_controls.c).  *)
THEOREM TheLogAgrees == Spec => []LogAgrees
  <1>1. Init => PathInv /\ LogInv
    BY InitGood
  <1>2. PathInv /\ LogInv /\ [Next]_vars => PathInv' /\ LogInv'
    BY NextGood, StutterGood DEF Good
  <1>3. LogInv => LogAgrees
    BY DEF LogInv
  <1> QED BY <1>1, <1>2, <1>3, PTL DEF Spec

(* A request answered with an error has done nothing and has nothing under *)
(* way, but for what a method of the AI engine leaves (ai_engine.py).      *)
THEOREM ErrorsAreErrors == Spec => []FailureMeansUndone
  <1>1. ASSUME PathInv PROVE FailureMeansUndone
    <2> SUFFICES ASSUME NEW i \in DOMAIN reqs, reqs[i].stage = "answered", reqs[i].said = "error"
                 PROVE  /\ Did(i) \subseteq MayLeave(i)
                        /\ \A k \in DOMAIN engineQ : engineQ[k].id # i
                        /\ ~Contains(aiQ, i) /\ ai.id # i
      BY DEF FailureMeansUndone
    <2>1. ~Open(i) /\ i # 0
      BY <1>1, Ids DEF PathInv, Open, Busy
    <2>2. Did(i) \subseteq MayLeave(i)
      BY <1>1 DEF PathInv, DoneInv, DoneErrors
    <2>3. \A k \in DOMAIN engineQ : engineQ[k].id # i
      BY <1>1, <2>1 DEF PathInv, QueueInv
    <2>4. ~Contains(aiQ, i)
      <3>1. aiQ \in Seq(Nat) /\ \A k \in DOMAIN aiQ : aiQ[k] # i
        BY <1>1, <2>1 DEF PathInv, AiOwn, ForAi
      <3> QED BY <3>1 DEF Contains
    <2>5. ai.id # i
      BY <1>1, <2>1 DEF PathInv, AiOwn, ForAi
    <2> QED BY <2>2, <2>3, <2>4, <2>5
  <1> QED BY <1>1, PathIsInvariant, PTL

(* After a logout nothing begins for that client: whatever takes place is  *)
(* for a request taken just now, and then checked against the session, or  *)
(* for one left to its service, and then answered without an outcome.      *)
THEOREM NothingAfterLogout == Spec => LogoutStopsCommands
  <1>1. ASSUME PathInv, [Next]_vars
        PROVE  [\A k \in DOMAIN effects' \ DOMAIN effects :
                  LET e == effects'[k] IN
                  session[reqs[e.id].by] = "none" /\ e.op \notin Public =>
                    reqs[e.id].stage = "answered" /\ reqs[e.id].said \notin {"done", "error"}]_vars
    <2> SUFFICES ASSUME NEW k \in DOMAIN effects' \ DOMAIN effects, NEW e, NEW op,
                        e = effects'[k].id, op = effects'[k].op,
                        session[reqs[e].by] = "none", op \notin Public
                 PROVE  reqs[e].stage = "answered" /\ reqs[e].said \notin {"done", "error"}
      OBVIOUS
    <2>1. PICK i, f, o : Places(i, f, o)
      BY <1>1, NextGood, StutterGood DEF Good
    <2>2. f = e /\ o = op /\ op # Nothing
      BY <2>1 DEF Places, Adds
    <2>3. e \in DOMAIN reqs /\ Open(e)
      BY <2>1, <2>2 DEF Places, RoleOf
    <2>4. ~Busy(e)
      BY <1>1, <2>3 DEF PathInv, RequestInv
    <2> QED BY <2>3, <2>4 DEF Open
  <1> QED BY <1>1, PathIsInvariant, PTL DEF Spec, LogoutStopsCommands

----------------------------------------------------------------------------
(* CameraServer: the types *)

ThreadTyped(w) ==
  /\ w \in [at : Stages, user : People \cup {Nil}, copy : PendingEntry \cup {Nil}]
  /\ w.at # "rest" => w.user \in People
  /\ w.at \in {"set", "verified", "issue"} => w.copy # Nil

LEMMA ThreadsEach ==
  ThreadsTyped <=> /\ DOMAIN work = Conns /\ work = [c \in Conns |-> work[c]]
                   /\ \A c \in Conns : ThreadTyped(work[c])
  BY DEF ThreadsTyped, ThreadTyped

\* A thread that stops anew leaves the others typed.
LEMMA GoesTyped ==
  ASSUME ThreadsTyped, NEW c \in Conns, NEW at, NEW u, NEW copy, Goes(c, at, u, copy),
         ThreadTyped([at |-> at, user |-> u, copy |-> copy])
  PROVE  ThreadsTyped'
  BY DEF ThreadsTyped, ThreadTyped, Goes

LEMMA RestTyped == ThreadTyped(AtRest)
  BY DEF ThreadTyped, AtRest, Stages

LEMMA RepliesTyped ==
  ASSUME ThreadsTyped, NEW c \in Conns, Replies(c)
  PROVE  ThreadsTyped'
  BY RestTyped DEF ThreadsTyped, ThreadTyped, Replies

LEMMA EntryTyped ==
  ASSUME CameraTypeOK, NEW u \in People, HasAccount(u), NEW reset \in BOOLEAN, NEW proved \in BOOLEAN
  PROVE  NewEntry(u, reset, proved) \in PendingEntry
  <1>1. rows[u] \in UserRecord
    BY DEF CameraTypeOK, TablesTyped, HasAccount
  <1>2. CodeTtl \in 0..CodeTtl
    BY CameraAssumption
  <1> QED BY <1>1, <1>2 DEF NewEntry, PendingEntry, UserRecord

LEMMA StagesAre ==
  /\ {"rest", "set", "verified", "issue", "reset", "stored", "insert", "stopping"} \subseteq Stages
  /\ Administering \subseteq Stages
  /\ \A a \in Administering : a \notin {"rest", "set", "verified", "issue", "reset", "stored",
                                       "insert", "stopping"}
  BY DEF Stages, Administering, Operating, Viewing

\* Only the threads, the proofs and the overlaps change when a request begins.
LEMMA BeginsTyped ==
  ASSUME CameraTypeOK, NEW c \in Conns, NEW u \in People, NEW at, NEW copy, Begins(c, at, u, copy),
         ThreadTyped([at |-> at, user |-> u, copy |-> copy]), proven' \in [People -> BOOLEAN]
  PROVE  CameraTypeOK'
  <1>1. ThreadsTyped'
    BY GoesTyped DEF CameraTypeOK, Begins
  <1>2. raced' \in [People -> BOOLEAN]
    BY DEF CameraTypeOK, Begins
  <1>3. TablesTyped' /\ ChildrenTyped'
    BY DEF CameraTypeOK, Begins, TablesTyped, ChildrenTyped, streamState
  <1> QED BY <1>1, <1>2, <1>3 DEF CameraTypeOK

LEMMA FoundTyped ==
  ASSUME CameraTypeOK, NEW u \in People, PendingFound(u)
  PROVE  pendings[u] \in PendingEntry
  BY DEF CameraTypeOK, TablesTyped, PendingFound

LEMMA ProvesTyped ==
  ASSUME CameraTypeOK, NEW u \in People, Proves(u) \/ UNCHANGED proven
  PROVE  proven' \in [People -> BOOLEAN]
  BY DEF CameraTypeOK, Proves

LEMMA EntryIsSome ==
  ASSUME NEW entry \in PendingEntry
  PROVE  entry # Nil
  BY CameraAssumption

LEMMA RequestsTyped ==
  ASSUME CameraTypeOK, NEW c \in Conns, Requests(c)
  PROVE  CameraTypeOK'
  <1>1. ASSUME NEW u \in People, NEW entry \in PendingEntry, Begins(c, "set", u, entry),
               Proves(u) \/ UNCHANGED proven
        PROVE  CameraTypeOK'
    <2>1. ThreadTyped([at |-> "set", user |-> u, copy |-> entry])
      BY StagesAre, EntryIsSome DEF ThreadTyped
    <2> QED BY <1>1, <2>1, BeginsTyped, ProvesTyped
  <1>2. ASSUME NEW u \in People, HandleLogin(c, u)  PROVE CameraTypeOK'
    <2>1. HasAccount(u)
      BY <1>2 DEF HandleLogin
    <2>2. NewEntry(u, FALSE, FALSE) \in PendingEntry
      BY <2>1, EntryTyped
    <2> QED BY <1>1, <1>2, <2>2 DEF HandleLogin
  <1>3. ASSUME NEW u \in People, HandleSendEmailOtp(c, u)  PROVE CameraTypeOK'
    <2>1. [pendings[u] EXCEPT !.left = CodeTtl] \in PendingEntry
      BY <1>3, FoundTyped, CameraAssumption DEF HandleSendEmailOtp, PendingEntry
    <2> QED BY <1>1, <1>3, <2>1 DEF HandleSendEmailOtp
  <1>4. ASSUME NEW u \in People, HandleForgotSendEmail(c, u)  PROVE CameraTypeOK'
    <2>1. HasAccount(u)
      BY <1>4 DEF HandleForgotSendEmail, HasMail
    <2>2. NewEntry(u, TRUE, FALSE) \in PendingEntry
      BY <2>1, EntryTyped
    <2> QED BY <1>1, <1>4, <2>2 DEF HandleForgotSendEmail
  <1>5. ASSUME NEW u \in People, HandleForgotVerifyOtp(c, u)  PROVE CameraTypeOK'
    <2>1. [pendings[u] EXCEPT !.proved = TRUE] \in PendingEntry
      BY <1>5, FoundTyped DEF HandleForgotVerifyOtp, PendingEntry
    <2> QED BY <1>1, <1>5, <2>1 DEF HandleForgotVerifyOtp
  <1>6. ASSUME NEW u \in People, HandleForgotVerifyTotp(c, u)  PROVE CameraTypeOK'
    <2>1. HasAccount(u)
      BY <1>6 DEF HandleForgotVerifyTotp, HasAuthenticator
    <2>2. NewEntry(u, TRUE, TRUE) \in PendingEntry
      BY <2>1, EntryTyped
    <2> QED BY <1>1, <1>6, <2>2 DEF HandleForgotVerifyTotp
  <1>7. ASSUME NEW u \in People, HandleResetPassword(c, u)  PROVE CameraTypeOK'
    <2>1. ThreadTyped([at |-> "reset", user |-> u, copy |-> Nil])
      BY StagesAre DEF ThreadTyped
    <2> QED BY <1>7, <2>1, BeginsTyped, ProvesTyped DEF HandleResetPassword
  <1>8. ASSUME NEW u \in People, Verifies(c, u)  PROVE CameraTypeOK'
    <2>1. pendings[u] \in PendingEntry /\ pendings[u] # Nil
      BY <1>8, FoundTyped DEF Verifies, PendingFound
    <2>2. ThreadTyped([at |-> "verified", user |-> u, copy |-> pendings[u]])
      BY <2>1, StagesAre DEF ThreadTyped
    <2>3. ThreadsTyped'
      BY <1>8, <2>2, GoesTyped DEF Verifies, CameraTypeOK
    <2> QED BY <1>8, <2>3 DEF Verifies, CameraTypeOK, TablesTyped, ChildrenTyped,
                              accountState, streamState
  <1>9. ASSUME NEW s \in SessionSlots, NEW action \in Administering, RequireAuth(c, s, action)
        PROVE  CameraTypeOK'
    <2>1. sessions[s].user \in People
      BY <1>9 DEF RequireAuth, Allowed, CameraTypeOK, TablesTyped, LoginSession
    <2>2. ThreadTyped([at |-> action, user |-> sessions[s].user, copy |-> Nil])
      BY <2>1, StagesAre DEF ThreadTyped
    <2>3. ThreadsTyped'
      BY <1>9, <2>2, GoesTyped DEF RequireAuth, CameraTypeOK
    <2> QED BY <1>9, <2>3 DEF RequireAuth, CameraTypeOK, TablesTyped, ChildrenTyped,
                              accountState, streamState
  <1> QED BY <1>2, <1>3, <1>4, <1>5, <1>6, <1>7, <1>8, <1>9
          DEF Requests, HandleVerifyOtp, HandleVerifyTotp

\* What a handler or the clock does to the tables keeps their types.
LEMMA PendingWithTyped ==
  ASSUME CameraTypeOK, NEW u \in People, NEW entry \in PendingEntry
  PROVE  PendingWith(u, entry) \in [People -> PendingEntry \cup {Nil}]
  BY DEF CameraTypeOK, TablesTyped, PendingWith

LEMMA PendingWithoutTyped ==
  ASSUME CameraTypeOK, NEW u \in People
  PROVE  PendingWithout(u) \in [People -> PendingEntry \cup {Nil}]
  BY DEF CameraTypeOK, TablesTyped, PendingWithout

LEMMA WithHashTyped ==
  ASSUME CameraTypeOK, NEW u \in People, NEW h \in Hashes
  PROVE  WithHash(u, h) \in [People -> UserRecord \cup {Nil}]
  BY DEF CameraTypeOK, TablesTyped, WithHash, HasAccount, UserRecord

LEMMA InsertedTyped ==
  ASSUME CameraTypeOK, NEW u \in People, NEW row \in UserRecord
  PROVE  Inserted(rows, u, row) \in [People -> UserRecord \cup {Nil}]
  BY DEF CameraTypeOK, TablesTyped, Inserted

LEMMA ReapedTyped ==
  ASSUME CameraTypeOK, NEW p
  PROVE  Reaped(p) \in [Pids -> {"none", "stream", "reboot"}]
  BY DEF CameraTypeOK, ChildrenTyped, Reaped

\* A handler that touches neither table nor child leaves their types.
LEMMA TablesKept == ASSUME CameraTypeOK, UNCHANGED accountState
                    PROVE  /\ TablesTyped'
                           /\ proven' \in [People -> BOOLEAN] /\ raced' \in [People -> BOOLEAN]
  BY DEF CameraTypeOK, TablesTyped, accountState

LEMMA ChildrenKept == ASSUME CameraTypeOK, UNCHANGED streamState  PROVE ChildrenTyped'
  BY DEF CameraTypeOK, ChildrenTyped, streamState

LEMMA FinishesTyped ==
  ASSUME CameraTypeOK, NEW c \in Conns, NEW action, Finishes(c, action)
  PROVE  CameraTypeOK'
  <1>1. ThreadsTyped'
    BY RepliesTyped DEF Finishes, CameraTypeOK
  <1> QED BY <1>1, TablesKept, ChildrenKept DEF Finishes, CameraTypeOK

LEMMA TablesStepTyped ==
  ASSUME CameraTypeOK, NEW c \in Conns,
         \/ SetsEntry(c) \/ DeletesEntry(c) \/ CreatesSession(c)
         \/ \E h \in Hashes : StoresHash(c, h) \/ \E role \in AddedRoles : Inserts(c, role, h)
         \/ \E u \in People : HandleAddUser(c, u) \/ HandleRemoveUser(c, u)
  PROVE  CameraTypeOK'
  <1> USE DEF CameraTypeOK
  <1>0. ThreadTyped(work[c])
    BY ThreadsEach
  <1>1. CASE SetsEntry(c)
    <2>1. work[c].user \in People /\ work[c].copy \in PendingEntry
      BY <1>0, <1>1 DEF SetsEntry, ThreadTyped
    <2>2. TablesTyped'
      BY <1>1, <2>1, PendingWithTyped DEF SetsEntry, TablesTyped
    <2> QED BY <1>1, <2>2, RepliesTyped, ChildrenKept DEF SetsEntry
  <1>2. CASE DeletesEntry(c)
    <2>1. work[c].user \in People /\ (work[c].at = "verified" => work[c].copy \in PendingEntry)
      BY <1>0, <1>2 DEF DeletesEntry, ThreadTyped
    <2>2. TablesTyped'
      BY <1>2, <2>1, PendingWithoutTyped DEF DeletesEntry, TablesTyped, PendingSpent
    <2>3. ThreadsTyped'
      <3>1. CASE work[c].at = "verified"
        <4>1. ThreadTyped([at |-> "issue", user |-> work[c].user, copy |-> work[c].copy])
          BY <2>1, <3>1, StagesAre, EntryIsSome DEF ThreadTyped
        <4> QED BY <1>2, <3>1, <4>1, GoesTyped DEF DeletesEntry
      <3>2. CASE work[c].at # "verified"
        BY <1>2, <3>2, RepliesTyped DEF DeletesEntry
      <3> QED BY <3>1, <3>2
    <2> QED BY <1>2, <2>2, <2>3, ChildrenKept DEF DeletesEntry
  <1>3. CASE CreatesSession(c)
    <2>1. work[c].user \in People /\ work[c].copy \in PendingEntry
      BY <1>0, <1>3 DEF CreatesSession, ThreadTyped
    <2>2. [user |-> work[c].user, role |-> work[c].copy.role, left |-> SessionTtl] \in LoginSession
      BY <2>1, CameraAssumption DEF LoginSession, PendingEntry
    <2>3. sessions' \in [SessionSlots -> LoginSession \cup {Nil}]
      BY <1>3, <2>2 DEF CreatesSession, TablesTyped
    <2>4. TablesTyped'
      BY <1>3, <2>3 DEF CreatesSession, TablesTyped
    <2> QED BY <1>3, <2>4, RepliesTyped, ChildrenKept DEF CreatesSession
  <1>4. ASSUME NEW h \in Hashes, StoresHash(c, h)  PROVE CameraTypeOK'
    <2>1. work[c].user \in People
      BY <1>0, <1>4 DEF StoresHash, ThreadTyped
    <2>2. TablesTyped'
      BY <1>4, <2>1, WithHashTyped DEF StoresHash, TablesTyped
    <2>3. ThreadTyped([at |-> "stored", user |-> work[c].user, copy |-> Nil])
      BY <2>1, StagesAre DEF ThreadTyped
    <2>4. ThreadsTyped'
      BY <1>4, <2>3, GoesTyped DEF StoresHash
    <2>5. proven' \in [People -> BOOLEAN]
      BY <1>4 DEF StoresHash
    <2> QED BY <1>4, <2>2, <2>4, <2>5, ChildrenKept DEF StoresHash
  <1>5. ASSUME NEW h \in Hashes, NEW role \in AddedRoles, Inserts(c, role, h)  PROVE CameraTypeOK'
    <2>1. work[c].user \in People
      BY <1>0, <1>5 DEF Inserts, ThreadTyped
    <2>2. [role |-> role, email |-> TRUE, totp |-> TRUE, hash |-> h] \in UserRecord
      BY CameraAssumption DEF UserRecord
    <2>3. TablesTyped'
      BY <1>5, <2>1, <2>2, InsertedTyped DEF Inserts, TablesTyped
    <2> QED BY <1>5, <2>3, RepliesTyped, ChildrenKept DEF Inserts
  <1>6. ASSUME NEW u \in People, HandleAddUser(c, u)  PROVE CameraTypeOK'
    <2>1. ThreadTyped([at |-> "insert", user |-> u, copy |-> Nil])
      BY StagesAre DEF ThreadTyped
    <2>2. ThreadsTyped'
      BY <1>6, <2>1, GoesTyped, RepliesTyped DEF HandleAddUser
    <2> QED BY <1>6, <2>2, TablesKept, ChildrenKept DEF HandleAddUser
  <1>7. ASSUME NEW u \in People, HandleRemoveUser(c, u)  PROVE CameraTypeOK'
    <2>1. TablesTyped'
      BY <1>7 DEF HandleRemoveUser, TablesTyped, RowsWithout
    <2> QED BY <1>7, <2>1, RepliesTyped, ChildrenKept DEF HandleRemoveUser
  <1> QED BY <1>1, <1>2, <1>3, <1>4, <1>5, <1>6, <1>7

LEMMA StreamStepTyped ==
  ASSUME CameraTypeOK, NEW c \in Conns,
         \/ HandleDeviceReboot(c) \/ HandleStartStream(c) \/ HandleStopStream(c) \/ StreamStopped(c)
  PROVE  CameraTypeOK'
  <1> USE DEF CameraTypeOK
  <1>1. CASE HandleDeviceReboot(c)
    <2>1. kids' \in [Pids -> {"none", "stream", "reboot"}]
      BY <1>1 DEF HandleDeviceReboot, ForksReboot, ChildrenTyped
    <2>2. ChildrenTyped'
      BY <1>1, <2>1 DEF HandleDeviceReboot, ChildrenTyped
    <2> QED BY <1>1, <2>2, RepliesTyped, TablesKept DEF HandleDeviceReboot
  <1>2. CASE HandleStartStream(c)
    <2>1. ChildrenTyped'
      BY <1>2, ReapedTyped DEF HandleStartStream, ChildrenTyped
    <2> QED BY <1>2, <2>1, RepliesTyped, TablesKept DEF HandleStartStream
  <1>3. CASE HandleStopStream(c)
    <2>0. ThreadTyped(work[c])
      BY ThreadsEach
    <2>1. work[c].user \in People
      BY <1>3, <2>0 DEF HandleStopStream, ThreadTyped
    <2>2. ThreadTyped([at |-> "stopping", user |-> work[c].user, copy |-> Nil])
      BY <2>1, StagesAre DEF ThreadTyped
    <2>3. ThreadsTyped'
      BY <1>3, <2>2, GoesTyped, RepliesTyped DEF HandleStopStream
    <2>4. ChildrenTyped'
      BY <1>3, ReapedTyped DEF HandleStopStream, ChildrenTyped
    <2> QED BY <1>3, <2>3, <2>4, TablesKept DEF HandleStopStream
  <1>4. CASE StreamStopped(c)
    <2>1. ChildrenTyped'
      BY <1>4, ReapedTyped DEF StreamStopped, ChildrenTyped
    <2> QED BY <1>4, <2>1, RepliesTyped, TablesKept DEF StreamStopped
  <1> QED BY <1>1, <1>2, <1>3, <1>4

LEMMA ContinuesTyped ==
  ASSUME CameraTypeOK, NEW c \in Conns, Continues(c)
  PROVE  CameraTypeOK'
  BY FinishesTyped, TablesStepTyped, StreamStepTyped
     DEF Continues, HandleSecureData, HandleDeviceStatus, HandleNetworkReset, HandleConfigReset,
         HandleFactoryReset, HasNoCamera

LEMMA BootedTyped ==
  ASSUME Booted, rows' \in [People -> UserRecord \cup {Nil}]
  PROVE  CameraTypeOK'
  <1>1. TablesTyped'
    BY DEF Booted, TablesTyped
  <1>2. ThreadsTyped'
    BY RestTyped DEF Booted, ThreadsTyped, ThreadTyped
  <1>3. ChildrenTyped'
    BY DEF Booted, ChildrenTyped
  <1> QED BY <1>1, <1>2, <1>3 DEF Booted, CameraTypeOK

LEMMA SeedsTyped ==
  ASSUME NEW table \in [People -> UserRecord \cup {Nil}]
  PROVE  WithSeeds(table) \in [People -> UserRecord \cup {Nil}]
  <1>1. FirstHash \in Hashes
    BY CameraAssumption DEF FirstHash
  <1>2. ASSUME NEW u \in DOMAIN SeedRole
        PROVE  [role |-> SeedRole[u], email |-> TRUE, totp |-> TRUE, hash |-> FirstHash] \in UserRecord
    BY <1>1, CameraAssumption DEF UserRecord
  <1> QED BY <1>2 DEF WithSeeds

\* A second takes one tick from what has ticks left, and nothing else.
LEMMA OlderTyped ==
  ASSUME CameraTypeOK, SecondPasses
  PROVE  TablesTyped' /\ ThreadsTyped'
  <1> USE DEF CameraTypeOK
  <1>1. pendings' \in [People -> PendingEntry \cup {Nil}]
    <2> SUFFICES ASSUME NEW u \in People  PROVE Older(pendings)[u] \in PendingEntry \cup {Nil}
      BY DEF SecondPasses, Older, TablesTyped
    <2>1. ASSUME pendings[u] \in PendingEntry, pendings[u].left # 0
          PROVE  [pendings[u] EXCEPT !.left = @ - 1] \in PendingEntry
      BY <2>1, CameraAssumption DEF PendingEntry
    <2> QED BY <2>1 DEF Older, TablesTyped
  <1>2. sessions' \in [SessionSlots -> LoginSession \cup {Nil}]
    <2> SUFFICES ASSUME NEW s \in SessionSlots  PROVE Older(sessions)[s] \in LoginSession \cup {Nil}
      BY DEF SecondPasses, Older, TablesTyped
    <2>1. ASSUME sessions[s] \in LoginSession, sessions[s].left # 0
          PROVE  [sessions[s] EXCEPT !.left = @ - 1] \in LoginSession
      BY <2>1, CameraAssumption DEF LoginSession
    <2> QED BY <2>1 DEF Older, TablesTyped
  <1>3. ThreadsTyped'
    <2> SUFFICES ASSUME NEW c \in Conns  PROVE ThreadTyped(work'[c])
      BY DEF SecondPasses, ThreadsTyped, ThreadTyped
    <2>1. ThreadTyped(work[c])
      BY ThreadsEach
    <2>2. CASE work[c].at = "set" /\ work[c].copy.left > 0
      <3>1. work[c].copy \in PendingEntry
        BY <2>1, <2>2 DEF ThreadTyped
      <3>2. work'[c] = [work[c] EXCEPT !.copy.left = @ - 1]
        BY <2>2 DEF SecondPasses
      <3>3. [work[c].copy EXCEPT !.left = @ - 1] \in PendingEntry
        BY <2>2, <3>1, CameraAssumption DEF PendingEntry
      <3>4. /\ work'[c].at = work[c].at /\ work'[c].user = work[c].user
            /\ work'[c].copy = [work[c].copy EXCEPT !.left = @ - 1]
            /\ work'[c] = [at |-> work[c].at, user |-> work[c].user, copy |-> work'[c].copy]
        BY <2>1, <3>2 DEF ThreadTyped
      <3> QED BY <2>1, <2>2, <3>3, <3>4, EntryIsSome DEF ThreadTyped
    <2>3. CASE ~(work[c].at = "set" /\ work[c].copy.left > 0)
      <3>1. work'[c] = work[c]
        BY <2>3 DEF SecondPasses
      <3> QED BY <2>1, <3>1
    <2> QED BY <2>2, <2>3
  <1> QED BY <1>1, <1>2, <1>3 DEF SecondPasses, TablesTyped

LEMMA CameraNextTyped ==
  ASSUME CameraTypeOK, [CameraNext]_cameraVars
  PROVE  CameraTypeOK'
  <1>1. ASSUME NEW u \in People, PendingLapses(u)  PROVE CameraTypeOK'
    <2>1. TablesTyped'
      BY <1>1, PendingWithoutTyped DEF PendingLapses, CameraTypeOK, TablesTyped
    <2> QED BY <1>1, <2>1, ChildrenKept DEF PendingLapses, CameraTypeOK, ThreadsTyped
  <1>2. ASSUME NEW u \in People, HandleResendTotp(u)  PROVE CameraTypeOK'
    <2>1. TablesTyped'
      BY <1>2 DEF HandleResendTotp, WithSecret, HasMail, HasAccount, CameraTypeOK, TablesTyped,
                  UserRecord
    <2> QED BY <1>2, <2>1, ChildrenKept DEF HandleResendTotp, CameraTypeOK, ThreadsTyped
  <1>3. ASSUME NEW s \in SessionSlots, SessionLapses(s) \/ HandleLogout(s)  PROVE CameraTypeOK'
    <2>1. TablesTyped'
      BY <1>3 DEF SessionLapses, HandleLogout, SessionsWithout, CameraTypeOK, TablesTyped
    <2> QED BY <1>3, <2>1, ChildrenKept DEF SessionLapses, HandleLogout, CameraTypeOK, ThreadsTyped
  <1>4. ASSUME NEW p \in Pids, ChildEnds(p)  PROVE CameraTypeOK'
    <2>1. ChildrenTyped'
      BY <1>4 DEF ChildEnds, Alive, CameraTypeOK, ChildrenTyped
    <2> QED BY <1>4, <2>1, TablesKept DEF ChildEnds, CameraTypeOK, ThreadsTyped
  <1>5. CASE SecondPasses
    BY <1>5, OlderTyped, ChildrenKept DEF SecondPasses, CameraTypeOK
  <1>6. CASE ServerRestarts
    BY <1>6, BootedTyped, SeedsTyped DEF ServerRestarts, CameraTypeOK, TablesTyped
  <1>7. CASE UNCHANGED cameraVars
    BY <1>7, TablesKept, ChildrenKept
       DEF cameraVars, CameraTypeOK, ThreadsTyped, accountState, streamState
  <1> QED BY <1>1, <1>2, <1>3, <1>4, <1>5, <1>6, <1>7, RequestsTyped, ContinuesTyped DEF CameraNext

LEMMA CameraInitTyped ==
  ASSUME CameraInit
  PROVE  CameraTypeOK
  <1>1. rows \in [People -> UserRecord \cup {Nil}]
    BY SeedsTyped, CameraAssumption DEF CameraInit
  <1>2. ThreadsTyped
    BY RestTyped DEF CameraInit, ThreadsTyped, ThreadTyped
  <1> QED BY <1>1, <1>2 DEF CameraInit, CameraTypeOK, TablesTyped, ChildrenTyped

(* The tables, the threads and the children of the SmartCamera server keep  *)
(* their types, for any accounts, threads and table sizes: no copy a thread *)
(* carries across an unlock (server_version1.c:613) is ever of another kind *)
(* than the step that uses it takes.                                        *)
THEOREM CameraTypes == CameraSpec => []CameraTypeOK
  BY CameraInitTyped, CameraNextTyped, PTL DEF CameraSpec

----------------------------------------------------------------------------
(* CameraServer: one stream *)

\* Whoever waits for the stream to end holds stream_mutex, alone, and until it
\* is done stream_pid stays what it waits for.
StreamHeld ==
  \A c \in Conns : work[c].at = "stopping" =>
    /\ awaited # Nil /\ awaited = stream_pid
    /\ \A d \in Conns : work[d].at = "stopping" => d = c

StreamInv == CameraTypeOK /\ OneStream /\ StreamHeld

\* Steps of threads that do not concern the stream.
Elsewhere(c) ==
  /\ work'[c].at # "stopping" /\ \A d \in Conns : d # c => work'[d] = work[d]
  /\ UNCHANGED streamState

LEMMA ElsewhereHeld ==
  ASSUME StreamInv, NEW c \in Conns, Elsewhere(c)
  PROVE  OneStream' /\ StreamHeld'
  <1>1. UNCHANGED <<stream_pid, kids, ended, awaited>>
    BY DEF Elsewhere, streamState
  <1>2. \A d \in Conns : work'[d].at = "stopping" => work[d].at = "stopping"
    BY DEF Elsewhere
  <1> QED BY <1>1, <1>2 DEF StreamInv, OneStream, StreamHeld

LEMMA GoesThere ==
  ASSUME ThreadsTyped, NEW c \in Conns, NEW at, NEW u, NEW copy, Goes(c, at, u, copy)
  PROVE  work'[c].at = at /\ \A d \in Conns : d # c => work'[d] = work[d]
  BY DEF ThreadsTyped, Goes

LEMMA RepliesThere ==
  ASSUME ThreadsTyped, NEW c \in Conns, Replies(c)
  PROVE  work'[c].at = "rest" /\ \A d \in Conns : d # c => work'[d] = work[d]
  BY DEF ThreadsTyped, Replies, AtRest

LEMMA ReapedAre ==
  ASSUME CameraTypeOK, NEW p, p \notin Alive
  PROVE  /\ Reaped(p) \in [Pids -> {"none", "stream", "reboot"}]
         /\ \A q \in Pids : Reaped(p)[q] = IF q = p THEN "none" ELSE kids[q]
  BY DEF CameraTypeOK, ChildrenTyped, Reaped, Alive

LEMMA RequestsElsewhere ==
  ASSUME StreamInv, NEW c \in Conns, Requests(c)
  PROVE  OneStream' /\ StreamHeld'
  <1>0. ThreadsTyped
    BY DEF StreamInv, CameraTypeOK
  <1>1. ASSUME NEW at, NEW u, NEW copy, Begins(c, at, u, copy), at # "stopping"
        PROVE  Elsewhere(c)
    BY <1>0, <1>1, GoesThere DEF Begins, Elsewhere
  <1>2. ASSUME NEW u \in People, Verifies(c, u)  PROVE Elsewhere(c)
    BY <1>0, <1>2, GoesThere DEF Verifies, Elsewhere
  <1>3. ASSUME NEW s \in SessionSlots, NEW action \in Administering, RequireAuth(c, s, action)
        PROVE  Elsewhere(c)
    BY <1>0, <1>3, GoesThere, StagesAre DEF RequireAuth, Elsewhere
  <1>4. Elsewhere(c)
    BY <1>1, <1>2, <1>3 DEF Requests, HandleLogin, HandleSendEmailOtp, HandleForgotSendEmail,
       HandleForgotVerifyOtp, HandleForgotVerifyTotp, HandleResetPassword, HandleVerifyOtp,
       HandleVerifyTotp
  <1> QED BY <1>4, ElsewhereHeld

LEMMA ContinuesElsewhere ==
  ASSUME StreamInv, NEW c \in Conns, Continues(c),
         ~(HandleDeviceReboot(c) \/ HandleStartStream(c) \/ HandleStopStream(c) \/ StreamStopped(c))
  PROVE  OneStream' /\ StreamHeld'
  <1>0. ThreadsTyped
    BY DEF StreamInv, CameraTypeOK
  <1>1. ASSUME SetsEntry(c) \/ DeletesEntry(c) \/ CreatesSession(c)  PROVE Elsewhere(c)
    BY <1>0, <1>1, GoesThere, RepliesThere DEF SetsEntry, DeletesEntry, CreatesSession, Elsewhere
  <1>2. ASSUME NEW h \in Hashes, NEW role \in AddedRoles, Inserts(c, role, h)  PROVE Elsewhere(c)
    BY <1>0, <1>2, RepliesThere DEF Inserts, Elsewhere
  <1>3. ASSUME NEW h \in Hashes, StoresHash(c, h)  PROVE Elsewhere(c)
    BY <1>0, <1>3, GoesThere DEF StoresHash, Elsewhere
  <1>4. ASSUME NEW u \in People, HandleAddUser(c, u) \/ HandleRemoveUser(c, u)  PROVE Elsewhere(c)
    BY <1>0, <1>4, GoesThere, RepliesThere DEF HandleAddUser, HandleRemoveUser, Elsewhere
  <1>5. ASSUME NEW action, Finishes(c, action)  PROVE Elsewhere(c)
    BY <1>0, <1>5, RepliesThere DEF Finishes, Elsewhere
  <1>6. Elsewhere(c)
    BY <1>1, <1>2, <1>3, <1>4, <1>5
       DEF Continues, HandleSecureData, HandleDeviceStatus, HandleNetworkReset, HandleConfigReset,
           HandleFactoryReset, HasNoCamera
  <1> QED BY <1>6, ElsewhereHeld

LEMMA StreamStepHeld ==
  ASSUME StreamInv, NEW c \in Conns,
         \/ HandleDeviceReboot(c) \/ HandleStartStream(c) \/ HandleStopStream(c) \/ StreamStopped(c)
  PROVE  OneStream' /\ StreamHeld'
  <1>0. CameraTypeOK /\ ThreadsTyped /\ ChildrenTyped
    BY DEF StreamInv, CameraTypeOK
  <1>1. CASE HandleDeviceReboot(c)
    <2>1. OneStream'
      BY <1>0, <1>1 DEF StreamInv, OneStream, HandleDeviceReboot, ForksReboot, ChildrenTyped
    <2>2. work'[c].at = "rest" /\ \A d \in Conns : d # c => work'[d] = work[d]
      BY <1>0, <1>1, RepliesThere DEF HandleDeviceReboot
    <2>3. UNCHANGED <<stream_pid, awaited>>
      BY <1>1 DEF HandleDeviceReboot
    <2> QED BY <2>1, <2>2, <2>3 DEF StreamInv, StreamHeld
  <1>2. CASE HandleStartStream(c)
    <2>1. OneStream'
      <3>1. CASE Streaming
        BY <1>2, <3>1 DEF HandleStartStream, StreamInv, OneStream
      <3>2. CASE ~Streaming
        <4>1. \A q \in Pids : Reaped(stream_pid)[q] = "stream" => FALSE
          BY <1>0, <3>2, ReapedAre DEF Streaming, StreamInv, OneStream
        <4>2. \/ \E p \in Pids : kids' = [Reaped(stream_pid) EXCEPT ![p] = "stream"] /\ stream_pid' = p
              \/ kids' = Reaped(stream_pid)
          BY <1>2, <3>2 DEF HandleStartStream
        <4>3. Reaped(stream_pid) \in [Pids -> {"none", "stream", "reboot"}]
          BY <1>0, ReapedTyped
        <4> QED BY <4>1, <4>2, <4>3 DEF OneStream
      <3> QED BY <3>1, <3>2
    <2>2. \A d \in Conns : work[d].at # "stopping"
      BY <1>2 DEF HandleStartStream, LockFree, StreamInv, StreamHeld
    <2>3. \A d \in Conns : work'[d].at # "stopping"
      BY <1>0, <1>2, <2>2, RepliesThere DEF HandleStartStream
    <2> QED BY <2>1, <2>3 DEF StreamHeld
  <1>3. CASE HandleStopStream(c)
    <2>1. \A d \in Conns : work[d].at # "stopping"
      BY <1>3 DEF HandleStopStream, LockFree, StreamInv, StreamHeld
    <2>2. CASE Streaming
      <3>1. /\ awaited' = stream_pid /\ UNCHANGED <<stream_pid, kids>>
            /\ Goes(c, "stopping", work[c].user, Nil)
        BY <1>3, <2>2 DEF HandleStopStream
      <3>2. stream_pid # Nil
        BY <2>2, CameraAssumption DEF Streaming, Alive
      <3>3. \A d \in Conns : d # c => work'[d] = work[d]
        BY <1>0, <3>1, GoesThere
      <3>4. \A d \in Conns : work'[d].at = "stopping" => d = c
        BY <2>1, <3>3
      <3>5. StreamHeld'
        BY <3>1, <3>2, <3>4 DEF StreamHeld
      <3> QED BY <3>1, <3>5 DEF StreamInv, OneStream
    <2>3. CASE ~Streaming
      <3>1. kids' = Reaped(stream_pid) /\ Replies(c)
        BY <1>3, <2>3 DEF HandleStopStream
      <3>2. OneStream'
        BY <1>0, <2>3, <3>1, ReapedAre DEF Streaming, StreamInv, OneStream
      <3>3. \A d \in Conns : work'[d].at # "stopping"
        BY <1>0, <2>1, <3>1, RepliesThere
      <3> QED BY <3>2, <3>3 DEF StreamHeld
    <2> QED BY <2>2, <2>3
  <1>4. CASE StreamStopped(c)
    <2>1. awaited = stream_pid /\ \A d \in Conns : work[d].at = "stopping" => d = c
      BY <1>4 DEF StreamStopped, StreamInv, StreamHeld
    <2>2. OneStream'
      BY <1>0, <1>4, <2>1, ReapedAre DEF StreamStopped, StreamInv, OneStream
    <2>3. \A d \in Conns : work'[d].at # "stopping"
      BY <1>0, <1>4, <2>1, RepliesThere DEF StreamStopped
    <2> QED BY <2>2, <2>3 DEF StreamHeld
  <1> QED BY <1>1, <1>2, <1>3, <1>4

LEMMA StreamNextHeld ==
  ASSUME StreamInv, [CameraNext]_cameraVars
  PROVE  OneStream' /\ StreamHeld'
  <1>1. ASSUME UNCHANGED work, UNCHANGED <<stream_pid, kids, awaited>>
        PROVE  OneStream' /\ StreamHeld'
    BY <1>1 DEF StreamInv, OneStream, StreamHeld
  <1>2. CASE SecondPasses
    <2>1. \A d \in Conns : work'[d].at = work[d].at
      BY <1>2 DEF SecondPasses, StreamInv, CameraTypeOK, ThreadsTyped
    <2>2. UNCHANGED <<stream_pid, kids, awaited>>
      BY <1>2 DEF SecondPasses, streamState
    <2> QED BY <2>1, <2>2 DEF StreamInv, OneStream, StreamHeld
  <1>3. CASE ServerRestarts
    BY <1>3 DEF ServerRestarts, Booted, AtRest, OneStream, StreamHeld
  <1>4. ASSUME NEW u \in People, PendingLapses(u) \/ HandleResendTotp(u)
        PROVE  UNCHANGED work /\ UNCHANGED <<stream_pid, kids, awaited>>
    BY <1>4 DEF PendingLapses, HandleResendTotp, streamState
  <1>5. ASSUME NEW s \in SessionSlots, SessionLapses(s) \/ HandleLogout(s)
        PROVE  UNCHANGED work /\ UNCHANGED <<stream_pid, kids, awaited>>
    BY <1>5 DEF SessionLapses, HandleLogout, streamState
  <1>6. ASSUME NEW p \in Pids, ChildEnds(p)
        PROVE  UNCHANGED work /\ UNCHANGED <<stream_pid, kids, awaited>>
    BY <1>6 DEF ChildEnds
  <1>7. CASE UNCHANGED cameraVars
    BY <1>1, <1>7 DEF cameraVars
  <1> QED BY <1>1, <1>2, <1>3, <1>4, <1>5, <1>6, <1>7, RequestsElsewhere, ContinuesElsewhere,
             StreamStepHeld DEF CameraNext

(* For any number of threads, and however starts, stops, failed forks and   *)
(* streams that end by themselves are mixed, at most one child streams the  *)
(* camera and stream_pid names it: stream_mutex is held across the wait of  *)
(* stop-stream (server_version1.c:960), so nobody starts another meanwhile. *)
THEOREM OneStreamRuns == CameraSpec => []OneStream
  <1>1. CameraInit => StreamInv
    BY CameraInitTyped DEF CameraInit, AtRest, StreamInv, OneStream, StreamHeld
  <1>2. StreamInv /\ [CameraNext]_cameraVars => StreamInv'
    BY CameraNextTyped, StreamNextHeld DEF StreamInv
  <1>3. StreamInv => OneStream
    BY DEF StreamInv
  <1> QED BY <1>1, <1>2, <1>3, PTL DEF CameraSpec

----------------------------------------------------------------------------
(* CameraServer: accounts change by proof *)

\* Until two requests about u overlap, one thread at most has to do with its
\* pending entry, and a proof in the entry or in that thread's copy is one no
\* reset has used, or the reset that did is about to delete the entry.
ProofKept(u) ==
  /\ pendings[u] # Nil /\ pendings[u].proved =>
       proven[u] \/ \E c \in Conns : c \in Handling(u) /\ work[c].at = "stored"
  /\ \A c \in Conns : c \in Handling(u) =>
       /\ \A d \in Conns : d \in Handling(u) => d = c
       /\ work[c].at = "set" /\ work[c].copy.proved => proven[u]
       /\ work[c].at = "reset" => proven[u]

ProofInv == CameraTypeOK /\ \A u \in People : ~raced[u] => ProofKept(u)

\* What a step that has nothing to do with u's entry leaves as it is, though it
\* may delete the entry or let it age.
Leaves(u) ==
  /\ raced'[u] = raced[u] /\ proven'[u] = proven[u]
  /\ pendings'[u] # Nil => pendings[u] # Nil /\ pendings'[u].proved = pendings[u].proved
  /\ \A c \in Conns :
       /\ c \in Handling(u)' <=> c \in Handling(u)
       /\ c \in Handling(u) =>
            work'[c].at = work[c].at /\ work'[c].copy.proved = work[c].copy.proved

LEMMA LeavesKept ==
  ASSUME ProofInv, NEW u \in People, Leaves(u)
  PROVE  ~raced'[u] => ProofKept(u)'
  <1> SUFFICES ASSUME ~raced[u]  PROVE ProofKept(u)'
    BY DEF Leaves
  <1>1. ProofKept(u)
    BY DEF ProofInv
  <1> DEFINE H(c) == c \in Handling(u)
             N(c) == c \in Handling(u)'
  <1>2. \A c \in Conns : N(c) <=> H(c)
    BY DEF Leaves
  <1>3. \A c \in Conns : H(c) =>
          work'[c].at = work[c].at /\ work'[c].copy.proved = work[c].copy.proved
    BY DEF Leaves
  <1>4. /\ pendings[u] # Nil /\ pendings[u].proved =>
             proven[u] \/ \E c \in Conns : H(c) /\ work[c].at = "stored"
        /\ \A c \in Conns : H(c) =>
             /\ \A d \in Conns : H(d) => d = c
             /\ work[c].at = "set" /\ work[c].copy.proved => proven[u]
             /\ work[c].at = "reset" => proven[u]
    BY <1>1 DEF ProofKept
  <1>5. /\ pendings'[u] # Nil /\ pendings'[u].proved =>
             proven'[u] \/ \E c \in Conns : N(c) /\ work'[c].at = "stored"
        /\ \A c \in Conns : N(c) =>
             /\ \A d \in Conns : N(d) => d = c
             /\ work'[c].at = "set" /\ work'[c].copy.proved => proven'[u]
             /\ work'[c].at = "reset" => proven'[u]
    <2> HIDE DEF H, N
    <2>1. proven'[u] = proven[u]
      BY DEF Leaves
    <2>2. pendings'[u] # Nil => pendings[u] # Nil /\ pendings'[u].proved = pendings[u].proved
      BY DEF Leaves
    <2> QED BY <1>2, <1>3, <1>4, <2>1, <2>2
  <1> QED BY <1>5 DEF ProofKept

\* Who handles u's entry is seen from where its threads are.
LEMMA HandlingIs ==
  /\ \A u, c : c \in Handling(u) <=>
       c \in Conns /\ work[c].user = u /\ work[c].at \in {"set", "reset", "stored"}
  /\ \A u, c : c \in Handling(u)' <=>
       c \in Conns /\ work'[c].user = u /\ work'[c].at \in {"set", "reset", "stored"}
  BY DEF Handling

LEMMA BeginsKept ==
  ASSUME ProofInv, NEW c \in Conns, NEW u \in People, NEW at \in {"set", "reset"}, NEW copy,
         Begins(c, at, u, copy), Proves(u) \/ UNCHANGED proven,
         at = "set" /\ copy.proved => proven'[u] \/ (pendings[u] # Nil /\ pendings[u].proved),
         at = "reset" => pendings[u] # Nil /\ pendings[u].proved
  PROVE  \A v \in People : ~raced'[v] => ProofKept(v)'
  <1>0. CameraTypeOK /\ ThreadsTyped /\ proven \in [People -> BOOLEAN] /\ raced \in [People -> BOOLEAN]
    BY DEF ProofInv, CameraTypeOK
  <1>1. /\ work'[c] = [at |-> at, user |-> u, copy |-> copy]
        /\ \A d \in Conns : d # c => work'[d] = work[d]
        /\ work[c].at = "rest" /\ UNCHANGED pendings
    BY <1>0 DEF Begins, Goes, ThreadsTyped
  <1> SUFFICES ASSUME NEW v \in People, ~raced'[v]  PROVE ProofKept(v)'
    OBVIOUS
  <1>2. CASE v # u
    <2>1. raced'[v] = raced[v] /\ proven'[v] = proven[v]
      BY <1>0, <1>2 DEF Begins, Proves
    <2>2. Leaves(v)
      BY <1>1, <1>2, <2>1, HandlingIs DEF Leaves
    <2> QED BY <2>2, LeavesKept
  <1>3. CASE v = u
    <2>1. ~raced[u] /\ Handling(u) = {}
      BY <1>0, <1>3 DEF Begins
    <2>2. pendings[u] # Nil /\ pendings[u].proved => proven[u]
      BY <2>1 DEF ProofInv, ProofKept
    <2>3. proven[u] => proven'[u]
      BY <1>0 DEF Proves
    <2>4. \A d \in Conns : d \in Handling(u)' => d = c
      BY <1>1, <2>1, HandlingIs
    <2>5. at = "set" /\ copy.proved => proven'[u]
      BY <2>2, <2>3
    <2>6. at = "reset" => proven'[u]
      BY <2>2, <2>3
    <2> QED BY <1>1, <1>3, <2>2, <2>3, <2>4, <2>5, <2>6 DEF ProofKept
  <1> QED BY <1>2, <1>3

LEMMA RequestsKept ==
  ASSUME ProofInv, NEW c \in Conns, Requests(c)
  PROVE  \A v \in People : ~raced'[v] => ProofKept(v)'
  <1>0. CameraTypeOK /\ ThreadsTyped /\ proven \in [People -> BOOLEAN]
    BY DEF ProofInv, CameraTypeOK
  <1>1. ASSUME NEW u \in People, HandleLogin(c, u)  PROVE \A v \in People : ~raced'[v] => ProofKept(v)'
    <2>1. ~NewEntry(u, FALSE, FALSE).proved
      BY DEF NewEntry
    <2> QED BY <1>1, <2>1, BeginsKept DEF HandleLogin
  <1>2. ASSUME NEW u \in People, HandleSendEmailOtp(c, u)
        PROVE  \A v \in People : ~raced'[v] => ProofKept(v)'
    <2>1. [pendings[u] EXCEPT !.left = CodeTtl].proved = pendings[u].proved
      BY <1>0, <1>2, FoundTyped DEF HandleSendEmailOtp, PendingEntry
    <2>2. pendings[u] # Nil
      BY <1>2 DEF HandleSendEmailOtp, PendingFound
    <2> QED BY <1>2, <2>1, <2>2, BeginsKept DEF HandleSendEmailOtp
  <1>3. ASSUME NEW u \in People, HandleForgotSendEmail(c, u)
        PROVE  \A v \in People : ~raced'[v] => ProofKept(v)'
    <2>1. ~NewEntry(u, TRUE, FALSE).proved
      BY DEF NewEntry
    <2> QED BY <1>3, <2>1, BeginsKept DEF HandleForgotSendEmail
  <1>4. ASSUME NEW u \in People, HandleForgotVerifyOtp(c, u)
        PROVE  \A v \in People : ~raced'[v] => ProofKept(v)'
    <2>1. proven'[u] /\ Proves(u)
      BY <1>0, <1>4 DEF HandleForgotVerifyOtp, Proves
    <2> QED BY <1>4, <2>1, BeginsKept DEF HandleForgotVerifyOtp
  <1>5. ASSUME NEW u \in People, HandleForgotVerifyTotp(c, u)
        PROVE  \A v \in People : ~raced'[v] => ProofKept(v)'
    <2>1. proven'[u] /\ Proves(u)
      BY <1>0, <1>5 DEF HandleForgotVerifyTotp, Proves
    <2> QED BY <1>5, <2>1, BeginsKept DEF HandleForgotVerifyTotp
  <1>6. ASSUME NEW u \in People, HandleResetPassword(c, u)
        PROVE  \A v \in People : ~raced'[v] => ProofKept(v)'
    BY <1>6, BeginsKept DEF HandleResetPassword, PendingFound
  <1>7. ASSUME NEW at, NEW w, NEW copy, work[c].at = "rest", at \notin {"set", "reset", "stored"},
               Goes(c, at, w, copy), UNCHANGED accountState
        PROVE  \A v \in People : ~raced'[v] => ProofKept(v)'
    <2> SUFFICES ASSUME NEW v \in People  PROVE Leaves(v)
      BY LeavesKept
    <2>1. work'[c].at = at /\ \A d \in Conns : d # c => work'[d] = work[d]
      BY <1>0, <1>7, GoesThere
    <2> QED BY <1>7, <2>1, HandlingIs DEF Leaves, accountState
  <1>8. ASSUME NEW u \in People, Verifies(c, u)  PROVE \A v \in People : ~raced'[v] => ProofKept(v)'
    BY <1>7, <1>8 DEF Verifies
  <1>9. ASSUME NEW s \in SessionSlots, NEW action \in Administering, RequireAuth(c, s, action)
        PROVE  \A v \in People : ~raced'[v] => ProofKept(v)'
    BY <1>7, <1>9, StagesAre DEF RequireAuth
  <1> QED BY <1>1, <1>2, <1>3, <1>4, <1>5, <1>6, <1>8, <1>9
          DEF Requests, HandleVerifyOtp, HandleVerifyTotp

\* A thread that has nothing to do with an entry, now or next, keeps them all.
LEMMA AsideKept ==
  ASSUME ProofInv, NEW c \in Conns, work[c].at \notin {"set", "reset", "stored"},
         work'[c].at \notin {"set", "reset", "stored"},
         \A d \in Conns : d # c => work'[d] = work[d],
         UNCHANGED <<proven, raced>>,
         \A v \in People : pendings'[v] = pendings[v] \/ pendings'[v] = Nil
  PROVE  \A v \in People : ~raced'[v] => ProofKept(v)'
  <1> SUFFICES ASSUME NEW v \in People  PROVE Leaves(v)
    BY LeavesKept
  <1> QED BY HandlingIs DEF Leaves

LEMMA SetsEntryKept ==
  ASSUME ProofInv, NEW c \in Conns, SetsEntry(c)
  PROVE  \A v \in People : ~raced'[v] => ProofKept(v)'
  <1>0. CameraTypeOK /\ ThreadsTyped /\ TablesTyped /\ ThreadTyped(work[c])
    BY ThreadsEach DEF ProofInv, CameraTypeOK
  <1>1. work[c].user \in People /\ work[c].at = "set"
    BY <1>0 DEF SetsEntry, ThreadTyped
  <1>2. work'[c].at = "rest" /\ \A d \in Conns : d # c => work'[d] = work[d]
    BY <1>0, RepliesThere DEF SetsEntry
  <1>3. /\ \A v \in People : v # work[c].user => pendings'[v] = pendings[v]
        /\ \/ pendings'[work[c].user] = work[c].copy
           \/ pendings'[work[c].user] = pendings[work[c].user]
    BY <1>0, <1>1 DEF SetsEntry, PendingWith, TablesTyped
  <1>4. UNCHANGED <<proven, raced>>
    BY DEF SetsEntry
  <1> SUFFICES ASSUME NEW v \in People, ~raced'[v]  PROVE ProofKept(v)'
    OBVIOUS
  <1>5. CASE v # work[c].user
    <2>1. Leaves(v)
      BY <1>1, <1>2, <1>3, <1>4, <1>5, HandlingIs DEF Leaves
    <2> QED BY <2>1, LeavesKept
  <1>6. CASE v = work[c].user
    <2>1. ProofKept(v) /\ c \in Handling(v)
      BY <1>1, <1>4, <1>6, HandlingIs DEF ProofInv
    <2>2. \A d \in Conns : d \in Handling(v) => d = c
      BY <2>1 DEF ProofKept
    <2>3. \A d \in Conns : d \notin Handling(v)'
      BY <1>2, <2>2, HandlingIs
    <2>4. pendings[v] # Nil /\ pendings[v].proved => proven[v]
      BY <1>1, <2>1, <2>2 DEF ProofKept
    <2>5. work[c].copy.proved => proven[v]
      BY <1>1, <2>1 DEF ProofKept
    <2> QED BY <1>3, <1>4, <1>6, <2>3, <2>4, <2>5 DEF ProofKept
  <1> QED BY <1>5, <1>6

LEMMA StoresHashKept ==
  ASSUME ProofInv, NEW c \in Conns, NEW h \in Hashes, StoresHash(c, h)
  PROVE  \A v \in People : ~raced'[v] => ProofKept(v)'
  <1>0. CameraTypeOK /\ ThreadsTyped /\ ThreadTyped(work[c]) /\ proven \in [People -> BOOLEAN]
    BY ThreadsEach DEF ProofInv, CameraTypeOK
  <1>1. work[c].user \in People /\ work[c].at = "reset"
    BY <1>0 DEF StoresHash, ThreadTyped
  <1>2. /\ work'[c] = [at |-> "stored", user |-> work[c].user, copy |-> Nil]
        /\ \A d \in Conns : d # c => work'[d] = work[d]
    BY <1>0 DEF StoresHash, Goes, ThreadsTyped
  <1>3. UNCHANGED <<pendings, raced>> /\ \A v \in People : v # work[c].user => proven'[v] = proven[v]
    BY <1>0, <1>1 DEF StoresHash
  <1> SUFFICES ASSUME NEW v \in People, ~raced'[v]  PROVE ProofKept(v)'
    OBVIOUS
  <1>4. CASE v # work[c].user
    <2>1. Leaves(v)
      BY <1>1, <1>2, <1>3, <1>4, HandlingIs DEF Leaves
    <2> QED BY <2>1, LeavesKept
  <1>5. CASE v = work[c].user
    <2>1. ProofKept(v) /\ c \in Handling(v)
      BY <1>1, <1>3, <1>5, HandlingIs DEF ProofInv
    <2>2. \A d \in Conns : d \in Handling(v) => d = c
      BY <2>1 DEF ProofKept
    <2>3. c \in Handling(v)' /\ \A d \in Conns : d \in Handling(v)' => d = c
      BY <1>2, <1>5, <2>2, HandlingIs
    <2>4. work'[c].at = "stored"
      BY <1>2
    <2> QED BY <2>3, <2>4 DEF ProofKept
  <1> QED BY <1>4, <1>5

LEMMA DeletesEntryKept ==
  ASSUME ProofInv, NEW c \in Conns, DeletesEntry(c)
  PROVE  \A v \in People : ~raced'[v] => ProofKept(v)'
  <1>0. CameraTypeOK /\ ThreadsTyped /\ TablesTyped /\ ThreadTyped(work[c])
    BY ThreadsEach DEF ProofInv, CameraTypeOK
  <1>1. work[c].user \in People
    BY <1>0 DEF DeletesEntry, ThreadTyped
  <1>2. work'[c].at \in {"issue", "rest"} /\ \A d \in Conns : d # c => work'[d] = work[d]
    BY <1>0, GoesThere, RepliesThere DEF DeletesEntry
  <1>3. /\ pendings'[work[c].user] = Nil
        /\ \A v \in People : v # work[c].user => pendings'[v] = pendings[v]
    BY <1>0, <1>1 DEF DeletesEntry, PendingSpent, PendingWithout, TablesTyped
  <1>4. UNCHANGED <<proven, raced>> /\ work[c].at \in {"verified", "stored"}
    BY DEF DeletesEntry
  <1>5. CASE work[c].at = "verified"
    BY <1>2, <1>3, <1>4, <1>5, AsideKept
  <1>6. CASE work[c].at = "stored"
    <2> SUFFICES ASSUME NEW v \in People, ~raced'[v]  PROVE ProofKept(v)'
      OBVIOUS
    <2>1. CASE v # work[c].user
      <3>1. Leaves(v)
        BY <1>2, <1>3, <1>4, <2>1, HandlingIs DEF Leaves
      <3> QED BY <3>1, LeavesKept
    <2>2. CASE v = work[c].user
      <3>1. ProofKept(v) /\ c \in Handling(v)
        BY <1>4, <1>6, <2>2, HandlingIs DEF ProofInv
      <3>2. \A d \in Conns : d \in Handling(v) => d = c
        BY <3>1 DEF ProofKept
      <3>3. \A d \in Conns : d \notin Handling(v)'
        BY <1>2, <3>2, HandlingIs
      <3> QED BY <1>3, <2>2, <3>3 DEF ProofKept
    <2> QED BY <2>1, <2>2
  <1> QED BY <1>4, <1>5, <1>6

LEMMA ContinuesKept ==
  ASSUME ProofInv, NEW c \in Conns, Continues(c)
  PROVE  \A v \in People : ~raced'[v] => ProofKept(v)'
  <1>0. ThreadsTyped
    BY DEF ProofInv, CameraTypeOK
  <1>1. ASSUME NEW at, NEW u, NEW copy, work[c].at \notin {"set", "reset", "stored"},
               at \notin {"set", "reset", "stored"}, Goes(c, at, u, copy) \/ Replies(c),
               UNCHANGED <<pendings, proven, raced>>
        PROVE  \A v \in People : ~raced'[v] => ProofKept(v)'
    <2>1. /\ work'[c].at \notin {"set", "reset", "stored"}
          /\ \A d \in Conns : d # c => work'[d] = work[d]
      BY <1>0, <1>1, GoesThere, RepliesThere
    <2> QED BY <1>1, <2>1, AsideKept
  <1>2. CASE CreatesSession(c)
    <2>1. /\ work[c].at \notin {"set", "reset", "stored"} /\ Replies(c)
          /\ UNCHANGED <<pendings, proven, raced>>
      BY <1>2 DEF CreatesSession
    <2> QED BY <1>1, <2>1
  <1>3. ASSUME NEW h \in Hashes, NEW role \in AddedRoles, Inserts(c, role, h)
        PROVE  \A v \in People : ~raced'[v] => ProofKept(v)'
    <2>1. /\ work[c].at \notin {"set", "reset", "stored"} /\ Replies(c)
          /\ UNCHANGED <<pendings, proven, raced>>
      BY <1>3 DEF Inserts
    <2> QED BY <1>1, <2>1
  <1>4. ASSUME NEW u \in People, HandleAddUser(c, u) \/ HandleRemoveUser(c, u)
        PROVE  \A v \in People : ~raced'[v] => ProofKept(v)'
    <2>1. /\ work[c].at \notin {"set", "reset", "stored"} /\ (Goes(c, "insert", u, Nil) \/ Replies(c))
          /\ UNCHANGED <<pendings, proven, raced>>
      BY <1>4 DEF HandleAddUser, HandleRemoveUser, accountState
    <2> QED BY <1>1, <2>1
  <1>5. ASSUME NEW action, action \notin {"set", "reset", "stored"}, Finishes(c, action)
        PROVE  \A v \in People : ~raced'[v] => ProofKept(v)'
    <2>1. /\ work[c].at \notin {"set", "reset", "stored"} /\ Replies(c)
          /\ UNCHANGED <<pendings, proven, raced>>
      BY <1>5 DEF Finishes, accountState
    <2> QED BY <1>1, <2>1
  <1>6. CASE HandleDeviceReboot(c) \/ HandleStartStream(c) \/ HandleStopStream(c) \/ StreamStopped(c)
    <2>1. /\ work[c].at \notin {"set", "reset", "stored"}
          /\ Goes(c, "stopping", work[c].user, Nil) \/ Replies(c)
          /\ UNCHANGED <<pendings, proven, raced>>
      BY <1>6 DEF HandleDeviceReboot, HandleStartStream, HandleStopStream, StreamStopped, accountState
    <2> QED BY <1>1, <2>1
  <1> QED BY <1>2, <1>3, <1>4, <1>5, <1>6, SetsEntryKept, StoresHashKept, DeletesEntryKept
          DEF Continues, HandleSecureData, HandleDeviceStatus, HandleNetworkReset,
              HandleConfigReset, HandleFactoryReset, HasNoCamera

LEMMA CameraNextKept ==
  ASSUME ProofInv, [CameraNext]_cameraVars
  PROVE  \A v \in People : ~raced'[v] => ProofKept(v)'
  <1>0. CameraTypeOK /\ ThreadsTyped /\ TablesTyped
    BY DEF ProofInv, CameraTypeOK
  <1>1. ASSUME UNCHANGED <<work, proven, raced>>,
               \A v \in People : pendings'[v] = pendings[v] \/ pendings'[v] = Nil
        PROVE  \A v \in People : ~raced'[v] => ProofKept(v)'
    <2> SUFFICES ASSUME NEW v \in People  PROVE Leaves(v)
      BY LeavesKept
    <2> QED BY <1>1, HandlingIs DEF Leaves
  <1>2. ASSUME NEW u \in People, PendingLapses(u) \/ HandleResendTotp(u)
        PROVE  \A v \in People : ~raced'[v] => ProofKept(v)'
    <2>1. \A v \in People : pendings'[v] = pendings[v] \/ pendings'[v] = Nil
      BY <1>0, <1>2 DEF PendingLapses, PendingWithout, HandleResendTotp, TablesTyped
    <2>2. UNCHANGED <<work, proven, raced>>
      BY <1>2 DEF PendingLapses, HandleResendTotp
    <2> QED BY <1>1, <2>1, <2>2
  <1>3. ASSUME NEW s \in SessionSlots, SessionLapses(s) \/ HandleLogout(s)
        PROVE  \A v \in People : ~raced'[v] => ProofKept(v)'
    <2>1. UNCHANGED <<pendings, work, proven, raced>>
      BY <1>3 DEF SessionLapses, HandleLogout
    <2> QED BY <1>1, <2>1
  <1>4. ASSUME NEW p \in Pids, ChildEnds(p)  PROVE \A v \in People : ~raced'[v] => ProofKept(v)'
    <2>1. UNCHANGED <<pendings, work, proven, raced>>
      BY <1>4 DEF ChildEnds, accountState
    <2> QED BY <1>1, <2>1
  <1>5. CASE SecondPasses
    <2> SUFFICES ASSUME NEW v \in People  PROVE Leaves(v)
      BY LeavesKept
    <2>1. UNCHANGED <<proven, raced>>
      BY <1>5 DEF SecondPasses
    <2>2. pendings'[v] # Nil => pendings[v] # Nil /\ pendings'[v].proved = pendings[v].proved
      <3>1. pendings'[v] = IF pendings[v] = Nil \/ pendings[v].left = 0 THEN pendings[v]
                           ELSE [pendings[v] EXCEPT !.left = @ - 1]
        BY <1>0, <1>5 DEF SecondPasses, Older, TablesTyped
      <3>2. pendings[v] # Nil => pendings[v] \in PendingEntry
        BY <1>0 DEF TablesTyped
      <3>3. pendings[v] \in PendingEntry =>
              [pendings[v] EXCEPT !.left = @ - 1].proved = pendings[v].proved
        BY DEF PendingEntry
      <3> QED BY <3>1, <3>2, <3>3
    <2>3. ASSUME NEW d \in Conns
          PROVE  /\ work'[d].at = work[d].at /\ work'[d].user = work[d].user
                 /\ work'[d].copy.proved = work[d].copy.proved
      <3>1. ThreadTyped(work[d])
        BY <1>0, ThreadsEach
      <3>2. CASE work[d].at = "set" /\ work[d].copy.left > 0
        <4>1. work'[d] = [work[d] EXCEPT !.copy.left = @ - 1] /\ work[d].copy \in PendingEntry
          BY <1>5, <3>1, <3>2 DEF SecondPasses, ThreadTyped
        <4> QED BY <3>1, <4>1 DEF ThreadTyped, PendingEntry
      <3>3. CASE ~(work[d].at = "set" /\ work[d].copy.left > 0)
        BY <1>5, <3>3 DEF SecondPasses
      <3> QED BY <3>2, <3>3
    <2> QED BY <2>1, <2>2, <2>3, HandlingIs DEF Leaves
  <1>6. CASE ServerRestarts
    <2>1. \A v \in People : pendings'[v] = Nil
      BY <1>6 DEF ServerRestarts, Booted
    <2>2. \A d \in Conns : work'[d].at = "rest"
      BY <1>6 DEF ServerRestarts, Booted, AtRest
    <2>3. \A v \in People, d \in Conns : d \notin Handling(v)'
      BY <2>2, HandlingIs
    <2> QED BY <2>1, <2>3 DEF ProofKept
  <1>7. CASE UNCHANGED cameraVars
    BY <1>1, <1>7 DEF cameraVars
  <1> QED BY <1>2, <1>3, <1>4, <1>5, <1>6, <1>7, RequestsKept, ContinuesKept DEF CameraNext

\* What a step may do to the account of u.
ByProof(u) ==
  rows[u] # Nil /\ rows'[u] # Nil =>
    /\ rows'[u].role = rows[u].role /\ rows'[u].email = rows[u].email
    /\ rows[u].totp => rows'[u].totp
    /\ rows'[u].hash # rows[u].hash => proven[u] \/ raced[u]

LEMMA RowsByProof ==
  ASSUME ProofInv, [CameraNext]_cameraVars, NEW u \in People
  PROVE  ByProof(u)
  <1>0. /\ CameraTypeOK /\ TablesTyped /\ \A c \in Conns : ThreadTyped(work[c])
        /\ rows \in [People -> UserRecord \cup {Nil}] /\ (rows[u] # Nil => rows[u] \in UserRecord)
    BY ThreadsEach DEF ProofInv, CameraTypeOK, TablesTyped
  <1>1. ASSUME rows'[u] = rows[u] \/ rows[u] = Nil \/ rows'[u] = Nil  PROVE ByProof(u)
    BY <1>1 DEF ByProof
  <1>2. ASSUME NEW c \in Conns, NEW h \in Hashes, StoresHash(c, h)  PROVE ByProof(u)
    <2>1. work[c].at = "reset" /\ work[c].user \in People
      BY <1>0, <1>2 DEF StoresHash, ThreadTyped
    <2>2. CASE u # work[c].user \/ rows[u] = Nil
      BY <1>0, <1>1, <1>2, <2>1, <2>2 DEF StoresHash, WithHash, HasAccount
    <2>3. CASE u = work[c].user /\ rows[u] # Nil
      <3>1. rows'[u] = [rows[u] EXCEPT !.hash = h]
        BY <1>0, <1>2, <2>3 DEF StoresHash, WithHash, HasAccount
      <3>2. proven[u] \/ raced[u]
        <4>1. c \in Handling(u)
          BY <2>1, <2>3, HandlingIs
        <4> QED BY <2>1, <4>1 DEF ProofInv, ProofKept
      <3> QED BY <1>0, <2>3, <3>1, <3>2 DEF ByProof, UserRecord
    <2> QED BY <2>2, <2>3
  <1>3. ASSUME NEW c \in Conns, NEW h \in Hashes, NEW role \in AddedRoles, Inserts(c, role, h)
        PROVE  ByProof(u)
    <2>1. rows[u] = Nil \/ rows'[u] = rows[u]
      BY <1>0, <1>3 DEF Inserts, Inserted
    <2> QED BY <1>1, <2>1
  <1>4. ASSUME NEW c \in Conns, NEW v \in People, HandleRemoveUser(c, v)  PROVE ByProof(u)
    <2>1. rows'[u] = Nil \/ rows'[u] = rows[u]
      BY <1>0, <1>4 DEF HandleRemoveUser, RowsWithout
    <2> QED BY <1>1, <2>1
  <1>5. ASSUME NEW v \in People, HandleResendTotp(v)  PROVE ByProof(u)
    <2>1. CASE u # v
      BY <1>0, <1>1, <1>5, <2>1 DEF HandleResendTotp, WithSecret
    <2>2. CASE u = v
      <3>1. rows[u] # Nil /\ rows'[u] = [rows[u] EXCEPT !.totp = TRUE]
        BY <1>0, <1>5, <2>2 DEF HandleResendTotp, WithSecret, HasMail, HasAccount
      <3> QED BY <1>0, <3>1 DEF ByProof, UserRecord
    <2> QED BY <2>1, <2>2
  <1>6. CASE ServerRestarts
    <2>1. rows[u] = Nil \/ rows'[u] = rows[u]
      BY <1>0, <1>6 DEF ServerRestarts, WithSeeds
    <2> QED BY <1>1, <2>1
  <1>7. ASSUME UNCHANGED rows  PROVE ByProof(u)
    BY <1>1, <1>7
  <1>8. ASSUME NEW c \in Conns, Requests(c)  PROVE UNCHANGED rows
    BY <1>8 DEF Requests, HandleLogin, HandleSendEmailOtp, HandleVerifyOtp, HandleVerifyTotp,
       HandleForgotSendEmail, HandleForgotVerifyOtp, HandleForgotVerifyTotp, HandleResetPassword,
       RequireAuth, Begins, Verifies, accountState
  <1>9. ASSUME NEW c \in Conns, Continues(c)  PROVE ByProof(u)
    <2>1. ASSUME SetsEntry(c) \/ DeletesEntry(c) \/ CreatesSession(c)  PROVE UNCHANGED rows
      BY <2>1 DEF SetsEntry, DeletesEntry, CreatesSession
    <2>2. ASSUME NEW action, Finishes(c, action)  PROVE UNCHANGED rows
      BY <2>2 DEF Finishes, accountState
    <2>3. ASSUME \/ HandleDeviceReboot(c) \/ HandleStartStream(c) \/ HandleStopStream(c)
                 \/ StreamStopped(c)
          PROVE  UNCHANGED rows
      BY <2>3 DEF HandleDeviceReboot, HandleStartStream, HandleStopStream, StreamStopped, accountState
    <2>4. ASSUME NEW v \in People, HandleAddUser(c, v)  PROVE UNCHANGED rows
      BY <2>4 DEF HandleAddUser, accountState
    <2> QED BY <1>2, <1>3, <1>4, <1>7, <1>9, <2>1, <2>2, <2>3, <2>4
            DEF Continues, HandleSecureData, HandleDeviceStatus, HandleNetworkReset,
                HandleConfigReset, HandleFactoryReset, HasNoCamera
  <1>10. ASSUME NEW v \in People, PendingLapses(v)  PROVE UNCHANGED rows
    BY <1>10 DEF PendingLapses
  <1>11. ASSUME NEW s \in SessionSlots, SessionLapses(s) \/ HandleLogout(s)  PROVE UNCHANGED rows
    BY <1>11 DEF SessionLapses, HandleLogout
  <1>12. ASSUME NEW p \in Pids, ChildEnds(p)  PROVE UNCHANGED rows
    BY <1>12 DEF ChildEnds, accountState
  <1>13. CASE SecondPasses
    BY <1>7, <1>13 DEF SecondPasses
  <1>14. CASE UNCHANGED cameraVars
    BY <1>7, <1>14 DEF cameraVars
  <1> QED BY <1>5, <1>6, <1>7, <1>8, <1>9, <1>10, <1>11, <1>12, <1>13, <1>14 DEF CameraNext

(* For any accounts, any number of threads and any restarts, an account     *)
(* keeps its role, address and authenticator, and its password changes only *)
(* by a code or a TOTP that no reset has used yet, unless two requests      *)
(* about its pending entry have overlapped: the reset deletes the entry it  *)
(* used (server_version1.c:728), and nobody writes an older one back.       *)
THEOREM PasswordsChangeByProof == CameraSpec => AccountsChangeByProof
  <1>1. CameraInit => ProofInv
    BY CameraInitTyped DEF CameraInit, AtRest, ProofInv, ProofKept, Handling
  <1>2. ProofInv /\ [CameraNext]_cameraVars => ProofInv'
    BY CameraNextTyped, CameraNextKept DEF ProofInv
  <1>3. ASSUME ProofInv, [CameraNext]_cameraVars
        PROVE  [\A u \in People : rows[u] # Nil /\ rows'[u] # Nil =>
                  /\ rows'[u].role = rows[u].role /\ rows'[u].email = rows[u].email
                  /\ rows[u].totp => rows'[u].totp
                  /\ rows'[u].hash # rows[u].hash => proven[u] \/ raced[u]]_cameraVars
    BY <1>3, RowsByProof DEF ByProof
  <1> QED BY <1>1, <1>2, <1>3, PTL DEF CameraSpec, AccountsChangeByProof
================================================================================
