------------------------------ MODULE MCAccounts ------------------------------
(* The control plane or the SmartCamera server: the first with a password    *)
(* that passes the policy and one that does not; the second with its         *)
(* administrator working the stream, or with requests about accounts until   *)
(* two of them race.                                                         *)
EXTENDS Accounts, CameraServer, TLC

CONSTANTS admin, alice, h1

VARIABLE runs

eitherVars == <<accountsVars, cameraVars, runs>>

MCPasswords == {[length |-> 8, classes |-> Classes],
                [length |-> 9, classes |-> Classes \ {"special"}]}
MCSeedRole == admin :> "admin" @@ alice :> "viewer"
NoTable == [u \in People |-> Nil]
MCOldTables == {NoTable, [NoTable EXCEPT ![alice] =
                  [role |-> "viewer", email |-> TRUE, totp |-> FALSE, hash |-> h1]]}
Symmetric == Permutations(Codes) \cup Permutations(Conns)

OnAccounts == {"reset", "stored", "insert", "manage:add-user", "manage:remove-user"}
OnStream == Administering \ OnAccounts

AtWork == {work'[c].at : c \in Conns}

StreamIsWorked ==
  /\ AtWork \cap OnAccounts = {}
  /\ \A c \in Conns : work'[c].user # alice
  /\ \A u \in People : ~raced'[u] /\ ~proven'[u]

AccountsAreWorked ==
  /\ AtWork \cap OnStream = {}
  /\ \A u \in People : ~raced[u]

EitherInit ==
  /\ AccountsInit /\ CameraInit
  /\ runs \in IF rows = WithSeeds(NoTable) THEN {"plane", "stream", "accounts"}
             ELSE {"accounts"}

EitherNext ==
  /\ \/ runs = "plane" /\ AccountsNext /\ UNCHANGED cameraVars
     \/ /\ runs # "plane" /\ CameraNext /\ UNCHANGED accountsVars
        /\ \/ runs = "stream" /\ StreamIsWorked
           \/ runs = "accounts" /\ AccountsAreWorked
  /\ UNCHANGED runs

EitherSpec == EitherInit /\ [][EitherNext]_eitherVars
===============================================================================
