--------------------------- MODULE StreamManager ---------------------------
(***************************************************************************)
(* The shared-encoder table of one lens: sys_stream.c, with the table part *)
(* of capture_pipeline_add_branch / _remove_branch from sys_capture.c.     *)
(*                                                                         *)
(* Every operator below is one critical section of mgr_lock (or, for       *)
(* RemoveBranch, of branch_mutex), so a caller that makes two calls takes  *)
(* two steps and other threads run in between.  An operator primes exactly *)
(* the variables of this module.                                           *)
(*                                                                         *)
(* A ManagedStream is named by its generation, the instance number that    *)
(* g_shared_instance_counter puts in its branch name: the key "lens:tier"  *)
(* is reused by successive streams, the generation never is.               *)
(***************************************************************************)
EXTENDS Integers, FiniteSets

CONSTANT Tiers      \* the tiers of the lens: main, sub, third, ...

VARIABLES
    streams,        \* "lens:tier" -> ManagedStream, NoStream when absent
    branches,       \* generations in the capture's dynamic_branches table
    nextGen,        \* g_shared_instance_counter
    nextHandler     \* next_handler_id

smVars == <<streams, branches, nextGen, nextHandler>>

\* g_hash_table_lookup on an absent key.
NoStream == [gen |-> 0, ref |-> 0, subs |-> {}, cap |-> 0]

StreamRecord == [gen : Nat, ref : Int, subs : SUBSET Nat, cap : Nat]

SMTypeOK ==
    /\ streams \in [Tiers -> StreamRecord]
    /\ branches \in SUBSET Nat
    /\ nextGen \in Nat \ {0}
    /\ nextHandler \in Nat \ {0}

SMInit ==
    /\ streams = [t \in Tiers |-> NoStream]
    /\ branches = {}
    /\ nextGen = 1
    /\ nextHandler = 1

Present(t) == streams[t].gen # 0                       \* is_active

----------------------------------------------------------------------------
(* stream_manager_acquire *)

\* Mutant: the existing stream is returned without counting the new user.
AcquireExistingUncounted(t) ==
    /\ Present(t)
    /\ UNCHANGED <<streams, branches, nextGen, nextHandler>>

\* An existing stream is shared as it is: its codec, size and capture are
\* those of the first user.
AcquireExisting(t) ==
    /\ Present(t)
    /\ streams' = [streams EXCEPT ![t].ref = @ + 1]
    /\ UNCHANGED <<branches, nextGen, nextHandler>>

\* The first user builds the encoder on capture c.  A capture that has been
\* freed (live = FALSE) still answers, but the branch hangs off nothing.
AcquireNew(t, c, live) ==
    /\ ~Present(t)
    /\ streams' = [streams EXCEPT
                     ![t] = [gen |-> nextGen, ref |-> 1, subs |-> {}, cap |-> c]]
    /\ branches' = IF live THEN branches \cup {nextGen} ELSE branches
    /\ nextGen' = nextGen + 1
    /\ UNCHANGED nextHandler

\* Mutant: the stream enters the table before its branch is known to exist.
AcquireFailsInTable(t) ==
    /\ ~Present(t)
    /\ streams' = [streams EXCEPT
                     ![t] = [gen |-> nextGen, ref |-> 1, subs |-> {}, cap |-> 0]]
    /\ nextGen' = nextGen + 1
    /\ UNCHANGED <<branches, nextHandler>>

\* The encoder, the appsink or the branch cannot be built.
AcquireFails(t) ==
    /\ ~Present(t)
    /\ nextGen' = nextGen + 1
    /\ UNCHANGED <<streams, branches, nextHandler>>

\* The generation an acquire that succeeds hands to its caller.
AcquiredGen(t) == IF Present(t) THEN streams[t].gen ELSE nextGen

----------------------------------------------------------------------------
(* stream_manager_subscribe, stream_manager_unsubscribe *)

Subscribe(t) ==
    /\ streams' = IF Present(t)
                  THEN [streams EXCEPT ![t].subs = @ \cup {nextHandler}]
                  ELSE streams
    /\ nextHandler' = IF Present(t) THEN nextHandler + 1 ELSE nextHandler
    /\ UNCHANGED <<branches, nextGen>>

SubscribedHandler(t) == IF Present(t) THEN nextHandler ELSE 0

\* Looks the stream up by name: after a rebuild this is not the stream the
\* handler was issued for.
Unsubscribe(t, h) ==
    /\ streams' = [streams EXCEPT ![t].subs = @ \ {h}]
    /\ UNCHANGED <<branches, nextGen, nextHandler>>

----------------------------------------------------------------------------
(* stream_manager_release and stream_manager_force_teardown *)

\* Mutant: the count is tested before it is decremented.
LastReleaseLate(t) == Present(t) /\ streams[t].ref <= 0

LastRelease(t) == Present(t) /\ streams[t].ref <= 1

\* The part under mgr_lock; the caller goes on to RemoveBranch on the
\* generation DroppedBranch returned, after the lock is dropped.
Release(t) ==
    /\ streams' =
         IF LastRelease(t) THEN [streams EXCEPT ![t] = NoStream]
         ELSE IF Present(t) THEN [streams EXCEPT ![t].ref = @ - 1]
         ELSE streams
    /\ UNCHANGED <<branches, nextGen, nextHandler>>

\* Mutant: the branch name is read after the stream was freed.
DroppedBranchLost(t) == 0

DroppedBranch(t) == IF LastRelease(t) THEN streams[t].gen ELSE 0

\* Drops the table entry whatever its count and leaves the branch alone.
ForceTeardown(t) ==
    /\ streams' = [streams EXCEPT ![t] = NoStream]
    /\ UNCHANGED <<branches, nextGen, nextHandler>>

----------------------------------------------------------------------------
(* capture_pipeline_remove_branch: stealing the entry from dynamic_branches; *)
(* the asynchronous rest is module BranchTeardown.                           *)

RemoveBranch(g) ==
    /\ branches' = branches \ {g}
    /\ UNCHANGED <<streams, nextGen, nextHandler>>
=============================================================================
