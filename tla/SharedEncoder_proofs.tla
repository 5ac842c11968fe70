----------------------- MODULE SharedEncoder_proofs -----------------------
(***************************************************************************)
(* What holds of SharedEncoder for every set of tiers and factories: under *)
(* every combination of rebuilds, failures and StopLens its types, the     *)
(* bound on its counts, its subscriptions and its branches; without them   *)
(* the exact counts, and that it implements OnDemandEncoder.               *)
(***************************************************************************)
EXTENDS SharedEncoder, FiniteSetTheorems, TLAPS

----------------------------------------------------------------------------
(* Type correctness *)

\* The operations of the stream table keep the table's type.
LEMMA StreamOps ==
    ASSUME SMTypeOK, NEW t \in Tiers
    PROVE  /\ \A c \in Nat, live \in BOOLEAN :
                 AcquireExisting(t) \/ AcquireNew(t, c, live) \/ AcquireFails(t)
                   => SMTypeOK' /\ AcquiredGen(t) \in Nat
           /\ Subscribe(t) => SMTypeOK' /\ SubscribedHandler(t) \in Nat
           /\ \A h \in Nat : Unsubscribe(t, h) => SMTypeOK'
           /\ Release(t) => SMTypeOK'
           /\ DroppedBranch(t) \in Nat
           /\ ForceTeardown(t) => SMTypeOK'
           /\ \A g \in Nat : RemoveBranch(g) => SMTypeOK'
<1>1. ASSUME NEW c \in Nat, NEW live \in BOOLEAN, AcquireExisting(t)
      PROVE  SMTypeOK'
  BY <1>1 DEF AcquireExisting, SMTypeOK, StreamRecord
<1>2. ASSUME NEW c \in Nat, NEW live \in BOOLEAN, AcquireNew(t, c, live)
      PROVE  SMTypeOK'
  BY <1>2 DEF AcquireNew, SMTypeOK, StreamRecord
<1>3. AcquireFails(t) => SMTypeOK'
  BY DEF AcquireFails, SMTypeOK, StreamRecord
<1>4. AcquiredGen(t) \in Nat
  BY DEF AcquiredGen, SMTypeOK, StreamRecord
<1>5. Subscribe(t) => SMTypeOK'
  BY DEF Subscribe, SMTypeOK, StreamRecord
<1>6. SubscribedHandler(t) \in Nat
  BY DEF SubscribedHandler, SMTypeOK
<1>7. \A h \in Nat : Unsubscribe(t, h) => SMTypeOK'
  BY DEF Unsubscribe, SMTypeOK, StreamRecord
<1>8. Release(t) => SMTypeOK'
  BY DEF Release, SMTypeOK, StreamRecord, NoStream
<1>9. DroppedBranch(t) \in Nat
  BY DEF DroppedBranch, SMTypeOK, StreamRecord
<1>10. ForceTeardown(t) => SMTypeOK'
  BY DEF ForceTeardown, SMTypeOK, StreamRecord, NoStream
<1>11. \A g \in Nat : RemoveBranch(g) => SMTypeOK'
  BY DEF RemoveBranch, SMTypeOK
<1> QED
  BY <1>1, <1>2, <1>3, <1>4, <1>5, <1>6, <1>7, <1>8, <1>9, <1>10, <1>11

\* Steps that leave the table alone keep its type.
LEMMA StreamStutter == SMTypeOK /\ UNCHANGED smVars => SMTypeOK'
  BY DEF SMTypeOK, smVars

LEMMA IdleType == Idle \in MainRecord
  BY UsersAssumption DEF Idle, MainPC, MainRecord

\* A factory's media callbacks keep the types.
LEMMA RtspTypes ==
    ASSUME TypeOK, NEW f \in Factories,
           RtspStep(f) \/ Connect(f) \/ UnpreparedUnsubscribe(f)
    PROVE  TypeOK'
<1> DEFINE t == rtsp[f].tier
<1>a. SMTypeOK /\ EngineTypeOK
  BY DEF TypeOK
<1>b. t \in Tiers /\ rtsp[f].cap \in Nat /\ rtsp[f].handler \in Nat
      /\ rtsp[f].dropped \in Nat /\ f \in Users /\ rtsp[f] \in MediaRecord
  BY <1>a DEF Users, EngineTypeOK, MediaRecord
<1>c. Alive(rtsp[f].cap) \in BOOLEAN
  BY <1>a DEF Alive, EngineTypeOK
<1>d. \A r \in MediaRecord, pc \in MediaPC, n \in Nat :
        /\ [r EXCEPT !.pc = pc] \in MediaRecord
        /\ [r EXCEPT !.pc = pc, !.handler = n] \in MediaRecord
        /\ [r EXCEPT !.pc = pc, !.dropped = n] \in MediaRecord
  BY DEF MediaRecord
<1>e. \A r \in MediaRecord : EngineTypeOK =>
        [rtsp EXCEPT ![f] = r] \in [Factories -> MediaRecord]
  BY DEF EngineTypeOK
<1>1. CASE Connect(f)
  BY <1>1, <1>a, <1>b, <1>d, <1>e, StreamStutter
  DEF Connect, MediaPC, EngineTypeOK, TypeOK
<1>2. CASE ConfigureAcquire(f)
  <2>1. SMTypeOK' /\ AcquiredGen(t) \in Nat
    BY <1>2, <1>a, <1>b, <1>c, StreamOps DEF ConfigureAcquire
  <2>2. EngineTypeOK'
    BY <1>2, <1>a, <1>b, <1>d, <1>e, <2>1 DEF ConfigureAcquire, MediaPC, EngineTypeOK
  <2> QED BY <2>1, <2>2 DEF TypeOK
<1>3. CASE ConfigureFails(f)
  <2>1. SMTypeOK'
    BY <1>3, <1>a, <1>b, StreamOps DEF ConfigureFails
  <2>2. EngineTypeOK'
    BY <1>3, <1>a, <1>b, <1>d, <1>e DEF ConfigureFails, MediaPC, EngineTypeOK
  <2> QED BY <2>1, <2>2 DEF TypeOK
<1>4. CASE ConfigureSubscribe(f)
  <2>1. SMTypeOK' /\ SubscribedHandler(t) \in Nat
    BY <1>4, <1>a, <1>b, StreamOps DEF ConfigureSubscribe
  <2>2. EngineTypeOK'
    BY <1>4, <1>a, <1>b, <1>d, <1>e, <2>1 DEF ConfigureSubscribe, MediaPC, EngineTypeOK
  <2> QED BY <2>1, <2>2 DEF TypeOK
<1>5. CASE UnpreparedUnsubscribe(f)
  <2>1. SMTypeOK'
    BY <1>5, <1>a, <1>b, StreamOps DEF UnpreparedUnsubscribe
  <2>2. EngineTypeOK'
    BY <1>5, <1>a, <1>b, <1>d, <1>e DEF UnpreparedUnsubscribe, MediaPC, EngineTypeOK
  <2> QED BY <2>1, <2>2 DEF TypeOK
<1>6. CASE UnpreparedRelease(f)
  <2>1. SMTypeOK' /\ DroppedBranch(t) \in Nat
    BY <1>6, <1>a, <1>b, StreamOps DEF UnpreparedRelease
  <2>2. EngineTypeOK'
    BY <1>6, <1>a, <1>b, <1>d, <1>e, <2>1 DEF UnpreparedRelease, MediaPC, EngineTypeOK
  <2> QED BY <2>1, <2>2 DEF TypeOK
<1>7. CASE UnpreparedRemoveBranch(f)
  <2>1. SMTypeOK'
    BY <1>7, <1>a, <1>b, StreamOps DEF UnpreparedRemoveBranch
  <2>2. EngineTypeOK'
    BY <1>7, <1>a, <1>b, <1>d, <1>e DEF UnpreparedRemoveBranch, MediaPC, EngineTypeOK
  <2> QED BY <2>1, <2>2 DEF TypeOK
<1> QED
  BY <1>1, <1>2, <1>3, <1>4, <1>5, <1>6, <1>7 DEF RtspStep

\* So do the steps of the main loop.
HlsAction(t) == StartHls(t) \/ StartHlsFails(t) \/ StopHls(t) \/ ReapHls(t)

ConfigureAction ==
    \/ \E request \in SUBSET Tiers, cairo \in BOOLEAN : ConfigureLens(request, cairo)
    \/ StopLens

LEMMA MainTypes ==
    ASSUME TypeOK,
           MainStep \/ ConfigureAction \/ \E t \in Tiers : HlsAction(t)
    PROVE  TypeOK'
<1>a. SMTypeOK /\ EngineTypeOK
  BY DEF TypeOK
<1>b. /\ main \in MainRecord /\ main.tier \in Tiers /\ main.gen \in Nat
      /\ capture.id \in Nat /\ Tiers \subseteq Users
  BY <1>a DEF EngineTypeOK, MainRecord, Users
<1>c. \A t \in Tiers : streams[t].gen \in Nat /\ hls[t].handler \in Nat
  BY <1>a DEF SMTypeOK, StreamRecord, EngineTypeOK
<1> DEFINE m == main.tier
<1>1. ASSUME NEW t \in Tiers, StartHls(t) PROVE TypeOK'
  <2>1. SMTypeOK' /\ AcquiredGen(t) \in Nat
    BY <1>1, <1>a, <1>b, StreamOps DEF StartHls
  <2>2. main' \in MainRecord
    BY <1>1, <1>b DEF StartHls, MainPC, MainRecord
  <2>3. held' \in [Users -> Nat]
    BY <1>1, <1>a, <1>b, <2>1 DEF StartHls, EngineTypeOK
  <2> QED BY <1>1, <1>a, <2>1, <2>2, <2>3 DEF TypeOK, EngineTypeOK, StartHls
<1>2. ASSUME NEW t \in Tiers, StartHlsFails(t) PROVE TypeOK'
  <2>1. SMTypeOK'
    BY <1>2, <1>a, <1>b, StreamOps DEF StartHlsFails
  <2> QED BY <1>2, <1>a, <2>1 DEF TypeOK, EngineTypeOK, StartHlsFails, engineVars
<1>3. ASSUME NEW t \in Tiers, NEW pc \in {"release", "reap"}, RemoveHls(t, pc)
      PROVE  TypeOK'
  <2>1. SMTypeOK'
    BY <1>3, <1>a, <1>c, StreamOps DEF RemoveHls
  <2>2. main' \in MainRecord
    BY <1>3, <1>b DEF RemoveHls, MainPC, MainRecord
  <2> QED BY <1>3, <1>a, <2>1, <2>2 DEF TypeOK, EngineTypeOK, RemoveHls
<1>4. CASE HlsSubscribe
  <2>1. SMTypeOK' /\ SubscribedHandler(m) \in Nat
    BY <1>4, <1>a, <1>b, StreamOps DEF HlsSubscribe
  <2> QED BY <1>4, <1>a, <2>1, IdleType DEF TypeOK, EngineTypeOK, HlsSubscribe
<1>5. CASE HlsLaunchFails
  BY <1>5, <1>a, IdleType, StreamStutter DEF TypeOK, EngineTypeOK, HlsLaunchFails
<1>6. CASE ReapCheck
  <2>1. main' \in MainRecord
    BY <1>6, <1>b, IdleType DEF ReapCheck, MainPC, MainRecord
  <2> QED BY <1>6, <1>a, <2>1, StreamStutter DEF TypeOK, EngineTypeOK, ReapCheck
<1>7. CASE HlsRelease
  <2>1. SMTypeOK' /\ DroppedBranch(m) \in Nat
    BY <1>7, <1>a, <1>b, StreamOps DEF HlsRelease
  <2>2. main' \in MainRecord
    BY <1>7, <1>b, <2>1, IdleType DEF HlsRelease, MainPC, MainRecord
  <2> QED BY <1>7, <1>a, <2>1, <2>2 DEF TypeOK, EngineTypeOK, HlsRelease
<1>8. CASE HlsRemoveBranch
  <2>1. SMTypeOK'
    BY <1>8, <1>a, <1>b, StreamOps DEF HlsRemoveBranch
  <2> QED BY <1>8, <1>a, <2>1, IdleType DEF TypeOK, EngineTypeOK, HlsRemoveBranch
<1>9. ASSUME NEW request \in SUBSET Tiers, NEW cairo \in BOOLEAN,
             ConfigureLens(request, cairo)
      PROVE  TypeOK'
  <2>1. main' \in MainRecord
    BY <1>9, <1>b DEF ConfigureLens, MainPC, MainRecord
  <2> QED BY <1>9, <1>a, <2>1, StreamStutter DEF TypeOK, EngineTypeOK, ConfigureLens
<1>10. ASSUME NEW t \in Tiers, AuditTeardown(t) PROVE TypeOK'
  <2>1. SMTypeOK'
    BY <1>10, <1>a, StreamOps DEF AuditTeardown
  <2>2. main' \in MainRecord
    BY <1>10, <1>b DEF AuditTeardown, MainRecord
  <2> QED BY <1>10, <1>a, <2>1, <2>2 DEF TypeOK, EngineTypeOK, AuditTeardown
<1>11. CASE EnsureCapture
  <2>1. main' \in MainRecord
    BY <1>11, <1>b DEF EnsureCapture, MainPC, MainRecord
  <2>2. capture' \in [id : Nat, live : BOOLEAN]
    BY <1>11, <1>a DEF EnsureCapture, EngineTypeOK
  <2> QED BY <1>11, <1>a, <2>1, <2>2, StreamStutter DEF TypeOK, EngineTypeOK, EnsureCapture
<1>12. ASSUME NEW t \in Tiers, DynamicUpdate(t) PROVE TypeOK'
  <2>1. main' \in MainRecord
    BY <1>12, <1>b DEF DynamicUpdate, MainRecord
  <2> QED BY <1>12, <1>a, <2>1, StreamStutter DEF TypeOK, EngineTypeOK, DynamicUpdate
<1>13. ASSUME NEW t \in Tiers, StaticChange(t) PROVE TypeOK'
  <2>1. main' \in MainRecord
    BY <1>13, <1>b DEF StaticChange, MainPC, MainRecord
  <2>2. mount' \in [Tiers -> Factories \cup {NoFactory}]
    BY <1>13, <1>a DEF StaticChange, EngineTypeOK
  <2> QED BY <1>13, <1>a, <2>1, <2>2, StreamStutter DEF TypeOK, EngineTypeOK, StaticChange
<1>14. ASSUME NEW t \in Tiers, NewTier(t) PROVE TypeOK'
  <2>1. main' \in MainRecord
    BY <1>14, <1>b DEF NewTier, MainPC, MainRecord
  <2> QED BY <1>14, <1>a, <2>1, StreamStutter DEF TypeOK, EngineTypeOK, NewTier
<1>15. CASE ReadBranchName
  <2>1. main' \in MainRecord
    BY <1>15, <1>b, <1>c DEF ReadBranchName, MainPC, MainRecord
  <2> QED BY <1>15, <1>a, <2>1, StreamStutter DEF TypeOK, EngineTypeOK, ReadBranchName
<1>16. CASE RemoveLiveBranch
  <2>1. SMTypeOK'
    BY <1>16, <1>a, <1>b, StreamOps, StreamStutter DEF RemoveLiveBranch
  <2>2. main' \in MainRecord
    BY <1>16, <1>b DEF RemoveLiveBranch, MainPC, MainRecord
  <2> QED BY <1>16, <1>a, <2>1, <2>2 DEF TypeOK, EngineTypeOK, RemoveLiveBranch
<1>17. CASE RebuildTeardown
  <2>1. SMTypeOK'
    BY <1>17, <1>a, <1>b, StreamOps DEF RebuildTeardown
  <2>2. main' \in MainRecord
    BY <1>17, <1>b DEF RebuildTeardown, MainPC, MainRecord
  <2> QED BY <1>17, <1>a, <2>1, <2>2 DEF TypeOK, EngineTypeOK, RebuildTeardown
<1>18. ASSUME NEW f \in Factories, MountFactory(f) PROVE TypeOK'
  <2>1. main' \in MainRecord
    BY <1>18, <1>b DEF MountFactory, MainPC, MainRecord
  <2>2. rtsp' \in [Factories -> MediaRecord]
    BY <1>18, <1>a, <1>b DEF MountFactory, EngineTypeOK, MediaRecord, MediaPC
  <2>3. mount' \in [Tiers -> Factories \cup {NoFactory}]
    BY <1>18, <1>a, <1>b DEF MountFactory, EngineTypeOK
  <2> QED
    BY <1>18, <1>a, <2>1, <2>2, <2>3, StreamStutter DEF TypeOK, EngineTypeOK, MountFactory
<1>19. CASE ConfigureDone
  BY <1>19, <1>a, IdleType, StreamStutter DEF TypeOK, EngineTypeOK, ConfigureDone
<1>20. CASE StopLens
  <2>1. main' \in MainRecord
    BY <1>20, <1>b DEF StopLens, MainPC, MainRecord
  <2> QED BY <1>20, <1>a, <2>1, StreamStutter DEF TypeOK, EngineTypeOK, StopLens
<1>21. CASE StopCapture
  <2>1. capture' \in [id : Nat, live : BOOLEAN]
    BY <1>21, <1>a DEF StopCapture, EngineTypeOK
  <2>2. SMTypeOK'
    BY <1>21, <1>a DEF StopCapture, SMTypeOK
  <2> QED BY <1>21, <1>a, <2>1, <2>2, IdleType DEF TypeOK, EngineTypeOK, StopCapture
<1>22. ASSUME NEW t \in Tiers, HlsAction(t) PROVE TypeOK'
  BY <1>1, <1>2, <1>3, <1>22 DEF HlsAction, StopHls, ReapHls
<1>23. CASE ConfigureAction
  BY <1>9, <1>20, <1>23 DEF ConfigureAction
<1>24. CASE MainStep
  BY <1>4, <1>5, <1>6, <1>7, <1>8, <1>10, <1>11, <1>12, <1>13, <1>14, <1>15, <1>16,
     <1>17, <1>18, <1>19, <1>21, <1>24 DEF MainStep
<1> QED BY <1>22, <1>23, <1>24

LEMMA InitTypes == Init => TypeOK
<1> SUFFICES ASSUME Init PROVE TypeOK
  OBVIOUS
<1>1. SMTypeOK
  BY DEF Init, SMInit, SMTypeOK, StreamRecord, NoStream
<1>2. EngineTypeOK
  BY IdleType, UsersAssumption DEF Init, EngineTypeOK, MediaRecord, MediaPC, Idle
<1> QED BY <1>1, <1>2 DEF TypeOK

LEMMA StutterTypes == TypeOK /\ UNCHANGED vars => TypeOK'
  BY DEF TypeOK, SMTypeOK, EngineTypeOK, vars

LEMMA NextTypes == TypeOK /\ [Next]_vars => TypeOK'
  BY RtspTypes, MainTypes, StutterTypes
  DEF Next, Request, HlsAction, ConfigureAction

\* Every variable keeps its type, whatever the tiers, the factories and the
\* operations allowed (sys_stream.c, sys_rtsp.c, sys_hls.c, main.c).
THEOREM TypeCorrect == Spec => []TypeOK
<1> QED BY InitTypes, NextTypes, PTL DEF Spec

----------------------------------------------------------------------------
(* The reference-count bound *)

\* Generations are issued once: no two streams and no stream and its
\* successor share one.
GenInv ==
    /\ \A t \in Tiers : streams[t].gen < nextGen
    /\ \A u \in Users : held[u] < nextGen
    /\ \A t1, t2 \in Tiers :
          t1 # t2 /\ Present(t1) => streams[t1].gen # streams[t2].gen

\* Only a user between its acquire and its release owes anything.
OwedInv ==
    /\ \A f \in Factories : held[f] # 0 => rtsp[f].pc \in {"acquired", "active", "leaving"}
    /\ \A t \in Tiers : held[t] # 0 =>
          hls[t].on \/ (main.tier = t /\ main.pc \in {"hlsstart", "reap", "release"})

\* A user of a stream releases it under the stream's own name.
TierInv ==
    \A u \in Users, t \in Tiers :
        Present(t) /\ held[u] = streams[t].gen => TierOf(u) = t

CountInv == GenInv /\ TierInv /\ RefBound

RefInv == TypeOK /\ CountInv /\ OwedInv

LEMMA HoldersFinite ==
    ASSUME NEW g
    PROVE  IsFiniteSet(Holders(g)) /\ Cardinality(Holders(g)) \in Nat
<1>1. Holders(g) \subseteq Users
  BY DEF Holders
<1> QED BY <1>1, UsersAssumption, FS_Subset, FS_CardinalityType

\* A new holder of g adds one to its holders and none to another's.
LEMMA AddHolder ==
    ASSUME held \in [Users -> Nat], NEW u \in Users, NEW g \in Nat \ {0}, held[u] = 0,
           held' = [held EXCEPT ![u] = g]
    PROVE  /\ Cardinality({v \in Users : held'[v] = g}) = Cardinality(Holders(g)) + 1
           /\ \A k \in Nat \ {0, g} : {v \in Users : held'[v] = k} = Holders(k)
<1>1. {v \in Users : held'[v] = g} = Holders(g) \cup {u}
  BY DEF Holders
<1>2. u \notin Holders(g)
  BY DEF Holders
<1>3. Cardinality(Holders(g) \cup {u}) = Cardinality(Holders(g)) + 1
  BY <1>2, HoldersFinite, FS_AddElement
<1>4. \A k \in Nat \ {0, g} : {v \in Users : held'[v] = k} = Holders(k)
  BY DEF Holders
<1> QED BY <1>1, <1>3, <1>4

\* A holder that releases takes one from the holders of its generation.
LEMMA DropHolder ==
    ASSUME held \in [Users -> Nat], NEW u \in Users, NEW g \in Nat \ {0},
           held' = [held EXCEPT ![u] = 0]
    PROVE  IF held[u] = g
           THEN Cardinality({v \in Users : held'[v] = g}) = Cardinality(Holders(g)) - 1
           ELSE {v \in Users : held'[v] = g} = Holders(g)
<1>1. CASE held[u] = g
  <2>1. {v \in Users : held'[v] = g} = Holders(g) \ {u}
    BY <1>1 DEF Holders
  <2>2. u \in Holders(g)
    BY <1>1 DEF Holders
  <2>3. Cardinality(Holders(g) \ {u}) = Cardinality(Holders(g)) - 1
    BY <2>2, HoldersFinite, FS_RemoveElement
  <2> QED BY <1>1, <2>1, <2>3
<1>2. CASE held[u] # g
  BY <1>2 DEF Holders
<1> QED BY <1>1, <1>2

\* Whoever owes a release keeps its tier; a factory is re-used only when its
\* last user owes nothing.
TiersKept == \A v \in Users : held'[v] # 0 => TierOf(v)' = TierOf(v)

LEMMA AcquireCounts ==
    ASSUME TypeOK, CountInv, TiersKept,
           NEW u \in Users, NEW t \in Tiers, TierOf(u) = t, held[u] = 0,
           NEW c, NEW live, AcquireExisting(t) \/ AcquireNew(t, c, live),
           held' = [held EXCEPT ![u] = AcquiredGen(t)]
    PROVE  CountInv'
<1> DEFINE g == AcquiredGen(t)
<1>a. /\ held \in [Users -> Nat] /\ nextGen \in Nat \ {0}
      /\ \A s \in Tiers : streams[s] \in StreamRecord /\ streams[s].gen \in Nat
                            /\ streams[s].ref \in Int
      /\ streams \in [Tiers -> StreamRecord]
  BY DEF TypeOK, EngineTypeOK, SMTypeOK, StreamRecord
<1>b. g \in Nat \ {0} /\ g < nextGen'  /\ nextGen' \in Nat /\ nextGen <= nextGen'
  BY <1>a DEF AcquiredGen, AcquireExisting, AcquireNew, Present, CountInv, GenInv
<1>c. /\ streams'[t].gen = g
      /\ streams'[t].ref = (IF Present(t) THEN streams[t].ref + 1 ELSE 1)
      /\ \A s \in Tiers \ {t} : streams'[s] = streams[s]
  BY <1>a DEF AcquireExisting, AcquireNew, AcquiredGen, StreamRecord
<1>d. \A s \in Tiers \ {t} : Present(s) => streams[s].gen # g
  BY <1>a DEF AcquiredGen, CountInv, GenInv, Present
<1>e. held'[u] = g /\ \A v \in Users \ {u} : held'[v] = held[v]
  BY <1>a
<1>1. GenInv'
  BY <1>a, <1>b, <1>c, <1>d, <1>e DEF CountInv, GenInv, Present
<1>2. TierInv'
  <2> SUFFICES ASSUME NEW v \in Users, NEW s \in Tiers, Present(s)', held'[v] = streams'[s].gen
               PROVE  TierOf(v)' = s
    BY DEF TierInv
  <2>1. TierOf(v)' = TierOf(v)
    BY DEF TiersKept, Present
  <2>2. CASE v = u
    BY <2>1, <2>2, <1>c, <1>d, <1>e DEF Present
  <2>3. CASE v # u /\ s = t
    <3>1. held[v] = g
      BY <2>3, <1>c, <1>e
    <3>2. Present(t) /\ held[v] = streams[t].gen
      BY <3>1, <1>a DEF AcquiredGen, CountInv, GenInv
    <3> QED BY <2>1, <2>3, <3>2 DEF CountInv, TierInv
  <2>4. CASE v # u /\ s # t
    BY <2>1, <2>4, <1>c, <1>e DEF CountInv, TierInv, Present
  <2> QED BY <2>2, <2>3, <2>4
<1>3. RefBound'
  <2> SUFFICES ASSUME NEW s \in Tiers, Present(s)'
               PROVE  streams'[s].ref \in
                        1..Cardinality({v \in Users : held'[v] = streams'[s].gen})
    BY DEF RefBound, Holders
  <2>1. CASE s = t
    <3>1. Cardinality({v \in Users : held'[v] = g}) = Cardinality(Holders(g)) + 1
      BY <1>a, <1>b, AddHolder
    <3>2. Cardinality(Holders(g)) \in Nat
      BY HoldersFinite
    <3>3. Present(t) => streams[t].ref \in 1..Cardinality(Holders(g))
      BY DEF CountInv, RefBound, AcquiredGen
    <3> QED BY <2>1, <3>1, <3>2, <3>3, <1>a, <1>c
  <2>2. CASE s # t
    <3>1. Present(s) /\ streams[s].gen # g /\ streams[s].gen \in Nat \ {0}
      BY <2>2, <1>a, <1>c, <1>d DEF Present
    <3>2. {v \in Users : held'[v] = streams[s].gen} = Holders(streams[s].gen)
      BY <3>1, <1>a, <1>b, AddHolder
    <3> QED BY <2>2, <3>1, <3>2, <1>c DEF CountInv, RefBound
  <2> QED BY <2>1, <2>2
<1> QED BY <1>1, <1>2, <1>3 DEF CountInv

LEMMA ReleaseCounts ==
    ASSUME TypeOK, CountInv, TiersKept,
           NEW u \in Users, NEW t \in Tiers, TierOf(u) = t,
           Release(t), held' = [held EXCEPT ![u] = 0]
    PROVE  CountInv'
<1>a. /\ held \in [Users -> Nat] /\ nextGen \in Nat \ {0} /\ nextGen' = nextGen
      /\ \A s \in Tiers : streams[s] \in StreamRecord /\ streams[s].gen \in Nat
                            /\ streams[s].ref \in Int
      /\ streams \in [Tiers -> StreamRecord]
  BY DEF TypeOK, EngineTypeOK, SMTypeOK, StreamRecord, Release
<1>b. /\ \A s \in Tiers \ {t} : streams'[s] = streams[s]
      /\ Present(t)' => /\ Present(t) /\ streams[t].ref > 1
                        /\ streams'[t].gen = streams[t].gen
                        /\ streams'[t].ref = streams[t].ref - 1
      /\ ~Present(t)' => streams'[t].gen = 0
  BY <1>a DEF Release, LastRelease, Present, NoStream, StreamRecord
<1>c. held'[u] = 0 /\ \A v \in Users \ {u} : held'[v] = held[v]
  BY <1>a
<1>1. GenInv'
  BY <1>a, <1>b, <1>c DEF CountInv, GenInv, Present
<1>2. TierInv'
  BY <1>b, <1>c DEF CountInv, TierInv, TiersKept, Present
<1>3. RefBound'
  <2> SUFFICES ASSUME NEW s \in Tiers, Present(s)'
               PROVE  streams'[s].ref \in
                        1..Cardinality({v \in Users : held'[v] = streams'[s].gen})
    BY DEF RefBound, Holders
  <2> DEFINE g == streams[s].gen
  <2>1. Present(s) /\ streams'[s].gen = g /\ g \in Nat \ {0}
    BY <1>a, <1>b DEF Present
  <2>2. IF held[u] = g
        THEN Cardinality({v \in Users : held'[v] = g}) = Cardinality(Holders(g)) - 1
        ELSE {v \in Users : held'[v] = g} = Holders(g)
    BY <2>1, <1>a, DropHolder
  <2>3. streams[s].ref \in 1..Cardinality(Holders(g)) /\ Cardinality(Holders(g)) \in Nat
    BY <2>1, HoldersFinite DEF CountInv, RefBound
  <2>4. CASE s = t
    <3>1. streams[s].ref > 1 /\ streams'[s].ref = streams[s].ref - 1
      BY <2>4, <1>b DEF Present
    <3>2. Cardinality({v \in Users : held'[v] = g})
            \in {Cardinality(Holders(g)), Cardinality(Holders(g)) - 1}
      BY <2>2
    <3> QED BY <2>1, <2>3, <3>1, <3>2, <1>a
  <2>5. CASE s # t
    <3>1. held[u] # g
      BY <2>1, <2>5 DEF CountInv, TierInv
    <3> QED BY <3>1, <2>1, <2>2, <2>3, <2>5, <1>b
  <2> QED BY <2>4, <2>5
<1> QED BY <1>1, <1>2, <1>3 DEF CountInv

\* Steps that leave generations and counts alone, or only forget a stream.
LEMMA NeutralCounts ==
    ASSUME TypeOK, CountInv, TiersKept, UNCHANGED held,
           nextGen' \in Nat, nextGen <= nextGen',
           \A s \in Tiers : \/ /\ streams'[s].gen = streams[s].gen
                                /\ streams'[s].ref = streams[s].ref
                             \/ streams'[s].gen = 0
    PROVE  CountInv'
<1>a. /\ held \in [Users -> Nat] /\ nextGen \in Nat \ {0}
      /\ \A s \in Tiers : streams[s].gen \in Nat
  BY DEF TypeOK, EngineTypeOK, SMTypeOK, StreamRecord
<1>1. GenInv'
  BY <1>a DEF CountInv, GenInv, Present
<1>2. TierInv'
  BY DEF CountInv, TierInv, TiersKept, Present
<1>3. RefBound'
  BY DEF CountInv, RefBound, Holders, Present
<1> QED BY <1>1, <1>2, <1>3 DEF CountInv

\* The table operations that are neutral.
LEMMA NeutralOps ==
    ASSUME SMTypeOK, NEW t \in Tiers, NEW h, NEW g,
           \/ Subscribe(t) \/ Unsubscribe(t, h) \/ RemoveBranch(g)
           \/ ForceTeardown(t) \/ AcquireFails(t) \/ UNCHANGED smVars
    PROVE  /\ nextGen' \in Nat /\ nextGen <= nextGen'
           /\ \A s \in Tiers : \/ /\ streams'[s].gen = streams[s].gen
                                    /\ streams'[s].ref = streams[s].ref
                                 \/ streams'[s].gen = 0
<1>1. streams \in [Tiers -> StreamRecord] /\ nextGen \in Nat
  BY DEF SMTypeOK
<1>2. CASE Subscribe(t)
  BY <1>1, <1>2 DEF Subscribe, StreamRecord
<1>3. CASE Unsubscribe(t, h)
  BY <1>1, <1>3 DEF Unsubscribe, StreamRecord
<1>4. CASE RemoveBranch(g) \/ AcquireFails(t) \/ UNCHANGED smVars
  BY <1>1, <1>4 DEF RemoveBranch, AcquireFails, smVars
<1>5. CASE ForceTeardown(t)
  BY <1>1, <1>5 DEF ForceTeardown, NoStream
<1> QED BY <1>2, <1>3, <1>4, <1>5

\* The media callbacks keep the counts and the debts.
LEMMA RtspCounts ==
    ASSUME RefInv, NEW f \in Factories,
           RtspStep(f) \/ Connect(f) \/ UnpreparedUnsubscribe(f)
    PROVE  CountInv' /\ OwedInv'
<1> DEFINE t == rtsp[f].tier
<1>a. /\ TypeOK /\ CountInv /\ OwedInv /\ SMTypeOK
      /\ rtsp \in [Factories -> MediaRecord] /\ held \in [Users -> Nat]
      /\ f \in Users /\ t \in Tiers /\ f \notin Tiers
  BY UsersAssumption DEF RefInv, TypeOK, EngineTypeOK, Users, MediaRecord
<1>b. TierOf(f) = t
  BY <1>a DEF TierOf
<1>1. CASE Connect(f)
  <2>1. TiersKept
    BY <1>1, <1>a DEF Connect, TiersKept, TierOf, Users, MediaRecord
  <2>2. CountInv'
    BY <1>1, <1>a, <2>1, NeutralOps, NeutralCounts DEF Connect
  <2>3. OwedInv'
    BY <1>1, <1>a DEF Connect, OwedInv, MediaRecord
  <2> QED BY <2>2, <2>3
<1>2. CASE ConfigureAcquire(f)
  <2>1. TiersKept
    BY <1>2, <1>a DEF ConfigureAcquire, TiersKept, TierOf, Users, MediaRecord
  <2>2. held[f] = 0
    BY <1>2, <1>a DEF ConfigureAcquire, OwedInv
  <2>3. CountInv'
    BY <1>2, <1>a, <1>b, <2>1, <2>2, AcquireCounts DEF ConfigureAcquire
  <2>4. OwedInv'
    BY <1>2, <1>a DEF ConfigureAcquire, OwedInv, MediaRecord
  <2> QED BY <2>3, <2>4
<1>3. CASE ConfigureFails(f)
  <2>1. TiersKept
    BY <1>3, <1>a DEF ConfigureFails, TiersKept, TierOf, Users, MediaRecord
  <2>2. CountInv'
    BY <1>3, <1>a, <2>1, NeutralOps, NeutralCounts DEF ConfigureFails
  <2>3. OwedInv'
    BY <1>3, <1>a DEF ConfigureFails, OwedInv, MediaRecord
  <2> QED BY <2>2, <2>3
<1>4. CASE ConfigureSubscribe(f)
  <2>1. TiersKept
    BY <1>4, <1>a DEF ConfigureSubscribe, TiersKept, TierOf, Users, MediaRecord
  <2>2. CountInv'
    BY <1>4, <1>a, <2>1, NeutralOps, NeutralCounts DEF ConfigureSubscribe
  <2>3. OwedInv'
    BY <1>4, <1>a DEF ConfigureSubscribe, OwedInv, MediaRecord
  <2> QED BY <2>2, <2>3
<1>5. CASE UnpreparedUnsubscribe(f)
  <2>1. TiersKept
    BY <1>5, <1>a DEF UnpreparedUnsubscribe, TiersKept, TierOf, Users, MediaRecord
  <2>2. CountInv'
    BY <1>5, <1>a, <2>1, NeutralOps, NeutralCounts DEF UnpreparedUnsubscribe
  <2>3. OwedInv'
    BY <1>5, <1>a DEF UnpreparedUnsubscribe, OwedInv, MediaRecord
  <2> QED BY <2>2, <2>3
<1>6. CASE UnpreparedRelease(f)
  <2>1. TiersKept
    BY <1>6, <1>a DEF UnpreparedRelease, TiersKept, TierOf, Users, MediaRecord
  <2>2. CountInv'
    BY <1>6, <1>a, <1>b, <2>1, ReleaseCounts DEF UnpreparedRelease
  <2>3. OwedInv'
    BY <1>6, <1>a DEF UnpreparedRelease, OwedInv, MediaRecord, Users
  <2> QED BY <2>2, <2>3
<1>7. CASE UnpreparedRemoveBranch(f)
  <2>1. TiersKept
    BY <1>7, <1>a DEF UnpreparedRemoveBranch, TiersKept, TierOf, Users, MediaRecord
  <2>2. CountInv'
    BY <1>7, <1>a, <2>1, NeutralOps, NeutralCounts DEF UnpreparedRemoveBranch
  <2>3. OwedInv'
    BY <1>7, <1>a DEF UnpreparedRemoveBranch, OwedInv, MediaRecord
  <2> QED BY <2>2, <2>3
<1> QED
  BY <1>1, <1>2, <1>3, <1>4, <1>5, <1>6, <1>7 DEF RtspStep

\* So do the steps of the main loop.
LEMMA MainCounts ==
    ASSUME RefInv,
           MainStep \/ ConfigureAction \/ \E t \in Tiers : HlsAction(t)
    PROVE  CountInv' /\ OwedInv'
<1> DEFINE m == main.tier
<1>a. /\ TypeOK /\ CountInv /\ OwedInv /\ SMTypeOK
      /\ rtsp \in [Factories -> MediaRecord] /\ held \in [Users -> Nat]
      /\ m \in Tiers /\ main \in MainRecord
      /\ hls \in [Tiers -> [on : BOOLEAN, handler : Nat]]
      /\ Tiers \subseteq Users /\ Factories \subseteq Users
      /\ \A t \in Tiers : t \notin Factories
  BY UsersAssumption DEF RefInv, TypeOK, EngineTypeOK, Users, MainRecord
<1>b. \A t \in Tiers : TierOf(t) = t
  BY DEF TierOf
<1>c. UNCHANGED rtsp => TiersKept
  BY DEF TiersKept, TierOf
<1>d. ASSUME UNCHANGED <<rtsp, held>>, UNCHANGED hls,
             main.pc \notin {"hlsstart", "reap", "release"}
      PROVE  OwedInv'
  BY <1>a, <1>d DEF OwedInv
<1>e. ASSUME UNCHANGED held, TiersKept,
             \/ UNCHANGED smVars
             \/ \E t \in Tiers, h \in Nat :
                   Subscribe(t) \/ Unsubscribe(t, h) \/ ForceTeardown(t) \/ AcquireFails(t)
             \/ \E g \in Nat : RemoveBranch(g)
      PROVE  CountInv'
  <2>1. /\ nextGen' \in Nat /\ nextGen <= nextGen'
        /\ \A s \in Tiers : \/ /\ streams'[s].gen = streams[s].gen
                                 /\ streams'[s].ref = streams[s].ref
                              \/ streams'[s].gen = 0
    BY <1>e, <1>a, NeutralOps
  <2> QED BY <1>e, <1>a, <2>1, NeutralCounts
<1>f. main.gen \in Nat /\ \A t \in Tiers : hls[t].handler \in Nat
  BY <1>a DEF MainRecord
<1>1. ASSUME NEW t \in Tiers, StartHls(t) PROVE CountInv' /\ OwedInv'
  <2>1. held[t] = 0
    BY <1>1, <1>a DEF StartHls, OwedInv
  <2>2. CountInv'
    BY <1>1, <1>a, <1>b, <1>c, <2>1, AcquireCounts DEF StartHls
  <2>3. OwedInv'
    BY <1>1, <1>a DEF StartHls, OwedInv, MainRecord
  <2> QED BY <2>2, <2>3
<1>2. ASSUME NEW t \in Tiers, StartHlsFails(t) PROVE CountInv' /\ OwedInv'
  BY <1>2, <1>a, <1>c, <1>d, <1>e DEF StartHlsFails, engineVars
<1>3. ASSUME NEW t \in Tiers, NEW pc \in {"release", "reap"}, RemoveHls(t, pc)
      PROVE  CountInv' /\ OwedInv'
  <2>1. CountInv'
    BY <1>3, <1>c, <1>e, <1>f DEF RemoveHls
  <2>2. OwedInv'
    BY <1>3, <1>a DEF RemoveHls, OwedInv, MainRecord
  <2> QED BY <2>1, <2>2
<1>4. CASE HlsSubscribe
  <2>1. CountInv'
    BY <1>4, <1>a, <1>c, <1>e DEF HlsSubscribe
  <2>2. OwedInv'
    BY <1>4, <1>a DEF HlsSubscribe, OwedInv
  <2> QED BY <2>1, <2>2
<1>5. CASE HlsLaunchFails
  <2>1. CountInv'
    BY <1>5, <1>c, <1>e DEF HlsLaunchFails
  <2>2. OwedInv'
    BY <1>5, <1>a DEF HlsLaunchFails, OwedInv
  <2> QED BY <2>1, <2>2
<1>6. CASE ReapCheck
  <2>1. CASE Present(m)
    <3>1. CountInv'
      BY <1>6, <2>1, <1>c, <1>e DEF ReapCheck
    <3>2. OwedInv'
      BY <1>6, <2>1, <1>a DEF ReapCheck, OwedInv, MainRecord
    <3> QED BY <3>1, <3>2
  <2>2. CASE ~Present(m)
    <3>1. Release(m)
      BY <1>6, <2>2 DEF ReapCheck, Release, LastRelease, smVars
    <3>2. CountInv'
      BY <1>6, <2>2, <3>1, <1>a, <1>b, <1>c, ReleaseCounts DEF ReapCheck
    <3>3. OwedInv'
      BY <1>6, <2>2, <1>a DEF ReapCheck, OwedInv
    <3> QED BY <3>2, <3>3
  <2> QED BY <2>1, <2>2
<1>7. CASE HlsRelease
  <2>1. CountInv'
    BY <1>7, <1>a, <1>b, <1>c, ReleaseCounts DEF HlsRelease
  <2>2. OwedInv'
    BY <1>7, <1>a DEF HlsRelease, OwedInv
  <2> QED BY <2>1, <2>2
<1>8. CASE HlsRemoveBranch
  BY <1>8, <1>c, <1>d, <1>e, <1>f DEF HlsRemoveBranch
<1>9. CASE ConfigureAction
  <2>1. CountInv'
    BY <1>9, <1>c, <1>e DEF ConfigureAction, ConfigureLens, StopLens
  <2>2. OwedInv'
    BY <1>9, <1>d DEF ConfigureAction, ConfigureLens, StopLens
  <2> QED BY <2>1, <2>2
<1>10. ASSUME NEW t \in Tiers, AuditTeardown(t) PROVE CountInv' /\ OwedInv'
  BY <1>10, <1>c, <1>d, <1>e, 0 \in Nat DEF AuditTeardown
<1>11. ASSUME NEW t \in Tiers, DynamicUpdate(t) \/ StaticChange(t) \/ NewTier(t)
       PROVE  CountInv' /\ OwedInv'
  BY <1>11, <1>c, <1>d, <1>e DEF DynamicUpdate, StaticChange, NewTier
<1>12. CASE EnsureCapture \/ ReadBranchName \/ ConfigureDone
  BY <1>12, <1>c, <1>d, <1>e DEF EnsureCapture, ReadBranchName, ConfigureDone
<1>13. CASE RemoveLiveBranch
  BY <1>13, <1>c, <1>d, <1>e, <1>f DEF RemoveLiveBranch
<1>14. CASE RebuildTeardown
  BY <1>14, <1>a, <1>c, <1>d, <1>e, 0 \in Nat DEF RebuildTeardown
<1>15. ASSUME NEW f \in Factories, MountFactory(f) PROVE CountInv' /\ OwedInv'
  <2>1. held[f] = 0
    BY <1>15, <1>a DEF MountFactory, Retired, OwedInv
  <2>2. TiersKept
    BY <1>15, <2>1, <1>a DEF MountFactory, TiersKept, TierOf, Users
  <2>3. CountInv'
    BY <1>15, <2>2, <1>e DEF MountFactory
  <2>4. OwedInv'
    BY <1>15, <2>1, <1>a DEF MountFactory, OwedInv
  <2> QED BY <2>3, <2>4
<1>16. CASE StopCapture
  <2>1. CountInv'
    BY <1>16, <1>a, <1>c, NeutralCounts DEF StopCapture, SMTypeOK
  <2>2. OwedInv'
    BY <1>16, <1>d DEF StopCapture
  <2> QED BY <2>1, <2>2
<1>17. CASE MainStep
  BY <1>4, <1>5, <1>6, <1>7, <1>8, <1>10, <1>11, <1>12, <1>13, <1>14, <1>15, <1>16,
     <1>17 DEF MainStep
<1>18. ASSUME NEW t \in Tiers, HlsAction(t) PROVE CountInv' /\ OwedInv'
  BY <1>1, <1>2, <1>3, <1>18 DEF HlsAction, StopHls, ReapHls
<1> QED BY <1>9, <1>17, <1>18

LEMMA InitCounts == Init => RefInv
<1> SUFFICES ASSUME Init PROVE RefInv
  OBVIOUS
<1>1. \A t \in Tiers : streams[t].gen = 0
  BY DEF Init, SMInit, NoStream
<1>2. CountInv
  BY <1>1 DEF Init, SMInit, CountInv, GenInv, TierInv, RefBound, Present
<1>3. OwedInv
  BY DEF Init, OwedInv, Users
<1> QED BY <1>2, <1>3, InitTypes DEF RefInv

LEMMA StutterCounts == RefInv /\ UNCHANGED vars => RefInv'
<1> SUFFICES ASSUME RefInv, UNCHANGED vars PROVE RefInv'
  OBVIOUS
<1>1. TypeOK'
  BY StutterTypes DEF RefInv
<1>2. CountInv'
  BY DEF RefInv, CountInv, GenInv, TierInv, RefBound, Holders, TierOf, Present, vars
<1>3. OwedInv'
  BY DEF RefInv, OwedInv, vars
<1> QED BY <1>1, <1>2, <1>3 DEF RefInv

LEMMA StepRef == RefInv /\ [Next]_vars => RefInv'
<1> SUFFICES ASSUME RefInv, Next PROVE RefInv'
  BY StutterCounts
<1>1. TypeOK'
  BY NextTypes DEF RefInv
<1>2. CountInv' /\ OwedInv'
  BY RtspCounts, MainCounts DEF Next, Request, HlsAction, ConfigureAction
<1> QED BY <1>1, <1>2 DEF RefInv

\* A stream in the table is counted at most once per user that acquired it and
\* has not released, and by at least one: whatever rebuilds, failures and
\* stale releases do, no encoder outlives its users (sys_stream.c:117-279).
THEOREM RefCountBounded == Spec => []RefBound
<1>1. RefInv => RefBound
  BY DEF RefInv, CountInv
<1> QED BY InitCounts, StepRef, <1>1, PTL DEF Spec

----------------------------------------------------------------------------
(* Subscriptions *)

\* The handler a user was given last, and whether it is called back by it.
HandlerOf(u) == IF u \in Tiers THEN hls[u].handler ELSE rtsp[u].handler
Streaming(u) == IF u \in Tiers THEN hls[u].on ELSE rtsp[u].pc = "active"

\* Handlers are issued once, and zero is none.
HandlerInv ==
    /\ \A t \in Tiers : \A h \in streams[t].subs : h # 0 /\ h < nextHandler
    /\ \A u \in Users : HandlerOf(u) < nextHandler
    /\ \A u, v \in Users : u # v /\ HandlerOf(u) # 0 => HandlerOf(u) # HandlerOf(v)

\* A subscription is that of a user who streams from its tier.
OwnerInv ==
    \A t \in Tiers : \A h \in streams[t].subs :
        \E u \in Users : TierOf(u) = t /\ Streaming(u) /\ HandlerOf(u) = h

\* A user who streams from the generation it acquired is subscribed; only a
\* generator whose launch line did not parse has no handler.
SubscribedInv ==
    \A u \in Users, t \in Tiers :
        TierOf(u) = t /\ Streaming(u) /\ Present(t) /\ held[u] = streams[t].gen =>
          \/ HandlerOf(u) \in streams[t].subs
          \/ u \in Tiers /\ HandlerOf(u) = 0

\* The generator that is about to start, or was taken out, is not there.
MainHls == main.pc \in {"hlsstart", "reap", "release"} => ~hls[main.tier].on

SubInv == HandlerInv /\ OwnerInv /\ SubscribedInv

TableType ==
    /\ streams \in [Tiers -> StreamRecord] /\ nextHandler \in Nat \ {0}
    /\ nextGen \in Nat \ {0}
    /\ \A t \in Tiers : streams[t] \in StreamRecord /\ streams[t].gen \in Nat
                          /\ streams[t].subs \in SUBSET Nat
    /\ \A u \in Users : HandlerOf(u) \in Nat /\ TierOf(u) \in Tiers /\ held[u] \in Nat

LEMMA TypedTable == ASSUME TypeOK PROVE TableType
<1>1. /\ streams \in [Tiers -> StreamRecord] /\ nextHandler \in Nat \ {0}
      /\ nextGen \in Nat \ {0}
      /\ rtsp \in [Factories -> MediaRecord]
      /\ hls \in [Tiers -> [on : BOOLEAN, handler : Nat]] /\ held \in [Users -> Nat]
  BY DEF TypeOK, SMTypeOK, EngineTypeOK
<1>2. \A t \in Tiers : /\ streams[t] \in StreamRecord /\ streams[t].gen \in Nat
                        /\ streams[t].subs \in SUBSET Nat
  BY <1>1 DEF StreamRecord
<1>3. \A u \in Users : HandlerOf(u) \in Nat /\ TierOf(u) \in Tiers
  BY <1>1 DEF HandlerOf, TierOf, Users, MediaRecord
<1> QED BY <1>1, <1>2, <1>3 DEF TableType

\* What a step that neither subscribes nor unsubscribes does to a user.
UserKept(v) ==
    /\ HandlerOf(v)' \in {HandlerOf(v), 0}
    /\ Streaming(v) => /\ Streaming(v)'
                       /\ TierOf(v)' = TierOf(v)
                       /\ HandlerOf(v)' = HandlerOf(v)
                       /\ held'[v] \in {held[v], 0}
    /\ ~Streaming(v) /\ Streaming(v)' => v \in Tiers /\ HandlerOf(v)' = 0

\* What it does to a stream: nothing, or it is forgotten or newly made.
StreamKept(t) ==
    \/ streams'[t].gen = streams[t].gen /\ streams'[t].subs = streams[t].subs
    \/ streams'[t].gen \in {0, nextGen} /\ streams'[t].subs = {}

LEMMA KeptSubs ==
    ASSUME TypeOK, GenInv, SubInv, nextHandler' = nextHandler,
           \A v \in Users : UserKept(v), \A t \in Tiers : StreamKept(t)
    PROVE  SubInv'
<1>a. TableType
  BY TypedTable
<1>1. HandlerInv'
  BY <1>a DEF TableType, SubInv, HandlerInv, UserKept, StreamKept
<1>2. OwnerInv'
  BY DEF SubInv, OwnerInv, UserKept, StreamKept
<1>3. SubscribedInv'
  <2> SUFFICES ASSUME NEW u \in Users, NEW t \in Tiers, t = TierOf(u)', Streaming(u)',
                      Present(t)', held'[u] = streams'[t].gen
               PROVE  \/ HandlerOf(u)' \in streams'[t].subs
                      \/ u \in Tiers /\ HandlerOf(u)' = 0
    BY DEF SubscribedInv
  <2>1. CASE ~Streaming(u)
    BY <2>1 DEF UserKept
  <2>2. CASE Streaming(u)
    <3>1. TierOf(u) = t /\ HandlerOf(u)' = HandlerOf(u) /\ held[u] = streams'[t].gen
      BY <2>2 DEF UserKept, Present
    <3>2. streams'[t].gen = streams[t].gen /\ streams'[t].subs = streams[t].subs
      BY <3>1, <1>a DEF StreamKept, Present, GenInv, TableType
    <3> QED BY <2>2, <3>1, <3>2 DEF SubInv, SubscribedInv, Present
  <2> QED BY <2>1, <2>2
<1> QED BY <1>1, <1>2, <1>3 DEF SubInv

\* The others, when one user subscribes or unsubscribes.
OtherKept(v) ==
    /\ HandlerOf(v)' = HandlerOf(v) /\ Streaming(v)' = Streaming(v)
    /\ TierOf(v)' = TierOf(v)

LEMMA SubscribeSubs ==
    ASSUME TypeOK, SubInv, UNCHANGED held,
           NEW u \in Users, NEW t \in Tiers, TierOf(u) = t, ~Streaming(u),
           Subscribe(t), TierOf(u)' = t, HandlerOf(u)' = SubscribedHandler(t),
           \A v \in Users \ {u} : OtherKept(v), Streaming(u)'
    PROVE  SubInv'
<1>a. TableType
  BY TypedTable
<1>b. CASE ~Present(t)
  <2>1. UNCHANGED <<streams, nextHandler>> /\ HandlerOf(u)' = 0
    BY <1>b DEF Subscribe, SubscribedHandler
  <2>2. HandlerInv'
    BY <1>a, <2>1 DEF TableType, SubInv, HandlerInv, OtherKept
  <2>3. OwnerInv'
    BY <2>1 DEF SubInv, OwnerInv, OtherKept
  <2>4. SubscribedInv'
    BY <2>1, <1>b DEF SubInv, SubscribedInv, OtherKept, Present
  <2> QED BY <2>2, <2>3, <2>4 DEF SubInv
<1>c. CASE Present(t)
  <2>1. /\ nextHandler' = nextHandler + 1 /\ HandlerOf(u)' = nextHandler
        /\ streams'[t].subs = streams[t].subs \cup {nextHandler}
        /\ streams'[t].gen = streams[t].gen
        /\ \A s \in Tiers \ {t} : streams'[s] = streams[s]
    BY <1>a, <1>c DEF TableType, Subscribe, SubscribedHandler, StreamRecord
  <2>2. HandlerInv'
    <3>1. \A s \in Tiers : \A h \in streams'[s].subs : h # 0 /\ h < nextHandler'
      BY <1>a, <2>1 DEF TableType, SubInv, HandlerInv
    <3>2. \A v \in Users : HandlerOf(v)' < nextHandler'
      BY <1>a, <2>1 DEF TableType, SubInv, HandlerInv, OtherKept
    <3>3. \A v, w \in Users : v # w /\ HandlerOf(v)' # 0 => HandlerOf(v)' # HandlerOf(w)'
      BY <1>a, <2>1 DEF TableType, SubInv, HandlerInv, OtherKept
    <3> QED BY <3>1, <3>2, <3>3 DEF HandlerInv
  <2>3. OwnerInv'
    BY <2>1 DEF SubInv, OwnerInv, OtherKept
  <2>4. SubscribedInv'
    BY <2>1 DEF SubInv, SubscribedInv, OtherKept, Present
  <2> QED BY <2>2, <2>3, <2>4 DEF SubInv
<1> QED BY <1>b, <1>c

LEMMA UnsubscribeSubs ==
    ASSUME TypeOK, SubInv, UNCHANGED held,
           NEW u \in Users, NEW t \in Tiers, TierOf(u) = t, ~Streaming(u)',
           Unsubscribe(t, HandlerOf(u)), HandlerOf(u)' \in {HandlerOf(u), 0},
           \A v \in Users \ {u} : OtherKept(v)
    PROVE  SubInv'
<1>a. TableType
  BY TypedTable
<1>1. /\ nextHandler' = nextHandler /\ streams'[t].gen = streams[t].gen
      /\ streams'[t].subs = streams[t].subs \ {HandlerOf(u)}
      /\ \A s \in Tiers \ {t} : streams'[s] = streams[s]
  BY <1>a DEF TableType, Unsubscribe, StreamRecord
<1>2. HandlerInv'
  BY <1>a, <1>1 DEF TableType, SubInv, HandlerInv, OtherKept
<1>3. OwnerInv'
  <2> SUFFICES ASSUME NEW s \in Tiers, NEW h \in streams'[s].subs
               PROVE  \E v \in Users : TierOf(v)' = s /\ Streaming(v)' /\ HandlerOf(v)' = h
    BY DEF OwnerInv
  <2>1. h \in streams[s].subs
    BY <1>1
  <2>2. PICK v \in Users : TierOf(v) = s /\ Streaming(v) /\ HandlerOf(v) = h
    BY <2>1 DEF SubInv, OwnerInv
  <2>3. v # u
    BY <1>1, <2>2
  <2> QED BY <2>2, <2>3 DEF OtherKept
<1>4. SubscribedInv'
  BY <1>1 DEF SubInv, SubscribedInv, HandlerInv, OtherKept, Present
<1> QED BY <1>2, <1>3, <1>4 DEF SubInv

LEMMA KeptOps ==
    ASSUME SMTypeOK, NEW t \in Tiers, NEW c, NEW live, NEW g,
           \/ AcquireExisting(t) \/ AcquireNew(t, c, live) \/ AcquireFails(t) \/ Release(t)
           \/ ForceTeardown(t) \/ RemoveBranch(g) \/ UNCHANGED smVars
    PROVE  nextHandler' = nextHandler /\ \A s \in Tiers : StreamKept(s)
<1>1. streams \in [Tiers -> StreamRecord]
  BY DEF SMTypeOK
<1>2. CASE AcquireExisting(t)
  BY <1>1, <1>2 DEF AcquireExisting, StreamKept, StreamRecord
<1>3. CASE AcquireNew(t, c, live)
  BY <1>1, <1>3 DEF AcquireNew, StreamKept
<1>4. CASE AcquireFails(t) \/ RemoveBranch(g) \/ UNCHANGED smVars
  BY <1>4 DEF AcquireFails, RemoveBranch, smVars, StreamKept
<1>5. CASE Release(t)
  BY <1>1, <1>5 DEF Release, NoStream, StreamKept, StreamRecord
<1>6. CASE ForceTeardown(t)
  BY <1>1, <1>6 DEF ForceTeardown, NoStream, StreamKept
<1> QED BY <1>2, <1>3, <1>4, <1>5, <1>6

\* The media callbacks keep subscriptions and users together.
LEMMA RtspSubs ==
    ASSUME RefInv, SubInv, NEW f \in Factories,
           RtspStep(f) \/ Connect(f) \/ UnpreparedUnsubscribe(f)
    PROVE  SubInv'
<1> DEFINE t == rtsp[f].tier
<1>a. /\ TypeOK /\ GenInv /\ SMTypeOK
      /\ rtsp \in [Factories -> MediaRecord] /\ held \in [Users -> Nat]
      /\ f \in Users /\ t \in Tiers /\ f \notin Tiers
      /\ \A v \in Users \ Tiers : v \in Factories
  BY UsersAssumption DEF RefInv, CountInv, TypeOK, EngineTypeOK, Users, MediaRecord
<1>b. /\ TierOf(f) = t /\ HandlerOf(f) = rtsp[f].handler
      /\ Streaming(f) <=> rtsp[f].pc = "active"
  BY <1>a DEF TierOf, HandlerOf, Streaming
<1>c. ASSUME NEW r \in MediaRecord, rtsp' = [rtsp EXCEPT ![f] = r], UNCHANGED hls
      PROVE  /\ \A v \in Users \ {f} : OtherKept(v)
             /\ HandlerOf(f)' = r.handler /\ TierOf(f)' = r.tier
             /\ Streaming(f)' <=> r.pc = "active"
  BY <1>a, <1>c DEF OtherKept, HandlerOf, TierOf, Streaming
<1>d. ASSUME NEW pc \in MediaPC, NEW d \in Nat, UNCHANGED hls,
             pc # "active", rtsp[f].pc # "active",
             rtsp' = [rtsp EXCEPT ![f] = [@ EXCEPT !.pc = pc, !.dropped = d]],
             \A v \in Users \ {f} : held'[v] = held[v],
             \/ AcquireExisting(t) \/ AcquireNew(t, rtsp[f].cap, Alive(rtsp[f].cap))
             \/ AcquireFails(t) \/ Release(t)
             \/ RemoveBranch(rtsp[f].dropped) \/ UNCHANGED smVars
      PROVE  SubInv'
  <2> DEFINE r == [rtsp[f] EXCEPT !.pc = pc, !.dropped = d]
  <2>1. r \in MediaRecord /\ r.handler = rtsp[f].handler /\ r.tier = t /\ r.pc = pc
    BY <1>a, <1>d DEF MediaRecord
  <2>2. \A v \in Users : UserKept(v)
    BY <2>1, <1>a, <1>b, <1>c, <1>d DEF UserKept, OtherKept
  <2>3. nextHandler' = nextHandler /\ \A s \in Tiers : StreamKept(s)
    BY <1>a, <1>d, KeptOps
  <2> QED BY <1>a, <2>2, <2>3, KeptSubs
<1>e. /\ rtsp[f].dropped \in Nat
      /\ \A pc : [rtsp[f] EXCEPT !.pc = pc]
                  = [rtsp[f] EXCEPT !.pc = pc, !.dropped = rtsp[f].dropped]
  BY <1>a DEF MediaRecord
<1>1. CASE Connect(f) \/ ConfigureAcquire(f) \/ ConfigureFails(f)
  <2>1. CASE Connect(f)
    BY <2>1, <1>a, <1>d, <1>e DEF Connect, MediaPC
  <2>2. CASE ConfigureAcquire(f)
    BY <2>2, <1>a, <1>d, <1>e DEF ConfigureAcquire, MediaPC
  <2>3. CASE ConfigureFails(f)
    BY <2>3, <1>a, <1>d, <1>e DEF ConfigureFails, MediaPC
  <2> QED BY <1>1, <2>1, <2>2, <2>3
<1>2. CASE ConfigureSubscribe(f)
  <2> DEFINE r == [rtsp[f] EXCEPT !.pc = "active", !.handler = SubscribedHandler(t)]
  <2>1. SubscribedHandler(t) \in Nat
    BY <1>a DEF SubscribedHandler, SMTypeOK
  <2>2. r \in MediaRecord /\ r.handler = SubscribedHandler(t) /\ r.tier = t /\ r.pc = "active"
    BY <2>1, <1>a DEF MediaRecord, MediaPC
  <2> QED BY <1>2, <2>2, <1>a, <1>b, <1>c, SubscribeSubs DEF ConfigureSubscribe
<1>3. CASE UnpreparedUnsubscribe(f)
  <2> DEFINE r == [rtsp[f] EXCEPT !.pc = "leaving"]
  <2>1. r \in MediaRecord /\ r.handler = rtsp[f].handler /\ r.tier = t /\ r.pc = "leaving"
    BY <1>a DEF MediaRecord, MediaPC
  <2> QED BY <1>3, <2>1, <1>a, <1>b, <1>c, UnsubscribeSubs DEF UnpreparedUnsubscribe
<1>4. CASE UnpreparedRelease(f)
  <2>1. DroppedBranch(t) \in Nat
    BY <1>a, StreamOps
  <2> QED BY <1>4, <2>1, <1>a, <1>d DEF UnpreparedRelease, MediaPC
<1>5. CASE UnpreparedRemoveBranch(f)
  BY <1>5, <1>a, <1>d DEF UnpreparedRemoveBranch, MediaPC
<1> QED BY <1>1, <1>2, <1>3, <1>4, <1>5 DEF RtspStep

\* So do the steps of the main loop, for which a generator is not there while
\* it is started or released.
LEMMA MainSubs ==
    ASSUME RefInv, SubInv, MainHls,
           MainStep \/ ConfigureAction \/ \E t \in Tiers : HlsAction(t)
    PROVE  SubInv' /\ MainHls'
<1> DEFINE m == main.tier
<1>a. /\ TypeOK /\ GenInv /\ SMTypeOK /\ OwedInv
      /\ rtsp \in [Factories -> MediaRecord] /\ held \in [Users -> Nat]
      /\ m \in Tiers /\ main \in MainRecord /\ main.gen \in Nat
      /\ hls \in [Tiers -> [on : BOOLEAN, handler : Nat]]
      /\ Tiers \subseteq Users /\ Factories \subseteq Users
      /\ \A t \in Tiers : t \notin Factories
      /\ \A v \in Users \ Tiers : v \in Factories
  BY UsersAssumption DEF RefInv, CountInv, TypeOK, EngineTypeOK, Users, MainRecord
<1>b. \A t \in Tiers : /\ TierOf(t) = t /\ TierOf(t)' = t
                        /\ HandlerOf(t) = hls[t].handler /\ HandlerOf(t)' = hls'[t].handler
                        /\ Streaming(t) = hls[t].on /\ Streaming(t)' = hls'[t].on
  <2> SUFFICES ASSUME NEW t \in Tiers
               PROVE  /\ TierOf(t) = t /\ TierOf(t)' = t
                      /\ HandlerOf(t) = hls[t].handler /\ HandlerOf(t)' = hls'[t].handler
                      /\ Streaming(t) = hls[t].on /\ Streaming(t)' = hls'[t].on
    OBVIOUS
  <2>1. TierOf(t) = t /\ TierOf(t)' = t
    BY DEF TierOf
  <2>2. HandlerOf(t) = hls[t].handler /\ HandlerOf(t)' = hls'[t].handler
    BY DEF HandlerOf
  <2>3. Streaming(t) = hls[t].on /\ Streaming(t)' = hls'[t].on
    BY DEF Streaming
  <2> QED BY <2>1, <2>2, <2>3
<1>c. ASSUME UNCHANGED <<rtsp, hls>>, \A v \in Users : Streaming(v) => held'[v] \in {held[v], 0}
      PROVE  \A v \in Users : UserKept(v)
  BY <1>c DEF UserKept, TierOf, HandlerOf, Streaming
<1>d. ASSUME NEW t \in Tiers, NEW h, UNCHANGED rtsp, hls' = [hls EXCEPT ![t] = h]
      PROVE  \A v \in Users \ {t} : OtherKept(v)
  BY <1>a, <1>d DEF OtherKept, HandlerOf, TierOf, Streaming
<1>e. ASSUME UNCHANGED <<rtsp, hls>>, \A v \in Users : Streaming(v) => held'[v] \in {held[v], 0},
             \/ UNCHANGED smVars
             \/ \E t \in Tiers, c \in Nat :
                   \/ AcquireExisting(t) \/ AcquireNew(t, c, TRUE) \/ AcquireFails(t)
                   \/ Release(t) \/ ForceTeardown(t)
             \/ \E g \in Nat : RemoveBranch(g)
      PROVE  SubInv'
  <2>1. nextHandler' = nextHandler /\ \A s \in Tiers : StreamKept(s)
    BY <1>e, <1>a, KeptOps
  <2> QED BY <1>a, <1>c, <1>e, <2>1, KeptSubs
<1>1. ASSUME NEW t \in Tiers, StartHls(t) PROVE SubInv' /\ MainHls'
  <2>1. capture.id \in Nat /\ ~Streaming(t)
    BY <1>1, <1>a, <1>b DEF StartHls, TypeOK, EngineTypeOK
  <2>2. SubInv'
    BY <1>1, <2>1, <1>a, <1>e DEF StartHls
  <2>3. MainHls'
    BY <1>1, <1>a DEF StartHls, MainHls, MainRecord
  <2> QED BY <2>2, <2>3
<1>2. ASSUME NEW t \in Tiers, StartHlsFails(t) PROVE SubInv' /\ MainHls'
  <2>1. SubInv'
    BY <1>2, <1>e, 0 \in Nat DEF StartHlsFails, engineVars
  <2> QED BY <2>1, <1>2 DEF StartHlsFails, engineVars, MainHls
<1>3. ASSUME NEW t \in Tiers, NEW pc \in {"release", "reap"}, RemoveHls(t, pc)
      PROVE  SubInv' /\ MainHls'
  <2>1. hls'[t] = [on |-> FALSE, handler |-> 0]
    BY <1>3, <1>a DEF RemoveHls
  <2>4. HandlerOf(t)' = 0 /\ ~Streaming(t)'
    BY <2>1, <1>b
  <2>5. Unsubscribe(t, HandlerOf(t)) /\ UNCHANGED held /\ \A v \in Users \ {t} : OtherKept(v)
    BY <1>3, <1>b, <1>d DEF RemoveHls
  <2>2. SubInv'
    BY <2>4, <2>5, <1>a, <1>b, UnsubscribeSubs
  <2>3. MainHls'
    BY <1>3, <2>1, <1>a DEF RemoveHls, MainHls, MainRecord
  <2> QED BY <2>2, <2>3
<1>4. CASE HlsSubscribe
  <2>1. PICK t \in Tiers : t = m
    BY <1>a
  <2>2. hls'[t] = [on |-> TRUE, handler |-> SubscribedHandler(t)]
    BY <1>4, <2>1, <1>a DEF HlsSubscribe
  <2>3. ~Streaming(t)
    BY <1>4, <2>1, <1>b DEF HlsSubscribe, MainHls
  <2>4. HandlerOf(t)' = SubscribedHandler(t) /\ Streaming(t)'
    BY <2>2, <1>b
  <2>5. Subscribe(t) /\ UNCHANGED held /\ \A v \in Users \ {t} : OtherKept(v)
    BY <1>4, <2>1, <1>d DEF HlsSubscribe
  <2>6. SubInv'
    BY <2>3, <2>4, <2>5, <1>a, <1>b, SubscribeSubs
  <2> QED BY <2>6, <1>4 DEF HlsSubscribe, MainHls, Idle
<1>5. CASE HlsLaunchFails
  <2>1. PICK t \in Tiers : t = m
    BY <1>a
  <2>2. hls'[t] = [on |-> TRUE, handler |-> 0] /\ ~hls[t].on
    BY <1>5, <2>1, <1>a DEF HlsLaunchFails, MainHls
  <2>3. \A v \in Users \ {t} : OtherKept(v) /\ UNCHANGED held
    BY <1>5, <2>1, <1>d DEF HlsLaunchFails
  <2>4. HandlerOf(t)' = 0 /\ ~Streaming(t)
    BY <2>2, <1>b
  <2>5. \A v \in Users : UserKept(v)
    BY <2>3, <2>4, <1>a DEF UserKept, OtherKept
  <2>6. nextHandler' = nextHandler /\ \A s \in Tiers : StreamKept(s)
    BY <1>5 DEF HlsLaunchFails, smVars, StreamKept
  <2>7. SubInv'
    BY <1>a, <2>5, <2>6, KeptSubs
  <2> QED BY <2>7, <1>5 DEF HlsLaunchFails, MainHls, Idle
<1>6. CASE ReapCheck
  <2>1. SubInv'
    BY <1>6, <1>a, <1>e DEF ReapCheck
  <2> QED BY <2>1, <1>6, <1>a DEF ReapCheck, MainHls, Idle, MainRecord
<1>7. CASE HlsRelease
  <2>1. SubInv'
    BY <1>7, <1>a, <1>e, 0 \in Nat DEF HlsRelease
  <2> QED BY <2>1, <1>7, <1>a DEF HlsRelease, MainHls, Idle, MainRecord
<1>8. CASE HlsRemoveBranch
  BY <1>8, <1>a, <1>e DEF HlsRemoveBranch, MainHls, Idle
<1>9. CASE ConfigureAction
  BY <1>9, <1>a, <1>e DEF ConfigureAction, ConfigureLens, StopLens, MainHls, MainRecord
<1>10. ASSUME NEW t \in Tiers, AuditTeardown(t) PROVE SubInv' /\ MainHls'
  BY <1>10, <1>a, <1>e, 0 \in Nat DEF AuditTeardown, MainHls, MainRecord
<1>11. ASSUME NEW t \in Tiers, DynamicUpdate(t) \/ StaticChange(t) \/ NewTier(t)
       PROVE  SubInv' /\ MainHls'
  <2>1. SubInv'
    BY <1>11, <1>e DEF DynamicUpdate, StaticChange, NewTier
  <2>2. main'.pc \in {"tiers", "name", "force", "mount"}
    BY <1>11, <1>a DEF DynamicUpdate, StaticChange, NewTier, MainRecord
  <2> QED BY <2>1, <2>2 DEF MainHls
<1>12. CASE EnsureCapture \/ ReadBranchName \/ ConfigureDone
  <2>1. SubInv'
    BY <1>12, <1>e DEF EnsureCapture, ReadBranchName, ConfigureDone
  <2>2. main'.pc \in {"tiers", "rmbranch", "force", "idle"}
    <3>1. CASE EnsureCapture
      BY <3>1, <1>a DEF EnsureCapture, MainRecord
    <3>2. CASE ReadBranchName
      BY <3>2, <1>a DEF ReadBranchName, MainRecord
    <3>3. CASE ConfigureDone
      BY <3>3 DEF ConfigureDone, Idle
    <3> QED BY <1>12, <3>1, <3>2, <3>3
  <2> QED BY <2>1, <2>2 DEF MainHls
<1>13. CASE RemoveLiveBranch \/ RebuildTeardown
  BY <1>13, <1>a, <1>e, 0 \in Nat DEF RemoveLiveBranch, RebuildTeardown, MainHls, MainRecord
<1>14. ASSUME NEW f \in Factories, MountFactory(f) PROVE SubInv' /\ MainHls'
  <2> DEFINE r == [pc |-> "idle", tier |-> m, cap |-> capture.id, handler |-> 0, dropped |-> 0]
  <2>1. rtsp'[f] = r /\ \A v \in Factories \ {f} : rtsp'[v] = rtsp[v]
    BY <1>14, <1>a DEF MountFactory
  <2>2. \A v \in Users \ {f} : UserKept(v)
    BY <1>14, <2>1, <1>a DEF MountFactory, UserKept, TierOf, HandlerOf, Streaming
  <2>3. ~Streaming(f) /\ ~Streaming(f)' /\ HandlerOf(f)' = 0
    BY <1>14, <2>1, <1>a DEF MountFactory, Retired, HandlerOf, Streaming
  <2>4. nextHandler' = nextHandler /\ \A s \in Tiers : StreamKept(s)
    BY <1>14 DEF MountFactory, smVars, StreamKept
  <2>5. \A v \in Users : UserKept(v)
    BY <2>2, <2>3 DEF UserKept
  <2>6. SubInv'
    BY <1>a, <2>4, <2>5, KeptSubs
  <2> QED BY <2>6, <1>14, <1>a DEF MountFactory, MainHls, MainRecord
<1>15. CASE StopCapture
  <2>1. \A v \in Users : UserKept(v)
    BY <1>15, <1>c DEF StopCapture
  <2>2. nextHandler' = nextHandler /\ \A s \in Tiers : StreamKept(s)
    BY <1>15 DEF StopCapture, StreamKept
  <2>3. SubInv'
    BY <1>a, <2>1, <2>2, KeptSubs
  <2> QED BY <2>3, <1>15 DEF StopCapture, MainHls, Idle
<1>16. CASE MainStep
  BY <1>4, <1>5, <1>6, <1>7, <1>8, <1>10, <1>11, <1>12, <1>13, <1>14, <1>15, <1>16
  DEF MainStep
<1>17. ASSUME NEW t \in Tiers, HlsAction(t) PROVE SubInv' /\ MainHls'
  BY <1>1, <1>2, <1>3, <1>17 DEF HlsAction, StopHls, ReapHls
<1> QED BY <1>9, <1>16, <1>17

LEMMA StutterSubs == SubInv /\ MainHls /\ UNCHANGED vars => SubInv' /\ MainHls'
<1> SUFFICES ASSUME SubInv, MainHls, UNCHANGED vars PROVE SubInv' /\ MainHls'
  OBVIOUS
<1>1. \A u \in Users : /\ HandlerOf(u)' = HandlerOf(u) /\ TierOf(u)' = TierOf(u)
                        /\ Streaming(u)' = Streaming(u)
  BY DEF HandlerOf, TierOf, Streaming, vars
<1>2. HandlerInv'
  BY <1>1 DEF SubInv, HandlerInv, vars
<1>3. OwnerInv'
  BY <1>1 DEF SubInv, OwnerInv, vars
<1>4. SubscribedInv'
  BY <1>1 DEF SubInv, SubscribedInv, Present, vars
<1>5. MainHls'
  BY DEF MainHls, vars
<1> QED BY <1>2, <1>3, <1>4, <1>5 DEF SubInv

SubsInv == RefInv /\ SubInv /\ MainHls

LEMMA InitSubs == Init => SubsInv
<1> SUFFICES ASSUME Init PROVE SubInv /\ MainHls
  BY InitCounts DEF SubsInv
<1>1. \A u \in Users : HandlerOf(u) = 0 /\ ~Streaming(u)
  BY DEF Init, HandlerOf, Streaming, Users
<1>2. \A t \in Tiers : streams[t].subs = {}
  BY DEF Init, SMInit, NoStream
<1>3. SubInv
  BY <1>1, <1>2 DEF Init, SMInit, SubInv, HandlerInv, OwnerInv, SubscribedInv
<1> QED BY <1>3 DEF Init, Idle, MainHls

LEMMA StepSubs == SubsInv /\ [Next]_vars => SubsInv'
<1> SUFFICES ASSUME SubsInv, [Next]_vars PROVE SubInv' /\ MainHls'
  BY StepRef DEF SubsInv
<1>1. ASSUME NEW f \in Factories, RtspStep(f) \/ Connect(f) \/ UnpreparedUnsubscribe(f)
      PROVE  SubInv' /\ MainHls'
  <2>1. UNCHANGED hls /\ UNCHANGED main
    BY <1>1 DEF RtspStep, Connect, ConfigureAcquire, ConfigureFails, ConfigureSubscribe,
                UnpreparedUnsubscribe, UnpreparedRelease, UnpreparedRemoveBranch
  <2> QED BY <1>1, <2>1, RtspSubs DEF SubsInv, MainHls
<1>2. CASE MainStep \/ ConfigureAction \/ \E t \in Tiers : HlsAction(t)
  BY <1>2, MainSubs DEF SubsInv
<1>3. CASE UNCHANGED vars
  BY <1>3, StutterSubs DEF SubsInv
<1> QED BY <1>1, <1>2, <1>3 DEF Next, Request, HlsAction, ConfigureAction

LEMMA OneOwner ==
    ASSUME SubsInv, NEW t \in Tiers, NEW h \in streams[t].subs
    PROVE  Cardinality(Owners(t, h)) = 1
<1>a. \A t1 \in Tiers : t1 \notin Factories
  BY UsersAssumption
<1>b. /\ rtsp \in [Factories -> MediaRecord]
      /\ hls \in [Tiers -> [on : BOOLEAN, handler : Nat]]
  BY DEF SubsInv, RefInv, TypeOK, EngineTypeOK
<1>1. PICK u \in Users : TierOf(u) = t /\ Streaming(u) /\ HandlerOf(u) = h
  BY DEF SubsInv, SubInv, OwnerInv
<1>2. h # 0
  BY DEF SubsInv, SubInv, HandlerInv
<1>3. \A v \in Users : HandlerOf(v) = h => v = u
  BY <1>1, <1>2 DEF SubsInv, SubInv, HandlerInv
<1>4. u \in Owners(t, h)
  <2>1. CASE u \in Tiers
    BY <1>1, <2>1 DEF Owners, TierOf, Streaming, HandlerOf
  <2>2. CASE u \in Factories /\ u \notin Tiers
    BY <1>1, <2>2 DEF Owners, TierOf, Streaming, HandlerOf
  <2> QED BY <2>1, <2>2 DEF Users
<1>5. \A v \in Owners(t, h) : v \in Users /\ HandlerOf(v) = h
  BY <1>a DEF Owners, HandlerOf, Users
<1>6. Owners(t, h) = {u}
  BY <1>3, <1>4, <1>5
<1> QED BY <1>6, FS_Singleton

\* No path out of a session leaves a subscription behind, and no unsubscribe
\* by name takes another user's away, whatever was rebuilt under the users
\* (sys_stream.c:370-393, sys_rtsp.c:290-330).
THEOREM SubscriptionsExact == Spec => []UsersSubscribed
<1>1. SubsInv => UsersSubscribed
  <2> SUFFICES ASSUME SubsInv PROVE SubscriptionsOwned /\ HoldersSubscribed
    BY DEF UsersSubscribed
  <2>1. SubscriptionsOwned
    BY OneOwner DEF SubscriptionsOwned
  <2>2. ASSUME NEW u \in Users, NEW t \in Tiers, Present(t), TierOf(u) = t, Streaming(u),
               held[u] = streams[t].gen, u \in Tiers => HandlerOf(u) # 0
        PROVE  HandlerOf(u) \in streams[t].subs
    BY <2>2 DEF SubsInv, SubInv, SubscribedInv
  <2>3. \A t \in Tiers : t \notin Factories /\ t \in Users
    BY UsersAssumption DEF Users
  <2>4. \A f \in Factories : f \in Users
    BY DEF Users
  <2>5. HoldersSubscribed
    <3> SUFFICES ASSUME NEW t \in Tiers, Present(t)
                 PROVE  /\ \A f \in Factories :
                             rtsp[f].pc = "active" /\ rtsp[f].tier = t
                               /\ held[f] = streams[t].gen
                               => rtsp[f].handler \in streams[t].subs
                        /\ hls[t].on /\ hls[t].handler # 0 /\ held[t] = streams[t].gen
                              => hls[t].handler \in streams[t].subs
      BY DEF HoldersSubscribed
    <3>1. ASSUME NEW f \in Factories, rtsp[f].pc = "active", rtsp[f].tier = t,
                 held[f] = streams[t].gen
          PROVE  rtsp[f].handler \in streams[t].subs
      BY <3>1, <2>2, <2>3, <2>4 DEF TierOf, Streaming, HandlerOf
    <3>2. ASSUME hls[t].on, hls[t].handler # 0, held[t] = streams[t].gen
          PROVE  hls[t].handler \in streams[t].subs
      BY <3>2, <2>2, <2>3 DEF TierOf, Streaming, HandlerOf
    <3> QED BY <3>1, <3>2
  <2> QED BY <2>1, <2>5
<1> QED BY InitSubs, StepSubs, <1>1, PTL DEF Spec

----------------------------------------------------------------------------
(* Branches *)

\* A generation that was issued and that no stream has any more.
Gone(g) == g < nextGen /\ \A t \in Tiers : Present(t) => streams[t].gen # g

\* No stream is on a capture that is yet to be made.
CapInv ==
    /\ \A t \in Tiers : Present(t) => streams[t].cap <= capture.id
    /\ \A f \in Factories : rtsp[f].cap <= capture.id

\* The branch a thread is about to remove is that of no stream, or it is that
\* of the tier being rebuilt.
RtspRemoves == \A f \in Factories : rtsp[f].pc = "removing" => Gone(rtsp[f].dropped)

MainRemoves ==
    /\ main.pc = "remove" => Gone(main.gen)
    /\ main.pc = "rmbranch" =>
          /\ main.gen < nextGen
          /\ \A t \in Tiers \ {main.tier} : Present(t) => streams[t].gen # main.gen

BranchInv == CapInv /\ RtspRemoves /\ MainRemoves /\ StreamsHaveBranches

BranchTypes ==
    /\ nextGen \in Nat \ {0} /\ branches \in SUBSET Nat /\ capture.id \in Nat
    /\ \A t \in Tiers : streams[t].gen \in Nat /\ streams[t].cap \in Nat
    /\ \A f \in Factories : rtsp[f].cap \in Nat /\ rtsp[f].dropped \in Nat
    /\ main.gen \in Nat

LEMMA TypedBranches == (TypeOK => BranchTypes) /\ (TypeOK' => BranchTypes')
  BY DEF TypeOK, SMTypeOK, EngineTypeOK, StreamRecord, MediaRecord, MainRecord, BranchTypes

\* What a step does to a stream: nothing, or it is forgotten, or a new one has
\* its branch.
StreamStep(t) ==
    \/ streams'[t].gen = streams[t].gen /\ streams'[t].cap = streams[t].cap
    \/ streams'[t].gen = 0
    \/ /\ streams'[t].gen = nextGen /\ nextGen' = nextGen + 1
       /\ streams'[t].cap <= capture'.id
       /\ Alive(streams[t].cap)' => nextGen \in branches'

\* Branches are only taken from under streams of a dead capture, or of the
\* tier whose rebuild goes on.
BranchStep(t) ==
    streams[t].gen \in branches \ branches' =>
        \/ streams'[t].gen = 0 \/ ~Alive(streams[t].cap)'
        \/ main'.pc = "force" /\ main'.tier = t

LEMMA GoneStays ==
    ASSUME BranchTypes, BranchTypes', nextGen <= nextGen', \A t \in Tiers : StreamStep(t),
           NEW g \in Nat, Gone(g)
    PROVE  Gone(g)'
  BY DEF Gone, StreamStep, Present, BranchTypes

LEMMA KeptBranches ==
    ASSUME BranchTypes, BranchTypes', GenInv, BranchInv, nextGen <= nextGen',
           \A t \in Tiers : StreamStep(t), \A t \in Tiers : BranchStep(t),
           \/ UNCHANGED capture
           \/ capture'.id = capture.id /\ ~capture'.live
           \/ capture'.id = capture.id + 1,
           main.pc = "force" => \/ main'.pc = "force" /\ main'.tier = main.tier
                                \/ streams'[main.tier].gen = 0,
           \A f \in Factories : rtsp'[f].cap <= capture'.id,
           RtspRemoves', MainRemoves'
    PROVE  BranchInv'
<1>1. CapInv'
  BY DEF BranchInv, CapInv, StreamStep, Present, BranchTypes
<1>2. StreamsHaveBranches'
  <2> SUFFICES ASSUME NEW t \in Tiers, Present(t)', Alive(streams[t].cap)'
               PROVE  streams'[t].gen \in branches' \/ (main'.pc = "force" /\ main'.tier = t)
    BY DEF StreamsHaveBranches, Alive, Present
  <2>1. CASE streams'[t].gen = nextGen /\ nextGen' = nextGen + 1
    <3>1. streams[t].gen # nextGen
      BY DEF GenInv, BranchTypes
    <3> QED BY <2>1, <3>1 DEF StreamStep, Present, BranchTypes
  <2>2. CASE streams'[t].gen = streams[t].gen /\ streams'[t].cap = streams[t].cap
    <3>1. Present(t)
      BY <2>2 DEF Present
    <3>3. streams[t].cap <= capture.id
      BY <3>1 DEF BranchInv, CapInv
    <3>4. Alive(streams[t].cap)
      BY <2>2, <3>3 DEF Alive, BranchTypes
    <3>2. streams[t].gen \in branches \/ (main.pc = "force" /\ main.tier = t)
      BY <3>1, <3>4 DEF BranchInv, StreamsHaveBranches
    <3> QED BY <2>2, <3>2 DEF BranchStep, Present
  <2> QED BY <2>1, <2>2 DEF StreamStep, Present
<1> QED BY <1>1, <1>2 DEF BranchInv

\* The table operations, none of which removes a branch but RemoveBranch.
LEMMA BranchOps ==
    ASSUME SMTypeOK, UNCHANGED capture, NEW t \in Tiers, NEW c \in Nat, c <= capture.id,
           NEW h,
           \/ AcquireExisting(t) \/ AcquireNew(t, c, Alive(c)) \/ AcquireFails(t)
           \/ Subscribe(t) \/ Unsubscribe(t, h) \/ Release(t) \/ ForceTeardown(t)
           \/ UNCHANGED smVars
    PROVE  /\ nextGen <= nextGen' /\ branches \subseteq branches'
           /\ \A s \in Tiers : StreamStep(s)
<1>a. streams \in [Tiers -> StreamRecord] /\ nextGen \in Nat
  BY DEF SMTypeOK
<1>1. CASE AcquireExisting(t) \/ Subscribe(t) \/ Unsubscribe(t, h)
  BY <1>a, <1>1 DEF AcquireExisting, Subscribe, Unsubscribe, StreamStep, StreamRecord
<1>2. CASE AcquireNew(t, c, Alive(c))
  <2>1. ASSUME NEW s \in Tiers PROVE StreamStep(s)
    <3>1. CASE s = t
      <4>1. streams'[s].gen = nextGen /\ streams'[s].cap = c
        BY <1>a, <1>2, <3>1 DEF AcquireNew
      <4>2. Alive(streams[s].cap)' => nextGen \in branches'
        BY <1>2, <4>1 DEF AcquireNew, Alive
      <4> QED BY <1>2, <4>1, <4>2 DEF AcquireNew, StreamStep
    <3>2. CASE s # t
      BY <1>a, <1>2, <3>2 DEF AcquireNew, StreamStep
    <3> QED BY <3>1, <3>2
  <2> QED BY <1>a, <1>2, <2>1 DEF AcquireNew
<1>3. CASE AcquireFails(t) \/ UNCHANGED smVars
  BY <1>a, <1>3 DEF AcquireFails, smVars, StreamStep
<1>4. CASE Release(t)
  BY <1>a, <1>4 DEF Release, NoStream, StreamStep, StreamRecord
<1>5. CASE ForceTeardown(t)
  BY <1>a, <1>5 DEF ForceTeardown, NoStream, StreamStep
<1> QED BY <1>1, <1>2, <1>3, <1>4, <1>5

\* The generation a last release drops has no stream any more.
LEMMA DroppedGone ==
    ASSUME TypeOK, GenInv, NEW t \in Tiers, Release(t),
           NEW g \in Nat, g = DroppedBranch(t), g # 0
    PROVE  Gone(g)'
<1>1. /\ streams \in [Tiers -> StreamRecord] /\ nextGen \in Nat /\ nextGen' = nextGen
      /\ \A s \in Tiers : streams[s].gen \in Nat
  BY DEF TypeOK, SMTypeOK, StreamRecord, Release
<1>2. Present(t) /\ g = streams[t].gen /\ streams' = [streams EXCEPT ![t] = NoStream]
  BY DEF DroppedBranch, LastRelease, Release
<1> QED BY <1>1, <1>2 DEF GenInv, Present, NoStream, Gone

\* What the main loop is about to remove stays the branch of no other stream.
LEMMA NamedStays ==
    ASSUME BranchTypes, BranchTypes', MainRemoves, main.pc = "rmbranch",
           nextGen <= nextGen', \A t \in Tiers : StreamStep(t)
    PROVE  /\ main.gen < nextGen'
           /\ \A t \in Tiers \ {main.tier} : Present(t)' => streams'[t].gen # main.gen
  BY DEF BranchTypes, MainRemoves, StreamStep, Present

\* The main loop's removals, when another thread runs.
LEMMA MainRemovesKept ==
    ASSUME BranchTypes, BranchTypes', MainRemoves, UNCHANGED main,
           nextGen <= nextGen', \A t \in Tiers : StreamStep(t)
    PROVE  MainRemoves'
<1>1. ASSUME main.pc = "remove" PROVE Gone(main.gen)'
  <2>1. PICK g \in Nat : g = main.gen
    BY DEF BranchTypes
  <2>2. Gone(g)
    BY <1>1, <2>1 DEF MainRemoves
  <2>3. Gone(g)'
    BY <2>2, GoneStays
  <2> QED BY <2>1, <2>3 DEF Gone
<1> QED BY <1>1, NamedStays DEF MainRemoves

\* The media callbacks keep the branches of the running streams.
LEMMA RtspBranches ==
    ASSUME RefInv, BranchInv, NEW f \in Factories,
           RtspStep(f) \/ Connect(f) \/ UnpreparedUnsubscribe(f)
    PROVE  BranchInv'
<1> DEFINE t == rtsp[f].tier
           c == rtsp[f].cap
<1>a. /\ TypeOK /\ SMTypeOK /\ GenInv /\ BranchTypes
      /\ rtsp \in [Factories -> MediaRecord] /\ t \in Tiers /\ c \in Nat /\ c <= capture.id
  BY TypedBranches
  DEF RefInv, CountInv, TypeOK, EngineTypeOK, MediaRecord, BranchInv, CapInv
<1>b. TypeOK' /\ BranchTypes'
  BY RtspTypes, TypedBranches DEF RefInv
<1>c. UNCHANGED <<capture, main>> /\ \A k \in Factories \ {f} : rtsp'[k] = rtsp[k]
  BY <1>a DEF RtspStep, Connect, ConfigureAcquire, ConfigureFails, ConfigureSubscribe,
              UnpreparedUnsubscribe, UnpreparedRelease, UnpreparedRemoveBranch
<1>d. rtsp'[f].cap = c
  BY <1>a DEF RtspStep, Connect, ConfigureAcquire, ConfigureFails, ConfigureSubscribe,
              UnpreparedUnsubscribe, UnpreparedRelease, UnpreparedRemoveBranch, MediaRecord
<1>e. ASSUME nextGen <= nextGen', \A s \in Tiers : StreamStep(s),
             \A s \in Tiers : BranchStep(s), rtsp'[f].pc = "removing" => Gone(rtsp[f].dropped)'
      PROVE  BranchInv'
  <2>1. RtspRemoves'
    <3> SUFFICES ASSUME NEW k \in Factories \ {f}, rtsp'[k].pc = "removing"
                 PROVE  Gone(rtsp[k].dropped)'
      BY <1>e DEF RtspRemoves
    <3>1. PICK g \in Nat : g = rtsp[k].dropped
      BY <1>a DEF BranchTypes
    <3>2. Gone(g)
      BY <1>c, <3>1 DEF BranchInv, RtspRemoves
    <3>3. Gone(g)'
      BY <1>a, <1>b, <1>e, <3>2, GoneStays
    <3> QED BY <1>c, <3>1, <3>3 DEF Gone
  <2>2. MainRemoves'
    BY <1>a, <1>b, <1>c, <1>e, MainRemovesKept DEF BranchInv
  <2>3. \A k \in Factories : rtsp'[k].cap <= capture'.id
    BY <1>c, <1>d DEF BranchInv, CapInv
  <2> QED BY <1>a, <1>b, <1>c, <1>e, <2>1, <2>2, <2>3, KeptBranches
<1>f. branches \subseteq branches' => \A s \in Tiers : BranchStep(s)
  BY DEF BranchStep
<1>1. CASE UnpreparedRelease(f)
  <2>1. nextGen <= nextGen' /\ branches \subseteq branches' /\ \A s \in Tiers : StreamStep(s)
    BY <1>1, <1>a, <1>c, BranchOps DEF UnpreparedRelease
  <2>2. PICK g \in Nat : g = DroppedBranch(t)
    BY <1>a, StreamOps
  <2>3. /\ rtsp'[f].pc = (IF g = 0 THEN "idle" ELSE "removing") /\ rtsp'[f].dropped = g
        /\ Release(t)
    BY <1>1, <1>a, <2>2 DEF UnpreparedRelease, MediaRecord
  <2>4. rtsp'[f].pc = "removing" => Gone(rtsp[f].dropped)'
    <3> SUFFICES ASSUME g # 0 PROVE Gone(rtsp[f].dropped)'
      BY <2>3
    <3>1. Gone(g)'
      BY <1>a, <2>2, <2>3, DroppedGone
    <3> QED BY <2>3, <3>1 DEF Gone
  <2> QED BY <1>e, <1>f, <2>1, <2>4
<1>2. CASE UnpreparedRemoveBranch(f)
  <2>1. PICK g \in Nat : g = rtsp[f].dropped
    BY <1>a DEF BranchTypes
  <2>2. Gone(g) /\ RemoveBranch(g)
    BY <1>2, <2>1 DEF UnpreparedRemoveBranch, BranchInv, RtspRemoves
  <2>3. nextGen' = nextGen /\ UNCHANGED streams /\ branches' = branches \ {g}
    BY <2>2 DEF RemoveBranch
  <2>4. \A s \in Tiers : StreamStep(s)
    BY <2>3 DEF StreamStep
  <2>5. \A s \in Tiers : BranchStep(s)
    BY <2>2, <2>3 DEF BranchStep, Gone, Present
  <2>6. rtsp'[f].pc = "idle"
    BY <1>2, <1>a DEF UnpreparedRemoveBranch, MediaRecord
  <2> QED BY <1>a, <1>e, <2>3, <2>4, <2>5, <2>6 DEF BranchTypes
<1>3. CASE Connect(f) \/ ConfigureAcquire(f) \/ ConfigureFails(f) \/ ConfigureSubscribe(f)
            \/ UnpreparedUnsubscribe(f)
  <2>1. nextGen <= nextGen' /\ branches \subseteq branches' /\ \A s \in Tiers : StreamStep(s)
    BY <1>3, <1>a, <1>c, BranchOps
    DEF Connect, ConfigureAcquire, ConfigureFails, ConfigureSubscribe, UnpreparedUnsubscribe
  <2>2. rtsp'[f].pc # "removing"
    BY <1>3, <1>a DEF Connect, ConfigureAcquire, ConfigureFails, ConfigureSubscribe,
                      UnpreparedUnsubscribe, MediaRecord
  <2> QED BY <1>e, <1>f, <2>1, <2>2
<1> QED BY <1>1, <1>2, <1>3 DEF RtspStep

\* So do the steps of the main loop, whose rebuilds and audits take streams and
\* branches away in separate steps.
LEMMA MainBranches ==
    ASSUME RefInv, BranchInv,
           MainStep \/ ConfigureAction \/ \E t \in Tiers : HlsAction(t)
    PROVE  BranchInv'
<1> DEFINE m == main.tier
<1>a. /\ TypeOK /\ SMTypeOK /\ GenInv /\ BranchTypes
      /\ rtsp \in [Factories -> MediaRecord]
      /\ main \in MainRecord /\ m \in Tiers /\ main.gen \in Nat
      /\ capture.id \in Nat /\ capture \in [id : Nat, live : BOOLEAN]
      /\ streams \in [Tiers -> StreamRecord] /\ nextGen \in Nat
  BY TypedBranches
  DEF RefInv, CountInv, TypeOK, EngineTypeOK, MainRecord, SMTypeOK
<1>b. TypeOK' /\ BranchTypes'
  BY MainTypes, TypedBranches DEF RefInv
<1>c. CapInv /\ RtspRemoves /\ MainRemoves /\ StreamsHaveBranches
  BY DEF BranchInv
\* A step between whose ends only the table changes.
<1>d. ASSUME UNCHANGED <<rtsp, capture>>, nextGen <= nextGen',
             \A s \in Tiers : StreamStep(s), \A s \in Tiers : BranchStep(s),
             main.pc = "force" => \/ main'.pc = "force" /\ main'.tier = main.tier
                                  \/ streams'[main.tier].gen = 0,
             MainRemoves'
      PROVE  BranchInv'
  <2>1. RtspRemoves'
    <3> SUFFICES ASSUME NEW k \in Factories, rtsp[k].pc = "removing"
                 PROVE  Gone(rtsp[k].dropped)'
      BY <1>d DEF RtspRemoves
    <3>1. PICK g \in Nat : g = rtsp[k].dropped
      BY <1>a DEF BranchTypes
    <3>2. Gone(g)
      BY <1>c, <3>1 DEF RtspRemoves
    <3>3. Gone(g)'
      BY <1>a, <1>b, <1>d, <3>2, GoneStays
    <3> QED BY <1>d, <3>1, <3>3 DEF Gone
  <2>2. \A k \in Factories : rtsp'[k].cap <= capture'.id
    BY <1>c, <1>d DEF CapInv
  <2> QED BY <1>a, <1>b, <1>d, <2>1, <2>2, KeptBranches
<1>e. ASSUME UNCHANGED <<rtsp, capture>>, main'.pc \notin {"remove", "rmbranch"},
             main.pc # "force",
             \/ UNCHANGED smVars
             \/ \E t \in Tiers :
                   \/ AcquireExisting(t) \/ AcquireFails(t)
                   \/ AcquireNew(t, capture.id, Alive(capture.id))
                   \/ Subscribe(t) \/ Release(t) \/ ForceTeardown(t)
                   \/ Unsubscribe(t, hls[t].handler)
      PROVE  BranchInv'
  <2>1. nextGen <= nextGen' /\ branches \subseteq branches' /\ \A s \in Tiers : StreamStep(s)
    <3>1. CASE UNCHANGED smVars
      BY <1>a, <3>1 DEF smVars, StreamStep
    <3>2. ASSUME NEW t \in Tiers,
                 \/ AcquireExisting(t) \/ AcquireFails(t)
                 \/ AcquireNew(t, capture.id, Alive(capture.id))
                 \/ Subscribe(t) \/ Release(t) \/ ForceTeardown(t)
                 \/ Unsubscribe(t, hls[t].handler)
          PROVE  /\ nextGen <= nextGen' /\ branches \subseteq branches'
                 /\ \A s \in Tiers : StreamStep(s)
      BY <1>a, <1>e, <3>2, BranchOps
    <3> QED BY <1>e, <3>1, <3>2
  <2>2. \A s \in Tiers : BranchStep(s)
    BY <2>1 DEF BranchStep
  <2>3. MainRemoves'
    BY <1>e DEF MainRemoves
  <2> QED BY <1>d, <1>e, <2>1, <2>2, <2>3
<1>1. ASSUME NEW t \in Tiers, StartHls(t) PROVE BranchInv'
  <2>1. Alive(capture.id) = TRUE
    BY <1>1, <1>a DEF StartHls, Alive
  <2>2. main'.pc = "hlsstart"
    BY <1>1, <1>a DEF StartHls, MainRecord
  <2> QED BY <1>1, <2>1, <2>2, <1>e DEF StartHls
<1>2. ASSUME NEW t \in Tiers, StartHlsFails(t) PROVE BranchInv'
  BY <1>2, <1>e DEF StartHlsFails, engineVars
<1>3. ASSUME NEW t \in Tiers, NEW pc \in {"release", "reap"}, RemoveHls(t, pc)
      PROVE  BranchInv'
  <2>1. main'.pc = pc
    BY <1>3, <1>a DEF RemoveHls, MainRecord
  <2> QED BY <1>3, <2>1, <1>e DEF RemoveHls
<1>4. CASE HlsSubscribe
  BY <1>4, <1>a, <1>e DEF HlsSubscribe, Idle
<1>5. CASE HlsLaunchFails
  BY <1>5, <1>e DEF HlsLaunchFails, Idle
<1>6. CASE ReapCheck
  <2>1. main'.pc \in {"release", "idle"}
    BY <1>6, <1>a DEF ReapCheck, Idle, MainRecord
  <2> QED BY <1>6, <2>1, <1>e DEF ReapCheck
<1>7. CASE HlsRelease
  <2>1. nextGen <= nextGen' /\ branches \subseteq branches' /\ \A s \in Tiers : StreamStep(s)
    BY <1>7, <1>a, BranchOps DEF HlsRelease
  <2>2. \A s \in Tiers : BranchStep(s)
    BY <2>1 DEF BranchStep
  <2>3. PICK g \in Nat : g = DroppedBranch(m)
    BY <1>a, StreamOps
  <2>4. Release(m) /\ (g = 0 => main'.pc = "idle") /\ (g # 0 => main'.pc = "remove" /\ main'.gen = g)
    BY <1>7, <2>3, <1>a DEF HlsRelease, Idle, MainRecord
  <2>5. MainRemoves'
    <3>1. CASE g = 0
      BY <2>4, <3>1 DEF MainRemoves
    <3>2. CASE g # 0
      <4>1. Gone(g)'
        BY <3>2, <1>a, <2>3, <2>4, DroppedGone
      <4> QED BY <2>4, <3>2, <4>1 DEF MainRemoves, Gone
    <3> QED BY <3>1, <3>2
  <2> QED BY <1>7, <1>d, <2>1, <2>2, <2>5 DEF HlsRelease
<1>8. CASE HlsRemoveBranch
  <2>1. nextGen' = nextGen /\ UNCHANGED streams /\ branches' = branches \ {main.gen}
    BY <1>8 DEF HlsRemoveBranch, RemoveBranch
  <2>2. \A s \in Tiers : StreamStep(s)
    BY <2>1 DEF StreamStep
  <2>3. \A s \in Tiers : BranchStep(s)
    BY <1>8, <1>c, <2>1 DEF HlsRemoveBranch, MainRemoves, BranchStep, Gone, Present
  <2>4. MainRemoves'
    BY <1>8 DEF HlsRemoveBranch, Idle, MainRemoves
  <2> QED BY <1>8, <1>a, <1>d, <2>1, <2>2, <2>3, <2>4 DEF HlsRemoveBranch
<1>9. CASE ConfigureAction
  <2>1. main'.pc \in {"audit", "stopcapture"}
    BY <1>9, <1>a DEF ConfigureAction, ConfigureLens, StopLens, MainRecord
  <2> QED BY <1>9, <2>1, <1>e DEF ConfigureAction, ConfigureLens, StopLens
<1>10. ASSUME NEW t \in Tiers, AuditTeardown(t) PROVE BranchInv'
  <2>1. main'.pc = "audit"
    BY <1>10, <1>a DEF AuditTeardown, MainRecord
  <2> QED BY <1>10, <2>1, <1>e DEF AuditTeardown
<1>11. ASSUME NEW t \in Tiers, DynamicUpdate(t) \/ StaticChange(t) \/ NewTier(t)
       PROVE  BranchInv'
  <2>1. main'.pc \in {"tiers", "name", "force", "mount"}
    BY <1>11, <1>a DEF DynamicUpdate, StaticChange, NewTier, MainRecord
  <2> QED BY <1>11, <2>1, <1>e DEF DynamicUpdate, StaticChange, NewTier
<1>12. CASE EnsureCapture
  <2>1. UNCHANGED <<streams, branches, nextGen, rtsp>>
    BY <1>12 DEF EnsureCapture, smVars
  <2>2. capture' = capture \/ capture'.id = capture.id + 1
    BY <1>12 DEF EnsureCapture
  <2>3. (\A s \in Tiers : StreamStep(s)) /\ (\A s \in Tiers : BranchStep(s))
    BY <2>1 DEF StreamStep, BranchStep
  <2>4. main.pc # "force" /\ main'.pc = "tiers"
    BY <1>12, <1>a DEF EnsureCapture, MainRecord
  <2>5. MainRemoves' /\ RtspRemoves'
    BY <2>1, <2>4, <1>c DEF MainRemoves, RtspRemoves, Gone, Present
  <2>6. \A k \in Factories : rtsp'[k].cap <= capture'.id
    BY <1>a, <1>c, <2>1, <2>2 DEF CapInv, BranchTypes
  <2> QED BY <1>a, <1>b, <2>1, <2>2, <2>3, <2>4, <2>5, <2>6, KeptBranches
<1>13. CASE ReadBranchName
  <2>1. UNCHANGED <<streams, branches, nextGen, rtsp, capture>> /\ main.pc = "name"
    BY <1>13 DEF ReadBranchName, smVars
  <2>2. (\A s \in Tiers : StreamStep(s)) /\ (\A s \in Tiers : BranchStep(s))
    BY <2>1 DEF StreamStep, BranchStep
  <2>3. \/ main'.pc = "force"
        \/ main'.pc = "rmbranch" /\ main'.gen = streams[m].gen /\ main'.tier = m
    BY <1>13, <1>a DEF ReadBranchName, MainRecord
  <2>4. MainRemoves'
    BY <1>a, <2>1, <2>3 DEF MainRemoves, GenInv, Present
  <2> QED BY <1>a, <1>d, <2>1, <2>2, <2>4
<1>14. CASE RemoveLiveBranch
  <2>1. /\ UNCHANGED <<streams, nextGen, rtsp, capture>> /\ main.pc = "rmbranch"
        /\ branches \ {main.gen} \subseteq branches'
    BY <1>14 DEF RemoveLiveBranch, RemoveBranch, smVars
  <2>2. main'.pc = "force" /\ main'.tier = m
    BY <1>14, <1>a DEF RemoveLiveBranch, MainRecord
  <2>3. \A s \in Tiers : StreamStep(s)
    BY <2>1 DEF StreamStep
  <2>4. \A s \in Tiers : BranchStep(s)
    BY <1>c, <2>1, <2>2 DEF MainRemoves, BranchStep, Present
  <2>5. MainRemoves'
    BY <2>2 DEF MainRemoves
  <2> QED BY <1>a, <1>d, <2>1, <2>3, <2>4, <2>5
<1>15. CASE RebuildTeardown
  <2>1. ForceTeardown(m) /\ UNCHANGED <<rtsp, capture>>
    BY <1>15 DEF RebuildTeardown
  <2>2. nextGen <= nextGen' /\ branches \subseteq branches' /\ \A s \in Tiers : StreamStep(s)
    BY <1>a, <2>1, BranchOps
  <2>3. \A s \in Tiers : BranchStep(s)
    BY <2>2 DEF BranchStep
  <2>4. streams'[m].gen = 0 /\ main'.pc = "mount"
    BY <1>15, <1>a, <2>1 DEF ForceTeardown, NoStream, RebuildTeardown, MainRecord
  <2>5. MainRemoves'
    BY <2>4 DEF MainRemoves
  <2> QED BY <1>d, <2>1, <2>2, <2>3, <2>4, <2>5
<1>16. ASSUME NEW f \in Factories, MountFactory(f) PROVE BranchInv'
  <2>1. UNCHANGED <<streams, branches, nextGen, capture>> /\ main.pc = "mount"
    BY <1>16 DEF MountFactory, smVars
  <2>2. (\A s \in Tiers : StreamStep(s)) /\ (\A s \in Tiers : BranchStep(s))
    BY <2>1 DEF StreamStep, BranchStep
  <2>3. /\ rtsp'[f].pc = "idle" /\ rtsp'[f].cap = capture.id
        /\ \A k \in Factories \ {f} : rtsp'[k] = rtsp[k]
    BY <1>16, <1>a DEF MountFactory
  <2>4. RtspRemoves'
    BY <1>c, <2>1, <2>3 DEF RtspRemoves, Gone, Present
  <2>5. MainRemoves'
    BY <1>16, <1>a DEF MountFactory, MainRecord, MainRemoves
  <2>6. \A k \in Factories : rtsp'[k].cap <= capture'.id
    BY <1>a, <1>c, <2>1, <2>3 DEF CapInv
  <2> QED BY <1>a, <1>b, <2>1, <2>2, <2>4, <2>5, <2>6, KeptBranches
<1>17. CASE ConfigureDone
  BY <1>17, <1>e DEF ConfigureDone, Idle
<1>18. CASE StopCapture
  <2>1. UNCHANGED <<streams, nextGen, rtsp>> /\ main.pc = "stopcapture" /\ main'.pc = "idle"
    BY <1>18 DEF StopCapture, Idle
  <2>2. capture'.id = capture.id /\ ~capture'.live
    BY <1>18, <1>a DEF StopCapture
  <2>3. \A s \in Tiers : StreamStep(s)
    BY <2>1 DEF StreamStep
  <2>4. \A s \in Tiers : BranchStep(s)
    BY <2>2 DEF BranchStep, Alive
  <2>5. MainRemoves' /\ RtspRemoves'
    BY <1>c, <2>1 DEF MainRemoves, RtspRemoves, Gone, Present
  <2>6. \A k \in Factories : rtsp'[k].cap <= capture'.id
    BY <1>c, <2>1, <2>2 DEF CapInv
  <2> QED BY <1>a, <1>b, <2>1, <2>2, <2>3, <2>4, <2>5, <2>6, KeptBranches
<1>19. CASE MainStep
  BY <1>4, <1>5, <1>6, <1>7, <1>8, <1>10, <1>11, <1>12, <1>13, <1>14, <1>15, <1>16, <1>17,
     <1>18, <1>19 DEF MainStep
<1>20. ASSUME NEW t \in Tiers, HlsAction(t) PROVE BranchInv'
  BY <1>1, <1>2, <1>3, <1>20 DEF HlsAction, StopHls, ReapHls
<1> QED BY <1>9, <1>19, <1>20

LEMMA StutterBranches == BranchInv /\ UNCHANGED vars => BranchInv'
  BY DEF BranchInv, CapInv, RtspRemoves, MainRemoves, StreamsHaveBranches, Gone, Present,
         Alive, vars

BranchesInv == RefInv /\ BranchInv

LEMMA InitBranches == Init => BranchesInv
<1> SUFFICES ASSUME Init PROVE BranchInv
  BY InitCounts DEF BranchesInv
<1>1. \A t \in Tiers : streams[t].gen = 0
  BY DEF Init, SMInit, NoStream
<1> QED BY <1>1 DEF Init, Idle, BranchInv, CapInv, RtspRemoves, MainRemoves,
                    StreamsHaveBranches, Present

LEMMA StepBranches == BranchesInv /\ [Next]_vars => BranchesInv'
<1> SUFFICES ASSUME BranchesInv, [Next]_vars PROVE BranchInv'
  BY StepRef DEF BranchesInv
<1>1. ASSUME NEW f \in Factories, RtspStep(f) \/ Connect(f) \/ UnpreparedUnsubscribe(f)
      PROVE  BranchInv'
  BY <1>1, RtspBranches DEF BranchesInv
<1>2. CASE MainStep \/ ConfigureAction \/ \E t \in Tiers : HlsAction(t)
  BY <1>2, MainBranches DEF BranchesInv
<1>3. CASE UNCHANGED vars
  BY <1>3, StutterBranches DEF BranchesInv
<1> QED BY <1>1, <1>2, <1>3 DEF Next, Request, HlsAction, ConfigureAction

\* A stream that the table hands out on the running capture has its encoder in
\* the pipeline: no removal that an RTSP thread, the reaper or a rebuild makes
\* after it dropped mgr_lock takes the branch of a later stream, although the
\* streams share their names (sys_stream.c:225-279, engine/main.c:744-759).
THEOREM BranchesPresent == Spec => []StreamsHaveBranches
<1>1. BranchesInv => StreamsHaveBranches
  BY DEF BranchesInv, BranchInv
<1> QED BY InitBranches, StepBranches, <1>1, PTL DEF Spec

----------------------------------------------------------------------------
(* Sharing without rebuilds, failures and StopLens *)

\* Whoever has come as far as its acquire owes a release.
HeldInv ==
    /\ \A f \in Factories : rtsp[f].pc \in {"acquired", "active", "leaving"} => held[f] # 0
    /\ \A t \in Tiers :
          hls[t].on \/ (main.tier = t /\ main.pc \in {"hlsstart", "reap", "release"})
            => held[t] # 0

\* The one capture stays, and so does what was built on it.
QuietInv ==
    /\ main.pc \in {"idle", "audit", "tiers", "mount", "hlsstart", "reap", "release", "remove"}
    /\ main.audit = {}
    /\ main.pc \in {"tiers", "mount"} => capture.live
    /\ \A f \in Factories : rtsp[f].pc # "failed"
    /\ \A f \in Factories :
          rtsp[f].pc # "idle" \/ (\E t \in Tiers : mount[t] = f) => Alive(rtsp[f].cap)
    /\ \A t \in Tiers : Present(t) => Alive(streams[t].cap)

\* Branches have the names that were issued.
BranchNames == \A g \in branches : 0 < g /\ g < nextGen

ExactInv == RefExact /\ HeldInv /\ QuietInv /\ BranchNames

\* An acquire counts the new user, a release takes it out of the count.
LEMMA AcquireExact ==
    ASSUME RefInv, RefExact, TiersKept,
           NEW u \in Users, NEW t \in Tiers, TierOf(u) = t, held[u] = 0,
           NEW c, NEW live, AcquireExisting(t) \/ AcquireNew(t, c, live),
           held' = [held EXCEPT ![u] = AcquiredGen(t)]
    PROVE  RefExact'
<1> DEFINE g == AcquiredGen(t)
<1>a. /\ held \in [Users -> Nat] /\ nextGen \in Nat \ {0} /\ GenInv
      /\ \A s \in Tiers : streams[s] \in StreamRecord /\ streams[s].gen \in Nat
                            /\ streams[s].ref \in Int
      /\ streams \in [Tiers -> StreamRecord]
  BY DEF RefInv, CountInv, TypeOK, EngineTypeOK, SMTypeOK, StreamRecord
<1>b. g \in Nat \ {0}
  BY <1>a DEF AcquiredGen, AcquireExisting, AcquireNew, Present
<1>c. /\ streams'[t].gen = g
      /\ streams'[t].ref = (IF Present(t) THEN streams[t].ref + 1 ELSE 1)
      /\ \A s \in Tiers \ {t} : streams'[s] = streams[s]
  BY <1>a DEF AcquireExisting, AcquireNew, AcquiredGen, StreamRecord
<1>d. \A s \in Tiers \ {t} : Present(s) => streams[s].gen # g
  BY <1>a DEF AcquiredGen, GenInv, Present
<1>e. held'[u] = g /\ \A v \in Users \ {u} : held'[v] = held[v]
  BY <1>a
<1>1. ASSUME NEW s \in Tiers, Present(s)'
      PROVE  streams'[s].ref = Cardinality({v \in Users : held'[v] = streams'[s].gen})
  <2>1. CASE s = t
    <3>1. Cardinality({v \in Users : held'[v] = g}) = Cardinality(Holders(g)) + 1
      BY <1>a, <1>b, AddHolder
    <3>2. CASE Present(t)
      BY <2>1, <3>1, <3>2, <1>c DEF RefExact, AcquiredGen
    <3>3. CASE ~Present(t)
      <4>1. Holders(g) = {}
        BY <3>3, <1>a DEF AcquiredGen, Holders, GenInv
      <4> QED BY <2>1, <3>1, <3>3, <4>1, <1>c, FS_EmptySet
    <3> QED BY <3>2, <3>3
  <2>2. CASE s # t
    <3>1. Present(s) /\ streams[s].gen # g /\ streams[s].gen \in Nat \ {0}
      BY <2>2, <1>1, <1>a, <1>c, <1>d DEF Present
    <3>2. {v \in Users : held'[v] = streams[s].gen} = Holders(streams[s].gen)
      BY <3>1, <1>a, <1>b, AddHolder
    <3>3. streams[s].ref = Cardinality(Holders(streams[s].gen)) /\ streams'[s] = streams[s]
      BY <2>2, <3>1, <1>c DEF RefExact
    <3> QED BY <3>2, <3>3
  <2> QED BY <2>1, <2>2
<1>2. ASSUME NEW v \in Users, held'[v] # 0
      PROVE  held'[v] = streams'[TierOf(v)'].gen
  <2>1. TierOf(v)' = TierOf(v) /\ TierOf(v) \in Tiers
    BY <1>2, TypedTable DEF TiersKept, TableType, RefInv
  <2>2. CASE v = u
    BY <2>1, <2>2, <1>c, <1>e
  <2>3. CASE v # u
    <3>1. held[v] # 0 /\ held[v] = streams[TierOf(v)].gen
      BY <2>3, <1>2, <1>e DEF RefExact
    <3>2. CASE TierOf(v) = t
      <4>1. Present(t)
        BY <3>1, <3>2 DEF Present
      <4> QED BY <2>1, <2>3, <3>1, <3>2, <4>1, <1>c, <1>e DEF AcquiredGen
    <3>3. CASE TierOf(v) # t
      BY <2>1, <2>3, <3>1, <3>3, <1>c, <1>e
    <3> QED BY <3>2, <3>3
  <2> QED BY <2>2, <2>3
<1> QED BY <1>1, <1>2 DEF RefExact, Holders

LEMMA ReleaseExact ==
    ASSUME RefInv, RefExact, TiersKept,
           NEW u \in Users, NEW t \in Tiers, TierOf(u) = t, held[u] # 0,
           Release(t), held' = [held EXCEPT ![u] = 0]
    PROVE  RefExact' /\ (LastRelease(t) <=> Holders(streams[t].gen) = {u})
<1> DEFINE g == streams[t].gen
<1>a. /\ held \in [Users -> Nat] /\ nextGen \in Nat \ {0} /\ GenInv
      /\ \A s \in Tiers : streams[s] \in StreamRecord /\ streams[s].gen \in Nat
                            /\ streams[s].ref \in Int
      /\ streams \in [Tiers -> StreamRecord]
  BY DEF RefInv, CountInv, TypeOK, EngineTypeOK, SMTypeOK, StreamRecord
<1>b. held[u] = g /\ Present(t) /\ g \in Nat \ {0} /\ u \in Holders(g)
  BY <1>a DEF RefExact, Present, Holders
<1>c. streams[t].ref = Cardinality(Holders(g))
  BY <1>b DEF RefExact
<1>d. Cardinality({v \in Users : held'[v] = g}) = Cardinality(Holders(g)) - 1
  BY <1>a, <1>b, DropHolder
<1>e. held'[u] = 0 /\ \A v \in Users \ {u} : held'[v] = held[v]
  BY <1>a
<1>f. LastRelease(t) <=> Holders(g) = {u}
  <2>1. ASSUME LastRelease(t) PROVE Holders(g) = {u}
    <3>1. /\ IsFiniteSet(Holders(g)) /\ Cardinality(Holders(g)) \in Nat
          /\ IsFiniteSet(Holders(g) \ {u}) /\ Cardinality(Holders(g) \ {u}) \in Nat
      BY HoldersFinite, FS_Subset, FS_CardinalityType
    <3>2. Cardinality(Holders(g) \ {u}) = Cardinality(Holders(g)) - 1
      BY <3>1, <1>b, FS_RemoveElement
    <3>3. Cardinality(Holders(g) \ {u}) = 0
      BY <2>1, <3>1, <3>2, <1>c DEF LastRelease
    <3> QED BY <3>1, <3>3, <1>b, FS_EmptySet
  <2>2. ASSUME Holders(g) = {u} PROVE LastRelease(t)
    BY <2>2, <1>b, <1>c, FS_Singleton DEF LastRelease
  <2> QED BY <2>1, <2>2
<1>g. \A s \in Tiers \ {t} : streams'[s] = streams[s]
  BY <1>a DEF Release
<1>1. ASSUME NEW s \in Tiers, Present(s)'
      PROVE  streams'[s].ref = Cardinality({v \in Users : held'[v] = streams'[s].gen})
  <2>1. CASE s = t
    <3>1. streams'[t].gen = g /\ streams'[t].ref = streams[t].ref - 1
      BY <2>1, <1>1, <1>a, <1>b DEF Release, Present, NoStream, StreamRecord
    <3> QED BY <2>1, <3>1, <1>c, <1>d
  <2>2. CASE s # t
    <3>1. Present(s) /\ streams[s].gen # g /\ streams[s].gen \in Nat \ {0}
      BY <2>2, <1>1, <1>a, <1>g DEF Present, GenInv
    <3>2. {v \in Users : held'[v] = streams[s].gen} = Holders(streams[s].gen)
      BY <3>1, <1>a, <1>b, DropHolder
    <3>3. streams[s].ref = Cardinality(Holders(streams[s].gen)) /\ streams'[s] = streams[s]
      BY <2>2, <3>1, <1>g DEF RefExact
    <3> QED BY <3>2, <3>3
  <2> QED BY <2>1, <2>2
<1>2. ASSUME NEW v \in Users, held'[v] # 0
      PROVE  held'[v] = streams'[TierOf(v)'].gen
  <2>1. TierOf(v)' = TierOf(v) /\ TierOf(v) \in Tiers /\ v # u /\ held'[v] = held[v]
    BY <1>2, <1>e, TypedTable DEF TiersKept, TableType, RefInv
  <2>2. held[v] = streams[TierOf(v)].gen
    BY <2>1, <1>2 DEF RefExact
  <2>3. CASE TierOf(v) = t
    <3>1. v \in Holders(g)
      BY <2>2, <2>3 DEF Holders
    <3>2. ~LastRelease(t)
      BY <3>1, <2>1, <1>f
    <3>3. streams'[t].gen = g
      BY <3>2, <1>a, <1>b DEF Release, StreamRecord
    <3> QED BY <2>1, <2>2, <2>3, <3>3
  <2>4. CASE TierOf(v) # t
    BY <2>1, <2>2, <2>4, <1>g
  <2> QED BY <2>3, <2>4
<1> QED BY <1>1, <1>2, <1>f DEF RefExact, Holders

LEMMA NeutralExact ==
    ASSUME RefInv, RefExact, TiersKept, UNCHANGED held,
           \A s \in Tiers : /\ streams'[s].gen = streams[s].gen
                             /\ streams'[s].ref = streams[s].ref
    PROVE  RefExact'
<1>1. \A v \in Users : TierOf(v) \in Tiers
  BY TypedTable DEF TableType, RefInv
<1>2. ASSUME NEW s \in Tiers, Present(s)'
      PROVE  streams'[s].ref = Cardinality({v \in Users : held'[v] = streams'[s].gen})
  BY <1>2 DEF RefExact, Present, Holders
<1>3. ASSUME NEW v \in Users, held'[v] # 0
      PROVE  held'[v] = streams'[TierOf(v)'].gen
  BY <1>1, <1>3 DEF RefExact, TiersKept
<1> QED BY <1>2, <1>3 DEF RefExact, Holders

----------------------------------------------------------------------------
(* The on-demand encoder that the table implements *)

UsersOf(t) == {u \in Users : held[u] # 0 /\ TierOf(u) = t}

\* The mapped variables.
AbsUsers == [t \in Tiers |-> UsersOf(t)]
AbsEncoder == [t \in Tiers |-> streams[t].gen]
Lingering == branches \ {streams[t].gen : t \in Tiers}

\* A step of the table is one of the on-demand encoder or none.
Refines == [OnDemand!Next]_(OnDemand!vars)

LEMMA MapSame ==
    ASSUME TiersKept, UNCHANGED held, branches' = branches,
           \A t \in Tiers : streams'[t].gen = streams[t].gen
    PROVE  UNCHANGED OnDemand!vars
<1>1. \A t \in Tiers : UsersOf(t)' = UsersOf(t)
  BY DEF UsersOf, TiersKept
<1>2. Lingering' = Lingering
  BY DEF Lingering
<1> QED BY <1>1, <1>2 DEF OnDemand!vars, UsersOf, Lingering

\* While the table is exact, the users of a tier are the holders of its stream.
LEMMA UsersHold ==
    ASSUME RefInv, RefExact, NEW t \in Tiers
    PROVE  /\ Present(t) => UsersOf(t) = Holders(streams[t].gen) /\ UsersOf(t) # {}
           /\ ~Present(t) => UsersOf(t) = {}
<1>1. ASSUME Present(t) PROVE UsersOf(t) = Holders(streams[t].gen) /\ UsersOf(t) # {}
  <2>1. UsersOf(t) = Holders(streams[t].gen)
    BY <1>1 DEF UsersOf, Holders, RefExact, RefInv, CountInv, TierInv, Present
  <2>2. Cardinality(Holders(streams[t].gen)) # 0
    BY <1>1, HoldersFinite DEF RefInv, CountInv, RefBound
  <2> QED BY <2>1, <2>2, FS_EmptySet
<1>2. ASSUME ~Present(t) PROVE UsersOf(t) = {}
  BY <1>2 DEF UsersOf, RefExact, Present
<1> QED BY <1>1, <1>2

LEMMA JoinMap ==
    ASSUME RefInv, RefExact, BranchNames, TiersKept,
           NEW u \in Users, NEW t \in Tiers, TierOf(u) = t, held[u] = 0,
           NEW c, AcquireExisting(t) \/ AcquireNew(t, c, TRUE),
           held' = [held EXCEPT ![u] = AcquiredGen(t)]
    PROVE  Refines
<1>a. /\ held \in [Users -> Nat] /\ nextGen \in Nat \ {0} /\ GenInv
      /\ \A s \in Tiers : streams[s].gen \in Nat
      /\ streams \in [Tiers -> StreamRecord]
  BY DEF RefInv, CountInv, TypeOK, EngineTypeOK, SMTypeOK, StreamRecord
<1>b. AcquiredGen(t) # 0
  BY <1>a DEF AcquiredGen, Present
<1>c. held'[u] # 0 /\ \A v \in Users \ {u} : held'[v] = held[v]
  BY <1>a, <1>b
<1>d. \A v \in Users : held'[v] # 0 => TierOf(v)' = TierOf(v)
  BY DEF TiersKept
<1>1. u \notin UsersOf(t)
  BY DEF UsersOf
<1>2. \A s \in Tiers : UsersOf(s)' = IF s = t THEN UsersOf(s) \cup {u} ELSE UsersOf(s)
  BY <1>c, <1>d DEF UsersOf
<1>3. t \in Tiers /\ u \notin AbsUsers[t] /\ AbsUsers' = [AbsUsers EXCEPT ![t] = @ \cup {u}]
  BY <1>1, <1>2 DEF AbsUsers
<1>4. ASSUME AcquireExisting(t) PROVE OnDemand!Join(t, u)
  <2>1. /\ \A s \in Tiers : streams'[s].gen = streams[s].gen
        /\ branches' = branches
    BY <1>4, <1>a DEF AcquireExisting, StreamRecord
  <2>2. Lingering' = Lingering
    BY <2>1 DEF Lingering
  <2>3. AbsUsers[t] # {}
    BY <1>4, UsersHold DEF AcquireExisting, AbsUsers
  <2>4. AbsEncoder' = AbsEncoder
    BY <2>1 DEF AbsEncoder
  <2> QED
    BY <1>3, <2>2, <2>3, <2>4 DEF OnDemand!Join, AbsUsers, AbsEncoder, UsersOf, Lingering
<1>5. ASSUME AcquireNew(t, c, TRUE) PROVE OnDemand!Join(t, u)
  <2>1. /\ \A s \in Tiers : streams'[s].gen = IF s = t THEN nextGen ELSE streams[s].gen
        /\ branches' = branches \cup {nextGen} /\ streams[t].gen = 0
    BY <1>5, <1>a DEF AcquireNew, Present
  <2>2. nextGen \notin branches /\ 0 \notin branches
    BY <1>a DEF BranchNames
  <2>3. \A s \in Tiers : streams[s].gen # nextGen
    BY <1>a DEF GenInv
  <2>4. Lingering' = Lingering
    BY <2>1, <2>2, <2>3 DEF Lingering
  <2>5. AbsUsers[t] = {}
    BY <1>5, UsersHold DEF AcquireNew, AbsUsers
  <2>6. AbsEncoder'[t] \notin {AbsEncoder[k] : k \in Tiers} \cup Lingering \cup {0}
    BY <1>a, <2>1, <2>2, <2>3 DEF AbsEncoder, Lingering
  <2>7. AbsEncoder' = [AbsEncoder EXCEPT ![t] = AbsEncoder'[t]]
    BY <2>1 DEF AbsEncoder
  <2> QED
    BY <1>3, <2>4, <2>5, <2>6, <2>7
    DEF OnDemand!Join, OnDemand!InUse, AbsUsers, AbsEncoder, UsersOf, Lingering
<1> QED BY <1>4, <1>5 DEF Refines, OnDemand!Next

LEMMA LeaveMap ==
    ASSUME RefInv, RefExact, BranchNames, TiersKept,
           NEW u \in Users, NEW t \in Tiers, TierOf(u) = t, held[u] # 0,
           streams[t].gen \in branches,
           Release(t), held' = [held EXCEPT ![u] = 0]
    PROVE  Refines
<1>a. /\ held \in [Users -> Nat] /\ nextGen \in Nat \ {0} /\ GenInv
      /\ \A s \in Tiers : streams[s].gen \in Nat
      /\ streams \in [Tiers -> StreamRecord]
  BY DEF RefInv, CountInv, TypeOK, EngineTypeOK, SMTypeOK, StreamRecord
<1>b. held[u] = streams[t].gen /\ Present(t)
  BY DEF RefExact, Present
<1>c. held'[u] = 0 /\ \A v \in Users \ {u} : held'[v] = held[v]
  BY <1>a
<1>d. \A v \in Users : held'[v] # 0 => TierOf(v)' = TierOf(v)
  BY DEF TiersKept
<1>e. branches' = branches /\ \A s \in Tiers \ {t} : streams'[s] = streams[s]
  BY <1>a DEF Release
<1>1. u \in UsersOf(t)
  BY DEF UsersOf
<1>2. \A s \in Tiers : UsersOf(s)' = IF s = t THEN UsersOf(s) \ {u} ELSE UsersOf(s)
  BY <1>c, <1>d DEF UsersOf
<1>3. t \in Tiers /\ u \in AbsUsers[t] /\ AbsUsers' = [AbsUsers EXCEPT ![t] = @ \ {u}]
  BY <1>1, <1>2 DEF AbsUsers
<1>4. AbsUsers[t] = Holders(streams[t].gen)
  BY <1>b, UsersHold DEF AbsUsers
<1>5. LastRelease(t) <=> AbsUsers[t] = {u}
  BY <1>4, ReleaseExact
<1>6. ASSUME LastRelease(t) PROVE OnDemand!Leave(t, u)
  <2>1. streams' = [streams EXCEPT ![t] = NoStream]
    BY <1>6 DEF Release
  <2>2. AbsEncoder' = [AbsEncoder EXCEPT ![t] = 0]
    BY <2>1, <1>a DEF AbsEncoder, NoStream
  <2>3. \A s \in Tiers \ {t} : streams[s].gen # streams[t].gen
    BY <1>a, <1>b DEF GenInv
  <2>4. streams[t].gen # 0 /\ streams'[t].gen = 0
    BY <1>a, <1>b, <2>1 DEF Present, NoStream
  <2>5. Lingering' = Lingering \cup {AbsEncoder[t]}
    <3>1. ASSUME NEW g \in branches
          PROVE  g \in {streams'[s].gen : s \in Tiers}
                   <=> g \in {streams[s].gen : s \in Tiers} /\ g # streams[t].gen
      BY <3>1, <1>e, <2>3, <2>4 DEF BranchNames
    <3>2. AbsEncoder[t] = streams[t].gen
      BY DEF AbsEncoder
    <3>3. \A g : g \in Lingering' <=> g \in Lingering \cup {AbsEncoder[t]}
      BY <3>1, <3>2, <1>e DEF Lingering
    <3> QED BY <3>3
  <2> QED
    BY <1>3, <1>5, <1>6, <2>2, <2>5
    DEF OnDemand!Leave, AbsUsers, AbsEncoder, UsersOf, Lingering
<1>7. ASSUME ~LastRelease(t) PROVE OnDemand!Leave(t, u)
  <2>1. \A s \in Tiers : streams'[s].gen = streams[s].gen
    BY <1>7, <1>a DEF Release, StreamRecord
  <2>2. AbsEncoder' = AbsEncoder /\ Lingering' = Lingering
    BY <2>1, <1>e DEF AbsEncoder, Lingering
  <2> QED
    BY <1>3, <1>5, <1>7, <2>2 DEF OnDemand!Leave, AbsUsers, AbsEncoder, UsersOf, Lingering
<1> QED BY <1>6, <1>7 DEF Refines, OnDemand!Next

LEMMA ReclaimMap ==
    ASSUME RefInv, BranchNames, TiersKept, UNCHANGED held,
           NEW g \in Nat, Gone(g), RemoveBranch(g)
    PROVE  Refines
<1>1. branches' = branches \ {g} /\ UNCHANGED streams
  BY DEF RemoveBranch
<1>2. CASE g \notin branches
  <2>1. branches' = branches
    BY <1>1, <1>2
  <2> QED BY <1>1, <2>1, MapSame DEF Refines
<1>3. CASE g \in branches
  <2>1. AbsUsers' = AbsUsers
    <3>1. \A t \in Tiers : UsersOf(t)' = UsersOf(t)
      BY DEF UsersOf, TiersKept
    <3> QED BY <3>1 DEF AbsUsers
  <2>2. AbsEncoder' = AbsEncoder
    BY <1>1 DEF AbsEncoder
  <2>3. g \in Lingering
    BY <1>3 DEF Lingering, Gone, Present, BranchNames
  <2>4. Lingering' = Lingering \ {g}
    BY <1>1 DEF Lingering
  <2>5. OnDemand!Reclaim(g)
    BY <2>1, <2>2, <2>3, <2>4
    DEF OnDemand!Reclaim, AbsUsers, AbsEncoder, UsersOf, Lingering
  <2> QED BY <2>3, <2>5 DEF Refines, OnDemand!Next, Lingering
<1> QED BY <1>2, <1>3

SharingInv == SubsInv /\ BranchesInv /\ ExactInv

\* What the table operations do to names and captures, on a running capture.
LEMMA TableExact ==
    ASSUME SMTypeOK, QuietInv, BranchNames, UNCHANGED capture, NEW t \in Tiers,
           NEW c, Alive(c), NEW h, NEW g,
           \/ AcquireExisting(t) \/ AcquireNew(t, c, TRUE)
           \/ Subscribe(t) \/ Unsubscribe(t, h) \/ Release(t) \/ RemoveBranch(g)
           \/ UNCHANGED smVars
    PROVE  BranchNames' /\ \A s \in Tiers : Present(s)' => Alive(streams[s].cap)'
<1>a. streams \in [Tiers -> StreamRecord] /\ nextGen \in Nat \ {0} /\ branches \in SUBSET Nat
  BY DEF SMTypeOK
<1>b. \A k : Alive(k) => (capture'.live /\ capture'.id = k)
  BY DEF Alive
<1>1. CASE AcquireNew(t, c, TRUE)
  <2>1. BranchNames'
    <3>1. nextGen' = nextGen + 1 /\ branches' = branches \cup {nextGen}
      BY <1>1 DEF AcquireNew
    <3>2. \A n \in branches : n \in Nat /\ 0 < n /\ n < nextGen
      BY <1>a DEF BranchNames
    <3> QED BY <1>a, <3>1, <3>2 DEF BranchNames
  <2>2. \A s \in Tiers : Present(s)' => capture'.live /\ capture'.id = streams'[s].cap
    BY <1>1, <1>a, <1>b DEF AcquireNew, QuietInv, Present
  <2> QED BY <2>1, <2>2 DEF Alive
<1>2. CASE ~AcquireNew(t, c, TRUE)
  <2>1. BranchNames'
    BY <1>2 DEF BranchNames, AcquireExisting, Subscribe, Unsubscribe, Release, RemoveBranch,
                smVars
  <2>2. ASSUME NEW s \in Tiers, Present(s)'
        PROVE  Present(s) /\ streams'[s].cap = streams[s].cap
    <3>1. CASE AcquireExisting(t) \/ Subscribe(t) \/ Unsubscribe(t, h)
      BY <1>a, <2>2, <3>1 DEF AcquireExisting, Subscribe, Unsubscribe, Present, StreamRecord
    <3>2. CASE Release(t)
      BY <1>a, <2>2, <3>2 DEF Release, NoStream, Present, StreamRecord
    <3>3. CASE RemoveBranch(g) \/ UNCHANGED smVars
      BY <2>2, <3>3 DEF RemoveBranch, smVars, Present
    <3> QED BY <1>2, <3>1, <3>2, <3>3
  <2>3. \A s \in Tiers : Present(s)' => capture'.live /\ capture'.id = streams'[s].cap
    BY <2>2, <1>b DEF QuietInv
  <2> QED BY <2>1, <2>3 DEF Alive
<1> QED BY <1>1, <1>2

\* The table operations that change no generation and no count.
LEMMA NeutralTable ==
    ASSUME SMTypeOK, NEW t \in Tiers, NEW h,
           Subscribe(t) \/ Unsubscribe(t, h) \/ UNCHANGED smVars
    PROVE  /\ branches' = branches
           /\ \A s \in Tiers : /\ streams'[s].gen = streams[s].gen
                                /\ streams'[s].ref = streams[s].ref
<1>1. streams \in [Tiers -> StreamRecord]
  BY DEF SMTypeOK
<1> QED BY <1>1 DEF Subscribe, Unsubscribe, smVars, StreamRecord

\* A media keeps its tier and its capture; only MountFactory gives it new ones.
LEMMA MediaKept ==
    ASSUME TypeOK, NEW f \in Factories,
           RtspStep(f) \/ Connect(f) \/ UnpreparedUnsubscribe(f)
    PROVE  rtsp'[f].cap = rtsp[f].cap /\ rtsp'[f].tier = rtsp[f].tier
<1>a. rtsp \in [Factories -> MediaRecord] /\ rtsp[f] \in MediaRecord
  BY DEF TypeOK, EngineTypeOK
<1>1. ASSUME NEW r, rtsp' = [rtsp EXCEPT ![f] = r], r.cap = rtsp[f].cap, r.tier = rtsp[f].tier
      PROVE  rtsp'[f].cap = rtsp[f].cap /\ rtsp'[f].tier = rtsp[f].tier
  BY <1>a, <1>1
<1>2. ASSUME NEW pc, NEW h
      PROVE  /\ [rtsp[f] EXCEPT !.pc = pc].cap = rtsp[f].cap
             /\ [rtsp[f] EXCEPT !.pc = pc].tier = rtsp[f].tier
             /\ [rtsp[f] EXCEPT !.pc = pc, !.handler = h].cap = rtsp[f].cap
             /\ [rtsp[f] EXCEPT !.pc = pc, !.handler = h].tier = rtsp[f].tier
             /\ [rtsp[f] EXCEPT !.pc = pc, !.dropped = h].cap = rtsp[f].cap
             /\ [rtsp[f] EXCEPT !.pc = pc, !.dropped = h].tier = rtsp[f].tier
  BY <1>a DEF MediaRecord
<1>3. CASE Connect(f) \/ ConfigureAcquire(f) \/ ConfigureFails(f) \/ UnpreparedUnsubscribe(f)
  BY <1>1, <1>2, <1>3 DEF Connect, ConfigureAcquire, ConfigureFails, UnpreparedUnsubscribe
<1>4. CASE ConfigureSubscribe(f)
  BY <1>1, <1>2, <1>4 DEF ConfigureSubscribe
<1>5. CASE UnpreparedRelease(f)
  BY <1>1, <1>2, <1>5 DEF UnpreparedRelease
<1>6. CASE UnpreparedRemoveBranch(f)
  BY <1>1, <1>2, <1>6 DEF UnpreparedRemoveBranch
<1> QED BY <1>3, <1>4, <1>5, <1>6 DEF RtspStep

\* The media callbacks keep the counts exact and act as an on-demand encoder.
LEMMA RtspExact ==
    ASSUME Ops = {}, SharingInv, NEW f \in Factories,
           RtspStep(f) \/ Connect(f) \/ UnpreparedUnsubscribe(f)
    PROVE  ExactInv' /\ Refines
<1> DEFINE t == rtsp[f].tier
           c == rtsp[f].cap
<1>a. /\ RefInv /\ TypeOK /\ SMTypeOK /\ OwedInv
      /\ RefExact /\ HeldInv /\ QuietInv /\ BranchNames
      /\ rtsp \in [Factories -> MediaRecord] /\ held \in [Users -> Nat]
      /\ f \in Users /\ t \in Tiers /\ f \notin Tiers /\ Tiers \subseteq Users
      /\ \A v \in Users \ Tiers : v \in Factories
  BY UsersAssumption DEF SharingInv, SubsInv, RefInv, ExactInv, TypeOK, EngineTypeOK, Users,
     MediaRecord
<1>b. TierOf(f) = t
  BY <1>a DEF TierOf
<1>c. UNCHANGED <<capture, main, mount, hls>> /\ \A k \in Factories \ {f} : rtsp'[k] = rtsp[k]
  BY <1>a DEF RtspStep, Connect, ConfigureAcquire, ConfigureFails, ConfigureSubscribe,
              UnpreparedUnsubscribe, UnpreparedRelease, UnpreparedRemoveBranch
<1>d. rtsp'[f].cap = c /\ rtsp'[f].tier = t
  BY <1>a, MediaKept
<1>e. TiersKept
  BY <1>a, <1>c, <1>d DEF TiersKept, TierOf
<1>f. Alive(c) /\ rtsp[f].pc # "failed"
  BY <1>a DEF QuietInv, RtspStep, Connect, ConfigureAcquire, ConfigureFails,
     ConfigureSubscribe, UnpreparedUnsubscribe, UnpreparedRelease, UnpreparedRemoveBranch
<1>g. ASSUME rtsp'[f].pc # "failed", \A s \in Tiers : Present(s)' => Alive(streams[s].cap)'
      PROVE  QuietInv'
  <2>1. \A k \in Factories : rtsp'[k].pc # "failed"
    BY <1>a, <1>c, <1>g DEF QuietInv
  <2>2. ASSUME NEW k \in Factories,
               rtsp'[k].pc # "idle" \/ (\E s \in Tiers : mount'[s] = k)
        PROVE  capture'.live /\ capture'.id = rtsp'[k].cap
    BY <2>2, <1>a, <1>c, <1>d, <1>f DEF QuietInv, Alive
  <2> QED BY <1>a, <1>c, <1>g, <2>1, <2>2 DEF QuietInv, Alive
<1>h. ASSUME UNCHANGED held, rtsp'[f].pc # "failed",
             rtsp'[f].pc \in {"acquired", "active", "leaving"} => held[f] # 0,
             \E h : Subscribe(t) \/ Unsubscribe(t, h) \/ UNCHANGED smVars
      PROVE  ExactInv' /\ Refines
  <2>1. /\ branches' = branches
        /\ \A s \in Tiers : streams'[s].gen = streams[s].gen /\ streams'[s].ref = streams[s].ref
    BY <1>a, <1>h, NeutralTable
  <2>2. BranchNames' /\ \A s \in Tiers : Present(s)' => Alive(streams[s].cap)'
    BY <1>a, <1>c, <1>f, <1>h, TableExact
  <2>3. RefExact'
    BY <1>a, <1>e, <1>h, <2>1, NeutralExact
  <2>4. HeldInv'
    BY <1>a, <1>c, <1>h DEF HeldInv
  <2>5. Refines
    BY <1>e, <1>h, <2>1, MapSame DEF Refines
  <2> QED BY <1>g, <1>h, <2>2, <2>3, <2>4, <2>5 DEF ExactInv
<1>1. CASE Connect(f)
  BY <1>1, <1>a, <1>h DEF Connect, MediaRecord
<1>2. CASE ConfigureAcquire(f)
  <2>1. AcquireExisting(t) \/ AcquireNew(t, c, TRUE)
    <3>1. Alive(c) = TRUE
      BY <1>f DEF Alive
    <3> QED BY <1>2, <3>1 DEF ConfigureAcquire
  <2>2. held[f] = 0 /\ held' = [held EXCEPT ![f] = AcquiredGen(t)] /\ rtsp'[f].pc = "acquired"
    BY <1>2, <1>a DEF ConfigureAcquire, OwedInv, MediaRecord
  <2>3. BranchNames' /\ \A s \in Tiers : Present(s)' => Alive(streams[s].cap)'
    BY <1>a, <1>c, <1>f, <2>1, TableExact
  <2>4. RefExact'
    BY <1>a, <1>b, <1>e, <2>1, <2>2, AcquireExact
  <2>5. HeldInv'
    <3>1. held'[f] # 0
      BY <1>a, <2>1, <2>2 DEF AcquiredGen, Present, SMTypeOK
    <3> QED BY <1>a, <1>c, <2>2, <3>1 DEF HeldInv
  <2>6. Refines
    BY <1>a, <1>b, <1>e, <2>1, <2>2, JoinMap
  <2> QED BY <1>g, <2>2, <2>3, <2>4, <2>5, <2>6 DEF ExactInv
<1>3. CASE ConfigureFails(f)
  BY <1>3, <1>f DEF ConfigureFails
<1>4. CASE ConfigureSubscribe(f)
  BY <1>4, <1>a, <1>h DEF ConfigureSubscribe, MediaRecord, HeldInv
<1>5. CASE UnpreparedUnsubscribe(f)
  BY <1>5, <1>a, <1>f, <1>h DEF UnpreparedUnsubscribe, MediaRecord, HeldInv
<1>6. CASE UnpreparedRelease(f)
  <2>1. held[f] # 0 /\ held' = [held EXCEPT ![f] = 0] /\ Release(t)
    BY <1>6, <1>a DEF UnpreparedRelease, HeldInv
  <2>2. rtsp'[f].pc \in {"idle", "removing"}
    BY <1>6, <1>a DEF UnpreparedRelease, MediaRecord
  <2>3. BranchNames' /\ \A s \in Tiers : Present(s)' => Alive(streams[s].cap)'
    BY <1>a, <1>c, <1>f, <2>1, TableExact
  <2>4. RefExact'
    BY <1>a, <1>b, <1>e, <2>1, ReleaseExact
  <2>5. HeldInv'
    BY <1>a, <1>c, <2>1, <2>2 DEF HeldInv
  <2>6. streams[t].gen \in branches
    <3>1. Present(t)
      BY <1>a, <1>b, <2>1 DEF RefExact, Present
    <3> QED
      BY <3>1, <1>a DEF QuietInv, SharingInv, BranchesInv, BranchInv, StreamsHaveBranches
  <2>7. Refines
    BY <1>a, <1>b, <1>e, <2>1, <2>6, LeaveMap
  <2> QED BY <1>g, <2>2, <2>3, <2>4, <2>5, <2>7 DEF ExactInv
<1>7. CASE UnpreparedRemoveBranch(f)
  <2>1. PICK g \in Nat : g = rtsp[f].dropped
    BY <1>a DEF MediaRecord
  <2>2. Gone(g) /\ RemoveBranch(g) /\ UNCHANGED held /\ rtsp'[f].pc = "idle"
    BY <1>7, <1>a, <2>1
    DEF UnpreparedRemoveBranch, SharingInv, BranchesInv, BranchInv, RtspRemoves, MediaRecord
  <2>3. BranchNames' /\ \A s \in Tiers : Present(s)' => Alive(streams[s].cap)'
    BY <1>a, <1>c, <1>f, <2>2, TableExact
  <2>4. RefExact'
    BY <1>a, <1>e, <2>2, NeutralExact DEF RemoveBranch
  <2>5. HeldInv'
    BY <1>a, <1>c, <2>2 DEF HeldInv
  <2>6. Refines
    BY <1>a, <1>e, <2>2, ReclaimMap
  <2> QED BY <1>g, <2>2, <2>3, <2>4, <2>5, <2>6 DEF ExactInv
<1> QED BY <1>1, <1>2, <1>3, <1>4, <1>5, <1>6, <1>7 DEF RtspStep

\* So do the steps of the main loop: the one that mounts a factory only uses
\* one that owes nothing, and the reaper's release finds its stream.
LEMMA MainExact ==
    ASSUME Ops = {}, SharingInv,
           MainStep \/ ConfigureAction \/ \E t \in Tiers : HlsAction(t)
    PROVE  ExactInv' /\ Refines
<1> DEFINE m == main.tier
           quiet == {"idle", "audit", "tiers", "mount", "hlsstart", "reap", "release", "remove"}
<1>a. /\ RefInv /\ TypeOK /\ SMTypeOK /\ OwedInv /\ MainHls
      /\ RefExact /\ HeldInv /\ QuietInv /\ BranchNames
      /\ rtsp \in [Factories -> MediaRecord] /\ held \in [Users -> Nat]
      /\ main \in MainRecord /\ m \in Tiers /\ main.gen \in Nat
      /\ hls \in [Tiers -> [on : BOOLEAN, handler : Nat]]
      /\ Tiers \subseteq Users /\ Factories \subseteq Users
      /\ \A t \in Tiers : t \notin Factories /\ TierOf(t) = t
      /\ nextGen # 0
  BY UsersAssumption
  DEF SharingInv, SubsInv, RefInv, ExactInv, TypeOK, EngineTypeOK, SMTypeOK, Users, MainRecord,
      TierOf
<1>b. main.pc \in quiet /\ main.audit = {}
  BY <1>a DEF QuietInv
<1>c. UNCHANGED rtsp => TiersKept
  BY DEF TiersKept, TierOf
\* A step that only moves the program counter, the table aside.
<1>d. ASSUME UNCHANGED <<rtsp, mount, capture>>, main'.pc \in quiet, main'.audit = {},
             main'.pc \in {"tiers", "mount"} => capture.live,
             \A s \in Tiers : Present(s)' => Alive(streams[s].cap)'
      PROVE  QuietInv'
  <2>1. \A k : Alive(k) => capture'.live /\ capture'.id = k
    BY <1>d DEF Alive
  <2>2. \A k \in Factories : (rtsp'[k].pc # "idle" \/ \E t \in Tiers : mount'[t] = k)
                                => Alive(rtsp[k].cap)'
    BY <1>a, <1>d, <2>1 DEF QuietInv, Alive
  <2>3. \A k \in Factories : rtsp'[k].pc # "failed"
    BY <1>a, <1>d DEF QuietInv
  <2> QED BY <1>d, <2>2, <2>3 DEF QuietInv
<1>e. ASSUME UNCHANGED <<rtsp, capture>>, UNCHANGED held, HeldInv',
             \A s \in Tiers : Present(s)' => Alive(streams[s].cap)',
             BranchNames', QuietInv', NEW t \in Tiers, NEW h,
             Subscribe(t) \/ Unsubscribe(t, h) \/ UNCHANGED smVars
      PROVE  ExactInv' /\ Refines
  <2>1. /\ branches' = branches
        /\ \A s \in Tiers : streams'[s].gen = streams[s].gen /\ streams'[s].ref = streams[s].ref
    BY <1>a, <1>e, NeutralTable
  <2>2. RefExact'
    BY <1>a, <1>c, <1>e, <2>1, NeutralExact
  <2>3. Refines
    BY <1>c, <1>e, <2>1, MapSame DEF Refines
  <2> QED BY <1>e, <2>2, <2>3 DEF ExactInv
\* Of the configuration only this is left to do.
<1>f. ASSUME UNCHANGED <<smVars, rtsp, mount, hls, capture, held>>,
             main'.pc \in {"idle", "audit", "tiers", "mount", "release"}, main'.audit = {},
             main'.pc \in {"tiers", "mount"} => capture.live,
             main'.pc = "release" => main'.tier = m /\ main.pc = "reap"
      PROVE  ExactInv' /\ Refines
  <2>1. BranchNames' /\ \A s \in Tiers : Present(s)' => Alive(streams[s].cap)'
    BY <1>a, <1>f DEF BranchNames, QuietInv, Present, Alive, smVars
  <2>2. HeldInv'
    BY <1>a, <1>f DEF HeldInv
  <2>3. QuietInv'
    BY <1>d, <1>f, <2>1
  <2> QED BY <1>a, <1>e, <1>f, <2>1, <2>2, <2>3
<1>1. ASSUME NEW t \in Tiers, StartHls(t) PROVE ExactInv' /\ Refines
  <2>1. Alive(capture.id) /\ UNCHANGED <<rtsp, mount, hls, capture>>
    BY <1>1 DEF StartHls, Alive
  <2>2. /\ AcquireExisting(t) \/ AcquireNew(t, capture.id, TRUE)
        /\ held[t] = 0 /\ held' = [held EXCEPT ![t] = AcquiredGen(t)]
    BY <1>1, <1>a DEF StartHls, OwedInv
  <2>3. BranchNames' /\ \A s \in Tiers : Present(s)' => Alive(streams[s].cap)'
    BY <1>a, <2>1, <2>2, TableExact
  <2>4. RefExact'
    BY <1>a, <1>c, <2>1, <2>2, AcquireExact
  <2>5. main'.pc = "hlsstart" /\ main'.tier = t /\ main'.audit = {} /\ main.pc = "idle"
    BY <1>1, <1>a, <1>b DEF StartHls, MainRecord
  <2>6. HeldInv'
    <3>1. held'[t] # 0
      BY <1>a, <2>2 DEF AcquiredGen, Present
    <3> QED BY <1>a, <2>1, <2>2, <2>5, <3>1 DEF HeldInv
  <2>7. QuietInv'
    BY <1>d, <2>1, <2>3, <2>5
  <2>8. Refines
    BY <1>a, <1>c, <2>1, <2>2, JoinMap
  <2> QED BY <2>3, <2>4, <2>6, <2>7, <2>8 DEF ExactInv
<1>2. ASSUME NEW t \in Tiers, NEW pc \in {"release", "reap"}, RemoveHls(t, pc)
      PROVE  ExactInv' /\ Refines
  <2>1. /\ UNCHANGED <<rtsp, mount, capture>> /\ UNCHANGED held
        /\ Unsubscribe(t, hls[t].handler) /\ main.pc = "idle" /\ hls[t].on
    BY <1>2 DEF RemoveHls
  <2>2. main'.pc = pc /\ main'.tier = t /\ main'.audit = {}
    BY <1>2, <1>a, <1>b DEF RemoveHls, MainRecord
  <2>3. \A s \in Tiers : hls'[s].on => hls[s].on
    BY <1>2, <1>a DEF RemoveHls
  <2>4. HeldInv'
    BY <1>a, <2>1, <2>2, <2>3 DEF HeldInv
  <2>5. BranchNames' /\ \A s \in Tiers : Present(s)' => Alive(streams[s].cap)'
    BY <1>a, <2>1 DEF Unsubscribe, BranchNames, SMTypeOK, StreamRecord, QuietInv, Present, Alive
  <2>6. QuietInv'
    BY <1>d, <2>1, <2>2, <2>5
  <2> QED BY <1>e, <2>1, <2>4, <2>5, <2>6
<1>3. CASE HlsSubscribe
  <2>1. /\ UNCHANGED <<rtsp, mount, capture>> /\ UNCHANGED held
        /\ Subscribe(m) /\ main.pc = "hlsstart" /\ main' = Idle
    BY <1>3 DEF HlsSubscribe
  <2>2. \A s \in Tiers : hls'[s].on => hls[s].on \/ s = m
    BY <1>3, <1>a DEF HlsSubscribe
  <2>3. HeldInv'
    BY <1>a, <2>1, <2>2 DEF HeldInv, Idle
  <2>4. BranchNames' /\ \A s \in Tiers : Present(s)' => Alive(streams[s].cap)'
    BY <1>a, <2>1 DEF Subscribe, BranchNames, SMTypeOK, StreamRecord, QuietInv, Present, Alive
  <2>5. QuietInv'
    BY <1>d, <2>1, <2>4 DEF Idle
  <2> QED BY <1>a, <1>e, <2>1, <2>3, <2>4, <2>5
<1>4. CASE HlsLaunchFails
  BY <1>4 DEF HlsLaunchFails
<1>5. CASE ReapCheck
  <2>1. held[m] # 0
    BY <1>5, <1>a DEF ReapCheck, HeldInv
  <2>2. Present(m)
    BY <1>a, <2>1 DEF RefExact, Present
  <2>3. /\ UNCHANGED <<smVars, rtsp, mount, hls, capture, held>> /\ main.pc = "reap"
        /\ main' = [main EXCEPT !.pc = "release"]
    BY <1>5, <2>2 DEF ReapCheck
  <2> QED BY <1>a, <1>b, <1>f, <2>3 DEF MainRecord
<1>6. CASE HlsRelease
  <2>1. PICK t \in Tiers : t = m
    BY <1>a
  <2>2. /\ UNCHANGED <<rtsp, mount, hls, capture>> /\ Release(t) /\ main.pc = "release"
        /\ held' = [held EXCEPT ![t] = 0] /\ held[t] # 0
    BY <1>6, <1>a, <2>1 DEF HlsRelease, HeldInv
  <2>3. main'.pc \in {"idle", "remove"} /\ main'.audit = {}
    BY <1>6, <1>a, <1>b DEF HlsRelease, MainRecord, Idle
  <2>4. BranchNames' /\ \A s \in Tiers : Present(s)' => Alive(streams[s].cap)'
    <3>1. BranchNames'
      BY <1>a, <2>2 DEF Release, BranchNames
    <3>2. ASSUME NEW s \in Tiers, Present(s)'
          PROVE  Present(s) /\ streams'[s].cap = streams[s].cap
      BY <1>a, <2>2, <3>2 DEF Release, NoStream, Present, SMTypeOK, StreamRecord
    <3> QED BY <1>a, <2>2, <3>1, <3>2 DEF QuietInv, Alive
  <2>5. RefExact'
    BY <1>a, <1>c, <2>2, ReleaseExact
  <2>6. HeldInv'
    BY <1>a, <2>1, <2>2, <2>3 DEF HeldInv, MainHls
  <2>7. QuietInv'
    BY <1>d, <2>2, <2>3, <2>4
  <2>8. streams[t].gen \in branches
    <3>1. Present(t)
      BY <1>a, <2>2 DEF RefExact, Present
    <3> QED
      BY <3>1, <1>a DEF QuietInv, SharingInv, BranchesInv, BranchInv, StreamsHaveBranches
  <2>9. Refines
    BY <1>a, <1>c, <2>2, <2>8, LeaveMap
  <2> QED BY <2>4, <2>5, <2>6, <2>7, <2>9 DEF ExactInv
<1>7. CASE HlsRemoveBranch
  <2>1. PICK g \in Nat : g = main.gen
    BY <1>a
  <2>2. /\ Gone(g) /\ RemoveBranch(g) /\ UNCHANGED <<rtsp, mount, hls, capture>>
        /\ UNCHANGED held /\ main' = Idle
    BY <1>7, <2>1 DEF HlsRemoveBranch, SharingInv, BranchesInv, BranchInv, MainRemoves
  <2>3. BranchNames' /\ \A s \in Tiers : Present(s)' => Alive(streams[s].cap)'
    BY <1>a, <2>2 DEF RemoveBranch, BranchNames, QuietInv, Present, Alive
  <2>4. RefExact'
    BY <1>a, <1>c, <2>2, NeutralExact DEF RemoveBranch
  <2>5. HeldInv'
    BY <1>a, <2>2 DEF HeldInv, Idle
  <2>6. QuietInv'
    BY <1>d, <2>2, <2>3 DEF Idle
  <2>7. Refines
    BY <1>a, <1>c, <2>2, ReclaimMap
  <2> QED BY <2>3, <2>4, <2>5, <2>6, <2>7 DEF ExactInv
<1>8. CASE ConfigureAction
  <2>1. PICK request \in SUBSET Tiers : ConfigureLens(request, FALSE)
    BY <1>8 DEF ConfigureAction, ConfigureLens, StopLens
  <2>2. main'.pc = "audit" /\ main'.audit = {}
    BY <1>a, <2>1 DEF ConfigureLens, MainRecord
  <2> QED BY <1>f, <2>1, <2>2 DEF ConfigureLens
<1>9. ASSUME NEW t \in Tiers, DynamicUpdate(t) \/ NewTier(t) PROVE ExactInv' /\ Refines
  <2>1. main.pc = "tiers" /\ main'.pc \in {"tiers", "mount"} /\ main'.audit = {}
    BY <1>9, <1>a, <1>b DEF DynamicUpdate, NewTier, MainRecord
  <2>2. capture.live
    BY <1>a, <2>1 DEF QuietInv
  <2> QED BY <1>9, <1>f, <2>1, <2>2 DEF DynamicUpdate, NewTier
<1>10. CASE EnsureCapture
  <2>1. main'.pc = "tiers" /\ main'.audit = {}
    BY <1>10, <1>a, <1>b DEF EnsureCapture, MainRecord
  <2>2. CASE capture.live
    BY <1>10, <1>f, <2>1, <2>2 DEF EnsureCapture
  <2>3. CASE ~capture.live
    <3>1. UNCHANGED <<smVars, rtsp, mount, hls, held>> /\ capture'.live
      BY <1>10, <2>3 DEF EnsureCapture
    <3>2. \A s \in Tiers : ~Present(s)
      BY <1>a, <2>3 DEF QuietInv, Alive
    <3>3. \A k \in Factories : rtsp[k].pc = "idle" /\ \A t \in Tiers : mount[t] # k
      BY <1>a, <2>3 DEF QuietInv, Alive
    <3>4. RefExact' /\ Refines
      <4>1. \A s \in Tiers : streams'[s].gen = streams[s].gen /\ streams'[s].ref = streams[s].ref
        BY <3>1 DEF smVars
      <4>2. branches' = branches
        BY <3>1 DEF smVars
      <4> QED BY <1>a, <1>c, <3>1, <4>1, <4>2, NeutralExact, MapSame DEF Refines
    <3>5. HeldInv'
      BY <1>a, <3>1, <2>1 DEF HeldInv
    <3>6. QuietInv'
      BY <2>1, <3>1, <3>2, <3>3 DEF QuietInv, Present, smVars
    <3>7. BranchNames'
      BY <1>a, <3>1 DEF BranchNames, smVars
    <3> QED BY <3>4, <3>5, <3>6, <3>7 DEF ExactInv
  <2> QED BY <2>2, <2>3
<1>11. ASSUME NEW f \in Factories, MountFactory(f) PROVE ExactInv' /\ Refines
  <2>1. /\ UNCHANGED <<smVars, hls, capture>> /\ UNCHANGED held /\ main.pc = "mount"
        /\ rtsp[f].pc = "idle" /\ capture.live
        /\ rtsp'[f].pc = "idle" /\ rtsp'[f].cap = capture.id
        /\ \A k \in Factories \ {f} : rtsp'[k] = rtsp[k]
        /\ mount' = [mount EXCEPT ![m] = f]
    BY <1>11, <1>a DEF MountFactory, Retired, QuietInv
  <2>2. main'.pc = "tiers" /\ main'.audit = {}
    BY <1>11, <1>a, <1>b DEF MountFactory, MainRecord
  <2>3. held[f] = 0
    BY <1>a, <2>1 DEF OwedInv
  <2>4. TiersKept
    BY <1>a, <2>1, <2>3 DEF TiersKept, TierOf, Users
  <2>5. RefExact' /\ Refines
    <3>1. \A s \in Tiers : streams'[s].gen = streams[s].gen /\ streams'[s].ref = streams[s].ref
      BY <2>1 DEF smVars
    <3>2. branches' = branches
      BY <2>1 DEF smVars
    <3> QED BY <1>a, <2>1, <2>4, <3>1, <3>2, NeutralExact, MapSame DEF Refines
  <2>6. HeldInv'
    BY <1>a, <2>1, <2>2 DEF HeldInv
  <2>7. QuietInv'
    <3>1. \A k \in Factories : rtsp'[k].pc # "failed"
      BY <1>a, <2>1 DEF QuietInv
    <3>2. ASSUME NEW k \in Factories, rtsp'[k].pc # "idle" \/ \E t \in Tiers : mount'[t] = k
          PROVE  capture'.live /\ capture'.id = rtsp'[k].cap
      <4>1. CASE k = f
        BY <2>1, <4>1
      <4>2. CASE k # f
        <5>1. \A t \in Tiers : mount'[t] = k => mount[t] = k
          BY <1>a, <2>1, <4>2 DEF TypeOK, EngineTypeOK
        <5> QED BY <1>a, <2>1, <3>2, <4>2, <5>1 DEF QuietInv, Alive
      <4> QED BY <4>1, <4>2
    <3>3. \A s \in Tiers : Present(s)' => capture'.live /\ capture'.id = streams'[s].cap
      BY <1>a, <2>1 DEF QuietInv, Alive, Present, smVars
    <3> QED BY <2>1, <2>2, <3>1, <3>2, <3>3 DEF QuietInv, Alive
  <2>8. BranchNames'
    BY <1>a, <2>1 DEF BranchNames, smVars
  <2> QED BY <2>5, <2>6, <2>7, <2>8 DEF ExactInv
<1>12. CASE ConfigureDone
  BY <1>12, <1>f DEF ConfigureDone, Idle
<1>13. CASE MainStep
  BY <1>b, <1>3, <1>4, <1>5, <1>6, <1>7, <1>9, <1>10, <1>11, <1>12, <1>13
  DEF MainStep, AuditTeardown, StaticChange, ReadBranchName, RemoveLiveBranch,
      RebuildTeardown, StopCapture
<1>14. ASSUME NEW t \in Tiers, HlsAction(t) PROVE ExactInv' /\ Refines
  BY <1>1, <1>2, <1>14 DEF HlsAction, StopHls, ReapHls, StartHlsFails
<1> QED BY <1>8, <1>13, <1>14

LEMMA InitSharing == Init => SharingInv /\ OnDemand!Init
<1> SUFFICES ASSUME Init PROVE ExactInv /\ OnDemand!Init
  BY InitSubs, InitBranches DEF SharingInv
<1>1. (\A t \in Tiers : streams[t].gen = 0) /\ branches = {}
  BY DEF Init, SMInit, NoStream
<1>2. \A u \in Users : held[u] = 0
  BY DEF Init
<1>3. RefExact
  BY <1>1, <1>2 DEF RefExact, Present
<1>4. HeldInv /\ BranchNames
  BY <1>1 DEF Init, HeldInv, BranchNames, Idle, Users
<1>5. QuietInv
  <2>1. \A t \in Tiers, f \in Factories : mount[t] # f
    BY UsersAssumption DEF Init
  <2> QED BY <1>1, <2>1 DEF Init, QuietInv, Idle, Present
<1>6. OnDemand!Init
  BY <1>1, <1>2 DEF OnDemand!Init
<1> QED BY <1>3, <1>4, <1>5, <1>6 DEF ExactInv

LEMMA StutterExact == ExactInv /\ UNCHANGED vars => ExactInv' /\ Refines
<1> SUFFICES ASSUME ExactInv, UNCHANGED vars PROVE ExactInv' /\ Refines
  OBVIOUS
<1>1. RefExact'
  BY DEF ExactInv, RefExact, Present, Holders, TierOf, vars
<1>2. HeldInv' /\ BranchNames'
  BY DEF ExactInv, HeldInv, BranchNames, vars
<1>3. QuietInv'
  BY DEF ExactInv, QuietInv, Present, Alive, vars
<1>4. Refines
  <2>1. TiersKept
    BY DEF TiersKept, TierOf, vars
  <2> QED BY <2>1, MapSame DEF Refines, vars
<1> QED BY <1>1, <1>2, <1>3, <1>4 DEF ExactInv

LEMMA StepSharing ==
    ASSUME Ops = {}
    PROVE  SharingInv /\ [Next]_vars => SharingInv' /\ Refines
<1> SUFFICES ASSUME SharingInv, [Next]_vars PROVE ExactInv' /\ Refines
  BY StepSubs, StepBranches DEF SharingInv
<1>1. ASSUME NEW f \in Factories, RtspStep(f) \/ Connect(f) \/ UnpreparedUnsubscribe(f)
      PROVE  ExactInv' /\ Refines
  BY <1>1, RtspExact
<1>2. CASE MainStep \/ ConfigureAction \/ \E t \in Tiers : HlsAction(t)
  BY <1>2, MainExact
<1>3. CASE UNCHANGED vars
  BY <1>3, StutterExact DEF SharingInv
<1> QED BY <1>1, <1>2, <1>3 DEF Next, Request, HlsAction, ConfigureAction

\* Without rebuilds, failures and StopLens acquire and release pair up over all
\* interleavings of the RTSP threads with the main loop: a stream's count is
\* the number of its users, and every user's stream is in the table
\* (sys_stream.c:128-135, 225-231).
THEOREM RefCountExact ==
    ASSUME Ops = {}
    PROVE  Spec => []RefExact
<1>1. SharingInv => RefExact
  BY DEF SharingInv, ExactInv
<1> QED BY InitSharing, StepSharing, <1>1, PTL DEF Spec

\* And then the table, its users and the branches are an encoder on demand per
\* tier: built for the first user, shared, and dismantled after the last
\* (CODEBASE_DOCUMENTATION.md:601).
THEOREM EncoderOnDemand ==
    ASSUME Ops = {}
    PROVE  Spec => ImplementsOnDemand
<1>1. SharingInv /\ [Next]_vars => [OnDemand!Next]_(OnDemand!vars)
  BY StepSharing DEF Refines
<1> QED BY InitSharing, StepSharing, <1>1, PTL DEF Spec, ImplementsOnDemand, OnDemand!Spec
=============================================================================
