---------------------------- MODULE LifecycleProofs ----------------------------
(***************************************************************************)
(* For any number of ExternalServices of distinct names, any lag of the    *)
(* caches and any faults: the operator forgets nothing that is unfinished, *)
(* a cleanup that read current copies leaves nothing, and no cleanup takes *)
(* from one that lives.                                                    *)
(***************************************************************************)
EXTENDS Lifecycle, TLAPS

\* Every step keeps the types.
LEMMA TypeStep ==
    ASSUME TypeOK, [Next]_vars
    PROVE  TypeOK'
  <1> USE NamesAssumption, BoundsAssumption
  <1> USE DEF TypeOK, ESStates, FwdStates, Ats, Owned, serverVars, cacheVars, opVars, Goto, Done, Error, Reads, Name
  <1>1. ASSUME NEW e \in ESs, Take(e) PROVE TypeOK'
    BY <1>1 DEF Take
  <1>2. ASSUME AddFinalizer PROVE TypeOK'
    BY <1>2 DEF AddFinalizer
  <1>3. ASSUME EnsurePod PROVE TypeOK'
    BY <1>3 DEF EnsurePod
  <1>4. ASSUME EnsureService PROVE TypeOK'
    BY <1>4 DEF EnsureService
  <1>5. ASSUME EnsureForwarder PROVE TypeOK'
    BY <1>5 DEF EnsureForwarder
  <1>6. ASSUME WriteRules PROVE TypeOK'
    BY <1>6 DEF WriteRules
  <1>7. ASSUME GetForwarder PROVE TypeOK'
    BY <1>7 DEF GetForwarder, WithRules
  <1>8. ASSUME UpdateGateway PROVE TypeOK'
    BY <1>8 DEF UpdateGateway
  <1>9. ASSUME GatewayConflict PROVE TypeOK'
    BY <1>9 DEF GatewayConflict
  <1>10. ASSUME DeletePod PROVE TypeOK'
    BY <1>10 DEF DeletePod
  <1>11. ASSUME DeleteService PROVE TypeOK'
    BY <1>11 DEF DeleteService, Deleted
  <1>12. ASSUME DeleteForwarder PROVE TypeOK'
    BY <1>12 DEF DeleteForwarder
  <1>13. ASSUME ListForwarders PROVE TypeOK'
    BY <1>13 DEF ListForwarders, WithRules
  <1>14. ASSUME CleanGateways PROVE TypeOK'
    BY <1>14 DEF CleanGateways
  <1>15. ASSUME ClearFinalizer PROVE TypeOK'
    BY <1>15 DEF ClearFinalizer
  <1>16. ASSUME DeleteFails PROVE TypeOK'
    BY <1>16 DEF DeleteFails, Fault
  <1>17. ASSUME Fail PROVE TypeOK'
    BY <1>17 DEF Fail, Fault
  <1>18. ASSUME Restart PROVE TypeOK'
    BY <1>18 DEF Restart, Fault
  <1>19. ASSUME NEW e \in ESs, CacheES(e) PROVE TypeOK'
    BY <1>19 DEF CacheES
  <1>20. ASSUME NEW n \in Names, CachePod(n) PROVE TypeOK'
    BY <1>20 DEF CachePod, Owners
  <1>21. ASSUME NEW n \in Names, CacheService(n) PROVE TypeOK'
    BY <1>21 DEF CacheService, Owners
  <1>22. ASSUME NEW n \in Names, CacheForwarder(n) PROVE TypeOK'
    BY <1>22 DEF CacheForwarder
  <1>23. ASSUME CacheGateway PROVE TypeOK'
    BY <1>23 DEF CacheGateway
  <1>24. ASSUME NEW e \in ESs, Resync(e) PROVE TypeOK'
    BY <1>24 DEF Resync
  <1>25. ASSUME NEW e \in ESs, Create(e) PROVE TypeOK'
    BY <1>25 DEF Create
  <1>26. ASSUME NEW e \in ESs, Delete(e) PROVE TypeOK'
    BY <1>26 DEF Delete
  <1>27. ASSUME NEW n \in Names, PodGone(n) PROVE TypeOK'
    BY <1>27 DEF PodGone
  <1>28. ASSUME NEW n \in Names, Evict(n) PROVE TypeOK'
    BY <1>28 DEF Evict, Fault
  <1>29. CASE UNCHANGED vars
    BY <1>29 DEF vars
  <1> QED BY <1>1, <1>2, <1>3, <1>4, <1>5, <1>6, <1>7, <1>8, <1>9, <1>10, <1>11, <1>12, <1>13, <1>14, <1>15, <1>16, <1>17, <1>18, <1>19, <1>20, <1>21, <1>22, <1>23, <1>24, <1>25, <1>26, <1>27, <1>28, <1>29 DEF Next, OpStep, Watch

\* Every step keeps what a cleanup has cleared.
LEMMA CleanupStep ==
    ASSUME TypeOK, CleanupInv, [Next]_vars
    PROVE  CleanupInv'
  <1> USE NamesAssumption
  <1> USE DEF CleanupInv, Cleanup, WithRules, TypeOK, ESStates, FwdStates, Ats, Owned, serverVars, cacheVars, opVars, Goto, Done, Error, Reads, Name
  <1>1. ASSUME NEW e \in ESs, Take(e) PROVE CleanupInv'
    BY <1>1 DEF Take
  <1>2. ASSUME AddFinalizer PROVE CleanupInv'
    BY <1>2 DEF AddFinalizer
  <1>3. ASSUME EnsurePod PROVE CleanupInv'
    BY <1>3 DEF EnsurePod
  <1>4. ASSUME EnsureService PROVE CleanupInv'
    BY <1>4 DEF EnsureService
  <1>5. ASSUME EnsureForwarder PROVE CleanupInv'
    BY <1>5 DEF EnsureForwarder
  <1>6. ASSUME WriteRules PROVE CleanupInv'
    BY <1>6 DEF WriteRules
  <1>7. ASSUME GetForwarder PROVE CleanupInv'
    BY <1>7 DEF GetForwarder, WithRules
  <1>8. ASSUME UpdateGateway PROVE CleanupInv'
    BY <1>8 DEF UpdateGateway
  <1>9. ASSUME GatewayConflict PROVE CleanupInv'
    BY <1>9 DEF GatewayConflict
  <1>10. ASSUME DeletePod PROVE CleanupInv'
    BY <1>10 DEF DeletePod
  <1>11. ASSUME DeleteService PROVE CleanupInv'
    BY <1>11 DEF DeleteService, Deleted
  <1>12. ASSUME DeleteForwarder PROVE CleanupInv'
    BY <1>12 DEF DeleteForwarder
  <1>13. ASSUME ListForwarders PROVE CleanupInv'
    BY <1>13 DEF ListForwarders, WithRules
  <1>14. ASSUME CleanGateways PROVE CleanupInv'
    <2>1. trusted' => trusted /\ (gwCache = "current" \/ ~gwExists)
      BY <1>14, Zenon DEF CleanGateways
    <2>2. gwCache = "current" => gw' = list
      BY <1>14 DEF CleanGateways
    <2>3. gwCache # "current" => gw' = gw
      BY <1>14 DEF CleanGateways
    <2>4. ~gwExists' => gw' = {} /\ gwCache' = "absent"
      BY <1>14, <2>3 DEF CleanGateways
    <2>5. trusted' => Name' \notin gw'
      BY <1>14, <2>1, <2>2, <2>3 DEF CleanGateways
    <2> QED BY <1>14, <2>1, <2>4, <2>5 DEF CleanGateways
  <1>15. ASSUME ClearFinalizer PROVE CleanupInv'
    BY <1>15 DEF ClearFinalizer
  <1>16. ASSUME DeleteFails PROVE CleanupInv'
    BY <1>16 DEF DeleteFails, Fault
  <1>17. ASSUME Fail PROVE CleanupInv'
    BY <1>17 DEF Fail, Fault
  <1>18. ASSUME Restart PROVE CleanupInv'
    BY <1>18 DEF Restart, Fault
  <1>19. ASSUME NEW e \in ESs, CacheES(e) PROVE CleanupInv'
    BY <1>19 DEF CacheES
  <1>20. ASSUME NEW n \in Names, CachePod(n) PROVE CleanupInv'
    BY <1>20 DEF CachePod, Owners
  <1>21. ASSUME NEW n \in Names, CacheService(n) PROVE CleanupInv'
    BY <1>21 DEF CacheService, Owners
  <1>22. ASSUME NEW n \in Names, CacheForwarder(n) PROVE CleanupInv'
    BY <1>22 DEF CacheForwarder
  <1>23. ASSUME CacheGateway PROVE CleanupInv'
    BY <1>23 DEF CacheGateway
  <1>24. ASSUME NEW e \in ESs, Resync(e) PROVE CleanupInv'
    BY <1>24 DEF Resync
  <1>25. ASSUME NEW e \in ESs, Create(e) PROVE CleanupInv'
    BY <1>25 DEF Create
  <1>26. ASSUME NEW e \in ESs, Delete(e) PROVE CleanupInv'
    BY <1>26 DEF Delete
  <1>27. ASSUME NEW n \in Names, PodGone(n) PROVE CleanupInv'
    BY <1>27 DEF PodGone
  <1>28. ASSUME NEW n \in Names, Evict(n) PROVE CleanupInv'
    BY <1>28 DEF Evict, Fault
  <1>29. CASE UNCHANGED vars
    BY <1>29 DEF vars
  <1> QED BY <1>1, <1>2, <1>3, <1>4, <1>5, <1>6, <1>7, <1>8, <1>9, <1>10, <1>11, <1>12, <1>13, <1>14, <1>15, <1>16, <1>17, <1>18, <1>19, <1>20, <1>21, <1>22, <1>23, <1>24, <1>25, <1>26, <1>27, <1>28, <1>29 DEF Next, OpStep, Watch

\* Every step leaves pods and services to ExternalServices of their name.
LEMMA OwnersStep ==
    ASSUME TypeOK, OwnersInv, [Next]_vars
    PROVE  OwnersInv'
  <1> USE NamesAssumption
  <1> USE DEF OwnersInv, TypeOK, ESStates, FwdStates, Ats, Owned, serverVars, cacheVars, opVars, Goto, Done, Error, Reads, Name
  <1>1. ASSUME NEW e \in ESs, Take(e) PROVE OwnersInv'
    BY <1>1 DEF Take
  <1>2. ASSUME AddFinalizer PROVE OwnersInv'
    BY <1>2 DEF AddFinalizer
  <1>3. ASSUME EnsurePod PROVE OwnersInv'
    BY <1>3 DEF EnsurePod
  <1>4. ASSUME EnsureService PROVE OwnersInv'
    BY <1>4 DEF EnsureService
  <1>5. ASSUME EnsureForwarder PROVE OwnersInv'
    BY <1>5 DEF EnsureForwarder
  <1>6. ASSUME WriteRules PROVE OwnersInv'
    BY <1>6 DEF WriteRules
  <1>7. ASSUME GetForwarder PROVE OwnersInv'
    BY <1>7 DEF GetForwarder, WithRules
  <1>8. ASSUME UpdateGateway PROVE OwnersInv'
    BY <1>8 DEF UpdateGateway
  <1>9. ASSUME GatewayConflict PROVE OwnersInv'
    BY <1>9 DEF GatewayConflict
  <1>10. ASSUME DeletePod PROVE OwnersInv'
    BY <1>10 DEF DeletePod
  <1>11. ASSUME DeleteService PROVE OwnersInv'
    BY <1>11 DEF DeleteService, Deleted
  <1>12. ASSUME DeleteForwarder PROVE OwnersInv'
    BY <1>12 DEF DeleteForwarder
  <1>13. ASSUME ListForwarders PROVE OwnersInv'
    BY <1>13 DEF ListForwarders, WithRules
  <1>14. ASSUME CleanGateways PROVE OwnersInv'
    BY <1>14 DEF CleanGateways
  <1>15. ASSUME ClearFinalizer PROVE OwnersInv'
    BY <1>15 DEF ClearFinalizer
  <1>16. ASSUME DeleteFails PROVE OwnersInv'
    BY <1>16 DEF DeleteFails, Fault
  <1>17. ASSUME Fail PROVE OwnersInv'
    BY <1>17 DEF Fail, Fault
  <1>18. ASSUME Restart PROVE OwnersInv'
    BY <1>18 DEF Restart, Fault
  <1>19. ASSUME NEW e \in ESs, CacheES(e) PROVE OwnersInv'
    BY <1>19 DEF CacheES
  <1>20. ASSUME NEW n \in Names, CachePod(n) PROVE OwnersInv'
    BY <1>20 DEF CachePod, Owners
  <1>21. ASSUME NEW n \in Names, CacheService(n) PROVE OwnersInv'
    BY <1>21 DEF CacheService, Owners
  <1>22. ASSUME NEW n \in Names, CacheForwarder(n) PROVE OwnersInv'
    BY <1>22 DEF CacheForwarder
  <1>23. ASSUME CacheGateway PROVE OwnersInv'
    BY <1>23 DEF CacheGateway
  <1>24. ASSUME NEW e \in ESs, Resync(e) PROVE OwnersInv'
    BY <1>24 DEF Resync
  <1>25. ASSUME NEW e \in ESs, Create(e) PROVE OwnersInv'
    BY <1>25 DEF Create
  <1>26. ASSUME NEW e \in ESs, Delete(e) PROVE OwnersInv'
    BY <1>26 DEF Delete
  <1>27. ASSUME NEW n \in Names, PodGone(n) PROVE OwnersInv'
    BY <1>27 DEF PodGone
  <1>28. ASSUME NEW n \in Names, Evict(n) PROVE OwnersInv'
    BY <1>28 DEF Evict, Fault
  <1>29. CASE UNCHANGED vars
    BY <1>29 DEF vars
  <1> QED BY <1>1, <1>2, <1>3, <1>4, <1>5, <1>6, <1>7, <1>8, <1>9, <1>10, <1>11, <1>12, <1>13, <1>14, <1>15, <1>16, <1>17, <1>18, <1>19, <1>20, <1>21, <1>22, <1>23, <1>24, <1>25, <1>26, <1>27, <1>28, <1>29 DEF Next, OpStep, Watch

\* Every step keeps the cache of ExternalServices in their last life.
LEMMA CacheStep ==
    ASSUME TypeOK, CacheInv, AtHandInv, [Next]_vars
    PROVE  CacheInv'
  <1> USE NamesAssumption
  <1> USE DEF CacheInv, AtHandInv, Cleanup, TypeOK, ESStates, FwdStates, Ats, Owned, serverVars, cacheVars, opVars, Goto, Done, Error, Reads, Name
  <1>1. ASSUME NEW e \in ESs, Take(e) PROVE CacheInv'
    BY <1>1 DEF Take
  <1>2. ASSUME AddFinalizer PROVE CacheInv'
    BY <1>2 DEF AddFinalizer
  <1>3. ASSUME EnsurePod PROVE CacheInv'
    BY <1>3 DEF EnsurePod
  <1>4. ASSUME EnsureService PROVE CacheInv'
    BY <1>4 DEF EnsureService
  <1>5. ASSUME EnsureForwarder PROVE CacheInv'
    BY <1>5 DEF EnsureForwarder
  <1>6. ASSUME WriteRules PROVE CacheInv'
    BY <1>6 DEF WriteRules
  <1>7. ASSUME GetForwarder PROVE CacheInv'
    BY <1>7 DEF GetForwarder, WithRules
  <1>8. ASSUME UpdateGateway PROVE CacheInv'
    BY <1>8 DEF UpdateGateway
  <1>9. ASSUME GatewayConflict PROVE CacheInv'
    BY <1>9 DEF GatewayConflict
  <1>10. ASSUME DeletePod PROVE CacheInv'
    BY <1>10 DEF DeletePod
  <1>11. ASSUME DeleteService PROVE CacheInv'
    BY <1>11 DEF DeleteService, Deleted
  <1>12. ASSUME DeleteForwarder PROVE CacheInv'
    BY <1>12 DEF DeleteForwarder
  <1>13. ASSUME ListForwarders PROVE CacheInv'
    BY <1>13 DEF ListForwarders, WithRules
  <1>14. ASSUME CleanGateways PROVE CacheInv'
    BY <1>14 DEF CleanGateways
  <1>15. ASSUME ClearFinalizer PROVE CacheInv'
    BY <1>15 DEF ClearFinalizer
  <1>16. ASSUME DeleteFails PROVE CacheInv'
    BY <1>16 DEF DeleteFails, Fault
  <1>17. ASSUME Fail PROVE CacheInv'
    BY <1>17 DEF Fail, Fault
  <1>18. ASSUME Restart PROVE CacheInv'
    BY <1>18 DEF Restart, Fault
  <1>19. ASSUME NEW e \in ESs, CacheES(e) PROVE CacheInv'
    BY <1>19 DEF CacheES
  <1>20. ASSUME NEW n \in Names, CachePod(n) PROVE CacheInv'
    BY <1>20 DEF CachePod, Owners
  <1>21. ASSUME NEW n \in Names, CacheService(n) PROVE CacheInv'
    BY <1>21 DEF CacheService, Owners
  <1>22. ASSUME NEW n \in Names, CacheForwarder(n) PROVE CacheInv'
    BY <1>22 DEF CacheForwarder
  <1>23. ASSUME CacheGateway PROVE CacheInv'
    BY <1>23 DEF CacheGateway
  <1>24. ASSUME NEW e \in ESs, Resync(e) PROVE CacheInv'
    BY <1>24 DEF Resync
  <1>25. ASSUME NEW e \in ESs, Create(e) PROVE CacheInv'
    BY <1>25 DEF Create
  <1>26. ASSUME NEW e \in ESs, Delete(e) PROVE CacheInv'
    BY <1>26 DEF Delete
  <1>27. ASSUME NEW n \in Names, PodGone(n) PROVE CacheInv'
    BY <1>27 DEF PodGone
  <1>28. ASSUME NEW n \in Names, Evict(n) PROVE CacheInv'
    BY <1>28 DEF Evict, Fault
  <1>29. CASE UNCHANGED vars
    BY <1>29 DEF vars
  <1> QED BY <1>1, <1>2, <1>3, <1>4, <1>5, <1>6, <1>7, <1>8, <1>9, <1>10, <1>11, <1>12, <1>13, <1>14, <1>15, <1>16, <1>17, <1>18, <1>19, <1>20, <1>21, <1>22, <1>23, <1>24, <1>25, <1>26, <1>27, <1>28, <1>29 DEF Next, OpStep, Watch

\* Every step keeps what a reconcile knows.
LEMMA AtHandStep ==
    ASSUME TypeOK, CacheInv, AtHandInv, [Next]_vars
    PROVE  AtHandInv'
  <1> USE NamesAssumption
  <1> USE DEF CacheInv, AtHandInv, Cleanup, TypeOK, ESStates, FwdStates, Ats, Owned, serverVars, cacheVars, opVars, Goto, Done, Error, Reads, Name
  <1>1. ASSUME NEW e \in ESs, Take(e) PROVE AtHandInv'
    BY <1>1 DEF Take
  <1>2. ASSUME AddFinalizer PROVE AtHandInv'
    BY <1>2 DEF AddFinalizer
  <1>3. ASSUME EnsurePod PROVE AtHandInv'
    BY <1>3 DEF EnsurePod
  <1>4. ASSUME EnsureService PROVE AtHandInv'
    BY <1>4 DEF EnsureService
  <1>5. ASSUME EnsureForwarder PROVE AtHandInv'
    BY <1>5 DEF EnsureForwarder
  <1>6. ASSUME WriteRules PROVE AtHandInv'
    BY <1>6 DEF WriteRules
  <1>7. ASSUME GetForwarder PROVE AtHandInv'
    BY <1>7 DEF GetForwarder, WithRules
  <1>8. ASSUME UpdateGateway PROVE AtHandInv'
    BY <1>8 DEF UpdateGateway
  <1>9. ASSUME GatewayConflict PROVE AtHandInv'
    BY <1>9 DEF GatewayConflict
  <1>10. ASSUME DeletePod PROVE AtHandInv'
    BY <1>10 DEF DeletePod
  <1>11. ASSUME DeleteService PROVE AtHandInv'
    BY <1>11 DEF DeleteService, Deleted
  <1>12. ASSUME DeleteForwarder PROVE AtHandInv'
    BY <1>12 DEF DeleteForwarder
  <1>13. ASSUME ListForwarders PROVE AtHandInv'
    BY <1>13 DEF ListForwarders, WithRules
  <1>14. ASSUME CleanGateways PROVE AtHandInv'
    BY <1>14 DEF CleanGateways
  <1>15. ASSUME ClearFinalizer PROVE AtHandInv'
    BY <1>15 DEF ClearFinalizer
  <1>16. ASSUME DeleteFails PROVE AtHandInv'
    BY <1>16 DEF DeleteFails, Fault
  <1>17. ASSUME Fail PROVE AtHandInv'
    BY <1>17 DEF Fail, Fault
  <1>18. ASSUME Restart PROVE AtHandInv'
    BY <1>18 DEF Restart, Fault
  <1>19. ASSUME NEW e \in ESs, CacheES(e) PROVE AtHandInv'
    BY <1>19 DEF CacheES
  <1>20. ASSUME NEW n \in Names, CachePod(n) PROVE AtHandInv'
    BY <1>20 DEF CachePod, Owners
  <1>21. ASSUME NEW n \in Names, CacheService(n) PROVE AtHandInv'
    BY <1>21 DEF CacheService, Owners
  <1>22. ASSUME NEW n \in Names, CacheForwarder(n) PROVE AtHandInv'
    BY <1>22 DEF CacheForwarder
  <1>23. ASSUME CacheGateway PROVE AtHandInv'
    BY <1>23 DEF CacheGateway
  <1>24. ASSUME NEW e \in ESs, Resync(e) PROVE AtHandInv'
    BY <1>24 DEF Resync
  <1>25. ASSUME NEW e \in ESs, Create(e) PROVE AtHandInv'
    BY <1>25 DEF Create
  <1>26. ASSUME NEW e \in ESs, Delete(e) PROVE AtHandInv'
    BY <1>26 DEF Delete
  <1>27. ASSUME NEW n \in Names, PodGone(n) PROVE AtHandInv'
    BY <1>27 DEF PodGone
  <1>28. ASSUME NEW n \in Names, Evict(n) PROVE AtHandInv'
    BY <1>28 DEF Evict, Fault
  <1>29. CASE UNCHANGED vars
    BY <1>29 DEF vars
  <1> QED BY <1>1, <1>2, <1>3, <1>4, <1>5, <1>6, <1>7, <1>8, <1>9, <1>10, <1>11, <1>12, <1>13, <1>14, <1>15, <1>16, <1>17, <1>18, <1>19, <1>20, <1>21, <1>22, <1>23, <1>24, <1>25, <1>26, <1>27, <1>28, <1>29 DEF Next, OpStep, Watch

\* Every step keeps what a reconcile has done, or makes a request.
LEMMA DoneStep ==
    ASSUME TypeOK, OwnersInv, DoneInv, DistinctNames, [Next]_vars
    PROVE  DoneInv'
  <1> USE NamesAssumption
  <1> USE DEF OwnersInv, DoneInv, HasService, DistinctNames, TypeOK, ESStates, FwdStates, Ats, Owned, serverVars, cacheVars, opVars, Goto, Done, Error, Reads, Name
  <1>1. ASSUME NEW e \in ESs, Take(e) PROVE DoneInv'
    BY <1>1 DEF Take
  <1>2. ASSUME AddFinalizer PROVE DoneInv'
    BY <1>2 DEF AddFinalizer
  <1>3. ASSUME EnsurePod PROVE DoneInv'
    BY <1>3 DEF EnsurePod
  <1>4. ASSUME EnsureService PROVE DoneInv'
    BY <1>4 DEF EnsureService
  <1>5. ASSUME EnsureForwarder PROVE DoneInv'
    BY <1>5 DEF EnsureForwarder
  <1>6. ASSUME WriteRules PROVE DoneInv'
    BY <1>6 DEF WriteRules
  <1>7. ASSUME GetForwarder PROVE DoneInv'
    BY <1>7 DEF GetForwarder, WithRules
  <1>8. ASSUME UpdateGateway PROVE DoneInv'
    BY <1>8 DEF UpdateGateway
  <1>9. ASSUME GatewayConflict PROVE DoneInv'
    BY <1>9 DEF GatewayConflict
  <1>10. ASSUME DeletePod PROVE DoneInv'
    BY <1>10 DEF DeletePod
  <1>11. ASSUME DeleteService PROVE DoneInv'
    BY <1>11 DEF DeleteService, Deleted
  <1>12. ASSUME DeleteForwarder PROVE DoneInv'
    BY <1>12 DEF DeleteForwarder
  <1>13. ASSUME ListForwarders PROVE DoneInv'
    BY <1>13 DEF ListForwarders, WithRules
  <1>14. ASSUME CleanGateways PROVE DoneInv'
    BY <1>14 DEF CleanGateways
  <1>15. ASSUME ClearFinalizer PROVE DoneInv'
    BY <1>15 DEF ClearFinalizer
  <1>16. ASSUME DeleteFails PROVE DoneInv'
    BY <1>16 DEF DeleteFails, Fault
  <1>17. ASSUME Fail PROVE DoneInv'
    BY <1>17 DEF Fail, Fault
  <1>18. ASSUME Restart PROVE DoneInv'
    BY <1>18 DEF Restart, Fault
  <1>19. ASSUME NEW e \in ESs, CacheES(e) PROVE DoneInv'
    BY <1>19 DEF CacheES
  <1>20. ASSUME NEW n \in Names, CachePod(n) PROVE DoneInv'
    BY <1>20 DEF CachePod, Owners
  <1>21. ASSUME NEW n \in Names, CacheService(n) PROVE DoneInv'
    BY <1>21 DEF CacheService, Owners
  <1>22. ASSUME NEW n \in Names, CacheForwarder(n) PROVE DoneInv'
    BY <1>22 DEF CacheForwarder
  <1>23. ASSUME CacheGateway PROVE DoneInv'
    BY <1>23 DEF CacheGateway
  <1>24. ASSUME NEW e \in ESs, Resync(e) PROVE DoneInv'
    BY <1>24 DEF Resync
  <1>25. ASSUME NEW e \in ESs, Create(e) PROVE DoneInv'
    BY <1>25 DEF Create
  <1>26. ASSUME NEW e \in ESs, Delete(e) PROVE DoneInv'
    BY <1>26 DEF Delete
  <1>27. ASSUME NEW n \in Names, PodGone(n) PROVE DoneInv'
    BY <1>27 DEF PodGone
  <1>28. ASSUME NEW n \in Names, Evict(n) PROVE DoneInv'
    BY <1>28 DEF Evict, Fault
  <1>29. CASE UNCHANGED vars
    BY <1>29 DEF vars
  <1> QED BY <1>1, <1>2, <1>3, <1>4, <1>5, <1>6, <1>7, <1>8, <1>9, <1>10, <1>11, <1>12, <1>13, <1>14, <1>15, <1>16, <1>17, <1>18, <1>19, <1>20, <1>21, <1>22, <1>23, <1>24, <1>25, <1>26, <1>27, <1>28, <1>29 DEF Next, OpStep, Watch

\* Every step keeps what the operator will not come back to, or makes a request.
LEMMA KeptStep ==
    ASSUME TypeOK, RequestInv, DistinctNames, [Next]_vars
    PROVE  KeptInv'
  <1> USE NamesAssumption
  <1> USE DEF RequestInv, OwnersInv, CacheInv, AtHandInv, DoneInv, KeptInv, HasService, Cleanup, DistinctNames, TypeOK, ESStates, FwdStates, Ats, Owned, serverVars, cacheVars, opVars, Goto, Done, Error, Reads, Name
  <1>1. ASSUME NEW e \in ESs, Take(e) PROVE KeptInv'
    BY <1>1 DEF Take
  <1>2. ASSUME AddFinalizer PROVE KeptInv'
    BY <1>2 DEF AddFinalizer
  <1>3. ASSUME EnsurePod PROVE KeptInv'
    BY <1>3 DEF EnsurePod
  <1>4. ASSUME EnsureService PROVE KeptInv'
    BY <1>4 DEF EnsureService
  <1>5. ASSUME EnsureForwarder PROVE KeptInv'
    BY <1>5 DEF EnsureForwarder
  <1>6. ASSUME WriteRules PROVE KeptInv'
    BY <1>6 DEF WriteRules
  <1>7. ASSUME GetForwarder PROVE KeptInv'
    BY <1>7 DEF GetForwarder, WithRules
  <1>8. ASSUME UpdateGateway PROVE KeptInv'
    BY <1>8 DEF UpdateGateway
  <1>9. ASSUME GatewayConflict PROVE KeptInv'
    BY <1>9 DEF GatewayConflict
  <1>10. ASSUME DeletePod PROVE KeptInv'
    BY <1>10 DEF DeletePod
  <1>11. ASSUME DeleteService PROVE KeptInv'
    BY <1>11 DEF DeleteService, Deleted
  <1>12. ASSUME DeleteForwarder PROVE KeptInv'
    BY <1>12 DEF DeleteForwarder
  <1>13. ASSUME ListForwarders PROVE KeptInv'
    BY <1>13 DEF ListForwarders, WithRules
  <1>14. ASSUME CleanGateways PROVE KeptInv'
    BY <1>14 DEF CleanGateways
  <1>15. ASSUME ClearFinalizer PROVE KeptInv'
    BY <1>15 DEF ClearFinalizer
  <1>16. ASSUME DeleteFails PROVE KeptInv'
    BY <1>16 DEF DeleteFails, Fault
  <1>17. ASSUME Fail PROVE KeptInv'
    BY <1>17 DEF Fail, Fault
  <1>18. ASSUME Restart PROVE KeptInv'
    BY <1>18 DEF Restart, Fault
  <1>19. ASSUME NEW e \in ESs, CacheES(e) PROVE KeptInv'
    BY <1>19 DEF CacheES
  <1>20. ASSUME NEW n \in Names, CachePod(n) PROVE KeptInv'
    BY <1>20 DEF CachePod, Owners
  <1>21. ASSUME NEW n \in Names, CacheService(n) PROVE KeptInv'
    BY <1>21 DEF CacheService, Owners
  <1>22. ASSUME NEW n \in Names, CacheForwarder(n) PROVE KeptInv'
    BY <1>22 DEF CacheForwarder
  <1>23. ASSUME CacheGateway PROVE KeptInv'
    BY <1>23 DEF CacheGateway
  <1>24. ASSUME NEW e \in ESs, Resync(e) PROVE KeptInv'
    BY <1>24 DEF Resync
  <1>25. ASSUME NEW e \in ESs, Create(e) PROVE KeptInv'
    BY <1>25 DEF Create
  <1>26. ASSUME NEW e \in ESs, Delete(e) PROVE KeptInv'
    BY <1>26 DEF Delete
  <1>27. ASSUME NEW n \in Names, PodGone(n) PROVE KeptInv'
    BY <1>27 DEF PodGone
  <1>28. ASSUME NEW n \in Names, Evict(n) PROVE KeptInv'
    BY <1>28 DEF Evict, Fault
  <1>29. CASE UNCHANGED vars
    BY <1>29 DEF vars
  <1> QED BY <1>1, <1>2, <1>3, <1>4, <1>5, <1>6, <1>7, <1>8, <1>9, <1>10, <1>11, <1>12, <1>13, <1>14, <1>15, <1>16, <1>17, <1>18, <1>19, <1>20, <1>21, <1>22, <1>23, <1>24, <1>25, <1>26, <1>27, <1>28, <1>29 DEF Next, OpStep, Watch

\* Every variable has its type (TypeOK).
THEOREM TypeCorrect == Spec => []TypeOK
  <1>1. Init => TypeOK
    <2> SUFFICES ASSUME Init PROVE TypeOK
      OBVIOUS
    <2>1. Nobody \in Owned /\ NoFwds \in [Names -> FwdStates]
      BY DEF Nobody, NoFwds, Owned, FwdStates
    <2>2. es \in [ESs -> ESStates]
      BY DEF Init, ESStates
    <2>3. gwExists \in BOOLEAN /\ trusted \in BOOLEAN
      BY Zenon DEF Init
    <2>4. faults \in 0..MaxFaults
      BY BoundsAssumption DEF Init
    <2>5. /\ gw \subseteq Names /\ terminating \subseteq Names /\ list \subseteq Names
          /\ queue \subseteq ESs /\ at \in Ats /\ cur \in ESs
          /\ gwCache \in {"absent", "old", "current"}
      BY DEF Init, Ats
    <2>6. /\ pods \in Owned /\ podCache \in Owned /\ svcs \in Owned /\ svcCache \in Owned
          /\ fwds \in [Names -> FwdStates] /\ fwdCache \in [Names -> FwdStates]
          /\ esCache \in [ESs -> ESStates]
      BY <2>1, <2>2, Zenon DEF Init
    <2> QED BY <2>2, <2>3, <2>4, <2>5, <2>6, Zenon DEF TypeOK
  <1> QED BY <1>1, TypeStep, PTL DEF Spec

\* Initially, nothing is there.
LEMMA InitInv == Init => CleanupInv /\ RequestInv
  BY NamesAssumption
  DEF Init, Nobody, NoFwds, CleanupInv, Cleanup, RequestInv, OwnersInv, CacheInv, AtHandInv,
      DoneInv, KeptInv, Name

\* What a cleanup has cleared stays cleared while it runs (CleanupInv).
THEOREM CleanupInvariance == Spec => []CleanupInv
  <1>1. TypeOK /\ CleanupInv /\ [Next]_vars => CleanupInv'
    BY CleanupStep
  <1> QED BY <1>1, InitInv, TypeCorrect, PTL DEF Spec

\* The inductive invariant (IInv) holds.
THEOREM Invariance ==
    ASSUME DistinctNames
    PROVE  Spec => []IInv
  <1>1. TypeOK /\ RequestInv /\ [Next]_vars => RequestInv'
    BY OwnersStep, CacheStep, AtHandStep, DoneStep, KeptStep DEF RequestInv
  <1>2. Spec => []RequestInv
    BY <1>1, InitInv, TypeCorrect, PTL DEF Spec
  <1> QED BY <1>2, TypeCorrect, CleanupInvariance, PTL DEF IInv

\* No ExternalService that is unfinished is forgotten (NoLostRequest).
THEOREM RequestsAreNotLost ==
    ASSUME DistinctNames
    PROVE  Spec => []NoLostRequest
  <1>1. IInv => NoLostRequest
    BY NamesAssumption
    DEF IInv, RequestInv, KeptInv, HasService, NoLostRequest, Coming, Served
  <1> QED BY <1>1, Invariance, PTL

\* A cleanup that read current copies and whose Deletes were done leaves nothing
\* behind when it clears the finalizer (ClearedIsGone).
THEOREM CleanupIsComplete == Spec => ClearedIsGone
  <1>1. CleanupInv /\ [Next]_vars => [at = "clear" /\ es'[cur] # es[cur] /\ trusted => AllGone(Name)]_vars
    BY DEF CleanupInv, Cleanup, AllGone
  <1> QED BY <1>1, CleanupInvariance, PTL DEF Spec, ClearedIsGone

\* What a step takes away that is no fault, it takes in the cleanup of the
\* ExternalService at hand, under the name of that one.
LEMMA OnlyCleanupTakes ==
    ASSUME TypeOK, [Next]_vars, faults' = faults, NEW n \in Names,
           \/ svcs[n] # NoES /\ svcs'[n] = NoES
           \/ fwds[n] # "absent" /\ fwds'[n] = "absent"
           \/ n \in terminating' /\ n \notin terminating
    PROVE  at \in Cleanup /\ n = Name
  <1> USE DEF TypeOK, Owned, Name, Cleanup, serverVars, cacheVars, opVars
  <1> USE NamesAssumption, BoundsAssumption
  <1>1. CASE \E e \in ESs : Take(e) \/ CacheES(e) \/ Resync(e) \/ Create(e) \/ Delete(e)
    BY <1>1 DEF Take, CacheES, Resync, Create, Delete
  <1>2. CASE AddFinalizer \/ EnsurePod \/ EnsureService
    BY <1>2 DEF AddFinalizer, EnsurePod, EnsureService
  <1>3. CASE EnsureForwarder \/ WriteRules
    BY <1>3 DEF EnsureForwarder, WriteRules
  <1>4. CASE GetForwarder \/ UpdateGateway \/ GatewayConflict
    BY <1>4 DEF GetForwarder, UpdateGateway, GatewayConflict
  <1>5. CASE DeletePod \/ DeleteService \/ DeleteForwarder
    BY <1>5 DEF DeletePod, DeleteService, DeleteForwarder, Deleted
  <1>6. CASE ListForwarders \/ CleanGateways \/ ClearFinalizer
    BY <1>6 DEF ListForwarders, CleanGateways, ClearFinalizer
  <1>7. ~Fault
    BY DEF Fault
  <1>8. CASE \E m \in Names : CachePod(m) \/ CacheService(m) \/ CacheForwarder(m) \/ PodGone(m)
    BY <1>8 DEF CachePod, CacheService, CacheForwarder, PodGone
  <1>9. CASE CacheGateway \/ UNCHANGED vars
    BY <1>9 DEF CacheGateway, vars
  <1> HIDE DEF TypeOK, Owned, Name, Cleanup, serverVars, cacheVars, opVars
  <1> QED
    BY <1>1, <1>2, <1>3, <1>4, <1>5, <1>6, <1>7, <1>8, <1>9
    DEF Next, OpStep, Watch, DeleteFails, Fail, Restart, Evict

\* No cleanup takes from an ExternalService that lives (CleanupSparesLiving).
THEOREM CleanupSparesTheLiving ==
    ASSUME DistinctNames
    PROVE  Spec => CleanupSparesLiving
  <1> DEFINE Spares(e) ==
               /\ svcs[NameOf[e]] # NoES => svcs'[NameOf[e]] # NoES
               /\ fwds[NameOf[e]] # "absent" => fwds'[NameOf[e]] # "absent"
               /\ NameOf[e] \in terminating' => NameOf[e] \in terminating
  <1>1. ASSUME IInv, [Next]_vars, NEW e \in ESs, es[e] = "ready", faults' = faults
        PROVE  Spares(e)
    <2> SUFFICES ASSUME ~Spares(e) PROVE FALSE
      OBVIOUS
    <2>1. NameOf[e] \in Names /\ TypeOK
      BY <1>1, NamesAssumption DEF IInv
    <2>2. at \in Cleanup /\ NameOf[e] = Name
      BY <1>1, <2>1, OnlyCleanupTakes
    <2>3. cur = e
      BY <2>1, <2>2 DEF DistinctNames, Name, TypeOK
    <2>4. at \in Cleanup => es[cur] # "ready"
      BY <1>1 DEF IInv, RequestInv, AtHandInv
    <2> QED BY <1>1, <2>2, <2>3, <2>4
  <1>2. IInv /\ [Next]_vars
          => [\A e \in ESs : es[e] = "ready" /\ faults' = faults => Spares(e)]_vars
    BY <1>1
  <1>3. Spec => []IInv
    BY Invariance
  <1> QED BY <1>2, <1>3, PTL DEF Spec, CleanupSparesLiving
=============================================================================
