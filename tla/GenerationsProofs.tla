--------------------------- MODULE GenerationsProofs ---------------------------
(***************************************************************************)
(* Safety of Generations for any finite set of requests and any number of  *)
(* configurations.                                                         *)
(*                                                                         *)
(* The argument: a runtime that closes belongs to a retired generation     *)
(* nobody holds (QuietRuntime), and its discovery has been cancelled and   *)
(* awaited.  Nothing can start on it again: requests need a lease, and     *)
(* everything else works on the current generation, which retires only in  *)
(* close(), when no operation is under the replace lock and the manager    *)
(* refuses new ones (CurrentServes); the one refresh that may still wait   *)
(* for the lock runs before the first cleanup (RefreshIsEarly).            *)
(***************************************************************************)
EXTENDS Generations, FiniteSetTheorems, TLAPS

Holders(g) == {r \in Requests : pc[r] # "idle" /\ lease[r] = g}

LeasesCounted == \A g \in Generations : leases[g] = Cardinality(Holders(g))

\* Generations still to come have nothing.
FutureIsFresh == \A g \in Generations : g > current =>
    /\ leases[g] = 0 /\ ~retired[g] /\ ~closed[g] /\ ~runtimeClosing[g]
    /\ discovery[g] = "none" /\ ~cancelling[g]
    /\ client[g] = "absent" /\ cleanup[g] = "none"

LeasesArePublished == \A r \in Requests : pc[r] # "idle" => lease[r] <= current

CurrentServes ==
    /\ retired[current] => closing /\ lock = "free"
    /\ \A g \in Generations : g < current => retired[g]

CloserIsAlone ==
    /\ closer # "uncalled" => closing
    /\ closer \in {"cancelling", "draining", "closing", "raised", "closed"} => retired[current]
    /\ closer = "closed" => AllClosed
    /\ lock = "committing" => current < MaxGenerations

RefreshIsEarly ==
    refreshWaits => /\ closer \in {"uncalled", "locking", "cancelling"}
                    /\ cleanup[current] = "none" /\ ~runtimeClosing[current]

\* A cleanup is of a retired generation nobody holds.
CleanupIsDue == \A g \in Generations :
    cleanup[g] # "none" => retired[g] /\ leases[g] = 0 /\ ~closed[g]

\* It has cancelled what it waits for.
CleanupCancels == \A g \in Generations :
    cleanup[g] = "cancelling" /\ Running(g) => cancelling[g]

QuietRuntime == \A g \in Generations :
    /\ cleanup[g] \in {"draining", "closing"} \/ closed[g] => runtimeClosing[g]
    /\ runtimeClosing[g] => retired[g] /\ leases[g] = 0 /\ ~Running(g)

ClientMatchesCleanup == \A g \in Generations :
    /\ cleanup[g] = "draining" => client[g] = "creating"
    /\ cleanup[g] = "closing" => client[g] = "open"
    /\ closed[g] => client[g] \in {"absent", "closed"}
    /\ client[g] = "closed" => closed[g]

UsersHaveClient ==
    /\ \A r \in Requests : pc[r] = "using" => client[lease[r]] = "open"
    /\ \A g \in Generations : discovery[g] = "listing" => client[g] = "open"
    /\ popped = "listing" => client[current] = "open"
    /\ popped # "none" => lock = "connecting"

IInv ==
    /\ TypeOK
    /\ LeasesCounted
    /\ FutureIsFresh
    /\ LeasesArePublished
    /\ CurrentServes
    /\ CloserIsAlone
    /\ RefreshIsEarly
    /\ CleanupIsDue
    /\ CleanupCancels
    /\ QuietRuntime
    /\ ClientMatchesCleanup
    /\ UsersHaveClient
    /\ RetiredIsNotForgotten

USE DEF generationVars, workVars, clientVars, managerVars, requestVars

-----------------------------------------------------------------------------
(* Counting leases.                                                       *)

LEMMA HolderIsCounted ==
  ASSUME IInv, NEW r \in Requests, pc[r] # "idle"
  PROVE  leases[lease[r]] # 0
<1>1. lease[r] \in Generations /\ r \in Holders(lease[r])
  BY DEF IInv, TypeOK, Holders
<1>2. IsFiniteSet(Holders(lease[r]))
  BY BoundsAssumption, FS_Subset DEF Holders
<1>3. Cardinality(Holders(lease[r])) # 0
  BY <1>1, <1>2, FS_EmptySet
<1> QED
  BY <1>1, <1>3 DEF IInv, LeasesCounted

(* No generation gets more leases than there are requests.                *)
LEMMA LeasesAreBounded ==
  ASSUME LeasesCounted', leases' = [g \in Generations |-> leases'[g]]
  PROVE  leases' \in [Generations -> 0..Cardinality(Requests)]
<1>1. ASSUME NEW g \in Generations
      PROVE  leases'[g] \in 0..Cardinality(Requests)
  <2>1. /\ Cardinality(Holders(g)') <= Cardinality(Requests)
        /\ Cardinality(Holders(g)') \in Nat /\ Cardinality(Requests) \in Nat
    BY BoundsAssumption, FS_Subset, FS_CardinalityType DEF Holders
  <2>2. leases'[g] = Cardinality(Holders(g)')
    BY DEF LeasesCounted
  <2> QED
    BY <2>1, <2>2
<1> QED
  BY <1>1

(* A step that starts and ends no lease keeps their number.               *)
LEMMA HoldersKept ==
  ASSUME IInv, UNCHANGED <<leases, lease>>,
         \A r \in Requests : pc'[r] = "idle" <=> pc[r] = "idle"
  PROVE  LeasesCounted'
<1>1. \A g \in Generations : Holders(g)' = Holders(g)
  BY DEF Holders
<1> QED
  BY <1>1 DEF IInv, LeasesCounted

(* A new lease is one more holder of its generation.                      *)
LEMMA HolderAdded ==
  ASSUME IInv, NEW r \in Requests, pc[r] = "idle", NEW place, place # "idle",
         pc' = [pc EXCEPT ![r] = place],
         lease' = [lease EXCEPT ![r] = current],
         leases' = [leases EXCEPT ![current] = @ + 1]
  PROVE  LeasesCounted'
<1> USE DEF IInv
<1> SUFFICES ASSUME NEW g \in Generations
             PROVE  leases'[g] = Cardinality(Holders(g)')
  BY DEF LeasesCounted
<1>1. IsFiniteSet(Holders(g)) /\ r \notin Holders(g)
  BY BoundsAssumption, FS_Subset DEF Holders
<1>2. CASE g = current
  <2>1. Holders(g)' = Holders(g) \cup {r}
    BY <1>2 DEF Holders, TypeOK
  <2>2. Cardinality(Holders(g)') = Cardinality(Holders(g)) + 1
    BY <1>1, <2>1, FS_AddElement
  <2> QED
    BY <1>2, <2>2 DEF LeasesCounted, TypeOK
<1>3. CASE g # current
  <2>1. Holders(g)' = Holders(g)
    BY <1>3 DEF Holders, TypeOK
  <2> QED
    BY <1>3, <2>1 DEF LeasesCounted
<1> QED
  BY <1>2, <1>3

(* A released lease is one holder less.                                   *)
LEMMA HolderRemoved ==
  ASSUME IInv, NEW r \in Requests, pc[r] # "idle",
         pc' = [pc EXCEPT ![r] = "idle"], lease' = lease,
         leases' = [leases EXCEPT ![lease[r]] = @ - 1]
  PROVE  LeasesCounted'
<1> USE DEF IInv
<1> SUFFICES ASSUME NEW g \in Generations
             PROVE  leases'[g] = Cardinality(Holders(g)')
  BY DEF LeasesCounted
<1>1. IsFiniteSet(Holders(g)) /\ lease[r] \in Generations
  BY BoundsAssumption, FS_Subset DEF Holders, TypeOK
<1>2. CASE g = lease[r]
  <2>1. r \in Holders(g) /\ Holders(g)' = Holders(g) \ {r}
    BY <1>2 DEF Holders, TypeOK
  <2>2. Cardinality(Holders(g)') = Cardinality(Holders(g)) - 1
    BY <1>1, <2>1, FS_RemoveElement
  <2> QED
    BY <1>1, <1>2, <2>2 DEF LeasesCounted, TypeOK
<1>3. CASE g # lease[r]
  <2>1. Holders(g)' = Holders(g)
    BY <1>3 DEF Holders
  <2> QED
    BY <1>1, <1>3, <2>1 DEF LeasesCounted
<1> QED
  BY <1>2, <1>3

-----------------------------------------------------------------------------
LEMMA Initially ==
  ASSUME Init
  PROVE  IInv
<1> USE BoundsAssumption DEF Init
<1>1. 1 \in Generations /\ Cardinality(Requests) \in Nat
  BY FS_CardinalityType DEF Generations
<1>2. TypeOK
  <2>1. leases \in [Generations -> 0..Cardinality(Requests)]
    BY <1>1
  <2>2. /\ discovery \in [Generations -> Stages] /\ cleanup \in [Generations -> CleanupStages]
        /\ client \in [Generations -> {"absent", "creating", "open", "closed"}]
        /\ pc \in [Requests -> RequestPlaces] /\ lease \in [Requests -> Generations]
    BY <1>1 DEF Stages, CleanupStages, RequestPlaces
  <2>3. /\ current \in Generations /\ closer \in CloserPlaces
        /\ lock \in {"free", "committing", "retiring", "connecting"}
        /\ popped \in {"none"} \cup RunningStages
        /\ refreshWaits \in BOOLEAN /\ closing \in BOOLEAN
    BY <1>1 DEF CloserPlaces
  <2>4. /\ retired \in [Generations -> BOOLEAN] /\ closed \in [Generations -> BOOLEAN]
        /\ initialized \in [Generations -> BOOLEAN] /\ cancelling \in [Generations -> BOOLEAN]
        /\ runtimeClosing \in [Generations -> BOOLEAN] /\ failed \in [Generations -> BOOLEAN]
    OBVIOUS
  <2> QED
    BY <2>1, <2>2, <2>3, <2>4 DEF TypeOK
<1>3. LeasesCounted
  <2>1. \A g \in Generations : Holders(g) = {}
    BY DEF Holders
  <2> QED
    BY <2>1, FS_EmptySet DEF LeasesCounted
<1>4. FutureIsFresh /\ LeasesArePublished /\ RetiredIsNotForgotten
  BY DEF FutureIsFresh, LeasesArePublished, RetiredIsNotForgotten
<1>5. CurrentServes /\ CloserIsAlone /\ RefreshIsEarly
  BY <1>1 DEF CurrentServes, CloserIsAlone, RefreshIsEarly, Generations
<1>6. CleanupIsDue /\ CleanupCancels /\ QuietRuntime
  BY DEF CleanupIsDue, CleanupCancels, QuietRuntime
<1>7. ClientMatchesCleanup /\ UsersHaveClient
  BY DEF ClientMatchesCleanup, UsersHaveClient
<1> QED
  BY <1>2, <1>3, <1>4, <1>5, <1>6, <1>7 DEF IInv

-----------------------------------------------------------------------------
(* Every action keeps the invariant.                                      *)
LEMMA StepAcquire ==
  ASSUME IInv, NEW r \in Requests, Acquire(r)
  PROVE  IInv'
<1> USE BoundsAssumption DEF IInv
<1>1. /\ FutureIsFresh' /\ LeasesArePublished' /\ CurrentServes' /\ CloserIsAlone'
      /\ RefreshIsEarly' /\ ClientMatchesCleanup' /\ UsersHaveClient'
      /\ RetiredIsNotForgotten'
  BY DEF Acquire, TypeOK, FutureIsFresh, LeasesArePublished, CurrentServes, CloserIsAlone,
     RefreshIsEarly, ClientMatchesCleanup, UsersHaveClient, RetiredIsNotForgotten,
     Generations
<1>2. TypeOK'
  <2>1. LeasesCounted'
    BY HolderAdded DEF Acquire
  <2>2. leases' = [g \in Generations |-> leases'[g]]
    BY DEF TypeOK, Acquire
  <2>3. leases' \in [Generations -> 0..Cardinality(Requests)]
    BY <2>1, <2>2, LeasesAreBounded
  <2> QED
    BY <2>3 DEF TypeOK, Acquire, RequestPlaces
<1>3. LeasesCounted'
  BY HolderAdded DEF Acquire
<1>4. CleanupIsDue'
  BY DEF Acquire, CleanupIsDue, CurrentServes
<1>5. CleanupCancels'
  BY DEF Acquire, CleanupCancels, Running
<1>6. QuietRuntime'
  BY DEF Acquire, QuietRuntime, CurrentServes, Running
<1> QED
  BY <1>1, <1>2, <1>3, <1>4, <1>5, <1>6

LEMMA StepRefreshProvider ==
  ASSUME IInv, NEW r \in Requests, RefreshProvider(r)
  PROVE  IInv'
<1> USE BoundsAssumption DEF IInv
<1>1. /\ LeasesArePublished' /\ CurrentServes' /\ CloserIsAlone' /\ RefreshIsEarly'
      /\ ClientMatchesCleanup' /\ RetiredIsNotForgotten'
  BY DEF RefreshProvider, TypeOK, LeasesArePublished, CurrentServes, CloserIsAlone,
     RefreshIsEarly, ClientMatchesCleanup, RetiredIsNotForgotten, Generations
<1>2. TypeOK'
  <2>1. LeasesCounted'
    BY HolderAdded DEF RefreshProvider
  <2>2. leases' = [g \in Generations |-> leases'[g]]
    BY DEF TypeOK, RefreshProvider
  <2>3. leases' \in [Generations -> 0..Cardinality(Requests)]
    BY <2>1, <2>2, LeasesAreBounded
  <2> QED
    BY <2>3 DEF TypeOK, RefreshProvider, WithTask, Stages, RunningStages, RequestPlaces
<1>3. LeasesCounted'
  BY HolderAdded DEF RefreshProvider
<1>4. FutureIsFresh'
  BY DEF RefreshProvider, FutureIsFresh, WithTask, Generations
<1>5. CleanupIsDue'
  BY DEF RefreshProvider, CleanupIsDue, CurrentServes
<1>6. CleanupCancels'
  BY DEF RefreshProvider, CleanupCancels, CleanupIsDue, CurrentServes, Running, WithTask
<1>7. QuietRuntime'
  BY DEF RefreshProvider, QuietRuntime, CurrentServes, Running, WithTask
<1>8. UsersHaveClient'
  BY DEF RefreshProvider, UsersHaveClient, WithTask
<1> QED
  BY <1>1, <1>2, <1>3, <1>4, <1>5, <1>6, <1>7, <1>8

LEMMA StepResolve ==
  ASSUME IInv, NEW r \in Requests, Resolve(r)
  PROVE  IInv'
<1> USE BoundsAssumption DEF IInv
<1>a. lease[r] \in Generations /\ leases[lease[r]] # 0
  BY HolderIsCounted DEF Resolve, TypeOK
<1>1. /\ LeasesArePublished' /\ CurrentServes' /\ CloserIsAlone' /\ RefreshIsEarly'
      /\ CleanupIsDue' /\ RetiredIsNotForgotten'
  BY DEF Resolve, TypeOK, LeasesArePublished, CurrentServes, CloserIsAlone, RefreshIsEarly,
     CleanupIsDue, RetiredIsNotForgotten
<1>2. TypeOK'
  BY DEF Resolve, TypeOK, WithTask, ClientAfterResolve, PlaceAfterResolve, Published,
     RunningStages, Stages, RequestPlaces
<1>3. LeasesCounted'
  BY HoldersKept DEF Resolve, PlaceAfterResolve, TypeOK
<1>4. FutureIsFresh'
  BY <1>a DEF Resolve, TypeOK, FutureIsFresh, WithTask, ClientAfterResolve
<1>5. CleanupCancels'
  BY <1>a DEF Resolve, TypeOK, CleanupCancels, CleanupIsDue, Running, WithTask
<1>6. QuietRuntime'
  BY <1>a DEF Resolve, TypeOK, QuietRuntime, Running, WithTask
<1>7. ClientMatchesCleanup'
  <2>1. cleanup[lease[r]] = "none" /\ ~closed[lease[r]]
    BY <1>a DEF CleanupIsDue, QuietRuntime
  <2>2. \A g \in Generations : client'[g] = client[g] \/ (g = lease[r] /\ client'[g] = "creating")
    BY <1>a DEF TypeOK, Resolve, ClientAfterResolve
  <2> QED
    BY <2>1, <2>2 DEF ClientMatchesCleanup, Resolve
<1>8. UsersHaveClient'
  <2>1. \A g \in Generations : client[g] = "open" => client'[g] = "open"
    BY <1>a DEF TypeOK, Resolve, ClientAfterResolve
  <2>2. pc'[r] = "using" => client[lease[r]] = "open"
    BY <1>a DEF TypeOK, Resolve, PlaceAfterResolve
  <2>3. \A q \in Requests : q # r => pc'[q] = pc[q]
    BY DEF TypeOK, Resolve
  <2>4. \A g \in Generations : discovery'[g] = "listing" => discovery[g] = "listing"
    BY <1>a DEF TypeOK, Resolve, WithTask
  <2> QED
    BY <2>1, <2>2, <2>3, <2>4 DEF UsersHaveClient, TypeOK, Resolve
<1> QED
  BY <1>1, <1>2, <1>3, <1>4, <1>5, <1>6, <1>7, <1>8

LEMMA StepDiscovered ==
  ASSUME IInv, NEW r \in Requests, Discovered(r)
  PROVE  IInv'
<1> USE BoundsAssumption DEF IInv
<1>a. lease[r] \in Generations /\ leases[lease[r]] # 0
  BY HolderIsCounted DEF Discovered, TypeOK
<1>1. /\ LeasesArePublished' /\ CurrentServes' /\ RefreshIsEarly' /\ CleanupIsDue'
      /\ RetiredIsNotForgotten'
  BY DEF Discovered, TypeOK, LeasesArePublished, CurrentServes, RefreshIsEarly,
     CleanupIsDue, RetiredIsNotForgotten
<1>2. TypeOK'
  BY DEF Discovered, TypeOK, ClientAfterResolve, PlaceAfterResolve, Published, RequestPlaces
<1>3. LeasesCounted'
  BY HoldersKept DEF Discovered, PlaceAfterResolve, TypeOK
<1>4. FutureIsFresh'
  BY <1>a DEF Discovered, TypeOK, FutureIsFresh, ClientAfterResolve
<1>5. CloserIsAlone'
  BY DEF Discovered, CloserIsAlone, Published, AllClosed
<1>6. CleanupCancels'
  BY DEF Discovered, CleanupCancels, Running
<1>7. QuietRuntime'
  BY DEF Discovered, QuietRuntime, Running
<1>8. ClientMatchesCleanup'
  <2>1. cleanup[lease[r]] = "none" /\ ~closed[lease[r]]
    BY <1>a DEF CleanupIsDue, QuietRuntime
  <2>2. \A g \in Generations : client'[g] = client[g] \/ (g = lease[r] /\ client'[g] = "creating")
    BY <1>a DEF TypeOK, Discovered, ClientAfterResolve
  <2> QED
    BY <2>1, <2>2 DEF ClientMatchesCleanup, Discovered
<1>9. UsersHaveClient'
  <2>1. \A g \in Generations : client[g] = "open" => client'[g] = "open"
    BY <1>a DEF TypeOK, Discovered, ClientAfterResolve
  <2>2. pc'[r] = "using" => client[lease[r]] = "open"
    BY <1>a DEF TypeOK, Discovered, PlaceAfterResolve
  <2>3. \A q \in Requests : q # r => pc'[q] = pc[q]
    BY DEF TypeOK, Discovered
  <2>4. \A g \in Generations : discovery'[g] = "listing" => discovery[g] = "listing"
    BY <1>a DEF Discovered
  <2> QED
    BY <2>1, <2>2, <2>3, <2>4 DEF UsersHaveClient, TypeOK, Discovered
<1> QED
  BY <1>1, <1>2, <1>3, <1>4, <1>5, <1>6, <1>7, <1>8, <1>9

LEMMA StepCreated ==
  ASSUME IInv, NEW r \in Requests, Created(r)
  PROVE  IInv'
<1> USE BoundsAssumption DEF IInv
<1>a. lease[r] \in Generations /\ leases[lease[r]] # 0
  BY HolderIsCounted DEF Created, TypeOK
<1>1. /\ FutureIsFresh' /\ LeasesArePublished' /\ CurrentServes' /\ RefreshIsEarly'
      /\ CleanupIsDue' /\ ClientMatchesCleanup' /\ UsersHaveClient'
      /\ RetiredIsNotForgotten'
  BY DEF Created, FutureIsFresh, LeasesArePublished, CurrentServes, RefreshIsEarly,
     CleanupIsDue, ClientMatchesCleanup, UsersHaveClient, RetiredIsNotForgotten
<1>2. TypeOK'
  BY DEF Created, TypeOK, RequestPlaces
<1>3. LeasesCounted'
  BY HoldersKept DEF Created
<1>4. CloserIsAlone'
  BY DEF Created, CloserIsAlone, Published, AllClosed
<1>5. CleanupCancels'
  BY DEF Created, CleanupCancels, Running
<1>6. QuietRuntime'
  BY DEF Created, QuietRuntime, Running
<1> QED
  BY <1>1, <1>2, <1>3, <1>4, <1>5, <1>6

LEMMA StepRelease ==
  ASSUME IInv, NEW r \in Requests, Release(r)
  PROVE  IInv'
<1> USE BoundsAssumption DEF IInv
<1>a. lease[r] \in Generations /\ leases[lease[r]] # 0
  BY HolderIsCounted DEF Release, TypeOK
<1>1. LeasesArePublished' /\ CurrentServes' /\ UsersHaveClient'
  BY DEF Release, LeasesArePublished, CurrentServes, UsersHaveClient
<1>2. TypeOK'
  <2>1. LeasesCounted'
    BY HolderRemoved DEF Release
  <2>2. leases' = [g \in Generations |-> leases'[g]]
    BY DEF TypeOK, Release
  <2>3. leases' \in [Generations -> 0..Cardinality(Requests)]
    BY <2>1, <2>2, LeasesAreBounded
  <2> QED
    BY <2>3 DEF TypeOK, Release, CloseGenerations, CleanupStages, RequestPlaces
<1>3. LeasesCounted'
  BY HolderRemoved DEF Release
<1>4. FutureIsFresh'
  BY <1>a DEF Release, FutureIsFresh, CloseGenerations
<1>5. CloserIsAlone'
  BY DEF Release, CloserIsAlone, Published, AllClosed
<1>6. RefreshIsEarly'
  BY DEF Release, TypeOK, RefreshIsEarly, CurrentServes, CloseGenerations
<1>7. CleanupIsDue'
  BY <1>a DEF Release, CleanupIsDue, CloseGenerations
<1>8. CleanupCancels'
  BY DEF Release, CleanupCancels, Running, CloseGenerations
<1>9. QuietRuntime'
  BY <1>a DEF Release, QuietRuntime, Running, CloseGenerations
<1>10. ClientMatchesCleanup'
  BY DEF Release, ClientMatchesCleanup, CloseGenerations
<1>11. RetiredIsNotForgotten'
  BY DEF Release, RetiredIsNotForgotten, CloseGenerations
<1> QED
  BY <1>1, <1>2, <1>3, <1>4, <1>5, <1>6, <1>7, <1>8, <1>9, <1>10, <1>11

LEMMA StepDiscover ==
  ASSUME IInv, NEW g \in Generations, Discover(g)
  PROVE  IInv'
<1> USE BoundsAssumption DEF IInv
<1>1. /\ LeasesArePublished' /\ CurrentServes' /\ RefreshIsEarly' /\ CleanupIsDue'
      /\ RetiredIsNotForgotten'
  BY DEF Discover, LeasesArePublished, CurrentServes, RefreshIsEarly, CleanupIsDue,
     RetiredIsNotForgotten
<1>2. TypeOK'
  BY DEF Discover, TypeOK, ClientAfterResolve, RunningStages, Stages
<1>3. LeasesCounted'
  BY HoldersKept DEF Discover
<1>4. FutureIsFresh'
  BY DEF Discover, TypeOK, FutureIsFresh, ClientAfterResolve
<1>5. CloserIsAlone'
  BY DEF Discover, CloserIsAlone, Published, AllClosed
<1>6. CleanupCancels'
  BY DEF Discover, TypeOK, CleanupCancels, Running, Stages
<1>7. QuietRuntime'
  BY DEF Discover, TypeOK, QuietRuntime, Running, Stages
<1>8. ClientMatchesCleanup'
  BY DEF Discover, ClientMatchesCleanup, QuietRuntime, ClientAfterResolve
<1>9. UsersHaveClient'
  BY DEF Discover, TypeOK, UsersHaveClient, ClientAfterResolve
<1> QED
  BY <1>1, <1>2, <1>3, <1>4, <1>5, <1>6, <1>7, <1>8, <1>9

LEMMA StepStartListing ==
  ASSUME IInv, NEW g \in Generations, StartListing(g)
  PROVE  IInv'
<1> USE BoundsAssumption DEF IInv
<1>1. /\ FutureIsFresh' /\ LeasesArePublished' /\ CurrentServes' /\ RefreshIsEarly'
      /\ CleanupIsDue' /\ ClientMatchesCleanup' /\ UsersHaveClient'
      /\ RetiredIsNotForgotten'
  BY DEF StartListing, FutureIsFresh, LeasesArePublished, CurrentServes, RefreshIsEarly,
     CleanupIsDue, ClientMatchesCleanup, UsersHaveClient, RetiredIsNotForgotten
<1>2. TypeOK'
  BY DEF StartListing, TypeOK, RunningStages, Stages
<1>3. LeasesCounted'
  BY HoldersKept DEF StartListing
<1>4. CloserIsAlone'
  BY DEF StartListing, CloserIsAlone, Published, AllClosed
<1>5. CleanupCancels'
  BY DEF StartListing, TypeOK, CleanupCancels, Running, Stages
<1>6. QuietRuntime'
  BY DEF StartListing, TypeOK, QuietRuntime, Running, Stages
<1> QED
  BY <1>1, <1>2, <1>3, <1>4, <1>5, <1>6

LEMMA StepFinishListing ==
  ASSUME IInv, NEW g \in Generations, FinishListing(g)
  PROVE  IInv'
<1> USE BoundsAssumption DEF IInv
<1>1. /\ FutureIsFresh' /\ LeasesArePublished' /\ CurrentServes' /\ RefreshIsEarly'
      /\ CleanupIsDue' /\ ClientMatchesCleanup' /\ UsersHaveClient'
      /\ RetiredIsNotForgotten'
  BY DEF FinishListing, FutureIsFresh, LeasesArePublished, CurrentServes, RefreshIsEarly,
     CleanupIsDue, ClientMatchesCleanup, UsersHaveClient, RetiredIsNotForgotten
<1>2. TypeOK'
  BY DEF FinishListing, TypeOK, Stages
<1>3. LeasesCounted'
  BY HoldersKept DEF FinishListing
<1>4. CloserIsAlone'
  BY DEF FinishListing, CloserIsAlone, Published, AllClosed
<1>5. CleanupCancels'
  BY DEF FinishListing, TypeOK, CleanupCancels, Running, Stages
<1>6. QuietRuntime'
  BY DEF FinishListing, TypeOK, QuietRuntime, Running, Stages
<1> QED
  BY <1>1, <1>2, <1>3, <1>4, <1>5, <1>6

LEMMA StepUnwind ==
  ASSUME IInv, NEW g \in Generations, Unwind(g)
  PROVE  IInv'
<1> USE BoundsAssumption DEF IInv
<1>1. /\ FutureIsFresh' /\ LeasesArePublished' /\ CurrentServes' /\ RefreshIsEarly'
      /\ CleanupIsDue' /\ ClientMatchesCleanup' /\ UsersHaveClient'
      /\ RetiredIsNotForgotten'
  BY DEF Unwind, FutureIsFresh, LeasesArePublished, CurrentServes, RefreshIsEarly,
     CleanupIsDue, ClientMatchesCleanup, UsersHaveClient, RetiredIsNotForgotten
<1>2. TypeOK'
  BY DEF Unwind, TypeOK, Stages
<1>3. LeasesCounted'
  BY HoldersKept DEF Unwind
<1>4. CloserIsAlone'
  BY DEF Unwind, CloserIsAlone, Published, AllClosed
<1>5. CleanupCancels'
  BY DEF Unwind, TypeOK, CleanupCancels, Running, RunningStages
<1>6. QuietRuntime'
  BY DEF Unwind, QuietRuntime, Running
<1> QED
  BY <1>1, <1>2, <1>3, <1>4, <1>5, <1>6

LEMMA StepConstruct ==
  ASSUME IInv, NEW g \in Generations, Construct(g)
  PROVE  IInv'
<1> USE BoundsAssumption DEF IInv
<1>1. /\ TypeOK' /\ FutureIsFresh' /\ LeasesArePublished' /\ CurrentServes'
      /\ RefreshIsEarly' /\ CleanupIsDue' /\ ClientMatchesCleanup' /\ UsersHaveClient'
      /\ RetiredIsNotForgotten'
  BY DEF Construct, TypeOK, FutureIsFresh, LeasesArePublished, CurrentServes,
     RefreshIsEarly, CleanupIsDue, ClientMatchesCleanup, UsersHaveClient,
     RetiredIsNotForgotten
<1>2. LeasesCounted'
  BY HoldersKept DEF Construct
<1>3. CloserIsAlone'
  BY DEF Construct, CloserIsAlone, Published, AllClosed
<1>4. CleanupCancels'
  BY DEF Construct, CleanupCancels, Running
<1>5. QuietRuntime'
  BY DEF Construct, QuietRuntime, Running
<1> QED
  BY <1>1, <1>2, <1>3, <1>4, <1>5

LEMMA StepFailConstruct ==
  ASSUME IInv, NEW g \in Generations, FailConstruct(g)
  PROVE  IInv'
<1> USE BoundsAssumption DEF IInv
<1>1. /\ FutureIsFresh' /\ LeasesArePublished' /\ CurrentServes' /\ RefreshIsEarly'
      /\ CleanupIsDue' /\ ClientMatchesCleanup' /\ UsersHaveClient'
      /\ RetiredIsNotForgotten'
  BY DEF FailConstruct, TypeOK, FutureIsFresh, LeasesArePublished, CurrentServes,
     RefreshIsEarly, CleanupIsDue, ClientMatchesCleanup, UsersHaveClient,
     RetiredIsNotForgotten
<1>2. TypeOK'
  BY DEF FailConstruct, TypeOK, Stages, RequestPlaces
<1>3. LeasesCounted'
  BY HoldersKept DEF FailConstruct
<1>4. CloserIsAlone'
  BY DEF FailConstruct, CloserIsAlone, Published, AllClosed
<1>5. CleanupCancels'
  BY DEF FailConstruct, TypeOK, CleanupCancels, Running, Stages
<1>6. QuietRuntime'
  BY DEF FailConstruct, TypeOK, QuietRuntime, Running, Stages
<1> QED
  BY <1>1, <1>2, <1>3, <1>4, <1>5, <1>6

LEMMA StepStartCleanup ==
  ASSUME IInv, NEW g \in Generations, StartCleanup(g)
  PROVE  IInv'
<1> USE BoundsAssumption DEF IInv
<1>1. /\ LeasesArePublished' /\ CurrentServes' /\ RefreshIsEarly' /\ CleanupIsDue'
      /\ ClientMatchesCleanup' /\ UsersHaveClient' /\ RetiredIsNotForgotten'
  BY DEF StartCleanup, LeasesArePublished, CurrentServes, RefreshIsEarly, CleanupIsDue,
     ClientMatchesCleanup, UsersHaveClient, RetiredIsNotForgotten
<1>2. TypeOK'
  BY DEF StartCleanup, TypeOK, CancelWork, CleanupStages
<1>3. LeasesCounted'
  BY HoldersKept DEF StartCleanup
<1>4. FutureIsFresh'
  BY DEF StartCleanup, TypeOK, FutureIsFresh, CancelWork
<1>5. CloserIsAlone'
  BY DEF StartCleanup, CloserIsAlone, Published, AllClosed
<1>6. CleanupCancels'
  BY DEF StartCleanup, TypeOK, CleanupCancels, Running, CancelWork
<1>7. QuietRuntime'
  BY DEF StartCleanup, QuietRuntime, Running
<1> QED
  BY <1>1, <1>2, <1>3, <1>4, <1>5, <1>6, <1>7

LEMMA StepCleanRuntime ==
  ASSUME IInv, NEW g \in Generations, CleanRuntime(g)
  PROVE  IInv'
<1> USE BoundsAssumption DEF IInv
<1>1. /\ FutureIsFresh' /\ LeasesArePublished' /\ CurrentServes' /\ RefreshIsEarly'
      /\ CleanupIsDue' /\ UsersHaveClient' /\ RetiredIsNotForgotten'
  BY DEF CleanRuntime, TypeOK, FutureIsFresh, LeasesArePublished, CurrentServes,
     RefreshIsEarly, CleanupIsDue, UsersHaveClient, RetiredIsNotForgotten
<1>2. TypeOK'
  BY DEF CleanRuntime, TypeOK, CleanupStages
<1>3. LeasesCounted'
  BY HoldersKept DEF CleanRuntime
<1>4. CloserIsAlone'
  BY DEF CleanRuntime, TypeOK, CloserIsAlone, Published, AllClosed, Generations
<1>5. CleanupCancels'
  BY DEF CleanRuntime, TypeOK, CleanupCancels, Running
<1>6. QuietRuntime'
  BY DEF CleanRuntime, TypeOK, QuietRuntime, CleanupIsDue, CleanupCancels, Running,
     WorkEnded
<1>7. ClientMatchesCleanup'
  BY DEF CleanRuntime, TypeOK, ClientMatchesCleanup, CleanupIsDue
<1> QED
  BY <1>1, <1>2, <1>3, <1>4, <1>5, <1>6, <1>7

LEMMA StepCreationCancelled ==
  ASSUME IInv, NEW g \in Generations, CreationCancelled(g)
  PROVE  IInv'
<1> USE BoundsAssumption DEF IInv
<1>1. /\ FutureIsFresh' /\ LeasesArePublished' /\ CurrentServes' /\ RefreshIsEarly'
      /\ CleanupIsDue' /\ ClientMatchesCleanup' /\ RetiredIsNotForgotten'
  BY DEF CreationCancelled, TypeOK, FutureIsFresh, LeasesArePublished, CurrentServes,
     RefreshIsEarly, CleanupIsDue, ClientMatchesCleanup, RetiredIsNotForgotten
<1>2. TypeOK'
  BY DEF CreationCancelled, TypeOK, CleanupStages
<1>3. LeasesCounted'
  BY HoldersKept DEF CreationCancelled
<1>4. CloserIsAlone'
  BY DEF CreationCancelled, CloserIsAlone, Published, AllClosed
<1>5. CleanupCancels'
  BY DEF CreationCancelled, CleanupCancels, Running
<1>6. QuietRuntime'
  BY DEF CreationCancelled, QuietRuntime, Running
<1>7. UsersHaveClient'
  BY DEF CreationCancelled, UsersHaveClient, ClientMatchesCleanup
<1> QED
  BY <1>1, <1>2, <1>3, <1>4, <1>5, <1>6, <1>7

LEMMA StepCloseClient ==
  ASSUME IInv, NEW g \in Generations, CloseClient(g)
  PROVE  IInv'
<1> USE BoundsAssumption DEF IInv
<1>1. /\ FutureIsFresh' /\ LeasesArePublished' /\ CurrentServes' /\ RefreshIsEarly'
      /\ CleanupIsDue' /\ ClientMatchesCleanup' /\ RetiredIsNotForgotten'
  BY DEF CloseClient, TypeOK, FutureIsFresh, LeasesArePublished, CurrentServes,
     RefreshIsEarly, CleanupIsDue, ClientMatchesCleanup, RetiredIsNotForgotten
<1>2. TypeOK'
  BY DEF CloseClient, TypeOK, CleanupStages
<1>3. LeasesCounted'
  BY HoldersKept DEF CloseClient
<1>4. CloserIsAlone'
  BY DEF CloseClient, CloserIsAlone, Published, AllClosed
<1>5. CleanupCancels'
  BY DEF CloseClient, CleanupCancels, Running
<1>6. QuietRuntime'
  BY DEF CloseClient, QuietRuntime, Running
<1>7. UsersHaveClient'
  <2>1. \A r \in Requests : pc[r] # "idle" => lease[r] # g
    BY HolderIsCounted DEF CloseClient, CleanupIsDue
  <2>2. discovery[g] # "listing"
    BY DEF CloseClient, QuietRuntime, Running, RunningStages
  <2>3. popped # "none" => g # current
    BY DEF CloseClient, UsersHaveClient, CleanupIsDue, CurrentServes
  <2> QED
    BY <2>1, <2>2, <2>3 DEF CloseClient, UsersHaveClient
<1> QED
  BY <1>1, <1>2, <1>3, <1>4, <1>5, <1>6, <1>7

LEMMA StepFailClose ==
  ASSUME IInv, NEW g \in Generations, FailClose(g)
  PROVE  IInv'
<1> USE BoundsAssumption DEF IInv
<1>1. /\ FutureIsFresh' /\ LeasesArePublished' /\ CurrentServes' /\ RefreshIsEarly'
      /\ CleanupIsDue' /\ ClientMatchesCleanup' /\ UsersHaveClient'
      /\ RetiredIsNotForgotten'
  BY DEF FailClose, TypeOK, FutureIsFresh, LeasesArePublished, CurrentServes,
     RefreshIsEarly, CleanupIsDue, ClientMatchesCleanup, UsersHaveClient,
     RetiredIsNotForgotten
<1>2. TypeOK'
  BY DEF FailClose, TypeOK, CleanupStages
<1>3. LeasesCounted'
  BY HoldersKept DEF FailClose
<1>4. CloserIsAlone'
  BY DEF FailClose, CloserIsAlone, Published, AllClosed
<1>5. CleanupCancels'
  BY DEF FailClose, CleanupCancels, Running
<1>6. QuietRuntime'
  BY DEF FailClose, QuietRuntime, Running
<1> QED
  BY <1>1, <1>2, <1>3, <1>4, <1>5, <1>6

LEMMA StepBeginReplace ==
  ASSUME IInv, BeginReplace
  PROVE  IInv'
<1> USE BoundsAssumption DEF IInv
<1>1. /\ TypeOK' /\ FutureIsFresh' /\ LeasesArePublished' /\ CurrentServes'
      /\ CloserIsAlone' /\ RefreshIsEarly' /\ CleanupIsDue' /\ ClientMatchesCleanup'
      /\ UsersHaveClient' /\ RetiredIsNotForgotten'
  BY DEF BeginReplace, TypeOK, FutureIsFresh, LeasesArePublished, CurrentServes,
     CloserIsAlone, RefreshIsEarly, CleanupIsDue, ClientMatchesCleanup, UsersHaveClient,
     RetiredIsNotForgotten
<1>2. LeasesCounted'
  BY HoldersKept DEF BeginReplace
<1>3. CleanupCancels'
  BY DEF BeginReplace, CleanupCancels, Running
<1>4. QuietRuntime'
  BY DEF BeginReplace, QuietRuntime, Running
<1> QED
  BY <1>1, <1>2, <1>3, <1>4

LEMMA StepFailCommit ==
  ASSUME IInv, FailCommit
  PROVE  IInv'
<1> USE BoundsAssumption DEF IInv
<1>1. /\ TypeOK' /\ FutureIsFresh' /\ LeasesArePublished' /\ CurrentServes'
      /\ RefreshIsEarly' /\ CleanupIsDue' /\ ClientMatchesCleanup' /\ UsersHaveClient'
      /\ RetiredIsNotForgotten'
  BY DEF FailCommit, TypeOK, FutureIsFresh, LeasesArePublished, CurrentServes,
     RefreshIsEarly, CleanupIsDue, ClientMatchesCleanup, UsersHaveClient,
     RetiredIsNotForgotten
<1>2. LeasesCounted'
  BY HoldersKept DEF FailCommit
<1>3. CloserIsAlone'
  BY DEF FailCommit, CloserIsAlone, CurrentServes
<1>4. CleanupCancels'
  BY DEF FailCommit, CleanupCancels, Running
<1>5. QuietRuntime'
  BY DEF FailCommit, QuietRuntime, Running
<1> QED
  BY <1>1, <1>2, <1>3, <1>4, <1>5

LEMMA StepPublish ==
  ASSUME IInv, Publish
  PROVE  IInv'
<1> USE BoundsAssumption DEF IInv
<1>1. LeasesArePublished' /\ UsersHaveClient'
  BY DEF Publish, TypeOK, LeasesArePublished, UsersHaveClient, Generations
<1>2. TypeOK'
  BY DEF Publish, TypeOK, CloserIsAlone, CloseGenerations, Generations, RunningStages,
     Stages, CleanupStages
<1>3. LeasesCounted'
  BY HoldersKept DEF Publish
<1>4. FutureIsFresh'
  BY DEF Publish, TypeOK, FutureIsFresh, CloseGenerations, Generations
<1>5. CurrentServes'
  BY DEF Publish, TypeOK, CurrentServes, FutureIsFresh, CloserIsAlone, Generations
<1>6. CloserIsAlone'
  BY DEF Publish, CloserIsAlone, CurrentServes
<1>7. RefreshIsEarly'
  BY DEF Publish, TypeOK, RefreshIsEarly, FutureIsFresh, CloserIsAlone, CloseGenerations,
     Generations
<1>8. CleanupIsDue'
  BY DEF Publish, TypeOK, CleanupIsDue, CloseGenerations
<1>9. CleanupCancels'
  BY DEF Publish, TypeOK, CleanupCancels, FutureIsFresh, Running, CloseGenerations,
     Generations
<1>10. QuietRuntime'
  BY DEF Publish, TypeOK, QuietRuntime, FutureIsFresh, Running, CloseGenerations,
     Generations
<1>11. ClientMatchesCleanup'
  BY DEF Publish, ClientMatchesCleanup, CloseGenerations
<1>12. RetiredIsNotForgotten'
  BY DEF Publish, RetiredIsNotForgotten, CloseGenerations
<1> QED
  BY <1>1, <1>2, <1>3, <1>4, <1>5, <1>6, <1>7, <1>8, <1>9, <1>10, <1>11, <1>12

LEMMA StepEndReplace ==
  ASSUME IInv, EndReplace
  PROVE  IInv'
<1> USE BoundsAssumption DEF IInv
<1>1. /\ TypeOK' /\ FutureIsFresh' /\ LeasesArePublished' /\ CurrentServes'
      /\ RefreshIsEarly' /\ CleanupIsDue' /\ ClientMatchesCleanup' /\ UsersHaveClient'
      /\ RetiredIsNotForgotten'
  BY DEF EndReplace, TypeOK, FutureIsFresh, LeasesArePublished, CurrentServes,
     RefreshIsEarly, CleanupIsDue, ClientMatchesCleanup, UsersHaveClient,
     RetiredIsNotForgotten
<1>2. LeasesCounted'
  BY HoldersKept DEF EndReplace
<1>3. CloserIsAlone'
  BY DEF EndReplace, CloserIsAlone, CurrentServes
<1>4. CleanupCancels'
  BY DEF EndReplace, CleanupCancels, Running
<1>5. QuietRuntime'
  BY DEF EndReplace, QuietRuntime, Running
<1> QED
  BY <1>1, <1>2, <1>3, <1>4, <1>5

LEMMA StepBeginConnect ==
  ASSUME IInv, BeginConnect
  PROVE  IInv'
<1> USE BoundsAssumption DEF IInv
<1>1. /\ FutureIsFresh' /\ LeasesArePublished' /\ CurrentServes' /\ CloserIsAlone'
      /\ RefreshIsEarly' /\ CleanupIsDue' /\ ClientMatchesCleanup' /\ UsersHaveClient'
      /\ RetiredIsNotForgotten'
  BY DEF BeginConnect, TypeOK, FutureIsFresh, LeasesArePublished, CurrentServes,
     CloserIsAlone, RefreshIsEarly, CleanupIsDue, ClientMatchesCleanup, UsersHaveClient,
     RetiredIsNotForgotten
<1>2. TypeOK'
  BY DEF BeginConnect, TypeOK, Running, Stages, RequestPlaces
<1>3. LeasesCounted'
  BY HoldersKept DEF BeginConnect
<1>4. CleanupCancels'
  BY DEF BeginConnect, CleanupCancels, CleanupIsDue, CurrentServes, Running
<1>5. QuietRuntime'
  BY DEF BeginConnect, QuietRuntime, Running
<1> QED
  BY <1>1, <1>2, <1>3, <1>4, <1>5

LEMMA StepEndConnect ==
  ASSUME IInv, EndConnect
  PROVE  IInv'
<1> USE BoundsAssumption DEF IInv
<1>1. /\ LeasesArePublished' /\ CurrentServes' /\ RefreshIsEarly' /\ CleanupIsDue'
      /\ ClientMatchesCleanup' /\ RetiredIsNotForgotten'
  BY DEF EndConnect, LeasesArePublished, CurrentServes, RefreshIsEarly, CleanupIsDue,
     ClientMatchesCleanup, RetiredIsNotForgotten
<1>2. TypeOK'
  BY DEF EndConnect, TypeOK, WithTask, RunningStages, Stages
<1>3. LeasesCounted'
  BY HoldersKept DEF EndConnect
<1>4. FutureIsFresh'
  BY DEF EndConnect, TypeOK, FutureIsFresh, WithTask, Generations
<1>5. CloserIsAlone'
  BY DEF EndConnect, CloserIsAlone, CurrentServes
<1>6. CleanupCancels'
  BY DEF EndConnect, TypeOK, CleanupCancels, CleanupIsDue, CurrentServes, Running, WithTask
<1>7. QuietRuntime'
  BY DEF EndConnect, TypeOK, QuietRuntime, CurrentServes, Running, WithTask
<1>8. UsersHaveClient'
  BY DEF EndConnect, TypeOK, UsersHaveClient, WithTask
<1> QED
  BY <1>1, <1>2, <1>3, <1>4, <1>5, <1>6, <1>7, <1>8

LEMMA StepStartCatalog ==
  ASSUME IInv, StartCatalog
  PROVE  IInv'
<1> USE BoundsAssumption DEF IInv
<1>1. /\ LeasesArePublished' /\ CurrentServes' /\ CloserIsAlone' /\ RefreshIsEarly'
      /\ CleanupIsDue' /\ ClientMatchesCleanup' /\ RetiredIsNotForgotten'
  BY DEF StartCatalog, LeasesArePublished, CurrentServes, CloserIsAlone, RefreshIsEarly,
     CleanupIsDue, ClientMatchesCleanup, RetiredIsNotForgotten
<1>2. TypeOK'
  BY DEF StartCatalog, TypeOK, WithTask, RunningStages, Stages
<1>3. LeasesCounted'
  BY HoldersKept DEF StartCatalog
<1>4. FutureIsFresh'
  BY DEF StartCatalog, FutureIsFresh, WithTask, Generations
<1>5. CleanupCancels'
  BY DEF StartCatalog, CleanupCancels, CleanupIsDue, CurrentServes, Running, WithTask
<1>6. QuietRuntime'
  BY DEF StartCatalog, QuietRuntime, CurrentServes, Running, WithTask
<1>7. UsersHaveClient'
  BY DEF StartCatalog, UsersHaveClient, WithTask
<1> QED
  BY <1>1, <1>2, <1>3, <1>4, <1>5, <1>6, <1>7

LEMMA StepRequestRefresh ==
  ASSUME IInv, RequestRefresh
  PROVE  IInv'
<1> USE BoundsAssumption DEF IInv
<1>1. /\ LeasesArePublished' /\ CurrentServes' /\ CloserIsAlone' /\ CleanupIsDue'
      /\ ClientMatchesCleanup' /\ RetiredIsNotForgotten'
  BY DEF RequestRefresh, LeasesArePublished, CurrentServes, CloserIsAlone, CleanupIsDue,
     ClientMatchesCleanup, RetiredIsNotForgotten
<1>2. TypeOK'
  BY DEF RequestRefresh, TypeOK, WithTask, RunningStages, Stages
<1>3. LeasesCounted'
  BY HoldersKept DEF RequestRefresh
<1>4. FutureIsFresh'
  BY DEF RequestRefresh, TypeOK, FutureIsFresh, WithTask, Generations
<1>5. RefreshIsEarly'
  BY DEF RequestRefresh, TypeOK, RefreshIsEarly, CleanupIsDue, QuietRuntime, CurrentServes,
     CloserIsAlone
<1>6. CleanupCancels'
  BY DEF RequestRefresh, TypeOK, CleanupCancels, CleanupIsDue, CurrentServes, Running,
     WithTask
<1>7. QuietRuntime'
  BY DEF RequestRefresh, TypeOK, QuietRuntime, CurrentServes, Running, WithTask
<1>8. UsersHaveClient'
  BY DEF RequestRefresh, TypeOK, UsersHaveClient, WithTask
<1> QED
  BY <1>1, <1>2, <1>3, <1>4, <1>5, <1>6, <1>7, <1>8

LEMMA StepRunRefresh ==
  ASSUME IInv, RunRefresh
  PROVE  IInv'
<1> USE BoundsAssumption DEF IInv
<1>1. /\ LeasesArePublished' /\ CurrentServes' /\ RefreshIsEarly' /\ CleanupIsDue'
      /\ ClientMatchesCleanup' /\ RetiredIsNotForgotten'
  BY DEF RunRefresh, LeasesArePublished, CurrentServes, RefreshIsEarly, CleanupIsDue,
     ClientMatchesCleanup, RetiredIsNotForgotten
<1>2. TypeOK'
  BY DEF RunRefresh, TypeOK, WithTask, RunningStages, Stages
<1>3. LeasesCounted'
  BY HoldersKept DEF RunRefresh
<1>4. FutureIsFresh'
  BY DEF RunRefresh, TypeOK, FutureIsFresh, WithTask, Generations
<1>5. CloserIsAlone'
  BY DEF RunRefresh, CloserIsAlone, Published, AllClosed
<1>6. CleanupCancels'
  BY DEF RunRefresh, TypeOK, CleanupCancels, RefreshIsEarly, Running, WithTask
<1>7. QuietRuntime'
  BY DEF RunRefresh, TypeOK, QuietRuntime, RefreshIsEarly, Running, WithTask
<1>8. UsersHaveClient'
  BY DEF RunRefresh, TypeOK, UsersHaveClient, WithTask
<1> QED
  BY <1>1, <1>2, <1>3, <1>4, <1>5, <1>6, <1>7, <1>8

LEMMA StepBeginShutdown ==
  ASSUME IInv, BeginShutdown
  PROVE  IInv'
<1> USE BoundsAssumption DEF IInv
<1>1. /\ LeasesArePublished' /\ CurrentServes' /\ CloserIsAlone' /\ RefreshIsEarly'
      /\ CleanupIsDue' /\ ClientMatchesCleanup' /\ UsersHaveClient'
      /\ RetiredIsNotForgotten'
  BY DEF BeginShutdown, LeasesArePublished, CurrentServes, CloserIsAlone, RefreshIsEarly,
     CleanupIsDue, ClientMatchesCleanup, UsersHaveClient, RetiredIsNotForgotten
<1>2. TypeOK'
  BY DEF BeginShutdown, TypeOK, CancelWork
<1>3. LeasesCounted'
  BY HoldersKept DEF BeginShutdown
<1>4. FutureIsFresh'
  BY DEF BeginShutdown, TypeOK, FutureIsFresh, CancelWork, Published, Generations
<1>5. CleanupCancels'
  BY DEF BeginShutdown, CleanupCancels, Running, CancelWork
<1>6. QuietRuntime'
  BY DEF BeginShutdown, QuietRuntime, Running
<1> QED
  BY <1>1, <1>2, <1>3, <1>4, <1>5, <1>6

LEMMA StepClose ==
  ASSUME IInv, Close
  PROVE  IInv'
<1> USE BoundsAssumption DEF IInv
<1>1. /\ LeasesArePublished' /\ CurrentServes' /\ CloserIsAlone' /\ RefreshIsEarly'
      /\ CleanupIsDue' /\ ClientMatchesCleanup' /\ UsersHaveClient'
      /\ RetiredIsNotForgotten'
  BY DEF Close, LeasesArePublished, CurrentServes, CloserIsAlone, RefreshIsEarly,
     CleanupIsDue, ClientMatchesCleanup, UsersHaveClient, RetiredIsNotForgotten
<1>2. TypeOK'
  BY DEF Close, TypeOK, CancelWork, CloserPlaces
<1>3. LeasesCounted'
  BY HoldersKept DEF Close
<1>4. FutureIsFresh'
  BY DEF Close, TypeOK, FutureIsFresh, CancelWork, Published, Generations
<1>5. CleanupCancels'
  BY DEF Close, CleanupCancels, Running, CancelWork
<1>6. QuietRuntime'
  BY DEF Close, QuietRuntime, Running
<1> QED
  BY <1>1, <1>2, <1>3, <1>4, <1>5, <1>6

LEMMA StepCloseRetires ==
  ASSUME IInv, CloseRetires
  PROVE  IInv'
<1> USE BoundsAssumption DEF IInv
<1>1. /\ FutureIsFresh' /\ LeasesArePublished' /\ CloserIsAlone' /\ RefreshIsEarly'
      /\ CleanupIsDue' /\ ClientMatchesCleanup' /\ UsersHaveClient'
  BY DEF CloseRetires, TypeOK, FutureIsFresh, LeasesArePublished, CloserIsAlone,
     RefreshIsEarly, CleanupIsDue, ClientMatchesCleanup, UsersHaveClient, Generations
<1>2. TypeOK'
  BY DEF CloseRetires, TypeOK, CloserPlaces
<1>3. LeasesCounted'
  BY HoldersKept DEF CloseRetires
<1>4. CurrentServes'
  BY DEF CloseRetires, CurrentServes, CloserIsAlone
<1>5. CleanupCancels'
  BY DEF CloseRetires, CleanupCancels, Running
<1>6. QuietRuntime'
  BY DEF CloseRetires, QuietRuntime, Running
<1>7. RetiredIsNotForgotten'
  BY DEF CloseRetires, RetiredIsNotForgotten, CloserIsAlone
<1> QED
  BY <1>1, <1>2, <1>3, <1>4, <1>5, <1>6, <1>7

LEMMA StepCloseCancels ==
  ASSUME IInv, CloseCancels
  PROVE  IInv'
<1> USE BoundsAssumption DEF IInv
<1>1. /\ LeasesArePublished' /\ CurrentServes' /\ CloserIsAlone' /\ RefreshIsEarly'
      /\ CleanupIsDue' /\ ClientMatchesCleanup' /\ UsersHaveClient'
      /\ RetiredIsNotForgotten'
  BY DEF CloseCancels, LeasesArePublished, CurrentServes, CloserIsAlone, RefreshIsEarly,
     CleanupIsDue, ClientMatchesCleanup, UsersHaveClient, RetiredIsNotForgotten
<1>2. TypeOK'
  BY DEF CloseCancels, TypeOK, CancelWork, CloserPlaces
<1>3. LeasesCounted'
  BY HoldersKept DEF CloseCancels
<1>4. FutureIsFresh'
  BY DEF CloseCancels, TypeOK, FutureIsFresh, CancelWork, Published, Generations
<1>5. CleanupCancels'
  BY DEF CloseCancels, CleanupCancels, Running, CancelWork
<1>6. QuietRuntime'
  BY DEF CloseCancels, QuietRuntime, Running
<1> QED
  BY <1>1, <1>2, <1>3, <1>4, <1>5, <1>6

LEMMA StepCloseDrains ==
  ASSUME IInv, CloseDrains
  PROVE  IInv'
<1> USE BoundsAssumption DEF IInv
<1>1. /\ LeasesArePublished' /\ CurrentServes' /\ CloserIsAlone' /\ RefreshIsEarly'
      /\ UsersHaveClient'
  BY DEF CloseDrains, LeasesArePublished, CurrentServes, CloserIsAlone, RefreshIsEarly,
     UsersHaveClient
<1>2. TypeOK'
  BY DEF CloseDrains, TypeOK, CloseGenerations, CleanupStages, CloserPlaces
<1>3. LeasesCounted'
  BY HoldersKept DEF CloseDrains
<1>4. FutureIsFresh'
  BY DEF CloseDrains, TypeOK, FutureIsFresh, CloseGenerations, Published, Generations
<1>5. CleanupIsDue'
  BY DEF CloseDrains, TypeOK, CleanupIsDue, CloserIsAlone, CurrentServes, CloseGenerations,
     Published, Generations
<1>6. CleanupCancels'
  BY DEF CloseDrains, CleanupCancels, Running, CloseGenerations
<1>7. QuietRuntime'
  BY DEF CloseDrains, QuietRuntime, Running, CloseGenerations
<1>8. ClientMatchesCleanup'
  BY DEF CloseDrains, ClientMatchesCleanup, CloseGenerations
<1>9. RetiredIsNotForgotten'
  BY DEF CloseDrains, RetiredIsNotForgotten, CloserIsAlone
<1> QED
  BY <1>1, <1>2, <1>3, <1>4, <1>5, <1>6, <1>7, <1>8, <1>9

LEMMA StepCloseReturns ==
  ASSUME IInv, CloseReturns
  PROVE  IInv'
<1> USE BoundsAssumption DEF IInv
<1>1. /\ FutureIsFresh' /\ LeasesArePublished' /\ CurrentServes' /\ RefreshIsEarly'
      /\ CleanupIsDue' /\ ClientMatchesCleanup' /\ UsersHaveClient'
      /\ RetiredIsNotForgotten'
  BY DEF CloseReturns, FutureIsFresh, LeasesArePublished, CurrentServes, RefreshIsEarly,
     CleanupIsDue, ClientMatchesCleanup, UsersHaveClient, RetiredIsNotForgotten
<1>2. TypeOK'
  BY DEF CloseReturns, TypeOK, CloserPlaces
<1>3. LeasesCounted'
  BY HoldersKept DEF CloseReturns
<1>4. CloserIsAlone'
  BY DEF CloseReturns, CloserIsAlone, Published, AllClosed
<1>5. CleanupCancels'
  BY DEF CloseReturns, TypeOK, CleanupCancels, CleanupIsDue, FutureIsFresh, Published,
     Generations
<1>6. QuietRuntime'
  BY DEF CloseReturns, QuietRuntime, Running
<1> QED
  BY <1>1, <1>2, <1>3, <1>4, <1>5, <1>6

LEMMA StepStutter ==
  ASSUME IInv, UNCHANGED vars
  PROVE  IInv'
<1> USE DEF IInv, vars
<1>1. LeasesCounted'
  BY HoldersKept
<1>2. /\ TypeOK' /\ FutureIsFresh' /\ LeasesArePublished' /\ CurrentServes' /\ CloserIsAlone'
      /\ RefreshIsEarly'
  BY DEF TypeOK, FutureIsFresh, LeasesArePublished, CurrentServes, CloserIsAlone,
     RefreshIsEarly, AllClosed, Published
<1>3. /\ CleanupIsDue' /\ CleanupCancels' /\ QuietRuntime' /\ ClientMatchesCleanup'
      /\ UsersHaveClient' /\ RetiredIsNotForgotten'
  BY DEF CleanupIsDue, CleanupCancels, QuietRuntime, ClientMatchesCleanup, UsersHaveClient,
     RetiredIsNotForgotten, Running
<1> QED
  BY <1>1, <1>2, <1>3

LEMMA StepNext ==
  ASSUME IInv, [Next]_vars
  PROVE  IInv'
<1>1. ASSUME NEW r \in Requests, Ask(r) \/ Continue(r) \/ Release(r)
      PROVE  IInv'
  BY <1>1, StepAcquire, StepRefreshProvider, StepResolve, StepDiscovered, StepCreated,
     StepRelease DEF Ask, Continue
<1>2. ASSUME NEW g \in Generations, Work(g) \/ Creation(g) \/ Cleaning(g)
      PROVE  IInv'
  BY <1>2, StepDiscover, StepStartListing, StepFinishListing, StepUnwind, StepConstruct,
     StepFailConstruct, StepStartCleanup, StepCleanRuntime, StepCreationCancelled,
     StepCloseClient, StepFailClose DEF Work, Creation, Cleaning
<1>3. CASE \/ BeginReplace \/ FailCommit \/ Publish \/ EndReplace \/ BeginConnect
           \/ EndConnect \/ StartCatalog \/ RequestRefresh \/ RunRefresh
  BY <1>3, StepBeginReplace, StepFailCommit, StepPublish, StepEndReplace, StepBeginConnect,
     StepEndConnect, StepStartCatalog, StepRequestRefresh, StepRunRefresh
<1>4. CASE BeginShutdown \/ Close \/ Closing
  BY <1>4, StepBeginShutdown, StepClose, StepCloseRetires, StepCloseCancels, StepCloseDrains,
     StepCloseReturns DEF Closing
<1>5. CASE UNCHANGED vars
  BY <1>5, StepStutter
<1> QED
  BY <1>1, <1>2, <1>3, <1>4, <1>5 DEF Next

-----------------------------------------------------------------------------
(* The results.                                                           *)

(* The invariant holds in every state.                                    *)
THEOREM Invariance == Spec => []IInv
<1>1. Init => IInv
  BY Initially
<1>2. IInv /\ [Next]_vars => IInv'
  BY StepNext
<1> QED
  BY <1>1, <1>2, PTL DEF Spec

(* The state of the manager has its types: in particular no generation is *)
(* leased more often than there are requests, or less than not at all.    *)
THEOREM TypeCorrectness == Spec => []TypeOK
<1>1. IInv => TypeOK
  BY DEF IInv
<1> QED
  BY <1>1, Invariance, PTL

(* A client that a request or a discovery uses is open, and the cleanup   *)
(* of its generation has not come to closing it.                          *)
THEOREM ClientSafety == Spec => []ClientInUseIsOpen
<1>1. IInv => ClientInUseIsOpen
  <2> SUFFICES ASSUME IInv, NEW g \in Generations, InUse(g)
               PROVE  client[g] = "open" /\ cleanup[g] # "closing"
    BY DEF ClientInUseIsOpen
  <2> USE DEF IInv
  <2>1. CASE \E r \in Requests : pc[r] = "using" /\ lease[r] = g
    <3>1. leases[g] # 0
      BY <2>1, HolderIsCounted
    <3> QED
      BY <2>1, <3>1 DEF UsersHaveClient, CleanupIsDue
  <2>2. CASE discovery[g] = "listing"
    BY <2>2 DEF UsersHaveClient, QuietRuntime, Running, RunningStages
  <2>3. CASE popped = "listing" /\ g = current
    BY <2>3 DEF UsersHaveClient, CleanupIsDue, CurrentServes
  <2> QED
    BY <2>1, <2>2, <2>3 DEF InUse
<1> QED
  BY <1>1, Invariance, PTL

(* A closed generation has no client, none is being created, and nobody   *)
(* is left who could create one.                                          *)
THEOREM NoLateClient == Spec => []ClosedIsClean
<1>1. IInv => ClosedIsClean
  <2> SUFFICES ASSUME IInv, NEW g \in Generations, closed[g]
               PROVE  /\ client[g] \in {"absent", "closed"}
                      /\ discovery[g] \notin {"creating", "listing"}
                      /\ \A r \in Requests : pc[r] # "idle" => lease[r] # g
    BY DEF ClosedIsClean
  <2>1. leases[g] = 0 /\ ~Running(g)
    BY DEF IInv, QuietRuntime
  <2>2. \A r \in Requests : pc[r] # "idle" => lease[r] # g
    BY <2>1, HolderIsCounted
  <2> QED
    BY <2>1, <2>2 DEF IInv, ClientMatchesCleanup, Running, RunningStages
<1> QED
  BY <1>1, Invariance, PTL

(* When close() has returned, every generation there ever was is closed.  *)
THEOREM CloseCompleteness == Spec => []CloseIsComplete
<1>1. IInv => CloseIsComplete
  BY DEF IInv, CloserIsAlone, AllClosed, CloseIsComplete
<1> QED
  BY <1>1, Invariance, PTL

(* What is closed stays clean, and close() misses nothing.                *)
THEOREM CloseFinality == Spec => []CloseIsFinal
BY NoLateClient, CloseCompleteness, PTL DEF CloseIsFinal

(* Between the last release of a lease and replace() somebody always      *)
(* closes a retired generation.                                           *)
THEOREM RetiredAccounted == Spec => []RetiredIsNotForgotten
<1>1. IInv => RetiredIsNotForgotten
  BY DEF IInv
<1> QED
  BY <1>1, Invariance, PTL

(* Only Acquire and RefreshProvider add a lease, to the current           *)
(* generation, which is not retired while the manager is open.            *)
LEMMA StepDrains ==
  ASSUME IInv, [Next]_vars, NEW g \in Generations, retired[g]
  PROVE  leases'[g] <= leases[g]
<1> USE DEF IInv
<1>1. leases[g] \in Int
  BY DEF TypeOK
<1>2. ASSUME NEW r \in Requests, Acquire(r) \/ RefreshProvider(r)
      PROVE  leases'[g] <= leases[g]
  <2>1. g # current
    BY <1>2 DEF Acquire, RefreshProvider, CurrentServes
  <2>2. leases' = [leases EXCEPT ![current] = @ + 1]
    BY <1>2 DEF Acquire, RefreshProvider
  <2>3. leases'[g] = leases[g]
    BY <2>1, <2>2
  <2> QED
    BY <1>1, <2>3
<1>3. ASSUME NEW r \in Requests, Release(r)
      PROVE  leases'[g] <= leases[g]
  <2>1. lease[r] \in Generations /\ leases[lease[r]] \in Int
    BY DEF TypeOK
  <2>2. leases' = [leases EXCEPT ![lease[r]] = @ - 1]
    BY <1>3 DEF Release
  <2> QED
    BY <1>1, <2>1, <2>2
<1>4. CASE UNCHANGED leases
  BY <1>1, <1>4
<1>5. \/ UNCHANGED leases
      \/ \E r \in Requests : Acquire(r) \/ RefreshProvider(r) \/ Release(r)
  <2>1. CASE Next
    <3>1. ASSUME NEW r \in Requests, Resolve(r) \/ Continue(r)
          PROVE  UNCHANGED leases
      BY <3>1 DEF Resolve, Continue, Discovered, Created
    <3>2. ASSUME NEW h \in Generations, Work(h) \/ Creation(h) \/ Cleaning(h)
          PROVE  UNCHANGED leases
      BY <3>2 DEF Work, Creation, Cleaning, Discover, StartListing, FinishListing, Unwind,
         Construct, FailConstruct, StartCleanup, CleanRuntime, CreationCancelled, CloseClient,
         FailClose
    <3>3. CASE \/ BeginReplace \/ FailCommit \/ Publish \/ EndReplace \/ BeginConnect
               \/ EndConnect \/ StartCatalog \/ RequestRefresh \/ RunRefresh
      BY <3>3 DEF BeginReplace, FailCommit, Publish, EndReplace, BeginConnect, EndConnect,
         StartCatalog, RequestRefresh, RunRefresh
    <3>4. CASE BeginShutdown \/ Close \/ Closing
      BY <3>4 DEF BeginShutdown, Close, Closing, CloseRetires, CloseCancels, CloseDrains,
         CloseReturns
    <3> QED
      BY <2>1, <3>1, <3>2, <3>3, <3>4 DEF Next, Ask
  <2>2. CASE UNCHANGED vars
    BY <2>2 DEF vars
  <2> QED
    BY <2>1, <2>2
<1> QED
  BY <1>2, <1>3, <1>4, <1>5

(* A retired generation only loses leases: it drains.                     *)
THEOREM RetiredDrain == Spec => RetiredOnlyDrains
<1>1. IInv /\ [Next]_vars => [\A g \in Generations : retired[g] => leases'[g] <= leases[g]]_vars
  BY StepDrains
<1> QED
  BY <1>1, Invariance, PTL DEF Spec, RetiredOnlyDrains
=============================================================================
