----------------------------- MODULE CopilotProofs -----------------------------
(***************************************************************************)
(* Safety of CopilotAccount, for any number of requests, brokers, logins   *)
(* and mishaps.                                                            *)
(*                                                                         *)
(* The argument: a broker that somebody holds, creates in or owns has been *)
(* made and is not closed (HeldIsOpen, CreatingIsOpen, OwnedIsMade,        *)
(* LeasesFit); the request that makes one has the lock (MakersFit) and a   *)
(* login's is its own until it is published (SignInFits); what a           *)
(* disconnection or a close has waited for does not come back (OfficeFits, *)
(* GoneFits).                                                              *)
(***************************************************************************)
EXTENDS CopilotAccount, FiniteSetTheorems, WellFoundedInduction, TLAPS

\* Brokers are made in their order.
MadeInOrder == \E k \in 0..MaxBrokers : Made = 1..k

\* What holds, creates in, owns or makes a broker knows it.
HeldIsOpen == \A b \in Brokers : broker[b] \in {"unmade", "draining", "closed"} => Holders(b) = {}
CreatingIsOpen == \A b \in creating : broker[b] \in {"open", "closing", "draining"}
OwnedIsMade == \A b \in owners : broker[b] # "unmade"
LeasesFit ==
    \A r \in Leases : lease[r].at \in {"entering", "opening", "streaming", "discarding"} =>
        lease[r].broker \in Brokers /\ broker[lease[r].broker] # "unmade"
MakersFit == \A r \in Leases : lease[r].at \in {"making", "discarding"} <=> brokerLock = r

\* A login's broker is its own until it is published.
SignInFits ==
    /\ signIn.broker # 0 => signIn.broker \in Brokers /\ broker[signIn.broker] # "unmade"
    /\ signIn.at \in {"probing", "reprobing", "rejecting", "closing"} => signIn.broker # 0
    /\ signIn.at \in {"probing", "reprobing"} => signIn.broker # account.broker
    /\ signIn.at = "none" => ~attempt

\* What an operation has passed stays as it left it.
OfficeFits ==
    /\ office.kind = "none" <=> office.at = "none"
    /\ office # Idle => ~attempt
    /\ office.at \in {"lock", "drain", "draining"} => signIn.at = "none"
    /\ office.kind = "disconnect" => ~account.enabled
    /\ office.kind = "close" <=> closure = "running"
    /\ office.at \in {"drain", "draining"} /\ office.kind \in {"disconnect", "close"} =>
           brokerLock = "nobody" /\ account.broker = 0

\* Nobody creates a broker any more.
GoneFits ==
    /\ quiet => ~account.enabled /\ signIn.at = "none" /\ brokerLock = "nobody"
    /\ closure = "closed" => account.broker = 0 /\ signIn.at = "none" /\ brokerLock = "nobody"

CopilotInv ==
    /\ CopilotSafety /\ MadeInOrder /\ HeldIsOpen /\ CreatingIsOpen /\ OwnedIsMade
    /\ LeasesFit /\ MakersFit /\ SignInFits /\ OfficeFits /\ GoneFits

\* The records of the Copilot account, field by field.
LeaseStages == {"idle", "locking", "making", "discarding", "entering", "opening", "streaming", "ended"}
LeaseRecords == [at : LeaseStages, broker : 0..MaxBrokers, revision : Nat, made : Nat]
SignInRecords == [at : SignInStages, broker : 0..MaxBrokers, cancelled : BOOLEAN]
SweepRecords == [on : BOOLEAN, now : 0..MaxBrokers, todo : SUBSET Brokers, failed : BOOLEAN]
AccountRecords == [enabled : BOOLEAN, revision : Nat, broker : 0..MaxBrokers]
SavedRecords == [enabled : BOOLEAN, revision : Nat]
OfficeRecords == [kind : {"none", "cancel", "disconnect", "close"},
                  at : {"none", "settle", "lock", "drain", "draining"}]

\* A request goes on.
LEMMA LeaseSet ==
    ASSUME CopilotTypeOK, NEW r \in Leases, NEW l \in LeaseRecords, lease' = [lease EXCEPT ![r] = l]
    PROVE  /\ lease' \in [Leases -> LeaseRecords] /\ lease'[r] = l
           /\ \A q \in Leases : q # r => lease'[q] = lease[q]
  BY DEF CopilotTypeOK, LeaseRecords, LeaseStages

LEMMA LeaseMoved ==
    ASSUME CopilotTypeOK, NEW r \in Leases, NEW stage \in LeaseStages, LeaseTo(r, stage)
    PROVE  /\ lease' \in [Leases -> LeaseRecords]
           /\ lease'[r].at = stage /\ lease'[r].broker = lease[r].broker
           /\ lease'[r].revision = lease[r].revision /\ lease'[r].made = lease[r].made
           /\ \A q \in Leases : q # r => lease'[q] = lease[q]
<1> DEFINE l == [at |-> stage, broker |-> lease[r].broker, revision |-> lease[r].revision,
                 made |-> lease[r].made]
<1>1. lease \in [Leases -> LeaseRecords]
  BY DEF CopilotTypeOK, LeaseRecords, LeaseStages
<1>2. [lease[r] EXCEPT !.at = stage] = l
  BY <1>1 DEF LeaseRecords
<1>3. lease' = [lease EXCEPT ![r] = l]
  BY <1>1, <1>2 DEF LeaseTo
<1>4. l \in LeaseRecords
  BY <1>1 DEF LeaseRecords
<1> HIDE DEF l
<1>5. lease'[r] = l /\ lease' \in [Leases -> LeaseRecords] /\ \A q \in Leases : q # r => lease'[q] = lease[q]
  BY <1>3, <1>4, LeaseSet
<1> QED
  BY <1>5 DEF l

\* It goes on with a broker.
LeaseTakes(r, stage, b) == lease' = [lease EXCEPT ![r].at = stage, ![r].broker = b]

LEMMA LeaseGiven ==
    ASSUME CopilotTypeOK, NEW r \in Leases, NEW stage \in LeaseStages, NEW b \in 0..MaxBrokers,
           LeaseTakes(r, stage, b)
    PROVE  /\ lease' \in [Leases -> LeaseRecords]
           /\ lease'[r].at = stage /\ lease'[r].broker = b
           /\ \A q \in Leases : q # r => lease'[q] = lease[q]
<1> DEFINE h == [lease EXCEPT ![r].at = stage]
<1> DEFINE l == [at |-> stage, broker |-> b, revision |-> lease[r].revision, made |-> lease[r].made]
<1>1. lease \in [Leases -> LeaseRecords]
  BY DEF CopilotTypeOK, LeaseRecords, LeaseStages
<1>2. h[r] = [at |-> stage, broker |-> lease[r].broker, revision |-> lease[r].revision,
              made |-> lease[r].made]
  BY <1>1 DEF LeaseRecords
<1>3. h = [lease EXCEPT ![r] = h[r]]
  BY <1>1
<1>4. lease' = [h EXCEPT ![r].broker = b]
  BY DEF LeaseTakes
<1> HIDE DEF h
<1>5. [h EXCEPT ![r].broker = b] = [h EXCEPT ![r] = l]
  <2>1. [h[r] EXCEPT !.broker = b] = l
    BY <1>2
  <2>2. [h EXCEPT ![r].broker = b] = [h EXCEPT ![r] = [h[r] EXCEPT !.broker = b]]
    OBVIOUS
  <2> QED
    BY <2>1, <2>2, Zenon
<1>6. [h EXCEPT ![r] = l] = [lease EXCEPT ![r] = l]
  BY <1>1, <1>3
<1>7. l \in LeaseRecords
  BY <1>1 DEF LeaseRecords
<1> HIDE DEF l
<1>8. lease' = [lease EXCEPT ![r] = l]
  BY <1>4, <1>5, <1>6
<1>9. lease'[r] = l /\ lease' \in [Leases -> LeaseRecords] /\ \A q \in Leases : q # r => lease'[q] = lease[q]
  BY <1>7, <1>8, LeaseSet
<1> QED
  BY <1>9 DEF l

\* It makes a broker for the revision it sees.
LEMMA LeaseMaking ==
    ASSUME CopilotTypeOK, NEW r \in Leases, NEW stage \in LeaseStages, NEW v \in Nat,
           lease' = [lease EXCEPT ![r].at = stage, ![r].made = v]
    PROVE  /\ lease' \in [Leases -> LeaseRecords]
           /\ lease'[r].at = stage /\ lease'[r].broker = lease[r].broker
           /\ \A q \in Leases : q # r => lease'[q] = lease[q]
<1> DEFINE h == [lease EXCEPT ![r].at = stage]
<1> DEFINE l == [at |-> stage, broker |-> lease[r].broker, revision |-> lease[r].revision, made |-> v]
<1>1. lease \in [Leases -> LeaseRecords]
  BY DEF CopilotTypeOK, LeaseRecords, LeaseStages
<1>2. h[r] = [at |-> stage, broker |-> lease[r].broker, revision |-> lease[r].revision,
              made |-> lease[r].made]
  BY <1>1 DEF LeaseRecords
<1>3. h = [lease EXCEPT ![r] = h[r]]
  BY <1>1
<1>4. lease' = [h EXCEPT ![r].made = v]
  OBVIOUS
<1> HIDE DEF h
<1>5. [h EXCEPT ![r].made = v] = [h EXCEPT ![r] = l]
  <2>1. [h[r] EXCEPT !.made = v] = l
    BY <1>2
  <2>2. [h EXCEPT ![r].made = v] = [h EXCEPT ![r] = [h[r] EXCEPT !.made = v]]
    OBVIOUS
  <2> QED
    BY <2>1, <2>2, Zenon
<1>6. [h EXCEPT ![r] = l] = [lease EXCEPT ![r] = l]
  BY <1>1, <1>3
<1>7. l \in LeaseRecords
  BY <1>1 DEF LeaseRecords
<1> HIDE DEF l
<1>8. lease' = [lease EXCEPT ![r] = l]
  BY <1>4, <1>5, <1>6
<1>9. lease'[r] = l /\ lease' \in [Leases -> LeaseRecords] /\ \A q \in Leases : q # r => lease'[q] = lease[q]
  BY <1>7, <1>8, LeaseSet
<1> QED
  BY <1>9 DEF l

\* The login goes on.
LEMMA SignInMoved ==
    ASSUME CopilotTypeOK, NEW stage \in SignInStages, SignInTo(stage)
    PROVE  /\ signIn' \in SignInRecords /\ signIn'.at = stage
           /\ signIn'.broker = signIn.broker /\ signIn'.cancelled = signIn.cancelled
<1>1. signIn \in SignInRecords
  BY DEF CopilotTypeOK, SignInRecords
<1>2. signIn' = [at |-> stage, broker |-> signIn.broker, cancelled |-> signIn.cancelled]
  BY <1>1 DEF SignInTo, SignInRecords
<1> QED
  BY <1>1, <1>2 DEF SignInRecords

LEMMA SignInGiven ==
    ASSUME CopilotTypeOK, NEW stage \in SignInStages, NEW b \in 0..MaxBrokers,
           signIn' = [signIn EXCEPT !.broker = b, !.at = stage]
    PROVE  /\ signIn' \in SignInRecords /\ signIn'.at = stage
           /\ signIn'.broker = b /\ signIn'.cancelled = signIn.cancelled
<1> DEFINE s == [signIn EXCEPT !.broker = b]
<1>1. signIn \in SignInRecords
  BY DEF CopilotTypeOK, SignInRecords
<1>2. s = [at |-> signIn.at, broker |-> b, cancelled |-> signIn.cancelled]
  BY <1>1 DEF SignInRecords
<1>3. signIn' = [s EXCEPT !.at = stage]
  OBVIOUS
<1> HIDE DEF s
<1>4. signIn' = [at |-> stage, broker |-> b, cancelled |-> signIn.cancelled]
  BY <1>2, <1>3
<1> QED
  BY <1>1, <1>4 DEF SignInRecords

LEMMA LoginCancelled ==
    ASSUME CopilotTypeOK, CancelsLogin
    PROVE  /\ signIn' \in SignInRecords /\ signIn'.at = signIn.at /\ signIn'.broker = signIn.broker
           /\ attempt' = FALSE
<1>1. signIn \in SignInRecords
  BY DEF CopilotTypeOK, SignInRecords
<1>2. (signIn.at # "none") \in BOOLEAN
  OBVIOUS
<1> DEFINE c == signIn.at # "none"
<1>3. c \in BOOLEAN /\ signIn' = [signIn EXCEPT !.cancelled = c]
  BY <1>2 DEF CancelsLogin
<1> HIDE DEF c
<1>4. signIn' = [at |-> signIn.at, broker |-> signIn.broker, cancelled |-> c]
  BY <1>1, <1>3 DEF SignInRecords
<1> QED
  BY <1>1, <1>3, <1>4 DEF SignInRecords, CancelsLogin

\* The cleanup is scheduled unless it runs.
LEMMA SweepScheduled ==
    ASSUME CopilotTypeOK, owners' \subseteq Brokers, Scheduled
    PROVE  sweep' \in SweepRecords
<1>1. Retired \subseteq Brokers
  BY DEF Retired
<1>2. sweep \in SweepRecords
  BY DEF CopilotTypeOK, SweepRecords
<1>3. 0 \in 0..MaxBrokers
  BY CopilotAssumption DEF CopilotAssumption
<1> QED
  BY <1>1, <1>2, <1>3 DEF Scheduled, SweepRecords

\* The account is disabled; its file says so, or it is known not to.
LEMMA AccountDisabled ==
    ASSUME CopilotTypeOK, owners' \subseteq Brokers, Disable
    PROVE  /\ account' \in AccountRecords /\ saved' \in SavedRecords /\ unsaved' \in BOOLEAN
           /\ sweep' \in SweepRecords /\ mishaps' \in 0..MaxMishaps
           /\ account'.enabled = FALSE /\ account'.broker = 0
           /\ SavedIsTrue'
<1>1. account.revision + 1 \in Nat /\ 0 \in 0..MaxBrokers
  BY CopilotAssumption DEF CopilotTypeOK, CopilotAssumption
<1>2. account' = [enabled |-> FALSE, revision |-> account.revision + 1, broker |-> 0]
  BY DEF Disable
<1>3. account' \in AccountRecords /\ account'.enabled = FALSE /\ account'.broker = 0
  BY <1>1, <1>2 DEF AccountRecords
<1>4. sweep' \in SweepRecords
  BY SweepScheduled DEF Disable
<1>5. CASE saved' = [enabled |-> FALSE, revision |-> account.revision + 1] /\ unsaved' = FALSE /\ UNCHANGED mishaps
  <2>1. saved' \in SavedRecords /\ saved'.enabled = FALSE
    BY <1>1, <1>5 DEF SavedRecords
  <2>2. mishaps' \in 0..MaxMishaps
    BY <1>5 DEF CopilotTypeOK
  <2> QED
    BY <1>3, <1>4, <1>5, <2>1, <2>2 DEF SavedIsTrue
<1>6. CASE Mishap /\ unsaved' = TRUE /\ UNCHANGED saved
  <2>1. saved' \in SavedRecords
    BY <1>6 DEF CopilotTypeOK, SavedRecords
  <2>2. mishaps' \in 0..MaxMishaps
    BY <1>6, CopilotAssumption DEF CopilotTypeOK, Mishap, CopilotAssumption
  <2> QED
    BY <1>3, <1>4, <1>6, <2>1, <2>2 DEF SavedIsTrue
<1> QED
  BY <1>5, <1>6 DEF Disable

\* A request that saw another account leaves it alone.
LEMMA AccountInvalidated ==
    ASSUME CopilotTypeOK, SavedIsTrue, owners' \subseteq Brokers, NEW b, NEW v, InvalidateAccount(b, v)
    PROVE  /\ account' \in AccountRecords /\ saved' \in SavedRecords /\ unsaved' \in BOOLEAN
           /\ sweep' \in SweepRecords /\ mishaps' \in 0..MaxMishaps
           /\ account' = account \/ (account'.enabled = FALSE /\ account'.broker = 0)
           /\ SavedIsTrue'
<1>1. CASE Matches(b, v)
  BY <1>1, AccountDisabled DEF InvalidateAccount
<1>2. CASE UNCHANGED <<stateVars, sweep, mishaps>>
  BY <1>2 DEF CopilotTypeOK, AccountRecords, SavedRecords, SweepRecords, SavedIsTrue, stateVars
<1> QED
  BY <1>1, <1>2 DEF InvalidateAccount

\* The least broker of a set is one of it.
LEMMA FirstIsThere == ASSUME NEW B, B \subseteq Brokers, B # {} PROVE First(B) \in B
<1>1. Brokers \subseteq Nat
  BY DEF Brokers
<1>2. B \subseteq Nat
  BY <1>1
<1>3. PICK b \in B : \A c \in B : <<c, b>> \notin OpToRel(<, Nat)
  BY <1>2, NatLessThanWellFounded, WFMin
<1>4. ASSUME NEW c \in B, c < b PROVE FALSE
  <2>1. <<c, b>> \in Nat \X Nat /\ <<c, b>>[1] < <<c, b>>[2]
    BY <1>2, <1>4
  <2>2. <<c, b>> \in OpToRel(<, Nat)
    BY <2>1, Zenon DEF OpToRel
  <2> QED
    BY <2>2, <1>3
<1>5. \A c \in B : b <= c
  BY <1>2, <1>4
<1> QED
  BY <1>5 DEF First

\* A new broker is the next one.
LEMMA NextIsMade ==
    ASSUME CopilotTypeOK, MadeInOrder, NEW b, NEW stage, stage \in {"open", "closing"}, Make(b, stage)
    PROVE  /\ b \in Brokers /\ b \in 1..MaxBrokers /\ b # 0 /\ broker[b] = "unmade"
           /\ broker' \in [Brokers -> {"unmade", "open", "closing", "draining", "stuck", "closed"}]
           /\ broker'[b] = stage /\ \A c \in Brokers : c # b => broker'[c] = broker[c]
           /\ owners' = owners \cup {b} /\ creating' = creating
           /\ MadeInOrder'
<1>1. PICK k \in 0..MaxBrokers : Made = 1..k
  BY DEF MadeInOrder
<1>2. Cardinality(Made) = k
  <2>1. k \in Nat
    BY <1>1
  <2> QED
    BY <1>1, <2>1, FS_Interval
<1>3. b = k + 1 /\ b \in Brokers
  BY <1>2 DEF Make
<1>4. broker[b] = "unmade"
  BY <1>1, <1>3 DEF Made, Brokers
<1>5. /\ broker' \in [Brokers -> {"unmade", "open", "closing", "draining", "stuck", "closed"}]
      /\ broker'[b] = stage /\ \A c \in Brokers : c # b => broker'[c] = broker[c]
  BY <1>3 DEF Make, CopilotTypeOK
<1>6. Made' = Made \cup {b}
  BY <1>3, <1>5 DEF Made
<1>7. Made' = 1..b /\ b \in 0..MaxBrokers
  BY <1>1, <1>3, <1>6 DEF Brokers
<1> QED
  BY <1>3, <1>4, <1>5, <1>7 DEF Make, MadeInOrder, Brokers

\* Closing a broker leaves what is made and what may run.
LEMMA BrokerIsAsked ==
    ASSUME CopilotTypeOK, NEW b, Close(b)
    PROVE  /\ broker' \in [Brokers -> {"unmade", "open", "closing", "draining", "stuck", "closed"}]
           /\ \A c \in Brokers : broker'[c] # broker[c] =>
                  c = b /\ broker[c] \in {"open", "stuck"} /\ broker'[c] = "closing"
           /\ Made' = Made /\ Live' = Live
<1>1. /\ broker' \in [Brokers -> {"unmade", "open", "closing", "draining", "stuck", "closed"}]
      /\ \A c \in Brokers : broker'[c] # broker[c] =>
             c = b /\ broker[c] \in {"open", "stuck"} /\ broker'[c] = "closing"
  BY DEF Close, CopilotTypeOK
<1>2. Made' = Made /\ Live' = Live
  BY <1>1 DEF Made, Live
<1> QED
  BY <1>1, <1>2

\* A broker's leases have ended.
LEMMA CopilotBrokerDrains == ASSUME CopilotInv, BrokerDrains PROVE CopilotInv'
<1>1. CopilotTypeOK'
  <2>1. account' \in AccountRecords /\ saved' \in SavedRecords
    BY DEF CopilotInv, CopilotSafety, BrokerDrains, MayDrain, stateVars, CopilotTypeOK,
       AccountRecords, SavedRecords
  <2>2. unsaved' \in BOOLEAN /\ signedIn' \in BOOLEAN /\ quiet' \in BOOLEAN /\ attempt' \in BOOLEAN
    BY DEF CopilotInv, CopilotSafety, BrokerDrains, MayDrain, stateVars, countVars, CopilotTypeOK
  <2>3. /\ broker' \in [Brokers -> {"unmade", "open", "closing", "draining", "stuck", "closed"}]
        /\ owners' \subseteq Brokers /\ creating' \subseteq Brokers
    BY DEF CopilotInv, CopilotSafety, BrokerDrains, MayDrain, CopilotTypeOK
  <2>4. lease' \in [Leases -> LeaseRecords]
    BY DEF CopilotInv, CopilotSafety, BrokerDrains, MayDrain, CopilotTypeOK, LeaseRecords,
       LeaseStages
  <2>5. brokerLock' \in Leases \cup {"nobody"}
    BY DEF CopilotInv, CopilotSafety, BrokerDrains, MayDrain, CopilotTypeOK
  <2>6. signIn' \in SignInRecords
    BY DEF CopilotInv, CopilotSafety, BrokerDrains, MayDrain, CopilotTypeOK, SignInRecords
  <2>7. office' \in OfficeRecords /\ closure' \in {"open", "asked", "running", "failed", "closed"}
    BY DEF CopilotInv, CopilotSafety, BrokerDrains, MayDrain, CopilotTypeOK, OfficeRecords
  <2>8. sweep' \in SweepRecords
    BY DEF CopilotInv, CopilotSafety, BrokerDrains, MayDrain, CopilotTypeOK, SweepRecords
  <2>9. changes' \in 0..MaxChanges /\ mishaps' \in 0..MaxMishaps
    BY DEF CopilotInv, CopilotSafety, BrokerDrains, MayDrain, countVars, CopilotTypeOK
  <2> QED
    BY <2>1, <2>2, <2>3, <2>4, <2>5, <2>6, <2>7, <2>8, <2>9 DEF CopilotTypeOK, LeaseRecords,
       SignInRecords, SweepRecords, AccountRecords, SavedRecords, OfficeRecords, LeaseStages
<1>2. PublishedIsOpen'
  BY DEF CopilotInv, CopilotSafety, BrokerDrains, MayDrain, stateVars, PublishedIsOpen,
     CopilotTypeOK
<1>3. LiveIsOwned'
  BY DEF CopilotInv, CopilotSafety, BrokerDrains, MayDrain, LiveIsOwned, Live, CopilotTypeOK
<1>4. ClosedIsUnused'
  BY DEF CopilotInv, CopilotSafety, BrokerDrains, MayDrain, ClosedIsUnused, Holders,
     CopilotTypeOK
<1>5. GoneIsGone'
  BY DEF CopilotInv, CopilotSafety, BrokerDrains, MayDrain, countVars, GoneIsGone, GoneFits,
     Live, CopilotTypeOK
<1>6. SavedIsTrue'
  BY DEF CopilotInv, CopilotSafety, BrokerDrains, MayDrain, stateVars, SavedIsTrue, CopilotTypeOK
<1>7. MadeInOrder'
  BY DEF CopilotInv, CopilotSafety, BrokerDrains, MayDrain, MadeInOrder, Made, CopilotTypeOK
<1>8. HeldIsOpen'
  BY DEF CopilotInv, CopilotSafety, BrokerDrains, MayDrain, HeldIsOpen, Holders, CopilotTypeOK
<1>9. CreatingIsOpen'
  BY DEF CopilotInv, CopilotSafety, BrokerDrains, MayDrain, CreatingIsOpen, OwnedIsMade,
     CopilotTypeOK
<1>10. OwnedIsMade'
  BY DEF CopilotInv, CopilotSafety, BrokerDrains, MayDrain, OwnedIsMade, CopilotTypeOK
<1>11. LeasesFit'
  BY DEF CopilotInv, CopilotSafety, BrokerDrains, MayDrain, LeasesFit, PublishedIsOpen, Brokers,
     CopilotTypeOK
<1>12. MakersFit'
  BY DEF CopilotInv, CopilotSafety, BrokerDrains, MayDrain, MakersFit, CopilotTypeOK
<1>13. SignInFits'
  BY DEF CopilotInv, CopilotSafety, BrokerDrains, MayDrain, stateVars, SignInFits, Brokers,
     CopilotTypeOK
<1>14. OfficeFits'
  BY DEF CopilotInv, CopilotSafety, BrokerDrains, MayDrain, stateVars, OfficeFits, Idle,
     PublishedIsOpen, CopilotTypeOK
<1>15. GoneFits'
  BY DEF CopilotInv, CopilotSafety, BrokerDrains, MayDrain, stateVars, countVars, GoneFits,
     PublishedIsOpen, CopilotTypeOK
<1> QED
  BY <1>1, <1>2, <1>3, <1>4, <1>5, <1>6, <1>7, <1>8, <1>9, <1>10, <1>11, <1>12, <1>13, <1>14,
     <1>15 DEF CopilotInv, CopilotSafety

\* Its runtime ends, or does not.
LEMMA CopilotBrokerCloses == ASSUME CopilotInv, BrokerCloses PROVE CopilotInv'
<1>1. /\ broker' \in [Brokers -> {"unmade", "open", "closing", "draining", "stuck", "closed"}]
      /\ \A c \in Brokers : broker'[c] # broker[c] =>
             broker[c] = "draining" /\ c \notin creating /\ broker'[c] \in {"closed", "stuck"}
      /\ Made' = Made
  <2>1. PICK b \in Brokers : /\ broker[b] = "draining" /\ b \notin creating
                             /\ \/ broker' = [broker EXCEPT ![b] = "closed"]
                                \/ broker' = [broker EXCEPT ![b] = "stuck"]
    BY DEF BrokerCloses, MayClose
  <2> QED
    BY <2>1 DEF Made, CopilotInv, CopilotSafety, CopilotTypeOK
<1>2. mishaps' \in 0..MaxMishaps
  BY CopilotAssumption DEF BrokerCloses, Mishap, CopilotInv, CopilotSafety, CopilotTypeOK,
     CopilotAssumption
<1>3. UNCHANGED <<stateVars, owners, creating, lease, brokerLock, signIn, attempt, office, closure, sweep, signedIn, quiet, changes>>
  BY DEF BrokerCloses
<1>4. CopilotTypeOK'
  <2>1. account' \in AccountRecords /\ saved' \in SavedRecords
    BY <1>1, <1>2, <1>3 DEF CopilotInv, CopilotSafety, stateVars, CopilotTypeOK, AccountRecords,
       SavedRecords
  <2>2. unsaved' \in BOOLEAN /\ signedIn' \in BOOLEAN /\ quiet' \in BOOLEAN /\ attempt' \in BOOLEAN
    BY <1>1, <1>2, <1>3 DEF CopilotInv, CopilotSafety, stateVars, CopilotTypeOK
  <2>3. /\ broker' \in [Brokers -> {"unmade", "open", "closing", "draining", "stuck", "closed"}]
        /\ owners' \subseteq Brokers /\ creating' \subseteq Brokers
    BY <1>1, <1>2, <1>3 DEF CopilotInv, CopilotSafety, CopilotTypeOK
  <2>4. lease' \in [Leases -> LeaseRecords]
    BY <1>1, <1>2, <1>3 DEF CopilotInv, CopilotSafety, CopilotTypeOK, LeaseRecords, LeaseStages
  <2>5. brokerLock' \in Leases \cup {"nobody"}
    BY <1>1, <1>2, <1>3 DEF CopilotInv, CopilotSafety, CopilotTypeOK
  <2>6. signIn' \in SignInRecords
    BY <1>1, <1>2, <1>3 DEF CopilotInv, CopilotSafety, CopilotTypeOK, SignInRecords
  <2>7. office' \in OfficeRecords /\ closure' \in {"open", "asked", "running", "failed", "closed"}
    BY <1>1, <1>2, <1>3 DEF CopilotInv, CopilotSafety, CopilotTypeOK, OfficeRecords
  <2>8. sweep' \in SweepRecords
    BY <1>1, <1>2, <1>3 DEF CopilotInv, CopilotSafety, CopilotTypeOK, SweepRecords
  <2>9. changes' \in 0..MaxChanges /\ mishaps' \in 0..MaxMishaps
    BY <1>1, <1>2, <1>3 DEF CopilotInv, CopilotSafety, CopilotTypeOK
  <2> QED
    BY <2>1, <2>2, <2>3, <2>4, <2>5, <2>6, <2>7, <2>8, <2>9 DEF CopilotTypeOK, LeaseRecords,
       SignInRecords, SweepRecords, AccountRecords, SavedRecords, OfficeRecords, LeaseStages
<1>5. PublishedIsOpen'
  BY <1>1, <1>2, <1>3 DEF CopilotInv, CopilotSafety, stateVars, PublishedIsOpen, CopilotTypeOK
<1>6. LiveIsOwned'
  BY <1>1, <1>2, <1>3 DEF CopilotInv, CopilotSafety, LiveIsOwned, Live, CopilotTypeOK
<1>7. ClosedIsUnused'
  <2>1. \A b \in Brokers : Holders(b)' = Holders(b)
    BY <1>3 DEF Holders
  <2>2. ASSUME NEW b \in Brokers, broker'[b] = "closed" PROVE Holders(b) = {} /\ b \notin creating
    <3>1. CASE broker'[b] = broker[b]
      BY <2>2, <3>1 DEF CopilotInv, CopilotSafety, ClosedIsUnused
    <3>2. CASE broker'[b] # broker[b]
      BY <1>1, <3>2 DEF CopilotInv, HeldIsOpen
    <3> QED
      BY <3>1, <3>2
  <2> QED
    BY <1>3, <2>1, <2>2 DEF ClosedIsUnused
<1>8. GoneIsGone'
  BY <1>1, <1>2, <1>3 DEF CopilotInv, CopilotSafety, GoneIsGone, GoneFits, Live, CopilotTypeOK
<1>9. SavedIsTrue'
  BY <1>1, <1>2, <1>3 DEF CopilotInv, CopilotSafety, stateVars, SavedIsTrue, CopilotTypeOK
<1>10. MadeInOrder'
  BY <1>1, <1>2, <1>3 DEF CopilotInv, CopilotSafety, MadeInOrder, Made, CopilotTypeOK
<1>11. HeldIsOpen'
  BY <1>1, <1>2, <1>3 DEF CopilotInv, CopilotSafety, HeldIsOpen, Holders, CopilotTypeOK
<1>12. CreatingIsOpen'
  BY <1>1, <1>2, <1>3 DEF CopilotInv, CopilotSafety, CreatingIsOpen, OwnedIsMade, CopilotTypeOK
<1>13. OwnedIsMade'
  BY <1>1, <1>2, <1>3 DEF CopilotInv, CopilotSafety, OwnedIsMade, CopilotTypeOK
<1>14. LeasesFit'
  BY <1>1, <1>2, <1>3 DEF CopilotInv, CopilotSafety, LeasesFit, PublishedIsOpen, Brokers,
     CopilotTypeOK
<1>15. MakersFit'
  BY <1>1, <1>2, <1>3 DEF CopilotInv, CopilotSafety, MakersFit, CopilotTypeOK
<1>16. SignInFits'
  BY <1>1, <1>2, <1>3 DEF CopilotInv, CopilotSafety, stateVars, SignInFits, Brokers,
     CopilotTypeOK
<1>17. OfficeFits'
  BY <1>1, <1>2, <1>3 DEF CopilotInv, CopilotSafety, stateVars, OfficeFits, Idle,
     PublishedIsOpen, CopilotTypeOK
<1>18. GoneFits'
  BY <1>1, <1>2, <1>3 DEF CopilotInv, CopilotSafety, stateVars, GoneFits, PublishedIsOpen,
     CopilotTypeOK
<1> QED
  BY <1>4, <1>5, <1>6, <1>7, <1>8, <1>9, <1>10, <1>11, <1>12, <1>13, <1>14, <1>15, <1>16,
     <1>17, <1>18 DEF CopilotInv, CopilotSafety

\* A session is there.
LEMMA CopilotSessionCreated == ASSUME CopilotInv, SessionCreated PROVE CopilotInv'
<1>1. CopilotTypeOK'
  <2>1. account' \in AccountRecords /\ saved' \in SavedRecords
    BY DEF CopilotInv, CopilotSafety, SessionCreated, stateVars, CopilotTypeOK, AccountRecords,
       SavedRecords
  <2>2. unsaved' \in BOOLEAN /\ signedIn' \in BOOLEAN /\ quiet' \in BOOLEAN /\ attempt' \in BOOLEAN
    BY DEF CopilotInv, CopilotSafety, SessionCreated, stateVars, countVars, CopilotTypeOK
  <2>3. /\ broker' \in [Brokers -> {"unmade", "open", "closing", "draining", "stuck", "closed"}]
        /\ owners' \subseteq Brokers /\ creating' \subseteq Brokers
    BY DEF CopilotInv, CopilotSafety, SessionCreated, CopilotTypeOK
  <2>4. lease' \in [Leases -> LeaseRecords]
    BY DEF CopilotInv, CopilotSafety, SessionCreated, CopilotTypeOK, LeaseRecords, LeaseStages
  <2>5. brokerLock' \in Leases \cup {"nobody"}
    BY DEF CopilotInv, CopilotSafety, SessionCreated, CopilotTypeOK
  <2>6. signIn' \in SignInRecords
    BY DEF CopilotInv, CopilotSafety, SessionCreated, CopilotTypeOK, SignInRecords
  <2>7. office' \in OfficeRecords /\ closure' \in {"open", "asked", "running", "failed", "closed"}
    BY DEF CopilotInv, CopilotSafety, SessionCreated, CopilotTypeOK, OfficeRecords
  <2>8. sweep' \in SweepRecords
    BY DEF CopilotInv, CopilotSafety, SessionCreated, CopilotTypeOK, SweepRecords
  <2>9. changes' \in 0..MaxChanges /\ mishaps' \in 0..MaxMishaps
    BY DEF CopilotInv, CopilotSafety, SessionCreated, countVars, CopilotTypeOK
  <2> QED
    BY <2>1, <2>2, <2>3, <2>4, <2>5, <2>6, <2>7, <2>8, <2>9 DEF CopilotTypeOK, LeaseRecords,
       SignInRecords, SweepRecords, AccountRecords, SavedRecords, OfficeRecords, LeaseStages
<1>2. PublishedIsOpen'
  BY DEF CopilotInv, CopilotSafety, SessionCreated, stateVars, PublishedIsOpen, CopilotTypeOK
<1>3. LiveIsOwned'
  BY DEF CopilotInv, CopilotSafety, SessionCreated, LiveIsOwned, Live, CopilotTypeOK
<1>4. ClosedIsUnused'
  BY DEF CopilotInv, CopilotSafety, SessionCreated, ClosedIsUnused, Holders, CopilotTypeOK
<1>5. GoneIsGone'
  BY DEF CopilotInv, CopilotSafety, SessionCreated, countVars, GoneIsGone, GoneFits, Live,
     CopilotTypeOK
<1>6. SavedIsTrue'
  BY DEF CopilotInv, CopilotSafety, SessionCreated, stateVars, SavedIsTrue, CopilotTypeOK
<1>7. MadeInOrder'
  BY DEF CopilotInv, CopilotSafety, SessionCreated, MadeInOrder, Made, CopilotTypeOK
<1>8. HeldIsOpen'
  BY DEF CopilotInv, CopilotSafety, SessionCreated, HeldIsOpen, Holders, CopilotTypeOK
<1>9. CreatingIsOpen'
  BY DEF CopilotInv, CopilotSafety, SessionCreated, CreatingIsOpen, OwnedIsMade, CopilotTypeOK
<1>10. OwnedIsMade'
  BY DEF CopilotInv, CopilotSafety, SessionCreated, OwnedIsMade, CopilotTypeOK
<1>11. LeasesFit'
  BY DEF CopilotInv, CopilotSafety, SessionCreated, LeasesFit, PublishedIsOpen, Brokers,
     CopilotTypeOK
<1>12. MakersFit'
  BY DEF CopilotInv, CopilotSafety, SessionCreated, MakersFit, CopilotTypeOK
<1>13. SignInFits'
  BY DEF CopilotInv, CopilotSafety, SessionCreated, stateVars, SignInFits, Brokers, CopilotTypeOK
<1>14. OfficeFits'
  BY DEF CopilotInv, CopilotSafety, SessionCreated, stateVars, OfficeFits, Idle, PublishedIsOpen,
     CopilotTypeOK
<1>15. GoneFits'
  BY DEF CopilotInv, CopilotSafety, SessionCreated, stateVars, countVars, GoneFits,
     PublishedIsOpen, CopilotTypeOK
<1> QED
  BY <1>1, <1>2, <1>3, <1>4, <1>5, <1>6, <1>7, <1>8, <1>9, <1>10, <1>11, <1>12, <1>13, <1>14,
     <1>15 DEF CopilotInv, CopilotSafety

\* The cleanup closes a broker.
LEMMA CopilotSweepCloses == ASSUME CopilotInv, SweepCloses PROVE CopilotInv'
<1>1. /\ broker' \in [Brokers -> {"unmade", "open", "closing", "draining", "stuck", "closed"}]
      /\ \A c \in Brokers : broker'[c] # broker[c] =>
             c # account.broker /\ broker[c] \in {"open", "stuck"} /\ broker'[c] = "closing"
      /\ Made' = Made /\ Live' = Live
      /\ sweep' \in SweepRecords
  <2> DEFINE b == First(sweep.todo)
  <2>1. sweep \in SweepRecords
    BY DEF CopilotInv, CopilotSafety, CopilotTypeOK, SweepRecords
  <2>2. b \in Brokers
    BY <2>1, FirstIsThere DEF SweepCloses, SweepRecords
  <2>3. b \in 0..MaxBrokers
    BY <2>2 DEF Brokers
  <2>4. \/ b = account.broker /\ sweep' = [sweep EXCEPT !.todo = @ \ {b}] /\ broker' = broker
        \/ b # account.broker /\ sweep' = [sweep EXCEPT !.todo = @ \ {b}, !.now = b] /\ Close(b)
    BY DEF SweepCloses, Spared
  <2> HIDE DEF b
  <2>5. CASE b = account.broker /\ sweep' = [sweep EXCEPT !.todo = @ \ {b}] /\ broker' = broker
    <3>1. sweep' \in SweepRecords
      BY <2>1, <2>5 DEF SweepRecords
    <3> QED
      BY <2>5, <3>1 DEF CopilotInv, CopilotSafety, CopilotTypeOK, Made, Live
  <2>6. CASE b # account.broker /\ sweep' = [sweep EXCEPT !.todo = @ \ {b}, !.now = b] /\ Close(b)
    <3> DEFINE s == [sweep EXCEPT !.todo = @ \ {b}]
    <3>1. s = [on |-> sweep.on, now |-> sweep.now, todo |-> sweep.todo \ {b}, failed |-> sweep.failed]
      BY <2>1 DEF SweepRecords
    <3>2. sweep' = [s EXCEPT !.now = b]
      BY <2>6
    <3> HIDE DEF s
    <3>3. sweep' = [on |-> sweep.on, now |-> b, todo |-> sweep.todo \ {b}, failed |-> sweep.failed]
      BY <3>1, <3>2
    <3>4. sweep' \in SweepRecords
      BY <2>1, <2>3, <3>3 DEF SweepRecords
    <3> QED
      BY <2>6, <3>4, BrokerIsAsked DEF CopilotInv, CopilotSafety
  <2> QED
    BY <2>4, <2>5, <2>6
<1>2. UNCHANGED <<stateVars, owners, creating, lease, brokerLock, signIn, attempt, office, closure, countVars>>
  BY DEF SweepCloses
<1>3. CopilotTypeOK'
  <2>1. account' \in AccountRecords /\ saved' \in SavedRecords
    BY <1>1, <1>2 DEF CopilotInv, CopilotSafety, stateVars, CopilotTypeOK, SweepRecords,
       AccountRecords, SavedRecords
  <2>2. unsaved' \in BOOLEAN /\ signedIn' \in BOOLEAN /\ quiet' \in BOOLEAN /\ attempt' \in BOOLEAN
    BY <1>1, <1>2 DEF CopilotInv, CopilotSafety, stateVars, countVars, CopilotTypeOK
  <2>3. /\ broker' \in [Brokers -> {"unmade", "open", "closing", "draining", "stuck", "closed"}]
        /\ owners' \subseteq Brokers /\ creating' \subseteq Brokers
    BY <1>1, <1>2 DEF CopilotInv, CopilotSafety, CopilotTypeOK
  <2>4. lease' \in [Leases -> LeaseRecords]
    BY <1>1, <1>2 DEF CopilotInv, CopilotSafety, CopilotTypeOK, LeaseRecords, SweepRecords,
       LeaseStages
  <2>5. brokerLock' \in Leases \cup {"nobody"}
    BY <1>1, <1>2 DEF CopilotInv, CopilotSafety, CopilotTypeOK
  <2>6. signIn' \in SignInRecords
    BY <1>1, <1>2 DEF CopilotInv, CopilotSafety, CopilotTypeOK, SignInRecords, SweepRecords
  <2>7. office' \in OfficeRecords /\ closure' \in {"open", "asked", "running", "failed", "closed"}
    BY <1>1, <1>2 DEF CopilotInv, CopilotSafety, CopilotTypeOK, SweepRecords, OfficeRecords
  <2>8. sweep' \in SweepRecords
    BY <1>1, <1>2 DEF CopilotInv, CopilotSafety, CopilotTypeOK
  <2>9. changes' \in 0..MaxChanges /\ mishaps' \in 0..MaxMishaps
    BY <1>1, <1>2 DEF CopilotInv, CopilotSafety, countVars, CopilotTypeOK
  <2> QED
    BY <2>1, <2>2, <2>3, <2>4, <2>5, <2>6, <2>7, <2>8, <2>9 DEF CopilotTypeOK, LeaseRecords,
       SignInRecords, SweepRecords, AccountRecords, SavedRecords, OfficeRecords, LeaseStages
<1>4. PublishedIsOpen'
  BY <1>1, <1>2 DEF CopilotInv, CopilotSafety, stateVars, PublishedIsOpen, CopilotTypeOK
<1>5. LiveIsOwned'
  BY <1>1, <1>2 DEF CopilotInv, CopilotSafety, LiveIsOwned, Live, CopilotTypeOK
<1>6. ClosedIsUnused'
  BY <1>1, <1>2 DEF CopilotInv, CopilotSafety, ClosedIsUnused, Holders, CopilotTypeOK
<1>7. GoneIsGone'
  BY <1>1, <1>2 DEF CopilotInv, CopilotSafety, countVars, GoneIsGone, GoneFits, Live,
     CopilotTypeOK
<1>8. SavedIsTrue'
  BY <1>1, <1>2 DEF CopilotInv, CopilotSafety, stateVars, SavedIsTrue, CopilotTypeOK
<1>9. MadeInOrder'
  BY <1>1, <1>2 DEF CopilotInv, CopilotSafety, MadeInOrder, Made, CopilotTypeOK
<1>10. HeldIsOpen'
  BY <1>1, <1>2 DEF CopilotInv, CopilotSafety, HeldIsOpen, Holders, CopilotTypeOK
<1>11. CreatingIsOpen'
  BY <1>1, <1>2 DEF CopilotInv, CopilotSafety, CreatingIsOpen, OwnedIsMade, CopilotTypeOK
<1>12. OwnedIsMade'
  BY <1>1, <1>2 DEF CopilotInv, CopilotSafety, OwnedIsMade, CopilotTypeOK
<1>13. LeasesFit'
  BY <1>1, <1>2 DEF CopilotInv, CopilotSafety, LeasesFit, PublishedIsOpen, Brokers, CopilotTypeOK
<1>14. MakersFit'
  BY <1>1, <1>2 DEF CopilotInv, CopilotSafety, MakersFit, CopilotTypeOK
<1>15. SignInFits'
  BY <1>1, <1>2 DEF CopilotInv, CopilotSafety, stateVars, SignInFits, Brokers, CopilotTypeOK
<1>16. OfficeFits'
  BY <1>1, <1>2 DEF CopilotInv, CopilotSafety, stateVars, OfficeFits, Idle, PublishedIsOpen,
     CopilotTypeOK
<1>17. GoneFits'
  BY <1>1, <1>2 DEF CopilotInv, CopilotSafety, stateVars, countVars, GoneFits, PublishedIsOpen,
     CopilotTypeOK
<1> QED
  BY <1>3, <1>4, <1>5, <1>6, <1>7, <1>8, <1>9, <1>10, <1>11, <1>12, <1>13, <1>14, <1>15, <1>16,
     <1>17 DEF CopilotInv, CopilotSafety

\* It has been closed.
LEMMA CopilotSweepGoesOn == ASSUME CopilotInv, SweepGoesOn PROVE CopilotInv'
<1>1. sweep' \in SweepRecords
  <2>1. sweep \in SweepRecords
    BY DEF CopilotInv, CopilotSafety, CopilotTypeOK, SweepRecords
  <2> DEFINE f == sweep.failed \/ broker[sweep.now] = "stuck"
  <2> DEFINE s == [sweep EXCEPT !.now = 0]
  <2>2. s = [on |-> sweep.on, now |-> 0, todo |-> sweep.todo, failed |-> sweep.failed]
    BY <2>1 DEF SweepRecords
  <2>3. sweep' = [s EXCEPT !.failed = f]
    BY <2>1, <2>2 DEF SweepGoesOn
  <2>4. f \in BOOLEAN
    OBVIOUS
  <2> HIDE DEF s, f
  <2>5. sweep' = [on |-> sweep.on, now |-> 0, todo |-> sweep.todo, failed |-> f]
    BY <2>2, <2>3
  <2>6. 0 \in 0..MaxBrokers
    BY CopilotAssumption DEF CopilotAssumption
  <2> QED
    BY <2>1, <2>4, <2>5, <2>6 DEF SweepRecords
<1>2. CopilotTypeOK'
  <2>1. account' \in AccountRecords /\ saved' \in SavedRecords
    BY <1>1 DEF CopilotInv, CopilotSafety, SweepGoesOn, Settled, Disown, stateVars,
       CopilotTypeOK, SweepRecords, AccountRecords, SavedRecords
  <2>2. unsaved' \in BOOLEAN /\ signedIn' \in BOOLEAN /\ quiet' \in BOOLEAN /\ attempt' \in BOOLEAN
    BY <1>1 DEF CopilotInv, CopilotSafety, SweepGoesOn, Settled, Disown, stateVars, countVars,
       CopilotTypeOK
  <2>3. /\ broker' \in [Brokers -> {"unmade", "open", "closing", "draining", "stuck", "closed"}]
        /\ owners' \subseteq Brokers /\ creating' \subseteq Brokers
    BY <1>1 DEF CopilotInv, CopilotSafety, SweepGoesOn, Settled, Disown, CopilotTypeOK
  <2>4. lease' \in [Leases -> LeaseRecords]
    BY <1>1 DEF CopilotInv, CopilotSafety, SweepGoesOn, Settled, Disown, CopilotTypeOK,
       LeaseRecords, SweepRecords, LeaseStages
  <2>5. brokerLock' \in Leases \cup {"nobody"}
    BY <1>1 DEF CopilotInv, CopilotSafety, SweepGoesOn, Settled, Disown, CopilotTypeOK
  <2>6. signIn' \in SignInRecords
    BY <1>1 DEF CopilotInv, CopilotSafety, SweepGoesOn, Settled, Disown, CopilotTypeOK,
       SignInRecords, SweepRecords
  <2>7. office' \in OfficeRecords /\ closure' \in {"open", "asked", "running", "failed", "closed"}
    BY <1>1 DEF CopilotInv, CopilotSafety, SweepGoesOn, Settled, Disown, CopilotTypeOK,
       SweepRecords, OfficeRecords
  <2>8. sweep' \in SweepRecords
    BY <1>1 DEF CopilotInv, CopilotSafety, SweepGoesOn, Settled, Disown, CopilotTypeOK
  <2>9. changes' \in 0..MaxChanges /\ mishaps' \in 0..MaxMishaps
    BY <1>1 DEF CopilotInv, CopilotSafety, SweepGoesOn, Settled, Disown, countVars, CopilotTypeOK
  <2> QED
    BY <2>1, <2>2, <2>3, <2>4, <2>5, <2>6, <2>7, <2>8, <2>9 DEF CopilotTypeOK, LeaseRecords,
       SignInRecords, SweepRecords, AccountRecords, SavedRecords, OfficeRecords, LeaseStages
<1>3. PublishedIsOpen'
  BY <1>1 DEF CopilotInv, CopilotSafety, SweepGoesOn, Settled, Disown, stateVars,
     PublishedIsOpen, CopilotTypeOK
<1>4. LiveIsOwned'
  BY <1>1 DEF CopilotInv, CopilotSafety, SweepGoesOn, Settled, Disown, LiveIsOwned, Live,
     CopilotTypeOK
<1>5. ClosedIsUnused'
  BY <1>1 DEF CopilotInv, CopilotSafety, SweepGoesOn, Settled, Disown, ClosedIsUnused, Holders,
     CopilotTypeOK
<1>6. GoneIsGone'
  BY <1>1 DEF CopilotInv, CopilotSafety, SweepGoesOn, Settled, Disown, countVars, GoneIsGone,
     GoneFits, Live, CopilotTypeOK
<1>7. SavedIsTrue'
  BY <1>1 DEF CopilotInv, CopilotSafety, SweepGoesOn, Settled, Disown, stateVars, SavedIsTrue,
     CopilotTypeOK
<1>8. MadeInOrder'
  BY <1>1 DEF CopilotInv, CopilotSafety, SweepGoesOn, Settled, Disown, MadeInOrder, Made,
     CopilotTypeOK
<1>9. HeldIsOpen'
  BY <1>1 DEF CopilotInv, CopilotSafety, SweepGoesOn, Settled, Disown, HeldIsOpen, Holders,
     CopilotTypeOK
<1>10. CreatingIsOpen'
  BY <1>1 DEF CopilotInv, CopilotSafety, SweepGoesOn, Settled, Disown, CreatingIsOpen,
     OwnedIsMade, CopilotTypeOK
<1>11. OwnedIsMade'
  BY <1>1 DEF CopilotInv, CopilotSafety, SweepGoesOn, Settled, Disown, OwnedIsMade, CopilotTypeOK
<1>12. LeasesFit'
  BY <1>1 DEF CopilotInv, CopilotSafety, SweepGoesOn, Settled, Disown, LeasesFit,
     PublishedIsOpen, Brokers, CopilotTypeOK
<1>13. MakersFit'
  BY <1>1 DEF CopilotInv, CopilotSafety, SweepGoesOn, Settled, Disown, MakersFit, CopilotTypeOK
<1>14. SignInFits'
  BY <1>1 DEF CopilotInv, CopilotSafety, SweepGoesOn, Settled, Disown, stateVars, SignInFits,
     Brokers, CopilotTypeOK
<1>15. OfficeFits'
  BY <1>1 DEF CopilotInv, CopilotSafety, SweepGoesOn, Settled, Disown, stateVars, OfficeFits,
     Idle, PublishedIsOpen, CopilotTypeOK
<1>16. GoneFits'
  BY <1>1 DEF CopilotInv, CopilotSafety, SweepGoesOn, Settled, Disown, stateVars, countVars,
     GoneFits, PublishedIsOpen, CopilotTypeOK
<1> QED
  BY <1>2, <1>3, <1>4, <1>5, <1>6, <1>7, <1>8, <1>9, <1>10, <1>11, <1>12, <1>13, <1>14, <1>15,
     <1>16 DEF CopilotInv, CopilotSafety

\* The cleanup is over.
LEMMA CopilotSweepEnds == ASSUME CopilotInv, SweepEnds PROVE CopilotInv'
<1>1. CopilotTypeOK'
  <2>1. account' \in AccountRecords /\ saved' \in SavedRecords
    BY DEF CopilotInv, CopilotSafety, SweepEnds, stateVars, CopilotTypeOK, AccountRecords,
       SavedRecords
  <2>2. unsaved' \in BOOLEAN /\ signedIn' \in BOOLEAN /\ quiet' \in BOOLEAN /\ attempt' \in BOOLEAN
    BY DEF CopilotInv, CopilotSafety, SweepEnds, stateVars, countVars, CopilotTypeOK
  <2>3. /\ broker' \in [Brokers -> {"unmade", "open", "closing", "draining", "stuck", "closed"}]
        /\ owners' \subseteq Brokers /\ creating' \subseteq Brokers
    BY DEF CopilotInv, CopilotSafety, SweepEnds, brokerVars, CopilotTypeOK
  <2>4. lease' \in [Leases -> LeaseRecords]
    BY DEF CopilotInv, CopilotSafety, SweepEnds, CopilotTypeOK, LeaseRecords, LeaseStages
  <2>5. brokerLock' \in Leases \cup {"nobody"}
    BY DEF CopilotInv, CopilotSafety, SweepEnds, CopilotTypeOK
  <2>6. signIn' \in SignInRecords
    BY DEF CopilotInv, CopilotSafety, SweepEnds, CopilotTypeOK, SignInRecords
  <2>7. office' \in OfficeRecords /\ closure' \in {"open", "asked", "running", "failed", "closed"}
    BY DEF CopilotInv, CopilotSafety, SweepEnds, CopilotTypeOK, OfficeRecords
  <2>8. sweep' \in SweepRecords
    BY DEF CopilotInv, CopilotSafety, SweepEnds, CopilotTypeOK, SweepRecords
  <2>9. changes' \in 0..MaxChanges /\ mishaps' \in 0..MaxMishaps
    BY DEF CopilotInv, CopilotSafety, SweepEnds, countVars, CopilotTypeOK
  <2> QED
    BY <2>1, <2>2, <2>3, <2>4, <2>5, <2>6, <2>7, <2>8, <2>9 DEF CopilotTypeOK, LeaseRecords,
       SignInRecords, SweepRecords, AccountRecords, SavedRecords, OfficeRecords, LeaseStages
<1>2. PublishedIsOpen'
  BY DEF CopilotInv, CopilotSafety, SweepEnds, stateVars, brokerVars, PublishedIsOpen,
     CopilotTypeOK
<1>3. LiveIsOwned'
  BY DEF CopilotInv, CopilotSafety, SweepEnds, brokerVars, LiveIsOwned, Live, CopilotTypeOK
<1>4. ClosedIsUnused'
  BY DEF CopilotInv, CopilotSafety, SweepEnds, brokerVars, ClosedIsUnused, Holders, CopilotTypeOK
<1>5. GoneIsGone'
  BY DEF CopilotInv, CopilotSafety, SweepEnds, brokerVars, countVars, GoneIsGone, GoneFits, Live,
     CopilotTypeOK
<1>6. SavedIsTrue'
  BY DEF CopilotInv, CopilotSafety, SweepEnds, stateVars, SavedIsTrue, CopilotTypeOK
<1>7. MadeInOrder'
  BY DEF CopilotInv, CopilotSafety, SweepEnds, brokerVars, MadeInOrder, Made, CopilotTypeOK
<1>8. HeldIsOpen'
  BY DEF CopilotInv, CopilotSafety, SweepEnds, brokerVars, HeldIsOpen, Holders, CopilotTypeOK
<1>9. CreatingIsOpen'
  BY DEF CopilotInv, CopilotSafety, SweepEnds, brokerVars, CreatingIsOpen, OwnedIsMade,
     CopilotTypeOK
<1>10. OwnedIsMade'
  BY DEF CopilotInv, CopilotSafety, SweepEnds, brokerVars, OwnedIsMade, CopilotTypeOK
<1>11. LeasesFit'
  BY DEF CopilotInv, CopilotSafety, SweepEnds, brokerVars, LeasesFit, PublishedIsOpen, Brokers,
     CopilotTypeOK
<1>12. MakersFit'
  BY DEF CopilotInv, CopilotSafety, SweepEnds, MakersFit, CopilotTypeOK
<1>13. SignInFits'
  BY DEF CopilotInv, CopilotSafety, SweepEnds, stateVars, brokerVars, SignInFits, Brokers,
     CopilotTypeOK
<1>14. OfficeFits'
  BY DEF CopilotInv, CopilotSafety, SweepEnds, stateVars, OfficeFits, Idle, PublishedIsOpen,
     CopilotTypeOK
<1>15. GoneFits'
  BY DEF CopilotInv, CopilotSafety, SweepEnds, stateVars, countVars, GoneFits, PublishedIsOpen,
     CopilotTypeOK
<1> QED
  BY <1>1, <1>2, <1>3, <1>4, <1>5, <1>6, <1>7, <1>8, <1>9, <1>10, <1>11, <1>12, <1>13, <1>14,
     <1>15 DEF CopilotInv, CopilotSafety

\* The profile is signed out.
LEMMA CopilotSignOut == ASSUME CopilotInv, SignOut PROVE CopilotInv'
<1>1. mishaps' \in 0..MaxMishaps
  BY CopilotAssumption DEF SignOut, Mishap, CopilotInv, CopilotSafety, CopilotTypeOK,
     CopilotAssumption
<1>2. CopilotTypeOK'
  <2>1. account' \in AccountRecords /\ saved' \in SavedRecords
    BY <1>1 DEF CopilotInv, CopilotSafety, SignOut, Mishap, stateVars, CopilotTypeOK,
       AccountRecords, SavedRecords
  <2>2. unsaved' \in BOOLEAN /\ signedIn' \in BOOLEAN /\ quiet' \in BOOLEAN /\ attempt' \in BOOLEAN
    BY <1>1 DEF CopilotInv, CopilotSafety, SignOut, Mishap, stateVars, CopilotTypeOK
  <2>3. /\ broker' \in [Brokers -> {"unmade", "open", "closing", "draining", "stuck", "closed"}]
        /\ owners' \subseteq Brokers /\ creating' \subseteq Brokers
    BY <1>1 DEF CopilotInv, CopilotSafety, SignOut, Mishap, brokerVars, CopilotTypeOK
  <2>4. lease' \in [Leases -> LeaseRecords]
    BY <1>1 DEF CopilotInv, CopilotSafety, SignOut, Mishap, CopilotTypeOK, LeaseRecords,
       LeaseStages
  <2>5. brokerLock' \in Leases \cup {"nobody"}
    BY <1>1 DEF CopilotInv, CopilotSafety, SignOut, Mishap, CopilotTypeOK
  <2>6. signIn' \in SignInRecords
    BY <1>1 DEF CopilotInv, CopilotSafety, SignOut, Mishap, CopilotTypeOK, SignInRecords
  <2>7. office' \in OfficeRecords /\ closure' \in {"open", "asked", "running", "failed", "closed"}
    BY <1>1 DEF CopilotInv, CopilotSafety, SignOut, Mishap, CopilotTypeOK, OfficeRecords
  <2>8. sweep' \in SweepRecords
    BY <1>1 DEF CopilotInv, CopilotSafety, SignOut, Mishap, CopilotTypeOK, SweepRecords
  <2>9. changes' \in 0..MaxChanges /\ mishaps' \in 0..MaxMishaps
    BY <1>1 DEF CopilotInv, CopilotSafety, SignOut, Mishap, CopilotTypeOK
  <2> QED
    BY <2>1, <2>2, <2>3, <2>4, <2>5, <2>6, <2>7, <2>8, <2>9 DEF CopilotTypeOK, LeaseRecords,
       SignInRecords, SweepRecords, AccountRecords, SavedRecords, OfficeRecords, LeaseStages
<1>3. PublishedIsOpen'
  BY <1>1 DEF CopilotInv, CopilotSafety, SignOut, Mishap, stateVars, brokerVars, PublishedIsOpen,
     CopilotTypeOK
<1>4. LiveIsOwned'
  BY <1>1 DEF CopilotInv, CopilotSafety, SignOut, Mishap, brokerVars, LiveIsOwned, Live,
     CopilotTypeOK
<1>5. ClosedIsUnused'
  BY <1>1 DEF CopilotInv, CopilotSafety, SignOut, Mishap, brokerVars, ClosedIsUnused, Holders,
     CopilotTypeOK
<1>6. GoneIsGone'
  BY <1>1 DEF CopilotInv, CopilotSafety, SignOut, Mishap, brokerVars, GoneIsGone, GoneFits, Live,
     CopilotTypeOK
<1>7. SavedIsTrue'
  BY <1>1 DEF CopilotInv, CopilotSafety, SignOut, Mishap, stateVars, SavedIsTrue, CopilotTypeOK
<1>8. MadeInOrder'
  BY <1>1 DEF CopilotInv, CopilotSafety, SignOut, Mishap, brokerVars, MadeInOrder, Made,
     CopilotTypeOK
<1>9. HeldIsOpen'
  BY <1>1 DEF CopilotInv, CopilotSafety, SignOut, Mishap, brokerVars, HeldIsOpen, Holders,
     CopilotTypeOK
<1>10. CreatingIsOpen'
  BY <1>1 DEF CopilotInv, CopilotSafety, SignOut, Mishap, brokerVars, CreatingIsOpen,
     OwnedIsMade, CopilotTypeOK
<1>11. OwnedIsMade'
  BY <1>1 DEF CopilotInv, CopilotSafety, SignOut, Mishap, brokerVars, OwnedIsMade, CopilotTypeOK
<1>12. LeasesFit'
  BY <1>1 DEF CopilotInv, CopilotSafety, SignOut, Mishap, brokerVars, LeasesFit, PublishedIsOpen,
     Brokers, CopilotTypeOK
<1>13. MakersFit'
  BY <1>1 DEF CopilotInv, CopilotSafety, SignOut, Mishap, MakersFit, CopilotTypeOK
<1>14. SignInFits'
  BY <1>1 DEF CopilotInv, CopilotSafety, SignOut, Mishap, stateVars, brokerVars, SignInFits,
     Brokers, CopilotTypeOK
<1>15. OfficeFits'
  BY <1>1 DEF CopilotInv, CopilotSafety, SignOut, Mishap, stateVars, OfficeFits, Idle,
     PublishedIsOpen, CopilotTypeOK
<1>16. GoneFits'
  BY <1>1 DEF CopilotInv, CopilotSafety, SignOut, Mishap, stateVars, GoneFits, PublishedIsOpen,
     CopilotTypeOK
<1> QED
  BY <1>2, <1>3, <1>4, <1>5, <1>6, <1>7, <1>8, <1>9, <1>10, <1>11, <1>12, <1>13, <1>14, <1>15,
     <1>16 DEF CopilotInv, CopilotSafety

\* A request reads the revision.
LEMMA CopilotBeginLease == ASSUME CopilotInv, NEW r \in Leases, BeginLease(r) PROVE CopilotInv'
<1>1. /\ lease' \in [Leases -> LeaseRecords]
      /\ \A q \in Leases : q # r => lease'[q] = lease[q]
      /\ lease'[r].at = "locking"
  <2> DEFINE s == [NoLease EXCEPT !.at = "locking"]
  <2> DEFINE l == [s EXCEPT !.revision = account.revision]
  <2>1. s = [at |-> "locking", broker |-> 0, revision |-> 0, made |-> 0]
    BY DEF NoLease
  <2>2. lease' = [lease EXCEPT ![r] = l]
    BY DEF BeginLease
  <2> HIDE DEF s
  <2>3. l = [at |-> "locking", broker |-> 0, revision |-> account.revision, made |-> 0]
    BY <2>1
  <2>4. l \in LeaseRecords
    BY <2>3, CopilotAssumption DEF LeaseRecords, LeaseStages, CopilotInv, CopilotSafety,
       CopilotTypeOK, CopilotAssumption
  <2> HIDE DEF l
  <2> QED
    BY <2>2, <2>3, <2>4, LeaseSet DEF CopilotInv, CopilotSafety
<1>2. lease[r].at = "idle"
  BY DEF BeginLease
<1>3. UNCHANGED <<stateVars, brokerVars, brokerLock, signIn, attempt, office, closure, sweep, countVars>>
  BY DEF BeginLease
<1>4. CopilotTypeOK'
  <2>1. account' \in AccountRecords /\ saved' \in SavedRecords
    BY <1>1, <1>2, <1>3 DEF CopilotInv, CopilotSafety, stateVars, CopilotTypeOK, LeaseRecords,
       AccountRecords, SavedRecords, LeaseStages
  <2>2. unsaved' \in BOOLEAN /\ signedIn' \in BOOLEAN /\ quiet' \in BOOLEAN /\ attempt' \in BOOLEAN
    BY <1>1, <1>2, <1>3 DEF CopilotInv, CopilotSafety, stateVars, countVars, CopilotTypeOK
  <2>3. /\ broker' \in [Brokers -> {"unmade", "open", "closing", "draining", "stuck", "closed"}]
        /\ owners' \subseteq Brokers /\ creating' \subseteq Brokers
    BY <1>1, <1>2, <1>3 DEF CopilotInv, CopilotSafety, brokerVars, CopilotTypeOK
  <2>4. lease' \in [Leases -> LeaseRecords]
    BY <1>1, <1>2, <1>3 DEF CopilotInv, CopilotSafety, CopilotTypeOK
  <2>5. brokerLock' \in Leases \cup {"nobody"}
    BY <1>1, <1>2, <1>3 DEF CopilotInv, CopilotSafety, CopilotTypeOK
  <2>6. signIn' \in SignInRecords
    BY <1>1, <1>2, <1>3 DEF CopilotInv, CopilotSafety, CopilotTypeOK, LeaseRecords,
       SignInRecords, LeaseStages
  <2>7. office' \in OfficeRecords /\ closure' \in {"open", "asked", "running", "failed", "closed"}
    BY <1>1, <1>2, <1>3 DEF CopilotInv, CopilotSafety, CopilotTypeOK, LeaseRecords,
       OfficeRecords, LeaseStages
  <2>8. sweep' \in SweepRecords
    BY <1>1, <1>2, <1>3 DEF CopilotInv, CopilotSafety, CopilotTypeOK, LeaseRecords, SweepRecords,
       LeaseStages
  <2>9. changes' \in 0..MaxChanges /\ mishaps' \in 0..MaxMishaps
    BY <1>1, <1>2, <1>3 DEF CopilotInv, CopilotSafety, countVars, CopilotTypeOK
  <2> QED
    BY <2>1, <2>2, <2>3, <2>4, <2>5, <2>6, <2>7, <2>8, <2>9 DEF CopilotTypeOK, LeaseRecords,
       SignInRecords, SweepRecords, AccountRecords, SavedRecords, OfficeRecords, LeaseStages
<1>5. PublishedIsOpen'
  BY <1>1, <1>2, <1>3 DEF CopilotInv, CopilotSafety, stateVars, brokerVars, PublishedIsOpen,
     CopilotTypeOK
<1>6. LiveIsOwned'
  BY <1>1, <1>2, <1>3 DEF CopilotInv, CopilotSafety, brokerVars, LiveIsOwned, Live, CopilotTypeOK
<1>7. ClosedIsUnused'
  BY <1>1, <1>2, <1>3 DEF CopilotInv, CopilotSafety, brokerVars, ClosedIsUnused, Holders,
     CopilotTypeOK
<1>8. GoneIsGone'
  BY <1>1, <1>2, <1>3 DEF CopilotInv, CopilotSafety, brokerVars, countVars, GoneIsGone, GoneFits,
     Live, CopilotTypeOK
<1>9. SavedIsTrue'
  BY <1>1, <1>2, <1>3 DEF CopilotInv, CopilotSafety, stateVars, SavedIsTrue, CopilotTypeOK
<1>10. MadeInOrder'
  BY <1>1, <1>2, <1>3 DEF CopilotInv, CopilotSafety, brokerVars, MadeInOrder, Made, CopilotTypeOK
<1>11. HeldIsOpen'
  BY <1>1, <1>2, <1>3 DEF CopilotInv, CopilotSafety, brokerVars, HeldIsOpen, Holders,
     CopilotTypeOK
<1>12. CreatingIsOpen'
  BY <1>1, <1>2, <1>3 DEF CopilotInv, CopilotSafety, brokerVars, CreatingIsOpen, OwnedIsMade,
     CopilotTypeOK
<1>13. OwnedIsMade'
  BY <1>1, <1>2, <1>3 DEF CopilotInv, CopilotSafety, brokerVars, OwnedIsMade, CopilotTypeOK
<1>14. LeasesFit'
  <2>1. \A c \in Brokers : broker[c] # "unmade" => broker'[c] # "unmade"
    BY <1>1, <1>2, <1>3 DEF brokerVars
  <2>2. lease'[r].at \in {"entering", "opening", "streaming", "discarding"} =>
            lease'[r].broker \in Brokers /\ broker'[lease'[r].broker] # "unmade"
    BY <1>1, <1>2, <1>3, <2>1 DEF CopilotInv, LeasesFit
  <2>3. ASSUME NEW q \in Leases, q # r, lease'[q].at \in {"entering", "opening", "streaming", "discarding"}
        PROVE  lease'[q].broker \in Brokers /\ broker'[lease'[q].broker] # "unmade"
    <3>1. lease'[q] = lease[q]
      BY <1>1, <1>2, <1>3, <2>3
    <3>2. lease[q].broker \in Brokers /\ broker[lease[q].broker] # "unmade"
      BY <2>3, <3>1 DEF CopilotInv, LeasesFit
    <3> QED
      BY <2>1, <3>1, <3>2
  <2> QED
    BY <2>2, <2>3 DEF LeasesFit
<1>15. MakersFit'
  BY <1>1, <1>2, <1>3 DEF CopilotInv, CopilotSafety, MakersFit, CopilotTypeOK
<1>16. SignInFits'
  BY <1>1, <1>2, <1>3 DEF CopilotInv, CopilotSafety, stateVars, brokerVars, SignInFits, Brokers,
     CopilotTypeOK
<1>17. OfficeFits'
  BY <1>1, <1>2, <1>3 DEF CopilotInv, CopilotSafety, stateVars, OfficeFits, Idle,
     PublishedIsOpen, CopilotTypeOK
<1>18. GoneFits'
  BY <1>1, <1>2, <1>3 DEF CopilotInv, CopilotSafety, stateVars, countVars, GoneFits,
     PublishedIsOpen, CopilotTypeOK
<1> QED
  BY <1>4, <1>5, <1>6, <1>7, <1>8, <1>9, <1>10, <1>11, <1>12, <1>13, <1>14, <1>15, <1>16,
     <1>17, <1>18 DEF CopilotInv, CopilotSafety

\* It takes a broker, or the lock.
LEMMA CopilotLocked == ASSUME CopilotInv, NEW r \in Leases, Locked(r) PROVE CopilotInv'
<1>1. /\ lease' \in [Leases -> LeaseRecords]
      /\ \A q \in Leases : q # r => lease'[q] = lease[q]
      /\ \/ lease'[r].at = "ended" /\ brokerLock' = brokerLock
         \/ /\ lease'[r].at = "entering" /\ lease'[r].broker = account.broker /\ account.broker # 0
            /\ brokerLock' = brokerLock
         \/ lease'[r].at = "making" /\ brokerLock' = r /\ account.enabled /\ closure = "open"
  <2>1. "ended" \in LeaseStages /\ "entering" \in LeaseStages /\ "making" \in LeaseStages
    BY DEF LeaseStages
  <2>2. CopilotTypeOK /\ account.broker \in 0..MaxBrokers /\ account.revision \in Nat
    BY DEF CopilotInv, CopilotSafety, CopilotTypeOK
  <2>3. CASE LeaseTo(r, "ended") /\ UNCHANGED brokerLock
    BY <2>1, <2>2, <2>3, LeaseMoved
  <2>4. CASE /\ account.broker # 0 /\ lease' = [lease EXCEPT ![r].at = "entering", ![r].broker = account.broker]
             /\ UNCHANGED brokerLock
    <3>1. PICK b \in 0..MaxBrokers :
              b = account.broker /\ lease' = [lease EXCEPT ![r].at = "entering", ![r].broker = b]
      BY <2>2, <2>4
    <3>2. CopilotTypeOK /\ "entering" \in LeaseStages
      BY <2>1, <2>2
    <3>3. LeaseTakes(r, "entering", b)
      BY <3>1 DEF LeaseTakes
    <3>4. /\ lease' \in [Leases -> LeaseRecords] /\ lease'[r].at = "entering" /\ lease'[r].broker = b
          /\ \A q \in Leases : q # r => lease'[q] = lease[q]
      BY <3>2, <3>3, LeaseGiven
    <3> QED
      BY <2>4, <3>1, <3>4
  <2>5. CASE /\ lease' = [lease EXCEPT ![r].at = "making", ![r].made = account.revision] /\ brokerLock' = r
             /\ account.enabled /\ closure = "open"
    <3> DEFINE v == account.revision
    <3>1. v \in Nat /\ lease' = [lease EXCEPT ![r].at = "making", ![r].made = v]
      BY <2>2, <2>5
    <3> HIDE DEF v
    <3>2. /\ lease' \in [Leases -> LeaseRecords] /\ lease'[r].at = "making"
          /\ \A q \in Leases : q # r => lease'[q] = lease[q]
      BY <2>1, <2>2, <3>1, LeaseMaking
    <3> QED
      BY <2>5, <3>2
  <2> QED
    BY <2>3, <2>4, <2>5 DEF Locked, ManagerIsClosed
<1>2. lease[r].at = "locking" /\ brokerLock = "nobody"
  BY DEF Locked
<1>3. UNCHANGED <<stateVars, brokerVars, signIn, attempt, office, closure, sweep, countVars>>
  BY DEF Locked
<1>4. \A c \in Brokers : Holders(c)' \subseteq Holders(c)
  BY <1>1 DEF Holders
<1>5. CopilotTypeOK'
  <2>1. account' \in AccountRecords /\ saved' \in SavedRecords
    BY <1>1, <1>2, <1>3, <1>4 DEF CopilotInv, CopilotSafety, stateVars, CopilotTypeOK,
       LeaseRecords, AccountRecords, SavedRecords, LeaseStages
  <2>2. unsaved' \in BOOLEAN /\ signedIn' \in BOOLEAN /\ quiet' \in BOOLEAN /\ attempt' \in BOOLEAN
    BY <1>1, <1>2, <1>3, <1>4 DEF CopilotInv, CopilotSafety, stateVars, countVars, CopilotTypeOK
  <2>3. /\ broker' \in [Brokers -> {"unmade", "open", "closing", "draining", "stuck", "closed"}]
        /\ owners' \subseteq Brokers /\ creating' \subseteq Brokers
    BY <1>1, <1>2, <1>3, <1>4 DEF CopilotInv, CopilotSafety, brokerVars, CopilotTypeOK
  <2>4. lease' \in [Leases -> LeaseRecords]
    BY <1>1, <1>2, <1>3, <1>4 DEF CopilotInv, CopilotSafety, CopilotTypeOK
  <2>5. brokerLock' \in Leases \cup {"nobody"}
    BY <1>1, <1>2, <1>3, <1>4 DEF CopilotInv, CopilotSafety, CopilotTypeOK
  <2>6. signIn' \in SignInRecords
    BY <1>1, <1>2, <1>3, <1>4 DEF CopilotInv, CopilotSafety, CopilotTypeOK, LeaseRecords,
       SignInRecords, LeaseStages
  <2>7. office' \in OfficeRecords /\ closure' \in {"open", "asked", "running", "failed", "closed"}
    BY <1>1, <1>2, <1>3, <1>4 DEF CopilotInv, CopilotSafety, CopilotTypeOK, LeaseRecords,
       OfficeRecords, LeaseStages
  <2>8. sweep' \in SweepRecords
    BY <1>1, <1>2, <1>3, <1>4 DEF CopilotInv, CopilotSafety, CopilotTypeOK, LeaseRecords,
       SweepRecords, LeaseStages
  <2>9. changes' \in 0..MaxChanges /\ mishaps' \in 0..MaxMishaps
    BY <1>1, <1>2, <1>3, <1>4 DEF CopilotInv, CopilotSafety, countVars, CopilotTypeOK
  <2> QED
    BY <2>1, <2>2, <2>3, <2>4, <2>5, <2>6, <2>7, <2>8, <2>9 DEF CopilotTypeOK, LeaseRecords,
       SignInRecords, SweepRecords, AccountRecords, SavedRecords, OfficeRecords, LeaseStages
<1>6. PublishedIsOpen'
  BY <1>1, <1>2, <1>3, <1>4 DEF CopilotInv, CopilotSafety, stateVars, brokerVars,
     PublishedIsOpen, CopilotTypeOK
<1>7. LiveIsOwned'
  BY <1>1, <1>2, <1>3, <1>4 DEF CopilotInv, CopilotSafety, brokerVars, LiveIsOwned, Live,
     CopilotTypeOK
<1>8. ClosedIsUnused'
  BY <1>3, <1>4 DEF CopilotInv, CopilotSafety, ClosedIsUnused, brokerVars
<1>9. GoneIsGone'
  BY <1>1, <1>2, <1>3, <1>4 DEF CopilotInv, CopilotSafety, brokerVars, countVars, GoneIsGone,
     GoneFits, Live, CopilotTypeOK
<1>10. SavedIsTrue'
  BY <1>1, <1>2, <1>3, <1>4 DEF CopilotInv, CopilotSafety, stateVars, SavedIsTrue, CopilotTypeOK
<1>11. MadeInOrder'
  BY <1>1, <1>2, <1>3, <1>4 DEF CopilotInv, CopilotSafety, brokerVars, MadeInOrder, Made,
     CopilotTypeOK
<1>12. HeldIsOpen'
  BY <1>3, <1>4 DEF CopilotInv, HeldIsOpen, brokerVars
<1>13. CreatingIsOpen'
  BY <1>1, <1>2, <1>3, <1>4 DEF CopilotInv, CopilotSafety, brokerVars, CreatingIsOpen,
     OwnedIsMade, CopilotTypeOK
<1>14. OwnedIsMade'
  BY <1>1, <1>2, <1>3, <1>4 DEF CopilotInv, CopilotSafety, brokerVars, OwnedIsMade, CopilotTypeOK
<1>15. LeasesFit'
  <2>1. \A c \in Brokers : broker[c] # "unmade" => broker'[c] # "unmade"
    BY <1>1, <1>2, <1>3, <1>4 DEF brokerVars
  <2>2. lease'[r].at \in {"entering", "opening", "streaming", "discarding"} =>
            lease'[r].broker \in Brokers /\ broker'[lease'[r].broker] # "unmade"
    BY <1>1, <1>2, <1>3, <1>4, <2>1 DEF CopilotInv, LeasesFit, CopilotSafety, PublishedIsOpen,
       CopilotTypeOK
  <2>3. ASSUME NEW q \in Leases, q # r, lease'[q].at \in {"entering", "opening", "streaming", "discarding"}
        PROVE  lease'[q].broker \in Brokers /\ broker'[lease'[q].broker] # "unmade"
    <3>1. lease'[q] = lease[q]
      BY <1>1, <1>2, <1>3, <1>4, <2>3
    <3>2. lease[q].broker \in Brokers /\ broker[lease[q].broker] # "unmade"
      BY <2>3, <3>1 DEF CopilotInv, LeasesFit
    <3> QED
      BY <2>1, <3>1, <3>2
  <2> QED
    BY <2>2, <2>3 DEF LeasesFit
<1>16. MakersFit'
  BY <1>1, <1>2, <1>3, <1>4, CopilotAssumption DEF CopilotInv, CopilotSafety, MakersFit,
     CopilotTypeOK, CopilotAssumption
<1>17. SignInFits'
  BY <1>1, <1>2, <1>3, <1>4 DEF CopilotInv, CopilotSafety, stateVars, brokerVars, SignInFits,
     Brokers, CopilotTypeOK
<1>18. OfficeFits'
  BY <1>1, <1>2, <1>3, <1>4 DEF CopilotInv, CopilotSafety, stateVars, OfficeFits, Idle,
     PublishedIsOpen, CopilotTypeOK
<1>19. GoneFits'
  BY <1>1, <1>2, <1>3, <1>4 DEF CopilotInv, CopilotSafety, stateVars, countVars, GoneFits,
     PublishedIsOpen, CopilotTypeOK
<1> QED
  BY <1>5, <1>6, <1>7, <1>8, <1>9, <1>10, <1>11, <1>12, <1>13, <1>14, <1>15, <1>16, <1>17,
     <1>18, <1>19 DEF CopilotInv, CopilotSafety

\* It has made a broker.
LEMMA CopilotConstructed == ASSUME CopilotInv, NEW r \in Leases, Constructed(r) PROVE CopilotInv'
<1>1. PICK b \in Brokers :
        IF Wanted(r)
        THEN /\ Make(b, "open") /\ account' = [account EXCEPT !.broker = b] /\ brokerLock' = "nobody"
             /\ lease' = [lease EXCEPT ![r].at = "entering", ![r].broker = b]
        ELSE /\ Make(b, "closing")
             /\ lease' = [lease EXCEPT ![r].at = "discarding", ![r].broker = b]
             /\ UNCHANGED <<account, brokerLock>>
  BY DEF Constructed
<1>2. /\ b \in Brokers /\ b \in 1..MaxBrokers /\ b # 0 /\ broker[b] = "unmade"
      /\ broker' \in [Brokers -> {"unmade", "open", "closing", "draining", "stuck", "closed"}]
      /\ broker'[b] = (IF Wanted(r) THEN "open" ELSE "closing") /\ \A c \in Brokers : c # b => broker'[c] = broker[c]
      /\ owners' = owners \cup {b} /\ creating' = creating /\ MadeInOrder'
  BY <1>1, NextIsMade DEF CopilotInv, CopilotSafety
<1>3. /\ lease' \in [Leases -> LeaseRecords]
      /\ \A q \in Leases : q # r => lease'[q] = lease[q]
      /\ lease'[r].at = (IF Wanted(r) THEN "entering" ELSE "discarding") /\ lease'[r].broker = b
  <2>1. "entering" \in LeaseStages /\ "discarding" \in LeaseStages /\ b \in 0..MaxBrokers
    BY DEF Brokers, LeaseStages
  <2>2. CopilotTypeOK
    BY DEF CopilotInv, CopilotSafety
  <2>3. CASE Wanted(r)
    <3>1. LeaseTakes(r, "entering", b)
      BY <1>1, <2>3 DEF LeaseTakes
    <3> QED
      BY <2>1, <2>2, <2>3, <3>1, LeaseGiven
  <2>4. CASE ~Wanted(r)
    <3>1. LeaseTakes(r, "discarding", b)
      BY <1>1, <2>4 DEF LeaseTakes
    <3> QED
      BY <2>1, <2>2, <2>4, <3>1, LeaseGiven
  <2> QED
    BY <2>3, <2>4
<1>4. /\ account' \in AccountRecords /\ account'.enabled = account.enabled
      /\ account'.revision = account.revision
      /\ account'.broker = (IF Wanted(r) THEN b ELSE account.broker)
      /\ brokerLock' = (IF Wanted(r) THEN "nobody" ELSE brokerLock)
  BY <1>1, <1>2 DEF AccountRecords, CopilotInv, CopilotSafety, CopilotTypeOK
<1>5. /\ lease[r].at = "making" /\ brokerLock = r /\ brokerLock # "nobody"
      /\ Wanted(r) => account.enabled /\ closure = "open"
  BY CopilotAssumption DEF Constructed, Wanted, ManagerIsClosed, MakersFit, CopilotInv,
     CopilotAssumption
<1>6. UNCHANGED <<saved, unsaved, signIn, attempt, office, closure, sweep, countVars>>
  BY DEF Constructed
<1>7. CopilotTypeOK'
  <2>1. account' \in AccountRecords /\ saved' \in SavedRecords
    BY <1>1, <1>2, <1>3, <1>4, <1>5, <1>6 DEF CopilotInv, CopilotSafety, CopilotTypeOK,
       LeaseRecords, AccountRecords, SavedRecords, LeaseStages
  <2>2. unsaved' \in BOOLEAN /\ signedIn' \in BOOLEAN /\ quiet' \in BOOLEAN /\ attempt' \in BOOLEAN
    BY <1>1, <1>2, <1>3, <1>4, <1>5, <1>6 DEF CopilotInv, CopilotSafety, countVars, CopilotTypeOK
  <2>3. /\ broker' \in [Brokers -> {"unmade", "open", "closing", "draining", "stuck", "closed"}]
        /\ owners' \subseteq Brokers /\ creating' \subseteq Brokers
    BY <1>1, <1>2, <1>3, <1>4, <1>5, <1>6 DEF CopilotInv, CopilotSafety, CopilotTypeOK
  <2>4. lease' \in [Leases -> LeaseRecords]
    BY <1>1, <1>2, <1>3, <1>4, <1>5, <1>6 DEF CopilotInv, CopilotSafety, CopilotTypeOK
  <2>5. brokerLock' \in Leases \cup {"nobody"}
    BY <1>1, <1>2, <1>3, <1>4, <1>5, <1>6 DEF CopilotInv, CopilotSafety, CopilotTypeOK
  <2>6. signIn' \in SignInRecords
    BY <1>1, <1>2, <1>3, <1>4, <1>5, <1>6 DEF CopilotInv, CopilotSafety, CopilotTypeOK,
       LeaseRecords, SignInRecords, AccountRecords, LeaseStages
  <2>7. office' \in OfficeRecords /\ closure' \in {"open", "asked", "running", "failed", "closed"}
    BY <1>1, <1>2, <1>3, <1>4, <1>5, <1>6 DEF CopilotInv, CopilotSafety, CopilotTypeOK,
       LeaseRecords, AccountRecords, OfficeRecords, LeaseStages
  <2>8. sweep' \in SweepRecords
    BY <1>1, <1>2, <1>3, <1>4, <1>5, <1>6 DEF CopilotInv, CopilotSafety, CopilotTypeOK,
       LeaseRecords, SweepRecords, AccountRecords, LeaseStages
  <2>9. changes' \in 0..MaxChanges /\ mishaps' \in 0..MaxMishaps
    BY <1>1, <1>2, <1>3, <1>4, <1>5, <1>6 DEF CopilotInv, CopilotSafety, countVars, CopilotTypeOK
  <2> QED
    BY <2>1, <2>2, <2>3, <2>4, <2>5, <2>6, <2>7, <2>8, <2>9 DEF CopilotTypeOK, LeaseRecords,
       SignInRecords, SweepRecords, AccountRecords, SavedRecords, OfficeRecords, LeaseStages
<1>8. PublishedIsOpen'
  BY <1>1, <1>2, <1>3, <1>4, <1>5, <1>6 DEF CopilotInv, CopilotSafety, PublishedIsOpen,
     CopilotTypeOK
<1>9. LiveIsOwned'
  BY <1>1, <1>2, <1>3, <1>4, <1>5, <1>6 DEF CopilotInv, CopilotSafety, LiveIsOwned, Live,
     CopilotTypeOK
<1>10. ClosedIsUnused'
  BY <1>1, <1>2, <1>3, <1>4, <1>5, <1>6, CopilotAssumption DEF CopilotInv, CopilotSafety,
     ClosedIsUnused, Holders, CopilotTypeOK, CopilotAssumption
<1>11. GoneIsGone'
  BY <1>1, <1>2, <1>3, <1>4, <1>5, <1>6 DEF CopilotInv, CopilotSafety, countVars, GoneIsGone,
     GoneFits, Live, CopilotTypeOK
<1>12. SavedIsTrue'
  BY <1>1, <1>2, <1>3, <1>4, <1>5, <1>6 DEF CopilotInv, CopilotSafety, SavedIsTrue, CopilotTypeOK
<1>13. MadeInOrder'
  BY <1>2
<1>14. HeldIsOpen'
  BY <1>1, <1>2, <1>3, <1>4, <1>5, <1>6 DEF CopilotInv, CopilotSafety, HeldIsOpen, Holders,
     CopilotTypeOK
<1>15. CreatingIsOpen'
  BY <1>1, <1>2, <1>3, <1>4, <1>5, <1>6 DEF CopilotInv, CopilotSafety, CreatingIsOpen,
     OwnedIsMade, CopilotTypeOK
<1>16. OwnedIsMade'
  BY <1>1, <1>2, <1>3, <1>4, <1>5, <1>6 DEF CopilotInv, CopilotSafety, OwnedIsMade, CopilotTypeOK
<1>17. LeasesFit'
  <2>1. \A c \in Brokers : broker[c] # "unmade" => broker'[c] # "unmade"
    BY <1>1, <1>2, <1>3, <1>4, <1>5, <1>6
  <2>2. lease'[r].at \in {"entering", "opening", "streaming", "discarding"} =>
            lease'[r].broker \in Brokers /\ broker'[lease'[r].broker] # "unmade"
    BY <1>1, <1>2, <1>3, <1>4, <1>5, <1>6, <2>1 DEF CopilotInv, LeasesFit
  <2>3. ASSUME NEW q \in Leases, q # r, lease'[q].at \in {"entering", "opening", "streaming", "discarding"}
        PROVE  lease'[q].broker \in Brokers /\ broker'[lease'[q].broker] # "unmade"
    <3>1. lease'[q] = lease[q]
      BY <1>1, <1>2, <1>3, <1>4, <1>5, <1>6, <2>3
    <3>2. lease[q].broker \in Brokers /\ broker[lease[q].broker] # "unmade"
      BY <2>3, <3>1 DEF CopilotInv, LeasesFit
    <3> QED
      BY <2>1, <3>1, <3>2
  <2> QED
    BY <2>2, <2>3 DEF LeasesFit
<1>18. MakersFit'
  BY <1>1, <1>2, <1>3, <1>4, <1>5, <1>6, CopilotAssumption DEF CopilotInv, CopilotSafety,
     MakersFit, CopilotTypeOK, CopilotAssumption
<1>19. SignInFits'
  BY <1>1, <1>2, <1>3, <1>4, <1>5, <1>6 DEF CopilotInv, CopilotSafety, SignInFits, Brokers,
     CopilotTypeOK
<1>20. OfficeFits'
  BY <1>1, <1>2, <1>3, <1>4, <1>5, <1>6 DEF CopilotInv, CopilotSafety, OfficeFits, Idle,
     PublishedIsOpen, CopilotTypeOK
<1>21. GoneFits'
  BY <1>1, <1>2, <1>3, <1>4, <1>5, <1>6 DEF CopilotInv, CopilotSafety, countVars, GoneFits,
     PublishedIsOpen, CopilotTypeOK
<1> QED
  BY <1>7, <1>8, <1>9, <1>10, <1>11, <1>12, <1>13, <1>14, <1>15, <1>16, <1>17, <1>18, <1>19,
     <1>20, <1>21 DEF CopilotInv, CopilotSafety

\* It could not.
LEMMA CopilotConstructFails == ASSUME CopilotInv, NEW r \in Leases, ConstructFails(r) PROVE CopilotInv'
<1>1. /\ lease' \in [Leases -> LeaseRecords]
      /\ \A q \in Leases : q # r => lease'[q] = lease[q]
      /\ lease'[r].at = "ended" /\ lease'[r].broker = lease[r].broker
  <2>1. "ended" \in LeaseStages
    BY DEF LeaseStages
  <2> QED
    BY <2>1, LeaseMoved DEF CopilotInv, CopilotSafety, ConstructFails
<1>2. CopilotTypeOK'
  <2>1. account' \in AccountRecords /\ saved' \in SavedRecords
    BY <1>1 DEF CopilotInv, CopilotSafety, ConstructFails, stateVars, CopilotTypeOK,
       LeaseRecords, AccountRecords, SavedRecords, LeaseStages
  <2>2. unsaved' \in BOOLEAN /\ signedIn' \in BOOLEAN /\ quiet' \in BOOLEAN /\ attempt' \in BOOLEAN
    BY <1>1 DEF CopilotInv, CopilotSafety, ConstructFails, stateVars, countVars, CopilotTypeOK
  <2>3. /\ broker' \in [Brokers -> {"unmade", "open", "closing", "draining", "stuck", "closed"}]
        /\ owners' \subseteq Brokers /\ creating' \subseteq Brokers
    BY <1>1 DEF CopilotInv, CopilotSafety, ConstructFails, brokerVars, CopilotTypeOK
  <2>4. lease' \in [Leases -> LeaseRecords]
    BY <1>1 DEF CopilotInv, CopilotSafety, ConstructFails, CopilotTypeOK
  <2>5. brokerLock' \in Leases \cup {"nobody"}
    BY <1>1 DEF CopilotInv, CopilotSafety, ConstructFails, CopilotTypeOK
  <2>6. signIn' \in SignInRecords
    BY <1>1 DEF CopilotInv, CopilotSafety, ConstructFails, CopilotTypeOK, LeaseRecords,
       SignInRecords, LeaseStages
  <2>7. office' \in OfficeRecords /\ closure' \in {"open", "asked", "running", "failed", "closed"}
    BY <1>1 DEF CopilotInv, CopilotSafety, ConstructFails, CopilotTypeOK, LeaseRecords,
       OfficeRecords, LeaseStages
  <2>8. sweep' \in SweepRecords
    BY <1>1 DEF CopilotInv, CopilotSafety, ConstructFails, CopilotTypeOK, LeaseRecords,
       SweepRecords, LeaseStages
  <2>9. changes' \in 0..MaxChanges /\ mishaps' \in 0..MaxMishaps
    BY <1>1 DEF CopilotInv, CopilotSafety, ConstructFails, countVars, CopilotTypeOK
  <2> QED
    BY <2>1, <2>2, <2>3, <2>4, <2>5, <2>6, <2>7, <2>8, <2>9 DEF CopilotTypeOK, LeaseRecords,
       SignInRecords, SweepRecords, AccountRecords, SavedRecords, OfficeRecords, LeaseStages
<1>3. PublishedIsOpen'
  BY <1>1 DEF CopilotInv, CopilotSafety, ConstructFails, stateVars, brokerVars, PublishedIsOpen,
     CopilotTypeOK
<1>4. LiveIsOwned'
  BY <1>1 DEF CopilotInv, CopilotSafety, ConstructFails, brokerVars, LiveIsOwned, Live,
     CopilotTypeOK
<1>5. ClosedIsUnused'
  BY <1>1 DEF CopilotInv, CopilotSafety, ConstructFails, brokerVars, ClosedIsUnused, Holders,
     CopilotTypeOK
<1>6. GoneIsGone'
  BY <1>1 DEF CopilotInv, CopilotSafety, ConstructFails, brokerVars, countVars, GoneIsGone,
     GoneFits, Live, CopilotTypeOK
<1>7. SavedIsTrue'
  BY <1>1 DEF CopilotInv, CopilotSafety, ConstructFails, stateVars, SavedIsTrue, CopilotTypeOK
<1>8. MadeInOrder'
  BY <1>1 DEF CopilotInv, CopilotSafety, ConstructFails, brokerVars, MadeInOrder, Made,
     CopilotTypeOK
<1>9. HeldIsOpen'
  BY <1>1 DEF CopilotInv, CopilotSafety, ConstructFails, brokerVars, HeldIsOpen, Holders,
     CopilotTypeOK
<1>10. CreatingIsOpen'
  BY <1>1 DEF CopilotInv, CopilotSafety, ConstructFails, brokerVars, CreatingIsOpen, OwnedIsMade,
     CopilotTypeOK
<1>11. OwnedIsMade'
  BY <1>1 DEF CopilotInv, CopilotSafety, ConstructFails, brokerVars, OwnedIsMade, CopilotTypeOK
<1>12. LeasesFit'
  BY <1>1, CopilotAssumption DEF CopilotInv, CopilotSafety, ConstructFails, stateVars,
     brokerVars, countVars, LeasesFit, PublishedIsOpen, Brokers, CopilotTypeOK, CopilotAssumption
<1>13. MakersFit'
  BY <1>1, CopilotAssumption DEF CopilotInv, CopilotSafety, ConstructFails, MakersFit,
     CopilotTypeOK, CopilotAssumption
<1>14. SignInFits'
  BY <1>1 DEF CopilotInv, CopilotSafety, ConstructFails, stateVars, brokerVars, SignInFits,
     Brokers, CopilotTypeOK
<1>15. OfficeFits'
  BY <1>1 DEF CopilotInv, CopilotSafety, ConstructFails, stateVars, OfficeFits, Idle,
     PublishedIsOpen, CopilotTypeOK
<1>16. GoneFits'
  BY <1>1 DEF CopilotInv, CopilotSafety, ConstructFails, stateVars, countVars, GoneFits,
     PublishedIsOpen, CopilotTypeOK
<1> QED
  BY <1>2, <1>3, <1>4, <1>5, <1>6, <1>7, <1>8, <1>9, <1>10, <1>11, <1>12, <1>13, <1>14, <1>15,
     <1>16 DEF CopilotInv, CopilotSafety

\* A broker that nobody wants is closed.
LEMMA CopilotDiscarded == ASSUME CopilotInv, NEW r \in Leases, Discarded(r) PROVE CopilotInv'
<1>1. /\ lease' \in [Leases -> LeaseRecords]
      /\ \A q \in Leases : q # r => lease'[q] = lease[q]
      /\ lease'[r].at = "ended" /\ lease'[r].broker = lease[r].broker
  <2>1. "ended" \in LeaseStages
    BY DEF LeaseStages
  <2> QED
    BY <2>1, LeaseMoved DEF CopilotInv, CopilotSafety, Discarded
<1>2. /\ account' \in AccountRecords /\ saved' \in SavedRecords /\ unsaved' \in BOOLEAN
      /\ sweep' \in SweepRecords /\ mishaps' \in 0..MaxMishaps
      /\ account' = account \/ (account'.enabled = FALSE /\ account'.broker = 0)
      /\ SavedIsTrue'
  <2>1. owners' \subseteq Brokers
    BY DEF Discarded, Disown, CopilotInv, CopilotSafety, CopilotTypeOK
  <2>2. CASE InvalidateAccount(0, lease[r].revision)
    BY <2>1, <2>2, AccountInvalidated DEF CopilotInv, CopilotSafety
  <2>3. CASE UNCHANGED <<stateVars, sweep, mishaps>>
    BY <2>3 DEF CopilotInv, CopilotSafety, CopilotTypeOK, AccountRecords, SavedRecords,
       SweepRecords, SavedIsTrue, stateVars
  <2> QED
    BY <2>2, <2>3 DEF Discarded
<1>3. /\ owners' \subseteq owners /\ (\A c \in owners : c \notin owners' => broker[c] = "closed")
      /\ lease[r].at = "discarding" /\ brokerLock' = "nobody"
  BY DEF Discarded, Disown
<1>4. UNCHANGED <<broker, creating, signIn, attempt, office, closure, signedIn, quiet, changes>>
  BY DEF Discarded
<1>5. CopilotTypeOK'
  <2>1. account' \in AccountRecords /\ saved' \in SavedRecords
    BY <1>1, <1>2, <1>3, <1>4 DEF CopilotInv, CopilotSafety, CopilotTypeOK
  <2>2. unsaved' \in BOOLEAN /\ signedIn' \in BOOLEAN /\ quiet' \in BOOLEAN /\ attempt' \in BOOLEAN
    BY <1>1, <1>2, <1>3, <1>4 DEF CopilotInv, CopilotSafety, CopilotTypeOK
  <2>3. /\ broker' \in [Brokers -> {"unmade", "open", "closing", "draining", "stuck", "closed"}]
        /\ owners' \subseteq Brokers /\ creating' \subseteq Brokers
    BY <1>1, <1>2, <1>3, <1>4 DEF CopilotInv, CopilotSafety, CopilotTypeOK
  <2>4. lease' \in [Leases -> LeaseRecords]
    BY <1>1, <1>2, <1>3, <1>4 DEF CopilotInv, CopilotSafety, CopilotTypeOK
  <2>5. brokerLock' \in Leases \cup {"nobody"}
    BY <1>1, <1>2, <1>3, <1>4 DEF CopilotInv, CopilotSafety, CopilotTypeOK
  <2>6. signIn' \in SignInRecords
    BY <1>1, <1>2, <1>3, <1>4 DEF CopilotInv, CopilotSafety, CopilotTypeOK, LeaseRecords,
       SignInRecords, SweepRecords, AccountRecords, SavedRecords, LeaseStages
  <2>7. office' \in OfficeRecords /\ closure' \in {"open", "asked", "running", "failed", "closed"}
    BY <1>1, <1>2, <1>3, <1>4 DEF CopilotInv, CopilotSafety, CopilotTypeOK, LeaseRecords,
       SweepRecords, AccountRecords, SavedRecords, OfficeRecords, LeaseStages
  <2>8. sweep' \in SweepRecords
    BY <1>1, <1>2, <1>3, <1>4 DEF CopilotInv, CopilotSafety, CopilotTypeOK
  <2>9. changes' \in 0..MaxChanges /\ mishaps' \in 0..MaxMishaps
    BY <1>1, <1>2, <1>3, <1>4 DEF CopilotInv, CopilotSafety, CopilotTypeOK
  <2> QED
    BY <2>1, <2>2, <2>3, <2>4, <2>5, <2>6, <2>7, <2>8, <2>9 DEF CopilotTypeOK, LeaseRecords,
       SignInRecords, SweepRecords, AccountRecords, SavedRecords, OfficeRecords, LeaseStages
<1>6. PublishedIsOpen'
  BY <1>1, <1>2, <1>3, <1>4 DEF CopilotInv, CopilotSafety, PublishedIsOpen, CopilotTypeOK
<1>7. LiveIsOwned'
  BY <1>1, <1>2, <1>3, <1>4 DEF CopilotInv, CopilotSafety, LiveIsOwned, Live, CopilotTypeOK
<1>8. ClosedIsUnused'
  BY <1>1, <1>2, <1>3, <1>4 DEF CopilotInv, CopilotSafety, ClosedIsUnused, Holders, CopilotTypeOK
<1>9. GoneIsGone'
  BY <1>1, <1>2, <1>3, <1>4 DEF CopilotInv, CopilotSafety, GoneIsGone, GoneFits, Live,
     CopilotTypeOK
<1>10. SavedIsTrue'
  BY <1>1, <1>2, <1>3, <1>4 DEF CopilotInv, CopilotSafety, SavedIsTrue, CopilotTypeOK
<1>11. MadeInOrder'
  BY <1>1, <1>2, <1>3, <1>4 DEF CopilotInv, CopilotSafety, MadeInOrder, Made, CopilotTypeOK
<1>12. HeldIsOpen'
  BY <1>1, <1>2, <1>3, <1>4 DEF CopilotInv, CopilotSafety, HeldIsOpen, Holders, CopilotTypeOK
<1>13. CreatingIsOpen'
  BY <1>1, <1>2, <1>3, <1>4 DEF CopilotInv, CopilotSafety, CreatingIsOpen, OwnedIsMade,
     CopilotTypeOK
<1>14. OwnedIsMade'
  BY <1>1, <1>2, <1>3, <1>4 DEF CopilotInv, CopilotSafety, OwnedIsMade, CopilotTypeOK
<1>15. LeasesFit'
  BY <1>1, <1>2, <1>3, <1>4, CopilotAssumption DEF CopilotInv, CopilotSafety, LeasesFit,
     PublishedIsOpen, Brokers, CopilotTypeOK, CopilotAssumption
<1>16. MakersFit'
  BY <1>1, <1>2, <1>3, <1>4, CopilotAssumption DEF CopilotInv, CopilotSafety, MakersFit,
     CopilotTypeOK, CopilotAssumption
<1>17. SignInFits'
  BY <1>1, <1>2, <1>3, <1>4 DEF CopilotInv, CopilotSafety, SignInFits, Brokers, CopilotTypeOK
<1>18. OfficeFits'
  BY <1>1, <1>2, <1>3, <1>4 DEF CopilotInv, CopilotSafety, OfficeFits, Idle, PublishedIsOpen,
     CopilotTypeOK
<1>19. GoneFits'
  BY <1>1, <1>2, <1>3, <1>4 DEF CopilotInv, CopilotSafety, GoneFits, PublishedIsOpen,
     CopilotTypeOK
<1> QED
  BY <1>5, <1>6, <1>7, <1>8, <1>9, <1>10, <1>11, <1>12, <1>13, <1>14, <1>15, <1>16, <1>17,
     <1>18, <1>19 DEF CopilotInv, CopilotSafety

\* The broker is leased.
LEMMA CopilotEnter == ASSUME CopilotInv, NEW r \in Leases, Enter(r) PROVE CopilotInv'
<1>1. /\ lease' \in [Leases -> LeaseRecords]
      /\ \A q \in Leases : q # r => lease'[q] = lease[q]
      /\ lease'[r].broker = lease[r].broker /\ lease[r].at = "entering"
      /\ \/ lease'[r].at = "ended" /\ creating' = creating
         \/ /\ lease'[r].at = "opening" /\ broker[lease[r].broker] = "open"
            /\ creating' \in {creating, creating \cup {lease[r].broker}}
  <2>1. "ended" \in LeaseStages /\ "opening" \in LeaseStages
    BY DEF LeaseStages
  <2>2. CASE LeaseTo(r, "ended") /\ UNCHANGED creating
    BY <2>1, <2>2, LeaseMoved DEF CopilotInv, CopilotSafety, Enter
  <2>3. CASE /\ LeaseTo(r, "opening") /\ broker[lease[r].broker] = "open"
             /\ creating' \in {creating, creating \cup {lease[r].broker}}
    BY <2>1, <2>3, LeaseMoved DEF CopilotInv, CopilotSafety, Enter
  <2> QED
    BY <2>2, <2>3 DEF Enter
<1>2. /\ account' \in AccountRecords /\ saved' \in SavedRecords /\ unsaved' \in BOOLEAN
      /\ sweep' \in SweepRecords /\ mishaps' \in 0..MaxMishaps
      /\ account' = account \/ (account'.enabled = FALSE /\ account'.broker = 0)
      /\ SavedIsTrue'
  <2>1. owners' \subseteq Brokers
    BY DEF Enter, CopilotInv, CopilotSafety, CopilotTypeOK
  <2>2. CASE InvalidateAccount(lease[r].broker, lease[r].revision)
    BY <2>1, <2>2, AccountInvalidated DEF CopilotInv, CopilotSafety
  <2>3. CASE UNCHANGED <<stateVars, sweep, mishaps>>
    BY <2>3 DEF CopilotInv, CopilotSafety, CopilotTypeOK, AccountRecords, SavedRecords,
       SweepRecords, SavedIsTrue, stateVars
  <2> QED
    BY <2>2, <2>3 DEF Enter
<1>3. UNCHANGED <<owners, broker, brokerLock, signIn, attempt, office, closure, signedIn, quiet, changes>>
  BY DEF Enter
<1>4. lease[r].broker \in Brokers
  BY <1>1 DEF CopilotInv, LeasesFit
<1>5. CopilotTypeOK'
  <2>1. account' \in AccountRecords /\ saved' \in SavedRecords
    BY <1>1, <1>2, <1>3, <1>4 DEF CopilotInv, CopilotSafety, CopilotTypeOK
  <2>2. unsaved' \in BOOLEAN /\ signedIn' \in BOOLEAN /\ quiet' \in BOOLEAN /\ attempt' \in BOOLEAN
    BY <1>1, <1>2, <1>3, <1>4 DEF CopilotInv, CopilotSafety, CopilotTypeOK
  <2>3. /\ broker' \in [Brokers -> {"unmade", "open", "closing", "draining", "stuck", "closed"}]
        /\ owners' \subseteq Brokers /\ creating' \subseteq Brokers
    BY <1>1, <1>2, <1>3, <1>4 DEF CopilotInv, CopilotSafety, CopilotTypeOK
  <2>4. lease' \in [Leases -> LeaseRecords]
    BY <1>1, <1>2, <1>3, <1>4 DEF CopilotInv, CopilotSafety, CopilotTypeOK
  <2>5. brokerLock' \in Leases \cup {"nobody"}
    BY <1>1, <1>2, <1>3, <1>4 DEF CopilotInv, CopilotSafety, CopilotTypeOK
  <2>6. signIn' \in SignInRecords
    BY <1>1, <1>2, <1>3, <1>4 DEF CopilotInv, CopilotSafety, CopilotTypeOK, LeaseRecords,
       SignInRecords, SweepRecords, AccountRecords, SavedRecords, LeaseStages
  <2>7. office' \in OfficeRecords /\ closure' \in {"open", "asked", "running", "failed", "closed"}
    BY <1>1, <1>2, <1>3, <1>4 DEF CopilotInv, CopilotSafety, CopilotTypeOK, LeaseRecords,
       SweepRecords, AccountRecords, SavedRecords, OfficeRecords, LeaseStages
  <2>8. sweep' \in SweepRecords
    BY <1>1, <1>2, <1>3, <1>4 DEF CopilotInv, CopilotSafety, CopilotTypeOK
  <2>9. changes' \in 0..MaxChanges /\ mishaps' \in 0..MaxMishaps
    BY <1>1, <1>2, <1>3, <1>4 DEF CopilotInv, CopilotSafety, CopilotTypeOK
  <2> QED
    BY <2>1, <2>2, <2>3, <2>4, <2>5, <2>6, <2>7, <2>8, <2>9 DEF CopilotTypeOK, LeaseRecords,
       SignInRecords, SweepRecords, AccountRecords, SavedRecords, OfficeRecords, LeaseStages
<1>6. PublishedIsOpen'
  BY <1>1, <1>2, <1>3, <1>4 DEF CopilotInv, CopilotSafety, PublishedIsOpen, CopilotTypeOK
<1>7. LiveIsOwned'
  BY <1>1, <1>2, <1>3, <1>4 DEF CopilotInv, CopilotSafety, LiveIsOwned, Live, CopilotTypeOK
<1>8. ClosedIsUnused'
  BY <1>1, <1>2, <1>3, <1>4 DEF CopilotInv, CopilotSafety, ClosedIsUnused, Holders, CopilotTypeOK
<1>9. GoneIsGone'
  BY <1>1, <1>2, <1>3, <1>4 DEF CopilotInv, CopilotSafety, GoneIsGone, GoneFits, Live,
     CopilotTypeOK
<1>10. SavedIsTrue'
  BY <1>1, <1>2, <1>3, <1>4 DEF CopilotInv, CopilotSafety, SavedIsTrue, CopilotTypeOK
<1>11. MadeInOrder'
  BY <1>1, <1>2, <1>3, <1>4 DEF CopilotInv, CopilotSafety, MadeInOrder, Made, CopilotTypeOK
<1>12. HeldIsOpen'
  BY <1>1, <1>2, <1>3, <1>4 DEF CopilotInv, CopilotSafety, HeldIsOpen, Holders, CopilotTypeOK
<1>13. CreatingIsOpen'
  BY <1>1, <1>2, <1>3, <1>4 DEF CopilotInv, CopilotSafety, CreatingIsOpen, OwnedIsMade,
     CopilotTypeOK
<1>14. OwnedIsMade'
  BY <1>1, <1>2, <1>3, <1>4 DEF CopilotInv, CopilotSafety, OwnedIsMade, CopilotTypeOK
<1>15. LeasesFit'
  <2>1. \A c \in Brokers : broker[c] # "unmade" => broker'[c] # "unmade"
    BY <1>1, <1>2, <1>3, <1>4
  <2>2. lease'[r].at \in {"entering", "opening", "streaming", "discarding"} =>
            lease'[r].broker \in Brokers /\ broker'[lease'[r].broker] # "unmade"
    BY <1>1, <1>2, <1>3, <1>4, <2>1 DEF CopilotInv, LeasesFit
  <2>3. ASSUME NEW q \in Leases, q # r, lease'[q].at \in {"entering", "opening", "streaming", "discarding"}
        PROVE  lease'[q].broker \in Brokers /\ broker'[lease'[q].broker] # "unmade"
    <3>1. lease'[q] = lease[q]
      BY <1>1, <1>2, <1>3, <1>4, <2>3
    <3>2. lease[q].broker \in Brokers /\ broker[lease[q].broker] # "unmade"
      BY <2>3, <3>1 DEF CopilotInv, LeasesFit
    <3> QED
      BY <2>1, <3>1, <3>2
  <2> QED
    BY <2>2, <2>3 DEF LeasesFit
<1>16. MakersFit'
  BY <1>1, <1>2, <1>3, <1>4 DEF CopilotInv, CopilotSafety, MakersFit, CopilotTypeOK
<1>17. SignInFits'
  BY <1>1, <1>2, <1>3, <1>4 DEF CopilotInv, CopilotSafety, SignInFits, Brokers, CopilotTypeOK
<1>18. OfficeFits'
  BY <1>1, <1>2, <1>3, <1>4 DEF CopilotInv, CopilotSafety, OfficeFits, Idle, PublishedIsOpen,
     CopilotTypeOK
<1>19. GoneFits'
  BY <1>1, <1>2, <1>3, <1>4 DEF CopilotInv, CopilotSafety, GoneFits, PublishedIsOpen,
     CopilotTypeOK
<1> QED
  BY <1>5, <1>6, <1>7, <1>8, <1>9, <1>10, <1>11, <1>12, <1>13, <1>14, <1>15, <1>16, <1>17,
     <1>18, <1>19 DEF CopilotInv, CopilotSafety

\* The session is there.
LEMMA CopilotOpened == ASSUME CopilotInv, NEW r \in Leases, Opened(r) PROVE CopilotInv'
<1>1. /\ lease' \in [Leases -> LeaseRecords]
      /\ \A q \in Leases : q # r => lease'[q] = lease[q]
      /\ lease'[r].broker = lease[r].broker /\ lease[r].at = "opening"
      /\ lease'[r].at \in {"ended", "streaming"}
  <2>1. "ended" \in LeaseStages /\ "streaming" \in LeaseStages
    BY DEF LeaseStages
  <2>2. CASE LeaseTo(r, "ended")
    BY <2>1, <2>2, LeaseMoved DEF CopilotInv, CopilotSafety, Opened
  <2>3. CASE LeaseTo(r, "streaming")
    BY <2>1, <2>3, LeaseMoved DEF CopilotInv, CopilotSafety, Opened
  <2> QED
    BY <2>2, <2>3 DEF Opened
<1>2. /\ account' \in AccountRecords /\ saved' \in SavedRecords /\ unsaved' \in BOOLEAN
      /\ sweep' \in SweepRecords /\ mishaps' \in 0..MaxMishaps
      /\ account' = account \/ (account'.enabled = FALSE /\ account'.broker = 0)
      /\ SavedIsTrue'
  <2>1. owners' \subseteq Brokers
    BY DEF Opened, brokerVars, CopilotInv, CopilotSafety, CopilotTypeOK
  <2>2. CASE InvalidateAccount(lease[r].broker, lease[r].revision)
    BY <2>1, <2>2, AccountInvalidated DEF CopilotInv, CopilotSafety
  <2>3. CASE UNCHANGED <<stateVars, sweep, mishaps>>
    BY <2>3 DEF CopilotInv, CopilotSafety, CopilotTypeOK, AccountRecords, SavedRecords,
       SweepRecords, SavedIsTrue, stateVars
  <2> QED
    BY <2>2, <2>3 DEF Opened
<1>3. UNCHANGED <<brokerVars, brokerLock, signIn, attempt, office, closure, signedIn, quiet, changes>>
  BY DEF Opened
<1>4. CopilotTypeOK'
  <2>1. account' \in AccountRecords /\ saved' \in SavedRecords
    BY <1>1, <1>2, <1>3 DEF CopilotInv, CopilotSafety, CopilotTypeOK
  <2>2. unsaved' \in BOOLEAN /\ signedIn' \in BOOLEAN /\ quiet' \in BOOLEAN /\ attempt' \in BOOLEAN
    BY <1>1, <1>2, <1>3 DEF CopilotInv, CopilotSafety, CopilotTypeOK
  <2>3. /\ broker' \in [Brokers -> {"unmade", "open", "closing", "draining", "stuck", "closed"}]
        /\ owners' \subseteq Brokers /\ creating' \subseteq Brokers
    BY <1>1, <1>2, <1>3 DEF CopilotInv, CopilotSafety, brokerVars, CopilotTypeOK
  <2>4. lease' \in [Leases -> LeaseRecords]
    BY <1>1, <1>2, <1>3 DEF CopilotInv, CopilotSafety, CopilotTypeOK
  <2>5. brokerLock' \in Leases \cup {"nobody"}
    BY <1>1, <1>2, <1>3 DEF CopilotInv, CopilotSafety, CopilotTypeOK
  <2>6. signIn' \in SignInRecords
    BY <1>1, <1>2, <1>3 DEF CopilotInv, CopilotSafety, CopilotTypeOK, LeaseRecords,
       SignInRecords, SweepRecords, AccountRecords, SavedRecords, LeaseStages
  <2>7. office' \in OfficeRecords /\ closure' \in {"open", "asked", "running", "failed", "closed"}
    BY <1>1, <1>2, <1>3 DEF CopilotInv, CopilotSafety, CopilotTypeOK, LeaseRecords, SweepRecords,
       AccountRecords, SavedRecords, OfficeRecords, LeaseStages
  <2>8. sweep' \in SweepRecords
    BY <1>1, <1>2, <1>3 DEF CopilotInv, CopilotSafety, CopilotTypeOK
  <2>9. changes' \in 0..MaxChanges /\ mishaps' \in 0..MaxMishaps
    BY <1>1, <1>2, <1>3 DEF CopilotInv, CopilotSafety, CopilotTypeOK
  <2> QED
    BY <2>1, <2>2, <2>3, <2>4, <2>5, <2>6, <2>7, <2>8, <2>9 DEF CopilotTypeOK, LeaseRecords,
       SignInRecords, SweepRecords, AccountRecords, SavedRecords, OfficeRecords, LeaseStages
<1>5. PublishedIsOpen'
  BY <1>1, <1>2, <1>3 DEF CopilotInv, CopilotSafety, brokerVars, PublishedIsOpen, CopilotTypeOK
<1>6. LiveIsOwned'
  BY <1>1, <1>2, <1>3 DEF CopilotInv, CopilotSafety, brokerVars, LiveIsOwned, Live, CopilotTypeOK
<1>7. ClosedIsUnused'
  BY <1>1, <1>2, <1>3 DEF CopilotInv, CopilotSafety, brokerVars, ClosedIsUnused, Holders,
     CopilotTypeOK
<1>8. GoneIsGone'
  BY <1>1, <1>2, <1>3 DEF CopilotInv, CopilotSafety, brokerVars, GoneIsGone, GoneFits, Live,
     CopilotTypeOK
<1>9. SavedIsTrue'
  BY <1>1, <1>2, <1>3 DEF CopilotInv, CopilotSafety, SavedIsTrue, CopilotTypeOK
<1>10. MadeInOrder'
  BY <1>1, <1>2, <1>3 DEF CopilotInv, CopilotSafety, brokerVars, MadeInOrder, Made, CopilotTypeOK
<1>11. HeldIsOpen'
  BY <1>1, <1>2, <1>3 DEF CopilotInv, CopilotSafety, brokerVars, HeldIsOpen, Holders,
     CopilotTypeOK
<1>12. CreatingIsOpen'
  BY <1>1, <1>2, <1>3 DEF CopilotInv, CopilotSafety, brokerVars, CreatingIsOpen, OwnedIsMade,
     CopilotTypeOK
<1>13. OwnedIsMade'
  BY <1>1, <1>2, <1>3 DEF CopilotInv, CopilotSafety, brokerVars, OwnedIsMade, CopilotTypeOK
<1>14. LeasesFit'
  <2>1. \A c \in Brokers : broker[c] # "unmade" => broker'[c] # "unmade"
    BY <1>1, <1>2, <1>3 DEF brokerVars
  <2>2. lease'[r].at \in {"entering", "opening", "streaming", "discarding"} =>
            lease'[r].broker \in Brokers /\ broker'[lease'[r].broker] # "unmade"
    BY <1>1, <1>2, <1>3, <2>1 DEF CopilotInv, LeasesFit
  <2>3. ASSUME NEW q \in Leases, q # r, lease'[q].at \in {"entering", "opening", "streaming", "discarding"}
        PROVE  lease'[q].broker \in Brokers /\ broker'[lease'[q].broker] # "unmade"
    <3>1. lease'[q] = lease[q]
      BY <1>1, <1>2, <1>3, <2>3
    <3>2. lease[q].broker \in Brokers /\ broker[lease[q].broker] # "unmade"
      BY <2>3, <3>1 DEF CopilotInv, LeasesFit
    <3> QED
      BY <2>1, <3>1, <3>2
  <2> QED
    BY <2>2, <2>3 DEF LeasesFit
<1>15. MakersFit'
  BY <1>1, <1>2, <1>3 DEF CopilotInv, CopilotSafety, MakersFit, CopilotTypeOK
<1>16. SignInFits'
  BY <1>1, <1>2, <1>3 DEF CopilotInv, CopilotSafety, brokerVars, SignInFits, Brokers,
     CopilotTypeOK
<1>17. OfficeFits'
  BY <1>1, <1>2, <1>3 DEF CopilotInv, CopilotSafety, OfficeFits, Idle, PublishedIsOpen,
     CopilotTypeOK
<1>18. GoneFits'
  BY <1>1, <1>2, <1>3 DEF CopilotInv, CopilotSafety, GoneFits, PublishedIsOpen, CopilotTypeOK
<1> QED
  BY <1>4, <1>5, <1>6, <1>7, <1>8, <1>9, <1>10, <1>11, <1>12, <1>13, <1>14, <1>15, <1>16,
     <1>17, <1>18 DEF CopilotInv, CopilotSafety

\* The account is not what it was.
LEMMA CopilotRefused == ASSUME CopilotInv, NEW r \in Leases, Refused(r) PROVE CopilotInv'
<1>1. /\ lease' \in [Leases -> LeaseRecords]
      /\ \A q \in Leases : q # r => lease'[q] = lease[q]
      /\ lease'[r].at = "ended" /\ lease'[r].broker = lease[r].broker
  <2>1. "ended" \in LeaseStages
    BY DEF LeaseStages
  <2> QED
    BY <2>1, LeaseMoved DEF CopilotInv, CopilotSafety, Refused
<1>2. /\ account' \in AccountRecords /\ saved' \in SavedRecords /\ unsaved' \in BOOLEAN
      /\ sweep' \in SweepRecords /\ mishaps' \in 0..MaxMishaps
      /\ account' = account \/ (account'.enabled = FALSE /\ account'.broker = 0)
      /\ SavedIsTrue'
  <2>1. owners' \subseteq Brokers
    BY DEF Refused, brokerVars, CopilotInv, CopilotSafety, CopilotTypeOK
  <2>2. CASE InvalidateAccount(lease[r].broker, lease[r].revision)
    BY <2>1, <2>2, AccountInvalidated DEF CopilotInv, CopilotSafety
  <2>3. CASE UNCHANGED <<stateVars, sweep, mishaps>>
    BY <2>3 DEF CopilotInv, CopilotSafety, CopilotTypeOK, AccountRecords, SavedRecords,
       SweepRecords, SavedIsTrue, stateVars
  <2> QED
    BY <2>2, <2>3 DEF Refused
<1>3. lease[r].at = "streaming"
  BY DEF Refused
<1>4. UNCHANGED <<brokerVars, brokerLock, signIn, attempt, office, closure, signedIn, quiet, changes>>
  BY DEF Refused
<1>5. CopilotTypeOK'
  <2>1. account' \in AccountRecords /\ saved' \in SavedRecords
    BY <1>1, <1>2, <1>3, <1>4 DEF CopilotInv, CopilotSafety, CopilotTypeOK
  <2>2. unsaved' \in BOOLEAN /\ signedIn' \in BOOLEAN /\ quiet' \in BOOLEAN /\ attempt' \in BOOLEAN
    BY <1>1, <1>2, <1>3, <1>4 DEF CopilotInv, CopilotSafety, CopilotTypeOK
  <2>3. /\ broker' \in [Brokers -> {"unmade", "open", "closing", "draining", "stuck", "closed"}]
        /\ owners' \subseteq Brokers /\ creating' \subseteq Brokers
    BY <1>1, <1>2, <1>3, <1>4 DEF CopilotInv, CopilotSafety, brokerVars, CopilotTypeOK
  <2>4. lease' \in [Leases -> LeaseRecords]
    BY <1>1, <1>2, <1>3, <1>4 DEF CopilotInv, CopilotSafety, CopilotTypeOK
  <2>5. brokerLock' \in Leases \cup {"nobody"}
    BY <1>1, <1>2, <1>3, <1>4 DEF CopilotInv, CopilotSafety, CopilotTypeOK
  <2>6. signIn' \in SignInRecords
    BY <1>1, <1>2, <1>3, <1>4 DEF CopilotInv, CopilotSafety, CopilotTypeOK, LeaseRecords,
       SignInRecords, SweepRecords, AccountRecords, SavedRecords, LeaseStages
  <2>7. office' \in OfficeRecords /\ closure' \in {"open", "asked", "running", "failed", "closed"}
    BY <1>1, <1>2, <1>3, <1>4 DEF CopilotInv, CopilotSafety, CopilotTypeOK, LeaseRecords,
       SweepRecords, AccountRecords, SavedRecords, OfficeRecords, LeaseStages
  <2>8. sweep' \in SweepRecords
    BY <1>1, <1>2, <1>3, <1>4 DEF CopilotInv, CopilotSafety, CopilotTypeOK
  <2>9. changes' \in 0..MaxChanges /\ mishaps' \in 0..MaxMishaps
    BY <1>1, <1>2, <1>3, <1>4 DEF CopilotInv, CopilotSafety, CopilotTypeOK
  <2> QED
    BY <2>1, <2>2, <2>3, <2>4, <2>5, <2>6, <2>7, <2>8, <2>9 DEF CopilotTypeOK, LeaseRecords,
       SignInRecords, SweepRecords, AccountRecords, SavedRecords, OfficeRecords, LeaseStages
<1>6. PublishedIsOpen'
  BY <1>1, <1>2, <1>3, <1>4 DEF CopilotInv, CopilotSafety, brokerVars, PublishedIsOpen,
     CopilotTypeOK
<1>7. LiveIsOwned'
  BY <1>1, <1>2, <1>3, <1>4 DEF CopilotInv, CopilotSafety, brokerVars, LiveIsOwned, Live,
     CopilotTypeOK
<1>8. ClosedIsUnused'
  BY <1>1, <1>2, <1>3, <1>4 DEF CopilotInv, CopilotSafety, brokerVars, ClosedIsUnused, Holders,
     CopilotTypeOK
<1>9. GoneIsGone'
  BY <1>1, <1>2, <1>3, <1>4 DEF CopilotInv, CopilotSafety, brokerVars, GoneIsGone, GoneFits,
     Live, CopilotTypeOK
<1>10. SavedIsTrue'
  BY <1>1, <1>2, <1>3, <1>4 DEF CopilotInv, CopilotSafety, SavedIsTrue, CopilotTypeOK
<1>11. MadeInOrder'
  BY <1>1, <1>2, <1>3, <1>4 DEF CopilotInv, CopilotSafety, brokerVars, MadeInOrder, Made,
     CopilotTypeOK
<1>12. HeldIsOpen'
  BY <1>1, <1>2, <1>3, <1>4 DEF CopilotInv, CopilotSafety, brokerVars, HeldIsOpen, Holders,
     CopilotTypeOK
<1>13. CreatingIsOpen'
  BY <1>1, <1>2, <1>3, <1>4 DEF CopilotInv, CopilotSafety, brokerVars, CreatingIsOpen,
     OwnedIsMade, CopilotTypeOK
<1>14. OwnedIsMade'
  BY <1>1, <1>2, <1>3, <1>4 DEF CopilotInv, CopilotSafety, brokerVars, OwnedIsMade, CopilotTypeOK
<1>15. LeasesFit'
  <2>1. \A c \in Brokers : broker[c] # "unmade" => broker'[c] # "unmade"
    BY <1>1, <1>2, <1>3, <1>4 DEF brokerVars
  <2>2. lease'[r].at \in {"entering", "opening", "streaming", "discarding"} =>
            lease'[r].broker \in Brokers /\ broker'[lease'[r].broker] # "unmade"
    BY <1>1, <1>2, <1>3, <1>4, <2>1 DEF CopilotInv, LeasesFit
  <2>3. ASSUME NEW q \in Leases, q # r, lease'[q].at \in {"entering", "opening", "streaming", "discarding"}
        PROVE  lease'[q].broker \in Brokers /\ broker'[lease'[q].broker] # "unmade"
    <3>1. lease'[q] = lease[q]
      BY <1>1, <1>2, <1>3, <1>4, <2>3
    <3>2. lease[q].broker \in Brokers /\ broker[lease[q].broker] # "unmade"
      BY <2>3, <3>1 DEF CopilotInv, LeasesFit
    <3> QED
      BY <2>1, <3>1, <3>2
  <2> QED
    BY <2>2, <2>3 DEF LeasesFit
<1>16. MakersFit'
  BY <1>1, <1>2, <1>3, <1>4 DEF CopilotInv, CopilotSafety, MakersFit, CopilotTypeOK
<1>17. SignInFits'
  BY <1>1, <1>2, <1>3, <1>4 DEF CopilotInv, CopilotSafety, brokerVars, SignInFits, Brokers,
     CopilotTypeOK
<1>18. OfficeFits'
  BY <1>1, <1>2, <1>3, <1>4 DEF CopilotInv, CopilotSafety, OfficeFits, Idle, PublishedIsOpen,
     CopilotTypeOK
<1>19. GoneFits'
  BY <1>1, <1>2, <1>3, <1>4 DEF CopilotInv, CopilotSafety, GoneFits, PublishedIsOpen,
     CopilotTypeOK
<1> QED
  BY <1>5, <1>6, <1>7, <1>8, <1>9, <1>10, <1>11, <1>12, <1>13, <1>14, <1>15, <1>16, <1>17,
     <1>18, <1>19 DEF CopilotInv, CopilotSafety

\* The request has ended.
LEMMA CopilotStreamed == ASSUME CopilotInv, NEW r \in Leases, Streamed(r) PROVE CopilotInv'
<1>1. /\ lease' \in [Leases -> LeaseRecords]
      /\ \A q \in Leases : q # r => lease'[q] = lease[q]
      /\ lease'[r].at = "ended" /\ lease'[r].broker = lease[r].broker
  <2>1. "ended" \in LeaseStages
    BY DEF LeaseStages
  <2> QED
    BY <2>1, LeaseMoved DEF CopilotInv, CopilotSafety, Streamed
<1>2. CopilotTypeOK'
  <2>1. account' \in AccountRecords /\ saved' \in SavedRecords
    BY <1>1 DEF CopilotInv, CopilotSafety, Streamed, stateVars, CopilotTypeOK, LeaseRecords,
       AccountRecords, SavedRecords, LeaseStages
  <2>2. unsaved' \in BOOLEAN /\ signedIn' \in BOOLEAN /\ quiet' \in BOOLEAN /\ attempt' \in BOOLEAN
    BY <1>1 DEF CopilotInv, CopilotSafety, Streamed, stateVars, countVars, CopilotTypeOK
  <2>3. /\ broker' \in [Brokers -> {"unmade", "open", "closing", "draining", "stuck", "closed"}]
        /\ owners' \subseteq Brokers /\ creating' \subseteq Brokers
    BY <1>1 DEF CopilotInv, CopilotSafety, Streamed, brokerVars, CopilotTypeOK
  <2>4. lease' \in [Leases -> LeaseRecords]
    BY <1>1 DEF CopilotInv, CopilotSafety, Streamed, CopilotTypeOK
  <2>5. brokerLock' \in Leases \cup {"nobody"}
    BY <1>1 DEF CopilotInv, CopilotSafety, Streamed, CopilotTypeOK
  <2>6. signIn' \in SignInRecords
    BY <1>1 DEF CopilotInv, CopilotSafety, Streamed, CopilotTypeOK, LeaseRecords, SignInRecords,
       LeaseStages
  <2>7. office' \in OfficeRecords /\ closure' \in {"open", "asked", "running", "failed", "closed"}
    BY <1>1 DEF CopilotInv, CopilotSafety, Streamed, CopilotTypeOK, LeaseRecords, OfficeRecords,
       LeaseStages
  <2>8. sweep' \in SweepRecords
    BY <1>1 DEF CopilotInv, CopilotSafety, Streamed, CopilotTypeOK, LeaseRecords, SweepRecords,
       LeaseStages
  <2>9. changes' \in 0..MaxChanges /\ mishaps' \in 0..MaxMishaps
    BY <1>1 DEF CopilotInv, CopilotSafety, Streamed, countVars, CopilotTypeOK
  <2> QED
    BY <2>1, <2>2, <2>3, <2>4, <2>5, <2>6, <2>7, <2>8, <2>9 DEF CopilotTypeOK, LeaseRecords,
       SignInRecords, SweepRecords, AccountRecords, SavedRecords, OfficeRecords, LeaseStages
<1>3. PublishedIsOpen'
  BY <1>1 DEF CopilotInv, CopilotSafety, Streamed, stateVars, brokerVars, PublishedIsOpen,
     CopilotTypeOK
<1>4. LiveIsOwned'
  BY <1>1 DEF CopilotInv, CopilotSafety, Streamed, brokerVars, LiveIsOwned, Live, CopilotTypeOK
<1>5. ClosedIsUnused'
  BY <1>1 DEF CopilotInv, CopilotSafety, Streamed, brokerVars, ClosedIsUnused, Holders,
     CopilotTypeOK
<1>6. GoneIsGone'
  BY <1>1 DEF CopilotInv, CopilotSafety, Streamed, brokerVars, countVars, GoneIsGone, GoneFits,
     Live, CopilotTypeOK
<1>7. SavedIsTrue'
  BY <1>1 DEF CopilotInv, CopilotSafety, Streamed, stateVars, SavedIsTrue, CopilotTypeOK
<1>8. MadeInOrder'
  BY <1>1 DEF CopilotInv, CopilotSafety, Streamed, brokerVars, MadeInOrder, Made, CopilotTypeOK
<1>9. HeldIsOpen'
  BY <1>1 DEF CopilotInv, CopilotSafety, Streamed, brokerVars, HeldIsOpen, Holders, CopilotTypeOK
<1>10. CreatingIsOpen'
  BY <1>1 DEF CopilotInv, CopilotSafety, Streamed, brokerVars, CreatingIsOpen, OwnedIsMade,
     CopilotTypeOK
<1>11. OwnedIsMade'
  BY <1>1 DEF CopilotInv, CopilotSafety, Streamed, brokerVars, OwnedIsMade, CopilotTypeOK
<1>12. LeasesFit'
  BY <1>1, CopilotAssumption DEF CopilotInv, CopilotSafety, Streamed, stateVars, brokerVars,
     countVars, LeasesFit, PublishedIsOpen, Brokers, CopilotTypeOK, CopilotAssumption
<1>13. MakersFit'
  BY <1>1 DEF CopilotInv, CopilotSafety, Streamed, MakersFit, CopilotTypeOK
<1>14. SignInFits'
  BY <1>1 DEF CopilotInv, CopilotSafety, Streamed, stateVars, brokerVars, SignInFits, Brokers,
     CopilotTypeOK
<1>15. OfficeFits'
  BY <1>1 DEF CopilotInv, CopilotSafety, Streamed, stateVars, OfficeFits, Idle, PublishedIsOpen,
     CopilotTypeOK
<1>16. GoneFits'
  BY <1>1 DEF CopilotInv, CopilotSafety, Streamed, stateVars, countVars, GoneFits,
     PublishedIsOpen, CopilotTypeOK
<1> QED
  BY <1>2, <1>3, <1>4, <1>5, <1>6, <1>7, <1>8, <1>9, <1>10, <1>11, <1>12, <1>13, <1>14, <1>15,
     <1>16 DEF CopilotInv, CopilotSafety

\* The client goes away.
LEMMA CopilotCancelRequest == ASSUME CopilotInv, NEW r \in Leases, CancelRequest(r) PROVE CopilotInv'
<1>1. /\ lease' \in [Leases -> LeaseRecords]
      /\ \A q \in Leases : q # r => lease'[q] = lease[q]
      /\ lease'[r].at = "ended" /\ lease'[r].broker = lease[r].broker
  <2>1. "ended" \in LeaseStages
    BY DEF LeaseStages
  <2> QED
    BY <2>1, LeaseMoved DEF CopilotInv, CopilotSafety, CancelRequest
<1>2. mishaps' \in 0..MaxMishaps
  BY CopilotAssumption DEF CancelRequest, Mishap, CopilotInv, CopilotSafety, CopilotTypeOK,
     CopilotAssumption
<1>3. CopilotTypeOK'
  <2>1. account' \in AccountRecords /\ saved' \in SavedRecords
    BY <1>1, <1>2 DEF CopilotInv, CopilotSafety, CancelRequest, stateVars, CopilotTypeOK,
       LeaseRecords, AccountRecords, SavedRecords, LeaseStages
  <2>2. unsaved' \in BOOLEAN /\ signedIn' \in BOOLEAN /\ quiet' \in BOOLEAN /\ attempt' \in BOOLEAN
    BY <1>1, <1>2 DEF CopilotInv, CopilotSafety, CancelRequest, stateVars, CopilotTypeOK
  <2>3. /\ broker' \in [Brokers -> {"unmade", "open", "closing", "draining", "stuck", "closed"}]
        /\ owners' \subseteq Brokers /\ creating' \subseteq Brokers
    BY <1>1, <1>2 DEF CopilotInv, CopilotSafety, CancelRequest, brokerVars, CopilotTypeOK
  <2>4. lease' \in [Leases -> LeaseRecords]
    BY <1>1, <1>2 DEF CopilotInv, CopilotSafety, CancelRequest, CopilotTypeOK
  <2>5. brokerLock' \in Leases \cup {"nobody"}
    BY <1>1, <1>2 DEF CopilotInv, CopilotSafety, CancelRequest, CopilotTypeOK
  <2>6. signIn' \in SignInRecords
    BY <1>1, <1>2 DEF CopilotInv, CopilotSafety, CancelRequest, CopilotTypeOK, LeaseRecords,
       SignInRecords, LeaseStages
  <2>7. office' \in OfficeRecords /\ closure' \in {"open", "asked", "running", "failed", "closed"}
    BY <1>1, <1>2 DEF CopilotInv, CopilotSafety, CancelRequest, CopilotTypeOK, LeaseRecords,
       OfficeRecords, LeaseStages
  <2>8. sweep' \in SweepRecords
    BY <1>1, <1>2 DEF CopilotInv, CopilotSafety, CancelRequest, CopilotTypeOK, LeaseRecords,
       SweepRecords, LeaseStages
  <2>9. changes' \in 0..MaxChanges /\ mishaps' \in 0..MaxMishaps
    BY <1>1, <1>2 DEF CopilotInv, CopilotSafety, CancelRequest, CopilotTypeOK
  <2> QED
    BY <2>1, <2>2, <2>3, <2>4, <2>5, <2>6, <2>7, <2>8, <2>9 DEF CopilotTypeOK, LeaseRecords,
       SignInRecords, SweepRecords, AccountRecords, SavedRecords, OfficeRecords, LeaseStages
<1>4. PublishedIsOpen'
  BY <1>1, <1>2 DEF CopilotInv, CopilotSafety, CancelRequest, stateVars, brokerVars,
     PublishedIsOpen, CopilotTypeOK
<1>5. LiveIsOwned'
  BY <1>1, <1>2 DEF CopilotInv, CopilotSafety, CancelRequest, brokerVars, LiveIsOwned, Live,
     CopilotTypeOK
<1>6. ClosedIsUnused'
  BY <1>1, <1>2 DEF CopilotInv, CopilotSafety, CancelRequest, brokerVars, ClosedIsUnused,
     Holders, CopilotTypeOK
<1>7. GoneIsGone'
  BY <1>1, <1>2 DEF CopilotInv, CopilotSafety, CancelRequest, brokerVars, GoneIsGone, GoneFits,
     Live, CopilotTypeOK
<1>8. SavedIsTrue'
  BY <1>1, <1>2 DEF CopilotInv, CopilotSafety, CancelRequest, stateVars, SavedIsTrue,
     CopilotTypeOK
<1>9. MadeInOrder'
  BY <1>1, <1>2 DEF CopilotInv, CopilotSafety, CancelRequest, brokerVars, MadeInOrder, Made,
     CopilotTypeOK
<1>10. HeldIsOpen'
  BY <1>1, <1>2 DEF CopilotInv, CopilotSafety, CancelRequest, brokerVars, HeldIsOpen, Holders,
     CopilotTypeOK
<1>11. CreatingIsOpen'
  BY <1>1, <1>2 DEF CopilotInv, CopilotSafety, CancelRequest, brokerVars, CreatingIsOpen,
     OwnedIsMade, CopilotTypeOK
<1>12. OwnedIsMade'
  BY <1>1, <1>2 DEF CopilotInv, CopilotSafety, CancelRequest, brokerVars, OwnedIsMade,
     CopilotTypeOK
<1>13. LeasesFit'
  <2>1. \A c \in Brokers : broker[c] # "unmade" => broker'[c] # "unmade"
    BY <1>1, <1>2 DEF CancelRequest, brokerVars
  <2>2. lease'[r].at \in {"entering", "opening", "streaming", "discarding"} =>
            lease'[r].broker \in Brokers /\ broker'[lease'[r].broker] # "unmade"
    BY <1>1, <1>2, <2>1 DEF CopilotInv, LeasesFit
  <2>3. ASSUME NEW q \in Leases, q # r, lease'[q].at \in {"entering", "opening", "streaming", "discarding"}
        PROVE  lease'[q].broker \in Brokers /\ broker'[lease'[q].broker] # "unmade"
    <3>1. lease'[q] = lease[q]
      BY <1>1, <1>2, <2>3
    <3>2. lease[q].broker \in Brokers /\ broker[lease[q].broker] # "unmade"
      BY <2>3, <3>1 DEF CopilotInv, LeasesFit
    <3> QED
      BY <2>1, <3>1, <3>2
  <2> QED
    BY <2>2, <2>3 DEF LeasesFit
<1>14. MakersFit'
  BY <1>1, <1>2, CopilotAssumption DEF CopilotInv, CopilotSafety, CancelRequest, MakersFit,
     CopilotTypeOK, CopilotAssumption
<1>15. SignInFits'
  BY <1>1, <1>2 DEF CopilotInv, CopilotSafety, CancelRequest, stateVars, brokerVars, SignInFits,
     Brokers, CopilotTypeOK
<1>16. OfficeFits'
  BY <1>1, <1>2 DEF CopilotInv, CopilotSafety, CancelRequest, stateVars, OfficeFits, Idle,
     PublishedIsOpen, CopilotTypeOK
<1>17. GoneFits'
  BY <1>1, <1>2 DEF CopilotInv, CopilotSafety, CancelRequest, stateVars, GoneFits,
     PublishedIsOpen, CopilotTypeOK
<1> QED
  BY <1>3, <1>4, <1>5, <1>6, <1>7, <1>8, <1>9, <1>10, <1>11, <1>12, <1>13, <1>14, <1>15, <1>16,
     <1>17 DEF CopilotInv, CopilotSafety

\* A login is started.
LEMMA CopilotStartSignIn == ASSUME CopilotInv, StartSignIn PROVE CopilotInv'
<1>1. /\ account' \in AccountRecords /\ saved' \in SavedRecords /\ unsaved' \in BOOLEAN
      /\ sweep' \in SweepRecords /\ mishaps' \in 0..MaxMishaps
      /\ account'.enabled = FALSE /\ account'.broker = 0 /\ SavedIsTrue'
  <2>1. owners' \subseteq Brokers
    BY DEF StartSignIn, CopilotInv, CopilotSafety, CopilotTypeOK
  <2> QED
    BY <2>1, AccountDisabled DEF StartSignIn, CopilotInv, CopilotSafety
<1>2. /\ signIn' \in SignInRecords /\ attempt' \in BOOLEAN
      /\ \/ UNCHANGED <<signIn, attempt>>
         \/ signIn'.at = "drain" /\ signIn'.broker = 0
  <2>1. CASE UNCHANGED <<signIn, attempt>>
    BY <2>1 DEF CopilotInv, CopilotSafety, CopilotTypeOK, SignInRecords
  <2>2. CASE signIn' = [NoLogin EXCEPT !.at = "drain"] /\ attempt' = TRUE
    <3> DEFINE d == "drain"
    <3> DEFINE n == NoLogin
    <3>1. signIn' = [n EXCEPT !.at = d]
      BY <2>2
    <3>2. n = [at |-> "none", broker |-> 0, cancelled |-> FALSE]
      BY DEF NoLogin
    <3>3. d \in SignInStages
      BY DEF SignInStages
    <3> HIDE DEF d, n
    <3>4. signIn' = [at |-> d, broker |-> 0, cancelled |-> FALSE]
      BY <3>1, <3>2
    <3>5. signIn' \in SignInRecords /\ signIn'.at = d /\ signIn'.broker = 0
      BY <3>3, <3>4, CopilotAssumption DEF SignInRecords, CopilotAssumption
    <3> QED
      BY <2>2, <3>5 DEF d
  <2> QED
    BY <2>1, <2>2 DEF StartSignIn
<1>3. quiet' = FALSE /\ changes' \in 0..MaxChanges /\ office = Idle /\ closure = "open"
  BY CopilotAssumption DEF StartSignIn, ManagerIsClosed, CopilotInv, CopilotSafety,
     CopilotTypeOK, CopilotAssumption
<1>4. UNCHANGED <<owners, broker, creating, lease, brokerLock, office, closure, signedIn>>
  BY DEF StartSignIn
<1>5. CopilotTypeOK'
  <2>1. account' \in AccountRecords /\ saved' \in SavedRecords
    BY <1>1, <1>2, <1>3, <1>4 DEF CopilotInv, CopilotSafety, CopilotTypeOK
  <2>2. unsaved' \in BOOLEAN /\ signedIn' \in BOOLEAN /\ quiet' \in BOOLEAN /\ attempt' \in BOOLEAN
    BY <1>1, <1>2, <1>3, <1>4 DEF CopilotInv, CopilotSafety, CopilotTypeOK
  <2>3. /\ broker' \in [Brokers -> {"unmade", "open", "closing", "draining", "stuck", "closed"}]
        /\ owners' \subseteq Brokers /\ creating' \subseteq Brokers
    BY <1>1, <1>2, <1>3, <1>4 DEF CopilotInv, CopilotSafety, CopilotTypeOK
  <2>4. lease' \in [Leases -> LeaseRecords]
    BY <1>1, <1>2, <1>3, <1>4 DEF CopilotInv, CopilotSafety, CopilotTypeOK, LeaseRecords,
       SignInRecords, SweepRecords, AccountRecords, SavedRecords, LeaseStages
  <2>5. brokerLock' \in Leases \cup {"nobody"}
    BY <1>1, <1>2, <1>3, <1>4 DEF CopilotInv, CopilotSafety, CopilotTypeOK
  <2>6. signIn' \in SignInRecords
    BY <1>1, <1>2, <1>3, <1>4 DEF CopilotInv, CopilotSafety, CopilotTypeOK
  <2>7. office' \in OfficeRecords /\ closure' \in {"open", "asked", "running", "failed", "closed"}
    BY <1>1, <1>2, <1>3, <1>4 DEF CopilotInv, CopilotSafety, CopilotTypeOK, SignInRecords,
       SweepRecords, AccountRecords, SavedRecords, OfficeRecords
  <2>8. sweep' \in SweepRecords
    BY <1>1, <1>2, <1>3, <1>4 DEF CopilotInv, CopilotSafety, CopilotTypeOK
  <2>9. changes' \in 0..MaxChanges /\ mishaps' \in 0..MaxMishaps
    BY <1>1, <1>2, <1>3, <1>4 DEF CopilotInv, CopilotSafety, CopilotTypeOK
  <2> QED
    BY <2>1, <2>2, <2>3, <2>4, <2>5, <2>6, <2>7, <2>8, <2>9 DEF CopilotTypeOK, LeaseRecords,
       SignInRecords, SweepRecords, AccountRecords, SavedRecords, OfficeRecords, LeaseStages
<1>6. PublishedIsOpen'
  BY <1>1, <1>2, <1>3, <1>4 DEF CopilotInv, CopilotSafety, PublishedIsOpen, CopilotTypeOK
<1>7. LiveIsOwned'
  BY <1>1, <1>2, <1>3, <1>4 DEF CopilotInv, CopilotSafety, LiveIsOwned, Live, CopilotTypeOK
<1>8. ClosedIsUnused'
  BY <1>1, <1>2, <1>3, <1>4 DEF CopilotInv, CopilotSafety, ClosedIsUnused, Holders, CopilotTypeOK
<1>9. GoneIsGone'
  BY <1>1, <1>2, <1>3, <1>4 DEF CopilotInv, CopilotSafety, GoneIsGone, GoneFits, Live,
     CopilotTypeOK
<1>10. SavedIsTrue'
  BY <1>1, <1>2, <1>3, <1>4 DEF CopilotInv, CopilotSafety, SavedIsTrue, CopilotTypeOK
<1>11. MadeInOrder'
  BY <1>1, <1>2, <1>3, <1>4 DEF CopilotInv, CopilotSafety, MadeInOrder, Made, CopilotTypeOK
<1>12. HeldIsOpen'
  BY <1>1, <1>2, <1>3, <1>4 DEF CopilotInv, CopilotSafety, HeldIsOpen, Holders, CopilotTypeOK
<1>13. CreatingIsOpen'
  BY <1>1, <1>2, <1>3, <1>4 DEF CopilotInv, CopilotSafety, CreatingIsOpen, OwnedIsMade,
     CopilotTypeOK
<1>14. OwnedIsMade'
  BY <1>1, <1>2, <1>3, <1>4 DEF CopilotInv, CopilotSafety, OwnedIsMade, CopilotTypeOK
<1>15. LeasesFit'
  BY <1>1, <1>2, <1>3, <1>4 DEF CopilotInv, CopilotSafety, LeasesFit, PublishedIsOpen, Brokers,
     CopilotTypeOK
<1>16. MakersFit'
  BY <1>1, <1>2, <1>3, <1>4 DEF CopilotInv, CopilotSafety, MakersFit, CopilotTypeOK
<1>17. SignInFits'
  BY <1>1, <1>2, <1>3, <1>4 DEF CopilotInv, CopilotSafety, SignInFits, Brokers, CopilotTypeOK
<1>18. OfficeFits'
  BY <1>1, <1>2, <1>3, <1>4 DEF CopilotInv, CopilotSafety, OfficeFits, Idle, PublishedIsOpen,
     CopilotTypeOK
<1>19. GoneFits'
  BY <1>1, <1>2, <1>3, <1>4 DEF CopilotInv, CopilotSafety, GoneFits, PublishedIsOpen,
     CopilotTypeOK
<1> QED
  BY <1>5, <1>6, <1>7, <1>8, <1>9, <1>10, <1>11, <1>12, <1>13, <1>14, <1>15, <1>16, <1>17,
     <1>18, <1>19 DEF CopilotInv, CopilotSafety

\* It waits for the cleanup.
LEMMA CopilotSignInDrains == ASSUME CopilotInv, SignInDrains PROVE CopilotInv'
<1>1. sweep' \in SweepRecords
  <2>1. CASE UNCHANGED sweep
    BY <2>1 DEF CopilotInv, CopilotSafety, CopilotTypeOK, SweepRecords
  <2>2. CASE Scheduled
    <3>1. owners' \subseteq Brokers
      BY DEF SignInDrains, CopilotInv, CopilotSafety, CopilotTypeOK
    <3> QED
      BY <2>2, <3>1, SweepScheduled DEF CopilotInv, CopilotSafety
  <2> QED
    BY <2>1, <2>2 DEF SignInDrains
<1>2. /\ signIn' \in SignInRecords /\ signIn'.broker = signIn.broker
      /\ signIn'.at \in {"draining", "ending", "making", "drain"} /\ signIn.at # "none"
  <2>0. \A x \in {"draining", "ending", "making", "drain"} : x \in SignInStages
    BY DEF SignInStages
  <2>1. PICK x \in {"draining", "ending", "making", "drain"} : SignInTo(x)
    BY DEF SignInDrains
  <2> QED
    BY <2>0, <2>1, SignInMoved DEF SignInDrains, CopilotInv, CopilotSafety
<1>3. UNCHANGED <<account, owners, saved, unsaved, broker, creating, lease, brokerLock, attempt, office, closure, countVars>>
  BY DEF SignInDrains
<1>4. CopilotTypeOK'
  <2>1. account' \in AccountRecords /\ saved' \in SavedRecords
    BY <1>1, <1>2, <1>3 DEF CopilotInv, CopilotSafety, CopilotTypeOK, SignInRecords,
       SweepRecords, AccountRecords, SavedRecords
  <2>2. unsaved' \in BOOLEAN /\ signedIn' \in BOOLEAN /\ quiet' \in BOOLEAN /\ attempt' \in BOOLEAN
    BY <1>1, <1>2, <1>3 DEF CopilotInv, CopilotSafety, countVars, CopilotTypeOK
  <2>3. /\ broker' \in [Brokers -> {"unmade", "open", "closing", "draining", "stuck", "closed"}]
        /\ owners' \subseteq Brokers /\ creating' \subseteq Brokers
    BY <1>1, <1>2, <1>3 DEF CopilotInv, CopilotSafety, CopilotTypeOK
  <2>4. lease' \in [Leases -> LeaseRecords]
    BY <1>1, <1>2, <1>3 DEF CopilotInv, CopilotSafety, CopilotTypeOK, LeaseRecords,
       SignInRecords, SweepRecords, LeaseStages
  <2>5. brokerLock' \in Leases \cup {"nobody"}
    BY <1>1, <1>2, <1>3 DEF CopilotInv, CopilotSafety, CopilotTypeOK
  <2>6. signIn' \in SignInRecords
    BY <1>1, <1>2, <1>3 DEF CopilotInv, CopilotSafety, CopilotTypeOK
  <2>7. office' \in OfficeRecords /\ closure' \in {"open", "asked", "running", "failed", "closed"}
    BY <1>1, <1>2, <1>3 DEF CopilotInv, CopilotSafety, CopilotTypeOK, SignInRecords,
       SweepRecords, OfficeRecords
  <2>8. sweep' \in SweepRecords
    BY <1>1, <1>2, <1>3 DEF CopilotInv, CopilotSafety, CopilotTypeOK
  <2>9. changes' \in 0..MaxChanges /\ mishaps' \in 0..MaxMishaps
    BY <1>1, <1>2, <1>3 DEF CopilotInv, CopilotSafety, countVars, CopilotTypeOK
  <2> QED
    BY <2>1, <2>2, <2>3, <2>4, <2>5, <2>6, <2>7, <2>8, <2>9 DEF CopilotTypeOK, LeaseRecords,
       SignInRecords, SweepRecords, AccountRecords, SavedRecords, OfficeRecords, LeaseStages
<1>5. PublishedIsOpen'
  BY <1>1, <1>2, <1>3 DEF CopilotInv, CopilotSafety, PublishedIsOpen, CopilotTypeOK
<1>6. LiveIsOwned'
  BY <1>1, <1>2, <1>3 DEF CopilotInv, CopilotSafety, LiveIsOwned, Live, CopilotTypeOK
<1>7. ClosedIsUnused'
  BY <1>1, <1>2, <1>3 DEF CopilotInv, CopilotSafety, ClosedIsUnused, Holders, CopilotTypeOK
<1>8. GoneIsGone'
  BY <1>1, <1>2, <1>3 DEF CopilotInv, CopilotSafety, countVars, GoneIsGone, GoneFits, Live,
     CopilotTypeOK
<1>9. SavedIsTrue'
  BY <1>1, <1>2, <1>3 DEF CopilotInv, CopilotSafety, SavedIsTrue, CopilotTypeOK
<1>10. MadeInOrder'
  BY <1>1, <1>2, <1>3 DEF CopilotInv, CopilotSafety, MadeInOrder, Made, CopilotTypeOK
<1>11. HeldIsOpen'
  BY <1>1, <1>2, <1>3 DEF CopilotInv, CopilotSafety, HeldIsOpen, Holders, CopilotTypeOK
<1>12. CreatingIsOpen'
  BY <1>1, <1>2, <1>3 DEF CopilotInv, CopilotSafety, CreatingIsOpen, OwnedIsMade, CopilotTypeOK
<1>13. OwnedIsMade'
  BY <1>1, <1>2, <1>3 DEF CopilotInv, CopilotSafety, OwnedIsMade, CopilotTypeOK
<1>14. LeasesFit'
  BY <1>1, <1>2, <1>3 DEF CopilotInv, CopilotSafety, LeasesFit, PublishedIsOpen, Brokers,
     CopilotTypeOK
<1>15. MakersFit'
  BY <1>1, <1>2, <1>3 DEF CopilotInv, CopilotSafety, MakersFit, CopilotTypeOK
<1>16. SignInFits'
  BY <1>1, <1>2, <1>3 DEF CopilotInv, CopilotSafety, SignInFits, Brokers, CopilotTypeOK
<1>17. OfficeFits'
  BY <1>1, <1>2, <1>3 DEF CopilotInv, CopilotSafety, OfficeFits, Idle, PublishedIsOpen,
     CopilotTypeOK
<1>18. GoneFits'
  BY <1>1, <1>2, <1>3 DEF CopilotInv, CopilotSafety, countVars, GoneFits, PublishedIsOpen,
     CopilotTypeOK
<1> QED
  BY <1>4, <1>5, <1>6, <1>7, <1>8, <1>9, <1>10, <1>11, <1>12, <1>13, <1>14, <1>15, <1>16,
     <1>17, <1>18 DEF CopilotInv, CopilotSafety

\* It makes a broker.
LEMMA CopilotSignInMakes == ASSUME CopilotInv, SignInMakes PROVE CopilotInv'
<1>1. PICK b \in Brokers :
        /\ Make(b, "open")
        /\ signIn' = [signIn EXCEPT !.broker = b,
                                    !.at = IF @ = "making" THEN "probing" ELSE "reprobing"]
  BY DEF SignInMakes
<1>2. /\ b \in Brokers /\ b \in 1..MaxBrokers /\ b # 0 /\ broker[b] = "unmade"
      /\ broker' \in [Brokers -> {"unmade", "open", "closing", "draining", "stuck", "closed"}]
      /\ broker'[b] = "open" /\ \A c \in Brokers : c # b => broker'[c] = broker[c]
      /\ owners' = owners \cup {b} /\ creating' = creating /\ MadeInOrder'
  BY <1>1, NextIsMade DEF CopilotInv, CopilotSafety
<1>3. /\ signIn' \in SignInRecords /\ signIn'.broker = b
      /\ signIn'.at \in {"probing", "reprobing"}
  <2> DEFINE x == IF signIn.at = "making" THEN "probing" ELSE "reprobing"
  <2>1. x \in SignInStages /\ x \in {"probing", "reprobing"} /\ b \in 0..MaxBrokers
    BY DEF Brokers, SignInStages
  <2>2. signIn \in SignInRecords
    BY DEF CopilotInv, CopilotSafety, CopilotTypeOK, SignInRecords
  <2>3. [signIn EXCEPT !.broker = b].at = signIn.at
    BY <2>2
  <2>4. signIn' = [signIn EXCEPT !.broker = b, !.at = x]
    BY <1>1, <2>3
  <2> HIDE DEF x
  <2> QED
    BY <2>1, <2>4, SignInGiven DEF CopilotInv, CopilotSafety
<1>4. signIn.at # "none"
  BY DEF SignInMakes
<1>5. UNCHANGED <<stateVars, lease, brokerLock, attempt, office, closure, sweep, countVars>>
  BY DEF SignInMakes
<1>6. CopilotTypeOK'
  <2>1. account' \in AccountRecords /\ saved' \in SavedRecords
    BY <1>1, <1>2, <1>3, <1>4, <1>5 DEF CopilotInv, CopilotSafety, stateVars, CopilotTypeOK,
       SignInRecords, AccountRecords, SavedRecords
  <2>2. unsaved' \in BOOLEAN /\ signedIn' \in BOOLEAN /\ quiet' \in BOOLEAN /\ attempt' \in BOOLEAN
    BY <1>1, <1>2, <1>3, <1>4, <1>5 DEF CopilotInv, CopilotSafety, stateVars, countVars,
       CopilotTypeOK
  <2>3. /\ broker' \in [Brokers -> {"unmade", "open", "closing", "draining", "stuck", "closed"}]
        /\ owners' \subseteq Brokers /\ creating' \subseteq Brokers
    BY <1>1, <1>2, <1>3, <1>4, <1>5 DEF CopilotInv, CopilotSafety, CopilotTypeOK
  <2>4. lease' \in [Leases -> LeaseRecords]
    BY <1>1, <1>2, <1>3, <1>4, <1>5 DEF CopilotInv, CopilotSafety, CopilotTypeOK, LeaseRecords,
       SignInRecords, LeaseStages
  <2>5. brokerLock' \in Leases \cup {"nobody"}
    BY <1>1, <1>2, <1>3, <1>4, <1>5 DEF CopilotInv, CopilotSafety, CopilotTypeOK
  <2>6. signIn' \in SignInRecords
    BY <1>1, <1>2, <1>3, <1>4, <1>5 DEF CopilotInv, CopilotSafety, CopilotTypeOK
  <2>7. office' \in OfficeRecords /\ closure' \in {"open", "asked", "running", "failed", "closed"}
    BY <1>1, <1>2, <1>3, <1>4, <1>5 DEF CopilotInv, CopilotSafety, CopilotTypeOK, SignInRecords,
       OfficeRecords
  <2>8. sweep' \in SweepRecords
    BY <1>1, <1>2, <1>3, <1>4, <1>5 DEF CopilotInv, CopilotSafety, CopilotTypeOK, SignInRecords,
       SweepRecords
  <2>9. changes' \in 0..MaxChanges /\ mishaps' \in 0..MaxMishaps
    BY <1>1, <1>2, <1>3, <1>4, <1>5 DEF CopilotInv, CopilotSafety, countVars, CopilotTypeOK
  <2> QED
    BY <2>1, <2>2, <2>3, <2>4, <2>5, <2>6, <2>7, <2>8, <2>9 DEF CopilotTypeOK, LeaseRecords,
       SignInRecords, SweepRecords, AccountRecords, SavedRecords, OfficeRecords, LeaseStages
<1>7. PublishedIsOpen'
  BY <1>1, <1>2, <1>3, <1>4, <1>5 DEF CopilotInv, CopilotSafety, stateVars, PublishedIsOpen,
     CopilotTypeOK
<1>8. LiveIsOwned'
  BY <1>1, <1>2, <1>3, <1>4, <1>5 DEF CopilotInv, CopilotSafety, LiveIsOwned, Live, CopilotTypeOK
<1>9. ClosedIsUnused'
  BY <1>1, <1>2, <1>3, <1>4, <1>5 DEF CopilotInv, CopilotSafety, ClosedIsUnused, Holders,
     CopilotTypeOK
<1>10. GoneIsGone'
  BY <1>1, <1>2, <1>3, <1>4, <1>5 DEF CopilotInv, CopilotSafety, countVars, GoneIsGone, GoneFits,
     Live, CopilotTypeOK
<1>11. SavedIsTrue'
  BY <1>1, <1>2, <1>3, <1>4, <1>5 DEF CopilotInv, CopilotSafety, stateVars, SavedIsTrue,
     CopilotTypeOK
<1>12. MadeInOrder'
  BY <1>2
<1>13. HeldIsOpen'
  BY <1>1, <1>2, <1>3, <1>4, <1>5 DEF CopilotInv, CopilotSafety, HeldIsOpen, Holders,
     CopilotTypeOK
<1>14. CreatingIsOpen'
  BY <1>1, <1>2, <1>3, <1>4, <1>5 DEF CopilotInv, CopilotSafety, CreatingIsOpen, OwnedIsMade,
     CopilotTypeOK
<1>15. OwnedIsMade'
  BY <1>1, <1>2, <1>3, <1>4, <1>5 DEF CopilotInv, CopilotSafety, OwnedIsMade, CopilotTypeOK
<1>16. LeasesFit'
  BY <1>1, <1>2, <1>3, <1>4, <1>5 DEF CopilotInv, CopilotSafety, LeasesFit, PublishedIsOpen,
     Brokers, CopilotTypeOK
<1>17. MakersFit'
  BY <1>1, <1>2, <1>3, <1>4, <1>5 DEF CopilotInv, CopilotSafety, MakersFit, CopilotTypeOK
<1>18. SignInFits'
  <2>1. signIn'.broker # account'.broker
    BY <1>2, <1>3, <1>5 DEF CopilotInv, CopilotSafety, PublishedIsOpen, stateVars
  <2>2. signIn'.broker \in Brokers /\ broker'[signIn'.broker] # "unmade" /\ signIn'.broker # 0
    BY <1>2, <1>3
  <2>3. signIn'.at # "none"
    BY <1>3
  <2> QED
    BY <2>1, <2>2, <2>3 DEF SignInFits
<1>19. OfficeFits'
  BY <1>1, <1>2, <1>3, <1>4, <1>5 DEF CopilotInv, CopilotSafety, stateVars, OfficeFits, Idle,
     PublishedIsOpen, CopilotTypeOK
<1>20. GoneFits'
  BY <1>1, <1>2, <1>3, <1>4, <1>5 DEF CopilotInv, CopilotSafety, countVars, GoneFits,
     PublishedIsOpen, CopilotTypeOK
<1> QED
  BY <1>6, <1>7, <1>8, <1>9, <1>10, <1>11, <1>12, <1>13, <1>14, <1>15, <1>16, <1>17, <1>18,
     <1>19, <1>20 DEF CopilotInv, CopilotSafety

\* It publishes the account.
LEMMA CopilotSignInPublishes == ASSUME CopilotInv, SignInPublishes PROVE CopilotInv'
<1>1. /\ signIn' \in SignInRecords /\ signIn'.at = "ending"
      /\ signIn'.broker = signIn.broker /\ signIn'.cancelled = signIn.cancelled
  <2>1. "ending" \in SignInStages
    BY DEF SignInStages
  <2> QED
    BY <2>1, SignInMoved DEF CopilotInv, CopilotSafety, SignInPublishes
<1>2. /\ account' \in AccountRecords /\ saved' \in SavedRecords /\ unsaved' \in BOOLEAN /\ SavedIsTrue'
      /\ \/ UNCHANGED account
         \/ attempt /\ closure = "open" /\ account'.enabled /\ account'.broker = signIn.broker
  <2>1. CASE UNCHANGED stateVars
    BY <2>1 DEF CopilotInv, CopilotSafety, CopilotTypeOK, AccountRecords, SavedRecords,
       SavedIsTrue, stateVars
  <2>2. CASE /\ MayPublish /\ unsaved' = FALSE
             /\ account' = [enabled |-> TRUE, revision |-> account.revision + 1, broker |-> signIn.broker]
             /\ saved' = [enabled |-> TRUE, revision |-> account.revision + 1]
    <3>1. account.revision + 1 \in Nat /\ signIn.broker \in 0..MaxBrokers
      BY DEF CopilotInv, CopilotSafety, CopilotTypeOK
    <3>2. account' \in AccountRecords /\ saved' \in SavedRecords
      BY <2>2, <3>1 DEF AccountRecords, SavedRecords
    <3> QED
      BY <2>2, <3>2 DEF SavedIsTrue, MayPublish, ManagerIsClosed
  <2> QED
    BY <2>1, <2>2 DEF SignInPublishes
<1>3. /\ signIn.at \in {"probing", "reprobing"} /\ broker[signIn.broker] = "open"
      /\ signIn.broker \in Brokers /\ signIn.broker # 0 /\ signIn.broker \in owners
  BY DEF SignInPublishes, CopilotInv, CopilotSafety, SignInFits, LiveIsOwned, Live
<1>4. UNCHANGED <<brokerVars, lease, brokerLock, attempt, office, closure, sweep, countVars>>
  BY DEF SignInPublishes
<1>5. CopilotTypeOK'
  <2>1. account' \in AccountRecords /\ saved' \in SavedRecords
    BY <1>1, <1>2, <1>3, <1>4 DEF CopilotInv, CopilotSafety, CopilotTypeOK
  <2>2. unsaved' \in BOOLEAN /\ signedIn' \in BOOLEAN /\ quiet' \in BOOLEAN /\ attempt' \in BOOLEAN
    BY <1>1, <1>2, <1>3, <1>4 DEF CopilotInv, CopilotSafety, countVars, CopilotTypeOK
  <2>3. /\ broker' \in [Brokers -> {"unmade", "open", "closing", "draining", "stuck", "closed"}]
        /\ owners' \subseteq Brokers /\ creating' \subseteq Brokers
    BY <1>1, <1>2, <1>3, <1>4 DEF CopilotInv, CopilotSafety, brokerVars, CopilotTypeOK
  <2>4. lease' \in [Leases -> LeaseRecords]
    BY <1>1, <1>2, <1>3, <1>4 DEF CopilotInv, CopilotSafety, CopilotTypeOK, LeaseRecords,
       SignInRecords, AccountRecords, SavedRecords, LeaseStages
  <2>5. brokerLock' \in Leases \cup {"nobody"}
    BY <1>1, <1>2, <1>3, <1>4 DEF CopilotInv, CopilotSafety, CopilotTypeOK
  <2>6. signIn' \in SignInRecords
    BY <1>1, <1>2, <1>3, <1>4 DEF CopilotInv, CopilotSafety, CopilotTypeOK
  <2>7. office' \in OfficeRecords /\ closure' \in {"open", "asked", "running", "failed", "closed"}
    BY <1>1, <1>2, <1>3, <1>4 DEF CopilotInv, CopilotSafety, CopilotTypeOK, SignInRecords,
       AccountRecords, SavedRecords, OfficeRecords
  <2>8. sweep' \in SweepRecords
    BY <1>1, <1>2, <1>3, <1>4 DEF CopilotInv, CopilotSafety, CopilotTypeOK, SignInRecords,
       SweepRecords, AccountRecords, SavedRecords
  <2>9. changes' \in 0..MaxChanges /\ mishaps' \in 0..MaxMishaps
    BY <1>1, <1>2, <1>3, <1>4 DEF CopilotInv, CopilotSafety, countVars, CopilotTypeOK
  <2> QED
    BY <2>1, <2>2, <2>3, <2>4, <2>5, <2>6, <2>7, <2>8, <2>9 DEF CopilotTypeOK, LeaseRecords,
       SignInRecords, SweepRecords, AccountRecords, SavedRecords, OfficeRecords, LeaseStages
<1>6. PublishedIsOpen'
  BY <1>1, <1>2, <1>3, <1>4 DEF CopilotInv, CopilotSafety, brokerVars, PublishedIsOpen,
     CopilotTypeOK
<1>7. LiveIsOwned'
  BY <1>1, <1>2, <1>3, <1>4 DEF CopilotInv, CopilotSafety, brokerVars, LiveIsOwned, Live,
     CopilotTypeOK
<1>8. ClosedIsUnused'
  BY <1>1, <1>2, <1>3, <1>4 DEF CopilotInv, CopilotSafety, brokerVars, ClosedIsUnused, Holders,
     CopilotTypeOK
<1>9. GoneIsGone'
  BY <1>1, <1>2, <1>3, <1>4 DEF CopilotInv, CopilotSafety, countVars, GoneIsGone, GoneFits, Live,
     CopilotTypeOK
<1>10. SavedIsTrue'
  BY <1>1, <1>2, <1>3, <1>4 DEF CopilotInv, CopilotSafety, SavedIsTrue, CopilotTypeOK
<1>11. MadeInOrder'
  BY <1>1, <1>2, <1>3, <1>4 DEF CopilotInv, CopilotSafety, brokerVars, MadeInOrder, Made,
     CopilotTypeOK
<1>12. HeldIsOpen'
  BY <1>1, <1>2, <1>3, <1>4 DEF CopilotInv, CopilotSafety, brokerVars, HeldIsOpen, Holders,
     CopilotTypeOK
<1>13. CreatingIsOpen'
  BY <1>1, <1>2, <1>3, <1>4 DEF CopilotInv, CopilotSafety, brokerVars, CreatingIsOpen,
     OwnedIsMade, CopilotTypeOK
<1>14. OwnedIsMade'
  BY <1>1, <1>2, <1>3, <1>4 DEF CopilotInv, CopilotSafety, brokerVars, OwnedIsMade, CopilotTypeOK
<1>15. LeasesFit'
  BY <1>1, <1>2, <1>3, <1>4 DEF CopilotInv, CopilotSafety, brokerVars, LeasesFit,
     PublishedIsOpen, Brokers, CopilotTypeOK
<1>16. MakersFit'
  BY <1>1, <1>2, <1>3, <1>4 DEF CopilotInv, CopilotSafety, MakersFit, CopilotTypeOK
<1>17. SignInFits'
  BY <1>1, <1>2, <1>3, <1>4 DEF CopilotInv, CopilotSafety, brokerVars, SignInFits, Brokers,
     CopilotTypeOK
<1>18. OfficeFits'
  BY <1>1, <1>2, <1>3, <1>4 DEF CopilotInv, CopilotSafety, OfficeFits, Idle, PublishedIsOpen,
     CopilotTypeOK
<1>19. GoneFits'
  BY <1>1, <1>2, <1>3, <1>4 DEF CopilotInv, CopilotSafety, countVars, GoneFits, PublishedIsOpen,
     CopilotTypeOK
<1> QED
  BY <1>5, <1>6, <1>7, <1>8, <1>9, <1>10, <1>11, <1>12, <1>13, <1>14, <1>15, <1>16, <1>17,
     <1>18, <1>19 DEF CopilotInv, CopilotSafety

\* The profile is signed out.
LEMMA CopilotSignInRejected == ASSUME CopilotInv, SignInRejected PROVE CopilotInv'
<1>1. /\ signIn' \in SignInRecords /\ signIn'.at = "rejecting"
      /\ signIn'.broker = signIn.broker /\ signIn'.cancelled = signIn.cancelled
  <2>1. "rejecting" \in SignInStages
    BY DEF SignInStages
  <2> QED
    BY <2>1, SignInMoved DEF CopilotInv, CopilotSafety, SignInRejected
<1>2. signIn.at = "probing" /\ signIn.broker # account.broker /\ signIn.broker # 0
  BY DEF SignInRejected, CopilotInv, SignInFits
<1>3. /\ broker' \in [Brokers -> {"unmade", "open", "closing", "draining", "stuck", "closed"}]
      /\ \A c \in Brokers : broker'[c] # broker[c] =>
             c # account.broker /\ broker[c] \in {"open", "stuck"} /\ broker'[c] = "closing"
      /\ Made' = Made /\ Live' = Live
  BY <1>2, BrokerIsAsked DEF SignInRejected, CopilotInv, CopilotSafety
<1>4. UNCHANGED <<stateVars, owners, creating, lease, brokerLock, attempt, office, closure, sweep, countVars>>
  BY DEF SignInRejected
<1>5. CopilotTypeOK'
  <2>1. account' \in AccountRecords /\ saved' \in SavedRecords
    BY <1>1, <1>2, <1>3, <1>4 DEF CopilotInv, CopilotSafety, stateVars, CopilotTypeOK,
       SignInRecords, AccountRecords, SavedRecords
  <2>2. unsaved' \in BOOLEAN /\ signedIn' \in BOOLEAN /\ quiet' \in BOOLEAN /\ attempt' \in BOOLEAN
    BY <1>1, <1>2, <1>3, <1>4 DEF CopilotInv, CopilotSafety, stateVars, countVars, CopilotTypeOK
  <2>3. /\ broker' \in [Brokers -> {"unmade", "open", "closing", "draining", "stuck", "closed"}]
        /\ owners' \subseteq Brokers /\ creating' \subseteq Brokers
    BY <1>1, <1>2, <1>3, <1>4 DEF CopilotInv, CopilotSafety, CopilotTypeOK
  <2>4. lease' \in [Leases -> LeaseRecords]
    BY <1>1, <1>2, <1>3, <1>4 DEF CopilotInv, CopilotSafety, CopilotTypeOK, LeaseRecords,
       SignInRecords, LeaseStages
  <2>5. brokerLock' \in Leases \cup {"nobody"}
    BY <1>1, <1>2, <1>3, <1>4 DEF CopilotInv, CopilotSafety, CopilotTypeOK
  <2>6. signIn' \in SignInRecords
    BY <1>1, <1>2, <1>3, <1>4 DEF CopilotInv, CopilotSafety, CopilotTypeOK
  <2>7. office' \in OfficeRecords /\ closure' \in {"open", "asked", "running", "failed", "closed"}
    BY <1>1, <1>2, <1>3, <1>4 DEF CopilotInv, CopilotSafety, CopilotTypeOK, SignInRecords,
       OfficeRecords
  <2>8. sweep' \in SweepRecords
    BY <1>1, <1>2, <1>3, <1>4 DEF CopilotInv, CopilotSafety, CopilotTypeOK, SignInRecords,
       SweepRecords
  <2>9. changes' \in 0..MaxChanges /\ mishaps' \in 0..MaxMishaps
    BY <1>1, <1>2, <1>3, <1>4 DEF CopilotInv, CopilotSafety, countVars, CopilotTypeOK
  <2> QED
    BY <2>1, <2>2, <2>3, <2>4, <2>5, <2>6, <2>7, <2>8, <2>9 DEF CopilotTypeOK, LeaseRecords,
       SignInRecords, SweepRecords, AccountRecords, SavedRecords, OfficeRecords, LeaseStages
<1>6. PublishedIsOpen'
  BY <1>1, <1>2, <1>3, <1>4 DEF CopilotInv, CopilotSafety, stateVars, PublishedIsOpen,
     CopilotTypeOK
<1>7. LiveIsOwned'
  BY <1>1, <1>2, <1>3, <1>4 DEF CopilotInv, CopilotSafety, LiveIsOwned, Live, CopilotTypeOK
<1>8. ClosedIsUnused'
  BY <1>1, <1>2, <1>3, <1>4 DEF CopilotInv, CopilotSafety, ClosedIsUnused, Holders, CopilotTypeOK
<1>9. GoneIsGone'
  BY <1>1, <1>2, <1>3, <1>4 DEF CopilotInv, CopilotSafety, countVars, GoneIsGone, GoneFits, Live,
     CopilotTypeOK
<1>10. SavedIsTrue'
  BY <1>1, <1>2, <1>3, <1>4 DEF CopilotInv, CopilotSafety, stateVars, SavedIsTrue, CopilotTypeOK
<1>11. MadeInOrder'
  BY <1>1, <1>2, <1>3, <1>4 DEF CopilotInv, CopilotSafety, MadeInOrder, Made, CopilotTypeOK
<1>12. HeldIsOpen'
  BY <1>1, <1>2, <1>3, <1>4 DEF CopilotInv, CopilotSafety, HeldIsOpen, Holders, CopilotTypeOK
<1>13. CreatingIsOpen'
  BY <1>1, <1>2, <1>3, <1>4 DEF CopilotInv, CopilotSafety, CreatingIsOpen, OwnedIsMade,
     CopilotTypeOK
<1>14. OwnedIsMade'
  BY <1>1, <1>2, <1>3, <1>4 DEF CopilotInv, CopilotSafety, OwnedIsMade, CopilotTypeOK
<1>15. LeasesFit'
  BY <1>1, <1>2, <1>3, <1>4 DEF CopilotInv, CopilotSafety, LeasesFit, PublishedIsOpen, Brokers,
     CopilotTypeOK
<1>16. MakersFit'
  BY <1>1, <1>2, <1>3, <1>4 DEF CopilotInv, CopilotSafety, MakersFit, CopilotTypeOK
<1>17. SignInFits'
  BY <1>1, <1>2, <1>3, <1>4 DEF CopilotInv, CopilotSafety, SignInFits, Brokers, CopilotTypeOK
<1>18. OfficeFits'
  BY <1>1, <1>2, <1>3, <1>4 DEF CopilotInv, CopilotSafety, stateVars, OfficeFits, Idle,
     PublishedIsOpen, CopilotTypeOK
<1>19. GoneFits'
  BY <1>1, <1>2, <1>3, <1>4 DEF CopilotInv, CopilotSafety, countVars, GoneFits, PublishedIsOpen,
     CopilotTypeOK
<1> QED
  BY <1>5, <1>6, <1>7, <1>8, <1>9, <1>10, <1>11, <1>12, <1>13, <1>14, <1>15, <1>16, <1>17,
     <1>18, <1>19 DEF CopilotInv, CopilotSafety

\* The device login follows.
LEMMA CopilotSignInGoesOn == ASSUME CopilotInv, SignInGoesOn PROVE CopilotInv'
<1>1. /\ signIn' \in SignInRecords /\ signIn.at # "none"
      /\ \/ signIn'.at = "device" /\ signIn'.broker = 0
         \/ signIn'.at = "ending" /\ signIn'.broker = signIn.broker
  <2>1. "device" \in SignInStages /\ "ending" \in SignInStages /\ 0 \in 0..MaxBrokers
    BY CopilotAssumption DEF SignInStages, CopilotAssumption
  <2>2. CASE signIn' = [signIn EXCEPT !.broker = 0, !.at = "device"]
    <3> DEFINE z == 0
    <3>1. z \in 0..MaxBrokers /\ signIn' = [signIn EXCEPT !.broker = z, !.at = "device"]
      BY <2>1, <2>2
    <3> HIDE DEF z
    <3>2. signIn' \in SignInRecords /\ signIn'.at = "device" /\ signIn'.broker = z
      BY <2>1, <3>1, SignInGiven DEF CopilotInv, CopilotSafety
    <3> QED
      BY <3>2 DEF SignInGoesOn, z
  <2>3. CASE SignInTo("ending")
    BY <2>1, <2>3, SignInMoved DEF SignInGoesOn, CopilotInv, CopilotSafety
  <2> QED
    BY <2>2, <2>3 DEF SignInGoesOn
<1>2. owners' \subseteq owners /\ \A c \in owners : c \notin owners' => broker[c] = "closed"
  BY DEF SignInGoesOn, Disown
<1>3. UNCHANGED <<stateVars, broker, creating, lease, brokerLock, attempt, office, closure, sweep, countVars>>
  BY DEF SignInGoesOn
<1>4. CopilotTypeOK'
  <2>1. account' \in AccountRecords /\ saved' \in SavedRecords
    BY <1>1, <1>2, <1>3 DEF CopilotInv, CopilotSafety, stateVars, CopilotTypeOK, SignInRecords,
       AccountRecords, SavedRecords
  <2>2. unsaved' \in BOOLEAN /\ signedIn' \in BOOLEAN /\ quiet' \in BOOLEAN /\ attempt' \in BOOLEAN
    BY <1>1, <1>2, <1>3 DEF CopilotInv, CopilotSafety, stateVars, countVars, CopilotTypeOK
  <2>3. /\ broker' \in [Brokers -> {"unmade", "open", "closing", "draining", "stuck", "closed"}]
        /\ owners' \subseteq Brokers /\ creating' \subseteq Brokers
    BY <1>1, <1>2, <1>3 DEF CopilotInv, CopilotSafety, CopilotTypeOK
  <2>4. lease' \in [Leases -> LeaseRecords]
    BY <1>1, <1>2, <1>3 DEF CopilotInv, CopilotSafety, CopilotTypeOK, LeaseRecords,
       SignInRecords, LeaseStages
  <2>5. brokerLock' \in Leases \cup {"nobody"}
    BY <1>1, <1>2, <1>3 DEF CopilotInv, CopilotSafety, CopilotTypeOK
  <2>6. signIn' \in SignInRecords
    BY <1>1, <1>2, <1>3 DEF CopilotInv, CopilotSafety, CopilotTypeOK
  <2>7. office' \in OfficeRecords /\ closure' \in {"open", "asked", "running", "failed", "closed"}
    BY <1>1, <1>2, <1>3 DEF CopilotInv, CopilotSafety, CopilotTypeOK, SignInRecords,
       OfficeRecords
  <2>8. sweep' \in SweepRecords
    BY <1>1, <1>2, <1>3 DEF CopilotInv, CopilotSafety, CopilotTypeOK, SignInRecords, SweepRecords
  <2>9. changes' \in 0..MaxChanges /\ mishaps' \in 0..MaxMishaps
    BY <1>1, <1>2, <1>3 DEF CopilotInv, CopilotSafety, countVars, CopilotTypeOK
  <2> QED
    BY <2>1, <2>2, <2>3, <2>4, <2>5, <2>6, <2>7, <2>8, <2>9 DEF CopilotTypeOK, LeaseRecords,
       SignInRecords, SweepRecords, AccountRecords, SavedRecords, OfficeRecords, LeaseStages
<1>5. PublishedIsOpen'
  BY <1>1, <1>2, <1>3 DEF CopilotInv, CopilotSafety, stateVars, PublishedIsOpen, CopilotTypeOK
<1>6. LiveIsOwned'
  BY <1>1, <1>2, <1>3 DEF CopilotInv, CopilotSafety, LiveIsOwned, Live, CopilotTypeOK
<1>7. ClosedIsUnused'
  BY <1>1, <1>2, <1>3 DEF CopilotInv, CopilotSafety, ClosedIsUnused, Holders, CopilotTypeOK
<1>8. GoneIsGone'
  BY <1>1, <1>2, <1>3 DEF CopilotInv, CopilotSafety, countVars, GoneIsGone, GoneFits, Live,
     CopilotTypeOK
<1>9. SavedIsTrue'
  BY <1>1, <1>2, <1>3 DEF CopilotInv, CopilotSafety, stateVars, SavedIsTrue, CopilotTypeOK
<1>10. MadeInOrder'
  BY <1>1, <1>2, <1>3 DEF CopilotInv, CopilotSafety, MadeInOrder, Made, CopilotTypeOK
<1>11. HeldIsOpen'
  BY <1>1, <1>2, <1>3 DEF CopilotInv, CopilotSafety, HeldIsOpen, Holders, CopilotTypeOK
<1>12. CreatingIsOpen'
  BY <1>1, <1>2, <1>3 DEF CopilotInv, CopilotSafety, CreatingIsOpen, OwnedIsMade, CopilotTypeOK
<1>13. OwnedIsMade'
  BY <1>1, <1>2, <1>3 DEF CopilotInv, CopilotSafety, OwnedIsMade, CopilotTypeOK
<1>14. LeasesFit'
  BY <1>1, <1>2, <1>3 DEF CopilotInv, CopilotSafety, LeasesFit, PublishedIsOpen, Brokers,
     CopilotTypeOK
<1>15. MakersFit'
  BY <1>1, <1>2, <1>3 DEF CopilotInv, CopilotSafety, MakersFit, CopilotTypeOK
<1>16. SignInFits'
  BY <1>1, <1>2, <1>3 DEF CopilotInv, CopilotSafety, SignInFits, Brokers, CopilotTypeOK
<1>17. OfficeFits'
  BY <1>1, <1>2, <1>3 DEF CopilotInv, CopilotSafety, stateVars, OfficeFits, Idle,
     PublishedIsOpen, CopilotTypeOK
<1>18. GoneFits'
  BY <1>1, <1>2, <1>3 DEF CopilotInv, CopilotSafety, countVars, GoneFits, PublishedIsOpen,
     CopilotTypeOK
<1> QED
  BY <1>4, <1>5, <1>6, <1>7, <1>8, <1>9, <1>10, <1>11, <1>12, <1>13, <1>14, <1>15, <1>16,
     <1>17, <1>18 DEF CopilotInv, CopilotSafety

\* The user has signed in.
LEMMA CopilotDeviceLogin == ASSUME CopilotInv, DeviceLogin PROVE CopilotInv'
<1>1. /\ signIn' \in SignInRecords /\ signIn'.at = "remaking"
      /\ signIn'.broker = signIn.broker /\ signIn'.cancelled = signIn.cancelled
  <2>1. "remaking" \in SignInStages
    BY DEF SignInStages
  <2> QED
    BY <2>1, SignInMoved DEF CopilotInv, CopilotSafety, DeviceLogin
<1>2. CopilotTypeOK'
  <2>1. account' \in AccountRecords /\ saved' \in SavedRecords
    BY <1>1 DEF CopilotInv, CopilotSafety, DeviceLogin, stateVars, CopilotTypeOK, SignInRecords,
       AccountRecords, SavedRecords
  <2>2. unsaved' \in BOOLEAN /\ signedIn' \in BOOLEAN /\ quiet' \in BOOLEAN /\ attempt' \in BOOLEAN
    BY <1>1 DEF CopilotInv, CopilotSafety, DeviceLogin, stateVars, CopilotTypeOK
  <2>3. /\ broker' \in [Brokers -> {"unmade", "open", "closing", "draining", "stuck", "closed"}]
        /\ owners' \subseteq Brokers /\ creating' \subseteq Brokers
    BY <1>1 DEF CopilotInv, CopilotSafety, DeviceLogin, brokerVars, CopilotTypeOK
  <2>4. lease' \in [Leases -> LeaseRecords]
    BY <1>1 DEF CopilotInv, CopilotSafety, DeviceLogin, CopilotTypeOK, LeaseRecords,
       SignInRecords, LeaseStages
  <2>5. brokerLock' \in Leases \cup {"nobody"}
    BY <1>1 DEF CopilotInv, CopilotSafety, DeviceLogin, CopilotTypeOK
  <2>6. signIn' \in SignInRecords
    BY <1>1 DEF CopilotInv, CopilotSafety, DeviceLogin, CopilotTypeOK
  <2>7. office' \in OfficeRecords /\ closure' \in {"open", "asked", "running", "failed", "closed"}
    BY <1>1 DEF CopilotInv, CopilotSafety, DeviceLogin, CopilotTypeOK, SignInRecords,
       OfficeRecords
  <2>8. sweep' \in SweepRecords
    BY <1>1 DEF CopilotInv, CopilotSafety, DeviceLogin, CopilotTypeOK, SignInRecords,
       SweepRecords
  <2>9. changes' \in 0..MaxChanges /\ mishaps' \in 0..MaxMishaps
    BY <1>1 DEF CopilotInv, CopilotSafety, DeviceLogin, CopilotTypeOK
  <2> QED
    BY <2>1, <2>2, <2>3, <2>4, <2>5, <2>6, <2>7, <2>8, <2>9 DEF CopilotTypeOK, LeaseRecords,
       SignInRecords, SweepRecords, AccountRecords, SavedRecords, OfficeRecords, LeaseStages
<1>3. PublishedIsOpen'
  BY <1>1 DEF CopilotInv, CopilotSafety, DeviceLogin, stateVars, brokerVars, PublishedIsOpen,
     CopilotTypeOK
<1>4. LiveIsOwned'
  BY <1>1 DEF CopilotInv, CopilotSafety, DeviceLogin, brokerVars, LiveIsOwned, Live,
     CopilotTypeOK
<1>5. ClosedIsUnused'
  BY <1>1 DEF CopilotInv, CopilotSafety, DeviceLogin, brokerVars, ClosedIsUnused, Holders,
     CopilotTypeOK
<1>6. GoneIsGone'
  BY <1>1 DEF CopilotInv, CopilotSafety, DeviceLogin, GoneIsGone, GoneFits, Live, CopilotTypeOK
<1>7. SavedIsTrue'
  BY <1>1 DEF CopilotInv, CopilotSafety, DeviceLogin, stateVars, SavedIsTrue, CopilotTypeOK
<1>8. MadeInOrder'
  BY <1>1 DEF CopilotInv, CopilotSafety, DeviceLogin, brokerVars, MadeInOrder, Made,
     CopilotTypeOK
<1>9. HeldIsOpen'
  BY <1>1 DEF CopilotInv, CopilotSafety, DeviceLogin, brokerVars, HeldIsOpen, Holders,
     CopilotTypeOK
<1>10. CreatingIsOpen'
  BY <1>1 DEF CopilotInv, CopilotSafety, DeviceLogin, brokerVars, CreatingIsOpen, OwnedIsMade,
     CopilotTypeOK
<1>11. OwnedIsMade'
  BY <1>1 DEF CopilotInv, CopilotSafety, DeviceLogin, brokerVars, OwnedIsMade, CopilotTypeOK
<1>12. LeasesFit'
  BY <1>1 DEF CopilotInv, CopilotSafety, DeviceLogin, brokerVars, LeasesFit, PublishedIsOpen,
     Brokers, CopilotTypeOK
<1>13. MakersFit'
  BY <1>1 DEF CopilotInv, CopilotSafety, DeviceLogin, MakersFit, CopilotTypeOK
<1>14. SignInFits'
  BY <1>1 DEF CopilotInv, CopilotSafety, DeviceLogin, brokerVars, SignInFits, Brokers,
     CopilotTypeOK
<1>15. OfficeFits'
  BY <1>1 DEF CopilotInv, CopilotSafety, DeviceLogin, stateVars, OfficeFits, Idle,
     PublishedIsOpen, CopilotTypeOK
<1>16. GoneFits'
  BY <1>1 DEF CopilotInv, CopilotSafety, DeviceLogin, GoneFits, PublishedIsOpen, CopilotTypeOK
<1> QED
  BY <1>2, <1>3, <1>4, <1>5, <1>6, <1>7, <1>8, <1>9, <1>10, <1>11, <1>12, <1>13, <1>14, <1>15,
     <1>16 DEF CopilotInv, CopilotSafety

\* The login fails.
LEMMA CopilotSignInStops == ASSUME CopilotInv, SignInStops PROVE CopilotInv'
<1>1. /\ signIn' \in SignInRecords /\ signIn'.at = "ending"
      /\ signIn'.broker = signIn.broker /\ signIn'.cancelled = signIn.cancelled
  <2>1. "ending" \in SignInStages
    BY DEF SignInStages
  <2> QED
    BY <2>1, SignInMoved DEF CopilotInv, CopilotSafety, SignInStops
<1>2. CopilotTypeOK'
  <2>1. account' \in AccountRecords /\ saved' \in SavedRecords
    BY <1>1 DEF CopilotInv, CopilotSafety, SignInStops, stateVars, CopilotTypeOK, SignInRecords,
       AccountRecords, SavedRecords
  <2>2. unsaved' \in BOOLEAN /\ signedIn' \in BOOLEAN /\ quiet' \in BOOLEAN /\ attempt' \in BOOLEAN
    BY <1>1 DEF CopilotInv, CopilotSafety, SignInStops, stateVars, countVars, CopilotTypeOK
  <2>3. /\ broker' \in [Brokers -> {"unmade", "open", "closing", "draining", "stuck", "closed"}]
        /\ owners' \subseteq Brokers /\ creating' \subseteq Brokers
    BY <1>1 DEF CopilotInv, CopilotSafety, SignInStops, brokerVars, CopilotTypeOK
  <2>4. lease' \in [Leases -> LeaseRecords]
    BY <1>1 DEF CopilotInv, CopilotSafety, SignInStops, CopilotTypeOK, LeaseRecords,
       SignInRecords, LeaseStages
  <2>5. brokerLock' \in Leases \cup {"nobody"}
    BY <1>1 DEF CopilotInv, CopilotSafety, SignInStops, CopilotTypeOK
  <2>6. signIn' \in SignInRecords
    BY <1>1 DEF CopilotInv, CopilotSafety, SignInStops, CopilotTypeOK
  <2>7. office' \in OfficeRecords /\ closure' \in {"open", "asked", "running", "failed", "closed"}
    BY <1>1 DEF CopilotInv, CopilotSafety, SignInStops, CopilotTypeOK, SignInRecords,
       OfficeRecords
  <2>8. sweep' \in SweepRecords
    BY <1>1 DEF CopilotInv, CopilotSafety, SignInStops, CopilotTypeOK, SignInRecords,
       SweepRecords
  <2>9. changes' \in 0..MaxChanges /\ mishaps' \in 0..MaxMishaps
    BY <1>1 DEF CopilotInv, CopilotSafety, SignInStops, countVars, CopilotTypeOK
  <2> QED
    BY <2>1, <2>2, <2>3, <2>4, <2>5, <2>6, <2>7, <2>8, <2>9 DEF CopilotTypeOK, LeaseRecords,
       SignInRecords, SweepRecords, AccountRecords, SavedRecords, OfficeRecords, LeaseStages
<1>3. PublishedIsOpen'
  BY <1>1 DEF CopilotInv, CopilotSafety, SignInStops, stateVars, brokerVars, PublishedIsOpen,
     CopilotTypeOK
<1>4. LiveIsOwned'
  BY <1>1 DEF CopilotInv, CopilotSafety, SignInStops, brokerVars, LiveIsOwned, Live,
     CopilotTypeOK
<1>5. ClosedIsUnused'
  BY <1>1 DEF CopilotInv, CopilotSafety, SignInStops, brokerVars, ClosedIsUnused, Holders,
     CopilotTypeOK
<1>6. GoneIsGone'
  BY <1>1 DEF CopilotInv, CopilotSafety, SignInStops, countVars, GoneIsGone, GoneFits, Live,
     CopilotTypeOK
<1>7. SavedIsTrue'
  BY <1>1 DEF CopilotInv, CopilotSafety, SignInStops, stateVars, SavedIsTrue, CopilotTypeOK
<1>8. MadeInOrder'
  BY <1>1 DEF CopilotInv, CopilotSafety, SignInStops, brokerVars, MadeInOrder, Made,
     CopilotTypeOK
<1>9. HeldIsOpen'
  BY <1>1 DEF CopilotInv, CopilotSafety, SignInStops, brokerVars, HeldIsOpen, Holders,
     CopilotTypeOK
<1>10. CreatingIsOpen'
  BY <1>1 DEF CopilotInv, CopilotSafety, SignInStops, brokerVars, CreatingIsOpen, OwnedIsMade,
     CopilotTypeOK
<1>11. OwnedIsMade'
  BY <1>1 DEF CopilotInv, CopilotSafety, SignInStops, brokerVars, OwnedIsMade, CopilotTypeOK
<1>12. LeasesFit'
  BY <1>1 DEF CopilotInv, CopilotSafety, SignInStops, brokerVars, LeasesFit, PublishedIsOpen,
     Brokers, CopilotTypeOK
<1>13. MakersFit'
  BY <1>1 DEF CopilotInv, CopilotSafety, SignInStops, MakersFit, CopilotTypeOK
<1>14. SignInFits'
  BY <1>1 DEF CopilotInv, CopilotSafety, SignInStops, brokerVars, SignInFits, Brokers,
     CopilotTypeOK
<1>15. OfficeFits'
  BY <1>1 DEF CopilotInv, CopilotSafety, SignInStops, stateVars, OfficeFits, Idle,
     PublishedIsOpen, CopilotTypeOK
<1>16. GoneFits'
  BY <1>1 DEF CopilotInv, CopilotSafety, SignInStops, countVars, GoneFits, PublishedIsOpen,
     CopilotTypeOK
<1> QED
  BY <1>2, <1>3, <1>4, <1>5, <1>6, <1>7, <1>8, <1>9, <1>10, <1>11, <1>12, <1>13, <1>14, <1>15,
     <1>16 DEF CopilotInv, CopilotSafety

\* Its broker is published or closed.
LEMMA CopilotSignInEnds == ASSUME CopilotInv, SignInEnds PROVE CopilotInv'
<1>1. signIn.at = "ending"
  BY DEF SignInEnds
<1>2. /\ signIn' \in SignInRecords /\ attempt' \in BOOLEAN
      /\ \/ signIn'.at = "none" /\ signIn'.broker = 0 /\ ~attempt'
         \/ signIn'.at = "closing" /\ signIn'.broker = signIn.broker /\ signIn.broker # 0 /\ attempt' = attempt
  <2>1. CASE signIn' = NoLogin /\ attempt' = FALSE
    <3>1. signIn' \in SignInRecords /\ signIn'.at = "none" /\ signIn'.broker = 0
      BY <2>1, CopilotAssumption DEF NoLogin, SignInRecords, SignInStages, CopilotAssumption
    <3> QED
      BY <2>1, <3>1, Zenon
  <2>2. CASE SignInTo("closing") /\ signIn.broker # 0 /\ attempt' = attempt
    <3>1. "closing" \in SignInStages
      BY DEF SignInStages
    <3> QED
      BY <2>2, <3>1, SignInMoved DEF CopilotInv, CopilotSafety, CopilotTypeOK
  <2> QED
    BY <2>1, <2>2 DEF SignInEnds
<1>3. /\ broker' \in [Brokers -> {"unmade", "open", "closing", "draining", "stuck", "closed"}]
      /\ \A c \in Brokers : broker'[c] # broker[c] =>
             c # account.broker /\ broker[c] \in {"open", "stuck"} /\ broker'[c] = "closing"
      /\ Made' = Made /\ Live' = Live
  <2>1. CASE UNCHANGED broker
    BY <2>1 DEF CopilotInv, CopilotSafety, CopilotTypeOK, Made, Live
  <2>2. CASE Close(signIn.broker) /\ signIn.broker # account.broker
    BY <2>2, BrokerIsAsked DEF CopilotInv, CopilotSafety
  <2> QED
    BY <2>1, <2>2 DEF SignInEnds
<1>4. UNCHANGED <<owners, stateVars, creating, lease, brokerLock, office, closure, sweep, countVars>>
  BY DEF SignInEnds
<1>5. CopilotTypeOK'
  <2>1. account' \in AccountRecords /\ saved' \in SavedRecords
    BY <1>1, <1>2, <1>3, <1>4 DEF CopilotInv, CopilotSafety, stateVars, CopilotTypeOK,
       SignInRecords, AccountRecords, SavedRecords
  <2>2. unsaved' \in BOOLEAN /\ signedIn' \in BOOLEAN /\ quiet' \in BOOLEAN /\ attempt' \in BOOLEAN
    BY <1>1, <1>2, <1>3, <1>4 DEF CopilotInv, CopilotSafety, stateVars, countVars, CopilotTypeOK
  <2>3. /\ broker' \in [Brokers -> {"unmade", "open", "closing", "draining", "stuck", "closed"}]
        /\ owners' \subseteq Brokers /\ creating' \subseteq Brokers
    BY <1>1, <1>2, <1>3, <1>4 DEF CopilotInv, CopilotSafety, CopilotTypeOK
  <2>4. lease' \in [Leases -> LeaseRecords]
    BY <1>1, <1>2, <1>3, <1>4 DEF CopilotInv, CopilotSafety, CopilotTypeOK, LeaseRecords,
       SignInRecords, LeaseStages
  <2>5. brokerLock' \in Leases \cup {"nobody"}
    BY <1>1, <1>2, <1>3, <1>4 DEF CopilotInv, CopilotSafety, CopilotTypeOK
  <2>6. signIn' \in SignInRecords
    BY <1>1, <1>2, <1>3, <1>4 DEF CopilotInv, CopilotSafety, CopilotTypeOK
  <2>7. office' \in OfficeRecords /\ closure' \in {"open", "asked", "running", "failed", "closed"}
    BY <1>1, <1>2, <1>3, <1>4 DEF CopilotInv, CopilotSafety, CopilotTypeOK, SignInRecords,
       OfficeRecords
  <2>8. sweep' \in SweepRecords
    BY <1>1, <1>2, <1>3, <1>4 DEF CopilotInv, CopilotSafety, CopilotTypeOK, SignInRecords,
       SweepRecords
  <2>9. changes' \in 0..MaxChanges /\ mishaps' \in 0..MaxMishaps
    BY <1>1, <1>2, <1>3, <1>4 DEF CopilotInv, CopilotSafety, countVars, CopilotTypeOK
  <2> QED
    BY <2>1, <2>2, <2>3, <2>4, <2>5, <2>6, <2>7, <2>8, <2>9 DEF CopilotTypeOK, LeaseRecords,
       SignInRecords, SweepRecords, AccountRecords, SavedRecords, OfficeRecords, LeaseStages
<1>6. PublishedIsOpen'
  BY <1>1, <1>2, <1>3, <1>4 DEF CopilotInv, CopilotSafety, stateVars, PublishedIsOpen,
     CopilotTypeOK
<1>7. LiveIsOwned'
  BY <1>1, <1>2, <1>3, <1>4 DEF CopilotInv, CopilotSafety, LiveIsOwned, Live, CopilotTypeOK
<1>8. ClosedIsUnused'
  BY <1>1, <1>2, <1>3, <1>4 DEF CopilotInv, CopilotSafety, ClosedIsUnused, Holders, CopilotTypeOK
<1>9. GoneIsGone'
  BY <1>1, <1>2, <1>3, <1>4 DEF CopilotInv, CopilotSafety, countVars, GoneIsGone, GoneFits, Live,
     CopilotTypeOK
<1>10. SavedIsTrue'
  BY <1>1, <1>2, <1>3, <1>4 DEF CopilotInv, CopilotSafety, stateVars, SavedIsTrue, CopilotTypeOK
<1>11. MadeInOrder'
  BY <1>1, <1>2, <1>3, <1>4 DEF CopilotInv, CopilotSafety, MadeInOrder, Made, CopilotTypeOK
<1>12. HeldIsOpen'
  BY <1>1, <1>2, <1>3, <1>4 DEF CopilotInv, CopilotSafety, HeldIsOpen, Holders, CopilotTypeOK
<1>13. CreatingIsOpen'
  BY <1>1, <1>2, <1>3, <1>4 DEF CopilotInv, CopilotSafety, CreatingIsOpen, OwnedIsMade,
     CopilotTypeOK
<1>14. OwnedIsMade'
  BY <1>1, <1>2, <1>3, <1>4 DEF CopilotInv, CopilotSafety, OwnedIsMade, CopilotTypeOK
<1>15. LeasesFit'
  BY <1>1, <1>2, <1>3, <1>4 DEF CopilotInv, CopilotSafety, LeasesFit, PublishedIsOpen, Brokers,
     CopilotTypeOK
<1>16. MakersFit'
  BY <1>1, <1>2, <1>3, <1>4 DEF CopilotInv, CopilotSafety, MakersFit, CopilotTypeOK
<1>17. SignInFits'
  BY <1>1, <1>2, <1>3, <1>4 DEF CopilotInv, CopilotSafety, SignInFits, Brokers, CopilotTypeOK
<1>18. OfficeFits'
  BY <1>1, <1>2, <1>3, <1>4 DEF CopilotInv, CopilotSafety, stateVars, OfficeFits, Idle,
     PublishedIsOpen, CopilotTypeOK
<1>19. GoneFits'
  BY <1>1, <1>2, <1>3, <1>4 DEF CopilotInv, CopilotSafety, countVars, GoneFits, PublishedIsOpen,
     CopilotTypeOK
<1> QED
  BY <1>5, <1>6, <1>7, <1>8, <1>9, <1>10, <1>11, <1>12, <1>13, <1>14, <1>15, <1>16, <1>17,
     <1>18, <1>19 DEF CopilotInv, CopilotSafety

\* It is closed.
LEMMA CopilotSignInEnded == ASSUME CopilotInv, SignInEnded PROVE CopilotInv'
<1>1. /\ signIn' \in SignInRecords /\ signIn'.at = "none" /\ signIn'.broker = 0 /\ attempt' = FALSE
  BY CopilotAssumption DEF SignInEnded, NoLogin, SignInRecords, SignInStages, CopilotAssumption
<1>2. owners' \subseteq owners /\ \A c \in owners : c \notin owners' => broker[c] = "closed"
  BY DEF SignInEnded, Disown
<1>3. UNCHANGED <<stateVars, broker, creating, lease, brokerLock, office, closure, sweep, countVars>>
  BY DEF SignInEnded
<1>4. CopilotTypeOK'
  <2>1. account' \in AccountRecords /\ saved' \in SavedRecords
    BY <1>1, <1>2, <1>3 DEF CopilotInv, CopilotSafety, stateVars, CopilotTypeOK, SignInRecords,
       AccountRecords, SavedRecords
  <2>2. unsaved' \in BOOLEAN /\ signedIn' \in BOOLEAN /\ quiet' \in BOOLEAN /\ attempt' \in BOOLEAN
    BY <1>1, <1>2, <1>3 DEF CopilotInv, CopilotSafety, stateVars, countVars, CopilotTypeOK
  <2>3. /\ broker' \in [Brokers -> {"unmade", "open", "closing", "draining", "stuck", "closed"}]
        /\ owners' \subseteq Brokers /\ creating' \subseteq Brokers
    BY <1>1, <1>2, <1>3 DEF CopilotInv, CopilotSafety, CopilotTypeOK
  <2>4. lease' \in [Leases -> LeaseRecords]
    BY <1>1, <1>2, <1>3 DEF CopilotInv, CopilotSafety, CopilotTypeOK, LeaseRecords,
       SignInRecords, LeaseStages
  <2>5. brokerLock' \in Leases \cup {"nobody"}
    BY <1>1, <1>2, <1>3 DEF CopilotInv, CopilotSafety, CopilotTypeOK
  <2>6. signIn' \in SignInRecords
    BY <1>1, <1>2, <1>3 DEF CopilotInv, CopilotSafety, CopilotTypeOK
  <2>7. office' \in OfficeRecords /\ closure' \in {"open", "asked", "running", "failed", "closed"}
    BY <1>1, <1>2, <1>3 DEF CopilotInv, CopilotSafety, CopilotTypeOK, SignInRecords,
       OfficeRecords
  <2>8. sweep' \in SweepRecords
    BY <1>1, <1>2, <1>3 DEF CopilotInv, CopilotSafety, CopilotTypeOK, SignInRecords, SweepRecords
  <2>9. changes' \in 0..MaxChanges /\ mishaps' \in 0..MaxMishaps
    BY <1>1, <1>2, <1>3 DEF CopilotInv, CopilotSafety, countVars, CopilotTypeOK
  <2> QED
    BY <2>1, <2>2, <2>3, <2>4, <2>5, <2>6, <2>7, <2>8, <2>9 DEF CopilotTypeOK, LeaseRecords,
       SignInRecords, SweepRecords, AccountRecords, SavedRecords, OfficeRecords, LeaseStages
<1>5. PublishedIsOpen'
  BY <1>1, <1>2, <1>3 DEF CopilotInv, CopilotSafety, stateVars, PublishedIsOpen, CopilotTypeOK
<1>6. LiveIsOwned'
  BY <1>1, <1>2, <1>3 DEF CopilotInv, CopilotSafety, LiveIsOwned, Live, CopilotTypeOK
<1>7. ClosedIsUnused'
  BY <1>1, <1>2, <1>3 DEF CopilotInv, CopilotSafety, ClosedIsUnused, Holders, CopilotTypeOK
<1>8. GoneIsGone'
  BY <1>1, <1>2, <1>3 DEF CopilotInv, CopilotSafety, countVars, GoneIsGone, GoneFits, Live,
     CopilotTypeOK
<1>9. SavedIsTrue'
  BY <1>1, <1>2, <1>3 DEF CopilotInv, CopilotSafety, stateVars, SavedIsTrue, CopilotTypeOK
<1>10. MadeInOrder'
  BY <1>1, <1>2, <1>3 DEF CopilotInv, CopilotSafety, MadeInOrder, Made, CopilotTypeOK
<1>11. HeldIsOpen'
  BY <1>1, <1>2, <1>3 DEF CopilotInv, CopilotSafety, HeldIsOpen, Holders, CopilotTypeOK
<1>12. CreatingIsOpen'
  BY <1>1, <1>2, <1>3 DEF CopilotInv, CopilotSafety, CreatingIsOpen, OwnedIsMade, CopilotTypeOK
<1>13. OwnedIsMade'
  BY <1>1, <1>2, <1>3 DEF CopilotInv, CopilotSafety, OwnedIsMade, CopilotTypeOK
<1>14. LeasesFit'
  BY <1>1, <1>2, <1>3 DEF CopilotInv, CopilotSafety, LeasesFit, PublishedIsOpen, Brokers,
     CopilotTypeOK
<1>15. MakersFit'
  BY <1>1, <1>2, <1>3 DEF CopilotInv, CopilotSafety, MakersFit, CopilotTypeOK
<1>16. SignInFits'
  BY <1>1, <1>2, <1>3 DEF CopilotInv, CopilotSafety, SignInFits, Brokers, CopilotTypeOK
<1>17. OfficeFits'
  BY <1>1, <1>2, <1>3 DEF CopilotInv, CopilotSafety, stateVars, OfficeFits, Idle,
     PublishedIsOpen, CopilotTypeOK
<1>18. GoneFits'
  BY <1>1, <1>2, <1>3 DEF CopilotInv, CopilotSafety, stateVars, countVars, GoneFits,
     PublishedIsOpen, CopilotTypeOK
<1> QED
  BY <1>4, <1>5, <1>6, <1>7, <1>8, <1>9, <1>10, <1>11, <1>12, <1>13, <1>14, <1>15, <1>16,
     <1>17, <1>18 DEF CopilotInv, CopilotSafety

\* A login is cancelled.
LEMMA CopilotCancelSignIn == ASSUME CopilotInv, CancelSignIn PROVE CopilotInv'
<1>1. /\ signIn' \in SignInRecords /\ signIn'.at = signIn.at /\ signIn'.broker = signIn.broker
      /\ attempt' = FALSE
  BY LoginCancelled DEF CancelSignIn, CopilotInv, CopilotSafety
<1>2. office' \in OfficeRecords /\ office'.kind = "cancel" /\ office'.at = "settle"
  BY DEF CancelSignIn, OfficeRecords
<1>3. office = Idle /\ signIn.at # "none"
  BY DEF CancelSignIn
<1>4. UNCHANGED <<stateVars, brokerVars, lease, brokerLock, closure, sweep, countVars>>
  BY DEF CancelSignIn
<1>5. CopilotTypeOK'
  <2>1. account' \in AccountRecords /\ saved' \in SavedRecords
    BY <1>1, <1>2, <1>3, <1>4 DEF CopilotInv, CopilotSafety, stateVars, CopilotTypeOK,
       SignInRecords, AccountRecords, SavedRecords, OfficeRecords
  <2>2. unsaved' \in BOOLEAN /\ signedIn' \in BOOLEAN /\ quiet' \in BOOLEAN /\ attempt' \in BOOLEAN
    BY <1>1, <1>2, <1>3, <1>4 DEF CopilotInv, CopilotSafety, stateVars, countVars, CopilotTypeOK
  <2>3. /\ broker' \in [Brokers -> {"unmade", "open", "closing", "draining", "stuck", "closed"}]
        /\ owners' \subseteq Brokers /\ creating' \subseteq Brokers
    BY <1>1, <1>2, <1>3, <1>4 DEF CopilotInv, CopilotSafety, brokerVars, CopilotTypeOK
  <2>4. lease' \in [Leases -> LeaseRecords]
    BY <1>1, <1>2, <1>3, <1>4 DEF CopilotInv, CopilotSafety, CopilotTypeOK, LeaseRecords,
       SignInRecords, OfficeRecords, LeaseStages
  <2>5. brokerLock' \in Leases \cup {"nobody"}
    BY <1>1, <1>2, <1>3, <1>4 DEF CopilotInv, CopilotSafety, CopilotTypeOK
  <2>6. signIn' \in SignInRecords
    BY <1>1, <1>2, <1>3, <1>4 DEF CopilotInv, CopilotSafety, CopilotTypeOK
  <2>7. office' \in OfficeRecords /\ closure' \in {"open", "asked", "running", "failed", "closed"}
    BY <1>1, <1>2, <1>3, <1>4 DEF CopilotInv, CopilotSafety, CopilotTypeOK
  <2>8. sweep' \in SweepRecords
    BY <1>1, <1>2, <1>3, <1>4 DEF CopilotInv, CopilotSafety, CopilotTypeOK, SignInRecords,
       SweepRecords, OfficeRecords
  <2>9. changes' \in 0..MaxChanges /\ mishaps' \in 0..MaxMishaps
    BY <1>1, <1>2, <1>3, <1>4 DEF CopilotInv, CopilotSafety, countVars, CopilotTypeOK
  <2> QED
    BY <2>1, <2>2, <2>3, <2>4, <2>5, <2>6, <2>7, <2>8, <2>9 DEF CopilotTypeOK, LeaseRecords,
       SignInRecords, SweepRecords, AccountRecords, SavedRecords, OfficeRecords, LeaseStages
<1>6. PublishedIsOpen'
  BY <1>1, <1>2, <1>3, <1>4 DEF CopilotInv, CopilotSafety, stateVars, brokerVars,
     PublishedIsOpen, CopilotTypeOK
<1>7. LiveIsOwned'
  BY <1>1, <1>2, <1>3, <1>4 DEF CopilotInv, CopilotSafety, brokerVars, LiveIsOwned, Live,
     CopilotTypeOK
<1>8. ClosedIsUnused'
  BY <1>1, <1>2, <1>3, <1>4 DEF CopilotInv, CopilotSafety, brokerVars, ClosedIsUnused, Holders,
     CopilotTypeOK
<1>9. GoneIsGone'
  BY <1>1, <1>2, <1>3, <1>4 DEF CopilotInv, CopilotSafety, countVars, GoneIsGone, GoneFits, Live,
     CopilotTypeOK
<1>10. SavedIsTrue'
  BY <1>1, <1>2, <1>3, <1>4 DEF CopilotInv, CopilotSafety, stateVars, SavedIsTrue, CopilotTypeOK
<1>11. MadeInOrder'
  BY <1>1, <1>2, <1>3, <1>4 DEF CopilotInv, CopilotSafety, brokerVars, MadeInOrder, Made,
     CopilotTypeOK
<1>12. HeldIsOpen'
  BY <1>1, <1>2, <1>3, <1>4 DEF CopilotInv, CopilotSafety, brokerVars, HeldIsOpen, Holders,
     CopilotTypeOK
<1>13. CreatingIsOpen'
  BY <1>1, <1>2, <1>3, <1>4 DEF CopilotInv, CopilotSafety, brokerVars, CreatingIsOpen,
     OwnedIsMade, CopilotTypeOK
<1>14. OwnedIsMade'
  BY <1>1, <1>2, <1>3, <1>4 DEF CopilotInv, CopilotSafety, brokerVars, OwnedIsMade, CopilotTypeOK
<1>15. LeasesFit'
  BY <1>1, <1>2, <1>3, <1>4 DEF CopilotInv, CopilotSafety, brokerVars, LeasesFit,
     PublishedIsOpen, Brokers, CopilotTypeOK
<1>16. MakersFit'
  BY <1>1, <1>2, <1>3, <1>4 DEF CopilotInv, CopilotSafety, MakersFit, CopilotTypeOK
<1>17. SignInFits'
  BY <1>1, <1>2, <1>3, <1>4 DEF CopilotInv, CopilotSafety, stateVars, brokerVars, SignInFits,
     Brokers, CopilotTypeOK
<1>18. OfficeFits'
  BY <1>1, <1>2, <1>3, <1>4 DEF CopilotInv, CopilotSafety, OfficeFits, Idle, PublishedIsOpen,
     CopilotTypeOK
<1>19. GoneFits'
  BY <1>1, <1>2, <1>3, <1>4 DEF CopilotInv, CopilotSafety, countVars, GoneFits, PublishedIsOpen,
     CopilotTypeOK
<1> QED
  BY <1>5, <1>6, <1>7, <1>8, <1>9, <1>10, <1>11, <1>12, <1>13, <1>14, <1>15, <1>16, <1>17,
     <1>18, <1>19 DEF CopilotInv, CopilotSafety

\* The account is disconnected.
LEMMA CopilotDisconnect == ASSUME CopilotInv, Disconnect PROVE CopilotInv'
<1>1. /\ signIn' \in SignInRecords /\ signIn'.at = signIn.at /\ signIn'.broker = signIn.broker
      /\ attempt' = FALSE
  BY LoginCancelled DEF Disconnect, CopilotInv, CopilotSafety
<1>2. /\ account' \in AccountRecords /\ saved' \in SavedRecords /\ unsaved' \in BOOLEAN
      /\ sweep' \in SweepRecords /\ mishaps' \in 0..MaxMishaps
      /\ account'.enabled = FALSE /\ account'.broker = 0 /\ SavedIsTrue'
  <2>1. owners' \subseteq Brokers
    BY DEF Disconnect, CopilotInv, CopilotSafety, CopilotTypeOK
  <2> QED
    BY <2>1, AccountDisabled DEF Disconnect, CopilotInv, CopilotSafety
<1>3. office' \in OfficeRecords /\ office'.kind = "disconnect" /\ office'.at = "settle"
  BY DEF Disconnect, OfficeRecords
<1>4. office = Idle /\ closure = "open" /\ changes' \in 0..MaxChanges
  BY CopilotAssumption DEF Disconnect, ManagerIsClosed, CopilotInv, CopilotSafety,
     CopilotTypeOK, CopilotAssumption
<1>5. UNCHANGED <<owners, broker, creating, lease, brokerLock, closure, signedIn, quiet>>
  BY DEF Disconnect
<1>6. CopilotTypeOK'
  <2>1. account' \in AccountRecords /\ saved' \in SavedRecords
    BY <1>1, <1>2, <1>3, <1>4, <1>5 DEF CopilotInv, CopilotSafety, CopilotTypeOK
  <2>2. unsaved' \in BOOLEAN /\ signedIn' \in BOOLEAN /\ quiet' \in BOOLEAN /\ attempt' \in BOOLEAN
    BY <1>1, <1>2, <1>3, <1>4, <1>5 DEF CopilotInv, CopilotSafety, CopilotTypeOK
  <2>3. /\ broker' \in [Brokers -> {"unmade", "open", "closing", "draining", "stuck", "closed"}]
        /\ owners' \subseteq Brokers /\ creating' \subseteq Brokers
    BY <1>1, <1>2, <1>3, <1>4, <1>5 DEF CopilotInv, CopilotSafety, CopilotTypeOK
  <2>4. lease' \in [Leases -> LeaseRecords]
    BY <1>1, <1>2, <1>3, <1>4, <1>5 DEF CopilotInv, CopilotSafety, CopilotTypeOK, LeaseRecords,
       SignInRecords, SweepRecords, AccountRecords, SavedRecords, OfficeRecords, LeaseStages
  <2>5. brokerLock' \in Leases \cup {"nobody"}
    BY <1>1, <1>2, <1>3, <1>4, <1>5 DEF CopilotInv, CopilotSafety, CopilotTypeOK
  <2>6. signIn' \in SignInRecords
    BY <1>1, <1>2, <1>3, <1>4, <1>5 DEF CopilotInv, CopilotSafety, CopilotTypeOK
  <2>7. office' \in OfficeRecords /\ closure' \in {"open", "asked", "running", "failed", "closed"}
    BY <1>1, <1>2, <1>3, <1>4, <1>5 DEF CopilotInv, CopilotSafety, CopilotTypeOK
  <2>8. sweep' \in SweepRecords
    BY <1>1, <1>2, <1>3, <1>4, <1>5 DEF CopilotInv, CopilotSafety, CopilotTypeOK
  <2>9. changes' \in 0..MaxChanges /\ mishaps' \in 0..MaxMishaps
    BY <1>1, <1>2, <1>3, <1>4, <1>5 DEF CopilotInv, CopilotSafety, CopilotTypeOK
  <2> QED
    BY <2>1, <2>2, <2>3, <2>4, <2>5, <2>6, <2>7, <2>8, <2>9 DEF CopilotTypeOK, LeaseRecords,
       SignInRecords, SweepRecords, AccountRecords, SavedRecords, OfficeRecords, LeaseStages
<1>7. PublishedIsOpen'
  BY <1>1, <1>2, <1>3, <1>4, <1>5 DEF CopilotInv, CopilotSafety, PublishedIsOpen, CopilotTypeOK
<1>8. LiveIsOwned'
  BY <1>1, <1>2, <1>3, <1>4, <1>5 DEF CopilotInv, CopilotSafety, LiveIsOwned, Live, CopilotTypeOK
<1>9. ClosedIsUnused'
  BY <1>1, <1>2, <1>3, <1>4, <1>5 DEF CopilotInv, CopilotSafety, ClosedIsUnused, Holders,
     CopilotTypeOK
<1>10. GoneIsGone'
  BY <1>1, <1>2, <1>3, <1>4, <1>5 DEF CopilotInv, CopilotSafety, GoneIsGone, GoneFits, Live,
     CopilotTypeOK
<1>11. SavedIsTrue'
  BY <1>1, <1>2, <1>3, <1>4, <1>5 DEF CopilotInv, CopilotSafety, SavedIsTrue, CopilotTypeOK
<1>12. MadeInOrder'
  BY <1>1, <1>2, <1>3, <1>4, <1>5 DEF CopilotInv, CopilotSafety, MadeInOrder, Made, CopilotTypeOK
<1>13. HeldIsOpen'
  BY <1>1, <1>2, <1>3, <1>4, <1>5 DEF CopilotInv, CopilotSafety, HeldIsOpen, Holders,
     CopilotTypeOK
<1>14. CreatingIsOpen'
  BY <1>1, <1>2, <1>3, <1>4, <1>5 DEF CopilotInv, CopilotSafety, CreatingIsOpen, OwnedIsMade,
     CopilotTypeOK
<1>15. OwnedIsMade'
  BY <1>1, <1>2, <1>3, <1>4, <1>5 DEF CopilotInv, CopilotSafety, OwnedIsMade, CopilotTypeOK
<1>16. LeasesFit'
  BY <1>1, <1>2, <1>3, <1>4, <1>5 DEF CopilotInv, CopilotSafety, LeasesFit, PublishedIsOpen,
     Brokers, CopilotTypeOK
<1>17. MakersFit'
  BY <1>1, <1>2, <1>3, <1>4, <1>5 DEF CopilotInv, CopilotSafety, MakersFit, CopilotTypeOK
<1>18. SignInFits'
  BY <1>1, <1>2, <1>3, <1>4, <1>5 DEF CopilotInv, CopilotSafety, SignInFits, Brokers,
     CopilotTypeOK
<1>19. OfficeFits'
  BY <1>1, <1>2, <1>3, <1>4, <1>5 DEF CopilotInv, CopilotSafety, OfficeFits, Idle,
     PublishedIsOpen, CopilotTypeOK
<1>20. GoneFits'
  BY <1>1, <1>2, <1>3, <1>4, <1>5 DEF CopilotInv, CopilotSafety, GoneFits, PublishedIsOpen,
     CopilotTypeOK
<1> QED
  BY <1>6, <1>7, <1>8, <1>9, <1>10, <1>11, <1>12, <1>13, <1>14, <1>15, <1>16, <1>17, <1>18,
     <1>19, <1>20 DEF CopilotInv, CopilotSafety

\* The close is asked for.
LEMMA CopilotAskClose == ASSUME CopilotInv, AskClose PROVE CopilotInv'
<1>1. CopilotTypeOK'
  <2>1. account' \in AccountRecords /\ saved' \in SavedRecords
    BY DEF CopilotInv, CopilotSafety, AskClose, stateVars, CopilotTypeOK, AccountRecords,
       SavedRecords
  <2>2. unsaved' \in BOOLEAN /\ signedIn' \in BOOLEAN /\ quiet' \in BOOLEAN /\ attempt' \in BOOLEAN
    BY DEF CopilotInv, CopilotSafety, AskClose, stateVars, countVars, CopilotTypeOK
  <2>3. /\ broker' \in [Brokers -> {"unmade", "open", "closing", "draining", "stuck", "closed"}]
        /\ owners' \subseteq Brokers /\ creating' \subseteq Brokers
    BY DEF CopilotInv, CopilotSafety, AskClose, brokerVars, CopilotTypeOK
  <2>4. lease' \in [Leases -> LeaseRecords]
    BY DEF CopilotInv, CopilotSafety, AskClose, CopilotTypeOK, LeaseRecords, LeaseStages
  <2>5. brokerLock' \in Leases \cup {"nobody"}
    BY DEF CopilotInv, CopilotSafety, AskClose, CopilotTypeOK
  <2>6. signIn' \in SignInRecords
    BY DEF CopilotInv, CopilotSafety, AskClose, CopilotTypeOK, SignInRecords
  <2>7. office' \in OfficeRecords /\ closure' \in {"open", "asked", "running", "failed", "closed"}
    BY DEF CopilotInv, CopilotSafety, AskClose, CopilotTypeOK, OfficeRecords
  <2>8. sweep' \in SweepRecords
    BY DEF CopilotInv, CopilotSafety, AskClose, CopilotTypeOK, SweepRecords
  <2>9. changes' \in 0..MaxChanges /\ mishaps' \in 0..MaxMishaps
    BY DEF CopilotInv, CopilotSafety, AskClose, countVars, CopilotTypeOK
  <2> QED
    BY <2>1, <2>2, <2>3, <2>4, <2>5, <2>6, <2>7, <2>8, <2>9 DEF CopilotTypeOK, LeaseRecords,
       SignInRecords, SweepRecords, AccountRecords, SavedRecords, OfficeRecords, LeaseStages
<1>2. PublishedIsOpen'
  BY DEF CopilotInv, CopilotSafety, AskClose, stateVars, brokerVars, PublishedIsOpen,
     CopilotTypeOK
<1>3. LiveIsOwned'
  BY DEF CopilotInv, CopilotSafety, AskClose, brokerVars, LiveIsOwned, Live, CopilotTypeOK
<1>4. ClosedIsUnused'
  BY DEF CopilotInv, CopilotSafety, AskClose, brokerVars, ClosedIsUnused, Holders, CopilotTypeOK
<1>5. GoneIsGone'
  BY DEF CopilotInv, CopilotSafety, AskClose, brokerVars, countVars, GoneIsGone, GoneFits, Live,
     CopilotTypeOK
<1>6. SavedIsTrue'
  BY DEF CopilotInv, CopilotSafety, AskClose, stateVars, SavedIsTrue, CopilotTypeOK
<1>7. MadeInOrder'
  BY DEF CopilotInv, CopilotSafety, AskClose, brokerVars, MadeInOrder, Made, CopilotTypeOK
<1>8. HeldIsOpen'
  BY DEF CopilotInv, CopilotSafety, AskClose, brokerVars, HeldIsOpen, Holders, CopilotTypeOK
<1>9. CreatingIsOpen'
  BY DEF CopilotInv, CopilotSafety, AskClose, brokerVars, CreatingIsOpen, OwnedIsMade,
     CopilotTypeOK
<1>10. OwnedIsMade'
  BY DEF CopilotInv, CopilotSafety, AskClose, brokerVars, OwnedIsMade, CopilotTypeOK
<1>11. LeasesFit'
  BY DEF CopilotInv, CopilotSafety, AskClose, brokerVars, LeasesFit, PublishedIsOpen, Brokers,
     CopilotTypeOK
<1>12. MakersFit'
  BY DEF CopilotInv, CopilotSafety, AskClose, MakersFit, CopilotTypeOK
<1>13. SignInFits'
  BY DEF CopilotInv, CopilotSafety, AskClose, stateVars, brokerVars, SignInFits, Brokers,
     CopilotTypeOK
<1>14. OfficeFits'
  BY DEF CopilotInv, CopilotSafety, AskClose, stateVars, OfficeFits, Idle, PublishedIsOpen,
     CopilotTypeOK
<1>15. GoneFits'
  BY DEF CopilotInv, CopilotSafety, AskClose, stateVars, countVars, GoneFits, PublishedIsOpen,
     CopilotTypeOK
<1> QED
  BY <1>1, <1>2, <1>3, <1>4, <1>5, <1>6, <1>7, <1>8, <1>9, <1>10, <1>11, <1>12, <1>13, <1>14,
     <1>15 DEF CopilotInv, CopilotSafety

\* It begins.
LEMMA CopilotBeginClose == ASSUME CopilotInv, BeginClose PROVE CopilotInv'
<1>1. /\ signIn' \in SignInRecords /\ signIn'.at = signIn.at /\ signIn'.broker = signIn.broker
      /\ attempt' = FALSE
  BY LoginCancelled DEF BeginClose, CopilotInv, CopilotSafety
<1>2. office' \in OfficeRecords /\ office'.kind = "close" /\ office'.at = "settle"
  BY DEF BeginClose, OfficeRecords
<1>3. office = Idle /\ closure = "asked" /\ closure' = "running"
  BY DEF BeginClose
<1>4. UNCHANGED <<stateVars, brokerVars, lease, brokerLock, sweep, countVars>>
  BY DEF BeginClose
<1>5. CopilotTypeOK'
  <2>1. account' \in AccountRecords /\ saved' \in SavedRecords
    BY <1>1, <1>2, <1>3, <1>4 DEF CopilotInv, CopilotSafety, stateVars, CopilotTypeOK,
       SignInRecords, AccountRecords, SavedRecords, OfficeRecords
  <2>2. unsaved' \in BOOLEAN /\ signedIn' \in BOOLEAN /\ quiet' \in BOOLEAN /\ attempt' \in BOOLEAN
    BY <1>1, <1>2, <1>3, <1>4 DEF CopilotInv, CopilotSafety, stateVars, countVars, CopilotTypeOK
  <2>3. /\ broker' \in [Brokers -> {"unmade", "open", "closing", "draining", "stuck", "closed"}]
        /\ owners' \subseteq Brokers /\ creating' \subseteq Brokers
    BY <1>1, <1>2, <1>3, <1>4 DEF CopilotInv, CopilotSafety, brokerVars, CopilotTypeOK
  <2>4. lease' \in [Leases -> LeaseRecords]
    BY <1>1, <1>2, <1>3, <1>4 DEF CopilotInv, CopilotSafety, CopilotTypeOK, LeaseRecords,
       SignInRecords, OfficeRecords, LeaseStages
  <2>5. brokerLock' \in Leases \cup {"nobody"}
    BY <1>1, <1>2, <1>3, <1>4 DEF CopilotInv, CopilotSafety, CopilotTypeOK
  <2>6. signIn' \in SignInRecords
    BY <1>1, <1>2, <1>3, <1>4 DEF CopilotInv, CopilotSafety, CopilotTypeOK
  <2>7. office' \in OfficeRecords /\ closure' \in {"open", "asked", "running", "failed", "closed"}
    BY <1>1, <1>2, <1>3, <1>4 DEF CopilotInv, CopilotSafety, CopilotTypeOK
  <2>8. sweep' \in SweepRecords
    BY <1>1, <1>2, <1>3, <1>4 DEF CopilotInv, CopilotSafety, CopilotTypeOK, SignInRecords,
       SweepRecords, OfficeRecords
  <2>9. changes' \in 0..MaxChanges /\ mishaps' \in 0..MaxMishaps
    BY <1>1, <1>2, <1>3, <1>4 DEF CopilotInv, CopilotSafety, countVars, CopilotTypeOK
  <2> QED
    BY <2>1, <2>2, <2>3, <2>4, <2>5, <2>6, <2>7, <2>8, <2>9 DEF CopilotTypeOK, LeaseRecords,
       SignInRecords, SweepRecords, AccountRecords, SavedRecords, OfficeRecords, LeaseStages
<1>6. PublishedIsOpen'
  BY <1>1, <1>2, <1>3, <1>4 DEF CopilotInv, CopilotSafety, stateVars, brokerVars,
     PublishedIsOpen, CopilotTypeOK
<1>7. LiveIsOwned'
  BY <1>1, <1>2, <1>3, <1>4 DEF CopilotInv, CopilotSafety, brokerVars, LiveIsOwned, Live,
     CopilotTypeOK
<1>8. ClosedIsUnused'
  BY <1>1, <1>2, <1>3, <1>4 DEF CopilotInv, CopilotSafety, brokerVars, ClosedIsUnused, Holders,
     CopilotTypeOK
<1>9. GoneIsGone'
  BY <1>1, <1>2, <1>3, <1>4 DEF CopilotInv, CopilotSafety, brokerVars, countVars, GoneIsGone,
     GoneFits, Live, CopilotTypeOK
<1>10. SavedIsTrue'
  BY <1>1, <1>2, <1>3, <1>4 DEF CopilotInv, CopilotSafety, stateVars, SavedIsTrue, CopilotTypeOK
<1>11. MadeInOrder'
  BY <1>1, <1>2, <1>3, <1>4 DEF CopilotInv, CopilotSafety, brokerVars, MadeInOrder, Made,
     CopilotTypeOK
<1>12. HeldIsOpen'
  BY <1>1, <1>2, <1>3, <1>4 DEF CopilotInv, CopilotSafety, brokerVars, HeldIsOpen, Holders,
     CopilotTypeOK
<1>13. CreatingIsOpen'
  BY <1>1, <1>2, <1>3, <1>4 DEF CopilotInv, CopilotSafety, brokerVars, CreatingIsOpen,
     OwnedIsMade, CopilotTypeOK
<1>14. OwnedIsMade'
  BY <1>1, <1>2, <1>3, <1>4 DEF CopilotInv, CopilotSafety, brokerVars, OwnedIsMade, CopilotTypeOK
<1>15. LeasesFit'
  BY <1>1, <1>2, <1>3, <1>4 DEF CopilotInv, CopilotSafety, brokerVars, LeasesFit,
     PublishedIsOpen, Brokers, CopilotTypeOK
<1>16. MakersFit'
  BY <1>1, <1>2, <1>3, <1>4 DEF CopilotInv, CopilotSafety, MakersFit, CopilotTypeOK
<1>17. SignInFits'
  BY <1>1, <1>2, <1>3, <1>4 DEF CopilotInv, CopilotSafety, stateVars, brokerVars, SignInFits,
     Brokers, CopilotTypeOK
<1>18. OfficeFits'
  BY <1>1, <1>2, <1>3, <1>4 DEF CopilotInv, CopilotSafety, OfficeFits, Idle, PublishedIsOpen,
     CopilotTypeOK
<1>19. GoneFits'
  BY <1>1, <1>2, <1>3, <1>4 DEF CopilotInv, CopilotSafety, stateVars, countVars, GoneFits,
     PublishedIsOpen, CopilotTypeOK
<1> QED
  BY <1>5, <1>6, <1>7, <1>8, <1>9, <1>10, <1>11, <1>12, <1>13, <1>14, <1>15, <1>16, <1>17,
     <1>18, <1>19 DEF CopilotInv, CopilotSafety

\* The login is over.
LEMMA CopilotOfficeSettled == ASSUME CopilotInv, OfficeSettled PROVE CopilotInv'
<1>1. CopilotTypeOK'
  <2>1. account' \in AccountRecords /\ saved' \in SavedRecords
    BY DEF CopilotInv, CopilotSafety, OfficeSettled, OfficeTo, stateVars, CopilotTypeOK,
       AccountRecords, SavedRecords
  <2>2. unsaved' \in BOOLEAN /\ signedIn' \in BOOLEAN /\ quiet' \in BOOLEAN /\ attempt' \in BOOLEAN
    BY DEF CopilotInv, CopilotSafety, OfficeSettled, OfficeTo, stateVars, countVars,
       CopilotTypeOK
  <2>3. /\ broker' \in [Brokers -> {"unmade", "open", "closing", "draining", "stuck", "closed"}]
        /\ owners' \subseteq Brokers /\ creating' \subseteq Brokers
    BY DEF CopilotInv, CopilotSafety, OfficeSettled, OfficeTo, brokerVars, CopilotTypeOK
  <2>4. lease' \in [Leases -> LeaseRecords]
    BY DEF CopilotInv, CopilotSafety, OfficeSettled, OfficeTo, CopilotTypeOK, LeaseRecords,
       LeaseStages
  <2>5. brokerLock' \in Leases \cup {"nobody"}
    BY DEF CopilotInv, CopilotSafety, OfficeSettled, OfficeTo, CopilotTypeOK
  <2>6. signIn' \in SignInRecords
    BY DEF CopilotInv, CopilotSafety, OfficeSettled, OfficeTo, CopilotTypeOK, SignInRecords
  <2>7. office' \in OfficeRecords /\ closure' \in {"open", "asked", "running", "failed", "closed"}
    BY DEF CopilotInv, CopilotSafety, OfficeSettled, OfficeTo, CopilotTypeOK, OfficeRecords
  <2>8. sweep' \in SweepRecords
    BY DEF CopilotInv, CopilotSafety, OfficeSettled, OfficeTo, CopilotTypeOK, SweepRecords
  <2>9. changes' \in 0..MaxChanges /\ mishaps' \in 0..MaxMishaps
    BY DEF CopilotInv, CopilotSafety, OfficeSettled, OfficeTo, countVars, CopilotTypeOK
  <2> QED
    BY <2>1, <2>2, <2>3, <2>4, <2>5, <2>6, <2>7, <2>8, <2>9 DEF CopilotTypeOK, LeaseRecords,
       SignInRecords, SweepRecords, AccountRecords, SavedRecords, OfficeRecords, LeaseStages
<1>2. PublishedIsOpen'
  BY DEF CopilotInv, CopilotSafety, OfficeSettled, OfficeTo, stateVars, brokerVars,
     PublishedIsOpen, CopilotTypeOK
<1>3. LiveIsOwned'
  BY DEF CopilotInv, CopilotSafety, OfficeSettled, OfficeTo, brokerVars, LiveIsOwned, Live,
     CopilotTypeOK
<1>4. ClosedIsUnused'
  BY DEF CopilotInv, CopilotSafety, OfficeSettled, OfficeTo, brokerVars, ClosedIsUnused, Holders,
     CopilotTypeOK
<1>5. GoneIsGone'
  BY DEF CopilotInv, CopilotSafety, OfficeSettled, OfficeTo, brokerVars, countVars, GoneIsGone,
     GoneFits, Live, CopilotTypeOK
<1>6. SavedIsTrue'
  BY DEF CopilotInv, CopilotSafety, OfficeSettled, OfficeTo, stateVars, SavedIsTrue,
     CopilotTypeOK
<1>7. MadeInOrder'
  BY DEF CopilotInv, CopilotSafety, OfficeSettled, OfficeTo, brokerVars, MadeInOrder, Made,
     CopilotTypeOK
<1>8. HeldIsOpen'
  BY DEF CopilotInv, CopilotSafety, OfficeSettled, OfficeTo, brokerVars, HeldIsOpen, Holders,
     CopilotTypeOK
<1>9. CreatingIsOpen'
  BY DEF CopilotInv, CopilotSafety, OfficeSettled, OfficeTo, brokerVars, CreatingIsOpen,
     OwnedIsMade, CopilotTypeOK
<1>10. OwnedIsMade'
  BY DEF CopilotInv, CopilotSafety, OfficeSettled, OfficeTo, brokerVars, OwnedIsMade,
     CopilotTypeOK
<1>11. LeasesFit'
  BY DEF CopilotInv, CopilotSafety, OfficeSettled, OfficeTo, brokerVars, LeasesFit,
     PublishedIsOpen, Brokers, CopilotTypeOK
<1>12. MakersFit'
  BY DEF CopilotInv, CopilotSafety, OfficeSettled, OfficeTo, MakersFit, CopilotTypeOK
<1>13. SignInFits'
  BY DEF CopilotInv, CopilotSafety, OfficeSettled, OfficeTo, brokerVars, SignInFits, Brokers,
     CopilotTypeOK
<1>14. OfficeFits'
  BY DEF CopilotInv, CopilotSafety, OfficeSettled, OfficeTo, stateVars, OfficeFits, Idle,
     PublishedIsOpen, CopilotTypeOK
<1>15. GoneFits'
  BY DEF CopilotInv, CopilotSafety, OfficeSettled, OfficeTo, stateVars, countVars, GoneFits,
     PublishedIsOpen, CopilotTypeOK
<1> QED
  BY <1>1, <1>2, <1>3, <1>4, <1>5, <1>6, <1>7, <1>8, <1>9, <1>10, <1>11, <1>12, <1>13, <1>14,
     <1>15 DEF CopilotInv, CopilotSafety

\* Nothing is being constructed.
LEMMA CopilotOfficePasses == ASSUME CopilotInv, OfficePasses PROVE CopilotInv'
<1>1. /\ account' \in AccountRecords /\ account'.enabled = account.enabled /\ account'.revision = account.revision
      /\ account'.broker = (IF office.kind = "close" THEN 0 ELSE account.broker)
  BY CopilotAssumption DEF OfficePasses, CopilotInv, CopilotSafety, CopilotTypeOK,
     AccountRecords, CopilotAssumption
<1>2. office' \in OfficeRecords /\ office'.kind = office.kind /\ office'.at = "drain" /\ office.at = "lock" /\ brokerLock = "nobody"
  BY DEF OfficePasses, OfficeTo, MayPass, CopilotInv, CopilotSafety, CopilotTypeOK, OfficeRecords
<1>3. UNCHANGED <<saved, unsaved, brokerVars, lease, brokerLock, signIn, attempt, closure, sweep, countVars>>
  BY DEF OfficePasses
<1>4. CopilotTypeOK'
  <2>1. account' \in AccountRecords /\ saved' \in SavedRecords
    BY <1>1, <1>2, <1>3 DEF CopilotInv, CopilotSafety, CopilotTypeOK, AccountRecords,
       SavedRecords, OfficeRecords
  <2>2. unsaved' \in BOOLEAN /\ signedIn' \in BOOLEAN /\ quiet' \in BOOLEAN /\ attempt' \in BOOLEAN
    BY <1>1, <1>2, <1>3 DEF CopilotInv, CopilotSafety, countVars, CopilotTypeOK
  <2>3. /\ broker' \in [Brokers -> {"unmade", "open", "closing", "draining", "stuck", "closed"}]
        /\ owners' \subseteq Brokers /\ creating' \subseteq Brokers
    BY <1>1, <1>2, <1>3 DEF CopilotInv, CopilotSafety, brokerVars, CopilotTypeOK
  <2>4. lease' \in [Leases -> LeaseRecords]
    BY <1>1, <1>2, <1>3 DEF CopilotInv, CopilotSafety, CopilotTypeOK, LeaseRecords,
       AccountRecords, OfficeRecords, LeaseStages
  <2>5. brokerLock' \in Leases \cup {"nobody"}
    BY <1>1, <1>2, <1>3 DEF CopilotInv, CopilotSafety, CopilotTypeOK
  <2>6. signIn' \in SignInRecords
    BY <1>1, <1>2, <1>3 DEF CopilotInv, CopilotSafety, CopilotTypeOK, SignInRecords,
       AccountRecords, OfficeRecords
  <2>7. office' \in OfficeRecords /\ closure' \in {"open", "asked", "running", "failed", "closed"}
    BY <1>1, <1>2, <1>3 DEF CopilotInv, CopilotSafety, CopilotTypeOK
  <2>8. sweep' \in SweepRecords
    BY <1>1, <1>2, <1>3 DEF CopilotInv, CopilotSafety, CopilotTypeOK, SweepRecords,
       AccountRecords, OfficeRecords
  <2>9. changes' \in 0..MaxChanges /\ mishaps' \in 0..MaxMishaps
    BY <1>1, <1>2, <1>3 DEF CopilotInv, CopilotSafety, countVars, CopilotTypeOK
  <2> QED
    BY <2>1, <2>2, <2>3, <2>4, <2>5, <2>6, <2>7, <2>8, <2>9 DEF CopilotTypeOK, LeaseRecords,
       SignInRecords, SweepRecords, AccountRecords, SavedRecords, OfficeRecords, LeaseStages
<1>5. PublishedIsOpen'
  BY <1>1, <1>2, <1>3 DEF CopilotInv, CopilotSafety, brokerVars, PublishedIsOpen, CopilotTypeOK
<1>6. LiveIsOwned'
  BY <1>1, <1>2, <1>3 DEF CopilotInv, CopilotSafety, brokerVars, LiveIsOwned, Live, CopilotTypeOK
<1>7. ClosedIsUnused'
  BY <1>1, <1>2, <1>3 DEF CopilotInv, CopilotSafety, brokerVars, ClosedIsUnused, Holders,
     CopilotTypeOK
<1>8. GoneIsGone'
  BY <1>1, <1>2, <1>3 DEF CopilotInv, CopilotSafety, brokerVars, countVars, GoneIsGone, GoneFits,
     Live, CopilotTypeOK
<1>9. SavedIsTrue'
  BY <1>1, <1>2, <1>3 DEF CopilotInv, CopilotSafety, SavedIsTrue, CopilotTypeOK
<1>10. MadeInOrder'
  BY <1>1, <1>2, <1>3 DEF CopilotInv, CopilotSafety, brokerVars, MadeInOrder, Made, CopilotTypeOK
<1>11. HeldIsOpen'
  BY <1>1, <1>2, <1>3 DEF CopilotInv, CopilotSafety, brokerVars, HeldIsOpen, Holders,
     CopilotTypeOK
<1>12. CreatingIsOpen'
  BY <1>1, <1>2, <1>3 DEF CopilotInv, CopilotSafety, brokerVars, CreatingIsOpen, OwnedIsMade,
     CopilotTypeOK
<1>13. OwnedIsMade'
  BY <1>1, <1>2, <1>3 DEF CopilotInv, CopilotSafety, brokerVars, OwnedIsMade, CopilotTypeOK
<1>14. LeasesFit'
  BY <1>1, <1>2, <1>3 DEF CopilotInv, CopilotSafety, brokerVars, LeasesFit, PublishedIsOpen,
     Brokers, CopilotTypeOK
<1>15. MakersFit'
  BY <1>1, <1>2, <1>3 DEF CopilotInv, CopilotSafety, MakersFit, CopilotTypeOK
<1>16. SignInFits'
  BY <1>1, <1>2, <1>3 DEF CopilotInv, CopilotSafety, brokerVars, SignInFits, Brokers,
     CopilotTypeOK
<1>17. OfficeFits'
  BY <1>1, <1>2, <1>3 DEF CopilotInv, CopilotSafety, OfficeFits, Idle, PublishedIsOpen,
     CopilotTypeOK
<1>18. GoneFits'
  BY <1>1, <1>2, <1>3 DEF CopilotInv, CopilotSafety, countVars, GoneFits, PublishedIsOpen,
     CopilotTypeOK
<1> QED
  BY <1>4, <1>5, <1>6, <1>7, <1>8, <1>9, <1>10, <1>11, <1>12, <1>13, <1>14, <1>15, <1>16,
     <1>17, <1>18 DEF CopilotInv, CopilotSafety

\* The cleanup is scheduled.
LEMMA CopilotOfficeDrains == ASSUME CopilotInv, OfficeDrains PROVE CopilotInv'
<1>1. sweep' \in SweepRecords
  <2>1. owners' \subseteq Brokers
    BY DEF OfficeDrains, CopilotInv, CopilotSafety, CopilotTypeOK
  <2> QED
    BY <2>1, SweepScheduled DEF OfficeDrains, CopilotInv, CopilotSafety
<1>2. CopilotTypeOK'
  <2>1. account' \in AccountRecords /\ saved' \in SavedRecords
    BY <1>1 DEF CopilotInv, CopilotSafety, OfficeDrains, OfficeTo, CopilotTypeOK, SweepRecords,
       AccountRecords, SavedRecords
  <2>2. unsaved' \in BOOLEAN /\ signedIn' \in BOOLEAN /\ quiet' \in BOOLEAN /\ attempt' \in BOOLEAN
    BY <1>1 DEF CopilotInv, CopilotSafety, OfficeDrains, OfficeTo, countVars, CopilotTypeOK
  <2>3. /\ broker' \in [Brokers -> {"unmade", "open", "closing", "draining", "stuck", "closed"}]
        /\ owners' \subseteq Brokers /\ creating' \subseteq Brokers
    BY <1>1 DEF CopilotInv, CopilotSafety, OfficeDrains, OfficeTo, CopilotTypeOK
  <2>4. lease' \in [Leases -> LeaseRecords]
    BY <1>1 DEF CopilotInv, CopilotSafety, OfficeDrains, OfficeTo, CopilotTypeOK, LeaseRecords,
       SweepRecords, LeaseStages
  <2>5. brokerLock' \in Leases \cup {"nobody"}
    BY <1>1 DEF CopilotInv, CopilotSafety, OfficeDrains, OfficeTo, CopilotTypeOK
  <2>6. signIn' \in SignInRecords
    BY <1>1 DEF CopilotInv, CopilotSafety, OfficeDrains, OfficeTo, CopilotTypeOK, SignInRecords,
       SweepRecords
  <2>7. office' \in OfficeRecords /\ closure' \in {"open", "asked", "running", "failed", "closed"}
    BY <1>1 DEF CopilotInv, CopilotSafety, OfficeDrains, OfficeTo, CopilotTypeOK, SweepRecords,
       OfficeRecords
  <2>8. sweep' \in SweepRecords
    BY <1>1 DEF CopilotInv, CopilotSafety, OfficeDrains, OfficeTo, CopilotTypeOK
  <2>9. changes' \in 0..MaxChanges /\ mishaps' \in 0..MaxMishaps
    BY <1>1 DEF CopilotInv, CopilotSafety, OfficeDrains, OfficeTo, countVars, CopilotTypeOK
  <2> QED
    BY <2>1, <2>2, <2>3, <2>4, <2>5, <2>6, <2>7, <2>8, <2>9 DEF CopilotTypeOK, LeaseRecords,
       SignInRecords, SweepRecords, AccountRecords, SavedRecords, OfficeRecords, LeaseStages
<1>3. PublishedIsOpen'
  BY <1>1 DEF CopilotInv, CopilotSafety, OfficeDrains, OfficeTo, PublishedIsOpen, CopilotTypeOK
<1>4. LiveIsOwned'
  BY <1>1 DEF CopilotInv, CopilotSafety, OfficeDrains, OfficeTo, LiveIsOwned, Live, CopilotTypeOK
<1>5. ClosedIsUnused'
  BY <1>1 DEF CopilotInv, CopilotSafety, OfficeDrains, OfficeTo, ClosedIsUnused, Holders,
     CopilotTypeOK
<1>6. GoneIsGone'
  BY <1>1 DEF CopilotInv, CopilotSafety, OfficeDrains, OfficeTo, countVars, GoneIsGone, GoneFits,
     Live, CopilotTypeOK
<1>7. SavedIsTrue'
  BY <1>1 DEF CopilotInv, CopilotSafety, OfficeDrains, OfficeTo, SavedIsTrue, CopilotTypeOK
<1>8. MadeInOrder'
  BY <1>1 DEF CopilotInv, CopilotSafety, OfficeDrains, OfficeTo, MadeInOrder, Made, CopilotTypeOK
<1>9. HeldIsOpen'
  BY <1>1 DEF CopilotInv, CopilotSafety, OfficeDrains, OfficeTo, HeldIsOpen, Holders,
     CopilotTypeOK
<1>10. CreatingIsOpen'
  BY <1>1 DEF CopilotInv, CopilotSafety, OfficeDrains, OfficeTo, CreatingIsOpen, OwnedIsMade,
     CopilotTypeOK
<1>11. OwnedIsMade'
  BY <1>1 DEF CopilotInv, CopilotSafety, OfficeDrains, OfficeTo, OwnedIsMade, CopilotTypeOK
<1>12. LeasesFit'
  BY <1>1 DEF CopilotInv, CopilotSafety, OfficeDrains, OfficeTo, LeasesFit, PublishedIsOpen,
     Brokers, CopilotTypeOK
<1>13. MakersFit'
  BY <1>1 DEF CopilotInv, CopilotSafety, OfficeDrains, OfficeTo, MakersFit, CopilotTypeOK
<1>14. SignInFits'
  BY <1>1 DEF CopilotInv, CopilotSafety, OfficeDrains, OfficeTo, SignInFits, Brokers,
     CopilotTypeOK
<1>15. OfficeFits'
  BY <1>1 DEF CopilotInv, CopilotSafety, OfficeDrains, OfficeTo, OfficeFits, Idle,
     PublishedIsOpen, CopilotTypeOK
<1>16. GoneFits'
  BY <1>1 DEF CopilotInv, CopilotSafety, OfficeDrains, OfficeTo, countVars, GoneFits,
     PublishedIsOpen, CopilotTypeOK
<1> QED
  BY <1>2, <1>3, <1>4, <1>5, <1>6, <1>7, <1>8, <1>9, <1>10, <1>11, <1>12, <1>13, <1>14, <1>15,
     <1>16 DEF CopilotInv, CopilotSafety

\* The operation returns.
LEMMA CopilotOfficeReturns == ASSUME CopilotInv, OfficeReturns PROVE CopilotInv'
<1>1. CopilotTypeOK'
  <2>1. account' \in AccountRecords /\ saved' \in SavedRecords
    BY DEF CopilotInv, CopilotSafety, OfficeReturns, OfficeTo, AllRetired, Idle, stateVars,
       CopilotTypeOK, AccountRecords, SavedRecords
  <2>2. unsaved' \in BOOLEAN /\ signedIn' \in BOOLEAN /\ quiet' \in BOOLEAN /\ attempt' \in BOOLEAN
    BY DEF CopilotInv, CopilotSafety, OfficeReturns, OfficeTo, AllRetired, Idle, stateVars,
       CopilotTypeOK
  <2>3. /\ broker' \in [Brokers -> {"unmade", "open", "closing", "draining", "stuck", "closed"}]
        /\ owners' \subseteq Brokers /\ creating' \subseteq Brokers
    BY DEF CopilotInv, CopilotSafety, OfficeReturns, OfficeTo, AllRetired, Idle, brokerVars,
       CopilotTypeOK
  <2>4. lease' \in [Leases -> LeaseRecords]
    BY DEF CopilotInv, CopilotSafety, OfficeReturns, OfficeTo, AllRetired, Idle, CopilotTypeOK,
       LeaseRecords, LeaseStages
  <2>5. brokerLock' \in Leases \cup {"nobody"}
    BY DEF CopilotInv, CopilotSafety, OfficeReturns, OfficeTo, AllRetired, Idle, CopilotTypeOK
  <2>6. signIn' \in SignInRecords
    BY DEF CopilotInv, CopilotSafety, OfficeReturns, OfficeTo, AllRetired, Idle, CopilotTypeOK,
       SignInRecords
  <2>7. office' \in OfficeRecords /\ closure' \in {"open", "asked", "running", "failed", "closed"}
    BY DEF CopilotInv, CopilotSafety, OfficeReturns, OfficeTo, AllRetired, Idle, CopilotTypeOK,
       OfficeRecords
  <2>8. sweep' \in SweepRecords
    BY DEF CopilotInv, CopilotSafety, OfficeReturns, OfficeTo, AllRetired, Idle, CopilotTypeOK,
       SweepRecords
  <2>9. changes' \in 0..MaxChanges /\ mishaps' \in 0..MaxMishaps
    BY DEF CopilotInv, CopilotSafety, OfficeReturns, OfficeTo, AllRetired, Idle, CopilotTypeOK
  <2> QED
    BY <2>1, <2>2, <2>3, <2>4, <2>5, <2>6, <2>7, <2>8, <2>9 DEF CopilotTypeOK, LeaseRecords,
       SignInRecords, SweepRecords, AccountRecords, SavedRecords, OfficeRecords, LeaseStages
<1>2. PublishedIsOpen'
  BY DEF CopilotInv, CopilotSafety, OfficeReturns, OfficeTo, AllRetired, Idle, stateVars,
     brokerVars, PublishedIsOpen, CopilotTypeOK
<1>3. LiveIsOwned'
  BY DEF CopilotInv, CopilotSafety, OfficeReturns, OfficeTo, AllRetired, Idle, brokerVars,
     LiveIsOwned, Live, CopilotTypeOK
<1>4. ClosedIsUnused'
  BY DEF CopilotInv, CopilotSafety, OfficeReturns, OfficeTo, AllRetired, Idle, brokerVars,
     ClosedIsUnused, Holders, CopilotTypeOK
<1>5. GoneIsGone'
  <2>1. CASE ~sweep.failed /\ AllRetired /\ office.kind \in {"disconnect", "close"}
    <3>1. account.broker = 0
      BY <2>1 DEF OfficeReturns, CopilotInv, OfficeFits
    <3>2. owners \subseteq {0} /\ owners \subseteq Brokers
      BY <2>1, <3>1 DEF AllRetired, CopilotInv, CopilotSafety, CopilotTypeOK
    <3>3. 0 \notin Brokers
      BY DEF Brokers
    <3>4. Live = {}
      BY <3>2, <3>3 DEF CopilotInv, CopilotSafety, LiveIsOwned
    <3> QED
      BY <3>4 DEF OfficeReturns, GoneIsGone, Live, brokerVars
  <2>2. CASE ~(~sweep.failed /\ AllRetired /\ office.kind \in {"disconnect", "close"})
    <3>1. quiet' \/ closure' = "closed" => quiet \/ closure = "closed"
      BY <2>2 DEF OfficeReturns, CopilotInv, CopilotSafety, CopilotTypeOK
    <3> QED
      BY <3>1 DEF OfficeReturns, CopilotInv, CopilotSafety, GoneIsGone, Live, brokerVars
  <2> QED
    BY <2>1, <2>2
<1>6. SavedIsTrue'
  BY DEF CopilotInv, CopilotSafety, OfficeReturns, OfficeTo, AllRetired, Idle, stateVars,
     SavedIsTrue, CopilotTypeOK
<1>7. MadeInOrder'
  BY DEF CopilotInv, CopilotSafety, OfficeReturns, OfficeTo, AllRetired, Idle, brokerVars,
     MadeInOrder, Made, CopilotTypeOK
<1>8. HeldIsOpen'
  BY DEF CopilotInv, CopilotSafety, OfficeReturns, OfficeTo, AllRetired, Idle, brokerVars,
     HeldIsOpen, Holders, CopilotTypeOK
<1>9. CreatingIsOpen'
  BY DEF CopilotInv, CopilotSafety, OfficeReturns, OfficeTo, AllRetired, Idle, brokerVars,
     CreatingIsOpen, OwnedIsMade, CopilotTypeOK
<1>10. OwnedIsMade'
  BY DEF CopilotInv, CopilotSafety, OfficeReturns, OfficeTo, AllRetired, Idle, brokerVars,
     OwnedIsMade, CopilotTypeOK
<1>11. LeasesFit'
  BY DEF CopilotInv, CopilotSafety, OfficeReturns, OfficeTo, AllRetired, Idle, brokerVars,
     LeasesFit, PublishedIsOpen, Brokers, CopilotTypeOK
<1>12. MakersFit'
  BY DEF CopilotInv, CopilotSafety, OfficeReturns, OfficeTo, AllRetired, Idle, MakersFit,
     CopilotTypeOK
<1>13. SignInFits'
  BY DEF CopilotInv, CopilotSafety, OfficeReturns, OfficeTo, AllRetired, Idle, stateVars,
     brokerVars, SignInFits, Brokers, CopilotTypeOK
<1>14. OfficeFits'
  BY DEF CopilotInv, CopilotSafety, OfficeReturns, OfficeTo, AllRetired, Idle, stateVars,
     OfficeFits, PublishedIsOpen, CopilotTypeOK
<1>15. GoneFits'
  <2>1. CASE office.kind \in {"disconnect", "close"}
    <3>1. brokerLock = "nobody" /\ account.broker = 0 /\ signIn.at = "none"
      BY <2>1 DEF OfficeReturns, CopilotInv, OfficeFits
    <3>2. quiet' => ~account.enabled
      BY <2>1 DEF OfficeReturns, CopilotInv, OfficeFits, GoneFits, CopilotSafety, CopilotTypeOK
    <3> QED
      BY <3>1, <3>2 DEF OfficeReturns, GoneFits, stateVars
  <2>2. CASE office.kind \notin {"disconnect", "close"}
    <3>1. quiet' = quiet /\ closure' = closure
      BY <2>2 DEF OfficeReturns, CopilotInv, CopilotSafety, CopilotTypeOK
    <3> QED
      BY <3>1 DEF OfficeReturns, CopilotInv, GoneFits, stateVars
  <2> QED
    BY <2>1, <2>2
<1> QED
  BY <1>1, <1>2, <1>3, <1>4, <1>5, <1>6, <1>7, <1>8, <1>9, <1>10, <1>11, <1>12, <1>13, <1>14,
     <1>15 DEF CopilotInv, CopilotSafety

\* The account as an earlier process left it.
LEMMA CopilotStarts == CopilotInit => CopilotInv
<1> SUFFICES ASSUME CopilotInit PROVE CopilotInv
  OBVIOUS
<1> USE CopilotAssumption DEF CopilotAssumption
<1>0. /\ \A b \in Brokers : broker[b] = "unmade"
      /\ \A r \in Leases : lease[r].at = "idle"
      /\ signIn = NoLogin /\ office = Idle /\ brokerLock = "nobody" /\ account.broker = 0
      /\ owners = {} /\ creating = {} /\ closure = "open" /\ ~attempt /\ ~quiet
  BY DEF CopilotInit, NoLease
<1>1. CopilotTypeOK
  <2>1. 0 \in 0..MaxBrokers /\ 0 \in 0..MaxChanges /\ 0 \in 0..MaxMishaps
    OBVIOUS
  <2>2. account \in AccountRecords /\ saved \in SavedRecords
    BY <2>1 DEF CopilotInit, AccountRecords, SavedRecords
  <2>3. NoLease \in LeaseRecords
    BY <2>1 DEF NoLease, LeaseRecords, LeaseStages
  <2>4. lease \in [Leases -> LeaseRecords]
    BY <2>3 DEF CopilotInit
  <2>5. signIn \in SignInRecords
    BY <2>1 DEF CopilotInit, NoLogin, SignInRecords, SignInStages
  <2>6. office \in OfficeRecords
    BY DEF CopilotInit, Idle, OfficeRecords
  <2>7. sweep \in SweepRecords
    BY <2>1 DEF CopilotInit, NoSweep, SweepRecords
  <2>8. broker \in [Brokers -> {"unmade", "open", "closing", "draining", "stuck", "closed"}]
    BY DEF CopilotInit
  <2>9. /\ owners \subseteq Brokers /\ creating \subseteq Brokers
        /\ brokerLock \in Leases \cup {"nobody"} /\ changes \in 0..MaxChanges /\ mishaps \in 0..MaxMishaps
    BY <2>1 DEF CopilotInit
  <2>10. signedIn \in BOOLEAN /\ attempt \in BOOLEAN /\ quiet \in BOOLEAN /\ unsaved \in BOOLEAN
    BY DEF CopilotInit
  <2>11. closure \in {"open", "asked", "running", "failed", "closed"}
    BY DEF CopilotInit
  <2> QED
    BY <2>2, <2>4, <2>5, <2>6, <2>7, <2>8, <2>9, <2>10, <2>11 DEF CopilotTypeOK, AccountRecords, 
       SavedRecords, LeaseRecords, LeaseStages, SignInRecords, OfficeRecords, SweepRecords
<1>2. \A b \in Brokers : Holders(b) = {}
  BY <1>0 DEF Holders
<1>3. PublishedIsOpen /\ LiveIsOwned /\ ClosedIsUnused /\ GoneIsGone
  BY <1>0, <1>2 DEF PublishedIsOpen, LiveIsOwned, ClosedIsUnused, GoneIsGone, Live
<1>4. SavedIsTrue
  BY DEF CopilotInit, SavedIsTrue
<1>5. MadeInOrder
  <2>1. Made = 1..0 /\ 0 \in 0..MaxBrokers
    BY <1>0 DEF Made
  <2> QED
    BY <2>1 DEF MadeInOrder
<1>6. HeldIsOpen /\ CreatingIsOpen /\ OwnedIsMade /\ LeasesFit
  BY <1>0, <1>2 DEF HeldIsOpen, CreatingIsOpen, OwnedIsMade, LeasesFit
<1>7. MakersFit
  BY <1>0 DEF MakersFit
<1>8. SignInFits /\ OfficeFits /\ GoneFits
  BY <1>0 DEF SignInFits, OfficeFits, GoneFits, NoLogin, Idle
<1> QED
  BY <1>1, <1>3, <1>4, <1>5, <1>6, <1>7, <1>8 DEF CopilotInv, CopilotSafety

\* Nothing happens to the account.
LEMMA CopilotRests == ASSUME CopilotInv, UNCHANGED copilotVars PROVE CopilotInv'
<1> USE DEF copilotVars, stateVars, brokerVars, countVars
<1>1. CopilotTypeOK'
  BY DEF CopilotInv, CopilotSafety, CopilotTypeOK
<1>2. (\A b : Holders(b)' = Holders(b)) /\ Live' = Live /\ Made' = Made
  BY DEF Holders, Live, Made
<1>3. PublishedIsOpen' /\ LiveIsOwned' /\ ClosedIsUnused' /\ GoneIsGone' /\ SavedIsTrue'
  BY <1>2 DEF CopilotInv, CopilotSafety, PublishedIsOpen, LiveIsOwned, ClosedIsUnused,
     GoneIsGone, SavedIsTrue
<1>4. MadeInOrder' /\ HeldIsOpen' /\ CreatingIsOpen' /\ OwnedIsMade' /\ LeasesFit' /\ MakersFit'
  BY <1>2 DEF CopilotInv, MadeInOrder, HeldIsOpen, CreatingIsOpen, OwnedIsMade, LeasesFit,
     MakersFit
<1>5. SignInFits' /\ OfficeFits' /\ GoneFits'
  BY DEF CopilotInv, SignInFits, OfficeFits, GoneFits
<1> QED
  BY <1>1, <1>3, <1>4, <1>5 DEF CopilotInv, CopilotSafety

\* Every step keeps the account's invariant.
LEMMA CopilotStep == CopilotInv /\ [CopilotNext]_copilotVars => CopilotInv'
<1> SUFFICES ASSUME CopilotInv, [CopilotNext]_copilotVars PROVE CopilotInv'
  OBVIOUS
<1>1. CASE UNCHANGED copilotVars
  BY <1>1, CopilotRests
<1>2. CASE \/ BrokerDrains \/ BrokerCloses \/ SessionCreated \/ SweepCloses \/ SweepGoesOn \/ SweepEnds
  BY <1>2, CopilotBrokerDrains, CopilotBrokerCloses, CopilotSessionCreated, CopilotSweepCloses,
     CopilotSweepGoesOn, CopilotSweepEnds
<1>3. CASE \/ SignInDrains \/ SignInMakes \/ SignInPublishes \/ SignInRejected \/ SignInGoesOn
           \/ DeviceLogin \/ SignInStops \/ SignInEnds \/ SignInEnded
  BY <1>3, CopilotSignInDrains, CopilotSignInMakes, CopilotSignInPublishes, CopilotSignInRejected,
     CopilotSignInGoesOn, CopilotDeviceLogin, CopilotSignInStops, CopilotSignInEnds, CopilotSignInEnded
<1>4. CASE BeginClose \/ OfficeSettled \/ OfficePasses \/ OfficeDrains \/ OfficeReturns
  BY <1>4, CopilotBeginClose, CopilotOfficeSettled, CopilotOfficePasses, CopilotOfficeDrains,
     CopilotOfficeReturns
<1>5. ASSUME NEW r \in Leases, Locked(r) \/ Constructed(r) \/ ConstructFails(r) \/ Discarded(r)
      PROVE  CopilotInv'
  BY <1>5, CopilotLocked, CopilotConstructed, CopilotConstructFails, CopilotDiscarded
<1>6. ASSUME NEW r \in Leases, Enter(r) \/ Opened(r) \/ Refused(r) \/ Streamed(r) PROVE CopilotInv'
  BY <1>6, CopilotEnter, CopilotOpened, CopilotRefused, CopilotStreamed
<1>7. ASSUME NEW r \in Leases, BeginLease(r) \/ CancelRequest(r) PROVE CopilotInv'
  BY <1>7, CopilotBeginLease, CopilotCancelRequest
<1>8. CASE SignOut \/ StartSignIn \/ CancelSignIn \/ Disconnect \/ AskClose
  BY <1>8, CopilotSignOut, CopilotStartSignIn, CopilotCancelSignIn, CopilotDisconnect, CopilotAskClose
<1>9. CASE CopilotWork
  BY <1>2, <1>3, <1>4, <1>5, <1>6, <1>9 DEF CopilotWork
<1> QED
  BY <1>1, <1>7, <1>8, <1>9 DEF CopilotNext

\* However requests, a login, an administration and the cleanup overtake each other:
\* the published broker is open, a runtime that may still run has an owner, a closed
\* one is used by nobody, nothing runs after a disconnection or the close, and the
\* state file says what the account is (providers/github_copilot/auth.py, broker.py).
THEOREM CopilotIsSafe == CopilotInit /\ [][CopilotNext]_copilotVars => []CopilotSafety
<1>1. CopilotInv => CopilotSafety
  BY DEF CopilotInv
<1> QED
  BY <1>1, CopilotStarts, CopilotStep, PTL

=============================================================================
