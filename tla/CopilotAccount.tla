--------------------------- MODULE CopilotAccount ---------------------------
(***************************************************************************)
(* The GitHub Copilot account (providers/github_copilot): the manager of   *)
(* the account with its login, its administration and its state file       *)
(* (auth.py), the brokers it creates and closes (broker.py) and the        *)
(* requests that lease them.                                               *)
(*                                                                         *)
(* A broker stands for the runtime it owns.  The native profile is either  *)
(* signed in or not.                                                       *)
(***************************************************************************)
EXTENDS Integers, FiniteSets

CONSTANTS
    Leases,       \* requests, each of which takes one lease
    MaxBrokers,   \* bound: brokers created
    MaxChanges,   \* bound: logins and disconnections
    MaxMishaps    \* bound: failing runtimes, failing writes, cancellations

ASSUME CopilotAssumption ==
    MaxBrokers \in Nat /\ MaxChanges \in Nat /\ MaxMishaps \in Nat /\ "nobody" \notin Leases

VARIABLES
    account,     \* _enabled, _revision and _broker, 0 for None
    saved,       \* what the state file says
    signedIn,    \* whether the native profile is signed in
    broker,      \* the stage of each broker
    owners,      \* _owners
    creating,    \* brokers whose runtime is creating a session
    lease,       \* each request: where it is, its broker, the revision it saw and
                 \* the one it made a broker for
    brokerLock,  \* the request that holds _broker_lock, "nobody" otherwise
    signIn,      \* the login task: where it is, its broker, whether it is cancelled
    attempt,     \* _attempt_id is the login's
    office,      \* the operation that holds _operation_lock and where it is
    closure,     \* close(): "open", "asked", "running", "failed" or "closed"
    sweep,       \* the cleanup task: whether it runs, what it closes, what is left, whether it failed
    quiet,       \* history: a disconnection has returned and no login was started since
    unsaved,     \* history: the last change of the state file failed
    changes,     \* number of logins and disconnections
    mishaps      \* number of mishaps

stateVars == <<account, saved, unsaved>>
brokerVars == <<broker, owners, creating>>
countVars == <<signedIn, quiet, changes, mishaps>>
copilotVars ==
    <<stateVars, brokerVars, lease, brokerLock, signIn, attempt, office, closure, sweep, countVars>>

Brokers == 1..MaxBrokers
Made == {b \in Brokers : broker[b] # "unmade"}
Live == {b \in Brokers : broker[b] \in {"open", "closing", "draining", "stuck"}}
Holders(b) == {r \in Leases : lease[r].at \in {"opening", "streaming"} /\ lease[r].broker = b}
NoLogin == [at |-> "none", broker |-> 0, cancelled |-> FALSE]
NoSweep == [on |-> FALSE, now |-> 0, todo |-> {}, failed |-> FALSE]
NoLease == [at |-> "idle", broker |-> 0, revision |-> 0, made |-> 0]
SignInStages == {"none", "drain", "draining", "making", "probing", "rejecting", "device",
                 "remaking", "reprobing", "ending", "closing"}

CopilotTypeOK ==
    /\ account \in [enabled : BOOLEAN, revision : Nat, broker : 0..MaxBrokers]
    /\ saved \in [enabled : BOOLEAN, revision : Nat]
    /\ signedIn \in BOOLEAN
    /\ broker \in [Brokers -> {"unmade", "open", "closing", "draining", "stuck", "closed"}]
    /\ owners \subseteq Brokers /\ creating \subseteq Brokers
    /\ lease \in [Leases -> [at : {"idle", "locking", "making", "discarding", "entering", "opening",
                                   "streaming", "ended"},
                             broker : 0..MaxBrokers, revision : Nat, made : Nat]]
    /\ brokerLock \in Leases \cup {"nobody"}
    /\ signIn \in [at : SignInStages, broker : 0..MaxBrokers, cancelled : BOOLEAN]
    /\ attempt \in BOOLEAN
    /\ office \in [kind : {"none", "cancel", "disconnect", "close"},
                   at : {"none", "settle", "lock", "drain", "draining"}]
    /\ closure \in {"open", "asked", "running", "failed", "closed"}
    /\ sweep \in [on : BOOLEAN, now : 0..MaxBrokers, todo : SUBSET Brokers, failed : BOOLEAN]
    /\ quiet \in BOOLEAN /\ unsaved \in BOOLEAN
    /\ changes \in 0..MaxChanges /\ mishaps \in 0..MaxMishaps

Idle == [kind |-> "none", at |-> "none"]

\* The state file of an earlier process is read, and no broker is created yet.
CopilotInit ==
    /\ \E enabled \in BOOLEAN :
           /\ account = [enabled |-> enabled, revision |-> 0, broker |-> 0]
           /\ saved = [enabled |-> enabled, revision |-> 0]
    /\ signedIn \in BOOLEAN
    /\ broker = [b \in Brokers |-> "unmade"] /\ owners = {} /\ creating = {}
    /\ lease = [r \in Leases |-> NoLease] /\ brokerLock = "nobody"
    /\ signIn = NoLogin /\ attempt = FALSE
    /\ office = Idle /\ closure = "open" /\ sweep = NoSweep
    /\ quiet = FALSE /\ unsaved = FALSE /\ changes = 0 /\ mishaps = 0

Mishap == mishaps < MaxMishaps /\ mishaps' = mishaps + 1
LeaseTo(r, at) == lease' = [lease EXCEPT ![r].at = at]
SignInTo(at) == signIn' = [signIn EXCEPT !.at = at]
ManagerIsClosed == closure # "open"

-----------------------------------------------------------------------------
(* Brokers. *)

\* _new_broker: the next broker, owned from the start; stage is "closing" when its
\* creator closes it at once.
Make(b, stage) ==
    /\ b = Cardinality(Made) + 1 /\ b \in Brokers
    /\ broker' = [broker EXCEPT ![b] = stage] /\ owners' = owners \cup {b}
    /\ UNCHANGED creating

\* CopilotBroker.close is called: it starts, or starts again after a failure.
Close(b) == broker' = [broker EXCEPT ![b] = IF @ \in {"open", "stuck"} THEN "closing" ELSE @]
Settled(b) == broker[b] \in {"stuck", "closed"}
Disown(b) == owners' = IF broker[b] = "closed" THEN owners \ {b} ELSE owners

\* _close waits for the leases, then for sessions that are being created, whose
\* requests may have gone.
MayDrain(b) == Holders(b) = {}
MayClose(b) == b \notin creating

BrokerDrains ==
    \E b \in Brokers :
        /\ broker[b] = "closing" /\ MayDrain(b)
        /\ broker' = [broker EXCEPT ![b] = "draining"]
        /\ UNCHANGED <<stateVars, owners, creating, lease, brokerLock, signIn, attempt, office,
                       closure, sweep, countVars>>

BrokerCloses ==
    \E b \in Brokers :
        /\ broker[b] = "draining" /\ MayClose(b)
        /\ \/ broker' = [broker EXCEPT ![b] = "closed"] /\ UNCHANGED mishaps
           \/ Mishap /\ broker' = [broker EXCEPT ![b] = "stuck"]
        /\ UNCHANGED <<stateVars, owners, creating, lease, brokerLock, signIn, attempt, office,
                       closure, sweep, signedIn, quiet, changes>>

SessionCreated ==
    \E b \in creating :
        /\ creating' = creating \ {b}
        /\ UNCHANGED <<stateVars, broker, owners, lease, brokerLock, signIn, attempt, office,
                       closure, sweep, countVars>>

-----------------------------------------------------------------------------
(* The account. *)

\* _schedule_cleanup, with the owners and the published broker as they will be.
Retired == {b \in owners' : b # account'.broker}
Scheduled ==
    sweep' = IF sweep.on THEN sweep ELSE [on |-> TRUE, now |-> 0, todo |-> Retired, failed |-> FALSE]

\* _disable; the state file may not be written.
Disable ==
    /\ account' = [enabled |-> FALSE, revision |-> account.revision + 1, broker |-> 0]
    /\ \/ saved' = [enabled |-> FALSE, revision |-> account.revision + 1]
          /\ unsaved' = FALSE /\ UNCHANGED mishaps
       \/ Mishap /\ unsaved' = TRUE /\ UNCHANGED saved
    /\ Scheduled

\* _invalidate, for a request that saw a broker, or None, and a revision.
Matches(b, revision) == account.enabled /\ revision = account.revision /\ b = account.broker
InvalidateAccount(b, revision) ==
    IF Matches(b, revision) THEN Disable ELSE UNCHANGED <<stateVars, sweep, mishaps>>

\* _cleanup_retired closes the brokers one by one in the order of their creation;
\* a broker it finds published it leaves alone.
First(B) == CHOOSE b \in B : \A c \in B : b <= c
Spared(b) == b = account.broker

SweepCloses ==
    /\ sweep.now = 0 /\ sweep.todo # {}
    /\ LET b == First(sweep.todo) IN
       IF Spared(b)
       THEN sweep' = [sweep EXCEPT !.todo = @ \ {b}] /\ UNCHANGED broker
       ELSE sweep' = [sweep EXCEPT !.todo = @ \ {b}, !.now = b] /\ Close(b)
    /\ UNCHANGED <<stateVars, owners, creating, lease, brokerLock, signIn, attempt, office,
                   closure, countVars>>

SweepGoesOn ==
    /\ sweep.now # 0 /\ Settled(sweep.now) /\ Disown(sweep.now)
    /\ sweep' = [sweep EXCEPT !.now = 0, !.failed = @ \/ broker[sweep.now] = "stuck"]
    /\ UNCHANGED <<stateVars, broker, creating, lease, brokerLock, signIn, attempt, office,
                   closure, countVars>>

SweepEnds ==
    /\ sweep.on /\ sweep.now = 0 /\ sweep.todo = {}
    /\ sweep' = [sweep EXCEPT !.on = FALSE]
    /\ UNCHANGED <<stateVars, brokerVars, lease, brokerLock, signIn, attempt, office, closure,
                   countVars>>

\* _drain_retired: a cleanup is awaited, and another one while owners are retired.
AllRetired == \A b \in owners : b = account.broker

SignOut ==
    /\ signedIn /\ Mishap /\ signedIn' = FALSE
    /\ UNCHANGED <<stateVars, brokerVars, lease, brokerLock, signIn, attempt, office, closure, sweep,
                   quiet, changes>>

-----------------------------------------------------------------------------
(* Requests. *)

\* lease: the revision is read, then _broker_lock is awaited.
BeginLease(r) ==
    /\ lease[r].at = "idle"
    /\ lease' = [lease EXCEPT ![r] = [NoLease EXCEPT !.at = "locking", !.revision = account.revision]]
    /\ UNCHANGED <<stateVars, brokerVars, brokerLock, signIn, attempt, office, closure, sweep,
                   countVars>>

\* _current_broker: the published broker, or the creation of one.
Locked(r) ==
    /\ lease[r].at = "locking" /\ brokerLock = "nobody"
    /\ IF ManagerIsClosed \/ ~account.enabled
       THEN LeaseTo(r, "ended") /\ UNCHANGED brokerLock
       ELSE IF account.broker # 0
       THEN /\ lease' = [lease EXCEPT ![r].at = "entering", ![r].broker = account.broker]
            /\ UNCHANGED brokerLock
       ELSE /\ lease' = [lease EXCEPT ![r].at = "making", ![r].made = account.revision]
            /\ brokerLock' = r
    /\ UNCHANGED <<stateVars, brokerVars, signIn, attempt, office, closure, sweep, countVars>>

\* The runtime has been constructed; a broker that is not wanted any more is
\* closed by its creator, since a login may own another one.
Wanted(r) == ~ManagerIsClosed /\ account.enabled /\ account.revision = lease[r].made

Constructed(r) ==
    /\ lease[r].at = "making"
    /\ \E b \in Brokers :
        IF Wanted(r)
        THEN /\ Make(b, "open") /\ account' = [account EXCEPT !.broker = b] /\ brokerLock' = "nobody"
             /\ lease' = [lease EXCEPT ![r].at = "entering", ![r].broker = b]
        ELSE /\ Make(b, "closing")
             /\ lease' = [lease EXCEPT ![r].at = "discarding", ![r].broker = b]
             /\ UNCHANGED <<account, brokerLock>>
    /\ UNCHANGED <<saved, unsaved, signIn, attempt, office, closure, sweep, countVars>>

\* The SDK cannot be loaded.
ConstructFails(r) ==
    /\ lease[r].at = "making"
    /\ LeaseTo(r, "ended") /\ brokerLock' = "nobody"
    /\ UNCHANGED <<stateVars, brokerVars, signIn, attempt, office, closure, sweep, countVars>>

\* The request fails; its broker is None for the manager.
Discarded(r) ==
    /\ lease[r].at = "discarding" /\ Settled(lease[r].broker)
    /\ Disown(lease[r].broker)
    /\ LeaseTo(r, "ended") /\ brokerLock' = "nobody"
    /\ IF broker[lease[r].broker] = "closed" THEN InvalidateAccount(0, lease[r].revision)
       ELSE UNCHANGED <<stateVars, sweep, mishaps>>
    /\ UNCHANGED <<broker, creating, signIn, attempt, office, closure, signedIn, quiet, changes>>

\* CopilotBroker.lease: the snapshot, and the lease unless the broker closes.
Enter(r) ==
    /\ lease[r].at = "entering" /\ UNCHANGED owners
    /\ IF ~signedIn
       THEN /\ LeaseTo(r, "ended") /\ UNCHANGED creating
            /\ InvalidateAccount(lease[r].broker, lease[r].revision)
       ELSE /\ IF broker[lease[r].broker] = "open"
               THEN LeaseTo(r, "opening") /\ creating' \in {creating, creating \cup {lease[r].broker}}
               ELSE LeaseTo(r, "ended") /\ UNCHANGED creating
            /\ UNCHANGED <<stateVars, sweep, mishaps>>
    /\ UNCHANGED <<broker, brokerLock, signIn, attempt, office, closure, signedIn, quiet, changes>>

\* ensure_current
StillCurrent(r) ==
    /\ account.enabled /\ ~ManagerIsClosed
    /\ account.broker = lease[r].broker /\ account.revision = lease[r].revision

\* The session is there: the lease is handed out, or the request fails.
Opened(r) ==
    /\ lease[r].at = "opening" /\ lease[r].broker \notin creating /\ UNCHANGED brokerVars
    /\ IF signedIn /\ StillCurrent(r)
       THEN LeaseTo(r, "streaming") /\ UNCHANGED <<stateVars, sweep, mishaps>>
       ELSE LeaseTo(r, "ended") /\ InvalidateAccount(lease[r].broker, lease[r].revision)
    /\ UNCHANGED <<brokerLock, signIn, attempt, office, closure, signedIn, quiet, changes>>

\* endpoint, once more: the request fails if the account is not what it was.
Refused(r) ==
    /\ lease[r].at = "streaming" /\ ~(signedIn /\ StillCurrent(r)) /\ UNCHANGED brokerVars
    /\ LeaseTo(r, "ended") /\ InvalidateAccount(lease[r].broker, lease[r].revision)
    /\ UNCHANGED <<brokerLock, signIn, attempt, office, closure, signedIn, quiet, changes>>

Streamed(r) ==
    /\ lease[r].at = "streaming" /\ LeaseTo(r, "ended")
    /\ UNCHANGED <<stateVars, brokerVars, brokerLock, signIn, attempt, office, closure, sweep,
                   countVars>>

\* The client goes away; a session that is being created is not cancelled, and a
\* broker that is being discarded is awaited.
CancelRequest(r) ==
    /\ lease[r].at \in {"locking", "making", "entering", "opening"} /\ Mishap
    /\ LeaseTo(r, "ended") /\ brokerLock' = IF brokerLock = r THEN "nobody" ELSE brokerLock
    /\ UNCHANGED <<stateVars, brokerVars, signIn, attempt, office, closure, sweep, signedIn,
                   quiet, changes>>

-----------------------------------------------------------------------------
(* The login. *)

\* start_login disables the account; the login starts unless that is not saved.
StartSignIn ==
    /\ office = Idle /\ ~ManagerIsClosed /\ signIn.at = "none" /\ changes < MaxChanges
    /\ UNCHANGED owners /\ Disable
    /\ changes' = changes + 1 /\ quiet' = FALSE
    /\ IF unsaved' THEN UNCHANGED <<signIn, attempt>>
       ELSE signIn' = [NoLogin EXCEPT !.at = "drain"] /\ attempt' = TRUE
    /\ UNCHANGED <<broker, creating, lease, brokerLock, office, closure, signedIn>>

\* _drain_retired, the part before the await and the part after it.
SignInDrains ==
    /\ ~signIn.cancelled /\ UNCHANGED <<account, owners>>
    /\ \/ signIn.at = "drain" /\ Scheduled /\ SignInTo("draining")
       \/ /\ signIn.at = "draining" /\ ~sweep.on
          /\ SignInTo(IF sweep.failed THEN "ending" ELSE IF AllRetired THEN "making" ELSE "drain")
          /\ UNCHANGED sweep
    /\ UNCHANGED <<saved, unsaved, broker, creating, lease, brokerLock, attempt, office, closure,
                   countVars>>

SignInMakes ==
    /\ signIn.at \in {"making", "remaking"} /\ ~signIn.cancelled
    /\ \E b \in Brokers :
        /\ Make(b, "open")
        /\ signIn' = [signIn EXCEPT !.broker = b,
                                    !.at = IF @ = "making" THEN "probing" ELSE "reprobing"]
    /\ UNCHANGED <<stateVars, lease, brokerLock, attempt, office, closure, sweep, countVars>>

\* The snapshot came back: the account is published unless the login is not the
\* current one or the state file is not written.
MayPublish == attempt /\ ~ManagerIsClosed

SignInPublishes ==
    /\ signIn.at \in {"probing", "reprobing"} /\ ~signIn.cancelled
    /\ signedIn /\ broker[signIn.broker] = "open"
    /\ SignInTo("ending")
    /\ IF MayPublish
       THEN /\ account' = [enabled |-> TRUE, revision |-> account.revision + 1,
                           broker |-> signIn.broker]
            /\ saved' = [enabled |-> TRUE, revision |-> account.revision + 1] /\ unsaved' = FALSE
       ELSE UNCHANGED stateVars
    /\ UNCHANGED <<brokerVars, lease, brokerLock, attempt, office, closure, sweep, countVars>>

\* The profile is signed out: the broker is closed and the device login follows.
SignInRejected ==
    /\ signIn.at = "probing" /\ ~signIn.cancelled /\ ~signedIn
    /\ Close(signIn.broker) /\ SignInTo("rejecting")
    /\ UNCHANGED <<stateVars, owners, creating, lease, brokerLock, attempt, office, closure,
                   sweep, countVars>>

SignInGoesOn ==
    /\ signIn.at = "rejecting" /\ Settled(signIn.broker)
    /\ Disown(signIn.broker)
    /\ IF broker[signIn.broker] = "closed" /\ ~signIn.cancelled
       THEN signIn' = [signIn EXCEPT !.broker = 0, !.at = "device"] ELSE SignInTo("ending")
    /\ UNCHANGED <<stateVars, broker, creating, lease, brokerLock, attempt, office, closure,
                   sweep, countVars>>

\* The user signs in with the device code.
DeviceLogin ==
    /\ signIn.at = "device" /\ ~signIn.cancelled
    /\ signedIn' = TRUE /\ SignInTo("remaking")
    /\ UNCHANGED <<stateVars, brokerVars, lease, brokerLock, attempt, office, closure, sweep,
                   quiet, changes, mishaps>>

\* The login fails, runs out of time or is cancelled where it awaits something.
SignInStops ==
    /\ \/ signIn.at \in {"making", "probing", "device", "remaking", "reprobing"}
       \/ signIn.cancelled /\ (signIn.at = "drain" \/ (signIn.at = "draining" /\ ~sweep.on))
    /\ SignInTo("ending")
    /\ UNCHANGED <<stateVars, brokerVars, lease, brokerLock, attempt, office, closure, sweep,
                   countVars>>

\* Its last clause closes a broker that is not published.
SignInEnds ==
    /\ signIn.at = "ending"
    /\ LET b == signIn.broker IN
       IF b \in {0, account.broker}
       THEN signIn' = NoLogin /\ attempt' = FALSE /\ UNCHANGED <<broker, owners>>
       ELSE Close(b) /\ SignInTo("closing") /\ UNCHANGED <<attempt, owners>>
    /\ UNCHANGED <<stateVars, creating, lease, brokerLock, office, closure, sweep, countVars>>

SignInEnded ==
    /\ signIn.at = "closing" /\ Settled(signIn.broker) /\ Disown(signIn.broker)
    /\ signIn' = NoLogin /\ attempt' = FALSE
    /\ UNCHANGED <<stateVars, broker, creating, lease, brokerLock, office, closure, sweep,
                   countVars>>

-----------------------------------------------------------------------------
(* Administration. *)

OfficeTo(at) == office' = [office EXCEPT !.at = at]

\* _cancel_login, up to its await.
CancelsLogin ==
    /\ attempt' = FALSE
    /\ signIn' = [signIn EXCEPT !.cancelled = signIn.at # "none"]

CancelSignIn ==
    /\ office = Idle /\ signIn.at # "none"
    /\ office' = [kind |-> "cancel", at |-> "settle"] /\ CancelsLogin
    /\ UNCHANGED <<stateVars, brokerVars, lease, brokerLock, closure, sweep, countVars>>

Disconnect ==
    /\ office = Idle /\ ~ManagerIsClosed /\ changes < MaxChanges
    /\ UNCHANGED owners /\ Disable /\ changes' = changes + 1
    /\ office' = [kind |-> "disconnect", at |-> "settle"] /\ CancelsLogin
    /\ UNCHANGED <<broker, creating, lease, brokerLock, closure, signedIn, quiet>>

\* close; a close that failed may be called again.
AskClose ==
    /\ closure \in {"open", "failed"}
    /\ closure' = "asked"
    /\ UNCHANGED <<stateVars, brokerVars, lease, brokerLock, signIn, attempt, office, sweep,
                   countVars>>

BeginClose ==
    /\ closure = "asked" /\ office = Idle
    /\ closure' = "running" /\ office' = [kind |-> "close", at |-> "settle"] /\ CancelsLogin
    /\ UNCHANGED <<stateVars, brokerVars, lease, brokerLock, sweep, countVars>>

\* The login is over: any construction is awaited, and the drain begins.
OfficeSettled ==
    /\ office.at = "settle" /\ signIn.at = "none"
    /\ OfficeTo(IF office.kind = "cancel" THEN "drain" ELSE "lock")
    /\ UNCHANGED <<stateVars, brokerVars, lease, brokerLock, signIn, attempt, closure, sweep,
                   countVars>>

\* Mutant: a broker that is being constructed is not awaited.
PassAnyway == TRUE

MayPass == brokerLock = "nobody"

OfficePasses ==
    /\ office.at = "lock" /\ MayPass
    /\ account' = IF office.kind = "close" THEN [account EXCEPT !.broker = 0] ELSE account
    /\ OfficeTo("drain")
    /\ UNCHANGED <<saved, unsaved, brokerVars, lease, brokerLock, signIn, attempt, closure,
                   sweep, countVars>>

OfficeDrains ==
    /\ office.at = "drain"
    /\ UNCHANGED <<account, owners>> /\ Scheduled
    /\ OfficeTo("draining")
    /\ UNCHANGED <<saved, unsaved, broker, creating, lease, brokerLock, signIn, attempt, closure,
                   countVars>>

OfficeReturns ==
    /\ office.at = "draining" /\ ~sweep.on
    /\ IF sweep.failed \/ AllRetired
       THEN /\ office' = Idle
            /\ closure' = IF office.kind # "close" THEN closure
                          ELSE IF sweep.failed THEN "failed" ELSE "closed"
            /\ quiet' = (quiet \/ (office.kind = "disconnect" /\ ~sweep.failed))
       ELSE OfficeTo("drain") /\ UNCHANGED <<closure, quiet>>
    /\ UNCHANGED <<stateVars, brokerVars, lease, brokerLock, signIn, attempt, sweep, signedIn,
                   changes, mishaps>>

-----------------------------------------------------------------------------
CopilotWork ==
    \/ BrokerDrains \/ BrokerCloses \/ SessionCreated \/ SweepCloses \/ SweepGoesOn \/ SweepEnds
    \/ SignInDrains \/ SignInMakes \/ SignInPublishes \/ SignInRejected \/ SignInGoesOn \/ DeviceLogin
    \/ SignInStops \/ SignInEnds \/ SignInEnded
    \/ BeginClose \/ OfficeSettled \/ OfficePasses \/ OfficeDrains \/ OfficeReturns
    \/ \E r \in Leases :
           \/ Locked(r) \/ Constructed(r) \/ ConstructFails(r) \/ Discarded(r)
           \/ Enter(r) \/ Opened(r) \/ Refused(r) \/ Streamed(r)

CopilotNext ==
    \/ CopilotWork
    \/ SignOut \/ StartSignIn \/ CancelSignIn \/ Disconnect \/ AskClose
    \/ \E r \in Leases : BeginLease(r) \/ CancelRequest(r)

\* Tasks run, runtimes answer or time out, and requests and logins end.
CopilotFairness == WF_copilotVars(CopilotWork)

-----------------------------------------------------------------------------
(* Properties. *)

\* The published broker is owned and nobody has begun to close it.
PublishedIsOpen ==
    account.broker # 0 =>
        account.enabled /\ account.broker \in owners /\ broker[account.broker] = "open"

\* Every runtime that may still run has an owner who can be asked to close it again.
LiveIsOwned == Live \subseteq owners

\* A runtime is closed when no request holds it and it creates no session.
ClosedIsUnused == \A b \in Brokers : broker[b] = "closed" => Holders(b) = {} /\ b \notin creating

\* When a disconnection or the close has returned, no runtime runs, although a
\* request may have been constructing one.
GoneIsGone == quiet \/ closure = "closed" => Live = {}

\* The state file says what the account is, but for a change that was reported
\* as not saved.
SavedIsTrue ==
    ~unsaved => /\ saved.enabled = account.enabled
                /\ account.enabled => saved.revision = account.revision

CopilotSafety ==
    CopilotTypeOK /\ PublishedIsOpen /\ LiveIsOwned /\ ClosedIsUnused /\ GoneIsGone /\ SavedIsTrue

\* Requests, logins, operations and cleanups have ended.
NobodyConnects ==
    /\ \A r \in Leases : lease[r].at \in {"idle", "ended"}
    /\ signIn.at = "none" /\ office = Idle /\ ~sweep.on /\ closure \notin {"asked", "running"}

=============================================================================
