---------------------------- MODULE OpenAIAccount ----------------------------
(***************************************************************************)
(* The ChatGPT account (providers/openai_codex/auth.py): its credentials   *)
(* in memory and in a file that several processes share under a file lock, *)
(* their refresh, the interactive login and the disconnection.             *)
(*                                                                         *)
(* Credentials are numbered in the order the service issues them, 0 stands *)
(* for none.  A cancelled task abandons the worker thread it waits for:    *)
(* the thread finishes its write or removal later, without the lock.       *)
(***************************************************************************)
EXTENDS Integers, FiniteSets

CONSTANTS
    Managers,       \* the processes, each with one OpenAIAuthManager
    MaxIssued,      \* bound: credentials issued
    MaxLogins,      \* bound: logins started
    MaxTransients,  \* bound: transient failures of the service
    MaxUpsets       \* bound: cancelled calls, lost answers, lock timeouts and crashes

ASSUME AccountAssumption ==
    MaxIssued \in Nat \ {0} /\ MaxLogins \in Nat /\ MaxTransients \in Nat /\ MaxUpsets \in Nat

VARIABLES
    authFile,   \* the credentials in the file
    issued,     \* number of credentials issued
    usable,     \* credentials whose refresh token the service accepts
    ageing,     \* credentials that are about to expire
    fileLock,   \* who holds the interprocess lock
    memory,     \* _credentials of each process
    held,       \* the operation that holds its _state_lock
    login,      \* its login task
    attached,   \* whether _login_task is that task
    granted,    \* the credentials it was issued
    stopping,   \* whether that task has been cancelled
    listener,   \* whether the browser's callback server is open
    admin,      \* the operation that holds its _operation_lock
    shut,       \* _closed
    abandoned,  \* what its abandoned threads are going to put into the file
    upsets,     \* history: cancelled calls, lost answers, timeouts and crashes so far
    transients, \* transient failures of the service so far
    logins      \* number of logins started

sharedVars == <<authFile, issued, usable, ageing, fileLock>>
loginVars == <<login, attached, granted, stopping, listener>>
accountVars == <<sharedVars, memory, held, loginVars, admin, shut, abandoned, upsets, transients, logins>>

Credentials == 1..MaxIssued
Nobody == <<"nobody", "">>
Free == [at |-> "free", kind |-> "none", using |-> 0, tries |-> 0]
StateLockSteps == {"free", "reload", "lock", "reread", "post", "write", "erase",
                   "revoke", "removelock", "remove"}

AccountTypeOK ==
    /\ authFile \in 0..MaxIssued /\ issued \in 0..MaxIssued
    /\ usable \subseteq Credentials /\ ageing \subseteq Credentials
    /\ fileLock \in {Nobody} \cup (Managers \X {"held", "login"})
    /\ memory \in [Managers -> 0..MaxIssued]
    /\ held \in [Managers -> [at : StateLockSteps, kind : {"none", "access", "recover", "disconnect"},
                              using : 0..MaxIssued, tries : 0..2]]
    /\ login \in [Managers -> {"none", "grant", "exchange", "lock", "write", "memory", "ending"}]
    /\ granted \in [Managers -> 0..MaxIssued]
    /\ attached \in [Managers -> BOOLEAN] /\ stopping \in [Managers -> BOOLEAN]
    /\ listener \in [Managers -> BOOLEAN]
    /\ admin \in [Managers -> {"none", "starting", "cancel", "disconnect", "removing", "close"}]
    /\ shut \in [Managers -> BOOLEAN] /\ abandoned \in [Managers -> SUBSET (0..MaxIssued)]
    /\ upsets \in 0..MaxUpsets /\ transients \in 0..MaxTransients
    /\ logins \in 0..MaxLogins

\* Every process has read the credentials of an earlier login, or there are none.
AccountInit ==
    /\ authFile \in {0, 1} /\ issued = authFile /\ usable = 1..authFile /\ ageing = {}
    /\ fileLock = Nobody
    /\ memory = [m \in Managers |-> authFile] /\ held = [m \in Managers |-> Free]
    /\ login = [m \in Managers |-> "none"] /\ attached = [m \in Managers |-> FALSE]
    /\ granted = [m \in Managers |-> 0]
    /\ stopping = [m \in Managers |-> FALSE] /\ listener = [m \in Managers |-> FALSE]
    /\ admin = [m \in Managers |-> "none"] /\ shut = [m \in Managers |-> FALSE]
    /\ abandoned = [m \in Managers |-> {}]
    /\ upsets = 0 /\ transients = 0 /\ logins = 0

Upset == upsets < MaxUpsets /\ upsets' = upsets + 1
HeldTo(m, at) == held' = [held EXCEPT ![m].at = at]
EndHeld(m) == held' = [held EXCEPT ![m] = Free]
LoginTo(m, at) == login' = [login EXCEPT ![m] = at]
AdminTo(m, at) == admin' = [admin EXCEPT ![m] = at]
Remember(m, c) == memory' = [memory EXCEPT ![m] = c]

\* Time passes: an access token comes within REFRESH_EARLY_SECONDS of its end.
Age ==
    \E c \in 1..issued \ ageing :
        /\ ageing' = ageing \cup {c}
        /\ UNCHANGED <<authFile, issued, usable, fileLock, memory, held, loginVars, admin, shut,
                       abandoned, upsets, transients, logins>>

-----------------------------------------------------------------------------
(* Requests. *)

\* access refreshes credentials that are about to expire; a refresh may also be forced.
Access(m) ==
    /\ held[m] = Free /\ ~shut[m] /\ memory[m] # 0 /\ issued < MaxIssued
    /\ held' = [held EXCEPT ![m] = [at |-> "lock", kind |-> "access", using |-> memory[m], tries |-> 0]]
    /\ UNCHANGED <<sharedVars, memory, loginVars, admin, shut, abandoned, upsets, transients, logins>>

\* recover_unauthorized: an access token was rejected.
Recover(m) ==
    /\ held[m] = Free /\ memory[m] # 0 /\ issued < MaxIssued
    /\ held' = [held EXCEPT ![m] = [Free EXCEPT !.at = "reload", !.kind = "recover", !.using = memory[m]]]
    /\ UNCHANGED <<sharedVars, memory, loginVars, admin, shut, abandoned, upsets, transients, logins>>

\* It takes over what another process has put into the file.
Reload(m) ==
    /\ held[m].at = "reload"
    /\ IF authFile \notin {0, memory[m]}
       THEN Remember(m, authFile) /\ EndHeld(m)
       ELSE HeldTo(m, "lock") /\ UNCHANGED memory
    /\ UNCHANGED <<sharedVars, loginVars, admin, shut, abandoned, upsets, transients,
                   logins>>

-----------------------------------------------------------------------------
(* _refresh_locked *)

\* The interprocess lock is acquired.
LockFile(m) ==
    /\ held[m].at \in {"lock", "removelock"} /\ fileLock = Nobody
    /\ fileLock' = <<m, "held">>
    /\ HeldTo(m, IF held[m].at = "lock" THEN "reread" ELSE "remove")
    /\ UNCHANGED <<authFile, issued, usable, ageing, memory, loginVars, admin, shut, abandoned,
                   upsets, transients, logins>>

\* It is not acquired in time.
LockTimesOut(m) ==
    /\ held[m].at \in {"lock", "removelock"} /\ fileLock # Nobody
    /\ Upset /\ EndHeld(m)
    /\ admin' = IF held[m].kind = "disconnect" THEN [admin EXCEPT ![m] = "none"] ELSE admin
    /\ UNCHANGED <<sharedVars, memory, loginVars, shut, abandoned, transients, logins>>

\* The operation has ended and given its locks back.
Done(m) == EndHeld(m) /\ fileLock' = Nobody

\* Another process may have refreshed in the meantime.
Reread(m) ==
    /\ held[m].at = "reread"
    /\ IF authFile \notin {0, held[m].using} /\ authFile \notin ageing
       THEN Remember(m, authFile) /\ Done(m)
       ELSE HeldTo(m, "post") /\ UNCHANGED <<memory, fileLock>>
    /\ UNCHANGED <<authFile, issued, usable, ageing, loginVars, admin, shut, abandoned, upsets,
                   transients, logins>>

\* The service answers: new credentials for a refresh token it accepts, which it
\* may or may not accept once more, and a rejection otherwise.
Granted(using) ==
    /\ issued < MaxIssued /\ using \in usable
    /\ issued' = issued + 1
    /\ \E kept \in SUBSET {using} : usable' = (usable \ {using}) \cup kept \cup {issued'}

Refreshed(m) ==
    /\ held[m].at = "post"
    /\ Granted(held[m].using)
    /\ held' = [held EXCEPT ![m].at = "write", ![m].using = issued']
    /\ UNCHANGED <<authFile, ageing, fileLock, memory, loginVars, admin, shut, abandoned, upsets,
                   transients, logins>>

Rejected(m) ==
    /\ held[m].at = "post" /\ held[m].using \notin usable
    /\ HeldTo(m, "erase")
    /\ UNCHANGED <<sharedVars, memory, loginVars, admin, shut, abandoned, upsets, transients, logins>>

\* No answer, or a transient one: access goes on with what it has, and
\* recover_unauthorized tries once more.
GoOn(m) ==
    /\ held[m].at = "post" /\ fileLock' = Nobody
    /\ held' = [held EXCEPT ![m] = IF held[m].kind = "recover" /\ held[m].tries = 0
                                   THEN [@ EXCEPT !.at = "lock", !.tries = 1] ELSE Free]
    /\ UNCHANGED <<authFile, ageing, memory, loginVars, admin, shut, abandoned, logins>>

NotRefreshed(m) ==
    /\ IF issued = MaxIssued THEN UNCHANGED transients
       ELSE transients < MaxTransients /\ transients' = transients + 1
    /\ GoOn(m) /\ UNCHANGED <<issued, usable, upsets>>

AnswerLost(m) == Upset /\ Granted(held[m].using) /\ GoOn(m) /\ UNCHANGED transients

Written(m) ==
    /\ held[m].at = "write"
    /\ authFile' = held[m].using /\ Remember(m, authFile') /\ Done(m)
    /\ UNCHANGED <<issued, usable, ageing, loginVars, admin, shut, abandoned, upsets, transients, logins>>

Erased(m) ==
    /\ held[m].at = "erase"
    /\ authFile' = 0 /\ Remember(m, 0) /\ Done(m)
    /\ UNCHANGED <<issued, usable, ageing, loginVars, admin, shut, abandoned, upsets, transients, logins>>

\* What the thread puts into the file that an operation waits for.
ThreadOf(m) ==
    (IF held[m].at = "write" THEN {held[m].using}
     ELSE IF held[m].at \in {"erase", "remove"} THEN {0} ELSE {})

\* The caller is cancelled; the finally clause releases the file lock.
CancelHeld(m) ==
    /\ held[m] # Free /\ Upset
    /\ abandoned' = [abandoned EXCEPT ![m] = @ \cup ThreadOf(m)]
    /\ fileLock' = IF fileLock = <<m, "held">> THEN Nobody ELSE fileLock
    /\ (UNCHANGED <<issued, usable>>) \/ (held[m].at = "post" /\ Granted(held[m].using))
    /\ EndHeld(m)
    /\ admin' = IF held[m].kind = "disconnect" THEN [admin EXCEPT ![m] = "none"] ELSE admin
    /\ UNCHANGED <<authFile, ageing, memory, loginVars, shut, transients, logins>>

\* An abandoned thread comes to its end.
AbandonedEnds(m) ==
    \E c \in abandoned[m] :
        /\ authFile' = c /\ abandoned' = [abandoned EXCEPT ![m] = @ \ {c}]
        /\ UNCHANGED <<issued, usable, ageing, fileLock, memory, held, loginVars, admin, shut,
                       upsets, transients, logins>>

-----------------------------------------------------------------------------
(* The login. *)

\* start_login, up to the await of the callback server or the device code.
StartLogin(m) ==
    /\ admin[m] = "none" /\ held[m] = Free /\ ~shut[m] /\ ~attached[m]
    /\ logins < MaxLogins /\ logins' = logins + 1
    /\ AdminTo(m, "starting")
    /\ UNCHANGED <<sharedVars, memory, held, loginVars, shut, abandoned, upsets, transients>>

\* The login task is created, for the browser with its callback server.
LoginStarted(m) ==
    /\ admin[m] = "starting" /\ held[m] = Free
    /\ AdminTo(m, "none")
    /\ \/ /\ LoginTo(m, "grant") /\ attached' = [attached EXCEPT ![m] = TRUE]
          /\ \E browser \in BOOLEAN : listener' = [listener EXCEPT ![m] = browser]
       \/ UNCHANGED <<login, attached, listener>>
    /\ UNCHANGED <<sharedVars, memory, held, granted, stopping, shut, abandoned, upsets,
                   transients, logins>>

\* The user's grant is exchanged for credentials, under no lock.
Exchange(m) ==
    /\ login[m] = "grant" \/ (login[m] = "exchange" /\ issued < MaxIssued)
    /\ IF login[m] = "grant"
       THEN LoginTo(m, "exchange") /\ UNCHANGED <<issued, usable, granted>>
       ELSE /\ issued' = issued + 1 /\ usable' = usable \cup {issued'}
            /\ granted' = [granted EXCEPT ![m] = issued'] /\ LoginTo(m, "lock")
    /\ UNCHANGED <<authFile, ageing, fileLock, attached, stopping, listener>>

\* They are written under the file lock, and remembered under the state lock.
LoginWrites(m) ==
    \/ /\ login[m] = "lock" /\ fileLock = Nobody
       /\ fileLock' = <<m, "login">> /\ LoginTo(m, "write") /\ UNCHANGED authFile
    \/ /\ login[m] = "write"
       /\ authFile' = granted[m] /\ fileLock' = Nobody /\ LoginTo(m, "memory")

LoginFails(m) ==
    \/ login[m] \in {"grant", "exchange"}
    \/ login[m] = "lock" /\ fileLock # Nobody

LoginStep(m) ==
    /\ ~stopping[m]
    /\ \/ Exchange(m)
       \/ LoginWrites(m) /\ UNCHANGED <<issued, usable, ageing, attached, granted, stopping, listener>>
       \/ /\ LoginFails(m) /\ LoginTo(m, "ending")
          /\ UNCHANGED <<sharedVars, attached, granted, stopping, listener>>
    /\ UNCHANGED <<memory, held, admin, shut, abandoned, upsets, transients, logins>>

\* A cancelled login leaves what it awaits and releases the file lock.
LoginInterrupted(m) ==
    /\ stopping[m] /\ login[m] \notin {"none", "ending"}
    /\ LoginTo(m, "ending")
    /\ fileLock' = IF fileLock = <<m, "login">> THEN Nobody ELSE fileLock
    /\ abandoned' = IF login[m] # "write" THEN abandoned
                    ELSE [abandoned EXCEPT ![m] = @ \cup {granted[m]}]
    /\ UNCHANGED <<authFile, issued, usable, ageing, memory, held, attached, granted, stopping, listener,
                   admin, shut, upsets, transients, logins>>

\* Its last clause, under the state lock; a login that came through is remembered.
LoginEnds(m) ==
    /\ login[m] = "ending" \/ (login[m] = "memory" /\ ~stopping[m])
    /\ held[m] = Free
    /\ memory' = IF login[m] = "memory" THEN [memory EXCEPT ![m] = granted[m]] ELSE memory
    /\ LoginTo(m, "none") /\ attached' = [attached EXCEPT ![m] = FALSE]
    /\ granted' = [granted EXCEPT ![m] = 0]
    /\ stopping' = [stopping EXCEPT ![m] = FALSE] /\ listener' = [listener EXCEPT ![m] = FALSE]
    /\ UNCHANGED <<sharedVars, held, admin, shut, abandoned, upsets, transients, logins>>

-----------------------------------------------------------------------------
(* Administration. *)

\* _detach_login_locked and the cancellation of the login, by cancel_login,
\* disconnect or close, where it changes anything.
Detach(m, kind) ==
    /\ admin[m] = "none" /\ held[m] = Free
    /\ kind = "cancel" => attached[m]
    /\ kind = "disconnect" => ~shut[m] /\ (attached[m] \/ memory[m] # 0 \/ authFile # 0)
    /\ kind = "close" => ~shut[m]
    /\ AdminTo(m, kind)
    /\ attached' = [attached EXCEPT ![m] = FALSE]
    /\ stopping' = [stopping EXCEPT ![m] = login[m] # "none"]
    /\ shut' = [shut EXCEPT ![m] = @ \/ kind = "close"]
    /\ UNCHANGED <<sharedVars, memory, held, login, granted, listener, abandoned, upsets,
                   transients, logins>>

LoginIsOver(m) == login[m] = "none"

\* The login is over: disconnect goes on under the state lock.
Detached(m) ==
    /\ admin[m] \in {"cancel", "disconnect", "close"} /\ LoginIsOver(m)
    /\ IF admin[m] = "disconnect"
       THEN /\ held[m] = Free
            /\ held' = [held EXCEPT ![m] = [at |-> "revoke", kind |-> "disconnect",
                                            using |-> memory[m], tries |-> 0]]
            /\ AdminTo(m, "removing")
       ELSE AdminTo(m, "none") /\ UNCHANGED held
    /\ UNCHANGED <<sharedVars, memory, loginVars, shut, abandoned, upsets, transients,
                   logins>>

\* The service revokes the refresh token, or does not hear of it.
Revoke(m) ==
    /\ held[m].at = "revoke"
    /\ usable' \in {usable, usable \ {held[m].using}}
    /\ HeldTo(m, "removelock")
    /\ UNCHANGED <<authFile, issued, ageing, fileLock, memory, loginVars, admin, shut, abandoned,
                   upsets, transients, logins>>

Removed(m) ==
    /\ held[m].at = "remove"
    /\ authFile' = 0 /\ Remember(m, 0) /\ Done(m) /\ AdminTo(m, "none")
    /\ UNCHANGED <<issued, usable, ageing, loginVars, shut, abandoned, upsets, transients, logins>>

\* The process ends without notice and is started again.
Crash(m) ==
    /\ Upset /\ Remember(m, authFile)
    /\ EndHeld(m) /\ AdminTo(m, "none")
    /\ fileLock' = IF fileLock[1] = m THEN Nobody ELSE fileLock
    /\ LoginTo(m, "none") /\ attached' = [attached EXCEPT ![m] = FALSE]
    /\ granted' = [granted EXCEPT ![m] = 0]
    /\ stopping' = [stopping EXCEPT ![m] = FALSE] /\ listener' = [listener EXCEPT ![m] = FALSE]
    /\ abandoned' = [abandoned EXCEPT ![m] = {}] /\ shut' = [shut EXCEPT ![m] = FALSE]
    /\ UNCHANGED <<authFile, issued, usable, ageing, transients, logins>>

-----------------------------------------------------------------------------
AccountWork(m) ==
    \/ Reload(m) \/ LockFile(m) \/ Reread(m) \/ Refreshed(m) \/ Rejected(m) \/ NotRefreshed(m)
    \/ Written(m) \/ Erased(m) \/ AbandonedEnds(m)
    \/ LoginStarted(m) \/ LoginStep(m) \/ LoginInterrupted(m) \/ LoginEnds(m)
    \/ Detached(m) \/ Revoke(m) \/ Removed(m)

AccountNext ==
    \/ Age
    \/ \E m \in Managers :
           \/ AccountWork(m)
           \/ Access(m) \/ Recover(m) \/ StartLogin(m)
           \/ CancelHeld(m) \/ LockTimesOut(m) \/ AnswerLost(m) \/ Crash(m)
           \/ \E kind \in {"cancel", "disconnect", "close"} : Detach(m, kind)

AccountFairness == \A m \in Managers : WF_accountVars(AccountWork(m))

-----------------------------------------------------------------------------
\* Unless a call was cancelled, an answer lost or a process died, the
\* credentials in the file can be refreshed while nobody works on them; but for
\* the moment between a disconnection's revocation and its removal.
Removing == \E m \in Managers : held[m].at = "removelock"

FileIsRenewable == upsets = 0 /\ authFile # 0 /\ fileLock = Nobody /\ ~Removing => authFile \in usable

\* After a cancelled login, a disconnection or a close has returned, the login
\* task is over and its callback server closed; a later one cannot be confused
\* with it.
LoginIsOwned ==
    \A m \in Managers :
        /\ admin[m] \notin {"cancel", "disconnect", "close"} /\ ~attached[m] => login[m] = "none"
        /\ login[m] = "none" => ~listener[m]

\* Only the holder of the lock is about to write or remove the file.
WritersAreAlone ==
    \A m \in Managers :
        /\ held[m].at \in {"reread", "post", "write", "erase", "remove"} <=> fileLock = <<m, "held">>
        /\ login[m] = "write" <=> fileLock = <<m, "login">>

AccountSafety == AccountTypeOK /\ FileIsRenewable /\ LoginIsOwned /\ WritersAreAlone

\* Every operation and login has ended, but for a login that waits for its user.
NobodySignsIn ==
    \A m \in Managers :
        held[m] = Free /\ login[m] = "none" /\ admin[m] = "none" /\ abandoned[m] = {}

=============================================================================
