--------------------------- MODULE AdminRecovery ----------------------------
(***************************************************************************)
(* The account file, the file with a generated administrator password, and *)
(* the offline tool that gives an administrator a new password             *)
(* (internal/auth: user.go, admin_recovery.go).  Service and tool exclude  *)
(* each other by the lock of the directory.                                *)
(*                                                                         *)
(* users.json, initial-password.txt, the tool's temporary file and         *)
(* auth-sessions.json are names in one directory: after a power loss each  *)
(* holds what it held at the last sync of the directory or anything it was *)
(* given since.  A password is a number; the id of an account is the       *)
(* number of its first password.                                           *)
(***************************************************************************)
EXTENDS Naturals, FiniteSets

CONSTANTS
    Usernames, BootName,     \* names of accounts; the name "admin"
    NoUser, NoFile,
    MaxPasswords, MaxAdminFaults, MaxAdminCrashes    \* bounds

VARIABLES
    adir,                    \* the directory as it is seen
    maybe,                   \* per name, what a power loss may leave
    serving,                 \* the service runs; its accounts are adir.users
    admitted,                \* administrators whose request was let in (RequireAuth) and waits
    job,                     \* the operation under way (UserStore.writeMu, the lock)
    known,                   \* passwords an owner chose or has read
    lastPassword,
    trust,                   \* "full"; "open": a change was left behind unconfirmed; "gone": a power loss
                             \* followed, or a deposed administrator's request took a password file away
    adminBound               \* faults and crashes so far

adminVars == <<adir, maybe, serving, admitted, job, known, lastPassword, trust, adminBound>>

NoJob == [at |-> "none"]
Fields == {"users", "pw", "temp", "sess"}

Tried(bad) ==
    /\ adminBound.faults + (IF bad THEN 1 ELSE 0) <= MaxAdminFaults
    /\ adminBound' = [adminBound EXCEPT !.faults = @ + (IF bad THEN 1 ELSE 0)]

\* A name is replaced, linked or removed; on a failure it is left as it was.
PutName(f, v) ==
    /\ adir' = [adir EXCEPT ![f] = v]
    /\ maybe' = [maybe EXCEPT ![f] = @ \cup {v}]
SyncDir(ok) ==
    /\ Tried(~ok) /\ UNCHANGED adir
    /\ maybe' = IF ok THEN [f \in Fields |-> {adir[f]}] ELSE maybe

\* Of a service's sync it is remembered whether it failed.
Settled(t, ok) == IF t = "gone" THEN t ELSE IF ok THEN "full" ELSE "open"
Confirm(ok) == SyncDir(ok) /\ trust' = Settled(trust, ok)
SettleDir(ok) == SyncDir(ok) /\ trust' = IF ok THEN Settled(trust, TRUE) ELSE trust

Goto(at) == job' = [job EXCEPT !.at = at]
EndJob == job' = NoJob

\* One step: the name is changed and the job goes on, or fails.
Changes(f, v, next, onFailure) ==
    \/ Tried(FALSE) /\ PutName(f, v) /\ Goto(next)
    \/ Tried(TRUE) /\ onFailure /\ UNCHANGED <<adir, maybe>>

-----------------------------------------------------------------------------
(* The contents of the files.                                               *)

Bootstrap(name, pw) == [kind |-> "bootstrap", name |-> name, pw |-> pw]
RecoveryCredential(name, u, pw) ==
    [kind |-> "recovery", name |-> name, pw |-> pw, id |-> u.id, prev |-> u.ver]

\* isEnabledAdmin, enabledAdminCount, hasEnabledAdmin
EnabledAdmins(users) == {n \in Usernames : users[n] # NoUser /\ users[n].admin /\ ~users[n].off}

\* readInitialPasswordFileForUser
FileFor(n) == adir.pw # NoFile /\ adir.pw.name = n

\* classifyAdminRecoveryCredential
ClassifyCredential(users, n, cred) ==
    IF cred.name # n \/ users[n] = NoUser \/ users[n].id # cred.id THEN "conflict"
    ELSE IF users[n].ver = cred.prev /\ users[n].pw # cred.pw THEN "pending"
    ELSE IF users[n].ver = cred.prev + 1 /\ users[n].must /\ users[n].pw = cred.pw THEN "committed"
    ELSE "conflict"

\* bootstrapCredentialMatchesUser
BootstrapMatches(users, n, cred) == cred.name = n /\ users[n].must /\ users[n].pw = cred.pw

\* How the tool continues with the file it finds.
FileState(users, n, cred) ==
    IF cred = NoFile THEN "absent"
    ELSE IF cred.kind = "recovery" THEN ClassifyCredential(users, n, cred)
    ELSE IF BootstrapMatches(users, n, cred) THEN "committed" ELSE "conflict"

\* ValidateAdminRecoveryStartupState: a missing users file is not validated.
NoAccounts == [n \in Usernames |-> NoUser]
StartAllowed(d) ==
    \/ d.users = NoAccounts
    \/ /\ ~d.temp
       /\ d.pw # NoFile /\ d.pw.kind = "recovery"
            => ClassifyCredential(d.users, d.pw.name, d.pw) = "committed"

-----------------------------------------------------------------------------
(* The service.                                                             *)

Account(id, admin, must, ver, pw) ==
    [id |-> id, admin |-> admin, off |-> FALSE, must |-> must, ver |-> ver, pw |-> pw]

\* bootstrapAdminUsername
BootstrapName == IF adir.users[BootName] = NoUser THEN BootName
                 ELSE CHOOSE n \in Usernames : adir.users[n] = NoUser

\* NewUserStore: the daemon starts, with a default administrator if there is none.
StartService ==
    /\ job = NoJob /\ ~serving /\ StartAllowed(adir)
    /\ IF EnabledAdmins(adir.users) # {}
       THEN serving' = TRUE /\ UNCHANGED <<job, lastPassword>>
       ELSE /\ lastPassword < MaxPasswords /\ lastPassword' = lastPassword + 1
            /\ \E n \in Usernames : n = BootstrapName /\ adir.users[n] = NoUser
                    /\ job' = [at |-> "bootPassword", name |-> n]
            /\ UNCHANGED serving
    /\ UNCHANGED <<admitted, adir, maybe, known, trust, adminBound>>

\* createDefaultAdmin: the password file first, then the account.
BootPassword ==
    /\ job.at = "bootPassword"
    /\ Changes("pw", Bootstrap(job.name, lastPassword), "bootPasswordSync", EndJob)
    /\ UNCHANGED <<admitted, serving, known, lastPassword, trust>>
BootPasswordSync ==
    /\ job.at = "bootPasswordSync"
    /\ \E ok \in BOOLEAN : Confirm(ok)
    /\ Goto("bootSave") /\ UNCHANGED <<admitted, serving, known, lastPassword>>
BootSave ==
    /\ job.at = "bootSave"
    /\ Changes("users", [adir.users EXCEPT ![job.name] = Account(lastPassword, TRUE, TRUE, 1, lastPassword)],
               "bootSync", Goto("bootUndo"))
    /\ UNCHANGED <<admitted, serving, known, lastPassword, trust>>
BootSync ==
    /\ job.at = "bootSync"
    /\ \E ok \in BOOLEAN : Confirm(ok)
    /\ EndJob /\ serving' = TRUE /\ UNCHANGED <<admitted, known, lastPassword>>
BootUndo ==
    /\ job.at = "bootUndo" /\ Tried(FALSE) /\ PutName("pw", NoFile) /\ EndJob
    /\ UNCHANGED <<admitted, serving, known, lastPassword, trust>>

\* An administrator logs in, with a password it knows or reads from the file.
Readable(d) == IF d.pw = NoFile THEN {} ELSE {d.pw.pw}
Actors == {n \in EnabledAdmins(adir.users) : adir.users[n].pw \in known \cup Readable(adir)}
Admit(n) ==
    /\ serving /\ n \in Actors \ admitted /\ <<n, adir.users[n].ver>> \in adir.sess
    /\ admitted' = admitted \cup {n}
    /\ UNCHANGED <<adir, maybe, serving, job, known, lastPassword, trust, adminBound>>
LogIn(n) ==
    /\ serving /\ job = NoJob /\ n \in Actors
    /\ known' = known \cup {adir.users[n].pw}
    /\ adir' = [adir EXCEPT !.sess = @ \cup {<<n, adir.users[n].ver>>}] /\ maybe' = [f \in Fields |-> {adir'[f]}]
    /\ trust' = Settled(trust, TRUE)
    /\ UNCHANGED <<admitted, serving, job, lastPassword, adminBound>>

\* The job that replaces the accounts, and the password file it removes before.  RequireAuth
\* let the request in earlier: its administrator need not be one any more.
Mutate(a, kind, n, users, removes, pw) ==
    /\ serving /\ job = NoJob /\ a \in admitted /\ admitted' = admitted \ {a}
    /\ job' = [at |-> IF removes /\ FileFor(n) THEN "remove" ELSE "save", kind |-> kind,
               name |-> n, users |-> users, removed |-> NoFile, pw |-> pw]
    /\ lastPassword' = IF pw = 0 THEN lastPassword ELSE pw
    /\ trust' = IF removes /\ FileFor(n) /\ a \notin Actors THEN "gone" ELSE trust
    /\ UNCHANGED <<adir, maybe, serving, known, adminBound>>

NewPassword == lastPassword < MaxPasswords

\* ChangePassword of the user's own password
ChangeOwnPassword(n) ==
    /\ NewPassword /\ n \in admitted /\ n \in Actors
    /\ Mutate(n, "change", n, [adir.users EXCEPT ![n].pw = lastPassword + 1, ![n].must = FALSE, ![n].ver = @ + 1],
              TRUE, lastPassword + 1)

\* ResetPassword by an administrator, and ResetOwnPassword without a forced change
ResetPassword(a, n) ==
    /\ NewPassword /\ adir.users[n] # NoUser
    /\ Mutate(a, "reset", n, [adir.users EXCEPT ![n].pw = lastPassword + 1, ![n].must = (a # n), ![n].ver = @ + 1],
              TRUE, lastPassword + 1)

LastAdmin(n, users) == n \in EnabledAdmins(adir.users) /\ n \notin EnabledAdmins(users)
                         /\ Cardinality(EnabledAdmins(adir.users)) <= 1

\* Patch of the role or of the status; no administrator gives up its own.
Patch(a, n, admin, off) ==
    /\ adir.users[n] # NoUser /\ (a = n => admin /\ ~off)
    /\ LET users == [adir.users EXCEPT ![n].admin = admin, ![n].off = off]
       IN  users # adir.users /\ ~LastAdmin(n, users) /\ Mutate(a, "patch", n, users, FALSE, 0)

CreateAccount(a, n, admin) ==
    /\ NewPassword /\ adir.users[n] = NoUser
    /\ Mutate(a, "create", n, [adir.users EXCEPT ![n] = Account(lastPassword + 1, admin, FALSE, 1, lastPassword + 1)],
              FALSE, lastPassword + 1)

\* Delete counts the administrators whether the account is enabled or not.
Delete(a, n) ==
    /\ a # n /\ adir.users[n] # NoUser
    /\ adir.users[n].admin => Cardinality(EnabledAdmins(adir.users)) > 1
    /\ Mutate(a, "delete", n, [adir.users EXCEPT ![n] = NoUser], TRUE, 0)

\* removeInitialPasswordFileForUser
RemovePasswordFile ==
    /\ job.at = "remove"
    /\ \/ /\ Tried(FALSE) /\ PutName("pw", NoFile)
          /\ job' = [job EXCEPT !.at = "removeSync", !.removed = adir.pw]
       \/ Tried(TRUE) /\ EndJob /\ UNCHANGED <<adir, maybe>>
    /\ UNCHANGED <<admitted, serving, known, lastPassword, trust>>

\* An unconfirmed removal is a warning, and the end of a deletion.
SyncRemoval ==
    /\ job.at = "removeSync"
    /\ \E ok \in BOOLEAN : Confirm(ok)
                         /\ Goto(IF ~ok /\ job.kind = "delete" THEN "restore" ELSE "save")
    /\ UNCHANGED <<admitted, serving, known, lastPassword>>

\* saveUserState
SaveUsers ==
    /\ job.at = "save"
    /\ Changes("users", job.users, "saveSync", IF job.removed # NoFile THEN Goto("restore") ELSE EndJob)
    /\ known' = known \cup {job.pw} /\ UNCHANGED <<admitted, serving, lastPassword, trust>>
SyncUsers ==
    /\ job.at = "saveSync"
    /\ \E ok \in BOOLEAN : Confirm(ok)
    /\ EndJob /\ UNCHANGED <<admitted, serving, known, lastPassword>>

\* initialPasswordFileRemoval.restore
RestoreFile ==
    /\ job.at = "restore"
    /\ Changes("pw", job.removed, "saveSync", EndJob)
    /\ UNCHANGED <<admitted, serving, known, lastPassword, trust>>

-----------------------------------------------------------------------------
(* The tool: recoverAdminPasswordLocked.                                    *)

RecoverAdmin(n) ==
    /\ ~serving /\ job = NoJob /\ n \in EnabledAdmins(adir.users)
    /\ job' = [at |-> IF adir.temp THEN "clean" ELSE "load", name |-> n]
    /\ UNCHANGED <<admitted, adir, maybe, serving, known, lastPassword, trust, adminBound>>

\* cleanupAdminRecoveryCredentialTempFiles
CleanTemp ==
    /\ job.at = "clean" /\ Changes("temp", FALSE, "cleanSync", EndJob)
    /\ UNCHANGED <<admitted, serving, known, lastPassword, trust>>
SyncClean ==
    /\ job.at = "cleanSync"
    /\ \E ok \in BOOLEAN : SettleDir(ok) /\ IF ok THEN Goto("load") ELSE EndJob
    /\ UNCHANGED <<admitted, serving, known, lastPassword>>

\* loadAdminRecoveryCredential, newAdminRecoveryCredential
LoadCredential ==
    /\ job.at = "load"
    /\ IF adir.pw = NoFile
       THEN NewPassword /\ lastPassword' = lastPassword + 1 /\ Goto("temp")
       ELSE UNCHANGED lastPassword /\ Goto("confirm")
    /\ UNCHANGED <<admitted, adir, maybe, serving, known, trust, adminBound>>

\* writeAdminRecoveryCredentialAtomically: temporary file, link, removal, sync
WriteTemp ==
    /\ job.at = "temp" /\ Changes("temp", TRUE, "link", EndJob)
    /\ UNCHANGED <<admitted, serving, known, lastPassword, trust>>
LinkCredential ==
    /\ job.at = "link"
    /\ \/ /\ Tried(FALSE) /\ Goto("unlink")
          /\ PutName("pw", RecoveryCredential(job.name, adir.users[job.name], lastPassword))
       \/ Tried(TRUE) /\ PutName("temp", FALSE) /\ EndJob
    /\ UNCHANGED <<admitted, serving, known, lastPassword, trust>>
UnlinkTemp ==
    /\ job.at = "unlink" /\ Changes("temp", FALSE, "credentialSync", EndJob)
    /\ UNCHANGED <<admitted, serving, known, lastPassword, trust>>

\* The account is not changed before the credential file is sure to stay.
AfterCredentialSync(ok) == IF ok THEN Goto("confirm") ELSE EndJob
SyncCredential ==
    /\ job.at = "credentialSync"
    /\ \E ok \in BOOLEAN : SettleDir(ok) /\ AfterCredentialSync(ok)
    /\ UNCHANGED <<admitted, serving, known, lastPassword>>

\* confirmAdminRecoveryCredentialDurability, and what the file is for the account
ConfirmCredential ==
    /\ job.at = "confirm"
    /\ \E ok \in BOOLEAN :
        /\ SettleDir(ok)
        /\ LET state == FileState(adir.users, job.name, adir.pw)
           IN  IF ~ok \/ state = "conflict" THEN EndJob ELSE Goto("sessions")
    /\ UNCHANGED <<admitted, serving, known, lastPassword>>

\* revokeAdminRecoverySessions: a failed sync is a warning.
RevokeSessions ==
    /\ job.at = "sessions"
    /\ IF \E x \in adir.sess : x[1] = job.name
       THEN Changes("sess", {x \in adir.sess : x[1] # job.name}, "sessionsSync", EndJob)
       ELSE Goto("account") /\ UNCHANGED <<adir, maybe, adminBound>>
    /\ UNCHANGED <<admitted, serving, known, lastPassword, trust>>
SyncSessions ==
    /\ job.at = "sessionsSync"
    /\ \E ok \in BOOLEAN : SettleDir(ok)
    /\ Goto("account") /\ UNCHANGED <<admitted, serving, known, lastPassword>>

\* The account gets the password in the file, unless it has it.
RecoverAccount ==
    /\ job.at = "account"
    /\ IF FileState(adir.users, job.name, adir.pw) = "committed"
       THEN EndJob /\ UNCHANGED <<adir, maybe, adminBound>>
       ELSE Changes("users", [adir.users EXCEPT ![job.name].pw = adir.pw.pw, ![job.name].must = TRUE,
                                                ![job.name].ver = @ + 1], "accountSync", EndJob)
    /\ UNCHANGED <<admitted, serving, known, lastPassword, trust>>
SyncAccount ==
    /\ job.at = "accountSync"
    /\ \E ok \in BOOLEAN : SettleDir(ok)
    /\ EndJob /\ UNCHANGED <<admitted, serving, known, lastPassword>>

-----------------------------------------------------------------------------

Survivors == [users : maybe.users, pw : maybe.pw, temp : maybe.temp, sess : maybe.sess]

\* Service or tool is stopped; a power loss undoes what was not synced.
AdminStop(d) ==
    /\ adminBound.crashes < MaxAdminCrashes
    /\ adminBound' = [adminBound EXCEPT !.crashes = @ + 1]
    /\ serving' = FALSE /\ admitted' = {} /\ job' = NoJob
    /\ adir' = d /\ UNCHANGED <<known, lastPassword>>
AdminKilled ==
    /\ serving \/ job # NoJob
    /\ AdminStop(adir) /\ UNCHANGED maybe
    /\ trust' = IF Survivors = {adir} THEN trust ELSE Settled(trust, FALSE)

AdminPowerLoss ==
    /\ \E d \in Survivors : AdminStop(d) /\ maybe' = [f \in Fields |-> {d[f]}]
    /\ trust' = IF trust = "open" THEN "gone" ELSE trust

AdminInit ==
    /\ \/ adir = [users |-> NoAccounts, pw |-> NoFile, temp |-> FALSE, sess |-> {}]
       \/ adir = [users |-> [NoAccounts EXCEPT ![BootName] = Account(1, TRUE, FALSE, 1, 1)],
                  pw |-> NoFile, temp |-> FALSE, sess |-> {}]
    /\ maybe = [f \in Fields |-> {adir[f]}]
    /\ serving = FALSE /\ admitted = {} /\ job = NoJob /\ known = {1} /\ lastPassword = 1 /\ trust = "full"
    /\ adminBound = [faults |-> 0, crashes |-> 0]

ServiceStep ==
    \/ StartService \/ BootPassword \/ BootPasswordSync \/ BootSave \/ BootSync \/ BootUndo
    \/ \E n \in Usernames : LogIn(n) \/ Admit(n) \/ ChangeOwnPassword(n)
    \/ \E a, n \in Usernames :
        \/ ResetPassword(a, n) \/ Delete(a, n)
        \/ \E admin \in BOOLEAN : CreateAccount(a, n, admin) \/ \E off \in BOOLEAN : Patch(a, n, admin, off)
    \/ RemovePasswordFile \/ SyncRemoval \/ SaveUsers \/ SyncUsers \/ RestoreFile
ToolStep ==
    \/ \E n \in Usernames : RecoverAdmin(n)
    \/ CleanTemp \/ SyncClean \/ LoadCredential \/ WriteTemp \/ LinkCredential \/ UnlinkTemp
    \/ SyncCredential \/ ConfirmCredential \/ RevokeSessions \/ SyncSessions
    \/ RecoverAccount \/ SyncAccount

AdminNext == ServiceStep \/ ToolStep \/ AdminKilled \/ AdminPowerLoss

-----------------------------------------------------------------------------

\* What d needs for someone to get in: the service starts and an
\* administrator's password is known or in the file, or the tool goes on for
\* an administrator, or the service creates the first one.
LogsIn(d) == \E n \in EnabledAdmins(d.users) : d.users[n].pw \in known \cup Readable(d)
ToolGoesOn(d) == \E n \in EnabledAdmins(d.users) : FileState(d.users, n, d.pw) # "conflict"

\* The service always has an enabled administrator, whatever requests meet.
\* Wherever service, tool or power stop, an administrator can get in: the
\* account file never holds a password that is neither known nor in the
\* password file when the service starts, and the tool can finish what keeps
\* the service from starting (createDefaultAdmin, ChangePassword,
\* recoverAdminPasswordLocked).  Two things may break the second part: a power
\* loss while a change is left behind whose sync failed or was never reached,
\* and the removal of a password file by a request whose administrator was
\* deleted, demoted or given another password while the request waited.
AdminReachable ==
    /\ serving /\ job = NoJob => EnabledAdmins(adir.users) # {}
    /\ trust = "full" => \A d \in Survivors \cup {adir} :
            IF StartAllowed(d) THEN EnabledAdmins(d.users) = {} \/ LogsIn(d) ELSE ToolGoesOn(d)
=============================================================================
