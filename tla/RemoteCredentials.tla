------------------------- MODULE RemoteCredentials --------------------------
(***************************************************************************)
(* The credential file of a restic or rclone job (internal/backup).  Every *)
(* result carries a binding, the digest of the job and of the credential   *)
(* file; the command runs on a private copy of the file; readiness counts  *)
(* a result only for the file that is there now.  The owner may replace or *)
(* edit the file at any time, also back to what it was.                    *)
(*                                                                         *)
(* A binding is abstracted to the credential it was computed from: the     *)
(* other inputs of a job do not change while the manager runs.             *)
(***************************************************************************)
EXTENDS Naturals

CONSTANTS
    Credentials,   \* contents of the credential file
    Mangled,       \* what reading a file while it is edited yields
    NoBinding,
    MaxRuns,       \* bound: runs of the job
    MaxRotations   \* bound: changes of the file

VARIABLES
    credential,    \* the file: content c and change token t
    remoteRun,     \* the run under way
    lastResult,    \* Manager.state: the last completed run
    runsDone, rotations

credentialVars == <<credential, remoteRun, lastResult, runsDone, rotations>>

NotRunning == [at |-> "idle"]
NoRun == [binding |-> NoBinding, used |-> NoBinding]

\* jobConfigEvidenceBindingContext: the file is read in one piece or refused.
BindingNow == credential.c

\* The run records the binding it starts with.
BeginRemote ==
    /\ remoteRun = NotRunning /\ runsDone < MaxRuns
    /\ runsDone' = runsDone + 1
    /\ remoteRun' = [at |-> "begun", binding |-> BindingNow, copy |-> NoBinding,
                     token |-> credential.t, used |-> NoBinding]
    /\ UNCHANGED <<credential, lastResult, rotations>>

\* copyCredentialSnapshot opens the file and notes its change token.
OpenCredential ==
    /\ remoteRun.at = "begun"
    /\ remoteRun' = [remoteRun EXCEPT !.at = "copying", !.token = credential.t,
                                      !.copy = credential.c]
    /\ UNCHANGED <<credential, lastResult, runsDone, rotations>>

\* A file that changed under the copy is refused, and so is a copy that does
\* not have the credential the run was bound to.
CopyAccepted(run) ==
    run.token = credential.t /\ run.copy = run.binding

CopyCredential ==
    /\ remoteRun.at = "copying"
    /\ \E read \in {remoteRun.copy, credential.c}
                   \cup (IF remoteRun.token # credential.t THEN {Mangled} ELSE {}) :
        LET run == [remoteRun EXCEPT !.copy = read]
        IN  remoteRun' = IF CopyAccepted(run) THEN [run EXCEPT !.at = "ready"] ELSE NotRunning
    /\ UNCHANGED <<credential, lastResult, runsDone, rotations>>

\* Variant: the command is pointed at the configured file.
RunCommandInPlace ==
    /\ remoteRun.at = "ready"
    /\ \/ remoteRun' = [remoteRun EXCEPT !.at = "ran", !.used = credential.c]
       \/ remoteRun' = NotRunning
    /\ UNCHANGED <<credential, lastResult, runsDone, rotations>>

\* runExternalCommand with the private copy, which it may not modify.
RunCommand ==
    /\ remoteRun.at = "ready"
    /\ \/ remoteRun' = [remoteRun EXCEPT !.at = "ran", !.used = remoteRun.copy]
       \/ remoteRun' = NotRunning
    /\ UNCHANGED <<credential, lastResult, runsDone, rotations>>

\* ensureJobConfigEvidenceUnchanged, then the result is recorded.
FinishRemote ==
    /\ remoteRun.at = "ran"
    /\ lastResult' = IF BindingNow = remoteRun.binding
                     THEN [binding |-> remoteRun.binding, used |-> remoteRun.used]
                     ELSE lastResult
    /\ remoteRun' = NotRunning
    /\ UNCHANGED <<credential, runsDone, rotations>>

\* The owner changes the file.
Rotate ==
    /\ rotations < MaxRotations /\ rotations' = rotations + 1
    /\ \E c \in Credentials \ {credential.c} :
        credential' = [c |-> c, t |-> credential.t + 1]
    /\ UNCHANGED <<remoteRun, lastResult, runsDone>>

\* readinessEvidenceBindingMatchesJob
CountsAsBackup == lastResult.binding # NoBinding /\ lastResult.binding = BindingNow

CredentialInit ==
    /\ credential = [c |-> CHOOSE c \in Credentials : TRUE, t |-> 0]
    /\ remoteRun = NotRunning /\ lastResult = NoRun /\ runsDone = 0 /\ rotations = 0

CredentialNext ==
    BeginRemote \/ OpenCredential \/ CopyCredential \/ RunCommand \/ FinishRemote \/ Rotate

CredentialSpec == CredentialInit /\ [][CredentialNext]_credentialVars

\* What readiness counts as a backup was made with the credential that the
\* job has now, also when the file was changed and changed back while the
\* command ran (withJobCredentialSnapshot, readinessRunBindingMatchesJob).
BoundEvidence == CountsAsBackup => lastResult.used = credential.c
=============================================================================
