---------------------------- MODULE AuthSessions ----------------------------
(***************************************************************************)
(* Login sessions (internal/auth): the registry of sessions in memory and  *)
(* in auth-sessions.json, token pairs and the rotation of refresh tokens,  *)
(* the account changes that end sessions, and the restart time floor that  *)
(* keeps time from running back when the wall clock is set back.           *)
(*                                                                         *)
(* A token is the record of its claims.  A password is abstracted to the   *)
(* credential version it belongs to.  Time is counted in units longer than *)
(* the validation leeway of one second.                                    *)
(***************************************************************************)
EXTENDS Integers, FiniteSets, FiniteSetsExt

CONSTANTS
    Accounts, SessionIds,
    AuthCalls,           \* requests that may be under way together
    NoSession,
    AccessTTL, RefreshTTL, RotationInterval,
    LeaseTime, LeaseLead,
    SessionLimit, UserSessionLimit,
    MaxTime, MaxSetbacks, MaxAuthFaults, MaxAuthCrashes, MaxVersion,
    MaxAuthOps           \* bounds

\* What the registry has of a session: its user, its end, the generation of the
\* refresh token it takes next and the time of its last rotation.
SessionRecords == [user : Accounts, exp : Int, next : Nat, rot : Int]

\* Durations are numbers and the absent session is no record.
ASSUME AuthAssumption ==
    /\ RefreshTTL \in Nat /\ AccessTTL \in Nat /\ LeaseTime \in Nat /\ LeaseLead \in Nat
    /\ RotationInterval \in Nat
    /\ NoSession \notin SessionRecords

VARIABLES
    wall, since,         \* the wall clock; time since the high water was observed
    tm,                  \* TokenManager: registry, restart floor, time high water
    sessFile, sessKept,  \* auth-sessions.json, and as a power loss may leave it
    accts,               \* UserStore.users
    acctFile, acctKept,  \* users.json, and as a power loss may leave it
    issued,              \* pairs the clients were given
    call,                \* requests under way
    adminCall,           \* an account change whose sessions are still to be revoked
    authUp,
    seen,                \* the latest time an answer was based on
    ended,               \* sessions whose end was answered
    staleVer,            \* per account, credential versions up to it are no longer good
    stranded,            \* sessions whose client was not told of its last rotation
    undone,              \* sessions of which a power loss undid an unsynced write
    authBound,           \* faults, crashes and clock setbacks so far
    authOps              \* requests so far

clockVars == <<wall, since>>
sessVars == <<tm, sessFile, sessKept>>
acctVars == <<accts, acctFile, acctKept>>
endVars == <<ended, staleVer, stranded, undone>>
authHist == <<issued, seen, endVars>>
authVars == <<clockVars, sessVars, acctVars, call, adminCall, authUp, authHist, authBound, authOps>>

Resting == [at |-> "idle"]
NoChange == [at |-> "idle"]
Saves == {"ok", "lag", "fail"}        \* written; directory sync failed; not written

Counted1(b) == IF b THEN 1 ELSE 0
Trouble(o) ==
    /\ authBound.faults + Counted1(o # "ok") <= MaxAuthFaults
    /\ authBound' = [authBound EXCEPT !.faults = @ + Counted1(o # "ok")]

-----------------------------------------------------------------------------
(* The token manager.                                                       *)

\* effectiveNowLocked
EffectiveNow == Max({tm.high + since, wall})
Clocked == [tm EXCEPT !.high = EffectiveNow]

Live(rec, now) == rec # NoSession /\ rec.exp > now
CleanupExpired(t) ==
    [t EXCEPT !.reg = [s \in SessionIds |-> IF Live(t.reg[s], t.high) THEN t.reg[s] ELSE NoSession]]
ExtendLease(t) == [t EXCEPT !.floor = Max({@, t.high + LeaseTime})]

Image(t) == [reg |-> t.reg, floor |-> t.floor]

\* persistSessionStateLocked: a failure before the rename is undone in memory,
\* a failed directory sync is not.
PersistSessions(undo, t, o) ==
    /\ Trouble(o) /\ since' = 0
    /\ tm' = IF o = "fail" THEN undo ELSE t
    /\ sessFile' = IF o = "fail" THEN sessFile ELSE Image(t)
    /\ sessKept' = IF o = "ok" THEN Image(t) ELSE sessKept

\* prepareValidationTime: no answer depends on a time that is not below the
\* floor in the file.
LeaseFresh == EffectiveNow + LeaseLead < tm.floor
Prepare(o) ==
    IF LeaseFresh
    THEN /\ o = "ok" /\ tm' = Clocked /\ since' = 0
         /\ UNCHANGED <<sessFile, sessKept, authBound>>
    ELSE PersistSessions(Clocked, ExtendLease(CleanupExpired(Clocked)), o)
Prepared(o) == LeaseFresh \/ o # "fail" \/ EffectiveNow < tm.floor

\* signTokenPair
Pair(u, s, exp, gen, ver, now) ==
    [user |-> u, sid |-> s, exp |-> exp, gen |-> gen, ver |-> ver,
     nbf |-> now, aexp |-> Min({now + AccessTTL, exp})]

\* The record of a token's session, when the claims agree with it.
Tracked(t, tok) ==
    /\ t.reg[tok.sid] # NoSession
    /\ t.reg[tok.sid].user = tok.user /\ t.reg[tok.sid].exp = tok.exp
    /\ t.reg[tok.sid].exp > t.high

\* ValidateAccessToken and validateRefreshTokenClaims
ValidAccess(t, tok) == tok.nbf <= t.high /\ t.high < tok.aexp /\ Tracked(t, tok)
InTime(t, tok) == tok.nbf <= t.high /\ t.high < tok.exp
ValidFamily(t, tok) == InTime(t, tok) /\ Tracked(t, tok)
ValidRefresh(t, tok) == ValidFamily(t, tok) /\ tok.gen = t.reg[tok.sid].next
ReusedRefresh(t, tok) == ValidFamily(t, tok) /\ tok.gen < t.reg[tok.sid].next

-----------------------------------------------------------------------------
(* Accounts.                                                                *)

\* RequireAuth: the account of a token exists, is enabled and has the
\* credential version of the token.
HasAccount(u) == accts[u] # NoSession
SameCredential(tok) == HasAccount(tok.user) /\ accts[tok.user].ver = tok.ver
Enabled(u) == HasAccount(u) /\ ~accts[u].off

\* saveUserState and commitSnapshot, or commitSnapshotOnPersistenceWarning.
CommitUsers(new, o) ==
    /\ Trouble(o)
    /\ accts' = IF o = "fail" THEN accts ELSE new
    /\ acctFile' = IF o = "fail" THEN acctFile ELSE new
    /\ acctKept' = IF o = "ok" THEN new ELSE acctKept

Accepts(kind, tok) ==
    /\ Enabled(tok.user) /\ SameCredential(tok)
    /\ IF kind = "access" THEN ValidAccess(Clocked, tok) ELSE ValidRefresh(Clocked, tok)

OfSession(s) == {tok \in issued : tok.sid = s}

-----------------------------------------------------------------------------
(* Requests.                                                                *)

Free(r) == authUp /\ call[r] = Resting
Answer(r) == call' = [call EXCEPT ![r] = Resting]
Proceed(r, c) == call' = [call EXCEPT ![r] = c]

\* HandleLogin: Authenticate compares the password and saves the login time.
Authenticate(r) ==
    /\ Free(r)
    /\ \E u \in Accounts, o \in Saves :
        /\ Enabled(u)
        /\ CommitUsers(accts, o)
        /\ IF o = "fail" THEN UNCHANGED call
           ELSE Proceed(r, [at |-> "login", user |-> u, ver |-> accts[u].ver])
    /\ UNCHANGED <<clockVars, sessVars, adminCall, authUp, authHist>>

Sessions(t) == {s \in SessionIds : t.reg[s] # NoSession}
SessionsOf(t, u) == {s \in Sessions(t) : t.reg[s].user = u}

\* generateUniqueSessionIDLocked: random ids are as good as one another.
FreshId == CHOOSE s \in SessionIds : OfSession(s) = {}

\* GenerateTokenPair for the account as it was authenticated.
GenerateTokenPair(r) ==
    /\ authUp /\ call[r].at = "login"
    /\ LET t == CleanupExpired(Clocked)
           exp == t.high + RefreshTTL
       IN  IF \/ Cardinality(Sessions(t)) >= SessionLimit
              \/ Cardinality(SessionsOf(t, call[r].user)) >= UserSessionLimit
           THEN /\ tm' = Clocked /\ since' = 0
                /\ UNCHANGED <<sessFile, sessKept, authBound, issued>>
           ELSE \E s \in SessionIds, o \in Saves :
                /\ OfSession(s) = {} /\ s = FreshId
                /\ LET rec == [user |-> call[r].user, exp |-> exp, next |-> 0,
                               rot |-> t.high - RotationInterval]
                   IN  PersistSessions(Clocked, ExtendLease([t EXCEPT !.reg[s] = rec]), o)
                /\ issued' = IF o = "fail" THEN issued
                             ELSE issued \cup {Pair(call[r].user, s, exp, 0, call[r].ver, t.high)}
    /\ Answer(r)
    /\ UNCHANGED <<wall, acctVars, adminCall, authUp, seen, endVars>>

\* Every answer of a validation is based on the time it was prepared with.
Witnessed(o) == seen' = IF Prepared(o) THEN Max({seen, EffectiveNow}) ELSE seen

\* RequireAuth: the session of an access token is validated.
RequireAuth ==
    /\ authUp
    /\ \E o \in Saves : Prepare(o) /\ Witnessed(o)
    /\ UNCHANGED <<wall, acctVars, call, adminCall, authUp, issued, endVars>>

\* HandleRefresh, first step: validateRefreshTokenCandidates.
RefreshValidate(r, tok) ==
    /\ Free(r)
    /\ \E o \in Saves :
        /\ Prepare(o) /\ Witnessed(o)
        /\ IF Prepared(o) /\ ValidRefresh(tm', tok)
           THEN Proceed(r, [at |-> "lookup", tok |-> tok])
           ELSE IF Prepared(o) /\ ReusedRefresh(tm', tok)
           THEN Proceed(r, [at |-> "reuse", tok |-> tok]) ELSE UNCHANGED call
    /\ UNCHANGED <<wall, acctVars, adminCall, authUp, issued, endVars>>

\* The account is looked up and compared with the claims.
RefreshLookup(r) ==
    /\ authUp /\ call[r].at = "lookup"
    /\ LET tok == call[r].tok
       IN  IF Enabled(tok.user) /\ SameCredential(tok)
           THEN Proceed(r, [at |-> "pair", tok |-> tok]) ELSE Answer(r)
    /\ UNCHANGED <<clockVars, sessVars, acctVars, adminCall, authUp, authHist, authBound>>

\* handleRefreshPairGenerationError: another request may have rotated the token.
PairFailed(r, tok) ==
    IF ReusedRefresh(tm', tok) THEN Proceed(r, [at |-> "reuse", tok |-> tok]) ELSE Answer(r)

\* generateTokenPairForSession for the generation after the token's.
RefreshPair(r) ==
    /\ authUp /\ call[r].at = "pair"
    /\ \E o \in Saves :
        /\ Prepare(o) /\ Witnessed(o)
        /\ LET tok == call[r].tok
               now == tm'.high
           IN  IF ~Prepared(o) THEN Answer(r)
               ELSE IF Tracked(tm', tok) /\ tm'.reg[tok.sid].next = tok.gen
               THEN Proceed(r, [at |-> "consume", tok |-> tok,
                                pair |-> Pair(tok.user, tok.sid, tok.exp, tok.gen + 1, tok.ver, now)])
               ELSE PairFailed(r, tok)
    /\ UNCHANGED <<wall, acctVars, adminCall, authUp, issued, endVars>>

\* Variant: a rotation that could not be written stays in memory.
ConsumeKept(t, next, o) == PersistSessions(next, next, o)

\* consumeRefreshTokenClaims: the record is advanced, or put back.
Consume(t, next, o) == PersistSessions(t, next, o)

\* The pair is answered, and may be lost on the way.
RefreshConsume(r) ==
    /\ authUp /\ call[r].at = "consume"
    /\ LET tok == call[r].tok
           t == Clocked
       IN  IF ReusedRefresh(t, tok)
           THEN /\ Proceed(r, [at |-> "reuse", tok |-> tok]) /\ tm' = t /\ since' = 0
                /\ UNCHANGED <<sessFile, sessKept, authBound, authHist>>
           ELSE IF ~ValidRefresh(t, tok) \/ t.high < t.reg[tok.sid].rot + RotationInterval
           THEN /\ Answer(r) /\ tm' = t /\ since' = 0
                /\ UNCHANGED <<sessFile, sessKept, authBound, authHist>>
           ELSE \E o \in Saves, told \in BOOLEAN :
                /\ Consume(t, ExtendLease([t EXCEPT !.reg[tok.sid].next = tok.gen + 1,
                                                    !.reg[tok.sid].rot = t.high]), o)
                /\ o = "fail" => ~told
                /\ issued' = IF told THEN issued \cup {call[r].pair} ELSE issued
                /\ stranded' = IF ~told /\ o # "fail" THEN stranded \cup {tok.sid} ELSE stranded
                /\ Answer(r) /\ UNCHANGED <<seen, ended, staleVer, undone>>
    /\ UNCHANGED <<wall, acctVars, adminCall, authUp>>

\* RevokeSessions and RevokeByUser.  What is removed in memory is refused from
\* now on.
Revoke(gone, o) ==
    LET t == CleanupExpired(Clocked)
        next == [t EXCEPT !.reg = [s \in SessionIds |-> IF s \in gone THEN NoSession ELSE t.reg[s]]]
    IN  IF next.reg = tm.reg
        THEN o = "ok" /\ tm' = Clocked /\ since' = 0 /\ UNCHANGED <<sessFile, sessKept, authBound>>
        ELSE PersistSessions(Clocked, ExtendLease(next), o)
EndOf(gone, o) == ended' = IF o = "fail" THEN ended ELSE ended \cup gone

\* handleRefreshTokenReuse: a token that was rotated away ends its session.
HandleReuse(r) ==
    /\ authUp /\ call[r].at = "reuse"
    /\ \E o \in Saves :
        Revoke({call[r].tok.sid}, o) /\ EndOf({call[r].tok.sid}, o)
    /\ Answer(r)
    /\ UNCHANGED <<wall, acctVars, adminCall, authUp, issued, seen, staleVer, stranded, undone>>

\* HandleLogout: a refresh token that is still in time names its session.
LogoutParse(r, tok) ==
    /\ Free(r)
    /\ \E o \in Saves :
        /\ Prepare(o) /\ Witnessed(o)
        /\ IF Prepared(o) /\ InTime(tm', tok)
           THEN Proceed(r, [at |-> "logout", tok |-> tok]) ELSE UNCHANGED call
    /\ UNCHANGED <<wall, acctVars, adminCall, authUp, issued, endVars>>

Logout(r) ==
    /\ authUp /\ call[r].at = "logout"
    /\ \E o \in Saves :
        Revoke({call[r].tok.sid}, o) /\ EndOf({call[r].tok.sid}, o)
    /\ Answer(r)
    /\ UNCHANGED <<wall, acctVars, adminCall, authUp, issued, seen, staleVer, stranded, undone>>

-----------------------------------------------------------------------------
(* Account changes by an administrator or the user.                         *)

\* The change is committed first; then the sessions of the account are revoked.
ChangeAccount(u, new, revokes) ==
    /\ authUp /\ adminCall = NoChange /\ HasAccount(u)
    /\ \E o \in Saves :
        /\ CommitUsers([accts EXCEPT ![u] = new], o)
        /\ adminCall' = IF revokes /\ o # "fail" THEN [at |-> "revoke", user |-> u] ELSE NoChange
        /\ staleVer' = IF o # "fail" /\ (new = NoSession \/ new.ver # accts[u].ver)
                       THEN [staleVer EXCEPT ![u] = accts[u].ver] ELSE staleVer
    /\ UNCHANGED <<clockVars, sessVars, call, authUp, issued, seen, ended, stranded, undone>>

NewCredential(u) ==
    /\ HasAccount(u) /\ accts[u].ver < MaxVersion
    /\ ChangeAccount(u, [accts[u] EXCEPT !.ver = @ + 1], TRUE)

\* HandleChangePassword and HandleResetUserPassword
ChangePassword(u) == NewCredential(u)
ResetUserPassword(u) == NewCredential(u)

DeleteUser(u) == ChangeAccount(u, NoSession, TRUE)

\* HandleToggleUserStatus
ToggleStatus(u) == HasAccount(u) /\ ChangeAccount(u, [accts[u] EXCEPT !.off = ~@], ~accts[u].off)

\* HandleRevokeUserSessions
RevokeUserSessions(u) ==
    /\ authUp /\ adminCall = NoChange /\ HasAccount(u)
    /\ adminCall' = [at |-> "revoke", user |-> u]
    /\ UNCHANGED <<clockVars, sessVars, acctVars, call, authUp, authHist, authBound>>

\* A failure is only a warning: the change of the account stands.
RevokeByUser ==
    /\ authUp /\ adminCall.at = "revoke"
    /\ LET gone == {s \in SessionIds : tm.reg[s] # NoSession /\ tm.reg[s].user = adminCall.user}
       IN  \E o \in Saves : Revoke(gone, o) /\ EndOf(gone, o)
    /\ adminCall' = NoChange
    /\ UNCHANGED <<wall, acctVars, call, authUp, issued, seen, staleVer, stranded, undone>>

-----------------------------------------------------------------------------
(* Time, crashes and starts.                                                *)

Pass ==
    /\ wall < MaxTime /\ EffectiveNow < MaxTime
    /\ wall' = wall + 1 /\ since' = IF authUp THEN since + 1 ELSE since
    /\ UNCHANGED <<sessVars, acctVars, call, adminCall, authUp, authHist, authBound>>

SetClockBack ==
    /\ authBound.setbacks < MaxSetbacks /\ wall > 0
    /\ wall' = 0 /\ authBound' = [authBound EXCEPT !.setbacks = @ + 1]
    /\ UNCHANGED <<since, sessVars, acctVars, call, adminCall, authUp, authHist>>

Stop ==
    /\ authUp /\ authBound.crashes < MaxAuthCrashes
    /\ authBound' = [authBound EXCEPT !.crashes = @ + 1]
    /\ authUp' = FALSE /\ since' = 0
    /\ tm' = [reg |-> [s \in SessionIds |-> NoSession], floor |-> 0, high |-> 0]
    /\ call' = [r \in AuthCalls |-> Resting] /\ adminCall' = NoChange
    /\ UNCHANGED <<wall, accts, issued>>

AuthKilled == Stop /\ UNCHANGED <<sessFile, sessKept, acctFile, acctKept, seen, endVars>>

\* What was written under a failed directory sync may be gone, and with it
\* what was answered meanwhile.
AuthPowerLoss ==
    /\ Stop
    /\ sessFile' \in {sessFile, sessKept} /\ acctFile' \in {acctFile, acctKept}
    /\ <<sessFile', acctFile'>> # <<sessFile, acctFile>>
    /\ sessKept' = sessFile' /\ acctKept' = acctFile'
    /\ undone' = undone \cup {s \in SessionIds : OfSession(s) # {}}
    /\ seen' = 0 /\ staleVer' = [u \in Accounts |-> 0] /\ UNCHANGED <<ended, stranded>>

\* EnableSessionPersistence
EnableTime == Max({sessFile.floor, wall})

\* loadTokenSessionState
LoadedState == [reg |-> sessFile.reg, floor |-> sessFile.floor, high |-> EnableTime]

EnableSessionPersistence ==
    /\ ~authUp
    /\ accts' = acctFile
    /\ \E o \in Saves :
        /\ PersistSessions(tm, ExtendLease(CleanupExpired(LoadedState)), o)
        /\ authUp' = (o # "fail")
    /\ UNCHANGED <<wall, acctFile, acctKept, call, adminCall, authHist>>

-----------------------------------------------------------------------------

AuthInit ==
    /\ wall = 0 /\ since = 0
    /\ tm = [reg |-> [s \in SessionIds |-> NoSession], floor |-> 0, high |-> 0]
    /\ sessFile = [reg |-> [s \in SessionIds |-> NoSession], floor |-> 0] /\ sessKept = sessFile
    /\ accts = [u \in Accounts |-> [ver |-> 1, off |-> FALSE]] /\ acctFile = accts /\ acctKept = accts
    /\ issued = {} /\ seen = 0 /\ ended = {} /\ stranded = {} /\ undone = {}
    /\ staleVer = [u \in Accounts |-> 0]
    /\ call = [r \in AuthCalls |-> Resting] /\ adminCall = NoChange
    /\ authUp = FALSE /\ authOps = 0 /\ authBound = [faults |-> 0, crashes |-> 0, setbacks |-> 0]

AuthStart ==
    \/ \E r \in AuthCalls :
        Authenticate(r) \/ \E tok \in issued : RefreshValidate(r, tok) \/ LogoutParse(r, tok)
    \/ \E u \in Accounts : ChangePassword(u) \/ ResetUserPassword(u) \/ DeleteUser(u) \/ ToggleStatus(u)
                         \/ RevokeUserSessions(u)
    \/ RequireAuth
AuthStep ==
    \/ \E r \in AuthCalls :
        \/ GenerateTokenPair(r) \/ RefreshLookup(r) \/ RefreshPair(r) \/ RefreshConsume(r)
        \/ HandleReuse(r) \/ Logout(r)
    \/ RevokeByUser
    \/ Pass \/ SetClockBack \/ AuthKilled \/ AuthPowerLoss \/ EnableSessionPersistence

AuthNext ==
    \/ authOps < MaxAuthOps /\ authOps' = authOps + 1 /\ AuthStart
    \/ AuthStep /\ UNCHANGED authOps

AuthSpec == AuthInit /\ [][AuthNext]_authVars

-----------------------------------------------------------------------------

\* Time never runs back behind an answer, so what expired stays expired; a
\* token whose session, password or account was ended is never accepted again,
\* and neither is a refresh token once the client has its successor.
Newest(s) == CHOOSE tok \in OfSession(s) : \A x \in OfSession(s) : x.gen <= tok.gen
RefusedForGood ==
    authUp =>
        /\ seen <= EffectiveNow
        /\ \A tok \in issued : tok.sid \notin undone =>
            /\ tok.sid \in ended \/ tok.ver <= staleVer[tok.user]
                  => ~Accepts("access", tok) /\ ~Accepts("refresh", tok)
            /\ tok.gen < Newest(tok.sid).gen => ~Accepts("refresh", tok)

\* The refresh token a client was given last stays good until its session
\* ends, whatever failed in between.
NewestWorks ==
    authUp => \A s \in SessionIds \ (stranded \cup undone \cup ended) :
        OfSession(s) # {} =>
            LET tok == Newest(s)
            IN  \/ tok.exp <= EffectiveNow \/ ~Enabled(tok.user) \/ ~SameCredential(tok)
                \/ Accepts("refresh", tok)

\* Sessions keep what clients were answered: what was refused stays refused and
\* what was granted stays granted, over concurrent refreshes, failed writes,
\* crashes and clock changes (TokenManager, Handler).
SessionsHonest == RefusedForGood /\ NewestWorks
=============================================================================
