---------------------------- MODULE SessionAccess ----------------------------
(***************************************************************************)
(* How a platform session begins, is checked on every request, and ends:   *)
(* the password login with its throttle, the OAuth callback, logout, and   *)
(* sdk.authenticateRequest.  Time is counted in seconds, the resolution of *)
(* a token's expiry: a token is its user and that second, so two logins    *)
(* within one second get the same token.  Every await is a step of its own *)
(* and handlers interleave; any of them may end where it is.  The server's *)
(* memory (the throttle) is lost in a restart.                             *)
(***************************************************************************)
EXTENDS Integers, FiniteSets

CONSTANTS
    Requests,           \* handlers that can run at the same time
    Users,              \* platform users with a password and a linked identity
    MaxFailures,        \* MAX_FAILURES_PER_WINDOW
    Window,             \* WINDOW_MS
    TTL,                \* SESSION_TTL_MS
    MaxTime             \* bound: the clock

(* The code's limit is 5; with a limit of 1 the first failure, which opens  *)
(* the window, would not block.                                            *)
ASSUME SessionAssumption ==
    /\ IsFiniteSet(Requests)
    /\ MaxFailures \in Nat \ {0, 1} /\ {Window, TTL} \subseteq Nat \ {0}
    /\ MaxTime \in Nat

VARIABLES
    now,                \* the clock
    active,             \* user -> the linked identity is ACTIVE
    failures,           \* failuresByEmail
    issued,             \* the tokens handed out
    sessions,           \* rows of sessions, by token
    req,                \* request -> where its handler is and what it has read
    seen                \* request -> what was true since its token was verified

dataVars == <<active, failures, issued, sessions>>
accessVars == <<now, dataVars, req, seen>>

Tokens == [user : Users, expires : 0 .. MaxTime + TTL]

NoEntry == [count |-> 0, started |-> 0, blockedUntil |-> 0]
NoSession == [tracked |-> FALSE, revoked |-> FALSE, expires |-> 0]
Idle == [pc |-> "idle"]

Init ==
    /\ now = 0
    /\ active = [u \in Users |-> TRUE]
    /\ failures = [u \in Users |-> NoEntry]
    /\ issued = {}
    /\ sessions = [t \in Tokens |-> NoSession]
    /\ req = [r \in Requests |-> Idle]
    /\ seen = [r \in Requests |-> {}]

at(r, pc) == req[r].pc = pc
become(r, h) == req' = [req EXCEPT ![r] = h]
goto(r, pc) == become(r, [req[r] EXCEPT !.pc = pc])
done(r) == become(r, Idle)

fails(r) ==
    /\ ~at(r, "idle")
    /\ done(r)
    /\ UNCHANGED <<now, dataVars>>

---------------------------------------------------------------------------
(* The throttle: synchronous, so each of these is part of a step.          *)
isLoginThrottled(u) == failures[u].blockedUntil > now

(* Mutant: one failure more is let through. *)
recordLoginFailureLate(u) ==
    LET f == failures[u] IN
    failures' = [failures EXCEPT ![u] =
        IF f.count = 0 \/ now - f.started >= Window
        THEN [count |-> 1, started |-> now, blockedUntil |-> 0]
        ELSE [count |-> f.count + 1, started |-> f.started,
              blockedUntil |-> IF f.count >= MaxFailures THEN now + Window ELSE f.blockedUntil]]

(* A window that is over starts again, without the block. *)
recordLoginFailure(u) ==
    LET f == failures[u] IN
    failures' = [failures EXCEPT ![u] =
        IF f.count = 0 \/ now - f.started >= Window
        THEN [count |-> 1, started |-> now, blockedUntil |-> 0]
        ELSE [count |-> f.count + 1, started |-> f.started,
              blockedUntil |-> IF f.count + 1 >= MaxFailures THEN now + Window ELSE f.blockedUntil]]

clearLoginFailures(u) == failures' = [failures EXCEPT ![u] = NoEntry]

---------------------------------------------------------------------------
(* auth.login *)
login(r, u) ==
    /\ at(r, "idle")
    /\ ~isLoginThrottled(u)
    /\ become(r, [pc |-> "verifyPassword", user |-> u])
    /\ UNCHANGED <<now, dataVars>>

loginFailed(r) ==
    /\ at(r, "verifyPassword")
    /\ recordLoginFailure(req[r].user)
    /\ done(r)
    /\ UNCHANGED <<now, active, issued, sessions>>

(* createSessionToken: the expiry is all that tells two tokens apart.      *)
createSessionToken(u) == [user |-> u, expires |-> now + TTL]

loginSucceeded(r) ==
    /\ at(r, "verifyPassword")
    /\ clearLoginFailures(req[r].user)
    /\ become(r, [pc |-> "trackPlatformSession", token |-> createSessionToken(req[r].user)])
    /\ UNCHANGED <<now, active, issued, sessions>>

(* The OAuth callback, after the portal has answered. *)
oauthCallback(r, u) ==
    /\ at(r, "idle")
    /\ become(r, [pc |-> "trackPlatformSession", token |-> createSessionToken(u)])
    /\ UNCHANGED <<now, dataVars>>

(* The row of the same token is taken over, and no longer revoked; a       *)
(* failure is logged and the token handed out untracked.                   *)
trackPlatformSession(r) ==
    LET t == req[r].token IN
    /\ at(r, "trackPlatformSession")
    /\ \/ sessions' = [sessions EXCEPT ![t] = [tracked |-> TRUE, revoked |-> FALSE, expires |-> now + TTL]]
       \/ UNCHANGED sessions
    /\ issued' = issued \cup {t}
    /\ done(r)
    /\ UNCHANGED <<now, active, failures>>

(* auth.logout answers at once; the revocation is carried out later. *)
logout(r, t) ==
    /\ at(r, "idle")
    /\ become(r, [pc |-> "revokePlatformSession", token |-> t])
    /\ UNCHANGED <<now, dataVars>>

revokePlatformSession(r) ==
    LET t == req[r].token IN
    /\ at(r, "revokePlatformSession")
    /\ sessions[t].tracked
    /\ sessions' = [sessions EXCEPT ![t].revoked = TRUE]
    /\ done(r)
    /\ UNCHANGED <<now, active, failures, issued>>

---------------------------------------------------------------------------
(* sdk.authenticateRequest: the token's own expiry, the tracked session,   *)
(* the user, the status of the linked identity.                            *)
verifySession(r, t) ==
    /\ at(r, "idle")
    /\ now < t.expires
    /\ become(r, [pc |-> "classifyPlatformSession", token |-> t, looked |-> FALSE])
    /\ UNCHANGED <<now, dataVars>>

(* Mutant: an expiry is looked at, a revocation is not. *)
classifyPlatformSessionExpiry(r) ==
    LET s == sessions[req[r].token] IN
    /\ at(r, "classifyPlatformSession")
    /\ s.tracked => now < s.expires
    /\ become(r, [req[r] EXCEPT !.pc = "identityStatus", !.looked = TRUE])
    /\ UNCHANGED <<now, dataVars>>

classifyPlatformSession(r) ==
    LET s == sessions[req[r].token] IN
    /\ at(r, "classifyPlatformSession")
    /\ s.tracked => ~s.revoked /\ now < s.expires
    /\ become(r, [req[r] EXCEPT !.pc = "identityStatus", !.looked = TRUE])
    /\ UNCHANGED <<now, dataVars>>

(* A lookup that fails counts as an untracked session. *)
classifyFailed(r) ==
    /\ at(r, "classifyPlatformSession")
    /\ goto(r, "identityStatus")
    /\ UNCHANGED <<now, dataVars>>

(* Unlike that lookup, this one fails closed. *)
identityStatus(r) ==
    /\ at(r, "identityStatus")
    /\ active[req[r].token.user]
    /\ goto(r, "admitted")
    /\ UNCHANGED <<now, dataVars>>

---------------------------------------------------------------------------
(* Around the handlers: the identity's status, the clock, a restart.       *)
identityChanges(u) ==
    /\ active' = [active EXCEPT ![u] = ~@]
    /\ UNCHANGED <<now, failures, issued, sessions, req>>

tick ==
    /\ now < MaxTime
    /\ now' = now + 1
    /\ UNCHANGED <<dataVars, req>>

restart ==
    /\ failures' = [u \in Users |-> NoEntry]
    /\ req' = [r \in Requests |-> Idle]
    /\ UNCHANGED <<now, active, issued, sessions>>

LoginStep(r) ==
    \/ \E u \in Users : login(r, u) \/ oauthCallback(r, u)
    \/ loginFailed(r) \/ loginSucceeded(r) \/ trackPlatformSession(r)
    \/ \E t \in issued : logout(r, t)
    \/ revokePlatformSession(r)

AuthenticateStep(r) ==
    \/ \E t \in issued : verifySession(r, t)
    \/ classifyPlatformSession(r) \/ classifyFailed(r) \/ identityStatus(r)

(* History: what held at some moment since the token was verified. *)
authenticating(r) == req[r].pc \in {"classifyPlatformSession", "identityStatus", "admitted"}
facts(t) ==
    (IF sessions[t].tracked => ~sessions[t].revoked /\ now < sessions[t].expires
       THEN {"session"} ELSE {})
    \cup (IF active[t.user] THEN {"identity"} ELSE {})

observe ==
    seen' = [r \in Requests |->
                IF authenticating(r)' THEN seen[r] \cup facts(req[r].token)' ELSE {}]

Next ==
    /\ \/ \E r \in Requests : LoginStep(r) \/ AuthenticateStep(r) \/ fails(r)
       \/ \E u \in Users : identityChanges(u)
       \/ tick \/ restart
    /\ observe

Spec == Init /\ [][Next]_accessVars

---------------------------------------------------------------------------
(* A request is admitted with a tracked session only if that session was   *)
(* neither revoked nor expired, and the identity was active, at some       *)
(* moment since the request came in: a logout or a suspension that was     *)
(* complete before counts, whatever ran at the same time.  Only a lookup   *)
(* that failed is excused.                                                 *)
AdmittedSessionWasLive ==
    \A r \in Requests :
        at(r, "admitted") =>
            /\ "identity" \in seen[r]
            /\ req[r].looked => "session" \in seen[r]

(* However the attempts overlap, no account sees more failures in a row    *)
(* than the limit and the attempts that were already under way when it was *)
(* reached.                                                                *)
FailuresBounded ==
    \A u \in Users : failures[u].count <= MaxFailures + Cardinality(Requests) - 1

=============================================================================
