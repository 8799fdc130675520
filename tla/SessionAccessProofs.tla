------------------------ MODULE SessionAccessProofs ------------------------
(***************************************************************************)
(* Proofs about sessions and the login throttle, for any number of         *)
(* handlers and users, any limit above one, window, token life and bound   *)
(* of the clock.                                                           *)
(***************************************************************************)
EXTENDS SessionAccess, FiniteSetTheorems, TLAPS

Authenticating == {"classifyPlatformSession", "identityStatus", "admitted"}

(* The handlers of one form each; their tokens may be any.                 *)
Handler(h) ==
    \/ h \in [pc : {"idle"}]
    \/ h \in [pc : {"verifyPassword"}, user : Users]
    \/ h \in [pc : {"trackPlatformSession", "revokePlatformSession"}, token : {h.token}]
    \/ h \in [pc : Authenticating, token : {h.token}, looked : BOOLEAN]

TypeInv ==
    /\ now \in Nat
    /\ failures \in [Users -> [count : Nat, started : Nat, blockedUntil : Nat]]
    /\ req = [r \in Requests |-> req[r]]
    /\ \A r \in Requests : Handler(req[r])

(* The attempts on one account that wait for their password comparison.    *)
InFlight(u) == {r \in Requests : req[r].pc = "verifyPassword" /\ req[r].user = u}

(* While the window runs, the attempts under way are part of the bound: a  *)
(* full window has a block that lasts as long as itself, so that nobody    *)
(* joins them.                                                             *)
Bounded(u) ==
    LET f == failures[u] IN
    /\ f.started <= now
    /\ f.count <= MaxFailures + Cardinality(Requests) - 1
    /\ f.count >= MaxFailures => f.blockedUntil >= f.started + Window
    /\ f.count # 0 /\ now - f.started < Window =>
          f.count + Cardinality(InFlight(u)) <= MaxFailures + Cardinality(Requests) - 1

ThrottleInv == TypeInv /\ \A u \in Users : Bounded(u)

(* A handler that has looked its session up saw it live, and one that was  *)
(* admitted saw the identity active.                                       *)
Looked(h, facts_seen) ==
    /\ h.pc = "classifyPlatformSession" => h.looked = FALSE
    /\ h.pc \in {"identityStatus", "admitted"} /\ h.looked => "session" \in facts_seen
    /\ h.pc = "admitted" => "identity" \in facts_seen

SessionInv == \A r \in Requests : Looked(req[r], seen[r])

---------------------------------------------------------------------------
LEMMA InFlightCardinality ==
    ASSUME NEW u
    PROVE  /\ IsFiniteSet(InFlight(u)) /\ Cardinality(InFlight(u)) \in Nat
           /\ Cardinality(Requests) \in Nat
           /\ Cardinality(InFlight(u)) <= Cardinality(Requests)
<1>1. IsFiniteSet(Requests) /\ InFlight(u) \in SUBSET Requests
  BY SessionAssumption DEF InFlight
<1> QED
  BY <1>1, FS_Subset, FS_CardinalityType

LEMMA InitThrottle == Init => ThrottleInv
<1> SUFFICES ASSUME Init PROVE ThrottleInv
  OBVIOUS
<1>1. TypeInv
  BY DEF Init, TypeInv, Handler, Idle, NoEntry
<1>2. ASSUME NEW u \in Users PROVE Bounded(u)
  BY SessionAssumption, InFlightCardinality DEF Init, Bounded, NoEntry
<1> QED
  BY <1>1, <1>2 DEF ThrottleInv

(* What a step does to the handlers: it moves one of them.                 *)
LEMMA TypesKeep ==
    ASSUME TypeInv, NEW r \in Requests, NEW h, become(r, h), Handler(h),
           now' = now, failures' \in [Users -> [count : Nat, started : Nat, blockedUntil : Nat]]
    PROVE  /\ TypeInv'
           /\ req'[r] = h /\ \A s \in Requests \ {r} : req'[s] = req[s]
<1>1. req' = [req EXCEPT ![r] = h] /\ req = [s \in Requests |-> req[s]]
  BY DEF become, TypeInv
<1>2. req'[r] = h /\ \A s \in Requests \ {r} : req'[s] = req[s]
  BY <1>1
<1>3. req' = [s \in Requests |-> req'[s]]
  BY <1>1
<1>4. \A s \in Requests : Handler(req'[s])
  BY <1>2 DEF TypeInv
<1> QED
  BY <1>2, <1>3, <1>4 DEF TypeInv, Handler

(* Nothing happens to an account while its failures stay, nobody joins the *)
(* attempts and time goes on.                                              *)
LEMMA QuietKeeps ==
    ASSUME ThrottleInv, TypeInv', NEW u \in Users, failures'[u] = failures[u], now' >= now,
           InFlight(u)' \subseteq InFlight(u)
    PROVE  Bounded(u)'
<1>1. /\ failures[u] \in [count : Nat, started : Nat, blockedUntil : Nat]
      /\ now \in Nat /\ now' \in Nat
  BY DEF ThrottleInv, TypeInv
<1>2. Cardinality(InFlight(u)') <= Cardinality(InFlight(u))
  BY InFlightCardinality, FS_Subset
<1>3. Cardinality(InFlight(u)') \in Nat
  BY InFlightCardinality, FS_Subset, FS_CardinalityType
<1>4. Bounded(u)
  BY DEF ThrottleInv
<1>5. Cardinality(InFlight(u)) \in Nat /\ Cardinality(Requests) \in Nat
  BY InFlightCardinality
<1> QED
  BY <1>1, <1>2, <1>3, <1>4, <1>5, SessionAssumption DEF Bounded

(* Every step of a handler but login, and its two ends, leaves the         *)
(* throttle alone.                                                         *)
LEMMA HandlerKeeps ==
    ASSUME ThrottleInv, NEW r \in Requests, NEW h, become(r, h), Handler(h),
           h.pc # "verifyPassword", UNCHANGED <<now, failures>>
    PROVE  ThrottleInv'
<1>1. /\ TypeInv' /\ req'[r] = h
      /\ \A s \in Requests \ {r} : req'[s] = req[s]
  BY TypesKeep DEF ThrottleInv, TypeInv
<1>2. ASSUME NEW u \in Users PROVE Bounded(u)'
  <2>1. InFlight(u)' \subseteq InFlight(u)
    BY <1>1 DEF InFlight
  <2> QED
    BY <1>1, <2>1, QuietKeeps DEF ThrottleInv, TypeInv
<1> QED
  BY <1>1, <1>2 DEF ThrottleInv

LEMMA LoginKeeps ==
    ASSUME ThrottleInv, NEW r \in Requests, NEW u \in Users, login(r, u)
    PROVE  ThrottleInv'
<1> DEFINE h == [pc |-> "verifyPassword", user |-> u]
<1>1. /\ TypeInv' /\ req'[r] = h
      /\ \A s \in Requests \ {r} : req'[s] = req[s]
  <2>1. Handler(h)
    BY DEF Handler
  <2> QED
    BY <2>1, TypesKeep DEF login, ThrottleInv, TypeInv, dataVars
<1>2. ASSUME NEW v \in Users, v # u PROVE Bounded(v)'
  <2>1. InFlight(v)' \subseteq InFlight(v)
    BY <1>1, <1>2 DEF InFlight
  <2> QED
    BY <1>1, <2>1, QuietKeeps DEF login, dataVars, ThrottleInv, TypeInv
<1>3. Bounded(u)'
  <2>1. /\ failures[u] \in [count : Nat, started : Nat, blockedUntil : Nat] /\ now \in Nat
        /\ failures' = failures /\ now' = now /\ failures[u].blockedUntil <= now
    BY DEF login, dataVars, isLoginThrottled, ThrottleInv, TypeInv
  <2>2. Cardinality(InFlight(u)') <= Cardinality(Requests) /\ Cardinality(InFlight(u)') \in Nat
        /\ Cardinality(Requests) \in Nat
    <3>1. InFlight(u)' \in SUBSET Requests
      BY DEF InFlight
    <3> QED
      BY <3>1, SessionAssumption, FS_Subset, FS_CardinalityType
  <2>3. Bounded(u)
    BY DEF ThrottleInv
  <2> QED
    BY <2>1, <2>2, <2>3, SessionAssumption DEF Bounded
<1> QED
  BY <1>1, <1>2, <1>3 DEF ThrottleInv

(* A comparison that ends takes its attempt out of those under way, and    *)
(* leaves the accounts of others alone.                                    *)
LEMMA LoginEndKeeps ==
    ASSUME ThrottleInv, NEW r \in Requests, at(r, "verifyPassword"), NEW u, u = req[r].user,
           NEW h, become(r, h), Handler(h), h.pc # "verifyPassword",
           NEW e \in [count : Nat, started : Nat, blockedUntil : Nat], now' = now,
           failures' = [failures EXCEPT ![u] = e],
           e.started <= now, e.count <= MaxFailures + Cardinality(Requests) - 1,
           e.count >= MaxFailures => e.blockedUntil >= e.started + Window,
           e.count # 0 /\ now - e.started < Window =>
              e.count + Cardinality(InFlight(u)) - 1 <= MaxFailures + Cardinality(Requests) - 1
    PROVE  ThrottleInv'
<1>1. u \in Users
  BY DEF ThrottleInv, TypeInv, Handler, at, Authenticating
<1>2. /\ failures' \in [Users -> [count : Nat, started : Nat, blockedUntil : Nat]]
      /\ failures'[u] = e
      /\ \A v \in Users \ {u} : failures'[v] = failures[v]
  BY <1>1 DEF ThrottleInv, TypeInv
<1>3. TypeInv' /\ req'[r] = h /\ \A s \in Requests \ {r} : req'[s] = req[s]
  BY <1>2, TypesKeep DEF ThrottleInv
<1>4. ASSUME NEW v \in Users, v # u PROVE Bounded(v)'
  <2>1. InFlight(v)' \subseteq InFlight(v)
    BY <1>3 DEF InFlight
  <2> QED
    BY <1>2, <1>3, <1>4, <2>1, QuietKeeps DEF ThrottleInv, TypeInv
<1>5. Bounded(u)'
  <2>1. InFlight(u)' = InFlight(u) \ {r} /\ r \in InFlight(u)
    BY <1>3 DEF InFlight, at
  <2>2. Cardinality(InFlight(u)') = Cardinality(InFlight(u)) - 1
    BY <2>1, InFlightCardinality, FS_RemoveElement
  <2> QED
    BY <1>2, <2>2 DEF Bounded
<1> QED
  BY <1>3, <1>4, <1>5 DEF ThrottleInv

LEMMA LoginFailedKeeps ==
    ASSUME ThrottleInv, NEW r \in Requests, loginFailed(r)
    PROVE  ThrottleInv'
<1> PICK u : u = req[r].user
  OBVIOUS
<1> DEFINE f == failures[u]
           over == f.count = 0 \/ now - f.started >= Window
<1>1. at(r, "verifyPassword") /\ become(r, Idle) /\ Handler(Idle) /\ Idle.pc = "idle" /\ now' = now
  BY DEF loginFailed, done, Handler, Idle
<1>2. u \in Users
  BY <1>1 DEF ThrottleInv, TypeInv, Handler, at, Authenticating
<1>3. f \in [count : Nat, started : Nat, blockedUntil : Nat] /\ now \in Nat /\ Bounded(u)
  BY <1>2 DEF ThrottleInv, TypeInv
<1>4. /\ Cardinality(InFlight(u)) \in Nat /\ Cardinality(Requests) \in Nat
      /\ Cardinality(InFlight(u)) <= Cardinality(Requests) /\ Cardinality(InFlight(u)) >= 1
  <2>1. r \in InFlight(u) /\ InFlight(u) # {}
    BY <1>1 DEF InFlight, at
  <2> QED
    BY <2>1, InFlightCardinality, FS_EmptySet
<1>5. CASE over
  <2> DEFINE e == [count |-> 1, started |-> now, blockedUntil |-> 0]
  <2>1. failures' = [failures EXCEPT ![u] = e]
    BY <1>5 DEF loginFailed, recordLoginFailure
  <2>2. /\ e \in [count : Nat, started : Nat, blockedUntil : Nat]
        /\ e.count = 1 /\ e.started = now /\ e.blockedUntil = 0
    BY <1>3
  <2>3. now <= now /\ 1 <= MaxFailures + Cardinality(Requests) - 1
        /\ 1 + Cardinality(InFlight(u)) - 1 <= MaxFailures + Cardinality(Requests) - 1
    BY <1>3, <1>4, SessionAssumption
  <2>4. ~(1 >= MaxFailures)
    BY SessionAssumption
  <2> HIDE DEF e
  <2> QED
    BY <1>1, <1>4, <2>1, <2>2, <2>3, <2>4, LoginEndKeeps
<1>6. CASE ~over
  <2> DEFINE b == IF f.count + 1 >= MaxFailures THEN now + Window ELSE f.blockedUntil
  <2>1. /\ failures' = [failures EXCEPT ![u] =
                [count |-> f.count + 1, started |-> f.started, blockedUntil |-> b]]
        /\ b \in Nat
        /\ f.count + 1 >= MaxFailures => b = now + Window
    <3>1. /\ b \in Nat
          /\ f.count + 1 >= MaxFailures => b = now + Window
      BY <1>3, SessionAssumption
    <3>2. failures' = [failures EXCEPT ![u] =
                [count |-> f.count + 1, started |-> f.started, blockedUntil |-> b]]
      BY <1>6 DEF loginFailed, recordLoginFailure
    <3> QED
      BY <3>1, <3>2
  <2> HIDE DEF b
  <2> DEFINE e == [count |-> f.count + 1, started |-> f.started, blockedUntil |-> b]
  <2>2. /\ e \in [count : Nat, started : Nat, blockedUntil : Nat]
        /\ e.count = f.count + 1 /\ e.started = f.started /\ e.blockedUntil = b
    BY <1>3, <2>1
  <2>3. f.count + Cardinality(InFlight(u)) <= MaxFailures + Cardinality(Requests) - 1
    BY <1>3, <1>6, SessionAssumption DEF Bounded
  <2>4. /\ e.started <= now
        /\ e.count <= MaxFailures + Cardinality(Requests) - 1
        /\ e.count >= MaxFailures => e.blockedUntil >= e.started + Window
        /\ e.count + Cardinality(InFlight(u)) - 1 <= MaxFailures + Cardinality(Requests) - 1
    BY <1>3, <1>4, <1>6, <2>1, <2>2, <2>3, SessionAssumption DEF Bounded
  <2>5. failures' = [failures EXCEPT ![u] = e]
    BY <2>1
  <2> HIDE DEF e
  <2> QED
    BY <1>1, <2>2, <2>4, <2>5, LoginEndKeeps
<1> QED
  BY <1>5, <1>6

LEMMA LoginSucceededKeeps ==
    ASSUME ThrottleInv, NEW r \in Requests, loginSucceeded(r)
    PROVE  ThrottleInv'
<1> PICK u : u = req[r].user
  OBVIOUS
<1> DEFINE h == [pc |-> "trackPlatformSession", token |-> createSessionToken(u)]
<1>1. at(r, "verifyPassword") /\ become(r, h) /\ now' = now
      /\ failures' = [failures EXCEPT ![u] = NoEntry]
  BY DEF loginSucceeded, clearLoginFailures
<1>2. Handler(h) /\ h.pc = "trackPlatformSession"
  BY DEF Handler
<1>3. /\ NoEntry \in [count : Nat, started : Nat, blockedUntil : Nat]
      /\ NoEntry.count = 0 /\ NoEntry.started = 0
  BY DEF NoEntry
<1>4. 0 <= MaxFailures + Cardinality(Requests) - 1 /\ ~(0 >= MaxFailures) /\ 0 <= now
  BY InFlightCardinality, SessionAssumption DEF ThrottleInv, TypeInv
<1> HIDE DEF h
<1> QED
  BY <1>1, <1>2, <1>3, <1>4, LoginEndKeeps

---------------------------------------------------------------------------
(* The gate keeps the token it was given from step to step.                *)
LEMMA GateMoves ==
    ASSUME TypeInv, NEW r \in Requests, req[r].pc \in {"classifyPlatformSession", "identityStatus"},
           NEW pc \in {"identityStatus", "admitted"}
    PROVE  LET h == [req[r] EXCEPT !.pc = pc]
               k == [req[r] EXCEPT !.pc = "identityStatus", !.looked = TRUE]
           IN  /\ Handler(h) /\ h.pc = pc /\ h.token = req[r].token /\ h.looked = req[r].looked
               /\ Handler(k) /\ k.pc = "identityStatus" /\ k.token = req[r].token
<1>1. req[r] \in [pc : Authenticating, token : {req[r].token}, looked : BOOLEAN]
  BY DEF TypeInv, Handler
<1> DEFINE h == [req[r] EXCEPT !.pc = pc]
           k == [req[r] EXCEPT !.pc = "identityStatus", !.looked = TRUE]
<1>2. /\ h \in [pc : Authenticating, token : {req[r].token}, looked : BOOLEAN]
      /\ h.pc = pc /\ h.token = req[r].token /\ h.looked = req[r].looked
  BY <1>1 DEF Authenticating
<1>3. /\ k \in [pc : Authenticating, token : {req[r].token}, looked : BOOLEAN]
      /\ k.pc = "identityStatus" /\ k.token = req[r].token
  BY <1>1 DEF Authenticating
<1> HIDE DEF h, k
<1>4. Handler(h) /\ Handler(k)
  BY <1>2, <1>3 DEF Handler
<1> QED
  BY <1>2, <1>3, <1>4 DEF h, k

(* The steps of the handlers that do not touch the throttle, one by one.   *)
LEMMA OtherSteps ==
    ASSUME ThrottleInv, NEW r \in Requests,
           \/ \E u \in Users : oauthCallback(r, u)
           \/ trackPlatformSession(r)
           \/ \E t \in issued : logout(r, t) \/ verifySession(r, t)
           \/ revokePlatformSession(r) \/ classifyPlatformSession(r) \/ classifyFailed(r)
           \/ identityStatus(r) \/ fails(r)
    PROVE  \E h : /\ become(r, h) /\ Handler(h) /\ h.pc # "verifyPassword"
                  /\ UNCHANGED <<now, failures>>
<1>1. Handler(Idle) /\ Idle.pc = "idle"
  BY DEF Handler, Idle
<1>2. CASE trackPlatformSession(r) \/ revokePlatformSession(r) \/ fails(r)
  BY <1>1, <1>2 DEF trackPlatformSession, revokePlatformSession, fails, done, dataVars
<1>3. ASSUME NEW pc \in {"trackPlatformSession", "revokePlatformSession"}, NEW t,
             become(r, [pc |-> pc, token |-> t]), UNCHANGED <<now, failures>>
      PROVE  \E h : /\ become(r, h) /\ Handler(h) /\ h.pc # "verifyPassword"
                    /\ UNCHANGED <<now, failures>>
  <2>1. Handler([pc |-> pc, token |-> t]) /\ [pc |-> pc, token |-> t].pc = pc
    BY DEF Handler
  <2> QED
    BY <1>3, <2>1
<1>4. ASSUME NEW u \in Users, oauthCallback(r, u)
      PROVE  \E h : /\ become(r, h) /\ Handler(h) /\ h.pc # "verifyPassword"
                    /\ UNCHANGED <<now, failures>>
  BY <1>3, <1>4 DEF oauthCallback, dataVars
<1>5. ASSUME NEW t, logout(r, t)
      PROVE  \E h : /\ become(r, h) /\ Handler(h) /\ h.pc # "verifyPassword"
                    /\ UNCHANGED <<now, failures>>
  BY <1>3, <1>5 DEF logout, dataVars
<1>6. ASSUME NEW pc \in Authenticating, NEW t, NEW b \in BOOLEAN,
             become(r, [pc |-> pc, token |-> t, looked |-> b]), UNCHANGED <<now, failures>>
      PROVE  \E h : /\ become(r, h) /\ Handler(h) /\ h.pc # "verifyPassword"
                    /\ UNCHANGED <<now, failures>>
  <2>1. Handler([pc |-> pc, token |-> t, looked |-> b])
        /\ [pc |-> pc, token |-> t, looked |-> b].pc = pc
    BY DEF Handler
  <2> QED
    BY <1>6, <2>1 DEF Authenticating
<1>7. ASSUME NEW t, verifySession(r, t)
      PROVE  \E h : /\ become(r, h) /\ Handler(h) /\ h.pc # "verifyPassword"
                    /\ UNCHANGED <<now, failures>>
  BY <1>6, <1>7 DEF verifySession, dataVars, Authenticating
<1>8. CASE classifyPlatformSession(r) \/ classifyFailed(r) \/ identityStatus(r)
  <2>1. UNCHANGED <<now, failures>> /\ req[r].pc \in {"classifyPlatformSession", "identityStatus"}
    BY <1>8 DEF classifyPlatformSession, classifyFailed, identityStatus, dataVars, at
  <2>2. \/ become(r, [req[r] EXCEPT !.pc = "identityStatus", !.looked = TRUE])
        \/ \E pc \in {"identityStatus", "admitted"} : become(r, [req[r] EXCEPT !.pc = pc])
    BY <1>8 DEF classifyPlatformSession, classifyFailed, identityStatus, goto
  <2> QED
    BY <2>1, <2>2, GateMoves DEF ThrottleInv
<1> QED
  BY <1>2, <1>4, <1>5, <1>7, <1>8

LEMMA OtherStepsKeep ==
    ASSUME ThrottleInv, NEW r \in Requests,
           \E h : /\ become(r, h) /\ Handler(h) /\ h.pc # "verifyPassword"
                  /\ UNCHANGED <<now, failures>>
    PROVE  ThrottleInv'
BY HandlerKeeps

(* The identity's status and the clock.                                    *)
LEMMA SurroundingsKeep ==
    ASSUME ThrottleInv, UNCHANGED <<failures, req>>, now' \in {now, now + 1}
    PROVE  ThrottleInv'
<1>1. TypeInv'
  BY DEF ThrottleInv, TypeInv, Handler
<1>2. now' >= now
  BY DEF ThrottleInv, TypeInv
<1>3. ASSUME NEW u \in Users PROVE Bounded(u)'
  <2>1. InFlight(u)' \subseteq InFlight(u)
    BY DEF InFlight
  <2> QED
    BY <1>1, <1>2, <2>1, QuietKeeps
<1> QED
  BY <1>1, <1>3 DEF ThrottleInv

LEMMA RestartKeeps ==
    ASSUME ThrottleInv, restart
    PROVE  ThrottleInv'
<1>1. TypeInv'
  BY DEF restart, ThrottleInv, TypeInv, NoEntry, Handler, Idle
<1>2. ASSUME NEW u \in Users PROVE Bounded(u)'
  <2>1. failures'[u].count = 0 /\ failures'[u].started = 0 /\ now' >= 0
    BY DEF restart, NoEntry, ThrottleInv, TypeInv
  <2>2. 0 <= MaxFailures + Cardinality(Requests) - 1 /\ ~(0 >= MaxFailures)
    BY InFlightCardinality, SessionAssumption
  <2> QED
    BY <2>1, <2>2 DEF Bounded
<1> QED
  BY <1>1, <1>2 DEF ThrottleInv

LEMMA StepKeepsThrottle == ThrottleInv /\ [Next]_accessVars => ThrottleInv'
<1> SUFFICES ASSUME ThrottleInv, [Next]_accessVars PROVE ThrottleInv'
  OBVIOUS
<1>1. CASE UNCHANGED accessVars
  BY <1>1, SurroundingsKeep DEF accessVars, dataVars
<1>2. ASSUME NEW r \in Requests, LoginStep(r) PROVE ThrottleInv'
  BY <1>2, LoginKeeps, LoginFailedKeeps, LoginSucceededKeeps, OtherSteps, OtherStepsKeep
     DEF LoginStep
<1>3. ASSUME NEW r \in Requests, AuthenticateStep(r) \/ fails(r) PROVE ThrottleInv'
  BY <1>3, OtherSteps, OtherStepsKeep DEF AuthenticateStep
<1>4. ASSUME NEW u \in Users, identityChanges(u) PROVE ThrottleInv'
  BY <1>4, SurroundingsKeep DEF identityChanges
<1>5. CASE tick
  BY <1>5, SurroundingsKeep DEF tick, dataVars
<1>6. CASE restart
  BY <1>6, RestartKeeps
<1> QED
  BY <1>1, <1>2, <1>3, <1>4, <1>5, <1>6 DEF Next

(* The throttle's invariant, for any number of handlers and accounts: a    *)
(* full window is blocked until it is over, and what is under way counts.  *)
THEOREM ThrottleInvariant == Spec => []ThrottleInv
BY InitThrottle, StepKeepsThrottle, PTL DEF Spec

(* However many attempts overlap, an account sees at most the limit and    *)
(* the attempts already under way: the check of auth.login is read before  *)
(* the password comparison and recorded after it.                          *)
THEOREM FailuresAreBounded == Spec => []FailuresBounded
<1>1. ThrottleInv => FailuresBounded
  BY DEF ThrottleInv, Bounded, FailuresBounded
<1> QED
  BY <1>1, ThrottleInvariant, PTL


---------------------------------------------------------------------------
(* What a handler saw stays seen while it keeps its token.                 *)
LEMMA SeenGrows ==
    ASSUME observe, NEW r \in Requests, req'[r].pc \in Authenticating
    PROVE  /\ seen[r] \subseteq seen'[r]
           /\ facts(req[r].token)' \subseteq seen'[r]
BY DEF observe, authenticating, Authenticating

LEMMA UntouchedStaysLooked ==
    ASSUME observe, SessionInv, NEW r \in Requests, req'[r] = req[r]
    PROVE  Looked(req[r], seen[r])'
<1>1. CASE req[r].pc \in Authenticating
  BY <1>1, SeenGrows DEF SessionInv, Looked
<1>2. CASE req[r].pc \notin Authenticating
  BY <1>2 DEF Looked, Authenticating
<1> QED
  BY <1>1, <1>2

(* The four steps of the gate.                                             *)
LEMMA GateStepsLook ==
    ASSUME observe, TypeInv, SessionInv, NEW r \in Requests,
           \/ \E t : verifySession(r, t)
           \/ classifyPlatformSession(r) \/ classifyFailed(r) \/ identityStatus(r)
    PROVE  Looked(req[r], seen[r])'
<1>0. \A h : become(r, h) => req'[r] = h
  BY DEF become, TypeInv
<1>1. ASSUME NEW t, verifySession(r, t) PROVE Looked(req[r], seen[r])'
  BY <1>0, <1>1 DEF verifySession, Looked
<1>2. CASE classifyPlatformSession(r)
  <2>1. req'[r].pc = "identityStatus" /\ req'[r].token = req[r].token
    BY <1>0, <1>2, GateMoves DEF classifyPlatformSession, at
  <2>2. /\ sessions[req[r].token].tracked =>
              ~sessions[req[r].token].revoked /\ now < sessions[req[r].token].expires
        /\ sessions' = sessions /\ now' = now
    BY <1>2 DEF classifyPlatformSession, dataVars
  <2>3. "session" \in facts(req[r].token)'
    BY <2>1, <2>2 DEF facts
  <2>4. "session" \in seen'[r]
    BY <2>1, <2>3, SeenGrows DEF Authenticating
  <2> QED
    BY <2>1, <2>4 DEF Looked
<1>3. CASE classifyFailed(r)
  <2>1. req'[r].pc = "identityStatus" /\ req'[r].looked = req[r].looked
    BY <1>0, <1>3, GateMoves DEF classifyFailed, goto, at
  <2>2. req[r].looked = FALSE
    BY <1>3 DEF classifyFailed, at, SessionInv, Looked
  <2> QED
    BY <2>1, <2>2 DEF Looked
<1>4. CASE identityStatus(r)
  <2>1. /\ req'[r].pc = "admitted" /\ req'[r].looked = req[r].looked
        /\ req'[r].token = req[r].token
    BY <1>0, <1>4, GateMoves DEF identityStatus, goto, at
  <2>2. "identity" \in facts(req[r].token)'
    BY <1>4, <2>1 DEF facts, identityStatus, dataVars
  <2>3. seen[r] \subseteq seen'[r] /\ "identity" \in seen'[r]
    BY <2>1, <2>2, SeenGrows DEF Authenticating
  <2>4. req[r].looked => "session" \in seen[r]
    BY <1>4 DEF identityStatus, at, SessionInv, Looked
  <2> QED
    BY <2>1, <2>3, <2>4 DEF Looked
<1> QED
  BY <1>1, <1>2, <1>3, <1>4

(* Every other step of a handler ends outside the gate.                    *)
LEMMA OutsideGate ==
    ASSUME TypeInv, NEW r \in Requests, LoginStep(r) \/ fails(r) \/ restart
    PROVE  req'[r].pc \notin Authenticating
<1>0. \A h : become(r, h) => req'[r] = h
  BY DEF become, TypeInv
<1>1. \A x : [pc |-> "verifyPassword", user |-> x].pc \notin Authenticating
      /\ [pc |-> "trackPlatformSession", token |-> x].pc \notin Authenticating
      /\ [pc |-> "revokePlatformSession", token |-> x].pc \notin Authenticating
  BY DEF Authenticating
<1>2. Idle.pc \notin Authenticating
  BY DEF Idle, Authenticating
<1>3. CASE \E u \in Users : login(r, u)
  BY <1>0, <1>1, <1>3 DEF login
<1>4. CASE \E u \in Users : oauthCallback(r, u)
  BY <1>0, <1>1, <1>4 DEF oauthCallback
<1>5. CASE \E t \in issued : logout(r, t)
  BY <1>0, <1>1, <1>5 DEF logout
<1>6. CASE loginSucceeded(r)
  BY <1>0, <1>1, <1>6 DEF loginSucceeded
<1>7. CASE loginFailed(r) \/ trackPlatformSession(r) \/ revokePlatformSession(r) \/ fails(r)
  <2>1. done(r)
    BY <1>7 DEF loginFailed, trackPlatformSession, revokePlatformSession, fails
  <2> QED
    BY <2>1, <1>0, <1>2 DEF done
<1>8. CASE restart
  BY <1>8, <1>2 DEF restart
<1> QED
  BY <1>3, <1>4, <1>5, <1>6, <1>7, <1>8 DEF LoginStep

LEMMA StepKeepsSession == ThrottleInv /\ SessionInv /\ [Next]_accessVars => SessionInv'
<1> SUFFICES ASSUME ThrottleInv, SessionInv, [Next]_accessVars, NEW r \in Requests
             PROVE  Looked(req[r], seen[r])'
  BY DEF SessionInv
<1>0. TypeInv
  BY DEF ThrottleInv
<1>1. CASE UNCHANGED accessVars
  BY <1>1 DEF accessVars, SessionInv, Looked
<1>2. ASSUME observe, NEW s \in Requests, LoginStep(s) \/ AuthenticateStep(s) \/ fails(s)
      PROVE  Looked(req[r], seen[r])'
  <2>1. CASE s = r /\ AuthenticateStep(s)
    BY <1>0, <1>2, <2>1, GateStepsLook DEF AuthenticateStep
  <2>2. CASE s = r /\ (LoginStep(s) \/ fails(s))
    BY <1>0, <2>2, OutsideGate DEF Looked, Authenticating
  <2>3. CASE s # r
    <3>1. \E h : become(s, h)
      BY <1>2 DEF LoginStep, AuthenticateStep, login, oauthCallback, loginFailed, loginSucceeded,
         trackPlatformSession, logout, revokePlatformSession, verifySession,
         classifyPlatformSession, classifyFailed, identityStatus, fails, done, goto
    <3>2. req'[r] = req[r]
      BY <2>3, <3>1, <1>0 DEF become, TypeInv
    <3> QED
      BY <1>2, <3>2, UntouchedStaysLooked
  <2> QED
    BY <1>2, <2>1, <2>2, <2>3
<1>3. ASSUME observe, (\E u \in Users : identityChanges(u)) \/ tick
      PROVE  Looked(req[r], seen[r])'
  BY <1>3, UntouchedStaysLooked DEF identityChanges, tick
<1>4. CASE observe /\ restart
  BY <1>0, <1>4, OutsideGate DEF Looked, Authenticating
<1> QED
  BY <1>1, <1>2, <1>3, <1>4 DEF Next

(* A request is admitted only on a session that was live, and for an       *)
(* identity that was active, at some moment since it came in:              *)
(* sdk.authenticateRequest, however its lookups interleave with a logout,  *)
(* a suspension and the clock.                                             *)
THEOREM AdmittedSessionsWereLive == Spec => []AdmittedSessionWasLive
<1>1. Init => SessionInv
  BY DEF Init, SessionInv, Looked, Idle
<1>2. SessionInv => AdmittedSessionWasLive
  BY DEF SessionInv, Looked, AdmittedSessionWasLive, at
<1> QED
  BY <1>1, <1>2, StepKeepsSession, ThrottleInvariant, PTL DEF Spec

=============================================================================
