--------------------------- MODULE DidAuthProofs ---------------------------
(***************************************************************************)
(* Proofs about DID authentication, for any number of handlers, challenges *)
(* and key generations: a challenge authenticates at most once, stays      *)
(* settled once it is, and authenticates only what was usable and current  *)
(* after it was consumed; challenges implement SingleUseToken.             *)
(***************************************************************************)
EXTENDS DidAuth, TLAPS

Points ==
    {"idle", "challengeRead", "challengeInsert", "verifyCheck", "verifyKey", "rotateWrite",
     "setKeyWrite", "lifecycleWrite", "statusWrite", "statusSync"}

Handlers ==
    [pc : Points, challenge : 0 .. MaxChallenges, key : 0 .. MaxGeneration,
     to : {"NONE"} \cup LifecycleStates \cup IdentityStatuses]

Row == [keyIdentifier : Generations, state : {"OPEN", "CONSUMED", "EXPIRED"}]

(* What a handler read is fit for the write it is about to make, and a     *)
(* verification works on a challenge that it consumed.                     *)
Ready(h, rows) ==
    /\ h.pc = "challengeInsert" => h.key \in Generations
    /\ h.pc = "rotateWrite" => h.key \in Generations /\ h.key + 1 \in Generations
    /\ h.pc = "setKeyWrite" => h.key \in Generations /\ h.to \in {"ACTIVE", "REVOKED"}
    /\ h.pc = "lifecycleWrite" => h.to \in {"VERIFIED", "SUSPENDED"}
    /\ h.pc \in {"statusWrite", "statusSync"} => h.to \in IdentityStatuses
    /\ Verifying(h) => /\ h.challenge \in 1 .. MaxChallenges /\ h.challenge \in DOMAIN rows
                       /\ rows[h.challenge].state = "CONSUMED"

(* A challenge that authenticated is in no verification any more.          *)
Spent ==
    \A v \in verified :
        /\ v.challenge \in DOMAIN didChallenges
        /\ \A r \in Requests : Verifying(req[r]) => req[r].challenge # v.challenge

DidInv ==
    /\ TypeOK
    /\ req \in [Requests -> Handlers]
    /\ \A r \in Requests : Ready(req[r], didChallenges)
    /\ Spent
    /\ ChallengeSingleUse

(* From one table of challenges to the next: rows are added, and only an   *)
(* open one changes, and only its state.                                   *)
Settles(rows, next) ==
    \A c \in DOMAIN rows :
        /\ c \in DOMAIN next
        /\ next[c].keyIdentifier = rows[c].keyIdentifier
        /\ rows[c].state # "OPEN" => next[c] = rows[c]

(* The columns of the identity, of its DID and of its keys. *)
Columns ==
    /\ status \in IdentityStatuses
    /\ lifecycleState \in LifecycleStates
    /\ didStatus \in {"ACTIVE", "REVOKED"}
    /\ keyStatus \in {"ACTIVE", "REVOKED"}
    /\ keyIdentifier \in Generations
    /\ didKeyRecords \in [Generations -> {"NONE", "ACTIVE", "ROTATED", "REVOKED"}]

LEMMA IdleReady ==
    /\ Idle \in Handlers /\ ~Verifying(Idle)
    /\ \A rows : Ready(Idle, rows)
BY DidAuthAssumption DEF Idle, Handlers, Points, Ready, Verifying

(* Moving a handler on, field by field. *)
LEMMA Fields ==
    ASSUME NEW g \in Handlers
    PROVE  /\ \A pc \in Points :
                LET h == [g EXCEPT !.pc = pc]
                IN  /\ h \in Handlers /\ h.pc = pc
                    /\ h.challenge = g.challenge /\ h.key = g.key /\ h.to = g.to
           /\ \A c \in 0 .. MaxChallenges :
                LET h == [g EXCEPT !.challenge = c]
                IN  /\ h \in Handlers /\ h.challenge = c
                    /\ h.pc = g.pc /\ h.key = g.key /\ h.to = g.to
           /\ \A k \in 0 .. MaxGeneration :
                LET h == [g EXCEPT !.key = k]
                IN  /\ h \in Handlers /\ h.key = k
                    /\ h.pc = g.pc /\ h.challenge = g.challenge /\ h.to = g.to
           /\ \A to \in {"NONE"} \cup LifecycleStates \cup IdentityStatuses :
                LET h == [g EXCEPT !.to = to]
                IN  /\ h \in Handlers /\ h.to = to
                    /\ h.pc = g.pc /\ h.challenge = g.challenge /\ h.key = g.key
BY DEF Handlers

LEMMA InitInv == Init => DidInv
<1> SUFFICES ASSUME Init PROVE DidInv
  OBVIOUS
<1>1. 1 \in Generations /\ IdentityStatuses \subseteq {"ACTIVE", "SUSPENDED", "REVOKED"}
  BY DidAuthAssumption DEF Generations, IdentityStatuses
<1>2. TypeOK
  BY <1>1 DEF Init, TypeOK, LifecycleStates
<1>3. \A r \in Requests : req[r] = Idle
  BY DEF Init
<1>4. req \in [Requests -> Handlers]
  BY IdleReady DEF Init
<1> QED
  BY <1>2, <1>3, <1>4, IdleReady DEF Init, DidInv, Spent, ChallengeSingleUse

LEMMA SeenTyped ==
    ASSUME TypeOK, observe
    PROVE  seen' \in [Requests -> SUBSET {"usable", "currentKey"}]
BY DEF TypeOK, observe

(* A step of one handler that adds no verification: it gives its challenge *)
(* up, keeps it, or takes an open one.                                     *)
LEMMA HandlerMoves ==
    ASSUME DidInv, observe, NEW r \in Requests, NEW h \in Handlers,
           req' = [req EXCEPT ![r] = h], Ready(h, didChallenges'),
           Columns', didChallenges' \in Seq(Row), Settles(didChallenges, didChallenges'),
           verified' = verified,
           Verifying(h) => \/ Verifying(req[r]) /\ h.challenge = req[r].challenge
                           \/ /\ h.challenge \in DOMAIN didChallenges
                              /\ didChallenges[h.challenge].state = "OPEN"
    PROVE  DidInv'
<1>1. req' \in [Requests -> Handlers] /\ req'[r] = h
      /\ \A s \in Requests \ {r} : req'[s] = req[s]
  BY DEF DidInv
<1>2. TypeOK'
  BY <1>1, SeenTyped DEF DidInv, TypeOK, Columns, Row
<1>3. ASSUME NEW s \in Requests PROVE Ready(req'[s], didChallenges')
  <2>1. CASE s = r
    BY <1>1, <2>1
  <2>2. CASE s # r
    BY <1>1, <2>2 DEF DidInv, Ready, Settles
  <2> QED
    BY <2>1, <2>2
<1>4. ASSUME NEW s \in Requests, NEW d, Verifying(req[s]), req[s].challenge = d
      PROVE  d \in DOMAIN didChallenges /\ didChallenges[d].state = "CONSUMED"
  BY <1>4 DEF DidInv, Ready
<1>5. \A v \in verified : v.challenge \in DOMAIN didChallenges
                          /\ didChallenges[v.challenge].state = "CONSUMED"
                          /\ didChallenges'[v.challenge] = didChallenges[v.challenge]
                          /\ v.challenge \in DOMAIN didChallenges'
  BY DEF DidInv, Spent, ChallengeSingleUse, Settles
<1>6. Spent'
  BY <1>1, <1>5 DEF Spent, DidInv
<1>7. ASSUME NEW s \in Requests, NEW t \in Requests, Verifying(req'[s]), Verifying(req'[t]),
             req'[s].challenge = req'[t].challenge
      PROVE  s = t
  BY <1>1, <1>4, <1>7 DEF DidInv, ChallengeSingleUse
<1>8. ChallengeSingleUse'
  BY <1>5, <1>7 DEF ChallengeSingleUse, DidInv
<1> QED
  BY <1>1, <1>2, <1>3, <1>6, <1>8 DEF DidInv

(* The steps that read, refuse or write the identity and its keys: the     *)
(* challenges stay as they are.                                            *)
LEMMA RowsStay ==
    ASSUME DidInv, observe, NEW r \in Requests, NEW h \in Handlers,
           req' = [req EXCEPT ![r] = h], Ready(h, didChallenges), Columns',
           UNCHANGED <<didChallenges, verified>>,
           Verifying(h) => Verifying(req[r]) /\ h.challenge = req[r].challenge
    PROVE  DidInv'
<1>1. didChallenges' \in Seq(Row) /\ Settles(didChallenges, didChallenges')
  BY DEF DidInv, TypeOK, Row, Settles
<1> QED
  BY <1>1, HandlerMoves

LEMMA ColumnsTyped == DidInv => Columns
BY DEF DidInv, TypeOK, Columns

(* What a handler reads makes it ready. *)
LEMMA ReadsKeep ==
    ASSUME DidInv, observe, NEW r \in Requests,
           \/ challengeCheck(r) \/ challengeRead(r) \/ rotateRead(r)
           \/ \E to \in {"ACTIVE", "REVOKED"} : setKeyRead(r, to)
           \/ \E to \in LifecycleStates : lifecycleRead(r, to)
           \/ \E to \in IdentityStatuses : statusRead(r, to)
    PROVE  DidInv'
<1>1. Columns /\ req[r] \in Handlers
  BY ColumnsTyped DEF DidInv
<1>2. ASSUME UNCHANGED <<identityVars, keyVars>> PROVE Columns'
  BY <1>1, <1>2 DEF Columns, identityVars, keyVars
<1>3. CASE challengeCheck(r)
  <2> DEFINE h == [Idle EXCEPT !.pc = "challengeRead"]
  <2>1. h \in Handlers /\ Ready(h, didChallenges) /\ ~Verifying(h)
    BY DidAuthAssumption DEF Idle, Handlers, Points, Ready, Verifying
  <2>2. req' = [req EXCEPT ![r] = h]
    BY <1>3 DEF challengeCheck, goto
  <2> HIDE DEF h
  <2> QED
    BY <1>2, <1>3, <2>1, <2>2, RowsStay DEF challengeCheck
<1>4. CASE challengeRead(r)
  <2> DEFINE g == [req[r] EXCEPT !.pc = "challengeInsert"]
             h == [g EXCEPT !.key = keyIdentifier]
  <2>1. h \in Handlers /\ Ready(h, didChallenges) /\ ~Verifying(h)
    <3>1. "challengeInsert" \in Points /\ keyIdentifier \in Generations /\ keyIdentifier \in 0 .. MaxGeneration
      BY <1>1, DidAuthAssumption DEF Columns, Points, Generations
    <3>2. g \in Handlers /\ g.pc = "challengeInsert"
      BY <1>1, <3>1, Fields
    <3> HIDE DEF g
    <3>3. h \in Handlers /\ h.pc = "challengeInsert" /\ h.key = keyIdentifier
      BY <3>1, <3>2, Fields
    <3> HIDE DEF h
    <3> QED
      BY <3>1, <3>3 DEF Ready, Verifying
  <2>2. req' = [req EXCEPT ![r] = h]
    BY <1>4 DEF challengeRead, goto
  <2> HIDE DEF h
  <2> QED
    BY <1>2, <1>4, <2>1, <2>2, RowsStay DEF challengeRead
<1>5. CASE rotateRead(r)
  <2> DEFINE g == [Idle EXCEPT !.pc = "rotateWrite"]
             h == [g EXCEPT !.key = keyIdentifier]
  <2>1. h \in Handlers /\ Ready(h, didChallenges) /\ ~Verifying(h)
    <3>1. /\ "rotateWrite" \in Points /\ keyIdentifier \in 0 .. MaxGeneration
          /\ keyIdentifier \in Generations /\ keyIdentifier + 1 \in Generations
      BY <1>1, <1>5, DidAuthAssumption DEF rotateRead, Columns, Points, Generations
    <3>2. g \in Handlers /\ g.pc = "rotateWrite"
      BY <3>1, IdleReady, Fields
    <3> HIDE DEF g
    <3>3. h \in Handlers /\ h.pc = "rotateWrite" /\ h.key = keyIdentifier
      BY <3>1, <3>2, Fields
    <3> HIDE DEF h
    <3> QED
      BY <3>1, <3>3 DEF Ready, Verifying
  <2>2. req' = [req EXCEPT ![r] = h]
    BY <1>5 DEF rotateRead, goto
  <2> HIDE DEF h
  <2> QED
    BY <1>2, <1>5, <2>1, <2>2, RowsStay DEF rotateRead
<1>6. ASSUME NEW to \in {"ACTIVE", "REVOKED"}, setKeyRead(r, to) PROVE DidInv'
  <2> DEFINE g == [Idle EXCEPT !.pc = "setKeyWrite"]
             f == [g EXCEPT !.key = keyIdentifier]
             h == [f EXCEPT !.to = to]
  <2>1. h \in Handlers /\ Ready(h, didChallenges) /\ ~Verifying(h)
    <3>1. /\ "setKeyWrite" \in Points /\ keyIdentifier \in 0 .. MaxGeneration
          /\ keyIdentifier \in Generations /\ to \in IdentityStatuses
      BY <1>1, DidAuthAssumption DEF Columns, Points, Generations, IdentityStatuses
    <3>2. g \in Handlers /\ g.pc = "setKeyWrite"
      BY <3>1, IdleReady, Fields
    <3> HIDE DEF g
    <3>3. f \in Handlers /\ f.pc = "setKeyWrite" /\ f.key = keyIdentifier
      BY <3>1, <3>2, Fields
    <3> HIDE DEF f
    <3>4. h \in Handlers /\ h.pc = "setKeyWrite" /\ h.key = keyIdentifier /\ h.to = to
      BY <3>1, <3>3, Fields
    <3> HIDE DEF h
    <3> QED
      BY <3>1, <3>4 DEF Ready, Verifying
  <2>2. req' = [req EXCEPT ![r] = h]
    BY <1>6 DEF setKeyRead, goto
  <2> HIDE DEF h
  <2> QED
    BY <1>2, <1>6, <2>1, <2>2, RowsStay DEF setKeyRead
<1>7. ASSUME NEW to \in LifecycleStates, lifecycleRead(r, to) PROVE DidInv'
  <2> DEFINE g == [Idle EXCEPT !.pc = "lifecycleWrite"]
             h == [g EXCEPT !.to = to]
  <2>1. to \in {"VERIFIED", "SUSPENDED"}
    BY <1>7 DEF lifecycleRead, LifecycleMoves
  <2>2. h \in Handlers /\ Ready(h, didChallenges) /\ ~Verifying(h)
    <3>1. g \in Handlers /\ g.pc = "lifecycleWrite"
      BY IdleReady, Fields DEF Points
    <3> HIDE DEF g
    <3>2. h \in Handlers /\ h.pc = "lifecycleWrite" /\ h.to = to
      BY <3>1, Fields
    <3> HIDE DEF h
    <3> QED
      BY <2>1, <3>2 DEF Ready, Verifying
  <2>3. req' = [req EXCEPT ![r] = h]
    BY <1>7 DEF lifecycleRead, goto
  <2> HIDE DEF h
  <2> QED
    BY <1>2, <1>7, <2>2, <2>3, RowsStay DEF lifecycleRead
<1>8. ASSUME NEW to \in IdentityStatuses, statusRead(r, to) PROVE DidInv'
  <2> DEFINE g == [Idle EXCEPT !.pc = "statusWrite"]
             h == [g EXCEPT !.to = to]
  <2>1. h \in Handlers /\ Ready(h, didChallenges) /\ ~Verifying(h)
    <3>1. g \in Handlers /\ g.pc = "statusWrite"
      BY IdleReady, Fields DEF Points
    <3> HIDE DEF g
    <3>2. h \in Handlers /\ h.pc = "statusWrite" /\ h.to = to
      BY <3>1, Fields
    <3> HIDE DEF h
    <3> QED
      BY <3>2 DEF Ready, Verifying
  <2>2. req' = [req EXCEPT ![r] = h]
    BY <1>8 DEF statusRead, goto
  <2> HIDE DEF h
  <2> QED
    BY <1>2, <1>8, <2>1, <2>2, RowsStay DEF statusRead
<1> QED
  BY <1>3, <1>4, <1>5, <1>6, <1>7, <1>8

(* rotateWrite, setKeyWrite, and the writers of the identity's status.     *)
LEMMA WritesKeep ==
    ASSUME DidInv, observe, NEW r \in Requests,
           rotateWrite(r) \/ setKeyWrite(r) \/ lifecycleWrite(r) \/ statusWrite(r) \/ statusSync(r)
    PROVE  DidInv'
<1>1. Columns /\ req[r] \in Handlers /\ Ready(req[r], didChallenges)
  BY ColumnsTyped DEF DidInv
<1>2. CASE rotateWrite(r)
  <2>1. Columns'
    BY <1>1, <1>2 DEF rotateWrite, Columns, at, Ready, identityVars
  <2> QED
    BY <1>2, <2>1, IdleReady, RowsStay DEF rotateWrite, done, goto
<1>3. CASE setKeyWrite(r)
  <2>1. Columns'
    BY <1>1, <1>3 DEF setKeyWrite, Columns, at, Ready, identityVars
  <2> QED
    BY <1>3, <2>1, IdleReady, RowsStay DEF setKeyWrite, done, goto
<1>4. CASE statusSync(r)
  <2>1. Columns'
    BY <1>1, <1>4 DEF statusSync, Columns, keyVars
  <2> QED
    BY <1>4, <2>1, IdleReady, RowsStay DEF statusSync, done, goto
<1>5. ASSUME NEW to \in IdentityStatuses
      PROVE  LET h == [req[r] EXCEPT !.pc = "statusSync", !.to = to]
             IN  h \in Handlers /\ Ready(h, didChallenges) /\ ~Verifying(h)
  BY <1>1 DEF Handlers, Points, Ready, Verifying
<1>6. CASE lifecycleWrite(r)
  <2>1. req[r].to \in {"VERIFIED", "SUSPENDED"}
    BY <1>1, <1>6 DEF lifecycleWrite, at, Ready
  <2>2. statusOf(req[r].to) \in IdentityStatuses
    BY DEF statusOf, IdentityStatuses
  <2>3. Columns'
    BY <1>1, <1>6, <2>1, <2>2 DEF lifecycleWrite, Columns, keyVars, LifecycleStates
  <2> DEFINE h == [req[r] EXCEPT !.pc = "statusSync", !.to = statusOf(req[r].to)]
  <2>4. req' = [req EXCEPT ![r] = h]
    BY <1>6 DEF lifecycleWrite, goto
  <2>5. h \in Handlers /\ Ready(h, didChallenges) /\ ~Verifying(h)
    BY <1>5, <2>2
  <2> HIDE DEF h
  <2> QED
    BY <1>6, <2>3, <2>4, <2>5, RowsStay DEF lifecycleWrite
<1>7. CASE statusWrite(r)
  <2>1. req[r].to \in IdentityStatuses
    BY <1>1, <1>7 DEF statusWrite, at, Ready
  <2>2. Columns'
    BY <1>1, <1>7, <2>1 DEF statusWrite, Columns, keyVars
  <2> DEFINE h == [req[r] EXCEPT !.pc = "statusSync"]
  <2>3. req' = [req EXCEPT ![r] = h]
    BY <1>7 DEF statusWrite, goto
  <2>4. h \in Handlers /\ Ready(h, didChallenges) /\ ~Verifying(h)
    BY <1>1, <2>1 DEF Handlers, Points, Ready, Verifying
  <2> HIDE DEF h
  <2> QED
    BY <1>7, <2>2, <2>3, <2>4, RowsStay DEF statusWrite
<1> QED
  BY <1>2, <1>3, <1>4, <1>6, <1>7

(* The steps that write the table of challenges settle it. *)
LEMMA TableSettles ==
    ASSUME DidInv,
           \/ \E r \in Requests : challengeInsert(r)
           \/ \E r \in Requests, c \in 1 .. MaxChallenges : verifyConsume(r, c)
           \/ \E c \in 1 .. MaxChallenges : challengeExpires(c)
    PROVE  /\ didChallenges' \in Seq(Row) /\ Settles(didChallenges, didChallenges')
<1>1. didChallenges \in Seq(Row)
  BY DEF DidInv, TypeOK, Row
<1>2. ASSUME NEW r \in Requests, challengeInsert(r)
      PROVE  /\ didChallenges' \in Seq(Row) /\ Settles(didChallenges, didChallenges')
  <2> DEFINE x == [keyIdentifier |-> req[r].key, state |-> "OPEN"]
  <2>1. x \in Row
    BY <1>2 DEF challengeInsert, at, DidInv, Ready, Row
  <2>2. didChallenges' = Append(didChallenges, x)
    BY <1>2 DEF challengeInsert
  <2> HIDE DEF x
  <2> QED
    BY <1>1, <2>1, <2>2 DEF Settles
<1>3. ASSUME NEW c \in DOMAIN didChallenges, didChallenges[c].state = "OPEN",
             NEW to \in {"CONSUMED", "EXPIRED"},
             didChallenges' = [didChallenges EXCEPT ![c].state = to]
      PROVE  /\ didChallenges' \in Seq(Row) /\ Settles(didChallenges, didChallenges')
  <2> DEFINE x == [keyIdentifier |-> didChallenges[c].keyIdentifier, state |-> to]
  <2>1. didChallenges[c] \in Row
    BY <1>1
  <2>2. x \in Row /\ x.keyIdentifier = didChallenges[c].keyIdentifier
        /\ [didChallenges[c] EXCEPT !.state = to] = x
    BY <2>1 DEF Row
  <2>3. didChallenges' = [didChallenges EXCEPT ![c] = x]
    BY <1>3, <2>2
  <2> HIDE DEF x
  <2> QED
    BY <1>1, <1>3, <2>2, <2>3 DEF Settles
<1> QED
  BY <1>2, <1>3 DEF verifyConsume, challengeExpires

LEMMA InsertKeeps ==
    ASSUME DidInv, observe, NEW r \in Requests, challengeInsert(r)
    PROVE  DidInv'
<1>1. didChallenges' \in Seq(Row) /\ Settles(didChallenges, didChallenges')
  BY TableSettles
<1>2. Columns' /\ req' = [req EXCEPT ![r] = Idle] /\ verified' = verified
  BY ColumnsTyped DEF challengeInsert, done, goto, Columns, identityVars, keyVars
<1> QED
  BY <1>1, <1>2, IdleReady, HandlerMoves

LEMMA ConsumeKeeps ==
    ASSUME DidInv, observe, NEW r \in Requests, NEW c \in 1 .. MaxChallenges, verifyConsume(r, c)
    PROVE  DidInv'
<1> DEFINE g == [Idle EXCEPT !.pc = "verifyCheck"]
           h == [g EXCEPT !.challenge = c]
<1>1. didChallenges' \in Seq(Row) /\ Settles(didChallenges, didChallenges')
  BY TableSettles
<1>2. /\ Columns' /\ verified' = verified
      /\ c \in DOMAIN didChallenges /\ didChallenges[c].state = "OPEN"
      /\ didChallenges' = [didChallenges EXCEPT ![c].state = "CONSUMED"]
  BY ColumnsTyped DEF verifyConsume, Columns, identityVars, keyVars
<1>3. req' = [req EXCEPT ![r] = h]
  BY DEF verifyConsume, goto
<1>4. didChallenges'[c].state = "CONSUMED" /\ c \in DOMAIN didChallenges'
  <2>1. didChallenges \in Seq(Row)
    BY DEF DidInv, TypeOK, Row
  <2>2. didChallenges[c] \in Row
    BY <1>2, <2>1
  <2> QED
    BY <1>2, <2>2 DEF Row
<1>5. h \in Handlers /\ Ready(h, didChallenges') /\ h.challenge = c
  <2>1. g \in Handlers /\ g.pc = "verifyCheck"
    BY IdleReady, Fields DEF Points
  <2>2. c \in 0 .. MaxChallenges
    BY DidAuthAssumption
  <2> HIDE DEF g
  <2>3. h \in Handlers /\ h.pc = "verifyCheck" /\ h.challenge = c
    BY <2>1, <2>2, Fields
  <2> HIDE DEF h
  <2> QED
    BY <1>4, <2>3 DEF Ready, Verifying
<1> HIDE DEF h
<1> QED
  BY <1>1, <1>2, <1>3, <1>5, HandlerMoves

LEMMA CheckKeeps ==
    ASSUME DidInv, observe, NEW r \in Requests, verifyCheck(r)
    PROVE  DidInv'
<1>1. Columns' /\ UNCHANGED <<didChallenges, verified>>
  BY ColumnsTyped DEF verifyCheck, Columns, identityVars, keyVars
<1>2. CASE done(r)
  BY <1>1, <1>2, IdleReady, RowsStay DEF done, goto
<1>3. CASE goto(r, [req[r] EXCEPT !.pc = "verifyKey"])
  <2> DEFINE h == [req[r] EXCEPT !.pc = "verifyKey"]
  <2>1. req[r] \in Handlers /\ Ready(req[r], didChallenges) /\ req[r].pc = "verifyCheck"
    BY DEF DidInv, verifyCheck, at
  <2>2. h \in Handlers /\ Ready(h, didChallenges) /\ h.challenge = req[r].challenge
        /\ Verifying(req[r])
    BY <2>1 DEF Handlers, Points, Ready, Verifying
  <2>3. req' = [req EXCEPT ![r] = h]
    BY <1>3 DEF goto
  <2> HIDE DEF h
  <2> QED
    BY <1>1, <2>2, <2>3, RowsStay
<1> QED
  BY <1>2, <1>3 DEF verifyCheck

(* The step that authenticates ends the one verification of its challenge. *)
LEMMA KeyKeeps ==
    ASSUME DidInv, observe, NEW r \in Requests, NEW signed \in BOOLEAN, verifyKey(r, signed)
    PROVE  DidInv'
<1> DEFINE v == [challenge |-> req[r].challenge, request |-> r]
<1>1. /\ Columns' /\ req' = [req EXCEPT ![r] = Idle] /\ didChallenges' = didChallenges
      /\ verified' \in {verified, verified \cup {v}} /\ req[r].pc = "verifyKey"
  BY ColumnsTyped DEF verifyKey, at, done, goto, Columns, identityVars, keyVars
<1>2. CASE verified' = verified
  BY <1>1, <1>2, IdleReady, RowsStay
<1>3. CASE verified' = verified \cup {v}
  <2>1. req' \in [Requests -> Handlers] /\ req'[r] = Idle
        /\ \A s \in Requests \ {r} : req'[s] = req[s]
    BY <1>1, IdleReady DEF DidInv
  <2>2. /\ Verifying(req[r]) /\ v.challenge = req[r].challenge /\ v.request = r
        /\ v.challenge \in 1 .. MaxChallenges /\ v.challenge \in DOMAIN didChallenges
        /\ didChallenges[v.challenge].state = "CONSUMED"
    BY <1>1 DEF DidInv, Ready, Verifying
  <2>3. v \in [challenge : 1 .. MaxChallenges, request : Requests]
    BY <2>2
  <2>4. TypeOK'
    BY <1>1, <1>3, <2>1, <2>3, SeenTyped DEF DidInv, TypeOK, Columns
  <2>5. \A s \in Requests : Ready(req'[s], didChallenges')
    BY <1>1, <2>1, IdleReady DEF DidInv
  <2> HIDE DEF v
  <2>6. \A w \in verified : w.challenge # v.challenge
    BY <2>2 DEF DidInv, Spent
  <2>7. \A s \in Requests : Verifying(req'[s]) => s # r /\ req'[s].challenge # v.challenge
    BY <2>1, <2>2, IdleReady DEF DidInv, ChallengeSingleUse
  <2>8. Spent'
    BY <1>1, <1>3, <2>1, <2>2, <2>7 DEF DidInv, Spent
  <2>9. ChallengeSingleUse'
    <3>1. (\A w, x \in verified : w.challenge = x.challenge => w = x)'
      BY <1>3, <2>6 DEF DidInv, ChallengeSingleUse
    <3>2. (\A w \in verified : didChallenges[w.challenge].state = "CONSUMED")'
      BY <1>1, <1>3, <2>2 DEF DidInv, ChallengeSingleUse
    <3>3. (\A s, t \in Requests : Verifying(req[s]) /\ Verifying(req[t])
                                  /\ req[s].challenge = req[t].challenge => s = t)'
      BY <2>1, <2>7 DEF DidInv, ChallengeSingleUse
    <3> QED
      BY <3>1, <3>2, <3>3 DEF ChallengeSingleUse
  <2> QED
    BY <2>1, <2>4, <2>5, <2>8, <2>9 DEF DidInv
<1> QED
  BY <1>1, <1>2, <1>3

LEMMA ExpiryKeeps ==
    ASSUME DidInv, observe, NEW c \in 1 .. MaxChallenges, challengeExpires(c)
    PROVE  DidInv'
<1>1. didChallenges' \in Seq(Row) /\ Settles(didChallenges, didChallenges')
  BY TableSettles
<1>2. Columns' /\ req' = req /\ verified' = verified
  BY ColumnsTyped DEF challengeExpires, Columns, identityVars, keyVars
<1>3. TypeOK'
  BY <1>1, <1>2, SeenTyped DEF DidInv, TypeOK, Columns, Row
<1>4. \A s \in Requests : Ready(req'[s], didChallenges')
  BY <1>1, <1>2 DEF DidInv, Ready, Settles
<1>5. Spent'
  BY <1>1, <1>2 DEF DidInv, Spent, Settles
<1>6. ChallengeSingleUse'
  <2>1. \A v \in verified : didChallenges'[v.challenge].state = "CONSUMED"
    BY <1>1 DEF DidInv, Spent, ChallengeSingleUse, Settles
  <2> QED
    BY <1>2, <2>1 DEF DidInv, ChallengeSingleUse
<1> QED
  BY <1>2, <1>3, <1>4, <1>5, <1>6 DEF DidInv

LEMMA StepKeeps == DidInv /\ [Next]_didAuthVars => DidInv'
<1> SUFFICES ASSUME DidInv, [Next]_didAuthVars PROVE DidInv'
  OBVIOUS
<1>1. CASE UNCHANGED didAuthVars
  BY <1>1 DEF didAuthVars, identityVars, keyVars, DidInv, TypeOK, Spent, ChallengeSingleUse
<1>2. ASSUME observe, NEW r \in Requests, RequestStep(r) PROVE DidInv'
  BY <1>2, ReadsKeep, WritesKeep, InsertKeeps, ConsumeKeeps, CheckKeeps, KeyKeeps DEF RequestStep
<1>3. ASSUME observe, NEW c \in 1 .. MaxChallenges, challengeExpires(c) PROVE DidInv'
  BY <1>3, ExpiryKeeps
<1> QED
  BY <1>1, <1>2, <1>3 DEF Next

(* The strengthening the results below rest on: a verification works on a  *)
(* challenge that it alone consumed, one that authenticated is in no       *)
(* verification any more, and what a handler read fits what it will write. *)
THEOREM DidInvariant == Spec => []DidInv
BY InitInv, StepKeeps, PTL DEF Spec

(* verifyDidChallenge authenticates at most once with a challenge, however *)
(* many calls present it at the same time, and never with an expired one.  *)
THEOREM ChallengesAreSingleUse == Spec => []ChallengeSingleUse
<1>1. DidInv => ChallengeSingleUse
  BY DEF DidInv
<1> QED
  BY <1>1, DidInvariant, PTL

(* The columns, the rows and the handlers keep their types. *)
THEOREM TypesAreKept == Spec => []TypeOK
<1>1. DidInv => TypeOK
  BY DEF DidInv
<1> QED
  BY <1>1, DidInvariant, PTL

(* A refused or interrupted verification never gives its challenge back,   *)
(* and no write of did_challenges binds a row to another key: only the     *)
(* guarded UPDATE and the expiry touch a row, and only while it is open.   *)
THEOREM ChallengesStaySettled == Spec => ChallengesSettle
<1>1. ASSUME DidInv, [Next]_didAuthVars PROVE Settles(didChallenges, didChallenges')
  <2>1. CASE UNCHANGED didChallenges
    BY <2>1 DEF Settles
  <2>2. CASE \/ \E r \in Requests : challengeInsert(r)
             \/ \E r \in Requests, c \in 1 .. MaxChallenges : verifyConsume(r, c)
             \/ \E c \in 1 .. MaxChallenges : challengeExpires(c)
    BY <1>1, <2>2, TableSettles
  <2>3. ASSUME NEW r \in Requests, RequestStep(r)
        PROVE  \/ UNCHANGED didChallenges \/ challengeInsert(r)
               \/ \E c \in 1 .. MaxChallenges : verifyConsume(r, c)
    BY <2>3 DEF RequestStep, challengeCheck, challengeRead, verifyCheck, verifyKey, rotateRead,
                rotateWrite, setKeyRead, setKeyWrite, lifecycleRead, lifecycleWrite, statusRead,
                statusWrite, statusSync
  <2>4. CASE UNCHANGED didAuthVars
    BY <2>1, <2>4 DEF didAuthVars
  <2> QED
    BY <1>1, <2>1, <2>2, <2>3, <2>4 DEF Next
<1>2. DidInv /\ [Next]_didAuthVars =>
        [\A c \in DOMAIN didChallenges :
            /\ didChallenges'[c].keyIdentifier = didChallenges[c].keyIdentifier
            /\ didChallenges[c].state # "OPEN" => didChallenges'[c] = didChallenges[c]]_didAuthVars
  BY <1>1 DEF Settles
<1> QED
  BY <1>2, DidInvariant, PTL DEF Spec, ChallengesSettle

---------------------------------------------------------------------------
(* What is true of the challenge of a verification right now is in what    *)
(* that verification saw, and one that has come to the key saw its DID     *)
(* usable.                                                                 *)
Observed ==
    \A r \in Requests :
        Verifying(req[r]) =>
            /\ didUsable => "usable" \in seen[r]
            /\ didChallenges[req[r].challenge].keyIdentifier = keyIdentifier
                  => "currentKey" \in seen[r]
            /\ req[r].pc = "verifyKey" => "usable" \in seen[r]

(* Only verifyCheck brings a verification to the key. *)
LEMMA OnlyCheckReachesKey ==
    ASSUME DidInv, Next, NEW r \in Requests, req'[r].pc = "verifyKey"
    PROVE  req'[r] = req[r] \/ (verifyCheck(r) /\ didUsable)
<1>0. req'[r].pc = "verifyKey"
  OBVIOUS
<1>1. ASSUME NEW s \in Requests, RequestStep(s) PROVE \E h : goto(s, h)
  BY <1>1 DEF RequestStep, challengeCheck, challengeRead, challengeInsert, verifyConsume,
              verifyCheck, verifyKey, rotateRead, rotateWrite, setKeyRead, setKeyWrite,
              lifecycleRead, lifecycleWrite, statusRead, statusWrite, statusSync, done
<1>2. \A h : goto(r, h) => req'[r] = h
  BY DEF goto, DidInv
<1>3. ASSUME NEW s \in Requests, RequestStep(s), s # r PROVE req'[r] = req[r]
  BY <1>1, <1>3 DEF goto, DidInv
<1>4. ASSUME NEW g \in Handlers, NEW pc \in Points \ {"verifyKey"}, NEW k, NEW to
      PROVE  /\ ~goto(r, [g EXCEPT !.pc = pc])
             /\ ~goto(r, [g EXCEPT !.pc = pc, !.challenge = k])
             /\ ~goto(r, [g EXCEPT !.pc = pc, !.key = k])
             /\ ~goto(r, [g EXCEPT !.pc = pc, !.to = to])
             /\ ~goto(r, [g EXCEPT !.pc = pc, !.key = k, !.to = to])
  <2> DEFINE a == [g EXCEPT !.pc = pc]
             b == [a EXCEPT !.key = k]
  <2>1. a \in Handlers /\ a.pc = pc
    BY Fields
  <2> HIDE DEF a
  <2>2. /\ [a EXCEPT !.challenge = k].pc = pc /\ [a EXCEPT !.to = to].pc = pc
        /\ b.pc = pc /\ DOMAIN b = DOMAIN a /\ {"pc", "to"} \subseteq DOMAIN b
    BY <2>1 DEF Handlers
  <2> HIDE DEF b
  <2>3. [b EXCEPT !.to = to].pc = pc
    BY <2>2
  <2>4. /\ ~goto(r, a) /\ ~goto(r, [a EXCEPT !.challenge = k]) /\ ~goto(r, b)
        /\ ~goto(r, [a EXCEPT !.to = to]) /\ ~goto(r, [b EXCEPT !.to = to])
    BY <1>0, <1>2, <2>1, <2>2, <2>3
  <2> QED
    BY <2>4 DEF a, b
<1>5. ASSUME RequestStep(r) PROVE verifyCheck(r) /\ didUsable
  <2>1. req[r] \in Handlers /\ Idle \in Handlers /\ Idle.pc = "idle"
    BY IdleReady DEF DidInv, Idle
  <2>2. ~done(r)
    BY <1>0, <1>2, <2>1 DEF done
  <2>3. ~challengeInsert(r) /\ ~rotateWrite(r) /\ ~setKeyWrite(r) /\ ~statusSync(r)
        /\ \A signed : ~verifyKey(r, signed)
    BY <2>2 DEF challengeInsert, rotateWrite, setKeyWrite, statusSync, verifyKey
  <2>4. ~challengeCheck(r) /\ ~statusWrite(r)
    BY <1>4, <2>1 DEF challengeCheck, statusWrite, Points
  <2>5. ~challengeRead(r) /\ ~rotateRead(r)
    BY <1>4, <2>1 DEF challengeRead, rotateRead, Points
  <2>6. \A c : ~verifyConsume(r, c)
    BY <1>4, <2>1 DEF verifyConsume, Points
  <2>7. \A to : ~setKeyRead(r, to) /\ ~lifecycleRead(r, to) /\ ~statusRead(r, to)
    BY <1>4, <2>1 DEF setKeyRead, lifecycleRead, statusRead, Points
  <2>8. ~lifecycleWrite(r)
    BY <1>4, <2>1 DEF lifecycleWrite, Points
  <2>9. verifyCheck(r)
    BY <1>5, <2>3, <2>4, <2>5, <2>6, <2>7, <2>8 DEF RequestStep
  <2> QED
    BY <2>2, <2>9 DEF verifyCheck
<1>6. ASSUME NEW c, challengeExpires(c) PROVE req'[r] = req[r]
  BY <1>6 DEF challengeExpires
<1> QED
  BY <1>3, <1>5, <1>6 DEF Next

LEMMA StepObserves == DidInv /\ Observed /\ [Next]_didAuthVars => Observed'
<1> SUFFICES ASSUME DidInv, Observed, [Next]_didAuthVars, NEW r \in Requests, Verifying(req'[r])
             PROVE  /\ didUsable' => "usable" \in seen'[r]
                    /\ didChallenges'[req'[r].challenge].keyIdentifier = keyIdentifier'
                          => "currentKey" \in seen'[r]
                    /\ req'[r].pc = "verifyKey" => "usable" \in seen'[r]
  BY DEF Observed
<1>1. CASE UNCHANGED didAuthVars
  BY <1>1 DEF didAuthVars, identityVars, keyVars, Observed, didUsable
<1>2. CASE Next
  <2>1. /\ seen[r] \subseteq seen'[r]
        /\ didUsable' => "usable" \in seen'[r]
        /\ didChallenges'[req'[r].challenge].keyIdentifier = keyIdentifier'
              => "currentKey" \in seen'[r]
    BY <1>2 DEF Next, observe
  <2>2. ASSUME req'[r].pc = "verifyKey" PROVE "usable" \in seen[r]
    <3>1. CASE req'[r] = req[r]
      BY <2>2, <3>1 DEF Observed, Verifying
    <3>2. CASE verifyCheck(r) /\ didUsable
      BY <3>2 DEF Observed, Verifying, verifyCheck, at
    <3> QED
      BY <1>2, <2>2, <3>1, <3>2, OnlyCheckReachesKey
  <2> QED
    BY <2>1, <2>2
<1> QED
  BY <1>1, <1>2

(* verifyDidChallenge authenticates only when the DID, its key and its     *)
(* identity were all usable and the key of the challenge was current at a  *)
(* moment after the challenge was consumed, however its reads interleave   *)
(* with rotations, revocations and suspensions.                            *)
THEOREM VerificationsAreJustified == Spec => VerificationJustified
<1>1. Init => Observed
  BY DEF Init, Observed, Verifying, Idle
<1>2. DidInv /\ Observed /\ [Next]_didAuthVars =>
        [\A v \in verified' \ verified :
            seen[v.request] = {"usable", "currentKey"}]_didAuthVars
  <2> SUFFICES ASSUME DidInv, Observed, Next, NEW v \in verified' \ verified
               PROVE  seen[v.request] = {"usable", "currentKey"}
    OBVIOUS
  <2>1. PICK r \in Requests, signed \in BOOLEAN : verifyKey(r, signed)
    <3>1. ASSUME NEW c, challengeExpires(c) PROVE FALSE
      BY <3>1 DEF challengeExpires
    <3> QED
      BY <3>1 DEF Next, RequestStep, challengeCheck, challengeRead, challengeInsert, verifyConsume,
             verifyCheck, rotateRead, rotateWrite, setKeyRead, setKeyWrite, lifecycleRead,
             lifecycleWrite, statusRead, statusWrite, statusSync
  <2>2. /\ v.request = r /\ req[r].pc = "verifyKey"
        /\ didChallenges[req[r].challenge].keyIdentifier = keyIdentifier
    BY <2>1 DEF verifyKey, at
  <2>3. "usable" \in seen[r] /\ "currentKey" \in seen[r]
    BY <2>2 DEF Observed, Verifying
  <2>4. seen[r] \subseteq {"usable", "currentKey"}
    BY DEF DidInv, TypeOK
  <2> QED
    BY <2>2, <2>3, <2>4
<1> QED
  BY <1>1, <1>2, StepObserves, DidInvariant, PTL DEF Spec, VerificationJustified

---------------------------------------------------------------------------
(* Challenges are single-use tokens: issued by their row, redeemed by the  *)
(* guarded UPDATE, and spent by a verification that succeeds.              *)
Issued == 1 .. MaxChallenges

stageIn(rows, c) ==
    IF c \notin DOMAIN rows THEN "NONE"
    ELSE IF rows[c].state = "CONSUMED" THEN "REDEEMED" ELSE "ISSUED"

expiredIn(rows, c) == c \in DOMAIN rows /\ rows[c].state = "EXPIRED"

timesIn(verifications, c) == IF \E v \in verifications : v.challenge = c THEN 1 ELSE 0

Token == INSTANCE SingleUseToken WITH
    Tokens <- Issued,
    stage <- [c \in Issued |-> stageIn(didChallenges, c)],
    lapsed <- [c \in Issued |-> expiredIn(didChallenges, c)],
    spent <- [c \in Issued |-> timesIn(verified, c)]

(* A table that gets a row. *)
LEMMA RowAdded ==
    ASSUME NEW rows \in Seq(Row), NEW q \in Row, q.state = "OPEN"
    PROVE  LET n == Len(rows) + 1  next == Append(rows, q)
           IN  /\ stageIn(rows, n) = "NONE" /\ stageIn(next, n) = "ISSUED"
               /\ \A c \in Issued \ {n} : stageIn(next, c) = stageIn(rows, c)
               /\ \A c \in Issued : expiredIn(next, c) = expiredIn(rows, c)
<1> DEFINE n == Len(rows) + 1
           next == Append(rows, q)
<1>1. /\ n \notin DOMAIN rows /\ n \in DOMAIN next /\ next[n] = q
      /\ \A c \in Issued \ {n} : c \in DOMAIN next <=> c \in DOMAIN rows
      /\ \A c \in DOMAIN rows : next[c] = rows[c] /\ c # n
  BY DEF Issued
<1> HIDE DEF n, next
<1>2. stageIn(rows, n) = "NONE" /\ stageIn(next, n) = "ISSUED"
  BY <1>1 DEF stageIn
<1>3. \A c \in Issued \ {n} : stageIn(next, c) = stageIn(rows, c)
  BY <1>1 DEF stageIn
<1>4. \A c \in Issued \ {n} : expiredIn(next, c) = expiredIn(rows, c)
  BY <1>1 DEF expiredIn
<1>5. expiredIn(next, n) = FALSE /\ expiredIn(rows, n) = FALSE
  BY <1>1 DEF expiredIn
<1> QED
  BY <1>2, <1>3, <1>4, <1>5 DEF n, next

LEMMA TokenStutters ==
    ASSUME UNCHANGED <<didChallenges, verified>>
    PROVE  UNCHANGED Token!tokenVars
BY DEF Token!tokenVars

LEMMA InsertIssues ==
    ASSUME DidInv, NEW r \in Requests, challengeInsert(r)
    PROVE  [Token!Next]_(Token!tokenVars)
<1> DEFINE q == [keyIdentifier |-> req[r].key, state |-> "OPEN"]
<1>1. PICK rows \in Seq(Row) : rows = didChallenges
  BY DEF DidInv, TypeOK, Row
<1>2. q \in Row /\ q.state = "OPEN"
  BY DEF DidInv, Ready, challengeInsert, at, Row
<1>3. didChallenges' = Append(rows, q) /\ verified' = verified
  BY <1>1 DEF challengeInsert
<1> HIDE DEF q
<1>4. PICK n \in Nat : n = Len(rows) + 1
  BY <1>1
<1>5. PICK next : next = Append(rows, q)
  OBVIOUS
<1>6. /\ stageIn(rows, n) = "NONE" /\ stageIn(next, n) = "ISSUED"
      /\ \A c \in Issued \ {n} : stageIn(next, c) = stageIn(rows, c)
      /\ \A c \in Issued : expiredIn(next, c) = expiredIn(rows, c)
  BY <1>2, <1>4, <1>5, RowAdded
<1>7. [c \in Issued |-> stageIn(didChallenges', c)] =
      [[c \in Issued |-> stageIn(didChallenges, c)] EXCEPT ![n] = "ISSUED"]
  BY <1>1, <1>3, <1>5, <1>6
<1>8. [c \in Issued |-> expiredIn(didChallenges', c)] =
      [c \in Issued |-> expiredIn(didChallenges, c)]
  BY <1>1, <1>3, <1>5, <1>6
<1>9. CASE n \in Issued
  <2>1. Token!Issue(n)
    BY <1>1, <1>3, <1>6, <1>7, <1>8, <1>9 DEF Token!Issue
  <2> QED
    BY <1>9, <2>1 DEF Token!Next
<1>10. CASE n \notin Issued
  <2>1. [c \in Issued |-> stageIn(didChallenges', c)] = [c \in Issued |-> stageIn(didChallenges, c)]
    BY <1>1, <1>3, <1>5, <1>6, <1>10
  <2> QED
    BY <1>3, <1>8, <2>1 DEF Token!tokenVars
<1> QED
  BY <1>9, <1>10

(* The guarded UPDATE and the passing of the time to live. *)
LEMMA RowMoves ==
    ASSUME DidInv, NEW c \in Issued, c \in DOMAIN didChallenges,
           NEW s \in {"CONSUMED", "EXPIRED"}, didChallenges[c].state = "OPEN",
           didChallenges' = [didChallenges EXCEPT ![c].state = s], verified' = verified
    PROVE  Token!Next
<1>1. PICK rows \in Seq(Row) : rows = didChallenges
  BY DEF DidInv, TypeOK, Row
<1>2. PICK next : /\ next = didChallenges' /\ DOMAIN next = DOMAIN rows /\ next[c].state = s
                  /\ \A d \in DOMAIN rows \ {c} : next[d] = rows[d]
  <2> DEFINE q == [rows[c] EXCEPT !.state = s]
  <2>1. rows[c] \in Row
    BY <1>1
  <2>2. q.state = s
    BY <2>1 DEF Row
  <2>3. didChallenges' = [rows EXCEPT ![c] = q]
    BY <1>1
  <2> HIDE DEF q
  <2> QED
    BY <1>1, <2>2, <2>3
<1>3. /\ stageIn(rows, c) = "ISSUED" /\ expiredIn(rows, c) = FALSE
      /\ s = "CONSUMED" => stageIn(next, c) = "REDEEMED" /\ expiredIn(next, c) = FALSE
      /\ s = "EXPIRED" => stageIn(next, c) = "ISSUED" /\ expiredIn(next, c) = TRUE
      /\ \A d \in Issued \ {c} : /\ stageIn(next, d) = stageIn(rows, d)
                                 /\ expiredIn(next, d) = expiredIn(rows, d)
  <2>1. c \in DOMAIN rows /\ rows[c].state = "OPEN"
    BY <1>1
  <2>2. stageIn(rows, c) = "ISSUED" /\ expiredIn(rows, c) = FALSE
    BY <2>1 DEF stageIn, expiredIn
  <2>3. s = "CONSUMED" => stageIn(next, c) = "REDEEMED" /\ expiredIn(next, c) = FALSE
    BY <1>2, <2>1 DEF stageIn, expiredIn
  <2>4. s = "EXPIRED" => stageIn(next, c) = "ISSUED" /\ expiredIn(next, c) = TRUE
    BY <1>2, <2>1 DEF stageIn, expiredIn
  <2>5. \A d \in Issued \ {c} : stageIn(next, d) = stageIn(rows, d)
    BY <1>2, <2>1 DEF stageIn
  <2>6. \A d \in Issued \ {c} : expiredIn(next, d) = expiredIn(rows, d)
    BY <1>2, <2>1 DEF expiredIn
  <2> QED
    BY <2>2, <2>3, <2>4, <2>5, <2>6
<1>4. didChallenges = rows /\ didChallenges' = next
  BY <1>1, <1>2
<1>5. CASE s = "CONSUMED"
  <2>1. [d \in Issued |-> stageIn(didChallenges', d)] =
        [[d \in Issued |-> stageIn(didChallenges, d)] EXCEPT ![c] = "REDEEMED"]
    BY <1>3, <1>4, <1>5
  <2>2. [d \in Issued |-> expiredIn(didChallenges', d)] =
        [d \in Issued |-> expiredIn(didChallenges, d)]
    BY <1>3, <1>4, <1>5
  <2>3. Token!Redeem(c)
    BY <1>3, <1>4, <2>1, <2>2 DEF Token!Redeem
  <2> QED
    BY <2>3 DEF Token!Next
<1>6. CASE s = "EXPIRED"
  <2>1. [d \in Issued |-> stageIn(didChallenges', d)] =
        [d \in Issued |-> stageIn(didChallenges, d)]
    BY <1>3, <1>4, <1>6
  <2>2. [d \in Issued |-> expiredIn(didChallenges', d)] =
        [[d \in Issued |-> expiredIn(didChallenges, d)] EXCEPT ![c] = TRUE]
    BY <1>3, <1>4, <1>6
  <2>3. Token!Lapse(c)
    BY <1>3, <1>4, <2>1, <2>2 DEF Token!Lapse
  <2> QED
    BY <2>3 DEF Token!Next
<1> QED
  BY <1>5, <1>6

LEMMA VerificationSpends ==
    ASSUME DidInv, NEW r \in Requests, NEW signed \in BOOLEAN, verifyKey(r, signed)
    PROVE  [Token!Next]_(Token!tokenVars)
<1>1. PICK c \in Issued : c = req[r].challenge
  BY DEF DidInv, Ready, verifyKey, at, Verifying, Issued
<1>2. /\ c \in DOMAIN didChallenges /\ didChallenges[c].state = "CONSUMED"
      /\ \A v \in verified : v.challenge # c
  BY <1>1 DEF DidInv, Ready, Spent, verifyKey, at, Verifying
<1>3. didChallenges' = didChallenges
  BY DEF verifyKey
<1>4. CASE verified' = verified
  BY <1>3, <1>4, TokenStutters
<1>5. CASE verified' = verified \cup {[challenge |-> c, request |-> r]}
  <2>1. stageIn(didChallenges, c) = "REDEEMED" /\ timesIn(verified, c) = 0
    BY <1>2 DEF stageIn, timesIn
  <2>2. timesIn(verified', c) = 1
    <3> DEFINE w == [challenge |-> c, request |-> r]
    <3>1. w \in verified' /\ w.challenge = c
      BY <1>5
    <3> HIDE DEF w
    <3> QED
      BY <3>1 DEF timesIn
  <2>3. \A d \in Issued \ {c} : timesIn(verified', d) = timesIn(verified, d)
    <3> SUFFICES ASSUME NEW d \in Issued \ {c}
                 PROVE  timesIn(verified', d) = timesIn(verified, d)
      OBVIOUS
    <3>1. (\E v \in verified' : v.challenge = d) <=> (\E v \in verified : v.challenge = d)
      BY <1>5
    <3> QED
      BY <3>1 DEF timesIn
  <2>4. [d \in Issued |-> timesIn(verified', d)] =
        [[d \in Issued |-> timesIn(verified, d)] EXCEPT ![c] = 1]
    BY <2>2, <2>3
  <2>5. Token!Spend(c)
    BY <1>3, <2>1, <2>4 DEF Token!Spend
  <2> QED
    BY <2>5 DEF Token!Next
<1> QED
  BY <1>1, <1>4, <1>5 DEF verifyKey

LEMMA StepRefines == DidInv /\ [Next]_didAuthVars => [Token!Next]_(Token!tokenVars)
<1> SUFFICES ASSUME DidInv, [Next]_didAuthVars PROVE [Token!Next]_(Token!tokenVars)
  OBVIOUS
<1>1. CASE UNCHANGED <<didChallenges, verified>>
  BY <1>1, TokenStutters
<1>2. ASSUME NEW r \in Requests, challengeInsert(r)
      PROVE  [Token!Next]_(Token!tokenVars)
  BY <1>2, InsertIssues
<1>3. ASSUME NEW r \in Requests, NEW c \in 1 .. MaxChallenges, verifyConsume(r, c)
      PROVE  [Token!Next]_(Token!tokenVars)
  BY <1>3, RowMoves DEF verifyConsume, Issued
<1>4. ASSUME NEW r \in Requests, NEW signed \in BOOLEAN, verifyKey(r, signed)
      PROVE  [Token!Next]_(Token!tokenVars)
  BY <1>4, VerificationSpends
<1>5. ASSUME NEW c \in 1 .. MaxChallenges, challengeExpires(c)
      PROVE  [Token!Next]_(Token!tokenVars)
  BY <1>5, RowMoves DEF challengeExpires, Issued
<1>6. \/ UNCHANGED <<didChallenges, verified>>
      \/ \E r \in Requests : \/ challengeInsert(r)
                             \/ \E c \in 1 .. MaxChallenges : verifyConsume(r, c)
                             \/ \E signed \in BOOLEAN : verifyKey(r, signed)
      \/ \E c \in 1 .. MaxChallenges : challengeExpires(c)
  BY DEF Next, RequestStep, challengeCheck, challengeRead, verifyCheck, rotateRead, rotateWrite,
         setKeyRead, setKeyWrite, lifecycleRead, lifecycleWrite, statusRead, statusWrite,
         statusSync, didAuthVars
<1> QED
  BY <1>1, <1>2, <1>3, <1>4, <1>5, <1>6

(* createDidChallenge and verifyDidChallenge implement single-use tokens,  *)
(* for any number of handlers and challenges: a challenge is redeemed once *)
(* and before it expires, and authenticates at most once after that.       *)
THEOREM ChallengesImplement == Spec => Token!Spec
<1>1. Init => Token!Init
  <2> SUFFICES ASSUME Init PROVE Token!Init
    OBVIOUS
  <2>1. \A c \in Issued : c \notin DOMAIN didChallenges
    BY DEF Init, Issued
  <2>2. \A c \in Issued : /\ stageIn(didChallenges, c) = "NONE"
                          /\ expiredIn(didChallenges, c) = FALSE
    BY <2>1 DEF stageIn, expiredIn
  <2>3. \A c \in Issued : timesIn(verified, c) = 0
    BY DEF Init, timesIn
  <2> QED
    BY <2>2, <2>3 DEF Token!Init
<1> QED
  BY <1>1, StepRefines, DidInvariant, PTL DEF Spec, Token!Spec

============================================================================
