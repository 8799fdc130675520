------------------------------ MODULE DidAuth ------------------------------
(***************************************************************************)
(* DID challenge-response, key lifecycle and identity status of one DID:   *)
(* server/modules/did/did-auth.service.ts, the status writers of           *)
(* server/db.ts, and the handlers that call them.  A handler awaits every  *)
(* query, so its queries are separate steps and handlers interleave; one   *)
(* UPDATE, or one transaction, is one step.  The on-chain status call that *)
(* follows a status write is a call of SampraanIdentityRegistry and comes  *)
(* back to nothing here.  A signature either recovers to the DID's wallet  *)
(* over the stored message or does not.                                    *)
(***************************************************************************)
EXTENDS Naturals, Sequences, FiniteSets

CONSTANTS
    Requests,           \* handlers that can run at the same time
    MaxChallenges,      \* bound: challenges issued
    MaxGeneration       \* bound: key generations

ASSUME DidAuthAssumption == {MaxChallenges, MaxGeneration} \subseteq Nat /\ MaxGeneration > 0

Generations == 1 .. MaxGeneration
LifecycleStates == {"PENDING", "VERIFIED", "SUSPENDED"}
IdentityStatuses == {"ACTIVE", "SUSPENDED", "REVOKED"}

VARIABLES
    status,             \* identities.status
    lifecycleState,     \* identities.lifecycleState
    didStatus,          \* did_records.status
    keyStatus,          \* did_records.keyStatus
    keyIdentifier,      \* did_records.keyIdentifier, by its generation
    didKeyRecords,      \* generation -> status of its history row
    didChallenges,      \* rows of did_challenges: [keyIdentifier, state]
    req,                \* request -> where its handler is and what it has read
    verified,           \* the successful verifications: [challenge, request]
    seen                \* request -> what was true since it consumed its challenge

identityVars == <<status, lifecycleState, didStatus>>
keyVars == <<keyStatus, keyIdentifier, didKeyRecords>>
didAuthVars == <<identityVars, keyVars, didChallenges, req, verified, seen>>

Idle == [pc |-> "idle", challenge |-> 0, key |-> 0, to |-> "NONE"]

(* A DID created by identities.create, before any rotation: lifecycleState *)
(* is left to its column default, whatever status was asked for.           *)
Init ==
    /\ status \in IdentityStatuses
    /\ lifecycleState = "VERIFIED"
    /\ didStatus = IF status = "ACTIVE" THEN "ACTIVE" ELSE "REVOKED"
    /\ keyStatus = "ACTIVE"
    /\ keyIdentifier = 1
    /\ didKeyRecords = [g \in Generations |-> "NONE"]
    /\ didChallenges = << >>
    /\ req = [r \in Requests |-> Idle]
    /\ verified = {}
    /\ seen = [r \in Requests |-> {}]

at(r, pc) == req[r].pc = pc
goto(r, next) == req' = [req EXCEPT ![r] = next]
done(r) == goto(r, Idle)

(* assertDidUsable; keyStatus ROTATED is never written. *)
didUsable == didStatus # "REVOKED" /\ keyStatus = "ACTIVE" /\ status = "ACTIVE"

---------------------------------------------------------------------------
Issuing(q) == q.pc \in {"challengeRead", "challengeInsert"}

(* createDidChallenge: check, read the current key, insert. *)
challengeCheck(r) ==
    /\ at(r, "idle") /\ didUsable
    /\ Len(didChallenges) + Cardinality({q \in Requests : Issuing(req[q])}) < MaxChallenges
    /\ goto(r, [Idle EXCEPT !.pc = "challengeRead"])
    /\ UNCHANGED <<identityVars, keyVars, didChallenges, verified>>

challengeRead(r) ==
    /\ at(r, "challengeRead")
    /\ goto(r, [req[r] EXCEPT !.pc = "challengeInsert", !.key = keyIdentifier])
    /\ UNCHANGED <<identityVars, keyVars, didChallenges, verified>>

challengeInsert(r) ==
    /\ at(r, "challengeInsert")
    /\ didChallenges' = Append(didChallenges, [keyIdentifier |-> req[r].key, state |-> "OPEN"])
    /\ done(r)
    /\ UNCHANGED <<identityVars, keyVars, verified>>

(* CHALLENGE_TTL_MS passes. *)
challengeExpires(c) ==
    /\ c \in DOMAIN didChallenges /\ didChallenges[c].state = "OPEN"
    /\ didChallenges' = [didChallenges EXCEPT ![c].state = "EXPIRED"]
    /\ UNCHANGED <<identityVars, keyVars, req, verified>>

(* Mutant: the UPDATE does not ask whether the challenge is still open. *)
verifyConsumeUnguarded(r, c) ==
    /\ at(r, "idle")
    /\ c \in DOMAIN didChallenges
    /\ didChallenges' = [didChallenges EXCEPT ![c].state = "CONSUMED"]
    /\ goto(r, [Idle EXCEPT !.pc = "verifyCheck", !.challenge = c])
    /\ UNCHANGED <<identityVars, keyVars, verified>>

(* verifyDidChallenge: the guarded UPDATE consumes the row before anything *)
(* else is looked at; every later refusal leaves it consumed.              *)
verifyConsume(r, c) ==
    /\ at(r, "idle")
    /\ c \in DOMAIN didChallenges /\ didChallenges[c].state = "OPEN"
    /\ didChallenges' = [didChallenges EXCEPT ![c].state = "CONSUMED"]
    /\ goto(r, [Idle EXCEPT !.pc = "verifyCheck", !.challenge = c])
    /\ UNCHANGED <<identityVars, keyVars, verified>>

(* Mutant: the DID is checked when the challenge is issued and not again. *)
verifyCheckSkipped(r) ==
    /\ at(r, "verifyCheck")
    /\ goto(r, [req[r] EXCEPT !.pc = "verifyKey"])
    /\ UNCHANGED <<identityVars, keyVars, didChallenges, verified>>

(* Mutant: a refusal gives the challenge back. *)
verifyCheckReopening(r) ==
    /\ at(r, "verifyCheck")
    /\ IF didUsable
         THEN goto(r, [req[r] EXCEPT !.pc = "verifyKey"]) /\ UNCHANGED didChallenges
         ELSE done(r) /\ didChallenges' = [didChallenges EXCEPT ![req[r].challenge].state = "OPEN"]
    /\ UNCHANGED <<identityVars, keyVars, verified>>

verifyCheck(r) ==
    /\ at(r, "verifyCheck")
    /\ IF didUsable THEN goto(r, [req[r] EXCEPT !.pc = "verifyKey"]) ELSE done(r)
    /\ UNCHANGED <<identityVars, keyVars, didChallenges, verified>>

verifyKey(r, signed) ==
    /\ at(r, "verifyKey")
    /\ verified' = IF signed /\ didChallenges[req[r].challenge].keyIdentifier = keyIdentifier
                     THEN verified \cup {[challenge |-> req[r].challenge, request |-> r]}
                     ELSE verified
    /\ done(r)
    /\ UNCHANGED <<identityVars, keyVars, didChallenges>>

---------------------------------------------------------------------------
(* rotateDidKey: the record is read before the transaction and not again.  *)
rotateRead(r) ==
    /\ at(r, "idle")
    /\ didStatus # "REVOKED" /\ keyStatus # "REVOKED"
    /\ keyIdentifier < MaxGeneration
    /\ goto(r, [Idle EXCEPT !.pc = "rotateWrite", !.key = keyIdentifier])
    /\ UNCHANGED <<identityVars, keyVars, didChallenges, verified>>

rotateWrite(r) ==
    /\ at(r, "rotateWrite")
    /\ didKeyRecords' = [didKeyRecords EXCEPT ![req[r].key] = "ROTATED",
                                              ![req[r].key + 1] = "ACTIVE"]
    /\ keyStatus' = "ACTIVE"
    /\ keyIdentifier' = req[r].key + 1
    /\ done(r)
    /\ UNCHANGED <<identityVars, didChallenges, verified>>

(* setDidKeyStatus, by an administrator. *)
setKeyRead(r, to) ==
    /\ at(r, "idle")
    /\ goto(r, [Idle EXCEPT !.pc = "setKeyWrite", !.key = keyIdentifier, !.to = to])
    /\ UNCHANGED <<identityVars, keyVars, didChallenges, verified>>

setKeyWrite(r) ==
    /\ at(r, "setKeyWrite")
    /\ keyStatus' = req[r].to
    /\ didKeyRecords' = [didKeyRecords EXCEPT ![req[r].key] = req[r].to]
    /\ done(r)
    /\ UNCHANGED <<identityVars, keyIdentifier, didChallenges, verified>>

---------------------------------------------------------------------------
(* lifecycle.verify, suspend, reactivate: a check of the state read, then  *)
(* updateIdentityLifecycle.  Nothing writes PENDING, so verify never runs. *)
LifecycleMoves == {<<"PENDING", "VERIFIED">>, <<"VERIFIED", "SUSPENDED">>,
                   <<"SUSPENDED", "VERIFIED">>}
statusOf(lifecycle) == IF lifecycle = "VERIFIED" THEN "ACTIVE" ELSE "SUSPENDED"

lifecycleRead(r, to) ==
    /\ at(r, "idle") /\ <<lifecycleState, to>> \in LifecycleMoves
    /\ goto(r, [Idle EXCEPT !.pc = "lifecycleWrite", !.to = to])
    /\ UNCHANGED <<identityVars, keyVars, didChallenges, verified>>

lifecycleWrite(r) ==
    /\ at(r, "lifecycleWrite")
    /\ lifecycleState' = req[r].to
    /\ status' = statusOf(req[r].to)
    /\ goto(r, [req[r] EXCEPT !.pc = "statusSync", !.to = statusOf(req[r].to)])
    /\ UNCHANGED <<didStatus, keyVars, didChallenges, verified>>

(* identities.setStatus: the same with applyIdentityStatusChange, which    *)
(* leaves lifecycleState alone.                                            *)
statusRead(r, to) ==
    /\ at(r, "idle") /\ status # to
    /\ goto(r, [Idle EXCEPT !.pc = "statusWrite", !.to = to])
    /\ UNCHANGED <<identityVars, keyVars, didChallenges, verified>>

statusWrite(r) ==
    /\ at(r, "statusWrite")
    /\ status' = req[r].to
    /\ goto(r, [req[r] EXCEPT !.pc = "statusSync"])
    /\ UNCHANGED <<lifecycleState, didStatus, keyVars, didChallenges, verified>>

(* Mutant: the DID record gets the identity's status. *)
statusSyncCopied(r) ==
    /\ at(r, "statusSync")
    /\ didStatus' = req[r].to
    /\ done(r)
    /\ UNCHANGED <<status, lifecycleState, keyVars, didChallenges, verified>>

(* Both end by writing the DID record, from what they were asked for.      *)
statusSync(r) ==
    /\ at(r, "statusSync")
    /\ didStatus' = IF req[r].to = "ACTIVE" THEN "ACTIVE" ELSE "REVOKED"
    /\ done(r)
    /\ UNCHANGED <<status, lifecycleState, keyVars, didChallenges, verified>>

---------------------------------------------------------------------------
RequestStep(r) ==
    \/ challengeCheck(r) \/ challengeRead(r) \/ challengeInsert(r)
    \/ \E c \in 1 .. MaxChallenges : verifyConsume(r, c)
    \/ verifyCheck(r)
    \/ \E signed \in BOOLEAN : verifyKey(r, signed)
    \/ rotateRead(r) \/ rotateWrite(r)
    \/ \E to \in {"ACTIVE", "REVOKED"} : setKeyRead(r, to)
    \/ setKeyWrite(r)
    \/ \E to \in LifecycleStates : lifecycleRead(r, to)
    \/ lifecycleWrite(r)
    \/ \E to \in IdentityStatuses : statusRead(r, to)
    \/ statusWrite(r) \/ statusSync(r)

(* History: which facts held in some state since the challenge of a        *)
(* verification in progress was consumed.                                  *)
Verifying(q) == q.pc \in {"verifyCheck", "verifyKey"}
observe ==
    seen' = [r \in Requests |->
               IF ~Verifying(req'[r]) THEN {}
               ELSE seen[r]
                    \cup (IF didUsable' THEN {"usable"} ELSE {})
                    \cup (IF didChallenges'[req'[r].challenge].keyIdentifier = keyIdentifier'
                            THEN {"currentKey"} ELSE {})]

Next ==
    /\ \/ \E r \in Requests : RequestStep(r)
       \/ \E c \in 1 .. MaxChallenges : challengeExpires(c)
    /\ observe

Spec == Init /\ [][Next]_didAuthVars

TypeOK ==
    /\ status \in IdentityStatuses
    /\ lifecycleState \in LifecycleStates
    /\ didStatus \in {"ACTIVE", "REVOKED"}
    /\ keyStatus \in {"ACTIVE", "REVOKED"}
    /\ keyIdentifier \in Generations
    /\ didKeyRecords \in [Generations -> {"NONE", "ACTIVE", "ROTATED", "REVOKED"}]
    /\ didChallenges \in Seq([keyIdentifier : Generations,
                              state : {"OPEN", "CONSUMED", "EXPIRED"}])
    /\ DOMAIN req = Requests
    /\ verified \subseteq [challenge : 1 .. MaxChallenges, request : Requests]
    /\ seen \in [Requests -> SUBSET {"usable", "currentKey"}]

---------------------------------------------------------------------------
(* A challenge authenticates at most once, even when several verifications *)
(* of it run at the same time, and never after it expired.                 *)
ChallengeSingleUse ==
    /\ \A v, w \in verified : v.challenge = w.challenge => v = w
    /\ \A v \in verified : didChallenges[v.challenge].state = "CONSUMED"
    /\ \A r, s \in Requests :
          Verifying(req[r]) /\ Verifying(req[s]) /\ req[r].challenge = req[s].challenge => r = s

(* A verification succeeds only if, after its challenge was consumed, the  *)
(* DID, its key and its identity were all usable at one moment and the key *)
(* the challenge was issued for was current at one moment: a revocation,   *)
(* suspension or rotation that came first and stood wins.                  *)
VerificationJustified ==
    [][\A v \in verified' \ verified : seen[v.request] = {"usable", "currentKey"}]_didAuthVars

(* A refused or interrupted verification never gives its challenge back,   *)
(* and a challenge stays bound to the key it was issued for.               *)
ChallengesSettle ==
    [][\A c \in DOMAIN didChallenges :
          /\ didChallenges'[c].keyIdentifier = didChallenges[c].keyIdentifier
          /\ didChallenges[c].state # "OPEN" => didChallenges'[c] = didChallenges[c]]_didAuthVars

==========================================================================
