------------------------- MODULE AssetContentProofs -------------------------
(***************************************************************************)
(* Proofs about an asset's controlled content, for any number of handlers, *)
(* people, grants and uploads: the gate opens only for somebody who was    *)
(* active, related to the asset and had a step-up of his tried, at moments *)
(* since he asked, and version numbers have no gap.                        *)
(***************************************************************************)
EXTENDS AssetContent, TLAPS

AssetRow == [custodian : People, revoked : BOOLEAN]

Reading ==
    [pc : {"resolveActor", "grantProbe"}, who : People, action : Actions, row : AssetRow]
Asked == [pc : {"stepUpProbe", "allowed"}, who : People, action : Actions]
Numbering == [pc : {"getNextAssetVersionNumber"}, object : Objects]
Inserting == [pc : {"createAssetContentVersion"}, object : Objects, number : Nat]
Granting ==
    [pc : {"readExistingGrant", "reviveGrant"}, grantee : Grantees, permission : Permissions]

Handlers == {Idle} \cup Reading \cup Asked \cup Numbering \cup Inserting \cup Granting

Version == [number : Nat, object : Objects]

Tables ==
    /\ asset \in AssetRow
    /\ active \subseteq People
    /\ stored \subseteq Objects
    /\ versions \in Seq(Version)
    /\ VersionsGapless

(* What the row that the gate read says about the relation. *)
RelatedByRow(h) ==
    \/ h.who \in Admins \cup {Owner}
    \/ h.action # "MANAGE_ACCESS" /\ h.who = h.row.custodian
    \/ h.action = "VIEW" /\ ~isSensitiveOrAbove

(* The gate has seen what its place says, and of the row it read, what the *)
(* row says.                                                               *)
Gated(h, s) ==
    /\ h.pc \in {"resolveActor", "grantProbe"} =>
          /\ ~h.row.revoked => "asset" \in s
          /\ RelatedByRow(h) => "relation" \in s
    /\ h.pc = "grantProbe" => "identity" \in s /\ ~h.row.revoked
    /\ h.pc \in {"stepUpProbe", "allowed"} => {"identity", "asset", "relation"} \subseteq s
    /\ h.pc = "allowed" /\ needsStepUp(h.action) => "stepUp" \in s

Uploading(h) == h.pc \in {"getNextAssetVersionNumber", "createAssetContentVersion"}

(* An upload's object is stored and has no row yet, and the number it read *)
(* is taken or the next.                                                   *)
Uploads(h, st, vs) ==
    /\ Uploading(h) => h.object \in st /\ \A i \in DOMAIN vs : vs[i].object # h.object
    /\ h.pc = "createAssetContentVersion" => h.number \in 1 .. Len(vs) + 1

ContentInv ==
    /\ Tables
    /\ req \in [Requests -> Handlers]
    /\ seen \in [Requests -> SUBSET {"identity", "asset", "relation", "stepUp"}]
    /\ \A r \in Requests : Gated(req[r], seen[r]) /\ Uploads(req[r], stored, versions)
    /\ \A r, s \in Requests :
          Uploading(req[r]) /\ Uploading(req[s]) /\ req[r].object = req[s].object => r = s

---------------------------------------------------------------------------
(* A handler's place tells what it carries. *)
LEMMA Carries ==
    ASSUME NEW h \in Handlers
    PROVE  /\ h.pc \in {"resolveActor", "grantProbe"} => h \in Reading
           /\ h.pc \in {"stepUpProbe", "allowed"} => h \in Asked
           /\ h.pc = "getNextAssetVersionNumber" => h \in Numbering
           /\ h.pc = "createAssetContentVersion" => h \in Inserting
           /\ h.pc \in {"readExistingGrant", "reviveGrant"} => h \in Granting
<1>1. /\ Idle.pc = "idle"
      /\ h \in Reading => h.pc \in {"resolveActor", "grantProbe"}
      /\ h \in Asked => h.pc \in {"stepUpProbe", "allowed"}
      /\ h \in Numbering => h.pc = "getNextAssetVersionNumber"
      /\ h \in Inserting => h.pc = "createAssetContentVersion"
      /\ h \in Granting => h.pc \in {"readExistingGrant", "reviveGrant"}
  BY DEF Idle, Reading, Asked, Numbering, Inserting, Granting
<1> QED
  BY <1>1 DEF Handlers

LEMMA IdleReady ==
    /\ Idle \in Handlers /\ ~Uploading(Idle)
    /\ \A s, st, vs : Gated(Idle, s) /\ Uploads(Idle, st, vs)
BY DEF Idle, Handlers, Gated, Uploads, Uploading

LEMMA InitInv == Init => ContentInv
<1> SUFFICES ASSUME Init PROVE ContentInv
  OBVIOUS
<1>1. Tables
  BY ContentAssumption DEF Init, Tables, AssetRow, VersionsGapless
<1>2. \A r \in Requests : req[r] = Idle
  BY DEF Init
<1>3. req \in [Requests -> Handlers]
  BY IdleReady DEF Init
<1>4. seen \in [Requests -> SUBSET {"identity", "asset", "relation", "stepUp"}]
  BY DEF Init
<1> QED
  BY <1>1, <1>2, <1>3, <1>4, IdleReady DEF ContentInv

(* What observe keeps of a handler that is still in the gate. *)
LEMMA SeenGrows ==
    ASSUME observe, seen \in [Requests -> SUBSET {"identity", "asset", "relation", "stepUp"}]
    PROVE  /\ seen' \in [Requests -> SUBSET {"identity", "asset", "relation", "stepUp"}]
           /\ \A r \in Requests :
                 authorizing(r)' => /\ seen[r] \subseteq seen'[r]
                                    /\ facts(req[r].who, req[r].action)' \subseteq seen'[r]
<1>1. \A r \in Requests :
         seen'[r] = IF authorizing(r)' THEN seen[r] \cup facts(req[r].who, req[r].action)' ELSE {}
  BY DEF observe
<1>2. \A r \in Requests :
         facts(req[r].who, req[r].action)' \subseteq {"identity", "asset", "relation", "stepUp"}
  BY DEF facts
<1>3. seen' \in [Requests -> SUBSET {"identity", "asset", "relation", "stepUp"}]
  <2>1. \A r \in Requests : seen'[r] \in SUBSET {"identity", "asset", "relation", "stepUp"}
    BY <1>1, <1>2
  <2>2. seen' = [r \in Requests |-> seen'[r]]
    BY DEF observe
  <2> QED
    BY <2>1, <2>2
<1> QED
  BY <1>1, <1>3

LEMMA GatedStays ==
    ASSUME NEW h, NEW s, NEW s2, Gated(h, s),
           h.pc \in {"resolveActor", "grantProbe", "stepUpProbe", "allowed"} => s \subseteq s2
    PROVE  Gated(h, s2)
BY DEF Gated

(* The objects of the store and the rows only become more. *)
Grows(st, st2, vs, vs2) ==
    /\ st \subseteq st2
    /\ Len(vs) <= Len(vs2)

(* Every step moves one handler on, at most.                               *)
LEMMA HandlerMoves ==
    ASSUME ContentInv, observe, NEW r \in Requests, NEW h \in Handlers,
           req' = [req EXCEPT ![r] = h], Tables',
           Gated(h, seen'[r]), Uploads(h, stored', versions'),
           \A s \in Requests \ {r} : Uploads(req[s], stored', versions'),
           Uploading(h) =>
              \/ Uploading(req[r]) /\ h.object = req[r].object
              \/ \A s \in Requests : Uploading(req[s]) => req[s].object # h.object
    PROVE  ContentInv'
<1>1. req' \in [Requests -> Handlers] /\ req'[r] = h
      /\ \A s \in Requests \ {r} : req'[s] = req[s]
  BY DEF ContentInv
<1>2. /\ seen' \in [Requests -> SUBSET {"identity", "asset", "relation", "stepUp"}]
      /\ \A s \in Requests : authorizing(s)' => seen[s] \subseteq seen'[s]
  BY SeenGrows DEF ContentInv
<1>3. ASSUME NEW s \in Requests
      PROVE  Gated(req'[s], seen'[s]) /\ Uploads(req'[s], stored', versions')
  <2>1. CASE s = r
    BY <1>1, <2>1
  <2>2. CASE s # r
    <3>1. req'[s] = req[s] /\ Gated(req[s], seen[s])
      BY <1>1, <2>2 DEF ContentInv
    <3>2. Gated(req[s], seen'[s])
      BY <1>2, <3>1, GatedStays DEF authorizing
    <3> QED
      BY <2>2, <3>1, <3>2
  <2> QED
    BY <2>1, <2>2
<1>4. ASSUME NEW s \in Requests, NEW t \in Requests, Uploading(req'[s]), Uploading(req'[t]),
             req'[s].object = req'[t].object
      PROVE  s = t
  BY <1>1, <1>4 DEF ContentInv
<1> QED
  BY <1>1, <1>2, <1>3, <1>4 DEF ContentInv

(* A step that leaves the store and its rows and begins no upload. *)
LEMMA NoUpload ==
    ASSUME ContentInv, observe, NEW r \in Requests, NEW h \in Handlers,
           req' = [req EXCEPT ![r] = h], UNCHANGED <<stored, versions>>,
           asset' \in AssetRow, active' \subseteq People,
           Gated(h, seen'[r]), Uploading(h) => h = req[r]
    PROVE  ContentInv'
<1>1. Tables'
  BY DEF ContentInv, Tables, VersionsGapless
<1>2. Uploads(h, stored', versions')
  BY DEF ContentInv, Uploads, Uploading
<1>3. \A s \in Requests \ {r} : Uploads(req[s], stored', versions')
  BY DEF ContentInv
<1> QED
  BY <1>1, <1>2, <1>3, HandlerMoves

---------------------------------------------------------------------------
(* What a handler in the gate has seen after a step. *)
LEMMA Sees ==
    ASSUME ContentInv, observe, NEW r \in Requests, NEW p, NEW action,
           authorizing(r)', req'[r].who = p, req'[r].action = action
    PROVE  /\ seen[r] \subseteq seen'[r]
           /\ p \in active' => "identity" \in seen'[r]
           /\ ~asset'.revoked => "asset" \in seen'[r]
           /\ related(p, action)' => "relation" \in seen'[r]
           /\ [who |-> p, action |-> action] \in stepUp' => "stepUp" \in seen'[r]
<1>1. seen[r] \subseteq seen'[r] /\ facts(req[r].who, req[r].action)' \subseteq seen'[r]
  BY SeenGrows DEF ContentInv
<1>2. /\ p \in active' => "identity" \in facts(req[r].who, req[r].action)'
      /\ ~asset'.revoked => "asset" \in facts(req[r].who, req[r].action)'
      /\ related(p, action)' => "relation" \in facts(req[r].who, req[r].action)'
      /\ [who |-> p, action |-> action] \in stepUp' => "stepUp" \in facts(req[r].who, req[r].action)'
  BY DEF facts
<1> QED
  BY <1>1, <1>2

LEMMA GateBegins ==
    ASSUME ContentInv, observe, NEW r \in Requests, NEW p \in People, NEW action \in Actions,
           authorizeContentOperation(r, p, action)
    PROVE  ContentInv'
<1> DEFINE h == [pc |-> "resolveActor", who |-> p, action |-> action, row |-> asset]
<1>0. /\ req' = [req EXCEPT ![r] = h]
      /\ UNCHANGED <<asset, active, grants, stepUp, stored, versions>>
  BY DEF authorizeContentOperation, become, contentVars, aroundVars
<1>1. h \in Reading /\ h \in Handlers
  BY DEF ContentInv, Tables, Reading, Handlers
<1>2. h.pc = "resolveActor" /\ h.who = p /\ h.action = action /\ h.row = asset
  OBVIOUS
<1> HIDE DEF h
<1>3. req'[r] = h /\ authorizing(r)'
  BY <1>0, <1>2 DEF ContentInv, authorizing
<1>4. RelatedByRow(h) => related(p, action)'
  BY <1>0, <1>2 DEF RelatedByRow, related
<1>5. Gated(h, seen'[r])
  BY <1>0, <1>2, <1>3, <1>4, Sees DEF Gated
<1> QED
  BY <1>0, <1>1, <1>2, <1>5, NoUpload DEF ContentInv, Tables, Uploading

LEMMA ActorIsActive ==
    ASSUME ContentInv, observe, NEW r \in Requests, resolveActor(r)
    PROVE  ContentInv'
<1> DEFINE h == [req[r] EXCEPT !.pc = "grantProbe"]
<1>0. /\ req' = [req EXCEPT ![r] = h]
      /\ UNCHANGED <<asset, active, grants, stepUp, stored, versions>>
  BY DEF resolveActor, goto, become, contentVars, aroundVars
<1>1. req[r] \in Reading
  BY Carries DEF ContentInv, resolveActor, at
<1>2. h \in Reading /\ h.pc = "grantProbe" /\ h.who = req[r].who /\ h.action = req[r].action
      /\ h.row = req[r].row
  BY <1>1 DEF Reading
<1> HIDE DEF h
<1>3. req'[r] = h /\ authorizing(r)'
  BY <1>0, <1>2 DEF ContentInv, authorizing
<1>4. /\ req[r].who \in active /\ ~req[r].row.revoked
      /\ Gated(req[r], seen[r]) /\ req[r].pc = "resolveActor"
  BY DEF resolveActor, at, ContentInv
<1>5. seen[r] \subseteq seen'[r] /\ "identity" \in seen'[r]
  BY <1>0, <1>2, <1>3, <1>4, Sees
<1>6. Gated(h, seen'[r])
  BY <1>2, <1>4, <1>5 DEF Gated, RelatedByRow
<1>7. h \in Handlers /\ ~Uploading(h)
  BY <1>2 DEF Handlers, Uploading
<1> QED
  BY <1>0, <1>6, <1>7, NoUpload DEF ContentInv, Tables

(* Access by ownership, custody or a grant is access by a relation.        *)
LEMMA AccessIsRelated ==
    ASSUME NEW r \in Requests, req[r] \in Reading,
           evaluateContentAccess(r, listActiveAssetAccessGrants(req[r].who))
    PROVE  RelatedByRow(req[r]) \/ related(req[r].who, req[r].action)
<1> DEFINE p == req[r].who
           granted == listActiveAssetAccessGrants(p)
<1>0. granted = live(p)
  BY DEF listActiveAssetAccessGrants, live
<1>1. req[r].action \in Actions
  BY DEF Reading
<1>2. CASE req[r].action = "VIEW"
  <2>1. \/ p \in Admins \/ p = Owner \/ p = req[r].row.custodian \/ granted # {}
        \/ ~isSensitiveOrAbove
    <3> HIDE DEF granted
    <3> QED
      BY <1>2 DEF evaluateContentAccess, granted
  <2> HIDE DEF granted
  <2> QED
    BY <1>0, <1>2, <2>1 DEF RelatedByRow, related
<1>3. CASE req[r].action = "EDIT"
  <2>1. p \in Admins \/ p = Owner \/ p = req[r].row.custodian \/ "EDIT" \in granted
    <3> HIDE DEF granted
    <3> QED
      BY <1>3 DEF evaluateContentAccess, granted
  <2> HIDE DEF granted
  <2> QED
    BY <1>0, <1>3, <2>1 DEF RelatedByRow, related
<1>4. CASE req[r].action = "MANAGE_ACCESS"
  <2>1. p \in Admins \/ p = Owner
    BY <1>4 DEF evaluateContentAccess
  <2> QED
    BY <2>1 DEF RelatedByRow
<1> QED
  BY <1>1, <1>2, <1>3, <1>4 DEF Actions

LEMMA GrantsAreProbed ==
    ASSUME ContentInv, observe, NEW r \in Requests, grantProbe(r)
    PROVE  ContentInv'
<1> DEFINE pc == IF needsStepUp(req[r].action) THEN "stepUpProbe" ELSE "allowed"
           h == [pc |-> pc, who |-> req[r].who, action |-> req[r].action]
<1>0. /\ req' = [req EXCEPT ![r] = h]
      /\ UNCHANGED <<asset, active, grants, stepUp, stored, versions>>
  BY DEF grantProbe, become, contentVars, aroundVars
<1>1. req[r] \in Reading /\ req[r].pc = "grantProbe" /\ Gated(req[r], seen[r])
  BY Carries DEF ContentInv, grantProbe, at
<1>2. pc \in {"stepUpProbe", "allowed"} /\ (pc = "allowed" => ~needsStepUp(req[r].action))
  OBVIOUS
<1> HIDE DEF pc
<1>3. h \in Asked /\ h.pc = pc /\ h.who = req[r].who /\ h.action = req[r].action
  BY <1>1, <1>2 DEF Asked, Reading
<1> HIDE DEF h
<1>4. req'[r] = h /\ authorizing(r)'
  BY <1>0, <1>2, <1>3 DEF ContentInv, authorizing
<1>5. RelatedByRow(req[r]) \/ related(req[r].who, req[r].action)
  BY <1>1, AccessIsRelated DEF grantProbe
<1>6. related(req[r].who, req[r].action) => "relation" \in seen'[r]
  <2>1. PICK p, action : p = req[r].who /\ action = req[r].action
    OBVIOUS
  <2>2. related(p, action) => related(p, action)'
    BY <1>0 DEF related, live
  <2> QED
    BY <1>3, <1>4, <2>1, <2>2, Sees
<1>7. seen[r] \subseteq seen'[r]
  BY <1>4, Sees
<1>8. Gated(h, seen'[r])
  BY <1>1, <1>2, <1>3, <1>5, <1>6, <1>7 DEF Gated
<1>9. h \in Handlers /\ ~Uploading(h)
  BY <1>2, <1>3 DEF Handlers, Uploading
<1> QED
  BY <1>0, <1>8, <1>9, NoUpload DEF ContentInv, Tables

LEMMA StepUpIsProbed ==
    ASSUME ContentInv, observe, NEW r \in Requests, stepUpProbe(r)
    PROVE  ContentInv'
<1> DEFINE h == [req[r] EXCEPT !.pc = "allowed"]
<1>0. /\ req' = [req EXCEPT ![r] = h]
      /\ UNCHANGED <<asset, active, grants, stepUp, stored, versions>>
  BY DEF stepUpProbe, goto, become, contentVars, aroundVars
<1>1. req[r] \in Asked /\ req[r].pc = "stepUpProbe" /\ Gated(req[r], seen[r])
      /\ [who |-> req[r].who, action |-> req[r].action] \in stepUp
  BY Carries DEF ContentInv, stepUpProbe, at
<1>2. h \in Asked /\ h.pc = "allowed" /\ h.who = req[r].who /\ h.action = req[r].action
  BY <1>1 DEF Asked
<1> HIDE DEF h
<1>3. req'[r] = h /\ authorizing(r)'
  BY <1>0, <1>2 DEF ContentInv, authorizing
<1>4. seen[r] \subseteq seen'[r] /\ "stepUp" \in seen'[r]
  BY <1>0, <1>1, <1>2, <1>3, Sees
<1>5. Gated(h, seen'[r])
  BY <1>1, <1>2, <1>4 DEF Gated
<1>6. h \in Handlers /\ ~Uploading(h)
  BY <1>2 DEF Handlers, Uploading
<1> QED
  BY <1>0, <1>5, <1>6, NoUpload DEF ContentInv, Tables

---------------------------------------------------------------------------
(* A handler that ends, or that gives or revokes a grant. *)
LEMMA Ends ==
    ASSUME ContentInv, observe, NEW r \in Requests, done(r),
           UNCHANGED <<stored, versions, asset, active>>
    PROVE  ContentInv'
BY IdleReady, NoUpload DEF done, become, ContentInv, Tables

LEMMA GrantsChange ==
    ASSUME ContentInv, observe, NEW r \in Requests,
           \/ view(r) \/ fails(r) \/ readExistingGrant(r) \/ reviveGrant(r)
           \/ \E p \in Grantees, permission \in Permissions :
                 createAssetAccessGrant(r, p, permission) \/ revokeAssetAccessGrant(r, p, permission)
    PROVE  ContentInv'
<1>0. UNCHANGED <<stored, versions, asset, active>>
  BY DEF view, fails, readExistingGrant, reviveGrant, createAssetAccessGrant,
         revokeAssetAccessGrant, contentVars, aroundVars
<1>1. CASE done(r)
  BY <1>0, <1>1, Ends
<1>2. ASSUME NEW p \in Grantees, NEW permission \in Permissions,
             become(r, [pc |-> "readExistingGrant", grantee |-> p, permission |-> permission])
      PROVE  ContentInv'
  <2> DEFINE h == [pc |-> "readExistingGrant", grantee |-> p, permission |-> permission]
  <2>1. h \in Granting /\ h.pc = "readExistingGrant"
    BY DEF Granting
  <2>2. req' = [req EXCEPT ![r] = h]
    BY <1>2 DEF become
  <2> HIDE DEF h
  <2>3. h \in Handlers /\ ~Uploading(h) /\ \A s : Gated(h, s)
    BY <2>1 DEF Handlers, Uploading, Gated
  <2> QED
    BY <1>0, <2>2, <2>3, NoUpload DEF ContentInv, Tables
<1>3. CASE readExistingGrant(r)
  <2> DEFINE h == [req[r] EXCEPT !.pc = "reviveGrant"]
  <2>1. req[r] \in Granting
    BY <1>3, Carries DEF ContentInv, readExistingGrant, at
  <2>2. h \in Granting /\ h.pc = "reviveGrant"
    BY <2>1 DEF Granting
  <2>3. req' = [req EXCEPT ![r] = h]
    BY <1>3 DEF readExistingGrant, goto, become
  <2> HIDE DEF h
  <2>4. h \in Handlers /\ ~Uploading(h) /\ \A s : Gated(h, s)
    BY <2>2 DEF Handlers, Uploading, Gated
  <2> QED
    BY <1>0, <2>3, <2>4, NoUpload DEF ContentInv, Tables
<1> QED
  BY <1>1, <1>2, <1>3 DEF view, fails, reviveGrant, createAssetAccessGrant, revokeAssetAccessGrant

---------------------------------------------------------------------------
(* The uploads. *)
LEMMA Stores ==
    ASSUME ContentInv, observe, NEW r \in Requests, NEW o \in Objects, encryptAndStore(r, o)
    PROVE  ContentInv'
<1> DEFINE h == [pc |-> "getNextAssetVersionNumber", object |-> o]
<1>0. /\ req' = [req EXCEPT ![r] = h] /\ o \notin stored /\ stored' = stored \cup {o}
      /\ UNCHANGED <<asset, active, versions>>
  BY DEF encryptAndStore, become, aroundVars
<1>1. h \in Numbering /\ h.pc = "getNextAssetVersionNumber" /\ h.object = o
  BY DEF Numbering
<1> HIDE DEF h
<1>2. h \in Handlers /\ \A s : Gated(h, s)
  BY <1>1 DEF Handlers, Gated
<1>3. Tables'
  BY <1>0 DEF ContentInv, Tables, VersionsGapless
<1>4. \A i \in DOMAIN versions : versions[i].object \in stored
  BY DEF ContentInv, Tables, VersionsGapless
<1>5. Uploads(h, stored', versions')
  BY <1>0, <1>1, <1>4 DEF Uploads
<1>6. \A s \in Requests \ {r} : Uploads(req[s], stored', versions')
  BY <1>0 DEF ContentInv, Uploads
<1>7. \A s \in Requests : Uploading(req[s]) => req[s].object # h.object
  BY <1>0, <1>1 DEF ContentInv, Uploads
<1> QED
  BY <1>0, <1>2, <1>3, <1>5, <1>6, <1>7, HandlerMoves

(* The next number is one more than there are versions. *)
LEMMA NextNumber ==
    ASSUME Tables
    PROVE  LET numbers == {versions[i].number : i \in DOMAIN versions}
           IN  1 + (IF numbers = {} THEN 0
                    ELSE CHOOSE n \in numbers : \A m \in numbers : m <= n) = Len(versions) + 1
<1> DEFINE numbers == {versions[i].number : i \in DOMAIN versions}
           newest == CHOOSE n \in numbers : \A m \in numbers : m <= n
<1> SUFFICES 1 + (IF numbers = {} THEN 0 ELSE newest) = Len(versions) + 1
  OBVIOUS
<1>1. Len(versions) \in Nat /\ DOMAIN versions = 1 .. Len(versions)
  BY DEF Tables
<1>2. \A i \in DOMAIN versions : versions[i].number = i
  BY DEF Tables, VersionsGapless
<1>3. numbers = 1 .. Len(versions)
  BY <1>1, <1>2
<1> HIDE DEF numbers
<1>4. CASE Len(versions) = 0
  <2>1. numbers = {}
    BY <1>3, <1>4
  <2> QED
    BY <1>1, <1>4, <2>1
<1>5. CASE Len(versions) # 0
  <2>1. Len(versions) \in numbers /\ \A m \in numbers : m <= Len(versions)
    BY <1>1, <1>3, <1>5
  <2>2. newest \in numbers /\ \A m \in numbers : m <= newest
    BY <2>1
  <2> HIDE DEF newest
  <2>3. newest \in 1 .. Len(versions) /\ Len(versions) <= newest
    BY <1>3, <2>1, <2>2
  <2>4. newest = Len(versions)
    <3>1. \A a \in Nat : \A b \in 1 .. a : a <= b => b = a
      OBVIOUS
    <3> QED
      BY <1>1, <2>3, <3>1
  <2> QED
    BY <1>1, <2>1, <2>4
<1> QED
  BY <1>4, <1>5

LEMMA Numbers ==
    ASSUME ContentInv, observe, NEW r \in Requests, getNextAssetVersionNumber(r)
    PROVE  ContentInv'
<1> DEFINE n == Len(versions) + 1
           h == [pc |-> "createAssetContentVersion", object |-> req[r].object, number |-> n]
<1>0. UNCHANGED <<asset, active, stored, versions>>
  BY DEF getNextAssetVersionNumber, contentVars, aroundVars
<1>1. req' = [req EXCEPT ![r] = h]
  BY NextNumber DEF ContentInv, getNextAssetVersionNumber, become
<1>2. req[r] \in Numbering /\ Uploading(req[r]) /\ Uploads(req[r], stored, versions)
  BY Carries DEF ContentInv, getNextAssetVersionNumber, at, Uploading
<1>3. n \in Nat /\ n \in 1 .. Len(versions) + 1
  BY DEF ContentInv, Tables
<1> HIDE DEF n
<1>4. h \in Inserting /\ h.pc = "createAssetContentVersion" /\ h.object = req[r].object
      /\ h.number = n
  BY <1>2, <1>3 DEF Inserting, Numbering
<1> HIDE DEF h
<1>5. h \in Handlers /\ \A s : Gated(h, s)
  BY <1>4 DEF Handlers, Gated
<1>6. Tables'
  BY <1>0 DEF ContentInv, Tables, VersionsGapless
<1>7. Uploads(h, stored', versions')
  BY <1>0, <1>2, <1>3, <1>4 DEF Uploads
<1>8. \A s \in Requests \ {r} : Uploads(req[s], stored', versions')
  BY <1>0 DEF ContentInv
<1> QED
  BY <1>1, <1>2, <1>4, <1>5, <1>6, <1>7, <1>8, HandlerMoves

LEMMA Inserts ==
    ASSUME ContentInv, observe, NEW r \in Requests, createAssetContentVersion(r)
    PROVE  ContentInv'
<1> DEFINE q == [number |-> req[r].number, object |-> req[r].object]
           n == Len(versions) + 1
<1>0. /\ req' = [req EXCEPT ![r] = Idle] /\ versions' = Append(versions, q)
      /\ UNCHANGED <<asset, active, stored>>
  BY DEF createAssetContentVersion, done, become, aroundVars
<1>1. req[r] \in Inserting /\ Uploading(req[r]) /\ Uploads(req[r], stored, versions)
      /\ req[r].pc = "createAssetContentVersion"
  BY Carries DEF ContentInv, createAssetContentVersion, at, Uploading
<1>2. q \in Version /\ q.number = req[r].number /\ q.object = req[r].object
  BY <1>1 DEF Inserting, Version
<1> HIDE DEF q
<1>3. versions \in Seq(Version) /\ Len(versions) \in Nat /\ DOMAIN versions = 1 .. Len(versions)
  BY DEF ContentInv, Tables
<1>4. q.number = n
  <2>1. \A i \in DOMAIN versions : i # req[r].number
    BY DEF createAssetContentVersion, ContentInv, Tables, VersionsGapless
  <2>2. req[r].number \in 1 .. n
    BY <1>1 DEF Uploads
  <2> QED
    BY <1>2, <1>3, <2>1, <2>2
<1>5. /\ versions' \in Seq(Version) /\ Len(versions') = n
      /\ DOMAIN versions' = DOMAIN versions \cup {n} /\ versions'[n] = q
      /\ \A i \in DOMAIN versions : versions'[i] = versions[i]
  BY <1>0, <1>2, <1>3
<1>6. q.object \in stored /\ \A i \in DOMAIN versions : versions[i].object # q.object
  BY <1>1, <1>2 DEF Uploads
<1> HIDE DEF n
<1>7. Tables'
  BY <1>0, <1>4, <1>5, <1>6 DEF ContentInv, Tables, VersionsGapless
<1>8. ASSUME NEW s \in Requests \ {r} PROVE Uploads(req[s], stored', versions')
  <2>1. Uploading(req[s]) => req[s].object # q.object
    BY <1>1, <1>2 DEF ContentInv
  <2>2. Uploads(req[s], stored, versions)
    BY DEF ContentInv
  <2>3. Len(versions) + 1 = n /\ 1 .. Len(versions) + 1 \subseteq 1 .. Len(versions') + 1
    BY <1>3, <1>5 DEF n
  <2> QED
    BY <1>0, <1>5, <2>1, <2>2, <2>3 DEF Uploads
<1> QED
  BY <1>0, <1>7, <1>8, IdleReady, HandlerMoves

---------------------------------------------------------------------------
(* What changes around the content moves no handler.                       *)
LEMMA AroundChanges ==
    ASSUME ContentInv, observe, UNCHANGED <<req, stored, versions>>,
           asset' \in AssetRow, active' \subseteq People
    PROVE  ContentInv'
<1>1. Tables'
  BY DEF ContentInv, Tables, VersionsGapless
<1>2. /\ seen' \in [Requests -> SUBSET {"identity", "asset", "relation", "stepUp"}]
      /\ \A s \in Requests : authorizing(s)' => seen[s] \subseteq seen'[s]
  BY SeenGrows DEF ContentInv
<1>3. \A s \in Requests : Gated(req[s], seen'[s])
  BY <1>2, GatedStays DEF ContentInv, authorizing
<1> QED
  BY <1>1, <1>2, <1>3 DEF ContentInv

LEMMA StepInv ==
    ASSUME ContentInv, [Next]_allVars
    PROVE  ContentInv'
<1>1. CASE UNCHANGED allVars
  BY <1>1 DEF ContentInv, Tables, VersionsGapless, allVars, contentVars, aroundVars
<1>2. ASSUME observe, NEW r \in Requests, ContentStep(r) \/ fails(r)
      PROVE  ContentInv'
  BY <1>2, GateBegins, ActorIsActive, GrantsAreProbed, StepUpIsProbed, GrantsChange,
     Stores, Numbers, Inserts DEF ContentStep
<1>3. ASSUME observe, assetChanges
      PROVE  ContentInv'
  <2>1. asset' \in AssetRow
    BY <1>3 DEF assetChanges, ContentInv, Tables, AssetRow
  <2> QED
    BY <1>3, <2>1, AroundChanges DEF assetChanges, contentVars, ContentInv, Tables
<1>4. ASSUME observe, NEW p \in Changing, identityChanges(p)
      PROVE  ContentInv'
  <2>1. active' \subseteq People
    BY <1>4, ContentAssumption DEF identityChanges, ContentInv, Tables
  <2> QED
    BY <1>4, <2>1, AroundChanges DEF identityChanges, contentVars, ContentInv, Tables
<1>5. ASSUME observe, NEW p \in Changing, NEW action \in Permissions, stepUpChanges(p, action)
      PROVE  ContentInv'
  BY <1>5, AroundChanges DEF stepUpChanges, contentVars, ContentInv, Tables
<1> QED
  BY <1>1, <1>2, <1>3, <1>4, <1>5 DEF Next

(* Every handler in the gate has seen what its place requires, an upload   *)
(* holds an object of its own, and the tables are typed and gapless.       *)
THEOREM ContentInvariant == Spec => []ContentInv
<1>1. ContentInv /\ [Next]_allVars => ContentInv'
  BY StepInv
<1> QED
  BY InitInv, <1>1, PTL DEF Spec

(* authorizeContentOperation lets an operation through only for somebody   *)
(* who, since asking, was an active identity related to an asset that was  *)
(* not revoked, with a step-up for this purpose where one is needed.       *)
THEOREM GateCorrect == Spec => []GateFollowsRelation
<1>1. ContentInv => GateFollowsRelation
  BY DEF ContentInv, Gated, GateFollowsRelation, at
<1> QED
  BY <1>1, ContentInvariant, PTL

(* The versions of asset_content_versions are numbered without a gap, each *)
(* with an object of its own in the store, however many uploads race for   *)
(* the next number.                                                        *)
THEOREM VersionsCorrect == Spec => []VersionsGapless
<1>1. ContentInv => VersionsGapless
  BY DEF ContentInv, Tables
<1> QED
  BY <1>1, ContentInvariant, PTL

=============================================================================
