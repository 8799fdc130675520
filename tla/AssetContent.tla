---------------------------- MODULE AssetContent ----------------------------
(***************************************************************************)
(* The controlled content of one asset: its versions, its access grants,   *)
(* and the gate every content route passes.  Every await is a step of its  *)
(* own, handlers interleave, and any of them may end where it is.  Files,  *)
(* encryption and hashes are left out: an object is in the store or not,   *)
(* and an upload that is refused for its bytes ends as a failure does.     *)
(***************************************************************************)
EXTENDS Integers, Sequences, FiniteSets

CONSTANTS
    Requests,           \* handlers that can run at the same time
    People,             \* identities linked to a session
    Owner,              \* ownerIdentityId
    Admins,             \* administrators, of the platform or by role
    Readers,            \* holders of asset:read
    Editors,            \* holders of asset:edit
    Assigners,          \* holders of asset:assign
    Grantees,           \* identities the managers give grants to
    Changing,           \* identities that are suspended, reactivated, stepped up
    Classification,     \* of the asset
    Objects             \* names the store can give

ASSUME ContentAssumption ==
    /\ Owner \in People
    /\ UNION {Admins, Readers, Editors, Assigners, Grantees, Changing} \subseteq People
    /\ Classification \in {"PUBLIC", "CONTROLLED", "SENSITIVE", "HIGHLY_SENSITIVE", "CRITICAL"}

Permissions == {"VIEW", "EDIT"}
Actions == {"VIEW", "EDIT", "MANAGE_ACCESS"}

VARIABLES
    asset,              \* the row of assets: [custodian, revoked]
    active,             \* the identities that are ACTIVE and VERIFIED
    grants,             \* rows of asset_access_grants, by grantee and permission
    stepUp,             \* [who, action]: tried for this purpose not long ago
    stored,             \* objects in the content store
    versions,           \* rows of asset_content_versions, in order of insertion
    req,                \* request -> where its handler is and what it has read
    seen                \* request -> what was true since it came in

contentVars == <<grants, stored, versions>>
aroundVars == <<asset, active, stepUp>>
allVars == <<contentVars, aroundVars, req, seen>>

Idle == [pc |-> "idle"]

Init ==
    /\ asset = [custodian |-> Owner, revoked |-> FALSE]
    /\ active = People
    /\ grants = [g \in Grantees \X Permissions |-> "NONE"]
    /\ stepUp = {}
    /\ stored = {}
    /\ versions = << >>
    /\ req = [r \in Requests |-> Idle]
    /\ seen = [r \in Requests |-> {}]

at(r, pc) == req[r].pc = pc
become(r, h) == req' = [req EXCEPT ![r] = h]
goto(r, pc) == become(r, [req[r] EXCEPT !.pc = pc])
done(r) == become(r, Idle)

fails(r) ==
    /\ ~at(r, "idle")
    /\ done(r)
    /\ UNCHANGED <<contentVars, aroundVars>>

isSensitiveOrAbove == Classification \in {"SENSITIVE", "HIGHLY_SENSITIVE", "CRITICAL"}
isHighlySensitive == Classification \in {"HIGHLY_SENSITIVE", "CRITICAL"}

(* Mutant: revoked grants are listed too. *)
listAllAssetAccessGrants(p) ==
    {permission \in Permissions : p \in Grantees /\ grants[<<p, permission>>] # "NONE"}

listActiveAssetAccessGrants(p) ==
    {permission \in Permissions : p \in Grantees /\ grants[<<p, permission>>] = "LIVE"}

holdsPermission(p, action) ==
    p \in Admins \cup (CASE action = "VIEW" -> Readers [] action = "EDIT" -> Editors
                         [] OTHER -> Assigners)

---------------------------------------------------------------------------
(* authorizeContentOperation: the asset, the actor, then                   *)
(* evaluateContentAccess with its probes.                                  *)
authorizeContentOperation(r, p, action) ==
    /\ at(r, "idle")
    /\ become(r, [pc |-> "resolveActor", who |-> p, action |-> action, row |-> asset])
    /\ UNCHANGED <<contentVars, aroundVars>>

resolveActor(r) ==
    /\ at(r, "resolveActor")
    /\ req[r].who \in active /\ ~req[r].row.revoked
    /\ goto(r, "grantProbe")
    /\ UNCHANGED <<contentVars, aroundVars>>

(* Ownership, custody and grants say who may act; the permission says what *)
(* they may do, except that it is not asked of a related viewer.           *)
evaluateContentAccess(r, granted) ==
    LET p == req[r].who
        isAdmin == p \in Admins
        isOwner == p = Owner
        isCustodian == p = req[r].row.custodian
        access ==
            CASE req[r].action = "VIEW" ->
                    \/ isAdmin \/ isOwner \/ isCustodian \/ granted # {}
                    \/ (holdsPermission(p, "VIEW") /\ ~isHighlySensitive)
              [] req[r].action = "EDIT" -> isAdmin \/ isOwner \/ isCustodian \/ "EDIT" \in granted
              [] OTHER -> isAdmin \/ isOwner
    IN  /\ access
        /\ req[r].action = "VIEW" \/ holdsPermission(p, req[r].action)
        /\ (req[r].action = "VIEW" /\ isSensitiveOrAbove) =>
              isAdmin \/ isOwner \/ isCustodian \/ granted # {}

needsStepUp(action) == action = "EDIT" \/ (action = "VIEW" /\ isSensitiveOrAbove)

grantProbe(r) ==
    /\ at(r, "grantProbe")
    /\ evaluateContentAccess(r, listActiveAssetAccessGrants(req[r].who))
    /\ become(r, [pc |-> IF needsStepUp(req[r].action) THEN "stepUpProbe" ELSE "allowed",
                  who |-> req[r].who, action |-> req[r].action])
    /\ UNCHANGED <<contentVars, aroundVars>>

(* hasValidStepUp: a challenge of this purpose consumed not long ago, one  *)
(* whose signature was refused included; asking does not use it up.        *)
stepUpProbe(r) ==
    /\ at(r, "stepUpProbe")
    /\ [who |-> req[r].who, action |-> req[r].action] \in stepUp
    /\ goto(r, "allowed")
    /\ UNCHANGED <<contentVars, aroundVars>>

---------------------------------------------------------------------------
(* list, detail, view, verifyIntegrity, grants: nothing changes.*)
view(r) ==
    /\ at(r, "allowed") /\ req[r].action \in {"VIEW", "MANAGE_ACCESS"}
    /\ done(r)
    /\ UNCHANGED <<contentVars, aroundVars>>

(* createVersion: the object is stored under a fresh reference, then the   *)
(* next number is read, then the row is inserted; the number is unique.    *)
encryptAndStore(r, o) ==
    /\ at(r, "allowed") /\ req[r].action = "EDIT"
    /\ o \notin stored
    /\ stored' = stored \cup {o}
    /\ become(r, [pc |-> "getNextAssetVersionNumber", object |-> o])
    /\ UNCHANGED <<grants, versions, aroundVars>>

getNextAssetVersionNumber(r) ==
    LET numbers == {versions[i].number : i \in DOMAIN versions} IN
    /\ at(r, "getNextAssetVersionNumber")
    /\ become(r, [pc |-> "createAssetContentVersion", object |-> req[r].object,
                  number |-> 1 + (IF numbers = {} THEN 0
                                  ELSE CHOOSE n \in numbers : \A m \in numbers : m <= n)])
    /\ UNCHANGED <<contentVars, aroundVars>>

(* Mutant: no unique index over the asset and the number. *)
createAssetContentVersionAnyNumber(r) ==
    /\ at(r, "createAssetContentVersion")
    /\ versions' = Append(versions, [number |-> req[r].number, object |-> req[r].object])
    /\ done(r)
    /\ UNCHANGED <<grants, stored, aroundVars>>

(* The loser of a race leaves an object without a row. *)
createAssetContentVersion(r) ==
    /\ at(r, "createAssetContentVersion")
    /\ \A i \in DOMAIN versions : versions[i].number # req[r].number
    /\ versions' = Append(versions, [number |-> req[r].number, object |-> req[r].object])
    /\ done(r)
    /\ UNCHANGED <<grants, stored, aroundVars>>

(* grant: an insert, or the revival of a revoked row. *)
createAssetAccessGrant(r, p, permission) ==
    /\ at(r, "allowed") /\ req[r].action = "MANAGE_ACCESS"
    /\ IF grants[<<p, permission>>] = "NONE"
         THEN grants' = [grants EXCEPT ![<<p, permission>>] = "LIVE"] /\ done(r)
         ELSE /\ become(r, [pc |-> "readExistingGrant", grantee |-> p, permission |-> permission])
              /\ UNCHANGED grants
    /\ UNCHANGED <<stored, versions, aroundVars>>

readExistingGrant(r) ==
    /\ at(r, "readExistingGrant")
    /\ grants[<<req[r].grantee, req[r].permission>>] = "REVOKED"
    /\ goto(r, "reviveGrant")
    /\ UNCHANGED <<contentVars, aroundVars>>

reviveGrant(r) ==
    /\ at(r, "reviveGrant")
    /\ grants' = [grants EXCEPT ![<<req[r].grantee, req[r].permission>>] = "LIVE"]
    /\ done(r)
    /\ UNCHANGED <<stored, versions, aroundVars>>

revokeAssetAccessGrant(r, p, permission) ==
    /\ at(r, "allowed") /\ req[r].action = "MANAGE_ACCESS"
    /\ grants[<<p, permission>>] = "LIVE"
    /\ grants' = [grants EXCEPT ![<<p, permission>>] = "REVOKED"]
    /\ done(r)
    /\ UNCHANGED <<stored, versions, aroundVars>>

---------------------------------------------------------------------------
(* Around the content: custody moves, the asset is revoked, identities are *)
(* suspended and reactivated, step-ups are tried and lapse.                *)
assetChanges ==
    /\ \/ \E p \in People \ {asset.custodian} : asset' = [asset EXCEPT !.custodian = p]
       \/ (~asset.revoked /\ asset' = [asset EXCEPT !.revoked = TRUE])
    /\ UNCHANGED <<contentVars, active, stepUp, req>>

identityChanges(p) ==
    /\ active' = IF p \in active THEN active \ {p} ELSE active \cup {p}
    /\ UNCHANGED <<contentVars, asset, stepUp, req>>

stepUpChanges(p, action) ==
    LET s == [who |-> p, action |-> action] IN
    /\ stepUp' = IF s \in stepUp THEN stepUp \ {s} ELSE stepUp \cup {s}
    /\ UNCHANGED <<contentVars, asset, active, req>>

ContentStep(r) ==
    \/ \E p \in People, action \in Actions : authorizeContentOperation(r, p, action)
    \/ resolveActor(r) \/ grantProbe(r) \/ stepUpProbe(r) \/ view(r)
    \/ \E o \in Objects : encryptAndStore(r, o)
    \/ getNextAssetVersionNumber(r) \/ createAssetContentVersion(r)
    \/ \E p \in Grantees, permission \in Permissions :
          createAssetAccessGrant(r, p, permission) \/ revokeAssetAccessGrant(r, p, permission)
    \/ readExistingGrant(r) \/ reviveGrant(r)

(* History: what held at some moment since the request came in. *)
authorizing(r) == req[r].pc \in {"resolveActor", "grantProbe", "stepUpProbe", "allowed"}
live(p) == {permission \in Permissions : p \in Grantees /\ grants[<<p, permission>>] = "LIVE"}
related(p, action) ==
    \/ p \in Admins \cup {Owner}
    \/ (action # "MANAGE_ACCESS" /\ p = asset.custodian)
    \/ (action = "EDIT" /\ "EDIT" \in live(p))
    \/ /\ action = "VIEW"
       /\ ~isSensitiveOrAbove \/ live(p) # {}
facts(p, action) ==
    {f \in {"identity", "asset", "relation", "stepUp"} :
        CASE f = "identity" -> p \in active
          [] f = "asset" -> ~asset.revoked
          [] f = "relation" -> related(p, action)
          [] OTHER -> [who |-> p, action |-> action] \in stepUp}

observe ==
    seen' = [r \in Requests |->
                IF authorizing(r)' THEN seen[r] \cup facts(req[r].who, req[r].action)' ELSE {}]

Next ==
    /\ \/ \E r \in Requests : ContentStep(r) \/ fails(r)
       \/ assetChanges
       \/ \E p \in Changing : identityChanges(p) \/ \E action \in Permissions : stepUpChanges(p, action)
    /\ observe

Spec == Init /\ [][Next]_allVars

---------------------------------------------------------------------------
(* The gate opens only for an identity that, since the request came in,    *)
(* was active, had a step-up for this purpose if one is needed (tried, as  *)
(* hasValidStepUp reads it), and was related to the asset: administrator,  *)
(* owner, custodian, holder of a live grant, or anybody if the content is  *)
(* not sensitive. What was revoked before the request counts, in whatever  *)
(* order the gate reads it.                                                *)
GateFollowsRelation ==
    \A r \in Requests :
        at(r, "allowed") =>
            /\ {"identity", "asset", "relation"} \subseteq seen[r]
            /\ needsStepUp(req[r].action) => "stepUp" \in seen[r]

(* Version numbers are 1, 2, 3, ... in the order of creation although two  *)
(* uploads read the same next number, and each has an object of its own in *)
(* the store.                                                              *)
VersionsGapless ==
    /\ \A i \in DOMAIN versions : versions[i].number = i /\ versions[i].object \in stored
    /\ \A i, j \in DOMAIN versions : i # j => versions[i].object # versions[j].object

=============================================================================
