---------------------- MODULE SampraanContractsProofs ----------------------
(***************************************************************************)
(* Theorems about the contracts: the role and identity contracts, the      *)
(* asset registry with the two contracts it reads and governance free to   *)
(* act, and the multisig composed with the registries.  For any finite set *)
(* of accounts and of signers, any DIDs, assets, operations, thresholds    *)
(* and delays, and any bounds.                                             *)
(***************************************************************************)
EXTENDS SampraanGovernance, FiniteSetTheorems, TLAPS

---------------------------------------------------------------------------
(***************************************************************************)
(* 1. Roles and identities.                                                *)
(***************************************************************************)

identityVars == <<acVars, idVars>>

(* What the contract's holder count has to be for revocation to be sound:  *)
(* typing alone is not inductive, since renounceRole decrements the count. *)
ACInv == ACTypeOK /\ AdminCountExact

(* There are finitely many holders of any role, so counting them is sound. *)
LEMMA HoldersFinite ==
    ASSUME ACTypeOK, NEW r \in Roles
    PROVE  IsFiniteSet(members[r])
<1>1. IsFiniteSet(Principals)
  BY AccountAssumption, FS_AddElement DEF Principals
<1> QED
  BY <1>1, FS_Subset DEF ACTypeOK

(* The hooks move the count exactly as they move the set of holders. *)
LEMMA GrantKeepsCount ==
    ASSUME ACInv, NEW r \in Roles, NEW a \in Principals, grantRoleHook(r, a)
    PROVE  ACInv'
<1> USE DEF ACInv, ACTypeOK, AdminCountExact, grantRoleHook
<1>1. DEFAULT_ADMIN \in Roles /\ IsFiniteSet(members[DEFAULT_ADMIN])
  BY HoldersFinite DEF Roles, AdminRoles
<1>2. /\ Cardinality(members[DEFAULT_ADMIN]) \in Nat
      /\ Cardinality(members[DEFAULT_ADMIN] \cup {a}) =
           IF a \in members[DEFAULT_ADMIN] THEN Cardinality(members[DEFAULT_ADMIN])
           ELSE Cardinality(members[DEFAULT_ADMIN]) + 1
  BY <1>1, FS_AddElement, FS_CardinalityType
<1>3. /\ members' \in [Roles -> SUBSET Principals]
      /\ members'[DEFAULT_ADMIN] =
           IF r = DEFAULT_ADMIN THEN members[DEFAULT_ADMIN] \cup {a} ELSE members[DEFAULT_ADMIN]
  BY <1>1
<1>4. AdminCountExact'
  BY <1>1, <1>2, <1>3
<1> QED
  BY <1>2, <1>3, <1>4

(* _revokeRole, whether reached from revokeRole or renounceRole.           *)
LEMMA RevokeKeepsCount ==
    ASSUME ACInv, NEW r \in Roles, NEW a \in Principals, revokeRoleHook(r, a)
    PROVE  ACInv'
<1> USE DEF ACInv, ACTypeOK, AdminCountExact, revokeRoleHook
<1>1. DEFAULT_ADMIN \in Roles /\ IsFiniteSet(members[DEFAULT_ADMIN])
  BY HoldersFinite DEF Roles, AdminRoles
<1>2. /\ Cardinality(members[DEFAULT_ADMIN]) \in Nat
      /\ Cardinality(members[DEFAULT_ADMIN] \ {a}) \in Nat
      /\ Cardinality(members[DEFAULT_ADMIN] \ {a}) =
           IF a \in members[DEFAULT_ADMIN] THEN Cardinality(members[DEFAULT_ADMIN]) - 1
           ELSE Cardinality(members[DEFAULT_ADMIN])
  BY <1>1, FS_RemoveElement, FS_CardinalityType
<1>3. /\ members' \in [Roles -> SUBSET Principals]
      /\ members'[DEFAULT_ADMIN] =
           IF r = DEFAULT_ADMIN THEN members[DEFAULT_ADMIN] \ {a} ELSE members[DEFAULT_ADMIN]
  BY <1>1
<1>4. AdminCountExact'
  BY <1>1, <1>2, <1>3
<1> QED
  BY <1>1, <1>2, <1>3, <1>4

(* The constructor's and the script's grants: two administrators, counted. *)
LEMMA ACInit_ACInv == ACInit => ACInv
<1> SUFFICES ASSUME ACInit PROVE ACInv
  OBVIOUS
<1>1. /\ Deployer \in Principals /\ Auditor \in Principals /\ Governance \in Principals
      /\ Deployer # Governance
  BY AccountAssumption DEF Principals
<1>2. members[DEFAULT_ADMIN] = {Deployer, Governance}
  BY DEF ACInit, Roles, AdminRoles, DEFAULT_ADMIN, AUDITOR
<1>3. Cardinality({Deployer, Governance}) = 2
  <2>1. IsFiniteSet({Deployer}) /\ Cardinality({Deployer}) = 1
    BY FS_Singleton
  <2>2. Governance \notin {Deployer}
    BY <1>1
  <2>3. Cardinality({Deployer} \cup {Governance})
          = IF Governance \in {Deployer} THEN Cardinality({Deployer})
                                         ELSE Cardinality({Deployer}) + 1
    BY <2>1, FS_AddElement
  <2>4. Cardinality({Deployer} \cup {Governance}) = 2
    BY <2>1, <2>2, <2>3
  <2>5. {Deployer, Governance} = {Deployer} \cup {Governance}
    OBVIOUS
  <2> QED
    BY <2>4, <2>5
<1> QED
  BY <1>1, <1>2, <1>3 DEF ACInit, ACInv, ACTypeOK, AdminCountExact

(* Every role call goes through one of the two hooks.                      *)
LEMMA ACNext_ACInv == ACInv /\ [ACNext]_acVars => ACInv'
<1> SUFFICES ASSUME ACInv, [ACNext]_acVars PROVE ACInv'
  OBVIOUS
<1>1. ASSUME NEW c \in Accounts, NEW r \in Roles, NEW a \in Principals, grantRole(c, r, a)
      PROVE  ACInv'
  BY <1>1, GrantKeepsCount DEF grantRole
<1>2. ASSUME NEW c \in Accounts, NEW r \in Roles, NEW a \in Principals, revokeRole(c, r, a)
      PROVE  ACInv'
  BY <1>2, RevokeKeepsCount DEF revokeRole
<1>3. ASSUME NEW c \in Accounts, NEW r \in Roles, renounceRole(c, r)
      PROVE  ACInv'
  BY <1>3, RevokeKeepsCount DEF renounceRole, Principals
<1>4. CASE UNCHANGED acVars
  BY <1>4 DEF acVars, ACInv, ACTypeOK, AdminCountExact
<1> QED
  BY <1>1, <1>2, <1>3, <1>4 DEF ACNext

---------------------------------------------------------------------------
(* The registry's inductive invariant: its maps, its logs and its counters *)
(* are only right together, since each action relies on all of them.       *)
IRInv == IRTypeOK /\ DidBinding /\ LifecycleExplainsStatus /\ DocumentHistoryMatches

(* The log a registration starts explains the status PENDING. *)
LEMMA FirstEntryExplains == LogExplains(<< <<"NONE", "PENDING">> >>, 1, "PENDING")
<1> DEFINE log == << <<"NONE", "PENDING">> >>
<1>1. Len(log) = 1 /\ log[1] = <<"NONE", "PENDING">>
  OBVIOUS
<1>2. \A i \in 2 .. 1 : log[i][1] = log[i - 1][2]
  OBVIOUS
<1> HIDE DEF log
<1>3. LogExplains(log, 1, "PENDING")
  BY <1>1, <1>2 DEF LogExplains
<1> QED
  BY <1>3 DEF log

(* registerIdentity: the record, the ownership of the DID and the first log *)
(* entry appear together.                                                   *)
LEMMA RegisterKeeps ==
    ASSUME IRInv, NEW c \in Accounts, NEW w \in Accounts, NEW d \in Dids,
           registerIdentity(c, w, d)
    PROVE  IRInv'
<1> USE DEF registerIdentity, docVars
<1>1. IRTypeOK'
  <2>1. <<"NONE", "PENDING">> \in IdentityStatus \X IdentityStatus
    BY DEF IdentityStatus
  <2>2. lifecycle' \in [Accounts -> Seq(IdentityStatus \X IdentityStatus)]
    BY <2>1 DEF IRInv, IRTypeOK
  <2> QED
    BY <2>2 DEF IRInv, IRTypeOK, IdentityStatus
<1>2. DidBinding'
  BY IdentityAssumption DEF IRInv, IRTypeOK, DidBinding, Principals
<1>3. LifecycleExplainsStatus'
  <2>1. Len(lifecycle[w]) = 0 /\ lifecycle[w] \in Seq(IdentityStatus \X IdentityStatus)
    BY DEF IRInv, IRTypeOK, LifecycleExplainsStatus, LogExplains
  <2>2. lifecycle'[w] = << <<"NONE", "PENDING">> >>
    BY <2>1 DEF IRInv, IRTypeOK
  <2>3. ASSUME NEW v \in Accounts, v # w
        PROVE  LogExplains(lifecycle'[v], lifecycleCount'[v], idStatus'[v])
    BY <2>3 DEF IRInv, IRTypeOK, LifecycleExplainsStatus
  <2>4. idStatus'[w] = "PENDING" /\ lifecycleCount'[w] = 1
    BY DEF IRInv, IRTypeOK
  <2>5. LogExplains(lifecycle'[w], lifecycleCount'[w], idStatus'[w])
    BY <2>2, <2>4, FirstEntryExplains
  <2> QED
    BY <2>3, <2>5 DEF LifecycleExplainsStatus
<1>4. DocumentHistoryMatches'
  BY DEF IRInv, DocumentHistoryMatches
<1> QED
  BY <1>1, <1>2, <1>3, <1>4 DEF IRInv

(* Appending an entry that starts at the logged status and ends at the new *)
(* one keeps the log an explanation of the status.                         *)
LEMMA AppendExplains ==
    ASSUME NEW log \in Seq(IdentityStatus \X IdentityStatus), NEW n,
           NEW from \in IdentityStatus \ {"NONE"}, NEW to \in IdentityStatus \ {"NONE"},
           LogExplains(log, n, from)
    PROVE  LogExplains(Append(log, <<from, to>>), n + 1, to)
<1> DEFINE new == Append(log, <<from, to>>)
<1>1. /\ n = Len(log) /\ Len(log) \in Nat /\ Len(log) > 0
      /\ log[1][1] = "NONE" /\ log[Len(log)][2] = from
      /\ \A i \in 2 .. Len(log) : log[i][1] = log[i - 1][2]
  BY DEF LogExplains
<1>2. /\ Len(new) = Len(log) + 1
      /\ new[Len(new)] = <<from, to>>
      /\ \A i \in 1 .. Len(log) : new[i] = log[i]
  <2>1. <<from, to>> \in IdentityStatus \X IdentityStatus
    OBVIOUS
  <2> QED
    BY <2>1
<1>3. new[1][1] = "NONE" /\ new[Len(new)][2] = to
  BY <1>1, <1>2
<1>4. ASSUME NEW i \in 2 .. Len(new) PROVE new[i][1] = new[i - 1][2]
  <2>1. CASE i = Len(new)
    <3>1. i - 1 = Len(log) /\ i - 1 \in 1 .. Len(log)
      BY <1>1, <1>2, <2>1
    <3> QED
      BY <1>1, <1>2, <2>1, <3>1
  <2>2. CASE i # Len(new)
    <3>1. i \in 2 .. Len(log) /\ i \in 1 .. Len(log) /\ i - 1 \in 1 .. Len(log)
      BY <1>1, <1>2, <2>2
    <3> QED
      BY <1>1, <1>2, <3>1
  <2> QED
    BY <2>1, <2>2
<1> HIDE DEF new
<1>5. LogExplains(new, n + 1, to)
  BY <1>1, <1>2, <1>3, <1>4 DEF LogExplains
<1> QED
  BY <1>5 DEF new

(* What logEvent does, shared by status changes and document updates. *)
LEMMA LogKeeps ==
    ASSUME IRInv, NEW w \in Accounts, idStatus[w] # "NONE",
           NEW to \in IdentityStatus \ {"NONE"},
           logEvent(w, idStatus[w], to),
           idStatus' = [idStatus EXCEPT ![w] = to]
    PROVE  /\ lifecycle' \in [Accounts -> Seq(IdentityStatus \X IdentityStatus)]
           /\ lifecycleCount' \in [Accounts -> Nat]
           /\ idStatus' \in [Accounts -> IdentityStatus]
           /\ LifecycleExplainsStatus'
<1>1. /\ lifecycle[w] \in Seq(IdentityStatus \X IdentityStatus)
      /\ idStatus[w] \in IdentityStatus \ {"NONE"}
      /\ LogExplains(lifecycle[w], lifecycleCount[w], idStatus[w])
  BY DEF IRInv, IRTypeOK, LifecycleExplainsStatus
<1>2. /\ lifecycle'[w] = Append(lifecycle[w], <<idStatus[w], to>>)
      /\ lifecycleCount'[w] = lifecycleCount[w] + 1
      /\ idStatus'[w] = to
  BY DEF IRInv, IRTypeOK, logEvent
<1>3. LogExplains(lifecycle'[w], lifecycleCount'[w], idStatus'[w])
  BY <1>1, <1>2, AppendExplains
<1>4. ASSUME NEW v \in Accounts, v # w
      PROVE  LogExplains(lifecycle'[v], lifecycleCount'[v], idStatus'[v])
  BY <1>4 DEF IRInv, IRTypeOK, logEvent, LifecycleExplainsStatus
<1>5. <<idStatus[w], to>> \in IdentityStatus \X IdentityStatus
  BY <1>1
<1>6. /\ lifecycle' \in [Accounts -> Seq(IdentityStatus \X IdentityStatus)]
      /\ lifecycleCount' \in [Accounts -> Nat]
      /\ idStatus' \in [Accounts -> IdentityStatus]
  BY <1>1, <1>5 DEF IRInv, IRTypeOK, logEvent
<1> QED
  BY <1>3, <1>4, <1>6 DEF LifecycleExplainsStatus

(* _transition, the common tail of verify, suspend, reactivate, deactivate. *)
LEMMA TransitionKeeps ==
    ASSUME IRInv, NEW w \in Accounts, idStatus[w] # "NONE",
           NEW to \in IdentityStatus \ {"NONE"}, transition(w, to)
    PROVE  IRInv'
<1> USE DEF transition, docVars
<1>1. /\ lifecycle' \in [Accounts -> Seq(IdentityStatus \X IdentityStatus)]
      /\ lifecycleCount' \in [Accounts -> Nat]
      /\ idStatus' \in [Accounts -> IdentityStatus]
      /\ LifecycleExplainsStatus'
  BY LogKeeps
<1>2. IRTypeOK'
  BY <1>1 DEF IRInv, IRTypeOK
<1>3. DidBinding'
  BY IdentityAssumption DEF IRInv, IRTypeOK, DidBinding, Principals
<1>4. DocumentHistoryMatches'
  BY DEF IRInv, DocumentHistoryMatches
<1> QED
  BY <1>1, <1>2, <1>3, <1>4 DEF IRInv

(* _recordDidDocumentUpdate: a self-transition in the log and one version. *)
LEMMA DocumentKeeps ==
    ASSUME IRInv, NEW w \in Accounts, NEW h \in DocHashes, recordDidDocumentUpdate(w, h)
    PROVE  IRInv'
<1> USE DEF recordDidDocumentUpdate
<1>1. idStatus[w] \in IdentityStatus \ {"NONE"} /\ idStatus' = [idStatus EXCEPT ![w] = idStatus[w]]
  BY DEF IRInv, IRTypeOK, IdentityStatus
<1>2. /\ lifecycle' \in [Accounts -> Seq(IdentityStatus \X IdentityStatus)]
      /\ lifecycleCount' \in [Accounts -> Nat]
      /\ LifecycleExplainsStatus'
  BY <1>1, LogKeeps
<1>3. IRTypeOK'
  <2>1. /\ didDocumentVersion' \in [Accounts -> Nat]
        /\ currentDidDocumentHash' \in [Accounts -> DocHashes \cup {NoDid}]
    BY DEF IRInv, IRTypeOK
  <2>2. didDocumentHash' \in [Accounts -> Seq(DocHashes)]
    BY DEF IRInv, IRTypeOK
  <2> QED
    BY <1>2, <2>1, <2>2 DEF IRInv, IRTypeOK
<1>4. DidBinding'
  BY DEF IRInv, DidBinding
<1>5. DocumentHistoryMatches'
  <2>1. /\ didDocumentHash[w] \in Seq(DocHashes) /\ Len(didDocumentHash[w]) \in Nat
        /\ didDocumentVersion[w] = Len(didDocumentHash[w])
    BY DEF IRInv, IRTypeOK, DocumentHistoryMatches
  <2>2. /\ didDocumentVersion'[w] = didDocumentVersion[w] + 1
        /\ didDocumentHash'[w] = Append(didDocumentHash[w], h)
        /\ currentDidDocumentHash'[w] = h
    BY DEF IRInv, IRTypeOK
  <2>3. /\ Len(didDocumentHash'[w]) = didDocumentVersion'[w]
        /\ didDocumentHash'[w][didDocumentVersion'[w]] = h
        /\ didDocumentVersion'[w] # 0
    BY <2>1, <2>2
  <2>4. ASSUME NEW v \in Accounts, v # w
        PROVE  /\ didDocumentVersion'[v] = didDocumentVersion[v]
               /\ didDocumentHash'[v] = didDocumentHash[v]
               /\ currentDidDocumentHash'[v] = currentDidDocumentHash[v]
    BY <2>4 DEF IRInv, IRTypeOK
  <2> QED
    BY <2>2, <2>3, <2>4 DEF IRInv, DocumentHistoryMatches
<1> QED
  BY <1>2, <1>3, <1>4, <1>5 DEF IRInv

(* What deployment leaves behind satisfies the invariant. *)
LEMMA IRInit_IRInv == IRInit => IRInv
<1> SUFFICES ASSUME IRInit PROVE IRInv
  OBVIOUS
<1> DEFINE boot == {Deployer, Auditor}
           log == << <<"NONE", "PENDING">>, <<"PENDING", "VERIFIED">> >>
<1>1. /\ boot \subseteq Accounts /\ Deployer # Auditor
      /\ DidOf[Deployer] \in Dids /\ DidOf[Auditor] \in Dids /\ DidOf[Deployer] # DidOf[Auditor]
      /\ ZeroAddress \notin Accounts /\ NoDid \notin Dids /\ NoDid \notin DocHashes
  BY AccountAssumption, IdentityAssumption DEF Principals
<1>2. LogExplains(log, 2, "VERIFIED") /\ LogExplains(<< >>, 0, "NONE")
  <2>1. log = Append(<< <<"NONE", "PENDING">> >>, <<"PENDING", "VERIFIED">>)
    OBVIOUS
  <2>2. << <<"NONE", "PENDING">> >> \in Seq(IdentityStatus \X IdentityStatus)
    BY DEF IdentityStatus
  <2>3. LogExplains(log, 1 + 1, "VERIFIED")
    BY <2>1, <2>2, FirstEntryExplains, AppendExplains DEF IdentityStatus
  <2>4. LogExplains(<< >>, 0, "NONE")
    BY DEF LogExplains
  <2> QED
    BY <2>3, <2>4
<1>3. log \in Seq(IdentityStatus \X IdentityStatus)
  BY DEF IdentityStatus
<1> HIDE DEF log
<1>4. /\ lifecycle = [w \in Accounts |-> IF w \in boot THEN log ELSE << >>]
      /\ lifecycleCount = [w \in Accounts |-> IF w \in boot THEN 2 ELSE 0]
      /\ idStatus = [w \in Accounts |-> IF w \in boot THEN "VERIFIED" ELSE "NONE"]
  BY DEF IRInit, log
<1>5. IRTypeOK
  <2>1. << >> \in Seq(IdentityStatus \X IdentityStatus) /\ << >> \in Seq(DocHashes)
    OBVIOUS
  <2>2. /\ idStatus \in [Accounts -> IdentityStatus]
        /\ lifecycleCount \in [Accounts -> Nat]
    BY <1>4 DEF IdentityStatus
  <2>3. lifecycle \in [Accounts -> Seq(IdentityStatus \X IdentityStatus)]
    BY <1>3, <1>4, <2>1
  <2>4. /\ didDigest \in [Accounts -> Dids \cup {NoDid}]
        /\ didOwners \in [Dids -> Accounts \cup {ZeroAddress}]
    BY <1>1 DEF IRInit
  <2>5. /\ didDocumentVersion \in [Accounts -> Nat]
        /\ didDocumentHash \in [Accounts -> Seq(DocHashes)]
        /\ currentDidDocumentHash \in [Accounts -> DocHashes \cup {NoDid}]
    BY <2>1 DEF IRInit
  <2> QED
    BY <2>2, <2>3, <2>4, <2>5 DEF IRTypeOK
<1>6. DidBinding
  BY <1>1 DEF IRInit, DidBinding
<1>7. LifecycleExplainsStatus
  BY <1>2, <1>4 DEF LifecycleExplainsStatus
<1>8. DocumentHistoryMatches
  BY DEF IRInit, DocumentHistoryMatches
<1> QED
  BY <1>5, <1>6, <1>7, <1>8 DEF IRInv

(* Each call of the identity registry keeps its invariant.                 *)
LEMMA AccountCallKeeps == IRInv /\ IRAccountNext => IRInv'
<1> SUFFICES ASSUME IRInv, IRAccountNext PROVE IRInv'
  OBVIOUS
<1>1. ASSUME NEW c \in Accounts, NEW w \in Accounts, NEW d \in Dids, registerIdentity(c, w, d)
      PROVE  IRInv'
  BY <1>1, RegisterKeeps
<1>2. ASSUME NEW c \in Accounts, NEW w \in Accounts, verifyIdentity(c, w)
      PROVE  IRInv'
  BY <1>2, TransitionKeeps DEF verifyIdentity, IdentityStatus
<1>3. ASSUME NEW c \in Accounts, NEW w \in Accounts, suspendIdentity(c, w)
      PROVE  IRInv'
  BY <1>3, TransitionKeeps DEF suspendIdentity, IdentityStatus
<1>4. ASSUME NEW c \in Accounts, NEW w \in Accounts, reactivateIdentity(c, w)
      PROVE  IRInv'
  BY <1>4, TransitionKeeps DEF reactivateIdentity, IdentityStatus
<1>5. ASSUME NEW c \in Accounts, NEW h \in DocHashes, updateDidDocumentHash(c, h)
      PROVE  IRInv'
  BY <1>5, DocumentKeeps DEF updateDidDocumentHash
<1>6. ASSUME NEW c \in Accounts, NEW w \in Accounts, NEW h \in DocHashes,
             updateDidDocumentHashFor(c, w, h)
      PROVE  IRInv'
  BY <1>6, DocumentKeeps DEF updateDidDocumentHashFor
<1> QED
  BY <1>1, <1>2, <1>3, <1>4, <1>5, <1>6 DEF IRAccountNext

(* governanceDeactivateIdentity is a transition like the others.           *)
LEMMA GovernanceCallKeeps == IRInv /\ IRGovernanceNext => IRInv'
<1> SUFFICES ASSUME IRInv, NEW w \in Accounts, governanceDeactivateIdentity(w) PROVE IRInv'
  BY DEF IRGovernanceNext
<1> QED
  BY TransitionKeeps DEF governanceDeactivateIdentity, IdentityStatus

(* Calls to the role contract leave the identity registry alone.           *)
LEMMA StutterKeeps == IRInv /\ UNCHANGED idVars => IRInv'
BY DEF idVars, IRInv, IRTypeOK, DidBinding, LifecycleExplainsStatus, DocumentHistoryMatches

---------------------------------------------------------------------------
(* The inductive invariant of the two contracts. *)
IdentityInv == ACInv /\ IRInv

(* Every reachable state of the two contracts is right: the role registry  *)
(* counts its administrators exactly and the identity registry's maps,     *)
(* logs and document history agree.                                        *)
THEOREM IdentityInvariant == IdentitySpec => []IdentityInv
<1>1. IdentityInit => IdentityInv
  BY ACInit_ACInv, IRInit_IRInv DEF IdentityInit, IdentityInv
<1>2. IdentityInv /\ [IdentityNext]_identityVars => IdentityInv'
  <2> SUFFICES ASSUME IdentityInv, [IdentityNext]_identityVars PROVE IdentityInv'
    OBVIOUS
  <2>1. CASE ACNext /\ UNCHANGED idVars
    BY <2>1, ACNext_ACInv, StutterKeeps DEF IdentityInv
  <2>2. CASE (IRAccountNext \/ IRGovernanceNext) /\ UNCHANGED acVars
    BY <2>2, ACNext_ACInv, AccountCallKeeps, GovernanceCallKeeps DEF IdentityInv
  <2>3. CASE UNCHANGED identityVars
    BY <2>3, ACNext_ACInv, StutterKeeps DEF IdentityInv, identityVars
  <2> QED
    BY <2>1, <2>2, <2>3 DEF IdentityNext
<1> QED
  BY <1>1, <1>2, PTL DEF IdentitySpec, identityVars

(* Every variable of both contracts keeps its type, the holder count of    *)
(* revokeRole's last-admin check included: it never goes below zero.       *)
THEOREM IdentityTypeCorrect == IdentitySpec => []IdentityTypeOK
<1>1. IdentityInv => IdentityTypeOK
  BY DEF IdentityInv, ACInv, IRInv, IdentityTypeOK
<1> QED
  BY <1>1, IdentityInvariant, PTL

(* The count kept by the grant and revoke hooks is the number of holders.  *)
THEOREM AdminCountCorrect == IdentitySpec => []AdminCountExact
<1>1. IdentityInv => AdminCountExact
  BY DEF IdentityInv, ACInv
<1> QED
  BY <1>1, IdentityInvariant, PTL

(* No sequence of registrations gives a DID two wallets or a wallet two    *)
(* DIDs.                                                                   *)
THEOREM DidBindingCorrect == IdentitySpec => []DidBinding
<1>1. IdentityInv => DidBinding
  BY DEF IdentityInv, IRInv
<1> QED
  BY <1>1, IdentityInvariant, PTL

(* The lifecycle log explains the status after every call.                 *)
THEOREM LifecycleCorrect == IdentitySpec => []LifecycleExplainsStatus
<1>1. IdentityInv => LifecycleExplainsStatus
  BY DEF IdentityInv, IRInv
<1> QED
  BY <1>1, IdentityInvariant, PTL

(* The current document hash is always the newest version's.               *)
THEOREM DocumentHistoryCorrect == IdentitySpec => []DocumentHistoryMatches
<1>1. IdentityInv => DocumentHistoryMatches
  BY DEF IdentityInv, IRInv
<1> QED
  BY <1>1, IdentityInvariant, PTL

(* revokeRole, with the count it trusts, always leaves an administrator,   *)
(* and its caller unless the caller revokes itself.                        *)
LEMMA RevokeLeavesAdmin ==
    ASSUME ACInv, NEW c \in Accounts, NEW r \in Roles, NEW a \in Principals,
           revokeRole(c, r, a)
    PROVE  /\ members'[DEFAULT_ADMIN] # {}
           /\ a # c => members'[DEFAULT_ADMIN] \cap Accounts # {}
<1> USE DEF revokeRole, revokeRoleHook, hasRole
<1>1. DEFAULT_ADMIN \in Roles /\ c \in members[DEFAULT_ADMIN]
  BY DEF Roles, AdminRoles
<1>4. a # c => members'[DEFAULT_ADMIN] \cap Accounts # {}
  BY <1>1 DEF ACInv, ACTypeOK
<1>2. CASE r = DEFAULT_ADMIN /\ a \in members[DEFAULT_ADMIN]
  <2>1. IsFiniteSet(members[DEFAULT_ADMIN]) /\ Cardinality(members[DEFAULT_ADMIN]) > 1
    BY <1>1, <1>2, HoldersFinite DEF ACInv, AdminCountExact
  <2>2. Cardinality(members[DEFAULT_ADMIN] \ {a}) = Cardinality(members[DEFAULT_ADMIN]) - 1
    BY <1>2, <2>1, FS_RemoveElement
  <2>3. Cardinality(members[DEFAULT_ADMIN] \ {a}) # 0
    BY <2>1, <2>2, FS_CardinalityType
  <2>4. members'[DEFAULT_ADMIN] = members[DEFAULT_ADMIN] \ {a}
    BY <1>1, <1>2 DEF ACInv, ACTypeOK
  <2> QED
    BY <1>4, <2>3, <2>4, FS_EmptySet
<1>3. CASE ~(r = DEFAULT_ADMIN /\ a \in members[DEFAULT_ADMIN])
  BY <1>1, <1>3, <1>4 DEF ACInv, ACTypeOK
<1> QED
  BY <1>2, <1>3, <1>4

(* Revocation leaves the role registry an administrator, and an account    *)
(* among them unless it is the account's own act.                          *)
THEOREM RevokeKeepsAnAdminCorrect == IdentitySpec => RevokeKeepsAnAdmin
<1>1. IdentityInv /\ [IdentityNext]_identityVars =>
        [members' # members =>
            \A c \in Accounts, a \in Principals : revokeRole(c, DEFAULT_ADMIN, a) =>
                /\ members'[DEFAULT_ADMIN] # {}
                /\ a # c => members'[DEFAULT_ADMIN] \cap Accounts # {}]_acVars
  BY RevokeLeavesAdmin DEF IdentityInv, Roles, AdminRoles
<1> QED
  BY <1>1, IdentityInvariant, PTL DEF IdentitySpec, identityVars, RevokeKeepsAnAdmin

(* What DeactivationTerminal says of one wallet. *)
Untouched(w) ==
    idStatus[w] = "DEACTIVATED" =>
        /\ idStatus'[w] = "DEACTIVATED"
        /\ lifecycle'[w] = lifecycle[w]
        /\ didDocumentHash'[w] = didDocumentHash[w]
        /\ didOwners'[didDigest[w]] = w

(* registerIdentity needs a fresh wallet and a fresh DID.                  *)
LEMMA RegisterLeavesDeactivated ==
    ASSUME IRInv, NEW w \in Accounts, NEW v \in Accounts, NEW d \in Dids, NEW c \in Accounts,
           registerIdentity(c, v, d)
    PROVE  Untouched(w)
<1> SUFFICES ASSUME idStatus[w] = "DEACTIVATED" PROVE Untouched(w)
  BY DEF Untouched
<1>1. didDigest[w] \in Dids /\ didOwners[didDigest[w]] = w /\ w # v
  BY DEF IRInv, DidBinding, registerIdentity
<1>2. ZeroAddress # w
  BY IdentityAssumption DEF Principals
<1> QED
  BY <1>1, <1>2 DEF IRInv, IRTypeOK, registerIdentity, docVars, Untouched

(* Transitions and document updates concern a wallet that is not DEACTIVATED. *)
LEMMA LogLeavesDeactivated ==
    ASSUME IRInv, NEW w \in Accounts, NEW v \in Accounts, idStatus[v] # "DEACTIVATED",
           NEW to, transition(v, to) \/ (\E h \in DocHashes : recordDidDocumentUpdate(v, h))
    PROVE  Untouched(w)
<1> SUFFICES ASSUME idStatus[w] = "DEACTIVATED" PROVE Untouched(w)
  BY DEF Untouched
<1>1. didOwners[didDigest[w]] = w /\ w # v
  BY DEF IRInv, DidBinding
<1> QED
  BY <1>1 DEF IRInv, IRTypeOK, transition, recordDidDocumentUpdate, logEvent, docVars, Untouched

(* No call brings a deactivated identity back, appends to its log, changes *)
(* its document or gives its DID to another wallet.                        *)
THEOREM DeactivationTerminalCorrect == IdentitySpec => DeactivationTerminal
<1>1. ASSUME IdentityInv, [IdentityNext]_identityVars, NEW w \in Accounts
      PROVE  Untouched(w)
  <2> USE <1>1 DEF IdentityInv
  <2>1. ASSUME NEW c \in Accounts, NEW v \in Accounts, NEW d \in Dids, registerIdentity(c, v, d)
        PROVE  Untouched(w)
    BY <2>1, RegisterLeavesDeactivated
  <2>2. ASSUME NEW c \in Accounts, NEW v \in Accounts,
               verifyIdentity(c, v) \/ suspendIdentity(c, v) \/ reactivateIdentity(c, v)
        PROVE  Untouched(w)
    BY <2>2, LogLeavesDeactivated DEF verifyIdentity, suspendIdentity, reactivateIdentity
  <2>3. ASSUME NEW c \in Accounts, NEW v \in Accounts, NEW h \in DocHashes,
               updateDidDocumentHash(c, h) \/ updateDidDocumentHashFor(c, v, h)
        PROVE  Untouched(w)
    BY <2>3, LogLeavesDeactivated
       DEF updateDidDocumentHash, updateDidDocumentHashFor, recordDidDocumentUpdate
  <2>4. ASSUME NEW v \in Accounts, governanceDeactivateIdentity(v)
        PROVE  Untouched(w)
    BY <2>4, LogLeavesDeactivated DEF governanceDeactivateIdentity
  <2>5. CASE UNCHANGED idVars
    BY <2>5 DEF idVars, IRInv, DidBinding, Untouched
  <2> QED
    BY <2>1, <2>2, <2>3, <2>4, <2>5
       DEF IdentityNext, IRAccountNext, IRGovernanceNext, identityVars
<1>2. IdentityInv /\ [IdentityNext]_identityVars =>
        [\A w \in Accounts : idStatus[w] = "DEACTIVATED" =>
            /\ idStatus'[w] = "DEACTIVATED"
            /\ lifecycle'[w] = lifecycle[w]
            /\ didDocumentHash'[w] = didDocumentHash[w]
            /\ didOwners'[didDigest[w]] = w]_idVars
  BY <1>1 DEF Untouched
<1> QED
  BY <1>2, IdentityInvariant, PTL DEF IdentitySpec, identityVars, DeactivationTerminal

---------------------------------------------------------------------------
(***************************************************************************)
(* 2. The asset registry.                                                  *)
(***************************************************************************)

(* The registry's own calls leave the role and identity contracts alone or *)
(* make one of their calls, so what was proved of those still holds.       *)
THEOREM RegistryRefinesIdentity == RegistrySpec => IdentitySpec
<1>1. RegistryInit => IdentityInit
  BY DEF RegistryInit, IdentityInit
<1>2. [RegistryNext]_registryVars => [IdentityNext]_identityVars
  BY DEF RegistryNext, AccountNext, GovernanceNext, registryVars, IdentityNext, identityVars
<1> QED
  BY <1>1, <1>2, PTL DEF RegistrySpec, IdentitySpec, identityVars

---------------------------------------------------------------------------
(* Token records, ERC-721 ownership and the custody log are right only     *)
(* together: a mint relies on the counter and on unregistered ids, and a   *)
(* custody move on the log and on the owner being the custodian.           *)
RecordInv == RecordTypeOK /\ TokenBinding /\ OwnerIsCustodian /\ CustodyChain

(* The custody log a mint starts is a chain from address zero. *)
LEMMA FirstCustodyExplains ==
    ASSUME NEW w \in Accounts
    PROVE  CustodyExplains(<< <<ZeroAddress, w>> >>, 1, TRUE, w)
<1> DEFINE log == << <<ZeroAddress, w>> >>
<1>1. Len(log) = 1 /\ log[1] = <<ZeroAddress, w>>
  OBVIOUS
<1>2. \A i \in 2 .. 1 : log[i][1] = log[i - 1][2]
  OBVIOUS
<1> HIDE DEF log
<1>3. CustodyExplains(log, 1, TRUE, w)
  BY <1>1, <1>2 DEF CustodyExplains
<1> QED
  BY <1>3 DEF log

(* An entry from the custodian to the next one extends the chain. *)
LEMMA AppendCustodyExplains ==
    ASSUME NEW log \in Seq(Wallets \X Accounts), NEW n,
           NEW from \in Accounts, NEW to \in Accounts,
           CustodyExplains(log, n, TRUE, from)
    PROVE  CustodyExplains(Append(log, <<from, to>>), n + 1, TRUE, to)
<1> DEFINE new == Append(log, <<from, to>>)
<1>1. /\ n = Len(log) /\ Len(log) \in Nat /\ Len(log) > 0
      /\ log[1][1] = ZeroAddress /\ log[Len(log)][2] = from
      /\ \A i \in 2 .. Len(log) : log[i][1] = log[i - 1][2]
  BY DEF CustodyExplains
<1>2. /\ Len(new) = Len(log) + 1
      /\ new[Len(new)] = <<from, to>>
      /\ \A i \in 1 .. Len(log) : new[i] = log[i]
  <2>1. <<from, to>> \in Wallets \X Accounts
    BY DEF Wallets
  <2> QED
    BY <2>1
<1>3. new[1][1] = ZeroAddress /\ new[Len(new)][2] = to
  BY <1>1, <1>2
<1>4. ASSUME NEW i \in 2 .. Len(new) PROVE new[i][1] = new[i - 1][2]
  <2>1. CASE i = Len(new)
    <3>1. i - 1 = Len(log) /\ i - 1 \in 1 .. Len(log)
      BY <1>1, <1>2, <2>1
    <3> QED
      BY <1>1, <1>2, <2>1, <3>1
  <2>2. CASE i # Len(new)
    <3>1. i \in 2 .. Len(log) /\ i \in 1 .. Len(log) /\ i - 1 \in 1 .. Len(log)
      BY <1>1, <1>2, <2>2
    <3> QED
      BY <1>1, <1>2, <3>1
  <2> QED
    BY <2>1, <2>2
<1> HIDE DEF new
<1>5. CustodyExplains(new, n + 1, TRUE, to)
  BY <1>1, <1>2, <1>3, <1>4 DEF CustodyExplains
<1> QED
  BY <1>5 DEF new

(* registerAsset: record, owner and custody log of the new token appear    *)
(* together, under the counter's number.                                   *)
LEMMA MintKeeps ==
    ASSUME RecordInv, NEW c \in Accounts, NEW a \in AssetIds, NEW w \in Accounts,
           registerAsset(c, a, w)
    PROVE  RecordInv'
<1> USE DEF registerAsset, mintTo
<1>0. PICK n \in Tokens : n = nextTokenId
  OBVIOUS
<1> USE <1>0
<1>1. /\ n \in Tokens /\ n \in Nat /\ n # 0
      /\ assetStatus[n] = "NONE"
      /\ custodyHistory[n] \in Seq(Wallets \X Accounts) /\ Len(custodyHistory[n]) = 0
      /\ ZeroAddress \notin Accounts /\ MaxTokens \in Nat /\ NoAsset \notin AssetIds
  <2>1. n \in Nat /\ n # 0 /\ MaxTokens \in Nat
    BY AssetAssumption DEF Tokens
  <2>2. assetStatus[n] = "NONE"
    <3>1. ~(n < nextTokenId)
      BY <2>1
    <3> QED
      BY <3>1 DEF RecordInv, TokenBinding, Minted
  <2>3. custodyHistory[n] \in Seq(Wallets \X Accounts)
    BY DEF RecordInv, RecordTypeOK
  <2>4. Len(custodyHistory[n]) = 0
    <3>1. CustodyExplains(custodyHistory[n], custodyHistoryLength[n], Minted(n), custodian[n])
      BY DEF RecordInv, CustodyChain
    <3>2. ~(Len(custodyHistory[n]) > 0)
      BY <2>2, <3>1 DEF CustodyExplains, Minted
    <3>3. Len(custodyHistory[n]) \in Nat
      BY <2>3
    <3> QED
      BY <3>2, <3>3
  <2>5. ZeroAddress \notin Accounts /\ NoAsset \notin AssetIds
    BY IdentityAssumption, AssetAssumption DEF Principals
  <2> QED
    BY <2>1, <2>2, <2>3, <2>4, <2>5
<1>2. /\ assetIdDigest'[n] = a /\ assetStatus'[n] = "PENDING" /\ custodian'[n] = w
      /\ owners'[n] = w /\ custodyHistoryLength'[n] = 1 /\ assetIdToToken'[a] = n
      /\ nextTokenId' = n + 1
  BY <1>1 DEF RecordInv, RecordTypeOK
<1>3. custodyHistory'[n] = << <<ZeroAddress, w>> >>
  BY <1>1 DEF RecordInv, RecordTypeOK
<1>4. ASSUME NEW t \in Tokens, t # n
      PROVE  /\ assetIdDigest'[t] = assetIdDigest[t] /\ assetStatus'[t] = assetStatus[t]
             /\ custodian'[t] = custodian[t] /\ owners'[t] = owners[t]
             /\ custodyHistory'[t] = custodyHistory[t]
             /\ custodyHistoryLength'[t] = custodyHistoryLength[t]
  BY <1>4 DEF RecordInv, RecordTypeOK
<1>5. RecordTypeOK'
  <2>1. custodyHistory' \in [Tokens -> Seq(Wallets \X Accounts)]
    <3>1. <<ZeroAddress, w>> \in Wallets \X Accounts
      BY DEF Wallets
    <3> QED
      BY <1>1, <3>1 DEF RecordInv, RecordTypeOK
  <2>2. nextTokenId' \in 1 .. MaxTokens + 1
    BY <1>1 DEF Tokens
  <2>3. assetIdToToken' \in [AssetIds -> 0 .. MaxTokens]
    BY <1>1 DEF RecordInv, RecordTypeOK, Tokens
  <2> QED
    BY <1>1, <2>1, <2>2, <2>3 DEF RecordInv, RecordTypeOK, AssetStatus, Wallets
<1>6. TokenBinding'
  <2>1. ASSUME NEW t \in Tokens PROVE Minted(t)' <=> t < nextTokenId'
    BY <1>1, <1>2, <1>4 DEF RecordInv, TokenBinding, Minted, Tokens
  <2>2. ASSUME NEW t \in Tokens, Minted(t)'
        PROVE  assetIdDigest'[t] \in AssetIds /\ assetIdToToken'[assetIdDigest'[t]] = t
    <3>1. CASE t = n
      BY <1>2, <3>1
    <3>2. CASE t # n
      <4>1. Minted(t) /\ t # 0
        BY <1>4, <2>2, <3>2 DEF Minted, Tokens
      <4>2. assetIdDigest[t] \in AssetIds /\ assetIdToToken[assetIdDigest[t]] = t
        BY <4>1 DEF RecordInv, TokenBinding
      <4>3. assetIdDigest[t] # a
        BY <4>1, <4>2
      <4> QED
        BY <1>4, <3>2, <4>2, <4>3 DEF RecordInv, RecordTypeOK
    <3> QED
      BY <3>1, <3>2
  <2>3. ASSUME NEW b \in AssetIds, assetIdToToken'[b] # 0
        PROVE  assetStatus'[assetIdToToken'[b]] # "NONE" /\ assetIdDigest'[assetIdToToken'[b]] = b
    <3>1. CASE b = a
      BY <1>2, <3>1 DEF Minted
    <3>2. CASE b # a
      <4>1. assetIdToToken'[b] = assetIdToToken[b] /\ assetIdToToken[b] \in Tokens
        BY <1>1, <2>3, <3>2 DEF RecordInv, RecordTypeOK, Tokens
      <4>2. Minted(assetIdToToken[b]) /\ assetIdDigest[assetIdToToken[b]] = b
        BY <2>3, <4>1 DEF RecordInv, TokenBinding
      <4>3. assetIdToToken[b] # n
        BY <1>1, <4>2 DEF Minted
      <4> QED
        BY <1>4, <4>1, <4>2, <4>3 DEF Minted
    <3> QED
      BY <3>1, <3>2
  <2> QED
    BY <2>1, <2>2, <2>3 DEF TokenBinding, Minted
<1>7. OwnerIsCustodian'
  BY <1>2, <1>4 DEF RecordInv, OwnerIsCustodian, Minted
<1>8. CustodyChain'
  <2>1. CustodyExplains(custodyHistory'[n], custodyHistoryLength'[n], Minted(n)', custodian'[n])
    <3>1. Minted(n)' = TRUE
      BY <1>2 DEF Minted
    <3> QED
      BY <1>2, <1>3, <3>1, FirstCustodyExplains
  <2>2. ASSUME NEW t \in Tokens, t # n
        PROVE  CustodyExplains(custodyHistory'[t], custodyHistoryLength'[t], Minted(t)', custodian'[t])
    <3>1. Minted(t)' = Minted(t)
      BY <1>4, <2>2 DEF Minted
    <3> QED
      BY <1>4, <2>2, <3>1 DEF RecordInv, CustodyChain
  <2> QED
    BY <2>1, <2>2 DEF CustodyChain
<1> QED
  BY <1>5, <1>6, <1>7, <1>8 DEF RecordInv

(* The three transfer paths: the owner follows the custodian and the log    *)
(* gets the entry that joins them.                                          *)
LEMMA MoveKeeps ==
    ASSUME RecordInv, NEW t \in Tokens, NEW w \in Accounts,
           Minted(t), moveCustody(t, w), transferOwner(custodian[t], w, t)
    PROVE  RecordInv'
<1> USE DEF moveCustody, transferOwner
<1>1. /\ custodian[t] \in Accounts /\ owners[t] = custodian[t]
      /\ custodyHistory[t] \in Seq(Wallets \X Accounts)
      /\ CustodyExplains(custodyHistory[t], custodyHistoryLength[t], TRUE, custodian[t])
  BY DEF RecordInv, RecordTypeOK, OwnerIsCustodian, CustodyChain, Minted
<1>2. /\ custodian'[t] = w /\ owners'[t] = w
      /\ custodyHistory'[t] = Append(custodyHistory[t], <<custodian[t], w>>)
      /\ custodyHistoryLength'[t] = custodyHistoryLength[t] + 1
  BY DEF RecordInv, RecordTypeOK
<1>3. ASSUME NEW u \in Tokens, u # t
      PROVE  /\ custodian'[u] = custodian[u] /\ owners'[u] = owners[u]
             /\ custodyHistory'[u] = custodyHistory[u]
             /\ custodyHistoryLength'[u] = custodyHistoryLength[u]
  BY <1>3 DEF RecordInv, RecordTypeOK
<1>4. RecordTypeOK'
  <2>1. custodyHistory' \in [Tokens -> Seq(Wallets \X Accounts)]
    <3>1. <<custodian[t], w>> \in Wallets \X Accounts
      BY <1>1 DEF Wallets
    <3> QED
      BY <3>1 DEF RecordInv, RecordTypeOK
  <2>2. custodyHistoryLength' \in [Tokens -> Nat]
    BY DEF RecordInv, RecordTypeOK
  <2> QED
    BY <2>1, <2>2 DEF RecordInv, RecordTypeOK, Wallets
<1>5. TokenBinding'
  BY DEF RecordInv, TokenBinding, Minted
<1>6. OwnerIsCustodian'
  BY <1>2, <1>3 DEF RecordInv, OwnerIsCustodian, Minted
<1>7. CustodyChain'
  <2>1. CustodyExplains(custodyHistory'[t], custodyHistoryLength'[t], TRUE, custodian'[t])
    <3> HIDE DEF moveCustody, transferOwner
    <3>1. CustodyExplains(Append(custodyHistory[t], <<custodian[t], w>>),
                          custodyHistoryLength[t] + 1, TRUE, w)
      BY <1>1, AppendCustodyExplains
    <3> QED
      BY <1>2, <3>1
  <2>2. ASSUME NEW u \in Tokens
        PROVE  CustodyExplains(custodyHistory'[u], custodyHistoryLength'[u], Minted(u), custodian'[u])
    <3>1. CASE u = t
      <4>1. Minted(u) = TRUE
        BY <3>1 DEF Minted
      <4> QED
        BY <2>1, <3>1, <4>1
    <3>2. CASE u # t
      BY <1>3, <3>2 DEF RecordInv, CustodyChain
    <3> QED
      BY <3>1, <3>2
  <2> QED
    BY <2>2 DEF CustodyChain, Minted
<1> QED
  BY <1>4, <1>5, <1>6, <1>7 DEF RecordInv

(* _changeStatus and the status change of a burn never create or destroy a *)
(* record, and no status change leaves REVOKED.                            *)
LEMMA StatusKeeps ==
    ASSUME RecordInv, NEW t \in Tokens, NEW to \in AssetStatus \ {"NONE"}, Minted(t),
           assetStatus[t] # "REVOKED",
           assetStatus' = [assetStatus EXCEPT ![t] = to],
           UNCHANGED <<assetIdDigest, custodian, assetIdToToken, nextTokenId,
                       custodyHistory, custodyHistoryLength>>,
           \/ UNCHANGED owners
           \/ to = "REVOKED" /\ owners' = [owners EXCEPT ![t] = ZeroAddress]
    PROVE  RecordInv'
<1>1. RecordTypeOK'
  BY DEF RecordInv, RecordTypeOK, Wallets
<1>2. \A u \in Tokens : (assetStatus'[u] # "NONE") = (assetStatus[u] # "NONE")
  BY DEF RecordInv, RecordTypeOK, Minted
<1>3. TokenBinding'
  <2>1. ASSUME NEW a \in AssetIds, assetIdToToken[a] # 0
        PROVE  assetIdToToken[a] \in Tokens
    BY <2>1, AssetAssumption DEF RecordInv, RecordTypeOK, Tokens
  <2> QED
    BY <1>2, <2>1 DEF RecordInv, TokenBinding, Minted
<1>4. OwnerIsCustodian'
  BY <1>2 DEF RecordInv, RecordTypeOK, OwnerIsCustodian, Minted
<1>5. CustodyChain'
  BY <1>2 DEF RecordInv, CustodyChain, Minted
<1> QED
  BY <1>1, <1>3, <1>4, <1>5 DEF RecordInv

(* Calls that leave records, owners and custody logs alone. *)
LEMMA RecordStutter == RecordInv /\ UNCHANGED <<recordVars, custodyVars>> => RecordInv'
BY DEF recordVars, custodyVars, RecordInv, RecordTypeOK, TokenBinding, OwnerIsCustodian,
       CustodyChain, Minted

(* Before the first mint there is nothing to bind. *)
LEMMA ARInit_RecordInv == ARInit => RecordInv
<1> SUFFICES ASSUME ARInit PROVE RecordInv
  OBVIOUS
<1>0. MaxTokens \in Nat
  BY AssetAssumption
<1>1. << >> \in Seq(Wallets \X Accounts)
  OBVIOUS
<1>2. CustodyExplains(<< >>, 0, FALSE, ZeroAddress)
  BY DEF CustodyExplains
<1>3. RecordTypeOK
  BY <1>0, <1>1 DEF ARInit, RecordTypeOK, AssetStatus, Wallets, Tokens
<1>4. TokenBinding /\ OwnerIsCustodian
  BY <1>0 DEF ARInit, TokenBinding, OwnerIsCustodian, Minted, Tokens
<1>5. CustodyChain
  <2>1. ASSUME NEW t \in Tokens PROVE Minted(t) = FALSE
    BY DEF ARInit, Minted
  <2> QED
    BY <1>2, <2>1 DEF ARInit, CustodyChain
<1> QED
  BY <1>3, <1>4, <1>5 DEF RecordInv

(* Each account call to the asset registry keeps the records right. *)
LEMMA AccountCallKeepsRecords == RecordInv /\ ARAccountNext => RecordInv'
<1> SUFFICES ASSUME RecordInv, ARAccountNext PROVE RecordInv'
  OBVIOUS
<1>1. ASSUME NEW c \in Accounts, NEW w \in Accounts, NEW a \in AssetIds, registerAsset(c, a, w)
      PROVE  RecordInv'
  BY <1>1, MintKeeps
<1>2. ASSUME NEW c \in Accounts, NEW w \in Accounts, NEW t \in Tokens, assignAsset(c, t, w)
      PROVE  RecordInv'
  <2>1. Minted(t) /\ owners[t] # w
    BY <1>2 DEF assignAsset, Minted, RecordInv, OwnerIsCustodian
  <2> QED
    BY <1>2, <2>1, MoveKeeps DEF assignAsset
<1>3. ASSUME NEW c \in Accounts, NEW w \in Accounts, NEW t \in Tokens, transferCustody(c, t, w)
      PROVE  RecordInv'
  BY <1>3, MoveKeeps DEF transferCustody, Minted
<1>4. ASSUME NEW t \in Tokens, NEW to \in AssetStatus, changeStatus(t, to)
      PROVE  RecordInv'
  <2>1. /\ to # "NONE" /\ Minted(t) /\ assetStatus[t] # "REVOKED"
    BY <1>4 DEF changeStatus, StatusTransitions, Minted
  <2> QED
    BY <1>4, <2>1, StatusKeeps DEF changeStatus, custodyVars
<1>5. ASSUME NEW c \in Accounts, NEW t \in Tokens,
             \/ activateAsset(c, t) \/ suspendAsset(c, t)
             \/ restoreAsset(c, t) \/ revokeAsset(c, t)
      PROVE  RecordInv'
  BY <1>4, <1>5 DEF activateAsset, suspendAsset, restoreAsset, revokeAsset, AssetStatus
<1>6. ASSUME NEW c \in Accounts, NEW t \in Tokens, raiseDispute(c, t)
      PROVE  RecordInv'
  BY <1>6, RecordStutter DEF raiseDispute
<1>7. ASSUME NEW c \in Accounts, NEW i, NEW u,
             flagAnomaly(c) \/ resolveDispute(c, i, u) \/ storeAuditReportHash(c)
      PROVE  RecordInv'
  BY <1>7, RecordStutter DEF flagAnomaly, resolveDispute, storeAuditReportHash
<1> QED
  BY <1>1, <1>2, <1>3, <1>5, <1>6, <1>7 DEF ARAccountNext

(* So does each governance call. *)
LEMMA GovernanceCallKeepsRecords == RecordInv /\ ARGovernanceNext => RecordInv'
<1> SUFFICES ASSUME RecordInv, ARGovernanceNext PROVE RecordInv'
  OBVIOUS
<1>1. ASSUME governancePause \/ governanceUnpause PROVE RecordInv'
  BY <1>1, RecordStutter DEF governancePause, governanceUnpause
<1>2. ASSUME NEW t \in Tokens, governanceBurnNFT(t) PROVE RecordInv'
  BY <1>2, StatusKeeps DEF governanceBurnNFT, burn, Minted, AssetStatus
<1>3. ASSUME NEW t \in Tokens, NEW w \in Accounts, governanceForceTransfer(t, w)
      PROVE  RecordInv'
  BY <1>3, MoveKeeps DEF governanceForceTransfer, Minted
<1> QED
  BY <1>1, <1>2, <1>3 DEF ARGovernanceNext

---------------------------------------------------------------------------
(* Holds, their count and the disputes explain each other; that the count  *)
(* never underflows needs all three, and different tokens having different *)
(* asset ids.                                                              *)
DisputeInv == DisputeTypeOK /\ HoldsMatchDisputes /\ OpenCountExact

(* A dispute is always about a minted token. *)
LEMMA DisputedIsMinted ==
    ASSUME DisputeInv, NEW i \in DOMAIN disputes
    PROVE  disputes[i].token \in Tokens /\ Minted(disputes[i].token)
<1>1. disputes[i] \in DisputeRecord
  BY DEF DisputeInv, DisputeTypeOK
<1>2. disputes[i].token \in Tokens
  BY <1>1 DEF DisputeRecord
<1> QED
  BY <1>2 DEF DisputeInv, HoldsMatchDisputes

(* Calls that do not concern disputes only ever add records. *)
LEMMA DisputesStay ==
    ASSUME DisputeInv, UNCHANGED disputeVars,
           \A t \in Tokens : Minted(t) => assetStatus'[t] # "NONE"
                                        /\ assetIdDigest'[t] = assetIdDigest[t]
    PROVE  DisputeInv'
<1>1. \A i \in DOMAIN disputes : disputes[i].token \in Tokens /\ Minted(disputes[i].token)
  BY DisputedIsMinted
<1>2. HoldsMatchDisputes'
  BY <1>1 DEF DisputeInv, HoldsMatchDisputes, Holding, Minted, disputeVars
<1> QED
  BY <1>2 DEF DisputeInv, DisputeTypeOK, OpenCountExact, disputeVars

(* raiseDispute: one more dispute, one more hold, one more in the count. *)
LEMMA RaiseKeeps ==
    ASSUME RecordInv, DisputeInv, NEW c \in Accounts, NEW t \in Tokens, raiseDispute(c, t)
    PROVE  DisputeInv'
<1> DEFINE k == Len(disputes) + 1
           new == [token |-> t, raisedBy |-> c, open |-> TRUE, upheld |-> FALSE]
<1>1. /\ disputes \in Seq(DisputeRecord) /\ Len(disputes) \in Nat
      /\ DOMAIN disputes = 1 .. Len(disputes)
      /\ disputedAssets \subseteq AssetIds /\ openDisputeCount \in Nat
      /\ openDisputeCount = Cardinality(disputedAssets)
      /\ IsFiniteSet(disputedAssets)
  BY AssetAssumption, FS_Subset DEF DisputeInv, DisputeTypeOK, OpenCountExact
<1>2. Minted(t) /\ assetIdDigest[t] \in AssetIds /\ assetIdDigest[t] \notin disputedAssets
  BY DEF raiseDispute, RecordInv, TokenBinding, Minted
<1>3. new \in DisputeRecord
  BY DEF DisputeRecord
<1>4. /\ disputes' = Append(disputes, new)
      /\ disputedAssets' = disputedAssets \cup {assetIdDigest[t]}
      /\ openDisputeCount' = openDisputeCount + 1
      /\ UNCHANGED <<assetIdDigest, assetStatus>>
  BY DEF raiseDispute, recordVars
<1> HIDE DEF new
<1>5. /\ disputes' \in Seq(DisputeRecord) /\ DOMAIN disputes' = 1 .. k
      /\ disputes'[k] = new /\ k \notin 1 .. Len(disputes)
      /\ \A i \in 1 .. Len(disputes) : disputes'[i] = disputes[i]
      /\ \A i \in 1 .. k : i = k \/ i \in 1 .. Len(disputes)
  BY <1>1, <1>3, <1>4
<1>6. new.token = t /\ new.open = TRUE
  BY DEF new
<1>7. HoldsMatchDisputes'
  <2>1. ASSUME NEW i \in 1 .. k
        PROVE  /\ assetStatus[disputes'[i].token] # "NONE"
               /\ disputes'[i].open \/ disputes'[i].upheld =>
                    assetIdDigest[disputes'[i].token] \in disputedAssets'
    <3>1. CASE i = k
      BY <1>2, <1>4, <1>5, <1>6, <3>1 DEF Minted
    <3>2. CASE i \in 1 .. Len(disputes)
      BY <1>1, <1>4, <1>5, <3>2 DEF DisputeInv, HoldsMatchDisputes, Holding, Minted
    <3> QED
      BY <1>5, <3>1, <3>2
  <2>2. ASSUME NEW a \in disputedAssets'
        PROVE  \E i \in 1 .. k : /\ disputes'[i].open \/ disputes'[i].upheld
                                 /\ assetIdDigest[disputes'[i].token] = a
    <3>1. CASE a = assetIdDigest[t]
      <4>1. k \in 1 .. k
        BY <1>1
      <4> QED
        BY <1>5, <1>6, <3>1, <4>1
    <3>2. CASE a \in disputedAssets
      <4>1. PICK i \in 1 .. Len(disputes) : Holding(i) /\ assetIdDigest[disputes[i].token] = a
        BY <1>1, <3>2 DEF DisputeInv, HoldsMatchDisputes
      <4>2. i \in 1 .. k
        BY <1>1
      <4> QED
        BY <1>5, <4>1, <4>2 DEF Holding
    <3> QED
      BY <1>4, <3>1, <3>2
  <2>3. ASSUME NEW i \in 1 .. k, NEW j \in 1 .. k,
               disputes'[i].open \/ disputes'[i].upheld,
               disputes'[j].open \/ disputes'[j].upheld,
               disputes'[i].token = disputes'[j].token
        PROVE  i = j
    <3>1. ASSUME NEW m \in 1 .. Len(disputes), Holding(m) PROVE disputes[m].token # t
      BY <1>1, <1>2, <3>1 DEF DisputeInv, HoldsMatchDisputes
    <3>2. CASE i = k
      BY <1>5, <1>6, <2>3, <3>1, <3>2 DEF Holding
    <3>3. CASE j = k
      BY <1>5, <1>6, <2>3, <3>1, <3>3 DEF Holding
    <3>4. CASE i \in 1 .. Len(disputes) /\ j \in 1 .. Len(disputes)
      BY <1>1, <1>5, <2>3, <3>4 DEF DisputeInv, HoldsMatchDisputes, Holding
    <3> QED
      BY <1>5, <3>2, <3>3, <3>4
  <2> QED
    BY <1>4, <1>5, <2>1, <2>2, <2>3 DEF HoldsMatchDisputes, Holding, Minted
<1>8. OpenCountExact'
  BY <1>1, <1>2, <1>4, FS_AddElement DEF OpenCountExact
<1>9. DisputeTypeOK'
  BY <1>1, <1>2, <1>4, <1>5 DEF DisputeTypeOK
<1> QED
  BY <1>7, <1>8, <1>9 DEF DisputeInv

(* resolveDispute: a rejection releases the one hold of the one dispute    *)
(* that holds the asset; an upheld dispute goes on holding it.             *)
LEMMA ResolveKeeps ==
    ASSUME RecordInv, DisputeInv, NEW c \in Accounts, NEW id, NEW u \in BOOLEAN,
           resolveDispute(c, id, u)
    PROVE  DisputeInv'
<1> DEFINE held == assetIdDigest[disputes[id].token]
<1>1. /\ disputes \in Seq(DisputeRecord) /\ Len(disputes) \in Nat
      /\ DOMAIN disputes = 1 .. Len(disputes)
      /\ disputedAssets \subseteq AssetIds /\ openDisputeCount \in Nat
      /\ openDisputeCount = Cardinality(disputedAssets)
      /\ IsFiniteSet(disputedAssets)
      /\ id \in DOMAIN disputes /\ disputes[id].open
  BY AssetAssumption, FS_Subset DEF DisputeInv, DisputeTypeOK, OpenCountExact, resolveDispute
<1>2. /\ disputes' = [disputes EXCEPT ![id].open = FALSE, ![id].upheld = u]
      /\ UNCHANGED <<assetIdDigest, assetStatus>>
      /\ u => disputedAssets' = disputedAssets /\ openDisputeCount' = openDisputeCount
      /\ ~u => disputedAssets' = disputedAssets \ {held} /\ openDisputeCount' = openDisputeCount - 1
  BY DEF resolveDispute, recordVars
<1>3. /\ disputes' \in Seq(DisputeRecord) /\ DOMAIN disputes' = DOMAIN disputes
      /\ disputes'[id].token = disputes[id].token
      /\ disputes'[id].open = FALSE /\ disputes'[id].upheld = u
      /\ \A i \in DOMAIN disputes : i # id => disputes'[i] = disputes[i]
  <2>1. disputes[id] \in DisputeRecord
    BY <1>1
  <2>2. [disputes[id] EXCEPT !.open = FALSE, !.upheld = u] \in DisputeRecord
    BY <2>1 DEF DisputeRecord
  <2>3. disputes' = [disputes EXCEPT ![id] = [disputes[id] EXCEPT !.open = FALSE, !.upheld = u]]
    BY <1>2
  <2>4. disputes' \in Seq(DisputeRecord) /\ DOMAIN disputes' = DOMAIN disputes
    BY <1>1, <2>2, <2>3
  <2>5. \A i \in DOMAIN disputes : i # id => disputes'[i] = disputes[i]
    BY <1>1, <2>3
  <2>6. disputes'[id] = [disputes[id] EXCEPT !.open = FALSE, !.upheld = u]
    BY <1>1, <2>3
  <2> QED
    BY <2>1, <2>4, <2>5, <2>6 DEF DisputeRecord
<1>4. Holding(id) /\ held \in disputedAssets
  BY <1>1 DEF DisputeInv, HoldsMatchDisputes, Holding
<1>5. \A i \in DOMAIN disputes : /\ disputes[i].token \in Tokens
                                 /\ Minted(disputes[i].token)
  BY DisputedIsMinted
<1>6. ASSUME NEW i \in DOMAIN disputes, Holding(i), i # id
      PROVE  assetIdDigest[disputes[i].token] # held
  <2>1. disputes[i].token # disputes[id].token
    BY <1>1, <1>4, <1>6 DEF DisputeInv, HoldsMatchDisputes
  <2> QED
    BY <1>1, <1>5, <2>1 DEF RecordInv, TokenBinding
<1>7. HoldsMatchDisputes'
  <2>1. ASSUME NEW i \in DOMAIN disputes
        PROVE  /\ assetStatus[disputes'[i].token] # "NONE"
               /\ disputes'[i].open \/ disputes'[i].upheld =>
                    assetIdDigest[disputes'[i].token] \in disputedAssets'
    <3>1. CASE i = id
      BY <1>2, <1>3, <1>4, <1>5, <3>1 DEF Minted
    <3>2. CASE i # id
      BY <1>2, <1>3, <1>5, <1>6, <3>2 DEF DisputeInv, HoldsMatchDisputes, Holding, Minted
    <3> QED
      BY <3>1, <3>2
  <2>2. ASSUME NEW a \in disputedAssets'
        PROVE  \E i \in DOMAIN disputes : /\ disputes'[i].open \/ disputes'[i].upheld
                                          /\ assetIdDigest[disputes'[i].token] = a
    <3>1. a \in disputedAssets /\ (~u => a # held)
      BY <1>2
    <3>2. PICK i \in DOMAIN disputes : Holding(i) /\ assetIdDigest[disputes[i].token] = a
      BY <3>1 DEF DisputeInv, HoldsMatchDisputes
    <3>3. CASE i = id
      BY <1>1, <1>3, <3>1, <3>2, <3>3
    <3>4. CASE i # id
      BY <1>3, <3>2, <3>4 DEF Holding
    <3> QED
      BY <3>3, <3>4
  <2>3. ASSUME NEW i \in DOMAIN disputes, NEW j \in DOMAIN disputes,
               disputes'[i].open \/ disputes'[i].upheld,
               disputes'[j].open \/ disputes'[j].upheld,
               disputes'[i].token = disputes'[j].token
        PROVE  i = j
    <3>1. \A m \in DOMAIN disputes :
            /\ disputes'[m].token = disputes[m].token
            /\ disputes'[m].open \/ disputes'[m].upheld => Holding(m)
      BY <1>3, <1>4 DEF Holding
    <3> QED
      BY <2>3, <3>1 DEF DisputeInv, HoldsMatchDisputes
  <2> QED
    BY <1>2, <1>3, <2>1, <2>2, <2>3 DEF HoldsMatchDisputes, Holding, Minted
<1>8. OpenCountExact' /\ openDisputeCount' \in Nat
  <2>1. CASE u
    BY <1>1, <1>2, <2>1 DEF OpenCountExact
  <2>2. CASE ~u
    <3>1. Cardinality(disputedAssets \ {held}) = Cardinality(disputedAssets) - 1
      BY <1>1, <1>4, FS_RemoveElement
    <3>2. Cardinality(disputedAssets \ {held}) \in Nat
      BY <1>1, <1>4, FS_RemoveElement, FS_CardinalityType
    <3> QED
      BY <1>1, <1>2, <2>2, <3>1, <3>2 DEF OpenCountExact
  <2> QED
    BY <2>1, <2>2
<1>9. DisputeTypeOK'
  BY <1>1, <1>2, <1>3, <1>8 DEF DisputeTypeOK
<1> QED
  BY <1>7, <1>8, <1>9 DEF DisputeInv

---------------------------------------------------------------------------
(* No call forgets a record: a token once minted keeps its asset id. *)
LEMMA RecordsStay ==
    ASSUME RecordInv, ARAccountNext \/ ARGovernanceNext, NEW t \in Tokens, Minted(t)
    PROVE  assetStatus'[t] # "NONE" /\ assetIdDigest'[t] = assetIdDigest[t]
<1> USE DEF RecordInv, RecordTypeOK
<1>1. ASSUME NEW c \in Accounts, NEW w \in Accounts, NEW a \in AssetIds, registerAsset(c, a, w)
      PROVE  assetStatus'[t] # "NONE" /\ assetIdDigest'[t] = assetIdDigest[t]
  <2>1. t # nextTokenId
    BY AssetAssumption DEF TokenBinding, Tokens
  <2> QED
    BY <1>1, <2>1 DEF registerAsset, Minted
<1>2. ASSUME NEW u \in Tokens, NEW to \in AssetStatus \ {"NONE"}, changeStatus(u, to)
      PROVE  assetStatus'[t] # "NONE" /\ assetIdDigest'[t] = assetIdDigest[t]
  BY <1>2 DEF changeStatus, Minted
<1>3. ASSUME NEW c \in Accounts, NEW u \in Tokens,
             \/ activateAsset(c, u) \/ suspendAsset(c, u)
             \/ restoreAsset(c, u) \/ revokeAsset(c, u)
      PROVE  assetStatus'[t] # "NONE" /\ assetIdDigest'[t] = assetIdDigest[t]
  BY <1>2, <1>3 DEF activateAsset, suspendAsset, restoreAsset, revokeAsset, AssetStatus
<1>4. ASSUME NEW u \in Tokens, governanceBurnNFT(u)
      PROVE  assetStatus'[t] # "NONE" /\ assetIdDigest'[t] = assetIdDigest[t]
  BY <1>4 DEF governanceBurnNFT, Minted
<1>5. ASSUME UNCHANGED <<assetStatus, assetIdDigest>>
      PROVE  assetStatus'[t] # "NONE" /\ assetIdDigest'[t] = assetIdDigest[t]
  BY <1>5 DEF Minted
<1>6. ASSUME NEW c \in Accounts, NEW u \in Tokens, NEW w \in Accounts,
             assignAsset(c, u, w) \/ transferCustody(c, u, w) \/ governanceForceTransfer(u, w)
      PROVE  UNCHANGED <<assetStatus, assetIdDigest>>
  BY <1>6 DEF assignAsset, transferCustody, governanceForceTransfer, moveCustody
<1>7. ASSUME NEW c \in Accounts, NEW u \in Tokens, raiseDispute(c, u)
      PROVE  UNCHANGED <<assetStatus, assetIdDigest>>
  BY <1>7 DEF raiseDispute, recordVars
<1>8. ASSUME NEW c \in Accounts, NEW i, NEW u,
             flagAnomaly(c) \/ resolveDispute(c, i, u) \/ storeAuditReportHash(c)
      PROVE  UNCHANGED <<assetStatus, assetIdDigest>>
  BY <1>8 DEF flagAnomaly, resolveDispute, storeAuditReportHash, recordVars
<1>9. ASSUME governancePause \/ governanceUnpause
      PROVE  UNCHANGED <<assetStatus, assetIdDigest>>
  BY <1>9 DEF governancePause, governanceUnpause, recordVars
<1>10. CASE ARAccountNext
  BY <1>1, <1>3, <1>5, <1>6, <1>7, <1>8, <1>10 DEF ARAccountNext
<1>11. CASE ARGovernanceNext
  BY AccountAssumption, <1>4, <1>5, <1>6, <1>9, <1>11 DEF ARGovernanceNext
<1> QED
  BY <1>10, <1>11

(* Only raiseDispute and resolveDispute touch the disputes. *)
LEMMA CallKeepsDisputes ==
    ASSUME RecordInv, DisputeInv, ARAccountNext \/ ARGovernanceNext
    PROVE  DisputeInv'
<1>1. ASSUME UNCHANGED disputeVars PROVE DisputeInv'
  BY <1>1, RecordsStay, DisputesStay
<1>2. ASSUME NEW c \in Accounts, NEW w \in Accounts, NEW a \in AssetIds, registerAsset(c, a, w)
      PROVE  UNCHANGED disputeVars
  BY <1>2 DEF registerAsset
<1>3. ASSUME NEW c \in Accounts, NEW t \in Tokens,
             \/ activateAsset(c, t) \/ suspendAsset(c, t)
             \/ restoreAsset(c, t) \/ revokeAsset(c, t)
             \/ governanceBurnNFT(t)
      PROVE  UNCHANGED disputeVars
  BY <1>3 DEF activateAsset, suspendAsset, restoreAsset, revokeAsset, changeStatus,
              governanceBurnNFT
<1>4. ASSUME NEW c \in Accounts, flagAnomaly(c) \/ storeAuditReportHash(c)
      PROVE  UNCHANGED disputeVars
  BY <1>4 DEF flagAnomaly, storeAuditReportHash
<1>5. ASSUME governancePause \/ governanceUnpause
      PROVE  UNCHANGED disputeVars
  BY <1>5 DEF governancePause, governanceUnpause
<1>6. ASSUME NEW c \in Accounts, NEW w \in Accounts, NEW t \in Tokens,
             assignAsset(c, t, w) \/ transferCustody(c, t, w) \/ governanceForceTransfer(t, w)
      PROVE  UNCHANGED disputeVars
  BY <1>6 DEF assignAsset, transferCustody, governanceForceTransfer, moveCustody, disputeVars
<1>7. CASE ARAccountNext
  BY <1>1, <1>2, <1>3, <1>4, <1>6, <1>7, RaiseKeeps, ResolveKeeps DEF ARAccountNext
<1>8. CASE ARGovernanceNext
  BY AccountAssumption, <1>1, <1>3, <1>5, <1>6, <1>8 DEF ARGovernanceNext
<1> QED
  BY <1>7, <1>8

(* The pause flag and the evidence counters keep their types. *)
LEMMA EvidenceTyped ==
    ASSUME ARTypeOK, ARAccountNext \/ ARGovernanceNext
    PROVE  paused' \in BOOLEAN /\ anomalyCount' \in Nat /\ auditReportCount' \in Nat
<1> USE DEF ARTypeOK, evidenceVars
<1>1. ASSUME NEW c \in Accounts, NEW w \in Accounts, NEW a \in AssetIds, registerAsset(c, a, w)
      PROVE  UNCHANGED <<paused, evidenceVars>>
  BY <1>1 DEF registerAsset
<1>2. ASSUME NEW c \in Accounts, NEW w \in Accounts, NEW t \in Tokens,
             assignAsset(c, t, w) \/ transferCustody(c, t, w) \/ governanceForceTransfer(t, w)
      PROVE  UNCHANGED <<paused, evidenceVars>>
  BY <1>2 DEF assignAsset, transferCustody, governanceForceTransfer, moveCustody
<1>3. ASSUME NEW c \in Accounts, NEW t \in Tokens,
             \/ activateAsset(c, t) \/ suspendAsset(c, t)
             \/ restoreAsset(c, t) \/ revokeAsset(c, t)
             \/ governanceBurnNFT(t) \/ raiseDispute(c, t)
      PROVE  UNCHANGED <<paused, evidenceVars>>
  BY <1>3 DEF activateAsset, suspendAsset, restoreAsset, revokeAsset, changeStatus,
              governanceBurnNFT, raiseDispute
<1>4. ASSUME NEW c \in Accounts, NEW i, NEW u,
             flagAnomaly(c) \/ resolveDispute(c, i, u) \/ storeAuditReportHash(c)
      PROVE  paused' = paused /\ anomalyCount' \in Nat /\ auditReportCount' \in Nat
  BY <1>4 DEF flagAnomaly, resolveDispute, storeAuditReportHash
<1>5. ASSUME governancePause \/ governanceUnpause
      PROVE  paused' \in BOOLEAN /\ UNCHANGED evidenceVars
  BY <1>5 DEF governancePause, governanceUnpause
<1>6. CASE ARAccountNext
  BY <1>1, <1>2, <1>3, <1>4, <1>6 DEF ARAccountNext
<1>7. CASE ARGovernanceNext
  BY AccountAssumption, <1>2, <1>3, <1>5, <1>7 DEF ARGovernanceNext
<1> QED
  BY <1>6, <1>7

---------------------------------------------------------------------------
(* The inductive invariant of the three contracts: the role and identity   *)
(* part is only there for the types, the asset part rests on itself.       *)
RegistryInv ==
    /\ IdentityInv
    /\ RecordInv
    /\ DisputeInv
    /\ ARTypeOK

(* Every reachable state of the three contracts satisfies it. *)
THEOREM RegistryInvariant == RegistrySpec => []RegistryInv
<1> DEFINE AInv == RecordInv /\ DisputeInv /\ ARTypeOK
<1>1. RegistryInit => AInv
  <2> SUFFICES ASSUME ARInit PROVE AInv
    BY DEF RegistryInit
  <2>1. << >> \in Seq(DisputeRecord)
    OBVIOUS
  <2>2. DisputeInv
    BY <2>1, FS_EmptySet DEF ARInit, DisputeInv, DisputeTypeOK, HoldsMatchDisputes, OpenCountExact
  <2> QED
    BY <2>2, ARInit_RecordInv DEF ARInit, ARTypeOK, RecordInv, DisputeInv
<1>2. AInv /\ [RegistryNext]_registryVars => AInv'
  <2> SUFFICES ASSUME AInv, [RegistryNext]_registryVars PROVE AInv'
    OBVIOUS
  <2>1. ASSUME ARAccountNext \/ ARGovernanceNext
        PROVE  /\ paused' \in BOOLEAN
               /\ anomalyCount' \in Nat /\ auditReportCount' \in Nat
    BY <2>1, EvidenceTyped
  <2>2. CASE ARAccountNext \/ ARGovernanceNext
    <3>1. RecordInv' /\ DisputeInv'
      BY <2>2, AccountCallKeepsRecords, GovernanceCallKeepsRecords, CallKeepsDisputes
    <3> QED
      BY <2>1, <2>2, <3>1 DEF ARTypeOK, RecordInv, DisputeInv
  <2>3. CASE UNCHANGED assetVars
    <3>1. RecordInv'
      BY <2>3, RecordStutter DEF assetVars
    <3>2. DisputeInv'
      BY <2>3, DisputesStay DEF assetVars, recordVars, Minted
    <3> QED
      BY <2>3, <3>1, <3>2 DEF ARTypeOK, RecordInv, DisputeInv, assetVars, evidenceVars
  <2> QED
    BY <2>2, <2>3 DEF RegistryNext, AccountNext, GovernanceNext, registryVars
<1>3. RegistrySpec => []IdentityInv
  BY RegistryRefinesIdentity, IdentityInvariant, PTL
<1>4. RegistrySpec => []AInv
  BY <1>1, <1>2, PTL DEF RegistrySpec
<1>5. IdentityInv /\ AInv => RegistryInv
  BY DEF RegistryInv
<1> QED
  BY <1>3, <1>4, <1>5, PTL

(* Every variable of the three contracts keeps its type: in particular the *)
(* openDisputeCount that resolveDispute decrements never goes below zero.  *)
THEOREM RegistryTypeCorrect == RegistrySpec => []RegistryTypeOK
<1>1. RegistryInv => RegistryTypeOK
  BY DEF IdentityInv, ACInv, IRInv, RegistryInv, RegistryTypeOK
<1> QED
  BY <1>1, RegistryInvariant, PTL

(* registerAsset never gives an asset id two tokens or a token two ids.    *)
THEOREM TokenBindingCorrect == RegistrySpec => []TokenBinding
<1>1. RegistryInv => TokenBinding
  BY DEF RegistryInv, RecordInv
<1> QED
  BY <1>1, RegistryInvariant, PTL

(* No mint, assignment, transfer, burn or forced transfer separates the    *)
(* ERC-721 owner from the custodian of the record.                         *)
THEOREM OwnerIsCustodianCorrect == RegistrySpec => []OwnerIsCustodian
<1>1. RegistryInv => OwnerIsCustodian
  BY DEF RegistryInv, RecordInv
<1> QED
  BY <1>1, RegistryInvariant, PTL

(* The custody log stays an unbroken chain from the mint to the custodian. *)
THEOREM CustodyChainCorrect == RegistrySpec => []CustodyChain
<1>1. RegistryInv => CustodyChain
  BY DEF RegistryInv, RecordInv
<1> QED
  BY <1>1, RegistryInvariant, PTL

(* After any raising and resolving, an asset is on hold exactly when one   *)
(* open or upheld dispute holds it.                                        *)
THEOREM HoldsMatchDisputesCorrect == RegistrySpec => []HoldsMatchDisputes
<1>1. RegistryInv => HoldsMatchDisputes
  BY DEF RegistryInv, DisputeInv
<1> QED
  BY <1>1, RegistryInvariant, PTL

(* The count of open disputes is the number of assets on hold.             *)
THEOREM OpenCountCorrect == RegistrySpec => []OpenCountExact
<1>1. RegistryInv => OpenCountExact
  BY DEF RegistryInv, DisputeInv
<1> QED
  BY <1>1, RegistryInvariant, PTL

---------------------------------------------------------------------------
(* What one call may do to the record of a token.  Whatever is revoked     *)
(* stays revoked, and only a mint gives a token its first status.          *)
LEMMA RevokedStays ==
    ASSUME RecordInv, ARAccountNext \/ ARGovernanceNext,
           NEW t \in Tokens, assetStatus[t] = "REVOKED"
    PROVE  assetStatus'[t] = "REVOKED"
<1> USE DEF RecordInv, RecordTypeOK
<1>1. ASSUME NEW c \in Accounts, NEW w \in Accounts, NEW a \in AssetIds, registerAsset(c, a, w)
      PROVE  assetStatus'[t] = "REVOKED"
  <2>1. t # nextTokenId
    BY AssetAssumption DEF TokenBinding, Tokens, Minted
  <2> QED
    BY <1>1, <2>1 DEF registerAsset
<1>2. ASSUME NEW u \in Tokens, NEW to, changeStatus(u, to)
      PROVE  assetStatus'[t] = "REVOKED"
  BY <1>2 DEF changeStatus, StatusTransitions
<1>3. ASSUME NEW c \in Accounts, NEW u \in Tokens,
             \/ activateAsset(c, u) \/ suspendAsset(c, u)
             \/ restoreAsset(c, u) \/ revokeAsset(c, u)
      PROVE  assetStatus'[t] = "REVOKED"
  BY <1>2, <1>3 DEF activateAsset, suspendAsset, restoreAsset, revokeAsset
<1>4. ASSUME NEW u \in Tokens, governanceBurnNFT(u)
      PROVE  assetStatus'[t] = "REVOKED"
  BY <1>4 DEF governanceBurnNFT
<1>5. ASSUME NEW c \in Accounts, NEW u \in Tokens, NEW w \in Accounts,
             assignAsset(c, u, w) \/ transferCustody(c, u, w) \/ governanceForceTransfer(u, w)
      PROVE  UNCHANGED assetStatus
  BY <1>5 DEF assignAsset, transferCustody, governanceForceTransfer, moveCustody
<1>6. ASSUME NEW c \in Accounts, NEW i, NEW u, NEW d \in Tokens,
             \/ flagAnomaly(c) \/ raiseDispute(c, d)
             \/ resolveDispute(c, i, u) \/ storeAuditReportHash(c)
      PROVE  UNCHANGED assetStatus
  BY <1>6 DEF flagAnomaly, raiseDispute, resolveDispute, storeAuditReportHash, recordVars
<1>7. ASSUME governancePause \/ governanceUnpause
      PROVE  UNCHANGED assetStatus
  BY <1>7 DEF governancePause, governanceUnpause, recordVars
<1>8. CASE ARAccountNext
  BY <1>1, <1>3, <1>5, <1>6, <1>8 DEF ARAccountNext
<1>9. CASE ARGovernanceNext
  BY AccountAssumption, <1>4, <1>5, <1>7, <1>9 DEF ARGovernanceNext
<1> QED
  BY <1>8, <1>9

(* A custody move asks ERC-721 for the token, so it reverts for a burned   *)
(* one; nothing else touches owner, custodian or log of a minted token.    *)
LEMMA BurnedStays ==
    ASSUME RecordInv, ARAccountNext \/ ARGovernanceNext, NEW t \in Tokens, Burned(t)
    PROVE  owners'[t] = ZeroAddress /\ UNCHANGED <<custodian[t], custodyHistory[t]>>
<1> USE DEF RecordInv, RecordTypeOK
<1> DEFINE Kept == owners'[t] = ZeroAddress /\ UNCHANGED <<custodian[t], custodyHistory[t]>>
<1>0. /\ Minted(t) /\ owners[t] = ZeroAddress
      /\ assetStatus[t] = "REVOKED" /\ custodian[t] \in Accounts /\ ZeroAddress \notin Accounts
  BY IdentityAssumption DEF Burned, OwnerIsCustodian, Principals
<1>1. ASSUME NEW c \in Accounts, NEW w \in Accounts, NEW a \in AssetIds, registerAsset(c, a, w)
      PROVE  Kept
  <2>1. t # nextTokenId
    BY <1>0, AssetAssumption DEF TokenBinding, Tokens, Minted
  <2> QED
    BY <1>0, <1>1, <2>1 DEF registerAsset, mintTo
<1>2. ASSUME NEW u \in Tokens, NEW w \in Accounts, moveCustody(u, w), u # t,
             owners' = [owners EXCEPT ![u] = w] \/ UNCHANGED owners
      PROVE  Kept
  BY <1>0, <1>2 DEF moveCustody
<1>3. ASSUME NEW c \in Accounts, NEW u \in Tokens, NEW w \in Accounts,
             assignAsset(c, u, w) \/ transferCustody(c, u, w) \/ governanceForceTransfer(u, w)
      PROVE  Kept
  <2>1. u # t
    BY <1>0, <1>3 DEF assignAsset, transferCustody, governanceForceTransfer, transferOwner
  <2> QED
    BY <1>2, <1>3, <2>1
       DEF assignAsset, transferCustody, governanceForceTransfer, transferOwner
<1>4. ASSUME UNCHANGED <<custodian, custodyHistory, owners>>
      PROVE  Kept
  BY <1>0, <1>4
<1>5. ASSUME NEW c \in Accounts, NEW u \in Tokens,
             \/ activateAsset(c, u) \/ suspendAsset(c, u)
             \/ restoreAsset(c, u) \/ revokeAsset(c, u)
      PROVE  Kept
  BY <1>4, <1>5 DEF activateAsset, suspendAsset, restoreAsset, revokeAsset, changeStatus,
                    custodyVars
<1>6. ASSUME NEW c \in Accounts, NEW i, NEW u, NEW d \in Tokens,
             \/ flagAnomaly(c) \/ raiseDispute(c, d)
             \/ resolveDispute(c, i, u) \/ storeAuditReportHash(c)
      PROVE  Kept
  BY <1>4, <1>6 DEF flagAnomaly, raiseDispute, resolveDispute, storeAuditReportHash, recordVars,
                    custodyVars
<1>7. ASSUME governancePause \/ governanceUnpause
      PROVE  Kept
  BY <1>4, <1>7 DEF governancePause, governanceUnpause, recordVars, custodyVars
<1>8. ASSUME NEW u \in Tokens, governanceBurnNFT(u)
      PROVE  Kept
  BY <1>0, <1>8 DEF governanceBurnNFT, burn
<1>9. CASE ARAccountNext
  BY <1>1, <1>3, <1>5, <1>6, <1>9 DEF ARAccountNext
<1>10. CASE ARGovernanceNext
  BY AccountAssumption, <1>3, <1>7, <1>8, <1>10 DEF ARGovernanceNext
<1> QED
  BY <1>9, <1>10

(* Revocation and burning are final: no status call, no mint and no        *)
(* custody call of anybody, governance included, undoes either.            *)
THEOREM RevocationTerminalCorrect == RegistrySpec => RevocationTerminal
<1> DEFINE Kept(t) == /\ assetStatus[t] = "REVOKED" => assetStatus'[t] = "REVOKED"
                      /\ Burned(t) => /\ Burned(t)'
                                      /\ custodian'[t] = custodian[t]
                                      /\ custodyHistory'[t] = custodyHistory[t]
<1>1. ASSUME RecordInv, [RegistryNext]_registryVars, NEW t \in Tokens
      PROVE  Kept(t)
  <2>1. CASE ARAccountNext \/ ARGovernanceNext
    <3>1. Burned(t) => Minted(t) /\ Minted(t)' /\ owners'[t] = ZeroAddress
      BY <1>1, <2>1, RecordsStay, BurnedStays DEF Burned, Minted
    <3> QED
      BY <1>1, <2>1, <3>1, RevokedStays, BurnedStays DEF Burned, Minted
  <2>2. CASE UNCHANGED assetVars
    BY <2>2 DEF assetVars, recordVars, custodyVars, Burned, Minted
  <2> QED
    BY <1>1, <2>1, <2>2 DEF RegistryNext, AccountNext, GovernanceNext, registryVars
<1>2. RegistryInv /\ [RegistryNext]_registryVars => [\A t \in Tokens : Kept(t)]_registryVars
  BY <1>1 DEF RegistryInv
<1> QED
  BY <1>2, RegistryInvariant, PTL DEF RegistrySpec, RevocationTerminal

---------------------------------------------------------------------------
(* Custody moves by a mint, an assignment or a transfer, each of which     *)
(* asks for the recipient's identity and for a status that allows it.      *)
LEMMA AccountMovesToActive ==
    ASSUME RecordInv, ARAccountNext, UNCHANGED <<acVars, idVars>>,
           NEW t \in Tokens, custodian'[t] # custodian[t]
    PROVE  isActive(custodian'[t]) /\ assetStatus[t] \in {"NONE", "PENDING", "ACTIVE"}
<1> USE DEF RecordInv, RecordTypeOK
<1>1. ASSUME NEW c \in Accounts, NEW w \in Accounts, NEW a \in AssetIds, registerAsset(c, a, w)
      PROVE  isActive(custodian'[t]) /\ assetStatus[t] \in {"NONE", "PENDING", "ACTIVE"}
  <2>1. t = nextTokenId /\ custodian'[t] = w
    BY <1>1 DEF registerAsset
  <2>2. assetStatus[t] = "NONE"
    BY <2>1, AssetAssumption DEF TokenBinding, Tokens, Minted
  <2> QED
    BY <1>1, <2>1, <2>2 DEF registerAsset
<1>2. ASSUME NEW c \in Accounts, NEW u \in Tokens, NEW w \in Accounts,
             assignAsset(c, u, w) \/ transferCustody(c, u, w)
      PROVE  isActive(custodian'[t]) /\ assetStatus[t] \in {"NONE", "PENDING", "ACTIVE"}
  <2>1. t = u /\ custodian'[t] = w
    BY <1>2 DEF assignAsset, transferCustody, moveCustody
  <2> QED
    BY <1>2, <2>1 DEF assignAsset, transferCustody
<1>3. ASSUME NEW c \in Accounts, NEW u \in Tokens,
             \/ activateAsset(c, u) \/ suspendAsset(c, u)
             \/ restoreAsset(c, u) \/ revokeAsset(c, u)
      PROVE  UNCHANGED custodian
  BY <1>3 DEF activateAsset, suspendAsset, restoreAsset, revokeAsset, changeStatus
<1>4. ASSUME NEW c \in Accounts, NEW i, NEW u, NEW d \in Tokens,
             \/ flagAnomaly(c) \/ raiseDispute(c, d)
             \/ resolveDispute(c, i, u) \/ storeAuditReportHash(c)
      PROVE  UNCHANGED custodian
  BY <1>4 DEF flagAnomaly, raiseDispute, resolveDispute, storeAuditReportHash, recordVars
<1> QED
  BY <1>1, <1>2, <1>3, <1>4 DEF ARAccountNext

(* No account moves custody to a wallet without a verified identity or     *)
(* out of a suspended or revoked asset.                                    *)
THEOREM CustodyMovesToActiveCorrect == RegistrySpec => CustodyMovesToActive
<1> DEFINE Moves(t) ==
        custodian'[t] # custodian[t] =>
            \/ isActive(custodian'[t]) /\ assetStatus[t] \in {"NONE", "PENDING", "ACTIVE"}
            \/ ~AccountNext
<1>1. ASSUME RecordInv, RegistryNext, NEW t \in Tokens
      PROVE  Moves(t)
  <2>1. CASE AccountNext /\ ARAccountNext /\ UNCHANGED <<acVars, idVars>>
    BY <1>1, <2>1, AccountMovesToActive
  <2>2. CASE UNCHANGED assetVars
    BY <2>2 DEF assetVars, recordVars
  <2> QED
    BY <1>1, <2>1, <2>2 DEF RegistryNext, AccountNext
<1>2. RegistryInv /\ [RegistryNext]_registryVars => [\A t \in Tokens : Moves(t)]_registryVars
  BY <1>1 DEF RegistryInv
<1> QED
  BY <1>2, RegistryInvariant, PTL DEF RegistrySpec, CustodyMovesToActive

---------------------------------------------------------------------------
(* A dispute is resolved once: raised open and not upheld, it is upheld    *)
(* only by the call that closes it.                                        *)
ResolvedOnce == \A i \in DOMAIN disputes : ~(disputes[i].open /\ disputes[i].upheld)

(* What a call does to the disputes there are: an upheld one is not open,  *)
(* so resolveDispute refuses it.                                           *)
LEMMA UpheldStays ==
    ASSUME RecordInv, DisputeInv, ResolvedOnce, ARAccountNext \/ ARGovernanceNext
    PROVE  /\ ResolvedOnce'
           /\ \A i \in DOMAIN disputes :
                disputes[i].upheld => i \in DOMAIN disputes' /\ disputes'[i] = disputes[i]
<1>1. /\ disputes \in Seq(DisputeRecord) /\ Len(disputes) \in Nat
      /\ DOMAIN disputes = 1 .. Len(disputes)
  BY DEF DisputeInv, DisputeTypeOK
<1> DEFINE Kept == /\ ResolvedOnce'
                   /\ \A i \in DOMAIN disputes :
                        disputes[i].upheld => i \in DOMAIN disputes' /\ disputes'[i] = disputes[i]
<1>2. ASSUME UNCHANGED disputes PROVE Kept
  BY <1>2 DEF ResolvedOnce
<1>3. ASSUME NEW c \in Accounts, NEW t \in Tokens, raiseDispute(c, t) PROVE Kept
  <2> DEFINE d == [token |-> t, raisedBy |-> c, open |-> TRUE, upheld |-> FALSE]
  <2>1. d \in DisputeRecord /\ ~d.upheld
    BY DEF DisputeRecord
  <2>2. disputes' = Append(disputes, d)
    BY <1>3 DEF raiseDispute
  <2> HIDE DEF d
  <2>3. /\ DOMAIN disputes' = 1 .. Len(disputes) + 1
        /\ \A i \in DOMAIN disputes : disputes'[i] = disputes[i]
        /\ disputes'[Len(disputes) + 1] = d
    BY <1>1, <2>1, <2>2
  <2> QED
    BY <1>1, <2>1, <2>3 DEF ResolvedOnce
<1>4. ASSUME NEW c \in Accounts, NEW n, NEW u \in BOOLEAN, resolveDispute(c, n, u) PROVE Kept
  <2>1. /\ n \in DOMAIN disputes /\ disputes[n].open /\ ~disputes[n].upheld
        /\ disputes' = [disputes EXCEPT ![n].open = FALSE, ![n].upheld = u]
    BY <1>1, <1>4 DEF resolveDispute, ResolvedOnce
  <2>2. disputes[n] \in DisputeRecord
    BY <1>1, <2>1
  <2>3. /\ DOMAIN disputes' = DOMAIN disputes
        /\ disputes'[n].open = FALSE
        /\ \A i \in DOMAIN disputes : i # n => disputes'[i] = disputes[i]
    BY <1>1, <2>1, <2>2 DEF DisputeRecord
  <2> QED
    BY <2>1, <2>3 DEF ResolvedOnce
<1>5. ASSUME NEW c \in Accounts, NEW t \in Tokens,
             \/ activateAsset(c, t) \/ suspendAsset(c, t)
             \/ restoreAsset(c, t) \/ revokeAsset(c, t)
             \/ governanceBurnNFT(t)
      PROVE  UNCHANGED disputes
  BY <1>5 DEF activateAsset, suspendAsset, restoreAsset, revokeAsset, changeStatus,
              governanceBurnNFT, disputeVars
<1>6. ASSUME NEW c \in Accounts, NEW w \in Accounts, NEW t \in Tokens,
             \/ assignAsset(c, t, w) \/ transferCustody(c, t, w) \/ governanceForceTransfer(t, w)
      PROVE  UNCHANGED disputes
  BY <1>6 DEF assignAsset, transferCustody, governanceForceTransfer, moveCustody, disputeVars
<1>7. ASSUME NEW c \in Accounts, NEW w, NEW a,
             registerAsset(c, a, w) \/ flagAnomaly(c) \/ storeAuditReportHash(c)
      PROVE  UNCHANGED disputes
  BY <1>7 DEF registerAsset, flagAnomaly, storeAuditReportHash, disputeVars
<1>8. ASSUME governancePause \/ governanceUnpause
      PROVE  UNCHANGED disputes
  BY <1>8 DEF governancePause, governanceUnpause, disputeVars
<1>9. CASE ARAccountNext
  BY <1>2, <1>3, <1>4, <1>5, <1>6, <1>7, <1>9 DEF ARAccountNext
<1>10. CASE ARGovernanceNext
  BY AccountAssumption, <1>2, <1>5, <1>6, <1>8, <1>10 DEF ARGovernanceNext
<1> QED
  BY <1>9, <1>10

(* Over any calls, a dispute that is closed stays closed.                  *)
LEMMA ResolvedOnceInvariant == RegistrySpec => []ResolvedOnce
<1>1. RegistryInit => ResolvedOnce
  BY DEF RegistryInit, ARInit, ResolvedOnce
<1>2. RegistryInv /\ ResolvedOnce /\ [RegistryNext]_registryVars => ResolvedOnce'
  <2> SUFFICES ASSUME RegistryInv, ResolvedOnce, [RegistryNext]_registryVars PROVE ResolvedOnce'
    OBVIOUS
  <2>1. CASE ARAccountNext \/ ARGovernanceNext
    BY <2>1, UpheldStays DEF RegistryInv
  <2>2. CASE UNCHANGED assetVars
    BY <2>2 DEF assetVars, disputeVars, ResolvedOnce
  <2> QED
    BY <2>1, <2>2 DEF RegistryNext, AccountNext, GovernanceNext, registryVars
<1> QED
  BY <1>1, <1>2, RegistryInvariant, PTL DEF RegistrySpec

(* An upheld dispute keeps its asset on hold through every later call:     *)
(* not even a second dispute on the asset, rejected, releases it.          *)
THEOREM UpheldHoldCorrect == RegistrySpec => UpheldHoldIsPermanent
<1> DEFINE Held(i) == disputes[i].upheld =>
                        /\ disputes'[i] = disputes[i]
                        /\ assetIdDigest'[disputes[i].token] \in disputedAssets'
<1>1. ASSUME RegistryInv, RegistryInv', ResolvedOnce, [RegistryNext]_registryVars,
             NEW i \in DOMAIN disputes, disputes[i].upheld
      PROVE  /\ disputes'[i] = disputes[i]
             /\ assetIdDigest'[disputes[i].token] \in disputedAssets'
  <2>1. i \in DOMAIN disputes' /\ disputes'[i] = disputes[i]
    <3>1. CASE ARAccountNext \/ ARGovernanceNext
      BY <1>1, <3>1, UpheldStays DEF RegistryInv
    <3>2. CASE UNCHANGED assetVars
      BY <3>2 DEF assetVars, disputeVars
    <3> QED
      BY <1>1, <3>1, <3>2 DEF RegistryNext, AccountNext, GovernanceNext, registryVars
  <2>2. \A j \in DOMAIN disputes' :
            disputes'[j].upheld => assetIdDigest'[disputes'[j].token] \in disputedAssets'
    BY <1>1 DEF RegistryInv, DisputeInv, HoldsMatchDisputes, Holding
  <2> QED
    BY <1>1, <2>1, <2>2
<1>2. RegistryInv /\ RegistryInv' /\ ResolvedOnce /\ [RegistryNext]_registryVars =>
        [\A i \in DOMAIN disputes : Held(i)]_registryVars
  BY <1>1
<1> QED
  BY <1>2, RegistryInvariant, ResolvedOnceInvariant, PTL DEF RegistrySpec, UpheldHoldIsPermanent

---------------------------------------------------------------------------
(***************************************************************************)
(* 3. The multisig.                                                        *)
(***************************************************************************)

(* What the multisig keeps on its own: an id beyond the counter has no     *)
(* operation, so approving it before it is proposed executes nothing.      *)
UnproposedEmpty == \A p \in ProposalIds : p > proposalCount => proposalOp[p] = NoOperation

GovInv == GovTypeOK /\ ApprovalsAreDistinctSigners /\ UnproposedEmpty

(* approve: one more signer, one more in the count. *)
LEMMA ApproveKeeps ==
    ASSUME GovInv, NEW s \in Signers, NEW p \in ProposalIds, approve(s, p)
    PROVE  GovInv'
<1> USE DEF approve
<1>1. /\ IsFiniteSet(proposalApprovedBy[p])
      /\ proposalApprovals[p] = Cardinality(proposalApprovedBy[p])
  BY GovernanceAssumption, FS_Subset DEF GovInv, GovTypeOK, ApprovalsAreDistinctSigners
<1>2. Cardinality(proposalApprovedBy[p] \cup {s}) = proposalApprovals[p] + 1
  BY <1>1, FS_AddElement
<1>3. GovTypeOK'
  BY DEF GovInv, GovTypeOK, configVars, createVars, outcomeVars
<1>4. ApprovalsAreDistinctSigners'
  BY <1>2 DEF GovInv, GovTypeOK, ApprovalsAreDistinctSigners
<1>5. UnproposedEmpty'
  BY DEF GovInv, UnproposedEmpty, createVars
<1> QED
  BY <1>3, <1>4, <1>5 DEF GovInv

(* propose: the next id gets its operation and nothing else changes. *)
LEMMA ProposeKeeps ==
    ASSUME GovInv, NEW op \in Operations, propose(op)
    PROVE  GovInv'
<1> USE DEF propose
<1>1. proposalCount + 1 \in ProposalIds /\ proposalCount \in Nat /\ MaxProposals \in Nat
  BY GovernanceAssumption DEF GovInv, GovTypeOK, ProposalIds
<1>2. GovTypeOK'
  BY <1>1 DEF GovInv, GovTypeOK, ProposalIds, configVars, approvalVars, outcomeVars
<1>3. ApprovalsAreDistinctSigners'
  BY DEF GovInv, ApprovalsAreDistinctSigners, approvalVars
<1>4. UnproposedEmpty'
  BY <1>1 DEF GovInv, GovTypeOK, UnproposedEmpty, ProposalIds
<1> QED
  BY <1>2, <1>3, <1>4 DEF GovInv

(* The configuration calls, cancel, execute and the passing of time leave  *)
(* proposals and approvals alone.                                          *)
LEMMA OthersKeep ==
    ASSUME GovInv, UNCHANGED <<createVars, approvalVars>>,
           now' \in Nat, quorumPercent' \in 1 .. 100, timelockDelaySeconds' \in Nat,
           proposalExecuted' \subseteq ProposalIds, proposalCancelled' \subseteq ProposalIds
    PROVE  GovInv'
BY DEF GovInv, GovTypeOK, ApprovalsAreDistinctSigners, UnproposedEmpty, createVars, approvalVars

(* No call of the multisig breaks it. *)
LEMMA ChainNext_GovInv == GovInv /\ [ChainNext]_chainVars => GovInv'
<1> SUFFICES ASSUME GovInv, [ChainNext]_chainVars PROVE GovInv'
  OBVIOUS
<1> USE DEF configVars, createVars, approvalVars, outcomeVars
<1>1. CASE UNCHANGED govVars
  BY <1>1, OthersKeep DEF govVars, GovInv, GovTypeOK
<1>2. ASSUME NEW q \in QuorumPercents, setQuorum(q) PROVE GovInv'
  BY <1>2, OthersKeep, GovernanceAssumption DEF setQuorum, GovInv, GovTypeOK
<1>3. ASSUME NEW d \in TimelockDelays, setTimelockDelay(d) PROVE GovInv'
  BY <1>3, OthersKeep, GovernanceAssumption DEF setTimelockDelay, GovInv, GovTypeOK
<1>4. ASSUME NEW p \in ProposalIds, cancel(p) PROVE GovInv'
  BY <1>4, OthersKeep DEF cancel, GovInv, GovTypeOK
<1>5. ASSUME NEW p \in ProposalIds, execute(p) PROVE GovInv'
  BY <1>5, OthersKeep DEF execute, GovInv, GovTypeOK
<1>6. ASSUME tick PROVE GovInv'
  BY <1>6, OthersKeep DEF tick, GovInv, GovTypeOK
<1> QED
  BY <1>1, <1>2, <1>3, <1>4, <1>5, <1>6, ApproveKeeps, ProposeKeeps
     DEF ChainNext, GovNext, chainVars

(* The multisig's own state is right in every reachable state. *)
THEOREM GovernanceInvariant == ChainSpec => []GovInv
<1>1. ChainInit => GovInv
  BY GovernanceAssumption, FS_EmptySet
     DEF ChainInit, GovInit, GovInv, GovTypeOK, ApprovalsAreDistinctSigners, UnproposedEmpty,
         ProposalIds
<1> QED
  BY <1>1, ChainNext_GovInv, PTL DEF ChainSpec

(* The count that execute compares with the quorum is the number of        *)
(* distinct signers that approved, whatever the order of approvals.        *)
THEOREM ApprovalsCorrect == ChainSpec => []ApprovalsAreDistinctSigners
<1>1. GovInv => ApprovalsAreDistinctSigners
  BY DEF GovInv
<1> QED
  BY <1>1, GovernanceInvariant, PTL

---------------------------------------------------------------------------
(* An executed operation is one of the governance calls of RegistrySpec. *)
LEMMA DispatchIsGovernanceCall ==
    ASSUME NEW op \in Operations, dispatch(op)
    PROVE  GovernanceNext
<1>1. op.token \in Tokens /\ op.account \in Accounts
  BY GovernanceAssumption DEF OperationRecord
<1> QED
  BY <1>1 DEF dispatch, GovernanceNext, IRGovernanceNext, ARGovernanceNext

(* The multisig does to the registries only what their own specification   *)
(* lets governance do, so everything proved of RegistrySpec holds under    *)
(* the multisig.                                                           *)
THEOREM ChainRefinesRegistry == ChainSpec => RegistryRefinement
<1>1. ChainInit => RegistryInit
  BY DEF ChainInit
<1>2. GovInv /\ [ChainNext]_chainVars => [RegistryNext]_registryVars
  <2> SUFFICES ASSUME GovInv, [ChainNext]_chainVars PROVE [RegistryNext]_registryVars
    OBVIOUS
  <2>1. ASSUME NEW p \in ProposalIds, execute(p) PROVE GovernanceNext
    <3>1. proposalOp[p] \in Operations
      BY <2>1 DEF execute, GovInv, GovTypeOK, NoOperation
    <3> QED
      BY <2>1, <3>1, DispatchIsGovernanceCall DEF execute
  <2> QED
    BY <2>1 DEF ChainNext, RegistryNext, chainVars
<1> QED
  BY <1>1, <1>2, GovernanceInvariant, PTL DEF ChainSpec, RegistrySpec, RegistryRefinement

(* Types and ownership of the registries, under the multisig. *)
THEOREM ChainTypeCorrect == ChainSpec => []ChainTypeOK
<1>1. GovInv /\ RegistryTypeOK => ChainTypeOK
  BY DEF GovInv, ChainTypeOK
<1>2. ChainSpec => []RegistryTypeOK
  BY ChainRefinesRegistry, RegistryTypeCorrect DEF RegistryRefinement
<1> QED
  BY <1>1, <1>2, GovernanceInvariant, PTL

---------------------------------------------------------------------------
(* The rounding of quorumRequired is upwards. *)
LEMMA QuorumRoundsUp ==
    ASSUME NEW n \in Nat, NEW a \in Nat, a >= (n + 99) \div 100
    PROVE  100 * a >= n
OBVIOUS

(* An execution has its quorum of distinct signers, its delay since the    *)
(* proposal, a proposed operation and no cancellation.                     *)
LEMMA ExecuteIsAuthorized ==
    ASSUME GovInv, NEW p \in ProposalIds, execute(p)
    PROVE  /\ p <= proposalCount
           /\ 100 * Cardinality(proposalApprovedBy[p]) >= quorumPercent * Cardinality(Signers)
           /\ now - proposalCreatedAt[p] >= timelockDelaySeconds
           /\ p \notin proposalCancelled
           /\ proposalExecuted' = proposalExecuted \cup {p}
<1>1. p <= proposalCount
  <2>1. proposalOp[p] # NoOperation
    BY DEF execute, NoOperation
  <2> QED
    BY <2>1 DEF GovInv, GovTypeOK, UnproposedEmpty, ProposalIds
<1>2. 100 * Cardinality(proposalApprovedBy[p]) >= quorumPercent * Cardinality(Signers)
  <2> DEFINE n == Cardinality(Signers) * quorumPercent
  <2>1. Cardinality(Signers) \in Nat /\ quorumPercent \in Nat
    BY GovernanceAssumption, FS_CardinalityType DEF GovInv, GovTypeOK
  <2>2. n \in Nat /\ n = quorumPercent * Cardinality(Signers)
    BY <2>1
  <2>3. /\ proposalApprovals[p] \in Nat
        /\ proposalApprovals[p] = Cardinality(proposalApprovedBy[p])
    BY DEF GovInv, GovTypeOK, ApprovalsAreDistinctSigners
  <2>4. proposalApprovals[p] >= (n + 99) \div 100
    BY DEF execute, quorumRequired
  <2> HIDE DEF n
  <2>5. 100 * proposalApprovals[p] >= n
    BY <2>2, <2>3, <2>4, QuorumRoundsUp
  <2> QED
    BY <2>2, <2>3, <2>5
<1>3. now - proposalCreatedAt[p] >= timelockDelaySeconds
  BY DEF execute, GovInv, GovTypeOK
<1> QED
  BY <1>1, <1>2, <1>3 DEF execute

(* No proposal is executed without its quorum, before its timelock, twice, *)
(* after being cancelled or without having been proposed.                  *)
THEOREM ExecutionAuthorizedCorrect == ChainSpec => ExecutionAuthorized
<1>1. ASSUME GovInv, [ChainNext]_chainVars, NEW p \in ProposalIds,
             p \in proposalExecuted' \ proposalExecuted
      PROVE  /\ p <= proposalCount
             /\ 100 * Cardinality(proposalApprovedBy[p]) >= quorumPercent * Cardinality(Signers)
             /\ now - proposalCreatedAt[p] >= timelockDelaySeconds
             /\ p \notin proposalCancelled
  <2>1. PICK q \in ProposalIds : execute(q)
    <3>1. ASSUME GovNext PROVE proposalExecuted' = proposalExecuted
      BY <3>1 DEF GovNext, setQuorum, setTimelockDelay, propose, approve, cancel, tick, outcomeVars
    <3> QED
      BY <1>1, <3>1 DEF ChainNext, chainVars, govVars, outcomeVars
  <2>2. q = p
    BY <1>1, <2>1 DEF execute
  <2> QED
    BY <1>1, <2>1, <2>2, ExecuteIsAuthorized
<1>2. GovInv /\ [ChainNext]_chainVars =>
        [\A p \in ProposalIds : p \in proposalExecuted' \ proposalExecuted =>
            /\ p <= proposalCount
            /\ 100 * Cardinality(proposalApprovedBy[p]) >= quorumPercent * Cardinality(Signers)
            /\ now - proposalCreatedAt[p] >= timelockDelaySeconds
            /\ p \notin proposalCancelled]_chainVars
  BY <1>1
<1> QED
  BY <1>2, GovernanceInvariant, PTL DEF ChainSpec, ExecutionAuthorized

---------------------------------------------------------------------------
(* What no account call does: pause, burn, or deactivate an identity.      *)
LEMMA AccountCallsAreLowRisk ==
    ASSUME RecordInv, AccountNext
    PROVE  /\ UNCHANGED paused
           /\ \A t \in Tokens : Burned(t)' => Burned(t)
           /\ \A w \in Accounts : idStatus'[w] = "DEACTIVATED" => idStatus[w] = "DEACTIVATED"
<1>1. CASE ACNext /\ UNCHANGED <<idVars, assetVars>>
  BY <1>1 DEF idVars, assetVars, recordVars, custodyVars, Burned, Minted
<1>2. CASE IRAccountNext /\ UNCHANGED <<acVars, assetVars>>
  <2>1. UNCHANGED assetVars
    BY <1>2
  <2>2. \A w \in Accounts : idStatus'[w] = "DEACTIVATED" => idStatus[w] = "DEACTIVATED"
    <3> SUFFICES ASSUME NEW w \in Accounts, idStatus'[w] = "DEACTIVATED"
                 PROVE  idStatus[w] = "DEACTIVATED"
      OBVIOUS
    <3>1. ASSUME NEW v \in Accounts, NEW to, to # "DEACTIVATED",
                 idStatus' = [idStatus EXCEPT ![v] = to]
          PROVE  idStatus[w] = "DEACTIVATED"
      BY <3>1
    <3>2. ASSUME UNCHANGED idStatus PROVE idStatus[w] = "DEACTIVATED"
      BY <3>2
    <3>3. ASSUME NEW c \in Accounts, NEW v \in Accounts, NEW d \in Dids, registerIdentity(c, v, d)
          PROVE  idStatus' = [idStatus EXCEPT ![v] = "PENDING"]
      BY <3>3 DEF registerIdentity
    <3>4. ASSUME NEW c \in Accounts, NEW v \in Accounts,
                 verifyIdentity(c, v) \/ reactivateIdentity(c, v)
          PROVE  idStatus' = [idStatus EXCEPT ![v] = "VERIFIED"]
      BY <3>4 DEF verifyIdentity, reactivateIdentity, transition
    <3>5. ASSUME NEW c \in Accounts, NEW v \in Accounts, suspendIdentity(c, v)
          PROVE  idStatus' = [idStatus EXCEPT ![v] = "SUSPENDED"]
      BY <3>5 DEF suspendIdentity, transition
    <3>6. ASSUME NEW c \in Accounts, NEW v \in Accounts, NEW h \in DocHashes,
                 updateDidDocumentHash(c, h) \/ updateDidDocumentHashFor(c, v, h)
          PROVE  UNCHANGED idStatus
      BY <3>6 DEF updateDidDocumentHash, updateDidDocumentHashFor, recordDidDocumentUpdate
    <3> QED
      BY <1>2, <3>1, <3>2, <3>3, <3>4, <3>5, <3>6 DEF IRAccountNext
  <2> QED
    BY <2>1, <2>2 DEF assetVars, recordVars, custodyVars, Burned, Minted
<1>3. CASE ARAccountNext /\ UNCHANGED <<acVars, idVars>>
  <2>1. UNCHANGED idStatus
    BY <1>3 DEF idVars
  <2> DEFINE Low == /\ UNCHANGED paused
                    /\ \A t \in Tokens : Burned(t)' => Burned(t)
  <2> USE DEF RecordInv, RecordTypeOK
  <2>2. ZeroAddress \notin Accounts
    BY IdentityAssumption DEF Principals
  <2>3. ASSUME NEW c \in Accounts, NEW w \in Accounts, NEW a \in AssetIds, registerAsset(c, a, w)
        PROVE  Low
    BY <2>2, <2>3 DEF registerAsset, mintTo, Burned, Minted
  <2>4. ASSUME NEW c \in Accounts, NEW u \in Tokens, NEW w \in Accounts,
               assignAsset(c, u, w) \/ transferCustody(c, u, w)
        PROVE  Low
    BY <2>2, <2>4 DEF assignAsset, transferCustody, moveCustody, transferOwner, Burned, Minted
  <2>5. ASSUME NEW u \in Tokens, NEW to, changeStatus(u, to)
        PROVE  Low
    BY <2>5 DEF changeStatus, StatusTransitions, custodyVars, Burned, Minted
  <2>6. ASSUME NEW c \in Accounts, NEW u \in Tokens,
               \/ activateAsset(c, u) \/ suspendAsset(c, u)
               \/ restoreAsset(c, u) \/ revokeAsset(c, u)
        PROVE  Low
    BY <2>5, <2>6 DEF activateAsset, suspendAsset, restoreAsset, revokeAsset
  <2>7. ASSUME NEW c \in Accounts, NEW i, NEW u, NEW d,
               \/ flagAnomaly(c) \/ raiseDispute(c, d)
               \/ resolveDispute(c, i, u) \/ storeAuditReportHash(c)
        PROVE  Low
    BY <2>7 DEF flagAnomaly, raiseDispute, resolveDispute, storeAuditReportHash, recordVars,
                custodyVars, Burned, Minted
  <2> QED
    BY <1>3, <2>1, <2>3, <2>4, <2>6, <2>7 DEF ARAccountNext
<1> QED
  BY <1>1, <1>2, <1>3 DEF AccountNext

(* While the registry is paused, or an asset frozen, no account call moves *)
(* custody.                                                                *)
LEMMA AccountCallsRespectFreeze ==
    ASSUME RecordInv, AccountNext, NEW t \in Tokens,
           paused \/ assetStatus[t] \in {"SUSPENDED", "REVOKED"}
    PROVE  custodian'[t] = custodian[t]
<1>1. CASE UNCHANGED assetVars
  BY <1>1 DEF assetVars, recordVars
<1>2. CASE ARAccountNext /\ UNCHANGED <<acVars, idVars>>
  <2>1. CASE paused
    <3>1. ASSUME NEW c \in Accounts, NEW w, NEW u, NEW a,
                 \/ registerAsset(c, a, w) \/ assignAsset(c, u, w) \/ transferCustody(c, u, w)
                 \/ activateAsset(c, u) \/ suspendAsset(c, u)
                 \/ restoreAsset(c, u) \/ revokeAsset(c, u)
                 \/ flagAnomaly(c) \/ raiseDispute(c, u) \/ resolveDispute(c, u, a)
          PROVE  FALSE
      BY <2>1, <3>1 DEF registerAsset, assignAsset, transferCustody, activateAsset, suspendAsset,
         restoreAsset, revokeAsset, managerCall, flagAnomaly, raiseDispute, resolveDispute
    <3>2. ASSUME NEW c \in Accounts, storeAuditReportHash(c)
          PROVE  UNCHANGED custodian
      BY <3>2 DEF storeAuditReportHash, recordVars
    <3> QED
      BY <1>2, <3>1, <3>2 DEF ARAccountNext
  <2>2. CASE assetStatus[t] \in {"SUSPENDED", "REVOKED"}
    BY <1>2, <2>2, AccountMovesToActive
  <2> QED
    BY <2>1, <2>2
<1> QED
  BY <1>1, <1>2 DEF AccountNext

(* An execution changes what its operation names, and nothing else that is *)
(* of high risk.                                                           *)
LEMMA DispatchDoesItsOperation ==
    ASSUME RecordInv, idStatus \in [Accounts -> IdentityStatus],
           NEW op \in Operations, dispatch(op)
    PROVE  /\ paused' # paused =>
                op.kind = IF paused' THEN "PAUSE_REGISTRY" ELSE "UNPAUSE_REGISTRY"
           /\ \A t \in Tokens : ~Burned(t) /\ Burned(t)' => op.kind = "BURN_NFT" /\ op.token = t
           /\ \A t \in Tokens : custodian'[t] # custodian[t] =>
                op.kind = "FORCE_TRANSFER" /\ op.token = t /\ op.account = custodian'[t]
           /\ \A w \in Accounts : idStatus[w] # "DEACTIVATED" /\ idStatus'[w] = "DEACTIVATED" =>
                op.kind = "DEACTIVATE_IDENTITY" /\ op.account = w
<1>0. op.token \in Tokens /\ op.account \in Accounts /\ ZeroAddress \notin Accounts
  BY GovernanceAssumption, IdentityAssumption DEF OperationRecord, Principals
<1> USE DEF RecordInv, RecordTypeOK
<1>1. CASE op.kind = "BURN_NFT" /\ governanceBurnNFT(op.token) /\ UNCHANGED <<acVars, idVars>>
  BY <1>0, <1>1 DEF governanceBurnNFT, burn, Burned, Minted, idVars
<1>2. CASE op.kind = "FORCE_TRANSFER" /\ governanceForceTransfer(op.token, op.account)
           /\ UNCHANGED <<acVars, idVars>>
  BY <1>0, <1>2 DEF governanceForceTransfer, moveCustody, transferOwner, Burned, Minted, idVars
<1>3. CASE op.kind = "PAUSE_REGISTRY" /\ governancePause /\ UNCHANGED <<acVars, idVars>>
  BY <1>3 DEF governancePause, recordVars, custodyVars, Burned, Minted, idVars
<1>4. CASE op.kind = "UNPAUSE_REGISTRY" /\ governanceUnpause /\ UNCHANGED <<acVars, idVars>>
  BY <1>4 DEF governanceUnpause, recordVars, custodyVars, Burned, Minted, idVars
<1>5. CASE op.kind = "DEACTIVATE_IDENTITY" /\ governanceDeactivateIdentity(op.account)
           /\ UNCHANGED <<acVars, assetVars>>
  BY <1>0, <1>5 DEF governanceDeactivateIdentity, transition, assetVars, recordVars, custodyVars,
                    Burned, Minted
<1> QED
  BY <1>1, <1>2, <1>3, <1>4, <1>5 DEF dispatch

(* Only the execution of a proposal of that very operation pauses, burns,  *)
(* deactivates, or moves custody of a frozen asset.                        *)
THEOREM HighRiskCorrect == ChainSpec => HighRiskOnlyByProposal
<1> DEFINE
    Pauses == paused' # paused =>
        \E op \in Operations : ExecutedBy(op)
            /\ op.kind = IF paused' THEN "PAUSE_REGISTRY" ELSE "UNPAUSE_REGISTRY"
    Burns == \A t \in Tokens : ~Burned(t) /\ Burned(t)' =>
        \E op \in Operations : ExecutedBy(op) /\ op.kind = "BURN_NFT" /\ op.token = t
    Forces == \A t \in Tokens :
        (custodian'[t] # custodian[t] /\ (paused \/ assetStatus[t] \in {"SUSPENDED", "REVOKED"})) =>
        \E op \in Operations : ExecutedBy(op) /\ op.kind = "FORCE_TRANSFER"
            /\ op.token = t /\ op.account = custodian'[t]
    Deactivates == \A w \in Accounts : idStatus[w] # "DEACTIVATED" /\ idStatus'[w] = "DEACTIVATED" =>
        \E op \in Operations : ExecutedBy(op) /\ op.kind = "DEACTIVATE_IDENTITY"
            /\ op.account = w
<1>1. ASSUME GovInv, RegistryInv, ChainNext
      PROVE  Pauses /\ Burns /\ Forces /\ Deactivates
  <2>1. RecordInv /\ idStatus \in [Accounts -> IdentityStatus]
    BY <1>1 DEF RegistryInv, IdentityInv, IRInv, IRTypeOK
  <2>2. CASE AccountNext
    BY <2>1, <2>2, AccountCallsAreLowRisk, AccountCallsRespectFreeze
  <2>3. CASE GovNext /\ UNCHANGED registryVars
    BY <2>3 DEF registryVars, assetVars, recordVars, custodyVars, idVars, Burned, Minted
  <2>4. ASSUME NEW p \in ProposalIds, execute(p)
        PROVE  Pauses /\ Burns /\ Forces /\ Deactivates
    <3> DEFINE op == proposalOp[p]
    <3>1. op \in Operations /\ dispatch(op) /\ ExecutedBy(op)
      BY <1>1, <2>4 DEF execute, GovInv, GovTypeOK, NoOperation, ExecutedBy
    <3> HIDE DEF op
    <3> QED
      BY <2>1, <3>1, DispatchDoesItsOperation
  <2> QED
    BY <1>1, <2>2, <2>3, <2>4 DEF ChainNext
<1>2. ChainSpec => []RegistryInv
  BY ChainRefinesRegistry, RegistryInvariant DEF RegistryRefinement
<1>3. GovInv /\ RegistryInv /\ [ChainNext]_chainVars =>
        [Pauses /\ Burns /\ Forces /\ Deactivates]_chainVars
  BY <1>1
<1> QED
  BY <1>2, <1>3, GovernanceInvariant, PTL DEF ChainSpec, HighRiskOnlyByProposal

---------------------------------------------------------------------------
(* An id keeps its operation, and a settled one its approvals and outcome. *)
THEOREM SettledProposalsCorrect == ChainSpec => SettledProposals
<1> DEFINE Settled(p) ==
        /\ p <= proposalCount => proposalOp'[p] = proposalOp[p]
        /\ p \in proposalExecuted \cup proposalCancelled =>
             /\ proposalApprovedBy'[p] = proposalApprovedBy[p]
             /\ p \in proposalExecuted' <=> p \in proposalExecuted
             /\ p \in proposalCancelled' <=> p \in proposalCancelled
<1>1. ASSUME GovInv, ChainNext, NEW p \in ProposalIds
      PROVE  Settled(p)
  <2> USE DEF configVars, createVars, approvalVars, outcomeVars, GovInv, GovTypeOK
  <2>1. CASE UNCHANGED govVars
    BY <2>1 DEF govVars
  <2>2. ASSUME NEW q, setQuorum(q) \/ setTimelockDelay(q) \/ tick
        PROVE  Settled(p)
    BY <2>2 DEF setQuorum, setTimelockDelay, tick
  <2>3. ASSUME NEW op \in Operations, propose(op) PROVE Settled(p)
    BY <1>1, <2>3 DEF propose, ProposalIds
  <2>4. ASSUME NEW s \in Signers, NEW q \in ProposalIds, approve(s, q) PROVE Settled(p)
    BY <1>1, <2>4 DEF approve
  <2>5. ASSUME NEW q \in ProposalIds, cancel(q) PROVE Settled(p)
    BY <1>1, <2>5 DEF cancel
  <2>6. ASSUME NEW q \in ProposalIds, execute(q) PROVE Settled(p)
    BY <1>1, <2>6 DEF execute
  <2> QED
    BY <1>1, <2>1, <2>2, <2>3, <2>4, <2>5, <2>6 DEF ChainNext, GovNext
<1>2. GovInv /\ [ChainNext]_chainVars => [\A p \in ProposalIds : Settled(p)]_chainVars
  BY <1>1
<1> QED
  BY <1>2, GovernanceInvariant, PTL DEF ChainSpec, SettledProposals

===========================================================================
