--------------------------- MODULE ReadModelProofs ---------------------------
(***************************************************************************)
(* Proofs about two parts of the read model.  Identities and their roles:  *)
(* the last-administrator rule of the governance router, for any number of *)
(* handlers and identities and any role lists.  Audit rows: the projection *)
(* of chain events, for any blocks, scans and failures.                    *)
(***************************************************************************)
EXTENDS IdentityAdmin, ChainEventIndexer, FiniteSetTheorems, TLAPS

---------------------------------------------------------------------------
(***************************************************************************)
(* 1. Identities and their roles.                                          *)
(***************************************************************************)

Points ==
    {"idle", "acting", "administering", "suspendRoles", "suspendCount", "suspendWrite",
     "reactivateWrite", "applyIdentityRoles", "rolesAdminRoles", "rolesAdminCount",
     "rolesAdminWrite", "assignUserWrite", "applyIdentityStatusChange"}

RoleSets == SUBSET {"ADMIN", "MANAGER", "AUDITOR", "USER"}

Handlers ==
    [pc : Points, actor : Identities \cup {NoOne}, roles : RoleSets,
     target : Identities \cup {NoOne}, to : {"NONE"} \cup IdentityStatus, list : RoleSets]

Tables ==
    /\ roles \in [Identities -> RoleSets]
    /\ status \in [Identities -> IdentityStatus]
    /\ lifecycleState \in [Identities -> {"VERIFIED", "SUSPENDED"}]

(* What a handler is about to write is what a column may hold. *)
Ready(h) ==
    /\ h.pc \in {"suspendRoles", "suspendCount", "suspendWrite", "reactivateWrite",
                 "applyIdentityRoles", "rolesAdminRoles", "rolesAdminCount", "rolesAdminWrite",
                 "assignUserWrite", "applyIdentityStatusChange"} => h.target \in Identities
    /\ h.pc = "applyIdentityStatusChange" => h.to \in IdentityStatus

(* Without the target an active administrator is left, or there is none.   *)
OthersLeft(h, admins) == admins # {} => admins \ {h.target} # {}

(* A handler that passed the check relies on it, unless the administrators *)
(* changed after it; a role list that keeps ADMIN takes nobody away.  A   *)
(* manager found a plain user.                                             *)
Checked(h, admins) ==
    /\ h.pc = "suspendWrite" => OthersLeft(h, admins)
    /\ h.pc = "rolesAdminWrite" => "ADMIN" \in h.list \/ OthersLeft(h, admins)
    /\ h.pc = "assignUserWrite" /\ "ADMIN" \notin h.roles => OthersLeft(h, admins)

AdminInv ==
    /\ Tables
    /\ req \in [Requests -> Handlers]
    /\ overtaken \subseteq Requests
    /\ \A r \in Requests : Ready(req[r])
    /\ \A r \in Requests \ overtaken : Checked(req[r], activeAdmins)

---------------------------------------------------------------------------
LEMMA IdleReady ==
    /\ Idle \in Handlers /\ Ready(Idle)
    /\ \A admins : Checked(Idle, admins)
BY DEF Idle, Handlers, Points, RoleSets, Ready, Checked

LEMMA InitInv == Init => AdminInv
<1> SUFFICES ASSUME Init PROVE AdminInv
  OBVIOUS
<1>1. Tables
  BY DEF Init, Tables, RoleSets, IdentityStatus
<1>2. \A r \in Requests : req[r] = Idle
  BY DEF Init
<1>3. req \in [Requests -> Handlers] /\ overtaken \subseteq Requests
  BY IdleReady DEF Init
<1> QED
  BY <1>1, <1>2, <1>3, IdleReady DEF AdminInv

(* Taking somebody out leaves somebody, when there are more than one. *)
LEMMA MoreThanOne ==
    ASSUME NEW S, NEW x, Cardinality(S) > 1
    PROVE  S \ {x} # {}
<1> SUFFICES ASSUME S \ {x} = {} PROVE FALSE
  OBVIOUS
<1>1. S = {} \/ S = {x}
  OBVIOUS
<1>2. Cardinality(S) = 0 \/ Cardinality(S) = 1
  BY <1>1, FS_EmptySet, FS_Singleton
<1> QED
  BY <1>2

(* Every step moves one handler on; the others keep their check or are     *)
(* overtaken.                                                              *)
LEMMA HandlerMoves ==
    ASSUME AdminInv, observe, NEW r \in Requests, NEW h \in Handlers,
           become(r, h), Tables', Ready(h),
           r \notin overtaken' => Checked(h, activeAdmins')
    PROVE  AdminInv'
<1>1. req' \in [Requests -> Handlers] /\ req'[r] = h
      /\ \A s \in Requests \ {r} : req'[s] = req[s]
  BY DEF AdminInv, become
<1>2. overtaken' \subseteq Requests
  BY DEF observe
<1>3. \A s \in Requests : Ready(req'[s])
  BY <1>1 DEF AdminInv
<1>4. ASSUME NEW s \in Requests \ overtaken'
      PROVE  Checked(req'[s], activeAdmins')
  <2>1. CASE s = r
    BY <1>1, <1>4, <2>1
  <2>2. CASE s # r /\ req[s].pc = "idle"
    BY <1>1, <2>2 DEF Checked
  <2>3. CASE s # r /\ req[s].pc # "idle"
    <3>1. req'[s] = req[s]
      BY <1>1, <2>3
    <3>2. s \notin overtaken /\ activeAdmins' = activeAdmins
      BY <1>4, <2>3, <3>1 DEF observe
    <3>3. Checked(req[s], activeAdmins)
      BY <3>2 DEF AdminInv
    <3> QED
      BY <3>1, <3>2, <3>3
  <2> QED
    BY <2>1, <2>2, <2>3
<1> QED
  BY <1>1, <1>2, <1>3, <1>4 DEF AdminInv

(* A step that reads: the administrators stay who they are. *)
LEMMA ReadOnly ==
    ASSUME AdminInv, observe, NEW r \in Requests, NEW h \in Handlers, become(r, h),
           UNCHANGED <<roles, status, lifecycleState>>, Ready(h), Checked(h, activeAdmins)
    PROVE  AdminInv'
<1>1. Tables' /\ activeAdmins' = activeAdmins
  BY DEF AdminInv, Tables, activeAdmins
<1> QED
  BY <1>1, HandlerMoves

---------------------------------------------------------------------------
(* A session is accepted: what its handler carries is read at that moment. *)
LEMMA Enters ==
    ASSUME AdminInv, observe, NEW r \in Requests, NEW p \in Identities,
           requireActor(r, p) \/ adminProcedure(r, p)
    PROVE  AdminInv'
<1>1. roles[p] \in RoleSets
  BY DEF AdminInv, Tables
<1>2. CASE requireActor(r, p)
  <2> DEFINE h == [Idle EXCEPT !.pc = "acting", !.actor = p, !.roles = roles[p]]
  <2>1. h \in Handlers /\ Ready(h) /\ Checked(h, activeAdmins)
    BY <1>1 DEF Idle, Handlers, Points, RoleSets, Ready, Checked
  <2>2. become(r, h) /\ UNCHANGED <<roles, status, lifecycleState>>
    BY <1>2 DEF requireActor
  <2> HIDE DEF h
  <2> QED
    BY <2>1, <2>2, ReadOnly
<1>3. CASE adminProcedure(r, p)
  <2> DEFINE h == [Idle EXCEPT !.pc = "administering", !.actor = p]
  <2>1. h \in Handlers /\ Ready(h) /\ Checked(h, activeAdmins)
    BY DEF Idle, Handlers, Points, RoleSets, Ready, Checked
  <2>2. become(r, h) /\ UNCHANGED <<roles, status, lifecycleState>>
    BY <1>3 DEF adminProcedure
  <2> HIDE DEF h
  <2> QED
    BY <2>1, <2>2, ReadOnly
<1> QED
  BY <1>2, <1>3

(* A route begins: it carries its target and no check yet. *)
LEMMA Begins ==
    ASSUME AdminInv, observe, NEW r \in Requests, NEW t \in Identities,
           \/ suspendCheck(r, t) \/ reactivateCheck(r, t) \/ assignUserRole(r, t)
           \/ \E list \in RoleLists : rolesAdminCheck(r, t, list) \/ assignRoles(r, t, list)
           \/ \E to \in IdentityStatus, found \in BOOLEAN : setStatus(r, t, to, found)
    PROVE  AdminInv'
<1>1. UNCHANGED <<roles, status, lifecycleState>>
  BY DEF suspendCheck, reactivateCheck, assignUserRole, rolesAdminCheck, assignRoles, setStatus
<1>2. RoleLists \subseteq RoleSets
  BY AdminAssumption DEF RoleSets
<1>3. CASE suspendCheck(r, t)
  <2> DEFINE h == [Idle EXCEPT !.pc = "suspendRoles", !.target = t]
  <2>1. h \in Handlers /\ Ready(h) /\ Checked(h, activeAdmins)
    BY <1>2 DEF Idle, Handlers, Points, RoleSets, Ready, Checked
  <2>2. become(r, h)
    BY <1>3 DEF suspendCheck
  <2> HIDE DEF h
  <2> QED
    BY <1>1, <2>1, <2>2, ReadOnly
<1>4. CASE reactivateCheck(r, t)
  <2> DEFINE h == [Idle EXCEPT !.pc = "reactivateWrite", !.target = t]
  <2>1. h \in Handlers /\ Ready(h) /\ Checked(h, activeAdmins)
    BY <1>2 DEF Idle, Handlers, Points, RoleSets, Ready, Checked
  <2>2. become(r, h)
    BY <1>4 DEF reactivateCheck
  <2> HIDE DEF h
  <2> QED
    BY <1>1, <2>1, <2>2, ReadOnly
<1>5. CASE assignUserRole(r, t)
  <2> DEFINE h == [Idle EXCEPT !.pc = "assignUserWrite", !.roles = req[r].roles, !.target = t,
                               !.list = {"USER"}]
  <2>0. req[r].roles \in RoleSets
    BY DEF AdminInv, Handlers
  <2>3. h \in Handlers /\ Ready(h) /\ h.pc = "assignUserWrite"
        /\ h.roles = req[r].roles /\ h.target = t
    BY <2>0 DEF Idle, Handlers, Points, RoleSets, Ready
  <2>4. "ADMIN" \notin req[r].roles => "ADMIN" \notin roles[t]
    BY <1>5 DEF assignUserRole, scopedManager
  <2>1. h \in Handlers /\ Ready(h) /\ Checked(h, activeAdmins)
    <3> HIDE DEF h
    <3>1. "ADMIN" \notin h.roles => OthersLeft(h, activeAdmins)
      BY <2>3, <2>4 DEF OthersLeft, activeAdmins
    <3> QED
      BY <2>3, <3>1 DEF Checked
  <2>2. become(r, h)
    BY <1>5 DEF assignUserRole
  <2> HIDE DEF h
  <2> QED
    BY <1>1, <2>1, <2>2, ReadOnly
<1>6. ASSUME NEW list \in RoleLists, rolesAdminCheck(r, t, list)
      PROVE  AdminInv'
  <2> DEFINE h == [Idle EXCEPT !.pc = "rolesAdminRoles", !.target = t, !.list = list]
  <2>1. h \in Handlers /\ Ready(h) /\ Checked(h, activeAdmins)
    BY <1>2 DEF Idle, Handlers, Points, RoleSets, Ready, Checked
  <2>2. become(r, h)
    BY <1>6 DEF rolesAdminCheck
  <2> HIDE DEF h
  <2> QED
    BY <1>1, <2>1, <2>2, ReadOnly
<1>7. ASSUME NEW list \in RoleLists, assignRoles(r, t, list)
      PROVE  AdminInv'
  <2> DEFINE h == [Idle EXCEPT !.pc = "applyIdentityRoles", !.target = t, !.list = list]
  <2>1. h \in Handlers /\ Ready(h) /\ Checked(h, activeAdmins)
    BY <1>2 DEF Idle, Handlers, Points, RoleSets, Ready, Checked
  <2>2. become(r, h)
    BY <1>7 DEF assignRoles
  <2> HIDE DEF h
  <2> QED
    BY <1>1, <2>1, <2>2, ReadOnly
<1>8. ASSUME NEW to \in IdentityStatus, NEW found \in BOOLEAN, setStatus(r, t, to, found)
      PROVE  AdminInv'
  <2> DEFINE h == [Idle EXCEPT !.pc = "applyIdentityStatusChange", !.target = t, !.to = to]
  <2>1. h \in Handlers /\ Ready(h) /\ Checked(h, activeAdmins)
    BY <1>2 DEF Idle, Handlers, Points, RoleSets, Ready, Checked
  <2>2. become(r, h)
    BY <1>8 DEF setStatus
  <2> HIDE DEF h
  <2> QED
    BY <1>1, <2>1, <2>2, ReadOnly
<1> QED
  BY <1>3, <1>4, <1>5, <1>6, <1>7, <1>8

---------------------------------------------------------------------------
(* The checks of the last administrator.  A target without the role, and   *)
(* a count above one, leave somebody else, or nobody to lose.              *)
LEMMA Checks ==
    ASSUME AdminInv, observe, NEW r \in Requests,
           suspendRoles(r) \/ suspendCount(r) \/ rolesAdminRoles(r) \/ rolesAdminCount(r)
    PROVE  AdminInv'
<1>1. UNCHANGED <<roles, status, lifecycleState>>
  BY DEF suspendRoles, suspendCount, rolesAdminRoles, rolesAdminCount
<1>2. req[r].target \in Identities
  BY DEF AdminInv, Ready, suspendRoles, suspendCount, rolesAdminRoles, rolesAdminCount, at
<1>3. "ADMIN" \notin roles[req[r].target] => OthersLeft(req[r], activeAdmins)
  BY DEF activeAdmins, OthersLeft
<1>4. Cardinality(activeAdmins) > 1 => OthersLeft(req[r], activeAdmins)
  BY MoreThanOne DEF OthersLeft
<1>5. ASSUME NEW pc \in {"suspendCount", "suspendWrite", "rolesAdminCount", "rolesAdminWrite"},
             goto(r, pc), pc = "suspendWrite" => OthersLeft(req[r], activeAdmins),
             pc = "rolesAdminWrite" => "ADMIN" \in req[r].list \/ OthersLeft(req[r], activeAdmins)
      PROVE  AdminInv'
  <2> DEFINE h == [req[r] EXCEPT !.pc = pc]
  <2>1. h \in Handlers /\ h.pc = pc /\ h.target = req[r].target /\ h.list = req[r].list
    <3>1. req[r] \in Handlers /\ pc \in Points
      BY DEF AdminInv, Points
    <3> QED
      BY <3>1 DEF Handlers
  <2>2. become(r, h)
    BY <1>5 DEF goto
  <2> HIDE DEF h
  <2>3. Ready(h) /\ Checked(h, activeAdmins)
    BY <1>2, <1>5, <2>1 DEF Ready, Checked, OthersLeft
  <2> QED
    BY <1>1, <2>1, <2>2, <2>3, ReadOnly
<1>6. CASE suspendRoles(r)
  BY <1>3, <1>5, <1>6 DEF suspendRoles
<1>7. CASE suspendCount(r)
  BY <1>4, <1>5, <1>7 DEF suspendCount
<1>8. CASE rolesAdminRoles(r)
  BY <1>3, <1>5, <1>8 DEF rolesAdminRoles
<1>9. CASE rolesAdminCount(r)
  BY <1>4, <1>5, <1>9 DEF rolesAdminCount
<1> QED
  BY <1>6, <1>7, <1>8, <1>9

(* A handler writes and ends. *)
LEMMA Writes ==
    ASSUME AdminInv, observe, NEW r \in Requests,
           \/ suspendWrite(r) \/ reactivateWrite(r) \/ applyIdentityRoles(r)
           \/ applyIdentityStatusChange(r) \/ fails(r)
    PROVE  AdminInv'
<1>1. become(r, Idle)
  BY DEF suspendWrite, reactivateWrite, applyIdentityRoles, applyIdentityStatusChange, fails, done
<1>2. req[r] \in Handlers /\ Ready(req[r])
  BY DEF AdminInv
<1>3. Tables'
  <2>1. CASE suspendWrite(r) \/ reactivateWrite(r)
    BY <1>2, <2>1 DEF suspendWrite, reactivateWrite, at, Ready, AdminInv, Tables, IdentityStatus
  <2>2. CASE applyIdentityRoles(r)
    <3>1. req[r].list \in RoleSets
      BY <1>2 DEF Handlers
    <3> QED
      BY <2>2, <3>1 DEF applyIdentityRoles, AdminInv, Tables
  <2>3. CASE applyIdentityStatusChange(r)
    BY <1>2, <2>3 DEF applyIdentityStatusChange, at, Ready, AdminInv, Tables
  <2>4. CASE fails(r)
    BY <2>4 DEF fails, AdminInv, Tables
  <2> QED
    BY <2>1, <2>2, <2>3, <2>4
<1> QED
  BY <1>1, <1>3, IdleReady, HandlerMoves

LEMMA StepInv ==
    ASSUME AdminInv, [Next]_adminVars
    PROVE  AdminInv'
<1>1. CASE UNCHANGED adminVars
  BY <1>1 DEF AdminInv, Tables, activeAdmins, adminVars
<1>2. ASSUME observe, NEW r \in Requests,
             LifecycleStep(r) \/ AdministrationStep(r) \/ fails(r)
      PROVE  AdminInv'
  BY <1>2, Enters, Begins, Checks, Writes DEF LifecycleStep, AdministrationStep
<1> QED
  BY <1>1, <1>2 DEF Next

(* A handler about to suspend an identity or to replace its roles leaves   *)
(* an active administrator other than its target, unless overtaken.        *)
THEOREM AdminInvariant == Spec => []AdminInv
<1>1. AdminInv /\ [Next]_adminVars => AdminInv'
  BY StepInv
<1> QED
  BY InitInv, <1>1, PTL DEF Spec

(* What the two writes can take from the active administrators. *)
LEMMA WritesTakeTarget ==
    ASSUME AdminInv, NEW r \in Requests,
           suspendWrite(r) \/ applyIdentityRoles(r)
    PROVE  /\ activeAdmins \ {req[r].target} \subseteq activeAdmins'
           /\ applyIdentityRoles(r) /\ "ADMIN" \in req[r].list => activeAdmins \subseteq activeAdmins'
<1>1. CASE suspendWrite(r)
  <2>1. \A i \in Identities \ {req[r].target} : roles'[i] = roles[i] /\ status'[i] = status[i]
    BY <1>1 DEF suspendWrite, AdminInv, Tables
  <2> QED
    BY <1>1, <2>1 DEF activeAdmins, suspendWrite, applyIdentityRoles, at
<1>2. CASE applyIdentityRoles(r)
  <2>1. \A i \in Identities \ {req[r].target} : roles'[i] = roles[i]
    BY <1>2 DEF applyIdentityRoles, AdminInv, Tables
  <2>2. status' = status /\ (req[r].target \in Identities => roles'[req[r].target] = req[r].list)
    BY <1>2 DEF applyIdentityRoles, AdminInv, Tables
  <2> QED
    BY <2>1, <2>2 DEF activeAdmins
<1> QED
  BY <1>1, <1>2

(* lifecycle.suspend, lifecycle.assignRolesAdmin and a manager's           *)
(* lifecycle.assignUserRole take the last active administrator away only   *)
(* if another handler changed who the active administrators are while this *)
(* one ran.                                                                *)
THEOREM LastAdminCorrect == Spec => LastAdminLostOnlyToRace
<1> DEFINE P == \A r \in Requests :
                  /\ \/ at(r, "suspendWrite") \/ at(r, "rolesAdminWrite")
                     \/ at(r, "assignUserWrite") /\ "ADMIN" \notin req[r].roles
                  /\ req'[r].pc = "idle"
                  /\ activeAdmins # {} /\ activeAdmins' = {}
                  => r \in overtaken
<1>1. ASSUME AdminInv, Next, NEW r \in Requests,
             \/ at(r, "suspendWrite") \/ at(r, "rolesAdminWrite")
             \/ at(r, "assignUserWrite") /\ "ADMIN" \notin req[r].roles,
             req'[r].pc = "idle", activeAdmins # {}, activeAdmins' = {}, r \notin overtaken
      PROVE  FALSE
  <2>1. Checked(req[r], activeAdmins)
    BY <1>1 DEF AdminInv
  <2>2. \A s \in Requests : \A h : become(s, h) => s = r
    BY <1>1 DEF AdminInv, become, at
  <2>3. suspendWrite(r) \/ applyIdentityRoles(r) \/ fails(r)
    <3>1. PICK s \in Requests : LifecycleStep(s) \/ AdministrationStep(s) \/ fails(s)
      BY <1>1 DEF Next
    <3>2. \E h : become(s, h)
      BY <3>1 DEF LifecycleStep, AdministrationStep, fails, done, goto, requireActor, adminProcedure,
         suspendCheck, reactivateCheck, assignUserRole, rolesAdminCheck, suspendRoles,
         suspendCount, suspendWrite, reactivateWrite, rolesAdminRoles, rolesAdminCount,
         assignRoles, setStatus, applyIdentityRoles, applyIdentityStatusChange
    <3>3. s = r
      BY <2>2, <3>2
    <3> QED
      BY <1>1, <3>1, <3>3 DEF at, LifecycleStep, AdministrationStep, requireActor, adminProcedure,
         suspendCheck, reactivateCheck, assignUserRole, rolesAdminCheck, suspendRoles,
         suspendCount, suspendWrite, reactivateWrite, rolesAdminRoles, rolesAdminCount,
         assignRoles, setStatus, applyIdentityRoles, applyIdentityStatusChange
  <2>4. CASE fails(r)
    BY <1>1, <2>4 DEF fails, activeAdmins
  <2>5. CASE suspendWrite(r) \/ applyIdentityRoles(r)
    <3>1. \/ activeAdmins \ {req[r].target} # {}
          \/ at(r, "rolesAdminWrite") /\ "ADMIN" \in req[r].list
      BY <1>1, <2>1 DEF Checked, OthersLeft, at
    <3>2. at(r, "rolesAdminWrite") => applyIdentityRoles(r)
      BY <2>5 DEF suspendWrite, at
    <3> QED
      BY <1>1, <2>5, <3>1, <3>2, WritesTakeTarget
  <2> QED
    BY <2>3, <2>4, <2>5
<1>2. AdminInv /\ [Next]_adminVars => [P]_adminVars
  BY <1>1
<1> QED
  BY <1>2, AdminInvariant, PTL DEF Spec, LastAdminLostOnlyToRace

---------------------------------------------------------------------------
(***************************************************************************)
(* 2. The projection of chain events.                                      *)
(***************************************************************************)

Txs == (1 .. MaxBlocks) \X (Nat \ {0})
Keys == Txs \X STRING \X STRING

Scans ==
    [pending : Seq(ChainEvent), fromBlock : 0 .. MaxBlocks, latestBlock : 0 .. MaxBlocks,
     persistedKeys : SUBSET Keys, legacyTxHashes : SUBSET Txs,
     answered : SUBSET Queries]

Projection == rows \in Seq(ChainEvent) /\ scan \in Scans /\ IndexerTypeOK

(* The chain's log is in the order of its blocks. *)
InOrder ==
    /\ \A i, j \in DOMAIN chainLog : i <= j => chainLog[i].block <= chainLog[j].block
    /\ \A e \in ToSet(chainLog) : e.block <= head

(* What the indexer takes for recorded has a row. *)
Remembered ==
    /\ \A k \in indexedEventKeys \cup scan.persistedKeys : \E r \in ToSet(rows) : eventKey(r) = k
    /\ \A t \in scan.legacyTxHashes : Recorded(t)

(* A scan has read what is recorded: all of the transaction hashes, or the *)
(* keys while a query returns all of them.                                 *)
HasRead ==
    \/ "hashes" \in scan.answered
    \/ scan.answered \cap {"seed", "keys"} # {} /\ Len(rows) <= QueryLimit

(* Such a scan recognises every row there is, those it has added included. *)
RowsKnown ==
    indexing /\ HasRead =>
        \A r \in ToSet(rows) : \/ eventKey(r) \in indexedEventKeys \cup scan.persistedKeys
                               \/ r.tx \in scan.legacyTxHashes

(* What is in a scan's range and not recorded is still to be looked at. *)
Covered ==
    indexing =>
        \A e \in ToSet(chainLog) :
            project(e) /\ scan.fromBlock <= e.block /\ e.block <= scan.latestBlock
              => Recorded(e.tx) \/ e \in ToSet(scan.pending)

IndexerInv == Projection /\ InOrder /\ Remembered /\ RowsKnown /\ Covered

---------------------------------------------------------------------------
(* The members of a sequence. *)
LEMMA ToSetAppend ==
    ASSUME NEW S, NEW s \in Seq(S), NEW e \in S
    PROVE  Append(s, e) \in Seq(S) /\ ToSet(Append(s, e)) = ToSet(s) \cup {e}
<1> DEFINE t == Append(s, e)
<1>1. /\ t \in Seq(S) /\ DOMAIN t = DOMAIN s \cup {Len(s) + 1}
      /\ t[Len(s) + 1] = e /\ \A i \in DOMAIN s : t[i] = s[i]
  OBVIOUS
<1> HIDE DEF t
<1>2. ToSet(t) = ToSet(s) \cup {e}
  BY <1>1 DEF ToSet
<1> QED
  BY <1>1, <1>2 DEF t

LEMMA ToSetTail ==
    ASSUME NEW S, NEW s \in Seq(S), s # << >>
    PROVE  Tail(s) \in Seq(S) /\ Head(s) \in S /\ ToSet(s) = {Head(s)} \cup ToSet(Tail(s))
<1> DEFINE t == Tail(s)
<1>1. t \in Seq(S) /\ Head(s) \in S /\ Head(s) = s[1] /\ 1 \in DOMAIN s
  OBVIOUS
<1>2. \A i \in DOMAIN t : t[i] = s[i + 1] /\ i + 1 \in DOMAIN s
  OBVIOUS
<1>3. \A i \in DOMAIN s : i # 1 => i - 1 \in DOMAIN t /\ t[i - 1] = s[i]
  OBVIOUS
<1> HIDE DEF t
<1>4. ToSet(s) = {Head(s)} \cup ToSet(t)
  BY <1>1, <1>2, <1>3 DEF ToSet
<1> QED
  BY <1>1, <1>4 DEF t

LEMMA ToSetConcat ==
    ASSUME NEW S, NEW s \in Seq(S), NEW u \in Seq(S)
    PROVE  s \o u \in Seq(S) /\ ToSet(s \o u) = ToSet(s) \cup ToSet(u)
<1> DEFINE t == s \o u
<1>1. t \in Seq(S) /\ \A i \in DOMAIN s : i \in DOMAIN t /\ t[i] = s[i]
  OBVIOUS
<1>2. \A i \in DOMAIN u : i + Len(s) \in DOMAIN t /\ t[i + Len(s)] = u[i]
  OBVIOUS
<1>3. \A i \in DOMAIN t \ DOMAIN s : i - Len(s) \in DOMAIN u /\ t[i] = u[i - Len(s)]
  OBVIOUS
<1> HIDE DEF t
<1>4. ToSet(t) \subseteq ToSet(s) \cup ToSet(u)
  BY <1>1, <1>3 DEF ToSet
<1>5. ToSet(s) \subseteq ToSet(t) /\ ToSet(u) \subseteq ToSet(t)
  BY <1>1, <1>2 DEF ToSet
<1> QED
  BY <1>1, <1>4, <1>5 DEF t

LEMMA ToSetSubSeq ==
    ASSUME NEW S, NEW s \in Seq(S), NEW a \in Nat, NEW b \in Nat, b <= Len(s)
    PROVE  /\ SubSeq(s, a + 1, b) \in Seq(S)
           /\ ToSet(SubSeq(s, a + 1, b)) \subseteq ToSet(s)
           /\ \A i \in DOMAIN s : a < i /\ i <= b => s[i] \in ToSet(SubSeq(s, a + 1, b))
<1> DEFINE t == SubSeq(s, a + 1, b)
<1>1. t \in Seq(S) /\ \A i \in DOMAIN t : t[i] = s[a + i] /\ a + i \in DOMAIN s
  OBVIOUS
<1>2. \A i \in DOMAIN s : a < i /\ i <= b => i - a \in DOMAIN t /\ t[i - a] = s[i]
  OBVIOUS
<1> HIDE DEF t
<1>3. ToSet(t) \subseteq ToSet(s)
  BY <1>1 DEF ToSet
<1>4. \A i \in DOMAIN s : a < i /\ i <= b => s[i] \in ToSet(t)
  BY <1>2 DEF ToSet
<1> QED
  BY <1>1, <1>3, <1>4 DEF t

LEMMA ToSetIn ==
    ASSUME NEW S, NEW s \in Seq(S)
    PROVE  ToSet(s) \subseteq S
BY DEF ToSet

LEMMA MaxBlocksNat ==
    MaxBlocks \in Nat /\ WindowBlocks \in Nat /\ MaxFailures \in Nat /\ QueryLimit \in Nat
BY IndexerAssumption

(* getEvents returns every event of its range.                             *)
LEMMA RangeComplete ==
    ASSUME Projection, InOrder, NEW from \in Nat, NEW to \in Nat
    PROVE  /\ getEvents(from, to) \in Seq(ChainEvent)
           /\ ToSet(getEvents(from, to)) \subseteq ToSet(chainLog)
           /\ \A e \in ToSet(chainLog) :
                 from <= e.block /\ e.block <= to => e \in ToSet(getEvents(from, to))
<1>1. PICK log \in Seq(ChainEvent) : log = chainLog
  BY DEF Projection, IndexerTypeOK
<1>2. /\ Len(log) \in Nat /\ DOMAIN log = 1 .. Len(log)
      /\ \A i \in DOMAIN log : log[i].block \in Nat
  <2>1. \A e \in ChainEvent : e.block \in Nat
    BY MaxBlocksNat DEF ChainEvent
  <2> QED
    BY <2>1
<1>3. \A i, j \in DOMAIN log : i <= j => log[i].block <= log[j].block
  BY <1>1 DEF InOrder
<1> DEFINE Before == {i \in DOMAIN log : log[i].block < from}
           UpTo == {i \in DOMAIN log : log[i].block <= to}
           a == Cardinality(Before)
           b == Cardinality(UpTo)
<1>4. IsFiniteSet(1 .. Len(log)) /\ Cardinality(1 .. Len(log)) = Len(log)
  BY <1>2, FS_Interval
<1>5. Before \subseteq 1 .. Len(log) /\ UpTo \subseteq 1 .. Len(log)
  BY <1>2
<1>6. a \in Nat /\ b \in Nat /\ b <= Len(log) /\ IsFiniteSet(UpTo)
  <2> HIDE DEF Before, UpTo
  <2> QED
    BY <1>4, <1>5, FS_Subset, FS_CardinalityType
<1>7. ASSUME NEW i \in DOMAIN log, from <= log[i].block, log[i].block <= to
      PROVE  a < i /\ i <= b
  <2>1. i \in Nat /\ i >= 1 /\ i - 1 \in Nat
    BY <1>2
  <2>2. Before \subseteq 1 .. (i - 1)
    BY <1>2, <1>3, <1>7, <2>1
  <2>3. 1 .. i \subseteq UpTo
    BY <1>2, <1>3, <1>7, <2>1
  <2>4. IsFiniteSet(1 .. (i - 1)) /\ Cardinality(1 .. (i - 1)) = i - 1 /\ Cardinality(1 .. i) = i
    <3>1. \A k \in Nat : IsFiniteSet(1 .. k) /\ Cardinality(1 .. k) = k
      BY FS_Interval
    <3> QED
      BY <2>1, <3>1
  <2> HIDE DEF Before, UpTo
  <2>5. a <= i - 1
    BY <2>2, <2>4, FS_Subset
  <2>6. i <= b
    BY <1>6, <2>3, <2>4, FS_Subset
  <2> HIDE DEF a, b
  <2> QED
    BY <1>6, <2>1, <2>5, <2>6
<1>8. getEvents(from, to) = SubSeq(log, a + 1, b)
  BY <1>1 DEF getEvents
<1> HIDE DEF a, b
<1>9. /\ SubSeq(log, a + 1, b) \in Seq(ChainEvent)
      /\ ToSet(SubSeq(log, a + 1, b)) \subseteq ToSet(log)
      /\ \A i \in DOMAIN log : a < i /\ i <= b => log[i] \in ToSet(SubSeq(log, a + 1, b))
  BY <1>6, ToSetSubSeq
<1>10. ASSUME NEW e \in ToSet(log), from <= e.block, e.block <= to
       PROVE  e \in ToSet(SubSeq(log, a + 1, b))
  <2>1. PICK i \in DOMAIN log : e = log[i]
    BY DEF ToSet
  <2> QED
    BY <1>7, <1>9, <1>10, <2>1
<1> QED
  BY <1>1, <1>8, <1>9, <1>10

(* A set of block numbers that is not empty has a highest one.             *)
LEMMA HighestIsOne ==
    ASSUME NEW n \in Nat, NEW S \in SUBSET (0 .. n), S # {}
    PROVE  Max(S) \in S
<1> DEFINE Above(i) == {j \in S : j > i}
           Aboves == {Above(i) : i \in S}
<1>1. Aboves # {}
  OBVIOUS
<1>2. IsFiniteSet(0 .. n)
  BY FS_Interval
<1>3. Aboves \subseteq FiniteSubsetsOf(0 .. n)
  <2>1. \A i \in S : Above(i) \in SUBSET (0 .. n)
    OBVIOUS
  <2> HIDE DEF Above
  <2> QED
    BY <1>2, <2>1, FS_Subset DEF FiniteSubsetsOf
<1>4. PICK X \in Aboves : \A Y \in Aboves : ~ (<<Y, X>> \in StrictSubsetOrdering(0 .. n))
  <2> HIDE DEF Aboves
  <2> QED
    BY <1>1, <1>3, WFMin, FS_StrictSubsetOrderingWellFounded
<1>5. \A Y \in Aboves : ~ (Y \subseteq X /\ Y # X)
  <2> HIDE DEF Aboves
  <2> QED
    BY <1>3, <1>4 DEF StrictSubsetOrdering, FiniteSubsetsOf
<1>6. PICK i \in S : X = Above(i)
  OBVIOUS
<1>7. \A j \in S : i >= j
  <2> SUFFICES ASSUME NEW j \in S, ~ (i >= j) PROVE FALSE
    OBVIOUS
  <2>1. j > i /\ ~ (j > j) /\ \A k \in S : k > j => k > i
    OBVIOUS
  <2>2. j \in Above(i) /\ j \notin Above(j) /\ Above(j) \subseteq Above(i)
    BY <2>1
  <2> QED
    BY <1>5, <1>6, <2>2
<1> QED
  BY <1>7 DEF Max

(* A scan's range starts at a block the chain has.                         *)
LEMMA FromBlockInRange ==
    ASSUME Projection, NEW known
    PROVE  fromBlock(head, known) \in 0 .. head
<1>1. MaxBlocks \in Nat /\ WindowBlocks \in Nat /\ head \in Nat
  BY MaxBlocksNat DEF Projection, IndexerTypeOK
<1>2. rows # << >> => getMaxIndexedChainBlock \in Nat
  <2> SUFFICES ASSUME rows # << >> PROVE getMaxIndexedChainBlock \in Nat
    OBVIOUS
  <2> DEFINE S == {r.block : r \in ToSet(rows)}
  <2>1. ToSet(rows) \subseteq ChainEvent /\ ToSet(rows) # {}
    <3>1. rows \in Seq(ChainEvent)
      BY DEF Projection
    <3>2. 1 \in DOMAIN rows
      BY <3>1
    <3> QED
      BY <3>1, <3>2 DEF ToSet
  <2>2. \A e \in ChainEvent : e.block \in 0 .. MaxBlocks
    BY <1>1 DEF ChainEvent
  <2>3. S \in SUBSET (0 .. MaxBlocks) /\ S # {}
    BY <2>1, <2>2
  <2> HIDE DEF S
  <2>4. PICK m \in S : m = Max(S)
    BY <1>1, <2>3, HighestIsOne
  <2>5. m \in Nat
    BY <1>1, <2>3
  <2> QED
    BY <2>4, <2>5 DEF S, getMaxIndexedChainBlock
<1> DEFINE windowFloor == IF head > WindowBlocks THEN head - WindowBlocks ELSE 0
<1>3. windowFloor \in 0 .. head
  BY <1>1
<1> HIDE DEF windowFloor
<1>4. ASSUME NEW x \in Nat
      PROVE  Max({windowFloor, x}) \in Nat
  BY <1>3 DEF Max
<1>5. ASSUME NEW x \in Nat
      PROVE  Min({x, head}) \in 0 .. head
  BY <1>1 DEF Min
<1>6. fromBlock(head, known) =
        IF known /\ rows # << >>
          THEN Min({Max({windowFloor, getMaxIndexedChainBlock}), head})
          ELSE windowFloor
  BY DEF fromBlock, windowFloor
<1> QED
  BY <1>2, <1>3, <1>4, <1>5, <1>6

LEMMA NoScanTyped ==
    /\ NoScan.pending = << >> /\ NoScan.fromBlock = 0 /\ NoScan.latestBlock = 0
    /\ ToSet(NoScan.pending) = {}
BY DEF NoScan, ToSet

LEMMA IndexerInit_Inv == IndexerInit => IndexerInv
<1> SUFFICES ASSUME IndexerInit PROVE IndexerInv
  OBVIOUS
<1>1. ToSet(chainLog) = {} /\ ToSet(rows) = {} /\ ToSet(scan.pending) = {}
  BY DEF IndexerInit, ToSet, NoScan
<1>2. Projection
  <2>1. NoScan \in Scans
    BY MaxBlocksNat DEF Scans, NoScan
  <2>2. scan \in Scans /\ rows \in Seq(ChainEvent)
    BY <2>1 DEF IndexerInit
  <2>3. IndexerTypeOK
    <3>1. scan.fromBlock \in 0 .. scan.latestBlock /\ scan.latestBlock <= head
      BY DEF IndexerInit, NoScan
    <3>2. head \in 0 .. MaxBlocks /\ failures \in 0 .. MaxFailures
      BY MaxBlocksNat DEF IndexerInit
    <3>3. chainLog \in Seq(ChainEvent)
      BY DEF IndexerInit
    <3>4. indexing \in BOOLEAN /\ indexedEventKeys = {}
      BY DEF IndexerInit
    <3> QED
      BY <1>1, <3>1, <3>2, <3>3, <3>4 DEF IndexerTypeOK
  <2> QED
    BY <2>2, <2>3 DEF Projection
<1>3. InOrder /\ RowsKnown /\ Covered
  BY <1>1 DEF InOrder, RowsKnown, Covered, IndexerInit
<1>4. Remembered
  BY DEF Remembered, IndexerInit, NoScan
<1> QED
  BY <1>2, <1>3, <1>4 DEF IndexerInv

(* Only the chain moves: no block of a scan's range gets an event.         *)
LEMMA MineKeeps ==
    ASSUME IndexerInv, NEW shape \in BlockShapes, mine(shape)
    PROVE  IndexerInv'
<1>1. MaxBlocks \in Nat /\ head \in 0 .. MaxBlocks /\ head + 1 \in 1 .. MaxBlocks /\ head' = head + 1
  BY MaxBlocksNat DEF IndexerInv, Projection, IndexerTypeOK, mine
<1> DEFINE new == [j \in DOMAIN shape |->
                     [block |-> head + 1, tx |-> <<head + 1, shape[j].tx>>, index |-> j,
                      name |-> shape[j].name, subject |-> shape[j].subject]]
<1>2. new \in Seq(ChainEvent) /\ \A j \in DOMAIN new : new[j].block = head + 1
  <2>1. shape \in Seq(Emitted)
    BY IndexerAssumption
  <2>2. DOMAIN shape = 1 .. Len(shape) /\ Len(shape) \in Nat
    BY <2>1
  <2>9. \A j \in DOMAIN shape : shape[j] \in Emitted /\ j \in Nat \ {0}
    BY <2>1, <2>2
  <2>3. \A j \in DOMAIN shape : /\ shape[j].tx \in Nat \ {0} /\ shape[j].name \in STRING
                                /\ shape[j].subject \in STRING /\ j \in Nat \ {0}
    BY <2>9 DEF Emitted
  <2>4. \A j \in DOMAIN shape : new[j] \in ChainEvent
    BY <1>1, <2>3 DEF ChainEvent
  <2>5. DOMAIN new = 1 .. Len(shape) /\ \A j \in DOMAIN new : new[j].block = head + 1
    BY <2>2
  <2>6. new \in [1 .. Len(shape) -> ChainEvent]
    BY <2>2, <2>4
  <2> HIDE DEF new
  <2> QED
    BY <2>2, <2>5, <2>6
<1>3. chainLog' = chainLog \o new /\ chainLog \in Seq(ChainEvent)
  BY DEF mine, IndexerInv, Projection, IndexerTypeOK
<1> HIDE DEF new
<1>4. /\ UNCHANGED <<rows, indexedEventKeys, indexing, scan, failures>>
      /\ rows \in Seq(ChainEvent) /\ scan \in Scans /\ IndexerTypeOK
  BY DEF mine, IndexerInv, Projection
<1>5. chainLog' \in Seq(ChainEvent) /\ ToSet(chainLog)' = ToSet(chainLog) \cup ToSet(new)
  BY <1>2, <1>3, ToSetConcat
<1>6. \A e \in ToSet(new) : e.block = head + 1
  BY <1>2 DEF ToSet
<1>7. \A e \in ToSet(chainLog) : e.block \in Nat /\ e.block <= head
  <2>1. \A e \in ChainEvent : e.block \in Nat
    BY <1>1 DEF ChainEvent
  <2> QED
    BY <1>3, <2>1, ToSetIn DEF IndexerInv, InOrder
<1>8. Projection'
  <2>1. {eventKey(e) : e \in ToSet(chainLog)} \subseteq {eventKey(e) : e \in ToSet(chainLog)}'
    BY <1>5 DEF eventKey
  <2>2. /\ head' \in 0 .. MaxBlocks /\ ToSet(rows)' \subseteq ToSet(chainLog)'
        /\ ToSet(scan.pending)' \subseteq ToSet(chainLog)'
        /\ indexedEventKeys' \subseteq {eventKey(e) : e \in ToSet(chainLog)}'
    BY <1>1, <1>4, <1>5, <2>1 DEF IndexerTypeOK
  <2>3. scan.latestBlock' <= head'
    BY <1>1, <1>4 DEF IndexerTypeOK, Scans
  <2>4. IndexerTypeOK'
    BY <1>4, <1>5, <2>2, <2>3 DEF IndexerTypeOK
  <2> QED
    BY <1>4, <2>4 DEF Projection
<1>9. InOrder'
  <2>1. \A e \in ToSet(chainLog)' : e.block <= head'
    BY <1>1, <1>5, <1>6, <1>7
  <2>2. /\ \A i \in DOMAIN chainLog : chainLog'[i] = chainLog[i]
        /\ \A i \in DOMAIN chainLog' \ DOMAIN chainLog :
              /\ i - Len(chainLog) \in DOMAIN new
              /\ chainLog'[i] = new[i - Len(chainLog)]
              /\ \A j \in DOMAIN chainLog : j < i
    BY <1>2, <1>3
  <2>3. \A i \in DOMAIN chainLog' \ DOMAIN chainLog : chainLog'[i].block = head + 1
    BY <1>2, <2>2
  <2>4. \A i \in DOMAIN chainLog : chainLog'[i].block \in Nat /\ chainLog'[i].block <= head
    BY <1>7, <2>2 DEF ToSet
  <2>5. ASSUME NEW i \in DOMAIN chainLog', NEW j \in DOMAIN chainLog', i <= j
        PROVE  chainLog'[i].block <= chainLog'[j].block
    <3>1. CASE i \in DOMAIN chainLog /\ j \in DOMAIN chainLog
      BY <2>2, <2>5, <3>1 DEF IndexerInv, InOrder
    <3>2. CASE i \in DOMAIN chainLog /\ j \notin DOMAIN chainLog
      BY <1>1, <2>3, <2>4, <3>2
    <3>3. CASE i \notin DOMAIN chainLog /\ j \notin DOMAIN chainLog
      BY <1>1, <2>3, <3>3
    <3>4. i \in Nat /\ j \in Nat /\ (i \notin DOMAIN chainLog => j \notin DOMAIN chainLog)
      BY <1>3, <1>5, <2>5
    <3> QED
      BY <3>1, <3>2, <3>3, <3>4
  <2> QED
    BY <2>1, <2>5 DEF InOrder
<1>10. Remembered' /\ RowsKnown'
  BY <1>4 DEF IndexerInv, Remembered, RowsKnown, HasRead, Recorded, eventKey
<1>11. Covered'
  <2>1. scan.latestBlock \in Nat /\ scan.latestBlock <= head
    BY <1>1, <1>4 DEF IndexerTypeOK, Scans
  <2>2. \A e \in ToSet(new) : ~ (e.block <= scan.latestBlock)
    BY <1>1, <1>6, <2>1
  <2> QED
    BY <1>4, <1>5, <2>2 DEF IndexerInv, Covered, Recorded, project
<1> QED
  BY <1>8, <1>9, <1>10, <1>11 DEF IndexerInv

(* The least of two numbers is the one that is not above the other.        *)
LEMMA LeastOfTwo ==
    ASSUME NEW q \in Nat, NEW n \in Nat, n <= q
    PROVE  Min({q, n}) = n
<1>1. \A y \in {q, n} : n =< y
  OBVIOUS
<1>2. ASSUME NEW x \in {q, n}, \A y \in {q, n} : x =< y
      PROVE  x = n
  <2>1. x =< n /\ n =< x
    BY <1>1, <1>2
  <2>2. x \in Nat
    OBVIOUS
  <2> QED
    BY <2>1, <2>2
<1> QED
  BY <1>1, <1>2 DEF Min

(* The query of the keys returns keys of rows, and all of them up to its   *)
(* limit.                                                                  *)
LEMMA KeysAnswer ==
    ASSUME rows \in Seq(ChainEvent), NEW keys \in listIndexedChainEventKeys
    PROVE  /\ \A k \in keys : \E r \in ToSet(rows) : eventKey(r) = k
           /\ Len(rows) <= QueryLimit => \A r \in ToSet(rows) : eventKey(r) \in keys
<1>1. Len(rows) \in Nat /\ DOMAIN rows = 1 .. Len(rows) /\ QueryLimit \in Nat
  BY MaxBlocksNat
<1>2. PICK I \in kSubset(Min({QueryLimit, Len(rows)}), DOMAIN rows) :
         keys = {eventKey(rows[i]) : i \in I}
  BY DEF listIndexedChainEventKeys
<1>3. I \subseteq DOMAIN rows /\ Cardinality(I) = Min({QueryLimit, Len(rows)})
  BY <1>2 DEF kSubset
<1>4. ASSUME Len(rows) <= QueryLimit PROVE I = DOMAIN rows
  <2>1. Min({QueryLimit, Len(rows)}) = Len(rows)
    <3>1. PICK q \in Nat : q = QueryLimit
      BY <1>1
    <3>2. PICK n \in Nat : n = Len(rows)
      BY <1>1
    <3> QED
      BY <1>4, <3>1, <3>2, LeastOfTwo
  <2>2. IsFiniteSet(1 .. Len(rows)) /\ Cardinality(1 .. Len(rows)) = Len(rows)
    BY <1>1, FS_Interval
  <2> QED
    BY <1>1, <1>3, <2>1, <2>2, FS_Subset
<1>5. \A r \in ToSet(rows) : \E i \in DOMAIN rows : r = rows[i]
  BY DEF ToSet
<1>6. \A i \in DOMAIN rows : rows[i] \in ToSet(rows)
  BY DEF ToSet
<1> QED
  BY <1>2, <1>3, <1>4, <1>5, <1>6

(* Seeding the memory adds keys of rows to it.                             *)
LEMMA SeedsKeys ==
    ASSUME rows \in Seq(ChainEvent), NEW answered, seedKeys(answered)
    PROVE  /\ indexedEventKeys \subseteq indexedEventKeys'
           /\ \A k \in indexedEventKeys' \ indexedEventKeys : \E r \in ToSet(rows) : eventKey(r) = k
           /\ answered /\ Len(rows) <= QueryLimit =>
                 \A r \in ToSet(rows) : eventKey(r) \in indexedEventKeys'
<1>1. PICK keys \in IF answered THEN listIndexedChainEventKeys ELSE {{}} :
         indexedEventKeys' = indexedEventKeys \cup keys
  BY DEF seedKeys
<1>2. CASE answered
  BY <1>1, <1>2, KeysAnswer
<1>3. CASE ~answered
  BY <1>1, <1>3
<1> QED
  BY <1>2, <1>3

(* A scan starts from what the table and the chain hold.                   *)
LEMMA StartKeeps ==
    ASSUME IndexerInv, NEW answered \in SUBSET Queries, startScan(answered)
    PROVE  IndexerInv'
<1>1. PICK from \in 0 .. head : from = fromBlock(head, "checkpoint" \in answered)
  BY FromBlockInRange DEF IndexerInv
<1>2. PICK persistedKeys \in IF "keys" \in answered THEN listIndexedChainEventKeys ELSE {{}} :
        scan' = [pending |-> getEvents(fromBlock(head, "checkpoint" \in answered), head),
                 fromBlock |-> fromBlock(head, "checkpoint" \in answered),
                 latestBlock |-> head,
                 persistedKeys |-> persistedKeys,
                 legacyTxHashes |-> IF "hashes" \in answered THEN listIndexedChainTxHashes ELSE {},
                 answered |-> answered]
  BY DEF startScan
<1>3. PICK legacyTxHashes : legacyTxHashes =
        IF "hashes" \in answered THEN listIndexedChainTxHashes ELSE {}
  OBVIOUS
<1>4. PICK pending : pending = getEvents(from, head)
  OBVIOUS
<1>5. /\ scan' = [pending |-> pending, fromBlock |-> from, latestBlock |-> head,
                  persistedKeys |-> persistedKeys, legacyTxHashes |-> legacyTxHashes,
                  answered |-> answered]
      /\ indexing' = TRUE /\ UNCHANGED <<head, chainLog, rows>>
  BY <1>1, <1>2, <1>3, <1>4 DEF startScan, chainVars
<1>6. /\ scan'.pending = pending /\ scan'.fromBlock = from /\ scan'.latestBlock = head
      /\ scan'.persistedKeys = persistedKeys /\ scan'.legacyTxHashes = legacyTxHashes
      /\ scan'.answered = answered
  BY <1>5
<1>15. rows \in Seq(ChainEvent)
  BY DEF IndexerInv, Projection
<1>7. /\ indexedEventKeys \subseteq indexedEventKeys'
      /\ \A k \in indexedEventKeys' \ indexedEventKeys : \E r \in ToSet(rows) : eventKey(r) = k
      /\ "seed" \in answered /\ Len(rows) <= QueryLimit =>
            \A r \in ToSet(rows) : eventKey(r) \in indexedEventKeys'
  BY <1>15, SeedsKeys DEF startScan
<1>16. /\ \A k \in persistedKeys : \E r \in ToSet(rows) : eventKey(r) = k
       /\ "keys" \in answered /\ Len(rows) <= QueryLimit =>
             \A r \in ToSet(rows) : eventKey(r) \in persistedKeys
  <2>1. CASE "keys" \in answered
    BY <1>2, <1>15, <2>1, KeysAnswer
  <2>2. CASE "keys" \notin answered
    BY <1>2, <2>2
  <2> QED
    BY <2>1, <2>2
<1>8. /\ MaxBlocks \in Nat /\ head \in 0 .. MaxBlocks /\ rows \in Seq(ChainEvent)
      /\ ToSet(rows) \subseteq ChainEvent /\ from \in Nat /\ from <= head
  BY <1>1, MaxBlocksNat, ToSetIn DEF IndexerInv, Projection, IndexerTypeOK
<1>9. /\ pending \in Seq(ChainEvent) /\ ToSet(pending) \subseteq ToSet(chainLog)
      /\ \A e \in ToSet(chainLog) : from <= e.block /\ e.block <= head => e \in ToSet(pending)
  <2>1. head \in Nat
    BY <1>8
  <2> QED
    BY <1>4, <1>8, <2>1, RangeComplete DEF IndexerInv
<1>10. Projection'
  <2>1. persistedKeys \in SUBSET Keys /\ legacyTxHashes \in SUBSET Txs
    <3>1. \A e \in ChainEvent : eventKey(e) \in Keys /\ e.tx \in Txs
      BY DEF ChainEvent, eventKey, Keys, Txs
    <3> QED
      BY <1>3, <1>8, <1>16, <3>1 DEF listIndexedChainTxHashes
  <2>2. scan' \in Scans
    BY <1>1, <1>5, <1>8, <1>9, <2>1 DEF Scans
  <2>3. indexedEventKeys' \subseteq {eventKey(e) : e \in ToSet(chainLog)}
    BY <1>7 DEF IndexerInv, Projection, IndexerTypeOK
  <2>4. failures' \in 0 .. MaxFailures
    BY MaxBlocksNat DEF startScan, IndexerInv, Projection, IndexerTypeOK
  <2>5. ToSet(scan'.pending) \subseteq ToSet(chainLog)
    BY <1>6, <1>9
  <2>6. scan'.fromBlock \in 0 .. scan'.latestBlock /\ scan'.latestBlock <= head
    BY <1>1, <1>6, <1>8
  <2>7. IndexerTypeOK'
    BY <1>5, <2>3, <2>4, <2>5, <2>6 DEF IndexerInv, Projection, IndexerTypeOK, eventKey
  <2> QED
    BY <1>5, <1>8, <2>2, <2>7 DEF Projection
<1>11. InOrder'
  BY <1>5 DEF IndexerInv, InOrder
<1>12. Remembered'
  <2>1. \A k \in indexedEventKeys' \cup persistedKeys : \E r \in ToSet(rows) : eventKey(r) = k
    BY <1>7, <1>16 DEF IndexerInv, Remembered
  <2>2. \A t \in legacyTxHashes : \E r \in ToSet(rows) : r.tx = t
    BY <1>3 DEF listIndexedChainTxHashes
  <2> QED
    BY <1>5, <1>6, <2>1, <2>2 DEF Remembered, Recorded, eventKey
<1>13. RowsKnown'
  <2>1. ASSUME NEW r \in ToSet(rows),
               \/ "hashes" \in answered
               \/ answered \cap {"seed", "keys"} # {} /\ Len(rows) <= QueryLimit
        PROVE  \/ eventKey(r) \in indexedEventKeys' \cup persistedKeys
               \/ r.tx \in legacyTxHashes
    BY <1>3, <1>7, <1>16, <2>1 DEF listIndexedChainTxHashes
  <2> QED
    BY <1>5, <1>6, <2>1 DEF RowsKnown, HasRead, eventKey
<1>14. Covered'
  BY <1>5, <1>6, <1>9 DEF Covered, Recorded, project
<1> QED
  BY <1>10, <1>11, <1>12, <1>13, <1>14 DEF IndexerInv

(* The scan goes on to its next event.                                     *)
LEMMA ScanMovesOn ==
    ASSUME IndexerInv, indexing, scan.pending # << >>,
           scan' = [scan EXCEPT !.pending = Tail(@)]
    PROVE  /\ scan' \in Scans
           /\ scan'.pending = Tail(scan.pending) /\ scan'.fromBlock = scan.fromBlock
           /\ scan'.latestBlock = scan.latestBlock /\ scan'.answered = scan.answered
           /\ scan'.persistedKeys = scan.persistedKeys
           /\ scan'.legacyTxHashes = scan.legacyTxHashes
           /\ nextEvent \in ChainEvent /\ nextEvent \in ToSet(chainLog)
           /\ ToSet(scan.pending) = {nextEvent} \cup ToSet(scan'.pending)
           /\ ToSet(scan'.pending) \subseteq ToSet(chainLog)
<1>1. scan \in Scans /\ ToSet(scan.pending) \subseteq ToSet(chainLog)
  BY DEF IndexerInv, Projection, IndexerTypeOK
<1>2. PICK pending \in Seq(ChainEvent) : pending = scan.pending
  BY <1>1 DEF Scans
<1>3. /\ Tail(pending) \in Seq(ChainEvent) /\ Head(pending) \in ChainEvent
      /\ ToSet(pending) = {Head(pending)} \cup ToSet(Tail(pending))
  BY <1>2, ToSetTail
<1>4. PICK rest \in Seq(ChainEvent) : rest = Tail(pending)
  BY <1>3
<1>5. scan' = [scan EXCEPT !.pending = rest]
  BY <1>2, <1>4
<1>6. /\ scan' \in Scans /\ scan'.pending = rest /\ scan'.fromBlock = scan.fromBlock
      /\ scan'.latestBlock = scan.latestBlock /\ scan'.answered = scan.answered
      /\ scan'.persistedKeys = scan.persistedKeys /\ scan'.legacyTxHashes = scan.legacyTxHashes
  BY <1>1, <1>5 DEF Scans
<1>7. nextEvent = Head(pending)
  BY <1>2 DEF nextEvent
<1> QED
  BY <1>1, <1>2, <1>3, <1>4, <1>6, <1>7

(* An event that is skipped has a row of its transaction, or needs none.   *)
LEMMA SkipKeeps ==
    ASSUME IndexerInv, skipEvent
    PROVE  IndexerInv'
<1>1. /\ indexing /\ scan.pending # << >> /\ skipped(nextEvent)
      /\ scan' = [scan EXCEPT !.pending = Tail(@)]
      /\ UNCHANGED <<head, chainLog, rows, indexedEventKeys, indexing, failures>>
  BY DEF skipEvent, chainVars
<1>2. /\ scan' \in Scans /\ scan'.fromBlock = scan.fromBlock
      /\ scan'.latestBlock = scan.latestBlock /\ scan'.answered = scan.answered
      /\ scan'.persistedKeys = scan.persistedKeys
      /\ scan'.legacyTxHashes = scan.legacyTxHashes
      /\ ToSet(scan.pending) = {nextEvent} \cup ToSet(scan'.pending)
      /\ ToSet(scan'.pending) \subseteq ToSet(chainLog)
  BY <1>1, ScanMovesOn
<1>3. Projection'
  BY <1>1, <1>2 DEF IndexerInv, Projection, IndexerTypeOK, eventKey
<1>4. InOrder' /\ Remembered' /\ RowsKnown'
  BY <1>1, <1>2 DEF IndexerInv, InOrder, Remembered, RowsKnown, HasRead, Recorded, eventKey
<1>5. project(nextEvent) => Recorded(nextEvent.tx)
  <2>1. \A r : eventKey(r) = eventKey(nextEvent) => r.tx = nextEvent.tx
    BY DEF eventKey
  <2> QED
    BY <1>1, <2>1 DEF skipped, IndexerInv, Remembered, Recorded
<1>6. Covered'
  BY <1>1, <1>2, <1>5 DEF IndexerInv, Covered, Recorded, project
<1> QED
  BY <1>3, <1>4, <1>6 DEF IndexerInv

LEMMA ProjectKeeps ==
    ASSUME IndexerInv, projectEvent
    PROVE  IndexerInv'
<1>1. /\ indexing /\ scan.pending # << >>
      /\ scan' = [scan EXCEPT !.pending = Tail(@)]
      /\ rows' = Append(rows, nextEvent)
      /\ indexedEventKeys' = indexedEventKeys \cup {eventKey(nextEvent)}
      /\ UNCHANGED <<head, chainLog, indexing, failures>>
  BY DEF projectEvent, chainVars
<1>2. /\ scan' \in Scans /\ scan'.fromBlock = scan.fromBlock
      /\ scan'.latestBlock = scan.latestBlock /\ scan'.answered = scan.answered
      /\ scan'.persistedKeys = scan.persistedKeys
      /\ scan'.legacyTxHashes = scan.legacyTxHashes
      /\ nextEvent \in ChainEvent /\ nextEvent \in ToSet(chainLog)
      /\ ToSet(scan.pending) = {nextEvent} \cup ToSet(scan'.pending)
      /\ ToSet(scan'.pending) \subseteq ToSet(chainLog)
  BY <1>1, ScanMovesOn
<1>3. rows' \in Seq(ChainEvent) /\ ToSet(rows') = ToSet(rows) \cup {nextEvent}
  BY <1>1, <1>2, ToSetAppend DEF IndexerInv, Projection
<1>4. Projection'
  BY <1>1, <1>2, <1>3 DEF IndexerInv, Projection, IndexerTypeOK, eventKey
<1>5. InOrder'
  BY <1>1 DEF IndexerInv, InOrder
<1>6. Remembered'
  BY <1>1, <1>2, <1>3 DEF IndexerInv, Remembered, Recorded, eventKey
<1>8. HasRead' => HasRead
  <2>1. Len(rows) \in Nat /\ Len(rows') = Len(rows) + 1
    BY <1>1, <1>2 DEF IndexerInv, Projection
  <2>2. Len(rows') <= QueryLimit => Len(rows) <= QueryLimit
    BY <2>1, MaxBlocksNat
  <2> QED
    BY <1>2, <2>2 DEF HasRead
<1>9. RowsKnown'
  BY <1>1, <1>2, <1>3, <1>8 DEF IndexerInv, RowsKnown, eventKey
<1>7. Covered'
  BY <1>1, <1>2, <1>3 DEF IndexerInv, Covered, Recorded, project
<1> QED
  BY <1>4, <1>5, <1>6, <1>7, <1>9 DEF IndexerInv

(* A tick that stops before its scan has seeded the memory at most.        *)
LEMMA FailKeeps ==
    ASSUME IndexerInv, NEW seeded \in BOOLEAN, failScan(seeded)
    PROVE  IndexerInv'
<1>1. /\ ~indexing /\ ~indexing' /\ UNCHANGED <<head, chainLog, rows, scan>>
      /\ rows \in Seq(ChainEvent) /\ IndexerTypeOK
  BY DEF failScan, chainVars, IndexerInv, Projection, IndexerTypeOK
<1>2. \A k \in indexedEventKeys' \ indexedEventKeys : \E r \in ToSet(rows) : eventKey(r) = k
  BY <1>1, SeedsKeys DEF failScan
<1>3. Projection'
  <2>1. indexedEventKeys' \subseteq {eventKey(e) : e \in ToSet(chainLog)}
    BY <1>1, <1>2 DEF IndexerTypeOK
  <2>2. failures' \in 0 .. MaxFailures
    BY <1>1, MaxBlocksNat DEF failScan, IndexerTypeOK
  <2>3. IndexerTypeOK'
    BY <1>1, <2>1, <2>2 DEF failScan, IndexerTypeOK, eventKey
  <2> QED
    BY <1>1, <2>3 DEF IndexerInv, Projection
<1>4. InOrder' /\ RowsKnown' /\ Covered'
  BY <1>1 DEF IndexerInv, InOrder, RowsKnown, Covered
<1>5. Remembered'
  BY <1>1, <1>2 DEF IndexerInv, Remembered, Recorded, eventKey
<1> QED
  BY <1>3, <1>4, <1>5 DEF IndexerInv

(* However a scan ends, the table keeps its rows and memory is honest.     *)
LEMMA EndKeeps ==
    ASSUME IndexerInv, rows' \in Seq(ChainEvent), ToSet(rows) \subseteq ToSet(rows'),
           ToSet(rows') \subseteq ToSet(chainLog), indexedEventKeys' \subseteq indexedEventKeys,
           indexing' = FALSE, scan' = NoScan, failures' \in 0 .. MaxFailures,
           UNCHANGED chainVars
    PROVE  IndexerInv'
<1>1. scan' \in Scans /\ scan'.persistedKeys = {} /\ scan'.legacyTxHashes = {}
  BY MaxBlocksNat DEF NoScan, Scans
<1>2. Projection'
  <2>1. /\ head' \in 0 .. MaxBlocks /\ chainLog' \in Seq(ChainEvent)
        /\ ToSet(rows') \subseteq ToSet(chainLog') /\ indexing' \in BOOLEAN
    BY DEF IndexerInv, Projection, IndexerTypeOK, chainVars
  <2>2. indexedEventKeys' \subseteq {eventKey(e) : e \in ToSet(chainLog)}'
    BY DEF IndexerInv, Projection, IndexerTypeOK, chainVars, eventKey
  <2>3. ToSet(scan.pending)' \subseteq ToSet(chainLog)'
    BY NoScanTyped
  <2>4. (scan.fromBlock \in 0 .. scan.latestBlock /\ scan.latestBlock <= head)'
    <3>1. scan'.fromBlock = 0 /\ scan'.latestBlock = 0
      BY NoScanTyped
    <3> QED
      BY <2>1, <3>1, MaxBlocksNat
  <2>5. IndexerTypeOK'
    BY <2>1, <2>2, <2>3, <2>4 DEF IndexerTypeOK
  <2> QED
    BY <1>1, <2>5 DEF Projection
<1>3. InOrder' /\ RowsKnown' /\ Covered'
  BY DEF IndexerInv, InOrder, RowsKnown, Covered, chainVars
<1>4. Remembered'
  BY <1>1 DEF IndexerInv, Remembered, eventKey
<1> QED
  BY <1>2, <1>3, <1>4 DEF IndexerInv

LEMMA IndexerNext_Inv == IndexerInv /\ [IndexerNext]_indexerVars => IndexerInv'
<1> SUFFICES ASSUME IndexerInv, [IndexerNext]_indexerVars PROVE IndexerInv'
  OBVIOUS
<1>1. Projection /\ IndexerTypeOK /\ rows \in Seq(ChainEvent)
  BY DEF IndexerInv, Projection
<1>2. ASSUME NEW stored \in BOOLEAN, failEvent(stored)
      PROVE  IndexerInv'
  <2>1. /\ rows' = IF stored THEN Append(rows, nextEvent) ELSE rows
        /\ indexing /\ scan.pending # << >>
        /\ indexing' = FALSE /\ scan' = NoScan /\ indexedEventKeys' = indexedEventKeys
        /\ failures' \in 0 .. MaxFailures /\ UNCHANGED <<head, chainLog>>
    BY <1>1, <1>2, MaxBlocksNat DEF failEvent, chainVars, IndexerTypeOK
  <2>2. nextEvent \in ChainEvent /\ nextEvent \in ToSet(chainLog)
    <3>1. PICK pending \in Seq(ChainEvent) : pending = scan.pending
      BY <1>1 DEF Projection, Scans
    <3>2. Head(pending) \in ChainEvent /\ Head(pending) \in ToSet(pending)
      BY <2>1, <3>1, ToSetTail
    <3> QED
      BY <1>1, <3>1, <3>2 DEF nextEvent, IndexerTypeOK
  <2>3. /\ rows' \in Seq(ChainEvent) /\ ToSet(rows) \subseteq ToSet(rows')
        /\ ToSet(rows') \subseteq ToSet(chainLog)
    <3>1. CASE stored
      BY <1>1, <2>1, <2>2, <3>1, ToSetAppend DEF IndexerTypeOK
    <3>2. CASE ~stored
      BY <1>1, <2>1, <3>2 DEF IndexerTypeOK
    <3> QED
      BY <3>1, <3>2
  <2> QED
    BY <2>1, <2>3, EndKeeps DEF chainVars
<1>3. CASE finishScan
  BY <1>1, <1>3, EndKeeps DEF finishScan, IndexerTypeOK
<1>4. CASE restart
  <2>1. failures' \in 0 .. MaxFailures
    BY <1>1, <1>4, MaxBlocksNat DEF restart, IndexerTypeOK
  <2> QED
    BY <1>1, <1>4, <2>1, EndKeeps DEF restart, IndexerTypeOK
<1>5. CASE UNCHANGED indexerVars
  BY <1>5 DEF indexerVars, chainVars, IndexerInv, Projection, IndexerTypeOK, InOrder, Remembered,
              RowsKnown, HasRead, Covered, Recorded, eventKey, project
<1> QED
  BY <1>2, <1>3, <1>4, <1>5, MineKeeps, StartKeeps, FailKeeps, SkipKeeps, ProjectKeeps
     DEF IndexerNext, ScanStep

(* The inductive invariant, for any blocks and any number of scans and     *)
(* failures.                                                               *)
THEOREM IndexerInvariant == IndexerSpec => []IndexerInv
BY IndexerInit_Inv, IndexerNext_Inv, PTL DEF IndexerSpec

(* A scan that reaches its end has a row for every transaction of its      *)
(* range that emitted an indexed event.                                    *)
THEOREM ScanCoverCorrect == IndexerSpec => []ScanCoversItsRange
<1>1. IndexerInv => ScanCoversItsRange
  <2> SUFFICES ASSUME IndexerInv, indexing, scan.pending = << >>, NEW e \in ToSet(chainLog),
                      project(e), scan.fromBlock <= e.block, e.block <= scan.latestBlock
               PROVE  Recorded(e.tx)
    BY DEF ScanCoversItsRange
  <2>1. e \notin ToSet(scan.pending)
    BY DEF ToSet
  <2> QED
    BY <2>1 DEF IndexerInv, Covered
<1> QED
  BY <1>1, IndexerInvariant, PTL

(* No event gets a second row from a scan that could read the transaction  *)
(* hashes, nor from one that could read the keys while the query's limit   *)
(* left no row out.                                                        *)
THEOREM NoDuplicatesCorrect == IndexerSpec => NoDuplicateRows
<1> DEFINE P == rows' # rows /\ Last(rows') \in ToSet(rows) =>
                  /\ "hashes" \notin scan.answered
                  /\ scan.answered \cap {"seed", "keys"} = {} \/ Len(rows) > QueryLimit
<1>1. IndexerInv /\ [IndexerNext]_indexerVars => [P]_indexerVars
  <2> SUFFICES ASSUME IndexerInv, IndexerNext, rows' # rows, Last(rows') \in ToSet(rows)
               PROVE  ~HasRead
    <3>1. Len(rows) \in Nat /\ QueryLimit \in Nat
      BY MaxBlocksNat DEF IndexerInv, Projection
    <3> QED
      BY <3>1 DEF HasRead
  <2>1. indexing /\ ~skipped(nextEvent) /\ rows' = Append(rows, nextEvent)
    BY DEF IndexerNext, mine, startScan, failScan, ScanStep, skipEvent, projectEvent, finishScan, failEvent,
           restart
  <2>2. Last(rows') = nextEvent
    BY <2>1 DEF Last, IndexerInv, Projection
  <2> QED
    BY <2>1, <2>2 DEF skipped, IndexerInv, RowsKnown
<1> QED
  BY <1>1, IndexerInvariant, PTL DEF IndexerSpec, NoDuplicateRows

=============================================================================
