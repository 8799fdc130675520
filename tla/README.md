# A TLA+ verification project for SAMPRAAN

SAMPRAAN is a permissioned registry of identities and assets. Four Solidity
contracts on a Besu chain hold roles, identities, assets with their custody log
and disputes, and a multisig with a timelock. A TypeScript server keeps a MySQL
read model of the same things, runs the approval workflows in front of the
contracts, authenticates DIDs by challenge and response, and projects chain
events back into its audit table. A React client and a subgraph read from both.

This directory models the contracts and the server's workflows, checks them with
TLC and proves their main invariants with TLAPS.
Paths below are relative to the repository.

## 1. Inventory

| Component | State it keeps | Operations | Hard part |
| --- | --- | --- | --- |
| `contracts/SampraanAccessControl.sol` | role members, `adminHolderCount` | grant, revoke, inherited renounce | a hand-kept count guards the last administrator; the governance contract is a holder too |
| `contracts/SampraanIdentityRegistry.sol` | status, DID binding both ways, lifecycle log, DID document versions | register, verify, suspend, reactivate, governance deactivate, document updates | several stores per identity that must agree after any call sequence |
| `contracts/SampraanAssetRegistry.sol` | ERC-721 owner, custodian, custody log, status, disputes, holds, pause | register, assign, transfer, status calls, anomaly, dispute, report, governance pause/burn/force transfer | four paths move custody; counts kept by hand; holds; pause |
| `contracts/SampraanGovernance.sol` | proposals, approvals, quorum, delay | set quorum/delay, propose, approve, cancel, execute | ordering of approvals, quorum changes while proposals wait, dispatch into both registries |
| `server/modules/blockchain/chain-event-indexer.ts` | audit rows from the chain, in-memory keys | one scan per 30 s tick | partial scans, restarts, three dedup layers, the checkpoint |
| `server/modules/did/did-auth.service.ts` | challenges, key generation and status, key history | challenge, verify, rotate, set key status, step-up | every database call is an interleaving point |
| identity status writers (`server/db.ts`, routers) | identity row, DID row | lifecycle calls, `identities.setStatus` | two tables, two statements, no transaction |
| mint and transfer workflows (`governance.router.ts`, `routers.ts`) | request and approval rows, asset rows, custody rows | request, accept, decide, execute | unguarded updates; chain moved and database not |
| auditor workflow, proposal routes, key recovery, presentations | rows per request | raise, resolve, forward to the multisig, recover, present | read model and chain drift apart |
| crypto assurance, post-quantum keys | challenges, grants, keys | issue, verify, claim, register, rotate | single use, expiry at the moment of the claim |
| sessions and login | session rows, failure counter in memory | login, logout, authenticate, revoke | a check before an await and its record after it |
| asset content | versions, grants, files | upload, grant, revoke, read | version numbers, revived grants |
| Besu client, anchoring | submission queue | submit, await receipt, read events | nonce order, partial failure |
| authorization, intelligence, trust domains, subgraph, client, schema | rules, reports, presentation | | not stateful, or read only |

How they interact: the server calls the contracts through the operator wallet
(role and asset-manager calls) and through the signer wallets (multisig calls).
The asset registry asks the access control contract for roles and the identity
registry whether a wallet is active, at the moment of the call. The multisig
calls the two registries that answer as governance targets. The indexer is the
only path back from the chain to the audit table; the asset and identity rows
of the read model are written by the handlers themselves, after the chain call.

`PROJECT.json` lists every component with its status, and every hazard at the
line where it bites.

## 2. Modules

```
SampraanAccessControl            roles
  SampraanIdentityRegistry       + identities          IdentitySpec
    SampraanAssetRegistry        + assets, disputes    RegistrySpec
      SampraanGovernance         + multisig            ChainSpec
AssetLifecycle                   one asset's mint, creation and status   -> MakerChecker
AssetCustody                     one asset's custody, both stores
  AuthorizationPolicy            the decision on a transfer
IdentityAdmin                    roles and status of identities
CryptoAssurance                  challenges, grants, keys, the gate      -> SingleUseToken
  AssurancePolicy                the level an operation needs
SessionAccess                    login, throttle, sessions, request gate
AssetContent                     content gate, versions, grants
DidAuth                          one DID, its handlers and database rows
ChainEventIndexer                one indexer, its table and the chain
```

**Contracts.** Each contract module EXTENDS the one it calls, as the deployed
contracts do: `hasRole` and `isActive` are the same operators in all of them. A
transaction is one step. A call that reverts changes nothing and is no step, so
an action is a call that succeeds: its guard is the conjunction of the code's
requirements. `IdentityNext`, `RegistryNext` and `ChainNext` say who calls:
accounts, and the governance contract. Under `IdentitySpec` and `RegistrySpec` the
governance contract may make any of its calls at any time; under `ChainSpec` it
makes them only through `execute`. `RegistrySpec` is in this sense the abstract
specification that `ChainSpec` implements, and `IdentitySpec` the one that
`RegistrySpec` implements; both implementations are proved. The initial states
are those that `scripts/deploy-contracts.ts` leaves.

**Server handlers.** In every server module `req[r]` says at which await handler
`r` is and what it has read before it. One query, one transaction or one chain
call is one step; what JavaScript runs between two awaits belongs to the step
before or after, so two handlers interleave exactly where Node lets them. `fails`
ends a handler at any await: a query that throws, or a restart of the process.
Checks of state that a module does not keep (a manager's scope, an identity's
status in the asset workflows) can only refuse; `fails` covers the refusal.

- `AssetLifecycle`: `mintRequest`, `assetRow` and `token` are the row of
  `mint_requests`, the row of `assets` and the contract's record of one business asset
  id, competed for by `mint.*`, `assets.create` and `assets.setStatus`. A chain
  call is applied with its receipt, applied with the receipt lost, or refused.
- `AssetCustody`: the contract's custody log and dispute, the read model's
  custodian and dispute row, transfer requests, approvals. Initially the token belongs
  to the row's custodian (a governed mint) or to the operator wallet
  (`assets.create`). `transfer.*`,
  `auditor.raiseDispute` and `resolveDispute`, `assets.assign`, `approvals.*`
  and `assets.authorizeTransfer` interleave; nothing but the contract serialises them.
  `AuthorizationPolicy` is the decision that authorizeTransfer asks for.
- `IdentityAdmin`: `identity_roles` and the two status columns, written by the
  governance router's lifecycle routes and by `identities.*` of the main router,
  which ask different questions first. The authorisation (`acting`,
  `administering`) is a step of its own, so it can be stale when it is used. A failed lookup
  of one's own identity skips the self-lockout check, as in the code.
- `CryptoAssurance`: rows of `assurance_challenges` and `pqc_key_records`, the DID's
  key, `requireGovernanceAssurance`. `AssurancePolicy` is the scoring, a pure operator
  over records of circumstances, used at issue (with what the caller states) and again at
  the gate (with what is found, which is nothing when the lookup fails or the id names no row).
- `SessionAccess`: time in seconds, because a token is its user and its expiry in
  seconds. The throttle's functions are synchronous and parts of steps.
- `AssetContent`: asset row, grants, step-ups, versions, stored objects. What the
  gate reads one after the other changes under it.
- `DidAuth`: challenges, key rotation and revocation, and the identity and DID
  rows. Initially the identity has any status and, as `identities.create` leaves
  it, lifecycleState VERIFIED and a DID record that follows the status.
- `ChainEventIndexer` reads the head and the table in one step at the start of a
  scan (only this process writes chain rows, and the range is fixed by the head),
  then takes one step per event. The key query returns any `QueryLimit` of the rows;
  a failing query falls back as the code's `.catch` does; a failing `getEvents` ends the tick; an insert throws before or after its row is stored; the process restarts
  at any moment.

`seen` (DidAuth, CryptoAssurance, SessionAccess, AssetContent), `overtaken`
(IdentityAdmin), `origin`, `accepted`, `approver`, `spent` and a challenge's `publicKey` are
history: no handler reads them, they record what a property refers to.

**Abstract specifications.** `MakerChecker`: one asks, another decides once, the effect
follows the approval and happens at most once. `SingleUseToken`: issued once,
redeemed once before it lapses, spent at most once. `AssetLifecycle` and
`CryptoAssurance` instantiate them; both implementations are checked and proved.
`DidAuth`'s challenges are a second instance of `SingleUseToken`, proved in `DidAuthProofs`.

The `MC` modules hold the values of the constants for TLC and nothing else.
Definitions marked "Mutant" are the wrong versions that show each property can
fail; no specification uses them.

Abstractions: digests, wallets, ids, keys, objects and signatures are model
values; timestamps inside records, events and texts are dropped; a reason is
present or not; expiry is a flag that may be set at any moment, except where the
arithmetic matters (`SessionAccess`). Wide integers do not wrap in these
contracts (Solidity 0.8 checks them) and counts stay small.

## 3. Runs

Every bound is a named constant and cuts a counter in a guard.

| Run | Bounds | What it shows |
| --- | --- | --- |
| `identity` | the contracts before any asset is minted (`RegistrySpec`): 3 accounts, 3 DIDs, 2 role events, 4 lifecycle events, 2 document hashes | holder count exact, DID binding one to one, the log explains the status, document history agrees with the current hash, a revocation leaves an administrator (and one by somebody else leaves an account), deactivation is final |
| `registry` | 2 assets, 2 tokens, 2 disputes, 3 custody moves, 1 anomaly or report | tokens and asset ids bound one to one, owner is custodian, the custody log is an unbroken chain, holds are exactly the open or upheld disputes and their count is right, revocation and an upheld hold are final, custody goes to active identities only |
| `governance` | 2 signers, 2 proposals of 5 operations, delay 1 and 0, quorum 67 and 34 | approvals are distinct signers, executions are authorised, high-risk effects only by the matching proposal, settled proposals stay settled |
| `lifecycle` | 2 handlers, 3 identities (one both manager and administrator) | the mint workflow implements `MakerChecker`; a row it adds follows the token it minted |
| `custody` | 2 handlers, 3 identities, 2 custody moves, 1 request or approval; minted to the row's custodian or to the operator | transfers need three parties, an approval binds requester, recipient and approver and is taken up only while APPROVED, the read model's custodian becomes only somebody the chain moved custody to |
| `admin` | 2 handlers, 3 identities, 2 role lists | the guarded routes lose the last active administrator only to a race |
| `assurance` | 2 handlers, 1 challenge, 2 proposals, 2 stated circumstances, 2 public keys, 2 key generations | grants are single-use tokens, carry a mandated operation only at the dual level, and were verified against the keys they were issued for |
| `access` | 2 handlers, 1 user, clock 0..2, window 2, token life 1 | a request is admitted only on a session that was live since it came in; failures in a row are bounded |
| `content` | 2 handlers, 2 people, 2 objects, a SENSITIVE asset | the gate follows grants, custody, status and step-up; versions are gapless |
| `didauth` | 2 handlers, 2 challenges, 2 key generations | a challenge is used once, a verification needs a usable DID and the current key after the challenge was consumed, refusals never give a challenge back |
| `indexer` | window 1, head 3, key query of 5 rows, 2 failures; blocks with sibling events, two transactions, unindexed events | a finished scan covers its range, no event twice from a scan that read the hashes, or the keys while the query returned them all, every indexed transaction is recorded in the end |
| `pqc_registration` | 1 handler, 2 keys, 2 generations | expected violation, below |

Four lifecycle events are registration, verification, suspension and a reactivation,
with a deactivation at any point before. Six rows fit into the table of `indexer`, so a
key query of five rows is cut.

Why these bounds. Read-then-write races are pairwise, so two handlers show them; a
handler that ends may start again, so sequences of any length are covered. Two
accounts are enough for the asset runs: a custodian and another one, each possibly
inactive. Two tokens show interference between assets, and a third adds nothing the
invariants relate. Two signers at 67 % need both, at 34 % one, so a change of the
quorum matters. Three identities in `custody` and `lifecycle` are sender,
recipient and third party; in `custody` two of them manage and one administers, so that each may
approve, and what keeps a party of a transfer from approving it is not his role (the policy
treats USER and MANAGER alike at CRITICAL); in `admin` two administrators and the session that can bypass
the rules. One request or approval in `custody` is decided and executed by two handlers
at once; several requests interfere only through the custodian, which
assignments move as well. One challenge in `assurance` because challenges share no state;
what is true of any number of them is proved. Two public keys let the second one take the
generation of the first; a third can only repeat that. `content` uses SENSITIVE because
relation and step-up are both asked for at that level.

Roles change in `identity` only; a role event in `registry` or `governance` multiplies their
states past what a run can hold. Every property those two runs check is also proved, with roles
that change at any time.

Symmetry is declared for sets the modules only compare for equality, and for members with
the same roles: handlers, document hashes, assets, signers, identities, objects, public keys. No run with a liveness property has any.

`CHECK_DEADLOCK FALSE` stands in the contract runs, where no call succeeds once the bounds
are used up, and in `admin`, where a total lockout is a real state: everybody suspended,
no administrator left, and no route that anybody may call.

One run expects a violation. `pqc_registration`: `rotatePqcKeyRecord` inserts the row
of the next generation and, when it exists, only sets its status; generations restart
after a revocation, so a revoked public key becomes active again instead of
the submitted one (`findings` quotes the lines).

Fairness is assumed in `ChainEventIndexer` only: weak fairness of a scan whose
queries all answer, and of the steps of a scan. `startIndexerLoop` in
`server/_core/index.ts` ticks every 30 s for as long as the process lives, a
rejected scan is logged and the next tick starts a new one, and a database call
returns or throws. Failures are bounded, so eventually queries answer. Nothing
forces accounts, signers or users to act and any handler may fail, so the other
modules state no liveness.

## 4. Proofs

Eight modules prove theorems for every value of the constants; every safety invariant
and action property of a passing run is among them. An invariant is proved by an
inductive strengthening, an action property from that invariant and the step.

`SampraanContractsProofs`, in three sections that build on each other.

1. Roles and identities. `ACInv` is the type invariant with `AdminCountExact`: the count
   is only preserved if the set of holders is finite and the hook changes both together.
   `IRInv` adds `DidBinding`, `LifecycleExplainsStatus` and `DocumentHistoryMatches`; it
   is inductive because the log lemma (`AppendExplains`) carries the last entry to the new
   status. `RevokeKeepsAnAdmin` and `DeactivationTerminal` follow from it; of the first,
   that a revocation by another account leaves an account is the caller himself, who is an
   administrator and not the one who loses the role.
2. The asset registry. `RegistryRefinesIdentity` shows that every step of the three
   contracts is a step or a stutter of the two, so section 1 holds here. `RecordInv` joins
   token binding, owner, custodian and custody log; the owner part is needed because
   ERC-721's transfer reverts when the recorded custodian is not the owner. `DisputeInv`
   needs that a disputed token is minted and that asset ids of minted tokens are distinct
   (part of `RecordInv`): otherwise two tokens could share a hold and the count would be
   wrong. `UpheldHoldIsPermanent` needs besides that a dispute is resolved once: the one
   place that releases a hold is the rejection of an open dispute, and an upheld dispute
   and an open one never hold the same asset.
3. The multisig. `GovInv` adds to the types that the approval count is the number of
   signers and that an id above `proposalCount` has no operation (`UnproposedEmpty`), which
   is what makes an execution one of a made proposal. `ChainRefinesRegistry` shows that
   `execute` does to the registries only what the governance contract may do under
   `RegistrySpec`; `ExecutionAuthorized` uses `QuorumRoundsUp`, that the rounded-up quorum
   is at least the percentage. `HighRiskOnlyByProposal` takes two facts: no account's call
   has a high-risk effect or moves custody while paused, and the dispatch of an operation
   does only what that operation names.

`AssetLifecycleProofs`. `LifecycleInv` joins the types, `RowFollowsMint`, `RowsAgree`
(nobody asked or decided before there is a request, an executed one has its token,
and a token or row that does not exist has no origin) and `Carried`: what a handler holds at each await is still enough to
take its step when it gets there (`Ready`). `Carried` is what makes it inductive:
an approved request is never decided again because both updates are guarded, so an
execution may rely on an approval it read long ago. `MintImplements` maps each step to
one of `MakerChecker` or a stutter; `MintNeedsChecker` carries `MakerChecker`'s own
theorem (`WorkflowKeepsPromise`) over to the mint.

`AssetCustodyProofs`. Nothing but the contract serialises these handlers, so `CustodyInv`
cannot say that what a handler read is still true. It says what stays true: a request or
approval got its status through the people the status requires, and its approver is a
third person even after a late accept has reset the status; a handler that read it as
approved may rely on that, because the tables only gain (`Gains`): rows are never removed,
the parties of a row never change, and an approval that is EXECUTED stays so. `PolicyNeedsApproval` is the lemma that the
decision table lets nobody transfer a sensitive asset without an approval, whatever his
role and risk, and `NewestIsOne` that the newest approval found is one of those found.
`RowCustodianFollowsChain` holds because each handler writes a custodian that its own chain
call has put into the log, and the log only grows; it asks nothing of what the row said
when it was created. `AuthorizedByApproval` says what the code keeps of a promise it does
not keep in full (section 5): an approval is taken up only while APPROVED, so that no run
takes it up after it is marked; what moves under it later took it up before.

`DidAuthProofs`. `DidInv` says that what a handler read fits its write, that a verification
alone holds the challenge it consumed, and that a challenge which authenticated is held by
nobody. The second part is inductive because the consuming UPDATE asks for an open row;
the third because a verification ends when it succeeds. `VerificationJustified` needs in
addition that a handler past a check observed what the check asks for (`Observed`).
`ChallengesImplement` maps rows to tokens of `SingleUseToken`: the insert issues, the
UPDATE redeems, the time to live lapses, the verification spends.

`ReadModelProofs`, in two sections, since identities and audit rows are two parts of the
read model and share nothing.

1. `AdminInv`: a handler that passed the last-administrator check leaves another active
   administrator unless it was overtaken; hence `LastAdminLostOnlyToRace`. For a manager's
   assignUserRole the check is another one: he may touch plain users only. An administrator's
   has no check and is excepted (section 5).
2. `IndexerInv`: what the indexer takes for recorded has a row (`Remembered`), a scan that
   read the hashes, or the keys while the query's limit did not cut them, recognises every
   row (`RowsKnown`; `LeastOfTwo` is that a limit not reached returns all), and an indexed event in a scan's range is
   recorded or still pending (`Covered`). `Remembered` is why a skipped event needs no row of its own;
   it holds through failures because memory is only added to after the insert. `RangeComplete`
   is the lemma that `getEvents` leaves nothing out; it rests on the order of the log.

`AssetContentProofs`. `ContentInv` says, for each place of the gate, which facts the
handler has already seen, and that the relation it goes on with is the one of the row it
read. For uploads it says that each handler holds an object of its own, and a number that is taken or
the next: the unique index then refuses all but one of two that read the same number.

`CryptoAssuranceProofs`. Of the policy, for all circumstances: the advisory score only
raises, an unknown classification weighs as CRITICAL. `AssuranceInv` says what a row is like (`RowInv`: issued before consumed, consumed
before executed, spent as often as executed, hardened if its operation is mandated) and that each
handler carries a level the policy gave for its target (`Handler`). Hence
`GateGetsItsLevel`, although issue and gate score with different inputs:
`ChallengeLevelHardened` needs only the operation. `GrantsImplement` maps rows to
tokens of `SingleUseToken`, whose `TokenSpentOnce` becomes `GrantSpentOnce`. `SawInv`
follows a verification from await to await with what it has seen. `VerificationSawItsKeys`
is about public keys, while the code compares generations, so it needs `KeyInv` as well: the
row of a later generation never changes its public key (`LaterRowsKeepTheirKey`), so a
generation above 1 names one key for good. The row of generation 1 is overwritten
when a key is registered after a revocation; that is the exception the property states.

`SessionAccessProofs`. `ThrottleInv` counts the attempts that wait for their password
comparison as part of the bound while the window runs, and says that a full window
is blocked until it is over, so that nobody joins them; this is inductive and gives
`FailuresBounded` for any number of handlers (`FailuresAreBounded`). It needs a limit of at
least two: the failure that opens a window sets no block. `SessionInv` says that a handler past
a lookup saw it succeed while it held its token, hence `AdmittedSessionsWereLive`.

The assumptions are the modules' named ones: finite sets of accounts, signers and login
handlers, a throttle limit above one, distinct deployer and auditor, roles held by identities, proposals of known kinds,
blocks that are sequences of events, bounds that are numbers. TLC evaluates them in every run.

Only model-checked: `EventuallyRecorded`, since liveness under fairness and ENABLED are out
of the prover's reach, and the expected violation. Also out of its reach, and not needed here:
induction over data of what a recursive definition computes, and modules with RECURSIVE operators
(there are none). What a proof says of sequences and finite sets comes from the
library's facts on subsets and intervals; a highest element exists because strict inclusion of finite sets is well-founded
(`NewestIsOne`, `HighestIsOne`, `LastGeneration`).

## 5. Known divergences

Where the code departs from its own comments, met while modelling. The models follow
the code. Only the first is a run. Where a property of section 3 comes near one of the
others, it states what the code does keep and its comment names the exception.

1. Post-quantum rotation after a revocation re-activates an old public key
   (`pqc_registration`).
2. `SampraanAccessControl.sol:61`: "an account can never hold AUDITOR_ROLE together
   with any administrative role" (17-19). `grantRole` looks at the other roles only
   when AUDITOR_ROLE is granted: grant ADMIN to an auditor.
3. `SampraanAssetRegistry.sol:277`: a dispute holds the asset's transfer (475-476,
   505-506), and `assignAsset` moves it all the same.
4. `SampraanGovernance.sol:272`: `approve` accepts an id nobody has proposed; the
   approval counts for whatever is proposed under that id later, against 21-24.
5. `did-auth.service.ts:352`: two rotations both read generation N before their
   transactions and both write N+1, against 312-315.
6. `db.ts:518`: identity row and DID row are written in two statements, each with what
   the call was asked for; a reactivation and a revocation that overlap leave a
   REVOKED identity with an ACTIVE DID record, against 513-514.
7. `chain-event-indexer.ts:109`: after a downtime longer than the window the scan starts
   at the window's floor, above the checkpoint, against 99-102.
8. `governance.router.ts:804`, `854`: the updates of a transfer request are not guarded
   by the status that was read, so a late decision overwrites EXECUTED (the mint
   workflow's updates are guarded). `TransferNeedsThreeParties` holds nevertheless.
9. `governance.router.ts:970`: `resolveDispute` looks for the row by the chain's dispute
   id, which is not the row's id; the row stays OPEN and keeps refusing transfers.
10. `schema.ts:101`: `evidenceHash` is varchar(64), the hash the route stores (router
    932) is "0x" and 64 digits; the insert fails on strict MySQL. The model lets it
    succeed or fail.
11. `schema.ts:55` says a mint "mints+assigns atomically"; a mint whose receipt is lost
    is marked EXECUTED without activation and without a row (`executeError`).
12. `assurance.service.ts`: `findValidAssuranceGrant` asks whether a challenge was
    consumed, not whether its signatures verified; a challenge whose verification
    failed is a grant that can be claimed. The claim does not compare levels either: a
    pause that names a critical asset passes with a single signature. For this reason
    `GateGetsItsLevel` is about levels and not signatures, and leaves pauses out.
13. `governance.router.ts:104-105`: "a missing asset is treated as the worst case", but an
    id that names no row gives no classification at all.
14. `db.ts:1617`: `setPqcKeyStatus` revokes every row of the DID, rotated ones included.
15. `assurance-policy.ts`: an unknown risk label weighs as the worst and does not trigger
    the rule for CRITICAL risk.
16. `login-throttle.ts`: a failure that was in flight when the window ended starts a new
    window and with it drops a block that still ran.
17. `sdk.ts:166`: two logins of one user in one second get the same token; tracking
    the second un-revokes the session of the first.
18. Ownership presentations require the verifier to name the instant of issue, which the
    server takes itself; in practice none verifies.
19. `SampraanAccessControl.sol:21-22`: "the role set can never be orphaned". The inherited
    `renounceRole` lets the last holder go; and the last account may revoke itself while
    the governance contract is still counted, whose own role calls nobody can make it send
    (its dispatch of them reverts). `RevokeKeepsAnAdmin` excludes both.
20. `routers.ts:671`: `assets.create` writes the custodian the administrator names, and
    `anchorAsset` mints to the operator wallet (`anchoring.service.ts:193`), so a row can
    name somebody the chain never had. `AssetCustody` starts from either case.
21. `routers.ts:1238-1240`: a marked approval "can never authorize a second transfer". The
    mark (`db.ts:833`) is unguarded and follows the chain call: two runs may have taken the
    approval up; and when the receipt is lost or the mark fails, which is swallowed, it
    is still APPROVED.
22. `governance.router.ts:431-446`: `assignUserRole` replaces all roles by USER. Called by an
    administrator it asks nothing about administrators, and takes the last one's
    role with no race; suspension and `assignRolesAdmin` beside it refuse that (345, 473).
23. `assurance.service.ts:26-28`: "a revoked key can never clear an outstanding
    challenge", and revoking between issue and verification wins. The comparison is by
    key identifier, which is the generation, and generations restart after a revocation: a
    challenge of generation 1 is verified with whatever key is registered as generation 1
    since then. With divergence 1 an old key that is active again passes as well.
24. `db.ts:579`: the key query returns at most 5000 rows in no stated order. Beyond that, a
    restarted indexer whose hash query fails may insert a second row of an event, against
    `chain-event-indexer.ts:113-117` ("durable/idempotent across restarts").
25. `db.ts:847-852` says that number and row of a content version are one transaction; the
    number is read before, and the unique index is what keeps `VersionsGapless`.

## 6. Not modelled

Encoding, RPC, file and IPFS bytes, signature arithmetic, wording of audit rows, the
client, the generated subgraph code: I/O or presentation. `intelligence.service.ts`
and `trust-domain.service.ts` report over the audit log; `graph.service.ts` and
`provenance.service.ts` only read. Consents and presentations are single rows with one
guarded update each. DID document versions are modelled on the contract's side; the
recovery route is planned.

Known limits of what is modelled: the chain never rewinds; the server has its database (without one
`createAuditEvent` returns nothing, `db.ts:391`, and the indexer remembers a key that has no
row, `chain-event-indexer.ts:178-179`); one server process runs (the throttle and the Besu queue are per
process); `DidAuth` leaves out who may call, reads challenge, record and identity in one step
(`did-auth.service.ts:242-280`) and gives every challenge a key identifier (one without skips
the comparison, 258); `SessionAccess` leaves out cron sessions (`sdk.ts:313-320`) and
users without a linked identity; `lifecycle.requestDeactivation` (`governance.router.ts:406-428`)
forwards a proposal without the assurance gate and is left out of `CryptoAssurance`; step-up challenges are left out and their
answer changes at any moment (`AssetContent`, `AssetCustody`), where a step-up is one that was
tried, as `hasValidStepUp` reads it (`did-auth.service.ts:510-528`); the server modules
have the contract's behaviour for one asset and are not composed with the contract
modules; an executed proposal changes the chain only.

## 7. Plan

1. Transfer requests and key recovery as instances of `MakerChecker`, with their refinement proofs.
2. Step-up challenges and ownership presentations as further instances of `SingleUseToken`.
3. A composition of `SampraanGovernance` with the read model: what a burn or a forced
   transfer leaves behind in `assets` and `identities`.
4. A per-event coverage property for the indexer.
