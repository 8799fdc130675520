------------------------- MODULE ChainEventIndexer -------------------------
(***************************************************************************)
(* Projection of on-chain events into the audit read model:                *)
(* server/modules/blockchain/chain-event-indexer.ts, the queries of        *)
(* server/db.ts it uses, and the 30 s timer of server/_core/index.ts.  One *)
(* server process indexes; a timer tick during a scan does nothing.  The   *)
(* reads at the start of a scan see one state of the table, since nobody   *)
(* else writes chain rows, and the events up to the block read first.      *)
(***************************************************************************)
EXTENDS Naturals, Sequences, SequencesExt, FiniteSetsExt

CONSTANTS
    INDEXED_ACTIONS,    \* names of the events that are projected
    BlockShapes,        \* contents of a block: sequences of Emitted,
                        \* tx the place of the transaction in the block
    WindowBlocks,       \* lookback window of a scan
    QueryLimit,         \* rows the query of the event keys returns at most
    MaxBlocks,          \* bound: the chain's head
    MaxFailures         \* bound: crashes, failed queries and failed inserts

(* An event as a contract emits it: tokenId or wallet, if any, is its subject. *)
Emitted == [tx : Nat \ {0}, name : STRING, subject : STRING]

ASSUME IndexerAssumption ==
    /\ {WindowBlocks, QueryLimit, MaxBlocks, MaxFailures} \subseteq Nat
    /\ BlockShapes \subseteq Seq(Emitted)

VARIABLES
    head,               \* number of the newest block
    chainLog,           \* the events on the chain, oldest first
    rows,               \* audit_events with source CHAIN_READ_MODEL
    indexedEventKeys,   \* in-memory keys of this process
    indexing,           \* a scan is running
    scan,               \* what that scan has read, and the events still to do
    failures            \* failures so far

chainVars == <<head, chainLog>>
indexerVars == <<chainVars, rows, indexedEventKeys, indexing, scan, failures>>

(* The four queries a scan starts with; each has its own fallback. *)
Queries == {"checkpoint", "seed", "keys", "hashes"}

NoScan == [pending |-> << >>, fromBlock |-> 0, latestBlock |-> 0,
           persistedKeys |-> {}, legacyTxHashes |-> {}, answered |-> Queries]

IndexerInit ==
    /\ head = 0
    /\ chainLog = << >>
    /\ rows = << >>
    /\ indexedEventKeys = {}
    /\ indexing = FALSE
    /\ scan = NoScan
    /\ failures = 0

(* The dedup key: transaction, event name, and tokenId or wallet if any.   *)
eventKey(e) == <<e.tx, e.name, e.subject>>
project(e) == e.name \in INDEXED_ACTIONS

(* The query asks for no order: which rows it returns is left open.        *)
listIndexedChainEventKeys ==
    {{eventKey(rows[i]) : i \in I} : I \in kSubset(Min({QueryLimit, Len(rows)}), DOMAIN rows)}
listIndexedChainTxHashes == {r.tx : r \in ToSet(rows)}
getMaxIndexedChainBlock == Max({r.block : r \in ToSet(rows)})

(* Mutant: a scan starts behind the highest block that has a row. *)
fromBlockBehind(latest, checkpointKnown) ==
    LET windowFloor == IF latest > WindowBlocks THEN latest - WindowBlocks ELSE 0
    IN IF checkpointKnown /\ rows # << >>
         THEN Min({Max({windowFloor, getMaxIndexedChainBlock + 1}), latest})
         ELSE windowFloor

fromBlock(latest, checkpointKnown) ==
    LET windowFloor == IF latest > WindowBlocks THEN latest - WindowBlocks ELSE 0
    IN IF checkpointKnown /\ rows # << >>
         THEN Min({Max({windowFloor, getMaxIndexedChainBlock}), latest})
         ELSE windowFloor

(* The log is in block order: the events of a range are one piece of it.   *)
getEvents(from, to) ==
    LET before == Cardinality({i \in DOMAIN chainLog : chainLog[i].block < from})
        upTo == Cardinality({i \in DOMAIN chainLog : chainLog[i].block <= to})
    IN SubSeq(chainLog, before + 1, upTo)

(* The environment: a block with the events of its transactions. *)
mine(shape) ==
    /\ head < MaxBlocks
    /\ head' = head + 1
    /\ chainLog' = chainLog \o
         [j \in DOMAIN shape |->
            [block |-> head + 1, tx |-> <<head + 1, shape[j].tx>>, index |-> j,
             name |-> shape[j].name, subject |-> shape[j].subject]]
    /\ UNCHANGED <<rows, indexedEventKeys, indexing, scan, failures>>

seedKeys(answered) ==
    \E keys \in IF answered THEN listIndexedChainEventKeys ELSE {{}} :
        indexedEventKeys' = indexedEventKeys \cup keys

(* A tick: read the head, the checkpoint, the persisted keys (into memory  *)
(* and again for the scan), the events and the transaction hashes.         *)
startScan(answered) ==
    /\ ~indexing
    /\ answered = Queries \/ failures < MaxFailures
    /\ failures' = IF answered = Queries THEN failures ELSE failures + 1
    /\ indexing' = TRUE
    /\ seedKeys("seed" \in answered)
    /\ \E keys \in IF "keys" \in answered THEN listIndexedChainEventKeys ELSE {{}} :
          LET from == fromBlock(head, "checkpoint" \in answered)
          IN scan' = [pending |-> getEvents(from, head),
                      fromBlock |-> from,
                      latestBlock |-> head,
                      persistedKeys |-> keys,
                      legacyTxHashes |-> IF "hashes" \in answered
                                           THEN listIndexedChainTxHashes ELSE {},
                      answered |-> answered]
    /\ UNCHANGED <<chainVars, rows>>

(* getEvents throws, and the tick with it, after the memory was seeded.    *)
failScan(seeded) ==
    /\ ~indexing
    /\ failures < MaxFailures
    /\ failures' = failures + 1
    /\ seedKeys(seeded)
    /\ UNCHANGED <<chainVars, rows, indexing, scan>>

(* Mutant: only the keys of this process are looked at. *)
skippedByMemory(e) == eventKey(e) \in indexedEventKeys \/ ~project(e)

skipped(e) ==
    \/ eventKey(e) \in indexedEventKeys \cup scan.persistedKeys
    \/ ~project(e)
    \/ e.tx \in scan.legacyTxHashes

nextEvent == Head(scan.pending)

skipEvent ==
    /\ indexing /\ scan.pending # << >>
    /\ skipped(nextEvent)
    /\ scan' = [scan EXCEPT !.pending = Tail(@)]
    /\ UNCHANGED <<chainVars, rows, indexedEventKeys, indexing, failures>>

projectEvent ==
    /\ indexing /\ scan.pending # << >>
    /\ ~skipped(nextEvent)
    /\ rows' = Append(rows, nextEvent)
    /\ indexedEventKeys' = indexedEventKeys \cup {eventKey(nextEvent)}
    /\ scan' = [scan EXCEPT !.pending = Tail(@)]
    /\ UNCHANGED <<chainVars, indexing, failures>>

(* Mutant: the key is remembered although the insert failed. *)
failEventRemembered(stored) ==
    /\ indexing /\ scan.pending # << >>
    /\ ~skipped(nextEvent)
    /\ failures < MaxFailures
    /\ failures' = failures + 1
    /\ rows' = IF stored THEN Append(rows, nextEvent) ELSE rows
    /\ indexedEventKeys' = indexedEventKeys \cup {eventKey(nextEvent)}
    /\ indexing' = FALSE
    /\ scan' = NoScan
    /\ UNCHANGED chainVars

(* createAuditEvent throws, before or after its row is stored, and with it *)
(* the scan ends; the timer logs the error and the next tick starts over.  *)
failEvent(stored) ==
    /\ indexing /\ scan.pending # << >>
    /\ ~skipped(nextEvent)
    /\ failures < MaxFailures
    /\ failures' = failures + 1
    /\ rows' = IF stored THEN Append(rows, nextEvent) ELSE rows
    /\ indexing' = FALSE
    /\ scan' = NoScan
    /\ UNCHANGED <<chainVars, indexedEventKeys>>

finishScan ==
    /\ indexing /\ scan.pending = << >>
    /\ indexing' = FALSE
    /\ scan' = NoScan
    /\ UNCHANGED <<chainVars, rows, indexedEventKeys, failures>>

(* The process dies and starts again with an empty memory. *)
restart ==
    /\ failures < MaxFailures
    /\ failures' = failures + 1
    /\ indexedEventKeys' = {}
    /\ indexing' = FALSE
    /\ scan' = NoScan
    /\ UNCHANGED <<chainVars, rows>>

ScanStep == skipEvent \/ projectEvent \/ finishScan

IndexerNext ==
    \/ \E shape \in BlockShapes : mine(shape)
    \/ \E answered \in SUBSET Queries : startScan(answered)
    \/ ScanStep
    \/ \E seeded \in BOOLEAN : failScan(seeded)
    \/ \E stored \in BOOLEAN : failEvent(stored)
    \/ restart

(* The timer keeps ticking and a database call returns or throws. *)
Fairness == WF_indexerVars(startScan(Queries)) /\ WF_indexerVars(ScanStep)

IndexerSpec == IndexerInit /\ [][IndexerNext]_indexerVars /\ Fairness

ChainEvent == [block : 1 .. MaxBlocks, tx : (1 .. MaxBlocks) \X (Nat \ {0}),
               index : Nat \ {0}, name : STRING, subject : STRING]

IndexerTypeOK ==
    /\ head \in 0 .. MaxBlocks
    /\ chainLog \in Seq(ChainEvent)
    /\ ToSet(rows) \subseteq ToSet(chainLog)
    /\ indexedEventKeys \subseteq {eventKey(e) : e \in ToSet(chainLog)}
    /\ indexing \in BOOLEAN
    /\ ToSet(scan.pending) \subseteq ToSet(chainLog)
    /\ scan.fromBlock \in 0 .. scan.latestBlock /\ scan.latestBlock <= head
    /\ failures \in 0 .. MaxFailures

---------------------------------------------------------------------------
Recorded(tx) == \E r \in ToSet(rows) : r.tx = tx

(* A scan that reaches its end leaves a row for every transaction of its   *)
(* range that emitted an indexed event, whatever earlier scans, crashes    *)
(* and failed inserts left in the table and in memory.                     *)
ScanCoversItsRange ==
    indexing /\ scan.pending = << >> =>
        \A e \in ToSet(chainLog) :
            project(e) /\ scan.fromBlock <= e.block /\ e.block <= scan.latestBlock
              => Recorded(e.tx)

(* No event gets a second row, across scans and restarts, from a scan that *)
(* could read the transaction hashes of the rows there are, nor from one   *)
(* that could read their keys while the query returned all of them.        *)
NoDuplicateRows ==
    [][rows' # rows /\ Last(rows') \in ToSet(rows) =>
          /\ "hashes" \notin scan.answered
          /\ scan.answered \cap {"seed", "keys"} = {} \/ Len(rows) > QueryLimit]_indexerVars

(* The indexed events of a block are recorded in the end, each by a row of *)
(* its transaction, unless the chain runs further ahead than the lookback  *)
(* window first.                                                           *)
EventuallyRecorded ==
    \A b \in 1 .. MaxBlocks :
        head >= b ~> \/ head > b + WindowBlocks
                    \/ \A e \in ToSet(chainLog) : project(e) /\ e.block = b => Recorded(e.tx)

==========================================================================
