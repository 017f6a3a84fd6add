# Formal models of ipld-eth-server

This directory holds TLA+ models of the eth IPLD server (`src/`) and their
TLC configurations, with TLAPS proofs. Every definition is translated from the
Go source named in `PROJECT.json` under `"map"`. A few definitions model code
that is not in `src/`, and each of those is marked `spec_modelled`: the indexer
that fills the database, `canonical_header`, `canonical_header_hash` (the
header of greatest total difficulty at a height), `sendNonBlockingErr` and the
client reading its channel.

## 1. The system

The server answers Ethereum RPC, GraphQL and subscription requests from a
Postgres index of IPLD blocks. That index is written by an external indexer and
read here only. The parts:

| Part | Source | Kept state | Operations |
|---|---|---|---|
| Subscription engine, `serve.Service` | `src/unnamed/part_000` | `Subscriptions` (type → id → subscription); `SubscriptionTypes` (type → settings); `QuitChan`; one goroutine per backfill | `Serve`, `filterAndServe`, `Subscribe`, `sendHistoricalData` (and its goroutine), `Unsubscribe`, `Start`, `Stop`, `close`, `closeType` |
| CID retriever | `src/pkg/eth/cid_retriever.go` | none; SQL over the index | first and last block number, `Retrieve` with header/tx/receipt/state/storage filters, canonical header and tx lookups |
| IPLD retriever | `src/pkg/eth/ipld_retriever.go` | none; SQL over the index | header, uncle, tx and receipt reads; account and storage reads by hash and by number, with the deletion probe |
| GraphQL resolvers | `src/unnamed/part_001` | none | translate arguments and results |
| RPC endpoints, validate command, legacy btc retriever | `src/pkg/rpc`, `src/unnamed/part_002`, `src/cmd`, `src/unnamed/part_003` | none | start-up wiring |

**How the parts interact.**
- The indexer pushes converted payloads on a channel. `Serve` takes them one at a time.
- For each payload, `filterAndServe` runs under the service mutex. For each subscription type it closes the type (quit to every member, both map entries deleted) when:
  - its settings are missing;
  - its `End` lies below the payload's height;
  - or its filter fails.

  Otherwise it sends the filtered response to every member with a non-blocking send.
- `Subscribe` registers the client unless it asked for backfill only. It then starts `sendHistoricalData`, which:
  - reads the first and last block number from the CID retriever;
  - clamps them to the settings;
  - starts a goroutine that, for each block, checks `QuitChan`, calls `Retrieve`, fetches and sends;
  - finally sends the backfill-complete flag.
- `Stop` closes `QuitChan` and calls `close`.
- The RPC backend reads accounts and storage through the IPLD retriever. For a block hash, a read takes the newest canonical row at or below that height. A storage read then runs a deletion probe for a removed node at the slot's storage path.

**The hard behaviours the code meets:**
- The Serve goroutine, any number of backfill goroutines, client `Subscribe`/`Unsubscribe` calls and `Stop` run concurrently on one mutex. The backfill goroutines take no lock and check `QuitChan` before a send that happens later.
- Every send is non-blocking, so payloads are dropped when a buffer is full.
- Database and filter calls fail, and the backfill loop goes on past each failure.
- The index has forks: sibling headers at one height, and `canonical_header(height)` changes on a reorg. Slots are cleared, contracts destroyed, and the same storage path occurs in many contracts.

## 2. Modules

| Module | Models | State | Actions |
|---|---|---|---|
| `SubscriptionEngine` | `serve.Service` | the two maps (a type's bucket is a set of ids; an absent key is `{}`); `quitClosed`; `serving`; the payload channel `inbox`; the last indexed block `dbLast`; each subscription's settings, control point `phase`, backfill `i`/`endingBlock`, the cidWrappers of block `i` still to send `bfWrappers`; each subscriber buffer `chan`; the history `sent` of what was put on it; `quitSent`; `stops`; `crashed` (panic) | `Publish` (indexer), `ServePayload` (the whole `filterAndServe`), `ServeQuit`, `Subscribe`, `sendHistoricalData` (set-up, with its error path), `BackfillCheck` (loop head: complete flag / quit / go on), `BackfillFetch` (`Retrieve` for one block: error, empty, or a number of cidWrappers), `BackfillSend` (one cidWrapper: fetch error or send), `Unsubscribe`, `Stop` (with `close`), `Receive` (client) |
| `MCSubscriptionEngine` | TLC instance | two subscription ids, three settings (live with header filter; backfill with End = 2 and no header filter; backfill-only from 2), and the settings of the violation runs | |
| `SubscriptionEngineProofs` | TLAPS | | theorems of section 4 |
| `IPLDRetrieverProofs` | TLAPS | | theorems of section 4 |
| `CIDRetrieverProofs` | TLAPS | | theorems of section 4 |
| `IPLDRetriever` | account and storage reads of `IPLDRetriever` | `headers` (id = ⟨height, branch⟩ and parent); `canon` (what `canonical_header` returns per height); `stateRows`, `storageRows` (header, contract, slot, leaf or removed, value) | `IndexBlock` (the indexer writes a header and the rows of one change: an account update, a slot write, a slot cleared, a contract destroyed, which removes the account and every live slot); `Reorg`. The reads are operators over the index, one per Go method and per SQL string. |
| `MCIPLDRetriever` | TLC instance | contracts, slots, values, branches; `MCPath` gives slot `k1` the same storage path in every contract | |
| `CIDRetriever` | every query of `cid_retriever.go`, and the header, uncle, transaction and receipt reads of `ipld_retriever.go` | `headers` (id = ⟨height, branch⟩, parent, total difficulty `td`); `uncles`; `txRows` (header, tx hash, index); `logRows` (header, tx, index, address, topics); `stateRows`, `storageRows` (header, account, slot, leaf/branch/removed) | `IndexBlock` (the indexer writes one block: header, optional uncle, an ordered list of fresh transactions each with at most one log, and a set of state and storage nodes). Every query is an operator over these tables, one per Go method; an unordered `SELECT` whose first row is taken is a set of outcomes. |
| `MCCIDRetriever` | TLC instance | two transactions, two addresses, two topic values, three logs, five filters (`AllOn` with parts switched off, an address filter, a topic filter, `MatchTxs`) | |

**Data abstraction.**
- A payload is its block height.
- A subscription type is the settings record itself: the Keccak hash of its RLP is taken as injective.
- A message on a subscriber channel is its origin (live, backfill, complete or error) and its height.
- `Retrieve` is abstracted to its outcomes: data, nothing, or an error. With the header filter on, an indexed block always yields data.
- `Retrieve` returns one cidWrapper per header at the height. The backfill fetches and sends each one in turn, with no `QuitChan` check between them (`part_000:322-339`). The model keeps this loop (`BackfillSend`), with the number of wrappers up to `MaxWrappers`.
- In the retriever, an IPLD's bytes are the value their RLP decodes to. A removed node has empty data, which does not decode.
- The CID index numbers transactions, and their logs, from 0 within a block, as the indexer does.
- `ipld_retriever.go` joins rows to headers on `header_cids.id` and receipts to transactions on `transaction_cids.id`, the row ids of the schema it was written for. The models key rows by the header (and transaction) they belong to, which is what those joins select.

The control is kept: every guard, early return, error path and non-blocking drop, with one exception. The `rlp.EncodeToBytes` error branches of `filterAndServe` (`part_000:225-229`), `Subscribe` (`part_000:253-258`) and the backfill (`part_000:328-332`) are left out. They encode a struct of byte slices and integers, for which the encoder does not fail.

## 3. Runs

| Run | Config | Expect | Checks |
|---|---|---|---|
| engine_safety | `MCSubscriptionEngine.cfg` | pass (about 4.1M states, about 50 s) | `SettingsInSync`, `LiveWithinEnd`, `LiveOrdered` |
| engine_liveness | `MCSubscriptionEngineLive.cfg` | pass | `BackfillTerminates`, `EndedSubscriptionClosed` |
| stop_twice | `MCStopTwice.cfg` | violation | `StopIsIdempotent` |
| backfill_range | `MCBackfillRange.cfg` | violation | `BackfillWithinRange` |
| quit_then_live | `MCQuitThenLive.cfg` | violation | `NoDeliveryAfterQuit` |
| retriever_reads | `MCIPLDRetriever.cfg` | pass (about 90k states) | `NoStaleValue`, `AccountReadStable` |
| probe_unscoped | `MCProbeUnscoped.cfg` | violation | `StorageAtCorrect` |
| account_deleted | `MCAccountDeleted.cfg` | violation | `AccountAtCorrect` |
| number_noncanonical | `MCNumberNonCanonical.cfg` | violation | `NumberReadsCanonical` |
| cid_reads | `MCCIDRetriever.cfg` | pass (about 40k states, 20 s) | `LogFilterCorrect`, `NestedTxsLookup`, `StorageFilterCorrect` |
| rct_log_unscoped | `MCRctLogUnscoped.cfg` | violation | `RctFilterCorrect` |
| tx_lookup_head | `MCTxLookupHead.cfg` | violation | `TxLookupFollowsHead` |

**What the passing runs show.**
- The two maps of the Service stay in step. So the "configuration not available" branch is dead and no settings leak.
- A subscription with an `End` never receives a live block above it.
- Live blocks reach each subscriber strictly in increasing order.
- Every backfill goroutine ends, even when the database keeps failing.
- A subscription overtaken by its `End` is eventually dropped.
- In the retriever, a value that a by-hash read returns at a canonical block is never stale and never foreign. This holds across reorgs, siblings, cleared slots, destroyed contracts and a shared storage path.
- The account read by the hash of a canonical block keeps its answer while the block stays canonical. This is an action property. The storage read lacks it: TLC finds finding 4's probe turning the read at a canonical block to empty when a sibling block that clears the slot is indexed.
- The log reads (`RetrieveFilteredGQLLogs` by hash, `RetrieveFilteredLog` by hash and by number) return exactly the logs of that block that spec 4.1's address and positional topic filter selects, with siblings holding the same transaction.
- Every transaction of a header returned by `RetrieveHeaderAndTxCIDsByBlockNumber` is found again by `RetrieveTxCIDByHash` at that height, when that header is canonical (spec scenario 6).
- `Retrieve`'s storage filter returns exactly the storage nodes spec 4.1 selects, removed nodes of a destroyed contract included: the join with `state_cids` loses none because the indexer writes the contract's state node with its storage.

Each property of a passing run has a mutant (`PROJECT.json`, `"mutants"`) that TLC catches:
- `UnsubscribeKeepSettings`: settings never deleted.
- `filterAndServeNoEndCheck`: no `End` check on the live path.
- `ServePayloadConcurrent`: payloads served by `go filterAndServe`.
- `BackfillFetchRetry`: a block whose `Retrieve` failed is retried.
- `closeTypeKeepBucket`: the bucket kept after quit.
- `StorageInfoAnyHeader`: the storage query without its canonical condition.
- `AccountRowsAnyHeader`: the account query without its canonical condition.
- `LogOfReceiptByNumber`: logs joined to receipts on block number without header.
- `RetrieveTxCIDByHashAnyHeader`: the tx lookup without its canonical condition.
- `RetrieveStorageCIDsLeafState`: the storage join requiring a leaf state node.

**Findings** (violation runs; `PROJECT.json` `"findings"`):
1. `Stop` twice panics on `close(sap.QuitChan)` (`part_000:382`). Spec section 8 says stopping twice is safe.
2. `sendHistoricalData` clamps `endingBlock` to `End` only when `End > startingBlock` (`part_000:299`). So `Start = End` backfills to the last indexed block.
3. After a backfill set-up error, `Subscribe` sends quit but leaves the subscription registered (`part_000:273`). It then keeps receiving live payloads. The shortest trace TLC reports takes a second path to the same violation: `Stop` quits the subscription between `Subscribe` and the set-up, whose error report is then sent. The backfill goroutine has the same window between its `QuitChan` check and each send (`part_000:308`).
4. The deletion probe `wasNodeDeletedpgStr` (`ipld_retriever.go:158`) lists `eth.header_cids` without joining it. Any removal at the storage path, at any height and in any contract, together with any header after the leaf, masks the value. A slot cleared at block 3 reads as empty at block 2.
5. A destroyed account's newest row is a removed node. The by-hash read tries to RLP-decode it and fails, where spec 4.3 says the account is empty (`ipld_retriever.go:398`).
6. Account and storage reads by number have no canonical condition. With siblings at the newest height they may answer a non-canonical value (`ipld_retriever.go:114`).
7. `receiptFilterConditions`' log subquery `SELECT rct_id FROM eth.log_cids WHERE ...` has no header condition (`cid_retriever.go:317`). A receipt of block b1 passes an address filter because the same transaction's log in sibling b2 matches it, and a subscriber is sent a receipt none of whose logs match.
8. `RetrieveTxCIDByHash` keeps rows whose header is `canonical_header_hash` of their own height (`cid_retriever.go:764`). The heaviest header per height need not form a chain. The trace: header ⟨1, b1⟩ (td 1) with no transaction; header ⟨2, b1⟩, child of ⟨1, b1⟩ (td 3), holding t1; then sibling ⟨1, b2⟩ (td 2), also holding t1. Height 1's canonical header is now ⟨1, b2⟩, off the head's chain, and height 2's is ⟨2, b1⟩. Both rows of t1 pass the canonical condition, so a transaction of the head's chain is reported in multiple canonical blocks, against the comment that a transaction is in only one. No two headers at a height share a total difficulty in this trace.

`RetrieveBlockByNumber` composes the block of `headerCID[0]` of an unordered `SELECT` (`cid_retriever.go:633`), the same pick as finding 6: it is modelled (every sibling's block is a possible outcome) and listed as a hazard, without a run of its own.

Observed and modelled but not run: `RetrieveReceiptByTxHashPgStr` (`ipld_retriever.go:98`) lists `eth.receipt_cids` twice and names `blocks` without listing it, so `RetrieveReceiptByHash` always fails with an SQL error (spec section 9 leaves it open). `Retrieve`'s results are unnamed, so the error of `tx.Commit()` in its deferred function is lost (`cid_retriever.go:147`).

**Bounds.** For the engine:
- `MaxBlock = 3` and `InboxCap = 2`: a payload can wait while another is served, and `End = 2` is overtaken by block 3.
- `ChanCap = 1`: the buffer fills after one message, so drops happen.
- `MaxStops = 2` in the safety run, so the second `Stop` (the crash) is reachable; `MaxStops = 1` in `quit_then_live`, so `Stop` can fall between a subscription's registration and a backfill send.
- `MaxWrappers = 2` (two sibling headers at a height) in the liveness and violation runs. The safety run uses 1: its properties are about live payloads, which the wrapper loop does not send, and two wrappers multiply its state space past reach.
- Two subscribers, so an Unsubscribe can leave a bucket non-empty.
- The safety run uses symmetry on the two interchangeable subscription ids.
- The liveness run uses one subscriber and no symmetry.

For the retriever:
- Two heights and two branches give siblings and reorgs.
- Four headers allow write / clear / read sequences on one chain.
- Two contracts share a storage path.

For the CID retriever:
- Two heights, two branches and total difficulties {1, 2} give siblings with and without a canonical winner, and a heavier child on the lighter branch.
- Two transactions, at most one per block, either in either block, so a transaction occurs in siblings and on two heights; the indexer never puts a transaction twice on one chain (a nonce).
- Three logs over two addresses and two topic positions: a log matching the address but not the topic, and one matching neither.
- Each block writes no nodes, contract a1's leaf with a branch and its slot's storage branch and leaf, or the removed nodes of a1 destroyed.
- The tie-free premise `NoTies` in the violation properties keeps total-difficulty ties (where `canonical_header_hash` is itself arbitrary) out of the findings.

`CHECK_DEADLOCK FALSE` is set because every run is bounded: the indexer stops at its bound, so a final state without successors is expected.

**Fairness.** `Spec` assumes weak fairness of these actions:
- `ServePayload` and `ServeQuit`, the Serve goroutine;
- per subscription, `sendHistoricalData`, `BackfillCheck`, `BackfillFetch` and `BackfillSend`, the Subscribe call and the backfill goroutine.

The Go runtime schedules every runnable goroutine eventually, and the mutex is held only for bounded work. Clients, the indexer and `Stop` get no fairness: they owe nothing.

## 4. What is proved

Three modules hold the proofs: `SubscriptionEngineProofs`, `IPLDRetrieverProofs` and `CIDRetrieverProofs`. Each EXTENDS its component and `TLAPS`. Every invariant that a passing run checks has a theorem `Spec => []P` for every value of the constants that satisfies the component's `ASSUME`s. So does the one action property, `AccountReadStable`. For each invariant that is not inductive, TLC checked the strengthening `IInv` on the run's own instance before it was proved.

**Subscription engine** (`ConstantsAssumption`, `ParamsAssumption`):
- `TypeCorrect`: `Spec => []TypeOK`, with every subscriber buffer at most `ChanCap` long and a subscription in the `send` phase with at least one wrapper left. `TypeOK` is inductive by itself. The proof has one step per action and per branch of `Stop`, `sendHistoricalData`, `BackfillFetch` and `BackfillSend`. Lemma `TrySendType` says a non-blocking send keeps the buffers typed and bounded. No run checks `TypeOK`: it is the typing fact the other proofs rest on.
- `SettingsInSyncInvariant`: `Spec => []SettingsInSync`, with inductive invariant `TypeOK /\ SettingsInSync`.
  - Lemma `CloseTypeInSync`: `closeType` on live types removes the same keys from both maps. It covers `filterAndServe` and `close`.
  - `Subscribe` and `Unsubscribe` are proved directly.
- `LiveWithinEndInvariant`: `Spec => []LiveWithinEnd`. The inductive invariant is `LiveInv == TypeOK /\ MemberSettings /\ LiveWithinEnd`: every member of the bucket of type `ty` has settings `ty`.
  - `filterAndServe` sends only to buckets outside `closing`, whose `End` is 0 or at least the payload's height (lemma `TrySendLiveWithinEnd`, on `LiveBoundAppend` about `Append`).
  - `Subscribe` adds `id` only to the bucket of `settings[id]`.
  - `closeType` and `Unsubscribe` only shrink buckets (`ShrinkMemberSettings`).
  - The backfill's sends are never live.
- `LiveOrderedInvariant`: `Spec => []LiveOrdered`. `LiveOrdered` speaks only of the histories, but the next live message comes from the indexer's channel. So `OrderInv` adds four facts:
  - `InboxIncreasing`: the channel holds increasing block numbers.
  - `InboxIndexed`: every one of them is indexed.
  - `LiveBelowInbox`: every live message already sent lies below every waiting number.
  - `LiveIndexed`: every live message sent is indexed.

  How the steps keep it:
  - `Publish` appends `dbLast + 1`, above everything (`PublishOrder`).
  - `ServePayload` sends the head of the channel (`ServePayloadOrder`). The head lies above every live message sent and below the rest of the channel.
  - The backfill steps add no live message (`BackfillNoLive`, `NoLiveStep`).
  - The lemmas `AppendLiveOrdered`, `AppendLiveBelow` and `LiveBelowMono` state what `Append` does to a history.

**IPLD retriever** (`RetrieverAssumption`; `ValuesAssumption`: a decoded value is never one of the empty, not-found or decode-error answers; `BranchesAssumption`: a block hash is never the no-row answer of `canonical_header`):
- `IInvInvariant`: `IInv == TypeOK /\ ParentIndexed /\ StorageRowUnique` holds in every state.
  - `ParentIndexed`: a header above height 1 has its parent in the index. The indexer writes a parent before its children.
  - `StorageRowUnique`: one storage row per header, contract and slot.
- `NoStaleValueInvariant`: `Spec => []NoStaleValue`. The argument:
  - `PathDownAll`/`ChainComplete`: the chain of an indexed header holds a header at every height up to its own. This is an induction over heights, done with `WFMin` of `WellFoundedInduction`, since no installed prover instantiates an induction rule.
  - `CanonicalIsChain`: on a canonical chain, an indexed header is on the chain exactly when it is canonical and not above the block. So the account query's rows are the reference rows.
  - `NewestFacts`: `Newest` picks a row of greatest height.
  - `StorageNotStale`: the storage query's rows are the reference rows, less the removed rows when those carry no key. If the newest reference row is not the query's newest, it is a removed row above it, and the deletion probe finds it and answers empty. Otherwise both are the one canonical row at that height (`StorageRowUnique`).
  - The proof needs `ChainOf` written as a set of headers linked by a path of parents, not as a recursive function. TLC computes the same set: the four runs of the module give the same results as before.
- `AccountReadStableHolds`: `Spec => AccountReadStable`, from `IInv`. A block on the canonical chain has a canonical header at every height up to its own (`CanonBelow`). So a header the indexer writes at or below it is not canonical. A reorg at or below it takes the block off the canonical chain. Neither changes the account query's rows (`AccountRowsStable`).

**CID retriever** (`CIDRetrieverAssumption`, including `Filters \subseteq Settings`; `StorageWithAccountAssumption`: the statediff writes a contract's state node with every storage node of it):
- `IInvInvariant` for `IInv == TypeOK /\ LogsHaveTx /\ StorageHasState /\ TxUnique`:
  - `LogsHaveTx`: every log row has its transaction row.
  - `StorageHasState`: every storage row has the state row of its account in the same block.
  - `TxUnique`: transaction rows are unique per block and index.
- `LogFilterCorrectInvariant`, `NestedTxsLookupInvariant` (`TxUnique`) and `StorageFilterCorrectInvariant` (`StorageHasState`: lemma `StorageJoinLosesNone`) follow from it.

**Left to TLC**, because TLAPS cannot reach it or does not prove it here:
- the liveness properties `BackfillTerminates` and `EndedSubscriptionClosed`. They rest on fairness and `ENABLED`, which the installed provers do not handle.
- the violation runs' properties, which are false of the code.
- induction over data. The library's induction rules take an operator parameter, which no installed prover instantiates. So the proved modules have no `RECURSIVE` operator, and the one induction needed (`PathDownAll`, over heights) goes through `WFMin`.

## 5. Plan for the rest

1. Extend `IPLDRetriever`: by-hash reads of non-canonical headers (spec 7, canonicity isolation), and the GraphQL storage resolver's `ErrNoRows` handling.
2. Compose `CIDRetriever` with `SubscriptionEngine`: the engine's `Retrieve` outcomes taken from the CID model instead of an abstract choice.
3. Proofs: a refinement of the engine onto an abstract subscription service (register, deliver in order, quit).

## 6. Not modelled
- The RPC/HTTP/IPC wiring, the validate command, the legacy btc retriever and the GraphQL translation: I/O with no state of its own (`PROJECT.json`, `"components"`).
- `Start`: it starts `Serve` on a channel nobody can write to.
- The nil `serveWg` when `Subscribe` precedes `Serve`: a Go pointer fault. Both are listed as hazards.
- The `MatchTxs` case of `receiptFilterConditions` with no address, no topic and no matched transaction adds no condition, so every receipt passes. Spec 4.1 does not say otherwise, so no property calls it wrong; it is modelled as the code does it.
- `pkg/eth/helpers.go` (`ResolveToNodeType`): a pure mapping of integers to names.
