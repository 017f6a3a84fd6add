----------------------------- MODULE CIDRetriever -----------------------------
(***************************************************************************)
(* The reads of eth.CIDRetriever (src/pkg/eth/cid_retriever.go) and the    *)
(* block reads of eth.IPLDRetriever (src/pkg/eth/ipld_retriever.go) over   *)
(* an index that an external indexer fills block by block, forks included. *)
(*                                                                         *)
(* A header is identified by <<height, branch>>, which stands for its      *)
(* block_hash; it carries its parent and its total difficulty td, and      *)
(* canonical_header_hash(height) is the header of greatest td there.  A    *)
(* transaction row is a header, a tx hash and an index; a tx hash fixes    *)
(* src and dst (TxSrc, TxDst), while the logs of a transaction come from   *)
(* its execution and so may differ between the sibling blocks holding it.  *)
(* Every transaction row has its receipt.  A query is an operator over the *)
(* index, one per Go method or SQL string; its result is the set of rows   *)
(* it selects (ORDER BY index is kept by the idx field), or the set of its *)
(* possible outcomes where SQL leaves the choice open.                     *)
(***************************************************************************)
EXTENDS Integers, FiniteSets

CONSTANTS
    Txs,            \* transaction hashes (model values)
    Addrs,          \* account addresses: src, dst, log address, state key
    TopicVals,      \* log topic values
    Positions,      \* topic positions a log carries and a filter may name
    Slots,          \* storage slots
    Branches,       \* names telling apart sibling headers at one height
    Diffs,          \* the difficulties a block may have
    TxSrc, TxDst,   \* [Txs -> Addrs]: sender and recipient of a tx hash
    MaxHeight,      \* bound: highest block the indexer writes
    MaxHeaders,     \* bound: number of headers the indexer writes
    MaxTxs,         \* bound: transactions in one block
    UncleChoices,   \* whether a block may carry an uncle: a subset of BOOLEAN
    NodeChoices,    \* the state and storage nodes one block may write
    Logs,           \* the logs a transaction's execution may emit
    Filters         \* the SubscriptionSettings the properties are asked for

(* Sentinels: no parent, no hash or number argument (a nil *common.Hash or *)
(* *big.Int), the empty leaf key of a branch node, and the errors.         *)
NoKey == "noKey"
NoHash == <<0, NoKey>>
NoNumber == -1
NoErr == "ok"
ErrNoRows == "sql: no rows in result set"
ErrNoHeaders == "no header CIDs found at block"
errHeaderHashNotFound == "header hash not found"
errMultipleHeadersForHash == "multiple headers found for hash"
errTxHashNotFound == "tx hash not found"
errTxHashInMultipleBlocks == "tx hash in multiple canonical blocks"
ErrSQL == "sql error"
DbError == "db error"

Heights == 1..MaxHeight
HdrIds == Heights \X Branches
Kinds == {"branch", "leaf", "removed"}      \* node_type 0, 2 and 3

(* The transaction row an error result carries. *)
NoRow == [h |-> NoHash, tx |-> NoKey, idx |-> 0]

(* A log is its address and its topics; a transaction has at most one.    *)
LogSets == {{}} \cup {{c} : c \in Logs}

StateNodes == [acct: Addrs \cup {NoKey}, kind: Kinds]
StorageNodes == [acct: Addrs, slot: Slots \cup {NoKey}, kind: Kinds]

(* SubscriptionSettings: the header, transaction, receipt, state and      *)
(* storage filters, flattened into one record.                             *)
Settings ==
    [headerOff: BOOLEAN, uncles: BOOLEAN,
     txOff: BOOLEAN, dst: SUBSET Addrs, src: SUBSET Addrs,
     rctOff: BOOLEAN, logAddrs: SUBSET Addrs, topics: [Positions -> SUBSET TopicVals],
     matchTxs: BOOLEAN,
     stateOff: BOOLEAN, stateAddrs: SUBSET Addrs, stateInter: BOOLEAN,
     storageOff: BOOLEAN, storageAddrs: SUBSET Addrs, storageKeys: SUBSET Slots,
     storageInter: BOOLEAN]

ASSUME CIDRetrieverAssumption ==
    /\ MaxHeight \in Nat \ {0}
    /\ MaxHeaders \in Nat
    /\ MaxTxs \in Nat
    /\ Diffs \subseteq Nat \ {0}
    /\ TxSrc \in [Txs -> Addrs] /\ TxDst \in [Txs -> Addrs]
    /\ UncleChoices \subseteq BOOLEAN
    /\ Logs \subseteq [addr: Addrs, topics: [Positions -> TopicVals]]
    /\ NodeChoices \subseteq [state: SUBSET StateNodes, storage: SUBSET StorageNodes]
    /\ Filters \subseteq Settings

(* A statediff changes a contract's storage only together with its account *)
(* (its storage root): every storage node a block writes comes with a      *)
(* state node of that contract.                                            *)
ASSUME StorageWithAccountAssumption ==
    \A nc \in NodeChoices : \A s \in nc.storage : \E st \in nc.state : st.acct = s.acct

VARIABLES
    headers,      \* eth.header_cids: set of [id, parent, td]
    uncles,       \* eth.uncle_cids: the headers holding an uncle
    txRows,       \* eth.transaction_cids (with its receipt_cids row)
    logRows,      \* eth.log_cids
    stateRows,    \* eth.state_cids
    storageRows   \* eth.storage_cids

vars == <<headers, uncles, txRows, logRows, stateRows, storageRows>>

-----------------------------------------------------------------------------
(* The index. *)

Ids == {hd.id : hd \in headers}
AtHeight(n) == {hd \in headers : hd.id[1] = n}
TdOf(id) == (CHOOSE hd \in headers : hd.id = id).td

(* The headers from id back to height 1, following parent_hash.           *)
ChainOf(id) ==
    LET up[k \in 0..(id[1] - 1)] ==
            IF k = 0 THEN id ELSE (CHOOSE hd \in headers : hd.id = up[k - 1]).parent
    IN  {up[k] : k \in 0..(id[1] - 1)}

(* receipt_cids: one receipt per transaction row, keyed by tx_id = tx_hash *)
(* and by the header of the transaction.                                   *)
Rcts == {[h |-> t.h, tx |-> t.tx] : t \in txRows}

(* canonical_header_hash(block_number): the header of greatest td at that  *)
(* height; NoHash where none is indexed.                                   *)
CanonicalHeaderHash(n) ==
    IF AtHeight(n) = {} THEN NoHash
    ELSE (CHOOSE hd \in AtHeight(n) : \A o \in AtHeight(n) : o.td <= hd.td).id

-----------------------------------------------------------------------------
(* cid_retriever.go *)

(* RetrieveFirstBlockNumber / RetrieveLastBlockNumber: ORDER BY block_number *)
(* ASC / DESC LIMIT 1 with Get, so sql.ErrNoRows on an empty index.        *)
RetrieveFirstBlockNumber ==
    IF headers = {} THEN ErrNoRows
    ELSE CHOOSE n \in Heights : AtHeight(n) # {} /\ \A m \in 1..(n - 1) : AtHeight(m) = {}
RetrieveLastBlockNumber ==
    IF headers = {} THEN ErrNoRows
    ELSE CHOOSE n \in Heights : AtHeight(n) # {} /\ \A m \in (n + 1)..MaxHeight : AtHeight(m) = {}

(* RetrieveHeaderCIDs: every header at the height, siblings included.      *)
RetrieveHeaderCIDs(n) == {hd.id : hd \in AtHeight(n)}

(* RetrieveUncleCIDsByHeaderID: the uncle rows whose header_id is h.  A    *)
(* block carries at most one uncle here, named by the header holding it.  *)
RetrieveUncleCIDsByHeaderID(h) == {u \in uncles : u = h}

(* RetrieveTxCIDs: the rows of header h, each of dst and src restricting   *)
(* only when its list is not empty.                                        *)
RetrieveTxCIDs(f, h) ==
    {t \in txRows : /\ t.h = h
                    /\ f.dst = {} \/ TxDst[t.tx] \in f.dst
                    /\ f.src = {} \/ TxSrc[t.tx] \in f.src}

(* hasTopics: some topic position carries a non-empty set.                 *)
hasTopics(topics) == \E i \in Positions : topics[i] # {}

(* topicFilterCondition: one conjunct topic_i = ANY(set) per non-empty     *)
(* position, the empty positions skipped.                                  *)
topicFilterCondition(topics, l) ==
    \A i \in Positions : topics[i] # {} => l.topics[i] \in topics[i]

(* logFilterCondition: the address list, then the topics when any.         *)
logFilterCondition(f, l) ==
    /\ f.logAddrs # {} => l.addr \in f.logAddrs
    /\ hasTopics(f.topics) => topicFilterCondition(f.topics, l)

(* The subquery SELECT rct_id FROM eth.log_cids WHERE ...: not restricted  *)
(* to any header, so it yields the tx hashes of matching logs anywhere.    *)
LogMatchedTxs(f) == {l.tx : l \in {l \in logRows : logFilterCondition(f, l)}}

(* receiptFilterConditions: with an address or topic list, the receipt     *)
(* passes when its tx_id is among the log subquery's or, with MatchTxs and *)
(* tx hashes, among those; with neither list, MatchTxs and tx hashes       *)
(* restrict to them, and otherwise no condition is added.                  *)
receiptFilterConditions(f, txHashes, r) ==
    LET byTx == f.matchTxs /\ txHashes # {}
    IN  IF f.logAddrs # {} \/ hasTopics(f.topics)
        THEN r.tx \in LogMatchedTxs(f) \/ (byTx /\ r.tx \in txHashes)
        ELSE byTx => r.tx \in txHashes

(* RetrieveRctCIDs: receipts joined to their transaction and header, the   *)
(* height when bn > 0, the header when hash is given, then the filter.     *)
RetrieveRctCIDs(f, bn, hash, txHashes) ==
    {r \in Rcts : /\ bn > 0 => r.h[1] = bn
                  /\ hash # NoHash => r.h = hash
                  /\ receiptFilterConditions(f, txHashes, r)}

(* Variant for mutation testing: the join on block_number without         *)
(* header_id.                                                              *)
LogOfReceiptByNumber(l, r) == l.tx = r.tx /\ l.h[1] = r.h[1]

(* The join of log_cids with receipt_cids: rct_id = tx_id on the same      *)
(* header_id and block_number.                                             *)
LogOfReceipt(l, r) == l.tx = r.tx /\ l.h = r.h

(* RetrieveFilteredGQLLogs: the logs of the receipts of header hash (and   *)
(* height bn when given) that pass logFilterCondition.                     *)
RetrieveFilteredGQLLogs(f, hash, bn) ==
    {l \in logRows : /\ \E r \in Rcts : /\ LogOfReceipt(l, r)
                                        /\ r.h = hash
                                        /\ bn # NoNumber => r.h[1] = bn
                     /\ logFilterCondition(f, l)}

(* RetrieveFilteredLog: logs joined to receipt, transaction and header,    *)
(* the height when bn > 0, the header when hash is given.                  *)
RetrieveFilteredLog(f, bn, hash) ==
    {l \in logRows : /\ \E t \in txRows : /\ t.tx = l.tx /\ t.h = l.h
                                          /\ bn > 0 => t.h[1] = bn
                                          /\ hash # NoHash => t.h = hash
                     /\ logFilterCondition(f, l)}

(* RetrieveStateCIDs: the state nodes of header h, keyed by an address of  *)
(* the list when there is one, leaves only unless IntermediateNodes.       *)
RetrieveStateCIDs(f, h) ==
    {s \in stateRows : /\ s.h = h
                       /\ f.stateAddrs # {} => s.acct \in f.stateAddrs
                       /\ ~f.stateInter => s.kind = "leaf"}

(* Variant for mutation testing: node_type = 2 put on state_cids too.     *)
RetrieveStorageCIDsLeafState(f, h) ==
    {s \in storageRows :
        /\ s.h = h
        /\ \E st \in stateRows : st.h = h /\ st.acct = s.acct /\ st.kind = "leaf"
        /\ f.storageAddrs # {} => s.acct \in f.storageAddrs
        /\ f.storageKeys # {} => s.slot \in f.storageKeys
        /\ ~f.storageInter => s.kind = "leaf"}

(* RetrieveStorageCIDs: storage nodes joined to the state node on the same *)
(* header and state_path (the contract's leaf), which gives the            *)
(* state_leaf_key the address list is checked against.                     *)
RetrieveStorageCIDs(f, h) ==
    {s \in storageRows :
        /\ s.h = h
        /\ \E st \in stateRows : st.h = h /\ st.acct = s.acct
        /\ f.storageAddrs # {} => s.acct \in f.storageAddrs
        /\ f.storageKeys # {} => s.slot \in f.storageKeys
        /\ ~f.storageInter => s.kind = "leaf"}

(* Retrieve: one CIDWrapper per header at the height.  A part is fetched   *)
(* unless its filter is Off; receipts are matched against the hashes of    *)
(* the transactions just fetched; empty stays TRUE until a header or a     *)
(* non-empty part is added.  Any query may fail, and then Retrieve returns *)
(* (nil, true, err) and rolls back.                                        *)
CIDWrapper(F, h) ==
    LET txs == IF F.txOff THEN {} ELSE RetrieveTxCIDs(F, h)
    IN  [h |-> h,
         header |-> ~F.headerOff,
         uncles |-> IF ~F.headerOff /\ F.uncles
                    THEN RetrieveUncleCIDsByHeaderID(h) ELSE {},
         txs |-> txs,
         rcts |-> IF F.rctOff THEN {}
                  ELSE RetrieveRctCIDs(F, 0, h, {t.tx : t \in txs}),
         state |-> IF F.stateOff THEN {} ELSE RetrieveStateCIDs(F, h),
         storage |-> IF F.storageOff THEN {} ELSE RetrieveStorageCIDs(F, h)]

Retrieve(F, n) ==
    LET cws == {CIDWrapper(F, h) : h \in RetrieveHeaderCIDs(n)}
        empty == \A w \in cws : /\ ~w.header /\ w.txs = {} /\ w.rcts = {}
                                /\ w.state = {} /\ w.storage = {}
    IN  {[err |-> FALSE, cws |-> cws, empty |-> empty],
         [err |-> TRUE, cws |-> {}, empty |-> TRUE]}

(* RetrieveTxCIDsByHeaderID: the transactions of header h at height bn.    *)
RetrieveTxCIDsByHeaderID(h, bn) == {t \in txRows : t.h = h /\ t.h[1] = bn}

(* RetrieveReceiptCIDsByByHeaderIDAndTxIDs: receipts whose tx_id is among  *)
(* txHashes, joined to their transaction on header_id and block_number,    *)
(* that transaction being of header h at height bn.                        *)
RetrieveReceiptCIDsByByHeaderIDAndTxIDs(h, txHashes, bn) ==
    {r \in Rcts : /\ r.tx \in txHashes
                  /\ \E t \in txRows : /\ t.tx = r.tx /\ t.h = r.h
                                       /\ t.h = h /\ t.h[1] = bn}

(* The block RetrieveBlockByHash and RetrieveBlockByNumber compose for     *)
(* header h: its uncles, its transactions, their receipts.                 *)
BlockOf(h) ==
    LET txs == RetrieveTxCIDsByHeaderID(h, h[1])
    IN  [err |-> NoErr, header |-> h, uncles |-> RetrieveUncleCIDsByHeaderID(h),
         txs |-> txs,
         rcts |-> RetrieveReceiptCIDsByByHeaderIDAndTxIDs(h, {t.tx : t \in txs}, h[1])]

BlockErr(e) == [err |-> e, header |-> NoHash, uncles |-> {}, txs |-> {}, rcts |-> {}]

(* RetrieveHeaderCIDByHash: Get on block_hash, sql.ErrNoRows when absent.  *)
RetrieveHeaderCIDByHash(hash) ==
    IF hash \in Ids THEN [err |-> NoErr, h |-> hash] ELSE [err |-> ErrNoRows, h |-> NoHash]

(* RetrieveBlockByHash: the header by hash, then the parts of its block;   *)
(* any query may fail.                                                     *)
RetrieveBlockByHash(hash) ==
    {BlockErr(DbError)}
    \cup IF RetrieveHeaderCIDByHash(hash).err = ErrNoRows THEN {BlockErr(ErrNoRows)}
         ELSE {BlockOf(hash)}

(* RetrieveBlockByNumber: the headers at the height, an error when there   *)
(* is none, else the block of headerCID[0]: the SELECT has no ORDER BY, so *)
(* any of the siblings.                                                    *)
RetrieveBlockByNumber(n) ==
    {BlockErr(DbError)}
    \cup IF RetrieveHeaderCIDs(n) = {} THEN {BlockErr(ErrNoHeaders)}
         ELSE {BlockOf(h) : h \in RetrieveHeaderCIDs(n)}

(* The gorm record of a header with its preloaded TransactionCIDs (foreign *)
(* key HeaderID, BlockNumber).                                             *)
HeaderCIDRecord(h) == [err |-> NoErr, header |-> h, txs |-> {t \in txRows : t.h = h}]
HeaderCIDErr(e) == [err |-> e, header |-> NoHash, txs |-> {}]

(* RetrieveHeaderAndTxCIDsByBlockNumber: every header at the height.       *)
RetrieveHeaderAndTxCIDsByBlockNumber(n) ==
    {HeaderCIDRecord(h) : h \in RetrieveHeaderCIDs(n)}

(* RetrieveHeaderAndTxCIDsByBlockHash: the headers of that hash (and       *)
(* height, when given); none and several are errors.                       *)
RetrieveHeaderAndTxCIDsByBlockHash(hash, bn) ==
    LET hs == {h \in Ids : h = hash /\ (bn # NoNumber => h[1] = bn)}
    IN  IF hs = {} THEN HeaderCIDErr(errHeaderHashNotFound)
        ELSE IF Cardinality(hs) > 1 THEN HeaderCIDErr(errMultipleHeadersForHash)
        ELSE HeaderCIDRecord(CHOOSE h \in hs : TRUE)

(* Variant for mutation testing: the canonical_header_hash condition      *)
(* left out.                                                               *)
RetrieveTxCIDByHashAnyHeader(tx, bn) ==
    LET rows == {t \in txRows : t.tx = tx /\ (bn # NoNumber => t.h[1] = bn)}
    IN  IF rows = {} THEN [err |-> errTxHashNotFound, row |-> NoRow]
        ELSE IF Cardinality(rows) > 1 THEN [err |-> errTxHashInMultipleBlocks, row |-> NoRow]
        ELSE [err |-> NoErr, row |-> CHOOSE t \in rows : TRUE]

(* RetrieveTxCIDByHash: the rows of the tx hash whose header is            *)
(* canonical_header_hash of their own block_number (and at height bn when  *)
(* given); none and several are errors.                                    *)
RetrieveTxCIDByHash(tx, bn) ==
    LET rows == {t \in txRows : /\ t.tx = tx
                                /\ t.h = CanonicalHeaderHash(t.h[1])
                                /\ bn # NoNumber => t.h[1] = bn}
    IN  IF rows = {} THEN [err |-> errTxHashNotFound, row |-> NoRow]
        ELSE IF Cardinality(rows) > 1 THEN [err |-> errTxHashInMultipleBlocks, row |-> NoRow]
        ELSE [err |-> NoErr, row |-> CHOOSE t \in rows : TRUE]

-----------------------------------------------------------------------------
(* ipld_retriever.go: the IPLD reads of headers, uncles, transactions and  *)
(* receipts.  A result is the set of rows whose cid and data it returns.   *)

RetrieveHeadersByHashes(hs) == Ids \cap hs
RetrieveHeadersByBlockNumber(n) == RetrieveHeaderCIDs(n)
RetrieveHeaderByHash(hash) == RetrieveHeaderCIDByHash(hash)

RetrieveUnclesByHashes(us) == uncles \cap us
RetrieveUnclesByBlockNumber(n) == {u \in uncles : u[1] = n}
RetrieveUncleByHash(u) ==
    IF u \in uncles THEN [err |-> NoErr, h |-> u] ELSE [err |-> ErrNoRows, h |-> NoHash]

RetrieveTransactionsByHashes(ts) == {t \in txRows : t.tx \in ts}
RetrieveTransactionsByBlockNumber(n) == {t \in txRows : t.h[1] = n}

(* RetrieveTransactionByTxHash: Get takes the first row of an unordered    *)
(* SELECT, so any copy of the transaction.                                 *)
RetrieveTransactionByTxHash(tx) ==
    IF \E t \in txRows : t.tx = tx THEN {[err |-> NoErr, row |-> t] : t \in {t \in txRows : t.tx = tx}}
    ELSE {[err |-> ErrNoRows, row |-> NoRow]}

RetrieveReceiptsByTxHashes(ts) == {r \in Rcts : r.tx \in ts}
RetrieveReceiptsByBlockNumber(n) == {r \in Rcts : r.h[1] = n}

(* RetrieveReceiptByHash: RetrieveReceiptByTxHashPgStr lists receipt_cids  *)
(* twice and names public.blocks without listing it, so Postgres rejects   *)
(* the statement whatever the index holds.                                 *)
RetrieveReceiptByHash(tx) == [err |-> ErrSQL, row |-> NoRow]

-----------------------------------------------------------------------------
(* The index as the indexer fills it. *)

Init ==
    /\ headers = {}
    /\ uncles = {}
    /\ txRows = {}
    /\ logRows = {}
    /\ stateRows = {}
    /\ storageRows = {}

(* The transaction lists of one block: injective sequences as functions.   *)
TxLists == UNION {{s \in [1..k -> Txs] : \A i, j \in 1..k : i # j => s[i] # s[j]}
                  : k \in 0..MaxTxs}

(* The indexer writes header id, child of parent, with difficulty d, the   *)
(* transactions of seq (index = position - 1) with their receipts, at most *)
(* one log per transaction (log index = its transaction's index), an uncle *)
(* when u, and the state and storage nodes of nodes.  A transaction is     *)
(* never included twice along one chain (its nonce).                       *)
IndexBlock(id, parent, d, u, seq, logs, nodes) ==
    /\ Cardinality(headers) < MaxHeaders
    /\ id \notin Ids
    /\ IF id[1] = 1 THEN parent = NoHash ELSE parent \in Ids /\ parent[1] = id[1] - 1
    /\ \A t \in txRows : t.h \in ChainOf(parent) => \A i \in DOMAIN seq : seq[i] # t.tx
    /\ headers' = headers \cup
         {[id |-> id, parent |-> parent,
           td |-> d + (IF parent = NoHash THEN 0 ELSE TdOf(parent))]}
    /\ uncles' = IF u THEN uncles \cup {id} ELSE uncles
    /\ txRows' = txRows \cup {[h |-> id, tx |-> seq[i], idx |-> i - 1] : i \in DOMAIN seq}
    /\ logRows' = logRows \cup
         UNION {{[h |-> id, tx |-> seq[i], idx |-> i - 1, addr |-> c.addr, topics |-> c.topics] :
                 c \in logs[i]} : i \in DOMAIN seq}
    /\ stateRows' = stateRows \cup {[h |-> id, acct |-> s.acct, kind |-> s.kind] : s \in nodes.state}
    /\ storageRows' = storageRows \cup
         {[h |-> id, acct |-> s.acct, slot |-> s.slot, kind |-> s.kind] : s \in nodes.storage}

Next ==
    \E id \in HdrIds, parent \in HdrIds \cup {NoHash}, d \in Diffs, u \in UncleChoices,
       seq \in TxLists, nodes \in NodeChoices :
        \E logs \in [DOMAIN seq -> LogSets] :
            IndexBlock(id, parent, d, u, seq, logs, nodes)

Spec == Init /\ [][Next]_vars

-----------------------------------------------------------------------------
(* Properties. *)

TypeOK ==
    /\ headers \subseteq [id: HdrIds, parent: HdrIds \cup {NoHash}, td: Nat]
    /\ uncles \subseteq Ids
    /\ txRows \subseteq [h: Ids, tx: Txs, idx: 0..(MaxTxs - 1)]
    /\ logRows \subseteq [h: Ids, tx: Txs, idx: 0..(MaxTxs - 1), addr: Addrs,
                          topics: [Positions -> TopicVals]]
    /\ stateRows \subseteq [h: Ids, acct: Addrs \cup {NoKey}, kind: Kinds]
    /\ storageRows \subseteq [h: Ids, acct: Addrs, slot: Slots \cup {NoKey}, kind: Kinds]

(* The log filters: an address list and a topic set per position.          *)
LogFilters == [logAddrs: SUBSET Addrs, topics: [Positions -> SUBSET TopicVals]]

(* The logs spec section 4.1.a selects from the blocks hs: address in the  *)
(* list when there is one, and topic i in the i-th set when that set is    *)
(* not empty.                                                              *)
SpecLogs(f, hs) ==
    {l \in logRows : /\ l.h \in hs
                     /\ f.logAddrs = {} \/ l.addr \in f.logAddrs
                     /\ \A i \in Positions : f.topics[i] = {} \/ l.topics[i] \in f.topics[i]}

(* getLogs and the GraphQL logs query return, for every address and topic  *)
(* filter, exactly the logs spec section 4.1.a selects: of the block when  *)
(* asked by hash, of every block at the height when asked by number.  The  *)
(* joins of RetrieveFilteredGQLLogs and RetrieveFilteredLog must keep a    *)
(* sibling's logs of the same transaction out.                             *)
LogFilterCorrect ==
    \A f \in LogFilters, hd \in headers :
        /\ RetrieveFilteredGQLLogs(f, hd.id, NoNumber) = SpecLogs(f, {hd.id})
        /\ RetrieveFilteredLog(f, 0, hd.id) = SpecLogs(f, {hd.id})
        /\ RetrieveFilteredLog(f, hd.id[1], NoHash) = SpecLogs(f, RetrieveHeaderCIDs(hd.id[1]))

(* Spec section 8, scenario 6: every transaction nested in the canonical   *)
(* header record of a height is what RetrieveTxCIDByHash returns for its   *)
(* hash and that height.                                                   *)
NestedTxsLookup ==
    \A n \in Heights :
        \A rec \in RetrieveHeaderAndTxCIDsByBlockNumber(n) :
            rec.header = CanonicalHeaderHash(n) =>
                \A t \in rec.txs : RetrieveTxCIDByHash(t.tx, n) = [err |-> NoErr, row |-> t]

(* The storage nodes spec section 4.1 selects for header h: of a contract  *)
(* in the address list when there is one, of a slot in the key list when   *)
(* there is one, leaves only unless IntermediateNodes.                     *)
SpecStorage(f, h) ==
    {s \in storageRows : /\ s.h = h
                         /\ f.storageAddrs = {} \/ s.acct \in f.storageAddrs
                         /\ f.storageKeys = {} \/ s.slot \in f.storageKeys
                         /\ f.storageInter \/ s.kind = "leaf"}

(* The storage nodes Retrieve sends a subscriber for a header are those    *)
(* spec section 4.1 selects: the join of RetrieveStorageCIDs with the      *)
(* contract's state node loses none, the removed nodes of a destroyed      *)
(* contract included.                                                      *)
StorageFilterCorrect ==
    \A F \in Filters, n \in Heights :
        \A o \in Retrieve(F, n) : ~o.err =>
            \A w \in o.cws :
                w.storage = IF F.storageOff THEN {} ELSE SpecStorage(F, w.h)

(* The receipts spec section 4.1.a selects for header h: a receipt passes  *)
(* when a log of it (in h) matches the address and topic lists, or when    *)
(* MatchTxs and its transaction was matched; with no list and no matched   *)
(* transaction every receipt passes.                                       *)
SpecRcts(f, h, txHashes) ==
    LET byLogs == f.logAddrs # {} \/ hasTopics(f.topics)
        byTx == f.matchTxs /\ txHashes # {}
        logged(r) == \E l \in SpecLogs(f, {h}) : l.tx = r.tx
    IN  {r \in Rcts : /\ r.h = h
                      /\ (byLogs \/ byTx) =>
                            \/ byLogs /\ logged(r)
                            \/ byTx /\ r.tx \in txHashes}

(* The receipts Retrieve sends a subscriber for a header are those spec    *)
(* section 4.1.a selects for it.                                           *)
RctFilterCorrect ==
    \A F \in Filters, n \in Heights :
        \A o \in Retrieve(F, n) : ~o.err =>
            \A w \in o.cws :
                w.rcts = IF F.rctOff THEN {} ELSE SpecRcts(F, w.h, {t.tx : t \in w.txs})

(* No two headers of one height have the same total difficulty, so that   *)
(* canonical_header_hash has no tie to break.                              *)
NoTies == \A n \in Heights : \A x, y \in AtHeight(n) : x # y => x.td # y.td

(* RetrieveTxCIDByHash finds every transaction of the chain that ends in   *)
(* the header of strictly greatest total difficulty (the chain's head), as *)
(* the comment "a transaction can be part of only one canonical block"     *)
(* assumes, when no height has a tie.                                      *)
TxLookupFollowsHead ==
    NoTies => \A hd \in headers :
        (\A o \in headers \ {hd} : o.td < hd.td) =>
            \A t \in txRows :
                t.h \in ChainOf(hd.id) => RetrieveTxCIDByHash(t.tx, NoNumber) = [err |-> NoErr, row |-> t]

=============================================================================
