-------------------------- MODULE CIDRetrieverProofs --------------------------
(***************************************************************************)
(* Proofs about the CID retriever's reads.  The indexer's writes keep three *)
(* relations between the tables, and every read property the cid_reads run *)
(* checks follows from them (and the types) in any one state:              *)
(*   - a log row's transaction row is in the same block (LogsHaveTx);      *)
(*   - a storage row's contract has a state row in the same block          *)
(*     (StorageHasState);                                                  *)
(*   - a block holds a transaction at most once (TxUnique).                *)
(***************************************************************************)
EXTENDS CIDRetriever, FiniteSetTheorems, TLAPS

(* Every log row belongs to a transaction row of its own header.          *)
LogsHaveTx == \A l \in logRows : \E t \in txRows : t.h = l.h /\ t.tx = l.tx

(* Every storage row has a state row of its contract on its own header.   *)
StorageHasState ==
    \A s \in storageRows : \E st \in stateRows : st.h = s.h /\ st.acct = s.acct

(* No header holds two rows of one transaction.                           *)
TxUnique == \A a, b \in txRows : a.h = b.h /\ a.tx = b.tx => a = b

IInv == TypeOK /\ LogsHaveTx /\ StorageHasState /\ TxUnique

-----------------------------------------------------------------------------
(* The inductive invariant. *)

(* A transaction list is an injective function from 1..k into Txs, with k *)
(* at most MaxTxs.                                                         *)
LEMMA TxListsShape ==
    ASSUME NEW seq \in TxLists
    PROVE  \E k \in 0..MaxTxs : /\ seq \in [1..k -> Txs]
                                /\ \A i, j \in 1..k : i # j => seq[i] # seq[j]
BY DEF TxLists

LEMMA IInvInit == Init => IInv
BY DEF Init, IInv, TypeOK, LogsHaveTx, StorageHasState, TxUnique, Ids

(* The arguments of one IndexBlock step, as Next quantifies them.         *)
IndexArgs(id, parent, d, u, seq, logs, nodes) ==
    /\ id \in HdrIds /\ parent \in HdrIds \cup {NoHash} /\ d \in Diffs
    /\ u \in UncleChoices /\ seq \in TxLists /\ nodes \in NodeChoices
    /\ logs \in [DOMAIN seq -> LogSets]

LEMMA IndexBlockIInv ==
    ASSUME NEW id, NEW parent, NEW d, NEW u, NEW seq, NEW logs, NEW nodes,
           IndexArgs(id, parent, d, u, seq, logs, nodes),
           IInv,
           IndexBlock(id, parent, d, u, seq, logs, nodes)
    PROVE  IInv'
<1> USE CIDRetrieverAssumption DEF IndexArgs
<1>1. PICK k \in 0..MaxTxs : /\ seq \in [1..k -> Txs]
                             /\ \A i, j \in 1..k : i # j => seq[i] # seq[j]
  BY TxListsShape
<1>2. Ids' = Ids \cup {id}
  <2> DEFINE nh == [id |-> id, parent |-> parent,
                    td |-> d + (IF parent = NoHash THEN 0 ELSE TdOf(parent))]
  <2>1. headers' = headers \cup {nh}
    BY DEF IndexBlock
  <2>2. nh.id = id
    OBVIOUS
  <2>3. QED
    BY <2>1, <2>2 DEF Ids
<1>3. id \notin Ids
  BY DEF IndexBlock
<1>4. headers' \subseteq [id: HdrIds, parent: HdrIds \cup {NoHash}, td: Nat]
  <2>1. parent # NoHash => TdOf(parent) \in Nat
    <3>1. HAVE parent # NoHash
    <3>2. parent \in Ids
      BY <3>1 DEF IndexBlock, NoHash, HdrIds, Heights
    <3>3. \E hd \in headers : hd.id = parent
      BY <3>2 DEF Ids
    <3>4. QED
      BY <3>3 DEF TdOf, IInv, TypeOK
  <2>2. d + (IF parent = NoHash THEN 0 ELSE TdOf(parent)) \in Nat
    BY <2>1
  <2>3. QED
    BY <2>2 DEF IndexBlock, IInv, TypeOK
<1>5. uncles' \subseteq Ids'
  BY <1>2 DEF IndexBlock, IInv, TypeOK
<1>6. txRows' \subseteq [h: Ids', tx: Txs, idx: 0..(MaxTxs - 1)]
  BY <1>1, <1>2 DEF IndexBlock, IInv, TypeOK
<1>7. logRows' \subseteq [h: Ids', tx: Txs, idx: 0..(MaxTxs - 1), addr: Addrs,
                          topics: [Positions -> TopicVals]]
  <2>1. ASSUME NEW i \in DOMAIN seq, NEW c \in logs[i]
        PROVE  c \in [addr: Addrs, topics: [Positions -> TopicVals]]
    BY DEF LogSets
  <2>2. QED
    BY <1>1, <1>2, <2>1 DEF IndexBlock, IInv, TypeOK
<1>8. stateRows' \subseteq [h: Ids', acct: Addrs \cup {NoKey}, kind: Kinds]
  BY <1>2 DEF IndexBlock, IInv, TypeOK, StateNodes
<1>9. storageRows' \subseteq [h: Ids', acct: Addrs, slot: Slots \cup {NoKey}, kind: Kinds]
  BY <1>2 DEF IndexBlock, IInv, TypeOK, StorageNodes
<1>10. TypeOK'
  BY <1>4, <1>5, <1>6, <1>7, <1>8, <1>9 DEF TypeOK
<1>11. LogsHaveTx'
  <2> SUFFICES ASSUME NEW l \in logRows'
               PROVE  \E t \in txRows' : t.h = l.h /\ t.tx = l.tx
    BY DEF LogsHaveTx
  <2>1. CASE l \in logRows
    BY <2>1 DEF IInv, LogsHaveTx, IndexBlock
  <2>2. CASE l \notin logRows
    <3>1. PICK i \in DOMAIN seq : \E c \in logs[i] :
              l = [h |-> id, tx |-> seq[i], idx |-> i - 1, addr |-> c.addr, topics |-> c.topics]
      BY <2>2 DEF IndexBlock
    <3>2. [h |-> id, tx |-> seq[i], idx |-> i - 1] \in txRows'
      BY DEF IndexBlock
    <3>3. QED
      BY <3>1, <3>2
  <2>3. QED
    BY <2>1, <2>2
<1>12. StorageHasState'
  <2> SUFFICES ASSUME NEW s \in storageRows'
               PROVE  \E st \in stateRows' : st.h = s.h /\ st.acct = s.acct
    BY DEF StorageHasState
  <2>1. CASE s \in storageRows
    BY <2>1 DEF IInv, StorageHasState, IndexBlock
  <2>2. CASE s \notin storageRows
    <3>1. PICK n \in nodes.storage :
              s = [h |-> id, acct |-> n.acct, slot |-> n.slot, kind |-> n.kind]
      BY <2>2 DEF IndexBlock
    <3>2. PICK st \in nodes.state : st.acct = n.acct
      BY StorageWithAccountAssumption
    <3>3. [h |-> id, acct |-> st.acct, kind |-> st.kind] \in stateRows'
      BY DEF IndexBlock
    <3>4. QED
      BY <3>1, <3>2, <3>3
  <2>3. QED
    BY <2>1, <2>2
<1>13. TxUnique'
  <2> SUFFICES ASSUME NEW a \in txRows', NEW b \in txRows', a.h = b.h, a.tx = b.tx
               PROVE  a = b
    BY DEF TxUnique
  <2>1. CASE a \in txRows /\ b \in txRows
    BY <2>1 DEF IInv, TxUnique
  <2>2. CASE a \notin txRows /\ b \notin txRows
    <3>1. PICK i \in DOMAIN seq : a = [h |-> id, tx |-> seq[i], idx |-> i - 1]
      BY <2>2 DEF IndexBlock
    <3>2. PICK j \in DOMAIN seq : b = [h |-> id, tx |-> seq[j], idx |-> j - 1]
      BY <2>2 DEF IndexBlock
    <3>3. i = j
      BY <1>1, <3>1, <3>2
    <3>4. QED
      BY <3>1, <3>2, <3>3
  <2>3. CASE a \in txRows /\ b \notin txRows
    <3>1. a.h \in Ids
      BY <2>3 DEF IInv, TypeOK
    <3>2. b.h = id
      BY <2>3 DEF IndexBlock
    <3>3. QED
      BY <1>3, <3>1, <3>2
  <2>4. CASE a \notin txRows /\ b \in txRows
    <3>1. b.h \in Ids
      BY <2>4 DEF IInv, TypeOK
    <3>2. a.h = id
      BY <2>4 DEF IndexBlock
    <3>3. QED
      BY <1>3, <3>1, <3>2
  <2>5. QED
    BY <2>1, <2>2, <2>3, <2>4
<1>14. QED
  BY <1>10, <1>11, <1>12, <1>13 DEF IInv

LEMMA IInvStep == IInv /\ [Next]_vars => IInv'
<1>1. ASSUME IInv, Next PROVE IInv'
  <2>1. PICK id \in HdrIds, parent \in HdrIds \cup {NoHash}, d \in Diffs,
             u \in UncleChoices, seq \in TxLists, nodes \in NodeChoices :
             \E logs \in [DOMAIN seq -> LogSets] :
                IndexBlock(id, parent, d, u, seq, logs, nodes)
    BY <1>1 DEF Next
  <2>2. PICK logs \in [DOMAIN seq -> LogSets] : IndexBlock(id, parent, d, u, seq, logs, nodes)
    BY <2>1
  <2>3. QED
    BY <1>1, <2>2, IndexBlockIInv DEF IndexArgs
<1>2. ASSUME IInv, UNCHANGED vars PROVE IInv'
  BY <1>2 DEF vars, IInv, TypeOK, LogsHaveTx, StorageHasState, TxUnique, Ids
<1>3. QED
  BY <1>1, <1>2

(* The index the indexer builds keeps the three relations (and the types)  *)
(* after any sequence of block writes, forks included.                     *)
THEOREM IInvInvariant == Spec => []IInv
BY IInvInit, IInvStep, PTL DEF Spec

-----------------------------------------------------------------------------
(* The read properties, state by state. *)

(* A header's id is a height of 1..MaxHeight and a branch, never NoHash.  *)
LEMMA HeaderId ==
    ASSUME TypeOK, NEW hd \in headers
    PROVE  /\ hd.id \in HdrIds
           /\ hd.id[1] \in 1..MaxHeight
           /\ hd.id # NoHash
BY CIDRetrieverAssumption DEF TypeOK, HdrIds, Heights, NoHash

(* logFilterCondition, with its hasTopics guard, is the spec's filter:    *)
(* the guard only skips a conjunction that is empty.                       *)
LEMMA LogFilterConditionSpec ==
    ASSUME NEW f \in LogFilters, NEW l
    PROVE  logFilterCondition(f, l) <=>
              /\ f.logAddrs = {} \/ l.addr \in f.logAddrs
              /\ \A i \in Positions : f.topics[i] = {} \/ l.topics[i] \in f.topics[i]
BY DEF logFilterCondition, hasTopics, topicFilterCondition

LEMMA LogFilterCorrectHolds == IInv => LogFilterCorrect
<1> SUFFICES ASSUME IInv, NEW f \in LogFilters, NEW hd \in headers
             PROVE  /\ RetrieveFilteredGQLLogs(f, hd.id, NoNumber) = SpecLogs(f, {hd.id})
                    /\ RetrieveFilteredLog(f, 0, hd.id) = SpecLogs(f, {hd.id})
                    /\ RetrieveFilteredLog(f, hd.id[1], NoHash)
                          = SpecLogs(f, RetrieveHeaderCIDs(hd.id[1]))
  BY DEF LogFilterCorrect
<1>1. /\ hd.id \in HdrIds
      /\ hd.id[1] \in 1..MaxHeight
      /\ hd.id # NoHash
  BY HeaderId DEF IInv
<1>2. ASSUME NEW l \in logRows
      PROVE  \E t \in txRows : t.h = l.h /\ t.tx = l.tx
  BY DEF IInv, LogsHaveTx
<1>3. ASSUME NEW l \in logRows
      PROVE  /\ logFilterCondition(f, l) <=>
                   /\ f.logAddrs = {} \/ l.addr \in f.logAddrs
                   /\ \A i \in Positions : f.topics[i] = {} \/ l.topics[i] \in f.topics[i]
  BY LogFilterConditionSpec
<1>4. RetrieveFilteredGQLLogs(f, hd.id, NoNumber) = SpecLogs(f, {hd.id})
  <2> SUFFICES ASSUME NEW l \in logRows
               PROVE  (\E r \in Rcts : /\ LogOfReceipt(l, r)
                                       /\ r.h = hd.id
                                       /\ NoNumber # NoNumber => r.h[1] = NoNumber)
                      <=> l.h = hd.id
    BY <1>3 DEF RetrieveFilteredGQLLogs, SpecLogs
  <2>1. PICK t \in txRows : t.h = l.h /\ t.tx = l.tx
    BY <1>2
  <2>2. [h |-> t.h, tx |-> t.tx] \in Rcts
    BY DEF Rcts
  <2>3. QED
    BY <2>1, <2>2 DEF LogOfReceipt
<1>5. RetrieveFilteredLog(f, 0, hd.id) = SpecLogs(f, {hd.id})
  <2> SUFFICES ASSUME NEW l \in logRows
               PROVE  (\E t \in txRows : /\ t.tx = l.tx /\ t.h = l.h
                                         /\ 0 > 0 => t.h[1] = 0
                                         /\ hd.id # NoHash => t.h = hd.id)
                      <=> l.h = hd.id
    BY <1>3 DEF RetrieveFilteredLog, SpecLogs
  <2>1. PICK t \in txRows : t.h = l.h /\ t.tx = l.tx
    BY <1>2
  <2>2. QED
    BY <1>1, <2>1
<1>6. RetrieveFilteredLog(f, hd.id[1], NoHash) = SpecLogs(f, RetrieveHeaderCIDs(hd.id[1]))
  <2> DEFINE n == hd.id[1]
  <2> SUFFICES ASSUME NEW l \in logRows
               PROVE  (\E t \in txRows : /\ t.tx = l.tx /\ t.h = l.h
                                         /\ n > 0 => t.h[1] = n
                                         /\ NoHash # NoHash => t.h = NoHash)
                      <=> l.h \in RetrieveHeaderCIDs(n)
    BY <1>3 DEF RetrieveFilteredLog, SpecLogs
  <2>1. PICK t \in txRows : t.h = l.h /\ t.tx = l.tx
    BY <1>2
  <2>2. l.h \in Ids
    BY DEF IInv, TypeOK
  <2>3. l.h \in RetrieveHeaderCIDs(n) <=> l.h[1] = n
    BY <2>2 DEF RetrieveHeaderCIDs, AtHeight, Ids
  <2>4. QED
    BY <1>1, <2>1, <2>3
<1>7. QED
  BY <1>4, <1>5, <1>6

(* A transaction nested in the canonical header record of a height is the  *)
(* one row RetrieveTxCIDByHash finds for its hash at that height: the      *)
(* canonical condition leaves only that header, and TxUnique one row.     *)
LEMMA NestedTxsLookupHolds == IInv => NestedTxsLookup
<1> SUFFICES ASSUME IInv, NEW n \in Heights,
                    NEW rec \in RetrieveHeaderAndTxCIDsByBlockNumber(n),
                    rec.header = CanonicalHeaderHash(n),
                    NEW t \in rec.txs
             PROVE  RetrieveTxCIDByHash(t.tx, n) = [err |-> NoErr, row |-> t]
  BY DEF NestedTxsLookup
<1>1. PICK h \in RetrieveHeaderCIDs(n) : rec = HeaderCIDRecord(h)
  BY DEF RetrieveHeaderAndTxCIDsByBlockNumber
<1>2. h[1] = n /\ h = CanonicalHeaderHash(n)
  BY <1>1 DEF RetrieveHeaderCIDs, AtHeight, HeaderCIDRecord
<1>3. t \in txRows /\ t.h = h
  BY <1>1 DEF HeaderCIDRecord
<1>4. n # NoNumber
  BY CIDRetrieverAssumption DEF Heights, NoNumber
<1> DEFINE rows == {x \in txRows : /\ x.tx = t.tx
                                   /\ x.h = CanonicalHeaderHash(x.h[1])
                                   /\ n # NoNumber => x.h[1] = n}
<1>5. rows = {t}
  <2>1. t \in rows
    BY <1>2, <1>3, <1>4
  <2>2. ASSUME NEW x \in rows PROVE x = t
    <3>1. x.h = h /\ x.tx = t.tx
      BY <1>2, <1>4
    <3>2. QED
      BY <1>3, <3>1 DEF IInv, TxUnique
  <2>3. QED
    BY <2>1, <2>2
<1>6. Cardinality(rows) = 1
  BY <1>5, FS_Singleton
<1>7. QED
  BY <1>5, <1>6 DEF RetrieveTxCIDByHash

(* The join of RetrieveStorageCIDs with state_cids drops no storage node   *)
(* of the header, because its contract's state node is always there.      *)
LEMMA StorageJoinLosesNone ==
    ASSUME IInv, NEW F \in Settings, NEW h
    PROVE  RetrieveStorageCIDs(F, h) = SpecStorage(F, h)
<1> SUFFICES ASSUME NEW s \in storageRows, s.h = h
             PROVE  /\ (\E st \in stateRows : st.h = h /\ st.acct = s.acct)
                    /\ (~F.storageInter => s.kind = "leaf") <=> (F.storageInter \/ s.kind = "leaf")
  BY DEF RetrieveStorageCIDs, SpecStorage
<1>1. \E st \in stateRows : st.h = h /\ st.acct = s.acct
  BY DEF IInv, StorageHasState
<1>2. F.storageInter \in BOOLEAN
  BY DEF Settings
<1>3. QED
  BY <1>1, <1>2

(* Every CIDWrapper Retrieve returns without error carries, for its        *)
(* header, the storage nodes the spec's storage filter selects.           *)
LEMMA StorageFilterCorrectHolds == IInv => StorageFilterCorrect
<1> SUFFICES ASSUME IInv, NEW F \in Filters, NEW n \in Heights,
                    NEW o \in Retrieve(F, n), ~o.err, NEW w \in o.cws
             PROVE  w.storage = IF F.storageOff THEN {} ELSE SpecStorage(F, w.h)
  BY DEF StorageFilterCorrect
<1>1. F \in Settings
  BY CIDRetrieverAssumption
<1>2. o.cws = {CIDWrapper(F, h) : h \in RetrieveHeaderCIDs(n)}
  BY DEF Retrieve
<1>3. PICK h \in RetrieveHeaderCIDs(n) : w = CIDWrapper(F, h)
  BY <1>2
<1>4. w.h = h /\ w.storage = IF F.storageOff THEN {} ELSE RetrieveStorageCIDs(F, h)
  BY <1>3 DEF CIDWrapper
<1>5. QED
  BY <1>1, <1>4, StorageJoinLosesNone

-----------------------------------------------------------------------------
(* The read properties of the cid_reads run, for every value of the       *)
(* constants satisfying CIDRetrieverAssumption and                         *)
(* StorageWithAccountAssumption.                                           *)

(* getLogs by hash and by number and the GraphQL logs query return exactly *)
(* the logs the spec's address and topic filter selects from the block(s): *)
(* a sibling's logs of the same transaction never leak into the joins.     *)
THEOREM LogFilterCorrectInvariant == Spec => []LogFilterCorrect
BY IInvInvariant, LogFilterCorrectHolds, PTL

(* A transaction listed under the canonical header of a height is found    *)
(* by RetrieveTxCIDByHash at that height, as that very row (spec        *)
(* scenario 6).                                                           *)
THEOREM NestedTxsLookupInvariant == Spec => []NestedTxsLookup
BY IInvInvariant, NestedTxsLookupHolds, PTL

(* Retrieve's storage filter sends a subscriber exactly the storage nodes  *)
(* the spec selects for each header, removed nodes included.               *)
THEOREM StorageFilterCorrectInvariant == Spec => []StorageFilterCorrect
BY IInvInvariant, StorageFilterCorrectHolds, PTL

=============================================================================
