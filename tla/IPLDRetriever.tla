---------------------------- MODULE IPLDRetriever ----------------------------
(***************************************************************************)
(* The historical account and storage reads of eth.IPLDRetriever           *)
(* (src/pkg/eth/ipld_retriever.go) over an index that an external indexer  *)
(* fills block by block, forks included.                                   *)
(*                                                                         *)
(* A header is identified by <<height, branch>>; canonicity is what the    *)
(* database function canonical_header(height) returns, which the index     *)
(* decides by total difficulty and may change on a reorg.  A state or      *)
(* storage row is its header, its account (state_leaf_key), its slot        *)
(* (storage_leaf_key), its node type (leaf or removed) and, for a leaf,    *)
(* the value its RLP decodes to.  A read is an operator over the index: it *)
(* is compared with the value the chain ending at the queried header       *)
(* gives, as spec section 4.3 defines it.                                  *)
(***************************************************************************)
EXTENDS Integers, FiniteSets

CONSTANTS
    Contracts,      \* addresses (model values)
    Slots,          \* storage slots (model values)
    Values,         \* the values a leaf decodes to (model values)
    Branches,       \* names telling apart sibling headers at one height
    MaxHeight,      \* bound: highest block the indexer writes
    MaxHeaders,     \* bound: number of headers the indexer writes
    Path,           \* storage_path of a slot's leaf: [Contracts \X Slots -> paths]
    RemovedKeyed    \* removed storage rows carry the storage_leaf_key

ASSUME RetrieverAssumption ==
    /\ MaxHeight \in Nat \ {0}
    /\ MaxHeaders \in Nat
    /\ RemovedKeyed \in BOOLEAN
    /\ DOMAIN Path = Contracts \X Slots

(* What a read returns besides a value: EmptyNodeValue / empty bytes, the  *)
(* sql.ErrNoRows of a query with no row, and an RLP decoding error.        *)
Empty == "empty"
NotFound == "notFound"
DecodeError == "decodeError"
NoBranch == "none"

(* A leaf's RLP decodes to a value, never to one of the answers above.     *)
ASSUME ValuesAssumption == Values \cap {Empty, NotFound, DecodeError} = {}

(* A block hash is never the no-row answer canonical_header gives for a    *)
(* height without a header.                                                *)
ASSUME BranchesAssumption == NoBranch \notin Branches

Heights == 1..MaxHeight
HdrIds == Heights \X Branches
Kinds == {"leaf", "removed"}

VARIABLES
    headers,      \* eth.header_cids: set of [id, parent]
    canon,        \* canonical_header(height): branch, or NoBranch
    stateRows,    \* eth.state_cids joined with public.blocks
    storageRows   \* eth.storage_cids joined with public.blocks

vars == <<headers, canon, stateRows, storageRows>>

-----------------------------------------------------------------------------
(* The index and the chain a header closes. *)

Ids == {hd.id : hd \in headers}

ParentOf(id) == (CHOOSE hd \in headers : hd.id = id).parent

(* The headers from id back to height 1, following parent_hash: x is on   *)
(* the chain of id when indexed headers p[x[1]], ..., p[id[1]] = id, one   *)
(* per height, link x to id through their parents.                         *)
ChainOf(id) ==
    {x \in Ids : /\ x[1] <= id[1]
                 /\ \E p \in [x[1]..id[1] -> Ids] :
                       /\ p[id[1]] = id /\ p[x[1]] = x
                       /\ \A n \in x[1]..(id[1] - 1) : p[n] = ParentOf(p[n + 1])}

IsCanonical(id) == canon[id[1]] = id[2]

(* The row of greatest block_number (ORDER BY block_number DESC LIMIT 1).  *)
Newest(rows) == CHOOSE r \in rows : \A s \in rows : s.h[1] <= r.h[1]

(* Every row of greatest block_number: siblings tie, and LIMIT 1 takes any. *)
NewestAll(rows) == {r \in rows : \A s \in rows : s.h[1] <= r.h[1]}

(* The value of a row set along one chain: the newest row decides.         *)
ValueOf(rows) ==
    IF rows = {} \/ Newest(rows).kind = "removed" THEN Empty ELSE Newest(rows).v

(* Reference: the account and the slot in the state after block id.       *)
RefAccount(c, id) == ValueOf({r \in stateRows : r.c = c /\ r.h \in ChainOf(id)})
RefSlot(c, k, id) ==
    ValueOf({r \in storageRows : r.c = c /\ r.k = k /\ r.h \in ChainOf(id)})

-----------------------------------------------------------------------------
(* The reads of IPLDRetriever. *)

(* RLP-decoding the IPLD of a row into a two-element list: a removed node  *)
(* has empty data, which does not decode.                                  *)
DecodeLeaf(r) == IF r.kind = "leaf" THEN r.v ELSE DecodeError

(* The answer of a Get: sql.ErrNoRows on no row, else the decoded row.     *)
GetDecoded(rows) == IF rows = {} THEN NotFound ELSE DecodeLeaf(Newest(rows))

(* Variant for mutation testing: the account query without the           *)
(* canonical_header condition.                                             *)
AccountRowsAnyHeader(c, id) == {r \in stateRows : r.c = c /\ r.h[1] <= id[1]}

(* RetrieveAccountByLeafKeyAndBlockHashPgStr: newest row of the account at *)
(* or below the height of the block hash whose header is canonical.        *)
AccountRowsByHash(c, id) ==
    {r \in stateRows : r.c = c /\ r.h[1] <= id[1] /\ IsCanonical(r.h)}

RetrieveAccountByAddressAndBlockHash(c, id) ==
    GetDecoded(AccountRowsByHash(c, id))

(* RetrieveAccountByLeafKeyAndBlockNumberPgStr: no canonicity condition.   *)
RetrieveAccountByAddressAndBlockNumber(c, n) ==
    LET rows == {r \in stateRows : r.c = c /\ r.h[1] <= n}
    IN  IF rows = {} THEN {NotFound} ELSE {DecodeLeaf(r) : r \in NewestAll(rows)}

(* The storage rows the leaf-key queries select: a removed row has a       *)
(* storage_leaf_key only when RemovedKeyed.                                *)
SlotRows(c, k) ==
    {r \in storageRows : r.c = c /\ r.k = k /\ (r.kind = "leaf" \/ RemovedKeyed)}

(* Variant for mutation testing: retrieveStorageInfoPgStr without the      *)
(* canonical_header condition.                                             *)
StorageInfoAnyHeader(c, k, id) == {r \in SlotRows(c, k) : r.h[1] <= id[1]}

(* retrieveStorageInfoPgStr: newest canonical row at or below the height   *)
(* of the block hash.                                                      *)
StorageInfo(c, k, id) ==
    {r \in SlotRows(c, k) : r.h[1] <= id[1] /\ IsCanonical(r.h)}

(* wasNodeDeletedpgStr: eth.header_cids is listed but never joined, so the *)
(* block_number window holds when any header lies in it, and a removed     *)
(* row at the path counts whatever its header, contract or height.         *)
wasNodeDeleted(path, bn, id) ==
    /\ \E r \in storageRows : r.kind = "removed" /\ Path[r.c, r.k] = path
    /\ \E x \in Ids : bn < x[1] /\ x[1] <= id[1]

(* RetrieveStorageAtByAddressAndStorageKeyAndBlockHash: the storage info,  *)
(* then the deletion probe (empty bytes when it holds), then the decoding. *)
RetrieveStorageAtByAddressAndStorageKeyAndBlockHash(c, k, id) ==
    LET rows == StorageInfo(c, k, id)
    IN  IF rows = {} THEN NotFound
        ELSE LET r == Newest(rows)
             IN  IF wasNodeDeleted(Path[r.c, r.k], r.h[1], id) THEN Empty
                 ELSE DecodeLeaf(r)

(* ...ByBlockNumber: newest row at or below n on any header, no probe.     *)
RetrieveStorageAtByAddressAndStorageKeyAndBlockNumber(c, k, n) ==
    LET rows == {r \in SlotRows(c, k) : r.h[1] <= n}
    IN  IF rows = {} THEN {NotFound} ELSE {DecodeLeaf(r) : r \in NewestAll(rows)}

-----------------------------------------------------------------------------
(* The index as the indexer fills it. *)

Init ==
    /\ headers = {}
    /\ canon = [n \in Heights |-> NoBranch]
    /\ stateRows = {}
    /\ storageRows = {}

(* What the statediff of one block may carry, one change per block: an     *)
(* account update, a slot write, a slot cleared to zero, or a destroyed    *)
(* contract.                                                               *)
Changes ==
    [op: {"account"}, c: Contracts, v: Values]
    \cup [op: {"slot"}, c: Contracts, k: Slots, v: Values]
    \cup [op: {"clear"}, c: Contracts, k: Slots]
    \cup [op: {"destroy"}, c: Contracts]

(* The indexer writes header id, child of parent, with the rows of ch.     *)
(* Only a live slot is cleared; a destroyed contract loses its account and *)
(* every live slot.  The first header at a height is canonical.            *)
IndexBlock(id, parent, ch) ==
    LET live(k) == parent \in Ids /\ RefSlot(ch.c, k, parent) # Empty
        acct == parent \in Ids /\ RefAccount(ch.c, parent) # Empty
        row(k, kind, v) == [h |-> id, c |-> ch.c, k |-> k, kind |-> kind, v |-> v]
    IN
    /\ Cardinality(headers) < MaxHeaders
    /\ id \notin Ids
    /\ parent[1] = id[1] - 1
    /\ IF id[1] = 1 THEN parent[2] = NoBranch ELSE parent \in Ids
    /\ ch.op = "clear" => live(ch.k)
    /\ ch.op = "destroy" => acct
    /\ headers' = headers \cup {[id |-> id, parent |-> parent]}
    /\ canon' = IF canon[id[1]] = NoBranch THEN [canon EXCEPT ![id[1]] = id[2]]
                ELSE canon
    /\ stateRows' = stateRows \cup
         (IF ch.op = "account" THEN {[h |-> id, c |-> ch.c, kind |-> "leaf", v |-> ch.v]}
          ELSE IF ch.op = "destroy"
               THEN {[h |-> id, c |-> ch.c, kind |-> "removed", v |-> Empty]}
          ELSE {})
    /\ storageRows' = storageRows \cup
         (IF ch.op = "slot" THEN {row(ch.k, "leaf", ch.v)}
          ELSE IF ch.op = "clear" THEN {row(ch.k, "removed", Empty)}
          ELSE IF ch.op = "destroy"
               THEN {row(k, "removed", Empty) : k \in {s \in Slots : live(s)}}
          ELSE {})

(* canonical_header(height) switches to a sibling of greater total         *)
(* difficulty.                                                             *)
Reorg(id) ==
    /\ id \in Ids
    /\ ~IsCanonical(id)
    /\ canon' = [canon EXCEPT ![id[1]] = id[2]]
    /\ UNCHANGED <<headers, stateRows, storageRows>>

Next ==
    \/ \E id \in HdrIds, b \in Branches \cup {NoBranch}, ch \in Changes :
          IndexBlock(id, <<id[1] - 1, b>>, ch)
    \/ \E id \in HdrIds : Reorg(id)

Spec == Init /\ [][Next]_vars

-----------------------------------------------------------------------------
(* Properties *)

(* A header whose whole chain is canonical: a query by its hash and the    *)
(* state after it should agree.                                            *)
OnCanonicalChain(id) == id \in Ids /\ \A x \in ChainOf(id) : IsCanonical(x)

(* A read's answer against the reference: sql.ErrNoRows stands for an      *)
(* absent slot or account (spec 4.3, failure semantics).                   *)
Matches(got, ref) == got = ref \/ (got = NotFound /\ ref = Empty)

(* Every header lies on a chain down to height 1, and canonical_header     *)
(* names a header of the index.                                            *)
TypeOK ==
    /\ \A hd \in headers : hd.id \in HdrIds /\ hd.parent[1] = hd.id[1] - 1
    /\ canon \in [Heights -> Branches \cup {NoBranch}]
    /\ \A n \in Heights : canon[n] # NoBranch => <<n, canon[n]>> \in Ids
    /\ \A r \in stateRows : r.h \in Ids /\ r.c \in Contracts /\ r.kind \in Kinds
    /\ \A r \in storageRows : r.h \in Ids /\ r.kind \in Kinds
                              /\ r.c \in Contracts /\ r.k \in Slots

(* A value that the by-hash reads of accounts and storage return, for a    *)
(* block on the canonical chain, is the current one: reorgs, sibling       *)
(* headers, cleared slots and destroyed contracts never make them return a *)
(* stale or foreign value (they may answer empty or fail instead).         *)
NoStaleValue ==
    \A id \in Ids, c \in Contracts : OnCanonicalChain(id) =>
        /\ LET a == RetrieveAccountByAddressAndBlockHash(c, id)
           IN  a \in Values => a = RefAccount(c, id)
        /\ \A k \in Slots :
             LET s == RetrieveStorageAtByAddressAndStorageKeyAndBlockHash(c, k, id)
             IN  s \in Values => s = RefSlot(c, k, id)

(* The account read by the hash of a block on the canonical chain keeps    *)
(* its answer for as long as the block stays there: the indexer writing    *)
(* later blocks or siblings, and reorgs above the block, never change it.  *)
AccountReadKept ==
    \A id \in Ids, c \in Contracts :
        OnCanonicalChain(id) /\ OnCanonicalChain(id)' =>
            RetrieveAccountByAddressAndBlockHash(c, id)'
                = RetrieveAccountByAddressAndBlockHash(c, id)
AccountReadStable == [][AccountReadKept]_vars

(* Spec 4.3: the storage read at a canonical block answers the slot's      *)
(* value, and empty when it was cleared or its contract destroyed at or    *)
(* before the block and not written again (the deletion probe's purpose).  *)
StorageAtCorrect ==
    \A id \in Ids, c \in Contracts, k \in Slots : OnCanonicalChain(id) =>
        Matches(RetrieveStorageAtByAddressAndStorageKeyAndBlockHash(c, k, id),
                RefSlot(c, k, id))

(* Spec 4.3 step 2: an account read at a canonical block whose newest row  *)
(* is a removed node answers the empty account.                            *)
AccountAtCorrect ==
    \A id \in Ids, c \in Contracts : OnCanonicalChain(id) =>
        Matches(RetrieveAccountByAddressAndBlockHash(c, id), RefAccount(c, id))

(* Spec 4.3 step 1: when only a height is given the canonical header is    *)
(* preferred, so a value the account and storage reads by number return   *)
(* is the canonical one.                                                   *)
NumberReadsCanonical ==
    \A n \in Heights, c \in Contracts :
        LET id == <<n, canon[n]>> IN
        OnCanonicalChain(id) =>
            /\ \A a \in RetrieveAccountByAddressAndBlockNumber(c, n) :
                  a \in Values => a = RefAccount(c, id)
            /\ \A k \in Slots :
                 \A s \in RetrieveStorageAtByAddressAndStorageKeyAndBlockNumber(c, k, n) :
                    s \in Values => s = RefSlot(c, k, id)

=============================================================================
