------------------------- MODULE IPLDRetrieverProofs -------------------------
(***************************************************************************)
(* Proofs, for every value of the constants, of the invariants that the    *)
(* run retriever_reads checks of the IPLDRetriever reads.                  *)
(***************************************************************************)
EXTENDS IPLDRetriever, WellFoundedInduction, TLAPS

(* Every header above height 1 hangs below a header of the index: the      *)
(* indexer writes a header only after its parent.                          *)
ParentIndexed == \A hd \in headers : hd.id[1] > 1 => hd.parent \in Ids

(* One storage row per header, contract and slot: a statediff carries one  *)
(* node per storage leaf key.                                              *)
StorageRowUnique ==
    \A r, s \in storageRows : r.h = s.h /\ r.c = s.c /\ r.k = s.k => r = s

IInv == TypeOK /\ ParentIndexed /\ StorageRowUnique
-----------------------------------------------------------------------------
(* The invariant is inductive. *)

LEMMA IInvInit == Init => IInv
BY RetrieverAssumption DEF Init, IInv, TypeOK, ParentIndexed, StorageRowUnique, Ids

(* Writing a header adds its id to the index. *)
LEMMA IndexBlockIds ==
    ASSUME NEW id, NEW parent, NEW ch, IndexBlock(id, parent, ch)
    PROVE  Ids' = Ids \cup {id}
<1> DEFINE nh == [id |-> id, parent |-> parent]
<1>1. headers' = headers \cup {nh}
  BY DEF IndexBlock
<1>2. nh.id = id
  OBVIOUS
<1> QED BY <1>1, <1>2 DEF Ids

LEMMA IndexBlockIInv ==
    ASSUME IInv, NEW id \in HdrIds, NEW b \in Branches \cup {NoBranch},
           NEW ch \in Changes, IndexBlock(id, <<id[1] - 1, b>>, ch)
    PROVE  IInv'
<1> DEFINE parent == <<id[1] - 1, b>>
<1>1. Ids' = Ids \cup {id} /\ id \notin Ids
  BY IndexBlockIds DEF IndexBlock
<1>2. \A hd \in headers' : hd.id \in HdrIds /\ hd.parent[1] = hd.id[1] - 1
  BY DEF IndexBlock, IInv, TypeOK
<1>3. canon' \in [Heights -> Branches \cup {NoBranch}]
  BY DEF IndexBlock, IInv, TypeOK, HdrIds
<1>4. \A n \in Heights : canon'[n] # NoBranch => <<n, canon'[n]>> \in Ids'
  <2> SUFFICES ASSUME NEW n \in Heights, canon'[n] # NoBranch
               PROVE  <<n, canon'[n]>> \in Ids'
    OBVIOUS
  <2>1. CASE n = id[1] /\ canon[id[1]] = NoBranch
    <3>1. canon'[n] = id[2]
      BY <2>1 DEF IndexBlock, IInv, TypeOK, HdrIds
    <3>2. <<n, canon'[n]>> = id
      BY <2>1, <3>1 DEF HdrIds
    <3> QED BY <3>2, <1>1
  <2>2. CASE ~(n = id[1] /\ canon[id[1]] = NoBranch)
    <3>1. canon'[n] = canon[n]
      BY <2>2 DEF IndexBlock, IInv, TypeOK, HdrIds
    <3> QED BY <3>1, <1>1 DEF IInv, TypeOK
  <2> QED BY <2>1, <2>2
<1>5. \A r \in stateRows' : r.h \in Ids' /\ r.c \in Contracts /\ r.kind \in Kinds
  BY <1>1 DEF IndexBlock, IInv, TypeOK, Changes, Kinds
<1>6. \A r \in storageRows' : r.h \in Ids' /\ r.kind \in Kinds
                             /\ r.c \in Contracts /\ r.k \in Slots
  BY <1>1 DEF IndexBlock, IInv, TypeOK, Changes, Kinds
<1>7. ParentIndexed'
  <2> SUFFICES ASSUME NEW hd \in headers', hd.id[1] > 1 PROVE hd.parent \in Ids'
    BY DEF ParentIndexed
  <2>1. CASE hd \in headers
    BY <2>1, <1>1 DEF IInv, ParentIndexed
  <2>2. CASE hd = [id |-> id, parent |-> parent]
    BY <2>2, <1>1 DEF IndexBlock
  <2> QED BY <2>1, <2>2 DEF IndexBlock
<1>8. StorageRowUnique'
  <2> DEFINE New == storageRows' \ storageRows
  <2>1. \A r \in New : r.h = id
    BY DEF IndexBlock
  <2>2. \A r \in storageRows : r.h # id
    BY <1>1 DEF IInv, TypeOK
  <2>3. \A r, s \in New : r.c = s.c /\ r.k = s.k => r = s
    BY DEF IndexBlock
  <2> QED BY <2>1, <2>2, <2>3 DEF IInv, StorageRowUnique
<1> QED BY <1>2, <1>3, <1>4, <1>5, <1>6, <1>7, <1>8 DEF IInv, TypeOK

LEMMA ReorgIInv ==
    ASSUME IInv, NEW id \in HdrIds, Reorg(id)
    PROVE  IInv'
<1>1. Ids' = Ids
  BY DEF Reorg, Ids
<1>2. canon' \in [Heights -> Branches \cup {NoBranch}]
  BY DEF Reorg, IInv, TypeOK, HdrIds
<1>3. \A n \in Heights : canon'[n] # NoBranch => <<n, canon'[n]>> \in Ids'
  <2> SUFFICES ASSUME NEW n \in Heights, canon'[n] # NoBranch
               PROVE  <<n, canon'[n]>> \in Ids
    BY <1>1
  <2>1. CASE n = id[1]
    BY <2>1 DEF Reorg, IInv, TypeOK, HdrIds
  <2>2. CASE n # id[1]
    BY <2>2 DEF Reorg, IInv, TypeOK
  <2> QED BY <2>1, <2>2
<1> QED BY <1>1, <1>2, <1>3 DEF Reorg, IInv, TypeOK, ParentIndexed, StorageRowUnique

LEMMA IInvStep == IInv /\ [Next]_vars => IInv'
<1> SUFFICES ASSUME IInv, [Next]_vars PROVE IInv'
  OBVIOUS
<1>1. CASE \E id \in HdrIds, b \in Branches \cup {NoBranch}, ch \in Changes :
              IndexBlock(id, <<id[1] - 1, b>>, ch)
  BY <1>1, IndexBlockIInv
<1>2. CASE \E id \in HdrIds : Reorg(id)
  BY <1>2, ReorgIInv
<1>3. CASE UNCHANGED vars
  BY <1>3 DEF vars, IInv, TypeOK, ParentIndexed, StorageRowUnique, Ids
<1> QED BY <1>1, <1>2, <1>3 DEF Next

(* The index keeps its shape whatever the indexer writes and however the  *)
(* canonical header moves: parents indexed first, rows on indexed headers, *)
(* one storage row per header and slot.                                    *)
THEOREM IInvInvariant == Spec => []IInv
BY IInvInit, IInvStep, PTL DEF Spec

-----------------------------------------------------------------------------
(* The chain of a header. *)

(* A nonempty set of naturals has a least element. *)
LEMMA LeastNat ==
    ASSUME NEW T, T \subseteq Nat, T # {}
    PROVE  \E m \in T : \A j \in T : m <= j
<1>1. PICK m \in T : \A j \in T : ~(<<j, m>> \in OpToRel(<, Nat))
  BY WFMin, NatLessThanWellFounded
<1>2. \A j \in T : ~(j < m)
  BY <1>1, Zenon DEF OpToRel
<1> QED BY <1>2

(* The parent of an indexed header above height 1 is indexed, one below.  *)
LEMMA ParentOfFacts ==
    ASSUME IInv, NEW y \in Ids, y[1] > 1
    PROVE  ParentOf(y) \in Ids /\ ParentOf(y)[1] = y[1] - 1
<1>1. PICK hd \in headers : hd.id = y /\ hd.parent = ParentOf(y)
  BY DEF Ids, ParentOf
<1> QED BY <1>1 DEF IInv, TypeOK, ParentIndexed

(* A path of indexed headers, one per height from id[1] - j to id[1],      *)
(* each the parent of the next, that ends in id.                           *)
PathDown(id, j) ==
    \E p \in [(id[1] - j)..id[1] -> Ids] :
        /\ p[id[1]] = id
        /\ \A m \in (id[1] - j)..id[1] : p[m][1] = m
        /\ \A m \in (id[1] - j)..(id[1] - 1) : p[m] = ParentOf(p[m + 1])

LEMMA PathDownAll ==
    ASSUME IInv, NEW id \in Ids
    PROVE  \A j \in 0..(id[1] - 1) : PathDown(id, j)
<1>1. id \in HdrIds /\ id[1] \in Heights
  BY DEF IInv, TypeOK, Ids, HdrIds
<1> DEFINE Bad == {j \in 0..(id[1] - 1) : ~PathDown(id, j)}
<1> SUFFICES Bad = {}
  OBVIOUS
<1>2. PathDown(id, 0)
  <2> DEFINE p0 == [m \in {id[1]} |-> id]
  <2>1. (id[1] - 0)..id[1] = {id[1]}
    BY <1>1, RetrieverAssumption DEF Heights
  <2>2. p0 \in [(id[1] - 0)..id[1] -> Ids]
    BY <2>1
  <2>3. \A m \in (id[1] - 0)..id[1] : p0[m][1] = m
    BY <2>1
  <2>4. \A m \in (id[1] - 0)..(id[1] - 1) : p0[m] = ParentOf(p0[m + 1])
    BY <1>1, RetrieverAssumption DEF Heights
  <2> QED BY <2>2, <2>3, <2>4 DEF PathDown
<1> SUFFICES ASSUME Bad # {} PROVE FALSE
  OBVIOUS
<1>3. PICK j0 \in Bad : \A j \in Bad : j0 <= j
  <2>1. Bad \subseteq Nat
    OBVIOUS
  <2> QED BY <2>1, LeastNat
<1>4. j0 # 0
  BY <1>2
<1>5. PathDown(id, j0 - 1)
  BY <1>4, <1>3, <1>1, RetrieverAssumption DEF Heights
<1>6. PICK p \in [(id[1] - (j0 - 1))..id[1] -> Ids] :
        /\ p[id[1]] = id
        /\ \A m \in (id[1] - (j0 - 1))..id[1] : p[m][1] = m
        /\ \A m \in (id[1] - (j0 - 1))..(id[1] - 1) : p[m] = ParentOf(p[m + 1])
  BY <1>5 DEF PathDown
<1> DEFINE lo == id[1] - j0
           y == p[lo + 1]
           q == [m \in lo..id[1] |-> IF m = lo THEN ParentOf(y) ELSE p[m]]
<1>11. j0 \in 1..(id[1] - 1)
  BY <1>3, <1>4, <1>1, RetrieverAssumption DEF Heights
<1>7. lo \in 1..(id[1] - 1) /\ lo + 1 \in (id[1] - (j0 - 1))..id[1]
  BY <1>3, <1>4, <1>1, RetrieverAssumption DEF Heights
<1>8. y \in Ids /\ y[1] = lo + 1
  BY <1>6, <1>7
<1>9. ParentOf(y) \in Ids /\ ParentOf(y)[1] = lo
  BY <1>8, <1>7, ParentOfFacts
<1>10. PathDown(id, j0)
  <2>1. q \in [(id[1] - j0)..id[1] -> Ids]
    BY <1>6, <1>9, <1>7, <1>11, <1>1, RetrieverAssumption DEF Heights
  <2>2. q[id[1]] = id
    BY <1>6, <1>7, <1>11, <1>1, RetrieverAssumption DEF Heights
  <2>3. \A m \in (id[1] - j0)..id[1] : q[m][1] = m
    BY <1>6, <1>9, <1>7, <1>11, <1>1, RetrieverAssumption DEF Heights
  <2>4. \A m \in (id[1] - j0)..(id[1] - 1) : q[m] = ParentOf(q[m + 1])
    BY <1>6, <1>7, <1>11, <1>1, RetrieverAssumption DEF Heights
  <2> QED BY <2>1, <2>2, <2>3, <2>4 DEF PathDown
<1> QED BY <1>10, <1>3

(* The chain of an indexed header holds a header at every height up to its *)
(* own.                                                                    *)
LEMMA ChainComplete ==
    ASSUME IInv, NEW id \in Ids, NEW n \in 1..id[1]
    PROVE  \E x \in ChainOf(id) : x[1] = n
<1>1. id \in HdrIds /\ id[1] \in Heights
  BY DEF IInv, TypeOK, Ids, HdrIds
<1>2. PathDown(id, id[1] - n)
  BY <1>1, PathDownAll, RetrieverAssumption DEF Heights
<1>3. PICK p \in [n..id[1] -> Ids] :
        /\ p[id[1]] = id
        /\ \A m \in n..id[1] : p[m][1] = m
        /\ \A m \in n..(id[1] - 1) : p[m] = ParentOf(p[m + 1])
  <2>1. (id[1] - (id[1] - n)) = n
    BY <1>1, RetrieverAssumption DEF Heights
  <2> QED BY <1>2, <2>1 DEF PathDown
<1>4. p[n] \in ChainOf(id) /\ p[n][1] = n
  BY <1>3, <1>1, RetrieverAssumption DEF Heights, ChainOf
<1> QED BY <1>4
(* On a header whose chain is canonical, a header of the index lies on the *)
(* chain exactly when it is canonical and not above it.                    *)
LEMMA CanonicalIsChain ==
    ASSUME IInv, NEW id \in Ids, OnCanonicalChain(id), NEW h \in Ids
    PROVE  (h[1] <= id[1] /\ IsCanonical(h)) <=> h \in ChainOf(id)
<1>1. h \in HdrIds /\ id \in HdrIds
  BY DEF IInv, TypeOK, Ids
<1>2. ASSUME h[1] <= id[1], IsCanonical(h) PROVE h \in ChainOf(id)
  <2>1. PICK x \in ChainOf(id) : x[1] = h[1]
    BY <1>1, <1>2, ChainComplete DEF HdrIds, Heights
  <2>2. IsCanonical(x) /\ x \in HdrIds
    BY <2>1 DEF OnCanonicalChain, ChainOf, IInv, TypeOK, Ids
  <2>3. x = h
    BY <2>1, <2>2, <1>1, <1>2 DEF IsCanonical, HdrIds
  <2> QED BY <2>3
<1>3. ASSUME h \in ChainOf(id) PROVE h[1] <= id[1] /\ IsCanonical(h)
  BY <1>3 DEF OnCanonicalChain, ChainOf
<1> QED BY <1>2, <1>3

(* ORDER BY block_number DESC LIMIT 1 picks a row of greatest height.     *)
LEMMA NewestFacts ==
    ASSUME NEW S, S # {}, \A r \in S : r.h[1] \in Heights
    PROVE  Newest(S) \in S /\ \A s \in S : s.h[1] <= Newest(S).h[1]
<1> DEFINE D == {MaxHeight - r.h[1] : r \in S}
<1>1. D \subseteq Nat /\ D # {}
  BY RetrieverAssumption DEF Heights
<1>2. PICK m \in D : \A j \in D : m <= j
  BY <1>1, LeastNat
<1>3. PICK r \in S : MaxHeight - r.h[1] = m
  BY <1>2
<1>4. \A s \in S : m <= MaxHeight - s.h[1]
  <2> SUFFICES ASSUME NEW s \in S PROVE m <= MaxHeight - s.h[1]
    OBVIOUS
  <2>1. MaxHeight - s.h[1] \in D
    OBVIOUS
  <2> QED BY <2>1, <1>2
<1>5. \A s \in S : s.h[1] <= r.h[1]
  BY <1>4, <1>3, RetrieverAssumption DEF Heights
<1> QED BY <1>5 DEF Newest

(* Rows on indexed headers have heights in range. *)
LEMMA RowHeights ==
    ASSUME IInv
    PROVE  /\ \A r \in stateRows : r.h \in Ids /\ r.h \in HdrIds /\ r.h[1] \in Heights
           /\ \A r \in storageRows : r.h \in Ids /\ r.h \in HdrIds /\ r.h[1] \in Heights
BY DEF IInv, TypeOK, Ids, HdrIds

-----------------------------------------------------------------------------
(* The by-hash reads on a canonical chain. *)

LEMMA AccountNotStale ==
    ASSUME IInv, NEW id \in Ids, NEW c, OnCanonicalChain(id),
           RetrieveAccountByAddressAndBlockHash(c, id) \in Values
    PROVE  RetrieveAccountByAddressAndBlockHash(c, id) = RefAccount(c, id)
<1> DEFINE A == AccountRowsByHash(c, id)
           R == {r \in stateRows : r.c = c /\ r.h \in ChainOf(id)}
<1>1. A = R
  BY RowHeights, CanonicalIsChain DEF AccountRowsByHash
<1>2. A # {} /\ Newest(A).kind = "leaf"
  BY ValuesAssumption DEF RetrieveAccountByAddressAndBlockHash, GetDecoded, DecodeLeaf
<1>3. RetrieveAccountByAddressAndBlockHash(c, id) = Newest(A).v
  BY <1>2 DEF RetrieveAccountByAddressAndBlockHash, GetDecoded, DecodeLeaf
<1>4. RefAccount(c, id) = Newest(A).v
  BY <1>1, <1>2 DEF RefAccount, ValueOf
<1> QED BY <1>3, <1>4
(* The storage read: when the newest row the leaf-key query selects is not *)
(* the newest on the chain, the newest is a removed row the query skips,   *)
(* and the deletion probe then finds it and answers empty.                 *)
LEMMA StorageNotStale ==
    ASSUME IInv, NEW id \in Ids, NEW c, NEW k, OnCanonicalChain(id),
           RetrieveStorageAtByAddressAndStorageKeyAndBlockHash(c, k, id) \in Values
    PROVE  RetrieveStorageAtByAddressAndStorageKeyAndBlockHash(c, k, id)
             = RefSlot(c, k, id)
<1> DEFINE SI == StorageInfo(c, k, id)
           R == {r \in storageRows : r.c = c /\ r.k = k /\ r.h \in ChainOf(id)}
           L == Newest(SI)
           N == Newest(R)
           got == RetrieveStorageAtByAddressAndStorageKeyAndBlockHash(c, k, id)
<1>1. SI = {r \in R : r.kind = "leaf" \/ RemovedKeyed}
  BY RowHeights, CanonicalIsChain DEF StorageInfo, SlotRows
<1>2. SI # {}
  BY ValuesAssumption DEF RetrieveStorageAtByAddressAndStorageKeyAndBlockHash
<1>3. /\ ~wasNodeDeleted(Path[L.c, L.k], L.h[1], id)
      /\ L.kind = "leaf"
      /\ got = L.v
  <2>1. Empty \notin Values /\ DecodeError \notin Values
    BY ValuesAssumption
  <2> QED BY <1>2, <2>1, Zenon
    DEF RetrieveStorageAtByAddressAndStorageKeyAndBlockHash, DecodeLeaf
<1>4. L \in SI /\ \A r \in SI : r.h[1] <= L.h[1]
  BY <1>1, <1>2, RowHeights, NewestFacts
<1>5. N \in R /\ \A r \in R : r.h[1] <= N.h[1]
  BY <1>1, <1>2, RowHeights, NewestFacts
<1>6. N = L
  <2>1. L \in R /\ L.h[1] <= N.h[1]
    BY <1>1, <1>4, <1>5
  <2>2. CASE N.h[1] = L.h[1]
    <3>1. N.h = L.h
      BY <2>1, <2>2, <1>5, RowHeights
      DEF OnCanonicalChain, IsCanonical, HdrIds
    <3> QED BY <3>1, <2>1, <1>5 DEF IInv, StorageRowUnique
  <2>3. CASE N.h[1] # L.h[1]
    <3>1. L.h[1] < N.h[1]
      BY <2>1, <2>3, <1>5, RowHeights DEF Heights
    <3>2. N \notin SI
      <4> SUFFICES ASSUME N \in SI PROVE FALSE
        OBVIOUS
      <4>1. N.h[1] <= L.h[1]
        BY <1>4
      <4> QED BY <4>1, <3>1, <1>1, <1>4, <1>5, RowHeights DEF Heights
    <3>3. N.kind = "removed"
      BY <3>2, <1>1, <1>5, RowHeights DEF IInv, TypeOK, Kinds
    <3>4. N.h \in Ids /\ N.h[1] <= id[1]
      BY <1>5, RowHeights DEF ChainOf
    <3>5. wasNodeDeleted(Path[L.c, L.k], L.h[1], id)
      <4>1. N \in storageRows /\ N.c = L.c /\ N.k = L.k
        BY <1>5, <1>4, <1>1
      <4> QED BY <4>1, <3>1, <3>3, <3>4, Zenon DEF wasNodeDeleted
    <3> QED BY <3>5, <1>3
  <2> QED BY <2>2, <2>3
<1>7. RefSlot(c, k, id) = L.v
  BY <1>3, <1>5, <1>6 DEF RefSlot, ValueOf
<1> QED BY <1>3, <1>7

LEMMA NoStaleValueHolds == IInv => NoStaleValue
BY AccountNotStale, StorageNotStale DEF NoStaleValue

(* The by-hash account and storage reads of IPLDRetriever never return a   *)
(* stale or foreign value at a block on the canonical chain, whatever the  *)
(* forks, reorgs, cleared slots and destroyed contracts of the index.      *)
THEOREM NoStaleValueInvariant == Spec => []NoStaleValue
BY IInvInvariant, NoStaleValueHolds, PTL
-----------------------------------------------------------------------------
(* The account read by hash is stable on the canonical chain. *)

(* A header on the canonical chain has a canonical header of the index at  *)
(* every height up to its own.                                             *)
LEMMA CanonBelow ==
    ASSUME IInv, NEW id \in Ids, OnCanonicalChain(id), NEW n \in 1..id[1]
    PROVE  \E x \in ChainOf(id) : x[1] = n /\ canon[n] = x[2] /\ x \in Ids
                                  /\ x = <<n, canon[n]>> /\ canon[n] # NoBranch
<1>1. PICK x \in ChainOf(id) : x[1] = n
  BY ChainComplete
<1>2. x \in Ids /\ x \in HdrIds /\ IsCanonical(x)
  BY <1>1 DEF ChainOf, OnCanonicalChain, IInv, TypeOK, Ids
<1> QED BY <1>1, <1>2, BranchesAssumption DEF IsCanonical, HdrIds

(* The account read by hash keeps its answer when no row it could select   *)
(* is added and canonical_header keeps its answers up to the block.        *)
LEMMA AccountRowsStable ==
    ASSUME IInv, NEW id \in Ids, NEW c,
           stateRows \subseteq stateRows',
           \A r \in stateRows' \ stateRows : ~(r.h[1] <= id[1] /\ canon'[r.h[1]] = r.h[2]),
           \A n \in 1..id[1] : canon'[n] = canon[n]
    PROVE  RetrieveAccountByAddressAndBlockHash(c, id)'
             = RetrieveAccountByAddressAndBlockHash(c, id)
<1>1. AccountRowsByHash(c, id)' = AccountRowsByHash(c, id)
  BY RowHeights DEF AccountRowsByHash, IsCanonical, Heights
<1> QED BY <1>1 DEF RetrieveAccountByAddressAndBlockHash

LEMMA AccountReadStep ==
    ASSUME IInv, [Next]_vars
    PROVE  AccountReadKept
<1> SUFFICES ASSUME NEW id \in Ids, NEW c \in Contracts,
                    OnCanonicalChain(id), OnCanonicalChain(id)'
             PROVE  RetrieveAccountByAddressAndBlockHash(c, id)'
                      = RetrieveAccountByAddressAndBlockHash(c, id)
  BY DEF AccountReadKept
<1>1. id \in HdrIds /\ id[1] \in Heights
  BY DEF IInv, TypeOK, Ids, HdrIds
<1>2. CASE \E nid \in HdrIds, b \in Branches \cup {NoBranch}, ch \in Changes :
              IndexBlock(nid, <<nid[1] - 1, b>>, ch)
  <2>1. PICK nid \in HdrIds, b \in Branches \cup {NoBranch}, ch \in Changes :
              IndexBlock(nid, <<nid[1] - 1, b>>, ch)
    BY <1>2
  <2>2. nid \notin Ids /\ stateRows \subseteq stateRows'
        /\ \A r \in stateRows' \ stateRows : r.h = nid
    BY <2>1 DEF IndexBlock
  <2>3. nid[1] <= id[1] => canon[nid[1]] # NoBranch
    BY <2>1, <1>1, CanonBelow DEF HdrIds, Heights
  <2>4. \A n \in 1..id[1] : canon'[n] = canon[n]
    BY <2>1, <2>3, <1>1 DEF IndexBlock, IInv, TypeOK, Heights, HdrIds
  <2>5. ~(nid[1] <= id[1] /\ canon'[nid[1]] = nid[2])
    <3> SUFFICES ASSUME nid[1] <= id[1], canon'[nid[1]] = nid[2] PROVE FALSE
      OBVIOUS
    <3>1. nid[1] \in 1..id[1]
      BY DEF HdrIds, Heights
    <3>2. canon[nid[1]] = nid[2]
      BY <3>1, <2>4
    <3>3. <<nid[1], canon[nid[1]]>> \in Ids
      BY <3>1, CanonBelow
    <3> QED BY <3>2, <3>3, <2>2 DEF HdrIds
  <2> QED BY <2>2, <2>4, <2>5, AccountRowsStable
<1>3. CASE \E rid \in HdrIds : Reorg(rid)
  <2>1. PICK rid \in HdrIds : Reorg(rid)
    BY <1>3
  <2>2. headers' = headers /\ stateRows' = stateRows
        /\ canon' = [canon EXCEPT ![rid[1]] = rid[2]] /\ canon[rid[1]] # rid[2]
    BY <2>1 DEF Reorg, IsCanonical
  <2>3. ChainOf(id)' = ChainOf(id) /\ Ids' = Ids
    BY <2>2 DEF ChainOf, Ids, ParentOf
  <2>4. ~(rid[1] <= id[1])
    <3> SUFFICES ASSUME rid[1] <= id[1] PROVE FALSE
      OBVIOUS
    <3>1. PICK x \in ChainOf(id) : x[1] = rid[1] /\ canon[rid[1]] = x[2]
      BY <1>1, CanonBelow DEF HdrIds, Heights
    <3>2. canon'[rid[1]] = x[2]
      BY <3>1, <2>3 DEF OnCanonicalChain, IsCanonical
    <3>3. canon'[rid[1]] = rid[2]
      BY <2>2 DEF IInv, TypeOK, HdrIds
    <3> QED BY <3>1, <3>2, <3>3, <2>2
  <2>5. \A n \in 1..id[1] : canon'[n] = canon[n]
    BY <2>2, <2>4, <1>1 DEF IInv, TypeOK, Heights, HdrIds
  <2> QED BY <2>2, <2>5, AccountRowsStable
<1>4. CASE UNCHANGED vars
  BY <1>4, AccountRowsStable DEF vars
<1> QED BY <1>2, <1>3, <1>4 DEF Next

(* The account read by the hash of a block on the canonical chain keeps    *)
(* its answer for as long as the block stays there, whatever the indexer  *)
(* writes after it and however the chain reorganises above it.            *)
THEOREM AccountReadStableHolds == Spec => AccountReadStable
<1>1. IInv /\ [Next]_vars => [AccountReadKept]_vars
  BY AccountReadStep
<1> QED BY <1>1, IInvInvariant, PTL DEF Spec, AccountReadStable
====
