--------------------------- MODULE MCCIDRetriever ---------------------------
(* Instances of the CIDRetriever reads for TLC. *)
EXTENDS CIDRetriever

CONSTANTS t1, t2, a1, a2, x1, x2, s1, b1, b2

MCTxs == {t1, t2}
MCOneTx == {t1}
MCAddrs == {a1, a2}
MCTopicVals == {x1, x2}
MCSlots == {s1}
MCBranches == {b1, b2}
MCPositions == {0, 1}
MCOnePosition == {0}

(* t1 is sent by a1 to a1, t2 by a1 to a2. *)
MCTxSrc == [t \in Txs |-> a1]
MCTxDst == [t \in Txs |-> IF t = t1 THEN a1 ELSE a2]

(* Blocks without state or storage nodes. *)
MCNoNodes == {[state |-> {}, storage |-> {}]}

(* A block touching contract a1: its leaf with a branch node above it and  *)
(* a storage leaf; its destruction (removed leaf and slot); or nothing.     *)
MCNodes ==
    MCNoNodes \cup
    {[state |-> {[acct |-> NoKey, kind |-> "branch"], [acct |-> a1, kind |-> "leaf"]},
      storage |-> {[acct |-> a1, slot |-> NoKey, kind |-> "branch"],
                   [acct |-> a1, slot |-> s1, kind |-> "leaf"]}],
     [state |-> {[acct |-> a1, kind |-> "removed"]},
      storage |-> {[acct |-> a1, slot |-> s1, kind |-> "removed"]}]}

(* Three logs: of a1 with topics x1 x1, of a1 with x2 x1, of a2 with x1 x2. *)
MCLogs ==
    {[addr |-> a1, topics |-> [i \in Positions |-> x1]],
     [addr |-> a1, topics |-> [i \in Positions |-> IF i = 0 THEN x2 ELSE x1]],
     [addr |-> a2, topics |-> [i \in Positions |-> IF i = 0 THEN x1 ELSE x2]]}

NoTopics == [i \in Positions |-> {}]

(* A subscription that takes everything and matches nothing in particular. *)
AllOn == [headerOff |-> FALSE, uncles |-> TRUE,
          txOff |-> FALSE, dst |-> {}, src |-> {},
          rctOff |-> FALSE, logAddrs |-> {}, topics |-> NoTopics, matchTxs |-> FALSE,
          stateOff |-> FALSE, stateAddrs |-> {}, stateInter |-> FALSE,
          storageOff |-> FALSE, storageAddrs |-> {}, storageKeys |-> {},
          storageInter |-> FALSE]

(* The receipts of transactions to a2 or of logs of a1; those of logs with *)
(* topic x1 first; the transactions to a1 and their receipts only; the     *)
(* intermediate nodes of a1 without headers.                               *)
MCFilters ==
    {AllOn,
     [AllOn EXCEPT !.dst = {a2}, !.logAddrs = {a1}, !.matchTxs = TRUE],
     [AllOn EXCEPT !.topics = [i \in Positions |-> IF i = 0 THEN {x1} ELSE {}]],
     [AllOn EXCEPT !.dst = {a1}, !.matchTxs = TRUE],
     [AllOn EXCEPT !.headerOff = TRUE, !.stateAddrs = {a1}, !.stateInter = TRUE,
                   !.storageAddrs = {a1}, !.storageKeys = {s1}, !.storageInter = TRUE]}
====
