------------------------ MODULE MCSubscriptionEngine ------------------------
(* Instances of the subscription engine for TLC.                           *)
EXTENDS SubscriptionEngine, TLC

CONSTANTS s1, s2

MCSubIds == {s1, s2}

(* A plain live subscription with no End; a live subscription that also   *)
(* backfills and ends at block 2, whose filters may match nothing; a       *)
(* backfill-only subscription from block 2 on.                             *)
MCParams ==
    { [backFill |-> FALSE, backFillOnly |-> FALSE, start |-> 0, end |-> 0, headerOn |-> TRUE],
      [backFill |-> TRUE, backFillOnly |-> FALSE, start |-> 0, end |-> 2, headerOn |-> FALSE],
      [backFill |-> FALSE, backFillOnly |-> TRUE, start |-> 2, end |-> 0, headerOn |-> TRUE] }

(* A backfill-only request for exactly block 2 (Start = End = 2).          *)
MCRangeParams ==
    { [backFill |-> FALSE, backFillOnly |-> TRUE, start |-> 2, end |-> 2, headerOn |-> TRUE] }

(* A live subscription with backfill, over an index that may be empty.     *)
MCQuitParams ==
    { [backFill |-> TRUE, backFillOnly |-> FALSE, start |-> 0, end |-> 0, headerOn |-> TRUE] }

(* One subscriber, for the liveness runs. *)
MCOneSubId == {s1}

MCSymmetry == Permutations(MCSubIds)
=============================================================================
