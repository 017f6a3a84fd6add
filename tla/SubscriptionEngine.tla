------------------------- MODULE SubscriptionEngine -------------------------
(***************************************************************************)
(* The subscription engine of the eth IPLD server: the Service struct of   *)
(* package serve (src/unnamed/part_000).  It keeps live subscriptions in   *)
(* buckets keyed by subscription type (the hash of the RLP-encoded         *)
(* settings), filters every payload pushed by the indexer once per bucket  *)
(* and fans the result out with non-blocking sends, and runs one backfill  *)
(* goroutine per subscription that asked for historical data.              *)
(*                                                                         *)
(* Data is abstracted: a payload is its block height, a subscription       *)
(* type is the settings record itself (the Keccak hash of its RLP is       *)
(* taken as injective), a message on a subscriber's channel is its origin  *)
(* and height.  All control is kept: the order of the steps, the           *)
(* non-blocking sends that drop on a full buffer, every error path but     *)
(* the rlp.EncodeToBytes failures, which these values cannot cause.        *)
(***************************************************************************)
EXTENDS Integers, Sequences

CONSTANTS
    SubIds,         \* rpc.IDs of subscriptions (model values)
    Params,         \* SubscriptionSettings values clients may send
    FirstBlock,     \* lowest block number the indexer writes
    InitLast,       \* highest indexed block at start (< FirstBlock: empty index)
    MaxBlock,       \* bound: the indexer stops after this block
    InboxCap,       \* buffer of the screenAndServePayload channel (2000 in code)
    ChanCap,        \* buffer of a subscriber's PayloadChan
    MaxStops,       \* bound: how many times Stop() may be called
    MaxWrappers,    \* bound: cidWrappers Retrieve returns for one block
    DbMayFail,      \* whether a database read may fail (connection errors)
    FilterMayFail   \* whether Filterer.Filter may return an error

ASSUME ConstantsAssumption ==
    /\ FirstBlock \in Nat
    /\ InitLast \in Nat
    /\ MaxBlock \in Nat
    /\ InitLast <= MaxBlock
    /\ InboxCap \in Nat \ {0}
    /\ ChanCap \in Nat \ {0}
    /\ MaxStops \in Nat
    /\ MaxWrappers \in Nat \ {0}
    /\ DbMayFail \in BOOLEAN
    /\ FilterMayFail \in BOOLEAN

(* The fields of SubscriptionSettings the engine reads.  headerOn is       *)
(* ~HeaderFilter.Off: with it every indexed block yields a non-empty CID   *)
(* set in Retrieve.                                                        *)
SettingsType ==
    [backFill: BOOLEAN, backFillOnly: BOOLEAN, start: Nat, end: Nat,
     headerOn: BOOLEAN]

ASSUME ParamsAssumption == Params \subseteq SettingsType /\ Params # {}

(* Where a SubscriptionPayload on a subscriber channel comes from: the     *)
(* live path, the backfill loop, the BackFillCompleteFlag sentinel, or an  *)
(* error report (Err set).                                                 *)
Origins == {"live", "backfill", "complete", "error"}
Msg == [origin: Origins, height: Nat]

(* Where a subscription's Subscribe call and backfill goroutine are.       *)
Phases == {"new", "backfillInit", "check", "fetch", "send", "done"}

VARIABLES
    Subscriptions,      \* Service.Subscriptions: type -> set of rpc.IDs ({} = no entry)
    SubscriptionTypes,  \* keys of Service.SubscriptionTypes
    quitClosed,         \* Service.QuitChan has been closed
    serving,            \* the Serve goroutine is running
    inbox,              \* screenAndServePayload channel contents (heights)
    dbLast,             \* highest block number in eth.header_cids
    settings,           \* the params each client passes to Subscribe
    phase,              \* control point of Subscribe / backfill goroutine
    bfNext,             \* backfill loop variable i
    bfEnd,              \* backfill endingBlock
    bfWrappers,         \* cidWrappers of block i not yet fetched and sent
    chan,               \* each subscriber's PayloadChan buffer
    sent,               \* history: every message ever put on each PayloadChan
    quitSent,           \* sendNonBlockingQuit was called for the subscription
    stops,              \* number of Stop() calls so far
    crashed             \* the process panicked

vars == <<Subscriptions, SubscriptionTypes, quitClosed, serving, inbox,
          dbLast, settings, phase, bfNext, bfEnd, bfWrappers, chan, sent,
          quitSent, stops, crashed>>

-----------------------------------------------------------------------------
(* Helpers *)

(* Non-blocking send of m to every subscription in ids: the select with a  *)
(* default branch drops m for a subscriber whose buffer is full.           *)
TrySend(ids, m) ==
    LET ok(i) == i \in ids /\ Len(chan[i]) < ChanCap
    IN  /\ chan' = [i \in SubIds |-> IF ok(i) THEN Append(chan[i], m) ELSE chan[i]]
        /\ sent' = [i \in SubIds |-> IF ok(i) THEN Append(sent[i], m) ELSE sent[i]]

(* sendNonBlockingErr: an error payload, dropped on a full buffer.         *)
SendNonBlockingErr(id) == TrySend({id}, [origin |-> "error", height |-> 0])

(* The subscriptions registered under type ty.                             *)
Bucket(ty) == Subscriptions[ty]

(* Types present as keys of Service.Subscriptions.                         *)
LiveTypes == {ty \in Params : Subscriptions[ty] # {}}

(* RetrieveFirstBlockNumber / RetrieveLastBlockNumber fail with            *)
(* sql.ErrNoRows on an empty header table.                                 *)
IndexEmpty == dbLast < FirstBlock

Max2(a, b) == IF a >= b THEN a ELSE b

(* endingBlock of sendHistoricalData: the last indexed block, cut down to  *)
(* params.End only when End is set and lies strictly above startingBlock.  *)
BackfillEnd(p, start) ==
    IF dbLast > p.end /\ p.end > 0 /\ p.end > start THEN p.end ELSE dbLast

(* Outcomes of Retrieve(params, i) for an indexed block i: a header filter *)
(* that is on always yields data; otherwise the filters may match nothing. *)
RetrieveOutcomes(p) ==
    (IF p.headerOn THEN {"data"} ELSE {"data", "empty"})
    \cup (IF DbMayFail THEN {"error"} ELSE {})

-----------------------------------------------------------------------------
Init ==
    /\ Subscriptions = [ty \in Params |-> {}]
    /\ SubscriptionTypes = {}
    /\ quitClosed = FALSE
    /\ serving = TRUE
    /\ inbox = <<>>
    /\ dbLast = InitLast
    /\ settings \in [SubIds -> Params]
    /\ phase = [i \in SubIds |-> "new"]
    /\ bfNext = [i \in SubIds |-> 0]
    /\ bfEnd = [i \in SubIds |-> 0]
    /\ bfWrappers = [i \in SubIds |-> 0]
    /\ chan = [i \in SubIds |-> <<>>]
    /\ sent = [i \in SubIds |-> <<>>]
    /\ quitSent = [i \in SubIds |-> FALSE]
    /\ stops = 0
    /\ crashed = FALSE

-----------------------------------------------------------------------------
(* The indexer writes block dbLast+1 to the index, then pushes its         *)
(* converted payload on the engine's channel (blocking while it is full).  *)
Publish ==
    /\ dbLast < MaxBlock
    /\ Len(inbox) < InboxCap
    /\ dbLast' = dbLast + 1
    /\ inbox' = Append(inbox, dbLast + 1)
    /\ UNCHANGED <<Subscriptions, SubscriptionTypes, quitClosed, serving,
                   settings, phase, bfNext, bfEnd, bfWrappers, chan, sent,
                   quitSent, stops, crashed>>

(* Serve: the select takes the QuitChan branch and the goroutine returns.  *)
ServeQuit ==
    /\ serving
    /\ quitClosed
    /\ serving' = FALSE
    /\ UNCHANGED <<Subscriptions, SubscriptionTypes, quitClosed, inbox,
                   dbLast, settings, phase, bfNext, bfEnd, bfWrappers, chan,
                   sent, quitSent, stops, crashed>>

(* Variant for mutation testing: the bucket is quit but left in place.     *)
closeTypeKeepBucket(tys) ==
    /\ quitSent' = [i \in SubIds |->
                      quitSent[i] \/ \E ty \in tys : i \in Bucket(ty)]
    /\ UNCHANGED Subscriptions
    /\ SubscriptionTypes' = SubscriptionTypes \ tys

(* closeType for every type in tys: quit each member, drop both entries.   *)
closeType(tys) ==
    /\ quitSent' = [i \in SubIds |->
                      quitSent[i] \/ \E ty \in tys : i \in Bucket(ty)]
    /\ Subscriptions' = [ty \in Params |->
                           IF ty \in tys THEN {} ELSE Subscriptions[ty]]
    /\ SubscriptionTypes' = SubscriptionTypes \ tys

(* Variant for mutation testing: no End check on the live path.            *)
filterAndServeNoEndCheck(h, failed) ==
    LET closing == {ty \in LiveTypes :
                        ty \notin SubscriptionTypes \/ ty \in failed}
    IN  /\ closeType(closing)
        /\ TrySend(UNION {Bucket(ty) : ty \in LiveTypes \ closing},
                   [origin |-> "live", height |-> h])

(* filterAndServe(h), whole, under the engine mutex: every bucket whose    *)
(* settings are missing, whose End lies below h, or whose filter fails is  *)
(* closed with closeType; every other bucket gets the filtered response by *)
(* a non-blocking send to each member.  failed is the set of types for     *)
(* which Filterer.Filter returns an error.                                 *)
filterAndServe(h, failed) ==
    LET closing == {ty \in LiveTypes :
                        \/ ty \notin SubscriptionTypes
                        \/ ty.end > 0 /\ ty.end < h
                        \/ ty \in failed}
    IN  /\ closeType(closing)
        /\ TrySend(UNION {Bucket(ty) : ty \in LiveTypes \ closing},
                   [origin |-> "live", height |-> h])

(* Filter failures Filterer.Filter may report in one pass.                 *)
FilterFailures == IF FilterMayFail THEN SUBSET LiveTypes ELSE {{}}

(* Variant for mutation testing: payloads handled concurrently, in any     *)
(* order, as with "go sap.filterAndServe(payload)".                        *)
ServePayloadConcurrent ==
    /\ serving
    /\ \E k \in 1..Len(inbox), failed \in FilterFailures :
          /\ filterAndServe(inbox[k], failed)
          /\ inbox' = [j \in 1..Len(inbox) - 1 |->
                          IF j < k THEN inbox[j] ELSE inbox[j + 1]]
    /\ UNCHANGED <<quitClosed, serving, dbLast, settings, phase, bfNext,
                   bfEnd, bfWrappers, stops, crashed>>

(* Serve: the select takes the payload branch.                             *)
ServePayload ==
    /\ serving
    /\ inbox # <<>>
    /\ \E failed \in FilterFailures : filterAndServe(Head(inbox), failed)
    /\ inbox' = Tail(inbox)
    /\ UNCHANGED <<quitClosed, serving, dbLast, settings, phase, bfNext,
                   bfEnd, bfWrappers, stops, crashed>>

(* Subscribe, up to the call of sendHistoricalData: unless the settings    *)
(* ask for backfill only, the subscription is added to its type's bucket   *)
(* and the settings recorded, under the mutex.                             *)
Subscribe(id) ==
    LET p == settings[id] IN
    /\ phase[id] = "new"
    /\ IF p.backFillOnly
          THEN UNCHANGED <<Subscriptions, SubscriptionTypes>>
          ELSE /\ Subscriptions' = [Subscriptions EXCEPT ![p] = @ \cup {id}]
               /\ SubscriptionTypes' = SubscriptionTypes \cup {p}
    /\ phase' = [phase EXCEPT ![id] =
                   IF p.backFill \/ p.backFillOnly THEN "backfillInit" ELSE "done"]
    /\ UNCHANGED <<quitClosed, serving, inbox, dbLast, settings, bfNext,
                   bfEnd, bfWrappers, chan, sent, quitSent, stops, crashed>>

(* sendHistoricalData up to the start of its goroutine.  When reading the  *)
(* first or last block number fails, Subscribe reports the error and      *)
(* sends quit, and returns: the subscription stays in its bucket.          *)
sendHistoricalData(id) ==
    LET p     == settings[id]
        start == Max2(FirstBlock, p.start)
    IN
    /\ phase[id] = "backfillInit"
    /\ \/ /\ IndexEmpty \/ DbMayFail
          /\ SendNonBlockingErr(id)
          /\ quitSent' = [quitSent EXCEPT ![id] = TRUE]
          /\ phase' = [phase EXCEPT ![id] = "done"]
          /\ UNCHANGED <<bfNext, bfEnd>>
       \/ /\ ~IndexEmpty
          /\ bfNext' = [bfNext EXCEPT ![id] = start]
          /\ bfEnd' = [bfEnd EXCEPT ![id] = BackfillEnd(p, start)]
          /\ phase' = [phase EXCEPT ![id] = "check"]
          /\ UNCHANGED <<chan, sent, quitSent>>
    /\ UNCHANGED <<Subscriptions, SubscriptionTypes, quitClosed, serving,
                   inbox, dbLast, settings, bfWrappers, stops, crashed>>

(* Backfill goroutine, head of the loop: past endingBlock it sends the     *)
(* BackFillComplete sentinel (non-blocking) and ends; otherwise it returns *)
(* if QuitChan is closed, else goes on to fetch block i.                   *)
BackfillCheck(id) ==
    /\ phase[id] = "check"
    /\ \/ /\ bfNext[id] > bfEnd[id]
          /\ TrySend({id}, [origin |-> "complete", height |-> 0])
          /\ phase' = [phase EXCEPT ![id] = "done"]
       \/ /\ bfNext[id] <= bfEnd[id]
          /\ quitClosed
          /\ phase' = [phase EXCEPT ![id] = "done"]
          /\ UNCHANGED <<chan, sent>>
       \/ /\ bfNext[id] <= bfEnd[id]
          /\ ~quitClosed
          /\ phase' = [phase EXCEPT ![id] = "fetch"]
          /\ UNCHANGED <<chan, sent>>
    /\ UNCHANGED <<Subscriptions, SubscriptionTypes, quitClosed, serving,
                   inbox, dbLast, settings, bfNext, bfEnd, bfWrappers,
                   quitSent, stops, crashed>>

(* Variant for mutation testing: a failed Retrieve retries block i.        *)
BackfillFetchRetry(id) ==
    LET i == bfNext[id] IN
    /\ phase[id] = "fetch"
    /\ \E outcome \in RetrieveOutcomes(settings[id]) :
          \/ /\ outcome = "error"
             /\ SendNonBlockingErr(id)
             /\ phase' = [phase EXCEPT ![id] = "check"]
             /\ UNCHANGED <<bfNext, bfWrappers>>
          \/ /\ outcome = "empty"
             /\ phase' = [phase EXCEPT ![id] = "check"]
             /\ bfNext' = [bfNext EXCEPT ![id] = i + 1]
             /\ UNCHANGED <<chan, sent, bfWrappers>>
          \/ /\ outcome = "data"
             /\ \E w \in 1..MaxWrappers : bfWrappers' = [bfWrappers EXCEPT ![id] = w]
             /\ phase' = [phase EXCEPT ![id] = "send"]
             /\ UNCHANGED <<chan, sent, bfNext>>
    /\ UNCHANGED <<Subscriptions, SubscriptionTypes, quitClosed, serving,
                   inbox, dbLast, settings, bfEnd, quitSent, stops, crashed>>

(* Backfill goroutine, body for block i: Retrieve the CIDs; on an error    *)
(* report it and continue; on an empty result continue; otherwise go on to *)
(* the cidWrappers it returned, one per header at the height.              *)
BackfillFetch(id) ==
    LET i == bfNext[id] IN
    /\ phase[id] = "fetch"
    /\ \E outcome \in RetrieveOutcomes(settings[id]) :
          \/ /\ outcome = "error"
             /\ SendNonBlockingErr(id)
             /\ phase' = [phase EXCEPT ![id] = "check"]
             /\ bfNext' = [bfNext EXCEPT ![id] = i + 1]
             /\ UNCHANGED bfWrappers
          \/ /\ outcome = "empty"
             /\ phase' = [phase EXCEPT ![id] = "check"]
             /\ bfNext' = [bfNext EXCEPT ![id] = i + 1]
             /\ UNCHANGED <<chan, sent, bfWrappers>>
          \/ /\ outcome = "data"
             /\ \E w \in 1..MaxWrappers : bfWrappers' = [bfWrappers EXCEPT ![id] = w]
             /\ phase' = [phase EXCEPT ![id] = "send"]
             /\ UNCHANGED <<chan, sent, bfNext>>
    /\ UNCHANGED <<Subscriptions, SubscriptionTypes, quitClosed, serving,
                   inbox, dbLast, settings, bfEnd, quitSent, stops, crashed>>

(* Backfill goroutine, one cidWrapper of block i: Fetch its IPLDs, which   *)
(* may fail and is reported, else try to send the payload; QuitChan is not *)
(* looked at between wrappers.  After the last one the loop increments i.  *)
BackfillSend(id) ==
    LET i == bfNext[id] IN
    /\ phase[id] = "send"
    /\ \/ TrySend({id}, [origin |-> "backfill", height |-> i])
       \/ DbMayFail /\ SendNonBlockingErr(id)
    /\ bfWrappers' = [bfWrappers EXCEPT ![id] = @ - 1]
    /\ IF bfWrappers[id] = 1
          THEN /\ phase' = [phase EXCEPT ![id] = "check"]
               /\ bfNext' = [bfNext EXCEPT ![id] = i + 1]
          ELSE UNCHANGED <<phase, bfNext>>
    /\ UNCHANGED <<Subscriptions, SubscriptionTypes, quitClosed, serving,
                   inbox, dbLast, settings, bfEnd, quitSent, stops, crashed>>

(* Variant for mutation testing: the settings entry is never deleted.      *)
UnsubscribeKeepSettings(id) ==
    /\ phase[id] # "new"
    /\ Subscriptions' = [ty \in Params |-> Subscriptions[ty] \ {id}]
    /\ UNCHANGED <<SubscriptionTypes, quitClosed, serving, inbox, dbLast,
                   settings, phase, bfNext, bfEnd, bfWrappers, chan, sent,
                   quitSent, stops, crashed>>

(* Unsubscribe(id): remove id from every bucket, dropping a bucket and its *)
(* settings when it becomes empty.  The API may call it for any id it has  *)
(* handed out, more than once.                                             *)
Unsubscribe(id) ==
    /\ phase[id] # "new"
    /\ Subscriptions' = [ty \in Params |-> Subscriptions[ty] \ {id}]
    /\ SubscriptionTypes' =
           SubscriptionTypes \ {ty \in Params : Subscriptions[ty] = {id}}
    /\ UNCHANGED <<quitClosed, serving, inbox, dbLast, settings, phase,
                   bfNext, bfEnd, bfWrappers, chan, sent, quitSent, stops,
                   crashed>>

(* close(): closeType for every type in Service.Subscriptions.             *)
close == closeType(LiveTypes)

(* Stop(): under the mutex, close(QuitChan) then close().  Closing an      *)
(* already closed channel panics.                                          *)
Stop ==
    /\ stops < MaxStops
    /\ stops' = stops + 1
    /\ \/ /\ ~quitClosed
          /\ quitClosed' = TRUE
          /\ close
          /\ UNCHANGED crashed
       \/ /\ quitClosed
          /\ crashed' = TRUE
          /\ UNCHANGED <<quitClosed, Subscriptions, SubscriptionTypes, quitSent>>
    /\ UNCHANGED <<serving, inbox, dbLast, settings, phase, bfNext, bfEnd, bfWrappers,
                   chan, sent>>

(* The subscriber's notifier goroutine takes a payload off its channel.    *)
Receive(id) ==
    /\ chan[id] # <<>>
    /\ chan' = [chan EXCEPT ![id] = Tail(@)]
    /\ UNCHANGED <<Subscriptions, SubscriptionTypes, quitClosed, serving,
                   inbox, dbLast, settings, phase, bfNext, bfEnd, bfWrappers, sent,
                   quitSent, stops, crashed>>

-----------------------------------------------------------------------------
Next ==
    /\ ~crashed
    /\ \/ Publish
       \/ ServeQuit
       \/ ServePayload
       \/ Stop
       \/ \E id \in SubIds :
            \/ Subscribe(id)
            \/ sendHistoricalData(id)
            \/ BackfillCheck(id)
            \/ BackfillFetch(id)
            \/ BackfillSend(id)
            \/ Unsubscribe(id)
            \/ Receive(id)

(* The Serve goroutine and the backfill goroutines are scheduled by the Go *)
(* runtime, which runs every runnable goroutine eventually; the mutex they *)
(* share is held only for bounded work.  Clients, the indexer and Stop are *)
(* the environment and owe nothing.                                        *)
Fairness ==
    /\ WF_vars(~crashed /\ ServePayload)
    /\ WF_vars(~crashed /\ ServeQuit)
    /\ \A id \in SubIds :
          /\ WF_vars(~crashed /\ sendHistoricalData(id))
          /\ WF_vars(~crashed /\ BackfillCheck(id))
          /\ WF_vars(~crashed /\ BackfillFetch(id))
          /\ WF_vars(~crashed /\ BackfillSend(id))

Spec == Init /\ [][Next]_vars /\ Fairness

-----------------------------------------------------------------------------
(* Properties *)

TypeOK ==
    /\ Subscriptions \in [Params -> SUBSET SubIds]
    /\ SubscriptionTypes \subseteq Params
    /\ quitClosed \in BOOLEAN
    /\ serving \in BOOLEAN
    /\ inbox \in Seq(Nat)
    /\ dbLast \in Nat
    /\ settings \in [SubIds -> Params]
    /\ phase \in [SubIds -> Phases]
    /\ bfNext \in [SubIds -> Nat]
    /\ bfEnd \in [SubIds -> Nat]
    /\ bfWrappers \in [SubIds -> 0..MaxWrappers]
    /\ \A i \in SubIds : phase[i] = "send" => bfWrappers[i] # 0
    /\ chan \in [SubIds -> Seq(Msg)]
    /\ \A i \in SubIds : Len(chan[i]) <= ChanCap
    /\ sent \in [SubIds -> Seq(Msg)]
    /\ quitSent \in [SubIds -> BOOLEAN]
    /\ stops \in Nat
    /\ crashed \in BOOLEAN

(* The two maps of the Service stay in step through Subscribe,             *)
(* Unsubscribe, closeType and close: a type has recorded settings exactly  *)
(* when its bucket is non-empty.  So the "configuration not available"     *)
(* branch of filterAndServe is dead, and no settings leak.                 *)
SettingsInSync == SubscriptionTypes = LiveTypes

(* A subscription with an End never receives a live payload above End:     *)
(* filterAndServe closes its bucket on the first payload past End.         *)
LiveWithinEnd ==
    \A id \in SubIds : \A k \in 1..Len(sent[id]) :
        (sent[id][k].origin = "live" /\ settings[id].end > 0)
            => sent[id][k].height <= settings[id].end

(* Live payloads reach a subscription in the order the indexer produced    *)
(* them, each at most once: the Serve loop handles one payload at a time,  *)
(* under the mutex, in channel order.                                      *)
LiveOrdered ==
    \A id \in SubIds : \A j, k \in 1..Len(sent[id]) :
        (j < k /\ sent[id][j].origin = "live" /\ sent[id][k].origin = "live")
            => sent[id][j].height < sent[id][k].height

(* Every backfill goroutine ends: its loop is bounded by endingBlock.      *)
BackfillTerminates ==
    \A id \in SubIds : phase[id] \in {"check", "fetch", "send"} ~> phase[id] = "done"

(* A subscription whose End has been overtaken by a pushed payload is      *)
(* eventually dropped from its bucket (with a quit), unless the Serve      *)
(* goroutine has stopped.                                                  *)
EndedSubscriptionClosed ==
    \A id \in SubIds :
        (/\ id \in Bucket(settings[id])
         /\ settings[id].end > 0
         /\ \E k \in 1..Len(inbox) : inbox[k] > settings[id].end)
        ~> (id \notin Bucket(settings[id]) \/ ~serving)

(* Spec 8: "Stop twice is safe".                                           *)
StopIsIdempotent == ~crashed

(* Spec 4.6: the backfill covers the intersection of [Start, End] with the *)
(* indexed range, so no backfill payload lies outside [Start, End].        *)
BackfillWithinRange ==
    \A id \in SubIds : \A k \in 1..Len(sent[id]) :
        sent[id][k].origin = "backfill" =>
            /\ settings[id].start <= sent[id][k].height
            /\ settings[id].end > 0 => sent[id][k].height <= settings[id].end

(* Spec 4.6: a terminated subscription is not re-deliverable: once quit    *)
(* has been sent to a subscription, nothing more is put on its channel.    *)
NoDeliveryAfterQuit ==
    [][\A id \in SubIds : quitSent[id] => sent'[id] = sent[id]]_vars

=============================================================================
