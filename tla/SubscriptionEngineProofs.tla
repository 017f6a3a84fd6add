---------------------- MODULE SubscriptionEngineProofs ----------------------
(***************************************************************************)
(* Proofs about the subscription engine, for every value of the constants *)
(* that satisfies ConstantsAssumption and ParamsAssumption.                *)
(***************************************************************************)
EXTENDS SubscriptionEngine, SequenceTheorems, TLAPS

USE ConstantsAssumption, ParamsAssumption

(* The message a non-blocking send appends is of type Msg whenever its    *)
(* height is a natural number.                                             *)
LEMMA TrySendType ==
    ASSUME TypeOK, NEW ids \in SUBSET SubIds, NEW m \in Msg,
           TrySend(ids, m)
    PROVE  /\ chan' \in [SubIds -> Seq(Msg)]
           /\ \A i \in SubIds : Len(chan'[i]) <= ChanCap
           /\ sent' \in [SubIds -> Seq(Msg)]
  BY DEF TypeOK, TrySend

(* The initial state is well typed: no subscription, empty buffers.        *)
LEMMA TypeInit == Init => TypeOK
  <1> SUFFICES ASSUME Init PROVE TypeOK
    OBVIOUS
  <1>1. /\ chan \in [SubIds -> Seq(Msg)]
        /\ sent \in [SubIds -> Seq(Msg)]
        /\ \A i \in SubIds : Len(chan[i]) <= ChanCap
    BY DEF Init
  <1>2. /\ phase \in [SubIds -> Phases]
        /\ bfNext \in [SubIds -> Nat]
        /\ bfEnd \in [SubIds -> Nat]
        /\ bfWrappers \in [SubIds -> 0..MaxWrappers]
        /\ \A i \in SubIds : phase[i] = "send" => bfWrappers[i] # 0
        /\ quitSent \in [SubIds -> BOOLEAN]
    BY DEF Init, Phases
  <1>3. /\ Subscriptions \in [Params -> SUBSET SubIds]
        /\ SubscriptionTypes \subseteq Params
        /\ inbox \in Seq(Nat)
        /\ settings \in [SubIds -> Params]
    BY DEF Init
  <1>4. /\ quitClosed \in BOOLEAN /\ serving \in BOOLEAN /\ crashed \in BOOLEAN
        /\ dbLast \in Nat /\ stops \in Nat
    BY DEF Init
  <1>5. QED
    BY <1>1, <1>2, <1>3, <1>4 DEF TypeOK

(* Every step keeps every variable typed and every buffer within ChanCap.  *)
LEMMA TypeStep == TypeOK /\ [Next]_vars => TypeOK'
  <1> SUFFICES ASSUME TypeOK, [Next]_vars PROVE TypeOK'
    OBVIOUS
  <1>1. CASE Publish
    BY <1>1 DEF Publish, TypeOK
  <1>2. CASE ServeQuit
    BY <1>2 DEF ServeQuit, TypeOK
  <1>3. CASE ServePayload
    <2>1. PICK failed \in FilterFailures : filterAndServe(Head(inbox), failed)
      BY <1>3 DEF ServePayload
    <2>2. Head(inbox) \in Nat
      BY <1>3 DEF ServePayload, TypeOK
    <2>3. [origin |-> "live", height |-> Head(inbox)] \in Msg
      BY <2>2 DEF Msg, Origins
    <2>4. UNION {Bucket(ty) : ty \in LiveTypes \ {ty \in LiveTypes :
                      \/ ty \notin SubscriptionTypes
                      \/ ty.end > 0 /\ ty.end < Head(inbox)
                      \/ ty \in failed}} \in SUBSET SubIds
      BY DEF TypeOK, Bucket, LiveTypes
    <2>5. /\ chan' \in [SubIds -> Seq(Msg)]
          /\ \A i \in SubIds : Len(chan'[i]) <= ChanCap
          /\ sent' \in [SubIds -> Seq(Msg)]
      BY <2>1, <2>3, <2>4, TrySendType DEF filterAndServe
    <2>6. /\ Subscriptions' \in [Params -> SUBSET SubIds]
          /\ SubscriptionTypes' \subseteq Params
          /\ quitSent' \in [SubIds -> BOOLEAN]
      BY <2>1 DEF filterAndServe, closeType, TypeOK
    <2>7. inbox' \in Seq(Nat)
      BY <1>3 DEF ServePayload, TypeOK
    <2>8. QED
      BY <1>3, <2>5, <2>6, <2>7 DEF ServePayload, TypeOK
  <1>4. CASE Stop
    <2>1. CASE ~quitClosed /\ quitClosed' = TRUE /\ close
      <3>1. /\ quitSent' \in [SubIds -> BOOLEAN]
            /\ Subscriptions' \in [Params -> SUBSET SubIds]
            /\ SubscriptionTypes' \subseteq Params
        BY <2>1 DEF close, closeType, TypeOK
      <3>2. stops' \in Nat
        BY <1>4 DEF Stop, TypeOK
      <3>3. QED
        BY <1>4, <2>1, <3>1, <3>2 DEF Stop, TypeOK
    <2>2. CASE quitClosed /\ crashed' = TRUE
            /\ UNCHANGED <<quitClosed, Subscriptions, SubscriptionTypes, quitSent>>
      BY <1>4, <2>2 DEF Stop, TypeOK
    <2>3. QED
      BY <1>4, <2>1, <2>2 DEF Stop
  <1>5. ASSUME NEW id \in SubIds, Subscribe(id) PROVE TypeOK'
    <2>1. settings[id] \in Params
      BY DEF TypeOK
    <2>2. /\ Subscriptions' \in [Params -> SUBSET SubIds]
          /\ SubscriptionTypes' \subseteq Params
      <3>1. CASE settings[id].backFillOnly
        BY <1>5, <3>1 DEF Subscribe, TypeOK
      <3>2. CASE ~settings[id].backFillOnly
        <4>1. /\ Subscriptions' = [Subscriptions EXCEPT ![settings[id]] = @ \cup {id}]
              /\ SubscriptionTypes' = SubscriptionTypes \cup {settings[id]}
          BY <1>5, <3>2 DEF Subscribe
        <4>2. QED
          BY <2>1, <4>1 DEF TypeOK
      <3>3. QED
        BY <3>1, <3>2
    <2>3. phase' \in [SubIds -> Phases]
      BY <1>5 DEF Subscribe, TypeOK, Phases
    <2>4. QED
      BY <1>5, <2>2, <2>3 DEF Subscribe, TypeOK
  <1>6. ASSUME NEW id \in SubIds, sendHistoricalData(id) PROVE TypeOK'
    <2>1. [origin |-> "error", height |-> 0] \in Msg
      BY DEF Msg, Origins
    <2>2. CASE /\ SendNonBlockingErr(id)
               /\ quitSent' = [quitSent EXCEPT ![id] = TRUE]
               /\ phase' = [phase EXCEPT ![id] = "done"]
               /\ UNCHANGED <<bfNext, bfEnd>>
      <3>1. /\ chan' \in [SubIds -> Seq(Msg)]
            /\ \A i \in SubIds : Len(chan'[i]) <= ChanCap
            /\ sent' \in [SubIds -> Seq(Msg)]
        BY <2>1, <2>2, TrySendType DEF SendNonBlockingErr
      <3>2. QED
        BY <1>6, <2>2, <3>1 DEF sendHistoricalData, TypeOK, Phases
    <2>3. CASE /\ bfNext' = [bfNext EXCEPT ![id] = Max2(FirstBlock, settings[id].start)]
               /\ bfEnd' = [bfEnd EXCEPT ![id] =
                     BackfillEnd(settings[id], Max2(FirstBlock, settings[id].start))]
               /\ phase' = [phase EXCEPT ![id] = "check"]
               /\ UNCHANGED <<chan, sent, quitSent>>
      <3>1. settings[id] \in SettingsType
        BY DEF TypeOK
      <3>2. /\ Max2(FirstBlock, settings[id].start) \in Nat
            /\ BackfillEnd(settings[id], Max2(FirstBlock, settings[id].start)) \in Nat
        BY <3>1 DEF Max2, BackfillEnd, SettingsType, TypeOK
      <3>3. QED
        BY <1>6, <2>3, <3>2 DEF sendHistoricalData, TypeOK, Phases
    <2>4. QED
      BY <1>6, <2>2, <2>3 DEF sendHistoricalData
  <1>7. ASSUME NEW id \in SubIds, BackfillCheck(id) PROVE TypeOK'
    <2>1. [origin |-> "complete", height |-> 0] \in Msg
      BY DEF Msg, Origins
    <2>2. QED
      BY <1>7, <2>1, TrySendType DEF BackfillCheck, TypeOK, Phases
  <1>8. ASSUME NEW id \in SubIds, BackfillFetch(id) PROVE TypeOK'
    <2>1. [origin |-> "error", height |-> 0] \in Msg
      BY DEF Msg, Origins
    <2>2. /\ chan' \in [SubIds -> Seq(Msg)]
          /\ \A i \in SubIds : Len(chan'[i]) <= ChanCap
          /\ sent' \in [SubIds -> Seq(Msg)]
      <3>1. SendNonBlockingErr(id) \/ UNCHANGED <<chan, sent>>
        BY <1>8 DEF BackfillFetch
      <3>2. QED
        BY <2>1, <3>1, TrySendType DEF SendNonBlockingErr, TypeOK
    <2>3. /\ bfNext' \in [SubIds -> Nat]
          /\ bfWrappers' \in [SubIds -> 0..MaxWrappers]
          /\ phase' \in [SubIds -> Phases]
          /\ \A i \in SubIds : phase'[i] = "send" => bfWrappers'[i] # 0
      <3>1. CASE /\ phase' = [phase EXCEPT ![id] = "check"]
                 /\ bfNext' = [bfNext EXCEPT ![id] = bfNext[id] + 1]
                 /\ UNCHANGED bfWrappers
        BY <3>1 DEF TypeOK, Phases
      <3>2. CASE /\ \E w \in 1..MaxWrappers : bfWrappers' = [bfWrappers EXCEPT ![id] = w]
                 /\ phase' = [phase EXCEPT ![id] = "send"]
                 /\ UNCHANGED bfNext
        BY <3>2 DEF TypeOK, Phases
      <3>3. QED
        BY <1>8, <3>1, <3>2 DEF BackfillFetch
    <2>4. UNCHANGED <<Subscriptions, SubscriptionTypes, quitClosed, serving,
                     inbox, dbLast, settings, bfEnd, quitSent, stops, crashed>>
      BY <1>8 DEF BackfillFetch
    <2>5. QED
      BY <2>2, <2>3, <2>4 DEF TypeOK
  <1>9. ASSUME NEW id \in SubIds, Unsubscribe(id) PROVE TypeOK'
    BY <1>9 DEF Unsubscribe, TypeOK
  <1>10. ASSUME NEW id \in SubIds, Receive(id) PROVE TypeOK'
    BY <1>10 DEF Receive, TypeOK
  <1>11. CASE UNCHANGED vars
    BY <1>11 DEF vars, TypeOK
  <1>12. ASSUME NEW id \in SubIds, BackfillSend(id) PROVE TypeOK'
    <2>1. /\ [origin |-> "error", height |-> 0] \in Msg
          /\ [origin |-> "backfill", height |-> bfNext[id]] \in Msg
      BY DEF Msg, Origins, TypeOK
    <2>2. /\ chan' \in [SubIds -> Seq(Msg)]
          /\ \A i \in SubIds : Len(chan'[i]) <= ChanCap
          /\ sent' \in [SubIds -> Seq(Msg)]
      BY <1>12, <2>1, TrySendType DEF BackfillSend, SendNonBlockingErr, TypeOK
    <2>3. bfWrappers[id] \in 1..MaxWrappers
      <3>1. phase[id] = "send"
        BY <1>12 DEF BackfillSend
      <3>2. QED
        BY <3>1 DEF TypeOK
    <2>4. /\ bfNext' \in [SubIds -> Nat]
          /\ bfWrappers' \in [SubIds -> 0..MaxWrappers]
          /\ phase' \in [SubIds -> Phases]
          /\ \A i \in SubIds : phase'[i] = "send" => bfWrappers'[i] # 0
      <3>1. bfWrappers' = [bfWrappers EXCEPT ![id] = bfWrappers[id] - 1]
        BY <1>12 DEF BackfillSend
      <3>2. CASE bfWrappers[id] = 1
        <4>1. /\ phase' = [phase EXCEPT ![id] = "check"]
              /\ bfNext' = [bfNext EXCEPT ![id] = bfNext[id] + 1]
          BY <1>12, <3>2 DEF BackfillSend
        <4>2. QED
          BY <2>3, <3>1, <3>2, <4>1 DEF TypeOK, Phases
      <3>3. CASE bfWrappers[id] # 1
        <4>1. UNCHANGED <<phase, bfNext>>
          BY <1>12, <3>3 DEF BackfillSend
        <4>2. QED
          BY <2>3, <3>1, <3>3, <4>1 DEF TypeOK, Phases
      <3>4. QED
        BY <3>2, <3>3
    <2>5. UNCHANGED <<Subscriptions, SubscriptionTypes, quitClosed, serving,
                     inbox, dbLast, settings, bfEnd, quitSent, stops, crashed>>
      BY <1>12 DEF BackfillSend
    <2>6. QED
      BY <2>2, <2>4, <2>5 DEF TypeOK
  <1>13. QED
    BY <1>1, <1>2, <1>3, <1>4, <1>5, <1>6, <1>7, <1>8, <1>9, <1>10, <1>11,
       <1>12 DEF Next

(* Non-blocking sends keep every subscriber buffer within its capacity,   *)
(* and every variable keeps its type, in every reachable state.           *)
THEOREM TypeCorrect == Spec => []TypeOK
  BY TypeInit, TypeStep, PTL DEF Spec

-----------------------------------------------------------------------------
(* closeType on types that are all live keeps the two maps of the Service *)
(* in step: each closed type loses both its bucket and its settings.       *)
LEMMA CloseTypeInSync ==
    ASSUME TypeOK, SettingsInSync, NEW tys \in SUBSET LiveTypes, closeType(tys)
    PROVE  SettingsInSync'
  <1>1. Subscriptions' = [ty \in Params |-> IF ty \in tys THEN {} ELSE Subscriptions[ty]]
    BY DEF closeType
  <1>2. SubscriptionTypes' = SubscriptionTypes \ tys
    BY DEF closeType
  <1>3. LiveTypes' = LiveTypes \ tys
    BY <1>1 DEF LiveTypes
  <1>4. QED
    BY <1>2, <1>3 DEF SettingsInSync

(* The map of settings (SubscriptionTypes) and the map of buckets          *)
(* (Subscriptions) have the same keys in every reachable state: Subscribe, *)
(* Unsubscribe, closeType and close all update them together.              *)
THEOREM SettingsInSyncInvariant == Spec => []SettingsInSync
  <1>1. Init => SettingsInSync
    BY DEF Init, SettingsInSync, LiveTypes
  <1>2. TypeOK /\ SettingsInSync /\ [Next]_vars => SettingsInSync'
    <2> SUFFICES ASSUME TypeOK, SettingsInSync, [Next]_vars
                 PROVE  SettingsInSync'
      OBVIOUS
    <2>1. CASE UNCHANGED <<Subscriptions, SubscriptionTypes>>
      BY <2>1 DEF SettingsInSync, LiveTypes
    <2>2. CASE ServePayload
      <3>1. PICK failed \in FilterFailures : filterAndServe(Head(inbox), failed)
        BY <2>2 DEF ServePayload
      <3>2. DEFINE closing == {ty \in LiveTypes :
                                \/ ty \notin SubscriptionTypes
                                \/ ty.end > 0 /\ ty.end < Head(inbox)
                                \/ ty \in failed}
      <3>3. closeType(closing)
        BY <3>1 DEF filterAndServe
      <3>4. QED
        BY <3>3, CloseTypeInSync
    <2>3. CASE Stop /\ ~quitClosed /\ close
      BY <2>3, CloseTypeInSync DEF close
    <2>4. ASSUME NEW id \in SubIds, Subscribe(id) PROVE SettingsInSync'
      <3>1. CASE settings[id].backFillOnly
        BY <2>4, <3>1 DEF Subscribe, SettingsInSync, LiveTypes
      <3>2. CASE ~settings[id].backFillOnly
        <4>1. settings[id] \in Params
          BY DEF TypeOK
        <4>2. /\ Subscriptions' = [Subscriptions EXCEPT ![settings[id]] = @ \cup {id}]
              /\ SubscriptionTypes' = SubscriptionTypes \cup {settings[id]}
          BY <2>4, <3>2 DEF Subscribe
        <4>3. LiveTypes' = LiveTypes \cup {settings[id]}
          BY <4>1, <4>2 DEF LiveTypes, TypeOK
        <4>4. QED
          BY <4>2, <4>3 DEF SettingsInSync
      <3>3. QED
        BY <3>1, <3>2
    <2>5. ASSUME NEW id \in SubIds, Unsubscribe(id) PROVE SettingsInSync'
      <3>1. Subscriptions' = [ty \in Params |-> Subscriptions[ty] \ {id}]
        BY <2>5 DEF Unsubscribe
      <3>2. SubscriptionTypes' =
                SubscriptionTypes \ {ty \in Params : Subscriptions[ty] = {id}}
        BY <2>5 DEF Unsubscribe
      <3>3. \A ty \in Params :
                (Subscriptions[ty] \ {id} # {})
                    <=> (Subscriptions[ty] # {} /\ Subscriptions[ty] # {id})
        OBVIOUS
      <3>4. LiveTypes' = LiveTypes \ {ty \in Params : Subscriptions[ty] = {id}}
        <4>1. \A ty \in Params : Subscriptions'[ty] = Subscriptions[ty] \ {id}
          BY <3>1
        <4>2. QED
          BY <3>3, <4>1 DEF LiveTypes
      <3>5. QED
        BY <3>2, <3>4 DEF SettingsInSync
    <2>6. QED
      <3>1. CASE Stop
        <4>1. CASE quitClosed
          BY <3>1, <4>1, <2>1 DEF Stop
        <4>2. CASE ~quitClosed
          BY <3>1, <4>2, <2>3 DEF Stop
        <4>3. QED
          BY <4>1, <4>2
      <3>2. QED
        BY <2>1, <2>2, <2>4, <2>5, <3>1
           DEF Next, vars, Publish, ServeQuit, sendHistoricalData,
               BackfillCheck, BackfillFetch, BackfillSend, Receive
  <1>3. QED
    BY <1>1, <1>2, TypeCorrect, PTL DEF Spec

-----------------------------------------------------------------------------
(* Every member of a bucket is registered under its own settings: Subscribe *)
(* adds id only to the bucket of settings[id], and nothing else adds.      *)
MemberSettings ==
    \A ty \in Params, i \in SubIds : i \in Subscriptions[ty] => ty = settings[i]

(* The strengthening of LiveWithinEnd that is inductive.                   *)
LiveInv == TypeOK /\ MemberSettings /\ LiveWithinEnd

(* Appending a message within a bound to a sequence whose live messages    *)
(* are within it keeps them all within it.                                 *)
LEMMA LiveBoundAppend ==
    ASSUME NEW sq \in Seq(Msg), NEW m \in Msg, NEW e \in Nat,
           \A k \in 1..Len(sq) : (sq[k].origin = "live" /\ e > 0) => sq[k].height <= e,
           (m.origin = "live" /\ e > 0) => m.height <= e
    PROVE  \A k \in 1..Len(Append(sq, m)) :
              (Append(sq, m)[k].origin = "live" /\ e > 0) => Append(sq, m)[k].height <= e
  <1>1. /\ Len(Append(sq, m)) = Len(sq) + 1
        /\ \A k \in 1..Len(sq) : Append(sq, m)[k] = sq[k]
        /\ Append(sq, m)[Len(sq) + 1] = m
        /\ Len(sq) \in Nat
    BY AppendProperties, LenProperties
  <1>2. QED
    BY <1>1

(* A non-blocking send of m to ids keeps LiveWithinEnd when m lies within  *)
(* the End of every addressee's settings.                                  *)
LEMMA TrySendLiveWithinEnd ==
    ASSUME TypeOK, LiveWithinEnd, NEW ids \in SUBSET SubIds, NEW m \in Msg,
           TrySend(ids, m), settings' = settings,
           \A i \in ids : (m.origin = "live" /\ settings[i].end > 0)
                              => m.height <= settings[i].end
    PROVE  LiveWithinEnd'
  <1> SUFFICES ASSUME NEW i \in SubIds
               PROVE  \A k \in 1..Len(sent'[i]) :
                         (sent'[i][k].origin = "live" /\ settings[i].end > 0)
                             => sent'[i][k].height <= settings[i].end
    BY DEF LiveWithinEnd
  <1>1. settings[i].end \in Nat /\ sent[i] \in Seq(Msg)
    BY ParamsAssumption DEF TypeOK, SettingsType
  <1>2. CASE i \in ids /\ Len(chan[i]) < ChanCap
    <2>1. sent'[i] = Append(sent[i], m)
      BY <1>2 DEF TrySend
    <2>2. QED
      BY <1>1, <1>2, <2>1, LiveBoundAppend DEF LiveWithinEnd
  <1>3. CASE ~(i \in ids /\ Len(chan[i]) < ChanCap)
    <2>1. sent'[i] = sent[i]
      BY <1>3 DEF TrySend
    <2>2. QED
      BY <2>1 DEF LiveWithinEnd
  <1>4. QED
    BY <1>2, <1>3

(* A send of a message that is not live keeps LiveWithinEnd.               *)
LEMMA TrySendNotLive ==
    ASSUME TypeOK, LiveWithinEnd, NEW ids \in SUBSET SubIds, NEW m \in Msg,
           TrySend(ids, m), settings' = settings, m.origin # "live"
    PROVE  LiveWithinEnd'
  BY TrySendLiveWithinEnd


(* Steps that only shrink the buckets keep MemberSettings.                 *)
LEMMA ShrinkMemberSettings ==
    ASSUME MemberSettings, settings' = settings,
           \A ty \in Params : Subscriptions'[ty] \subseteq Subscriptions[ty]
    PROVE  MemberSettings'
  BY DEF MemberSettings

(* Steps that leave the history and the settings alone keep LiveWithinEnd. *)
LEMMA SentUnchangedLive ==
    ASSUME LiveWithinEnd, UNCHANGED <<sent, settings>>
    PROVE  LiveWithinEnd'
  BY DEF LiveWithinEnd

(* A subscription with an End never receives a live payload above End, for *)
(* every value of the constants: filterAndServe closes a bucket whose End  *)
(* lies below the payload before it sends to the bucket's members, and     *)
(* every member of a bucket has that bucket's settings.                    *)
THEOREM LiveWithinEndInvariant == Spec => []LiveWithinEnd
  <1>1. Init => LiveInv
    BY TypeInit DEF Init, LiveInv, MemberSettings, LiveWithinEnd
  <1>2. LiveInv /\ [Next]_vars => LiveInv'
    <2> SUFFICES ASSUME LiveInv, [Next]_vars PROVE LiveInv'
      OBVIOUS
    <2> USE DEF LiveInv
    <2>1. TypeOK'
      BY TypeStep
    <2>2. CASE UNCHANGED <<Subscriptions, sent, settings>>
      BY <2>1, <2>2 DEF MemberSettings, LiveWithinEnd
    <2>3. CASE ServePayload
      <3>1. PICK failed \in FilterFailures : filterAndServe(Head(inbox), failed)
        BY <2>3 DEF ServePayload
      <3>2. DEFINE h == Head(inbox)
                   closing == {ty \in LiveTypes :
                                 \/ ty \notin SubscriptionTypes
                                 \/ ty.end > 0 /\ ty.end < h
                                 \/ ty \in failed}
                   ids == UNION {Bucket(ty) : ty \in LiveTypes \ closing}
                   m == [origin |-> "live", height |-> h]
      <3>3. closeType(closing) /\ TrySend(ids, m)
        BY <3>1 DEF filterAndServe
      <3>4. settings' = settings
        BY <2>3 DEF ServePayload
      <3>5. h \in Nat /\ m \in Msg
        BY <2>3 DEF ServePayload, TypeOK, Msg, Origins
      <3>6. ids \in SUBSET SubIds
        BY DEF TypeOK, Bucket, LiveTypes
      <3>7. \A i \in ids : settings[i].end > 0 => h <= settings[i].end
        <4> SUFFICES ASSUME NEW i \in ids, settings[i].end > 0
                     PROVE  h <= settings[i].end
          OBVIOUS
        <4>1. PICK ty \in LiveTypes \ closing : i \in Subscriptions[ty]
          BY DEF Bucket
        <4>2. ty = settings[i] /\ ty \in Params
          BY <4>1, <3>6 DEF MemberSettings, LiveTypes
        <4>3. ty.end \in Nat
          BY <4>2, ParamsAssumption DEF SettingsType
        <4>4. ~(ty.end > 0 /\ ty.end < h)
          BY <4>1
        <4>5. QED
          BY <3>5, <4>2, <4>3, <4>4
      <3>8. LiveWithinEnd'
        BY <3>3, <3>4, <3>5, <3>6, <3>7, TrySendLiveWithinEnd
      <3>9. MemberSettings'
        BY <3>3, <3>4, ShrinkMemberSettings DEF closeType
      <3>10. QED
        BY <2>1, <3>8, <3>9
    <2>4. CASE Stop
      <3>1. settings' = settings /\ sent' = sent
        BY <2>4 DEF Stop
      <3>2. \A ty \in Params : Subscriptions'[ty] \subseteq Subscriptions[ty]
        BY <2>4 DEF Stop, close, closeType
      <3>3. QED
        BY <2>1, <3>1, <3>2, ShrinkMemberSettings, SentUnchangedLive
    <2>5. ASSUME NEW id \in SubIds, Subscribe(id) PROVE LiveInv'
      <3>1. UNCHANGED <<sent, settings>>
        BY <2>5 DEF Subscribe
      <3>2. MemberSettings'
        <4>1. CASE settings[id].backFillOnly
          BY <2>5, <4>1, <3>1 DEF Subscribe, MemberSettings
        <4>2. CASE ~settings[id].backFillOnly
          <5>1. Subscriptions' = [Subscriptions EXCEPT ![settings[id]] = @ \cup {id}]
            BY <2>5, <4>2 DEF Subscribe
          <5>2. settings[id] \in Params
            BY DEF TypeOK
          <5>3. QED
            BY <3>1, <5>1, <5>2 DEF MemberSettings, TypeOK
        <4>3. QED
          BY <4>1, <4>2
      <3>3. QED
        BY <2>1, <3>1, <3>2, SentUnchangedLive
    <2>6. ASSUME NEW id \in SubIds, Unsubscribe(id) PROVE LiveInv'
      <3>1. UNCHANGED <<sent, settings>>
        BY <2>6 DEF Unsubscribe
      <3>2. \A ty \in Params : Subscriptions'[ty] \subseteq Subscriptions[ty]
        BY <2>6 DEF Unsubscribe
      <3>3. QED
        BY <2>1, <3>1, <3>2, ShrinkMemberSettings, SentUnchangedLive
    <2>7. ASSUME NEW id \in SubIds, sendHistoricalData(id) PROVE LiveInv'
      <3>1. UNCHANGED <<Subscriptions, settings>>
        BY <2>7 DEF sendHistoricalData
      <3>2. [origin |-> "error", height |-> 0] \in Msg
        BY DEF Msg, Origins
      <3>3. LiveWithinEnd'
        <4>1. CASE SendNonBlockingErr(id)
          BY <3>1, <3>2, <4>1, TrySendNotLive DEF SendNonBlockingErr
        <4>2. CASE UNCHANGED sent
          BY <3>1, <4>2, SentUnchangedLive
        <4>3. QED
          BY <2>7, <4>1, <4>2 DEF sendHistoricalData
      <3>4. QED
        BY <2>1, <3>1, <3>3 DEF MemberSettings
    <2>8. ASSUME NEW id \in SubIds, BackfillCheck(id) PROVE LiveInv'
      <3>1. UNCHANGED <<Subscriptions, settings>>
        BY <2>8 DEF BackfillCheck
      <3>2. [origin |-> "complete", height |-> 0] \in Msg
        BY DEF Msg, Origins
      <3>3. LiveWithinEnd'
        <4>1. CASE TrySend({id}, [origin |-> "complete", height |-> 0])
          BY <3>1, <3>2, <4>1, TrySendNotLive
        <4>2. CASE UNCHANGED sent
          BY <3>1, <4>2, SentUnchangedLive
        <4>3. QED
          BY <2>8, <4>1, <4>2 DEF BackfillCheck
      <3>4. QED
        BY <2>1, <3>1, <3>3 DEF MemberSettings
    <2>9. ASSUME NEW id \in SubIds, BackfillFetch(id) PROVE LiveInv'
      <3>1. UNCHANGED <<Subscriptions, settings>>
        BY <2>9 DEF BackfillFetch
      <3>2. [origin |-> "error", height |-> 0] \in Msg
        BY DEF Msg, Origins
      <3>3. LiveWithinEnd'
        <4>1. CASE SendNonBlockingErr(id)
          BY <3>1, <3>2, <4>1, TrySendNotLive DEF SendNonBlockingErr
        <4>2. CASE UNCHANGED sent
          BY <3>1, <4>2, SentUnchangedLive
        <4>3. QED
          BY <2>9, <4>1, <4>2 DEF BackfillFetch
      <3>4. QED
        BY <2>1, <3>1, <3>3 DEF MemberSettings
    <2>10. ASSUME NEW id \in SubIds, BackfillSend(id) PROVE LiveInv'
      <3>1. UNCHANGED <<Subscriptions, settings>>
        BY <2>10 DEF BackfillSend
      <3>2. /\ [origin |-> "error", height |-> 0] \in Msg
            /\ [origin |-> "backfill", height |-> bfNext[id]] \in Msg
        BY DEF Msg, Origins, TypeOK
      <3>3. LiveWithinEnd'
        <4>1. CASE SendNonBlockingErr(id)
          BY <3>1, <3>2, <4>1, TrySendNotLive DEF SendNonBlockingErr
        <4>2. CASE TrySend({id}, [origin |-> "backfill", height |-> bfNext[id]])
          BY <3>1, <3>2, <4>2, TrySendNotLive
        <4>3. QED
          BY <2>10, <4>1, <4>2 DEF BackfillSend
      <3>4. QED
        BY <2>1, <3>1, <3>3 DEF MemberSettings
    <2>11. QED
      BY <2>2, <2>3, <2>4, <2>5, <2>6, <2>7, <2>8, <2>9, <2>10
         DEF Next, vars, Publish, ServeQuit, Receive
  <1>3. QED
    BY <1>1, <1>2, PTL DEF Spec, LiveInv


-----------------------------------------------------------------------------
(* Live payloads in order: the strengthening of LiveOrdered.               *)

(* The live messages of a history rise strictly in height.                 *)
SeqLiveOrdered(sq) ==
    \A j, k \in 1..Len(sq) :
        (j < k /\ sq[j].origin = "live" /\ sq[k].origin = "live")
            => sq[j].height < sq[k].height

(* Every live message of a history lies below height b.                    *)
SeqLiveBelow(sq, b) ==
    \A k \in 1..Len(sq) : sq[k].origin = "live" => sq[k].height < b

(* The indexer pushes block numbers in increasing order, each indexed.     *)
InboxIncreasing ==
    \A j, k \in 1..Len(inbox) : j < k => inbox[j] < inbox[k]
InboxIndexed == \A j \in 1..Len(inbox) : inbox[j] <= dbLast

(* A payload still waiting in the Serve loop's channel lies above every    *)
(* live payload already sent, and every live payload sent is indexed.      *)
LiveBelowInbox ==
    \A i \in SubIds, j \in 1..Len(inbox) : SeqLiveBelow(sent[i], inbox[j])
LiveIndexed == \A i \in SubIds : SeqLiveBelow(sent[i], dbLast + 1)

OrderInv ==
    /\ TypeOK /\ InboxIncreasing /\ InboxIndexed
    /\ LiveBelowInbox /\ LiveIndexed /\ \A i \in SubIds : SeqLiveOrdered(sent[i])


(* Appending a message keeps the live messages of a history in order when  *)
(* a live message comes above every live message already there.           *)
LEMMA AppendLiveOrdered ==
    ASSUME NEW sq \in Seq(Msg), NEW m \in Msg, SeqLiveOrdered(sq),
           m.origin = "live" => SeqLiveBelow(sq, m.height)
    PROVE  SeqLiveOrdered(Append(sq, m))
  <1> DEFINE a == Append(sq, m)
  <1>1. /\ Len(a) = Len(sq) + 1
        /\ \A k \in 1..Len(sq) : a[k] = sq[k]
        /\ a[Len(sq) + 1] = m
        /\ Len(sq) \in Nat
    BY AppendProperties, LenProperties
  <1> SUFFICES ASSUME NEW j \in 1..Len(a), NEW k \in 1..Len(a), j < k,
                      a[j].origin = "live", a[k].origin = "live"
               PROVE  a[j].height < a[k].height
    BY DEF SeqLiveOrdered
  <1>2. CASE k <= Len(sq)
    BY <1>1, <1>2 DEF SeqLiveOrdered
  <1>3. CASE k = Len(sq) + 1
    <2>1. j \in 1..Len(sq) /\ a[j] = sq[j] /\ a[k] = m
      BY <1>1, <1>3
    <2> QED BY <2>1 DEF SeqLiveBelow
  <1> QED BY <1>1, <1>2, <1>3

(* Appending a message below b, or one that is not live, keeps every live  *)
(* message of a history below b.                                           *)
LEMMA AppendLiveBelow ==
    ASSUME NEW sq \in Seq(Msg), NEW m \in Msg, NEW b, SeqLiveBelow(sq, b),
           m.origin = "live" => m.height < b
    PROVE  SeqLiveBelow(Append(sq, m), b)
  <1>1. /\ Len(Append(sq, m)) = Len(sq) + 1
        /\ \A k \in 1..Len(sq) : Append(sq, m)[k] = sq[k]
        /\ Append(sq, m)[Len(sq) + 1] = m
        /\ Len(sq) \in Nat
    BY AppendProperties, LenProperties
  <1> QED BY <1>1 DEF SeqLiveBelow

(* A bound above a bound of the live messages is a bound too.              *)
LEMMA LiveBelowMono ==
    ASSUME NEW sq \in Seq(Msg), NEW a \in Nat, NEW b \in Nat, a <= b,
           SeqLiveBelow(sq, a)
    PROVE  SeqLiveBelow(sq, b)
  <1>1. \A k \in 1..Len(sq) : sq[k].height \in Nat
    <2> SUFFICES ASSUME NEW k \in 1..Len(sq) PROVE sq[k].height \in Nat
      OBVIOUS
    <2>1. sq[k] \in Msg
      BY LenProperties
    <2> QED BY <2>1 DEF Msg
  <1> QED BY <1>1 DEF SeqLiveBelow

(* A non-blocking send leaves each history alone or appends the message.   *)
LEMMA TrySendShape ==
    ASSUME NEW ids, NEW m, TrySend(ids, m)
    PROVE  \A i \in SubIds : sent'[i] = sent[i] \/ sent'[i] = Append(sent[i], m)
  BY DEF TrySend


(* A step appends no live message to any history.                         *)
NoLiveAdded ==
    \A i \in SubIds : \/ sent'[i] = sent[i]
                      \/ \E m \in Msg : m.origin # "live" /\ sent'[i] = Append(sent[i], m)

(* A non-blocking send of a message that is not live adds no live one.     *)
LEMMA SendNotLive ==
    ASSUME NEW ids, NEW m \in Msg, m.origin # "live", TrySend(ids, m)
    PROVE  NoLiveAdded
  BY TrySendShape DEF NoLiveAdded

(* A step that leaves the indexer's channel alone and adds no live message *)
(* keeps OrderInv: the backfill goroutines, Subscribe, Unsubscribe, Stop.  *)
LEMMA NoLiveStep ==
    ASSUME OrderInv, TypeOK', UNCHANGED <<inbox, dbLast>>, NoLiveAdded
    PROVE  OrderInv'
  <1>1. InboxIncreasing' /\ InboxIndexed'
    BY DEF OrderInv, InboxIncreasing, InboxIndexed
  <1>2. ASSUME NEW i \in SubIds
        PROVE  /\ SeqLiveBelow(sent'[i], dbLast + 1)
               /\ \A j \in 1..Len(inbox) : SeqLiveBelow(sent'[i], inbox[j])
               /\ SeqLiveOrdered(sent'[i])
    <2>1. CASE sent'[i] = sent[i]
      BY <2>1 DEF OrderInv, LiveBelowInbox, LiveIndexed
    <2>2. CASE \E m \in Msg : m.origin # "live" /\ sent'[i] = Append(sent[i], m)
      <3>1. PICK m \in Msg : m.origin # "live" /\ sent'[i] = Append(sent[i], m)
        BY <2>2
      <3>2. sent[i] \in Seq(Msg)
        BY DEF OrderInv, TypeOK
      <3> QED BY <3>1, <3>2, AppendLiveBelow, AppendLiveOrdered
        DEF OrderInv, LiveBelowInbox, LiveIndexed
    <2> QED BY <2>1, <2>2 DEF NoLiveAdded
  <1> QED BY <1>1, <1>2 DEF OrderInv, LiveBelowInbox, LiveIndexed

(* Publish appends the next block number, above every one before it.       *)
LEMMA PublishOrder ==
    ASSUME OrderInv, TypeOK', Publish
    PROVE  OrderInv'
  <1>1. /\ inbox \in Seq(Nat) /\ dbLast \in Nat
        /\ inbox' = Append(inbox, dbLast + 1) /\ dbLast' = dbLast + 1
        /\ sent' = sent
    BY DEF OrderInv, TypeOK, Publish
  <1>2. /\ Len(inbox') = Len(inbox) + 1
        /\ \A k \in 1..Len(inbox) : inbox'[k] = inbox[k]
        /\ inbox'[Len(inbox) + 1] = dbLast + 1
        /\ Len(inbox) \in Nat
        /\ \A k \in 1..Len(inbox) : inbox[k] \in Nat
    BY <1>1, AppendProperties, LenProperties
  <1>3. InboxIncreasing' /\ InboxIndexed'
    BY <1>1, <1>2 DEF OrderInv, InboxIncreasing, InboxIndexed
  <1>4. LiveBelowInbox'
    BY <1>1, <1>2 DEF OrderInv, LiveBelowInbox, LiveIndexed
  <1>5. LiveIndexed'
    BY <1>1, LiveBelowMono DEF OrderInv, LiveIndexed, TypeOK
  <1> QED BY <1>1, <1>3, <1>4, <1>5 DEF OrderInv

(* The Serve loop sends the oldest waiting block number to the buckets: it *)
(* lies above every live message sent before and below every one waiting.  *)
LEMMA ServePayloadOrder ==
    ASSUME OrderInv, TypeOK', ServePayload
    PROVE  OrderInv'
  <1>1. PICK failed \in FilterFailures : filterAndServe(Head(inbox), failed)
    BY DEF ServePayload
  <1> DEFINE h == Head(inbox)
             closing == {ty \in LiveTypes :
                           \/ ty \notin SubscriptionTypes
                           \/ ty.end > 0 /\ ty.end < h
                           \/ ty \in failed}
             ids == UNION {Bucket(ty) : ty \in LiveTypes \ closing}
             m == [origin |-> "live", height |-> h]
  <1>2. TrySend(ids, m)
    BY <1>1 DEF filterAndServe
  <1>3. /\ inbox \in Seq(Nat) /\ inbox # <<>> /\ dbLast' = dbLast
        /\ inbox' = Tail(inbox)
    BY DEF OrderInv, TypeOK, ServePayload
  <1>4. /\ Len(inbox) \in Nat /\ 1 \in 1..Len(inbox) /\ h = inbox[1]
        /\ Len(inbox') = Len(inbox) - 1
        /\ \A j \in 1..Len(inbox') : inbox'[j] = inbox[j + 1]
        /\ \A j \in 1..Len(inbox) : inbox[j] \in Nat
    BY <1>3, HeadTailProperties, LenProperties, EmptySeq
  <1>5. h \in Nat /\ m \in Msg /\ h <= dbLast
    BY <1>3, <1>4 DEF Msg, Origins, OrderInv, InboxIndexed
  <1>6. InboxIncreasing' /\ InboxIndexed'
    BY <1>3, <1>4 DEF OrderInv, InboxIncreasing, InboxIndexed
  <1>7. ASSUME NEW i \in SubIds
        PROVE  /\ SeqLiveBelow(sent'[i], dbLast' + 1)
               /\ \A j \in 1..Len(inbox') : SeqLiveBelow(sent'[i], inbox'[j])
               /\ SeqLiveOrdered(sent'[i])
    <2>1. sent[i] \in Seq(Msg) /\ SeqLiveBelow(sent[i], h)
          /\ SeqLiveBelow(sent[i], dbLast + 1) /\ SeqLiveOrdered(sent[i])
      BY <1>4 DEF OrderInv, TypeOK, LiveBelowInbox, LiveIndexed
    <2>2. \A j \in 1..Len(inbox') :
             SeqLiveBelow(sent[i], inbox'[j]) /\ h < inbox'[j]
      BY <1>4 DEF OrderInv, LiveBelowInbox, InboxIncreasing
    <2>3. CASE sent'[i] = sent[i]
      BY <2>1, <2>2, <2>3, <1>3
    <2>4. CASE sent'[i] = Append(sent[i], m)
      <3>1. SeqLiveBelow(sent'[i], dbLast' + 1)
        <4>1. m.height < dbLast + 1 /\ sent[i] \in Seq(Msg) /\ m \in Msg
          BY <1>5, <2>1 DEF OrderInv, TypeOK
        <4>2. SeqLiveBelow(Append(sent[i], m), dbLast + 1)
          BY <2>1, <4>1, AppendLiveBelow
        <4> QED BY <4>2, <2>4, <1>3
      <3>2. \A j \in 1..Len(inbox') : SeqLiveBelow(sent'[i], inbox'[j])
        BY <2>1, <2>2, <2>4, <1>5, AppendLiveBelow
      <3>3. SeqLiveOrdered(sent'[i])
        BY <2>1, <2>4, <1>5, AppendLiveOrdered
      <3> QED BY <3>1, <3>2, <3>3
    <2> QED BY <2>3, <2>4, <1>2, TrySendShape
  <1> QED BY <1>6, <1>7 DEF OrderInv, LiveBelowInbox, LiveIndexed


(* The backfill goroutine sends only backfill, sentinel and error          *)
(* messages: none of its steps adds a live one.                            *)
LEMMA BackfillNoLive ==
    ASSUME TypeOK, NEW id \in SubIds,
           \/ sendHistoricalData(id) \/ BackfillCheck(id)
           \/ BackfillFetch(id) \/ BackfillSend(id)
    PROVE  NoLiveAdded /\ UNCHANGED <<inbox, dbLast>>
  <1> DEFINE err == [origin |-> "error", height |-> 0]
             cpl == [origin |-> "complete", height |-> 0]
             bf  == [origin |-> "backfill", height |-> bfNext[id]]
  <1>1. err \in Msg /\ cpl \in Msg /\ bf \in Msg
    BY DEF TypeOK, Msg, Origins
  <1>2. sent' = sent => NoLiveAdded
    BY DEF NoLiveAdded
  <1>3. CASE sendHistoricalData(id)
    BY <1>1, <1>2, <1>3, SendNotLive DEF sendHistoricalData, SendNonBlockingErr
  <1>4. CASE BackfillCheck(id)
    BY <1>1, <1>2, <1>4, SendNotLive DEF BackfillCheck
  <1>5. CASE BackfillFetch(id)
    BY <1>1, <1>2, <1>5, SendNotLive DEF BackfillFetch, SendNonBlockingErr
  <1>6. CASE BackfillSend(id)
    BY <1>1, <1>2, <1>6, SendNotLive DEF BackfillSend, SendNonBlockingErr
  <1> QED BY <1>3, <1>4, <1>5, <1>6

(* Live payloads reach every subscription in strictly increasing block     *)
(* order, each at most once, for every value of the constants: the Serve   *)
(* loop takes payloads from its channel one at a time in the order the     *)
(* indexer pushed them, and the indexer pushes block numbers upwards.      *)
THEOREM LiveOrderedInvariant == Spec => []LiveOrdered
  <1>1. Init => OrderInv
    BY TypeInit DEF Init, OrderInv, InboxIncreasing, InboxIndexed,
       LiveBelowInbox, LiveIndexed, SeqLiveBelow, SeqLiveOrdered
  <1>2. OrderInv /\ [Next]_vars => OrderInv'
    <2> SUFFICES ASSUME OrderInv, [Next]_vars PROVE OrderInv'
      OBVIOUS
    <2>1. TypeOK'
      BY TypeStep DEF OrderInv
    <2>2. (sent' = sent /\ UNCHANGED <<inbox, dbLast>>) => OrderInv'
      BY <2>1, NoLiveStep DEF NoLiveAdded
    <2>3. CASE Publish
      BY <2>1, <2>3, PublishOrder
    <2>4. CASE ServePayload
      BY <2>1, <2>4, ServePayloadOrder
    <2>5. CASE ServeQuit \/ Stop
      BY <2>2, <2>5 DEF ServeQuit, Stop
    <2>6. ASSUME NEW id \in SubIds, Subscribe(id) \/ Unsubscribe(id) \/ Receive(id)
          PROVE  OrderInv'
      BY <2>2, <2>6 DEF Subscribe, Unsubscribe, Receive
    <2>7. ASSUME NEW id \in SubIds,
                 \/ sendHistoricalData(id) \/ BackfillCheck(id)
                 \/ BackfillFetch(id) \/ BackfillSend(id)
          PROVE  OrderInv'
      BY <2>1, <2>7, BackfillNoLive, NoLiveStep DEF OrderInv
    <2>8. CASE UNCHANGED vars
      BY <2>2, <2>8 DEF vars
    <2> QED BY <2>3, <2>4, <2>5, <2>6, <2>7, <2>8 DEF Next
  <1>3. OrderInv => LiveOrdered
    BY DEF OrderInv, LiveOrdered, SeqLiveOrdered
  <1> QED BY <1>1, <1>2, <1>3, PTL DEF Spec

=============================================================================
