------------------------ MODULE ProviderConfigFeedProofs ------------------------
(***************************************************************************)
(* Proof that the pointer ends up with what the ProviderConfig says.       *)
(***************************************************************************)
EXTENDS ProviderConfigFeed, SequenceTheorems, TLAPS

(* What the pointer holds once every event sent has been handled.          *)
Newest == IF channel = <<>> THEN stored ELSE channel[Len(channel)]

(* FeedTypeOK without the count of faults, which the feed's steps leave to *)
(* the system it is part of.                                               *)
FeedTypes ==
  /\ pcObject \in PCObjects \cup {NoProviderConfig}
  /\ pcQueued \in BOOLEAN /\ pcRetry \in BOOLEAN
  /\ pcCall \in {"Idle", "Get", "Send"}
  /\ notify \in Events /\ stored \in Events
  /\ channel \in Seq(Events)

(* The current ProviderConfig has been sent last, is about to be sent, or  *)
(* is going to be read again.                                              *)
CurrentIsUnderWay ==
  \/ pcQueued
  \/ pcCall = "Get"
  \/ pcCall = "Send" /\ (pcRetry \/ notify = Published(pcObject))
  \/ pcCall = "Idle" /\ Newest = Published(pcObject)

FeedInv == FeedTypes /\ CurrentIsUnderWay

-------------------------------------------------------------------------------
(* What is published is an event.                                          *)
LEMMA PublishedType ==
  ASSUME NEW object \in PCObjects \cup {NoProviderConfig}
  PROVE  Published(object) \in Events
BY DEF Published, PCObjects, Events

(* A sent event becomes the newest.                                        *)
LEMMA NewestAfterSend ==
  ASSUME channel \in Seq(Events), notify \in Events,
         channel' = Append(channel, notify)
  PROVE  channel' \in Seq(Events) /\ Newest' = notify
<1>1. channel' \in Seq(Events) /\ channel' # <<>>
  BY AppendProperties
<1>2. channel'[Len(channel')] = notify
  BY AppendProperties
<1> QED BY <1>1, <1>2 DEF Newest

(* Handling an event leaves the newest alone.                              *)
LEMMA NewestAfterStore ==
  ASSUME channel \in Seq(Events), channel # <<>>,
         stored' = Head(channel), channel' = Tail(channel)
  PROVE  stored' \in Events /\ channel' \in Seq(Events) /\ Newest' = Newest
<1>1. /\ stored' \in Events /\ channel' \in Seq(Events)
      /\ Len(channel) \in Nat \ {0} /\ Len(channel') = Len(channel) - 1
      /\ stored' = channel[1]
      /\ \A i \in 1..Len(channel') : channel'[i] = channel[i + 1]
  BY HeadTailProperties, EmptySeq, LenProperties
<1>2. CASE Len(channel) = 1
  <2>1. channel' = <<>>
    BY <1>1, <1>2, EmptySeq
  <2> QED BY <2>1, <1>1, <1>2 DEF Newest
<1>3. CASE Len(channel) # 1
  <2>1. Len(channel') \in 1..Len(channel') /\ Len(channel') # 0
    BY <1>1, <1>3
  <2>2. channel' # <<>>
    BY <2>1, EmptySeq
  <2>3. channel'[Len(channel')] = channel[Len(channel)]
    <3>1. channel'[Len(channel')] = channel[Len(channel') + 1]
      BY <1>1, <2>1
    <3>2. Len(channel') + 1 = Len(channel)
      BY <1>1
    <3> QED BY <3>1, <3>2
  <2> QED BY <2>2, <2>3, <1>1 DEF Newest
<1> QED BY <1>2, <1>3

-------------------------------------------------------------------------------
(* The invariant is inductive for the feed.                                *)
LEMMA FeedInvInductive ==
  /\ FeedInit => FeedInv
  /\ FeedInv /\ [FeedNext]_feedVars => FeedInv'
<1>1. FeedInit => FeedInv
  <2> SUFFICES ASSUME FeedInit PROVE FeedInv
    OBVIOUS
  <2>1. Newest = Published(pcObject)
    BY DEF FeedInit, Newest, Published
  <2>2. FeedTypes
    BY EmptySeq DEF FeedInit, FeedTypes, Events
  <2> QED BY <2>1, <2>2 DEF FeedInit, FeedInv, CurrentIsUnderWay
<1>2. ASSUME FeedInv, [FeedNext]_feedVars
      PROVE  FeedInv'
  <2> USE <1>2 DEF FeedInv, FeedTypes
  <2>1. CASE PCStart
    BY <2>1 DEF PCStart, CurrentIsUnderWay
  <2>2. CASE PCGet
    BY <2>2, PublishedType DEF PCGet, CurrentIsUnderWay, Events
  <2>3. CASE PCSend
    <3>1. channel' \in Seq(Events) /\ Newest' = notify
      BY <2>3, NewestAfterSend DEF PCSend
    <3>2. notify' \in Events
      BY <2>3 DEF PCSend, Events
    <3> QED BY <2>3, <3>1, <3>2 DEF PCSend, CurrentIsUnderWay
  <2>4. CASE StoreConfig
    <3>1. stored' \in Events /\ channel' \in Seq(Events) /\ Newest' = Newest
      BY <2>4, NewestAfterStore DEF StoreConfig
    <3> QED BY <2>4, <3>1 DEF StoreConfig, CurrentIsUnderWay
  <2>5. CASE WriteConfig
    BY <2>5 DEF WriteConfig, CurrentIsUnderWay
  <2>6. CASE EndListing
    BY <2>6 DEF EndListing, CurrentIsUnderWay, Newest
  <2>7. CASE FeedRestarts
    <3>1. FeedTypes'
      BY <2>7, EmptySeq DEF FeedRestarts, Events
    <3>2. ~pcQueued' => Newest' = Published(pcObject')
      BY <2>7 DEF FeedRestarts, Newest, Published
    <3>3. pcCall' = "Idle"
      BY <2>7 DEF FeedRestarts
    <3> QED BY <3>1, <3>2, <3>3 DEF CurrentIsUnderWay
  <2>8. CASE UNCHANGED feedVars
    BY <2>8 DEF feedVars, CurrentIsUnderWay, Newest
  <2> QED BY <2>1, <2>2, <2>3, <2>4, <2>5, <2>6, <2>7, <2>8
          DEF FeedNext, FeedStep
<1> QED BY <1>1, <1>2

(* With nothing under way, the pointer holds the current ProviderConfig.   *)
LEMMA FeedInvSettled == FeedInv => SettledConfigIsCurrent
BY DEF FeedInv, CurrentIsUnderWay, SettledConfigIsCurrent, Settled, Newest

(* Whatever Get answers, however events and the handler's runs interleave  *)
(* and whenever the process restarts, the pointer ends up with what the    *)
(* ProviderConfig says (pcreconciler.go:63-77, spreconciler.go:366-372).   *)
THEOREM ConfigSettles == FeedSpec => []SettledConfigIsCurrent
<1>1. FeedSpec => []FeedInv
  BY FeedInvInductive, PTL DEF FeedSpec
<1> QED BY <1>1, FeedInvSettled, PTL
===============================================================================
