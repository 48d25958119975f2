-------------------------- MODULE ProviderConfigFeed --------------------------
(***************************************************************************)
(* How the ProviderConfig reaches the service reconcilers of pkg/runtime:  *)
(* PCReconciler reads it from the platform cluster and sends it down a     *)
(* channel; SPReconciler's channel source stores what it receives in an    *)
(* atomic pointer and then reconciles all objects.                         *)
(***************************************************************************)
EXTENDS Naturals, Sequences

CONSTANTS
  ProviderConfigs,     \* contents of the ProviderConfig
  NoProviderConfig,    \* there is none, or the nil event
  MaxConfigWrites,     \* bound on the platform operator's writes
  MaxFaults,           \* bound on the number of faults
  Capacity             \* events that fit between sender and receiver

ASSUME FeedAssumption ==
  /\ NoProviderConfig \notin ProviderConfigs
  /\ MaxConfigWrites \in Nat /\ MaxFaults \in Nat /\ Capacity \in Nat \ {0}

VARIABLES
  pcObject,   \* the ProviderConfig on the platform cluster
  pcQueued,   \* PCReconciler's queue holds its key, at once or after a delay
  pcCall,     \* what PCReconciler does next: "Idle", "Get" or "Send"
  notify,     \* the event PCReconciler has prepared
  pcRetry,    \* Get failed: Reconcile is going to return the error
  channel,    \* events sent and not yet handled
  stored,     \* SPReconciler.providerConfig
  listing,    \* the handler has stored an event and now lists the objects
  configWrites, faults  \* how many have happened

feedVars == <<pcObject, pcQueued, pcCall, notify, pcRetry, channel, stored,
              listing, configWrites>>

Events == ProviderConfigs \cup {NoProviderConfig}

(* deleting is the DeletionTimestamp.                                      *)
PCObjects == [content : ProviderConfigs, deleting : BOOLEAN]

(* What a successful Reconcile sends of the object it reads.               *)
Published(object) ==
  IF object = NoProviderConfig \/ (object # NoProviderConfig /\ object.deleting)
  THEN NoProviderConfig ELSE object.content

FeedTypeOK ==
  /\ pcObject \in PCObjects \cup {NoProviderConfig}
  /\ pcQueued \in BOOLEAN /\ pcRetry \in BOOLEAN /\ listing \in BOOLEAN
  /\ pcCall \in {"Idle", "Get", "Send"}
  /\ notify \in Events /\ stored \in Events
  /\ channel \in Seq(Events) /\ Len(channel) <= Capacity
  /\ configWrites \in 0..MaxConfigWrites /\ faults \in 0..MaxFaults

FeedInit ==
  /\ pcObject = NoProviderConfig /\ stored = NoProviderConfig
  /\ pcQueued = FALSE /\ pcCall = "Idle" /\ pcRetry = FALSE
  /\ notify = NoProviderConfig
  /\ channel = <<>> /\ listing = FALSE
  /\ configWrites = 0 /\ faults = 0

Fault == faults < MaxFaults /\ faults' = faults + 1
NoFault == UNCHANGED faults

-------------------------------------------------------------------------------
(* PCReconciler                                                            *)

PCStart ==
  /\ pcCall = "Idle" /\ pcQueued
  /\ pcCall' = "Get" /\ pcQueued' = FALSE /\ NoFault
  /\ UNCHANGED <<pcObject, notify, pcRetry, channel, stored, listing,
                 configWrites>>

PCGet ==
  /\ pcCall = "Get" /\ pcCall' = "Send"
  /\ \/ notify' = Published(pcObject) /\ pcRetry' = FALSE /\ NoFault
     \/ notify' = NoProviderConfig /\ pcRetry' = TRUE /\ Fault
  /\ UNCHANGED <<pcObject, pcQueued, channel, stored, listing, configWrites>>

(* Mutant: the error of Get is not returned.                               *)
PCSend_DropsError ==
  /\ pcCall = "Send" /\ Len(channel) < Capacity
  /\ channel' = Append(channel, notify)
  /\ pcCall' = "Idle" /\ pcRetry' = FALSE /\ notify' = NoProviderConfig
  /\ NoFault
  /\ UNCHANGED <<pcObject, pcQueued, stored, listing, configWrites>>

(* Mutant: the send does not wait for the receiver.                        *)
PCSend_DoesNotBlock ==
  /\ pcCall = "Send"
  /\ channel' = Append(channel, notify)
  /\ pcCall' = "Idle" /\ pcRetry' = FALSE /\ notify' = NoProviderConfig
  /\ pcQueued' = (pcQueued \/ pcRetry) /\ NoFault
  /\ UNCHANGED <<pcObject, stored, listing, configWrites>>

(* The send blocks while the channel is full.                              *)
PCSend ==
  /\ pcCall = "Send" /\ Len(channel) < Capacity
  /\ channel' = Append(channel, notify)
  /\ pcCall' = "Idle" /\ pcRetry' = FALSE /\ notify' = NoProviderConfig
  /\ pcQueued' = (pcQueued \/ pcRetry) /\ NoFault
  /\ UNCHANGED <<pcObject, stored, listing, configWrites>>

(* The map function of SPReconciler's channel source, first half.          *)
StoreConfig ==
  /\ channel # <<>> /\ ~listing
  /\ stored' = Head(channel) /\ channel' = Tail(channel)
  /\ listing' = TRUE /\ NoFault
  /\ UNCHANGED <<pcObject, pcQueued, pcCall, notify, pcRetry, configWrites>>

(* Its second half ends; what it enqueues is SPRuntime's.                  *)
EndListing ==
  /\ listing /\ listing' = FALSE
  /\ UNCHANGED <<pcObject, pcQueued, pcCall, notify, pcRetry, channel, stored,
                 configWrites>>

(* The platform operator writes, deletes or marks the ProviderConfig.      *)
WriteConfig ==
  /\ configWrites < MaxConfigWrites /\ configWrites' = configWrites + 1
  /\ \E next \in (PCObjects \cup {NoProviderConfig}) \ {pcObject} :
       /\ pcObject = NoProviderConfig /\ next # NoProviderConfig
            => ~next.deleting
       /\ pcObject # NoProviderConfig /\ next # NoProviderConfig
            => (pcObject.deleting => next.deleting)
       /\ pcObject' = next
  /\ pcQueued' = TRUE /\ NoFault
  /\ UNCHANGED <<pcCall, notify, pcRetry, channel, stored, listing>>

(* A restart loses the channel and the pointer; the informer's first list  *)
(* enqueues the ProviderConfig if it exists.                               *)
FeedRestarts ==
  /\ pcQueued' = (pcObject # NoProviderConfig)
  /\ pcCall' = "Idle" /\ pcRetry' = FALSE /\ notify' = NoProviderConfig
  /\ channel' = <<>> /\ stored' = NoProviderConfig /\ listing' = FALSE
  /\ UNCHANGED <<pcObject, configWrites>>

FeedStep == PCStart \/ PCGet \/ PCSend \/ StoreConfig \/ WriteConfig

(* The feed alone; other steps of a system it is part of are stutters.     *)
FeedNext == FeedStep \/ EndListing \/ FeedRestarts
FeedSpec == FeedInit /\ [][FeedNext]_feedVars

-------------------------------------------------------------------------------
(* Properties                                                              *)

(* Nothing is under way between the platform cluster and the pointer.      *)
Settled == pcCall = "Idle" /\ ~pcQueued /\ channel = <<>>

(* Once no event is under way, the pointer holds what the ProviderConfig   *)
(* on the platform cluster says: the nil that Reconcile sends for a Get    *)
(* that failed is always followed by the answer of a Get that did not      *)
(* (pcreconciler.go:63-77, spreconciler.go:366-372).                       *)
SettledConfigIsCurrent == Settled => stored = Published(pcObject)
===============================================================================
