-------------------------- MODULE Scheduler_proofs --------------------------
(***************************************************************************)
(* Proofs about Scheduler, for any channels, games, campaigns, callbacks   *)
(* and limits: its types, that the scheduler's channels, the tracker's and *)
(* the topics agree when a handler is done, that no channel is left        *)
(* without topics, that a stalled channel is not taken up again, and that  *)
(* what is watched at rest is what the switch handler would choose.        *)
(***************************************************************************)
EXTENDS Scheduler, FiniteSetTheorems, TLAPS

USE DEF control

\* What a handler of channels does on the way leaves the control alone, the
\* games, and more.
LEMMA WorkStepFrame ==
    WorkStep => UNCHANGED <<control, games, stalled, fullCleanup, lapsed, loop, events>>
<1> SUFFICES ASSUME WorkStep
             PROVE  UNCHANGED <<control, games, stalled, fullCleanup, lapsed, loop, events>>
  OBVIOUS
<1> USE DEF games, known, watch, local
<1>1. CASE CleanupDeletes \/ Forgets \/ Unsubscribes \/ Cuts
  BY <1>1 DEF CleanupDeletes, Forgets, Unsubscribes, Cuts
<1>2. CASE AddsAcl \/ AddsListed \/ Stores \/ Tracks
  BY <1>2 DEF AddsAcl, AddsListed, Stores, Upserts, Tracks
<1>3. CASE Synced \/ Applied \/ Answered \/ ListEnds
  BY <1>3 DEF Synced, Applied, Answered, ListEnds, WorkOnly
<1>4. CASE Applies \/ Subscribes \/ LooksAtWatched
  BY <1>4 DEF Applies, Subscribes, LooksAtWatched
<1> QED
  BY <1>1, <1>2, <1>3, <1>4 DEF WorkStep

\* A step of Run with its effect on the data is a step of RunLoop's Run.
LEMMA RunStepRefines == RunStep => Loop!RunStep \/ UNCHANGED control
<1> SUFFICES ASSUME RunStep PROVE Loop!RunStep \/ UNCHANGED control
  OBVIOUS
<1>1. CASE ControlStep
  BY <1>1 DEF ControlStep, Loop!RunStep
<1>2. CASE HandleIdle
  BY <1>2 DEF HandleIdle, Loop!RunStep
<1>3. CASE HandleInventoryFetch
  BY <1>3 DEF HandleInventoryFetch, Loop!RunStep
<1>4. CASE InventoryFetchError
  BY <1>4 DEF InventoryFetchError, Loop!RunStep
<1>5. CASE HandleGamesUpdate
  BY <1>5 DEF HandleGamesUpdate, Loop!RunStep
<1>6. CASE HandleChannelsCleanup
  BY <1>6 DEF HandleChannelsCleanup, Loop!RunStep
<1>7. CASE CleanupBegin \/ FetchBegin \/ DecideSwitch
  BY <1>7 DEF CleanupBegin, FetchBegin, DecideSwitch
<1>8. CASE HandleChannelsFetch
  BY <1>8 DEF HandleChannelsFetch, Loop!RunStep
<1>9. CASE ChannelsFetchError
  BY <1>9 DEF ChannelsFetchError, Loop!RunStep
<1>10. CASE HandleChannelSwitch
  BY <1>10 DEF HandleChannelSwitch, Loop!RunStep
<1>11. CASE WorkStep
  BY <1>11, WorkStepFrame
<1> QED
  BY <1>1, <1>2, <1>3, <1>4, <1>5, <1>6, <1>7, <1>8, <1>9, <1>10, <1>11 DEF RunStep

\* What the goroutines besides Run may do to the control.
OutsideStep ==
    \/ \E m \in Maint :
          \/ Loop!MaintStep(m)
          \/ \E why \in {"trigger", "reload"} : Loop!MaintWake(m, why)
    \/ \E c \in Clients :
          \/ Loop!Signal(c)
          \/ \E s \in {"InventoryFetch", "ChannelSwitch"} : Loop!Request(c, s)
    \/ Loop!WatchExit \/ Loop!Cancel

LEMMA OutsideRefines == OutsideStep => Loop!Next
BY DEF OutsideStep, Loop!Next

\* The watch loop asks for states as a client of RunLoop, and exits as its
\* watcher.
LEMMA LoopStepRefines == LoopStep => OutsideStep \/ UNCHANGED control
<1> SUFFICES ASSUME LoopStep PROVE OutsideStep \/ UNCHANGED control
  OBVIOUS
<1>1. CASE LoopWaits \/ LoopPicks \/ LoopStops \/ LoopResolves \/ LoopRests
           \/ LoopInterrupted
  BY <1>1 DEF LoopWaits, LoopPicks, LoopStops, LoopResolves, LoopRests,
              LoopInterrupted
<1>2. CASE LoopResolved \/ LoopChecksStall
  <2>1. \/ \E s \in {"InventoryFetch", "ChannelSwitch"} :
             Loop!Request("watch", s)
        \/ UNCHANGED control
    BY <1>2 DEF LoopResolved, LoopChecksStall
  <2> QED
    BY <2>1 DEF OutsideStep, Clients
<1>3. CASE WatchExit
  BY <1>3 DEF WatchExit, OutsideStep
<1> QED
  BY <1>1, <1>2, <1>3 DEF LoopStep

\* So does everyone else.
LEMMA OtherStepRefines ==
    ASSUME Next, ~RunStep, ~LoopStep
    PROVE  OutsideStep \/ UNCHANGED control
<1>1. ASSUME NEW k \in Callers, CallbackStep(k)
      PROVE  OutsideStep \/ UNCHANGED control
  <2>1. Loop!Request(k, "ChannelSwitch") \/ UNCHANGED control
    BY <1>1 DEF CallbackStep, CallbackReads, CallbackDecides, CallbackWatches
  <2> QED
    BY <2>1 DEF OutsideStep, Clients
<1>2. ASSUME NEW k \in Callbacks, NEW c \in Channels, NEW stream \in Shown,
             TrackerChange(k, c, stream)
      PROVE  UNCHANGED control
  BY <1>2 DEF TrackerChange
<1>3. ASSUME NEW m \in Maint, MaintStep(m) PROVE OutsideStep
  BY <1>3 DEF MaintStep, OutsideStep
<1>4. ASSUME NEW c \in Clients, Signal(c) PROVE OutsideStep
  BY <1>4 DEF Signal, OutsideStep
<1>5. CASE MaintWake \/ Cancel
  BY <1>5 DEF MaintWake, Cancel, OutsideStep
<1>6. CASE EventReload \/ Reload \/ SelectChannel
  BY <1>6 DEF EventReload, Reload, SelectChannel, OutsideStep, Clients
<1>7. CASE EventRestart \/ CampaignNears \/ CampaignStarts \/ CampaignEnds
           \/ CooldownOver \/ ClearSelectedChannel
  BY <1>7 DEF EventRestart, CampaignNears, CampaignStarts, CampaignEnds,
              CooldownOver, ClearSelectedChannel
<1> QED
  BY <1>1, <1>2, <1>3, <1>4, <1>5, <1>6, <1>7 DEF Next

LEMMA NextRefines == Next => Loop!Next \/ UNCHANGED control
BY RunStepRefines, LoopStepRefines, OtherStepRefines, OutsideRefines DEF Loop!Next

-----------------------------------------------------------------------------
(* Types of the control, as for RunLoop.                                   *)

\* The steps of Run keep the types of the control.
LEMMA ControlTypesRun == Loop!TypeOK /\ Loop!RunStep => Loop!TypeOK'
<1> SUFFICES ASSUME Loop!TypeOK, Loop!RunStep PROVE Loop!TypeOK'
  OBVIOUS
<1> USE DEF Loop!TypeOK, Loop!RunAt, Loop!MaintAt, Loop!RunOnly
<1>1. CASE Loop!Start
  BY <1>1 DEF Loop!Start, Loop!Requested, Loop!States
<1>2. CASE Loop!Dispatch
  BY <1>2 DEF Loop!Dispatch, Loop!States
<1>3. CASE Loop!ExitLoop
  BY <1>3 DEF Loop!ExitLoop, Loop!Return, Loop!States
<1>4. CASE Loop!HandleIdle
  BY <1>4 DEF Loop!HandleIdle
<1>5. CASE Loop!HandleInventoryFetch
  <2>1. state' \in Loop!States
    BY <1>5 DEF Loop!HandleInventoryFetch, Loop!MoveOn, Loop!Advanced, Loop!States
  <2>2. maint' \in [Maint -> Loop!MaintAt] /\ live' \in Maint
    BY <1>5 DEF Loop!HandleInventoryFetch, Loop!RestartMaintenance
  <2> QED
    BY <1>5, <2>1, <2>2 DEF Loop!HandleInventoryFetch, Loop!MoveOn
<1>6. CASE Loop!HandleGamesUpdate
  BY <1>6 DEF Loop!HandleGamesUpdate, Loop!MoveOn, Loop!Advanced, Loop!States
<1>7. ASSUME NEW to \in {"Idle", "ChannelsFetch"}, Loop!HandleChannelsCleanup(to)
      PROVE  Loop!TypeOK'
  BY <1>7 DEF Loop!HandleChannelsCleanup, Loop!MoveOn, Loop!Advanced, Loop!States
<1>8. CASE Loop!HandleChannelsFetch
  BY <1>8 DEF Loop!HandleChannelsFetch, Loop!MoveOn, Loop!Advanced, Loop!States
<1>9. CASE Loop!SwitchToChannel
  BY <1>9 DEF Loop!SwitchToChannel
<1>10. CASE Loop!SwitchToIdle
  BY <1>10 DEF Loop!SwitchToIdle, Loop!MoveOn, Loop!Advanced, Loop!States
<1>11. CASE Loop!HandlerError
  BY <1>11 DEF Loop!HandlerError, Loop!Return
<1>12. CASE Loop!Retry
  BY <1>12 DEF Loop!Retry, Loop!Requested, Loop!States
<1>13. CASE Loop!BackoffCancelled
  BY <1>13 DEF Loop!BackoffCancelled, Loop!Return
<1>14. CASE Loop!Wake
  BY <1>14 DEF Loop!Wake
<1>15. CASE Loop!WaitCancelled
  BY <1>15 DEF Loop!WaitCancelled, Loop!States
<1>16. CASE Loop!Join
  BY <1>16 DEF Loop!Join
<1> QED
  BY <1>1, <1>2, <1>3, <1>4, <1>5, <1>6, <1>7, <1>8, <1>9, <1>10, <1>11,
     <1>12, <1>13, <1>14, <1>15, <1>16 DEF Loop!RunStep

\* A step of a maintenance goroutine, a client or the watch loop, and the
\* cancellation, keep the types as well.
LEMMA ControlTypesOther ==
    ASSUME Loop!TypeOK, Loop!Next, ~Loop!RunStep
    PROVE  Loop!TypeOK'
<1> USE DEF Loop!TypeOK, Loop!MaintAt, Loop!MaintOnly, Loop!ClientOnly
<1>1. ASSUME NEW m \in Maint, Loop!MaintRequest(m) PROVE Loop!TypeOK'
  BY <1>1 DEF Loop!MaintRequest, Loop!Requested, Loop!States
<1>2. ASSUME NEW m \in Maint, Loop!MaintSignal(m) PROVE Loop!TypeOK'
  BY <1>2 DEF Loop!MaintSignal
<1>3. ASSUME NEW m \in Maint, Loop!MaintStop(m) PROVE Loop!TypeOK'
  BY <1>3 DEF Loop!MaintStop
<1>4. ASSUME NEW m \in Maint, NEW why \in {"trigger", "reload"},
             Loop!MaintWake(m, why)
      PROVE  Loop!TypeOK'
  BY <1>4 DEF Loop!MaintWake
<1>5. ASSUME NEW c \in Clients,
             NEW s \in {"InventoryFetch", "ChannelSwitch"}, Loop!Request(c, s)
      PROVE  Loop!TypeOK'
  BY <1>5 DEF Loop!Request, Loop!Requested, Loop!States
<1>6. ASSUME NEW c \in Clients, Loop!Signal(c)
      PROVE  Loop!TypeOK'
  BY <1>6 DEF Loop!Signal
<1>7. CASE Loop!WatchExit
  BY <1>7 DEF Loop!WatchExit
<1>8. CASE Loop!Cancel
  BY <1>8 DEF Loop!Cancel
<1> QED
  BY <1>1, <1>2, <1>3, <1>4, <1>5, <1>6, <1>7, <1>8 DEF Loop!Next, Loop!MaintStep

-----------------------------------------------------------------------------
(* Types of the data.                                                      *)

LEMMA PartialFunction ==
    ASSUME NEW S, NEW T, NEW f
    PROVE  f \in PartialFunctions(S, T) <=> DOMAIN f \subseteq S /\ f \in [DOMAIN f -> T]
BY DEF PartialFunctions

LEMMA MapTyped ==
    ASSUME NEW f
    PROVE  f \in ChannelMaps <=> DOMAIN f \subseteq Channels /\ f \in [DOMAIN f -> Entries]
BY PartialFunction DEF ChannelMaps

LEMMA WithoutTyped ==
    ASSUME NEW f \in ChannelMaps, NEW R
    PROVE  /\ Without(f, R) \in ChannelMaps
           /\ DOMAIN Without(f, R) = DOMAIN f \ R
           /\ \A c \in DOMAIN f \ R : Without(f, R)[c] = f[c]
<1>1. DOMAIN f \subseteq Channels /\ f \in [DOMAIN f -> Entries]
  BY MapTyped
<1>2. DOMAIN Without(f, R) = DOMAIN f \ R /\ Without(f, R) \in [DOMAIN f \ R -> Entries]
      /\ \A c \in DOMAIN f \ R : Without(f, R)[c] = f[c]
  BY <1>1 DEF Without
<1> QED
  BY <1>1, <1>2, MapTyped

LEMMA WithTyped ==
    ASSUME NEW f \in ChannelMaps, NEW c \in Channels, NEW e \in Entries
    PROVE  /\ With(f, c, e) \in ChannelMaps
           /\ DOMAIN With(f, c, e) = DOMAIN f \cup {c}
           /\ With(f, c, e)[c] = e
           /\ \A x \in DOMAIN f \ {c} : With(f, c, e)[x] = f[x]
<1>1. DOMAIN f \subseteq Channels /\ f \in [DOMAIN f -> Entries]
  BY MapTyped
<1>2. /\ DOMAIN With(f, c, e) = DOMAIN f \cup {c}
      /\ With(f, c, e) \in [DOMAIN f \cup {c} -> Entries]
      /\ With(f, c, e)[c] = e
      /\ \A x \in DOMAIN f \ {c} : With(f, c, e)[x] = f[x]
  BY <1>1 DEF With
<1> QED
  BY <1>1, <1>2, MapTyped

LEMMA Restricted ==
    ASSUME NEW f \in ChannelMaps, NEW K \in SUBSET DOMAIN f
    PROVE  [c \in K |-> f[c]] \in ChannelMaps
<1> DEFINE g == [c \in K |-> f[c]]
<1>1. DOMAIN f \subseteq Channels /\ f \in [DOMAIN f -> Entries]
  BY MapTyped
<1>2. DOMAIN g \subseteq Channels /\ g \in [DOMAIN g -> Entries]
  BY <1>1
<1> HIDE DEF g
<1>3. g \in ChannelMaps
  BY <1>2, MapTyped
<1> QED
  BY <1>3 DEF g

LEMMA Updated ==
    ASSUME NEW f \in ChannelMaps, NEW c \in DOMAIN f, NEW e \in Entries
    PROVE  /\ [f EXCEPT ![c] = e] \in ChannelMaps
           /\ DOMAIN [f EXCEPT ![c] = e] = DOMAIN f
<1> DEFINE g == [f EXCEPT ![c] = e]
<1>1. DOMAIN f \subseteq Channels /\ f \in [DOMAIN f -> Entries]
  BY MapTyped
<1>2. DOMAIN g = DOMAIN f /\ g \in [DOMAIN g -> Entries]
  BY <1>1
<1> HIDE DEF g
<1>3. g \in ChannelMaps
  BY <1>1, <1>2, MapTyped
<1> QED
  BY <1>2, <1>3 DEF g

LEMMA Restreamed ==
    ASSUME NEW f \in ChannelMaps, NEW c \in DOMAIN f, NEW stream \in Shown
    PROVE  /\ [f EXCEPT ![c].stream = stream] \in ChannelMaps
           /\ DOMAIN [f EXCEPT ![c].stream = stream] = DOMAIN f
           /\ [f EXCEPT ![c].stream = stream][c] \in Entries
           /\ \A x \in DOMAIN f \ {c} : [f EXCEPT ![c].stream = stream][x] = f[x]
<1> DEFINE g == [f EXCEPT ![c].stream = stream]
<1>1. DOMAIN f \subseteq Channels /\ f \in [DOMAIN f -> Entries]
  BY MapTyped
<1>2. [f[c] EXCEPT !.stream = stream] \in Entries
  BY <1>1 DEF Entries
<1>3. DOMAIN g = DOMAIN f /\ g[c] = [f[c] EXCEPT !.stream = stream]
      /\ \A x \in DOMAIN f \ {c} : g[x] = f[x]
  BY <1>1
<1>4. g \in [DOMAIN g -> Entries]
  BY <1>1, <1>2, <1>3
<1> HIDE DEF g
<1>5. g \in ChannelMaps
  BY <1>1, <1>3, <1>4, MapTyped
<1> QED
  BY <1>2, <1>3, <1>5 DEF g

LoopTypes ==
    [at : {"pick", "stop", "sent", "resolving", "stall", "rest"},
     channel : Channels \cup {NoChannel}, stream : Shown, reported : BOOLEAN,
     before : Loop!States]
CallTypes ==
    [at : {"none", "called", "decide", "watch"}, channel : Channels \cup {NoChannel},
     before : Entries, after : Entries, idle : BOOLEAN, own : BOOLEAN]
WorkTypes ==
    [at : WorkAt, found : ChannelMaps, new : SUBSET Channels,
     ask : SUBSET (Games \X BOOLEAN), todo : SUBSET Channels,
     gone : SUBSET Channels, adding : Channels \cup {NoChannel}]

\* TypeOK with its sets named, that a change is of a channel, that the watch loop
\* reports about one, and that what is to be tracked or stored has been found.
Types ==
    /\ Loop!TypeOK
    /\ earnable \subseteq Campaigns /\ near \subseteq Campaigns
    /\ wanted \in PartialFunctions(Games, 1..Cardinality(Games))
    /\ channels \in ChannelMaps /\ tracked \in ChannelMaps
    /\ subscribed \subseteq Channels /\ crossed \subseteq Channels
    /\ watching \in Channels \cup {NoChannel} /\ selected \in Channels \cup {NoChannel}
    /\ stalled \subseteq Channels /\ nudge \in BOOLEAN
    /\ fullCleanup \in BOOLEAN
    /\ work \in WorkTypes
    /\ work.adding # NoChannel => work.adding \in DOMAIN work.found
    /\ work.at = "store" => work.todo \subseteq DOMAIN work.found
    /\ plan \in Channels \cup {Undecided, "keep", "idle"}
    /\ lapsed \subseteq {"topics", "choice"}
    /\ loop \in LoopTypes
    /\ loop.at \in {"sent", "resolving", "stall"} => loop.channel \in Channels
    /\ callback \in [Callers -> CallTypes]
    /\ \A k \in Callers : callback[k].at # "none" => callback[k].channel \in Channels
    /\ events \in 0..MaxEvents

LEMMA EntryTyped ==
    ASSUME NEW f \in ChannelMaps, NEW c \in DOMAIN f
    PROVE  c \in Channels /\ f[c] \in Entries /\ f[c].stream \in Shown /\ f[c].acl \in BOOLEAN
<1>1. DOMAIN f \subseteq Channels /\ f \in [DOMAIN f -> Entries]
  BY MapTyped
<1> QED
  BY <1>1 DEF Entries

LEMMA EmptyMap == <<>> \in ChannelMaps
<1>1. <<>> \in [{} -> Entries]
  OBVIOUS
<1> QED
  BY <1>1 DEF ChannelMaps, PartialFunctions

LEMMA NoWorkTyped == NoWork \in WorkTypes
BY EmptyMap DEF NoWork, WorkTypes, WorkAt

\* What the control may do keeps its types; only the data is left to look at.
LEMMA ControlTyped ==
    ASSUME Types, Loop!Next \/ UNCHANGED control
    PROVE  Loop!TypeOK'
<1>1. CASE Loop!Next
  BY <1>1, ControlTypesRun, ControlTypesOther DEF Types
<1>2. CASE UNCHANGED control
  BY <1>2 DEF Types, Loop!TypeOK
<1> QED
  BY <1>1, <1>2

LEMMA EventTyped == ASSUME Types, Event PROVE events' \in 0..MaxEvents
BY SchedulerAssumption DEF Types, Event

LEMMA OrdersTyped ==
    ASSUME NEW gs \in SUBSET Games, NEW order \in Orders(gs)
    PROVE  order \in PartialFunctions(Games, 1..Cardinality(Games))
<1>1. order \in [gs -> 1..Cardinality(gs)]
  BY DEF Orders
<1>2. IsFiniteSet(gs) /\ Cardinality(gs) <= Cardinality(Games)
      /\ Cardinality(gs) \in Nat /\ Cardinality(Games) \in Nat
  BY SchedulerAssumption, FS_Subset, FS_CardinalityType
<1>3. 1..Cardinality(gs) \subseteq 1..Cardinality(Games)
  BY <1>2
<1>4. DOMAIN order \subseteq Games /\ order \in [DOMAIN order -> 1..Cardinality(Games)]
  BY <1>1, <1>3
<1> QED
  BY <1>4, PartialFunction

LEMMA DeletedTyped ==
    ASSUME Types, NEW S, Deleted(S)
    PROVE  /\ channels' \in ChannelMaps
           /\ watching' \in Channels \cup {NoChannel}
           /\ selected' \in Channels \cup {NoChannel}
BY WithoutTyped DEF Types, Deleted

LEMMA UpsertsTyped ==
    ASSUME Types, NEW c, NEW e \in Entries, Upserts(c, e), Loop!TypeOK'
    PROVE  Types'
<1> USE DEF Types, games, known, watch, local
<1>1. c \in Channels
  BY DEF Upserts, WorkTypes
<1>2. channels' \in ChannelMaps
  BY <1>1, WithTyped DEF Upserts
<1>3. work.found \in ChannelMaps
  BY DEF WorkTypes
<1>4. With(work.found, c, e) \in ChannelMaps
  BY <1>1, <1>3, WithTyped
<1>5. DOMAIN With(work.found, c, e) = DOMAIN work.found \cup {c}
  BY <1>1, <1>3, WithTyped
<1>6. work' = [work EXCEPT !.found = With(work.found, c, e), !.adding = c,
                           !.todo = work.todo \ {c}]
  BY DEF Upserts
<1> DEFINE g == With(work.found, c, e)
<1> HIDE DEF g
<1>7. work' \in WorkTypes /\ work'.adding = c /\ work'.found = g
      /\ work'.at = work.at /\ work'.todo = work.todo \ {c}
  BY <1>1, <1>4, <1>6 DEF WorkTypes, g
<1> QED
  BY <1>2, <1>5, <1>7 DEF Upserts, g

LEMMA TracksTyped == ASSUME Types, Tracks, Loop!TypeOK' PROVE Types'
<1> USE DEF Types, games, known, watch, local
<1> DEFINE c == work.adding
           e == work.found[c]
           x == IF e.stream = Offline /\ c \in DOMAIN tracked
                  THEN [e EXCEPT !.stream = tracked[c].stream] ELSE e
<1>1. c \in Channels /\ e \in Entries
  BY EntryTyped DEF WorkTypes, Tracks
<1>2. x \in Entries
  BY <1>1, EntryTyped DEF Entries
<1>3. tracked' = With(tracked, c, x)
  BY DEF Tracks
<1> HIDE DEF x
<1>4. tracked' \in ChannelMaps
  BY <1>1, <1>2, <1>3, WithTyped
<1>5. work' \in WorkTypes /\ work'.adding = NoChannel /\ work'.at = work.at
      /\ work'.todo = work.todo /\ work'.found = work.found
  BY DEF Tracks, WorkTypes
<1> QED
  BY <1>4, <1>5 DEF Tracks

LEMMA KeptTyped ==
    ASSUME NEW f \in ChannelMaps, NEW K \in Kept(f)
    PROVE  K \subseteq DOMAIN f /\ K \subseteq Channels /\ [c \in K |-> f[c]] \in ChannelMaps
<1>1. K \subseteq DOMAIN f
  BY DEF Kept
<1> QED
  BY <1>1, MapTyped, Restricted

LEMMA WorkStepTyped == ASSUME Types, WorkStep, Loop!TypeOK' PROVE Types'
<1> USE DEF Types, games, known, watch, local
<1>0. NoWork \in WorkTypes
  BY NoWorkTyped
<1>1. CASE CleanupDeletes
  <2>1. work' \in WorkTypes /\ work'.adding = work.adding /\ work'.found = work.found
        /\ work'.at # "store"
    BY <1>1 DEF CleanupDeletes, WorkTypes, WorkAt
  <2> QED
    BY <1>1, <2>1, DeletedTyped DEF CleanupDeletes
<1>2. CASE Forgets
  <2>1. work' \in WorkTypes /\ work'.adding = work.adding /\ work'.found = work.found
    BY <1>2 DEF Forgets, WorkTypes
  <2>2. tracked' \in ChannelMaps
    <3>1. PICK c : tracked' = Without(tracked, {c})
      BY <1>2 DEF Forgets
    <3> QED
      BY <3>1, WithoutTyped
  <2>3. crossed' \subseteq crossed /\ work'.at # "store"
    BY <1>2 DEF Forgets, WorkTypes
  <2> QED
    BY <1>2, <2>1, <2>2, <2>3 DEF Forgets
<1>3. CASE Unsubscribes
  <2>1. work' \in WorkTypes /\ work'.adding = NoChannel
        /\ (work'.at = "store" => work'.todo \subseteq DOMAIN work'.found)
    BY <1>0, <1>3, MapTyped DEF Unsubscribes, WorkTypes, WorkAt, NoWork
  <2> QED
    BY <1>3, <2>1 DEF Unsubscribes
<1>4. CASE AddsAcl
  <2>1. [stream |-> Offline, acl |-> TRUE] \in Entries
    BY DEF Entries, Shown
  <2> QED
    BY <1>4, <2>1, UpsertsTyped DEF AddsAcl
<1>5. CASE Tracks
  BY <1>5, TracksTyped
<1>6. CASE Synced \/ Answered
  <2>1. work' \in WorkTypes /\ work'.adding = work.adding /\ work'.found = work.found
        /\ work'.at # "store"
    BY <1>6 DEF Synced, Answered, WorkTypes, WorkAt
  <2> QED
    BY <1>6, <2>1 DEF Synced, Answered, WorkOnly
<1>7. CASE Applies
  <2>1. PICK c \in work.todo, stream \in Shown :
          /\ c \in DOMAIN tracked
          /\ tracked' = [tracked EXCEPT ![c].stream = stream]
          /\ work' = [work EXCEPT !.todo = @ \ {c}]
          /\ callback' = IF stream = tracked[c].stream THEN callback
                         ELSE [callback EXCEPT !["run"] =
                                 [NoCall EXCEPT !.at = "called", !.channel = c,
                                                !.before = tracked[c],
                                                !.after = tracked'[c]]]
    BY <1>7 DEF Applies
  <2>2. tracked' \in ChannelMaps /\ tracked'[c] \in Entries
    BY <2>1, Restreamed
  <2>3. c \in Channels /\ tracked[c] \in Entries
    BY <2>1, EntryTyped
  <2> DEFINE call == [NoCall EXCEPT !.at = "called", !.channel = c,
                                    !.before = tracked[c], !.after = tracked'[c]]
  <2>4. call \in CallTypes /\ call.channel = c
    BY <2>2, <2>3 DEF CallTypes, NoCall
  <2>5. callback' = callback \/ callback' = [callback EXCEPT !["run"] = call]
    BY <2>1
  <2> HIDE DEF call
  <2>6. callback' \in [Callers -> CallTypes]
        /\ \A k \in Callers : callback'[k].at # "none" => callback'[k].channel \in Channels
    BY <2>3, <2>4, <2>5
  <2>7. work' \in WorkTypes /\ work'.adding = work.adding /\ work'.found = work.found
        /\ work'.at # "store"
    BY <1>7, <2>1 DEF Applies, WorkTypes
  <2> QED
    BY <1>7, <2>2, <2>6, <2>7 DEF Applies
<1>8. CASE Applied
  <2> DEFINE f == [c \in DOMAIN work.found |->
                     IF c \in work.new \cap DOMAIN tracked THEN tracked[c] ELSE work.found[c]]
  <2>1. work.found \in ChannelMaps
    BY DEF WorkTypes
  <2>2. DOMAIN f = DOMAIN work.found /\ DOMAIN f \subseteq Channels
        /\ f \in [DOMAIN f -> Entries]
    BY <2>1, EntryTyped
  <2>3. work' = [work EXCEPT !.at = "ask", !.new = {}, !.found = f]
    BY <1>8 DEF Applied
  <2> HIDE DEF f
  <2>4. f \in ChannelMaps
    BY <2>2, MapTyped
  <2>5. work' \in WorkTypes /\ work'.adding = work.adding
        /\ DOMAIN work'.found = DOMAIN work.found /\ work'.at # "store"
    BY <2>2, <2>3, <2>4 DEF WorkTypes, WorkAt
  <2> QED
    BY <1>8, <2>5 DEF Applied, WorkOnly
<1>9. CASE AddsListed
  <2>1. PICK c \in work.todo, d \in work.ask :
          \E s \in Listed(d, IF c \in DOMAIN work.found THEN work.found[c].stream ELSE Offline) :
             Upserts(c, [stream |-> s, acl |-> FALSE])
    BY <1>9 DEF AddsListed
  <2>2. PICK s \in Streams : Upserts(c, [stream |-> s, acl |-> FALSE])
    BY <2>1 DEF Listed
  <2>3. [stream |-> s, acl |-> FALSE] \in Entries
    BY DEF Entries, Shown
  <2> QED
    BY <2>2, <2>3, UpsertsTyped
<1>10. CASE ListEnds
  <2>1. PICK d \in work.ask : work' = [work EXCEPT !.at = "ask", !.ask = @ \ {d}, !.todo = {}]
    BY <1>10 DEF ListEnds
  <2>2. work' \in WorkTypes /\ work'.adding = work.adding /\ work'.found = work.found
        /\ work'.at # "store"
    BY <2>1 DEF WorkTypes, WorkAt
  <2> QED
    BY <1>10, <2>2 DEF ListEnds, WorkOnly
<1>11. CASE Cuts
  <2>1. PICK K \in Kept(work.found) :
         /\ Deleted(DOMAIN work.found \ K)
         /\ work' = IF DOMAIN work.found \ K = {}
              THEN [NoWork EXCEPT !.at = "store", !.found = [c \in K |-> work.found[c]], !.todo = K]
              ELSE [NoWork EXCEPT !.at = "forget", !.found = [c \in K |-> work.found[c]],
                                  !.gone = DOMAIN work.found \ K, !.todo = DOMAIN work.found \ K]
    BY <1>11 DEF Cuts
  <2>2. work.found \in ChannelMaps
    BY DEF WorkTypes
  <2>3. K \subseteq Channels /\ [c \in K |-> work.found[c]] \in ChannelMaps
        /\ DOMAIN work.found \ K \subseteq Channels
    BY <2>2, KeptTyped, MapTyped
  <2>4. work' \in WorkTypes /\ work'.adding = NoChannel
        /\ (work'.at = "store" => work'.todo \subseteq DOMAIN work'.found)
    BY <1>0, <2>1, <2>3 DEF WorkTypes, WorkAt, NoWork
  <2> QED
    BY <1>11, <2>1, <2>4, DeletedTyped DEF Cuts
<1>12. CASE Stores
  <2>1. PICK c \in work.todo : Upserts(c, work.found[c])
    BY <1>12 DEF Stores
  <2>2. work.found[c] \in Entries
    BY <1>12, <2>1, EntryTyped DEF Stores, WorkTypes
  <2> QED
    BY <2>1, <2>2, UpsertsTyped
<1>13. CASE Subscribes
  <2>1. subscribed' \subseteq Channels
    BY <1>13, MapTyped DEF Subscribes, WorkTypes
  <2>2. work' \in WorkTypes /\ work'.adding = NoChannel /\ work'.at # "store"
    BY <1>0, <1>13 DEF Subscribes, WorkTypes, WorkAt, NoWork
  <2> QED
    BY <1>13, <2>1, <2>2 DEF Subscribes
<1>14. CASE LooksAtWatched
  <2>1. plan' \in Channels \cup {Undecided, "keep", "idle"}
    BY <1>14, MapTyped DEF LooksAtWatched, CanWatch
  <2> QED
    BY <1>14, <2>1 DEF LooksAtWatched
<1> QED
  BY <1>1, <1>2, <1>3, <1>4, <1>5, <1>6, <1>7, <1>8, <1>9, <1>10, <1>11, <1>12, <1>13,
     <1>14 DEF WorkStep

LEMMA RunStepTyped == ASSUME Types, RunStep, Loop!TypeOK' PROVE Types'
<1> USE DEF Types, games, known, watch, local
<1>0. NoWork \in WorkTypes /\ NoWork.adding = NoChannel /\ NoWork.at = "no"
  BY NoWorkTyped DEF NoWork
<1>1. CASE ControlStep
  BY <1>1 DEF ControlStep
<1>2. CASE HandleIdle
  BY <1>2 DEF HandleIdle, StopWatching
<1>3. CASE HandleInventoryFetch \/ InventoryFetchError
  <2>1. Refreshed => earnable' \subseteq Campaigns /\ near' \subseteq Campaigns
    BY SchedulerAssumption DEF Refreshed
  <2>2. earnable' \subseteq Campaigns /\ near' \subseteq Campaigns
        /\ (events' = events \/ Event)
    BY <1>3, <2>1 DEF HandleInventoryFetch, InventoryFetchError
  <2> QED
    BY <1>3, <2>2, EventTyped DEF HandleInventoryFetch, InventoryFetchError
<1>4. CASE HandleGamesUpdate
  <2>1. PICK N \in SUBSET near : wanted' \in Orders({GameOf[p] : p \in N})
    BY <1>4 DEF HandleGamesUpdate
  <2>2. {GameOf[p] : p \in N} \in SUBSET Games
    BY SchedulerAssumption
  <2>3. wanted' \in PartialFunctions(Games, 1..Cardinality(Games))
    BY <2>1, <2>2, OrdersTyped
  <2> QED
    BY <1>4, <2>3 DEF HandleGamesUpdate
<1>5. CASE CleanupBegin
  <2>1. Unneeded \subseteq Channels
    BY MapTyped DEF Unneeded
  <2>2. work' \in WorkTypes /\ work'.adding = NoChannel /\ work'.at # "store"
    BY <1>0, <1>5, <2>1 DEF CleanupBegin, WorkTypes, WorkAt
  <2> QED
    BY <1>5, <2>2 DEF CleanupBegin
<1>6. CASE HandleChannelsCleanup
  BY <1>0, <1>6 DEF HandleChannelsCleanup
<1>7. CASE FetchBegin
  <2> DEFINE new == (UNION {Allowed[p] : p \in Sought}) \ DOMAIN channels
             ask == {<<GameOf[p], p \notin Rewards>> : p \in {q \in Sought : Allowed[q] = {}}}
  <2>1. Sought \subseteq Campaigns
    BY DEF Sought
  <2>2. new \subseteq Channels /\ ask \subseteq Games \X BOOLEAN
    <3>1. ASSUME NEW p \in Sought PROVE Allowed[p] \subseteq Channels /\ GameOf[p] \in Games
      BY <2>1, SchedulerAssumption
    <3>2. new \subseteq Channels
      BY <3>1
    <3>3. ASSUME NEW d \in ask PROVE d \in Games \X BOOLEAN
      <4>1. PICK p \in Sought : d = <<GameOf[p], p \notin Rewards>>
        OBVIOUS
      <4> QED
        BY <3>1, <4>1
    <3> QED
      BY <3>2, <3>3
  <2>3. work' = [NoWork EXCEPT !.at = IF new = {} THEN "ask" ELSE "acl",
                               !.found = channels, !.new = new, !.todo = new, !.ask = ask]
    BY <1>7 DEF FetchBegin
  <2> HIDE DEF new, ask
  <2>4. work' \in WorkTypes /\ work'.adding = NoChannel /\ work'.at # "store"
    BY <1>0, <2>2, <2>3 DEF WorkTypes, WorkAt
  <2> QED
    BY <1>7, <2>4 DEF FetchBegin
<1>8. CASE HandleChannelsFetch
  BY <1>0, <1>8 DEF HandleChannelsFetch, Watch, StopWatching
<1>9. CASE ChannelsFetchError
  BY <1>0, <1>9, EventTyped DEF ChannelsFetchError
<1>10. CASE DecideSwitch
  <2>1. plan' \in Channels \cup {Undecided, "keep", "idle"}
    <3>1. selected \in Channels \/ ~CanWatch(selected)
      BY MapTyped DEF CanWatch
    <3>2. \A S \in SUBSET DOMAIN channels : Best(S) \subseteq Channels
      BY MapTyped DEF Best
    <3> QED
      BY <1>10, <3>1, <3>2 DEF DecideSwitch
  <2> QED
    BY <1>10, <2>1 DEF DecideSwitch
<1>11. CASE HandleChannelSwitch
  BY <1>11 DEF HandleChannelSwitch, Watch
<1>12. CASE WorkStep
  BY <1>12, WorkStepTyped
<1> QED
  BY <1>1, <1>2, <1>3, <1>4, <1>5, <1>6, <1>7, <1>8, <1>9, <1>10, <1>11, <1>12 DEF RunStep

LEMMA LoopStepTyped == ASSUME Types, LoopStep, Loop!TypeOK' PROVE Types'
<1> USE DEF Types, games, known, watch, local, LoopOnly
<1>1. state \in Loop!States
  BY DEF Loop!TypeOK
<1>2. AtPick \in LoopTypes /\ [AtPick EXCEPT !.at = "rest"] \in LoopTypes
      /\ AtPick.at = "pick" /\ [AtPick EXCEPT !.at = "rest"].at = "rest"
  BY DEF AtPick, LoopTypes, Loop!States, Shown
<1>3. CASE LoopWaits \/ LoopStops \/ LoopInterrupted \/ LoopRests \/ WatchExit
  BY <1>2, <1>3 DEF LoopWaits, LoopStops, LoopInterrupted, LoopRests, WatchExit,
                   StopWatching, ChoiceLapses
<1>4. CASE LoopPicks
  <2>1. CASE watching \in DOMAIN channels
    <3>1. channels[watching].stream \in Shown /\ watching \in Channels
      BY <2>1, EntryTyped
    <3>2. loop' \in LoopTypes /\ (loop'.channel \in Channels \/ loop'.at = "stop")
      BY <1>4, <2>1, <3>1 DEF LoopPicks, LoopAt, LoopTypes
    <3> QED
      BY <1>4, <3>2 DEF LoopPicks
  <2>2. CASE watching \notin DOMAIN channels
    <3>1. loop' \in LoopTypes /\ loop'.at = "stop"
      BY <1>4, <2>2 DEF LoopPicks, LoopAt, LoopTypes
    <3> QED
      BY <1>4, <3>1 DEF LoopPicks
  <2> QED
    BY <2>1, <2>2
<1>5. CASE LoopResolves
  <2>1. loop' \in LoopTypes /\ loop'.channel \in Channels
    BY <1>1, <1>5 DEF LoopResolves, LoopTypes
  <2> QED
    BY <1>5, <2>1 DEF LoopResolves
<1>6. CASE LoopResolved
  <2>1. loop' \in LoopTypes /\ loop'.channel \in Channels
    BY <1>6 DEF LoopResolved, LoopAt, LoopTypes
  <2>2. /\ earnable' \subseteq earnable /\ near' \subseteq near
        /\ (events' = events \/ Event) /\ UNCHANGED wanted
        /\ lapsed' \subseteq lapsed \cup {"choice"}
    BY <1>6 DEF LoopResolved, Exhausts, ChoiceLapses
  <2>3. events' \in 0..MaxEvents
    BY <2>2, EventTyped
  <2> QED
    BY <1>6, <2>1, <2>2, <2>3 DEF LoopResolved
<1>7. CASE LoopChecksStall
  <2>1. stalled' \subseteq Channels /\ (events' = events \/ Event)
    BY <1>7 DEF LoopChecksStall
  <2> QED
    BY <1>2, <1>7, <2>1, EventTyped DEF LoopChecksStall
<1> QED
  BY <1>3, <1>4, <1>5, <1>6, <1>7 DEF LoopStep

\* A callback's record, as it goes on.
LEMMA CallTyped ==
    ASSUME Types, NEW k \in Callers, NEW call \in CallTypes,
           call.at # "none" => call.channel \in Channels,
           callback' = [callback EXCEPT ![k] = call]
    PROVE  /\ callback' \in [Callers -> CallTypes]
           /\ \A j \in Callers : callback'[j].at # "none" => callback'[j].channel \in Channels
BY DEF Types

LEMMA NoCallTyped == NoCall \in CallTypes /\ NoCall.at = "none"
BY DEF NoCall, NoEntry, CallTypes, Entries, Shown

LEMMA CallbackStepTyped ==
    ASSUME Types, Loop!TypeOK', NEW k \in Callers, CallbackStep(k)
    PROVE  Types'
<1> USE DEF Types, games, known, watch, local
<1>1. callback[k] \in CallTypes /\ (callback[k].at # "none" => callback[k].channel \in Channels)
  OBVIOUS
<1>2. CASE CallbackReads(k)
  <2>1. channels' \in ChannelMaps
    <3>1. callback[k].after \in Entries
      BY <1>1 DEF CallTypes
    <3> QED
      BY <1>2, <3>1, Updated DEF CallbackReads
  <2> DEFINE call == [callback[k] EXCEPT !.at = "decide", !.idle = (state = "Idle"),
                                         !.own = (watching = callback[k].channel)]
  <2>2. call \in CallTypes /\ call.channel = callback[k].channel
    BY <1>1 DEF CallTypes
  <2>3. /\ \/ callback' = [callback EXCEPT ![k] = call]
           \/ callback' = [callback EXCEPT ![k] = NoCall]
        /\ callback[k].at = "called"
    BY <1>2 DEF CallbackReads
  <2>4. callback[k].channel \in Channels
    BY <1>1, <1>2 DEF CallbackReads
  <2> HIDE DEF call
  <2>5. /\ callback' \in [Callers -> CallTypes]
        /\ \A j \in Callers : callback'[j].at # "none" => callback'[j].channel \in Channels
    BY <2>2, <2>3, <2>4, NoCallTyped, CallTyped
  <2> QED
    BY <1>2, <2>1, <2>5 DEF CallbackReads, ChoiceLapses
<1>3. CASE CallbackDecides(k)
  <2> DEFINE call == [callback[k] EXCEPT !.at = "watch"]
  <2>1. call \in CallTypes /\ call.channel \in Channels
    BY <1>1, <1>3 DEF CallTypes, CallbackDecides
  <2>2. callback' = [callback EXCEPT ![k] = call] \/ callback' = [callback EXCEPT ![k] = NoCall]
    BY <1>3 DEF CallbackDecides
  <2> HIDE DEF call
  <2>3. /\ callback' \in [Callers -> CallTypes]
        /\ \A j \in Callers : callback'[j].at # "none" => callback'[j].channel \in Channels
    BY <2>1, <2>2, NoCallTyped, CallTyped
  <2> QED
    BY <1>3, <2>3 DEF CallbackDecides
<1>4. CASE CallbackWatches(k)
  <2>1. /\ callback' \in [Callers -> CallTypes]
        /\ \A j \in Callers : callback'[j].at # "none" => callback'[j].channel \in Channels
    BY <1>4, NoCallTyped, CallTyped DEF CallbackWatches
  <2> QED
    BY <1>1, <1>4, <2>1 DEF CallbackWatches, Watch, ChoiceLapses
<1> QED
  BY <1>2, <1>3, <1>4 DEF CallbackStep

LEMMA TrackerChangeTyped ==
    ASSUME Types, Loop!TypeOK', NEW k \in Callbacks, NEW c \in Channels, NEW stream \in Shown,
           TrackerChange(k, c, stream)
    PROVE  Types'
<1> USE DEF Types, games, known, watch, local
<1> DEFINE call == [NoCall EXCEPT !.at = "called", !.channel = c,
                                  !.before = tracked[c], !.after = tracked'[c]]
<1>1. c \in DOMAIN tracked /\ tracked' = [tracked EXCEPT ![c].stream = stream]
      /\ callback' = [callback EXCEPT ![k] = call] /\ k \in Callers
  BY DEF TrackerChange, Callers
<1>2. tracked' \in ChannelMaps /\ tracked'[c] \in Entries /\ tracked[c] \in Entries
  BY <1>1, Restreamed, EntryTyped
<1>3. call \in CallTypes /\ call.channel = c
  BY <1>2, NoCallTyped DEF CallTypes
<1> HIDE DEF call
<1>4. /\ callback' \in [Callers -> CallTypes]
      /\ \A j \in Callers : callback'[j].at # "none" => callback'[j].channel \in Channels
  BY <1>1, <1>3, CallTyped
<1>5. crossed' \subseteq Channels
  BY DEF TrackerChange
<1> QED
  BY <1>2, <1>4, <1>5, EventTyped DEF TrackerChange

LEMMA OtherStepTyped ==
    ASSUME Types, Loop!TypeOK', Next, ~RunStep, ~LoopStep
    PROVE  Types'
<1> USE DEF Types, games, known, watch, local, Others
<1>1. ASSUME NEW m \in Maint, MaintStep(m) PROVE Types'
  BY <1>1 DEF MaintStep
<1>2. ASSUME NEW c \in Clients, Signal(c) PROVE Types'
  BY <1>2 DEF Signal
<1>3. CASE MaintWake \/ EventReload \/ Reload \/ Cancel
  BY <1>3, EventTyped DEF MaintWake, EventReload, Reload, Cancel
<1>4. CASE CampaignNears \/ CampaignStarts \/ CampaignEnds
  <2>1. earnable' \subseteq Campaigns /\ near' \subseteq Campaigns
        /\ lapsed' \subseteq lapsed \cup {"choice"}
    BY <1>4 DEF CampaignNears, CampaignStarts, CampaignEnds, Exhausts, ChoiceLapses
  <2> QED
    BY <1>4, <2>1, EventTyped DEF CampaignNears, CampaignStarts, CampaignEnds
<1>5. CASE EventRestart \/ CooldownOver
  <2>1. stalled' \subseteq stalled /\ (events' = events \/ Event)
        /\ lapsed' \subseteq lapsed \cup {"choice"}
    BY <1>5 DEF EventRestart, CooldownOver, ChoiceLapses
  <2> QED
    BY <1>5, <2>1, EventTyped DEF EventRestart, CooldownOver
<1>6. CASE SelectChannel \/ ClearSelectedChannel
  BY <1>6, EventTyped DEF SelectChannel, ClearSelectedChannel, ChoiceLapses
<1> QED
  BY <1>1, <1>2, <1>3, <1>4, <1>5, <1>6, CallbackStepTyped, TrackerChangeTyped DEF Next

LEMMA TypesInductive == Spec => []Types
<1>1. Init => Types
  <2> SUFFICES ASSUME Init PROVE Types
    OBVIOUS
  <2>1. Loop!TypeOK
    BY DEF Init, Loop!Init, Loop!TypeOK, Loop!States, Loop!RunAt, Loop!MaintAt
  <2>2. AtPick \in LoopTypes /\ AtPick.at = "pick"
    BY DEF AtPick, LoopTypes, Loop!States, Shown
  <2>3. callback \in [Callers -> CallTypes] /\ \A k \in Callers : callback[k].at = "none"
    BY NoCallTyped DEF Init
  <2>4. 0 \in 0..MaxEvents
    BY SchedulerAssumption
  <2>5. <<>> \in PartialFunctions(Games, 1..Cardinality(Games))
    <3>1. <<>> \in [{} -> 1..Cardinality(Games)]
      OBVIOUS
    <3> QED
      BY <3>1 DEF PartialFunctions
  <2>6. work \in WorkTypes /\ work.adding = NoChannel /\ work.at = "no"
    BY NoWorkTyped DEF Init, NoWork
  <2> QED
    BY <2>1, <2>2, <2>3, <2>4, <2>5, <2>6, EmptyMap DEF Init, Types
<1>2. Types /\ [Next]_vars => Types'
  <2>1. ASSUME Types, Next PROVE Types'
    <3>1. Loop!TypeOK'
      BY <2>1, NextRefines, ControlTyped
    <3> QED
      BY <2>1, <3>1, RunStepTyped, LoopStepTyped, OtherStepTyped
  <2>2. ASSUME Types, UNCHANGED vars PROVE Types'
    BY <2>2 DEF Types, Loop!TypeOK, vars, games, known, watch, local
  <2> QED
    BY <2>1, <2>2
<1> QED
  BY <1>1, <1>2, PTL DEF Spec

\* The scheduler's variables keep their types, whatever its goroutines do.
THEOREM TypeCorrect == Spec => []TypeOK
<1>1. Types => TypeOK
  BY DEF Types, TypeOK, LoopTypes, CallTypes, WorkTypes
<1> QED
  BY <1>1, TypesInductive, PTL


-----------------------------------------------------------------------------
(* The scheduler's channels, the tracker's and the topics, while the       *)
(* handlers of channels change them call by call.                          *)

\* handleChannelsFetch has its copy of the channels; it is about to write back
\* what it keeps.
Fetching == work.at \in {"acl", "apply", "ask", "list"}
Keeping == work.at \in {"forget", "store"} /\ at = "ChannelsFetch"

\* A change of c is on its way with k.
From(k, c) == callback[k].at = "called" /\ callback[k].channel = c

Handling ==
    /\ work.at # "no" => run = "handling" /\ at \in {"ChannelsCleanup", "ChannelsFetch"}
    /\ work.at \in {"delete", "cleaned"} => at = "ChannelsCleanup"
    /\ Fetching \/ work.at \in {"store", "watched"} => at = "ChannelsFetch"
    /\ callback["run"].at # "none" => work.at = "apply"
    /\ work.at = "no" => work = NoWork
    /\ work.adding # NoChannel => work.at \in {"acl", "list", "store"}
    /\ work.at = "delete" => work.gone \subseteq DOMAIN channels

AddingOK ==
    work.adding # NoChannel =>
        /\ work.adding \in (DOMAIN channels \cap DOMAIN work.found) \ work.todo
        /\ work.at = "acl" => work.adding \notin DOMAIN tracked
        /\ work.at = "list" => work.found[work.adding].stream # Offline
        /\ work.at = "store" => work.adding \in DOMAIN tracked

\* What the tracker and the topics have beyond the scheduler's channels is
\* about to be forgotten; what they lack is about to be tracked.
Domains ==
    /\ DOMAIN channels \ {work.adding} \subseteq DOMAIN tracked
    /\ DOMAIN tracked \subseteq
          DOMAIN channels \cup (IF work.at = "forget" THEN work.todo ELSE {})
    /\ subscribed \subseteq
          DOMAIN channels \cup (IF work.at = "forget" THEN work.gone ELSE {})
    /\ work.at = "forget" => work.gone \cap DOMAIN channels = {}
                             /\ work.todo \subseteq work.gone
    /\ Fetching \/ Keeping => DOMAIN work.found = DOMAIN channels
    /\ work.at = "acl" => /\ work.todo \cap DOMAIN channels = {}
                          /\ work.new \subseteq work.todo \cup DOMAIN channels
    /\ work.at = "apply" => work.todo \subseteq work.new /\ work.new \subseteq DOMAIN channels

Complete ==
    /\ work.at = "watched"
          \/ (work.at \in {"no", "delete", "cleaned"} /\ "topics" \notin lapsed)
       => subscribed = DOMAIN channels
    /\ work.at = "forget" /\ at = "ChannelsCleanup" /\ "topics" \notin lapsed
       => subscribed = DOMAIN channels \cup work.gone

\* While the fetch has its copy, a change that arrives is a crossed one, but for
\* those SyncChannels makes itself.
Unaware ==
    /\ Fetching => \A c \in Channels \ crossed, k \in Callbacks : ~From(k, c)
    /\ Keeping => \A c \in DOMAIN work.found \ crossed, k \in Callers : ~From(k, c)

\* Both hold a channel for the same, but for one change on its way.
AgreedOn(c) ==
    /\ \A k \in Callers : From(k, c) => callback[k].after = tracked[c]
    /\ \A j, k \in Callers : From(j, c) /\ From(k, c) => j = k
    /\ (\A k \in Callers : ~From(k, c)) => channels[c] = tracked[c]

Agreed ==
    \A c \in (DOMAIN channels \cap DOMAIN tracked) \ crossed :
        c # work.adding => AgreedOn(c)

\* The copy of a channel that was not crossed is as good as the tracker's.
Copied ==
    Fetching \/ Keeping =>
        \A c \in DOMAIN work.found \ crossed :
            /\ c # work.adding \/ work.at = "store" =>
                 (work.at = "apply" /\ c \in work.new) \/ tracked[c] = work.found[c]
            /\ c = work.adding => channels[c] = work.found[c]

DataInv == /\ Handling /\ AddingOK /\ Domains /\ Complete
           /\ Unaware /\ Agreed /\ Copied

\* The changes on their way stay there.
CallsStay ==
    \A k \in Callers :
        /\ callback'[k].at = "called" <=> callback[k].at = "called"
        /\ callback[k].at = "called" => callback'[k] = callback[k]
        /\ callback'[k].at # "none" => callback[k].at # "none"

LEMMA Undisturbed ==
    ASSUME DataInv, UNCHANGED <<work, channels, tracked, subscribed, crossed>>, CallsStay,
           "topics" \in lapsed => "topics" \in lapsed',
           UNCHANGED <<run, at>> \/ work.at = "no"
    PROVE  DataInv'
<1> USE DEF CallsStay, Fetching, Keeping
<1>1. "run" \in Callers
  BY DEF Callers
<1>2. Handling' /\ AddingOK'
  BY <1>1 DEF DataInv, Handling, AddingOK
<1>3. Domains' /\ Complete'
  BY DEF DataInv, Domains, Complete
<1>4. \A c : \A k \in Callers : From(k, c)' <=> From(k, c)
  BY DEF From
<1>5. Unaware' /\ Agreed'
  <2>1. Unaware'
    BY <1>4 DEF DataInv, Unaware, Callers
  <2>2. \A c : \A k \in Callers : From(k, c) => callback'[k].after = callback[k].after
    BY DEF From
  <2>3. Agreed'
    BY <1>4, <2>2 DEF DataInv, Agreed, AgreedOn
  <2> QED
    BY <2>1, <2>3
<1>6. Copied'
  BY DEF DataInv, Copied
<1> QED
  BY <1>2, <1>3, <1>5, <1>6 DEF DataInv

\* A step that leaves the callbacks where they are.
LEMMA Steady ==
    ASSUME DataInv, UNCHANGED <<work, known, callback>>,
           "topics" \in lapsed => "topics" \in lapsed',
           UNCHANGED <<run, at>> \/ work.at = "no"
    PROVE  DataInv'
BY Undisturbed DEF CallsStay, known

\* Only Run moves Run.
LEMMA OutsideRun == OutsideStep \/ UNCHANGED control => UNCHANGED <<run, at>>
BY DEF OutsideStep, Loop!MaintStep, Loop!MaintRequest, Loop!MaintSignal, Loop!MaintStop,
       Loop!MaintWake, Loop!Signal, Loop!Request, Loop!WatchExit, Loop!Cancel,
       Loop!MaintOnly, Loop!ClientOnly

LEMMA MapsTyped ==
    ASSUME Types
    PROVE  /\ channels \in ChannelMaps /\ tracked \in ChannelMaps /\ work.found \in ChannelMaps
           /\ DOMAIN channels \subseteq Channels /\ DOMAIN tracked \subseteq Channels
           /\ DOMAIN work.found \subseteq Channels
           /\ NoChannel \notin Channels
BY MapTyped, SchedulerAssumption DEF Types, WorkTypes

LEMMA AgreedStays ==
    ASSUME NEW c, AgreedOn(c), callback' = callback,
           channels'[c] = channels[c], tracked'[c] = tracked[c]
    PROVE  AgreedOn(c)'
BY DEF AgreedOn, From

LEMMA CleanupBeginData ==
    ASSUME Types, DataInv, CleanupBegin PROVE DataInv'
<1> USE DEF CleanupBegin, known, Fetching, Keeping, From
<1>1. /\ work.at = "no" /\ work.adding = NoChannel
      /\ work'.at \in {"cleaned", "delete"} /\ work'.adding = NoChannel
      /\ work'.at = "delete" => work'.gone = Unneeded
      /\ run = "handling" /\ at = "ChannelsCleanup"
  BY DEF DataInv, Handling, NoWork
<1>2. Unneeded \subseteq DOMAIN channels
  BY DEF Unneeded
<1>3. Handling' /\ AddingOK'
  BY <1>1, <1>2 DEF DataInv, Handling, AddingOK
<1>4. Domains' /\ Complete'
  BY <1>1 DEF DataInv, Domains, Complete
<1>5. Unaware' /\ Copied'
  BY <1>1 DEF DataInv, Unaware, Copied
<1>6. Agreed'
  BY <1>1 DEF DataInv, Agreed, AgreedOn
<1> QED
  BY <1>3, <1>4, <1>5, <1>6 DEF DataInv

LEMMA CleanupDeletesData ==
    ASSUME Types, DataInv, CleanupDeletes PROVE DataInv'
<1> USE DEF CleanupDeletes, Fetching, Keeping, From
<1>1. /\ work.at = "delete" /\ work.adding = NoChannel
      /\ work'.at = "forget" /\ work'.adding = NoChannel
      /\ work'.gone = work.gone /\ work'.todo = work.gone
      /\ run = "handling" /\ at = "ChannelsCleanup"
  BY DEF DataInv, Handling, Types, WorkTypes
<1>2. DOMAIN channels' = DOMAIN channels \ work.gone
      /\ \A c \in DOMAIN channels' : channels'[c] = channels[c]
  <2>1. channels' = Without(channels, work.gone)
    BY DEF Deleted
  <2>2. channels \in ChannelMaps
    BY MapsTyped
  <2>3. DOMAIN channels' = DOMAIN channels \ work.gone
    BY <2>1, <2>2, WithoutTyped
  <2>4. \A c \in DOMAIN channels \ work.gone : channels'[c] = channels[c]
    BY <2>1, <2>2, WithoutTyped
  <2> QED
    BY <2>3, <2>4
<1>3. Handling' /\ AddingOK'
  BY <1>1 DEF DataInv, Handling, AddingOK
<1>4. Domains' /\ Complete'
  BY <1>1, <1>2 DEF DataInv, Handling, Domains, Complete
<1>5. Unaware' /\ Copied'
  BY <1>1 DEF DataInv, Unaware, Copied
<1>6. Agreed'
  BY <1>1, <1>2, AgreedStays DEF DataInv, Agreed
<1> QED
  BY <1>3, <1>4, <1>5, <1>6 DEF DataInv

LEMMA ForgetsData ==
    ASSUME Types, DataInv, Forgets PROVE DataInv'
<1> USE DEF Forgets, Fetching, Keeping, From
<1>1. PICK c \in work.todo :
          /\ tracked' = Without(tracked, {c})
          /\ crossed' = IF Called(c) THEN crossed ELSE crossed \ {c}
          /\ work' = [work EXCEPT !.todo = @ \ {c}]
  OBVIOUS
<1>2. /\ work.at = "forget" /\ work.adding = NoChannel
      /\ work'.at = "forget" /\ work'.adding = NoChannel
      /\ work'.gone = work.gone /\ work'.todo = work.todo \ {c}
      /\ work'.found = work.found
      /\ c \notin DOMAIN channels
  BY <1>1 DEF DataInv, Handling, Domains, Types, WorkTypes
<1>3. DOMAIN tracked' = DOMAIN tracked \ {c}
      /\ \A x \in DOMAIN tracked' : tracked'[x] = tracked[x]
  <2>1. tracked \in ChannelMaps
    BY MapsTyped
  <2>2. DOMAIN tracked' = DOMAIN tracked \ {c}
    BY <1>1, <2>1, WithoutTyped
  <2>3. \A x \in DOMAIN tracked \ {c} : tracked'[x] = tracked[x]
    BY <1>1, <2>1, WithoutTyped
  <2> QED
    BY <2>2, <2>3
<1>4. Handling' /\ AddingOK'
  BY <1>2 DEF DataInv, Handling, AddingOK
<1>5. Domains' /\ Complete'
  BY <1>2, <1>3 DEF DataInv, Domains, Complete
<1>6. \A x \in DOMAIN channels : x \in crossed' <=> x \in crossed
  BY <1>1, <1>2
<1>7. Unaware'
  BY <1>2, <1>6 DEF DataInv, Unaware, Domains
<1>8. Copied'
  <2>1. ASSUME Keeping, NEW x \in DOMAIN work.found \ crossed'
        PROVE  tracked'[x] = work.found[x] /\ x # NoChannel
    <3>1. x \in DOMAIN channels \ crossed /\ x # NoChannel
      BY <1>2, <1>6, <2>1, MapsTyped DEF DataInv, Domains
    <3>2. x \in DOMAIN tracked'
      BY <1>2, <1>3, <3>1 DEF DataInv, Domains
    <3>3. tracked[x] = work.found[x]
      BY <1>2, <2>1, <3>1 DEF DataInv, Copied
    <3> QED
      BY <1>3, <3>1, <3>2, <3>3
  <2>2. (Fetching \/ Keeping)' => Keeping
    BY <1>2
  <2> QED
    BY <1>2, <2>1, <2>2 DEF Copied
<1>9. Agreed'
  <2>1. ASSUME NEW x \in (DOMAIN channels \cap DOMAIN tracked') \ crossed'
        PROVE  x \in (DOMAIN channels \cap DOMAIN tracked) \ crossed /\ tracked'[x] = tracked[x]
    BY <1>3, <1>6
  <2>2. UNCHANGED <<channels, callback>>
    OBVIOUS
  <2>3. ASSUME NEW x \in (DOMAIN channels' \cap DOMAIN tracked') \ crossed'
        PROVE  AgreedOn(x)'
    <3>1. x \in (DOMAIN channels \cap DOMAIN tracked) \ crossed /\ tracked'[x] = tracked[x]
          /\ x # work.adding
      BY <1>2, <2>1, <2>2, <2>3, MapsTyped
    <3> QED
      BY <2>2, <3>1, AgreedStays DEF DataInv, Agreed
  <2> QED
    BY <2>3 DEF Agreed
<1> QED
  BY <1>4, <1>5, <1>7, <1>8, <1>9 DEF DataInv

LEMMA UnsubscribesData ==
    ASSUME Types, DataInv, Unsubscribes PROVE DataInv'
<1> USE DEF Unsubscribes, Fetching, Keeping, From
<1>1. /\ work.at = "forget" /\ work.todo = {} /\ work.adding = NoChannel
      /\ work'.adding = NoChannel
      /\ at = "ChannelsCleanup" => work'.at = "cleaned"
      /\ at # "ChannelsCleanup" => work'.at = "store" /\ work'.found = work.found
      /\ run = "handling" /\ at \in {"ChannelsCleanup", "ChannelsFetch"}
  BY DEF DataInv, Handling, NoWork
<1>2. Handling' /\ AddingOK'
  BY <1>1 DEF DataInv, Handling, AddingOK
<1>3. Domains' /\ Complete'
  <2>1. subscribed' \subseteq DOMAIN channels
        /\ (at = "ChannelsCleanup" /\ "topics" \notin lapsed => subscribed' = DOMAIN channels)
    BY <1>1 DEF DataInv, Domains, Complete
  <2>2. Domains'
    BY <1>1, <2>1 DEF DataInv, Domains
  <2>3. Complete'
    BY <1>1, <2>1 DEF Complete
  <2> QED
    BY <2>2, <2>3
<1>4. Unaware' /\ Copied'
  BY <1>1, MapsTyped DEF DataInv, Unaware, Copied
<1>5. Agreed'
  BY <1>1, AgreedStays DEF DataInv, Agreed
<1> QED
  BY <1>2, <1>3, <1>4, <1>5 DEF DataInv

LEMMA UpsertsMaps ==
    ASSUME Types, NEW c \in Channels, NEW e \in Entries, Upserts(c, e)
    PROVE  /\ DOMAIN channels' = DOMAIN channels \cup {c}
           /\ channels'[c] = e
           /\ \A x \in DOMAIN channels \ {c} : channels'[x] = channels[x]
           /\ DOMAIN work'.found = DOMAIN work.found \cup {c}
           /\ work'.found[c] = e
           /\ \A x \in DOMAIN work.found \ {c} : work'.found[x] = work.found[x]
<1>1. /\ DOMAIN channels' = DOMAIN channels \cup {c}
      /\ channels'[c] = e
      /\ \A x \in DOMAIN channels \ {c} : channels'[x] = channels[x]
  <2>1. channels \in ChannelMaps /\ channels' = With(channels, c, e)
    BY MapsTyped DEF Upserts
  <2>2. DOMAIN channels' = DOMAIN channels \cup {c}
    BY <2>1, WithTyped
  <2>3. channels'[c] = e
    BY <2>1, WithTyped
  <2>4. \A x \in DOMAIN channels \ {c} : channels'[x] = channels[x]
    BY <2>1, WithTyped
  <2> QED
    BY <2>2, <2>3, <2>4
<1>2. /\ DOMAIN work'.found = DOMAIN work.found \cup {c}
      /\ work'.found[c] = e
      /\ \A x \in DOMAIN work.found \ {c} : work'.found[x] = work.found[x]
  <2> DEFINE f == work.found
             g == work'.found
  <2>1. f \in ChannelMaps /\ g = With(f, c, e)
    BY MapsTyped DEF Upserts, Types, WorkTypes
  <2> HIDE DEF f, g
  <2>2. DOMAIN g = DOMAIN f \cup {c}
    BY <2>1, WithTyped
  <2>3. g[c] = e
    BY <2>1, WithTyped
  <2>4. \A x \in DOMAIN f \ {c} : g[x] = f[x]
    BY <2>1, WithTyped
  <2> QED
    BY <2>2, <2>3, <2>4 DEF f, g
<1> QED
  BY <1>1, <1>2

LEMMA UpsertsData ==
    ASSUME Types, DataInv, NEW c, NEW e \in Entries, Upserts(c, e),
           work.at \in {"acl", "list", "store"},
           work.at = "list" => e.stream # Offline,
           work.at = "store" => c \in DOMAIN work.found /\ e = work.found[c]
    PROVE  DataInv'
<1> USE DEF Fetching, Keeping, From
<1>1. /\ work.adding = NoChannel /\ c \in work.todo /\ c \in Channels /\ c # NoChannel
      /\ work'.at = work.at /\ work'.adding = c /\ work'.todo = work.todo \ {c}
      /\ work'.new = work.new
      /\ run = "handling" /\ at = "ChannelsFetch"
  BY MapsTyped DEF Upserts, DataInv, Handling, Types, WorkTypes
<1>2. /\ DOMAIN channels' = DOMAIN channels \cup {c}
      /\ channels'[c] = e
      /\ \A x \in DOMAIN channels \ {c} : channels'[x] = channels[x]
  BY <1>1, UpsertsMaps
<1>3. /\ DOMAIN work'.found = DOMAIN work.found \cup {c}
      /\ work'.found[c] = e
      /\ \A x \in DOMAIN work.found \ {c} : work'.found[x] = work.found[x]
  BY <1>1, UpsertsMaps
<1>0. UNCHANGED <<control, tracked, subscribed, crossed, lapsed, callback>>
  BY DEF Upserts
<1>4. DOMAIN work.found = DOMAIN channels /\ DOMAIN channels = DOMAIN tracked
  BY <1>1, MapsTyped DEF DataInv, Domains
<1>5. Handling' /\ AddingOK'
  BY <1>0, <1>1, <1>2, <1>3, <1>4 DEF DataInv, Handling, AddingOK, Domains
<1>6. Domains' /\ Complete'
  BY <1>0, <1>1, <1>2, <1>3, <1>4 DEF DataInv, Domains, Complete
<1>7. Unaware'
  BY <1>0, <1>1, <1>3 DEF DataInv, Unaware
<1>8. Copied'
  <2>1. ASSUME NEW x \in DOMAIN work'.found \ crossed, x # c
        PROVE  (work.at = "apply" /\ x \in work.new) \/ tracked[x] = work'.found[x]
    <3>1. x \in DOMAIN work.found \ crossed /\ x # work.adding
      BY <1>1, <1>3, <1>4, <2>1, MapsTyped
    <3> QED
      BY <1>1, <1>3, <2>1, <3>1 DEF DataInv, Copied
  <2>2. work.at = "store" /\ c \notin crossed => tracked[c] = work.found[c]
    BY <1>1 DEF DataInv, Copied
  <2> QED
    BY <1>0, <1>1, <1>2, <1>3, <2>1, <2>2 DEF Copied
<1>9. Agreed'
  <2>1. ASSUME NEW x \in (DOMAIN channels' \cap DOMAIN tracked') \ crossed', x # c
        PROVE  AgreedOn(x)'
    <3>1. x \in (DOMAIN channels \cap DOMAIN tracked) \ crossed /\ x # work.adding
      BY <1>0, <1>1, <1>2, <2>1, MapsTyped
    <3> QED
      BY <1>0, <1>2, <2>1, <3>1, AgreedStays DEF DataInv, Agreed
  <2> QED
    BY <1>1, <2>1 DEF Agreed
<1> QED
  BY <1>5, <1>6, <1>7, <1>8, <1>9 DEF DataInv

LEMMA TracksData ==
    ASSUME Types, DataInv, Tracks PROVE DataInv'
<1> USE DEF Fetching, Keeping, From
<1> DEFINE c == work.adding
           e == work.found[c]
           x == IF e.stream = Offline /\ c \in DOMAIN tracked
                  THEN [e EXCEPT !.stream = tracked[c].stream] ELSE e
<1>1. /\ c # NoChannel /\ c \in DOMAIN work.found /\ c \in Channels /\ e \in Entries
      /\ work.at \in {"acl", "list", "store"}
      /\ work'.at = work.at /\ work'.adding = NoChannel /\ work'.todo = work.todo
      /\ work'.new = work.new /\ work'.found = work.found
      /\ run = "handling" /\ at = "ChannelsFetch"
  BY MapsTyped, EntryTyped DEF Tracks, DataInv, Handling, AddingOK, Types, WorkTypes
<1>2. x \in Entries
  BY <1>1, MapsTyped, EntryTyped DEF Entries
<1>0. UNCHANGED <<control, channels, subscribed, crossed, lapsed, callback>>
  BY DEF Tracks
<1>3. tracked' = With(tracked, c, x)
  BY DEF Tracks
<1>4. c \notin crossed => x = e
  <2>1. work.at = "store" /\ c \notin crossed => tracked[c] = e
    BY <1>1 DEF DataInv, Copied
  <2> QED
    BY <1>1, <2>1 DEF DataInv, AddingOK, Entries
<1> HIDE DEF x
<1>5. /\ DOMAIN tracked' = DOMAIN tracked \cup {c}
      /\ tracked'[c] = x
      /\ \A y \in DOMAIN tracked \ {c} : tracked'[y] = tracked[y]
  <2>1. tracked \in ChannelMaps
    BY MapsTyped
  <2>2. DOMAIN tracked' = DOMAIN tracked \cup {c}
    BY <1>1, <1>2, <1>3, <2>1, WithTyped
  <2>3. tracked'[c] = x
    BY <1>1, <1>2, <1>3, <2>1, WithTyped
  <2>4. \A y \in DOMAIN tracked \ {c} : tracked'[y] = tracked[y]
    BY <1>1, <1>2, <1>3, <2>1, WithTyped
  <2> QED
    BY <2>2, <2>3, <2>4
<1>6. DOMAIN work.found = DOMAIN channels /\ DOMAIN channels = DOMAIN tracked \cup {c}
  BY <1>1 DEF DataInv, Domains
<1>7. Handling' /\ AddingOK'
  BY <1>0, <1>1 DEF DataInv, Handling, AddingOK
<1>8. Domains' /\ Complete'
  BY <1>0, <1>1, <1>5, <1>6 DEF DataInv, Domains, Complete
<1>9. Unaware'
  BY <1>0, <1>1 DEF DataInv, Unaware
<1>10. Copied'
  <2>1. ASSUME NEW y \in DOMAIN work.found \ crossed
        PROVE  (work.at = "apply" /\ y \in work.new) \/ tracked'[y] = work.found[y]
    <3>1. CASE y = c
      BY <1>4, <1>5, <2>1, <3>1
    <3>2. CASE y # c
      BY <1>1, <1>5, <1>6, <2>1, <3>2 DEF DataInv, Copied
    <3> QED
      BY <3>1, <3>2
  <2> QED
    BY <1>0, <1>1, <1>6, <2>1, MapsTyped DEF Copied
<1>11. Agreed'
  <2>1. ASSUME NEW y \in (DOMAIN channels \cap DOMAIN tracked') \ crossed
        PROVE  AgreedOn(y)'
    <3>1. CASE y = c
      <4>1. \A k \in Callers : ~From(k, c)
        BY <1>1, <2>1, <3>1 DEF DataInv, Unaware, Handling, Callers
      <4>2. channels[c] = e
        BY <1>1, <2>1, <3>1 DEF DataInv, Copied
      <4> QED
        BY <1>0, <1>4, <1>5, <2>1, <3>1, <4>1, <4>2 DEF AgreedOn
    <3>2. CASE y # c
      BY <1>0, <1>5, <2>1, <3>2, AgreedStays DEF DataInv, Agreed
    <3> QED
      BY <3>1, <3>2
  <2> QED
    BY <1>0, <2>1 DEF Agreed
<1> QED
  BY <1>7, <1>8, <1>9, <1>10, <1>11 DEF DataInv

\* The steps that change only where the handler is.
LEMMA WorkMovesData ==
    ASSUME Types, DataInv, Synced \/ Answered \/ ListEnds
    PROVE  DataInv'
<1> USE DEF Fetching, Keeping, From
<1>0. UNCHANGED <<control, channels, tracked, subscribed, crossed, lapsed, callback>>
  BY DEF Synced, Answered, ListEnds, WorkOnly, known
<1>1. /\ work.at \in {"acl", "ask", "list"} /\ work.adding = NoChannel
      /\ work'.at \in {"apply", "list", "ask"} /\ work'.adding = NoChannel
      /\ work'.at = "apply" => work.at = "acl" /\ work.todo = {} /\ work'.todo = work.new
      /\ work'.new = work.new /\ work'.found = work.found
      /\ run = "handling" /\ at = "ChannelsFetch" /\ callback["run"].at = "none"
  BY DEF Synced, Answered, ListEnds, DataInv, Handling, Types, WorkTypes
<1>2. Handling' /\ AddingOK'
  BY <1>0, <1>1 DEF DataInv, Handling, AddingOK
<1>3. Domains' /\ Complete'
  BY <1>0, <1>1 DEF DataInv, Domains, Complete
<1>4. Unaware' /\ Copied'
  BY <1>0, <1>1 DEF DataInv, Unaware, Copied
<1>5. Agreed'
  BY <1>0, <1>1, AgreedStays DEF DataInv, Agreed
<1> QED
  BY <1>2, <1>3, <1>4, <1>5 DEF DataInv

LEMMA AppliesData ==
    ASSUME Types, DataInv, Applies PROVE DataInv'
<1> USE DEF Fetching, Keeping, From
<1>0. UNCHANGED <<control, channels, subscribed, crossed, lapsed>>
      /\ work.at = "apply" /\ callback["run"].at = "none"
  BY DEF Applies, RunReturned
<1>1. PICK c \in work.todo, stream \in Shown :
          /\ c \in DOMAIN tracked
          /\ tracked' = [tracked EXCEPT ![c].stream = stream]
          /\ work' = [work EXCEPT !.todo = @ \ {c}]
          /\ callback' = IF stream = tracked[c].stream THEN callback
                         ELSE [callback EXCEPT !["run"] =
                                 [NoCall EXCEPT !.at = "called", !.channel = c,
                                                !.before = tracked[c],
                                                !.after = tracked'[c]]]
  BY DEF Applies
<1>2. /\ work'.at = "apply" /\ work.adding = NoChannel /\ work'.adding = NoChannel
      /\ work'.todo = work.todo \ {c} /\ work'.new = work.new /\ work'.found = work.found
      /\ run = "handling" /\ at = "ChannelsFetch"
      /\ c \in work.new /\ c \in Channels /\ c \in DOMAIN work.found
  BY <1>0, <1>1, MapsTyped DEF DataInv, Handling, Domains, Types, WorkTypes
<1>3. DOMAIN tracked' = DOMAIN tracked
      /\ \A x \in DOMAIN tracked \ {c} : tracked'[x] = tracked[x]
  BY <1>1, MapsTyped, Restreamed
<1>4. "run" \in Callers /\ callback \in [Callers -> CallTypes]
      /\ \A k \in Callers : k # "run" => k \in Callbacks
  BY DEF Callers, Types
<1>5. CASE stream = tracked[c].stream
  <2>1. tracked[c] \in Entries
    BY <1>1, MapsTyped, EntryTyped
  <2>2. [tracked[c] EXCEPT !.stream = stream] = tracked[c]
    BY <1>5, <2>1 DEF Entries
  <2>3. tracked \in [DOMAIN tracked -> Entries]
    BY MapsTyped, MapTyped
  <2>4. tracked' = tracked
    BY <1>1, <2>2, <2>3
  <2>5. callback' = callback
    BY <1>1, <1>5
  <2>6. Handling' /\ AddingOK'
    BY <1>0, <1>2, <2>5 DEF DataInv, Handling, AddingOK
  <2>7. Domains' /\ Complete'
    BY <1>0, <1>2, <2>4 DEF DataInv, Domains, Complete
  <2>8. Unaware' /\ Copied'
    BY <1>0, <1>2, <2>4, <2>5 DEF DataInv, Unaware, Copied
  <2>9. Agreed'
    BY <1>0, <1>2, <2>4, <2>5, AgreedStays DEF DataInv, Agreed
  <2> QED
    BY <2>6, <2>7, <2>8, <2>9 DEF DataInv
<1>6. CASE stream # tracked[c].stream
  <2>1. /\ callback'["run"].at = "called" /\ callback'["run"].channel = c
        /\ callback'["run"].after = tracked'[c]
        /\ \A k \in Callers : k # "run" => callback'[k] = callback[k]
    <3> DEFINE call == [NoCall EXCEPT !.at = "called", !.channel = c,
                                      !.before = tracked[c], !.after = tracked'[c]]
    <3>1. callback' = [callback EXCEPT !["run"] = call]
      BY <1>1, <1>6
    <3>2. call.at = "called" /\ call.channel = c /\ call.after = tracked'[c]
      BY DEF NoCall
    <3> HIDE DEF call
    <3> QED
      BY <1>4, <3>1, <3>2
  <2>2. Handling' /\ AddingOK'
    BY <1>0, <1>2 DEF DataInv, Handling, AddingOK
  <2>3. Domains' /\ Complete'
    BY <1>0, <1>2, <1>3 DEF DataInv, Domains, Complete
  <2>4. \A x : \A k \in Callbacks : From(k, x)' <=> From(k, x)
    BY <2>1, SchedulerAssumption DEF Callers
  <2>5. Unaware'
    BY <1>0, <1>2, <2>4 DEF DataInv, Unaware
  <2>6. Copied'
    <3>1. ASSUME NEW x \in DOMAIN work.found \ crossed
          PROVE  x \in work.new \/ tracked'[x] = work.found[x]
      BY <1>0, <1>2, <1>3, <3>1, MapsTyped DEF DataInv, Copied, Domains
    <3> QED
      BY <1>0, <1>2, <3>1, MapsTyped DEF Copied
  <2>7. Agreed'
    <3>1. ASSUME NEW x \in (DOMAIN channels \cap DOMAIN tracked) \ crossed, x # c
          PROVE  AgreedOn(x)'
      <4>1. AgreedOn(x)
        BY <1>2, <3>1, MapsTyped DEF DataInv, Agreed
      <4>2. \A k \in Callers : From(k, x)' => k # "run" /\ From(k, x)
                               /\ callback'[k] = callback[k]
        BY <2>1, <3>1
      <4>3. \A k \in Callers : From(k, x) => k # "run" /\ From(k, x)'
        BY <1>0, <2>1
      <4> QED
        BY <1>0, <1>3, <3>1, <4>1, <4>2, <4>3 DEF AgreedOn
    <3>2. c \notin crossed => AgreedOn(c)'
      <4>1. c \notin crossed => \A k \in Callers : From(k, c)' <=> k = "run"
        BY <1>0, <1>2, <1>4, <2>1 DEF DataInv, Unaware
      <4> QED
        BY <1>4, <2>1, <4>1 DEF AgreedOn
    <3> QED
      BY <1>0, <1>3, <3>1, <3>2 DEF Agreed
  <2> QED
    BY <2>2, <2>3, <2>5, <2>6, <2>7 DEF DataInv
<1> QED
  BY <1>5, <1>6

LEMMA AppliedData ==
    ASSUME Types, DataInv, Applied PROVE DataInv'
<1> USE DEF Fetching, Keeping, From
<1>0. UNCHANGED <<control, channels, tracked, subscribed, crossed, lapsed, callback>>
      /\ work.at = "apply" /\ callback["run"].at = "none"
  BY DEF Applied, RunReturned, WorkOnly, known
<1>1. /\ work'.at = "ask" /\ work.adding = NoChannel /\ work'.adding = NoChannel
      /\ run = "handling" /\ at = "ChannelsFetch"
  BY <1>0 DEF Applied, DataInv, Handling, Types, WorkTypes
<1>2. /\ DOMAIN work'.found = DOMAIN work.found
      /\ \A c \in DOMAIN work.found :
            work'.found[c] = IF c \in work.new \cap DOMAIN tracked
                               THEN tracked[c] ELSE work.found[c]
  <2> DEFINE f == [c \in DOMAIN work.found |->
                     IF c \in work.new \cap DOMAIN tracked THEN tracked[c] ELSE work.found[c]]
  <2>1. work'.found = f
    BY DEF Applied, Types, WorkTypes
  <2>2. DOMAIN f = DOMAIN work.found /\ \A c \in DOMAIN work.found :
            f[c] = IF c \in work.new \cap DOMAIN tracked THEN tracked[c] ELSE work.found[c]
    OBVIOUS
  <2> QED
    BY <2>1, <2>2
<1>3. DOMAIN work.found = DOMAIN channels /\ DOMAIN channels = DOMAIN tracked
  BY <1>0, <1>1, MapsTyped DEF DataInv, Domains
<1>4. Handling' /\ AddingOK'
  BY <1>0, <1>1 DEF DataInv, Handling, AddingOK
<1>5. Domains' /\ Complete'
  BY <1>0, <1>1, <1>2 DEF DataInv, Domains, Complete
<1>6. Unaware'
  BY <1>0, <1>1 DEF DataInv, Unaware
<1>7. Copied'
  <2>1. ASSUME NEW c \in DOMAIN work.found \ crossed
        PROVE  tracked[c] = work'.found[c] /\ c # NoChannel
    BY <1>0, <1>1, <1>2, <1>3, <2>1, MapsTyped DEF DataInv, Copied
  <2> QED
    BY <1>0, <1>1, <1>2, <2>1 DEF Copied
<1>8. Agreed'
  BY <1>0, <1>1, AgreedStays DEF DataInv, Agreed
<1> QED
  BY <1>4, <1>5, <1>6, <1>7, <1>8 DEF DataInv

LEMMA CutsData ==
    ASSUME Types, DataInv, Cuts PROVE DataInv'
<1> USE DEF Fetching, Keeping, From
<1>0. UNCHANGED <<control, tracked, subscribed, crossed, lapsed, callback>>
      /\ work.at = "ask"
  BY DEF Cuts
<1>1. PICK K \in Kept(work.found) :
         /\ Deleted(DOMAIN work.found \ K)
         /\ work' = IF DOMAIN work.found \ K = {}
              THEN [NoWork EXCEPT !.at = "store", !.found = [c \in K |-> work.found[c]], !.todo = K]
              ELSE [NoWork EXCEPT !.at = "forget", !.found = [c \in K |-> work.found[c]],
                                  !.gone = DOMAIN work.found \ K, !.todo = DOMAIN work.found \ K]
  BY DEF Cuts
<1>2. K \subseteq DOMAIN work.found
  BY <1>1 DEF Kept
<1>3. /\ work.adding = NoChannel /\ work'.adding = NoChannel
      /\ work'.at \in {"store", "forget"}
      /\ work'.at = "store" => K = DOMAIN work.found
      /\ work'.at = "forget" => work'.gone = DOMAIN work.found \ K
                                /\ work'.todo = DOMAIN work.found \ K
      /\ DOMAIN work'.found = K /\ \A c \in K : work'.found[c] = work.found[c]
      /\ run = "handling" /\ at = "ChannelsFetch" /\ callback["run"].at = "none"
  <2> DEFINE f == [c \in K |-> work.found[c]]
  <2>1. work'.found = f /\ work'.at \in {"store", "forget"} /\ work'.adding = NoChannel
    BY <1>1 DEF NoWork
  <2>2. /\ work'.at = "store" => K = DOMAIN work.found
        /\ work'.at = "forget" => work'.gone = DOMAIN work.found \ K
                                  /\ work'.todo = DOMAIN work.found \ K
    BY <1>1, <1>2 DEF NoWork
  <2>3. DOMAIN f = K /\ \A c \in K : f[c] = work.found[c]
    OBVIOUS
  <2>4. work.adding = NoChannel /\ run = "handling" /\ at = "ChannelsFetch"
        /\ callback["run"].at = "none"
    BY <1>0 DEF DataInv, Handling
  <2> QED
    BY <2>1, <2>2, <2>3, <2>4
<1>4. DOMAIN work.found = DOMAIN channels /\ DOMAIN channels = DOMAIN tracked
  BY <1>0, <1>3, MapsTyped DEF DataInv, Domains
<1>5. DOMAIN channels' = K /\ \A c \in K : channels'[c] = channels[c]
  <2>1. channels' = Without(channels, DOMAIN work.found \ K) /\ channels \in ChannelMaps
    BY <1>1, MapsTyped DEF Deleted
  <2>2. DOMAIN channels' = DOMAIN channels \ (DOMAIN work.found \ K)
    BY <2>1, WithoutTyped
  <2>3. \A c \in DOMAIN channels \ (DOMAIN work.found \ K) : channels'[c] = channels[c]
    BY <2>1, WithoutTyped
  <2> QED
    BY <1>2, <1>4, <2>2, <2>3
<1>6. Handling' /\ AddingOK'
  BY <1>0, <1>3 DEF DataInv, Handling, AddingOK
<1>7. Domains' /\ Complete'
  BY <1>0, <1>2, <1>3, <1>4, <1>5 DEF DataInv, Domains, Complete
<1>8. Unaware'
  <2>1. \A k \in Callers, c \in K \ crossed : ~From(k, c)
    BY <1>0, <1>2, <1>3, MapsTyped DEF DataInv, Unaware, Callers
  <2> QED
    BY <1>0, <1>3, <2>1 DEF Unaware
<1>9. Copied'
  <2>1. \A c \in K \ crossed : tracked[c] = work'.found[c] /\ c # NoChannel
    BY <1>0, <1>2, <1>3, MapsTyped DEF DataInv, Copied
  <2> QED
    BY <1>0, <1>3, <2>1 DEF Copied
<1>10. Agreed'
  BY <1>0, <1>2, <1>3, <1>4, <1>5, AgreedStays DEF DataInv, Agreed
<1> QED
  BY <1>6, <1>7, <1>8, <1>9, <1>10 DEF DataInv

LEMMA SubscribesData ==
    ASSUME Types, DataInv, Subscribes PROVE DataInv'
<1> USE DEF Fetching, Keeping, From
<1>0. UNCHANGED <<control, channels, tracked, crossed, lapsed, callback>>
      /\ work.at = "store" /\ subscribed' = subscribed \cup DOMAIN work.found
  BY DEF Subscribes, AllStored
<1>1. /\ work.adding = NoChannel /\ work'.adding = NoChannel /\ work'.at = "watched"
      /\ run = "handling" /\ at = "ChannelsFetch"
  BY <1>0 DEF Subscribes, AllStored, DataInv, Handling, NoWork
<1>2. subscribed' = DOMAIN channels
  BY <1>0, <1>1 DEF DataInv, Domains
<1>3. Handling' /\ AddingOK'
  BY <1>0, <1>1 DEF DataInv, Handling, AddingOK
<1>4. Domains' /\ Complete'
  BY <1>0, <1>1, <1>2 DEF DataInv, Domains, Complete
<1>5. Unaware' /\ Copied'
  BY <1>1 DEF Unaware, Copied
<1>6. Agreed'
  BY <1>0, <1>1, AgreedStays DEF DataInv, Agreed
<1> QED
  BY <1>3, <1>4, <1>5, <1>6 DEF DataInv

LEMMA WorkStepData ==
    ASSUME Types, DataInv, WorkStep PROVE DataInv'
<1>1. CASE AddsAcl
  <2>1. PICK c \in work.todo : Upserts(c, [stream |-> Offline, acl |-> TRUE])
    BY <1>1 DEF AddsAcl
  <2>2. [stream |-> Offline, acl |-> TRUE] \in Entries
    BY DEF Entries, Shown
  <2> QED
    BY <1>1, <2>1, <2>2, UpsertsData DEF AddsAcl
<1>2. CASE AddsListed
  <2>1. PICK c \in work.todo, d \in work.ask :
          \E s \in Listed(d, IF c \in DOMAIN work.found THEN work.found[c].stream ELSE Offline) :
             Upserts(c, [stream |-> s, acl |-> FALSE])
    BY <1>2 DEF AddsListed
  <2>2. PICK s \in Streams : Upserts(c, [stream |-> s, acl |-> FALSE])
    BY <2>1 DEF Listed
  <2>3. [stream |-> s, acl |-> FALSE] \in Entries /\ s # Offline
    BY SchedulerAssumption DEF Entries, Shown
  <2>4. work.at = "list"
    BY <1>2 DEF AddsListed
  <2> DEFINE e == [stream |-> s, acl |-> FALSE]
  <2>5. e \in Entries /\ e.stream # Offline /\ Upserts(c, e)
    BY <2>2, <2>3
  <2> HIDE DEF e
  <2> QED
    BY <2>4, <2>5, UpsertsData
<1>3. CASE Stores
  <2>1. PICK c \in work.todo : Upserts(c, work.found[c])
    BY <1>3 DEF Stores
  <2>2. c \in DOMAIN work.found /\ work.found[c] \in Entries /\ work.at = "store"
    BY <1>3, <2>1, MapsTyped, EntryTyped DEF Stores, Types
  <2> QED
    BY <2>1, <2>2, UpsertsData
<1>4. CASE LooksAtWatched
  BY <1>4, Steady DEF LooksAtWatched
<1> QED
  BY <1>1, <1>2, <1>3, <1>4, CleanupDeletesData, ForgetsData, UnsubscribesData, TracksData,
     WorkMovesData, AppliesData, AppliedData, CutsData, SubscribesData DEF WorkStep

LEMMA FetchBeginData ==
    ASSUME Types, DataInv, FetchBegin PROVE DataInv'
<1> USE DEF Fetching, Keeping, From
<1>0. UNCHANGED <<control, channels, tracked, subscribed, lapsed, callback>>
      /\ work.at = "no" /\ run = "handling" /\ at = "ChannelsFetch"
      /\ crossed' = crossed \cup {c \in Channels : Called(c)}
  BY DEF FetchBegin
<1> DEFINE new == (UNION {Allowed[p] : p \in Sought}) \ DOMAIN channels
           ask == {<<GameOf[p], p \notin Rewards>> : p \in {q \in Sought : Allowed[q] = {}}}
<1>1. work' = [NoWork EXCEPT !.at = IF new = {} THEN "ask" ELSE "acl",
                             !.found = channels, !.new = new, !.todo = new, !.ask = ask]
  BY DEF FetchBegin
<1>9. new \cap DOMAIN channels = {}
  OBVIOUS
<1> HIDE DEF new, ask
<1>2. /\ work'.at \in {"ask", "acl"} /\ work'.found = channels /\ work'.new = new
      /\ work'.todo = new /\ work.adding = NoChannel /\ work'.adding = NoChannel
      /\ callback["run"].at = "none"
  BY <1>0, <1>1 DEF NoWork, DataInv, Handling
<1>3. DOMAIN channels = DOMAIN tracked
  BY <1>0, <1>2, MapsTyped DEF DataInv, Domains
<1>4. Handling' /\ AddingOK'
  BY <1>0, <1>2 DEF DataInv, Handling, AddingOK
<1>5. Domains' /\ Complete'
  BY <1>0, <1>2, <1>9 DEF DataInv, Domains, Complete
<1>6. \A c \in Channels \ crossed', k \in Callers : ~From(k, c)
  BY <1>0 DEF Called
<1>7. Unaware'
  BY <1>0, <1>2, <1>6 DEF Unaware, Callers
<1>8. Copied'
  <2>1. \A c \in DOMAIN channels \ crossed' : tracked[c] = channels[c] /\ c # NoChannel
    BY <1>0, <1>2, <1>3, <1>6, MapsTyped DEF DataInv, Agreed, AgreedOn
  <2> QED
    BY <1>0, <1>2, <2>1 DEF Copied
<1>10. Agreed'
  BY <1>0, <1>2, AgreedStays DEF DataInv, Agreed
<1> QED
  BY <1>4, <1>5, <1>7, <1>8, <1>10 DEF DataInv

\* The handlers' ends.
LEMMA HandlersEndData ==
    ASSUME Types, DataInv, HandleChannelsCleanup \/ HandleChannelsFetch \/ ChannelsFetchError
    PROVE  DataInv'
<1> USE DEF Fetching, Keeping, From
<1>0. UNCHANGED <<channels, tracked, subscribed, crossed, callback>>
      /\ work' = NoWork
  BY DEF HandleChannelsCleanup, HandleChannelsFetch, ChannelsFetchError, known
<1>1. /\ work.adding = NoChannel /\ work'.at = "no" /\ work'.adding = NoChannel
      /\ work.at \in {"cleaned", "watched", "acl", "ask", "store"}
      /\ callback["run"].at = "none"
  BY <1>0 DEF HandleChannelsCleanup, HandleChannelsFetch, ChannelsFetchError, AllStored,
             DataInv, Handling, NoWork
<1>2. \/ work.at = "watched"
      \/ work.at = "cleaned" /\ lapsed' = lapsed
      \/ "topics" \in lapsed'
  BY DEF HandleChannelsCleanup, HandleChannelsFetch, ChannelsFetchError
<1>3. Handling' /\ AddingOK'
  BY <1>0, <1>1 DEF Handling, AddingOK
<1>4. Domains'
  BY <1>0, <1>1 DEF DataInv, Domains
<1>5. Complete'
  BY <1>0, <1>1, <1>2 DEF DataInv, Complete
<1>6. Unaware' /\ Copied'
  BY <1>1 DEF Unaware, Copied
<1>7. Agreed'
  BY <1>0, <1>1, AgreedStays DEF DataInv, Agreed
<1> QED
  BY <1>3, <1>4, <1>5, <1>6, <1>7 DEF DataInv

LEMMA TrackerChangeData ==
    ASSUME Types, DataInv, NEW k \in Callbacks, NEW c \in Channels, NEW stream \in Shown,
           TrackerChange(k, c, stream)
    PROVE  DataInv'
<1> USE DEF Fetching, Keeping, From
<1>0. /\ UNCHANGED <<control, channels, subscribed, lapsed, work>>
      /\ callback[k].at = "none" /\ c \in DOMAIN tracked \cap subscribed
      /\ tracked' = [tracked EXCEPT ![c].stream = stream]
      /\ crossed' = IF c \in DOMAIN work.found \/ Called(c)
                      THEN crossed \cup {c} ELSE crossed
  BY DEF TrackerChange, local
<1>1. k \in Callers /\ k # "run" /\ "run" \in Callers
  BY SchedulerAssumption DEF Callers
<1>2. /\ callback'[k].at = "called" /\ callback'[k].channel = c
      /\ callback'[k].after = tracked'[c]
      /\ \A j \in Callers : j # k => callback'[j] = callback[j]
  <2> DEFINE call == [NoCall EXCEPT !.at = "called", !.channel = c,
                                    !.before = tracked[c], !.after = tracked'[c]]
  <2>1. callback' = [callback EXCEPT ![k] = call]
    BY DEF TrackerChange
  <2>2. call.at = "called" /\ call.channel = c /\ call.after = tracked'[c]
    BY DEF NoCall
  <2> HIDE DEF call
  <2> QED
    BY <1>1, <2>1, <2>2 DEF Types
<1>3. DOMAIN tracked' = DOMAIN tracked
      /\ \A x \in DOMAIN tracked \ {c} : tracked'[x] = tracked[x]
  BY <1>0, MapsTyped, Restreamed
<1>4. Fetching => c \in crossed'
  BY <1>0 DEF DataInv, Domains
<1>5. \A x, j \in Callers : x # c => (From(j, x)' <=> From(j, x))
  BY <1>0, <1>2
<1>6. Handling' /\ AddingOK'
  BY <1>0, <1>1, <1>2, <1>3 DEF DataInv, Handling, AddingOK
<1>7. Domains' /\ Complete'
  BY <1>0, <1>3 DEF DataInv, Domains, Complete
<1>8. \A x : \A j \in Callers : x # c => (From(j, x)' <=> From(j, x))
  BY <1>0, <1>2
<1>9. Unaware'
  <2>1. Fetching => \A x \in Channels \ crossed', j \in Callbacks : ~From(j, x)'
    BY <1>0, <1>4, <1>8 DEF DataInv, Unaware, Callers
  <2>2. Keeping => \A x \in DOMAIN work.found \ crossed', j \in Callers : ~From(j, x)'
    BY <1>0, <1>8 DEF DataInv, Unaware
  <2> QED
    BY <1>0, <2>1, <2>2 DEF Unaware
<1>10. Copied'
  <2>1. ASSUME Fetching \/ Keeping, NEW x \in DOMAIN work.found \ crossed'
        PROVE  x # c /\ x \in DOMAIN work.found \ crossed
               /\ (x \in DOMAIN tracked => tracked'[x] = tracked[x])
    BY <1>0, <1>3, <2>1
  <2>2. ASSUME Fetching \/ Keeping, NEW x \in DOMAIN work.found \ crossed',
               x # work.adding \/ work.at = "store"
        PROVE  x \in DOMAIN tracked
    <3>1. x \in DOMAIN channels /\ x # NoChannel
      BY <2>1, <2>2, MapsTyped DEF DataInv, Domains
    <3> QED
      BY <2>2, <3>1 DEF DataInv, Domains, AddingOK
  <2> QED
    BY <1>0, <2>1, <2>2 DEF DataInv, Copied
<1>11. Agreed'
  <2>1. ASSUME NEW x \in (DOMAIN channels \cap DOMAIN tracked) \ crossed', x # c,
               x # work.adding
        PROVE  AgreedOn(x)'
    <3>1. AgreedOn(x) /\ tracked'[x] = tracked[x]
      BY <1>0, <1>3, <2>1 DEF DataInv, Agreed
    <3>2. \A j \in Callers : From(j, x) => j # k
      BY <1>0
    <3> QED
      BY <1>0, <1>2, <1>8, <2>1, <3>1, <3>2 DEF AgreedOn
  <2>2. c \notin crossed' => AgreedOn(c)'
    <3>1. c \notin crossed' => \A j \in Callers : From(j, c)' <=> j = k
      BY <1>0, <1>1, <1>2 DEF Called
    <3> QED
      BY <1>1, <1>2, <3>1 DEF AgreedOn
  <2> QED
    BY <1>0, <1>3, <2>1, <2>2 DEF Agreed
<1> QED
  BY <1>6, <1>7, <1>9, <1>10, <1>11 DEF DataInv

LEMMA CallbackReadsData ==
    ASSUME Types, DataInv, NEW k \in Callers, CallbackReads(k)
    PROVE  DataInv'
<1> USE DEF Fetching, Keeping, From
<1> DEFINE c == callback[k].channel
<1>0. /\ UNCHANGED <<control, tracked, subscribed, crossed, work>>
      /\ callback[k].at = "called"
      /\ "topics" \in lapsed' <=> "topics" \in lapsed
  BY DEF CallbackReads, ChoiceLapses
<1>1. c \in Channels /\ callback \in [Callers -> CallTypes]
  BY <1>0 DEF Types
<1>2. DOMAIN channels' = DOMAIN channels
      /\ \A x \in DOMAIN channels : channels'[x] = IF x = c THEN callback[k].after ELSE channels[x]
  <2>1. channels \in [DOMAIN channels -> Entries]
    BY MapsTyped, MapTyped
  <2> QED
    BY <2>1 DEF CallbackReads
<1>3. /\ callback'[k].at # "called"
      /\ \A j \in Callers : j # k => callback'[j] = callback[j]
  <2> DEFINE call == IF state \in BusyStates THEN NoCall
                     ELSE [callback[k] EXCEPT !.at = "decide", !.idle = (state = "Idle"),
                                              !.own = (watching = callback[k].channel)]
  <2>1. callback' = [callback EXCEPT ![k] = call]
    BY DEF CallbackReads
  <2>2. call.at # "called"
    BY <1>1 DEF NoCall, CallTypes
  <2> HIDE DEF call
  <2> QED
    BY <1>1, <2>1, <2>2
<1>4. \A x : \A j \in Callers : From(j, x)' <=> From(j, x) /\ j # k
  BY <1>3
<1>5. Handling' /\ AddingOK'
  BY <1>0, <1>2, <1>3 DEF DataInv, Handling, AddingOK, Callers
<1>6. Domains' /\ Complete'
  BY <1>0, <1>2 DEF DataInv, Domains, Complete
<1>7. Unaware'
  BY <1>0, <1>4 DEF DataInv, Unaware, Callers
<1>8. Copied'
  <2>1. Fetching \/ Keeping => \A x \in DOMAIN work.found \ crossed : x = work.adding => x # c
    <3>1. k = "run" => work.at = "apply"
      BY <1>0 DEF DataInv, Handling
    <3> QED
      BY <1>0, <1>1, <3>1, MapsTyped DEF DataInv, Handling, Unaware, Callers
  <2>2. ASSUME Fetching \/ Keeping, NEW x \in DOMAIN work.found \ crossed, x = work.adding
        PROVE  channels'[x] = work.found[x]
    <3>1. x \in DOMAIN channels /\ x # c
      BY <2>1, <2>2 DEF DataInv, Domains
    <3>2. channels[x] = work.found[x]
      BY <2>2 DEF DataInv, Copied
    <3> QED
      BY <1>2, <3>1, <3>2
  <2> QED
    BY <1>0, <2>2 DEF DataInv, Copied
<1>9. Agreed'
  <2>1. ASSUME NEW x \in (DOMAIN channels \cap DOMAIN tracked) \ crossed, x # work.adding
        PROVE  AgreedOn(x)'
    <3>1. AgreedOn(x)
      BY <2>1 DEF DataInv, Agreed
    <3>2. CASE x = c
      <4>1. \A j \in Callers : ~From(j, x)'
        BY <1>0, <1>4, <3>1, <3>2 DEF AgreedOn
      <4>2. channels'[x] = tracked[x]
        BY <1>0, <1>2, <2>1, <3>1, <3>2 DEF AgreedOn
      <4> QED
        BY <1>0, <4>1, <4>2 DEF AgreedOn
    <3>3. CASE x # c
      <4>1. \A j \in Callers : (From(j, x)' <=> From(j, x))
                               /\ (From(j, x) => callback'[j] = callback[j])
        BY <1>3, <1>4, <3>3
      <4> QED
        BY <1>0, <1>2, <2>1, <3>1, <3>3, <4>1 DEF AgreedOn
    <3> QED
      BY <3>2, <3>3
  <2> QED
    BY <1>0, <1>2, <2>1 DEF Agreed
<1> QED
  BY <1>5, <1>6, <1>7, <1>8, <1>9 DEF DataInv

LEMMA RunStepData ==
    ASSUME Types, DataInv, RunStep PROVE DataInv'
<1>1. CASE ControlStep
  <2>1. run # "handling"
    BY <1>1 DEF ControlStep, Loop!Start, Loop!Dispatch, Loop!ExitLoop, Loop!Retry,
                Loop!BackoffCancelled, Loop!Wake, Loop!WaitCancelled, Loop!Join
  <2>2. work.at = "no" /\ UNCHANGED <<work, known, callback, lapsed>>
    BY <1>1, <2>1 DEF ControlStep, DataInv, Handling, local
  <2> QED
    BY <2>2, Steady
<1>2. CASE HandleIdle \/ HandleInventoryFetch \/ InventoryFetchError \/ HandleGamesUpdate
           \/ HandleChannelSwitch
  <2>1. at \notin {"ChannelsCleanup", "ChannelsFetch"}
    BY <1>2 DEF HandleIdle, HandleInventoryFetch, InventoryFetchError, HandleGamesUpdate,
                HandleChannelSwitch, Loop!HandleIdle, Loop!HandleInventoryFetch,
                Loop!HandleGamesUpdate, Loop!SwitchToChannel, Loop!SwitchToIdle
  <2>2. work.at = "no"
    BY <2>1 DEF DataInv, Handling
  <2>3. UNCHANGED <<work, known, callback, lapsed>>
    BY <1>2 DEF HandleIdle, HandleInventoryFetch, InventoryFetchError, HandleGamesUpdate,
                HandleChannelSwitch, local
  <2> QED
    BY <2>2, <2>3, Steady
<1>3. CASE DecideSwitch
  BY <1>3, Steady DEF DecideSwitch
<1> QED
  BY <1>1, <1>2, <1>3, CleanupBeginData, FetchBeginData, HandlersEndData, WorkStepData
     DEF RunStep

LEMMA OtherStepData ==
    ASSUME Types, DataInv, Next, ~RunStep PROVE DataInv'
<1>0. UNCHANGED <<run, at>>
  BY LoopStepRefines, OtherStepRefines, OutsideRun
<1>1. CASE LoopStep
  <2>1. UNCHANGED <<work, known, callback>> /\ ("topics" \in lapsed => "topics" \in lapsed')
    BY <1>1 DEF LoopStep, LoopWaits, LoopPicks, LoopStops, LoopResolves, LoopResolved,
                LoopChecksStall, LoopRests, LoopInterrupted, WatchExit, LoopOnly, local,
                ChoiceLapses
  <2> QED
    BY <1>0, <2>1, Steady
<1>2. ASSUME NEW k \in Callers, CallbackDecides(k) \/ CallbackWatches(k)
      PROVE  DataInv'
  <2>1. UNCHANGED <<work, channels, tracked, subscribed, crossed>>
        /\ ("topics" \in lapsed => "topics" \in lapsed')
    BY <1>2 DEF CallbackDecides, CallbackWatches, known, local, ChoiceLapses
  <2>2. callback[k].at \in {"decide", "watch"} /\ callback'[k].at # "called"
        /\ \A j \in Callers : j # k => callback'[j] = callback[j]
    <3>1. callback \in [Callers -> CallTypes]
      BY DEF Types
    <3>2. \/ callback' = [callback EXCEPT ![k] = NoCall]
          \/ callback' = [callback EXCEPT ![k].at = "watch"]
      BY <1>2 DEF CallbackDecides, CallbackWatches
    <3> QED
      BY <1>2, <3>1, <3>2 DEF CallbackDecides, CallbackWatches, NoCall, CallTypes
  <2>3. CallsStay
    BY <2>2 DEF CallsStay
  <2> QED
    BY <1>0, <2>1, <2>3, Undisturbed
<1>3. ASSUME NEW k \in Callers, CallbackStep(k) PROVE DataInv'
  BY <1>2, <1>3, CallbackReadsData DEF CallbackStep
<1>4. CASE ~LoopStep /\ \A k \in Callers : ~CallbackStep(k)
  <2>1. CASE \E k \in Callbacks, c \in Channels, stream \in Shown : TrackerChange(k, c, stream)
    BY <2>1, TrackerChangeData
  <2>2. CASE ~\E k \in Callbacks, c \in Channels, stream \in Shown : TrackerChange(k, c, stream)
    <3>1. UNCHANGED <<work, known, callback>> /\ ("topics" \in lapsed => "topics" \in lapsed')
      BY <1>4, <2>2
         DEF Next, MaintStep, Signal, MaintWake, EventReload, EventRestart, CampaignNears,
             CampaignStarts, CampaignEnds, CooldownOver, Reload, SelectChannel,
             ClearSelectedChannel, Cancel, Others, local, ChoiceLapses
    <3> QED
      BY <1>0, <3>1, Steady
  <2> QED
    BY <2>1, <2>2
<1> QED
  BY <1>1, <1>3, <1>4

LEMMA DataInductive == Spec => [](Types /\ DataInv)
<1>1. Init => DataInv
  <2> SUFFICES ASSUME Init PROVE DataInv
    OBVIOUS
  <2>1. work = NoWork /\ work.at = "no" /\ work.adding = NoChannel
    BY DEF Init, NoWork
  <2>2. \A k \in Callers : callback[k].at = "none"
    BY DEF Init, NoCall
  <2>3. DOMAIN channels = {} /\ DOMAIN tracked = {} /\ subscribed = {}
    BY DEF Init
  <2> QED
    BY <2>1, <2>2, <2>3 DEF DataInv, Handling, AddingOK, Domains, Complete, Unaware, Agreed,
                            Copied, Fetching, Keeping, Callers
<1>2. Types /\ DataInv /\ [Next]_vars => DataInv'
  <2>1. ASSUME Types, DataInv, UNCHANGED vars PROVE DataInv'
    BY <2>1, Steady DEF vars, local
  <2> QED
    BY <2>1, RunStepData, OtherStepData
<1> QED
  BY <1>1, <1>2, TypesInductive, PTL DEF Spec

\* When the handlers of channels are done, the tracker has the scheduler's
\* channels and no others, no topic is left for a forgotten one, and both hold
\* a channel for the same but for a change on its way or a crossed one, however
\* the calls of removeChannels and upsertChannel met callbacks, requests and
\* errors.
THEOREM KnownAlikeAlways == Spec => []KnownAlike
<1>1. Types /\ DataInv => KnownAlike
  <2> SUFFICES ASSUME Types, DataInv, work.at = "no" PROVE KnownAlike
    BY DEF KnownAlike
  <2>1. work.adding = NoChannel
    BY DEF DataInv, Handling, NoWork
  <2>2. DOMAIN tracked = DOMAIN channels /\ subscribed \subseteq DOMAIN channels
    BY <2>1, MapsTyped DEF DataInv, Domains
  <2>3. ASSUME NEW c \in DOMAIN channels, c \notin crossed, ~Called(c)
        PROVE  channels[c] = tracked[c]
    <3>1. AgreedOn(c)
      BY <2>1, <2>2, <2>3, MapsTyped DEF DataInv, Agreed
    <3> QED
      BY <2>3, <3>1 DEF AgreedOn, Called, From
  <2> QED
    BY <2>2, <2>3 DEF KnownAlike
<1> QED
  BY <1>1, DataInductive, PTL

\* Every channel the scheduler keeps has its topics once a fetch has run
\* through, also after one that failed half-way.
THEOREM TopicsCompleteAlways == Spec => []TopicsComplete
<1>1. DataInv => TopicsComplete
  BY DEF DataInv, Complete, TopicsComplete
<1> QED
  BY <1>1, DataInductive, PTL

-----------------------------------------------------------------------------
(* Stalled channels.                                                       *)

\* A callback that watches c has decided for it.
Decided(c) == \E k \in Callers : callback[k].at = "watch" /\ callback[k].channel = c

\* Run decides for no stalled channel.
LEMMA WorkStepLeaves ==
    ASSUME Types, NEW c \in Channels, Left(c), WorkStep
    PROVE  watching' # c /\ plan' # c /\ ~Decided(c)'
<1> USE DEF known, watch, local
<1>1. NoChannel # c /\ Undecided # c /\ "keep" # c /\ "idle" # c
  BY SchedulerAssumption
<1>2. watching # c /\ plan # c /\ ~Decided(c)
  BY DEF Left, Decided
<1>3. CASE Applies
  <2>1. UNCHANGED <<watching, plan>>
    BY <1>3 DEF Applies
  <2>2. ASSUME NEW k \in Callers PROVE callback'[k] = callback[k] \/ callback'[k].at # "watch"
    <3>1. PICK d : callback' = callback \/ callback' = [callback EXCEPT !["run"] =
                             [NoCall EXCEPT !.at = "called", !.channel = d,
                                            !.before = tracked[d], !.after = tracked'[d]]]
      BY <1>3 DEF Applies
    <3> DEFINE call == [NoCall EXCEPT !.at = "called", !.channel = d,
                                      !.before = tracked[d], !.after = tracked'[d]]
    <3>2. /\ call.at = "called"
          /\ callback' = callback \/ callback' = [callback EXCEPT !["run"] = call]
      BY <3>1 DEF NoCall
    <3> HIDE DEF call
    <3> QED
      BY <3>2 DEF Types
  <2> QED
    BY <1>2, <2>1, <2>2 DEF Decided
<1>4. CASE LooksAtWatched
  BY <1>1, <1>2, <1>4 DEF LooksAtWatched, Decided
<1>5. CASE ~Applies /\ ~LooksAtWatched
  <2>1. UNCHANGED <<plan, callback>> /\ watching' \in {watching, NoChannel}
    BY <1>5 DEF WorkStep, CleanupDeletes, Forgets, Unsubscribes, AddsAcl, Tracks, Synced,
                Applied, Answered, AddsListed, ListEnds, Cuts, Stores, Subscribes, Upserts,
                Deleted, WorkOnly
  <2> QED
    BY <1>1, <1>2, <2>1 DEF Decided
<1> QED
  BY <1>3, <1>4, <1>5

LEMMA RunStepLeaves ==
    ASSUME Types, NEW c \in Channels, Left(c), RunStep
    PROVE  watching' # c /\ plan' # c /\ ~Decided(c)'
<1> USE DEF watch, local
<1>1. NoChannel # c /\ Undecided # c /\ "keep" # c /\ "idle" # c
  BY SchedulerAssumption
<1>2. watching # c /\ plan # c /\ c \in stalled /\ ~Decided(c)
  BY DEF Left, Decided
<1>3. CASE WorkStep
  BY <1>3, WorkStepLeaves
<1>4. CASE ~WorkStep
  <2>1. UNCHANGED callback
    BY <1>4 DEF RunStep, ControlStep, HandleIdle, HandleInventoryFetch, InventoryFetchError,
         HandleGamesUpdate, CleanupBegin, FetchBegin, HandleChannelsCleanup,
         HandleChannelsFetch, ChannelsFetchError, DecideSwitch, HandleChannelSwitch
  <2>2. ~Decided(c)'
    BY <1>2, <2>1 DEF Decided
  <2>3. CASE DecideSwitch
    <3>1. ~CanWatch(c)
      BY <1>2 DEF CanWatch, CanWatchStream
    <3>2. plan' # c /\ UNCHANGED watching
      BY <1>1, <2>3, <3>1 DEF DecideSwitch, Best
    <3> QED
      BY <1>2, <2>2, <3>2
  <2>4. CASE HandleChannelSwitch \/ HandleChannelsFetch
    <3>1. plan' = Undecided /\ watching' \in {plan, watching, NoChannel}
      BY <2>4 DEF HandleChannelSwitch, HandleChannelsFetch, Watch, StopWatching
    <3> QED
      BY <1>1, <1>2, <2>2, <3>1
  <2>5. CASE ~DecideSwitch /\ ~HandleChannelSwitch /\ ~HandleChannelsFetch
    <3>1. UNCHANGED plan /\ watching' \in {watching, NoChannel}
      BY <1>4, <2>5 DEF RunStep, ControlStep, HandleIdle, HandleInventoryFetch,
           InventoryFetchError, HandleGamesUpdate, CleanupBegin, FetchBegin,
           HandleChannelsCleanup, ChannelsFetchError, StopWatching
    <3> QED
      BY <1>1, <1>2, <2>2, <3>1
  <2> QED
    BY <2>3, <2>4, <2>5
<1> QED
  BY <1>3, <1>4

\* Neither does a callback, and one that had decided for another watches that.
LEMMA CallbackLeaves ==
    ASSUME Types, NEW c \in Channels, Left(c), NEW k \in Callers, CallbackStep(k)
    PROVE  watching' # c /\ UNCHANGED plan /\ ~Decided(c)'
<1> USE DEF watch, local
<1>1. callback \in [Callers -> CallTypes] /\ ~Decided(c) /\ watching # c
  BY DEF Types, Left, Decided
<1>2. ASSUME NEW x, x.at = "watch" => x.channel # c,
             callback' = [callback EXCEPT ![k] = x]
      PROVE  ~Decided(c)'
  BY <1>1, <1>2 DEF Decided
<1>3. CASE CallbackReads(k)
  <2> DEFINE x == IF state \in BusyStates THEN NoCall
                  ELSE [callback[k] EXCEPT !.at = "decide", !.idle = (state = "Idle"),
                                           !.own = (watching = callback[k].channel)]
  <2>1. callback' = [callback EXCEPT ![k] = x]
    BY <1>3 DEF CallbackReads
  <2>2. x.at # "watch"
    BY <1>1 DEF NoCall, CallTypes
  <2> HIDE DEF x
  <2>3. ~Decided(c)'
    BY <1>2, <2>1, <2>2
  <2> QED
    BY <1>1, <1>3, <2>3 DEF CallbackReads
<1>4. CASE CallbackDecides(k)
  <2>1. callback[k].channel = c => ~CanWatchStream(c, callback[k].after.stream)
    BY DEF CanWatchStream, Left
  <2>2. PICK x : /\ callback' = [callback EXCEPT ![k] = x]
                 /\ \/ x = NoCall
                    \/ callback[k].channel # c /\ x = [callback[k] EXCEPT !.at = "watch"]
    BY <1>4, <2>1 DEF CallbackDecides
  <2>3. x.at = "watch" => x.channel # c
    BY <1>1, <2>2 DEF NoCall, CallTypes
  <2>4. ~Decided(c)'
    BY <1>2, <2>2, <2>3
  <2> QED
    BY <1>1, <1>4, <2>4 DEF CallbackDecides
<1>5. CASE CallbackWatches(k)
  <2>1. ~Decided(c)'
    BY <1>2, <1>5 DEF CallbackWatches, NoCall
  <2> QED
    BY <1>1, <1>5, <2>1 DEF CallbackWatches, Watch, Decided
<1> QED
  BY <1>3, <1>4, <1>5 DEF CallbackStep

LEMMA StaysLeft ==
    ASSUME Types, NEW c \in Channels, Left(c), c \in stalled', [Next]_vars
    PROVE  Left(c)'
<1> USE DEF watch, local
<1>1. NoChannel # c /\ watching # c /\ plan # c /\ ~Decided(c)
  BY SchedulerAssumption DEF Left, Decided
<1>2. SUFFICES watching' # c /\ plan' # c /\ ~Decided(c)'
  BY DEF Left, Decided
<1>3. CASE RunStep
  BY <1>3, RunStepLeaves
<1>4. CASE LoopStep
  <2>1. UNCHANGED <<plan, callback>>
    BY <1>4 DEF LoopStep, LoopOnly, LoopWaits, LoopPicks, LoopStops, LoopResolves,
                LoopResolved, LoopChecksStall, LoopRests, LoopInterrupted, WatchExit
  <2>2. watching' \in {watching, NoChannel}
    BY <1>4 DEF LoopStep, LoopWaits, LoopPicks, LoopStops, LoopResolves, LoopResolved,
                LoopChecksStall, LoopRests, LoopInterrupted, WatchExit, StopWatching
  <2> QED
    BY <1>1, <2>1, <2>2 DEF Decided
<1>5. ASSUME NEW k \in Callers, CallbackStep(k)
      PROVE  watching' # c /\ plan' # c /\ ~Decided(c)'
  BY <1>1, <1>5, CallbackLeaves
<1>6. ASSUME NEW k \in Callbacks, NEW d \in Channels, NEW stream \in Shown,
             TrackerChange(k, d, stream)
      PROVE  watching' # c /\ plan' # c /\ ~Decided(c)'
  <2>1. PICK x : x.at = "called" /\ callback' = [callback EXCEPT ![k] = x]
    BY <1>6 DEF TrackerChange, NoCall
  <2>2. callback \in [Callers -> CallTypes]
    BY DEF Types
  <2>3. ~Decided(c)'
    BY <1>1, <2>1, <2>2 DEF Decided
  <2> QED
    BY <1>1, <1>6, <2>3 DEF TrackerChange
<1>7. ASSUME UNCHANGED <<watching, plan, callback>>
      PROVE  watching' # c /\ plan' # c /\ ~Decided(c)'
  BY <1>1, <1>7 DEF Decided
<1>8. ASSUME NEW m \in Maint, MaintStep(m) PROVE UNCHANGED <<watching, plan, callback>>
  BY <1>8 DEF MaintStep, Others
<1>9. ASSUME NEW d \in Clients, Signal(d) PROVE UNCHANGED <<watching, plan, callback>>
  BY <1>9 DEF Signal, Others
<1>10. CASE \/ MaintWake \/ EventReload \/ EventRestart \/ CampaignNears \/ CampaignStarts
            \/ CampaignEnds \/ CooldownOver \/ Reload \/ SelectChannel
            \/ ClearSelectedChannel \/ Cancel
  <2>1. UNCHANGED <<watching, plan, callback>>
    BY <1>10 DEF MaintWake, EventReload, EventRestart, CampaignNears, CampaignStarts,
                 CampaignEnds, CooldownOver, Reload, SelectChannel, ClearSelectedChannel,
                 Cancel, Others
  <2> QED
    BY <1>7, <2>1
<1>11. CASE UNCHANGED vars
  BY <1>7, <1>11 DEF vars
<1> QED
  BY <1>3, <1>4, <1>5, <1>6, <1>7, <1>8, <1>9, <1>10, <1>11 DEF Next

\* A channel that made no progress and was left is not taken up again before
\* its cooldown is over, whoever asks for a switch.
THEOREM StalledAvoidedAlways == Spec => StalledAvoided
<1>1. Types /\ [Next]_vars => [\A c \in Channels : Left(c) /\ c \in stalled' => Left(c)']_vars
  BY StaysLeft
<1> QED
  BY <1>1, TypesInductive, PTL DEF Spec, StalledAvoided

-----------------------------------------------------------------------------
(* No wake-up of Run is lost.                                              *)

\* Nobody has told Run, or is about to, that there is something to do.
Quiet == ~token /\ ~Loop!SignalDue

\* When Run was told nothing, the state is the one it handles or has handled.
Awake ==
    /\ run \in {"handling", "backoff", "wait"} /\ Quiet => state = at
    /\ run = "wait" /\ Quiet => at \in Loop!Resting

\* A step of Run announces what it changes itself, or leaves the state alone;
\* it never takes back what others have announced except by waking up.
LEMMA RunStepAwake == ASSUME Awake, Loop!RunStep PROVE Awake'
<1> USE DEF Awake, Quiet, Loop!Resting
<1>1. Loop!RunOnly => (Loop!SignalDue' <=> Loop!SignalDue)
  BY DEF Loop!RunOnly, Loop!SignalDue
<1>2. CASE Loop!Start \/ Loop!ExitLoop \/ Loop!WaitCancelled
  BY <1>2 DEF Loop!Start, Loop!ExitLoop, Loop!Return, Loop!WaitCancelled
<1>3. CASE Loop!Dispatch
  BY <1>3 DEF Loop!Dispatch
<1>4. CASE Loop!HandleIdle \/ Loop!SwitchToChannel
  BY <1>1, <1>4 DEF Loop!HandleIdle, Loop!SwitchToChannel
<1>5. ASSUME NEW to, Loop!MoveOn(to) PROVE Awake'
  BY <1>5 DEF Loop!MoveOn
<1>6. CASE Loop!HandlerError
  BY <1>1, <1>6 DEF Loop!HandlerError, Loop!Return
<1>7. CASE Loop!Retry \/ Loop!Wake
  BY <1>7 DEF Loop!Retry, Loop!Wake
<1>8. CASE Loop!BackoffCancelled \/ Loop!Join
  BY <1>8 DEF Loop!BackoffCancelled, Loop!Return, Loop!Join
<1> QED
  BY <1>2, <1>3, <1>4, <1>5, <1>6, <1>7, <1>8
     DEF Loop!RunStep, Loop!HandleInventoryFetch, Loop!HandleGamesUpdate,
         Loop!HandleChannelsCleanup, Loop!HandleChannelsFetch, Loop!SwitchToIdle

\* The others announce before or in the step that fills the slot, and ask for
\* anything but Idle.
LEMMA OutsideAnnounces ==
    ASSUME Types, OutsideStep
    PROVE  /\ UNCHANGED <<run, at>>
           /\ Quiet' => Quiet /\ UNCHANGED state
           /\ state' = "Idle" => state = "Idle"
<1> USE DEF Types, Loop!TypeOK, Quiet, Loop!SignalDue, Loop!MaintOnly, Loop!ClientOnly
<1> DEFINE Announced ==
             /\ UNCHANGED <<run, at>>
             /\ Quiet' => Quiet /\ UNCHANGED state
             /\ state' = "Idle" => state = "Idle"
<1>1. ASSUME NEW m \in Maint, Loop!MaintRequest(m) PROVE Announced
  BY <1>1 DEF Loop!MaintRequest, Loop!Requested
<1>2. ASSUME NEW m \in Maint, Loop!MaintSignal(m) PROVE Announced
  BY <1>2 DEF Loop!MaintSignal
<1>3. ASSUME NEW m \in Maint, Loop!MaintStop(m) PROVE Announced
  BY <1>3 DEF Loop!MaintStop
<1>4. ASSUME NEW m \in Maint, NEW why \in {"trigger", "reload"}, Loop!MaintWake(m, why)
      PROVE  Announced
  BY <1>4 DEF Loop!MaintWake
<1>5. ASSUME NEW c \in Clients,
             NEW s \in {"InventoryFetch", "ChannelSwitch"}, Loop!Request(c, s)
      PROVE  Announced
  BY <1>5 DEF Loop!Request, Loop!Requested
<1>6. ASSUME NEW c \in Clients, Loop!Signal(c)
      PROVE  Announced
  BY <1>6 DEF Loop!Signal
<1>7. CASE Loop!WatchExit \/ Loop!Cancel
  BY <1>7 DEF Loop!WatchExit, Loop!Cancel
<1> QED
  BY <1>1, <1>2, <1>3, <1>4, <1>5, <1>6, <1>7 DEF OutsideStep, Loop!MaintStep

LEMMA RequestAnnounced ==
    ASSUME Types, NEW c \in Clients, NEW s \in {"InventoryFetch", "ChannelSwitch"},
           Loop!Request(c, s)
    PROVE  ~Quiet' /\ state' # "Idle"
BY DEF Types, Loop!TypeOK, Loop!Request, Loop!Requested, Quiet, Loop!SignalDue

LEMMA SameControl ==
    ASSUME UNCHANGED control
    PROVE  (Quiet' <=> Quiet) /\ UNCHANGED <<run, at, state>>
BY DEF Quiet, Loop!SignalDue

LEMMA AwakeInductive == Spec => []Awake
<1>1. Init => Awake
  BY DEF Init, Loop!Init, Awake
<1>2. Types /\ Awake /\ [Next]_vars => Awake'
  <2>1. ASSUME Awake, UNCHANGED control PROVE Awake'
    BY <2>1, SameControl DEF Awake
  <2>2. ASSUME Types, Awake, OutsideStep PROVE Awake'
    BY <2>2, OutsideAnnounces DEF Awake
  <2>3. UNCHANGED vars => UNCHANGED control
    BY DEF vars
  <2> QED
    BY <2>1, <2>2, <2>3, RunStepRefines, LoopStepRefines, OtherStepRefines, RunStepAwake
<1> QED
  BY <1>1, <1>2, TypesInductive, PTL DEF Spec

\* Run never sleeps on a state it has not handled with no signal due: what is
\* proved of RunLoop, for the scheduler with its handlers and its clients.
THEOREM WakeupNotLost == Spec => []Loop!NoLostWakeup
<1>1. Awake => Loop!NoLostWakeup
  BY DEF Awake, Quiet, Loop!NoLostWakeup
<1> QED
  BY <1>1, AwakeInductive, PTL

-----------------------------------------------------------------------------
(* The choice of the channel to watch.                                     *)

\* The place of a game is a number, so the order of entries is a strict one.
LEMMA PlaceCounted == ASSUME Types, NEW stream PROVE Priority(stream) \in Int
<1>1. DOMAIN wanted \subseteq Games /\ wanted \in [DOMAIN wanted -> 1..Cardinality(Games)]
  BY PartialFunction DEF Types
<1>2. Cardinality(Games) \in Nat
  BY SchedulerAssumption, FS_CardinalityType
<1> QED
  BY <1>1, <1>2 DEF Priority

LEMMA BeforeStrict ==
    ASSUME Types
    PROVE  /\ \A e : ~Before(e, e)
           /\ \A e, f, g : Before(e, f) /\ Before(f, g) => Before(e, g)
<1>1. ASSUME NEW e PROVE ~Before(e, e)
  <2>1. Priority(e.stream) \in Int
    BY PlaceCounted
  <2> QED
    BY <2>1 DEF Before
<1>2. ASSUME NEW e, NEW f, NEW g, Before(e, f), Before(f, g) PROVE Before(e, g)
  <2>1. Priority(e.stream) \in Int /\ Priority(f.stream) \in Int /\ Priority(g.stream) \in Int
    BY PlaceCounted
  <2> QED
    BY <1>2, <2>1 DEF Before
<1> QED
  BY <1>1, <1>2

\* The channel handleChannelSwitch chooses, and that none is there to choose.
Chosen(c) ==
    IF CanWatch(selected) THEN c = selected
    ELSE CanWatch(c) /\ \A x \in DOMAIN channels :
                           CanWatch(x) => ~Before(channels[x], channels[c])

NoneToWatch == \A c \in DOMAIN channels : ~CanWatch(c)

\* Nothing came between the choice and now that requests no switch.
Standing == "choice" \notin lapsed

Alone(k) == Acting(k) /\ \A j \in Callers : Acting(j) => j = k
NoneActing == \A k \in Callers : ~Acting(k)

\* What is watched would still be chosen but for the channel of the callback k,
\* which is about to see to that.
Reconsiders(k) ==
    LET call == callback[k] IN
    /\ Alone(k)
    /\ call.channel \in DOMAIN channels /\ channels[call.channel] = call.after
    /\ ~call.idle
    /\ call.own => /\ call.at = "decide" /\ call.before.stream # Offline
                   /\ ~CanWatch(call.channel)
    /\ ~call.own =>
         /\ watching # call.channel /\ selected # call.channel
         /\ CanWatch(watching)
         /\ CanWatch(selected) => watching = selected
         /\ ~CanWatch(selected) => \A x \in DOMAIN channels \ {call.channel} :
               CanWatch(x) => ~Before(channels[x], channels[watching])
         /\ call.at = "watch" => CanWatch(call.channel)
                                 /\ Before(call.after, channels[watching])

\* Nothing is there to watch but, perhaps, the channel of the callback k, which
\* is about to ask for a switch then.
Awakens(k) ==
    LET call == callback[k] IN
    /\ Alone(k)
    /\ call.channel \in DOMAIN channels /\ channels[call.channel] = call.after
    /\ call.idle /\ call.at = "decide"
    /\ \A x \in DOMAIN channels \ {call.channel} : ~CanWatch(x)

\* A decision is that of handleChannelSwitch, or of handleChannelsFetch's end.
Deciding ==
    plan # Undecided => (run = "handling" /\ at = "ChannelSwitch") \/ work.at = "watched"

\* With nothing wanted the cleanup leaves no channel.
Cleared ==
    at = "ChannelsCleanup" /\ wanted = <<>> =>
        /\ work.at \in {"forget", "cleaned"} => DOMAIN channels = {}
        /\ work.at = "delete" => work.gone = DOMAIN channels

\* Run settles in Idle only when there is nothing to watch.
Resigned ==
    /\ state = "Idle" => run \notin {"handling", "backoff"} \/ at = "Idle"
    /\ run = "backoff" => at # "Idle"
    /\ Standing /\ state = "Idle" => NoneToWatch \/ \E k \in Callers : Awakens(k)
    /\ Standing /\ plan = "idle" /\ at = "ChannelSwitch" => NoneToWatch /\ NoneActing

\* What the switch handler has decided, and then has done, is right until Run
\* is told of something else.
Decision ==
    Standing /\ Quiet /\ at = "ChannelSwitch" =>
        /\ run = "handling" /\ plan # Undecided =>
             /\ NoneActing
             /\ plan \in Channels => Chosen(plan)
             /\ plan = "keep" => Chosen(watching)
        /\ run = "wait" => \/ Chosen(watching) /\ NoneActing
                           \/ \E k \in Callers : Reconsiders(k)

LEMMA DecidingKept ==
    ASSUME Types, DataInv, Deciding, Next PROVE Deciding'
<1> USE DEF local
<1>0. Undecided \notin Channels
  BY SchedulerAssumption
<1>1. CASE ~RunStep
  <2>1. UNCHANGED <<run, at>>
    BY <1>1, LoopStepRefines, OtherStepRefines, OutsideRun
  <2>2. UNCHANGED <<plan, work>>
    BY <1>1 DEF Next, LoopStep, LoopWaits, LoopPicks, LoopStops, LoopResolves, LoopResolved,
         LoopChecksStall, LoopRests, LoopInterrupted, WatchExit, LoopOnly, CallbackStep,
         CallbackReads, CallbackDecides, CallbackWatches, TrackerChange, MaintStep, Signal,
         MaintWake, EventReload, EventRestart, CampaignNears, CampaignStarts, CampaignEnds,
         CooldownOver, Reload, SelectChannel, ClearSelectedChannel, Cancel, Others
  <2> QED
    BY <2>1, <2>2 DEF Deciding
<1>2. CASE HandleChannelSwitch \/ HandleChannelsFetch
  BY <1>2 DEF HandleChannelSwitch, HandleChannelsFetch, Deciding
<1>3. CASE DecideSwitch \/ LooksAtWatched
  BY <1>3 DEF DecideSwitch, LooksAtWatched, Deciding
<1>4. CASE RunStep /\ ~HandleChannelSwitch /\ ~HandleChannelsFetch /\ ~DecideSwitch
           /\ ~LooksAtWatched
  <2>1. plan' = plan
    BY <1>4 DEF RunStep, ControlStep, HandleIdle, HandleInventoryFetch, InventoryFetchError,
         HandleGamesUpdate, CleanupBegin, FetchBegin, HandleChannelsCleanup,
         ChannelsFetchError, WorkStep, CleanupDeletes, Forgets, Unsubscribes, AddsAcl, Tracks,
         Synced, Applies, Applied, Answered, AddsListed, ListEnds, Cuts, Stores, Subscribes,
         Upserts, WorkOnly
  <2>2. run # "handling" \/ at # "ChannelSwitch"
    BY <1>4 DEF RunStep, ControlStep, HandleIdle, HandleInventoryFetch, InventoryFetchError,
         HandleGamesUpdate, CleanupBegin, FetchBegin, HandleChannelsCleanup,
         ChannelsFetchError, WorkStep, CleanupDeletes, Forgets, Unsubscribes, AddsAcl, Tracks,
         Synced, Applies, Applied, Answered, AddsListed, ListEnds, Cuts, Stores, Subscribes,
         Upserts, WorkOnly, AllStored,
         Loop!Start, Loop!Dispatch, Loop!ExitLoop, Loop!Retry, Loop!BackoffCancelled,
         Loop!Wake, Loop!WaitCancelled, Loop!Join, Loop!HandleIdle, Loop!HandleInventoryFetch,
         Loop!HandleGamesUpdate, DataInv, Handling, Fetching
  <2>3. work.at = "watched" => run = "handling" /\ at = "ChannelsFetch"
    BY DEF DataInv, Handling
  <2>4. work.at # "watched"
    BY <1>4, <2>3 DEF RunStep, ControlStep, HandleIdle, HandleInventoryFetch,
         InventoryFetchError,
         HandleGamesUpdate, CleanupBegin, FetchBegin, HandleChannelsCleanup,
         ChannelsFetchError, WorkStep, CleanupDeletes, Forgets, Unsubscribes, AddsAcl, Tracks,
         Synced, Applies, Applied, Answered, AddsListed, ListEnds, Cuts, Stores, Subscribes,
         Upserts, WorkOnly, AllStored,
         Loop!Start, Loop!Dispatch, Loop!ExitLoop, Loop!Retry, Loop!BackoffCancelled,
         Loop!Wake, Loop!WaitCancelled, Loop!Join, Loop!HandleIdle, Loop!HandleInventoryFetch,
         Loop!HandleGamesUpdate, DataInv, Handling
  <2> QED
    BY <2>1, <2>2, <2>4 DEF Deciding
<1> QED
  BY <1>1, <1>2, <1>3, <1>4

LEMMA ClearedKept ==
    ASSUME Types, DataInv, Cleared, Next PROVE Cleared'
<1>0. /\ work.at # "no" => run = "handling"
      /\ work.at \in {"acl", "apply", "ask", "list", "store", "watched"} => at = "ChannelsFetch"
      /\ work.adding # NoChannel => work.at \in {"acl", "list", "store"}
  BY DEF DataInv, Handling, Fetching
<1>1. CASE ~RunStep
  <2>1. UNCHANGED <<run, at>>
    BY <1>1, LoopStepRefines, OtherStepRefines, OutsideRun
  <2>2. UNCHANGED <<wanted, work>>
    BY <1>1 DEF Next, LoopStep, LoopWaits, LoopPicks, LoopStops, LoopResolves, LoopResolved,
         LoopChecksStall, LoopRests, LoopInterrupted, WatchExit, LoopOnly, CallbackStep,
         CallbackReads, CallbackDecides, CallbackWatches, TrackerChange, MaintStep, Signal,
         MaintWake, EventReload, EventRestart, CampaignNears, CampaignStarts, CampaignEnds,
         CooldownOver, Reload, SelectChannel, ClearSelectedChannel, Cancel, Others, games, local
  <2>3. DOMAIN channels' = DOMAIN channels
    BY <1>1 DEF Next, LoopStep, LoopWaits, LoopPicks, LoopStops, LoopResolves, LoopResolved,
         LoopChecksStall, LoopRests, LoopInterrupted, WatchExit, LoopOnly, CallbackStep,
         CallbackReads, CallbackDecides, CallbackWatches, TrackerChange, MaintStep, Signal,
         MaintWake, EventReload, EventRestart, CampaignNears, CampaignStarts, CampaignEnds,
         CooldownOver, Reload, SelectChannel, ClearSelectedChannel, Cancel, Others, known
  <2> QED
    BY <2>1, <2>2, <2>3 DEF Cleared
<1>2. CASE ControlStep
  <2>1. UNCHANGED work /\ run # "handling"
    BY <1>2 DEF ControlStep, local, Loop!Start, Loop!Dispatch, Loop!ExitLoop, Loop!Retry,
                Loop!BackoffCancelled, Loop!Wake, Loop!WaitCancelled, Loop!Join
  <2> QED
    BY <1>0, <2>1 DEF Cleared
<1>3. CASE HandleIdle \/ HandleInventoryFetch \/ InventoryFetchError \/ HandleGamesUpdate
           \/ FetchBegin \/ DecideSwitch \/ HandleChannelSwitch
  <2>1. at' # "ChannelsCleanup"
    BY <1>3 DEF HandleIdle, HandleInventoryFetch, InventoryFetchError, HandleGamesUpdate,
         FetchBegin, DecideSwitch, HandleChannelSwitch, Loop!HandleIdle,
         Loop!HandleInventoryFetch, Loop!HandlerError, Loop!HandleGamesUpdate,
         Loop!SwitchToChannel, Loop!SwitchToIdle, Loop!MoveOn
  <2> QED
    BY <2>1 DEF Cleared
<1>4. CASE HandleChannelsCleanup \/ HandleChannelsFetch \/ ChannelsFetchError
  BY <1>4 DEF HandleChannelsCleanup, HandleChannelsFetch, ChannelsFetchError, Cleared, NoWork
<1>5. CASE CleanupBegin
  <2>1. wanted = <<>> => Unneeded = DOMAIN channels
    BY DEF Unneeded
  <2>2. /\ UNCHANGED <<channels, wanted, at>>
        /\ work'.at \in {"cleaned", "delete"}
        /\ work'.at = "cleaned" => Unneeded = {}
        /\ work'.at = "delete" => work'.gone = Unneeded
    BY <1>5 DEF CleanupBegin, NoWork, games, known
  <2> QED
    BY <2>1, <2>2 DEF Cleared
<1>6. CASE WorkStep
  <2>1. UNCHANGED <<wanted, at>>
    BY <1>6, WorkStepFrame DEF games
  <2>2. CASE CleanupDeletes
    <3>1. /\ work.at = "delete" /\ work'.at = "forget"
          /\ channels' = Without(channels, work.gone)
      BY <2>2 DEF CleanupDeletes, Deleted, Types, WorkTypes
    <3>2. DOMAIN channels' = DOMAIN channels \ work.gone
      BY <3>1, MapsTyped, WithoutTyped
    <3> QED
      BY <2>1, <3>1, <3>2 DEF Cleared
  <2>3. CASE Forgets
    <3>1. work.at = "forget" /\ work'.at = "forget" /\ UNCHANGED channels
      BY <2>3 DEF Forgets, Types, WorkTypes
    <3> QED
      BY <2>1, <3>1 DEF Cleared
  <2>4. CASE Unsubscribes
    <3>1. /\ work.at = "forget" /\ UNCHANGED channels
          /\ at = "ChannelsCleanup" => work'.at = "cleaned"
      BY <2>4 DEF Unsubscribes, NoWork
    <3> QED
      BY <2>1, <3>1 DEF Cleared
  <2>5. CASE ~CleanupDeletes /\ ~Forgets /\ ~Unsubscribes
    <3>1. at = "ChannelsFetch"
      BY <1>0, <1>6, <2>5 DEF WorkStep, AddsAcl, Tracks, Synced, Applies, Applied, Answered,
           AddsListed, ListEnds, Cuts, Stores, Subscribes, AllStored, LooksAtWatched
    <3> QED
      BY <2>1, <3>1 DEF Cleared
  <2> QED
    BY <2>2, <2>3, <2>4, <2>5
<1> QED
  BY <1>1, <1>2, <1>3, <1>4, <1>5, <1>6 DEF RunStep

-----------------------------------------------------------------------------
(* Who leaves the choice as it is, or says that he does not.               *)

LEMMA SameWatchable ==
    ASSUME UNCHANGED <<channels, wanted, earnable, stalled>>
    PROVE  /\ \A c : CanWatch(c)' <=> CanWatch(c)
           /\ \A e, f : Before(e, f)' <=> Before(e, f)
BY DEF CanWatch, CanWatchStream, Worth, Before, Priority

LEMMA LessWatchable ==
    ASSUME UNCHANGED <<channels, wanted>>, earnable' \subseteq earnable, stalled \subseteq stalled'
    PROVE  \A c : CanWatch(c)' => CanWatch(c)
BY DEF CanWatch, CanWatchStream, Worth

LEMMA ChosenIsWatchable == ASSUME NEW c, Chosen(c) PROVE CanWatch(c)
BY DEF Chosen

LEMMA SameChoice ==
    ASSUME UNCHANGED <<channels, wanted, earnable, stalled, selected>>
    PROVE  \A c : Chosen(c)' <=> Chosen(c)
<1>1. CanWatch(selected)' <=> CanWatch(selected)
  BY SameWatchable
<1> QED
  BY <1>1, SameWatchable DEF Chosen

\* The callbacks that act go on as they were.
ActsStay ==
    \A k \in Callers : /\ Acting(k)' <=> Acting(k)
                       /\ Acting(k) => callback'[k] = callback[k]

LEMMA StillChosen ==
    ASSUME Resigned, Decision, ActsStay,
           UNCHANGED <<channels, wanted, plan, run, at>>,
           earnable' \subseteq earnable, stalled \subseteq stalled',
           "choice" \in lapsed => "choice" \in lapsed',
           Quiet' => Quiet /\ UNCHANGED <<earnable, stalled, selected, watching>>,
           state' = "Idle" => state = "Idle"
    PROVE  Resigned' /\ Decision'
<1>1. Standing' => Standing
  BY DEF Standing
<1>2. \A k \in Callers : Alone(k) => Alone(k)'
  BY DEF ActsStay, Alone
<1>3. NoneActing => NoneActing'
  BY DEF ActsStay, NoneActing
<1>4. Resigned'
  <2>1. \A c : CanWatch(c)' => CanWatch(c)
    BY LessWatchable
  <2>2. NoneToWatch => NoneToWatch'
    BY <2>1 DEF NoneToWatch
  <2>3. ASSUME NEW k \in Callers, Awakens(k) PROVE Awakens(k)'
    <3>1. callback'[k] = callback[k]
      BY <2>3 DEF Awakens, Alone, ActsStay
    <3> QED
      BY <1>2, <2>1, <2>3, <3>1 DEF Awakens
  <2>4. state' = "Idle" => run' \notin {"handling", "backoff"} \/ at' = "Idle"
    BY DEF Resigned
  <2>5. run' = "backoff" => at' # "Idle"
    BY DEF Resigned
  <2>6. Standing' /\ state' = "Idle" => NoneToWatch' \/ \E k \in Callers : Awakens(k)'
    BY <1>1, <2>2, <2>3 DEF Resigned
  <2>7. Standing' /\ plan' = "idle" /\ at' = "ChannelSwitch" => NoneToWatch' /\ NoneActing'
    BY <1>1, <1>3, <2>2 DEF Resigned
  <2> QED
    BY <2>4, <2>5, <2>6, <2>7 DEF Resigned
<1>5. Decision'
  <2>1. SUFFICES ASSUME Standing', Quiet', at' = "ChannelSwitch" PROVE Decision'
    BY DEF Decision
  <2>2. Standing /\ Quiet /\ UNCHANGED <<earnable, stalled, selected, watching>>
    BY <1>1, <2>1
  <2>3. \A c : Chosen(c)' <=> Chosen(c)
    BY <2>2, SameChoice
  <2>4. ASSUME NEW k \in Callers, Reconsiders(k) PROVE Reconsiders(k)'
    <3>1. callback'[k] = callback[k]
      BY <2>4 DEF Reconsiders, Alone, ActsStay
    <3>2. /\ \A c : CanWatch(c)' <=> CanWatch(c)
          /\ \A e, f : Before(e, f)' <=> Before(e, f)
      BY <2>2, SameWatchable
    <3>3. (CanWatch(selected)' <=> CanWatch(selected))
          /\ (CanWatch(watching)' <=> CanWatch(watching))
      BY <2>2, <3>2
    <3>4. CanWatch(callback[k].channel)' <=> CanWatch(callback[k].channel)
      BY <3>1, <3>2
    <3> QED
      BY <1>2, <2>2, <2>4, <3>1, <3>2, <3>3, <3>4 DEF Reconsiders
  <2>5. run' = "handling" /\ plan' # Undecided =>
             /\ NoneActing'
             /\ plan' \in Channels => Chosen(plan)'
             /\ plan' = "keep" => Chosen(watching)'
    <3>1. (Chosen(plan)' <=> Chosen(plan)) /\ (Chosen(watching)' <=> Chosen(watching))
      BY <2>2, <2>3
    <3> QED
      BY <1>3, <2>1, <2>2, <3>1 DEF Decision
  <2>6. run' = "wait" => \/ Chosen(watching)' /\ NoneActing'
                         \/ \E k \in Callers : Reconsiders(k)'
    <3>1. Chosen(watching)' <=> Chosen(watching)
      BY <2>2, <2>3
    <3> QED
      BY <1>3, <2>1, <2>2, <2>4, <3>1 DEF Decision
  <2> QED
    BY <2>5, <2>6 DEF Decision
<1> QED
  BY <1>4, <1>5

\* Someone acts in a way that makes the choice lapse.
LEMMA NotStanding ==
    ASSUME Resigned, UNCHANGED <<run, at>>, "choice" \in lapsed',
           state' = "Idle" => state = "Idle"
    PROVE  Resigned' /\ Decision'
BY DEF Resigned, Decision, Standing

\* A handler of another state: a choice is still to come, before Run rests.
LEMMA OtherHandler ==
    ASSUME run = "handling", at \notin {"Idle", "ChannelSwitch"}, at' = at, state' # "Idle"
    PROVE  Resigned' /\ Decision'
BY DEF Resigned, Decision

LEMMA LoopStepChosen ==
    ASSUME Types, Resigned, Decision, LoopStep
    PROVE  Resigned' /\ Decision'
<1> USE DEF known, local, games, watch
<1>1. /\ UNCHANGED <<run, at>>
      /\ Quiet' => Quiet
      /\ state' = "Idle" => state = "Idle"
  <2>1. CASE OutsideStep
    BY <2>1, OutsideAnnounces
  <2>2. CASE UNCHANGED control
    BY <2>2, SameControl
  <2> QED
    BY <2>1, <2>2, LoopStepRefines
<1>2. UNCHANGED <<channels, wanted, plan, callback>>
  BY DEF LoopStep, LoopWaits, LoopPicks, LoopStops, LoopResolves, LoopResolved,
         LoopChecksStall, LoopRests, LoopInterrupted, WatchExit, LoopOnly
<1>3. ActsStay
  BY <1>2 DEF ActsStay, Acting
<1>4. CASE LoopWaits \/ LoopPicks \/ LoopInterrupted \/ LoopResolves \/ LoopRests \/ WatchExit
  <2>1. UNCHANGED <<known, games, watching, selected, stalled, local>>
    BY <1>4 DEF LoopOnly, LoopWaits, LoopPicks, LoopInterrupted, LoopResolves, LoopRests,
                WatchExit
  <2> QED
    BY <1>1, <1>3, <2>1, StillChosen
<1>5. CASE LoopStops /\ CanWatch(watching)
  BY <1>1, <1>5, NotStanding DEF LoopStops, ChoiceLapses
<1>6. CASE LoopStops /\ ~CanWatch(watching)
  <2>1. UNCHANGED <<known, games, selected, stalled, local, control, callback>>
    BY <1>6 DEF LoopStops, ChoiceLapses
  <2>2. ~Chosen(watching)
    BY <1>6, ChosenIsWatchable
  <2>3. /\ NoneToWatch' <=> NoneToWatch
        /\ Chosen(plan)' <=> Chosen(plan)
        /\ Standing' <=> Standing
        /\ NoneActing' <=> NoneActing
    BY <2>1, SameWatchable, SameChoice DEF NoneToWatch, Standing, NoneActing, Acting
  <2>4. Quiet' <=> Quiet
    BY <2>1, SameControl
  <2>5. \A k \in Callers : Awakens(k)' <=> Awakens(k)
    BY <2>1, SameWatchable DEF Awakens, Alone, Acting
  <2>6. ASSUME NEW k \in Callers, Reconsiders(k) PROVE Reconsiders(k)'
    <3>1. callback[k].own
      BY <1>6, <2>6 DEF Reconsiders
    <3> QED
      BY <2>1, <2>6, <3>1, SameWatchable DEF Reconsiders, Alone, Acting
  <2>7. Resigned'
    BY <2>1, <2>3, <2>5 DEF Resigned
  <2>8. Decision'
    BY <2>1, <2>2, <2>3, <2>4, <2>6 DEF Decision
  <2> QED
    BY <2>7, <2>8
<1>7. CASE LoopResolved
  <2>1. UNCHANGED <<watching, selected, stalled>>
    BY <1>7 DEF LoopResolved
  <2>2. earnable' \subseteq earnable
    BY <1>7 DEF LoopResolved, Exhausts
  <2>3. \/ UNCHANGED <<earnable, lapsed>>
        \/ UNCHANGED lapsed /\ \E s \in {"InventoryFetch", "ChannelSwitch"} :
                                  Loop!Request("watch", s)
        \/ "choice" \in lapsed'
    BY <1>7 DEF LoopResolved, ChoiceLapses
  <2>4. "watch" \in Clients
    BY DEF Clients
  <2>5. CASE UNCHANGED <<earnable, lapsed>>
    BY <1>1, <1>2, <1>3, <2>1, <2>5, StillChosen
  <2>6. CASE UNCHANGED lapsed /\ \E s \in {"InventoryFetch", "ChannelSwitch"} :
                                    Loop!Request("watch", s)
    <3>1. ~Quiet'
      BY <2>4, <2>6, RequestAnnounced
    <3> QED
      BY <1>1, <1>2, <1>3, <2>1, <2>2, <2>6, <3>1, StillChosen
  <2>7. CASE "choice" \in lapsed'
    BY <1>1, <2>7, NotStanding
  <2> QED
    BY <2>3, <2>5, <2>6, <2>7
<1>8. CASE LoopChecksStall
  <2>1. UNCHANGED <<earnable, watching, selected, lapsed>> /\ stalled \subseteq stalled'
    BY <1>8 DEF LoopOnly, LoopChecksStall
  <2>2. stalled' = stalled \/ ~Quiet'
    BY <1>8, RequestAnnounced DEF LoopChecksStall, Clients
  <2> QED
    BY <1>1, <1>2, <1>3, <2>1, <2>2, StillChosen
<1> QED
  BY <1>4, <1>5, <1>6, <1>7, <1>8 DEF LoopStep

\* A change that arrives: Run decides later, or the callback sees to it.
LEMMA CallbackReadsChosen ==
    ASSUME Types, Awake, Resigned, Decision, NEW k \in Callers, CallbackReads(k)
    PROVE  Resigned' /\ Decision'
<1>c. PICK c : c = callback[k].channel
  OBVIOUS
<1> DEFINE call == [callback[k] EXCEPT !.at = "decide", !.idle = (state = "Idle"),
                                       !.own = (watching = c)]
<1>0. /\ UNCHANGED <<control, earnable, wanted, stalled, selected, watching, plan>>
      /\ callback[k].at = "called"
  BY DEF CallbackReads, games, watch
<1>1. UNCHANGED <<run, at, state>> /\ (Quiet' <=> Quiet)
  BY <1>0, SameControl
<1>2. callback \in [Callers -> CallTypes] /\ NoCall.at = "none"
  BY DEF Types, NoCall
<1>3. SUFFICES ASSUME Standing' PROVE Resigned' /\ Decision'
  BY <1>1, NotStanding DEF Standing
<1>4. Standing /\ plan = Undecided /\ (state \in BusyStates \/ ~Disturbs(k))
  BY <1>3 DEF CallbackReads, ChoiceLapses, Standing
<1>5. Undecided # "idle"
  BY SchedulerAssumption DEF Undecided
<1>6. CASE state \in BusyStates
  <2>1. state # "Idle" /\ state # "ChannelSwitch"
    BY <1>6 DEF BusyStates
  <2>2. Resigned'
    BY <1>0, <1>1, <1>4, <1>5, <2>1 DEF Resigned
  <2>3. Decision'
    BY <1>0, <1>1, <1>4, <2>1 DEF Decision, Awake
  <2> QED
    BY <2>2, <2>3
<1>7. CASE state \notin BusyStates
  <2>1. /\ c \in DOMAIN channels /\ channels[c] = callback[k].before
        /\ c = selected => c = watching
        /\ c = watching => ~CanWatchStream(c, callback[k].after.stream)
        /\ NoneActing
    BY <1>c, <1>4, <1>7 DEF Disturbs, NoneActing
  <2>2. callback' = [callback EXCEPT ![k] = call]
    BY <1>c, <1>7 DEF CallbackReads
  <2>3. /\ call.at = "decide" /\ call.channel = c /\ call.idle = (state = "Idle")
        /\ call.own = (watching = c) /\ call.before = callback[k].before
        /\ call.after = callback[k].after
    BY <1>c, <1>2 DEF CallTypes
  <2> HIDE DEF call
  <2>4. callback'[k] = call /\ \A j \in Callers : j # k => callback'[j] = callback[j]
    BY <1>2, <2>2
  <2>5. Alone(k)'
    BY <2>1, <2>3, <2>4 DEF Alone, NoneActing, Acting
  <2>6. channels' = [channels EXCEPT ![c] = callback[k].after]
    BY <1>c, <2>1 DEF CallbackReads
  <2>7. /\ DOMAIN channels' = DOMAIN channels /\ channels'[c] = callback[k].after
        /\ \A x \in DOMAIN channels \ {c} : channels'[x] = channels[x]
    BY <2>1, <2>6
  <2>8. \A x : x # c => (CanWatch(x)' <=> CanWatch(x))
    BY <1>0, <2>7 DEF CanWatch, CanWatchStream, Worth
  <2>9. \A e, f : Before(e, f)' <=> Before(e, f)
    BY <1>0 DEF Before, Priority
  <2>10. CanWatch(c)' <=> CanWatchStream(c, callback[k].after.stream)
    BY <1>0, <2>1, <2>7 DEF CanWatch, CanWatchStream, Worth
  <2>11. ASSUME state = "Idle" PROVE Awakens(k)'
    <3>1. NoneToWatch
      BY <1>4, <2>1, <2>11 DEF Resigned, Awakens, Alone, NoneActing
    <3>2. callback'[k].at = "decide" /\ callback'[k].idle /\ callback'[k].channel = c
          /\ callback'[k].after = callback[k].after
      BY <2>3, <2>4, <2>11
    <3> QED
      BY <2>1, <2>5, <2>7, <2>8, <3>1, <3>2 DEF Awakens, NoneToWatch
  <2>12. Resigned'
    BY <1>0, <1>1, <1>4, <1>5, <2>11 DEF Resigned
  <2>13. ASSUME run = "wait", Quiet, at = "ChannelSwitch" PROVE Reconsiders(k)'
    <3>1. state # "Idle"
      BY <2>13 DEF Awake
    <3>2. Chosen(watching)
      BY <1>4, <2>1, <2>13 DEF Decision, Reconsiders, Alone, NoneActing
    <3>3. /\ callback'[k].at = "decide" /\ ~callback'[k].idle /\ callback'[k].channel = c
          /\ callback'[k].before = channels[c] /\ callback'[k].after = channels'[c]
          /\ callback'[k].own = (watching = c)
      BY <2>1, <2>3, <2>4, <2>7, <3>1
    <3>4. CASE watching = c
      <4>1. channels[c].stream # Offline
        BY <3>2, <3>4, ChosenIsWatchable DEF CanWatch, CanWatchStream, Earns
      <4>2. ~CanWatch(c)'
        BY <2>1, <2>10, <3>4
      <4> QED
        BY <2>1, <2>5, <2>7, <3>3, <3>4, <4>1, <4>2 DEF Reconsiders
    <3>5. CASE watching # c
      <4>1. selected # c
        BY <2>1, <3>5
      <4>2. /\ CanWatch(watching)' <=> CanWatch(watching)
            /\ CanWatch(selected)' <=> CanWatch(selected)
        BY <1>0, <2>8, <3>5, <4>1
      <4>3. CanWatch(watching)' /\ (CanWatch(selected)' => watching' = selected')
        BY <1>0, <3>2, <4>2, ChosenIsWatchable DEF Chosen
      <4>4. watching' \in DOMAIN channels' \ {c} /\ channels'[watching'] = channels[watching]
        BY <1>0, <2>7, <3>5, <4>3 DEF CanWatch
      <4>5. ASSUME ~CanWatch(selected)', NEW x \in DOMAIN channels' \ {c}, CanWatch(x)'
            PROVE  ~Before(channels[x], channels[watching])'
        BY <2>7, <2>8, <2>9, <3>2, <4>2, <4>4, <4>5 DEF Chosen
      <4>6. ~callback'[k].own /\ callback'[k].at # "watch"
        BY <3>3, <3>5
      <4> QED
        BY <1>0, <2>1, <2>5, <2>7, <3>3, <3>5, <4>1, <4>3, <4>5, <4>6 DEF Reconsiders
    <3> QED
      BY <3>4, <3>5
  <2>14. Decision'
    BY <1>0, <1>1, <1>4, <2>13 DEF Decision
  <2> QED
    BY <2>12, <2>14
<1> QED
  BY <1>6, <1>7

\* A callback asks for a switch, leaves things as they are, or goes on to watch
\* its channel because it comes first.
LEMMA CallbackDecidesChosen ==
    ASSUME Types, Resigned, Decision, NEW k \in Callers, CallbackDecides(k)
    PROVE  Resigned' /\ Decision'
<1>c. PICK c : c = callback[k].channel
  OBVIOUS
<1> DEFINE call == callback[k]
           good == CanWatchStream(c, call.after.stream)
           ownLost == ~call.idle /\ call.before.stream # Offline /\ call.own
           reconsider == IF call.idle THEN good ELSE ownLost /\ ~good
           switch == ~call.idle /\ ~ownLost /\ good /\ ShouldSwitch(call.after)
<1>0. /\ UNCHANGED <<channels, earnable, wanted, stalled, selected, watching, plan, lapsed>>
      /\ call.at = "decide" /\ Acting(k)
  BY DEF CallbackDecides, games, known, watch, local, Acting
<1>1. /\ callback' = [callback EXCEPT ![k] =
                         IF switch THEN [call EXCEPT !.at = "watch"] ELSE NoCall]
      /\ IF reconsider THEN Loop!Request(k, "ChannelSwitch") ELSE UNCHANGED control
  BY <1>c DEF CallbackDecides
<1>2. callback \in [Callers -> CallTypes] /\ NoCall.at = "none"
  BY DEF Types, NoCall
<1>3. ~NoneActing
  BY <1>0 DEF NoneActing
<1>4. /\ \A x : CanWatch(x)' <=> CanWatch(x)
      /\ \A e, f : Before(e, f)' <=> Before(e, f)
      /\ Standing' <=> Standing
  BY <1>0, SameWatchable DEF Standing
<1>5. CASE reconsider
  <2>1. Loop!Request(k, "ChannelSwitch") /\ k \in Clients
    BY <1>1, <1>5 DEF Clients
  <2>2. ~Quiet' /\ state' # "Idle"
    BY <2>1, RequestAnnounced
  <2>3. OutsideStep
    BY <2>1 DEF OutsideStep
  <2>4. UNCHANGED <<run, at>>
    BY <2>3, OutsideAnnounces
  <2>5. Resigned'
    BY <1>0, <1>3, <1>4, <2>2, <2>4 DEF Resigned
  <2> QED
    BY <2>2, <2>5 DEF Decision
<1>6. CASE ~reconsider
  <2>1. UNCHANGED <<run, at, state>> /\ (Quiet' <=> Quiet)
    BY <1>1, <1>6, SameControl
  <2>2. ASSUME NEW j \in Callers, Awakens(j) PROVE NoneToWatch
    <3>1. j = k
      BY <1>0, <2>2 DEF Awakens, Alone
    <3>2. call.idle /\ channels[c] = call.after
      BY <1>c, <2>2, <3>1 DEF Awakens
    <3>3. ~CanWatch(c)
      BY <1>6, <3>2 DEF CanWatch
    <3> QED
      BY <1>c, <2>2, <3>1, <3>3 DEF Awakens, NoneToWatch
  <2>3. NoneToWatch' <=> NoneToWatch
    BY <1>0, <1>4 DEF NoneToWatch
  <2>4. Resigned'
    BY <1>0, <1>3, <1>4, <2>1, <2>2, <2>3 DEF Resigned
  <2>5. ASSUME Reconsiders(k)
        PROVE  (Chosen(watching)' /\ NoneActing') \/ Reconsiders(k)'
    <3>1. /\ Alone(k) /\ c \in DOMAIN channels /\ channels[c] = call.after /\ ~call.idle
          /\ call.own => call.before.stream # Offline /\ ~CanWatch(c)
          /\ ~call.own => /\ watching # c /\ selected # c /\ CanWatch(watching)
                          /\ CanWatch(selected) => watching = selected
                          /\ ~CanWatch(selected) => \A x \in DOMAIN channels \ {c} :
                                CanWatch(x) => ~Before(channels[x], channels[watching])
      BY <1>c, <2>5 DEF Reconsiders
    <3>2. good <=> CanWatch(c)
      BY <3>1 DEF CanWatch
    <3>3. ~call.own
      BY <1>6, <3>1, <3>2
    <3>4. switch <=> CanWatch(c) /\ Before(call.after, channels[watching])
      BY <3>1, <3>2, <3>3 DEF ShouldSwitch
    <3>5. CASE switch
      <4> DEFINE next == [call EXCEPT !.at = "watch"]
      <4>1. callback' = [callback EXCEPT ![k] = next]
        BY <1>1, <3>5
      <4>2. /\ next.at = "watch" /\ next.channel = c /\ ~next.idle /\ ~next.own
            /\ next.after = call.after
        BY <1>c, <1>2, <3>1, <3>3 DEF CallTypes
      <4> HIDE DEF next
      <4>3. callback'[k] = next /\ \A j \in Callers : j # k => callback'[j] = callback[j]
        BY <1>2, <4>1
      <4>4. Alone(k)'
        BY <3>1, <4>2, <4>3 DEF Alone, Acting
      <4>5. /\ CanWatch(watching)' <=> CanWatch(watching)
            /\ CanWatch(selected)' <=> CanWatch(selected)
        BY <1>0, <1>4
      <4>6. CanWatch(c)' /\ Before(call.after, channels[watching])
        BY <1>4, <3>4, <3>5
      <4> HIDE DEF call
      <4>7. /\ callback'[k].at = "watch" /\ callback'[k].channel = c /\ ~callback'[k].idle
            /\ ~callback'[k].own /\ callback'[k].after = call.after
        BY <4>2, <4>3
      <4>8. ASSUME ~CanWatch(selected)', NEW x \in DOMAIN channels' \ {c}, CanWatch(x)'
            PROVE  ~Before(channels[x], channels[watching])'
        BY <1>0, <1>4, <3>1, <3>3, <4>5, <4>8
      <4>9. Before(callback[k].after, channels[watching])'
        BY <1>0, <1>4, <4>6, <4>7
      <4>10. CanWatch(callback[k].channel)'
        BY <4>6, <4>7
      <4> QED
        BY <1>0, <3>1, <3>3, <4>4, <4>5, <4>7, <4>8, <4>9, <4>10 DEF Reconsiders
    <3>6. CASE ~switch
      <4>1. callback' = [callback EXCEPT ![k] = NoCall]
        BY <1>1, <3>6
      <4>2. NoneActing'
        BY <1>2, <3>1, <4>1 DEF NoneActing, Alone, Acting
      <4>3. Chosen(watching)
        BY <3>1, <3>3, <3>4, <3>6 DEF Chosen
      <4>4. Chosen(watching)' <=> Chosen(watching)
        BY <1>0, SameChoice
      <4> QED
        BY <4>2, <4>3, <4>4
    <3> QED
      BY <3>5, <3>6
  <2>6. \A j \in Callers : Reconsiders(j) => j = k
    BY <1>0 DEF Reconsiders, Alone
  <2>7. Decision'
    BY <1>0, <1>3, <1>4, <2>1, <2>5, <2>6 DEF Decision
  <2> QED
    BY <2>4, <2>7
<1> QED
  BY <1>5, <1>6

\* What a callback had decided to watch comes before what was chosen.
LEMMA CallbackWatchesChosen ==
    ASSUME Types, Resigned, Decision, NEW k \in Callers, CallbackWatches(k)
    PROVE  Resigned' /\ Decision'
<1>c. PICK c : c = callback[k].channel
  OBVIOUS
<1>0. /\ UNCHANGED <<control, channels, earnable, wanted, stalled, selected, plan>>
      /\ callback[k].at = "watch" /\ Acting(k) /\ watching' = c
      /\ callback' = [callback EXCEPT ![k] = NoCall]
  BY <1>c DEF CallbackWatches, games, known, Watch, Acting
<1>1. UNCHANGED <<run, at, state>> /\ (Quiet' <=> Quiet)
  BY <1>0, SameControl
<1>2. SUFFICES ASSUME Standing' PROVE Resigned' /\ Decision'
  BY <1>1, NotStanding DEF Standing
<1>3. Standing /\ ~CanWatch(selected)
  BY <1>2 DEF CallbackWatches, ChoiceLapses, Standing
<1>4. ~NoneActing /\ \A j \in Callers : ~Awakens(j)
  BY <1>0 DEF NoneActing, Awakens, Alone
<1>5. /\ \A x : CanWatch(x)' <=> CanWatch(x)
      /\ \A e, f : Before(e, f)' <=> Before(e, f)
  BY <1>0, SameWatchable
<1>6. NoneToWatch' <=> NoneToWatch
  BY <1>0, <1>5 DEF NoneToWatch
<1>7. Resigned'
  BY <1>0, <1>1, <1>3, <1>4, <1>6 DEF Resigned
<1>8. ASSUME NEW j \in Callers, Reconsiders(j) PROVE Chosen(watching)' /\ NoneActing'
  <2>1. j = k /\ Alone(k)
    BY <1>0, <1>8 DEF Reconsiders, Alone
  <2>2. NoneActing'
    BY <1>0, <2>1 DEF Alone, NoneActing, Acting, Types, NoCall
  <2>3. ~callback[k].own
    BY <1>0, <1>8, <2>1 DEF Reconsiders
  <2>4. /\ CanWatch(c) /\ Before(channels[c], channels[watching])
        /\ \A x \in DOMAIN channels \ {c} :
              CanWatch(x) => ~Before(channels[x], channels[watching])
    BY <1>c, <1>0, <1>3, <1>8, <2>1, <2>3 DEF Reconsiders
  <2>5. \A x \in DOMAIN channels : CanWatch(x) => ~Before(channels[x], channels[c])
    BY <2>4, BeforeStrict
  <2>6. Chosen(c)
    BY <1>3, <2>4, <2>5 DEF Chosen
  <2>7. Chosen(c)'
    BY <1>0, <2>6, SameChoice
  <2> QED
    BY <1>0, <2>2, <2>7
<1>9. Decision'
  BY <1>0, <1>1, <1>3, <1>4, <1>8 DEF Decision
<1> QED
  BY <1>7, <1>9

LEMMA OtherStepChosen ==
    ASSUME Types, Awake, Resigned, Decision, Next, ~RunStep, ~LoopStep
    PROVE  Resigned' /\ Decision'
<1> USE DEF known, local, games, watch, Others
<1>1. /\ UNCHANGED <<run, at>>
      /\ Quiet' => Quiet
      /\ state' = "Idle" => state = "Idle"
  <2>1. CASE OutsideStep
    BY <2>1, OutsideAnnounces
  <2>2. CASE UNCHANGED control
    BY <2>2, SameControl
  <2> QED
    BY <2>1, <2>2, OtherStepRefines
<1>2. ASSUME UNCHANGED <<channels, earnable, wanted, watching, selected, stalled, plan, lapsed>>,
             UNCHANGED callback
      PROVE  Resigned' /\ Decision'
  <2>1. ActsStay
    BY <1>2 DEF ActsStay, Acting
  <2> QED
    BY <1>1, <1>2, <2>1, StillChosen
<1>3. ASSUME NEW m \in Maint, MaintStep(m) PROVE Resigned' /\ Decision'
  BY <1>2, <1>3 DEF MaintStep
<1>4. ASSUME NEW c \in Clients, Signal(c) PROVE Resigned' /\ Decision'
  BY <1>2, <1>4 DEF Signal
<1>5. CASE MaintWake \/ EventReload \/ Reload \/ Cancel \/ EventRestart \/ CampaignNears
  <2>1. /\ UNCHANGED <<channels, earnable, wanted, watching, selected, stalled, plan, lapsed>>
        /\ UNCHANGED callback
    BY <1>5 DEF MaintWake, EventReload, Reload, Cancel, EventRestart, CampaignNears
  <2> QED
    BY <1>2, <2>1
<1>6. CASE CampaignStarts \/ CampaignEnds \/ CooldownOver \/ ClearSelectedChannel
  <2>1. "choice" \in lapsed'
    BY <1>6 DEF CampaignStarts, CampaignEnds, CooldownOver, ClearSelectedChannel, ChoiceLapses
  <2> QED
    BY <1>1, <2>1, NotStanding
<1>7. CASE SelectChannel
  <2>1. /\ UNCHANGED <<channels, earnable, wanted, watching, stalled, plan, lapsed, callback>>
        /\ "api" \in Clients /\ Loop!Request("api", "ChannelSwitch")
    BY <1>7 DEF SelectChannel, Clients
  <2>2. ~Quiet'
    BY <2>1, RequestAnnounced
  <2>3. ActsStay
    BY <2>1 DEF ActsStay, Acting
  <2> QED
    BY <1>1, <2>1, <2>2, <2>3, StillChosen
<1>8. ASSUME NEW k \in Callers, CallbackStep(k) PROVE Resigned' /\ Decision'
  BY <1>8, CallbackReadsChosen, CallbackDecidesChosen, CallbackWatchesChosen DEF CallbackStep
<1>9. ASSUME NEW k \in Callbacks, NEW c \in Channels, NEW stream \in Shown,
             TrackerChange(k, c, stream)
      PROVE  Resigned' /\ Decision'
  <2>1. UNCHANGED <<channels, earnable, wanted, watching, selected, stalled, plan, lapsed>>
    BY <1>9 DEF TrackerChange
  <2>2. PICK x : /\ x.at = "called" /\ callback[k].at = "none"
                 /\ callback' = [callback EXCEPT ![k] = x]
    BY <1>9 DEF TrackerChange, NoCall
  <2>3. callback \in [Callers -> CallTypes]
    BY DEF Types
  <2>4. ActsStay
    BY <2>2, <2>3 DEF ActsStay, Acting
  <2> QED
    BY <1>1, <2>1, <2>4, StillChosen
<1> QED
  BY <1>3, <1>4, <1>5, <1>6, <1>7, <1>8, <1>9 DEF Next

-----------------------------------------------------------------------------
(* What Run decides.                                                       *)

\* The first of the better channels is better than all, and when there is none
\* the watched one is, if it can be watched.
LEMMA DecidesRight ==
    ASSUME Types, DecideSwitch
    PROVE  /\ plan' \in Channels => Chosen(plan')
           /\ plan' = "keep" => Chosen(watching)
           /\ plan' = "idle" => NoneToWatch
<1> DEFINE better == {c \in DOMAIN channels : CanWatch(c) /\ ShouldSwitch(channels[c])}
<1>1. {"keep", "idle"} \cap Channels = {} /\ DOMAIN channels \subseteq Channels
  BY SchedulerAssumption, MapsTyped
<1>2. CASE CanWatch(selected)
  <2>1. plan' = selected /\ selected \in Channels
    BY <1>1, <1>2 DEF DecideSwitch, CanWatch
  <2> QED
    BY <1>1, <1>2, <2>1 DEF Chosen
<1>3. CASE ~CanWatch(selected) /\ better # {}
  <2>1. plan' \in Best(better)
    BY <1>3 DEF DecideSwitch
  <2>2. plan' \in better /\ \A d \in better : ~Before(channels[d], channels[plan'])
    BY <2>1 DEF Best
  <2>3. ASSUME NEW d \in DOMAIN channels, CanWatch(d)
        PROVE  ~Before(channels[d], channels[plan'])
    <3>1. CASE d \in better
      BY <2>2, <3>1
    <3>2. CASE d \notin better
      <4>1. CanWatch(watching) /\ ~Before(channels[d], channels[watching])
        BY <2>3, <3>2 DEF ShouldSwitch
      <4>2. Before(channels[plan'], channels[watching])
        BY <2>2, <4>1 DEF ShouldSwitch
      <4> QED
        BY <4>1, <4>2, BeforeStrict
    <3> QED
      BY <3>1, <3>2
  <2> QED
    BY <1>1, <1>3, <2>2, <2>3 DEF Chosen
<1>4. CASE ~CanWatch(selected) /\ better = {}
  <2>1. plan' = IF CanWatch(watching) THEN "keep" ELSE "idle"
    BY <1>4 DEF DecideSwitch
  <2>2. \A d \in DOMAIN channels : CanWatch(d) =>
           CanWatch(watching) /\ ~Before(channels[d], channels[watching])
    BY <1>4 DEF ShouldSwitch
  <2> QED
    BY <1>1, <1>4, <2>1, <2>2 DEF Chosen, NoneToWatch
<1> QED
  BY <1>2, <1>3, <1>4

LEMMA ControlStepChosen ==
    ASSUME Types, DataInv, Deciding, Resigned, Decision, ControlStep
    PROVE  Resigned' /\ Decision'
<1> USE DEF known, local, games, watch
<1>1. /\ UNCHANGED <<channels, wanted, earnable, stalled, selected, plan, lapsed, callback>>
      /\ run # "handling"
  BY DEF ControlStep, Loop!Start, Loop!Dispatch, Loop!ExitLoop, Loop!Retry,
         Loop!BackoffCancelled, Loop!Wake, Loop!WaitCancelled, Loop!Join
<1>2. plan = Undecided /\ Undecided # "idle"
  BY <1>1, SchedulerAssumption DEF DataInv, Handling, Deciding, Undecided
<1>3. /\ run' = "wait" => token'
      /\ run' = "handling" => at' = state'
      /\ run' # "backoff"
      /\ state' = "Idle" => state = "Idle"
  BY DEF ControlStep, Resigned, Loop!Start, Loop!Dispatch, Loop!ExitLoop, Loop!Retry,
         Loop!Return, Loop!Requested, Loop!BackoffCancelled, Loop!Wake, Loop!WaitCancelled,
         Loop!Join
<1>4. /\ NoneToWatch' <=> NoneToWatch
      /\ Standing' <=> Standing
      /\ \A k \in Callers : Awakens(k)' <=> Awakens(k)
  BY <1>1, SameWatchable DEF NoneToWatch, Standing, Awakens, Alone, Acting
<1>5. Resigned'
  BY <1>1, <1>2, <1>3, <1>4 DEF Resigned
<1>6. Decision'
  BY <1>1, <1>2, <1>3 DEF Decision, Quiet
<1> QED
  BY <1>5, <1>6

LEMMA DecideSwitchChosen ==
    ASSUME Types, Resigned, Decision, DecideSwitch
    PROVE  Resigned' /\ Decision'
<1>1. /\ run = "handling" /\ at = "ChannelSwitch"
      /\ UNCHANGED <<control, channels, wanted, earnable, stalled, selected, watching, callback>>
  BY DEF DecideSwitch, games, known, watch
<1>2. state # "Idle"
  BY <1>1 DEF Resigned
<1>3. /\ plan' \in Channels => Chosen(plan')
      /\ plan' = "keep" => Chosen(watching)
      /\ plan' = "idle" => NoneToWatch
  BY DecidesRight
<1>4. /\ NoneToWatch' <=> NoneToWatch
      /\ Chosen(watching)' <=> Chosen(watching)
      /\ Chosen(plan)' <=> Chosen(plan')
      /\ NoneActing' <=> NoneActing
  BY <1>1, SameWatchable, SameChoice DEF NoneToWatch, NoneActing, Acting, Chosen
<1>5. Standing' => NoneActing
  BY DEF DecideSwitch, Standing, NoneActing
<1>6. Resigned'
  BY <1>1, <1>2, <1>3, <1>4, <1>5 DEF Resigned
<1>7. Decision'
  BY <1>1, <1>3, <1>4, <1>5 DEF Decision
<1> QED
  BY <1>6, <1>7

LEMMA HandleChannelSwitchChosen ==
    ASSUME Types, Resigned, Decision, HandleChannelSwitch
    PROVE  Resigned' /\ Decision'
<1>0. "idle" \notin Channels /\ "keep" \notin Channels /\ Undecided \notin Channels
      /\ Undecided # "idle" /\ Undecided # "keep"
  BY SchedulerAssumption DEF Undecided
<1>1. /\ at = "ChannelSwitch" /\ run = "handling" /\ at' = at /\ run' = "wait"
      /\ plan' = Undecided /\ plan # Undecided
      /\ UNCHANGED <<channels, wanted, earnable, stalled, selected, lapsed, callback>>
  BY <1>0 DEF HandleChannelSwitch, Loop!SwitchToChannel, Loop!SwitchToIdle, Loop!MoveOn,
              games, known
<1>2. state # "Idle"
  BY <1>1 DEF Resigned
<1>3. /\ NoneToWatch' <=> NoneToWatch
      /\ Standing' <=> Standing
      /\ NoneActing' <=> NoneActing
      /\ \A c : Chosen(c)' <=> Chosen(c)
  BY <1>1, SameWatchable, SameChoice DEF NoneToWatch, Standing, NoneActing, Acting
<1>4. CASE plan = "idle"
  <2>1. token'
    BY <1>0, <1>4 DEF HandleChannelSwitch, Loop!SwitchToIdle, Loop!MoveOn
  <2>2. Standing => NoneToWatch
    BY <1>1, <1>4 DEF Resigned
  <2>3. Resigned'
    BY <1>0, <1>1, <1>3, <2>2 DEF Resigned
  <2>4. Decision'
    BY <2>1 DEF Decision, Quiet
  <2> QED
    BY <2>3, <2>4
<1>5. CASE plan # "idle"
  <2>1. /\ UNCHANGED <<state, token, client, maint>>
        /\ \/ plan \in Channels /\ watching' = plan
           \/ plan = "keep" /\ watching' = watching
    BY <1>5 DEF HandleChannelSwitch, Loop!SwitchToChannel, Loop!RunOnly, Watch
  <2>2. Quiet' <=> Quiet
    BY <2>1 DEF Quiet, Loop!SignalDue
  <2>3. Resigned'
    BY <1>0, <1>1, <1>2, <2>1 DEF Resigned
  <2>4. ASSUME Standing, Quiet PROVE Chosen(watching)' /\ NoneActing'
    <3>1. NoneActing /\ Chosen(watching')
      BY <1>0, <1>1, <2>1, <2>4 DEF Decision
    <3>2. Chosen(watching)' <=> Chosen(watching')
      BY <1>1, SameWatchable DEF Chosen
    <3> QED
      BY <1>3, <3>1, <3>2
  <2>5. Decision'
    BY <1>1, <1>3, <2>2, <2>4 DEF Decision
  <2> QED
    BY <2>3, <2>5
<1> QED
  BY <1>4, <1>5

LEMMA RunStepChosen ==
    ASSUME Types, DataInv, Deciding, Cleared, Resigned, Decision, RunStep
    PROVE  Resigned' /\ Decision'
<1>0. /\ work.at # "no" => run = "handling" /\ at \in {"ChannelsCleanup", "ChannelsFetch"}
      /\ work.at \in {"delete", "cleaned"} => at = "ChannelsCleanup"
      /\ Fetching \/ work.at \in {"store", "watched"} => at = "ChannelsFetch"
  BY DEF DataInv, Handling
<1>1. run = "handling" /\ state = "Idle" => at = "Idle"
  BY DEF Resigned
<1>2. CASE ControlStep
  BY <1>2, ControlStepChosen
<1>3. CASE HandleIdle
  <2>1. /\ UNCHANGED <<channels, wanted, earnable, stalled, plan, lapsed, state, at, callback>>
        /\ at = "Idle" /\ run' = "wait"
    BY <1>3 DEF HandleIdle, Loop!HandleIdle, games, known, local
  <2>2. /\ NoneToWatch' <=> NoneToWatch
        /\ Standing' <=> Standing
        /\ \A k \in Callers : Awakens(k)' <=> Awakens(k)
    BY <2>1, SameWatchable DEF NoneToWatch, Standing, Awakens, Alone, Acting
  <2> QED
    BY <2>1, <2>2 DEF Resigned, Decision
<1>4. CASE HandleInventoryFetch \/ InventoryFetchError
  <2>1. run = "handling" /\ at = "InventoryFetch" /\ at' = at
    BY <1>4 DEF HandleInventoryFetch, InventoryFetchError, Loop!HandleInventoryFetch,
                Loop!MoveOn, Loop!HandlerError
  <2>2. state' # "Idle"
    BY <1>1, <1>4, <2>1 DEF HandleInventoryFetch, InventoryFetchError,
         Loop!HandleInventoryFetch, Loop!MoveOn, Loop!HandlerError, Loop!Advanced
  <2> QED
    BY <2>1, <2>2, OtherHandler
<1>5. CASE HandleGamesUpdate
  <2>1. run = "handling" /\ at = "GamesUpdate" /\ at' = at
    BY <1>5 DEF HandleGamesUpdate, Loop!HandleGamesUpdate, Loop!MoveOn
  <2>2. state' # "Idle"
    BY <1>1, <1>5, <2>1 DEF HandleGamesUpdate, Loop!HandleGamesUpdate, Loop!MoveOn,
                            Loop!Advanced
  <2> QED
    BY <2>1, <2>2, OtherHandler
<1>6. CASE CleanupBegin \/ FetchBegin \/ WorkStep
  <2>1. UNCHANGED <<at, state>>
    BY <1>6, WorkStepFrame DEF CleanupBegin, FetchBegin
  <2>2. run = "handling" /\ at \in {"ChannelsCleanup", "ChannelsFetch"}
    <3>1. CASE CleanupBegin \/ FetchBegin
      BY <3>1 DEF CleanupBegin, FetchBegin
    <3>2. CASE WorkStep
      <4>1. work.adding # NoChannel => work.at # "no"
        BY DEF DataInv, Handling
      <4>2. work.at # "no"
        BY <3>2, <4>1 DEF WorkStep, CleanupDeletes, Forgets, Unsubscribes, AddsAcl, Tracks,
             Synced, Applies, Applied, Answered, AddsListed, ListEnds, Cuts, Stores,
             Subscribes, AllStored, LooksAtWatched
      <4> QED
        BY <1>0, <4>2
    <3> QED
      BY <1>6, <3>1, <3>2
  <2> QED
    BY <1>1, <2>1, <2>2, OtherHandler
<1>7. CASE HandleChannelsCleanup
  <2>1. /\ run = "handling" /\ at = "ChannelsCleanup" /\ run' = "wait" /\ at' = at
        /\ UNCHANGED <<channels, wanted, plan>> /\ work.at = "cleaned"
    BY <1>7 DEF HandleChannelsCleanup, Loop!HandleChannelsCleanup, Loop!MoveOn, games, known
  <2>2. state' = "Idle" => wanted = <<>>
    BY <1>1, <1>7, <2>1 DEF HandleChannelsCleanup, Loop!HandleChannelsCleanup, Loop!MoveOn,
                            Loop!Advanced
  <2>3. wanted = <<>> => NoneToWatch'
    BY <2>1 DEF Cleared, NoneToWatch
  <2> QED
    BY <2>1, <2>2, <2>3 DEF Resigned, Decision
<1>8. CASE HandleChannelsFetch \/ ChannelsFetchError
  <2>1. run = "handling" /\ at = "ChannelsFetch" /\ at' = at
    BY <1>0, <1>8 DEF HandleChannelsFetch, ChannelsFetchError, AllStored, Fetching,
         Loop!HandleChannelsFetch, Loop!MoveOn, Loop!HandlerError
  <2>2. state' # "Idle"
    BY <1>1, <1>8, <2>1 DEF HandleChannelsFetch, ChannelsFetchError,
         Loop!HandleChannelsFetch, Loop!MoveOn, Loop!HandlerError, Loop!Advanced
  <2> QED
    BY <2>1, <2>2, OtherHandler
<1>9. CASE DecideSwitch
  BY <1>9, DecideSwitchChosen
<1>10. CASE HandleChannelSwitch
  BY <1>10, HandleChannelSwitchChosen
<1> QED
  BY <1>2, <1>3, <1>4, <1>5, <1>6, <1>7, <1>8, <1>9, <1>10 DEF RunStep

ChoiceInv == Deciding /\ Cleared /\ Resigned /\ Decision

LEMMA ChoiceInductive == Spec => []ChoiceInv
<1>1. Init => ChoiceInv
  BY SchedulerAssumption, EmptyMap
     DEF Init, Loop!Init, ChoiceInv, Deciding, Cleared, Resigned, Decision, NoneToWatch,
         Undecided, NoWork
<1>2. Types /\ DataInv /\ Awake /\ ChoiceInv /\ [Next]_vars => ChoiceInv'
  <2>1. ASSUME Types, DataInv, Awake, ChoiceInv, Next PROVE ChoiceInv'
    BY <2>1, DecidingKept, ClearedKept, RunStepChosen, LoopStepChosen, OtherStepChosen
       DEF ChoiceInv
  <2>2. ASSUME ChoiceInv, UNCHANGED vars PROVE ChoiceInv'
    <3>1. UNCHANGED <<control, channels, wanted, earnable, stalled, selected, watching, plan,
                      lapsed, callback, work>>
      BY <2>2 DEF vars, games, known, watch, local
    <3>2. ActsStay /\ UNCHANGED <<run, at, state>> /\ (Quiet' <=> Quiet)
      BY <3>1, SameControl DEF ActsStay, Acting
    <3>3. Resigned' /\ Decision'
      BY <2>2, <3>1, <3>2, StillChosen DEF ChoiceInv
    <3>4. Deciding' /\ Cleared'
      BY <2>2, <3>1 DEF ChoiceInv, Deciding, Cleared
    <3> QED
      BY <3>3, <3>4 DEF ChoiceInv
  <2> QED
    BY <2>1, <2>2
<1> QED
  BY <1>1, <1>2, DataInductive, AwakeInductive, PTL DEF Spec

\* At rest, while no step has come between that requests no switch, the watched
\* channel can be watched and no known channel is to be preferred: what
\* handleChannelSwitch decided on a copy, and what each callback decided for its
\* own channel, is what the switch would choose now.
THEOREM BestWatchedAlways == Spec => []BestWatched
<1>1. ASSUME Awake, ChoiceInv, AtRest, state = "ChannelSwitch", ~CanWatch(selected),
             "choice" \notin lapsed
      PROVE  /\ CanWatch(watching)
             /\ \A c \in DOMAIN channels : CanWatch(c) => ~ShouldSwitch(channels[c])
  <2>1. Quiet /\ Standing /\ at = "ChannelSwitch" /\ NoneActing
    BY <1>1 DEF Awake, Quiet, Standing, AtRest, NoneActing, Acting
  <2>2. Chosen(watching)
    BY <1>1, <2>1 DEF ChoiceInv, Decision, AtRest, Reconsiders, Alone, NoneActing
  <2> QED
    BY <1>1, <2>2 DEF Chosen, ShouldSwitch
<1>2. Awake /\ ChoiceInv => BestWatched
  BY <1>1 DEF BestWatched
<1> QED
  BY <1>2, AwakeInductive, ChoiceInductive, PTL

\* A channel the user selected is the one watched at rest, whenever it can be
\* watched and no step has come between that requests no switch, in whatever
\* state the scheduler rests.
THEOREM SelectedWatchedAlways == Spec => []SelectedWatched
<1>1. ASSUME Awake, ChoiceInv, AtRest, CanWatch(selected), "choice" \notin lapsed
      PROVE  watching = selected
  <2>1. Quiet /\ Standing /\ NoneActing /\ state = at /\ at \in {"Idle", "ChannelSwitch"}
    BY <1>1 DEF Awake, Quiet, Standing, AtRest, NoneActing, Acting, Loop!Resting
  <2>2. state # "Idle"
    BY <1>1, <2>1 DEF ChoiceInv, Resigned, NoneToWatch, CanWatch, Awakens, Alone, NoneActing
  <2>3. Chosen(watching)
    BY <1>1, <2>1, <2>2 DEF ChoiceInv, Decision, AtRest, Reconsiders, Alone, NoneActing
  <2> QED
    BY <1>1, <2>3 DEF Chosen
<1>2. Awake /\ ChoiceInv => SelectedWatched
  BY <1>1 DEF SelectedWatched
<1> QED
  BY <1>2, AwakeInductive, ChoiceInductive, PTL
=============================================================================
