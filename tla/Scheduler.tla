----------------------------- MODULE Scheduler -----------------------------
(***************************************************************************)
(* internal/scheduler as a whole: the Run loop of module RunLoop with what *)
(* its handlers do to the games, the channels and the watched channel, the *)
(* watch loop, and the tracker's channel callbacks.  Every step of the     *)
(* control is a step of RunLoop (Loop below) joined with its effect on the *)
(* data.  The calls a handler makes without s.mu in between are steps of   *)
(* their own: a change of the scheduler's channels, of the tracker's, of   *)
(* the topics, a request.                                                  *)
(*                                                                         *)
(* Of an inventory there are left the campaigns that settings allow and    *)
(* that can be earned now, or within the hour; of a stream the game, the   *)
(* drops tag and the campaigns it offers (a stream about which that is not *)
(* known offers all of them).                                              *)
(***************************************************************************)
EXTENDS Integers, FiniteSets, TLC

CONSTANTS
    Channels,       \* channel ids
    NoChannel,      \* channel id 0
    Games,
    SpecialGames,   \* games with IsSpecial()
    Campaigns,
    GameOf,         \* campaign -> its game
    Allowed,        \* campaign -> AllowedChannels; {}: any channel
    Rewards,        \* campaigns with IsRewardCampaign
    Streams,        \* what a channel may show: [game, drops, offers]
    Offline,        \* no stream
    Inventories,    \* bound: what a reload may bring, [now, soon]: the
                    \* campaigns that can be earned now, and within the hour
    SmartBalance,   \* settings.PriorityMode: some campaigns are given up
    MaxChannels,    \* s.maxChannels
    Callbacks,      \* goroutines that run the tracker's change callback
    Outsiders,      \* "events": the PubSub dispatcher of the user topics;
                    \* "api": callers of the exported operations
    StallDetection, \* settings.WatchStallMinutes > 0
    MaxEvents,      \* bound: events from outside in one behaviour
    Fallible, Triggers, Maint, NoMaint    \* as in RunLoop

\* No decision of handleChannelSwitch.
Undecided == "undecided"

ASSUME SchedulerAssumption ==
    /\ IsFiniteSet(Games) /\ SpecialGames \subseteq Games
    /\ {NoChannel, Undecided, "keep", "idle"} \cap Channels = {}
    /\ {"run", "watch", "events", "api"} \cap Callbacks = {}
    /\ GameOf \in [Campaigns -> Games]
    /\ Allowed \in [Campaigns -> SUBSET Channels]
    /\ Rewards \subseteq Campaigns
    /\ Streams \subseteq [game : Games, drops : BOOLEAN,
                         offers : SUBSET Campaigns]
    /\ Offline \notin Streams
    /\ Inventories \subseteq {i \in [now : SUBSET Campaigns, soon : SUBSET Campaigns] :
                              i.now \subseteq i.soon}
    /\ SmartBalance \in BOOLEAN
    /\ MaxChannels \in Nat \ {0}
    /\ StallDetection \in BOOLEAN
    /\ MaxEvents \in Nat
    /\ Outsiders \subseteq {"events", "api"}
    /\ Fallible \subseteq {"InventoryFetch", "ChannelsFetch"}
    /\ Triggers \in BOOLEAN /\ NoMaint \notin Maint

VARIABLES
    state, token, run, at, failing, loaded, maint, live, client, watcher,
    cancelled,      \* as in RunLoop
    earnable,       \* campaigns of s.snapshot with CanEarn now
    near,           \* campaigns of s.snapshot with CanEarnWithin the hour
    wanted,         \* s.wantedGames: game -> its place, a partial function
    channels,       \* s.channels: id -> entry, a partial function
    tracked,        \* the tracker's own copy of the channels
    subscribed,     \* channels whose topics the PubSub manager was given
    watching,       \* s.watchingChannelID
    selected,       \* s.selectedChannelID
    stalled,        \* s.stalledChannels whose cooldown has not passed
    nudge,          \* s.watchSignal holds its one element
    fullCleanup,    \* s.fullCleanup
    work,           \* handleChannelsCleanup or handleChannelsFetch: where it
                    \* is and its local variables
    plan,           \* what to watch: the decision of handleChannelSwitch, or
                    \* of the end of handleChannelsFetch
    lapsed,         \* history: what was not made good since: "topics" that a
                    \* failed handleChannelsFetch left out, the "choice" of a
                    \* channel where no switch is requested, see ChoiceLapses
    crossed,        \* history: channels of which one change met a copy, or
                    \* another change, on its way
    loop,           \* the watch loop: where it is and its local variables
    callback,       \* each callback: where it is and its local variables
    events          \* events so far, see MaxEvents

control == <<state, token, run, at, failing, loaded, maint, live, client,
             watcher, cancelled>>
games == <<earnable, near, wanted>>
known == <<channels, tracked, subscribed, crossed>>
watch == <<watching, selected, stalled, nudge>>
local == <<fullCleanup, work, plan, lapsed>>
vars == <<control, games, known, watch, local, loop, callback, events>>

\* The Run goroutine calls the callback as well, from SyncChannels.
Callers == Callbacks \cup {"run"}
Clients == Callers \cup Outsiders \cup {"watch"}

Loop == INSTANCE RunLoop
          WITH Requestable <- {"InventoryFetch", "ChannelSwitch"}

PartialFunctions(S, T) == UNION {[D -> T] : D \in SUBSET S}
Shown == Streams \cup {Offline}
Entries == [stream : Shown, acl : BOOLEAN]    \* acl: ACLBased
ChannelMaps == PartialFunctions(Channels, Entries)

\* Where the handlers of channels are: in removeChannels; past it in
\* handleChannelsCleanup; adding ACL channels, applying what SyncChannels
\* fetched, about to ask a directory, going through its answer, storing what
\* is kept, looking at the watched channel.
WorkAt == {"no", "delete", "forget", "cleaned",
           "acl", "apply", "ask", "list", "store", "watched"}

NoWork == [at |-> "no", found |-> <<>>, new |-> {}, ask |-> {}, todo |-> {},
           gone |-> {}, adding |-> NoChannel]
NoEntry == [stream |-> Offline, acl |-> FALSE]
NoCall == [at |-> "none", channel |-> NoChannel, before |-> NoEntry,
           after |-> NoEntry, idle |-> FALSE, own |-> FALSE]
AtPick == [at |-> "pick", channel |-> NoChannel, stream |-> Offline,
           reported |-> FALSE, before |-> "Idle"]

TypeOK ==
    /\ Loop!TypeOK
    /\ earnable \subseteq Campaigns /\ near \subseteq Campaigns
    /\ wanted \in PartialFunctions(Games, 1..Cardinality(Games))
    /\ channels \in ChannelMaps
    /\ tracked \in ChannelMaps
    /\ subscribed \subseteq Channels /\ crossed \subseteq Channels
    /\ watching \in Channels \cup {NoChannel}
    /\ selected \in Channels \cup {NoChannel}
    /\ stalled \subseteq Channels
    /\ nudge \in BOOLEAN
    /\ fullCleanup \in BOOLEAN
    /\ work \in [at : WorkAt, found : ChannelMaps, new : SUBSET Channels,
                 ask : SUBSET (Games \X BOOLEAN), todo : SUBSET Channels,
                 gone : SUBSET Channels, adding : Channels \cup {NoChannel}]
    /\ plan \in Channels \cup {Undecided, "keep", "idle"}
    /\ lapsed \subseteq {"topics", "choice"}
    /\ loop \in [at : {"pick", "stop", "sent", "resolving", "stall", "rest"},
                 channel : Channels \cup {NoChannel}, stream : Shown,
                 reported : BOOLEAN, before : Loop!States]
    /\ callback \in [Callers -> [at : {"none", "called", "decide", "watch"},
                                 channel : Channels \cup {NoChannel},
                                 before : Entries, after : Entries,
                                 idle : BOOLEAN, own : BOOLEAN]]
    /\ events \in 0..MaxEvents

Init ==
    /\ Loop!Init
    /\ earnable = {} /\ near = {} /\ wanted = <<>>
    /\ channels = <<>> /\ tracked = <<>>
    /\ subscribed = {} /\ crossed = {}
    /\ watching = NoChannel /\ selected = NoChannel
    /\ stalled = {} /\ nudge = FALSE
    /\ fullCleanup = FALSE /\ work = NoWork /\ plan = Undecided
    /\ lapsed = {}
    /\ loop = AtPick
    /\ callback = [k \in Callers |-> NoCall]
    /\ events = 0

-----------------------------------------------------------------------------
(* What may be watched, and what is better.                                *)

\* CanEarn, as far as it depends on the channel: it is named or none is, and
\* shows the campaign's game; for a special game any stream that offers the
\* campaign will do.
Earns(p, c, stream) ==
    /\ stream # Offline
    /\ Allowed[p] = {} \/ c \in Allowed[p]
    /\ IF GameOf[p] \in SpecialGames
         THEN p \in Rewards \/ p \in stream.offers
         ELSE stream.game = GameOf[p]

\* A campaign that can be earned is reason to watch: its game is special, or
\* the stream shows a wanted game, with drops unless they are rewards.
Worth(p, stream) ==
    \/ GameOf[p] \in SpecialGames
    \/ stream.game \in DOMAIN wanted /\ (p \in Rewards \/ stream.drops)

\* Mutant: a stall is not remembered.
CanWatchStalled(c, stream) ==
    \E p \in earnable : Earns(p, c, stream) /\ Worth(p, stream)

\* canWatch: online with something to earn, and not avoided after a stall.
CanWatchStream(c, stream) ==
    /\ c \notin stalled
    /\ \E p \in earnable : Earns(p, c, stream) /\ Worth(p, stream)

CanWatch(c) == c \in DOMAIN channels /\ CanWatchStream(c, channels[c].stream)

\* priorityIndex: the place of a stream's game in wantedGames; last when it has
\* none.
Priority(stream) ==
    IF stream # Offline /\ stream.game \in DOMAIN wanted
      THEN wanted[stream.game]
      ELSE Cardinality(Games) + 1

\* sortChannelsByPriority: by game, ACL channels first; the viewers, which
\* break the remaining ties, are left open.
Before(e, f) ==
    \/ Priority(e.stream) < Priority(f.stream)
    \/ Priority(e.stream) = Priority(f.stream) /\ e.acl /\ ~f.acl

\* shouldSwitch: nothing watchable is watched, or this one comes first.
ShouldSwitch(e) == ~CanWatch(watching) \/ Before(e, channels[watching])

\* Mutant: the first channel found is taken.
BestUnsorted(S) == S

\* The channels of S that sortChannelsByPriority may put first.
Best(S) == {c \in S : \A d \in S : ~Before(channels[d], channels[c])}

-----------------------------------------------------------------------------
(* The operations the handlers share.                                      *)

\* watch(c) and stopWatching(): the watch loop is interrupted on a change.
Watch(c) ==
    /\ watching' = c
    /\ nudge' = (nudge \/ watching # c)

StopWatching ==
    /\ watching' = NoChannel
    /\ nudge' = (nudge \/ watching # NoChannel)

\* A step on which a better channel may be left unwatched, and that requests no
\* switch: the choice made last need no longer be the one handleChannelSwitch
\* would make.
ChoiceLapses(when) == lapsed' = IF when THEN lapsed \cup {"choice"} ELSE lapsed

\* One more of the bounded number of events.
Event == events < MaxEvents /\ events' = events + 1

With(f, c, e) ==
    [d \in DOMAIN f \cup {c} |-> IF d = c THEN e ELSE f[d]]

Without(f, S) == [c \in DOMAIN f \ S |-> f[c]]

\* A change of c has left the tracker and not yet arrived.
Called(c) == \E k \in Callers : callback[k].at = "called"
                                /\ callback[k].channel = c

\* A callback has read what it decides on, and has not yet acted.
Acting(k) == callback[k].at \in {"decide", "watch"}

-----------------------------------------------------------------------------
(* removeChannels and upsertChannel, call by call.                         *)

\* The channels of S go from s.channels, under s.mu.
Deleted(S) ==
    /\ channels' = Without(channels, S)
    /\ selected' = IF selected \in S THEN NoChannel ELSE selected
    /\ watching' = IF watching \in S THEN NoChannel ELSE watching

\* Tracker.RemoveChannel, for one after another.
Forgets ==
    /\ work.at = "forget"
    /\ \E c \in work.todo :
          /\ tracked' = Without(tracked, {c})
          /\ crossed' = IF Called(c) THEN crossed ELSE crossed \ {c}
          /\ work' = [work EXCEPT !.todo = @ \ {c}]
    /\ UNCHANGED <<control, games, channels, subscribed, watch, fullCleanup, plan,
                   lapsed, loop, callback, events>>

\* RemoveTopics and signalWatch.
Unsubscribes ==
    /\ work.at = "forget" /\ work.todo = {}
    /\ subscribed' = subscribed \ work.gone
    /\ nudge' = TRUE
    /\ work' = IF at = "ChannelsCleanup"
                 THEN [NoWork EXCEPT !.at = "cleaned"]
                 ELSE [NoWork EXCEPT !.at = "store", !.found = work.found,
                                     !.todo = DOMAIN work.found]
    /\ UNCHANGED <<control, games, channels, tracked, crossed, watching, selected,
                   stalled, fullCleanup, plan, lapsed, loop, callback, events>>

\* The first half of upsertChannel: s.channels has the entry, newChannels too.
Upserts(c, e) ==
    /\ work.adding = NoChannel /\ c \in work.todo
    /\ channels' = With(channels, c, e)
    /\ work' = [work EXCEPT !.found = With(@, c, e), !.adding = c,
                            !.todo = @ \ {c}]
    /\ UNCHANGED <<control, games, tracked, subscribed, crossed, watch,
                   fullCleanup, plan, lapsed, loop, callback, events>>

\* The second, Tracker.AddChannel: added without a stream, a channel keeps the
\* one the tracker has.
Tracks ==
    /\ work.adding # NoChannel
    /\ LET c == work.adding
           e == work.found[c]
       IN tracked' = With(tracked, c,
             IF e.stream = Offline /\ c \in DOMAIN tracked
               THEN [e EXCEPT !.stream = tracked[c].stream] ELSE e)
    /\ work' = [work EXCEPT !.adding = NoChannel]
    /\ UNCHANGED <<control, games, channels, subscribed, crossed, watch,
                   fullCleanup, plan, lapsed, loop, callback, events>>

-----------------------------------------------------------------------------
(* The Run goroutine.                                                      *)

\* Steps of Run that touch no data.
ControlStep ==
    /\ \/ Loop!Start \/ Loop!Dispatch \/ Loop!ExitLoop
       \/ Loop!Retry \/ Loop!BackoffCancelled
       \/ Loop!Wake \/ Loop!WaitCancelled \/ Loop!Join
    /\ UNCHANGED <<games, known, watch, local, loop, callback, events>>

HandleIdle ==
    /\ Loop!HandleIdle
    /\ StopWatching
    /\ UNCHANGED <<games, known, selected, stalled, local, loop, callback,
                   events>>

\* The new inventory replaces the old one.
Refreshed == \E i \in Inventories : earnable' = i.now /\ near' = i.soon

HandleInventoryFetch ==
    /\ Loop!HandleInventoryFetch
    /\ Refreshed
    /\ UNCHANGED <<wanted, known, watch, local, loop, callback, events>>

\* Refresh fails, or ensureUserTopics does after the snapshot was stored.
InventoryFetchError ==
    /\ at = "InventoryFetch"
    /\ Loop!HandlerError
    /\ Event
    /\ IF loaded' THEN Refreshed ELSE UNCHANGED <<earnable, near>>
    /\ UNCHANGED <<wanted, known, watch, local, loop, callback>>

\* The ways to put games in an order.
Orders(gs) == {order \in [gs -> 1..Cardinality(gs)] :
                  \A g, h \in gs : order[g] = order[h] => g = h}

\* computeWantedGames: the games of the campaigns within the hour, in an order
\* that depends on names, minutes and dates; SmartBalance gives up those that
\* cannot be finished.  What the claims before it open is CampaignStarts.
HandleGamesUpdate ==
    /\ Loop!HandleGamesUpdate
    /\ \E N \in IF SmartBalance THEN SUBSET near ELSE {near} :
          wanted' \in Orders({GameOf[p] : p \in N})
    /\ fullCleanup' = TRUE
    /\ nudge' = TRUE
    /\ UNCHANGED <<earnable, near, known, watching, selected, stalled, work, plan,
                   lapsed, loop, callback, events>>

\* Everything goes after a games update or when nothing is wanted; otherwise
\* the directory channels that are offline or show another game.
Unneeded ==
    IF wanted = <<>> \/ fullCleanup
      THEN DOMAIN channels
      ELSE {c \in DOMAIN channels :
              /\ ~channels[c].acl
              /\ \/ channels[c].stream = Offline
                 \/ channels[c].stream.game \notin DOMAIN wanted}

\* handleChannelsCleanup copies the channels and sees which are not needed,
CleanupBegin ==
    /\ run = "handling" /\ at = "ChannelsCleanup" /\ work.at = "no"
    /\ work' = IF Unneeded = {} THEN [NoWork EXCEPT !.at = "cleaned"]
               ELSE [NoWork EXCEPT !.at = "delete", !.gone = Unneeded]
    /\ UNCHANGED <<control, games, known, watch, fullCleanup, plan, lapsed, loop,
                   callback, events>>

\* removes those, whatever they have become,
CleanupDeletes ==
    /\ work.at = "delete"
    /\ Deleted(work.gone)
    /\ work' = [work EXCEPT !.at = "forget", !.todo = work.gone]
    /\ UNCHANGED <<control, games, tracked, subscribed, crossed, stalled, nudge,
                   fullCleanup, plan, lapsed, loop, callback, events>>

\* and moves on.
HandleChannelsCleanup ==
    /\ work.at = "cleaned"
    /\ Loop!HandleChannelsCleanup(IF wanted = <<>> THEN "Idle"
                                                   ELSE "ChannelsFetch")
    /\ fullCleanup' = FALSE
    /\ work' = NoWork
    /\ UNCHANGED <<games, known, watch, plan, lapsed, loop, callback, events>>

\* The campaigns handleChannelsFetch looks for channels of.
Sought == {p \in near : GameOf[p] \in DOMAIN wanted}

\* handleChannelsFetch copies the channels, and finds which channels that
\* campaigns name are not among them and which directories to ask: with the
\* drops filter, without it for reward campaigns.
FetchBegin ==
    /\ run = "handling" /\ at = "ChannelsFetch" /\ work.at = "no"
    /\ LET new == (UNION {Allowed[p] : p \in Sought}) \ DOMAIN channels
       IN work' = [NoWork EXCEPT
             !.at = IF new = {} THEN "ask" ELSE "acl",
             !.found = channels, !.new = new, !.todo = new,
             !.ask = {<<GameOf[p], p \notin Rewards>> :
                         p \in {q \in Sought : Allowed[q] = {}}}]
    /\ crossed' = crossed \cup {c \in Channels : Called(c)}
    /\ UNCHANGED <<control, games, channels, tracked, subscribed, watch,
                   fullCleanup, plan, lapsed, loop, callback, events>>

\* The new ACL channels are added, offline.
AddsAcl ==
    /\ work.at = "acl"
    /\ \E c \in work.todo : Upserts(c, [stream |-> Offline, acl |-> TRUE])

WorkOnly == UNCHANGED <<control, games, known, watch, fullCleanup, plan, lapsed,
                        loop, events>>

\* Run has come back from the callback it called.
RunReturned == callback["run"].at = "none" /\ client["run"] = "idle"

\* SyncChannels has its answers.
Synced ==
    /\ work.at = "acl" /\ work.todo = {} /\ work.adding = NoChannel
    /\ work' = [work EXCEPT !.at = "apply", !.todo = work.new]
    /\ WorkOnly /\ UNCHANGED callback

\* It applies them one after another; each change calls the callback.
Applies ==
    /\ work.at = "apply" /\ RunReturned
    /\ \E c \in work.todo, stream \in Shown :
          /\ c \in DOMAIN tracked
          /\ tracked' = [tracked EXCEPT ![c].stream = stream]
          /\ work' = [work EXCEPT !.todo = @ \ {c}]
          /\ callback' = IF stream = tracked[c].stream THEN callback
                         ELSE [callback EXCEPT !["run"] =
                                 [NoCall EXCEPT !.at = "called", !.channel = c,
                                                !.before = tracked[c],
                                                !.after = tracked'[c]]]
    /\ UNCHANGED <<control, games, channels, subscribed, crossed, watch,
                   fullCleanup, plan, lapsed, loop, events>>

\* What the tracker now has of the new channels goes into newChannels.
Applied ==
    /\ work.at = "apply" /\ work.todo = {} /\ RunReturned
    /\ work' = [work EXCEPT
          !.at = "ask", !.new = {},
          !.found = [c \in DOMAIN @ |-> IF c \in work.new \cap DOMAIN tracked
                                          THEN tracked[c] ELSE @[c]]]
    /\ WorkOnly /\ UNCHANGED callback

\* The directories in their order: the filtered ones first, each kind by the
\* place of the game.
First(d) ==
    /\ d \in work.ask
    /\ \A f \in work.ask : d[2] = f[2] => wanted[d[1]] <= wanted[f[1]]
    /\ (\E f \in work.ask : f[2]) => d[2]

\* A directory answers, with any channels.
Answered ==
    /\ work.at = "ask" /\ work.ask # {}
    /\ work' = [work EXCEPT !.at = "list", !.todo = Channels]
    /\ WorkOnly /\ UNCHANGED callback

\* A stream as a directory shows it, with what was known of it carried over.
Listed(d, stream) ==
    {s \in Streams :
        /\ s.game = d[1]
        /\ s.drops = (d[2] \/ (stream # Offline /\ stream.drops))
        /\ \/ s.offers = Campaigns
           \/ stream # Offline /\ s.offers = stream.offers}

\* The channels of the answer are added as they come.
AddsListed ==
    /\ work.at = "list"
    /\ \E c \in work.todo, d \in work.ask :
          /\ First(d)
          /\ \E s \in Listed(d, IF c \in DOMAIN work.found
                                  THEN work.found[c].stream ELSE Offline) :
                Upserts(c, [stream |-> s, acl |-> FALSE])

\* That was all of it.
ListEnds ==
    /\ work.at = "list" /\ work.adding = NoChannel
    /\ \E d \in work.ask :
          First(d) /\ work' = [work EXCEPT !.at = "ask", !.ask = @ \ {d},
                                           !.todo = {}]
    /\ WorkOnly /\ UNCHANGED callback

\* The first MaxChannels of the sorted channels.
Kept(found) ==
    {K \in SUBSET DOMAIN found :
        /\ Cardinality(K) = IF Cardinality(DOMAIN found) < MaxChannels
                              THEN Cardinality(DOMAIN found) ELSE MaxChannels
        /\ \A c \in K, d \in DOMAIN found \ K : ~Before(found[d], found[c])}

\* The channels are cut to the limit; those known before and those just found
\* are removed alike.
Cuts ==
    /\ work.at = "ask" /\ work.ask = {}
    /\ \E K \in Kept(work.found) :
         LET found == [c \in K |-> work.found[c]]
             gone == DOMAIN work.found \ K
         IN /\ Deleted(gone)
            /\ work' = IF gone = {}
                 THEN [NoWork EXCEPT !.at = "store", !.found = found, !.todo = K]
                 ELSE [NoWork EXCEPT !.at = "forget", !.found = found,
                                     !.gone = gone, !.todo = gone]
    /\ UNCHANGED <<control, games, tracked, subscribed, crossed, stalled, nudge,
                   fullCleanup, plan, lapsed, loop, callback, events>>

\* The channels kept are written back as they were found, the best first,
\* whatever happened to them since.
Stores ==
    /\ work.at = "store"
    /\ \E c \in work.todo :
          /\ \A d \in work.todo : ~Before(work.found[d], work.found[c])
          /\ Upserts(c, work.found[c])

AllStored == work.at = "store" /\ work.todo = {} /\ work.adding = NoChannel

\* Mutant: topics are added for the channels found in this pass.
SubscribesNew ==
    /\ AllStored
    /\ subscribed' = subscribed \cup {c \in DOMAIN work.found : ~work.found[c].acl}
    /\ work' = [NoWork EXCEPT !.at = "watched"]
    /\ UNCHANGED <<control, games, channels, tracked, crossed, watch, fullCleanup,
                   plan, lapsed, loop, callback, events>>

\* AddTopics for every channel kept.
Subscribes ==
    /\ AllStored
    /\ subscribed' = subscribed \cup DOMAIN work.found
    /\ work' = [NoWork EXCEPT !.at = "watched"]
    /\ UNCHANGED <<control, games, channels, tracked, crossed, watch, fullCleanup,
                   plan, lapsed, loop, callback, events>>

\* SyncChannels, a directory or AddTopics failed: the channels stay as they
\* are by then.
ChannelsFetchError ==
    /\ \/ work.at = "acl" /\ work.todo = {} /\ work.adding = NoChannel
       \/ work.at = "ask" /\ work.ask # {}
       \/ AllStored
    /\ Loop!HandlerError
    /\ Event
    /\ work' = NoWork
    /\ lapsed' = lapsed \cup {"topics"}
    /\ UNCHANGED <<games, known, watch, fullCleanup, plan, loop, callback>>

\* The watched channel stays if it is known and can still be watched.
LooksAtWatched ==
    /\ work.at = "watched" /\ plan = Undecided
    /\ plan' = IF watching \notin DOMAIN channels THEN "keep"
               ELSE IF CanWatch(watching) THEN watching ELSE "idle"
    /\ UNCHANGED <<control, games, known, watch, fullCleanup, work, lapsed, loop,
                   callback, events>>

HandleChannelsFetch ==
    /\ work.at = "watched" /\ plan # Undecided
    /\ Loop!HandleChannelsFetch
    /\ \/ plan \in Channels /\ Watch(plan)
       \/ plan = "idle" /\ StopWatching
       \/ plan = "keep" /\ UNCHANGED <<watching, nudge>>
    /\ work' = NoWork
    /\ plan' = Undecided
    /\ lapsed' = lapsed \ {"topics"}
    /\ UNCHANGED <<games, known, selected, stalled, fullCleanup, loop, callback,
                   events>>

\* handleChannelSwitch looks at the channels and decides.
DecideSwitch ==
    /\ run = "handling" /\ at = "ChannelSwitch" /\ plan = Undecided
    /\ LET better == {c \in DOMAIN channels :
                         CanWatch(c) /\ ShouldSwitch(channels[c])}
       IN IF CanWatch(selected) THEN plan' = selected
          ELSE IF better # {}
          THEN plan' \in Best(better)
          ELSE plan' = IF CanWatch(watching) THEN "keep" ELSE "idle"
    \* A callback that is about to act does so on what it read before.
    /\ lapsed' = IF \E k \in Callers : Acting(k)
                   THEN lapsed \cup {"choice"} ELSE lapsed \ {"choice"}
    /\ UNCHANGED <<control, games, known, watch, fullCleanup, work, loop,
                   callback, events>>

\* handleChannelSwitch does what it decided.
HandleChannelSwitch ==
    /\ \/ /\ plan \in Channels
          /\ Watch(plan)
          /\ Loop!SwitchToChannel
       \/ /\ plan = "keep"
          /\ Loop!SwitchToChannel
          /\ UNCHANGED <<watching, nudge>>
       \/ /\ plan = "idle"
          /\ Loop!SwitchToIdle
          /\ UNCHANGED <<watching, nudge>>
    /\ plan' = Undecided
    /\ UNCHANGED <<games, known, selected, stalled, fullCleanup, work, lapsed,
                   loop, callback, events>>

\* What a handler of channels does between its beginning and its end.
WorkStep ==
    \/ CleanupDeletes \/ Forgets \/ Unsubscribes
    \/ AddsAcl \/ Tracks \/ Synced \/ Applies \/ Applied \/ Answered
    \/ AddsListed \/ ListEnds \/ Cuts \/ Stores \/ Subscribes \/ LooksAtWatched

RunStep ==
    \/ ControlStep \/ HandleIdle \/ HandleInventoryFetch \/ InventoryFetchError
    \/ HandleGamesUpdate
    \/ CleanupBegin \/ FetchBegin \/ WorkStep
    \/ HandleChannelsCleanup \/ HandleChannelsFetch \/ ChannelsFetchError
    \/ DecideSwitch \/ HandleChannelSwitch

-----------------------------------------------------------------------------
(* onChannelChange: called by the tracker, after it has unlocked, with what *)
(* the channel was and is.                                                 *)

BusyStates == {"InventoryFetch", "GamesUpdate", "ChannelsCleanup",
               "ChannelsFetch", "Exit"}

\* The channel's topics tell the tracker that a stream started, ended or
\* changed.
TrackerChange(k, c, stream) ==
    /\ Event
    /\ callback[k].at = "none" /\ client[k] = "idle"
    /\ c \in DOMAIN tracked \cap subscribed /\ tracked[c].stream # stream
    /\ tracked' = [tracked EXCEPT ![c].stream = stream]
    /\ callback' = [callback EXCEPT ![k] =
          [NoCall EXCEPT !.at = "called", !.channel = c,
                         !.before = tracked[c], !.after = tracked'[c]]]
    /\ crossed' = IF c \in DOMAIN work.found \/ Called(c)
                    THEN crossed \cup {c} ELSE crossed
    /\ UNCHANGED <<control, games, channels, subscribed, watch, local, loop>>

\* Mutant: in the states that choose again nothing is written.
CallbackReadsLate(k) ==
    LET call == callback[k] IN
    /\ call.at = "called"
    /\ channels' = IF call.channel \in DOMAIN channels /\ state \notin BusyStates
                     THEN [channels EXCEPT ![call.channel] = call.after]
                     ELSE channels
    /\ callback' = [callback EXCEPT ![k] =
          IF state \in BusyStates THEN NoCall
          ELSE [call EXCEPT !.at = "decide", !.idle = (state = "Idle"),
                            !.own = (watching = call.channel)]]
    /\ UNCHANGED <<control, games, tracked, subscribed, crossed, watch, local,
                   loop, events>>

\* A callback decides for its own channel only and requests no switch.  That
\* is as good as a switch unless its channel is no longer known, was not what
\* the tracker took it for, or is the selected one; unless it is watched and
\* can be still, perhaps for less; and unless another callback is about to act
\* on what it read before.
Disturbs(k) ==
    LET c == callback[k].channel IN
    \/ c \notin DOMAIN channels
    \/ channels[c] # callback[k].before
    \/ c = selected /\ c # watching
    \/ c = watching /\ CanWatchStream(c, callback[k].after.stream)
    \/ \E j \in Callers : Acting(j)

\* Under s.mu: the copy is updated, the state and the watched channel read.
CallbackReads(k) ==
    LET call == callback[k] IN
    /\ call.at = "called"
    /\ channels' = IF call.channel \in DOMAIN channels
                     THEN [channels EXCEPT ![call.channel] = call.after]
                     ELSE channels
    /\ callback' = [callback EXCEPT ![k] =
          IF state \in BusyStates THEN NoCall
          ELSE [call EXCEPT !.at = "decide", !.idle = (state = "Idle"),
                            !.own = (watching = call.channel)]]
    \* Run has decided, or nobody decides for what has changed.
    /\ ChoiceLapses(plan # Undecided \/ (state \notin BusyStates /\ Disturbs(k)))
    /\ UNCHANGED <<control, games, tracked, subscribed, crossed, watch,
                   fullCleanup, work, plan, loop, events>>

\* After the unlock, with the state as it was read.
CallbackDecides(k) ==
    LET call == callback[k]
        good == CanWatchStream(call.channel, call.after.stream)
        ownLost == ~call.idle /\ call.before.stream # Offline /\ call.own
        reconsider == IF call.idle THEN good ELSE ownLost /\ ~good
        switch == ~call.idle /\ ~ownLost /\ good /\ ShouldSwitch(call.after)
    IN /\ call.at = "decide"
       /\ callback' = [callback EXCEPT ![k] =
             IF switch THEN [call EXCEPT !.at = "watch"] ELSE NoCall]
       /\ IF reconsider THEN Loop!Request(k, "ChannelSwitch")
                        ELSE UNCHANGED control
       /\ UNCHANGED <<games, known, watch, local, loop, events>>

\* Any selection in force is passed over.
CallbackWatches(k) ==
    /\ callback[k].at = "watch"
    /\ Watch(callback[k].channel)
    /\ callback' = [callback EXCEPT ![k] = NoCall]
    /\ ChoiceLapses(CanWatch(selected))
    /\ UNCHANGED <<control, games, known, selected, stalled, fullCleanup, work,
                   plan, loop, events>>

CallbackStep(k) == CallbackReads(k) \/ CallbackDecides(k) \/ CallbackWatches(k)

-----------------------------------------------------------------------------
(* The watch loop.                                                         *)

Looping == watcher = "running"
LoopAt(pc) == loop' = [loop EXCEPT !.at = pc]
LoopOnly == UNCHANGED <<known, local, callback>>

\* waitForWatchingChannel with nothing to watch.
LoopWaits ==
    /\ Looping /\ loop.at = "pick" /\ watching = NoChannel /\ nudge
    /\ nudge' = FALSE
    /\ UNCHANGED <<control, games, watching, selected, stalled, loop, events>>
    /\ LoopOnly

\* Mutant: a channel that is offline is waited for.
LoopPicksOffline ==
    /\ Looping /\ loop.at = "pick" /\ watching # NoChannel
    /\ IF watching \in DOMAIN channels /\ channels[watching].stream # Offline
         THEN \E sent \in BOOLEAN :
                loop' = [loop EXCEPT !.at = "sent", !.channel = watching,
                                     !.stream = channels[watching].stream,
                                     !.reported = sent]
         ELSE LoopAt("rest")
    /\ UNCHANGED <<control, games, watch, events>>
    /\ LoopOnly

\* The watched channel is offline or unknown, or SendWatch is called for it.
LoopPicks ==
    /\ Looping /\ loop.at = "pick" /\ watching # NoChannel
    /\ IF watching \in DOMAIN channels /\ channels[watching].stream # Offline
         THEN \E sent \in BOOLEAN :
                loop' = [loop EXCEPT !.at = "sent", !.channel = watching,
                                     !.stream = channels[watching].stream,
                                     !.reported = sent]
         ELSE LoopAt("stop")
    /\ UNCHANGED <<control, games, watch, events>>
    /\ LoopOnly

\* stopWatching, whatever is watched by now.
LoopStops ==
    /\ Looping /\ loop.at = "stop"
    /\ StopWatching
    /\ ChoiceLapses(CanWatch(watching))
    /\ loop' = AtPick
    /\ UNCHANGED <<control, games, known, selected, stalled, fullCleanup, work,
                   plan, callback, events>>

\* sleepWithWatchSignal is interrupted.
LoopInterrupted ==
    /\ Looping /\ loop.at \in {"sent", "rest"} /\ nudge
    /\ nudge' = FALSE
    /\ loop' = AtPick
    /\ UNCHANGED <<control, games, watching, selected, stalled, events>>
    /\ LoopOnly

LoopResolves ==
    /\ Looping /\ loop.at = "sent"
    /\ loop' = [loop EXCEPT !.at = "resolving", !.before = state]
    /\ UNCHANGED <<control, games, watch, events>>
    /\ LoopOnly

\* The campaign p has nothing left to earn.
Exhausts(p) == earnable' = earnable \ {p} /\ near' = near \ {p}

\* resolveProgress: nothing comes of it; or CurrentDrop or the minute counted
\* was the last that a campaign of the channel could use.  Then a completed
\* reward asks for a reload, the limit of estimated minutes for a switch,
\* whatever else the campaign or the channel has; and CurrentDrop, like a
\* channel that has had nothing to earn, for a reload if nothing is left on it.
LoopResolved ==
    /\ Looping /\ loop.at = "resolving"
    /\ LET earned(E) == {p \in E : Earns(p, loop.channel, loop.stream)} IN
       \/ UNCHANGED <<control, games, lapsed, events>>
       \/ /\ Event
          /\ \E p \in earned(earnable) :
                \/ Exhausts(p) /\ Loop!Request("watch", "InventoryFetch")
                \/ /\ Exhausts(p) \/ UNCHANGED <<earnable, near>>
                   /\ Loop!Request("watch", "ChannelSwitch")
          /\ UNCHANGED <<wanted, lapsed>>
       \/ /\ Event
          /\ \E p \in earned(earnable) : Exhausts(p) /\ earned(earnable \ {p}) # {}
          /\ ChoiceLapses(TRUE)
          /\ UNCHANGED <<control, wanted>>
       \/ /\ earned(earnable) = {}
          /\ Loop!Request("watch", "InventoryFetch")
          /\ UNCHANGED <<games, lapsed, events>>
    /\ LoopAt("stall")
    /\ UNCHANGED <<known, watch, fullCleanup, work, plan, callback>>

\* checkWatchStall, unless the state moved during resolveProgress.
LoopChecksStall ==
    /\ Looping /\ loop.at = "stall" /\ client["watch"] = "idle"
    /\ \/ UNCHANGED <<control, stalled, events>>
       \/ /\ StallDetection
          /\ state = loop.before /\ watching = loop.channel /\ loop.reported
          /\ Event
          /\ stalled' = stalled \cup {loop.channel}
          /\ Loop!Request("watch", "ChannelSwitch")
    /\ loop' = [AtPick EXCEPT !.at = "rest"]
    /\ UNCHANGED <<games, watching, selected, nudge>>
    /\ LoopOnly

LoopRests ==
    /\ Looping /\ loop.at = "rest"
    /\ loop' = AtPick
    /\ UNCHANGED <<control, games, watch, events>>
    /\ LoopOnly

WatchExit ==
    /\ loop.at \in {"pick", "sent", "rest"}
    /\ Loop!WatchExit
    /\ loop' = AtPick
    /\ UNCHANGED <<games, watch, events>>
    /\ LoopOnly

LoopStep == \/ LoopWaits \/ LoopPicks \/ LoopStops \/ LoopResolves
            \/ LoopResolved \/ LoopChecksStall \/ LoopRests
            \/ LoopInterrupted \/ WatchExit

-----------------------------------------------------------------------------
(* The other goroutines and the passing of time.                           *)

Others == UNCHANGED <<known, local, loop, callback>>

MaintWake ==
    /\ Event
    /\ \E m \in Maint, why \in {"trigger", "reload"} : Loop!MaintWake(m, why)
    /\ UNCHANGED <<games, watch>>
    /\ Others

MaintStep(m) ==
    /\ Loop!MaintStep(m)
    /\ UNCHANGED <<games, watch, events>>
    /\ Others

Signal(c) ==
    /\ Loop!Signal(c)
    /\ UNCHANGED <<games, watch, events>>
    /\ Others

\* A reward notification, or the claim of a campaign that is now complete.
EventReload ==
    /\ Event /\ "events" \in Outsiders
    /\ Loop!Request("events", "InventoryFetch")
    /\ UNCHANGED <<games, watch>>
    /\ Others

\* The claim of a drop whose campaign goes on: restartWatching.
EventRestart ==
    /\ Event /\ "events" \in Outsiders
    /\ nudge' = TRUE
    /\ UNCHANGED <<control, games, watching, selected, stalled>>
    /\ Others

\* A campaign comes within the hour.
CampaignNears ==
    /\ Event
    /\ \E p \in Campaigns \ near : near' = near \cup {p}
    /\ UNCHANGED <<control, earnable, wanted, watch>>
    /\ Others

\* A campaign starts, a claim opens its next drop, or settings no longer exclude
\* it: it can be earned from now on, and nobody requests a switch.
CampaignStarts ==
    /\ Event
    /\ \E p \in Campaigns \ earnable :
          earnable' = earnable \cup {p} /\ near' = near \cup {p}
    /\ ChoiceLapses(TRUE)
    /\ UNCHANGED <<control, wanted, known, watch, fullCleanup, work, plan, loop,
                   callback>>

\* A campaign ends, its last earnable drop is claimed or reported complete, or
\* settings exclude it.
CampaignEnds ==
    /\ Event
    /\ \E p \in earnable : Exhausts(p)
    /\ ChoiceLapses(TRUE)
    /\ UNCHANGED <<control, wanted, known, watch, fullCleanup, work, plan, loop,
                   callback>>

CooldownOver ==
    /\ \E c \in stalled : stalled' = stalled \ {c}
    /\ ChoiceLapses(TRUE)
    /\ UNCHANGED <<control, games, known, watching, selected, nudge, fullCleanup,
                   work, plan, loop, callback, events>>

\* The exported operations.
Reload ==
    /\ Event /\ "api" \in Outsiders
    /\ Loop!Request("api", "InventoryFetch")
    /\ UNCHANGED <<games, watch>>
    /\ Others

\* Mutant: the selection waits for the next switch.
SelectChannelQuietly ==
    /\ Event /\ "api" \in Outsiders
    /\ selected' \in Channels
    /\ UNCHANGED <<control, games, watching, stalled, nudge>>
    /\ Others

SelectChannel ==
    /\ Event /\ "api" \in Outsiders
    /\ selected' \in Channels
    /\ Loop!Request("api", "ChannelSwitch")
    /\ UNCHANGED <<games, watching, stalled, nudge>>
    /\ Others

ClearSelectedChannel ==
    /\ Event /\ "api" \in Outsiders
    /\ selected' = NoChannel
    /\ ChoiceLapses(TRUE)
    /\ UNCHANGED <<control, games, known, watching, stalled, nudge, fullCleanup,
                   work, plan, loop, callback>>

Cancel ==
    /\ Event
    /\ Loop!Cancel
    /\ UNCHANGED <<games, watch>>
    /\ Others

Next ==
    \/ RunStep
    \/ LoopStep
    \/ \E k \in Callers : CallbackStep(k)
    \/ \E k \in Callbacks, c \in Channels, stream \in Shown :
          TrackerChange(k, c, stream)
    \/ \E m \in Maint : MaintStep(m)
    \/ \E c \in Clients : Signal(c)
    \/ MaintWake \/ EventReload \/ EventRestart
    \/ CampaignNears \/ CampaignStarts \/ CampaignEnds
    \/ CooldownOver \/ Reload \/ SelectChannel \/ ClearSelectedChannel
    \/ Cancel

Spec == Init /\ [][Next]_vars

\* Goroutines that can run do run, and requests return.
FairSpec ==
    /\ Spec
    /\ WF_vars(RunStep)
    /\ WF_vars(LoopStep)
    /\ \A k \in Callers : WF_vars(CallbackStep(k))
    /\ \A m \in Maint : WF_vars(MaintStep(m))
    /\ \A c \in Clients : WF_vars(Signal(c))

-----------------------------------------------------------------------------
(* Properties.                                                             *)

\* Run sleeps in a state that waits for an event, nobody is about to wake it,
\* and no callback is under way.
AtRest ==
    /\ run = "wait" /\ ~token /\ ~Loop!SignalDue
    /\ \A k \in Callers : callback[k].at = "none"

\* The scheduler's map, the tracker's map and the topics are changed by
\* separate calls (upsertChannel, removeChannels, AddTopics), with requests,
\* errors and callbacks between them.  When the handlers of channels are done
\* the tracker has the scheduler's channels and no others, no topic is left for
\* a forgotten channel, and both hold a channel for the same: the same stream,
\* named by a campaign or not.  That is but for a change still on its way to
\* the scheduler, and for a channel whose change met the copy a fetch writes
\* back (states_channels.go:203), or another change: of such a one the
\* scheduler may go on believing that it is offline while the tracker knows
\* better, until its next change or the next reload.
KnownAlike ==
    work.at = "no" =>
        /\ DOMAIN tracked = DOMAIN channels
        /\ subscribed \subseteq DOMAIN channels
        /\ \A c \in DOMAIN channels :
              channels[c] = tracked[c] \/ Called(c) \/ c \in crossed

\* Once handleChannelsFetch has run through, every known channel has its
\* topics until the handlers begin again, also when an earlier pass failed
\* half-way (a request after the ACL channels were added, or AddTopics itself)
\* and was tried again: a channel without topics would never come online for
\* the miner.  Not so before that: a reload ends the error, and a ChannelSwitch
\* may then come to rest with the channels as the error left them.
TopicsComplete ==
    work.at = "no" /\ "topics" \notin lapsed => subscribed = DOMAIN channels

\* At rest in ChannelSwitch with no selection in force, the watched channel can
\* be watched, and no known channel that can be is to be preferred:
\* handleChannelSwitch sorts, filters, and decides on a copy, after
\* handleChannelsFetch has cut the channels to the limit, and a callback that
\* decides for its own channel alone decides as the switch would.  Not so once
\* the choice has lapsed, where nobody requests a switch: time passes (a
\* campaign, a cooldown), a selection is taken back, the watch loop stops what
\* was just switched to, a callback meets another decision (Disturbs).
BestWatched ==
    AtRest /\ state = "ChannelSwitch" /\ ~CanWatch(selected)
           /\ "choice" \notin lapsed =>
        /\ CanWatch(watching)
        /\ \A c \in DOMAIN channels : CanWatch(c) => ~ShouldSwitch(channels[c])

\* A channel the user selected is the one watched at rest, whenever it can be
\* watched and the choice has not lapsed, also when the selection came while a
\* reload was under way or while the channel was cut from the known ones.
SelectedWatched ==
    AtRest /\ CanWatch(selected) /\ "choice" \notin lapsed => watching = selected

\* A channel that made no progress has been left, and nobody is about to
\* watch it who decided so before the stall.
Left(c) ==
    /\ c \in stalled /\ watching # c /\ plan # c
    /\ \A k \in Callers : ~(callback[k].at = "watch" /\ callback[k].channel = c)

\* It is not taken up again before its cooldown is over, neither by the switch
\* the stall asked for, nor by a reload, a selection or a callback that finds
\* it online again.
StalledAvoided ==
    [][\A c \in Channels : Left(c) /\ c \in stalled' => Left(c)']_vars

\* The watch loop always leaves a channel that is offline or forgotten,
\* whichever goroutine set it and however late.
OfflineLeft ==
    []<>(\/ cancelled \/ watching = NoChannel
         \/ watching \in DOMAIN channels /\ channels[watching].stream # Offline)

\* Claimed by states_channel_switch_test.go: while a channel can be watched
\* the scheduler does not settle in Idle.
NotIdleWhenWatchable ==
    AtRest /\ state = "Idle" => \A c \in Channels : ~CanWatch(c)
=============================================================================
