# TwitchDropsMinerGo in TLA+

TLA+ specifications of the miner: what the modules model, what TLC checks on
small instances and what TLAPS proves for every value of the constants. File
names are relative to `src/internal/` unless they start with `cmd/`.

    tlc -workers 2 -config MCTracker.cfg MCTracker.tla     # one run
    tlapm Tracker_proofs.tla                               # one module's proofs

## The system

The program watches Twitch streams without playing them, to earn the drops of
campaigns. One `scheduler` decides which channel is watched; everything else
feeds it.

| Component | State | Operations | Interacts with |
|---|---|---|---|
| `scheduler` (run loop) | `state`, the wake-up channel, the maintenance goroutine's cancel function | `Run`, `ChangeState`, `advanceState`, `signalStateChange`, `restartMaintenance` | every other part requests states; the handlers run on its goroutine |
| `scheduler` (channels) | campaigns and wanted games, `channels`, `watching`, `selectedChannelID`, stall bookkeeping | the seven state handlers, `watchLoop`, `onChannelChange`, `SelectChannel` | inventory, tracker, pubsub manager, watch requests |
| `scheduler` (drops) | minutes of drops, claims | `handleProgress`, `bumpActiveCampaign`, `processDropClaim` | domain, gql, rewards, progress |
| `watch.Tracker` | channels with stream, epoch, pending check | `AddChannel`, `RemoveChannel`, `SyncChannels`, `CheckOnline`, stream reports | gql; calls the scheduler back after a change |
| `pubsub` shard | topics, submitted, pending, connection | `run`, `handleConnection`, `syncTopics`, `resolvePending`, `stop` | the server; hands events to the scheduler's and tracker's handlers |
| `pubsub` manager | shards, topic to shard | `AddTopics`, `RemoveTopics`, `Start`, `Stop`, `WaitUntilConnected` | shards |
| `inventory` | campaigns | `Refresh` | gql |
| `auth` | token, user, bound user, device | `Validate`, `ImportSession`, `BindUser` | httpclient's cookie jar; used by gql and watch |
| `gql`, `httpclient` | rate limiter, the cookie jar and its file | requests with retries; `Load`, `SetCookies`, `Save` | the network, storage |
| `storage`, `progress`, `rewards` | JSON files, saved progress | load, atomic save, quarantine, `Record`, `PruneExpired` | file system |
| `app`, `cmd/miner-server` | status; the start and the end of the service, the session file | `saveState`, `importDefaultSession`, `initializeAccountProgress`, `runService` | auth, scheduler, storage |
| `domain` | campaigns, drops | pure rules: can earn, can claim, observe and bump minutes | everything |
| `config`, `mainland`, `browserlogin`, `logging`, `secure`, `runtime` | - | validation, dialling, prompts, files | - |

The behaviours that are hard here:

* **A single state variable with many writers.** The handlers advance it, the
  watch loop, the maintenance goroutine, PubSub events, the claim goroutines and
  the API overwrite it, and a one-place channel wakes the loop.
* **Decisions on snapshots.** The scheduler's handlers copy channels under the
  lock, ask Twitch for minutes, and write back; the tracker's callbacks decide
  on their own copies in between.
* **Answers out of order.** The tracker may have several requests for one channel
  under way; a shard may have a LISTEN and an UNLISTEN of one topic crossing.
* **Delays and timeouts.** The check after 120 s, PING and PONG, back-off, stall
  cool-down, the maintenance interval.
* **Shutdown** has to join every goroutine.
* **Memory, files and Twitch** each have a view of a drop's minutes and of the
  login; a reload, a crash or a lost answer comes between any two of them.
* **A save is ten calls of the operating system**, and the program or the power
  may end between any two.

What makes each part correct is stated with its module below; the hazards, with
the line each bites at, are listed in `PROJECT.json`.

## Modules

### RunLoop - the control machine (`scheduler/state_machine.go`, `runtime.go`, `maintenance.go`)

State: the requested `state`, the one-place `slot` of the wake-up channel, where
Run is (`run`), the state it handles, the watch loop's life, the maintenance
goroutines, the callers of `ChangeState` (which store the state and signal in
two steps, because the code unlocks in between) and the context. Each handler is
an action reduced to what it does to the control state: `HandleGamesUpdate` is
"advance to ChannelsCleanup if nobody requested something else". A handler's
failure, the back-off and its `ChangeState` are actions of their own, and so are
the deferred joins.

Properties: `NoLostWakeup` (Run does not sleep on a state it has not handled),
`ShutdownTerminates`, `PipelineSettles`, and, proved,
`JoinedBeforeStop` (Run returns after the goroutines it started).

### Scheduler - what the handlers do (`states_inventory.go`, `states_channels.go`, `channels.go`, `channel_order.go`, `events.go`, `watch_loop.go`, `watch_stall.go`, `maintenance.go`)

State: everything of RunLoop, and

* the campaigns that can be earned now (`earnable`) and within the hour (`near`),
  and `wanted`, the games of the latter with the place of each: a game may be wanted
  that has nothing to earn yet;
* the scheduler's `channels`, the tracker's own copy of them (`tracked`) and the
  channels whose topics the PubSub manager was given (`subscribed`): three pieces of
  state in three packages, changed by separate calls;
* `watching`, `selected`, the cool-downs, the signal that interrupts the watch loop;
* where each goroutine is that holds copies, with its local variables: `work` of
  the cleanup and fetch handlers, `plan` of the switch handler and of the end of
  the fetch, `loop` of the watch loop, and each `callback`'s before and after.

A handler is as many actions as it makes calls that others may come between.
`handleChannelsCleanup` copies the channels and sees which are not needed
(`CleanupBegin`), deletes those under `s.mu` (`CleanupDeletes`), has the tracker
forget one after another (`Forgets`), takes their topics away (`Unsubscribes`), and
advances. `handleChannelsFetch` copies (`FetchBegin`), adds the channels that
campaigns name, first to its own map and then to the tracker's (`AddsAcl`,
`Tracks`), has them synchronised, each answer with its callback (`Synced`, `Applies`,
`Applied`), asks one directory after another and adds what is listed (`Answered`,
`AddsListed`, `ListEnds`), cuts to the limit (`Cuts`), writes the copies back
(`Stores`), adds the topics (`Subscribes`) and looks at the watched channel
(`LooksAtWatched`). `handleChannelSwitch` looks and decides (`DecideSwitch`) and then
does so. Each request may fail, and leaves what was done by then.
`SelectChannel`, `checkWatchStall` and `resolveProgress` write and request in
one step: what is between the two is no state that any property can tell from it.

Of an inventory the model keeps which campaigns can be earned, `CanEarn` and
`CanEarnWithin` the hour; of a stream its game, its drops tag and the campaigns it
offers. A special game is watched on any stream that offers the campaign
(`Earns`, `Worth`). A reload brings any of `Inventories`; time alone brings a
campaign within the hour, starts it or ends it (`CampaignNears`, `CampaignStarts`,
`CampaignEnds`, which also stand for a claim that opens or ends one and for settings,
whose `UpdateSettings` is followed by `Reload`); the watch loop uses one up
(`LoopResolved`). The tracker
changes a stream through `TrackerChange`, the abstract effect of module Tracker, and
a callback starts with that change.

Two histories. `lapsed` says what was not made good since: "topics" from a failure
of `handleChannelsFetch` until it runs through; "choice" where a better channel may
be left and nobody requests a switch, until `handleChannelSwitch` decides again: a
campaign starts or ends, a cool-down is over, a selection is taken back, the
watch loop stops a channel that can be watched, a callback takes a channel over the
selected one, comes after the decision, or meets another decision (`Disturbs`).
`crossed` has the channels of which one change met a copy that will be written back,
or another change.

Properties: `KnownAlike` (when no handler of channels is under way, the scheduler,
the tracker and the subscriptions have the same channels and the same of each, but
for a change on its way and for what crossed), `TopicsComplete` (then every known
channel has its topics, unless they lapsed), `OfflineLeft` (a watched channel that is
offline or forgotten is left), `BestWatched`, `SelectedWatched` and
`StalledAvoided` (a stalled channel that was left is not taken up before its
cool-down is over).

Each action names the step of RunLoop it is (`Loop == INSTANCE RunLoop WITH ...`), or
leaves the control alone. So Scheduler implements RunLoop by the way it is
written, and that is stated as no property or theorem.

### Tracker - whose answer counts (`watch/tracker*.go`, `sync*.go`)

State: the tracked channels (stream, PendingStream, epoch, pendingSeq,
pendingCancel as the name of the goroutine it cancels), the epoch counter, the
check goroutines with their local variables, the answers a SyncChannels has yet
to apply, and two histories: `fresh` of a request says whether the channel was
added, removed or reported offline since, `owed` names the channels whose last
report no request follows yet. The Run goroutine's calls (AddChannel,
RemoveChannel, SyncChannels) exclude one another - `sync = {}` guards them -
while the dispatchers' reports and the checks interleave with everything. The
change handler the tracker calls is Scheduler's callback.

Properties: `PendingAlive`, `OnlyFreshApplied`, `CheckEnds`, and, proved,
`PendingMarked` (a channel with a check pending is marked so; the other half, a
mark without a check, the code does not keep: `AddChannel` takes the flag of either
side).

### PubSubShard - one connection (`pubsub/shard*.go`, `protocol.go`)

State: `topics`, `submitted`, `pending`, `connected`, `state`, `wake`, the run
goroutine's place, the outcome of syncTopics' comparison it holds, the PING
timer, the event queue, and outside the code the requests and replies in flight
and the server's subscriptions. One action for each step of handleConnection
that another goroutine can come before; each kind of inbound message is an action.

Properties: `InFlightOnce` (no topic has two commands of one kind under way),
`Confirmed` (what is taken for submitted, the server accepted), `Converges`,
`SilentLeft`.

### PubSubManager - topics over shards (`pubsub/manager*.go`), and TopicSet, what it promises

State: `shards` and each shard's topics, the goroutines of a shard (`off`, `on`,
`ending`), `running`, whether the context of the last Start is done, and the call
under way with its local variables. The four calls come from Run alone, so they
exclude one another; what interleaves with their steps are the shards: `Refused`
is the one thing of PubSubShard the manager notices (a rejected LISTEN makes
`resolvePending` remove the topics), `ShardEnds` and `Cancel` are the others.

`TopicSet` is the caller's view: a set of at most `maxShards * shardTopicLimit`
topics, changed by whole calls and by refusals. The refinement maps it to the
topics in the shards together with those a call holds (`recycled`, `pending`).
`RemoveTopics` ignores whether `addTopic` found room for a recycled topic: that
it always does is what `IsTopicSet` says, and why the proof counts.

Properties: `IsTopicSet`, `OneShardEach`, `Served` (a running manager's shards
have their goroutines between calls), and, proved, `ShardsBounded`.

### CampaignRules, Ranking, Drops - the count of drops (`domain`, `scheduler/drop_progress.go`, `claim.go`, `priority*.go`, `inventory`)

`CampaignRules` and `Ranking` have no state. `CampaignRules` is the package
`domain`: a campaign is a record with its drops, and the methods are operators
on it - what is earnable, claimable, finished, remaining, and what observing and
bumping minutes makes of a drop and its siblings. Recursion over preconditions
is a recursive function. `Ranking` is the order of the wanted games in the four
modes; the order in which Go walks the map of candidates is its argument. A sort
puts each element behind as many as come before it (`Arranged`), a stable one
lets the places decide where the comparison does not (`StableSort`), and a loop
that skips elements takes those at some places (`Picked`): the sorts of the
community modules have no definition that the prover can use.

`Drops` is the life of these records: what Twitch has counted (`watched`) and
granted, what is in memory (`snapshot`), in the progress file (`store`), in the
reward file (`rewards`, and the copy the refresher took of it at its start), and
the goroutines on their way from one to the other. A report is observed in one
step and recorded in another; a reload reads the inventory, seeds it with what
was recorded, reads the rewards, and is merged with the memory it replaces, all
in steps of their own; the sweep and the event each ask for a claim and learn of
it later, or not at all. A reload may end before its sweep, when `ensureUserTopics`
fails or another request takes the place of GamesUpdate (`Install(goesOn)`), and the
sweep's order of games is that of the time before its claims. A drop has its
benefits, a grant its time; where Twitch tells nothing of a drop's progress, a
benefit awarded within the drop's window makes it claimed (`AwardedInWindow`).
Twitch counts a minute for the drops that share a counter; that is the one thing
assumed of it that the code's `sharesCumulativeCounter` has to agree with. A plan is what Twitch may list
(`AsListed`): drops without progress, preconditions that lead nowhere round, and
a reward campaign as `reward_campaigns.go` makes it, one drop over the whole of
its time.

Properties: `NeverOverstated`, `ClaimedTruly`, `RewardSaved`, `RewardKept`,
`RecordedObserved` and `EarnedIsClaimed` for the counting, and `OrderIrrelevant`,
`PriorityProtected`, `UnfinishableExact` and `EarnableWanted` for the ranking of
every inventory that a reload installs. `ClaimedTruly` has one exception, because
`inferClaimedByBenefits` has it: a drop of a campaign Twitch tells nothing of, with
a benefit that another drop was granted within its window, may be taken for claimed
(`Mistakable`); the property says that nothing else is. `RecordedObserved` and
`EarnedIsClaimed` are conditional: as long as reloads are installed again and again
(`Reloads`), or get to their sweeps (`Sweeps`). That they do is not promised by the
code, see below.

### Store - one JSON file (`storage`, `progress`, `rewards`, `httpclient/cookies*.go`, `app`), and AtomicFile, what it promises

State: the file and its backup, the set of what they may be after a power
failure (`survivors`), the store's memory, the saves under way with the step
each is at, the mutex, and two histories, the versions a caller was told are
saved and those the directory was flushed with. Which of the four stores is above
the file is chosen in Init: the two progress stores change and save under one
mutex and roll back, the cookie jar copies its cookies once it has the mutex, the
application copies its state before. A save is created, synced, its predecessor
moved to the backup, replaced, the backup removed and the directory flushed, each
an action, and each may fail. The program ends when no save is under way, or is
killed, or the power fails.

It is supposed of the file system that renames and removals survive a power
failure in the order they were made (a journal), that a file that was not synced
may be empty then, and that the program's own crash loses nothing.

Three kinds of content are no good: one that is not JSON (`Damaged`, `ErrCorrupt`, put
aside), a file that cannot be read (`Unreadable`), and a jar that is JSON with a key
`url.Parse` does not take (`Refused`). The last is an ordinary error of
`PersistentJar.Load`, so the jar is not put aside and the program does not start.

`AtomicFile` has none of these steps: a content, a save that replaces it at once.
The refinement maps the content to what `LoadJSONFile` would find (`Loaded`).
A file changed from outside is the one thing it promises nothing of, until a save
has replaced it.

Properties: `IsAtomic` (the refinement), `AckedKept`, `DurableKept`,
`MemorySaved`, `ComesUp` (the program is up again and again, unless what it finds is a
`Refused` jar or a file that cannot be read: these two it does not get over, whoever
starts it). `MemorySaved` supposes that nobody has changed the file
from outside: after a damaged file was loaded from its backup, the next save's
`rotateToBackup` removes that backup first, and if that save then fails, the
memory it is rolled back to is nowhere on the disk until a save succeeds. Three
faults in a row make it happen. Also not promised, and so in the model without a
property: an error of `os.Remove(backup)` is returned although the new content is
in place (a roll-back then forgets what is saved, and saves it again with the
next report), an older copy of the application's state may be written last, and
`progress.NewFileStore` puts a good file aside when it could not be read for
another reason than damage.

### Session - the login (`auth`, `cmd/miner-server/session_auto.go`, `account_progress.go`, `browser_login.go`)

State: the token, user and bound user of `auth.State`, whether the interval of
revalidation has passed, the cookie jar and the cookie file, the session file and
its lock, the phase of the service's start, the callers of Validate and the one
call under way with its local variables; and outside the service the tokens
Twitch takes, the exporter and the owner who upload session files. `given` is a
history: the credential the owner may count on.

`Validate` is as many actions as it has points where others may act: between
asking Twitch and changing the jar, the jar and its save, the save and the token,
the token and the user; between the first look at the session file, its lock, its
reading, the import and the comparison that decides on its removal. An import
takes the same steps as a validation with another token, so they are one
(`from` tells them apart). The Android client is the only one `main` builds, so
the device-code login and its restoring of tokens are not modelled.

Properties: `OneUser`, `LoginSaved`, `CredentialKept`, `DeadRefused`,
`LoginRecovers`. In the Android path the token is set after the
cookie file is saved, which is what `LoginSaved` rests on; the device-code path
does it the other way round. A file uploaded without the lock between the last
comparison and `os.Remove` (`session_auto.go:94-97`) is lost, though the comment
above it means to keep it: no process can see it, and `CredentialKept` does not
count on such a file (`Upload`).

## Runs

| Run | Question | Bounds |
|---|---|---|
| `MCRunLoop` | `NoLostWakeup`, and under `FairSpec` `ShutdownTerminates`, `PipelineSettles` | 2 clients, 2 maintenance goroutines (one running, one cancelled and not yet gone: a third only repeats the second) |
| `MCScheduler` | `KnownAlike`, `TopicsComplete`, `StalledAvoided` | 2 channels, 1 game, 2 campaigns, one of which names a channel (so there are channels of both kinds), 1 callback and the one Run calls itself, the PubSub events, 2 events, failures and triggers |
| `MCSchedulerChoice` | `BestWatched`, `SelectedWatched` | 3 channels of which the limit keeps 2, 2 games, one special, 2 campaigns of which one names a channel and is earnable now or within the hour, 1 callback and Run's, the API, 1 event |
| `MCSchedulerLive` | `OfflineLeft` under `FairSpec` | 1 channel, 1 callback, the API, 2 events, failing fetches: a channel that came online goes offline while it is watched |
| `MCTracker` | `PendingAlive`, `OnlyFreshApplied`, `CheckEnds` | 2 channels, 1 show, 2 checks, 6 calls: remove, add again and report twice still fit between a request and its answer |
| `MCPubSubShard` | `InFlightOnce`, `Confirmed`, `Converges`, `SilentLeft` | 2 topics, batches of 2, a queue of 1, 4 events: add, remove, add again, and a rejection, a RECONNECT or a stop |
| `MCPubSubManager` | `IsTopicSet`, `OneShardEach`, `Served` | 2 shards of 2 topics and 5 topics, one more than fit; 4 shard objects, so that new ones start while old ones end; 4 calls: fill, remove, and start and stop around them; 1 topic the server may refuse |
| `MCDrops` | the ten properties of Drops and Ranking, under `Spec` | 4 plans of one campaign that are counted (two drops on one counter, a chain, a reward, a campaign Twitch tells nothing of, one of whose benefits is in both its drops), clock 2, 2 failures, limit of estimates 2; 150 plans of two or three campaigns that are only ranked, with windows around the current minute, the hour and the safety margin |
| `MCStore` | `IsAtomic`, `AckedKept`, `DurableKept`, `MemorySaved`, and under `FairSpec` `ComesUp` | each of the 4 stores, 2 keys, one of which expires, 1 version, 2 writers, 2 failures, crashes, power failures or damages of any of the three kinds: a failure in the midst of what an earlier one left |
| `MCSession` | `OneUser`, `LoginSaved`, `CredentialKept`, `DeadRefused`, and under `FairSpec` `LoginRecovers` | 2 accounts, 2 tokens of one and 1 of the other, 2 callers, 2 session files, 1 failure or stop (the proofs have any number) |

Deadlock is checked in `MCSession`, whose callers go on for ever. The other runs
set `CHECK_DEADLOCK FALSE` because each system really stops: Run returns after
cancellation, shards are stopped, faults are used up and the calls from outside
are bounded. Progress is what the liveness properties check.

Every bound is a CONSTANT of its module. Two channels are what one decision
compares, and a third is what a limit of two cuts; two topics are what fill a batch and a set; two checks of one channel
are what the sequence numbers have to tell apart; two drops are what share a
counter or depend on one another; two versions of a file are what a save may
confuse; and two accounts are what a login may.

### What the code does otherwise than it says

The runs below look for what a test, a comment or a name of the repository
claims, and TLC finds a behaviour of the code that does not comply. The quotes
are in `PROJECT.json`.

| Run | Claim | What happens |
|---|---|---|
| `MCSchedulerIdle` | no Idle while a channel can be watched | the switch handler has decided for Idle on its copy; the callback of the channel that just came online reads ChannelSwitch, which is not among the states left to a handler (`events.go:76`), so it goes on as in that state and watches the channel (`events.go:87-91`); Run advances to Idle, which stops the channel or has been passed already |
| `MCTrackerReport` | a stream update starts a delayed synchronisation | the answer to an older request cancels the new check |

More behaviours are in the models because they are in the code, and no property
forbids them. That the inventory is read again and again for as long as Run lives
is no property, because the code does not see to it: an InventoryFetch that
maintenance requested is overwritten by the `ChangeState` after another handler's
back-off, or by a ChannelSwitch stored before Run takes the state (`Retry`,
`Request`), maintenance has ended with its request, and only a reload starts it
again; until something else asks for one, none comes. A ChannelSwitch requested during InventoryFetch takes the place
of GamesUpdate, so that the new inventory is planned with only after the next
reload (`advanceState`). A switch requested while `handleChannelSwitch` has already
decided for Idle is lost, for `advanceState` finds the state it started from
(`SwitchToIdle`). `handleChannelsFetch` writes copies of channels back that may be
older than a stream-down or a stream-up (`Stores`, `crossed`): the scheduler may then
go on believing that a channel is offline while the tracker knows better. It removes
the channels beyond its limit also when it has just found them, and a selection of one
of them is forgotten although the channel may be found again (`Cuts`). A campaign that
starts by time alone makes nobody look for a better channel (`CampaignStarts`). After a fetch failed half-way, a reload
followed by a ChannelSwitch brings the scheduler to rest with channels that have
no topics, until the next fetch (`lapsed`); the watch loop's `stopWatching`
(`watch_loop.go:93`) stops whatever is watched by then, so also a channel that was
switched to while its request was under way (`LoopStops`); `pendingSeq` starts over with a
channel that is added again, so a cancelled check may pass for the new one
(`CheckAsks`); and `refreshConnectedState` compares sizes of sets, on a RESPONSE
only, so a shard may count as connected before its new topic is acknowledged, or
stay unconnected when its last unacknowledged topic goes (`Refresh`).

## Fairness

* Run, the watch loop and the maintenance goroutine: weak fairness of each
  goroutine's steps. They wait on timers, on HTTP requests with a timeout, and on
  mutexes that are held briefly.
* Receiving from several channels: a Go `select` chooses at random among the
  ready ones, so a branch that is ready again and again is taken (strong
  fairness of `Inbound` in PubSubShard).
* Cancellation, events, failures and the server's behaviour have no fairness except
  where a property supposes it: `Converges` supposes that the server answers.
* Drops: none. `RecordedObserved` and `EarnedIsClaimed` state what they suppose
  (`Reloads`, `Sweeps`), because the lost request described above can end either;
  nothing is supposed of reports, of events, of the clock or of the answers.
* Store: the calls of a save follow one another, a goroutine that waits for a
  mutex gets it (Go's mutex does not starve, so strong fairness of `TakeMutex`),
  and somebody starts the program when it is down; a start that ends in an error
  is no action (`Start`), so `ComesUp` has to name the files that end all of them.
* Session: requests have a deadline, the interval passes, the exporter holds the
  lock for one write, callers call again, and the mutex is as in Store (strong
  fairness of `Enters`). Twitch, the owner and failures have no fairness.

## Proofs

| Theorem | For every value of the constants |
|---|---|
| `RunLoop_proofs!TypeCorrect`, `WakeupNotLost`, `Joined` | types; Run never sleeps on an unhandled request with no signal due; Run returns after its goroutines |
| `Scheduler_proofs!WakeupNotLost` | Run never sleeps on an unhandled request with no signal due, with the real handlers in place of RunLoop's |
| `Scheduler_proofs!TypeCorrect`, `KnownAlikeAlways`, `TopicsCompleteAlways` | types; after every handler, whatever came between its calls, the scheduler, the tracker and the subscriptions have the same channels; every known channel has its topics once a fetch ran through |
| `Scheduler_proofs!StalledAvoidedAlways` | a stalled channel that was left is not watched, nor about to be, before its cool-down is over |
| `Scheduler_proofs!BestWatchedAlways`, `SelectedWatchedAlways` | at rest the selected channel is watched, or else one that no other should replace |
| `Tracker_proofs!TypeCorrect`, `PendingCheckLives`, `PendingCheckMarked` | types; a pending check is under way, its channel's own and not cancelled, and marked |
| `Tracker_proofs!AnswersFresh` | an answer that changes a channel is younger than its last addition or stream-down |
| `PubSubManager_proofs!TypeCorrect`, `NeverTwice`, `NeverTooMany`, `AllServed` | no shard over its limit, no topic in two shards, no shard too many, every shard of a running manager served |
| `PubSubManager_proofs!ImplementsTopicSet` | PubSubManager implements TopicSet |
| `PubSubShard_proofs!TypeCorrect`, `InFlightOnceAlways`, `ConfirmedAlways` | types; no topic in two unanswered commands of one type; what is confirmed is served, or its UNLISTEN is on its way |
| `Drops_proofs!TypeCorrect`, `NeverOverstatedAlways`, `ClaimedTrulyAlways` | types; memory has no more reported minutes than Twitch counted, and no claim Twitch did not grant |
| `Drops_proofs!RewardSavedAlways`, `RewardKeptAlways` | a lasting reward is complete in memory exactly when it is in the file; no step takes a minute from it |
| `Drops_proofs!UnfinishableExactAlways` | a campaign is left out as unfinishable exactly when none of its drops has the minutes left that it needs |
| `Drops_proofs!OrderIrrelevantAlways`, `PriorityProtectedAlways` | the wanted games do not depend on the order of Go's map; while a listed game is short of time no other comes before a listed one |
| `Drops_proofs!EarnableWantedAlways` | the game of a campaign that can be earned now is wanted, in all four modes |
| `Store_proofs!TypeCorrect`, `AckedFound`, `DurableFound`, `MemoryIsSaved` | types; what was acknowledged is found again, after a power failure once the directory was flushed; a progress store thinks no more saved than is |
| `Store_proofs!ImplementsAtomicFile` | Store implements AtomicFile |
| `Session_proofs!LoginTypeCorrect`, `OneUserAlways`, `LoginSavedAlways` | types, and who holds the file lock; no token of another user than the bound one; the token in use is in the cookie file |
| `Session_proofs!CredentialAlwaysKept` | the credential of a session file is in that file or in the cookie file |
| `Session_proofs!DeadAlwaysRefused` | no Validate that began after the interval had passed succeeds with a token that was revoked by then |

*RunLoop.* `NoLostWakeup` is not inductive: it needs that while Run handles a
state, it handles the one it took (`StateHandled`), that it waits in a resting
state only (`RestsAtRest`), and for the joins that they come in order (`JoinOrder`).

*Scheduler.* Three invariants, each resting on the one before. `DataInv` says what
the channels' handlers have done so far: at each place of `work` the local
variables are what the handler set (`Handling`), the tracker knows the scheduler's
channels but for the one being added and those still to be forgotten (`Domains`,
`AddingOK`), the topics lack nothing that is not to come (`Complete`), and an entry
differs from the tracker's only while a change is on its way, a copy is about to be
applied or written back, or a change crossed it (`Agreed`, `Unaware`, `Copied`). `KnownAlike` and
`TopicsComplete` are what is left of it when `work` is at rest.

`StalledAvoided` is about what is held, not only about what is watched: `Left` says
of a stalled channel that neither the plan nor a callback has it, and `canWatch` is
what every new plan went through.

For `BestWatched` and `SelectedWatched` the invariant follows a choice to the rest it
leads to. `Awake` says that as long as nobody has told Run anything (`Quiet`), the
state is the one it handles. `ChoiceInv` says, as long as that holds and the choice
has not lapsed, that what the switch handler has decided, and then what is watched, is
`Chosen`: the selected channel, or one that no other comes before (`Decision`); and
that Run is Idle only when nothing can be watched (`Resigned`). One callback may be
about to decide for its own channel; then what is watched is chosen but for that
channel (`Reconsiders`, `Awakens`), and what the callback does next, a switch
requested or its channel watched, makes it right again (`DecidesRight`). `Disturbs`
lists when that is not so. That a first of the sorted channels exists rests on the
games being finitely many, that it is preferred to every other on the order being
transitive (`BeforeStrict`).

*Tracker.* An answer is applied when the channel's epoch equals the request's.
That this makes the answer fresh rests on epochs being used once:
`EpochsCounted` (no epoch exceeds the counter) and `Current` (a request whose
epoch is still the channel's is fresh) are inductive together, because every
operation that makes requests stale takes the epoch `counter + 1`, which none of
them has. `PendingAlive` needs that no two channels share a check, which follows
from itself: the goroutine names one channel.

*PubSubManager.* The invariant is `TypeOK`, `Spread` (where the topics are) and
`Goroutines` (what runs). That a new shard is not one too many, and that a
recycled topic finds room, both rest on counting: if `addTopic` fails on every
shard, the topics are at least as many as `FullCount`'s rectangle of shards and
places, because no two shards share a topic (`Disjoint`) and no shard is listed
twice (`Distinct`); but the topics held and those still to be placed together
fit (`Fits` into `m.maxShards`, `Recyclable` into the shards RemoveTopics keeps),
and the one in hand is not held yet (`TodoNew`). Refusals only make room. For
`Served`, `Goroutines` says that a manager that is not running has no goroutines
outside Stop, so Start finds every shard ready to be started.

*PubSubShard.* A command is on its way to the server, or its answer is on its way
back, and the shard does not know which. The invariant speaks of one `Line`:
answers not yet read, then requests not yet answered. Commands of one type in it
have no topic in common, and no LISTEN is behind an UNLISTEN of the same topic
(`Orderly`). `pending` is that line, but for what `stop(true)` has made the shard
forget, which is its older part (`Remembered`); what `syncTopics` has found to do
crosses with nothing in it (`DiffFits`). `Confirmed` follows the verdicts: a
topic is confirmed, or will be when the replies are read, only if the server
serves it or an UNLISTEN is behind (`Served`). That the batches of one
synchronisation are disjoint is shown by counting: their sizes add up to the size
of their union (`CountedApart`).

*Drops.* `Fits` compares a drop in memory with the one Twitch lists, what it has
counted (`Credit`) and whether it was granted; seeding, merging, observing,
bumping and marking keep it, each a lemma. So it holds of every campaign in
memory and in a reload under way (`Truthful`), of recorded minutes and of reports
that wait to be recorded (`Counted`), although all of these are old by the time
they are used: counters only grow, and drops that share one have the same count
(`CounterFacts`). For the rewards, `Agreed` says that while a reward lasts, the
file, the refresher's copy and memory agree on its completion; a reload under way
has it incomplete, and is wrong only about what memory will tell it when it is
installed, which is why `mergeRewardProgressLocked` is enough. The largest and
the smallest of a finite set come from the well-foundedness of strict subsets.
For `UnfinishableExact` the minutes that lie in both windows and are yet to come
are an interval (`MinutesLeft`), and a comparison of its ends with what a drop
needs is one of their number (`EnoughMinutes`).

*The ranking.* The three properties of the wanted games speak of one state, and
the invariant gives them no more than that the campaigns are `Sound`: finitely
many, their drops finitely many with preconditions that lead nowhere round. The
work is in what the operators return. A total order on a finite set has one
arrangement, each element behind as many as come before it, because who comes
first has fewer before it (`FrontCounts`, `ArrangedIs`); so a stable sort returns
the elements it was given, and none before one that is less (`StableSortIs`).
Sums over the drops and totals along their preconditions are recursive, and a
value that satisfies the recursion has to be shown to exist; in place of an
induction, the largest set of drops that has totals, or the largest size of a set
that has a sum, is that of all, since a smaller one could be extended by a drop
whose preconditions are in it (`TotalsExist`, `SumsExist`). `Below` compares
ratios by cross products, with 1/0 for Go's +Inf; without a ratio 0/0 among them
that is a weak order (`RatioOrder`), on lists of ratios the first that differ
decide (`ListOrder`), and the keys of two candidates are level only if they have the same game, which
`SortKey` has last (`CandidateOrder`). With the tier before it that is a total
order on the games (`TieredOrder`), and two arrangements of the same games by one
total order are equal (`OneOrder`): hence `OrderIrrelevant`. For
`PriorityProtected`, a listed game is in the top tier whatever else holds, and
the tight campaign puts every other game out of it, because its candidate is
looked at before the best one of its game is chosen. For `EarnableWanted`, what
can be earned now can be earned within the hour (`EarnableSoon`); then its
candidate survives each step of the computation, by itself or by a better one of
the same game.

*Store.* A step of a save is classified once: it writes one disk more, with the
content that was there or with the one it saves (`Saving`); nothing moves
(`Still`); or somebody else changes a file (`Strays`). Against these the three
promises need what a save holds: everything acknowledged before, and what its
caller will be told (`Owed`); and for the stores that roll back, that what they
go back to is on the disk (`Undone`). `Clean` says that a damaged file is there
only when nothing is owed. `Phases` says which of the file and its backup are
there between two calls, so that a content is found at each of them. The proof
found two errors of the model: `Loaded` was a CASE whose alternatives overlapped,
and `MemorySaved` lacked the condition described above, which two faults had
hidden from TLC.

*Session.* `OneUser` and `LoginSaved` speak of single moments between steps, so
the invariant `LoginInv` says for each step of a call what it has already put in
place (`Underway`: a token on its way was checked against the bound user, the jar
has it from `save` on, the file from `token` on), that a call is made by who may
make it in that phase (`AtWork`), and that a state with a token has it in the jar
and in the file (`Settled`). `CredentialKept` needs two more facts (`KeptInv`): a
session file with the number that was read still has the content that was read
(`FileRead`), which is why the comparison before the removal is enough; and a
credential that is in the cookie file only is also in the jar, and the call under
way is about that very token (`OnlyInCookies`), so that neither a save nor the
one of `Client.Close` on the way out can put another in its place. The ends of a
call - it returns, `main` goes on to its next call, the service goes down - are
lemmas of their own, which the fourteen actions that may end one cite. For
`DeadRefused`, `DeadKnown` follows the token instead of the call: the tokens that
were dead when the call began stay so, one that Twitch accepted since is none of
them, and within the interval of revalidation the state holds no other.

Assumptions: `TrackerAssumption`, and those of the other
modules, state that the "none" values are not members, that bounds are numbers,
and for the manager that its limits are positive (`NewManager` sees to it) and
its topics finite. `StoreAssumption` has somebody who saves and tells a damaged
file from the others; `DropsAssumption` has plans as the inventory is parsed into
(`AsListed`): campaigns under their own id, no drop in two of them, and each
inventory finite. It also has campaigns, drops and games as numbers in the order
of their ids and names, which is all that the code asks of these, and settings
of the types they have in the code, with any list, margin and exclusions.
`SchedulerAssumption` has finitely many games, and "none" values and names of
decisions that are no channels. TLC evaluates them in every run.

What the proofs leave to TLC: the liveness properties (`PipelineSettles`,
`ShutdownTerminates`, `OfflineLeft`, `CheckEnds`, `Converges`, `SilentLeft`,
`RecordedObserved`, `EarnedIsClaimed`, `ComesUp`, `LoginRecovers`), because they rest
on fairness, which needs ENABLED, or on what happens again and again; and the two
runs that expect a violation. Every safety
invariant and every action property of a run is a theorem.
`TypeOK` of each module above is one too, so no run repeats it. tlapm cannot cite a theorem
of an instance, so the one of RunLoop that Scheduler's own proofs need,
`NoLostWakeup`, is proved for it again.

## Plan

1. PubSubManager with PubSubShard's connection instead of `Refused` and
   `ShardEnds`, and Scheduler with the plan that Ranking computes, if the states
   allow it.
2. The rate limiter of `httpclient` with concurrent requests.

## Not modelled

Parsing and encoding of GQL, HTTP and HLS (pure functions of their input, their
outcome is an input of the models), the merging of inventory JSON, one HTTP
request with its retries (sequential; it ends in an answer or an error),
configuration, logging, file permissions, path layout, the dialer's name
resolution and TLS record splitting, the interactive login (its token is an input
of Session), the device-code login, which the program never reaches, and the
observation loop that publishes the status.
