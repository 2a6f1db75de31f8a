------------------------------- MODULE Drops -------------------------------
(***************************************************************************)
(* How the scheduler keeps count of drops: minutes that Twitch reports or  *)
(* that are estimated, the files they are recorded in, reloads of the      *)
(* inventory that replace what is in memory while all this goes on, and    *)
(* claims (scheduler/drop_progress.go, claim.go, watch_loop.go,            *)
(* states_inventory.go; inventory/refresher.go, fetch.go; progress and     *)
(* rewards).                                                               *)
(***************************************************************************)
EXTENDS Ranking

CONSTANTS
    Plans,       \* each one: campaign id |-> campaign, as Twitch lists it
    Silent,      \* campaigns whose progress the inventory does not tell
    Channel,     \* the channel that is watched
    Settings,
    Reporters,   \* goroutines that learn of minutes: the PubSub dispatcher
                 \* and the watch loop's poll
    RewardGrace, \* rewards are remembered so long after their end
    Announced,   \* drops that Twitch sends a claim event for
    MaxClock,    \* bound: the clock
    MaxFaults    \* bound: failed requests and writes, lost answers, restarts

DropFields == {"req", "real", "extra", "claimed", "claim", "pre", "benefits", "starts",
               "ends"}
CampaignFields == {"id", "game", "special", "linked", "badge", "valid", "reward", "starts",
                   "ends", "allowed", "drops"}

\* A campaign before anything is known of the user's progress. A reward is one
\* drop that lasts as long as its campaign, and nothing comes before it.
AsListed(c) ==
    /\ DOMAIN c = CampaignFields /\ c.reward \in BOOLEAN /\ c.game \in Int
    /\ c.starts \in Int /\ c.ends \in Int
    /\ IsFiniteSet(DOMAIN c.drops) /\ DOMAIN c.drops \subseteq Int
    /\ ValidPreconditions(c)
    /\ \A d \in DOMAIN c.drops :
           LET x == c.drops[d]
           IN  /\ DOMAIN x = DropFields /\ x.req \in Nat
               /\ x.starts \in Int /\ x.ends \in Int
               /\ x.real = 0 /\ x.extra = 0 /\ x.claimed = FALSE /\ x.claim = FALSE
               /\ c.reward => x.starts = c.starts /\ x.ends = c.ends /\ x.pre = {}
    /\ c.reward => Cardinality(DOMAIN c.drops) = 1

\* Campaigns, drops and games are numbers in the order of their ids and names.
ASSUME DropsAssumption ==
    /\ RewardGrace \in Nat /\ MaxClock \in Nat
    /\ Settings \in [mode : STRING, priority : Seq(Int), exclude : SUBSET Int,
                     badges : BOOLEAN, safety : Int]
    /\ \A p \in Plans :
        /\ IsFiniteSet(DOMAIN p) /\ DOMAIN p \subseteq Int
        /\ \A c \in DOMAIN p : p[c].id = c /\ AsListed(p[c])
        /\ \A c, o \in DOMAIN p :
               c # o => DOMAIN p[c].drops \cap DOMAIN p[o].drops = {}

VARIABLES
    plan,      \* the one of Plans that Twitch has
    clock,
    watched,   \* Twitch: minutes counted for a drop, or for its whole window
    granted,   \* Twitch: claimed drop |-> when it was granted
    snapshot,  \* s.snapshot.Campaigns
    store,     \* watch progress: drop |-> minutes
    rewards,   \* reward progress: campaign |-> [minutes, completed]
    refresher, \* the refresher's copy of the reward progress
    run,       \* the Run goroutine: where it is in a reload and what it holds
    report,    \* a report observed and not yet recorded, by goroutine
    claim,     \* claims under way, by goroutine
    faults

vars == <<plan, clock, watched, granted, snapshot, store, rewards, refresher, run,
          report, claim, faults>>

Ids == DOMAIN plan
Regular == {c \in Ids : ~plan[c].reward}
DropIds == UNION {DOMAIN plan[c].drops : c \in Ids}
AllDrops == UNION {UNION {DOMAIN p[c].drops : c \in DOMAIN p} : p \in Plans}
CampaignOf(d) == CHOOSE c \in Ids : d \in DOMAIN plan[c].drops
DropOf(d) == plan[CampaignOf(d)].drops[d]

\* Twitch counts the drops of one window that need no other drop together,
\* under the smallest of their ids. Bound: it counts up to the largest of the
\* requirements.
Together(d) ==
    {d} \cup {o \in DOMAIN plan[CampaignOf(d)].drops :
                /\ DropOf(o).pre = {} /\ DropOf(d).pre = {}
                /\ DropOf(o).starts = DropOf(d).starts
                /\ DropOf(o).ends = DropOf(d).ends}
Counter(d) == Min(Together(d))
MaxWatched(d) == Max({DropOf(o).req : o \in Together(d)})

Least2(m, n) == IF m < n THEN m ELSE n

\* The goroutines that claim: the sweep of Run, and the dispatcher.
Claimers == {"sweep", "event"}

NoReport == [drop |-> 0, minutes |-> 0]
NoClaim == [at |-> "none", drop |-> 0]
Idle == [at |-> "idle", next |-> <<>>, queue |-> {}, listed |-> 0, now |-> 0]

Known(d) == CampaignOf(d) \in DOMAIN snapshot
InMemory(d) == snapshot[CampaignOf(d)].drops[d]
Campaigns == {snapshot[c] : c \in DOMAIN snapshot}

TypeOK ==
    LET Counts(cs) ==
            \A c \in DOMAIN cs : \A d \in DOMAIN plan[c].drops :
                LET x == cs[c].drops[d]
                IN  /\ x.real \in 0..x.req
                    /\ x.extra \in 0..(IF plan[c].reward THEN x.req ELSE MaxExtraMinutes)
                    /\ CurrentMinutes(x) <= x.req
    IN  /\ clock \in 0..MaxClock
        /\ \A d \in DropIds : watched[d] \in 0..MaxWatched(d)
        /\ DOMAIN granted \subseteq DropIds
        /\ \A d \in DOMAIN granted : granted[d] \in 0..MaxClock
        /\ DOMAIN snapshot \subseteq Ids /\ Counts(snapshot)
        /\ DOMAIN run.next \subseteq Ids /\ Counts(run.next)
        /\ \A d \in DropIds : store[d] \in 0..MaxWatched(d)
        /\ DOMAIN rewards \subseteq Ids \ Regular
        /\ DOMAIN refresher \subseteq Ids \ Regular
        /\ report \in [Reporters -> {NoReport} \cup
                          [drop : DropIds, minutes : Nat]]
        /\ claim \in [Claimers -> {NoClaim} \cup
                          [at : {"ask", "answer"}, drop : DropIds]]

Init ==
    /\ plan \in Plans
    /\ clock = 0
    /\ watched = [d \in DropIds |-> 0]
    /\ granted = <<>>
    /\ snapshot = <<>>
    /\ store = [d \in DropIds |-> 0]
    /\ rewards = <<>>
    /\ refresher = <<>>
    /\ run = Idle
    /\ report = [r \in Reporters |-> NoReport]
    /\ claim = [k \in Claimers |-> NoClaim]
    /\ faults = 0

\* Bound: something fails MaxFaults times.
Outcome(ok) ==
    IF ok THEN UNCHANGED faults ELSE faults < MaxFaults /\ faults' = faults + 1

-----------------------------------------------------------------------------
(* Time and Twitch.                                                        *)

Tick ==
    /\ clock < MaxClock
    /\ clock' = clock + 1
    /\ UNCHANGED <<plan, watched, granted, snapshot, store, rewards, refresher, run,
                   report, claim, faults>>

\* Watching counts for one counter of a regular campaign of the channel's game.
TwitchCounts(d) ==
    /\ Counter(d) = d /\ watched[d] < MaxWatched(d)
    /\ ~plan[CampaignOf(d)].reward /\ ChannelCounts(plan[CampaignOf(d)], Channel, FALSE)
    /\ DropOf(d).pre \subseteq DOMAIN granted
    /\ InWindow(DropOf(d), clock)
    /\ watched' = [watched EXCEPT ![d] = @ + 1]
    /\ UNCHANGED <<plan, clock, granted, snapshot, store, rewards, refresher, run, report,
                   claim, faults>>

Earned(d) == DropOf(d).pre \subseteq DOMAIN granted /\ watched[Counter(d)] >= DropOf(d).req

-----------------------------------------------------------------------------
(* Minutes that Twitch reports (applyDropProgress): observed in memory, and *)
(* recorded once the lock is released. A report may be old.                *)

Observe(r, d, minutes) ==
    /\ report[r] = NoReport
    /\ minutes <= watched[Counter(d)]
    /\ Known(d)
    /\ LET c == CampaignOf(d)
       IN  /\ CanEarnDrop(snapshot[c], d, clock, Channel, Settings.badges, FALSE)
           /\ snapshot' = [snapshot EXCEPT ![c] = ObserveMinutes(@, d, minutes)]
    /\ report' = [report EXCEPT ![r] = [drop |-> d, minutes |-> minutes]]
    /\ UNCHANGED <<plan, clock, watched, granted, store, rewards, refresher, run,
                   claim, faults>>

\* FileStore.Record: more minutes replace fewer. saved: the file was written.
Record(r, saved) ==
    LET d == report[r].drop
    IN  /\ report[r] # NoReport
        /\ store' = IF saved THEN [store EXCEPT ![d] = Max({@, report[r].minutes})]
                    ELSE store
        /\ report' = [report EXCEPT ![r] = NoReport]
        /\ Outcome(saved)
        /\ UNCHANGED <<plan, clock, watched, granted, snapshot, rewards, refresher, run,
                       claim>>

-----------------------------------------------------------------------------
(* Minutes that are estimated (bumpActiveCampaign). Whether a regular      *)
(* campaign still waits for a push is left open.                           *)

Bumped ==
    LET active == ActiveCampaign(Campaigns, clock, Channel, Settings)
    IN  IF active # {} THEN active
        ELSE PendingRewardCompletion(Campaigns, clock, Channel, Settings)

BumpRegular ==
    /\ \E c \in Bumped :
           /\ ~c.reward
           /\ snapshot' = [snapshot EXCEPT
                 ![c.id] = BumpMinutes(@, clock, Channel, Settings.badges)]
    /\ UNCHANGED <<plan, clock, watched, granted, store, rewards, refresher, run, report,
                   claim, faults>>

\* FileStore.recordProgress.
Remembered(c, minutes, completed) ==
    LET old == IF c \in DOMAIN rewards THEN rewards[c]
               ELSE [minutes |-> 0, completed |-> FALSE]
    IN  [x \in DOMAIN rewards \cup {c} |->
            IF x # c THEN rewards[x]
            ELSE [minutes |-> Max({old.minutes, minutes}),
                  completed |-> old.completed \/ completed]]

\* Mutant of BumpReward: the reward is claimed before that is saved.
BumpRewardFirst(saved) ==
    /\ \E c \in Bumped :
        LET bumped == BumpMinutes(c, clock, Channel, Settings.badges)
            d == CHOOSE x \in DOMAIN c.drops : TRUE
            completes == BumpCompletes(c, clock, Channel, Settings.badges)
        IN  /\ c.reward
            /\ snapshot' = [snapshot EXCEPT ![c.id] =
                  IF completes
                  THEN [bumped EXCEPT !.drops[d] = MarkedClaimed(@)] ELSE bumped]
            /\ rewards' = IF saved
                          THEN Remembered(c.id, CurrentMinutes(bumped.drops[d]), completes)
                          ELSE rewards
            /\ refresher' = IF completes /\ saved THEN rewards' ELSE refresher
    /\ Outcome(saved)
    /\ UNCHANGED <<plan, clock, watched, granted, store, run, report, claim>>

\* A reward that has its minutes is claimed only if that could be saved, and
\* the refresher is told; otherwise the next bump tries again.
BumpReward(saved) ==
    /\ \E c \in Bumped :
        LET bumped == BumpMinutes(c, clock, Channel, Settings.badges)
            d == CHOOSE x \in DOMAIN c.drops : TRUE
            minutes == CurrentMinutes(bumped.drops[d])
            completes == BumpCompletes(c, clock, Channel, Settings.badges)
            written == saved /\ (completes \/ (minutes > 0 /\ ~c.drops[d].claimed))
        IN  /\ c.reward
            /\ snapshot' = [snapshot EXCEPT ![c.id] =
                  IF completes /\ saved
                  THEN [bumped EXCEPT !.drops[d] = MarkedClaimed(@)] ELSE bumped]
            /\ rewards' = IF written THEN Remembered(c.id, minutes, completes)
                          ELSE rewards
            /\ refresher' = IF completes /\ saved THEN rewards' ELSE refresher
    /\ Outcome(saved)
    /\ UNCHANGED <<plan, clock, watched, granted, store, run, report, claim>>

-----------------------------------------------------------------------------
(* A reload (handleInventoryFetch, then the sweep of handleGamesUpdate).   *)

\* What is over is forgotten, and the refresher gets the reward progress and
\* takes the time. saved: the pruned files were written; if not, memory is as
\* before.
ReloadBegin(saved) ==
    LET live == {c \in DOMAIN rewards : clock < plan[c].ends + RewardGrace}
    IN  /\ run.at = "idle"
        /\ rewards' = IF saved THEN Restrict(rewards, live) ELSE rewards
        /\ store' = IF saved
                    THEN [d \in DropIds |-> IF clock < DropOf(d).ends THEN store[d] ELSE 0]
                    ELSE store
        /\ refresher' = rewards'
        /\ run' = [run EXCEPT !.at = "campaigns", !.listed = clock]
        /\ Outcome(saved)
        /\ UNCHANGED <<plan, clock, watched, granted, snapshot, report, claim>>

\* When a benefit was awarded: Twitch tells the last time only (gameEventDrops),
\* and a benefit may come with several drops.
AwardedAt(b) == {granted[d] : d \in {o \in DOMAIN granted : b \in DropOf(o).benefits}}

\* inferClaimedByBenefits: some benefit of the drop was awarded, and each that
\* was, was within the drop's window.
AwardedInWindow(d) ==
    LET awarded == {b \in DropOf(d).benefits : AwardedAt(b) # {}}
    IN  /\ awarded # {}
        /\ \A b \in awarded : InWindow(DropOf(d), Max(AwardedAt(b)))

\* Inventory, Campaigns and CampaignDetails: a drop as Twitch describes it. If
\* the answer has no progress of the user (self), whether it is claimed is told
\* by its benefits.

Parsed(c, d) ==
    LET x == DropOf(d)
        told == c \notin Silent
    IN  Normalised([x EXCEPT
            !.real = IF told THEN Least2(watched[Counter(d)], x.req) ELSE 0,
            !.claimed = IF told THEN d \in DOMAIN granted ELSE AwardedInWindow(d),
            !.claim = told /\ Earned(d)])

ReadCampaigns ==
    /\ run.at = "campaigns"
    /\ run' = [run EXCEPT !.at = "rewards", !.next =
          [c \in Regular |->
             [plan[c] EXCEPT !.valid = clock < plan[c].ends,
                             !.drops = [d \in DOMAIN @ |-> Parsed(c, d)]]]]
    /\ UNCHANGED <<plan, clock, watched, granted, snapshot, store, rewards, refresher,
                   report, claim, faults>>

\* Mutant of Seeded: what was recorded is not looked at.
SeededNot(cs) == cs

\* seedObservedProgress, on the new snapshot that nobody else sees yet: every
\* record is observed, and as minutes only grow each drop ends up with the most
\* that was recorded for itself or for one that shares its counter.
Seeded(cs) ==
    [c \in DOMAIN cs |-> [cs[c] EXCEPT !.drops = [d \in DOMAIN @ |->
        LET sources == {d} \cup {o \in DOMAIN @ : SharesCounter(@[d], @[o])}
        IN  Observed(@[d], Max({store[o] : o \in sources}))]]]

\* fetchRewardCampaigns: completed ones are left out, the others start with
\* the minutes the refresher knows of. The benefits that were awarded are those
\* of drops, and no reward is among them.
ReadRewards ==
    LET known(c) == IF c \in DOMAIN refresher THEN refresher[c]
                    ELSE [minutes |-> 0, completed |-> FALSE]
        open == {c \in Ids \ Regular : run.listed < plan[c].ends /\ ~known(c).completed}
        started(c) == [plan[c] EXCEPT !.drops = [d \in DOMAIN @ |->
            [@[d] EXCEPT !.real = Least2(known(c).minutes, DropOf(d).req)]]]
    IN  /\ run.at = "rewards"
        /\ run' = [run EXCEPT !.at = "install", !.next =
              Seeded([c \in open \cup DOMAIN @ |-> IF c \in open THEN started(c) ELSE @[c]])]
        /\ UNCHANGED <<plan, clock, watched, granted, snapshot, store, rewards, refresher,
                       report, claim, faults>>

ReloadFails ==
    /\ run.at \in {"campaigns", "rewards"}
    /\ run' = Idle
    /\ Outcome(FALSE)
    /\ UNCHANGED <<plan, clock, watched, granted, snapshot, store, rewards, refresher,
                   report, claim>>

\* Mutant of Merged: nothing is kept.
MergedNot(cs) == cs

\* mergeRewardProgressLocked: what rewards got meanwhile is kept.
Merged(cs) ==
    [c \in DOMAIN cs |->
        IF c \in Regular \/ c \notin DOMAIN snapshot \/ clock >= plan[c].ends THEN cs[c]
        ELSE [cs[c] EXCEPT !.drops = [d \in DOMAIN @ |->
            LET old == snapshot[c].drops[d]
            IN  IF clock >= old.ends THEN @[d]
                ELSE IF old.claimed THEN MarkedClaimed(@[d])
                ELSE IF CurrentMinutes(old) > CurrentMinutes(@[d])
                     THEN Observed(@[d], CurrentMinutes(old)) ELSE @[d]]]]

\* goesOn: the topics of the user could be added, and no other state was asked
\* for meanwhile, so that advanceState goes on to the sweep.
Install(goesOn) ==
    /\ run.at = "install"
    /\ snapshot' = Merged(run.next)
    /\ run' = IF goesOn THEN [run EXCEPT !.at = "games", !.next = <<>>] ELSE Idle
    /\ UNCHANGED <<plan, clock, watched, granted, store, rewards, refresher, report,
                   claim, faults>>

\* handleGamesUpdate takes the time, and readyDrops a copy of the snapshot.
SweepBegins ==
    /\ run.at = "games"
    /\ run' = [run EXCEPT !.at = "sweep", !.now = clock, !.queue =
          {d \in DropIds : /\ Known(d)
                           /\ ~UpcomingAt(snapshot[CampaignOf(d)], clock)
                           /\ Claimable(snapshot[CampaignOf(d)], d, clock)}]
    /\ UNCHANGED <<plan, clock, watched, granted, snapshot, store, rewards, refresher,
                   report, claim, faults>>

SweepAsks(d) ==
    /\ run.at = "sweep" /\ claim["sweep"] = NoClaim
    /\ d \in run.queue
    /\ run' = [run EXCEPT !.queue = @ \ {d}]
    /\ claim' = [claim EXCEPT !["sweep"] = [at |-> "ask", drop |-> d]]
    /\ UNCHANGED <<plan, clock, watched, granted, snapshot, store, rewards, refresher,
                   report, faults>>

\* All were asked for, or the time for it is up.
SweepEnds(timedOut) ==
    /\ run.at = "sweep" /\ claim["sweep"] = NoClaim
    /\ run.queue = {} \/ timedOut
    /\ run' = Idle
    /\ Outcome(~timedOut)
    /\ UNCHANGED <<plan, clock, watched, granted, snapshot, store, rewards, refresher,
                   report, claim>>

-----------------------------------------------------------------------------
(* Claims.                                                                 *)

\* processDropClaim: Twitch says that a drop was earned and how to claim it.
EventClaims(d) ==
    /\ claim["event"] = NoClaim
    /\ d \in Announced
    /\ ~plan[CampaignOf(d)].reward /\ Earned(d) /\ Known(d)
    /\ snapshot' = [snapshot EXCEPT ![CampaignOf(d)].drops[d].claim = TRUE]
    /\ claim' = [claim EXCEPT !["event"] = [at |-> "ask", drop |-> d]]
    /\ UNCHANGED <<plan, clock, watched, granted, store, rewards, refresher, run, report,
                   faults>>

\* The request reaches Twitch, which grants the drop or says that it already
\* has.
ClaimServed(k) ==
    /\ claim[k].at = "ask"
    /\ claim' = [claim EXCEPT ![k].at = "answer"]
    /\ granted' = [d \in DOMAIN granted \cup {claim[k].drop} |->
                      IF d \in DOMAIN granted THEN granted[d] ELSE clock]
    /\ UNCHANGED <<plan, clock, watched, snapshot, store, rewards, refresher, run,
                   report, faults>>

\* claimDropRequest and markDropClaimed.
ClaimAnswered(k) ==
    LET d == claim[k].drop
    IN  /\ claim[k].at = "answer"
        /\ claim' = [claim EXCEPT ![k] = NoClaim]
        /\ snapshot' = IF Known(d)
                       THEN [snapshot EXCEPT ![CampaignOf(d)].drops[d] = MarkedClaimed(@)]
                       ELSE snapshot
        /\ UNCHANGED <<plan, clock, watched, granted, store, rewards, refresher, run,
                       report, faults>>

\* Mutant of ClaimFails: any answer counts as success.
ClaimFailsClaimed(k) ==
    LET d == claim[k].drop
    IN  /\ claim[k] # NoClaim
        /\ claim' = [claim EXCEPT ![k] = NoClaim]
        /\ snapshot' = IF Known(d)
                       THEN [snapshot EXCEPT ![CampaignOf(d)].drops[d] = MarkedClaimed(@)]
                       ELSE snapshot
        /\ Outcome(FALSE)
        /\ UNCHANGED <<plan, clock, watched, granted, store, rewards, refresher, run,
                       report>>

\* The request or its answer is lost.
ClaimFails(k) ==
    /\ claim[k] # NoClaim
    /\ claim' = [claim EXCEPT ![k] = NoClaim]
    /\ Outcome(FALSE)
    /\ UNCHANGED <<plan, clock, watched, granted, snapshot, store, rewards, refresher, run,
                   report>>

\* The program ends and starts again: the two files remain.
Crash ==
    /\ snapshot' = <<>>
    /\ refresher' = rewards
    /\ run' = Idle
    /\ report' = [r \in Reporters |-> NoReport]
    /\ claim' = [k \in Claimers |-> NoClaim]
    /\ Outcome(FALSE)
    /\ UNCHANGED <<plan, clock, watched, granted, store, rewards>>

-----------------------------------------------------------------------------
Reload ==
    \/ \E saved \in BOOLEAN : ReloadBegin(saved)
    \/ ReadCampaigns \/ ReadRewards \/ ReloadFails
    \/ \E goesOn \in BOOLEAN : Install(goesOn)
    \/ SweepBegins
    \/ \E d \in DropIds : SweepAsks(d)
    \/ \E timedOut \in BOOLEAN : SweepEnds(timedOut)

Next ==
    \/ Tick
    \/ \E d \in DropIds : TwitchCounts(d) \/ EventClaims(d)
    \/ \E r \in Reporters, d \in DropIds : \E m \in 1..MaxWatched(d) : Observe(r, d, m)
    \/ \E r \in Reporters, saved \in BOOLEAN : Record(r, saved)
    \/ BumpRegular
    \/ \E saved \in BOOLEAN : BumpReward(saved)
    \/ Reload
    \/ \E k \in Claimers : ClaimServed(k) \/ ClaimAnswered(k) \/ ClaimFails(k)
    \/ Crash

\* Nothing is fair: that a reload begins, or goes on to its sweep, the code does
\* not promise. What a property needs of that it says itself.
Spec == Init /\ [][Next]_vars

-----------------------------------------------------------------------------
(* Properties.                                                             *)

Overdue(d) == clock >= plan[CampaignOf(d)].ends + ClaimGrace
Short(d) == Known(d) /\ ~InMemory(d).claimed

\* A drop is never taken for further along than Twitch has it: a regular drop
\* shows no more reported minutes than Twitch counted for it, so that a minute
\* of one counter never ends up in another (ObserveMinutes, sharesCounter).
NeverOverstated ==
    \A d \in DropIds :
        Short(d) /\ CampaignOf(d) \in Regular => InMemory(d).real <= watched[Counter(d)]

\* A drop that may be taken for claimed without being so: Twitch does not tell
\* of its progress, and granted another drop with a benefit of its own while
\* this one could be earned.
Mistakable(d) ==
    /\ CampaignOf(d) \in Silent
    /\ \E o \in DOMAIN granted : /\ DropOf(o).benefits \cap DropOf(d).benefits # {}
                                 /\ InWindow(DropOf(d), granted[o])

\* What is claimed in memory was granted by Twitch, whichever of the sweep and
\* the event asked, and whatever became of the answers (claim.go); the one
\* exception is a drop mistaken for another (inferClaimedByBenefits), and then
\* only within the window and where Twitch is silent.
ClaimedTruly ==
    \A d \in DropIds :
        Known(d) /\ CampaignOf(d) \in Regular /\ InMemory(d).claimed =>
            d \in DOMAIN granted \/ Mistakable(d)

RewardOf(c) == snapshot[c].drops[CHOOSE d \in DOMAIN plan[c].drops : TRUE]

\* As long as a reward campaign lasts it is claimed in memory exactly when its
\* completion is in the file, over failed writes, reloads that were under way,
\* and restarts: it is neither watched again nor forgotten
\* (recordRewardCompletedLocked, mergeRewardProgressLocked).
RewardSaved ==
    \A c \in DOMAIN snapshot \ Regular :
        clock < plan[c].ends =>
            (RewardOf(c).claimed <=> (c \in DOMAIN rewards /\ rewards[c].completed))

\* While a reward campaign lasts, no reload takes a minute from it
\* (mergeRewardProgressLocked).
RewardKept ==
    [][\A c \in (DOMAIN snapshot \cap DOMAIN snapshot') \ Regular :
           clock < plan[c].ends =>
               CurrentMinutes(RewardOf(c)) <= CurrentMinutes(RewardOf(c)')]_vars

\* The sweep is over and handleGamesUpdate is about to compute what is wanted,
\* as any mode would: from what is in memory now, in the order it was listed in
\* when the reload began, and for the time at which the sweep began.
Planning == run.at = "sweep" /\ run.queue = {} /\ claim["sweep"] = NoClaim
Inventory == SortedCampaigns(Campaigns, run.listed, Settings.badges)
Modes == {"PriorityOnly", "EndingSoonest", "LowAvailabilityFirst"}
Orders == SetToSeqs({c.game : c \in Campaigns})
Smart(order) == SmartWanted(Inventory, run.now, Settings, order)
Legacy(mode) == LegacyWanted(Inventory, run.now, [Settings EXCEPT !.mode = mode])
Preferred(game) == Listed(game, Settings.priority)

\* Go hands out the candidates in any order, the result is the same: the
\* comparison leaves no two games equal (smartGameCandidateLess).
OrderIrrelevant == Planning => Cardinality({Smart(order) : order \in Orders}) <= 1

\* A campaign of a listed game that has less spare time than the safety margin.
Tight(c) ==
    /\ CampaignAllowed(c, Settings) /\ Preferred(c.game)
    /\ CanEarnWithin(c, run.now, run.now + Hour, Settings.badges)
    /\ ~CertainlyUnfinishable(c, run.now)
    /\ \E id \in DOMAIN c.drops :
           /\ Pressing(c, id, run.now)
           /\ c.drops[id].ends - run.now - TotalRemainingMinutes(c)[id]
                  < SafetyMinutes(Settings)

\* While any campaign of a listed game is tight no other game comes before a
\* listed one, though another campaign of that same game may have plenty of
\* time (computeSmartWantedGames).
PriorityProtected ==
    Planning /\ (\E c \in Campaigns : Tight(c)) =>
        \A order \in Orders :
            LET wanted == Smart(order)
            IN  \A j \in DOMAIN wanted : \A i \in 1..j :
                    Preferred(wanted[j]) => Preferred(wanted[i])

\* A campaign is left out as unfinishable exactly when none of its drops has
\* as many minutes left in its window and its campaign's as it still needs
\* (campaignCertainlyUnfinishable).
UnfinishableExact ==
    Planning =>
        \A c \in Campaigns :
            LET targets == {c.drops[id] : id \in {x \in DOMAIN c.drops : Target(c.drops[x])}}
                minutes(d) == {t \in run.now..c.ends : InWindow(d, t) /\ InWindow(c, t)}
            IN  CertainlyUnfinishable(c, run.now) <=>
                    /\ targets # {}
                    /\ \A d \in targets : Cardinality(minutes(d)) < RemainingMinutes(d)

\* What can be earned now is wanted, in every mode, so that planning again does
\* not give up what is being watched (CanEarn, CanEarnWithin).
EarnableWanted ==
    Planning =>
        \A c \in Campaigns :
            CanEarn(c, run.now, NoChannel, Settings.badges) =>
                /\ \A mode \in Modes :
                       CampaignAllowed(c, [Settings EXCEPT !.mode = mode])
                           => Contains(Legacy(mode), c.game)
                /\ CampaignAllowed(c, Settings) /\ ~CertainlyUnfinishable(c, run.now)
                       => \A order \in Orders : Contains(Smart(order), c.game)

\* Inventories are installed, and claims swept, time and again.
Reloads == []<><<\E goesOn \in BOOLEAN : Install(goesOn)>>_vars
Sweeps == []<><<SweepBegins>>_vars

\* As long as there are reloads, what was recorded shows in memory sooner or
\* later, though a report may be recorded while a reload that did not see it is
\* under way, and though Twitch tells nothing of the campaign
\* (seedObservedProgress).
RecordedObserved ==
    Reloads =>
        \A d \in AllDrops :
            []<>(d \in DropIds /\ Short(d) =>
                    InMemory(d).real >= Least2(store[d], DropOf(d).req))

\* As long as reloads get to their sweeps, a drop that is earned is claimed, or
\* it stays unclaimed until the time for it is over: lost events, lost answers
\* and sweeps cut short are made up for by a later one (readyDrops, CanClaim).
\* It is the reloads' getting there that the code does not promise.
EarnedIsClaimed ==
    Sweeps =>
        \A d \in AllDrops :
            (d \in DropIds /\ CampaignOf(d) \in Regular \ Silent /\ Earned(d))
                ~> (d \in DOMAIN granted \/ (d \in DropIds /\ Overdue(d)))
=============================================================================
