------------------------------ MODULE Ranking ------------------------------
(***************************************************************************)
(* Which games are wanted and in which order (scheduler/priority.go,       *)
(* priority_smart.go), and which campaign the minutes on a channel go to.  *)
(*                                                                         *)
(* settings is a record [mode, priority, exclude, badges, safety] where    *)
(* priority is a sequence of games. A game is known by one name here; the  *)
(* code compares ids, and names where an id is missing.                    *)
(***************************************************************************)
EXTENDS CampaignRules, Sequences, SequencesExt

CONSTANTS
    Hour,           \* computeWantedGames looks so far ahead
    DefaultSafety   \* config.DefaultSmartPrioritySafetyMinutes

ASSUME RankingAssumption == {Hour, DefaultSafety} \subseteq Nat \ {0}

\* The members of a finite set in the order of the pairs in before, which is
\* strict and total: each stands behind as many as come before it.
Arranged(S, before) ==
    [k \in 1..Cardinality(S) |->
        CHOOSE x \in S : Cardinality({y \in S : <<y, x>> \in before}) = k - 1]

\* What stands at some places of a sequence.
Picked(s, places) ==
    LET place == Arranged(places, {p \in places \X places : p[1] < p[2]})
    IN  [k \in 1..Cardinality(places) |-> s[place[k]]]

\* The pairs of places of a sequence.
Pairs(s) == (DOMAIN s) \X (DOMAIN s)

\* sort.SliceStable: less has the pairs of places whose elements are in order.
StableSort(s, less) ==
    LET before == {p \in Pairs(s) :
                      p \in less \/ (<<p[2], p[1]>> \notin less /\ p[1] < p[2])}
        place == Arranged(DOMAIN s, before)
    IN  [k \in DOMAIN s |-> s[place[k]]]

\* Its place in the list, or one behind the end: math.MaxInt.
PriorityIndex(game, priority) ==
    Min({Len(priority) + 1} \cup {i \in DOMAIN priority : priority[i] = game})
Listed(game, priority) == PriorityIndex(game, priority) <= Len(priority)

CampaignAllowed(c, settings) ==
    /\ c.game \notin settings.exclude
    /\ settings.mode # "PriorityOnly" \/ Listed(c.game, settings.priority)

-----------------------------------------------------------------------------
(* The campaign that counts on a channel: least to do, first by id. These  *)
(* are sets of at most one campaign.                                       *)

FirstToFinish(campaigns) ==
    LET least == {c \in campaigns : \A o \in campaigns :
                     RemainingMinutesOf(c) <= RemainingMinutesOf(o)}
    IN  {c \in least : \A o \in least : c.id <= o.id}

ActiveCampaign(campaigns, now, channel, settings) ==
    FirstToFinish({c \in campaigns : /\ CampaignAllowed(c, settings)
                                     /\ CanEarn(c, now, channel, settings.badges)})

PendingRewardCompletion(campaigns, now, channel, settings) ==
    FirstToFinish({c \in campaigns :
        /\ CampaignAllowed(c, settings)
        /\ CanRecordRewardCompletion(c, now, channel, settings.badges)})

-----------------------------------------------------------------------------
(* The three plain modes sort the campaigns twice and take their games.    *)

ModeLess(c, o, now, settings) ==
    CASE settings.mode = "EndingSoonest" -> c.ends < o.ends
      [] settings.mode = "LowAvailabilityFirst" ->
             Below(Availability(c, now), Availability(o, now))
      [] OTHER -> FALSE

PriorityLess(c, o, settings) ==
    PriorityIndex(c.game, settings.priority) < PriorityIndex(o.game, settings.priority)

\* The campaigns by the mode and then by the list.
LegacySorted(campaigns, now, settings) ==
    LET byMode == StableSort(campaigns,
            {p \in Pairs(campaigns) :
                ModeLess(campaigns[p[1]], campaigns[p[2]], now, settings)})
    IN  StableSort(byMode,
            {p \in Pairs(byMode) : PriorityLess(byMode[p[1]], byMode[p[2]], settings)})

\* The games of those worth wanting, each where it comes first.
LegacyWanted(campaigns, now, settings) ==
    LET sorted == LegacySorted(campaigns, now, settings)
        worth == {i \in DOMAIN sorted :
                     /\ CampaignAllowed(sorted[i], settings)
                     /\ CanEarnWithin(sorted[i], now, now + Hour, settings.badges)}
        first == {i \in worth : \A j \in worth : j < i => sorted[j].game # sorted[i].game}
    IN  Picked([i \in DOMAIN sorted |-> sorted[i].game], first)

-----------------------------------------------------------------------------
(* The smart mode.                                                         *)

Target(d) == ~d.claimed /\ d.req > 0 /\ d.benefits # {}

\* Mutant of EnoughTime: the last minute does not count.
EnoughTimeStrict(c, d, now) ==
    \/ RemainingMinutes(d) <= 0
    \/ Min({d.ends, c.ends}) - Max({now, d.starts, c.starts}) > RemainingMinutes(d)

\* A drop has too little time left when its window and its campaign's end
\* before its own minutes can be watched. A campaign all of whose target
\* drops are such is left out.
EnoughTime(c, d, now) ==
    \/ RemainingMinutes(d) <= 0
    \/ LET from == Max({now, d.starts, c.starts})
           to == Min({d.ends, c.ends})
       IN  to > from /\ to - from >= RemainingMinutes(d)

CertainlyUnfinishable(c, now) ==
    LET targets == {id \in DOMAIN c.drops : Target(c.drops[id])}
    IN  /\ targets # {}
        /\ \A id \in targets : ~EnoughTime(c, c.drops[id], now)

AvailabilityRisk(value) ==
    IF ~Below(Ratio(2, 1), value) THEN 0
    ELSE IF ~Below(Ratio(4, 1), value) THEN 1 ELSE 2

NextDropMinutes(c, now, badges) ==
    LET first == FirstEarnable(c, now, NoChannel, badges, TRUE)
        targets == {TotalRemainingMinutes(c)[id] :
                       id \in {x \in DOMAIN c.drops : Target(c.drops[x])}}
        minutes == IF first # {} THEN {RemainingMinutes(c.drops[id]) : id \in first}
                   ELSE IF targets # {} THEN targets ELSE {RemainingMinutesOf(c)}
    IN  Max({0, Min(minutes)})

SmartCandidate(c, now, settings) ==
    [game |-> c.game, ends |-> c.ends,
     active |-> ActiveAt(c, now),
     availability |-> Availability(c, now),
     risk |-> AvailabilityRisk(Availability(c, now)),
     next |-> NextDropMinutes(c, now, settings.badges),
     remaining |-> Max({0, RemainingMinutesOf(c)}),
     progress |-> Progress(c),
     spare |-> MinSpareMinutes(c, now),
     index |-> PriorityIndex(c.game, settings.priority)]

\* Mutant of SortKey: games that are equal otherwise are not told apart.
SortKeyNameless(c) ==
    <<Ratio(IF c.active THEN 0 ELSE 1, 1), Ratio(c.risk, 1), c.availability,
      Ratio(c.next, 1), Ratio(c.index, 1), Ratio(c.remaining, 1),
      Ratio(-c.progress.num, c.progress.den), Ratio(c.ends, 1)>>

\* smartGameCandidateLess, field by field: the first one that differs decides.
\* The name comes last; here games are numbers in the order of their names.
SortKey(c) ==
    <<Ratio(IF c.active THEN 0 ELSE 1, 1), Ratio(c.risk, 1), c.availability,
      Ratio(c.next, 1), Ratio(c.index, 1), Ratio(c.remaining, 1),
      Ratio(-c.progress.num, c.progress.den), Ratio(c.ends, 1), Ratio(c.game, 1)>>

CandidateLess(l, r) ==
    LET lk == SortKey(l)
        rk == SortKey(r)
    IN  \E i \in DOMAIN lk :
            /\ Below(lk[i], rk[i])
            /\ \A j \in 1..(i - 1) : ~Below(lk[j], rk[j]) /\ ~Below(rk[j], lk[j])

IsPriority(candidate, settings) == candidate.index <= Len(settings.priority)

\* The candidates of all campaigns that are worth wanting, in their order.
SmartCandidates(campaigns, now, settings) ==
    LET worth == {i \in DOMAIN campaigns :
                     /\ CampaignAllowed(campaigns[i], settings)
                     /\ CanEarnWithin(campaigns[i], now, now + Hour, settings.badges)
                     /\ ~CertainlyUnfinishable(campaigns[i], now)}
        kept == Picked(campaigns, worth)
    IN  [i \in DOMAIN kept |-> SmartCandidate(kept[i], now, settings)]

\* One candidate for each game: the least, the first among equals.
BestByGame(candidates) ==
    [game \in {candidates[i].game : i \in DOMAIN candidates} |->
        LET Better(i, j) == CandidateLess(candidates[i], candidates[j])
            own == {i \in DOMAIN candidates : candidates[i].game = game}
        IN  candidates[Min({i \in own : \A j \in own : ~Better(j, i)})]]

\* The margin for listed games; none is set when it is not positive.
SafetyMinutes(settings) ==
    IF settings.safety <= 0 THEN DefaultSafety ELSE settings.safety

\* Mutant of PriorityBelowSafety: one candidate of each game is looked at.
BestBelowSafety(candidates, settings) ==
    LET best == BestByGame(candidates)
        margin == Ratio(SafetyMinutes(settings), 1)
    IN  \E game \in DOMAIN best :
            IsPriority(best[game], settings) /\ Below(best[game].spare, margin)

\* Some listed game, by any of its campaigns, is about to run out of time.
PriorityBelowSafety(candidates, settings) ==
    \E i \in DOMAIN candidates :
        /\ IsPriority(candidates[i], settings)
        /\ Below(candidates[i].spare, Ratio(SafetyMinutes(settings), 1))

TopTier(candidate, belowSafety, settings) ==
    \/ IsPriority(candidate, settings)
    \/ candidate.active /\ candidate.risk = 0 /\ ~belowSafety

\* smartTieredLess.
TieredLess(l, r, belowSafety, settings) ==
    LET top(c) == TopTier(c, belowSafety, settings)
    IN  IF top(l) # top(r) THEN top(l) ELSE CandidateLess(l, r)

\* order is the order in which Go hands out the map of candidates.
SmartWanted(campaigns, now, settings, order) ==
    LET candidates == SmartCandidates(campaigns, now, settings)
        best == BestByGame(candidates)
        below == PriorityBelowSafety(candidates, settings)
        listed == Picked(order, {i \in DOMAIN order : order[i] \in DOMAIN best})
    IN  StableSort(listed, {p \in Pairs(listed) :
            TieredLess(best[listed[p[1]]], best[listed[p[2]]], below, settings)})

-----------------------------------------------------------------------------
(* The order of the inventory (sortCampaigns): what can be had comes first, *)
(* then by the next moment that matters, what is active, and the id.       *)

SortTime(c, now) == IF UpcomingAt(c, now) THEN c.starts ELSE c.ends

InventoryKey(c, now, badges) ==
    <<IF Eligible(c, badges) THEN 0 ELSE 1, SortTime(c, now),
      IF ActiveAt(c, now) THEN 0 ELSE 1, c.id>>

InventoryLess(c, o, now, badges) ==
    LET ck == InventoryKey(c, now, badges)
        ok == InventoryKey(o, now, badges)
    IN  \E i \in 1..4 : ck[i] < ok[i] /\ \A j \in 1..(i - 1) : ck[j] = ok[j]

SortedCampaigns(campaigns, now, badges) ==
    Arranged(campaigns,
             {p \in campaigns \X campaigns : InventoryLess(p[1], p[2], now, badges)})
=============================================================================
