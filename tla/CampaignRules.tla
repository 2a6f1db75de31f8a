--------------------------- MODULE CampaignRules ---------------------------
(***************************************************************************)
(* The rules of internal/domain: what a campaign's drops need, when they   *)
(* can be earned and claimed, and how minutes are counted.                 *)
(*                                                                         *)
(* A campaign is a record                                                  *)
(*   [id, game, special, linked, badge, valid, reward, starts, ends,       *)
(*    allowed, drops]                                                      *)
(* where badge says that a benefit is a badge or an emote and allowed is   *)
(* the set of its channels ({}: any). drops maps an id to a record         *)
(*   [req, real, extra, claimed, claim, pre, benefits, starts, ends]       *)
(* where claim says whether the drop has a claim id, pre is the set of its *)
(* preconditions and benefits that of its benefits. Times are minutes.     *)
(* A channel is a record [id, game, offers] or NoChannel.                  *)
(***************************************************************************)
EXTENDS Integers, FiniteSets, FiniteSetsExt

CONSTANTS
    MaxExtraMinutes,  \* minutes estimated between two reports
    ClaimGrace,       \* a drop can be claimed so long after its campaign
    NoChannel

ASSUME RulesAssumption == MaxExtraMinutes \in Nat \ {0} /\ ClaimGrace \in Nat

-----------------------------------------------------------------------------
(* Ratios, for availability and progress; Infinite is math.Inf(1).         *)

Ratio(num, den) == [num |-> num, den |-> den]
Infinite == Ratio(1, 0)
Below(p, q) == p.num * q.den < q.num * p.den
Plus(p, q) == Ratio(p.num * q.den + q.num * p.den, p.den * q.den)
Least(ratios) == CHOOSE p \in ratios : \A q \in ratios : ~Below(q, p)

-----------------------------------------------------------------------------
(* One drop.                                                               *)

CurrentMinutes(d) == d.real + d.extra
RemainingMinutes(d) == d.req - CurrentMinutes(d)

\* What a drop needs, and the most that one of its preconditions needs.
WithPreconditions(c, own) ==
    LET total[id \in DOMAIN own] ==
            own[id] + Max({0} \cup {total[p] : p \in c.drops[id].pre})
    IN  total

TotalRequiredMinutes(c) ==
    WithPreconditions(c, [id \in DOMAIN c.drops |-> c.drops[id].req])
TotalRemainingMinutes(c) ==
    WithPreconditions(c, [id \in DOMAIN c.drops |-> RemainingMinutes(c.drops[id])])

\* validatePreconditions: every precondition is a drop of the campaign, and
\* no drop comes, step by step, before itself.
ValidPreconditions(c) ==
    /\ \A id \in DOMAIN c.drops : c.drops[id].pre \subseteq DOMAIN c.drops
    /\ \A ring \in SUBSET DOMAIN c.drops :
           ring # {} => \E id \in ring : c.drops[id].pre \cap ring = {}

Pressing(c, id, now) ==
    LET d == c.drops[id]
    IN  d.req > 0 /\ TotalRemainingMinutes(c)[id] > 0 /\ now < d.ends

DropAvailability(c, id, now) ==
    IF Pressing(c, id, now)
    THEN Ratio(c.drops[id].ends - now, TotalRemainingMinutes(c)[id])
    ELSE Infinite

DropSpareMinutes(c, id, now) ==
    IF Pressing(c, id, now)
    THEN Ratio(c.drops[id].ends - now - TotalRemainingMinutes(c)[id], 1)
    ELSE Infinite

DropProgress(d) ==
    IF CurrentMinutes(d) <= 0 \/ d.req <= 0 THEN Ratio(0, 1)
    ELSE IF CurrentMinutes(d) >= d.req THEN Ratio(1, 1)
    ELSE Ratio(CurrentMinutes(d), d.req)

PreconditionsMet(c, id) == \A p \in c.drops[id].pre : c.drops[p].claimed

\* The drops some drop that is not claimed waits for.
PreconditionsChain(c) ==
    UNION {c.drops[id].pre : id \in {x \in DOMAIN c.drops : ~c.drops[x].claimed}}

\* Mutant of Claimable: nothing is claimed once the campaign is over.
ClaimableActive(c, id, now) ==
    c.drops[id].claim /\ ~c.drops[id].claimed /\ now < c.ends

Claimable(c, id, now) ==
    /\ c.drops[id].claim /\ ~c.drops[id].claimed
    /\ now < c.ends + ClaimGrace

\* BaseDrop.baseEarnConditions.
Worthwhile(c, id) ==
    /\ PreconditionsMet(c, id)
    /\ ~c.drops[id].claimed
    /\ c.drops[id].benefits # {} \/ id \in PreconditionsChain(c)

\* TimedDrop.baseEarnConditions: a regular drop that was estimated for as long
\* as is allowed waits for a report; a reward has no reports to wait for.
EarnConditions(c, id) ==
    LET d == c.drops[id]
    IN  /\ Worthwhile(c, id)
        /\ d.req > 0 /\ CurrentMinutes(d) < d.req
        /\ d.extra < MaxExtraMinutes \/ c.reward

InWindow(d, now) == d.starts <= now /\ now < d.ends
DropEarnableNow(c, id, now) == EarnConditions(c, id) /\ InWindow(c.drops[id], now)

-----------------------------------------------------------------------------
(* One campaign.                                                           *)

ActiveAt(c, now) == c.valid /\ InWindow(c, now)
UpcomingAt(c, now) == c.valid /\ now < c.starts
Eligible(c, badges) == IF c.badge THEN badges ELSE c.linked
Finished(c) ==
    /\ DOMAIN c.drops # {}
    /\ \A id \in DOMAIN c.drops : c.drops[id].claimed \/ c.drops[id].req <= 0

Values(f) == {f[id] : id \in DOMAIN f}
RequiredMinutesOf(c) == Max({0} \cup Values(TotalRequiredMinutes(c)))
RemainingMinutesOf(c) ==
    IF DOMAIN c.drops = {} THEN 0 ELSE Max(Values(TotalRemainingMinutes(c)))

Availability(c, now) ==
    Least({Infinite} \cup {DropAvailability(c, id, now) : id \in DOMAIN c.drops})
MinSpareMinutes(c, now) ==
    Least({Infinite} \cup {DropSpareMinutes(c, id, now) : id \in DOMAIN c.drops})

Progress(c) ==
    LET total == MapThenFoldSet(Plus, Ratio(0, 1),
                                LAMBDA id : DropProgress(c.drops[id]),
                                LAMBDA S : CHOOSE x \in S : TRUE, DOMAIN c.drops)
        n == Cardinality(DOMAIN c.drops)
    IN  IF n = 0 THEN Ratio(0, 1) ELSE Ratio(total.num, total.den * n)

\* Does the channel count for the campaign? A special campaign has no game of
\* its own: Twitch says which channels offer it.
ChannelCounts(c, channel, anyStatus) ==
    \/ channel = NoChannel
    \/ /\ c.allowed = {} \/ channel.id \in c.allowed
       /\ \/ anyStatus
          \/ IF c.special THEN c.reward \/ c.id \in channel.offers
             ELSE channel.game = c.game

BaseCanEarn(c, now, channel, badges, anyStatus) ==
    Eligible(c, badges) /\ ActiveAt(c, now) /\ ChannelCounts(c, channel, anyStatus)

CanEarnDrop(c, id, now, channel, badges, anyStatus) ==
    DropEarnableNow(c, id, now) /\ BaseCanEarn(c, now, channel, badges, anyStatus)

CanEarn(c, now, channel, badges) ==
    /\ BaseCanEarn(c, now, channel, badges, FALSE)
    /\ \E id \in DOMAIN c.drops : DropEarnableNow(c, id, now)

\* Mutant of CanEarnWithin: only what is yet to begin.
CanEarnWithinNew(c, now, stamp, badges) ==
    /\ Eligible(c, badges) /\ c.valid /\ c.starts > now /\ c.starts < stamp
    /\ \E id \in DOMAIN c.drops : EarnConditions(c, id)

CanEarnWithin(c, now, stamp, badges) ==
    /\ Eligible(c, badges) /\ c.valid /\ c.ends > now /\ c.starts < stamp
    /\ \E id \in DOMAIN c.drops :
           /\ EarnConditions(c, id)
           /\ c.drops[id].ends > now /\ c.drops[id].starts < stamp

CanRecordRewardCompletion(c, now, channel, badges) ==
    /\ c.reward /\ BaseCanEarn(c, now, channel, badges, FALSE)
    /\ \E id \in DOMAIN c.drops : LET d == c.drops[id] IN
           ~d.claimed /\ d.req > 0 /\ CurrentMinutes(d) >= d.req

\* FirstEarnableDrop: the one with least to do, the first by id among equals.
\* A set of at most one id.
FirstEarnable(c, now, channel, badges, anyStatus) ==
    LET earnable == {id \in DOMAIN c.drops :
                        CanEarnDrop(c, id, now, channel, badges, anyStatus)}
        least == {id \in earnable : \A o \in earnable :
                     RemainingMinutes(c.drops[id]) <= RemainingMinutes(c.drops[o])}
    IN  {id \in least : \A o \in least : id <= o}

-----------------------------------------------------------------------------
(* Counting minutes.                                                       *)

\* Mutant of SharesCounter: the preconditions do not matter.
SharesWindow(d, other) ==
    d.req > 0 /\ other.req > 0 /\ d.starts = other.starts /\ d.ends = other.ends

\* Twitch keeps one counter for the drops of one window that have no
\* preconditions: they differ in their thresholds only.
SharesCounter(d, other) ==
    /\ d.req > 0 /\ other.req > 0
    /\ d.pre = {} /\ other.pre = {}
    /\ d.starts = other.starts /\ d.ends = other.ends

\* observeMinutes: minutes only grow, and the estimate ends with a report.
Observed(d, minutes) ==
    LET capped == IF minutes > d.req THEN d.req ELSE minutes
    IN  IF d.claimed \/ (capped <= d.real /\ d.extra = 0) THEN d
        ELSE [d EXCEPT !.real = Max({@, capped}), !.extra = 0]

ObserveMinutes(c, source, minutes) ==
    [c EXCEPT !.drops = [id \in DOMAIN @ |->
        IF id = source \/ SharesCounter(@[id], @[source])
        THEN Observed(@[id], minutes) ELSE @[id]]]

MarkedClaimed(d) == [d EXCEPT !.claimed = TRUE, !.real = d.req, !.extra = 0]

\* NewCampaign: a claimed drop has the minutes it required.
Normalised(d) ==
    IF d.claimed THEN [d EXCEPT !.real = Max({@, d.req}), !.extra = 0] ELSE d

OneMore(d) == [d EXCEPT !.extra = @ + 1]

BumpMinutes(c, now, channel, badges) ==
    [c EXCEPT !.drops = [id \in DOMAIN @ |->
        IF CanEarnDrop(c, id, now, channel, badges, FALSE)
        THEN OneMore(@[id]) ELSE @[id]]]

\* What BumpMinutes returns: a drop was estimated for as long as is allowed.
BumpReachesLimit(c, now, channel, badges) ==
    \E id \in DOMAIN c.drops :
        /\ CanEarnDrop(c, id, now, channel, badges, FALSE)
        /\ c.drops[id].extra + 1 >= MaxExtraMinutes

\* BumpRewardMinutes returns TRUE again while a drop that has its minutes is
\* not claimed, so that a completion that was not saved is saved later.
BumpCompletes(c, now, channel, badges) ==
    \E id \in DOMAIN c.drops :
        LET d == c.drops[id]
        IN  /\ d.req > 0 /\ Worthwhile(c, id) /\ InWindow(d, now)
            /\ BaseCanEarn(c, now, channel, badges, FALSE)
            /\ CurrentMinutes(d) + 1 >= d.req
=============================================================================
