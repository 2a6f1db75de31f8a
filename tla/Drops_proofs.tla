---------------------------- MODULE Drops_proofs ----------------------------
(***************************************************************************)
(* Proofs about Drops, for any campaigns, drops and minutes, any number of *)
(* reporters, failures and restarts: types, that nothing is overstated or  *)
(* taken for claimed that is not, that a reward's completion is in its     *)
(* file exactly when memory says so, that the campaigns left out as        *)
(* unfinishable are those that are; and of the wanted games that their     *)
(* order is one however Go walks its map, that a listed game short of time *)
(* comes first, and that what can be earned is wanted.                     *)
(***************************************************************************)
EXTENDS Drops, FiniteSetTheorems, FunctionTheorems, WellFoundedInduction, TLAPS

-----------------------------------------------------------------------------
(* Largest and smallest.                                                   *)

\* Proved over the strict subsets, which are well founded.
LEMMA HasExtremes ==
    ASSUME NEW S \in SUBSET Int, IsFiniteSet(S), S # {}
    PROVE  /\ \E m \in S : \A y \in S : m >= y
           /\ \E m \in S : \A y \in S : m <= y
<1> DEFINE Good(T) == /\ \E m \in T : \A y \in T : m >= y
                      /\ \E m \in T : \A y \in T : m <= y
           Bad == {T \in FiniteSubsetsOf(S) : T # {} /\ ~Good(T)}
<1>1. SUFFICES ASSUME Bad # {} PROVE FALSE
  <2>1. S \in FiniteSubsetsOf(S)
    BY DEF FiniteSubsetsOf
  <2> QED
    BY <1>1, <2>1
<1>2. IsWellFoundedOn(StrictSubsetOrdering(S), FiniteSubsetsOf(S))
  BY FS_StrictSubsetOrderingWellFounded
<1>3. PICK T \in Bad : \A U \in Bad : <<U, T>> \notin StrictSubsetOrdering(S)
  <2>1. Bad \subseteq FiniteSubsetsOf(S)
    OBVIOUS
  <2> HIDE DEF Bad
  <2> QED
    BY <1>1, <1>2, <2>1, WFMin
<1>4. T \subseteq S /\ IsFiniteSet(T) /\ T # {} /\ ~Good(T)
  BY <1>3 DEF FiniteSubsetsOf
<1>5. PICK x \in T : TRUE
  BY <1>4
<1> DEFINE U == T \ {x}
<1>6. U \subseteq S /\ IsFiniteSet(U) /\ U # T /\ U \subseteq T
  BY <1>4, <1>5, FS_RemoveElement
<1>7. U = {} \/ Good(U)
  <2>1. <<U, T>> \in StrictSubsetOrdering(S)
    BY <1>4, <1>6 DEF StrictSubsetOrdering
  <2>2. U \in FiniteSubsetsOf(S)
    BY <1>6 DEF FiniteSubsetsOf
  <2> HIDE DEF U, Good
  <2> QED
    BY <1>3, <2>1, <2>2
<1>8. CASE U = {}
  <2>1. T = {x} /\ x \in Int
    BY <1>4, <1>5, <1>8
  <2> QED
    BY <1>4, <2>1
<1>9. CASE Good(U)
  <2>1. PICK m \in U : \A y \in U : m >= y
    BY <1>9
  <2>2. PICK n \in U : \A y \in U : n <= y
    BY <1>9
  <2>3. m \in Int /\ n \in Int /\ x \in Int /\ m \in T /\ n \in T
    BY <1>4, <1>5
  <2>4. T = U \cup {x} /\ \A y \in T : y \in Int
    BY <1>4, <1>5
  <2>5. \E k \in T : \A y \in T : k >= y
    <3>1. CASE m >= x
      BY <2>1, <2>3, <2>4, <3>1
    <3>2. CASE x > m
      BY <1>5, <2>1, <2>3, <2>4, <3>2
    <3> QED
      BY <2>3, <3>1, <3>2
  <2>6. \E k \in T : \A y \in T : k <= y
    <3>1. CASE n <= x
      BY <2>2, <2>3, <2>4, <3>1
    <3>2. CASE x < n
      BY <1>5, <2>2, <2>3, <2>4, <3>2
    <3> QED
      BY <2>3, <3>1, <3>2
  <2> QED
    BY <1>4, <2>5, <2>6
<1> QED
  BY <1>7, <1>8, <1>9

LEMMA Extremes ==
    ASSUME NEW S \in SUBSET Int, IsFiniteSet(S), S # {}
    PROVE  /\ Max(S) \in S /\ \A y \in S : Max(S) >= y
           /\ Min(S) \in S /\ \A y \in S : Min(S) <= y
<1>1. Max(S) \in S /\ \A y \in S : Max(S) >= y
  BY HasExtremes DEF Max
<1>2. Min(S) \in S /\ \A y \in S : Min(S) <= y
  BY HasExtremes DEF Min
<1> QED
  BY <1>1, <1>2

LEMMA MaxOfTwo ==
    ASSUME NEW a \in Int, NEW b \in Int
    PROVE  Max({a, b}) = IF a > b THEN a ELSE b
<1>1. IsFiniteSet({a, b}) /\ {a, b} \in SUBSET Int /\ {a, b} # {}
  <2>1. IsFiniteSet({a} \cup {b})
    BY FS_Singleton, FS_Union
  <2>2. {a} \cup {b} = {a, b}
    OBVIOUS
  <2> QED
    BY <2>1, <2>2
<1>2. Max({a, b}) \in {a, b} /\ \A y \in {a, b} : Max({a, b}) >= y
  BY <1>1, Extremes
<1> QED
  BY <1>2

\* The largest value of a function on a finite set of arguments.
LEMMA MaxOfValues ==
    ASSUME NEW D, IsFiniteSet(D), D # {}, NEW f \in [D -> Nat]
    PROVE  /\ \E d \in D : Max({f[e] : e \in D}) = f[d]
           /\ \A d \in D : f[d] <= Max({f[e] : e \in D})
<1> DEFINE S == {f[e] : e \in D}
<1>1. f \in Surjection(D, S)
  BY DEF Surjection
<1>2. IsFiniteSet(S)
  BY <1>1, FS_Surjection
<1>3. S \in SUBSET Int /\ S # {}
  OBVIOUS
<1>4. Max(S) \in S /\ \A y \in S : Max(S) >= y
  BY <1>2, <1>3, Extremes
<1> QED
  BY <1>4

-----------------------------------------------------------------------------
(* What Twitch lists.                                                      *)

\* The counter of each drop.
Credit == [d \in DropIds |-> watched[Counter(d)]]

LEMMA PlanFacts ==
    ASSUME plan \in Plans
    PROVE  /\ \A c \in Ids : plan[c].id = c /\ AsListed(plan[c])
           /\ \A c \in Ids : \A d \in DOMAIN plan[c].drops :
                d \in DropIds /\ CampaignOf(d) = c /\ DropOf(d) = plan[c].drops[d]
           /\ \A d \in DropIds : CampaignOf(d) \in Ids
                                 /\ d \in DOMAIN plan[CampaignOf(d)].drops
<1>1. /\ \A c \in Ids : plan[c].id = c /\ AsListed(plan[c])
      /\ \A c, o \in Ids : c # o => DOMAIN plan[c].drops \cap DOMAIN plan[o].drops = {}
  BY DropsAssumption DEF Ids
<1>2. \A d \in DropIds : \E c \in Ids : d \in DOMAIN plan[c].drops
  BY DEF DropIds
<1>3. \A d \in DropIds : CampaignOf(d) \in Ids /\ d \in DOMAIN plan[CampaignOf(d)].drops
  BY <1>2 DEF CampaignOf
<1>4. \A c \in Ids : \A d \in DOMAIN plan[c].drops : d \in DropIds
  BY DEF DropIds
<1>5. \A c \in Ids : \A d \in DOMAIN plan[c].drops : CampaignOf(d) = c
  BY <1>1, <1>3, <1>4
<1> QED
  BY <1>1, <1>3, <1>4, <1>5 DEF DropOf

\* Drops on one counter: it is the counter of one of them, and Twitch counts it
\* up to the same number for all of them.
LEMMA CounterFacts ==
    ASSUME plan \in Plans, NEW c \in Ids, NEW d \in DOMAIN plan[c].drops
    PROVE  /\ Counter(d) \in DOMAIN plan[c].drops /\ Counter(d) \in DropIds
           /\ Counter(Counter(d)) = Counter(d)
           /\ MaxWatched(d) \in Nat /\ MaxWatched(Counter(d)) = MaxWatched(d)
           /\ plan[c].drops[d].req <= MaxWatched(d)
           /\ \A o \in DOMAIN plan[c].drops :
                LET x == plan[c].drops[d]
                    y == plan[c].drops[o]
                IN  x.pre = {} /\ y.pre = {} /\ x.starts = y.starts /\ x.ends = y.ends
                      => Counter(o) = Counter(d)
<1>1. /\ AsListed(plan[c])
      /\ \A o \in DOMAIN plan[c].drops :
           o \in DropIds /\ CampaignOf(o) = c /\ DropOf(o) = plan[c].drops[o]
  BY PlanFacts
<1>2. \A e \in DOMAIN plan[c].drops :
         Together(e) = {e} \cup {o \in DOMAIN plan[c].drops :
                                   /\ plan[c].drops[o].pre = {} /\ plan[c].drops[e].pre = {}
                                   /\ plan[c].drops[o].starts = plan[c].drops[e].starts
                                   /\ plan[c].drops[o].ends = plan[c].drops[e].ends}
  BY <1>1 DEF Together
<1>3. \A e, o \in DOMAIN plan[c].drops : o \in Together(e) => Together(o) = Together(e)
  <2> SUFFICES ASSUME NEW e \in DOMAIN plan[c].drops, NEW o \in DOMAIN plan[c].drops,
                      o \in Together(e), o # e
               PROVE  Together(o) = Together(e)
    OBVIOUS
  <2>1. /\ plan[c].drops[o].pre = {} /\ plan[c].drops[e].pre = {}
        /\ plan[c].drops[o].starts = plan[c].drops[e].starts
        /\ plan[c].drops[o].ends = plan[c].drops[e].ends
    BY <1>2
  <2>2. ASSUME NEW u PROVE u \in Together(o) <=> u \in Together(e)
    BY <1>2, <2>1
  <2> QED
    BY <2>2
<1>4. /\ Together(d) \subseteq DOMAIN plan[c].drops /\ Together(d) # {} /\ d \in Together(d)
      /\ IsFiniteSet(Together(d)) /\ Together(d) \in SUBSET Int
  <2>1. Together(d) \subseteq DOMAIN plan[c].drops /\ d \in Together(d)
    BY <1>2
  <2>2. IsFiniteSet(DOMAIN plan[c].drops) /\ DOMAIN plan[c].drops \subseteq Int
    BY <1>1 DEF AsListed
  <2> QED
    BY <2>1, <2>2, FS_Subset
<1>5. Counter(d) \in Together(d)
  BY <1>4, Extremes DEF Counter
<1>6. Together(Counter(d)) = Together(d)
  BY <1>3, <1>4, <1>5
<1>7. Counter(Counter(d)) = Counter(d) /\ MaxWatched(Counter(d)) = MaxWatched(d)
  BY <1>6 DEF Counter, MaxWatched
<1>8. MaxWatched(d) \in Nat /\ plan[c].drops[d].req <= MaxWatched(d)
  <2> DEFINE f == [o \in Together(d) |-> DropOf(o).req]
  <2>1. f \in [Together(d) -> Nat]
    BY <1>1, <1>4 DEF AsListed
  <2>2. MaxWatched(d) = Max({f[o] : o \in Together(d)})
    BY DEF MaxWatched
  <2>3. f[d] = plan[c].drops[d].req
    BY <1>1, <1>4
  <2> HIDE DEF f
  <2> QED
    BY <1>4, <2>1, <2>2, <2>3, MaxOfValues
<1>9. ASSUME NEW o \in DOMAIN plan[c].drops,
             plan[c].drops[d].pre = {}, plan[c].drops[o].pre = {},
             plan[c].drops[d].starts = plan[c].drops[o].starts,
             plan[c].drops[d].ends = plan[c].drops[o].ends
      PROVE  Counter(o) = Counter(d)
  <2>1. o \in Together(d)
    BY <1>2, <1>9
  <2>2. Together(o) = Together(d)
    BY <1>3, <2>1
  <2> QED
    BY <2>2 DEF Counter
<1> QED
  BY <1>1, <1>4, <1>5, <1>7, <1>8, <1>9

-----------------------------------------------------------------------------
(* One drop in memory.                                                     *)

\* x is the drop that Twitch lists as y, of a reward or not; w minutes were
\* counted for it, and g says that it was granted.
Fits(x, y, reward, w, g) ==
    /\ DOMAIN x = DropFields
    /\ x.req = y.req /\ x.pre = y.pre /\ x.starts = y.starts /\ x.ends = y.ends
    /\ x.claimed \in BOOLEAN /\ x.real \in Nat /\ x.extra \in Nat
    /\ x.real + x.extra <= x.req
    /\ ~reward => /\ x.extra <= MaxExtraMinutes
                  /\ x.claimed => g
                  /\ ~x.claimed => x.real <= w
    /\ reward => x.claim = FALSE

LEMMA FitsMore ==
    ASSUME NEW x, NEW y, NEW reward, NEW w \in Nat, NEW v \in Nat, NEW g, NEW h,
           Fits(x, y, reward, w, g), w <= v, g => h
    PROVE  Fits(x, y, reward, v, h)
BY DEF Fits

LEMMA ObservedFits ==
    ASSUME NEW x, NEW y, NEW reward, NEW w \in Nat, NEW g, NEW m \in Nat,
           Fits(x, y, reward, w, g), y.req \in Nat, m <= w
    PROVE  LET o == Observed(x, m)
           IN  /\ Fits(o, y, reward, w, g) /\ o.claimed = x.claimed
               /\ ~x.claimed /\ m <= y.req => m <= CurrentMinutes(o)
<1> DEFINE capped == IF m > x.req THEN x.req ELSE m
<1>1. capped \in Nat /\ capped <= m /\ capped <= x.req /\ x.req = y.req
      /\ (m <= y.req => capped = m)
  BY DEF Fits
<1>2. CASE x.claimed \/ (capped <= x.real /\ x.extra = 0)
  <2>1. Observed(x, m) = x
    BY <1>2 DEF Observed
  <2> HIDE DEF capped
  <2> QED
    BY <1>1, <1>2, <2>1 DEF Fits, CurrentMinutes
<1>3. CASE ~(x.claimed \/ (capped <= x.real /\ x.extra = 0))
  <2>1. Observed(x, m) = [x EXCEPT !.real = Max({x.real, capped}), !.extra = 0]
    BY <1>3 DEF Observed
  <2>2. Max({x.real, capped}) = IF x.real > capped THEN x.real ELSE capped
    BY <1>1, MaxOfTwo DEF Fits
  <2> HIDE DEF capped
  <2>3. DOMAIN x = DropFields
    BY DEF Fits
  <2>4. /\ DOMAIN Observed(x, m) = DropFields
        /\ Observed(x, m).real = Max({x.real, capped})
        /\ Observed(x, m).extra = 0
        /\ Observed(x, m).req = x.req /\ Observed(x, m).claimed = x.claimed
        /\ Observed(x, m).claim = x.claim /\ Observed(x, m).pre = x.pre
        /\ Observed(x, m).starts = x.starts /\ Observed(x, m).ends = x.ends
    BY <2>1, <2>3 DEF DropFields
  <2>5. ~x.claimed /\ x.real \in Nat /\ x.extra \in Nat /\ x.req \in Nat
        /\ x.real + x.extra <= x.req
    BY <1>1, <1>3 DEF Fits
  <2> DEFINE o == Observed(x, m)
  <2> HIDE DEF o
  <2>6. /\ o.real \in Nat /\ o.extra = 0 /\ o.real <= x.req
        /\ capped <= o.real /\ (x.real <= w => o.real <= w)
    BY <1>1, <2>2, <2>4, <2>5 DEF o
  <2>7. Fits(o, y, reward, w, g)
    BY <2>4, <2>5, <2>6, RulesAssumption DEF o, Fits
  <2> QED
    BY <1>1, <2>4, <2>5, <2>6, <2>7 DEF o, CurrentMinutes
<1> QED
  BY <1>2, <1>3

LEMMA MarkedFits ==
    ASSUME NEW x, NEW y, NEW reward, NEW w \in Nat, NEW g,
           Fits(x, y, reward, w, g), y.req \in Nat, reward \/ g
    PROVE  LET o == MarkedClaimed(x)
           IN  Fits(o, y, reward, w, g) /\ o.claimed = TRUE /\ CurrentMinutes(o) = y.req
<1>1. DOMAIN x = DropFields
  BY DEF Fits
<1>2. /\ DOMAIN MarkedClaimed(x) = DropFields
      /\ MarkedClaimed(x).real = x.req /\ MarkedClaimed(x).extra = 0
      /\ MarkedClaimed(x).claimed = TRUE
      /\ MarkedClaimed(x).req = x.req /\ MarkedClaimed(x).claim = x.claim
      /\ MarkedClaimed(x).pre = x.pre
      /\ MarkedClaimed(x).starts = x.starts /\ MarkedClaimed(x).ends = x.ends
  BY <1>1 DEF DropFields, MarkedClaimed
<1> DEFINE o == MarkedClaimed(x)
<1> HIDE DEF o
<1>3. x.req \in Nat /\ o.real = x.req /\ o.extra = 0 /\ o.claimed = TRUE
  BY <1>2 DEF Fits, o
<1>4. Fits(o, y, reward, w, g)
  <2>1. /\ DOMAIN o = DropFields /\ o.req = y.req /\ o.pre = y.pre
        /\ o.starts = y.starts /\ o.ends = y.ends
    BY <1>2 DEF Fits, o
  <2>4. o.claimed \in BOOLEAN
    BY <1>3
  <2>5. o.req = x.req
    BY <1>2 DEF o
  <2>6. o.real \in Nat /\ o.extra \in Nat /\ o.real + o.extra <= o.req
    BY <1>3, <2>5
  <2>2. ~reward => o.extra <= MaxExtraMinutes /\ g
    BY <1>3, RulesAssumption
  <2>3. reward => o.claim = FALSE
    BY <1>2 DEF Fits, o
  <2> QED
    BY <1>3, <2>1, <2>2, <2>3, <2>4, <2>6 DEF Fits
<1> QED
  BY <1>3, <1>4 DEF CurrentMinutes, o, Fits

LEMMA BumpedFits ==
    ASSUME NEW x, NEW y, NEW reward, NEW w \in Nat, NEW g,
           Fits(x, y, reward, w, g), y.req \in Nat,
           CurrentMinutes(x) < x.req, x.extra < MaxExtraMinutes \/ reward
    PROVE  LET o == OneMore(x)
           IN  /\ Fits(o, y, reward, w, g) /\ o.claimed = x.claimed
               /\ CurrentMinutes(o) = CurrentMinutes(x) + 1
<1>1. DOMAIN x = DropFields
  BY DEF Fits
<1> DEFINE o == OneMore(x)
<1>2. /\ DOMAIN o = DropFields /\ o.extra = x.extra + 1
      /\ \A f \in DropFields \ {"extra"} : o[f] = x[f]
  BY <1>1 DEF DropFields, OneMore
<1> HIDE DEF o
<1>3. Fits(o, y, reward, w, g) /\ o.claimed = x.claimed
      /\ CurrentMinutes(o) = CurrentMinutes(x) + 1
  BY <1>2, RulesAssumption DEF Fits, CurrentMinutes, DropFields
<1> QED
  BY <1>3 DEF o

LEMMA ClaimIdFits ==
    ASSUME NEW x, NEW y, NEW w \in Nat, NEW g, Fits(x, y, FALSE, w, g)
    PROVE  Fits([x EXCEPT !.claim = TRUE], y, FALSE, w, g)
<1>1. DOMAIN x = DropFields
  BY DEF Fits
<1> DEFINE o == [x EXCEPT !.claim = TRUE]
<1>2. DOMAIN o = DropFields /\ \A f \in DropFields \ {"claim"} : o[f] = x[f]
  BY <1>1 DEF DropFields
<1> HIDE DEF o
<1>3. Fits(o, y, FALSE, w, g)
  BY <1>2 DEF Fits, DropFields
<1> QED
  BY <1>3 DEF o

-----------------------------------------------------------------------------
(* One campaign in memory.                                                 *)

\* c is the campaign that Twitch lists as y; w are the minutes counted for its
\* drops, and g is what was granted.
FitsCampaign(c, y, w, g) ==
    /\ DOMAIN c = CampaignFields /\ c.id = y.id /\ c.game = y.game /\ c.reward = y.reward
    /\ c.starts = y.starts /\ c.ends = y.ends
    /\ DOMAIN c.drops = DOMAIN y.drops
    /\ \A d \in DOMAIN y.drops :
           Fits(c.drops[d], y.drops[d], y.reward, w[d], d \in g)

LEMMA CampaignGrows ==
    ASSUME NEW c, NEW y, NEW D, NEW w \in [D -> Nat], NEW v \in [D -> Nat], NEW g, NEW h,
           DOMAIN y.drops \subseteq D, FitsCampaign(c, y, w, g),
           \A d \in D : w[d] <= v[d], g \subseteq h
    PROVE  FitsCampaign(c, y, v, h)
<1>1. ASSUME NEW d \in DOMAIN y.drops
      PROVE  Fits(c.drops[d], y.drops[d], y.reward, v[d], d \in h)
  <2>1. w[d] \in Nat /\ v[d] \in Nat /\ w[d] <= v[d] /\ (d \in g => d \in h)
    OBVIOUS
  <2>2. Fits(c.drops[d], y.drops[d], y.reward, w[d], d \in g)
    BY DEF FitsCampaign
  <2> QED
    BY <2>1, <2>2, FitsMore
<1> QED
  BY <1>1 DEF FitsCampaign

LEMMA DropsReplaced ==
    ASSUME NEW c, NEW y, NEW w, NEW g, NEW f, FitsCampaign(c, y, w, g),
           DOMAIN f = DOMAIN y.drops,
           \A d \in DOMAIN y.drops : Fits(f[d], y.drops[d], y.reward, w[d], d \in g)
    PROVE  /\ FitsCampaign([c EXCEPT !.drops = f], y, w, g)
           /\ [c EXCEPT !.drops = f].drops = f
<1> DEFINE o == [c EXCEPT !.drops = f]
<1>1. DOMAIN c = CampaignFields
  BY DEF FitsCampaign
<1>2. /\ DOMAIN o = CampaignFields /\ o.drops = f /\ o.id = c.id /\ o.game = c.game
      /\ o.reward = c.reward /\ o.starts = c.starts /\ o.ends = c.ends
  BY <1>1 DEF CampaignFields
<1> HIDE DEF o
<1>3. FitsCampaign(o, y, w, g)
  BY <1>2 DEF FitsCampaign
<1> QED
  BY <1>2, <1>3 DEF o

\* One drop of a campaign is replaced.
LEMMA DropReplaced ==
    ASSUME NEW c, NEW y, NEW w, NEW g, NEW x, NEW o, NEW d \in DOMAIN y.drops,
           FitsCampaign(c, y, w, g), Fits(x, y.drops[d], y.reward, w[d], d \in g),
           DOMAIN o = DOMAIN c, o.id = c.id, o.game = c.game, o.reward = c.reward,
           o.starts = c.starts, o.ends = c.ends,
           DOMAIN o.drops = DOMAIN c.drops, o.drops[d] = x,
           \A e \in DOMAIN y.drops \ {d} : o.drops[e] = c.drops[e]
    PROVE  FitsCampaign(o, y, w, g)
BY DEF FitsCampaign

LEMMA CampaignObserved ==
    ASSUME NEW c, NEW y, NEW D, NEW w \in [D -> Nat], NEW g, AsListed(y),
           DOMAIN y.drops \subseteq D, FitsCampaign(c, y, w, g),
           NEW s \in DOMAIN y.drops, NEW m \in Nat, m <= w[s],
           \A d \in DOMAIN y.drops :
               LET a == y.drops[d]
                   b == y.drops[s]
               IN  a.pre = {} /\ b.pre = {} /\ a.starts = b.starts /\ a.ends = b.ends
                     => w[d] = w[s]
    PROVE  FitsCampaign(ObserveMinutes(c, s, m), y, w, g)
<1> DEFINE f == [d \in DOMAIN c.drops |->
                   IF d = s \/ SharesCounter(c.drops[d], c.drops[s])
                   THEN Observed(c.drops[d], m) ELSE c.drops[d]]
<1>1. ObserveMinutes(c, s, m) = [c EXCEPT !.drops = f]
  BY DEF ObserveMinutes
<1>2. DOMAIN c.drops = DOMAIN y.drops
      /\ \A d \in DOMAIN y.drops :
            Fits(c.drops[d], y.drops[d], y.reward, w[d], d \in g)
  BY DEF FitsCampaign
<1>3. ASSUME NEW d \in DOMAIN y.drops
      PROVE  Fits(f[d], y.drops[d], y.reward, w[d], d \in g)
  <2>1. y.drops[d].req \in Nat /\ w[d] \in Nat
    BY DEF AsListed
  <2>2. CASE d = s \/ SharesCounter(c.drops[d], c.drops[s])
    <3>1. m <= w[d]
      <4>1. CASE d = s
        BY <4>1
      <4>2. CASE SharesCounter(c.drops[d], c.drops[s])
        <5>1. /\ y.drops[d].pre = {} /\ y.drops[s].pre = {}
              /\ y.drops[d].starts = y.drops[s].starts
              /\ y.drops[d].ends = y.drops[s].ends
          BY <1>2, <4>2 DEF SharesCounter, Fits
        <5> QED
          BY <5>1
      <4> QED
        BY <2>2, <4>1, <4>2
    <3>2. Fits(Observed(c.drops[d], m), y.drops[d], y.reward, w[d], d \in g)
      BY <1>2, <2>1, <3>1, ObservedFits
    <3> QED
      BY <1>2, <2>2, <3>2
  <2>3. CASE ~(d = s \/ SharesCounter(c.drops[d], c.drops[s]))
    BY <1>2, <2>3
  <2> QED
    BY <2>2, <2>3
<1>4. DOMAIN f = DOMAIN y.drops
  BY <1>2
<1> HIDE DEF f
<1> QED
  BY <1>1, <1>3, <1>4, DropsReplaced

\* Bumping estimates a minute more of what can be earned, and no more than that.
LEMMA CampaignBumped ==
    ASSUME NEW c, NEW y, NEW D, NEW w \in [D -> Nat], NEW g, AsListed(y),
           DOMAIN y.drops \subseteq D, FitsCampaign(c, y, w, g),
           NEW now, NEW channel, NEW badges
    PROVE  LET o == BumpMinutes(c, now, channel, badges)
           IN  /\ FitsCampaign(o, y, w, g)
               /\ \A d \in DOMAIN y.drops :
                    /\ o.drops[d].claimed = c.drops[d].claimed
                    /\ CurrentMinutes(c.drops[d]) <= CurrentMinutes(o.drops[d])
<1> DEFINE f == [d \in DOMAIN c.drops |->
                   IF CanEarnDrop(c, d, now, channel, badges, FALSE)
                   THEN OneMore(c.drops[d]) ELSE c.drops[d]]
<1>1. BumpMinutes(c, now, channel, badges) = [c EXCEPT !.drops = f]
  BY DEF BumpMinutes
<1>2. DOMAIN c.drops = DOMAIN y.drops /\ c.reward = y.reward
      /\ \A d \in DOMAIN y.drops :
            Fits(c.drops[d], y.drops[d], y.reward, w[d], d \in g)
  BY DEF FitsCampaign
<1>3. ASSUME NEW d \in DOMAIN y.drops
      PROVE  /\ Fits(f[d], y.drops[d], y.reward, w[d], d \in g)
             /\ f[d].claimed = c.drops[d].claimed
             /\ CurrentMinutes(c.drops[d]) <= CurrentMinutes(f[d])
  <2>1. y.drops[d].req \in Nat /\ w[d] \in Nat
    BY DEF AsListed
  <2>2. CurrentMinutes(c.drops[d]) \in Nat
    BY <1>2 DEF Fits, CurrentMinutes
  <2>3. CASE CanEarnDrop(c, d, now, channel, badges, FALSE)
    <3>1. /\ CurrentMinutes(c.drops[d]) < c.drops[d].req
          /\ c.drops[d].extra < MaxExtraMinutes \/ y.reward
      BY <1>2, <2>3 DEF CanEarnDrop, DropEarnableNow, EarnConditions
    <3> DEFINE x == OneMore(c.drops[d])
    <3>2. /\ Fits(x, y.drops[d], y.reward, w[d], d \in g)
          /\ x.claimed = c.drops[d].claimed
          /\ CurrentMinutes(x) = CurrentMinutes(c.drops[d]) + 1
      BY <1>2, <2>1, <3>1, BumpedFits
    <3>3. f[d] = x
      BY <1>2, <2>3
    <3> HIDE DEF x, f
    <3> QED
      BY <2>2, <3>2, <3>3
  <2>4. CASE ~CanEarnDrop(c, d, now, channel, badges, FALSE)
    <3>1. f[d] = c.drops[d]
      BY <1>2, <2>4
    <3> HIDE DEF f
    <3> QED
      BY <1>2, <2>2, <3>1
  <2> QED
    BY <2>3, <2>4
<1>4. DOMAIN f = DOMAIN y.drops
  BY <1>2
<1> HIDE DEF f
<1>5. FitsCampaign([c EXCEPT !.drops = f], y, w, g) /\ [c EXCEPT !.drops = f].drops = f
  BY <1>3, <1>4, DropsReplaced
<1> QED
  BY <1>1, <1>3, <1>5

-----------------------------------------------------------------------------
(* The inventory in memory.                                                *)

\* What memory has of the campaigns of plan p.
Whole(cs, p, w, g) ==
    /\ DOMAIN cs \subseteq DOMAIN p
    /\ \A c \in DOMAIN cs : FitsCampaign(cs[c], p[c], w, g)

LEMMA WholeGrows ==
    ASSUME NEW cs, NEW p, NEW D, NEW w \in [D -> Nat], NEW v \in [D -> Nat], NEW g, NEW h,
           \A c \in DOMAIN p : DOMAIN p[c].drops \subseteq D, Whole(cs, p, w, g),
           \A d \in D : w[d] <= v[d], g \subseteq h
    PROVE  Whole(cs, p, v, h)
<1>1. ASSUME NEW c \in DOMAIN cs
      PROVE  FitsCampaign(cs[c], p[c], v, h)
  <2>1. c \in DOMAIN p /\ FitsCampaign(cs[c], p[c], w, g)
    BY DEF Whole
  <2> QED
    BY <2>1, CampaignGrows
<1> QED
  BY <1>1 DEF Whole

LEMMA WholeReplaced ==
    ASSUME NEW cs, NEW p, NEW w, NEW g, NEW x, Whole(cs, p, w, g), NEW c \in DOMAIN cs,
           FitsCampaign(x, p[c], w, g)
    PROVE  /\ Whole([cs EXCEPT ![c] = x], p, w, g)
           /\ DOMAIN [cs EXCEPT ![c] = x] = DOMAIN cs
           /\ [cs EXCEPT ![c] = x][c] = x
           /\ \A e \in DOMAIN cs \ {c} : [cs EXCEPT ![c] = x][e] = cs[e]
<1> DEFINE o == [cs EXCEPT ![c] = x]
<1>1. DOMAIN o = DOMAIN cs /\ o[c] = x /\ \A e \in DOMAIN cs \ {c} : o[e] = cs[e]
  OBVIOUS
<1> HIDE DEF o
<1>2. Whole(o, p, w, g)
  BY <1>1 DEF Whole
<1> QED
  BY <1>1, <1>2 DEF o

-----------------------------------------------------------------------------
(* The inductive invariant.                                                *)

Rewards == Ids \ Regular
RegularDrops == {d \in DropIds : CampaignOf(d) \in Regular}

\* Twitch: nothing is counted for a reward.
Served ==
    /\ plan \in Plans /\ clock \in 0..MaxClock
    /\ watched \in [DropIds -> Nat]
    /\ \A d \in DropIds : /\ watched[d] <= MaxWatched(d)
                          /\ d \notin RegularDrops => watched[d] = 0
    /\ DOMAIN granted \subseteq DropIds
    /\ \A d \in DOMAIN granted : granted[d] \in 0..MaxClock

\* Drops that were granted, or that a silent campaign may have taken for that.
Taken == {d \in DropIds : d \in DOMAIN granted \/ Mistakable(d)}

\* Memory, and the inventory that a reload is about to install.
Truthful ==
    /\ Whole(snapshot, plan, Credit, Taken)
    /\ Whole(run.next, plan, Credit, Taken)

\* Minutes that were recorded, or are on their way to be, were counted for
\* that drop, for its counter only grows.
Counted ==
    /\ store \in [DropIds -> Nat]
    /\ \A d \in DropIds : store[d] <= Credit[d]
    /\ report \in [Reporters -> {NoReport} \cup [drop : DropIds, minutes : Nat]]
    /\ \A r \in Reporters : report[r] # NoReport => report[r].minutes <= Credit[report[r].drop]

RewardFile(f) ==
    /\ DOMAIN f \subseteq Rewards
    /\ \A c \in DOMAIN f : f[c] \in [minutes : Nat, completed : BOOLEAN]

RunFields == {"at", "next", "queue", "listed", "now"}

\* Claims are of regular drops, and one whose answer is on its way was granted.
Claims ==
    /\ claim \in [Claimers -> {NoClaim} \cup [at : {"ask", "answer"}, drop : RegularDrops]]
    /\ \A k \in Claimers : claim[k].at = "answer" => claim[k].drop \in DOMAIN granted
    /\ DOMAIN run = RunFields /\ run.listed \in Nat /\ run.now \in Nat
    /\ run.queue \subseteq RegularDrops
    /\ run.at = "idle" => run = Idle

Done(f, c) == c \in DOMAIN f /\ f[c].completed
IsClaimed(cs, c) == \E d \in DOMAIN plan[c].drops : cs[c].drops[d].claimed

\* While a reward campaign lasts, the file, the refresher and memory agree on
\* whether it is complete. A reload under way has it incomplete, and may be
\* wrong only on what memory will tell it when it is installed.
Agreed ==
    \A c \in Rewards :
        clock < plan[c].ends =>
            /\ Done(refresher, c) <=> Done(rewards, c)
            /\ c \in DOMAIN snapshot => (IsClaimed(snapshot, c) <=> Done(rewards, c))
            /\ c \in DOMAIN run.next =>
                   /\ ~IsClaimed(run.next, c)
                   /\ c \notin DOMAIN snapshot => ~Done(rewards, c)

IInv == Served /\ Truthful /\ Counted /\ RewardFile(rewards) /\ RewardFile(refresher)
        /\ Claims /\ Agreed

LEMMA SamePlan ==
    ASSUME plan' = plan
    PROVE  /\ Ids' = Ids /\ Regular' = Regular /\ Rewards' = Rewards /\ DropIds' = DropIds
           /\ RegularDrops' = RegularDrops
           /\ \A d : CampaignOf(d)' = CampaignOf(d) /\ DropOf(d)' = DropOf(d)
           /\ \A d : Counter(d)' = Counter(d) /\ MaxWatched(d)' = MaxWatched(d)
           /\ watched' = watched => Credit' = Credit
<1>1. Ids' = Ids
  BY DEF Ids
<1>2. Regular' = Regular /\ DropIds' = DropIds
  BY <1>1 DEF Regular, DropIds
<1>3. ASSUME NEW d
      PROVE  CampaignOf(d)' = CampaignOf(d) /\ DropOf(d)' = DropOf(d)
  BY <1>1 DEF CampaignOf, DropOf
<1>4. ASSUME NEW d
      PROVE  Together(d)' = Together(d)
  BY <1>3 DEF Together
<1>5. ASSUME NEW d
      PROVE  Counter(d)' = Counter(d) /\ MaxWatched(d)' = MaxWatched(d)
  BY <1>3, <1>4 DEF Counter, MaxWatched
<1>6. Rewards' = Rewards /\ RegularDrops' = RegularDrops
  BY <1>1, <1>2, <1>3 DEF Rewards, RegularDrops
<1>7. watched' = watched => Credit' = Credit
  BY <1>2, <1>5 DEF Credit
<1> QED
  BY <1>1, <1>2, <1>3, <1>5, <1>6, <1>7

LEMMA SameTaken ==
    ASSUME UNCHANGED <<plan, granted>>
    PROVE  Taken' = Taken
<1>1. DropIds' = DropIds
      /\ \A d : CampaignOf(d)' = CampaignOf(d) /\ DropOf(d)' = DropOf(d)
  BY SamePlan
<1>2. \A d : Mistakable(d)' <=> Mistakable(d)
  BY <1>1 DEF Mistakable
<1> QED
  BY <1>1, <1>2 DEF Taken

LEMMA CreditFacts ==
    ASSUME Served
    PROVE  /\ Credit \in [DropIds -> Nat]
           /\ \A c \in Ids : DOMAIN plan[c].drops \subseteq DropIds
           /\ \A d \in DropIds : /\ Credit[d] <= MaxWatched(d) /\ MaxWatched(d) \in Nat
                                 /\ Counter(d) \in DropIds
                                 /\ Credit[d] = watched[Counter(d)]
                                 /\ d \notin RegularDrops => Credit[d] = 0
           /\ \A c \in Ids : \A d, s \in DOMAIN plan[c].drops :
                LET x == plan[c].drops[d]
                    y == plan[c].drops[s]
                IN  x.pre = {} /\ y.pre = {} /\ x.starts = y.starts /\ x.ends = y.ends
                      => Credit[d] = Credit[s]
<1>1. plan \in Plans /\ watched \in [DropIds -> Nat]
  BY DEF Served
<1>2. \A d \in DropIds : /\ CampaignOf(d) \in Ids /\ d \in DOMAIN plan[CampaignOf(d)].drops
                         /\ \A o \in DOMAIN plan[CampaignOf(d)].drops :
                               CampaignOf(o) = CampaignOf(d)
  BY <1>1, PlanFacts
<1>3. ASSUME NEW d \in DropIds
      PROVE  /\ Counter(d) \in DropIds /\ CampaignOf(Counter(d)) = CampaignOf(d)
             /\ MaxWatched(d) \in Nat /\ MaxWatched(Counter(d)) = MaxWatched(d)
  BY <1>1, <1>2, CounterFacts
<1>4. Credit \in [DropIds -> Nat]
  BY <1>1, <1>3 DEF Credit
<1>5. ASSUME NEW d \in DropIds
      PROVE  /\ Credit[d] <= MaxWatched(d) /\ Credit[d] = watched[Counter(d)]
             /\ d \notin RegularDrops => Credit[d] = 0
  BY <1>3 DEF Credit, Served, RegularDrops
<1>6. ASSUME NEW c \in Ids, NEW d \in DOMAIN plan[c].drops, NEW s \in DOMAIN plan[c].drops,
             plan[c].drops[d].pre = {}, plan[c].drops[s].pre = {},
             plan[c].drops[d].starts = plan[c].drops[s].starts,
             plan[c].drops[d].ends = plan[c].drops[s].ends
      PROVE  Credit[d] = Credit[s]
  <2>1. Counter(d) = Counter(s)
    BY <1>1, <1>6, CounterFacts
  <2>2. d \in DropIds /\ s \in DropIds
    BY <1>1, PlanFacts
  <2> QED
    BY <2>1, <2>2 DEF Credit
<1>7. \A c \in Ids : DOMAIN plan[c].drops \subseteq DropIds
  BY <1>1, PlanFacts
<1> QED
  BY <1>3, <1>4, <1>5, <1>6, <1>7

-----------------------------------------------------------------------------
(* What a step leaves alone.                                               *)

LEMMA ServedKept ==
    ASSUME Served, UNCHANGED <<plan, clock, watched, granted>>
    PROVE  Served'
<1>1. DropIds' = DropIds /\ RegularDrops' = RegularDrops
      /\ \A d : MaxWatched(d)' = MaxWatched(d)
  BY SamePlan
<1> QED
  BY <1>1 DEF Served

LEMMA TruthfulKept ==
    ASSUME Truthful, UNCHANGED <<plan, watched, granted>>,
           \/ snapshot' = snapshot
           \/ Whole(snapshot', plan, Credit, Taken),
           \/ run'.next = run.next
           \/ Whole(run'.next, plan, Credit, Taken)
    PROVE  Truthful'
<1>1. Credit' = Credit /\ Taken' = Taken
  BY SamePlan, SameTaken
<1> QED
  BY <1>1 DEF Truthful

LEMMA CountedKept ==
    ASSUME Counted, UNCHANGED <<plan, watched, store, report>>
    PROVE  Counted'
<1>1. Credit' = Credit /\ DropIds' = DropIds
  BY SamePlan
<1> QED
  BY <1>1 DEF Counted

LEMMA FilesKept ==
    ASSUME RewardFile(rewards), RewardFile(refresher), UNCHANGED <<plan, rewards, refresher>>
    PROVE  RewardFile(rewards)' /\ RewardFile(refresher)'
<1>1. Rewards' = Rewards
  BY SamePlan
<1> QED
  BY <1>1 DEF RewardFile

LEMMA ClaimsKept ==
    ASSUME Claims, UNCHANGED <<plan, run, claim, granted>>
    PROVE  Claims'
<1>1. RegularDrops' = RegularDrops
  BY SamePlan
<1> QED
  BY <1>1 DEF Claims

\* Memory may change what it has of regular campaigns, and a reload may put
\* together more of those.
LEMMA AgreedKept ==
    ASSUME Agreed, UNCHANGED <<plan, clock, rewards, refresher>>,
           DOMAIN snapshot' = DOMAIN snapshot,
           \A c \in Rewards \cap DOMAIN snapshot : snapshot'[c] = snapshot[c],
           \/ run'.next = run.next
           \/ DOMAIN run'.next \subseteq Regular
    PROVE  Agreed'
<1>1. Rewards' = Rewards /\ Rewards \cap Regular = {}
  BY SamePlan DEF Rewards
<1> QED
  BY <1>1 DEF Agreed, Done, IsClaimed

-----------------------------------------------------------------------------
(* Steps.                                                                  *)

LEMMA InitIInv ==
    ASSUME Init
    PROVE  IInv
<1>1. plan \in Plans /\ 0 \in Nat
  BY DEF Init
<1>2. /\ watched \in [DropIds -> Nat] /\ store \in [DropIds -> Nat]
      /\ \A d \in DropIds : watched[d] = 0 /\ store[d] = 0
  BY DEF Init
<1>3. Served
  <2>1. \A d \in DropIds : MaxWatched(d) \in Nat
    BY <1>1, PlanFacts, CounterFacts
  <2>2. clock \in 0..MaxClock
    BY DropsAssumption DEF Init
  <2>3. DOMAIN granted = {}
    BY DEF Init
  <2> QED
    BY <1>1, <1>2, <2>1, <2>2, <2>3 DEF Served
<1>4. DOMAIN snapshot = {} /\ run = Idle /\ run.next = <<>> /\ DOMAIN run.next = {}
      /\ run.queue = {} /\ DOMAIN run = RunFields /\ run.listed = 0 /\ run.now = 0
  BY DEF Init, Idle, RunFields
<1>5. Truthful
  BY <1>4 DEF Truthful, Whole
<1>6. Counted
  BY <1>2, <1>3, CreditFacts DEF Counted, Init
<1>7. RewardFile(rewards) /\ RewardFile(refresher) /\ DOMAIN rewards = {}
      /\ DOMAIN refresher = {}
  BY DEF RewardFile, Init
<1>8. Claims
  BY <1>4 DEF Claims, Init, NoClaim
<1>9. Agreed
  BY <1>4, <1>7 DEF Agreed, Done
<1> QED
  BY <1>3, <1>5, <1>6, <1>7, <1>8, <1>9 DEF IInv

LEMMA TickStep ==
    ASSUME IInv, Tick
    PROVE  IInv'
<1>1. UNCHANGED <<plan, watched, granted, snapshot, store, rewards, refresher, run, report,
                  claim>>
  BY DEF Tick
<1>2. clock \in Nat /\ clock' = clock + 1 /\ clock' \in 0..MaxClock /\ clock <= clock'
  BY DropsAssumption DEF Tick, IInv, Served
<1>3. Served'
  BY <1>1, <1>2, SamePlan DEF IInv, Served
<1>4. Agreed'
  <2>1. \A c \in Rewards : plan[c].ends \in Int
    BY PlanFacts DEF Rewards, AsListed, IInv, Served
  <2>2. \A c \in Rewards : clock' < plan[c].ends => clock < plan[c].ends
    BY <1>2, <2>1
  <2>3. Rewards' = Rewards
    BY <1>1, SamePlan
  <2> QED
    BY <1>1, <2>2, <2>3 DEF IInv, Agreed, Done, IsClaimed
<1>5. Truthful' /\ Counted' /\ RewardFile(rewards)' /\ RewardFile(refresher)' /\ Claims'
  BY <1>1, TruthfulKept, CountedKept, FilesKept, ClaimsKept DEF IInv
<1> QED
  BY <1>3, <1>4, <1>5 DEF IInv

LEMMA CountsStep ==
    ASSUME IInv, NEW d \in DropIds, TwitchCounts(d)
    PROVE  IInv'
<1>1. UNCHANGED <<plan, clock, granted, snapshot, store, rewards, refresher, run, report,
                  claim>>
  BY DEF TwitchCounts
<1>2. /\ watched \in [DropIds -> Nat] /\ watched[d] < MaxWatched(d) /\ MaxWatched(d) \in Nat
      /\ watched' = [watched EXCEPT ![d] = @ + 1]
      /\ ~plan[CampaignOf(d)].reward
  BY CreditFacts DEF TwitchCounts, IInv, Served
<1>3. d \in RegularDrops
  BY <1>2, PlanFacts DEF RegularDrops, Regular, IInv, Served
<1>4. /\ DropIds' = DropIds /\ RegularDrops' = RegularDrops
      /\ \A e : MaxWatched(e)' = MaxWatched(e) /\ Counter(e)' = Counter(e)
  BY <1>1, SamePlan
<1>5. /\ watched' \in [DropIds -> Nat] /\ watched'[d] = watched[d] + 1
      /\ \A e \in DropIds \ {d} : watched'[e] = watched[e]
  BY <1>2
<1>6. \A e \in DropIds : watched[e] <= watched'[e]
  BY <1>2, <1>5
<1>7. Served'
  <2>1. \A e \in DropIds : /\ watched'[e] <= MaxWatched(e)
                           /\ e \notin RegularDrops => watched'[e] = 0
    BY <1>2, <1>3, <1>5 DEF IInv, Served
  <2> QED
    BY <1>1, <1>4, <1>5, <2>1 DEF IInv, Served
<1>8. /\ Credit \in [DropIds -> Nat] /\ Credit' \in [DropIds -> Nat]
      /\ \A e \in DropIds : Credit[e] <= Credit'[e]
  <2>1. \A e \in DropIds : Counter(e) \in DropIds
    BY CreditFacts DEF IInv
  <2>2. Credit' = [e \in DropIds |-> watched'[Counter(e)]]
    BY <1>4 DEF Credit
  <2> QED
    BY <1>2, <1>5, <1>6, <2>1, <2>2 DEF Credit
<1>9. Truthful'
  <2>1. \A c \in DOMAIN plan : DOMAIN plan[c].drops \subseteq DropIds
    BY CreditFacts DEF IInv, Ids
  <2>2. Whole(snapshot, plan, Credit, Taken)
        /\ Whole(run.next, plan, Credit, Taken)
    BY DEF IInv, Truthful
  <2>3. Whole(snapshot, plan, Credit', Taken)
        /\ Whole(run.next, plan, Credit', Taken)
    BY <1>8, <2>1, <2>2, WholeGrows
  <2> QED
    BY <1>1, <2>3, SameTaken DEF Truthful
<1>10. Counted'
  <2>1. \A e \in DropIds : store[e] \in Nat /\ store[e] <= Credit'[e]
    BY <1>8 DEF IInv, Counted
  <2>2. ASSUME NEW r \in Reporters, report[r] # NoReport
        PROVE  report[r].minutes <= Credit'[report[r].drop]
    <3>1. report[r] \in [drop : DropIds, minutes : Nat]
          /\ report[r].minutes <= Credit[report[r].drop]
      BY <2>2 DEF IInv, Counted
    <3>2. report[r].drop \in DropIds /\ report[r].minutes \in Nat
      BY <3>1
    <3> QED
      BY <1>8, <3>1, <3>2
  <2> QED
    BY <1>1, <1>4, <2>1, <2>2 DEF IInv, Counted
<1>11. RewardFile(rewards)' /\ RewardFile(refresher)' /\ Claims'
  BY <1>1, FilesKept, ClaimsKept DEF IInv
<1>12. Agreed'
  BY <1>1, AgreedKept DEF IInv
<1> QED
  BY <1>7, <1>9, <1>10, <1>11, <1>12 DEF IInv

\* Minutes are reported of regular drops only.
LEMMA CountedRegular ==
    ASSUME IInv, NEW d \in DropIds, NEW m \in 1..MaxWatched(d), m <= watched[Counter(d)]
    PROVE  /\ Credit \in [DropIds -> Nat] /\ m \in Nat /\ m <= Credit[d]
           /\ d \in RegularDrops
<1>1. /\ Credit \in [DropIds -> Nat] /\ Credit[d] = watched[Counter(d)]
      /\ (d \notin RegularDrops => Credit[d] = 0) /\ MaxWatched(d) \in Nat
  BY CreditFacts DEF IInv
<1> QED
  BY <1>1

LEMMA ObserveStep ==
    ASSUME IInv, NEW r \in Reporters, NEW d \in DropIds, NEW m \in 1..MaxWatched(d),
           Observe(r, d, m)
    PROVE  IInv'
<1> DEFINE c == CampaignOf(d)
           x == ObserveMinutes(snapshot[c], d, m)
<1>1. /\ UNCHANGED <<plan, clock, watched, granted, store, rewards, refresher, run, claim>>
      /\ m <= watched[Counter(d)] /\ c \in DOMAIN snapshot
      /\ snapshot' = [snapshot EXCEPT ![c] = x]
      /\ report' = [report EXCEPT ![r] = [drop |-> d, minutes |-> m]]
  BY DEF Observe, Known
<1>2. Credit \in [DropIds -> Nat] /\ m \in Nat /\ m <= Credit[d] /\ d \in RegularDrops
  BY <1>1, CountedRegular
<1>3. m \in Nat /\ m <= Credit[d]
  BY <1>2
<1>4. c \in Regular /\ c \notin Rewards
  BY <1>2 DEF RegularDrops, Rewards
<1>5. /\ c \in Ids /\ AsListed(plan[c]) /\ d \in DOMAIN plan[c].drops
      /\ DOMAIN plan[c].drops \subseteq DropIds
      /\ \A o \in DOMAIN plan[c].drops :
            LET a == plan[c].drops[o]
                b == plan[c].drops[d]
            IN  a.pre = {} /\ b.pre = {} /\ a.starts = b.starts /\ a.ends = b.ends
                  => Credit[o] = Credit[d]
  <2>1. c \in Ids /\ AsListed(plan[c]) /\ d \in DOMAIN plan[c].drops
    BY PlanFacts DEF IInv, Served
  <2>2. DOMAIN plan[c].drops \subseteq DropIds
    BY <2>1, CreditFacts DEF IInv
  <2>3. \A o \in DOMAIN plan[c].drops :
            LET a == plan[c].drops[o]
                b == plan[c].drops[d]
            IN  a.pre = {} /\ b.pre = {} /\ a.starts = b.starts /\ a.ends = b.ends
                  => Credit[o] = Credit[d]
    <3> HIDE DEF c
    <3> QED
      BY <2>1, CreditFacts DEF IInv
  <2> QED
    BY <2>1, <2>2, <2>3
<1>6. Whole(snapshot, plan, Credit, Taken)
  BY DEF IInv, Truthful
<1> HIDE DEF c
<1>7. FitsCampaign(x, plan[c], Credit, Taken)
  <2>1. FitsCampaign(snapshot[c], plan[c], Credit, Taken)
    BY <1>1, <1>6 DEF Whole
  <2> QED
    BY <1>2, <1>3, <1>5, <2>1, CampaignObserved
<1> HIDE DEF x
<1>8. /\ Whole(snapshot', plan, Credit, Taken)
      /\ DOMAIN snapshot' = DOMAIN snapshot
      /\ \A e \in DOMAIN snapshot \ {c} : snapshot'[e] = snapshot[e]
  BY <1>1, <1>6, <1>7, WholeReplaced
<1>9. Truthful'
  BY <1>1, <1>8, TruthfulKept DEF IInv
<1>10. Counted'
  <2>1. Credit' = Credit /\ DropIds' = DropIds
    BY <1>1, SamePlan
  <2>2. /\ report'[r] = [drop |-> d, minutes |-> m]
        /\ [drop |-> d, minutes |-> m].minutes <= Credit[[drop |-> d, minutes |-> m].drop]
        /\ \A e \in Reporters \ {r} : report'[e] = report[e]
    BY <1>1, <1>3 DEF IInv, Counted
  <2>3. report' \in [Reporters -> {NoReport} \cup [drop : DropIds, minutes : Nat]]
    <3>1. [drop |-> d, minutes |-> m] \in [drop : DropIds, minutes : Nat]
      BY <1>3
    <3> QED
      BY <1>1, <3>1 DEF IInv, Counted
  <2> QED
    BY <1>1, <2>1, <2>2, <2>3 DEF IInv, Counted
<1>11. Agreed'
  BY <1>1, <1>4, <1>8, AgreedKept DEF IInv
<1>12. Served' /\ RewardFile(rewards)' /\ RewardFile(refresher)' /\ Claims'
  BY <1>1, ServedKept, FilesKept, ClaimsKept DEF IInv
<1> QED
  BY <1>9, <1>10, <1>11, <1>12 DEF IInv

LEMMA RecordStep ==
    ASSUME IInv, NEW r \in Reporters, NEW saved \in BOOLEAN, Record(r, saved)
    PROVE  IInv'
<1> DEFINE d == report[r].drop
           m == report[r].minutes
<1>1. /\ UNCHANGED <<plan, clock, watched, granted, snapshot, rewards, refresher, run, claim>>
      /\ report[r] # NoReport /\ report' = [report EXCEPT ![r] = NoReport]
      /\ store' = IF saved THEN [store EXCEPT ![d] = Max({@, m})] ELSE store
  BY DEF Record
<1>2. d \in DropIds /\ m \in Nat /\ m <= Credit[d]
  <2>1. report[r] \in [drop : DropIds, minutes : Nat] /\ m <= Credit[d]
    BY <1>1 DEF IInv, Counted
  <2> QED
    BY <2>1
<1> HIDE DEF d, m
<1>3. /\ store \in [DropIds -> Nat] /\ \A e \in DropIds : store[e] <= Credit[e]
      /\ Max({store[d], m}) \in Nat /\ Max({store[d], m}) <= Credit[d]
  <2>1. store \in [DropIds -> Nat] /\ \A e \in DropIds : store[e] <= Credit[e]
    BY DEF IInv, Counted
  <2>2. Max({store[d], m}) = IF store[d] > m THEN store[d] ELSE m
    BY <1>2, <2>1, MaxOfTwo
  <2> QED
    BY <1>2, <2>1, <2>2
<1>4. store' \in [DropIds -> Nat] /\ \A e \in DropIds : store'[e] <= Credit[e]
  BY <1>1, <1>2, <1>3
<1>5. Counted'
  <2>1. Credit' = Credit /\ DropIds' = DropIds
    BY <1>1, SamePlan
  <2>2. /\ report'[r] = NoReport
        /\ \A e \in Reporters \ {r} : report'[e] = report[e]
        /\ report' \in [Reporters -> {NoReport} \cup [drop : DropIds, minutes : Nat]]
    BY <1>1 DEF IInv, Counted
  <2> QED
    BY <1>4, <2>1, <2>2 DEF IInv, Counted
<1>6. Served' /\ Truthful' /\ RewardFile(rewards)' /\ RewardFile(refresher)' /\ Claims'
      /\ Agreed'
  BY <1>1, ServedKept, TruthfulKept, FilesKept, ClaimsKept, AgreedKept DEF IInv
<1> QED
  BY <1>5, <1>6 DEF IInv

LEMMA BumpedFacts ==
    ASSUME IInv, NEW c \in Bumped
    PROVE  /\ c.id \in DOMAIN snapshot /\ c.id \in Ids /\ c = snapshot[c.id]
           /\ c.reward = plan[c.id].reward /\ AsListed(plan[c.id])
           /\ FitsCampaign(c, plan[c.id], Credit, Taken)
           /\ c.reward => c.id \in Rewards
           /\ ~c.reward => c.id \in Regular /\ c.id \notin Rewards
<1>1. c \in Campaigns
  BY DEF Bumped, ActiveCampaign, PendingRewardCompletion, FirstToFinish
<1>2. PICK k \in DOMAIN snapshot : c = snapshot[k]
  BY <1>1 DEF Campaigns
<1>3. k \in Ids /\ FitsCampaign(c, plan[k], Credit, Taken)
  BY <1>2 DEF IInv, Truthful, Whole, Ids
<1>4. plan[k].id = k /\ AsListed(plan[k])
  BY <1>3, PlanFacts DEF IInv, Served
<1>5. c.id = k /\ c.reward = plan[k].reward /\ plan[k].reward \in BOOLEAN
  BY <1>3, <1>4 DEF FitsCampaign, AsListed
<1> QED
  BY <1>2, <1>3, <1>4, <1>5 DEF Regular, Rewards

LEMMA BumpRegularStep ==
    ASSUME IInv, BumpRegular
    PROVE  IInv'
<1>1. UNCHANGED <<plan, clock, watched, granted, store, rewards, refresher, run, report,
                  claim>>
  BY DEF BumpRegular
<1>2. PICK c \in Bumped :
         /\ ~c.reward
         /\ snapshot' = [snapshot EXCEPT
               ![c.id] = BumpMinutes(snapshot[c.id], clock, Channel, Settings.badges)]
  BY DEF BumpRegular
<1> DEFINE k == c.id
           x == BumpMinutes(snapshot[k], clock, Channel, Settings.badges)
<1>3. /\ k \in DOMAIN snapshot /\ k \in Ids /\ AsListed(plan[k]) /\ k \notin Rewards
      /\ FitsCampaign(snapshot[k], plan[k], Credit, Taken)
  BY <1>2, BumpedFacts
<1>4. snapshot' = [snapshot EXCEPT ![k] = x]
  BY <1>2
<1> HIDE DEF k
<1>5. FitsCampaign(x, plan[k], Credit, Taken)
  <2>1. Credit \in [DropIds -> Nat] /\ DOMAIN plan[k].drops \subseteq DropIds
    BY <1>3, CreditFacts DEF IInv
  <2> QED
    BY <1>3, <2>1, CampaignBumped
<1> HIDE DEF x
<1>6. /\ Whole(snapshot', plan, Credit, Taken)
      /\ DOMAIN snapshot' = DOMAIN snapshot
      /\ \A e \in DOMAIN snapshot \ {k} : snapshot'[e] = snapshot[e]
  BY <1>3, <1>4, <1>5, WholeReplaced DEF IInv, Truthful
<1>7. Truthful' /\ Agreed'
  BY <1>1, <1>3, <1>6, TruthfulKept, AgreedKept DEF IInv
<1>8. Served' /\ Counted' /\ RewardFile(rewards)' /\ RewardFile(refresher)' /\ Claims'
  BY <1>1, ServedKept, CountedKept, FilesKept, ClaimsKept DEF IInv
<1> QED
  BY <1>7, <1>8 DEF IInv

TheDrop(c) == CHOOSE d \in DOMAIN c.drops : TRUE
WithClaimed(c, d) == [c EXCEPT !.drops[d] = MarkedClaimed(@)]

LEMMA OneDrop ==
    ASSUME NEW y, AsListed(y), y.reward
    PROVE  DOMAIN y.drops = {TheDrop(y)}
<1>1. IsFiniteSet(DOMAIN y.drops) /\ Cardinality(DOMAIN y.drops) = 1
  BY DEF AsListed
<1>2. PICK d : DOMAIN y.drops = {d}
  BY <1>1, FS_Singleton
<1> QED
  BY <1>2 DEF TheDrop

\* A bumped reward has no fewer minutes, and marking it claimed neither.
LEMMA RewardBumped ==
    ASSUME NEW c, NEW y, NEW D, NEW w \in [D -> Nat], NEW g, AsListed(y), y.reward,
           DOMAIN y.drops \subseteq D, FitsCampaign(c, y, w, g),
           NEW now, NEW channel, NEW badges
    PROVE  LET b == BumpMinutes(c, now, channel, badges)
               d == TheDrop(c)
               o == WithClaimed(b, d)
           IN  /\ DOMAIN y.drops = {d} /\ d \in DOMAIN y.drops
               /\ FitsCampaign(b, y, w, g) /\ FitsCampaign(o, y, w, g)
               /\ b.drops[d].claimed = c.drops[d].claimed /\ o.drops[d].claimed = TRUE
               /\ CurrentMinutes(b.drops[d]) \in Nat
               /\ CurrentMinutes(c.drops[d]) <= CurrentMinutes(b.drops[d])
               /\ CurrentMinutes(c.drops[d]) <= CurrentMinutes(o.drops[d])
<1> DEFINE b == BumpMinutes(c, now, channel, badges)
           d == TheDrop(c)
           x == MarkedClaimed(b.drops[d])
           o == WithClaimed(b, d)
<1>1. DOMAIN y.drops = {d} /\ d \in DOMAIN y.drops
  BY OneDrop DEF FitsCampaign, TheDrop
<1> HIDE DEF d, b
<1>2. /\ FitsCampaign(b, y, w, g)
      /\ b.drops[d].claimed = c.drops[d].claimed
      /\ CurrentMinutes(c.drops[d]) <= CurrentMinutes(b.drops[d])
  BY <1>1, CampaignBumped DEF b
<1>3. /\ Fits(b.drops[d], y.drops[d], y.reward, w[d], d \in g)
      /\ Fits(c.drops[d], y.drops[d], y.reward, w[d], d \in g)
      /\ y.drops[d].req \in Nat /\ w[d] \in Nat
  BY <1>1, <1>2 DEF FitsCampaign, AsListed
<1>4. /\ CurrentMinutes(b.drops[d]) \in Nat
      /\ CurrentMinutes(c.drops[d]) \in Nat /\ CurrentMinutes(c.drops[d]) <= y.drops[d].req
  BY <1>3 DEF Fits, CurrentMinutes
<1>5. /\ Fits(x, y.drops[d], y.reward, w[d], d \in g)
      /\ x.claimed = TRUE /\ CurrentMinutes(x) = y.drops[d].req
  BY <1>3, MarkedFits
<1> HIDE DEF x, o
<1>6. FitsCampaign(o, y, w, g) /\ o.drops[d] = x
  <2>1. /\ DOMAIN o = DOMAIN b /\ o.id = b.id /\ o.game = b.game /\ o.reward = b.reward
        /\ o.starts = b.starts /\ o.ends = b.ends
        /\ DOMAIN o.drops = DOMAIN b.drops /\ o.drops[d] = x
        /\ \A e \in DOMAIN y.drops \ {d} : o.drops[e] = b.drops[e]
    BY <1>1, <1>2 DEF o, x, WithClaimed, FitsCampaign, CampaignFields
  <2> QED
    BY <1>1, <1>2, <1>5, <2>1, DropReplaced
<1>7. /\ DOMAIN y.drops = {d} /\ d \in DOMAIN y.drops
      /\ FitsCampaign(b, y, w, g) /\ FitsCampaign(o, y, w, g)
      /\ b.drops[d].claimed = c.drops[d].claimed /\ o.drops[d].claimed = TRUE
      /\ CurrentMinutes(b.drops[d]) \in Nat
      /\ CurrentMinutes(c.drops[d]) <= CurrentMinutes(b.drops[d])
      /\ CurrentMinutes(c.drops[d]) <= CurrentMinutes(o.drops[d])
  BY <1>1, <1>2, <1>4, <1>5, <1>6
<1> QED
  BY <1>7 DEF o, x, d, b

LEMMA RememberedFacts ==
    ASSUME RewardFile(rewards), NEW k \in Rewards, NEW m \in Nat, NEW b \in BOOLEAN
    PROVE  /\ RewardFile(Remembered(k, m, b))
           /\ Done(Remembered(k, m, b), k) <=> (Done(rewards, k) \/ b)
           /\ \A c : c # k => (Done(Remembered(k, m, b), c) <=> Done(rewards, c))
<1> DEFINE old == IF k \in DOMAIN rewards THEN rewards[k]
                  ELSE [minutes |-> 0, completed |-> FALSE]
           new == [minutes |-> Max({old.minutes, m}), completed |-> old.completed \/ b]
           f == Remembered(k, m, b)
<1>1. old.minutes \in Nat /\ old.completed \in BOOLEAN /\ (old.completed <=> Done(rewards, k))
  BY DEF RewardFile, Done
<1>2. f = [c \in DOMAIN rewards \cup {k} |-> IF c # k THEN rewards[c] ELSE new]
  BY DEF Remembered
<1> HIDE DEF f, old
<1>3. Max({old.minutes, m}) \in Nat
  BY <1>1, MaxOfTwo
<1>4. /\ new \in [minutes : Nat, completed : BOOLEAN]
      /\ new.completed <=> (Done(rewards, k) \/ b)
  BY <1>1, <1>3
<1> HIDE DEF new
<1>5. /\ DOMAIN f = DOMAIN rewards \cup {k} /\ f[k] = new
      /\ \A c \in DOMAIN rewards : c # k => f[c] = rewards[c]
  BY <1>2
<1>6. RewardFile(f) /\ (Done(f, k) <=> (Done(rewards, k) \/ b))
      /\ \A c : c # k => (Done(f, c) <=> Done(rewards, c))
  BY <1>4, <1>5 DEF RewardFile, Done
<1> QED
  BY <1>6 DEF f

\* The campaign that is bumped, and what memory and the file have of it after.
LEMMA BumpRewardFacts ==
    ASSUME IInv, NEW saved \in BOOLEAN, BumpReward(saved)
    PROVE  \E k \in DOMAIN snapshot, done \in BOOLEAN : \E x :
             /\ k \in Rewards /\ snapshot' = [snapshot EXCEPT ![k] = x]
             /\ FitsCampaign(x, plan[k], Credit, Taken)
             /\ \A d \in DOMAIN plan[k].drops :
                  /\ CurrentMinutes(snapshot[k].drops[d]) <= CurrentMinutes(x.drops[d])
                  /\ x.drops[d].claimed <=> (snapshot[k].drops[d].claimed \/ done)
             /\ \/ rewards' = rewards /\ ~done
                \/ \E m \in Nat : rewards' = Remembered(k, m, done)
             /\ refresher' = IF done THEN rewards' ELSE refresher
<1>1. PICK c \in Bumped :
        LET bumped == BumpMinutes(c, clock, Channel, Settings.badges)
            d == CHOOSE x \in DOMAIN c.drops : TRUE
            minutes == CurrentMinutes(bumped.drops[d])
            completes == BumpCompletes(c, clock, Channel, Settings.badges)
            written == saved /\ (completes \/ (minutes > 0 /\ ~c.drops[d].claimed))
        IN  /\ c.reward
            /\ snapshot' = [snapshot EXCEPT ![c.id] =
                  IF completes /\ saved
                  THEN [bumped EXCEPT !.drops[d] = MarkedClaimed(@)] ELSE bumped]
            /\ rewards' = IF written THEN Remembered(c.id, minutes, completes)
                          ELSE rewards
            /\ refresher' = IF completes /\ saved THEN rewards' ELSE refresher
  BY DEF BumpReward
<1> DEFINE k == c.id
           y == plan[k]
           b == BumpMinutes(c, clock, Channel, Settings.badges)
           d == TheDrop(c)
           o == WithClaimed(b, d)
           minutes == CurrentMinutes(b.drops[d])
           completes == BumpCompletes(c, clock, Channel, Settings.badges)
           done == completes /\ saved
           x == IF done THEN o ELSE b
<1>2. /\ k \in DOMAIN snapshot /\ k \in Ids /\ c = snapshot[k] /\ AsListed(y) /\ y.reward
      /\ FitsCampaign(c, y, Credit, Taken) /\ k \in Rewards
  BY <1>1, BumpedFacts
<1>3. /\ DOMAIN y.drops = {d} /\ d \in DOMAIN y.drops
      /\ FitsCampaign(b, y, Credit, Taken)
      /\ FitsCampaign(o, y, Credit, Taken)
      /\ b.drops[d].claimed = c.drops[d].claimed /\ o.drops[d].claimed = TRUE
      /\ minutes \in Nat
      /\ CurrentMinutes(c.drops[d]) <= CurrentMinutes(b.drops[d])
      /\ CurrentMinutes(c.drops[d]) <= CurrentMinutes(o.drops[d])
  <2>1. Credit \in [DropIds -> Nat] /\ DOMAIN y.drops \subseteq DropIds
    BY <1>2, CreditFacts DEF IInv
  <2> DEFINE w == Credit
             g == Taken
             badges == Settings.badges
  <2>2. /\ AsListed(y) /\ y.reward /\ DOMAIN y.drops \subseteq DropIds
        /\ w \in [DropIds -> Nat] /\ FitsCampaign(c, y, w, g)
    BY <1>2, <2>1
  <2> HIDE DEF y, k, w, g, badges, done, x, completes
  <2>3. LET B == BumpMinutes(c, clock, Channel, badges)
            E == TheDrop(c)
            O == WithClaimed(B, E)
        IN  /\ DOMAIN y.drops = {E} /\ E \in DOMAIN y.drops
            /\ FitsCampaign(B, y, w, g) /\ FitsCampaign(O, y, w, g)
            /\ B.drops[E].claimed = c.drops[E].claimed /\ O.drops[E].claimed = TRUE
            /\ CurrentMinutes(B.drops[E]) \in Nat
            /\ CurrentMinutes(c.drops[E]) <= CurrentMinutes(B.drops[E])
            /\ CurrentMinutes(c.drops[E]) <= CurrentMinutes(O.drops[E])
    BY <2>2, RewardBumped
  <2> QED
    BY <2>3 DEF w, g, badges
<1>4. completes \in BOOLEAN
  BY DEF BumpCompletes
<1>5. /\ snapshot' = [snapshot EXCEPT ![k] = x]
      /\ refresher' = IF done THEN rewards' ELSE refresher
  BY <1>1 DEF TheDrop, WithClaimed
<1>6. \/ rewards' = rewards /\ ~done
      \/ rewards' = Remembered(k, minutes, completes) /\ saved
  BY <1>1 DEF TheDrop
<1> HIDE DEF k, y, b, d, o, minutes, completes
<1>7. done \in BOOLEAN /\ (saved => completes = done)
  BY <1>4
<1>8. \/ rewards' = rewards /\ ~done
      \/ \E m \in Nat : rewards' = Remembered(k, m, done)
  BY <1>3, <1>6, <1>7
<1>9. FitsCampaign(x, y, Credit, Taken)
      /\ CurrentMinutes(c.drops[d]) <= CurrentMinutes(x.drops[d])
      /\ (x.drops[d].claimed <=> (c.drops[d].claimed \/ done))
  BY <1>3
<1> HIDE DEF x, done
<1>10. \A e \in DOMAIN y.drops :
          /\ CurrentMinutes(snapshot[k].drops[e]) <= CurrentMinutes(x.drops[e])
          /\ x.drops[e].claimed <=> (snapshot[k].drops[e].claimed \/ done)
  BY <1>2, <1>3, <1>9
<1>11. y = plan[k]
  BY DEF y
<1> QED
  BY <1>2, <1>5, <1>7, <1>8, <1>9, <1>10, <1>11

LEMMA BumpRewardStep ==
    ASSUME IInv, NEW saved \in BOOLEAN, BumpReward(saved)
    PROVE  IInv'
<1>1. UNCHANGED <<plan, clock, watched, granted, store, run, report, claim>>
  BY DEF BumpReward
<1>2. PICK k \in DOMAIN snapshot, done \in BOOLEAN : \E x :
             /\ k \in Rewards /\ snapshot' = [snapshot EXCEPT ![k] = x]
             /\ FitsCampaign(x, plan[k], Credit, Taken)
             /\ \A d \in DOMAIN plan[k].drops :
                  /\ CurrentMinutes(snapshot[k].drops[d]) <= CurrentMinutes(x.drops[d])
                  /\ x.drops[d].claimed <=> (snapshot[k].drops[d].claimed \/ done)
             /\ \/ rewards' = rewards /\ ~done
                \/ \E m \in Nat : rewards' = Remembered(k, m, done)
             /\ refresher' = IF done THEN rewards' ELSE refresher
  BY BumpRewardFacts
<1> DEFINE x == snapshot'[k]
<1>3. /\ k \in Rewards /\ snapshot' = [snapshot EXCEPT ![k] = x]
      /\ FitsCampaign(x, plan[k], Credit, Taken)
      /\ \A d \in DOMAIN plan[k].drops :
             x.drops[d].claimed <=> (snapshot[k].drops[d].claimed \/ done)
      /\ \/ rewards' = rewards /\ ~done
         \/ \E m \in Nat : rewards' = Remembered(k, m, done)
      /\ refresher' = IF done THEN rewards' ELSE refresher
  BY <1>2
<1> HIDE DEF x
<1>4. /\ Whole(snapshot', plan, Credit, Taken)
      /\ DOMAIN snapshot' = DOMAIN snapshot /\ snapshot'[k] = x
      /\ \A e \in DOMAIN snapshot \ {k} : snapshot'[e] = snapshot[e]
  BY <1>3, WholeReplaced DEF IInv, Truthful, x
<1>5. /\ RewardFile(rewards') /\ (Done(rewards', k) <=> (Done(rewards, k) \/ done))
      /\ \A c : c # k => (Done(rewards', c) <=> Done(rewards, c))
  BY <1>3, RememberedFacts DEF IInv
<1>6. RewardFile(rewards)' /\ RewardFile(refresher)'
  <2>1. Rewards' = Rewards
    BY <1>1, SamePlan
  <2> QED
    BY <1>3, <1>5, <2>1 DEF IInv, RewardFile
<1>7. ASSUME NEW c \in Rewards, clock < plan[c].ends
      PROVE  /\ Done(refresher', c) <=> Done(rewards', c)
             /\ c \in DOMAIN snapshot => (IsClaimed(snapshot', c) <=> Done(rewards', c))
             /\ c \in DOMAIN run.next =>
                   /\ ~IsClaimed(run.next, c)
                   /\ c \notin DOMAIN snapshot => ~Done(rewards', c)
  <2>1. /\ Done(refresher, c) <=> Done(rewards, c)
        /\ c \in DOMAIN snapshot => (IsClaimed(snapshot, c) <=> Done(rewards, c))
        /\ c \in DOMAIN run.next =>
              /\ ~IsClaimed(run.next, c)
              /\ c \notin DOMAIN snapshot => ~Done(rewards, c)
    BY <1>7 DEF IInv, Agreed
  <2>2. Done(refresher', c) <=> Done(rewards', c)
    BY <1>3, <1>5, <2>1
  <2>3. CASE c = k
    <3>1. IsClaimed(snapshot', k) <=> (IsClaimed(snapshot, k) \/ done)
      <4>1. \E d \in DOMAIN plan[k].drops : TRUE
        BY <1>3, PlanFacts, OneDrop DEF IInv, Served, Rewards, Regular
      <4> QED
        BY <1>3, <1>4, <4>1 DEF IsClaimed
    <3> QED
      BY <1>5, <2>1, <2>2, <2>3, <3>1
  <2>4. CASE c # k
    <3>1. c \in DOMAIN snapshot => (IsClaimed(snapshot', c) <=> IsClaimed(snapshot, c))
      BY <1>4, <2>4 DEF IsClaimed
    <3> QED
      BY <1>5, <2>1, <2>2, <2>4, <3>1
  <2> QED
    BY <2>3, <2>4
<1>8. Agreed'
  <2>1. Rewards' = Rewards
    BY <1>1, SamePlan
  <2> QED
    BY <1>1, <1>4, <1>7, <2>1 DEF Agreed, Done, IsClaimed
<1>9. Served' /\ Truthful' /\ Counted' /\ Claims'
  BY <1>1, <1>4, ServedKept, TruthfulKept, CountedKept, ClaimsKept DEF IInv
<1> QED
  BY <1>6, <1>8, <1>9 DEF IInv

-----------------------------------------------------------------------------
(* A reload.                                                               *)

LEMMA ReloadBeginStep ==
    ASSUME IInv, NEW saved \in BOOLEAN, ReloadBegin(saved)
    PROVE  IInv'
<1> DEFINE live == {c \in DOMAIN rewards : clock < plan[c].ends + RewardGrace}
<1>1. /\ UNCHANGED <<plan, clock, watched, granted, snapshot, report, claim>>
      /\ run.at = "idle" /\ refresher' = rewards'
      /\ rewards' = IF saved THEN Restrict(rewards, live) ELSE rewards
      /\ store' = IF saved
                  THEN [d \in DropIds |-> IF clock < DropOf(d).ends THEN store[d] ELSE 0]
                  ELSE store
      /\ run' = [run EXCEPT !.at = "campaigns", !.listed = clock]
  BY DEF ReloadBegin
<1>2. /\ run = Idle /\ run'.at = "campaigns" /\ run'.next = <<>> /\ run'.queue = {}
      /\ run'.next = run.next /\ run'.listed \in Nat /\ run'.now \in Nat
      /\ DOMAIN run' = RunFields /\ DOMAIN run.next = {}
  <2>1. clock \in Nat
    BY DropsAssumption DEF IInv, Served
  <2> QED
    BY <1>1, <2>1 DEF IInv, Claims, Idle, RunFields
<1>3. /\ DOMAIN rewards' \subseteq DOMAIN rewards
      /\ \A c \in DOMAIN rewards' : rewards'[c] = rewards[c]
      /\ \A c \in DOMAIN rewards : clock < plan[c].ends + RewardGrace => c \in DOMAIN rewards'
  BY <1>1 DEF Restrict
<1> HIDE DEF live
<1>4. \A c \in Rewards : clock < plan[c].ends => (Done(rewards', c) <=> Done(rewards, c))
  <2>1. clock \in Int /\ RewardGrace \in Nat
    BY DropsAssumption DEF IInv, Served
  <2>2. \A c \in Rewards : plan[c].ends \in Int
    BY PlanFacts DEF Rewards, AsListed, IInv, Served
  <2>3. \A c \in Rewards : clock < plan[c].ends => clock < plan[c].ends + RewardGrace
    BY <2>1, <2>2
  <2> QED
    BY <1>3, <2>3 DEF Done
<1>5. RewardFile(rewards)' /\ RewardFile(refresher)'
  <2>1. Rewards' = Rewards
    BY <1>1, SamePlan
  <2> QED
    BY <1>1, <1>3, <2>1 DEF IInv, RewardFile
<1>6. Agreed'
  <2>1. Rewards' = Rewards
    BY <1>1, SamePlan
  <2>2. \A c \in Rewards : clock < plan[c].ends /\ c \in DOMAIN snapshot =>
           (IsClaimed(snapshot, c) <=> Done(rewards', c))
    BY <1>4 DEF IInv, Agreed
  <2> QED
    BY <1>1, <1>2, <2>1, <2>2 DEF Agreed, Done, IsClaimed
<1>7. Counted'
  <2>1. Credit' = Credit /\ DropIds' = DropIds
    BY <1>1, SamePlan
  <2>2. Credit \in [DropIds -> Nat] /\ store \in [DropIds -> Nat]
        /\ \A d \in DropIds : store[d] <= Credit[d]
    BY CreditFacts DEF IInv, Counted
  <2>3. store' \in [DropIds -> Nat] /\ \A d \in DropIds : store'[d] <= Credit[d]
    BY <1>1, <2>2
  <2> QED
    BY <1>1, <2>1, <2>3 DEF IInv, Counted
<1>8. Claims'
  <2>1. RegularDrops' = RegularDrops
    BY <1>1, SamePlan
  <2> QED
    BY <1>1, <1>2, <2>1 DEF IInv, Claims
<1>9. Served' /\ Truthful'
  BY <1>1, <1>2, ServedKept, TruthfulKept DEF IInv
<1> QED
  BY <1>5, <1>6, <1>7, <1>8, <1>9 DEF IInv

\* What Run does in the middle of a reload leaves the rest as it is.
LEMMA RunStep ==
    ASSUME IInv, UNCHANGED <<plan, clock, watched, granted, store, rewards, refresher, report,
                             claim>>,
           DOMAIN run' = RunFields, run'.listed \in Nat, run'.now \in Nat,
           run'.queue \subseteq RegularDrops, run'.at = "idle" => run' = Idle
    PROVE  /\ Served' /\ Counted' /\ RewardFile(rewards)' /\ RewardFile(refresher)' /\ Claims'
           /\ Rewards' = Rewards
<1>1. RegularDrops' = RegularDrops /\ Rewards' = Rewards
  BY SamePlan
<1>2. Claims'
  BY <1>1 DEF IInv, Claims
<1> QED
  BY <1>1, <1>2, ServedKept, CountedKept, FilesKept DEF IInv

LEMMA FiniteDrops ==
    ASSUME plan \in Plans
    PROVE  IsFiniteSet(DropIds)
<1> DEFINE sets == {DOMAIN plan[c].drops : c \in Ids}
           f == [c \in Ids |-> DOMAIN plan[c].drops]
<1>1. IsFiniteSet(Ids)
  BY DropsAssumption DEF Ids
<1>2. f \in Surjection(Ids, sets)
  BY DEF Surjection
<1>3. IsFiniteSet(sets)
  BY <1>1, <1>2, FS_Surjection
<1>4. \A s \in sets : IsFiniteSet(s)
  BY PlanFacts DEF AsListed
<1>5. DropIds = UNION sets
  BY DEF DropIds
<1> HIDE DEF sets
<1> QED
  BY <1>3, <1>4, <1>5, FS_UNION

\* A drop whose benefits were awarded in its window shares one with a drop that
\* was granted in that window.
LEMMA AwardedMistakes ==
    ASSUME Served, NEW d \in DropIds, CampaignOf(d) \in Silent, AwardedInWindow(d)
    PROVE  Mistakable(d)
<1>1. PICK b \in DropOf(d).benefits :
          AwardedAt(b) # {} /\ InWindow(DropOf(d), Max(AwardedAt(b)))
  BY DEF AwardedInWindow
<1> DEFINE from == {o \in DOMAIN granted : b \in DropOf(o).benefits}
           f == [o \in from |-> granted[o]]
<1>2. IsFiniteSet(from) /\ \A o \in from : granted[o] \in Int
  <2>1. IsFiniteSet(DropIds)
    BY FiniteDrops DEF Served
  <2>2. from \subseteq DropIds
    BY DEF Served
  <2>3. \A o \in from : granted[o] \in Int
    BY DropsAssumption DEF Served
  <2> HIDE DEF from
  <2> QED
    BY <2>1, <2>2, <2>3, FS_Subset
<1>3. AwardedAt(b) = {granted[o] : o \in from}
  BY DEF AwardedAt
<1>4. f \in Surjection(from, AwardedAt(b))
  BY <1>3 DEF Surjection
<1>5. IsFiniteSet(AwardedAt(b)) /\ AwardedAt(b) \in SUBSET Int
  BY <1>2, <1>3, <1>4, FS_Surjection
<1>6. Max(AwardedAt(b)) \in AwardedAt(b)
  BY <1>1, <1>5, Extremes
<1>7. PICK o \in from : Max(AwardedAt(b)) = granted[o]
  BY <1>3, <1>6
<1>8. b \in DropOf(o).benefits \cap DropOf(d).benefits /\ InWindow(DropOf(d), granted[o])
  BY <1>1, <1>7
<1> QED
  BY <1>7, <1>8 DEF Mistakable

LEMMA ParsedFits ==
    ASSUME Served, NEW c \in Regular, NEW d \in DOMAIN plan[c].drops
    PROVE  Fits(Parsed(c, d), plan[c].drops[d], FALSE, Credit[d], d \in Taken)
<1> DEFINE y == plan[c].drops[d]
           real == IF c \notin Silent THEN Least2(watched[Counter(d)], y.req) ELSE 0
           claimed == IF c \notin Silent THEN d \in DOMAIN granted ELSE AwardedInWindow(d)
           claim1 == c \notin Silent /\ Earned(d)
           u == [y EXCEPT !.real = real, !.claimed = claimed, !.claim = claim1]
           x == Normalised(u)
<1>1. AsListed(plan[c]) /\ DropOf(d) = y /\ d \in DropIds
  BY PlanFacts DEF Regular, Served
<1>2. /\ DOMAIN y = DropFields /\ y.req \in Nat /\ y.extra = 0
  BY <1>1 DEF AsListed
<1>3. Parsed(c, d) = x
  BY <1>1 DEF Parsed
<1>4. Credit[d] \in Nat /\ Credit[d] = watched[Counter(d)]
  BY <1>1, CreditFacts
<1>5. real \in Nat /\ real <= y.req /\ real <= Credit[d]
  BY <1>2, <1>4 DEF Least2
<1>6. claimed \in BOOLEAN /\ (claimed => d \in Taken)
  <2>1. CampaignOf(d) = c /\ AwardedInWindow(d) \in BOOLEAN
    BY PlanFacts DEF Regular, Served, AwardedInWindow
  <2>2. (d \in DOMAIN granted) \in BOOLEAN /\ (d \in DOMAIN granted => d \in Taken)
    BY <1>1 DEF Taken
  <2>3. c \in Silent /\ AwardedInWindow(d) => d \in Taken
    BY <1>1, <2>1, AwardedMistakes DEF Taken
  <2> QED
    BY <2>1, <2>2, <2>3, Zenon
<1> HIDE DEF y, real, claimed, claim1
<1>7. /\ DOMAIN u = DropFields /\ u.req = y.req /\ u.pre = y.pre /\ u.starts = y.starts
      /\ u.ends = y.ends /\ u.real = real /\ u.extra = 0 /\ u.claimed = claimed
  BY <1>2 DEF DropFields
<1> HIDE DEF u
<1>8. /\ DOMAIN x = DropFields /\ x.req = y.req /\ x.pre = y.pre /\ x.starts = y.starts
      /\ x.ends = y.ends /\ x.extra = 0 /\ x.claimed = claimed
      /\ x.real = IF claimed THEN y.req ELSE real
  <2>1. CASE claimed
    <3>1. x = [u EXCEPT !.real = Max({u.real, u.req}), !.extra = 0]
      BY <1>7, <2>1 DEF Normalised
    <3>2. Max({u.real, u.req}) = y.req
      BY <1>2, <1>5, <1>7, MaxOfTwo
    <3> HIDE DEF x
    <3>3. /\ DOMAIN x = DropFields /\ x.req = u.req /\ x.pre = u.pre /\ x.starts = u.starts
          /\ x.ends = u.ends /\ x.extra = 0 /\ x.claimed = u.claimed /\ x.real = y.req
      BY <1>7, <3>1, <3>2 DEF DropFields
    <3> QED
      BY <1>7, <2>1, <3>3
  <2>2. CASE ~claimed
    BY <1>7, <2>2 DEF Normalised
  <2> QED
    BY <2>1, <2>2
<1> HIDE DEF x
<1>9. Fits(x, y, FALSE, Credit[d], d \in Taken)
  <2>1. x.real \in Nat /\ x.extra \in Nat /\ x.real + x.extra <= x.req
        /\ x.extra <= MaxExtraMinutes /\ (~x.claimed => x.real <= Credit[d])
    BY <1>2, <1>5, <1>8, RulesAssumption
  <2>2. x.claimed \in BOOLEAN /\ (x.claimed => d \in Taken)
    BY <1>6, <1>8
  <2> QED
    BY <1>8, <2>1, <2>2 DEF Fits
<1> QED
  BY <1>3, <1>9 DEF y

LEMMA ReadCampaignsStep ==
    ASSUME IInv, ReadCampaigns
    PROVE  IInv'
<1> DEFINE drops(c) == [d \in DOMAIN plan[c].drops |-> Parsed(c, d)]
           x(c) == [plan[c] EXCEPT !.valid = clock < plan[c].ends, !.drops = drops(c)]
<1>1. /\ UNCHANGED <<plan, clock, watched, granted, snapshot, store, rewards, refresher,
                     report, claim>>
      /\ run' = [run EXCEPT !.at = "rewards", !.next = [c \in Regular |-> x(c)]]
  BY DEF ReadCampaigns
<1>2. /\ DOMAIN run' = RunFields /\ run'.listed \in Nat /\ run'.now \in Nat
      /\ run'.queue = run.queue
      /\ run'.at = "rewards" /\ run'.next = [c \in Regular |-> x(c)]
      /\ run.queue \subseteq RegularDrops
  BY <1>1 DEF IInv, Claims
<1>3. ASSUME NEW c \in Regular
      PROVE  FitsCampaign(x(c), plan[c], Credit, Taken)
  <2>1. AsListed(plan[c]) /\ plan[c].reward = FALSE
    BY PlanFacts DEF Regular, IInv, Served, AsListed
  <2>2. \A d \in DOMAIN plan[c].drops :
           Fits(drops(c)[d], plan[c].drops[d], plan[c].reward, Credit[d], d \in Taken)
    BY <2>1, ParsedFits DEF IInv
  <2>3. DOMAIN drops(c) = DOMAIN plan[c].drops
    OBVIOUS
  <2> HIDE DEF drops
  <2>4. /\ DOMAIN x(c) = CampaignFields /\ x(c).id = plan[c].id
        /\ x(c).game = plan[c].game /\ x(c).reward = plan[c].reward
        /\ x(c).drops = drops(c)
    BY <2>1 DEF AsListed, CampaignFields
  <2> QED
    BY <2>2, <2>3, <2>4 DEF FitsCampaign
<1> HIDE DEF x
<1>4. Whole(run'.next, plan, Credit, Taken) /\ DOMAIN run'.next \subseteq Regular
  BY <1>2, <1>3 DEF Whole, Regular, Ids
<1>5. Truthful' /\ Agreed'
  BY <1>1, <1>4, TruthfulKept, AgreedKept DEF IInv
<1> QED
  BY <1>1, <1>2, <1>5, RunStep DEF IInv

\* Each drop is told the most that was recorded for itself or on its counter,
\* which is no more than Twitch counted.
LEMMA SeededWhole ==
    ASSUME IInv, NEW cs, Whole(cs, plan, Credit, Taken)
    PROVE  /\ Whole(Seeded(cs), plan, Credit, Taken)
           /\ DOMAIN Seeded(cs) = DOMAIN cs
           /\ \A c \in DOMAIN cs : \A d \in DOMAIN plan[c].drops :
                Seeded(cs)[c].drops[d].claimed = cs[c].drops[d].claimed
<1> DEFINE all(c) == cs[c].drops
           sources(c, d) ==
               {d} \cup {o \in DOMAIN all(c) : SharesCounter(all(c)[d], all(c)[o])}
           most(c, d) == Max({store[o] : o \in sources(c, d)})
           f(c) == [d \in DOMAIN all(c) |-> Observed(all(c)[d], most(c, d))]
           x(c) == [cs[c] EXCEPT !.drops = f(c)]
<1>1. Seeded(cs) = [c \in DOMAIN cs |-> x(c)]
  BY DEF Seeded
<1>2. ASSUME NEW c \in DOMAIN cs
      PROVE  /\ FitsCampaign(x(c), plan[c], Credit, Taken)
             /\ \A d \in DOMAIN plan[c].drops :
                  x(c).drops[d].claimed = cs[c].drops[d].claimed
  <2>1. /\ c \in Ids /\ AsListed(plan[c]) /\ DOMAIN plan[c].drops \subseteq DropIds
        /\ FitsCampaign(cs[c], plan[c], Credit, Taken)
        /\ DOMAIN all(c) = DOMAIN plan[c].drops
    <3>1. c \in Ids /\ FitsCampaign(cs[c], plan[c], Credit, Taken)
      BY DEF Whole, Ids
    <3>2. AsListed(plan[c]) /\ DOMAIN plan[c].drops \subseteq DropIds
      BY <3>1, PlanFacts, CreditFacts DEF IInv, Served
    <3> QED
      BY <3>1, <3>2 DEF FitsCampaign
  <2>2. ASSUME NEW d \in DOMAIN plan[c].drops
        PROVE  /\ Fits(f(c)[d], plan[c].drops[d], plan[c].reward, Credit[d],
                       d \in Taken)
               /\ f(c)[d].claimed = all(c)[d].claimed
    <3>1. \A o \in DOMAIN all(c) : Fits(all(c)[o], plan[c].drops[o], plan[c].reward, Credit[o],
                                        o \in Taken)
      BY <2>1 DEF FitsCampaign
    <3>2. /\ sources(c, d) \subseteq DOMAIN plan[c].drops /\ d \in sources(c, d)
          /\ \A o \in sources(c, d) : Credit[o] = Credit[d]
      <4>1. sources(c, d) \subseteq DOMAIN plan[c].drops /\ d \in sources(c, d)
        BY <2>1
      <4>2. ASSUME NEW o \in sources(c, d), o # d
            PROVE  Credit[o] = Credit[d]
        <5>1. SharesCounter(all(c)[d], all(c)[o]) /\ o \in DOMAIN plan[c].drops
          BY <2>1, <4>2
        <5>2. /\ plan[c].drops[d].pre = {} /\ plan[c].drops[o].pre = {}
              /\ plan[c].drops[d].starts = plan[c].drops[o].starts
              /\ plan[c].drops[d].ends = plan[c].drops[o].ends
          BY <2>1, <3>1, <5>1 DEF SharesCounter, Fits
        <5> QED
          BY <2>1, <5>1, <5>2, CreditFacts DEF IInv
      <4> QED
        BY <4>1, <4>2
    <3>3. IsFiniteSet(sources(c, d)) /\ sources(c, d) # {}
      <4>1. IsFiniteSet(DOMAIN plan[c].drops)
        BY <2>1 DEF AsListed
      <4> HIDE DEF sources
      <4> QED
        BY <3>2, <4>1, FS_Subset
    <3>4. most(c, d) \in Nat /\ most(c, d) <= Credit[d]
      <4> DEFINE S == sources(c, d)
                 h == [o \in S |-> store[o]]
      <4>1. S \subseteq DropIds
        BY <2>1, <3>2
      <4>2. /\ store \in [DropIds -> Nat] /\ \A o \in DropIds : store[o] <= Credit[o]
        BY DEF IInv, Counted
      <4>7. IsFiniteSet(S) /\ S # {}
        BY <3>3
      <4> HIDE DEF S
      <4>3. h \in [S -> Nat] /\ \A o \in S : h[o] = store[o]
        BY <4>1, <4>2
      <4>4. most(c, d) = Max({h[o] : o \in S})
        BY DEF S
      <4> HIDE DEF h, most
      <4>5. \E o \in S : most(c, d) = h[o]
        BY <4>3, <4>4, <4>7, MaxOfValues
      <4>6. \A o \in S : Credit[o] = Credit[d]
        BY <3>2 DEF S
      <4> QED
        BY <4>1, <4>2, <4>3, <4>5, <4>6
    <3>5. /\ f(c)[d] = Observed(all(c)[d], most(c, d))
          /\ plan[c].drops[d].req \in Nat /\ Credit[d] \in Nat
      <4>1. Credit \in [DropIds -> Nat] /\ d \in DropIds
        BY <2>1, CreditFacts DEF IInv
      <4> QED
        BY <2>1, <4>1 DEF AsListed
    <3>6. Fits(all(c)[d], plan[c].drops[d], plan[c].reward, Credit[d], d \in Taken)
      BY <2>1, <3>1
    <3> HIDE DEF f, most, all
    <3>7. /\ Fits(Observed(all(c)[d], most(c, d)), plan[c].drops[d], plan[c].reward, Credit[d],
                  d \in Taken)
          /\ Observed(all(c)[d], most(c, d)).claimed = all(c)[d].claimed
      <4> DEFINE a == all(c)[d]
                 m == most(c, d)
                 y == plan[c].drops[d]
                 w == Credit[d]
                 g == d \in Taken
                 reward == plan[c].reward
      <4>1. Fits(a, y, reward, w, g) /\ y.req \in Nat /\ w \in Nat /\ m \in Nat /\ m <= w
        BY <3>4, <3>5, <3>6
      <4> HIDE DEF a, m, y, w, g, reward
      <4>2. Fits(Observed(a, m), y, reward, w, g) /\ Observed(a, m).claimed = a.claimed
        BY <4>1, ObservedFits
      <4> QED
        BY <4>2 DEF a, m, y, w, g, reward
    <3> QED
      BY <3>5, <3>7
  <2>3. DOMAIN f(c) = DOMAIN plan[c].drops
    BY <2>1
  <2> HIDE DEF f
  <2>4. FitsCampaign(x(c), plan[c], Credit, Taken) /\ x(c).drops = f(c)
    BY <2>1, <2>2, <2>3, DropsReplaced
  <2> HIDE DEF x
  <2> QED
    BY <2>2, <2>4
<1> HIDE DEF x
<1>3. /\ DOMAIN Seeded(cs) = DOMAIN cs /\ DOMAIN cs \subseteq DOMAIN plan
      /\ \A c \in DOMAIN cs : Seeded(cs)[c] = x(c)
  BY <1>1 DEF Whole
<1> QED
  BY <1>2, <1>3 DEF Whole

LEMMA ReadRewardsStep ==
    ASSUME IInv, ReadRewards
    PROVE  IInv'
<1> DEFINE known(c) == IF c \in DOMAIN refresher THEN refresher[c]
                       ELSE [minutes |-> 0, completed |-> FALSE]
           open == {c \in Rewards : run.listed < plan[c].ends /\ ~known(c).completed}
           drop(c, d) == [plan[c].drops[d] EXCEPT !.real = Least2(known(c).minutes,
                                                                  DropOf(d).req)]
           drops(c) == [d \in DOMAIN plan[c].drops |-> drop(c, d)]
           started(c) == [plan[c] EXCEPT !.drops = drops(c)]
           base == [c \in open \cup DOMAIN run.next |->
                       IF c \in open THEN started(c) ELSE run.next[c]]
<1>1. /\ UNCHANGED <<plan, clock, watched, granted, snapshot, store, rewards, refresher,
                     report, claim>>
      /\ run.at = "rewards"
      /\ run' = [run EXCEPT !.at = "install", !.next = Seeded(base)]
  BY DEF ReadRewards, Rewards
<1>2. /\ DOMAIN run' = RunFields /\ run'.listed \in Nat /\ run'.now \in Nat
      /\ run'.queue = run.queue
      /\ run'.at = "install" /\ run'.next = Seeded(base)
      /\ run.queue \subseteq RegularDrops
  BY <1>1 DEF IInv, Claims
<1>3. ASSUME NEW c \in open
      PROVE  /\ FitsCampaign(started(c), plan[c], Credit, Taken)
             /\ \A d \in DOMAIN plan[c].drops : started(c).drops[d].claimed = FALSE
  <2>1. AsListed(plan[c]) /\ plan[c].reward = TRUE /\ c \in Ids
        /\ \A d \in DOMAIN plan[c].drops : DropOf(d) = plan[c].drops[d]
    <3>1. c \in Ids /\ ~(~plan[c].reward)
      BY DEF Rewards, Regular
    <3>2. AsListed(plan[c]) /\ \A d \in DOMAIN plan[c].drops : DropOf(d) = plan[c].drops[d]
      BY <3>1, PlanFacts DEF IInv, Served
    <3>3. plan[c].reward \in BOOLEAN
      BY <3>2 DEF AsListed
    <3> QED
      BY <3>1, <3>2, <3>3
  <2>2. known(c).minutes \in Nat
    BY DEF IInv, RewardFile
  <2> HIDE DEF known
  <2>3. ASSUME NEW d \in DOMAIN plan[c].drops
        PROVE  /\ Fits(drops(c)[d], plan[c].drops[d], plan[c].reward, Credit[d],
                       d \in Taken)
               /\ drops(c)[d].claimed = FALSE
    <3> DEFINE y == plan[c].drops[d]
               u == drop(c, d)
    <3>1. /\ DOMAIN y = DropFields /\ y.req \in Nat /\ y.extra = 0 /\ y.claimed = FALSE
          /\ y.claim = FALSE /\ DropOf(d) = y
      BY <2>1 DEF AsListed
    <3>2. Least2(known(c).minutes, y.req) \in Nat /\ Least2(known(c).minutes, y.req) <= y.req
      BY <2>2, <3>1 DEF Least2
    <3>3. drops(c)[d] = u
      OBVIOUS
    <3>4. /\ DOMAIN u = DropFields /\ u.req = y.req /\ u.pre = y.pre /\ u.starts = y.starts
          /\ u.ends = y.ends /\ u.extra = 0 /\ u.claimed = FALSE /\ u.claim = FALSE
          /\ u.real = Least2(known(c).minutes, y.req)
      BY <3>1 DEF DropFields
    <3> HIDE DEF u, y, drops, drop
    <3>5. Fits(u, y, TRUE, Credit[d], d \in Taken)
      <4>1. u.real \in Nat /\ u.extra \in Nat /\ u.real + u.extra <= u.req
        BY <3>1, <3>2, <3>4
      <4>2. u.claimed \in BOOLEAN
        BY <3>4
      <4> QED
        BY <3>4, <4>1, <4>2 DEF Fits
    <3> QED
      BY <2>1, <3>3, <3>4, <3>5 DEF y
  <2>4. DOMAIN drops(c) = DOMAIN plan[c].drops
    OBVIOUS
  <2> HIDE DEF drops
  <2>5. /\ DOMAIN started(c) = CampaignFields /\ started(c).id = plan[c].id
        /\ started(c).game = plan[c].game
        /\ started(c).reward = plan[c].reward /\ started(c).drops = drops(c)
        /\ started(c).starts = plan[c].starts /\ started(c).ends = plan[c].ends
    BY <2>1 DEF AsListed, CampaignFields
  <2> HIDE DEF started
  <2> QED
    BY <2>3, <2>4, <2>5 DEF FitsCampaign
<1>4. \A c \in open : c \in Rewards /\ ~Done(refresher, c)
  BY DEF Done
<1> HIDE DEF started, known, open
<1>5. /\ DOMAIN base = open \cup DOMAIN run.next
      /\ \A c \in open : base[c] = started(c)
      /\ \A c \in DOMAIN base : c \notin open => c \in DOMAIN run.next /\ base[c] = run.next[c]
  OBVIOUS
<1> HIDE DEF base
<1>6. Whole(base, plan, Credit, Taken)
  BY <1>3, <1>4, <1>5 DEF IInv, Truthful, Whole, Rewards, Ids
<1>7. /\ Whole(run'.next, plan, Credit, Taken) /\ DOMAIN run'.next = DOMAIN base
      /\ \A c \in DOMAIN base : IsClaimed(run'.next, c) <=> IsClaimed(base, c)
  <2>1. \A c \in DOMAIN base : \A d \in DOMAIN plan[c].drops :
           run'.next[c].drops[d].claimed = base[c].drops[d].claimed
    BY <1>2, <1>6, SeededWhole
  <2> QED
    BY <1>2, <1>6, <2>1, SeededWhole DEF IsClaimed
<1>8. ASSUME NEW c \in Rewards, clock < plan[c].ends, c \in DOMAIN base
      PROVE  ~IsClaimed(base, c) /\ (c \notin DOMAIN snapshot => ~Done(rewards, c))
  <2>1. CASE c \in open
    <3>1. ~IsClaimed(base, c)
      BY <1>3, <1>5, <2>1 DEF IsClaimed
    <3>2. ~Done(rewards, c)
      BY <1>4, <1>8, <2>1 DEF IInv, Agreed
    <3> QED
      BY <3>1, <3>2
  <2>2. CASE c \notin open
    BY <1>5, <1>8, <2>2 DEF IInv, Agreed, IsClaimed
  <2> QED
    BY <2>1, <2>2
<1>9. Agreed'
  <2>1. Rewards' = Rewards
    BY <1>1, SamePlan
  <2>2. \A c \in Rewards : clock < plan[c].ends =>
            /\ Done(refresher, c) <=> Done(rewards, c)
            /\ c \in DOMAIN snapshot => (IsClaimed(snapshot, c) <=> Done(rewards, c))
            /\ c \in DOMAIN run'.next =>
                   /\ ~IsClaimed(run'.next, c)
                   /\ c \notin DOMAIN snapshot => ~Done(rewards, c)
    BY <1>7, <1>8 DEF IInv, Agreed
  <2> QED
    BY <1>1, <2>1, <2>2 DEF Agreed, Done, IsClaimed
<1>10. Truthful'
  BY <1>1, <1>7, TruthfulKept DEF IInv
<1> QED
  BY <1>1, <1>2, <1>9, <1>10, RunStep DEF IInv

LEMMA ReloadFailsStep ==
    ASSUME IInv, ReloadFails
    PROVE  IInv'
<1>1. /\ UNCHANGED <<plan, clock, watched, granted, snapshot, store, rewards, refresher,
                     report, claim>>
      /\ run' = Idle
  BY DEF ReloadFails
<1>2. /\ DOMAIN run' = RunFields /\ run'.listed \in Nat /\ run'.now \in Nat
      /\ run'.queue = {}
      /\ DOMAIN run'.next = {}
  BY <1>1 DEF Idle, RunFields
<1>3. Truthful' /\ Agreed'
  <2>1. Whole(run'.next, plan, Credit, Taken) /\ DOMAIN run'.next \subseteq Regular
    BY <1>2 DEF Whole
  <2> QED
    BY <1>1, <2>1, TruthfulKept, AgreedKept DEF IInv
<1> QED
  BY <1>1, <1>2, <1>3, RunStep DEF IInv

\* What a reward got in memory while the reload was under way is kept: it is
\* claimed after if it was claimed before, and has no fewer minutes.
LEMMA MergedFacts ==
    ASSUME IInv
    PROVE  LET cs == run.next
               m == Merged(cs)
           IN  /\ Whole(m, plan, Credit, Taken) /\ DOMAIN m = DOMAIN cs
               /\ \A c \in Rewards \cap DOMAIN cs :
                    /\ c \notin DOMAIN snapshot => m[c] = cs[c]
                    /\ c \in DOMAIN snapshot /\ clock < plan[c].ends =>
                         \A d \in DOMAIN plan[c].drops :
                            LET old == snapshot[c].drops[d]
                            IN  /\ m[c].drops[d].claimed <=> old.claimed
                                /\ CurrentMinutes(old) <= CurrentMinutes(m[c].drops[d])
<1> DEFINE cs == run.next
           skipped(c) == c \in Regular \/ c \notin DOMAIN snapshot \/ clock >= plan[c].ends
           old(c, d) == snapshot[c].drops[d]
           drop(c, d) == cs[c].drops[d]
           x(c, d) == IF clock >= old(c, d).ends THEN drop(c, d)
                      ELSE IF old(c, d).claimed THEN MarkedClaimed(drop(c, d))
                      ELSE IF CurrentMinutes(old(c, d)) > CurrentMinutes(drop(c, d))
                           THEN Observed(drop(c, d), CurrentMinutes(old(c, d)))
                           ELSE drop(c, d)
           f(c) == [d \in DOMAIN cs[c].drops |-> x(c, d)]
           m(c) == IF skipped(c) THEN cs[c] ELSE [cs[c] EXCEPT !.drops = f(c)]
<1>1. Merged(cs) = [c \in DOMAIN cs |-> m(c)]
  BY DEF Merged
<1>2. ASSUME NEW c \in DOMAIN cs
      PROVE  c \in Ids /\ FitsCampaign(cs[c], plan[c], Credit, Taken)
  BY DEF IInv, Truthful, Whole, Ids
<1>3. ASSUME NEW c \in DOMAIN cs, ~skipped(c)
      PROVE  /\ FitsCampaign(m(c), plan[c], Credit, Taken)
             /\ \A d \in DOMAIN plan[c].drops :
                   /\ m(c).drops[d].claimed <=> old(c, d).claimed
                   /\ CurrentMinutes(old(c, d)) <= CurrentMinutes(m(c).drops[d])
  <2>1. /\ c \in Ids /\ c \in Rewards /\ c \in DOMAIN snapshot /\ AsListed(plan[c])
        /\ FitsCampaign(cs[c], plan[c], Credit, Taken)
        /\ FitsCampaign(snapshot[c], plan[c], Credit, Taken)
        /\ plan[c].reward /\ DOMAIN cs[c].drops = DOMAIN plan[c].drops
    <3>1. c \in Ids /\ c \notin Regular /\ c \in DOMAIN snapshot
      BY <1>2, <1>3
    <3>2. AsListed(plan[c])
      BY <3>1, PlanFacts DEF IInv, Served
    <3>3. plan[c].reward /\ c \in Rewards
      BY <3>1 DEF Regular, Rewards
    <3> QED
      BY <1>2, <3>1, <3>2, <3>3 DEF IInv, Truthful, Whole, FitsCampaign
  <2>2. clock < plan[c].ends
    <3>1. clock \in Int /\ plan[c].ends \in Int
      BY <2>1, DropsAssumption DEF IInv, Served, AsListed
    <3> QED
      BY <1>3, <3>1
  <2>3. ASSUME NEW d \in DOMAIN plan[c].drops
        PROVE  /\ Fits(f(c)[d], plan[c].drops[d], plan[c].reward, Credit[d],
                       d \in Taken)
               /\ f(c)[d].claimed <=> old(c, d).claimed
               /\ CurrentMinutes(old(c, d)) <= CurrentMinutes(f(c)[d])
    <3> DEFINE y == plan[c].drops[d]
               w == Credit[d]
               g == d \in Taken
               reward == plan[c].reward
               a == old(c, d)
               b == drop(c, d)
               now == CurrentMinutes(a)
    <3>1. /\ Fits(a, y, reward, w, g) /\ Fits(b, y, reward, w, g) /\ reward
          /\ w \in Nat /\ y.req \in Nat /\ y.ends = plan[c].ends
      <4>1. Credit \in [DropIds -> Nat] /\ d \in DropIds
        BY <2>1, CreditFacts DEF IInv
      <4> QED
        BY <2>1, <4>1 DEF FitsCampaign, AsListed
    <3>2. b.claimed = FALSE
      <4>1. ~b.claimed
        BY <2>1, <2>2 DEF IInv, Agreed, IsClaimed
      <4> QED
        BY <3>1, <4>1 DEF Fits
    <3>3. ~(clock >= a.ends)
      <4>1. clock \in Int /\ plan[c].ends \in Int
        BY <2>1, DropsAssumption DEF IInv, Served, AsListed
      <4> QED
        BY <2>2, <3>1, <4>1 DEF Fits
    <3>4. f(c)[d] = x(c, d)
      BY <2>1
    <3>5. x(c, d) = IF a.claimed THEN MarkedClaimed(b)
                    ELSE IF now > CurrentMinutes(b) THEN Observed(b, now) ELSE b
      BY <3>3
    <3>6. now \in Nat /\ now <= y.req /\ CurrentMinutes(b) \in Nat /\ a.claimed \in BOOLEAN
      BY <3>1 DEF Fits, CurrentMinutes
    <3> HIDE DEF y, w, g, reward, a, b, now, x, f
    <3>7. CASE a.claimed
      <4>1. Fits(MarkedClaimed(b), y, reward, w, g) /\ MarkedClaimed(b).claimed = TRUE
            /\ CurrentMinutes(MarkedClaimed(b)) = y.req
        BY <3>1, MarkedFits
      <4>2. f(c)[d] = MarkedClaimed(b)
        BY <3>4, <3>5, <3>7
      <4>3. Fits(f(c)[d], y, reward, w, g) /\ (f(c)[d].claimed <=> a.claimed)
            /\ now <= CurrentMinutes(f(c)[d])
        BY <3>6, <3>7, <4>1, <4>2
      <4> QED
        BY <4>3 DEF y, w, g, reward, a, now
    <3>8. CASE ~a.claimed /\ now > CurrentMinutes(b)
      <4>4. Fits(b, y, reward, now, g)
        BY <3>1 DEF Fits
      <4>5. now <= now /\ y.req \in Nat /\ now \in Nat
        BY <3>1, <3>6
      <4>6. Fits(Observed(b, now), y, reward, now, g) /\ Observed(b, now).claimed = b.claimed
        BY <4>4, <4>5, ObservedFits
      <4>7. ~b.claimed /\ now <= y.req => now <= CurrentMinutes(Observed(b, now))
        BY <4>4, <4>5, ObservedFits
      <4>1. /\ Fits(Observed(b, now), y, reward, w, g) /\ Observed(b, now).claimed = b.claimed
            /\ ~b.claimed /\ now <= y.req => now <= CurrentMinutes(Observed(b, now))
        BY <3>1, <4>6, <4>7 DEF Fits
      <4>2. f(c)[d] = Observed(b, now)
        BY <3>4, <3>5, <3>8
      <4>3. Fits(f(c)[d], y, reward, w, g) /\ (f(c)[d].claimed <=> a.claimed)
            /\ now <= CurrentMinutes(f(c)[d])
        BY <3>2, <3>6, <3>8, <4>1, <4>2
      <4> QED
        BY <4>3 DEF y, w, g, reward, a, now
    <3>9. CASE ~a.claimed /\ ~(now > CurrentMinutes(b))
      <4>1. f(c)[d] = b
        BY <3>4, <3>5, <3>9
      <4>2. Fits(f(c)[d], y, reward, w, g) /\ (f(c)[d].claimed <=> a.claimed)
            /\ now <= CurrentMinutes(f(c)[d])
        <5>1. now <= CurrentMinutes(b)
          BY <3>6, <3>9
        <5>2. b.claimed <=> a.claimed
          BY <3>2, <3>6, <3>9
        <5> QED
          BY <3>1, <4>1, <5>1, <5>2
      <4> QED
        BY <4>2 DEF y, w, g, reward, a, now
    <3> QED
      BY <3>7, <3>8, <3>9
  <2>4. DOMAIN f(c) = DOMAIN plan[c].drops
    BY <2>1
  <2>5. m(c) = [cs[c] EXCEPT !.drops = f(c)]
    BY <1>3
  <2> DEFINE F == f(c)
             b == cs[c]
  <2>6. /\ FitsCampaign(b, plan[c], Credit, Taken) /\ DOMAIN F = DOMAIN plan[c].drops
        /\ \A d \in DOMAIN plan[c].drops :
             Fits(F[d], plan[c].drops[d], plan[c].reward, Credit[d], d \in Taken)
    BY <2>1, <2>3, <2>4
  <2> HIDE DEF F, b, f, cs, m, old
  <2>7. FitsCampaign([b EXCEPT !.drops = F], plan[c], Credit, Taken)
        /\ [b EXCEPT !.drops = F].drops = F
    BY <2>6, DropsReplaced
  <2>8. FitsCampaign(m(c), plan[c], Credit, Taken) /\ m(c).drops = f(c)
    BY <2>5, <2>7 DEF F, b
  <2> QED
    BY <2>3, <2>8
<1>4. \A c \in DOMAIN cs : skipped(c) => m(c) = cs[c]
  OBVIOUS
<1>5. \A c \in Rewards : c \notin Regular
  BY DEF Rewards
<1>6. \A c \in Rewards \cap DOMAIN cs :
         /\ c \notin DOMAIN snapshot => skipped(c)
         /\ c \in DOMAIN snapshot /\ clock < plan[c].ends => ~skipped(c)
  <2>1. \A c \in Rewards : clock \in Int /\ plan[c].ends \in Int
    <3>1. \A c \in Rewards : plan[c].ends \in Int
      BY PlanFacts DEF Rewards, IInv, Served, AsListed
    <3>2. clock \in Int
      BY DropsAssumption DEF IInv, Served
    <3> QED
      BY <3>1, <3>2
  <2> QED
    BY <1>5, <2>1
<1> HIDE DEF m, skipped
<1>7. /\ DOMAIN Merged(cs) = DOMAIN cs
      /\ \A c \in DOMAIN cs : Merged(cs)[c] = m(c)
  BY <1>1
<1>8. Whole(Merged(cs), plan, Credit, Taken)
  BY <1>2, <1>3, <1>4, <1>7 DEF Whole, Ids
<1> QED
  BY <1>3, <1>4, <1>6, <1>7, <1>8

LEMMA InstallStep ==
    ASSUME IInv, NEW goesOn \in BOOLEAN, Install(goesOn)
    PROVE  IInv'
<1>1. /\ UNCHANGED <<plan, clock, watched, granted, store, rewards, refresher, report, claim>>
      /\ snapshot' = Merged(run.next)
      /\ run' = IF goesOn THEN [run EXCEPT !.at = "games", !.next = <<>>] ELSE Idle
  BY DEF Install
<1>2. /\ DOMAIN run' = RunFields /\ run'.listed \in Nat /\ run'.now \in Nat
      /\ run'.queue \subseteq RegularDrops /\ DOMAIN run'.next = {}
      /\ run'.at = "idle" => run' = Idle
  <2>1. CASE goesOn
    <3>1. run' = [run EXCEPT !.at = "games", !.next = <<>>]
      BY <1>1, <2>1
    <3>2. run'.at = "games" /\ DOMAIN run'.next = {}
      BY <3>1 DEF IInv, Claims, RunFields
    <3> QED
      BY <3>1, <3>2 DEF IInv, Claims, RunFields
  <2>2. CASE ~goesOn
    <3>1. run' = Idle
      BY <1>1, <2>2
    <3> QED
      BY <3>1 DEF Idle, RunFields
  <2> QED
    BY <2>1, <2>2
<1>3. Whole(snapshot', plan, Credit, Taken) /\ DOMAIN snapshot' = DOMAIN run.next
  BY <1>1, MergedFacts
<1>4. Truthful'
  <2>1. Whole(run'.next, plan, Credit, Taken)
    BY <1>2 DEF Whole
  <2> QED
    BY <1>1, <1>3, <2>1, TruthfulKept DEF IInv
<1>5. ASSUME NEW c \in Rewards, clock < plan[c].ends, c \in DOMAIN run.next
      PROVE  IsClaimed(snapshot', c) <=> Done(rewards, c)
  <2>1. /\ ~IsClaimed(run.next, c)
        /\ c \notin DOMAIN snapshot => ~Done(rewards, c)
        /\ c \in DOMAIN snapshot => (IsClaimed(snapshot, c) <=> Done(rewards, c))
    BY <1>5 DEF IInv, Agreed
  <2>2. CASE c \notin DOMAIN snapshot
    <3>1. snapshot'[c] = run.next[c]
      BY <1>1, <1>5, <2>2, MergedFacts
    <3> QED
      BY <2>1, <2>2, <3>1 DEF IsClaimed
  <2>3. CASE c \in DOMAIN snapshot
    <3>1. \A d \in DOMAIN plan[c].drops :
             snapshot'[c].drops[d].claimed <=> snapshot[c].drops[d].claimed
      BY <1>1, <1>5, <2>3, MergedFacts
    <3> QED
      BY <2>1, <2>3, <3>1 DEF IsClaimed
  <2> QED
    BY <2>2, <2>3
<1>6. Agreed'
  <2>1. Rewards' = Rewards
    BY <1>1, SamePlan
  <2>2. \A c \in Rewards : clock < plan[c].ends => (Done(refresher, c) <=> Done(rewards, c))
    BY DEF IInv, Agreed
  <2> QED
    BY <1>1, <1>2, <1>3, <1>5, <2>1, <2>2 DEF Agreed, Done, IsClaimed
<1> QED
  BY <1>1, <1>2, <1>4, <1>6, RunStep DEF IInv

LEMMA SweepBeginsStep ==
    ASSUME IInv, SweepBegins
    PROVE  IInv'
<1> DEFINE ready == {d \in DropIds : /\ Known(d)
                                     /\ ~UpcomingAt(snapshot[CampaignOf(d)], clock)
                                     /\ Claimable(snapshot[CampaignOf(d)], d, clock)}
<1>1. /\ UNCHANGED <<plan, clock, watched, granted, snapshot, store, rewards, refresher,
                     report, claim>>
      /\ run' = [run EXCEPT !.at = "sweep", !.now = clock, !.queue = ready]
  BY DEF SweepBegins
<1>2. ASSUME NEW d \in ready
      PROVE  d \in RegularDrops
  <2> DEFINE c == CampaignOf(d)
  <2>1. d \in DropIds /\ c \in DOMAIN snapshot /\ snapshot[c].drops[d].claim
    BY DEF Known, Claimable
  <2>2. c \in Ids /\ d \in DOMAIN plan[c].drops
    BY <2>1, PlanFacts DEF IInv, Served
  <2>3. Fits(snapshot[c].drops[d], plan[c].drops[d], plan[c].reward, Credit[d],
             d \in Taken)
    BY <2>1, <2>2 DEF IInv, Truthful, Whole, FitsCampaign
  <2>4. ~plan[c].reward
    BY <2>1, <2>3 DEF Fits
  <2> QED
    BY <2>1, <2>2, <2>4 DEF RegularDrops, Regular
<1> HIDE DEF ready
<1>3. /\ DOMAIN run' = RunFields /\ run'.listed \in Nat /\ run'.now \in Nat
      /\ run'.queue = ready
      /\ run'.at = "sweep" /\ run'.next = run.next
  <2>1. clock \in Nat
    BY DropsAssumption DEF IInv, Served
  <2> QED
    BY <1>1, <2>1 DEF IInv, Claims, RunFields
<1>4. Truthful' /\ Agreed'
  BY <1>1, <1>3, TruthfulKept, AgreedKept DEF IInv
<1> QED
  BY <1>1, <1>2, <1>3, <1>4, RunStep DEF IInv

LEMMA SweepAsksStep ==
    ASSUME IInv, NEW d \in DropIds, SweepAsks(d)
    PROVE  IInv'
<1>1. /\ UNCHANGED <<plan, clock, watched, granted, snapshot, store, rewards, refresher,
                     report>>
      /\ d \in run.queue /\ run.at = "sweep"
      /\ run' = [run EXCEPT !.queue = @ \ {d}]
      /\ claim' = [claim EXCEPT !["sweep"] = [at |-> "ask", drop |-> d]]
  BY DEF SweepAsks
<1>2. /\ DOMAIN run' = RunFields /\ run'.listed \in Nat /\ run'.now \in Nat
      /\ run'.queue \subseteq RegularDrops
      /\ run'.at = "sweep" /\ run'.next = run.next /\ d \in RegularDrops
  BY <1>1 DEF IInv, Claims
<1>3. Claims'
  <2>1. RegularDrops' = RegularDrops
    BY <1>1, SamePlan
  <2>2. /\ [at |-> "ask", drop |-> d] \in [at : {"ask", "answer"}, drop : RegularDrops]
        /\ [at |-> "ask", drop |-> d].at # "answer"
    BY <1>2
  <2>3. /\ claim \in [Claimers -> {NoClaim} \cup
                        [at : {"ask", "answer"}, drop : RegularDrops]]
        /\ \A k \in Claimers : claim[k].at = "answer" => claim[k].drop \in DOMAIN granted
    BY DEF IInv, Claims
  <2>4. /\ claim' \in [Claimers -> {NoClaim} \cup
                        [at : {"ask", "answer"}, drop : RegularDrops]]
        /\ \A k \in Claimers : claim'[k].at = "answer" => claim'[k].drop \in DOMAIN granted
    BY <1>1, <2>2, <2>3
  <2> QED
    BY <1>1, <1>2, <2>1, <2>4 DEF Claims
<1>4. Served' /\ Truthful' /\ Counted' /\ RewardFile(rewards)' /\ RewardFile(refresher)'
      /\ Agreed'
  BY <1>1, <1>2, ServedKept, TruthfulKept, CountedKept, FilesKept, AgreedKept DEF IInv
<1> QED
  BY <1>3, <1>4 DEF IInv

LEMMA SweepEndsStep ==
    ASSUME IInv, NEW timedOut, SweepEnds(timedOut)
    PROVE  IInv'
<1>1. /\ UNCHANGED <<plan, clock, watched, granted, snapshot, store, rewards, refresher,
                     report, claim>>
      /\ run' = Idle
  BY DEF SweepEnds
<1>2. /\ DOMAIN run' = RunFields /\ run'.listed \in Nat /\ run'.now \in Nat
      /\ run'.queue = {}
      /\ DOMAIN run'.next = {}
  BY <1>1 DEF Idle, RunFields
<1>3. Truthful' /\ Agreed'
  <2>1. Whole(run'.next, plan, Credit, Taken) /\ DOMAIN run'.next \subseteq Regular
    BY <1>2 DEF Whole
  <2> QED
    BY <1>1, <2>1, TruthfulKept, AgreedKept DEF IInv
<1> QED
  BY <1>1, <1>2, <1>3, RunStep DEF IInv

-----------------------------------------------------------------------------
(* Claims, and the end of the program.                                     *)

\* A drop of a regular campaign is replaced in memory.
LEMMA MemoryReplaced ==
    ASSUME IInv, NEW d \in RegularDrops, CampaignOf(d) \in DOMAIN snapshot, NEW x,
           Fits(x, plan[CampaignOf(d)].drops[d], FALSE, Credit[d], d \in Taken),
           snapshot' = [snapshot EXCEPT ![CampaignOf(d)].drops[d] = x],
           UNCHANGED <<plan, clock, watched, granted, rewards, refresher, run>>
    PROVE  Truthful' /\ Agreed'
<1> DEFINE c == CampaignOf(d)
           o == [snapshot[c] EXCEPT !.drops[d] = x]
<1>1. /\ c \in DOMAIN snapshot /\ c \in Ids /\ c \in Regular /\ d \in DOMAIN plan[c].drops
      /\ AsListed(plan[c]) /\ plan[c].reward = FALSE
      /\ FitsCampaign(snapshot[c], plan[c], Credit, Taken)
  <2>1. c \in Ids /\ c \in Regular /\ d \in DOMAIN plan[c].drops /\ AsListed(plan[c])
        /\ ~plan[c].reward
    BY PlanFacts DEF RegularDrops, Regular, IInv, Served
  <2>2. FitsCampaign(snapshot[c], plan[c], Credit, Taken)
    BY DEF IInv, Truthful, Whole
  <2> QED
    BY <2>1, <2>2 DEF AsListed
<1>2. snapshot' = [snapshot EXCEPT ![c] = o]
  OBVIOUS
<1>3. Fits(x, plan[c].drops[d], plan[c].reward, Credit[d], d \in Taken)
  BY <1>1
<1> DEFINE b == snapshot[c]
<1> HIDE DEF c
<1>4. /\ DOMAIN o = DOMAIN b /\ o.id = b.id /\ o.game = b.game /\ o.reward = b.reward
      /\ o.starts = b.starts /\ o.ends = b.ends
      /\ DOMAIN o.drops = DOMAIN b.drops /\ o.drops[d] = x
      /\ \A e \in DOMAIN plan[c].drops \ {d} : o.drops[e] = b.drops[e]
  BY <1>1 DEF FitsCampaign, CampaignFields
<1> HIDE DEF o
<1>5. FitsCampaign(o, plan[c], Credit, Taken)
  BY <1>1, <1>3, <1>4, DropReplaced
<1>6. /\ Whole(snapshot', plan, Credit, Taken)
      /\ DOMAIN snapshot' = DOMAIN snapshot
      /\ \A e \in DOMAIN snapshot \ {c} : snapshot'[e] = snapshot[e]
  <2>1. /\ DOMAIN snapshot' = DOMAIN snapshot /\ snapshot'[c] = o
        /\ \A e \in DOMAIN snapshot \ {c} : snapshot'[e] = snapshot[e]
    BY <1>1, <1>2
  <2> QED
    BY <1>5, <2>1 DEF IInv, Truthful, Whole
<1>7. c \notin Rewards
  BY <1>1 DEF Rewards
<1> QED
  BY <1>6, <1>7, TruthfulKept, AgreedKept DEF IInv

LEMMA EventClaimsStep ==
    ASSUME IInv, NEW d \in DropIds, EventClaims(d)
    PROVE  IInv'
<1> DEFINE c == CampaignOf(d)
           x == [snapshot[c].drops[d] EXCEPT !.claim = TRUE]
<1>1. /\ UNCHANGED <<plan, clock, watched, granted, store, rewards, refresher, run, report>>
      /\ ~plan[c].reward /\ c \in DOMAIN snapshot
      /\ snapshot' = [snapshot EXCEPT ![c].drops[d] = x]
      /\ claim' = [claim EXCEPT !["event"] = [at |-> "ask", drop |-> d]]
  BY DEF EventClaims, Known
<1>2. d \in RegularDrops /\ c \in Ids /\ d \in DOMAIN plan[c].drops /\ AsListed(plan[c])
  BY <1>1, PlanFacts DEF RegularDrops, Regular, IInv, Served
<1>3. Fits(x, plan[c].drops[d], FALSE, Credit[d], d \in Taken)
  <2>1. Fits(snapshot[c].drops[d], plan[c].drops[d], FALSE, Credit[d], d \in Taken)
    <3>1. Fits(snapshot[c].drops[d], plan[c].drops[d], plan[c].reward, Credit[d],
               d \in Taken)
      BY <1>1, <1>2 DEF IInv, Truthful, Whole, FitsCampaign
    <3>2. plan[c].reward = FALSE
      BY <1>1, <1>2 DEF AsListed
    <3> QED
      BY <3>1, <3>2
  <2>2. Credit[d] \in Nat
    BY CreditFacts DEF IInv
  <2> HIDE DEF c
  <2> QED
    BY <2>1, <2>2, ClaimIdFits
<1> HIDE DEF x
<1>4. Truthful' /\ Agreed'
  BY <1>1, <1>2, <1>3, MemoryReplaced
<1>5. Claims'
  <2>1. RegularDrops' = RegularDrops
    BY <1>1, SamePlan
  <2>2. /\ [at |-> "ask", drop |-> d] \in [at : {"ask", "answer"}, drop : RegularDrops]
        /\ [at |-> "ask", drop |-> d].at # "answer"
    BY <1>2
  <2>3. /\ claim \in [Claimers -> {NoClaim} \cup
                        [at : {"ask", "answer"}, drop : RegularDrops]]
        /\ \A k \in Claimers : claim[k].at = "answer" => claim[k].drop \in DOMAIN granted
    BY DEF IInv, Claims
  <2>4. /\ claim' \in [Claimers -> {NoClaim} \cup
                        [at : {"ask", "answer"}, drop : RegularDrops]]
        /\ \A k \in Claimers : claim'[k].at = "answer" => claim'[k].drop \in DOMAIN granted
    BY <1>1, <2>2, <2>3
  <2> QED
    BY <1>1, <2>1, <2>4 DEF IInv, Claims
<1>6. Served' /\ Counted' /\ RewardFile(rewards)' /\ RewardFile(refresher)'
  BY <1>1, ServedKept, CountedKept, FilesKept DEF IInv
<1> QED
  BY <1>4, <1>5, <1>6 DEF IInv

LEMMA ClaimOf ==
    ASSUME IInv, NEW k \in Claimers, claim[k] # NoClaim \/ claim[k].at \in {"ask", "answer"}
    PROVE  /\ claim[k].drop \in RegularDrops /\ claim[k].drop \in DropIds
           /\ claim[k].at \in {"ask", "answer"}
           /\ claim[k].at = "answer" => claim[k].drop \in DOMAIN granted
<1>1. claim[k] \in {NoClaim} \cup [at : {"ask", "answer"}, drop : RegularDrops]
  BY DEF IInv, Claims
<1>2. claim[k] \in [at : {"ask", "answer"}, drop : RegularDrops]
  BY <1>1 DEF NoClaim
<1> QED
  BY <1>2 DEF IInv, Claims, RegularDrops

LEMMA ClaimServedStep ==
    ASSUME IInv, NEW k \in Claimers, ClaimServed(k)
    PROVE  IInv'
<1> DEFINE d == claim[k].drop
<1>1. /\ UNCHANGED <<plan, clock, watched, snapshot, store, rewards, refresher, run, report>>
      /\ claim[k].at = "ask"
      /\ claim' = [claim EXCEPT ![k].at = "answer"]
      /\ granted' = [e \in DOMAIN granted \cup {d} |->
                        IF e \in DOMAIN granted THEN granted[e] ELSE clock]
  BY DEF ClaimServed
<1>2. d \in RegularDrops /\ d \in DropIds
  BY <1>1, ClaimOf
<1>3. /\ DOMAIN granted' = DOMAIN granted \cup {d} /\ DOMAIN granted \subseteq DOMAIN granted'
      /\ \A e \in DOMAIN granted : granted'[e] = granted[e]
      /\ d \notin DOMAIN granted => granted'[d] = clock
  BY <1>1
<1>4. Served'
  <2>1. DropIds' = DropIds /\ RegularDrops' = RegularDrops
        /\ \A e : MaxWatched(e)' = MaxWatched(e)
    BY <1>1, SamePlan
  <2>2. /\ DOMAIN granted' \subseteq DropIds
        /\ \A e \in DOMAIN granted' : granted'[e] \in 0..MaxClock
    BY <1>2, <1>3 DEF IInv, Served
  <2> QED
    BY <1>1, <2>1, <2>2 DEF IInv, Served
<1>5. Truthful'
  <2>1. /\ Credit' = Credit /\ Credit \in [DropIds -> Nat]
        /\ \A e \in DropIds : Credit[e] <= Credit[e]
        /\ \A c \in DOMAIN plan : DOMAIN plan[c].drops \subseteq DropIds
    <3>1. Credit' = Credit
      BY <1>1, SamePlan
    <3>2. Credit \in [DropIds -> Nat] /\ \A c \in Ids : DOMAIN plan[c].drops \subseteq DropIds
      BY CreditFacts DEF IInv
    <3> QED
      BY <3>1, <3>2 DEF Ids
  <2>2. Whole(snapshot, plan, Credit, Taken)
        /\ Whole(run.next, plan, Credit, Taken)
    BY DEF IInv, Truthful
  <2>3. Taken \subseteq Taken'
    <3>1. DropIds' = DropIds
          /\ \A e : CampaignOf(e)' = CampaignOf(e) /\ DropOf(e)' = DropOf(e)
      BY <1>1, SamePlan
    <3>2. \A e : Mistakable(e) => Mistakable(e)'
      BY <1>3, <3>1 DEF Mistakable
    <3> QED
      BY <1>3, <3>1, <3>2 DEF Taken
  <2>4. Whole(snapshot, plan, Credit, Taken')
        /\ Whole(run.next, plan, Credit, Taken')
    BY <2>1, <2>2, <2>3, WholeGrows
  <2> QED
    BY <1>1, <2>1, <2>4 DEF Truthful
<1>6. Claims'
  <2>1. RegularDrops' = RegularDrops
    BY <1>1, SamePlan
  <2>2. /\ claim \in [Claimers -> {NoClaim} \cup
                        [at : {"ask", "answer"}, drop : RegularDrops]]
        /\ claim[k] \in [at : {"ask", "answer"}, drop : RegularDrops]
        /\ \A j \in Claimers : claim[j].at = "answer" => claim[j].drop \in DOMAIN granted
    BY <1>1 DEF IInv, Claims, NoClaim
  <2>3. /\ claim'[k] \in [at : {"ask", "answer"}, drop : RegularDrops]
        /\ claim'[k].drop = d
        /\ \A j \in Claimers \ {k} : claim'[j] = claim[j]
        /\ DOMAIN claim' = Claimers
    BY <1>1, <2>2
  <2>4. claim' \in [Claimers -> {NoClaim} \cup
                        [at : {"ask", "answer"}, drop : RegularDrops]]
    BY <1>1, <2>2, <2>3
  <2>5. \A j \in Claimers : claim'[j].at = "answer" => claim'[j].drop \in DOMAIN granted'
    BY <1>3, <2>2, <2>3
  <2> QED
    BY <1>1, <2>1, <2>4, <2>5 DEF IInv, Claims
<1>7. Counted' /\ RewardFile(rewards)' /\ RewardFile(refresher)' /\ Agreed'
  BY <1>1, CountedKept, FilesKept, AgreedKept DEF IInv
<1> QED
  BY <1>4, <1>5, <1>6, <1>7 DEF IInv

\* A claim that is over leaves nothing behind but what it did to memory.
LEMMA ClaimOver ==
    ASSUME Claims, UNCHANGED <<plan, run, granted>>, NEW k \in Claimers,
           claim' = [claim EXCEPT ![k] = NoClaim]
    PROVE  Claims'
<1>1. RegularDrops' = RegularDrops
  BY SamePlan
<1>2. /\ claim' \in [Claimers -> {NoClaim} \cup
                        [at : {"ask", "answer"}, drop : RegularDrops]]
      /\ \A j \in Claimers : claim'[j].at = "answer" => claim'[j].drop \in DOMAIN granted
  BY DEF Claims, NoClaim
<1> QED
  BY <1>1, <1>2 DEF Claims

LEMMA ClaimAnsweredStep ==
    ASSUME IInv, NEW k \in Claimers, ClaimAnswered(k)
    PROVE  IInv'
<1> DEFINE d == claim[k].drop
           c == CampaignOf(d)
           x == MarkedClaimed(snapshot[c].drops[d])
<1>1. /\ UNCHANGED <<plan, clock, watched, granted, store, rewards, refresher, run, report>>
      /\ claim[k].at = "answer" /\ claim' = [claim EXCEPT ![k] = NoClaim]
      /\ snapshot' = IF c \in DOMAIN snapshot THEN [snapshot EXCEPT ![c].drops[d] = x]
                     ELSE snapshot
  BY DEF ClaimAnswered, Known
<1>2. d \in RegularDrops /\ d \in DropIds /\ d \in Taken
  BY <1>1, ClaimOf DEF Taken
<1> HIDE DEF d
<1>3. CASE c \notin DOMAIN snapshot
  BY <1>1, <1>3, TruthfulKept, AgreedKept, ServedKept, CountedKept, FilesKept, ClaimOver
     DEF IInv
<1>4. CASE c \in DOMAIN snapshot
  <2>1. c \in Ids /\ d \in DOMAIN plan[c].drops /\ AsListed(plan[c]) /\ ~plan[c].reward
    BY <1>2, PlanFacts DEF RegularDrops, Regular, IInv, Served
  <2>2. /\ Fits(snapshot[c].drops[d], plan[c].drops[d], FALSE, Credit[d], d \in Taken)
        /\ plan[c].drops[d].req \in Nat /\ Credit[d] \in Nat
    <3>1. Fits(snapshot[c].drops[d], plan[c].drops[d], plan[c].reward, Credit[d],
               d \in Taken)
      BY <1>4, <2>1 DEF IInv, Truthful, Whole, FitsCampaign
    <3>2. plan[c].reward = FALSE /\ plan[c].drops[d].req \in Nat
      BY <2>1 DEF AsListed
    <3>3. Credit[d] \in Nat
      BY <1>2, CreditFacts DEF IInv
    <3> QED
      BY <3>1, <3>2, <3>3
  <2> DEFINE a == snapshot[c].drops[d]
             y == plan[c].drops[d]
             g == d \in Taken
  <2>3. Fits(x, y, FALSE, Credit[d], g)
    <3>1. Fits(a, y, FALSE, Credit[d], g) /\ y.req \in Nat /\ Credit[d] \in Nat /\ g
      BY <1>2, <2>2
    <3> HIDE DEF y, g, a
    <3>2. Fits(MarkedClaimed(a), y, FALSE, Credit[d], g)
      BY <3>1, MarkedFits
    <3> QED
      BY <3>2 DEF a
  <2>4. snapshot' = [snapshot EXCEPT ![c].drops[d] = x]
    BY <1>1, <1>4
  <2> HIDE DEF x
  <2>5. Truthful' /\ Agreed'
    BY <1>1, <1>2, <1>4, <2>3, <2>4, MemoryReplaced
  <2> QED
    BY <1>1, <2>5, ServedKept, CountedKept, FilesKept, ClaimOver DEF IInv
<1> QED
  BY <1>3, <1>4

LEMMA ClaimFailsStep ==
    ASSUME IInv, NEW k \in Claimers, ClaimFails(k)
    PROVE  IInv'
<1>1. /\ UNCHANGED <<plan, clock, watched, granted, snapshot, store, rewards, refresher, run,
                     report>>
      /\ claim' = [claim EXCEPT ![k] = NoClaim]
  BY DEF ClaimFails
<1> QED
  BY <1>1, TruthfulKept, AgreedKept, ServedKept, CountedKept, FilesKept, ClaimOver DEF IInv

LEMMA CrashStep ==
    ASSUME IInv, Crash
    PROVE  IInv'
<1>1. /\ UNCHANGED <<plan, clock, watched, granted, store, rewards>>
      /\ snapshot' = <<>> /\ refresher' = rewards /\ run' = Idle
      /\ report' = [r \in Reporters |-> NoReport]
      /\ claim' = [k \in Claimers |-> NoClaim]
  BY DEF Crash
<1>2. /\ DOMAIN snapshot' = {} /\ DOMAIN run'.next = {} /\ run'.queue = {}
      /\ DOMAIN run' = RunFields /\ run'.listed \in Nat /\ run'.now \in Nat
  BY <1>1 DEF Idle, RunFields
<1>3. Truthful'
  <2>1. Whole(snapshot', plan, Credit, Taken)
        /\ Whole(run'.next, plan, Credit, Taken)
    BY <1>2 DEF Whole
  <2> QED
    BY <1>1, <2>1, TruthfulKept DEF IInv
<1>4. Credit' = Credit /\ DropIds' = DropIds /\ Rewards' = Rewards
      /\ RegularDrops' = RegularDrops
  BY <1>1, SamePlan
<1>5. Counted'
  BY <1>1, <1>4 DEF IInv, Counted
<1>6. RewardFile(rewards)' /\ RewardFile(refresher)'
  BY <1>1, <1>4 DEF IInv, RewardFile
<1>7. Claims'
  BY <1>1, <1>2, <1>4 DEF Claims, NoClaim
<1>8. Agreed'
  BY <1>1, <1>2 DEF Agreed, Done
<1>9. Served'
  BY <1>1, ServedKept DEF IInv
<1> QED
  BY <1>3, <1>5, <1>6, <1>7, <1>8, <1>9 DEF IInv

-----------------------------------------------------------------------------
(* The theorems.                                                           *)

LEMMA StutterStep ==
    ASSUME IInv, UNCHANGED vars
    PROVE  IInv'
<1>1. UNCHANGED <<plan, clock, watched, granted, snapshot, store, rewards, refresher, run,
                  report, claim>>
  BY DEF vars
<1> QED
  BY <1>1, ServedKept, TruthfulKept, CountedKept, FilesKept, ClaimsKept, AgreedKept DEF IInv

LEMMA Step ==
    ASSUME IInv, [Next]_vars
    PROVE  IInv'
<1>1. CASE Tick
  BY <1>1, TickStep
<1>2. CASE \E d \in DropIds : TwitchCounts(d) \/ EventClaims(d)
  BY <1>2, CountsStep, EventClaimsStep
<1>3. CASE \E r \in Reporters, d \in DropIds : \E m \in 1..MaxWatched(d) : Observe(r, d, m)
  BY <1>3, ObserveStep
<1>4. CASE \E r \in Reporters, saved \in BOOLEAN : Record(r, saved)
  BY <1>4, RecordStep
<1>5. CASE BumpRegular
  BY <1>5, BumpRegularStep
<1>6. CASE \E saved \in BOOLEAN : BumpReward(saved)
  BY <1>6, BumpRewardStep
<1>7. CASE Reload
  BY <1>7, ReloadBeginStep, ReadCampaignsStep, ReadRewardsStep, ReloadFailsStep, InstallStep,
     SweepBeginsStep, SweepAsksStep, SweepEndsStep DEF Reload
<1>8. CASE \E k \in Claimers : ClaimServed(k) \/ ClaimAnswered(k) \/ ClaimFails(k)
  BY <1>8, ClaimServedStep, ClaimAnsweredStep, ClaimFailsStep
<1>9. CASE Crash
  BY <1>9, CrashStep
<1>10. CASE UNCHANGED vars
  BY <1>10, StutterStep
<1> QED
  BY <1>1, <1>2, <1>3, <1>4, <1>5, <1>6, <1>7, <1>8, <1>9, <1>10 DEF Next

\* What the proofs below rest on: memory never says more than Twitch granted
\* and counted, and the file of rewards, the refresher and memory agree, between
\* any two steps of the goroutines (scheduler/drop_progress.go, claim.go,
\* states_inventory.go).
THEOREM Inductive == Spec => []IInv
<1>1. Init => IInv
  BY InitIInv
<1>2. IInv /\ [Next]_vars => IInv'
  BY Step
<1> QED
  BY <1>1, <1>2, PTL DEF Spec

\* Every variable holds what the code could hold: minutes of a drop within what
\* it requires, estimates of a regular one within their limit, files of drops
\* and of reward campaigns that exist.
THEOREM TypeCorrect == Spec => []TypeOK
<1>1. IInv => TypeOK
  <2> SUFFICES ASSUME IInv PROVE TypeOK
    OBVIOUS
  <2>1. ASSUME NEW cs, Whole(cs, plan, Credit, Taken)
        PROVE  /\ DOMAIN cs \subseteq Ids
               /\ \A c \in DOMAIN cs : \A d \in DOMAIN plan[c].drops :
                    LET x == cs[c].drops[d]
                    IN  /\ x.real \in 0..x.req
                        /\ x.extra \in 0..(IF plan[c].reward THEN x.req ELSE MaxExtraMinutes)
                        /\ CurrentMinutes(x) <= x.req
    <3>1. DOMAIN cs \subseteq Ids
      BY <2>1 DEF Whole, Ids
    <3>2. ASSUME NEW c \in DOMAIN cs, NEW d \in DOMAIN plan[c].drops
          PROVE  LET x == cs[c].drops[d]
                 IN  /\ x.real \in 0..x.req
                     /\ x.extra \in 0..(IF plan[c].reward THEN x.req ELSE MaxExtraMinutes)
                     /\ CurrentMinutes(x) <= x.req
      <4> DEFINE x == cs[c].drops[d]
      <4>1. /\ Fits(x, plan[c].drops[d], plan[c].reward, Credit[d], d \in Taken)
            /\ plan[c].drops[d].req \in Nat
        <5>1. c \in Ids
          BY <3>1
        <5>2. AsListed(plan[c])
          BY <5>1, PlanFacts DEF IInv, Served
        <5> QED
          BY <2>1, <5>2 DEF Whole, FitsCampaign, AsListed
      <4> HIDE DEF x
      <4>2. /\ x.real \in Nat /\ x.extra \in Nat /\ x.req \in Nat /\ x.real + x.extra <= x.req
            /\ ~plan[c].reward => x.extra <= MaxExtraMinutes
        BY <4>1 DEF Fits
      <4>3. /\ x.real \in 0..x.req
            /\ x.extra \in 0..(IF plan[c].reward THEN x.req ELSE MaxExtraMinutes)
            /\ CurrentMinutes(x) <= x.req
        BY <4>2, RulesAssumption DEF CurrentMinutes
      <4> QED
        BY <4>3 DEF x
    <3> QED
      BY <3>1, <3>2
  <2>2. /\ Whole(snapshot, plan, Credit, Taken)
        /\ Whole(run.next, plan, Credit, Taken)
    BY DEF IInv, Truthful
  <2>3. /\ clock \in 0..MaxClock
        /\ \A d \in DropIds : watched[d] \in 0..MaxWatched(d)
        /\ DOMAIN granted \subseteq DropIds
        /\ \A d \in DOMAIN granted : granted[d] \in 0..MaxClock
    BY CreditFacts DEF IInv, Served
  <2>4. /\ \A d \in DropIds : store[d] \in 0..MaxWatched(d)
        /\ report \in [Reporters -> {NoReport} \cup [drop : DropIds, minutes : Nat]]
    <3>1. ASSUME NEW d \in DropIds
          PROVE  store[d] \in 0..MaxWatched(d)
      <4>1. store[d] \in Nat /\ store[d] <= Credit[d] /\ Credit[d] \in Nat
            /\ Credit[d] <= MaxWatched(d) /\ MaxWatched(d) \in Nat
        BY CreditFacts DEF IInv, Counted
      <4> QED
        BY <4>1
    <3> QED
      BY <3>1 DEF IInv, Counted
  <2>5. DOMAIN rewards \subseteq Ids \ Regular /\ DOMAIN refresher \subseteq Ids \ Regular
    BY DEF IInv, RewardFile, Rewards
  <2>6. claim \in [Claimers -> {NoClaim} \cup [at : {"ask", "answer"}, drop : DropIds]]
    <3>1. claim \in [Claimers -> {NoClaim} \cup
                        [at : {"ask", "answer"}, drop : RegularDrops]]
      BY DEF IInv, Claims
    <3>2. [at : {"ask", "answer"}, drop : RegularDrops]
             \subseteq [at : {"ask", "answer"}, drop : DropIds]
      BY DEF RegularDrops
    <3> QED
      BY <3>1, <3>2
  <2> QED
    BY <2>1, <2>2, <2>3, <2>4, <2>5, <2>6 DEF TypeOK
<1> QED
  BY <1>1, Inductive, PTL

\* A drop in memory is what its campaign's entry says of it.
LEMMA MemoryFits ==
    ASSUME IInv, NEW d \in DropIds, Known(d)
    PROVE  /\ d \in DOMAIN plan[CampaignOf(d)].drops
           /\ Fits(InMemory(d), plan[CampaignOf(d)].drops[d], plan[CampaignOf(d)].reward,
                   Credit[d], d \in Taken)
<1>1. d \in DOMAIN plan[CampaignOf(d)].drops
  BY PlanFacts DEF IInv, Served
<1> QED
  BY <1>1 DEF Known, InMemory, IInv, Truthful, Whole, FitsCampaign

\* A regular drop that is not claimed never shows more reported minutes than
\* Twitch counted for it, whatever reports are late, recorded under another drop
\* of its counter, or seeded into a reload (ObserveMinutes, sharesCounter,
\* seedObservedProgress).
THEOREM NeverOverstatedAlways == Spec => []NeverOverstated
<1>1. IInv => NeverOverstated
  <2> SUFFICES ASSUME IInv, NEW d \in DropIds, Short(d), CampaignOf(d) \in Regular
               PROVE  InMemory(d).real <= watched[Counter(d)]
    BY DEF NeverOverstated
  <2>1. ~plan[CampaignOf(d)].reward /\ Known(d) /\ ~InMemory(d).claimed
    BY DEF Regular, Short
  <2>2. InMemory(d).real <= Credit[d]
    BY <2>1, MemoryFits DEF Fits
  <2>3. Credit[d] = watched[Counter(d)]
    BY CreditFacts DEF IInv
  <2> QED
    BY <2>2, <2>3
<1> QED
  BY <1>1, Inductive, PTL

\* What memory has claimed was granted by Twitch, whether the sweep or an event
\* claimed it, and whatever became of the answers (claim.go); or Twitch is silent
\* on its campaign and granted a drop with a benefit of its own in its window.
THEOREM ClaimedTrulyAlways == Spec => []ClaimedTruly
<1>1. IInv => ClaimedTruly
  <2> SUFFICES ASSUME IInv, NEW d \in DropIds, Known(d), CampaignOf(d) \in Regular,
                      InMemory(d).claimed
               PROVE  d \in DOMAIN granted \/ Mistakable(d)
    BY DEF ClaimedTruly
  <2>1. ~plan[CampaignOf(d)].reward
    BY DEF Regular
  <2>2. d \in Taken
    BY <2>1, MemoryFits DEF Fits
  <2> QED
    BY <2>2 DEF Taken
<1> QED
  BY <1>1, Inductive, PTL

\* The one drop of a reward campaign in memory.
LEMMA RewardFacts ==
    ASSUME IInv, NEW c \in DOMAIN snapshot \ Regular
    PROVE  /\ c \in Rewards /\ DOMAIN plan[c].drops = {TheDrop(plan[c])}
           /\ TheDrop(plan[c]) \in DOMAIN plan[c].drops
           /\ RewardOf(c) = snapshot[c].drops[TheDrop(plan[c])]
           /\ IsClaimed(snapshot, c) <=> RewardOf(c).claimed
<1>1. c \in Ids /\ c \in Rewards
  BY DEF IInv, Truthful, Whole, Ids, Rewards
<1>2. AsListed(plan[c]) /\ plan[c].reward
  BY <1>1, PlanFacts DEF Regular, IInv, Served
<1>3. DOMAIN plan[c].drops = {TheDrop(plan[c])}
  BY <1>2, OneDrop
<1>4. RewardOf(c) = snapshot[c].drops[TheDrop(plan[c])]
  BY DEF RewardOf, TheDrop
<1>5. IsClaimed(snapshot, c) <=> RewardOf(c).claimed
  BY <1>3, <1>4 DEF IsClaimed
<1> QED
  BY <1>1, <1>3, <1>4, <1>5

\* While a reward campaign lasts, it is claimed in memory exactly when its file
\* has it complete, over failed writes, reloads under way and restarts
\* (recordRewardCompletedLocked, mergeRewardProgressLocked).
THEOREM RewardSavedAlways == Spec => []RewardSaved
<1>1. IInv => RewardSaved
  <2> SUFFICES ASSUME IInv, NEW c \in DOMAIN snapshot \ Regular, clock < plan[c].ends
               PROVE  RewardOf(c).claimed <=> (c \in DOMAIN rewards /\ rewards[c].completed)
    BY DEF RewardSaved
  <2>1. c \in Rewards /\ (IsClaimed(snapshot, c) <=> RewardOf(c).claimed)
    BY RewardFacts
  <2>2. IsClaimed(snapshot, c) <=> Done(rewards, c)
    BY <2>1 DEF IInv, Agreed
  <2> QED
    BY <2>1, <2>2 DEF Done
<1> QED
  BY <1>1, Inductive, PTL

LEMMA SamePlanStep ==
    ASSUME [Next]_vars
    PROVE  plan' = plan
BY DEF Next, vars, Tick, TwitchCounts, EventClaims, Observe, Record, BumpRegular, BumpReward,
   Reload, ReloadBegin, ReadCampaigns, ReadRewards, Install, SweepBegins, SweepAsks, SweepEnds,
   ReloadFails, ClaimServed, ClaimAnswered, ClaimFails, Crash

\* Only a bump of the reward and the end of a reload change what memory has of
\* a reward.
LEMMA RewardsAlone ==
    ASSUME IInv, [Next]_vars, ~(\E saved \in BOOLEAN : BumpReward(saved)),
           ~(\E goesOn \in BOOLEAN : Install(goesOn)), ~Crash
    PROVE  \A c \in Rewards \cap DOMAIN snapshot : snapshot'[c] = snapshot[c]
<1>1. ASSUME NEW d \in DropIds, NEW r \in Reporters, NEW m \in 1..MaxWatched(d),
             Observe(r, d, m)
      PROVE  \A c \in Rewards \cap DOMAIN snapshot : snapshot'[c] = snapshot[c]
  <2>1. d \in RegularDrops
    BY <1>1, CountedRegular DEF Observe
  <2>2. CampaignOf(d) \notin Rewards
    BY <2>1 DEF RegularDrops, Rewards
  <2> QED
    BY <1>1, <2>2 DEF Observe
<1>2. ASSUME BumpRegular
      PROVE  \A c \in Rewards \cap DOMAIN snapshot : snapshot'[c] = snapshot[c]
  <2>1. PICK c \in Bumped :
           /\ ~c.reward
           /\ snapshot' = [snapshot EXCEPT
                 ![c.id] = BumpMinutes(snapshot[c.id], clock, Channel, Settings.badges)]
    BY <1>2 DEF BumpRegular
  <2>2. c.id \notin Rewards
    BY <2>1, BumpedFacts
  <2> QED
    BY <2>1, <2>2
<1>3. ASSUME NEW d \in DropIds, EventClaims(d)
      PROVE  \A c \in Rewards \cap DOMAIN snapshot : snapshot'[c] = snapshot[c]
  <2>1. CampaignOf(d) \in Ids /\ ~plan[CampaignOf(d)].reward
    BY <1>3, PlanFacts DEF EventClaims, IInv, Served
  <2>2. CampaignOf(d) \notin Rewards
    BY <2>1 DEF Rewards, Regular
  <2> QED
    BY <1>3, <2>2 DEF EventClaims
<1>4. ASSUME NEW k \in Claimers, ClaimAnswered(k)
      PROVE  \A c \in Rewards \cap DOMAIN snapshot : snapshot'[c] = snapshot[c]
  <2>1. claim[k].drop \in RegularDrops
    BY <1>4, ClaimOf DEF ClaimAnswered
  <2>2. CampaignOf(claim[k].drop) \notin Rewards
    BY <2>1 DEF RegularDrops, Rewards
  <2> QED
    BY <1>4, <2>2 DEF ClaimAnswered
<1>5. CASE UNCHANGED snapshot
  BY <1>5
<1>6. \/ UNCHANGED snapshot
      \/ \E d \in DropIds : EventClaims(d)
      \/ \E r \in Reporters, d \in DropIds : \E m \in 1..MaxWatched(d) : Observe(r, d, m)
      \/ BumpRegular
      \/ \E k \in Claimers : ClaimAnswered(k)
  BY DEF Next, vars, Tick, TwitchCounts, Record, Reload, ReloadBegin, ReadCampaigns,
     ReadRewards, SweepBegins, SweepAsks, SweepEnds, ReloadFails, ClaimServed, ClaimFails
<1> QED
  BY <1>1, <1>2, <1>3, <1>4, <1>5, <1>6

LEMMA KeptStep ==
    ASSUME IInv, IInv', [Next]_vars,
           NEW c \in (DOMAIN snapshot \cap DOMAIN snapshot') \ Regular, clock < plan[c].ends
    PROVE  CurrentMinutes(RewardOf(c)) <= CurrentMinutes(RewardOf(c)')
<1> DEFINE d == TheDrop(plan[c])
<1>1. /\ c \in Rewards /\ d \in DOMAIN plan[c].drops /\ RewardOf(c) = snapshot[c].drops[d]
      /\ RewardOf(c)' = snapshot'[c].drops[d]
  <2>1. plan' = plan
    BY SamePlanStep
  <2>2. c \in Rewards /\ d \in DOMAIN plan[c].drops /\ RewardOf(c) = snapshot[c].drops[d]
    BY RewardFacts
  <2>3. RewardOf(c)' = snapshot'[c].drops[d]
    BY <2>1 DEF RewardOf, TheDrop
  <2> QED
    BY <2>2, <2>3
<1>2. CurrentMinutes(snapshot[c].drops[d]) \in Nat
  <2>1. Fits(snapshot[c].drops[d], plan[c].drops[d], plan[c].reward, Credit[d],
             d \in Taken)
    BY <1>1 DEF IInv, Truthful, Whole, FitsCampaign
  <2> QED
    BY <2>1 DEF Fits, CurrentMinutes
<1> HIDE DEF d
<1>3. ASSUME NEW saved \in BOOLEAN, BumpReward(saved)
      PROVE  CurrentMinutes(snapshot[c].drops[d]) <= CurrentMinutes(snapshot'[c].drops[d])
  <2>1. PICK k \in DOMAIN snapshot, done \in BOOLEAN : \E x :
             /\ k \in Rewards /\ snapshot' = [snapshot EXCEPT ![k] = x]
             /\ FitsCampaign(x, plan[k], Credit, Taken)
             /\ \A e \in DOMAIN plan[k].drops :
                  /\ CurrentMinutes(snapshot[k].drops[e]) <= CurrentMinutes(x.drops[e])
                  /\ x.drops[e].claimed <=> (snapshot[k].drops[e].claimed \/ done)
             /\ \/ rewards' = rewards /\ ~done
                \/ \E m \in Nat : rewards' = Remembered(k, m, done)
             /\ refresher' = IF done THEN rewards' ELSE refresher
    BY <1>3, BumpRewardFacts
  <2>2. CASE c = k
    BY <1>1, <2>1, <2>2
  <2>3. CASE c # k
    <3>1. snapshot'[c] = snapshot[c]
      BY <2>1, <2>3
    <3> QED
      BY <1>2, <3>1
  <2> QED
    BY <2>2, <2>3
<1>4. ASSUME NEW goesOn \in BOOLEAN, Install(goesOn)
      PROVE  CurrentMinutes(snapshot[c].drops[d]) <= CurrentMinutes(snapshot'[c].drops[d])
  <2>1. snapshot' = Merged(run.next)
    BY <1>4 DEF Install
  <2>2. DOMAIN Merged(run.next) = DOMAIN run.next
    BY MergedFacts
  <2>3. c \in DOMAIN run.next
    BY <2>1, <2>2
  <2> QED
    BY <1>1, <2>1, <2>3, MergedFacts
<1>5. CASE Crash
  <2>1. DOMAIN snapshot' = {}
    BY <1>5 DEF Crash
  <2> QED
    BY <2>1
<1>6. CASE /\ ~(\E saved \in BOOLEAN : BumpReward(saved))
           /\ ~(\E goesOn \in BOOLEAN : Install(goesOn)) /\ ~Crash
  <2>1. snapshot'[c] = snapshot[c]
    BY <1>1, <1>6, RewardsAlone
  <2> QED
    BY <1>1, <1>2, <2>1
<1> QED
  BY <1>1, <1>3, <1>4, <1>5, <1>6

\* While a reward campaign lasts no step takes a minute from it: a reload that
\* started from an older count is merged with what memory got meanwhile
\* (mergeRewardProgressLocked).
THEOREM RewardKeptAlways == Spec => RewardKept
<1>1. ASSUME IInv, IInv', [Next]_vars
      PROVE  [\A c \in (DOMAIN snapshot \cap DOMAIN snapshot') \ Regular :
                clock < plan[c].ends =>
                    CurrentMinutes(RewardOf(c)) <= CurrentMinutes(RewardOf(c)')]_vars
  BY <1>1, KeptStep
<1> QED
  BY <1>1, Inductive, PTL DEF Spec, RewardKept

-----------------------------------------------------------------------------
(* What cannot be finished any more.                                       *)

\* The minutes that lie in two windows and are yet to come are those from the
\* latest beginning to the earliest end.
LEMMA MinutesLeft ==
    ASSUME NEW d, NEW c, NEW now \in Nat, d.starts \in Int, d.ends \in Int,
           c.starts \in Int, c.ends \in Int
    PROVE  LET from == Max({now, d.starts, c.starts})
               to == Min({d.ends, c.ends})
               minutes == {t \in now..c.ends : InWindow(d, t) /\ InWindow(c, t)}
           IN  /\ from \in Int /\ to \in Int
               /\ Cardinality(minutes) = IF to > from THEN to - from ELSE 0
<1> DEFINE from == Max({now, d.starts, c.starts})
           to == Min({d.ends, c.ends})
           minutes == {t \in now..c.ends : InWindow(d, t) /\ InWindow(c, t)}
<1>1. /\ from \in {now, d.starts, c.starts}
      /\ from >= now /\ from >= d.starts /\ from >= c.starts
  <2>1. IsFiniteSet({now, d.starts, c.starts})
    <3>1. IsFiniteSet(({now} \cup {d.starts}) \cup {c.starts})
      BY FS_Singleton, FS_Union
    <3>2. ({now} \cup {d.starts}) \cup {c.starts} = {now, d.starts, c.starts}
      OBVIOUS
    <3> QED
      BY <3>1, <3>2
  <2>2. {now, d.starts, c.starts} \in SUBSET Int /\ {now, d.starts, c.starts} # {}
    OBVIOUS
  <2> QED
    BY <2>1, <2>2, Extremes
<1>2. to \in {d.ends, c.ends} /\ to <= d.ends /\ to <= c.ends
  <2>1. IsFiniteSet({d.ends} \cup {c.ends})
    BY FS_Singleton, FS_Union
  <2>2. {d.ends} \cup {c.ends} = {d.ends, c.ends}
    OBVIOUS
  <2>3. {d.ends, c.ends} \in SUBSET Int /\ {d.ends, c.ends} # {}
    OBVIOUS
  <2> QED
    BY <2>1, <2>2, <2>3, Extremes
<1> HIDE DEF from, to
<1>3. from \in Int /\ to \in Int
  BY <1>1, <1>2
<1>4. minutes = from..(to - 1)
  BY <1>1, <1>2, <1>3 DEF InWindow
<1> HIDE DEF minutes
<1>5. Cardinality(minutes) = IF from > to - 1 THEN 0 ELSE (to - 1) - from + 1
  <2>1. to - 1 \in Int
    BY <1>3
  <2>2. Cardinality(from..(to - 1)) = IF from > to - 1 THEN 0 ELSE (to - 1) - from + 1
    BY <1>3, <2>1, FS_Interval
  <2> QED
    BY <1>4, <2>2
<1>6. Cardinality(minutes) = IF to > from THEN to - from ELSE 0
  BY <1>3, <1>5
<1> QED
  BY <1>3, <1>6 DEF from, to, minutes

\* There is enough time for a drop when there are as many minutes as it needs.
LEMMA EnoughMinutes ==
    ASSUME NEW d, NEW c, NEW now \in Nat, d.starts \in Int, d.ends \in Int,
           c.starts \in Int, c.ends \in Int, RemainingMinutes(d) \in Int
    PROVE  LET minutes == {t \in now..c.ends : InWindow(d, t) /\ InWindow(c, t)}
           IN  EnoughTime(c, d, now) <=> ~(Cardinality(minutes) < RemainingMinutes(d))
<1> DEFINE from == Max({now, d.starts, c.starts})
           to == Min({d.ends, c.ends})
           left == Cardinality({t \in now..c.ends : InWindow(d, t) /\ InWindow(c, t)})
           rest == RemainingMinutes(d)
<1>1. /\ from \in Int /\ to \in Int /\ rest \in Int
      /\ left = IF to > from THEN to - from ELSE 0
  BY MinutesLeft
<1>2. EnoughTime(c, d, now) <=> (rest <= 0 \/ (to > from /\ to - from >= rest))
  BY DEF EnoughTime
<1> HIDE DEF from, to, left, rest
<1>3. EnoughTime(c, d, now) <=> ~(left < rest)
  BY <1>1, <1>2
<1> QED
  BY <1>3 DEF left, rest

\* A campaign in memory, and its drops.
LEMMA MemoryTyped ==
    ASSUME IInv, NEW c \in Campaigns
    PROVE  /\ c.starts \in Int /\ c.ends \in Int
           /\ \A id \in DOMAIN c.drops :
                  /\ c.drops[id].starts \in Int /\ c.drops[id].ends \in Int
                  /\ RemainingMinutes(c.drops[id]) \in Int
<1>1. PICK i \in DOMAIN snapshot : c = snapshot[i]
  BY DEF Campaigns
<1>2. i \in Ids /\ FitsCampaign(c, plan[i], Credit, Taken)
  BY <1>1 DEF IInv, Truthful, Whole, Ids
<1>3. AsListed(plan[i])
  BY <1>2, PlanFacts DEF IInv, Served
<1>4. c.starts \in Int /\ c.ends \in Int
  BY <1>2, <1>3 DEF FitsCampaign, AsListed
<1>5. ASSUME NEW id \in DOMAIN c.drops
      PROVE  /\ c.drops[id].starts \in Int /\ c.drops[id].ends \in Int
             /\ RemainingMinutes(c.drops[id]) \in Int
  <2>1. /\ Fits(c.drops[id], plan[i].drops[id], plan[i].reward, Credit[id],
                id \in Taken)
        /\ plan[i].drops[id].req \in Nat
        /\ plan[i].drops[id].starts \in Int /\ plan[i].drops[id].ends \in Int
    BY <1>2, <1>3 DEF FitsCampaign, AsListed
  <2>2. /\ c.drops[id].starts \in Int /\ c.drops[id].ends \in Int
        /\ c.drops[id].req \in Nat /\ c.drops[id].real \in Nat /\ c.drops[id].extra \in Nat
    BY <2>1 DEF Fits
  <2> QED
    BY <2>2 DEF RemainingMinutes, CurrentMinutes
<1> QED
  BY <1>4, <1>5

\* A campaign is left out as unfinishable exactly when none of its drops can
\* be finished in the minutes left to it, for any windows of drops and
\* campaigns, and any minutes counted (campaignCertainlyUnfinishable).
THEOREM UnfinishableExactAlways == Spec => []UnfinishableExact
<1>1. IInv => UnfinishableExact
  <2> SUFFICES ASSUME IInv, NEW c \in Campaigns
               PROVE  LET targets == {c.drops[id] : id \in {x \in DOMAIN c.drops :
                                                              Target(c.drops[x])}}
                          minutes(d) == {t \in run.now..c.ends :
                                            InWindow(d, t) /\ InWindow(c, t)}
                      IN  CertainlyUnfinishable(c, run.now) <=>
                              /\ targets # {}
                              /\ \A d \in targets :
                                     Cardinality(minutes(d)) < RemainingMinutes(d)
    BY DEF UnfinishableExact
  <2> DEFINE minutes(d) == {t \in run.now..c.ends : InWindow(d, t) /\ InWindow(c, t)}
             wanted == {x \in DOMAIN c.drops : Target(c.drops[x])}
  <2>1. run.now \in Nat
    BY DropsAssumption DEF IInv, Claims
  <2>2. \A id \in wanted :
            EnoughTime(c, c.drops[id], run.now)
                <=> ~(Cardinality(minutes(c.drops[id])) < RemainingMinutes(c.drops[id]))
    BY <2>1, MemoryTyped, EnoughMinutes
  <2>3. CertainlyUnfinishable(c, run.now) <=>
            wanted # {} /\ \A id \in wanted : ~EnoughTime(c, c.drops[id], run.now)
    BY DEF CertainlyUnfinishable
  <2> HIDE DEF minutes, wanted
  <2>4. CertainlyUnfinishable(c, run.now) <=>
            /\ {c.drops[id] : id \in wanted} # {}
            /\ \A d \in {c.drops[id] : id \in wanted} :
                   Cardinality(minutes(d)) < RemainingMinutes(d)
    BY <2>2, <2>3
  <2> QED
    BY <2>4 DEF minutes, wanted
<1> QED
  BY <1>1, Inductive, PTL

-----------------------------------------------------------------------------
(* Orders.                                                                 *)

\* The pairs of R are a strict order on S, and elements it does not order are
\* level with one another.
WeakOrder(R, S) ==
    /\ \A x, y \in S : <<x, y>> \in R => <<y, x>> \notin R
    /\ \A x, y, z \in S : <<x, y>> \notin R /\ <<y, z>> \notin R => <<x, z>> \notin R

TotalOrder(R, S) ==
    /\ WeakOrder(R, S)
    /\ \A x, y \in S : x # y => <<x, y>> \in R \/ <<y, x>> \in R

InFront(R, S, x) == {y \in S : <<y, x>> \in R}

\* What comes later has more in front of it.
LEMMA FrontCounts ==
    ASSUME NEW S, IsFiniteSet(S), NEW R, WeakOrder(R, S)
    PROVE  /\ \A x \in S : /\ Cardinality(InFront(R, S, x)) \in Nat
                           /\ Cardinality(InFront(R, S, x)) < Cardinality(S)
           /\ \A x, z \in S : <<x, z>> \in R =>
                  Cardinality(InFront(R, S, x)) < Cardinality(InFront(R, S, z))
<1>1. ASSUME NEW T \in SUBSET S, NEW U \in SUBSET S, T \subseteq U, T # U
      PROVE  /\ Cardinality(T) \in Nat /\ Cardinality(U) \in Nat
             /\ Cardinality(T) < Cardinality(U)
  <2>1. IsFiniteSet(U)
    BY FS_Subset
  <2>2. /\ IsFiniteSet(T) /\ Cardinality(T) <= Cardinality(U)
        /\ Cardinality(U) # Cardinality(T)
    BY <1>1, <2>1, FS_Subset
  <2>3. Cardinality(T) \in Nat /\ Cardinality(U) \in Nat
    BY <2>1, <2>2, FS_CardinalityType
  <2> QED
    BY <2>2, <2>3
<1>2. ASSUME NEW x \in S
      PROVE  /\ Cardinality(InFront(R, S, x)) \in Nat
             /\ Cardinality(InFront(R, S, x)) < Cardinality(S)
  <2>1. InFront(R, S, x) \in SUBSET S /\ x \notin InFront(R, S, x)
    BY DEF InFront, WeakOrder
  <2> QED
    BY <1>1, <2>1
<1>3. ASSUME NEW x \in S, NEW z \in S, <<x, z>> \in R
      PROVE  Cardinality(InFront(R, S, x)) < Cardinality(InFront(R, S, z))
  <2>1. InFront(R, S, x) \in SUBSET S /\ InFront(R, S, z) \in SUBSET S
    BY DEF InFront
  <2>2. x \in InFront(R, S, z) /\ x \notin InFront(R, S, x)
    BY <1>3 DEF InFront, WeakOrder
  <2>3. InFront(R, S, x) \subseteq InFront(R, S, z)
    <3>1. SUFFICES ASSUME NEW y \in S, <<y, x>> \in R
                   PROVE  <<y, z>> \in R
      BY DEF InFront
    <3>2. <<z, x>> \notin R
      BY <1>3 DEF WeakOrder
    <3> QED
      BY <3>1, <3>2 DEF WeakOrder
  <2> QED
    BY <1>1, <2>1, <2>2, <2>3
<1> QED
  BY <1>2, <1>3

LEMMA HasFirst ==
    ASSUME NEW S, IsFiniteSet(S), S # {}, NEW R, WeakOrder(R, S)
    PROVE  \E m \in S : \A y \in S : <<y, m>> \notin R
<1> DEFINE count == [x \in S |-> Cardinality(InFront(R, S, x))]
           C == {count[x] : x \in S}
<1>1. count \in [S -> Nat] /\ \A x, z \in S : <<x, z>> \in R => count[x] < count[z]
  BY FrontCounts
<1> HIDE DEF count
<1>2. count \in Surjection(S, C)
  BY <1>1 DEF Surjection
<1>3. IsFiniteSet(C)
  BY <1>2, FS_Surjection
<1>4. C \in SUBSET Int /\ C # {}
  BY <1>1
<1>5. PICK k \in C : \A y \in C : k <= y
  BY <1>3, <1>4, HasExtremes
<1>6. PICK m \in S : k = count[m]
  OBVIOUS
<1>7. ASSUME NEW y \in S
      PROVE  <<y, m>> \notin R
  <2>1. count[m] <= count[y] /\ count[m] \in Nat /\ count[y] \in Nat
    BY <1>1, <1>5, <1>6
  <2> QED
    BY <1>1, <2>1
<1> QED
  BY <1>7

\* A finite set in a total order: everything once, in order.
LEMMA ArrangedIs ==
    ASSUME NEW S, IsFiniteSet(S), NEW R, TotalOrder(R, S)
    PROVE  LET a == Arranged(S, R)
               n == Cardinality(S)
           IN  /\ n \in Nat /\ a \in [1..n -> S]
               /\ \A x \in S : \E k \in 1..n : a[k] = x
               /\ \A i, j \in 1..n : i < j => <<a[i], a[j]>> \in R
               /\ \A i, j \in 1..n : a[i] = a[j] => i = j
<1> DEFINE n == Cardinality(S)
           a == Arranged(S, R)
           rank == [x \in S |-> Cardinality(InFront(R, S, x)) + 1]
<1>1. n \in Nat
  BY FS_CardinalityType
<1>2. /\ rank \in [S -> 1..n]
      /\ \A x, z \in S : <<x, z>> \in R => rank[x] < rank[z]
  <2>1. /\ \A x \in S : /\ Cardinality(InFront(R, S, x)) \in Nat
                        /\ Cardinality(InFront(R, S, x)) < n
        /\ \A x, z \in S : <<x, z>> \in R =>
               Cardinality(InFront(R, S, x)) < Cardinality(InFront(R, S, z))
    BY FrontCounts DEF TotalOrder
  <2> HIDE DEF n
  <2> QED
    BY <1>1, <2>1
<1>3. \A k \in 1..n : a[k] = CHOOSE x \in S : Cardinality(InFront(R, S, x)) = k - 1
  BY DEF Arranged, InFront
<1>4. DOMAIN a = 1..n /\ a = [k \in 1..n |-> a[k]]
  <2> DEFINE pick(k) == CHOOSE x \in S : Cardinality({y \in S : <<y, x>> \in R}) = k - 1
  <2>1. a = [k \in 1..n |-> pick(k)]
    BY DEF Arranged
  <2> HIDE DEF a, n, pick
  <2> QED
    BY <2>1
<1> HIDE DEF a
<1>5. \A k \in 1..n : (\E x \in S : Cardinality(InFront(R, S, x)) = k - 1)
                         => a[k] \in S /\ Cardinality(InFront(R, S, a[k])) = k - 1
  BY <1>3
<1>6. \A k \in 1..n : (\E x \in S : rank[x] = k) => a[k] \in S /\ rank[a[k]] = k
  <2>1. \A x \in S : Cardinality(InFront(R, S, x)) \in Nat
    BY FrontCounts DEF TotalOrder
  <2> HIDE DEF n
  <2> QED
    BY <1>1, <1>5, <2>1
<1> HIDE DEF rank
<1>7. \A x, z \in S : rank[x] = rank[z] => x = z
  <2> SUFFICES ASSUME NEW x \in S, NEW z \in S, x # z
               PROVE  rank[x] # rank[z]
    OBVIOUS
  <2> HIDE DEF n
  <2>1. rank[x] \in 1..n /\ rank[z] \in 1..n
    BY <1>2
  <2>2. <<x, z>> \in R \/ <<z, x>> \in R
    BY DEF TotalOrder
  <2>3. rank[x] < rank[z] \/ rank[z] < rank[x]
    BY <1>2, <2>2
  <2> QED
    BY <1>1, <2>1, <2>3
<1>8. \A k \in 1..n : \E x \in S : rank[x] = k
  <2>1. rank \in Injection(S, 1..n)
    BY <1>2, <1>7 DEF Injection, IsInjective
  <2>2. IsFiniteSet(1..n) /\ Cardinality(1..n) = n
    <3> HIDE DEF n
    <3>1. IsFiniteSet(1..n) /\ Cardinality(1..n) = IF 1 > n THEN 0 ELSE n - 1 + 1
      BY <1>1, FS_Interval
    <3> QED
      BY <1>1, <3>1
  <2>3. rank \in Surjection(S, 1..n)
    BY <2>1, <2>2, FS_Injection
  <2> QED
    BY <2>3 DEF Surjection
<1>9. \A k \in 1..n : a[k] \in S /\ rank[a[k]] = k
  BY <1>6, <1>8
<1>10. a \in [1..n -> S]
  BY <1>4, <1>9
<1>11. \A x \in S : \E k \in 1..n : a[k] = x
  BY <1>2, <1>7, <1>9
<1>12. \A i, j \in 1..n : i < j => <<a[i], a[j]>> \in R
  <2> HIDE DEF n
  <2> SUFFICES ASSUME NEW i \in 1..n, NEW j \in 1..n, i < j
               PROVE  <<a[i], a[j]>> \in R
    OBVIOUS
  <2>1. a[i] \in S /\ a[j] \in S /\ rank[a[i]] = i /\ rank[a[j]] = j
    BY <1>9
  <2>2. a[i] # a[j] /\ <<a[j], a[i]>> \notin R
    BY <1>1, <1>2, <2>1
  <2> QED
    BY <2>1, <2>2 DEF TotalOrder
<1>13. \A i, j \in 1..n : a[i] = a[j] => i = j
  BY <1>9
<1> QED
  BY <1>1, <1>10, <1>11, <1>12, <1>13 DEF a

\* place lists the members of a set, each once.
Lists(place, m, places) ==
    /\ m \in Nat /\ place \in [1..m -> places]
    /\ \A i \in places : \E k \in 1..m : place[k] = i
    /\ \A j, k \in 1..m : place[j] = place[k] => j = k

\* The elements of s at these places.
Along(s, place, m) == [k \in 1..m |-> s[place[k]]]

\* Places of a sequence in their order.
LEMMA PickedIs ==
    ASSUME NEW s, NEW places, IsFiniteSet(places), places \subseteq Int
    PROVE  \E m, place : /\ Lists(place, m, places)
                         /\ Picked(s, places) = Along(s, place, m)
                         /\ \A j, k \in 1..m : j < k => place[j] < place[k]
<1> DEFINE m == Cardinality(places)
           R == {p \in places \X places : p[1] < p[2]}
           place == Arranged(places, R)
<1>1. \A i, j \in places : <<i, j>> \in R <=> i < j
  OBVIOUS
<1> HIDE DEF R
<1>2. TotalOrder(R, places)
  <2>1. places \subseteq Int
    OBVIOUS
  <2> QED
    BY <1>1, <2>1 DEF TotalOrder, WeakOrder
<1>3. /\ m \in Nat /\ place \in [1..m -> places]
      /\ \A i \in places : \E k \in 1..m : place[k] = i
      /\ \A j, k \in 1..m : j < k => <<place[j], place[k]>> \in R
      /\ \A j, k \in 1..m : place[j] = place[k] => j = k
  BY <1>2, ArrangedIs
<1>4. Picked(s, places) = [k \in 1..m |-> s[place[k]]]
  BY DEF Picked, R
<1> HIDE DEF place, m
<1>5. \A j, k \in 1..m : j < k => place[j] < place[k]
  BY <1>1, <1>3
<1> QED
  BY <1>3, <1>4, <1>5 DEF Lists, Along

\* A sequence in the order of less: its elements, and none before one that is
\* less.
LEMMA StableSortIs ==
    ASSUME NEW n \in Nat, NEW s, DOMAIN s = 1..n, NEW less, WeakOrder(less, 1..n)
    PROVE  \E place : /\ Lists(place, n, 1..n)
                      /\ StableSort(s, less) = Along(s, place, n)
                      /\ \A j, k \in 1..n : j < k => <<place[k], place[j]>> \notin less
<1> DEFINE R == {p \in Pairs(s) : p \in less \/ (<<p[2], p[1]>> \notin less /\ p[1] < p[2])}
           place == Arranged(1..n, R)
<1>1. IsFiniteSet(1..n) /\ Cardinality(1..n) = n
  <2>1. IsFiniteSet(1..n) /\ Cardinality(1..n) = IF 1 > n THEN 0 ELSE n - 1 + 1
    BY FS_Interval
  <2> QED
    BY <2>1
<1>2. \A i, j \in 1..n :
          <<i, j>> \in R <=> <<i, j>> \in less \/ (<<j, i>> \notin less /\ i < j)
  BY DEF Pairs
<1>3. StableSort(s, less) = [k \in 1..n |-> s[place[k]]]
  BY DEF StableSort
<1> HIDE DEF R
<1>4. TotalOrder(R, 1..n)
  <2>1. WeakOrder(R, 1..n)
    <3>1. ASSUME NEW x \in 1..n, NEW y \in 1..n, <<x, y>> \in R
          PROVE  <<y, x>> \notin R
      BY <1>2, <3>1 DEF WeakOrder
    <3>2. ASSUME NEW x \in 1..n, NEW y \in 1..n, NEW z \in 1..n,
                 <<x, y>> \notin R, <<y, z>> \notin R
          PROVE  <<x, z>> \notin R
      <4>1. <<x, y>> \notin less /\ <<y, z>> \notin less /\ <<x, z>> \notin less
        BY <1>2, <3>2 DEF WeakOrder
      <4>2. <<y, x>> \in less \/ ~(x < y)
        BY <1>2, <3>2
      <4>3. <<z, y>> \in less \/ ~(y < z)
        BY <1>2, <3>2
      <4>4. <<z, x>> \in less \/ ~(x < z)
        <5>1. CASE <<y, x>> \in less
          BY <4>1, <5>1 DEF WeakOrder
        <5>2. CASE <<z, y>> \in less
          BY <4>1, <5>2 DEF WeakOrder
        <5>3. CASE ~(x < y) /\ ~(y < z)
          BY <5>3
        <5> QED
          BY <4>2, <4>3, <5>1, <5>2, <5>3
      <4> QED
        BY <1>2, <4>1, <4>4
    <3> QED
      BY <3>1, <3>2 DEF WeakOrder
  <2>2. \A x, y \in 1..n : x # y => <<x, y>> \in R \/ <<y, x>> \in R
    BY <1>2
  <2> QED
    BY <2>1, <2>2 DEF TotalOrder
<1>5. /\ place \in [1..n -> 1..n]
      /\ \A i \in 1..n : \E k \in 1..n : place[k] = i
      /\ \A j, k \in 1..n : j < k => <<place[j], place[k]>> \in R
      /\ \A j, k \in 1..n : place[j] = place[k] => j = k
  <2> DEFINE c == Cardinality(1..n)
  <2>1. /\ place \in [1..c -> 1..n]
        /\ \A i \in 1..n : \E k \in 1..c : place[k] = i
        /\ \A j, k \in 1..c : j < k => <<place[j], place[k]>> \in R
        /\ \A j, k \in 1..c : place[j] = place[k] => j = k
    BY <1>1, <1>4, ArrangedIs
  <2>2. c = n
    BY <1>1
  <2> HIDE DEF c, place
  <2> QED
    BY <2>1, <2>2
<1> HIDE DEF place
<1>6. \A j, k \in 1..n : j < k => <<place[k], place[j]>> \notin less
  BY <1>2, <1>5 DEF WeakOrder
<1> QED
  BY <1>3, <1>5, <1>6 DEF Lists, Along

\* There is one way to put a set in a total order.
LEMMA OneOrder ==
    ASSUME NEW S, NEW R, TotalOrder(R, S), NEW n, NEW f, NEW g,
           Lists(f, n, S), Lists(g, n, S),
           \A i, j \in 1..n : i < j => <<f[i], f[j]>> \in R /\ <<g[i], g[j]>> \in R
    PROVE  f = g
<1>1. /\ n \in Nat /\ f \in [1..n -> S] /\ g \in [1..n -> S]
      /\ \A x \in S : \E k \in 1..n : f[k] = x
      /\ \A x \in S : \E k \in 1..n : g[k] = x
  BY DEF Lists
<1> DEFINE D == {k \in 1..n : f[k] # g[k]}
<1> SUFFICES ASSUME f # g PROVE FALSE
  OBVIOUS
<1>2. D # {}
  <2>1. (\A k \in 1..n : f[k] = g[k]) => f = g
    BY <1>1
  <2> QED
    BY <2>1
<1>3. PICK k \in D : \A j \in D : k <= j
  <2>1. IsFiniteSet(1..n)
    BY <1>1, FS_Interval
  <2>2. D \in SUBSET (1..n) /\ D \in SUBSET Int
    OBVIOUS
  <2>3. IsFiniteSet(D)
    BY <2>1, <2>2, FS_Subset
  <2> HIDE DEF D
  <2> QED
    BY <1>2, <2>2, <2>3, HasExtremes
<1>4. k \in 1..n /\ f[k] # g[k] /\ \A j \in 1..n : j < k => f[j] = g[j]
  BY <1>1, <1>3
<1> HIDE DEF D
<1>5. <<f[k], g[k]>> \in R
  <2>1. PICK j \in 1..n : f[j] = g[k]
    BY <1>1, <1>4
  <2>2. ~(j < k)
    BY <1>1, <1>4, <2>1 DEF TotalOrder, WeakOrder
  <2>3. k < j
    BY <1>1, <1>4, <2>1, <2>2
  <2> QED
    BY <1>1, <1>4, <2>1, <2>3
<1>6. <<g[k], f[k]>> \in R
  <2>1. PICK j \in 1..n : g[j] = f[k]
    BY <1>1, <1>4
  <2>2. ~(j < k)
    BY <1>1, <1>4, <2>1 DEF TotalOrder, WeakOrder
  <2>3. k < j
    BY <1>1, <1>4, <2>1, <2>2
  <2> QED
    BY <1>1, <1>4, <2>1, <2>3
<1> QED
  BY <1>1, <1>4, <1>5, <1>6 DEF TotalOrder, WeakOrder

-----------------------------------------------------------------------------
(* Ratios, and lists of them.                                              *)

\* Ratio(1, 0) is infinite.
Ratios == {p \in [num : Int, den : Nat] : p.den > 0 \/ p.num > 0}

LEMMA RatioIs ==
    ASSUME NEW num \in Int, NEW den \in Nat, den > 0 \/ num > 0
    PROVE  /\ Ratio(num, den) \in Ratios
           /\ Ratio(num, den).num = num /\ Ratio(num, den).den = den
BY DEF Ratio, Ratios

LEMMA Grows ==
    ASSUME NEW a \in Int, NEW b \in Int, NEW c \in Nat, a <= b
    PROVE  a * c <= b * c
OBVIOUS

LEMMA Shrinks ==
    ASSUME NEW a \in Int, NEW b \in Int, NEW c \in Nat, c > 0, a * c <= b * c
    PROVE  a <= b
<1> SUFFICES ASSUME b + 1 <= a PROVE FALSE
  OBVIOUS
<1>1. (b + 1) * c <= a * c
  BY Grows
<1>2. (b + 1) * c = b * c + c
  OBVIOUS
<1> QED
  BY <1>1, <1>2

LEMMA RatioOrder ==
    /\ \A p, q \in Ratios : Below(p, q) => ~Below(q, p)
    /\ \A p, q, r \in Ratios : ~Below(p, q) /\ ~Below(q, r) => ~Below(p, r)
<1>1. \A p, q \in Ratios : Below(p, q) => ~Below(q, p)
  <2> SUFFICES ASSUME NEW p \in Ratios, NEW q \in Ratios
               PROVE  Below(p, q) => ~Below(q, p)
    OBVIOUS
  <2>1. p.num * q.den \in Int /\ q.num * p.den \in Int
    BY DEF Ratios
  <2> QED
    BY <2>1 DEF Below
<1>2. ASSUME NEW p \in Ratios, NEW q \in Ratios, NEW r \in Ratios,
             ~Below(p, q), ~Below(q, r)
      PROVE  ~Below(p, r)
  <2> DEFINE a == p.num  b == p.den
             c == q.num  d == q.den
             e == r.num  f == r.den
  <2>1. /\ a \in Int /\ b \in Nat /\ (b > 0 \/ a > 0)
        /\ c \in Int /\ d \in Nat /\ (d > 0 \/ c > 0)
        /\ e \in Int /\ f \in Nat /\ (f > 0 \/ e > 0)
    BY DEF Ratios
  <2>2. ~(a * d < c * b) /\ ~(c * f < e * d)
    BY <1>2 DEF Below
  <2>3. ~(a * f < e * b) => ~Below(p, r)
    BY DEF Below
  <2> HIDE DEF a, b, c, d, e, f
  <2>4. /\ a * d \in Int /\ c * b \in Int /\ c * f \in Int /\ e * d \in Int
        /\ a * f \in Int /\ e * b \in Int
    BY <2>1
  <2>5. c * b <= a * d /\ e * d <= c * f
    BY <2>2, <2>4
  <2>6. CASE d > 0
    <3>1. (c * b) * f <= (a * d) * f /\ (e * d) * b <= (c * f) * b
      BY <2>1, <2>4, <2>5, Grows
    <3>2. /\ (c * b) * f = (c * f) * b
          /\ (a * d) * f = (a * f) * d
          /\ (e * d) * b = (e * b) * d
      BY <2>1
    <3>3. (e * b) * d <= (a * f) * d
      <4>1. (c * f) * b \in Int /\ (a * f) * d \in Int /\ (e * b) * d \in Int
        BY <2>1
      <4> QED
        BY <3>1, <3>2, <4>1
    <3>4. e * b <= a * f
      BY <2>1, <2>4, <2>6, <3>3, Shrinks
    <3> QED
      BY <2>3, <2>4, <3>4
  <2>7. CASE d = 0
    <3>1. c > 0 /\ c * b <= 0
      BY <2>1, <2>5, <2>7
    <3>2. b = 0
      <4> SUFFICES ASSUME b > 0 PROVE FALSE
        BY <2>1
      <4>1. b <= c * b
        <5>1. 1 * b <= c * b
          BY <2>1, <3>1, Grows
        <5> QED
          BY <2>1, <5>1
      <4> QED
        BY <2>1, <2>4, <3>1, <4>1
    <3>3. a > 0 /\ e * b = 0
      BY <2>1, <3>2
    <3>4. 0 <= a * f
      <4>1. 0 * f <= a * f
        BY <2>1, <3>3, Grows
      <4> QED
        BY <2>1, <4>1
    <3> QED
      BY <2>3, <2>4, <3>3, <3>4
  <2> QED
    BY <2>1, <2>6, <2>7
<1> QED
  BY <1>1, <1>2

Level(p, q) == ~Below(p, q) /\ ~Below(q, p)

\* The first ratio that is not level decides between two lists.
ListLess(l, r, n) ==
    \E i \in 1..n : Below(l[i], r[i]) /\ \A j \in 1..(i - 1) : Level(l[j], r[j])

LEMMA FirstNotLevel ==
    ASSUME NEW n \in Nat, NEW l, NEW r, NEW i \in 1..n, ~Level(l[i], r[i])
    PROVE  \E k \in 1..i : ~Level(l[k], r[k]) /\ \A j \in 1..(k - 1) : Level(l[j], r[j])
<1> DEFINE D == {k \in 1..i : ~Level(l[k], r[k])}
<1>1. IsFiniteSet(1..i)
  BY FS_Interval
<1>2. D \in SUBSET (1..i) /\ D \in SUBSET Int /\ i \in D
  OBVIOUS
<1>3. IsFiniteSet(D)
  BY <1>1, <1>2, FS_Subset
<1>4. PICK k \in D : \A j \in D : k <= j
  <2> HIDE DEF D
  <2> QED
    BY <1>2, <1>3, HasExtremes
<1>5. k \in 1..i /\ ~Level(l[k], r[k])
  BY <1>4
<1>6. ASSUME NEW j \in 1..(k - 1)
      PROVE  Level(l[j], r[j])
  <2>1. j \in 1..i /\ ~(k <= j)
    BY <1>5
  <2> QED
    BY <1>4, <2>1
<1> QED
  BY <1>5, <1>6

LEMMA ListOrder ==
    ASSUME NEW n \in Nat
    PROVE  /\ \A l, r \in [1..n -> Ratios] : ListLess(l, r, n) => ~ListLess(r, l, n)
           /\ \A l, m, r \in [1..n -> Ratios] :
                  ~ListLess(l, m, n) /\ ~ListLess(m, r, n) => ~ListLess(l, r, n)
           /\ \A l, r \in [1..n -> Ratios] :
                  ~ListLess(l, r, n) /\ ~ListLess(r, l, n) => \A i \in 1..n : Level(l[i], r[i])
<1>1. ASSUME NEW l \in [1..n -> Ratios], NEW r \in [1..n -> Ratios],
             ListLess(l, r, n), ListLess(r, l, n)
      PROVE  FALSE
  <2>1. PICK i \in 1..n : Below(l[i], r[i]) /\ \A j \in 1..(i - 1) : Level(l[j], r[j])
    BY <1>1 DEF ListLess
  <2>2. PICK k \in 1..n : Below(r[k], l[k]) /\ \A j \in 1..(k - 1) : Level(r[j], l[j])
    BY <1>1 DEF ListLess
  <2>3. CASE i < k
    <3>1. i \in 1..(k - 1)
      BY <2>3
    <3> QED
      BY <2>1, <2>2, <3>1 DEF Level
  <2>4. CASE k < i
    <3>1. k \in 1..(i - 1)
      BY <2>4
    <3> QED
      BY <2>1, <2>2, <3>1 DEF Level
  <2>5. CASE i = k
    <3>1. l[i] \in Ratios /\ r[i] \in Ratios
      OBVIOUS
    <3> QED
      BY <2>1, <2>2, <2>5, <3>1, RatioOrder
  <2> QED
    BY <2>3, <2>4, <2>5
<1>2. ASSUME NEW l \in [1..n -> Ratios], NEW m \in [1..n -> Ratios],
             NEW r \in [1..n -> Ratios],
             ListLess(l, r, n), ~ListLess(l, m, n), ~ListLess(m, r, n)
      PROVE  FALSE
  <2>1. PICK i \in 1..n : Below(l[i], r[i]) /\ \A j \in 1..(i - 1) : Level(l[j], r[j])
    BY <1>2 DEF ListLess
  <2>2. \A j \in 1..n : l[j] \in Ratios /\ m[j] \in Ratios /\ r[j] \in Ratios
    OBVIOUS
  <2>3. CASE \A j \in 1..i : Level(l[j], m[j])
    <3>1. ASSUME NEW j \in 1..(i - 1)
          PROVE  Level(m[j], r[j])
      <4>1. j \in 1..n /\ Level(l[j], r[j]) /\ Level(l[j], m[j])
        BY <2>1, <2>3
      <4> QED
        BY <2>2, <4>1, RatioOrder DEF Level
    <3>2. Below(m[i], r[i])
      <4>1. Level(l[i], m[i])
        BY <2>3
      <4> QED
        BY <2>1, <2>2, <4>1, RatioOrder DEF Level
    <3> QED
      BY <1>2, <3>1, <3>2 DEF ListLess
  <2>4. CASE \E j \in 1..i : ~Level(l[j], m[j])
    <3>1. PICK o \in 1..i : ~Level(l[o], m[o])
      BY <2>4
    <3>2. PICK k \in 1..o : /\ ~Level(l[k], m[k])
                            /\ \A j \in 1..(k - 1) : Level(l[j], m[j])
      <4>1. o \in 1..n
        OBVIOUS
      <4> QED
        BY <3>1, <4>1, FirstNotLevel
    <3>3. k \in 1..n /\ k <= i
      OBVIOUS
    <3>4. ~Below(l[k], m[k])
      BY <1>2, <3>2, <3>3 DEF ListLess
    <3>5. Below(m[k], l[k])
      BY <3>2, <3>4 DEF Level
    <3>6. Below(m[k], r[k])
      <4>1. ~Below(r[k], l[k])
        <5>1. CASE k = i
          BY <2>1, <2>2, <5>1, RatioOrder
        <5>2. CASE k < i
          <6>1. k \in 1..(i - 1)
            BY <5>2
          <6> QED
            BY <2>1, <6>1 DEF Level
        <5> QED
          BY <3>3, <5>1, <5>2
      <4> QED
        BY <2>2, <3>3, <3>5, <4>1, RatioOrder
    <3>7. ASSUME NEW j \in 1..(k - 1)
          PROVE  Level(m[j], r[j])
      <4>1. j \in 1..n /\ j \in 1..(i - 1)
        BY <3>3
      <4>2. Level(l[j], r[j]) /\ Level(l[j], m[j])
        BY <2>1, <3>2, <4>1
      <4> QED
        BY <2>2, <4>1, <4>2, RatioOrder DEF Level
    <3> QED
      BY <1>2, <3>3, <3>6, <3>7 DEF ListLess
  <2> QED
    BY <2>3, <2>4
<1>3. ASSUME NEW l \in [1..n -> Ratios], NEW r \in [1..n -> Ratios],
             ~ListLess(l, r, n), ~ListLess(r, l, n), NEW i \in 1..n, ~Level(l[i], r[i])
      PROVE  FALSE
  <2>1. PICK k \in 1..i : /\ ~Level(l[k], r[k])
                          /\ \A j \in 1..(k - 1) : Level(l[j], r[j])
    BY <1>3, FirstNotLevel
  <2>2. k \in 1..n
    OBVIOUS
  <2>3. Below(l[k], r[k]) \/ Below(r[k], l[k])
    BY <2>1 DEF Level
  <2>4. \A j \in 1..(k - 1) : Level(r[j], l[j])
    BY <2>1 DEF Level
  <2> QED
    BY <1>3, <2>1, <2>2, <2>3, <2>4 DEF ListLess
<1> QED
  BY <1>1, <1>2, <1>3

-----------------------------------------------------------------------------
(* What a drop needs with its preconditions.                               *)

\* The largest of the values at some arguments, or 0.
LEMMA MaxAtLeastZero ==
    ASSUME NEW D, IsFiniteSet(D), NEW g \in [D -> Int], NEW P \in SUBSET D
    PROVE  Max({0} \cup {g[p] : p \in P}) \in Int
<1> DEFINE V == {g[p] : p \in P}
<1>1. IsFiniteSet(V)
  <2> DEFINE f == [p \in P |-> g[p]]
  <2>1. f \in Surjection(P, V)
    BY DEF Surjection
  <2>2. IsFiniteSet(P)
    BY FS_Subset
  <2> QED
    BY <2>1, <2>2, FS_Surjection
<1>2. IsFiniteSet({0} \cup V)
  BY <1>1, FS_Singleton, FS_Union
<1>3. {0} \cup V \in SUBSET Int /\ {0} \cup V # {}
  OBVIOUS
<1> HIDE DEF V
<1>4. Max({0} \cup V) \in {0} \cup V
  BY <1>2, <1>3, Extremes
<1> QED
  BY <1>3, <1>4 DEF V

\* g gives what the drops of T need, which have all their preconditions in T.
Totals(c, own, T, g) ==
    /\ g = [id \in T |-> own[id] + Max({0} \cup {g[p] : p \in c.drops[id].pre})]
    /\ \A id \in T : c.drops[id].pre \subseteq T

\* As long as some drop is left there is one whose preconditions have their
\* totals: the largest set of drops with totals is that of all drops.
LEMMA TotalsExist ==
    ASSUME NEW c, IsFiniteSet(DOMAIN c.drops), ValidPreconditions(c), NEW own
    PROVE  \E g : Totals(c, own, DOMAIN c.drops, g)
<1> DEFINE D == DOMAIN c.drops
           Solved == {T \in SUBSET D : \E g : Totals(c, own, T, g)}
           size == [T \in Solved |-> Cardinality(T)]
           sizes == {size[T] : T \in Solved}
<1>1. IsFiniteSet(SUBSET D)
  BY FS_SUBSET
<1>2. IsFiniteSet(Solved)
  BY <1>1, FS_Subset
<1>3. {} \in Solved
  <2>1. Totals(c, own, {}, [x \in {} |-> 0])
    BY DEF Totals
  <2> QED
    BY <2>1
<1>4. PICK T \in Solved : \A U \in Solved : Cardinality(U) <= Cardinality(T)
  <2>1. size \in Surjection(Solved, sizes)
    BY DEF Surjection
  <2>2. IsFiniteSet(sizes)
    BY <1>2, <2>1, FS_Surjection
  <2>3. \A U \in Solved : Cardinality(U) \in Nat
    BY FS_Subset, FS_CardinalityType
  <2> HIDE DEF Solved
  <2>4. sizes \in SUBSET Int /\ sizes # {}
    <3>1. size[{}] \in sizes
      BY <1>3
    <3>2. \A m \in sizes : m \in Int
      BY <2>3
    <3> QED
      BY <3>1, <3>2
  <2>5. PICK m \in sizes : \A y \in sizes : m >= y
    BY <2>2, <2>4, HasExtremes
  <2>6. PICK T \in Solved : m = Cardinality(T)
    OBVIOUS
  <2>7. \A U \in Solved : Cardinality(U) \in sizes /\ Cardinality(U) \in Nat
    BY <2>3
  <2> HIDE DEF sizes
  <2>8. \A U \in Solved : Cardinality(U) <= Cardinality(T)
    BY <2>5, <2>6, <2>7
  <2> QED
    BY <2>6, <2>8
<1>5. T \in SUBSET D
  OBVIOUS
<1>6. PICK g : Totals(c, own, T, g)
  OBVIOUS
<1>7. CASE T = D
  BY <1>6, <1>7
<1>8. CASE T # D
  <2>1. PICK id \in D \ T : c.drops[id].pre \cap (D \ T) = {}
    <3>1. D \ T \in SUBSET D /\ D \ T # {}
      BY <1>5, <1>8
    <3> QED
      BY <3>1 DEF ValidPreconditions
  <2>2. id \in D /\ id \notin T /\ c.drops[id].pre \subseteq T
    BY <2>1 DEF ValidPreconditions
  <2> DEFINE U == T \cup {id}
             h == [x \in U |-> IF x = id
                       THEN own[id] + Max({0} \cup {g[p] : p \in c.drops[id].pre}) ELSE g[x]]
  <2>3. ASSUME NEW x \in U
        PROVE  /\ c.drops[x].pre \subseteq U
               /\ h[x] = own[x] + Max({0} \cup {h[p] : p \in c.drops[x].pre})
    <3>1. c.drops[x].pre \subseteq T
      BY <1>6, <2>2 DEF Totals
    <3>2. {h[p] : p \in c.drops[x].pre} = {g[p] : p \in c.drops[x].pre}
      BY <2>2, <3>1
    <3>3. h[x] = own[x] + Max({0} \cup {g[p] : p \in c.drops[x].pre})
      BY <1>6, <2>2 DEF Totals
    <3> QED
      BY <3>1, <3>2, <3>3
  <2>4. Totals(c, own, U, h)
    <3>1. h = [x \in U |-> h[x]]
      OBVIOUS
    <3> HIDE DEF h, U
    <3>2. h = [x \in U |-> own[x] + Max({0} \cup {h[p] : p \in c.drops[x].pre})]
      BY <2>3, <3>1
    <3> QED
      BY <2>3, <3>2 DEF Totals
  <2>5. U \in Solved
    <3>1. U \in SUBSET D
      BY <1>5, <2>2
    <3> HIDE DEF U, h
    <3> QED
      BY <2>4, <3>1
  <2>6. Cardinality(U) = Cardinality(T) + 1 /\ Cardinality(T) \in Nat
    <3>1. IsFiniteSet(T)
      BY <1>5, FS_Subset
    <3> QED
      BY <2>2, <3>1, FS_AddElement, FS_CardinalityType
  <2> QED
    BY <1>4, <2>5, <2>6
<1> QED
  BY <1>7, <1>8

LEMMA TotalsTyped ==
    ASSUME NEW c, IsFiniteSet(DOMAIN c.drops), ValidPreconditions(c),
           NEW own \in [DOMAIN c.drops -> Int]
    PROVE  WithPreconditions(c, own) \in [DOMAIN c.drops -> Int]
<1> DEFINE D == DOMAIN c.drops
           rule(g) == [id \in D |-> own[id] + Max({0} \cup {g[p] : p \in c.drops[id].pre})]
           total == WithPreconditions(c, own)
<1>1. \A g : Totals(c, own, D, g) => g = rule(g)
  BY DEF Totals
<1>2. \E g : g = rule(g)
  BY <1>1, TotalsExist
<1>3. total = rule(total)
  <2>1. total = CHOOSE g : g = [id \in DOMAIN own |->
                   own[id] + Max({0} \cup {g[p] : p \in c.drops[id].pre})]
    BY DEF WithPreconditions
  <2>2. total = CHOOSE g : g = rule(g)
    BY <2>1
  <2> HIDE DEF rule, total
  <2> QED
    BY <1>2, <2>2
<1> HIDE DEF total
<1>4. /\ DOMAIN total = D
      /\ \A id \in D : total[id] = own[id] + Max({0} \cup {total[p] : p \in c.drops[id].pre})
  BY <1>3
<1> DEFINE ring == {id \in D : total[id] \notin Int}
<1>5. ring = {}
  <2> SUFFICES ASSUME ring # {} PROVE FALSE
    OBVIOUS
  <2>1. PICK id \in ring : c.drops[id].pre \cap ring = {}
    <3>1. ring \in SUBSET D
      OBVIOUS
    <3> HIDE DEF ring
    <3> QED
      BY <3>1 DEF ValidPreconditions
  <2>2. c.drops[id].pre \in SUBSET D /\ \A p \in c.drops[id].pre : total[p] \in Int
    BY <2>1 DEF ValidPreconditions
  <2> DEFINE g == [x \in D |-> IF total[x] \in Int THEN total[x] ELSE 0]
             P == c.drops[id].pre
  <2>3. g \in [D -> Int] /\ {g[p] : p \in P} = {total[p] : p \in P}
    <3>1. \A p \in P : g[p] = total[p]
      BY <2>2
    <3>2. g \in [D -> Int]
      OBVIOUS
    <3> QED
      BY <3>1, <3>2
  <2> HIDE DEF g
  <2>4. Max({0} \cup {g[p] : p \in P}) \in Int
    BY <2>2, <2>3, MaxAtLeastZero
  <2>5. own[id] \in Int
    OBVIOUS
  <2>6. total[id] \in Int
    <3> DEFINE m == Max({0} \cup {total[p] : p \in P})
    <3>1. m \in Int /\ total[id] = own[id] + m
      BY <1>4, <2>3, <2>4
    <3> HIDE DEF m, P, D
    <3> QED
      BY <2>5, <3>1
  <2> QED
    BY <2>6
<1>6. \A id \in D : total[id] \in Int
  BY <1>5
<1>7. total = [id \in D |-> total[id]]
  BY <1>3
<1> QED
  BY <1>6, <1>7 DEF total

\* Something like a least.
LEMMA LeastIs ==
    ASSUME NEW S \in SUBSET Ratios, IsFiniteSet(S), S # {}
    PROVE  Least(S) \in S /\ \A q \in S : ~Below(q, Least(S))
<1> DEFINE R == {p \in S \X S : Below(p[1], p[2])}
<1>1. \A p, q \in S : <<p, q>> \in R <=> Below(p, q)
  OBVIOUS
<1> HIDE DEF R
<1>2. WeakOrder(R, S)
  BY <1>1, RatioOrder DEF WeakOrder
<1>3. \E m \in S : \A q \in S : <<q, m>> \notin R
  BY <1>2, HasFirst
<1>4. \E m \in S : \A q \in S : ~Below(q, m)
  BY <1>1, <1>3
<1> QED
  BY <1>4 DEF Least

\* A campaign in memory.
Sound(c) ==
    /\ c.id \in Int /\ c.game \in Int /\ c.starts \in Int /\ c.ends \in Int
    /\ IsFiniteSet(DOMAIN c.drops) /\ ValidPreconditions(c)
    /\ \A id \in DOMAIN c.drops :
           LET d == c.drops[id]
           IN  /\ d.starts \in Int /\ d.ends \in Int
               /\ d.req \in Nat /\ d.real \in Nat /\ d.extra \in Nat

Plain == {p \in Ratios : p.den > 0}

LEMMA PlainIs ==
    /\ \A num \in Int, den \in Nat : den > 0 => Ratio(num, den) \in Plain
    /\ \A p, q \in Plain : Plus(p, q) \in Plain
<1>1. \A num \in Int, den \in Nat : den > 0 => Ratio(num, den) \in Plain
  BY RatioIs DEF Plain
<1>2. ASSUME NEW p \in Plain, NEW q \in Plain
      PROVE  Plus(p, q) \in Plain
  <2> DEFINE a == p.num  b == p.den  c == q.num  d == q.den
  <2>1. a \in Int /\ b \in Nat /\ b > 0 /\ c \in Int /\ d \in Nat /\ d > 0
    BY DEF Plain, Ratios
  <2>2. Plus(p, q) = Ratio(a * d + c * b, b * d)
    BY DEF Plus
  <2> HIDE DEF a, b, c, d
  <2>3. a * d + c * b \in Int /\ b * d \in Nat /\ b * d > 0
    <3>1. 1 * d <= b * d
      BY <2>1, Grows
    <3> QED
      BY <2>1, <3>1
  <2> QED
    BY <1>1, <2>2, <2>3
<1> QED
  BY <1>1, <1>2

\* One step of the sum of what the drops of s have made.
SumStep(c, s, g) ==
    IF s = {} THEN Ratio(0, 1)
    ELSE LET x == CHOOSE x \in s : TRUE
         IN  Plus(DropProgress(c.drops[x]), g[s \ {x}])

\* g sums up for the sets of at most n drops.
SumsUpTo(c, n, g) ==
    g = [s \in {s \in SUBSET DOMAIN c.drops : Cardinality(s) <= n} |-> SumStep(c, s, g)]

LEMMA SumsExist ==
    ASSUME NEW c, IsFiniteSet(DOMAIN c.drops)
    PROVE  \E g : g = [s \in SUBSET DOMAIN c.drops |-> SumStep(c, s, g)]
<1> DEFINE D == DOMAIN c.drops
           m == Cardinality(D)
           small(n) == {s \in SUBSET D : Cardinality(s) <= n}
           N == {n \in 0..m : \E g : SumsUpTo(c, n, g)}
<1>1. \A s \in SUBSET D : IsFiniteSet(s) /\ Cardinality(s) \in Nat /\ Cardinality(s) <= m
  BY FS_Subset, FS_CardinalityType
<1>2. m \in Nat
  BY FS_CardinalityType
<1>3. 0 \in N
  <2> DEFINE g == [s \in small(0) |-> Ratio(0, 1)]
  <2>1. \A s \in small(0) : s = {}
    BY <1>1, FS_EmptySet
  <2>2. SumsUpTo(c, 0, g)
    BY <2>1 DEF SumsUpTo, SumStep
  <2> HIDE DEF g, m
  <2> QED
    BY <1>2, <2>2
<1>4. PICK n \in N : \A k \in N : n >= k
  <2>1. IsFiniteSet(0..m)
    BY <1>2, FS_Interval
  <2>2. N \in SUBSET (0..m) /\ N \in SUBSET Int
    OBVIOUS
  <2>3. IsFiniteSet(N)
    BY <2>1, <2>2, FS_Subset
  <2> HIDE DEF N
  <2> QED
    BY <1>3, <2>2, <2>3, HasExtremes
<1>5. PICK g : SumsUpTo(c, n, g)
  OBVIOUS
<1>6. n \in 0..m
  OBVIOUS
<1>7. CASE n = m
  <2>1. small(n) = SUBSET D
    BY <1>1, <1>7
  <2>2. g = [s \in small(n) |-> SumStep(c, s, g)]
    BY <1>5 DEF SumsUpTo
  <2> HIDE DEF small
  <2> QED
    BY <2>1, <2>2
<1>8. CASE n # m
  <2>1. n \in Nat /\ n + 1 \in 0..m
    <3> HIDE DEF m
    <3> QED
      BY <1>2, <1>6, <1>8
  <2>2. g = [s \in small(n) |-> SumStep(c, s, g)]
    BY <1>5 DEF SumsUpTo
  <2> DEFINE h == [s \in small(n + 1) |-> SumStep(c, s, g)]
  <2>3. ASSUME NEW s \in small(n + 1)
        PROVE  SumStep(c, s, g) = SumStep(c, s, h)
    <3>1. CASE s = {}
      BY <3>1 DEF SumStep
    <3>2. CASE s # {}
      <4> DEFINE x == CHOOSE x \in s : TRUE
                 t == s \ {x}
      <4>1. x \in s
        BY <3>2
      <4> HIDE DEF x
      <4>2. Cardinality(t) = Cardinality(s) - 1 /\ Cardinality(s) \in Nat
            /\ Cardinality(s) <= n + 1
        BY <1>1, <4>1, FS_RemoveElement
      <4>3. t \in small(n) /\ t \in small(n + 1)
        <5>1. Cardinality(t) <= n /\ Cardinality(t) <= n + 1
          BY <2>1, <4>2
        <5> QED
          BY <5>1
      <4>4. g[t] = h[t]
        <5>1. g[t] = SumStep(c, t, g)
          <6> HIDE DEF small, t
          <6> QED
            BY <2>2, <4>3
        <5> QED
          BY <4>3, <5>1
      <4> HIDE DEF h
      <4> QED
        BY <3>2, <4>4 DEF SumStep, x
    <3> QED
      BY <3>1, <3>2
  <2>4. SumsUpTo(c, n + 1, h)
    <3>1. h = [s \in small(n + 1) |-> SumStep(c, s, g)]
      OBVIOUS
    <3> HIDE DEF h
    <3>2. h = [s \in small(n + 1) |-> SumStep(c, s, h)]
      BY <2>3, <3>1
    <3> QED
      BY <3>2 DEF SumsUpTo
  <2>5. n + 1 \in N
    BY <2>1, <2>4
  <2>6. n >= n + 1
    BY <1>4, <2>5
  <2> QED
    BY <2>1, <2>6
<1> QED
  BY <1>7, <1>8

LEMMA SumsTyped ==
    ASSUME NEW c, Sound(c), NEW g, g = [s \in SUBSET DOMAIN c.drops |-> SumStep(c, s, g)]
    PROVE  g[DOMAIN c.drops] \in Plain
<1> DEFINE D == DOMAIN c.drops
           Bad == {s \in SUBSET D : g[s] \notin Plain}
           size == [s \in Bad |-> Cardinality(s)]
           sizes == {size[s] : s \in Bad}
<1> SUFFICES ASSUME Bad # {} PROVE FALSE
  OBVIOUS
<1>1. IsFiniteSet(D) /\ \A s \in SUBSET D : IsFiniteSet(s) /\ Cardinality(s) \in Nat
  BY FS_Subset, FS_CardinalityType DEF Sound
<1>2. PICK s \in Bad : \A t \in Bad : Cardinality(s) <= Cardinality(t)
  <2>1. IsFiniteSet(Bad)
    <3>1. IsFiniteSet(SUBSET D)
      BY <1>1, FS_SUBSET
    <3> QED
      BY <3>1, FS_Subset
  <2>2. \A t \in Bad : Cardinality(t) \in Nat
    BY <1>1
  <2> HIDE DEF Bad
  <2>3. size \in Surjection(Bad, sizes)
    BY DEF Surjection
  <2>4. IsFiniteSet(sizes)
    BY <2>1, <2>3, FS_Surjection
  <2>5. sizes \in SUBSET Int /\ sizes # {}
    BY <2>2
  <2>6. PICK k \in sizes : \A y \in sizes : k <= y
    BY <2>4, <2>5, HasExtremes
  <2>7. PICK t \in Bad : k = Cardinality(t)
    OBVIOUS
  <2>8. \A u \in Bad : Cardinality(u) \in sizes
    OBVIOUS
  <2> HIDE DEF sizes
  <2> QED
    BY <2>6, <2>7, <2>8
<1>3. s \in SUBSET D /\ g[s] \notin Plain /\ g[s] = SumStep(c, s, g)
  <2>1. s \in SUBSET D /\ g[s] \notin Plain
    OBVIOUS
  <2> HIDE DEF Bad
  <2> QED
    BY <2>1
<1>4. s # {}
  BY <1>3, PlainIs DEF SumStep
<1> DEFINE x == CHOOSE x \in s : TRUE
           t == s \ {x}
<1>5. x \in s
  BY <1>4
<1>6. g[s] = Plus(DropProgress(c.drops[x]), g[t])
  BY <1>3, <1>4 DEF SumStep
<1> HIDE DEF x
<1>7. t \in SUBSET D /\ ~(Cardinality(s) <= Cardinality(t))
  <2>1. Cardinality(t) = Cardinality(s) - 1 /\ Cardinality(s) \in Nat /\ t \in SUBSET D
    BY <1>1, <1>3, <1>5, FS_RemoveElement
  <2> QED
    BY <2>1
<1>8. g[t] \in Plain
  BY <1>2, <1>7
<1>9. DropProgress(c.drops[x]) \in Plain
  <2> DEFINE d == c.drops[x]
  <2>1. d.req \in Nat /\ d.real \in Nat /\ d.extra \in Nat
    BY <1>3, <1>5 DEF Sound
  <2> HIDE DEF d
  <2>2. CurrentMinutes(d) \in Nat
    BY <2>1 DEF CurrentMinutes
  <2>3. DropProgress(d) \in Plain
    BY <2>1, <2>2, PlainIs DEF DropProgress
  <2> QED
    BY <2>3 DEF d
<1> QED
  BY <1>3, <1>6, <1>8, <1>9, PlainIs

LEMMA ProgressIs ==
    ASSUME NEW c, Sound(c)
    PROVE  Progress(c) \in Plain
<1> DEFINE D == DOMAIN c.drops
           n == Cardinality(D)
           total == MapThenFoldSet(Plus, Ratio(0, 1),
                                   LAMBDA id : DropProgress(c.drops[id]),
                                   LAMBDA S : CHOOSE x \in S : TRUE, D)
           sum == CHOOSE g : g = [s \in SUBSET D |-> SumStep(c, s, g)]
<1>1. total = sum[D]
  BY DEF MapThenFoldSet, SumStep
<1>2. IsFiniteSet(D)
  BY DEF Sound
<1>3. sum = [s \in SUBSET D |-> SumStep(c, s, sum)]
  BY <1>2, SumsExist
<1> HIDE DEF sum
<1>4. total \in Plain
  <2>1. sum[D] \in Plain
    BY <1>3, SumsTyped
  <2> QED
    BY <1>1, <2>1
<1>5. Progress(c) = IF n = 0 THEN Ratio(0, 1) ELSE Ratio(total.num, total.den * n)
  BY DEF Progress
<1>6. n \in Nat
  BY <1>2, FS_CardinalityType
<1>7. total.num \in Int /\ total.den \in Nat /\ total.den > 0
  BY <1>4 DEF Plain, Ratios
<1> HIDE DEF n, total
<1> DEFINE a == total.num  b == total.den
<1>8. n # 0 => b * n \in Nat /\ b * n > 0
  <2> HIDE DEF b
  <2> SUFFICES ASSUME n # 0 PROVE b * n \in Nat /\ b * n > 0
    OBVIOUS
  <2>1. 1 * n <= b * n
    BY <1>6, <1>7, Grows DEF b
  <2> QED
    BY <1>6, <1>7, <2>1 DEF b
<1> QED
  BY <1>5, <1>7, <1>8, PlainIs

LEMMA LeastOver ==
    ASSUME NEW D, IsFiniteSet(D), NEW f \in [D -> Ratios]
    PROVE  LET m == Least({Infinite} \cup {f[x] : x \in D})
           IN  m \in Ratios /\ \A x \in D : ~Below(f[x], m)
<1> DEFINE V == {f[x] : x \in D}
           S == {Infinite} \cup V
<1>1. IsFiniteSet(S)
  <2>1. f \in Surjection(D, V)
    BY DEF Surjection
  <2>2. IsFiniteSet(V)
    BY <2>1, FS_Surjection
  <2> QED
    BY <2>2, FS_Singleton, FS_Union
<1>2. Infinite \in Ratios
  BY RatioIs DEF Infinite
<1>3. S \in SUBSET Ratios /\ S # {}
  BY <1>2
<1>4. \A x \in D : f[x] \in S
  OBVIOUS
<1> HIDE DEF S
<1>5. Least(S) \in S /\ \A q \in S : ~Below(q, Least(S))
  BY <1>1, <1>3, LeastIs
<1> QED
  BY <1>3, <1>4, <1>5 DEF S

\* What a campaign still needs, by drop.
LEMMA RemainingIs ==
    ASSUME NEW c, Sound(c)
    PROVE  /\ TotalRemainingMinutes(c) \in [DOMAIN c.drops -> Int]
           /\ \A id \in DOMAIN c.drops : RemainingMinutes(c.drops[id]) \in Int
           /\ RemainingMinutesOf(c) \in Int
<1> DEFINE D == DOMAIN c.drops
           own == [id \in D |-> RemainingMinutes(c.drops[id])]
           total == TotalRemainingMinutes(c)
<1>1. \A id \in D : RemainingMinutes(c.drops[id]) \in Int
  BY DEF Sound, RemainingMinutes, CurrentMinutes
<1>2. own \in [D -> Int]
  BY <1>1
<1>3. IsFiniteSet(D)
  BY DEF Sound
<1>4. total \in [D -> Int]
  <2> HIDE DEF own
  <2>1. WithPreconditions(c, own) \in [DOMAIN c.drops -> Int]
    BY <1>2, TotalsTyped DEF Sound
  <2> QED
    BY <2>1 DEF TotalRemainingMinutes, own
<1> HIDE DEF total
<1>5. RemainingMinutesOf(c) \in Int
  <2>1. CASE D = {}
    BY <2>1 DEF RemainingMinutesOf
  <2>2. CASE D # {}
    <3> DEFINE V == Values(total)
    <3>1. V = {total[id] : id \in D}
      BY <1>4 DEF Values
    <3>2. total \in Surjection(D, V)
      BY <1>4, <3>1 DEF Surjection
    <3>3. IsFiniteSet(V) /\ V \in SUBSET Int /\ V # {}
      BY <1>3, <1>4, <2>2, <3>1, <3>2, FS_Surjection
    <3> HIDE DEF V
    <3>4. Max(V) \in Int
      BY <3>3, Extremes
    <3> QED
      BY <2>2, <3>4 DEF RemainingMinutesOf, total, V
  <2> QED
    BY <2>1, <2>2
<1> QED
  BY <1>1, <1>4, <1>5 DEF total

\* No drop has less spare time than its campaign.
LEMMA SpareIs ==
    ASSUME NEW c, Sound(c), NEW now \in Int
    PROVE  /\ Availability(c, now) \in Ratios /\ MinSpareMinutes(c, now) \in Ratios
           /\ \A id \in DOMAIN c.drops :
                  /\ DropSpareMinutes(c, id, now) \in Ratios
                  /\ ~Below(DropSpareMinutes(c, id, now), MinSpareMinutes(c, now))
<1> DEFINE D == DOMAIN c.drops
           f == [id \in D |-> DropAvailability(c, id, now)]
           g == [id \in D |-> DropSpareMinutes(c, id, now)]
<1>1. ASSUME NEW id \in D
      PROVE  DropAvailability(c, id, now) \in Ratios /\ DropSpareMinutes(c, id, now) \in Ratios
  <2> DEFINE t == TotalRemainingMinutes(c)[id]
             e == c.drops[id].ends
  <2>1. t \in Int /\ e \in Int
    BY RemainingIs DEF Sound
  <2>2. Infinite \in Ratios
    BY RatioIs DEF Infinite
  <2>3. Pressing(c, id, now) => t > 0
    BY DEF Pressing
  <2>4. /\ DropAvailability(c, id, now)
              = IF Pressing(c, id, now) THEN Ratio(e - now, t) ELSE Infinite
        /\ DropSpareMinutes(c, id, now)
              = IF Pressing(c, id, now) THEN Ratio(e - now - t, 1) ELSE Infinite
    BY DEF DropAvailability, DropSpareMinutes
  <2> HIDE DEF t, e
  <2>5. t > 0 => Ratio(e - now, t) \in Ratios
    <3> SUFFICES ASSUME t > 0 PROVE Ratio(e - now, t) \in Ratios
      OBVIOUS
    <3>1. e - now \in Int /\ t \in Nat
      BY <2>1
    <3> QED
      BY <3>1, RatioIs
  <2>6. Ratio(e - now - t, 1) \in Ratios
    <3>1. e - now - t \in Int /\ 1 \in Nat /\ 1 > 0
      BY <2>1
    <3> QED
      BY <3>1, RatioIs
  <2> QED
    BY <2>2, <2>3, <2>4, <2>5, <2>6
<1>2. f \in [D -> Ratios] /\ g \in [D -> Ratios] /\ IsFiniteSet(D)
  BY <1>1 DEF Sound
<1>3. /\ Availability(c, now) = Least({Infinite} \cup {f[id] : id \in D})
      /\ MinSpareMinutes(c, now) = Least({Infinite} \cup {g[id] : id \in D})
  <2>1. /\ {f[id] : id \in D} = {DropAvailability(c, id, now) : id \in D}
        /\ {g[id] : id \in D} = {DropSpareMinutes(c, id, now) : id \in D}
    OBVIOUS
  <2> HIDE DEF f, g
  <2> QED
    BY <2>1 DEF Availability, MinSpareMinutes
<1>4. \A id \in D : g[id] = DropSpareMinutes(c, id, now)
  OBVIOUS
<1> HIDE DEF f, g
<1>5. Availability(c, now) \in Ratios
  BY <1>2, <1>3, LeastOver
<1>6. MinSpareMinutes(c, now) \in Ratios
      /\ \A id \in D : ~Below(g[id], MinSpareMinutes(c, now))
  BY <1>2, <1>3, LeastOver
<1> QED
  BY <1>1, <1>4, <1>5, <1>6

\* The smallest of what a function gives on some arguments.
LEMMA SmallestOver ==
    ASSUME NEW D, IsFiniteSet(D), NEW T \in SUBSET D, T # {}, NEW f \in [D -> Int]
    PROVE  Min({f[x] : x \in T}) \in Int
<1> DEFINE V == {f[x] : x \in T}
           h == [x \in T |-> f[x]]
<1>1. h \in Surjection(T, V)
  BY DEF Surjection
<1>2. IsFiniteSet(T)
  BY FS_Subset
<1>3. IsFiniteSet(V) /\ V \in SUBSET Int /\ V # {}
  BY <1>1, <1>2, FS_Surjection
<1> HIDE DEF V
<1>4. Min(V) \in Int
  BY <1>3, Extremes
<1> QED
  BY <1>4 DEF V

LEMMA NextIs ==
    ASSUME NEW c, Sound(c), NEW now \in Int, NEW badges
    PROVE  NextDropMinutes(c, now, badges) \in Int
<1> DEFINE D == DOMAIN c.drops
           first == FirstEarnable(c, now, NoChannel, badges, TRUE)
           f == [id \in D |-> RemainingMinutes(c.drops[id])]
           total == TotalRemainingMinutes(c)
           T == {x \in D : Target(c.drops[x])}
           targets == {total[id] : id \in T}
           minutes == IF first # {} THEN {RemainingMinutes(c.drops[id]) : id \in first}
                      ELSE IF targets # {} THEN targets ELSE {RemainingMinutesOf(c)}
<1>1. first \in SUBSET D
  BY DEF FirstEarnable
<1>2. f \in [D -> Int] /\ total \in [D -> Int] /\ RemainingMinutesOf(c) \in Int
      /\ IsFiniteSet(D)
  BY RemainingIs DEF Sound
<1>3. NextDropMinutes(c, now, badges) = Max({0, Min(minutes)})
  BY DEF NextDropMinutes
<1>4. {RemainingMinutes(c.drops[id]) : id \in first} = {f[id] : id \in first}
  BY <1>1
<1> HIDE DEF f, total, first
<1>5. Min(minutes) \in Int
  <2>1. CASE first # {}
    <3>1. Min({f[id] : id \in first}) \in Int
      BY <1>1, <1>2, <2>1, SmallestOver
    <3> QED
      BY <1>4, <2>1, <3>1
  <2>2. CASE first = {} /\ targets # {}
    <3>1. T # {} /\ T \in SUBSET D
      BY <2>2
    <3> HIDE DEF T
    <3>2. Min({total[id] : id \in T}) \in Int
      BY <1>2, <3>1, SmallestOver
    <3> QED
      BY <2>2, <3>2
  <2>3. CASE first = {} /\ targets = {}
    <3> DEFINE r == RemainingMinutesOf(c)
    <3>1. IsFiniteSet({r}) /\ {r} \in SUBSET Int /\ {r} # {}
      BY <1>2, FS_Singleton
    <3> HIDE DEF r
    <3>2. Min({r}) \in {r}
      BY <3>1, Extremes
    <3>3. minutes = {r}
      BY <2>3 DEF r
    <3> QED
      BY <3>1, <3>2, <3>3
  <2> QED
    BY <2>1, <2>2, <2>3
<1> HIDE DEF minutes
<1> QED
  BY <1>3, <1>5, MaxOfTwo

LEMMA IndexIs ==
    ASSUME NEW priority \in Seq(Int), NEW game
    PROVE  PriorityIndex(game, priority) \in Nat
<1> DEFINE n == Len(priority)
           P == {i \in DOMAIN priority : priority[i] = game}
           S == {n + 1} \cup P
<1>1. n \in Nat /\ DOMAIN priority = 1..n
  OBVIOUS
<1>2. IsFiniteSet(P)
  <2>1. IsFiniteSet(1..n)
    BY <1>1, FS_Interval
  <2> QED
    BY <1>1, <2>1, FS_Subset
<1>3. IsFiniteSet(S)
  BY <1>2, FS_Singleton, FS_Union
<1>4. P \in SUBSET (1..n)
  BY <1>1
<1> HIDE DEF P, n
<1>5. S \in SUBSET Nat /\ S \in SUBSET Int /\ S # {}
  BY <1>1, <1>4
<1> HIDE DEF S
<1>6. Min(S) \in S
  BY <1>3, <1>5, Extremes
<1> QED
  BY <1>5, <1>6 DEF PriorityIndex, S, P, n

-----------------------------------------------------------------------------
(* Candidates, and the order they are wanted in.                           *)

\* What the order of candidates looks at.
Rankable(x) == /\ x.game \in Int /\ x.index \in Nat /\ x.spare \in Ratios
               /\ x.active \in BOOLEAN
               /\ SortKey(x) \in [1..9 -> Ratios]
               /\ SortKey(x)[9] = Ratio(x.game, 1)

LEMMA CandidateIs ==
    ASSUME NEW c, Sound(c), NEW now \in Int, NEW settings, settings.priority \in Seq(Int),
           NEW x, x = SmartCandidate(c, now, settings)
    PROVE  /\ Rankable(x) /\ x.game = c.game
           /\ x.spare = MinSpareMinutes(c, now)
           /\ x.index = PriorityIndex(c.game, settings.priority)
<1> DEFINE rest == RemainingMinutesOf(c)
<1>1. /\ x.game = c.game /\ x.ends = c.ends /\ x.active = ActiveAt(c, now)
      /\ x.availability = Availability(c, now)
      /\ x.risk = AvailabilityRisk(Availability(c, now))
      /\ x.next = NextDropMinutes(c, now, settings.badges)
      /\ x.remaining = Max({0, rest})
      /\ x.progress = Progress(c) /\ x.spare = MinSpareMinutes(c, now)
      /\ x.index = PriorityIndex(c.game, settings.priority)
  BY DEF SmartCandidate
<1>2. x.active \in BOOLEAN
  <2>1. x.active = (c.valid /\ (c.starts <= now /\ now < c.ends))
    BY <1>1 DEF ActiveAt, InWindow
  <2> QED
    BY <2>1
<1>3. x.game \in Int /\ x.ends \in Int
  BY <1>1 DEF Sound
<1>4. x.availability \in Ratios /\ x.spare \in Ratios
  BY <1>1, SpareIs
<1>5. x.risk \in Int
  BY <1>1 DEF AvailabilityRisk
<1>6. x.next \in Int
  BY <1>1, NextIs
<1>7. x.index \in Nat
  BY <1>1, IndexIs
<1>8. x.remaining \in Int
  <2>1. rest \in Int
    BY RemainingIs
  <2> HIDE DEF rest
  <2>2. Max({0, rest}) \in Int
    BY <2>1, MaxOfTwo
  <2> QED
    BY <1>1, <2>2
<1>9. x.progress.num \in Int /\ x.progress.den \in Nat /\ x.progress.den > 0
  BY <1>1, ProgressIs DEF Plain, Ratios
<1> HIDE DEF rest
<1> DEFINE a == Ratio(IF x.active THEN 0 ELSE 1, 1)
           p == Ratio(-x.progress.num, x.progress.den)
           k == SortKey(x)
<1>10. \A z \in Int : Ratio(z, 1) \in Ratios
  BY RatioIs
<1>11. a \in Ratios /\ p \in Ratios
  <2>1. a \in Ratios
    BY <1>10
  <2>2. -x.progress.num \in Int
    BY <1>9
  <2>3. p \in Ratios
    BY <1>9, <2>2, RatioIs
  <2> QED
    BY <2>1, <2>3
<1>12. k = <<a, Ratio(x.risk, 1), x.availability, Ratio(x.next, 1), Ratio(x.index, 1),
             Ratio(x.remaining, 1), p, Ratio(x.ends, 1), Ratio(x.game, 1)>>
  BY DEF SortKey
<1> HIDE DEF a, p, k
<1>13. /\ Ratio(x.risk, 1) \in Ratios /\ Ratio(x.next, 1) \in Ratios
       /\ Ratio(x.index, 1) \in Ratios /\ Ratio(x.remaining, 1) \in Ratios
       /\ Ratio(x.ends, 1) \in Ratios /\ Ratio(x.game, 1) \in Ratios
  BY <1>3, <1>5, <1>6, <1>7, <1>8, <1>10
<1>14. k \in [1..9 -> Ratios] /\ k[9] = Ratio(x.game, 1)
  BY <1>4, <1>11, <1>12, <1>13
<1> QED
  BY <1>1, <1>2, <1>3, <1>4, <1>7, <1>14 DEF Rankable, k

\* The order of candidates is strict, and it leaves level only those of one
\* game.
LEMMA CandidateOrder ==
    /\ \A l, r : Rankable(l) /\ Rankable(r) /\ CandidateLess(l, r) => ~CandidateLess(r, l)
    /\ \A l, m, r :
           /\ Rankable(l) /\ Rankable(m) /\ Rankable(r)
           /\ ~CandidateLess(l, m) /\ ~CandidateLess(m, r)
           => ~CandidateLess(l, r)
    /\ \A l, r :
           /\ Rankable(l) /\ Rankable(r)
           /\ ~CandidateLess(l, r) /\ ~CandidateLess(r, l)
           => l.game = r.game
<1>1. ASSUME NEW l, NEW r, Rankable(l), Rankable(r)
      PROVE  CandidateLess(l, r) <=> ListLess(SortKey(l), SortKey(r), 9)
  <2> DEFINE lk == SortKey(l)
             rk == SortKey(r)
  <2>1. CandidateLess(l, r) <=>
            \E i \in DOMAIN lk :
                /\ Below(lk[i], rk[i])
                /\ \A j \in 1..(i - 1) : ~Below(lk[j], rk[j]) /\ ~Below(rk[j], lk[j])
    BY DEF CandidateLess
  <2>2. DOMAIN lk = 1..9
    BY <1>1 DEF Rankable
  <2> HIDE DEF lk, rk
  <2>3. CandidateLess(l, r) <=> ListLess(lk, rk, 9)
    BY <2>1, <2>2 DEF ListLess, Level
  <2> QED
    BY <2>3 DEF lk, rk
<1>2. \A l : Rankable(l) => SortKey(l) \in [1..9 -> Ratios]
  BY DEF Rankable
<1>3. 9 \in Nat
  OBVIOUS
<1>4. ASSUME NEW l, NEW r, Rankable(l), Rankable(r), CandidateLess(l, r)
      PROVE  ~CandidateLess(r, l)
  BY <1>1, <1>2, <1>3, <1>4, ListOrder
<1>5. ASSUME NEW l, NEW m, NEW r, Rankable(l), Rankable(m), Rankable(r),
             ~CandidateLess(l, m), ~CandidateLess(m, r)
      PROVE  ~CandidateLess(l, r)
  BY <1>1, <1>2, <1>3, <1>5, ListOrder
<1>6. ASSUME NEW l, NEW r, Rankable(l), Rankable(r),
             ~CandidateLess(l, r), ~CandidateLess(r, l)
      PROVE  l.game = r.game
  <2>1. \A i \in 1..9 : Level(SortKey(l)[i], SortKey(r)[i])
    BY <1>1, <1>2, <1>3, <1>6, ListOrder
  <2>2. Level(Ratio(l.game, 1), Ratio(r.game, 1))
    BY <1>6, <2>1 DEF Rankable
  <2>3. l.game \in Int /\ r.game \in Int
    BY <1>6 DEF Rankable
  <2>4. ~(l.game * 1 < r.game * 1) /\ ~(r.game * 1 < l.game * 1)
    BY <2>2, <2>3, RatioIs DEF Level, Below
  <2> QED
    BY <2>3, <2>4
<1> QED
  BY <1>4, <1>5, <1>6

\* In two tiers: the order in which games are wanted.
LEMMA TieredOrder ==
    ASSUME NEW below \in BOOLEAN, NEW settings, settings.priority \in Seq(Int)
    PROVE  /\ \A l, r : /\ Rankable(l) /\ Rankable(r) /\ TieredLess(l, r, below, settings)
                        => ~TieredLess(r, l, below, settings)
           /\ \A l, m, r :
                  /\ Rankable(l) /\ Rankable(m) /\ Rankable(r)
                  /\ ~TieredLess(l, m, below, settings) /\ ~TieredLess(m, r, below, settings)
                  => ~TieredLess(l, r, below, settings)
           /\ \A l, r :
                  /\ Rankable(l) /\ Rankable(r)
                  /\ ~TieredLess(l, r, below, settings) /\ ~TieredLess(r, l, below, settings)
                  => l.game = r.game
<1> DEFINE top(x) == TopTier(x, below, settings)
           less(l, r) == TieredLess(l, r, below, settings)
<1>1. \A x : Rankable(x) => top(x) \in BOOLEAN
  BY DEF Rankable, TopTier, IsPriority
<1>2. \A l, r : /\ top(l) # top(r) => less(l, r) = top(l)
                /\ top(l) = top(r) => less(l, r) = CandidateLess(l, r)
  BY DEF TieredLess
<1> HIDE DEF top, less
<1>3. ASSUME NEW l, NEW r, Rankable(l), Rankable(r), less(l, r)
      PROVE  ~less(r, l)
  BY <1>1, <1>2, <1>3, CandidateOrder
<1>4. ASSUME NEW l, NEW m, NEW r, Rankable(l), Rankable(m), Rankable(r),
             ~less(l, m), ~less(m, r)
      PROVE  ~less(l, r)
  <2>1. CASE top(l) = top(m) /\ top(m) = top(r)
    BY <1>2, <1>4, <2>1, CandidateOrder
  <2>2. CASE top(l) # top(m) \/ top(m) # top(r)
    <3>1. ~top(l) \/ ~top(m)
      BY <1>1, <1>2, <1>4, <2>2
    <3> QED
      BY <1>1, <1>2, <1>4, <2>2
  <2> QED
    BY <2>1, <2>2
<1>5. ASSUME NEW l, NEW r, Rankable(l), Rankable(r), ~less(l, r), ~less(r, l)
      PROVE  l.game = r.game
  BY <1>1, <1>2, <1>5, CandidateOrder
<1> QED
  BY <1>3, <1>4, <1>5 DEF less

\* The candidates are those of the campaigns worth wanting.
Worth(c, now, settings) ==
    /\ CampaignAllowed(c, settings)
    /\ CanEarnWithin(c, now, now + Hour, settings.badges)
    /\ ~CertainlyUnfinishable(c, now)

IsList(s) == \E n \in Nat : DOMAIN s = 1..n

LEMMA CandidatesAre ==
    ASSUME NEW campaigns, IsList(campaigns), NEW now, NEW settings
    PROVE  LET s == SmartCandidates(campaigns, now, settings)
           IN  /\ IsList(s)
               /\ \A k \in DOMAIN s : \E i \in DOMAIN campaigns :
                      s[k] = SmartCandidate(campaigns[i], now, settings)
               /\ \A i \in DOMAIN campaigns : Worth(campaigns[i], now, settings) =>
                      \E k \in DOMAIN s : s[k] = SmartCandidate(campaigns[i], now, settings)
<1>1. PICK n \in Nat : DOMAIN campaigns = 1..n
  BY DEF IsList
<1> DEFINE worth == {i \in 1..n : Worth(campaigns[i], now, settings)}
           kept == Picked(campaigns, worth)
           s == SmartCandidates(campaigns, now, settings)
<1>2. s = [i \in DOMAIN kept |-> SmartCandidate(kept[i], now, settings)]
  BY <1>1 DEF SmartCandidates, Worth
<1>3. worth \subseteq 1..n /\ worth \subseteq Int /\ IsFiniteSet(worth)
  <2>1. worth \subseteq 1..n /\ worth \subseteq Int
    OBVIOUS
  <2>2. IsFiniteSet(1..n)
    BY FS_Interval
  <2> QED
    BY <2>1, <2>2, FS_Subset
<1>4. \A i \in 1..n : Worth(campaigns[i], now, settings) => i \in worth
  OBVIOUS
<1> HIDE DEF worth, s
<1>5. PICK m, place : /\ Lists(place, m, worth)
                      /\ kept = Along(campaigns, place, m)
  BY <1>3, PickedIs
<1>6. /\ m \in Nat /\ place \in [1..m -> worth]
      /\ \A i \in worth : \E k \in 1..m : place[k] = i
  BY <1>5 DEF Lists
<1> HIDE DEF kept
<1>7. DOMAIN s = 1..m /\ \A k \in 1..m :
          s[k] = SmartCandidate(campaigns[place[k]], now, settings)
  BY <1>2, <1>5 DEF Along
<1>8. \A k \in 1..m : place[k] \in 1..n
  BY <1>3, <1>6
<1> QED
  <2>1. \A k \in 1..m : \E i \in 1..n : s[k] = SmartCandidate(campaigns[i], now, settings)
    BY <1>7, <1>8
  <2>2. ASSUME NEW i \in 1..n, Worth(campaigns[i], now, settings)
        PROVE  \E k \in 1..m : s[k] = SmartCandidate(campaigns[i], now, settings)
    <3>1. PICK k \in 1..m : place[k] = i
      BY <1>4, <1>6, <2>2
    <3> QED
      BY <1>7, <3>1
  <2>3. IsList(s) /\ DOMAIN s = 1..m
    BY <1>6, <1>7 DEF IsList
  <2> QED
    BY <1>1, <2>1, <2>2, <2>3 DEF s

\* Each game with a candidate has a best one.
LEMMA BestIs ==
    ASSUME NEW s, IsList(s), \A i \in DOMAIN s : Rankable(s[i])
    PROVE  LET best == BestByGame(s)
           IN  /\ DOMAIN best = {s[i].game : i \in DOMAIN s}
               /\ \A game \in DOMAIN best : \E i \in DOMAIN s :
                      best[game] = s[i] /\ s[i].game = game
<1>1. PICK m \in Nat : DOMAIN s = 1..m
  BY DEF IsList
<1> DEFINE G == {s[i].game : i \in 1..m}
           own(game) == {i \in 1..m : s[i].game = game}
           least(game) == {i \in own(game) : \A j \in own(game) : ~CandidateLess(s[j], s[i])}
           best == BestByGame(s)
<1>2. best = [game \in G |-> s[Min(least(game))]]
  BY <1>1 DEF BestByGame
<1>3. ASSUME NEW game \in G
      PROVE  Min(least(game)) \in own(game)
  <2> DEFINE R == {p \in own(game) \X own(game) : CandidateLess(s[p[1]], s[p[2]])}
  <2>1. own(game) \in SUBSET (1..m) /\ own(game) # {}
    OBVIOUS
  <2>2. IsFiniteSet(own(game))
    <3>1. IsFiniteSet(1..m)
      BY FS_Interval
    <3> QED
      BY <2>1, <3>1, FS_Subset
  <2>3. \A i, j \in own(game) : <<i, j>> \in R <=> CandidateLess(s[i], s[j])
    OBVIOUS
  <2>4. \A i \in own(game) : Rankable(s[i])
    BY <1>1, <2>1
  <2>5. least(game) = {i \in own(game) : \A j \in own(game) : <<j, i>> \notin R}
    BY <2>3
  <2> HIDE DEF own, R, least
  <2>6. WeakOrder(R, own(game))
    BY <2>3, <2>4, CandidateOrder DEF WeakOrder
  <2>7. \E i \in own(game) : \A j \in own(game) : <<j, i>> \notin R
    BY <2>1, <2>2, <2>6, HasFirst
  <2>8. least(game) # {} /\ least(game) \in SUBSET own(game)
    BY <2>5, <2>7
  <2>9. IsFiniteSet(least(game)) /\ least(game) \in SUBSET Int
    BY <2>1, <2>2, <2>8, FS_Subset
  <2>10. Min(least(game)) \in least(game)
    BY <2>8, <2>9, Extremes
  <2> QED
    BY <2>8, <2>10
<1>4. \A game \in G : \A i \in own(game) : i \in 1..m /\ s[i].game = game
  OBVIOUS
<1> HIDE DEF own, least, best, G
<1>5. DOMAIN best = G /\ \A game \in G : best[game] = s[Min(least(game))]
  BY <1>2
<1> QED
  BY <1>1, <1>3, <1>4, <1>5 DEF best, G

LEMMA ListsAlong ==
    ASSUME NEW m, NEW place, NEW P, Lists(place, m, P), NEW T, NEW s,
           \A i \in P : s[i] \in T, \A t \in T : \E i \in P : s[i] = t,
           \A i, j \in P : s[i] = s[j] => i = j
    PROVE  Lists(Along(s, place, m), m, T)
<1> DEFINE f == Along(s, place, m)
<1>1. /\ m \in Nat /\ place \in [1..m -> P]
      /\ \A i \in P : \E k \in 1..m : place[k] = i
      /\ \A j, k \in 1..m : place[j] = place[k] => j = k
  BY DEF Lists
<1>2. f \in [1..m -> T] /\ \A k \in 1..m : f[k] = s[place[k]]
  BY <1>1 DEF Along
<1> HIDE DEF f
<1>3. \A t \in T : \E k \in 1..m : f[k] = t
  <2> SUFFICES ASSUME NEW t \in T PROVE \E k \in 1..m : f[k] = t
    OBVIOUS
  <2>1. PICK i \in P : s[i] = t
    OBVIOUS
  <2>2. PICK k \in 1..m : place[k] = i
    BY <1>1
  <2> QED
    BY <1>2, <2>1, <2>2
<1>4. \A j, k \in 1..m : f[j] = f[k] => j = k
  BY <1>1, <1>2
<1> QED
  BY <1>1, <1>2, <1>3, <1>4 DEF Lists, f

\* An order of a finite set has each of its members.
LEMMA OrderIs ==
    ASSUME NEW G, IsFiniteSet(G), NEW order \in SetToSeqs(G)
    PROVE  Lists(order, Cardinality(G), G)
<1> DEFINE m == Cardinality(G)
<1>1. m \in Nat
  BY FS_CardinalityType
<1>2. /\ order \in [1..m -> G]
      /\ \A i, j \in 1..m : i # j => order[i] # order[j]
  BY DEF SetToSeqs
<1>3. IsFiniteSet(1..m) /\ Cardinality(1..m) = m
  <2> HIDE DEF m
  <2>1. IsFiniteSet(1..m) /\ Cardinality(1..m) = IF 1 > m THEN 0 ELSE m - 1 + 1
    BY <1>1, FS_Interval
  <2> QED
    BY <1>1, <2>1
<1>4. order \in Injection(1..m, G)
  <2> HIDE DEF m
  <2> QED
    BY <1>2 DEF Injection, IsInjective
<1>5. order \in Surjection(1..m, G)
  BY <1>3, <1>4, FS_Injection
<1> HIDE DEF m
<1>6. \A x \in G : \E k \in 1..m : order[k] = x
  BY <1>5 DEF Surjection
<1> QED
  BY <1>1, <1>2, <1>6 DEF Lists, m

\* The pairs of games of which the first is wanted more.
MoreWanted(best, below, settings) ==
    {p \in (DOMAIN best) \X (DOMAIN best) :
        TieredLess(best[p[1]], best[p[2]], below, settings)}

LEMMA MoreWantedIs ==
    ASSUME NEW best, NEW below, NEW settings, NEW x \in DOMAIN best, NEW y \in DOMAIN best
    PROVE  <<x, y>> \in MoreWanted(best, below, settings)
               <=> TieredLess(best[x], best[y], below, settings)
BY DEF MoreWanted

\* What is wanted are the games that have candidates, each once, in an order
\* that is total.
LEMMA SmartIs ==
    ASSUME NEW S, \A c \in S : Sound(c), NEW campaigns, IsList(campaigns),
           \A i \in DOMAIN campaigns : campaigns[i] \in S,
           NEW now \in Int, NEW settings, settings.priority \in Seq(Int),
           NEW G, IsFiniteSet(G), \A c \in S : c.game \in G, NEW order \in SetToSeqs(G)
    PROVE  LET s == SmartCandidates(campaigns, now, settings)
               best == BestByGame(s)
               W == MoreWanted(best, PriorityBelowSafety(s, settings), settings)
               w == SmartWanted(campaigns, now, settings, order)
           IN  /\ \A game \in DOMAIN best : /\ Rankable(best[game])
                                            /\ best[game].game = game
                                            /\ best[game].index
                                                 = PriorityIndex(game, settings.priority)
               /\ TotalOrder(W, DOMAIN best)
               /\ \E k : /\ Lists(w, k, DOMAIN best)
                         /\ \A i, j \in 1..k : i < j => <<w[i], w[j]>> \in W
<1> DEFINE s == SmartCandidates(campaigns, now, settings)
           best == BestByGame(s)
           B == DOMAIN best
           below == PriorityBelowSafety(s, settings)
           W == MoreWanted(best, below, settings)
           w == SmartWanted(campaigns, now, settings, order)
           P == {i \in DOMAIN order : order[i] \in B}
           listed == Picked(order, P)
           less == {p \in Pairs(listed) :
                       TieredLess(best[listed[p[1]]], best[listed[p[2]]], below, settings)}
<1>1. /\ IsList(s)
      /\ \A k \in DOMAIN s : \E i \in DOMAIN campaigns :
             s[k] = SmartCandidate(campaigns[i], now, settings)
  BY CandidatesAre
<1>2. w = StableSort(listed, less)
  BY DEF SmartWanted
<1>3. below \in BOOLEAN
  BY DEF PriorityBelowSafety
<1> HIDE DEF s, w, below
<1>4. \A k \in DOMAIN s : Rankable(s[k]) /\ \E c \in S :
          /\ s[k].game = c.game
          /\ s[k].index = PriorityIndex(c.game, settings.priority)
  <2> SUFFICES ASSUME NEW k \in DOMAIN s
               PROVE  Rankable(s[k]) /\ \E c \in S :
                          /\ s[k].game = c.game
                          /\ s[k].index = PriorityIndex(c.game, settings.priority)
    OBVIOUS
  <2>1. PICK i \in DOMAIN campaigns : s[k] = SmartCandidate(campaigns[i], now, settings)
    BY <1>1
  <2>2. campaigns[i] \in S /\ Sound(campaigns[i])
    OBVIOUS
  <2> QED
    BY <2>1, <2>2, CandidateIs
<1>5. /\ B = {s[i].game : i \in DOMAIN s}
      /\ \A game \in B : \E i \in DOMAIN s : best[game] = s[i] /\ s[i].game = game
  BY <1>1, <1>4, BestIs
<1> HIDE DEF best
<1>6. \A x, y \in B : <<x, y>> \in W <=> TieredLess(best[x], best[y], below, settings)
  BY MoreWantedIs
<1> HIDE DEF W
<1>7. /\ \A game \in B : /\ Rankable(best[game]) /\ best[game].game = game
                         /\ best[game].index = PriorityIndex(game, settings.priority)
      /\ B \subseteq G
  BY <1>4, <1>5
<1> HIDE DEF B
<1>8. TotalOrder(W, B)
  <2>1. \A x, y \in B : <<x, y>> \in W => <<y, x>> \notin W
    BY <1>3, <1>6, <1>7, TieredOrder
  <2>2. \A x, y, z \in B : <<x, y>> \notin W /\ <<y, z>> \notin W => <<x, z>> \notin W
    BY <1>3, <1>6, <1>7, TieredOrder
  <2>3. \A x, y \in B : x # y => <<x, y>> \in W \/ <<y, x>> \in W
    BY <1>3, <1>6, <1>7, TieredOrder
  <2> QED
    BY <2>1, <2>2, <2>3 DEF TotalOrder, WeakOrder
<1> DEFINE g == Cardinality(G)
<1>9. Lists(order, g, G)
  BY OrderIs
<1>10. /\ g \in Nat /\ DOMAIN order = 1..g
       /\ \A i, j \in 1..g : order[i] = order[j] => i = j
       /\ \A x \in G : \E i \in 1..g : order[i] = x
  BY <1>9 DEF Lists
<1> HIDE DEF g
<1>11. P \subseteq Int /\ IsFiniteSet(P)
  <2>1. IsFiniteSet(1..g) /\ P \subseteq 1..g /\ 1..g \subseteq Int
    BY <1>10, FS_Interval
  <2> QED
    BY <2>1, FS_Subset
<1>12. /\ \A i \in P : order[i] \in B
       /\ \A i, j \in P : order[i] = order[j] => i = j
       /\ \A x \in B : \E i \in P : order[i] = x
  <2>1. \A x \in B : \E i \in P : order[i] = x
    BY <1>7, <1>10
  <2> QED
    BY <1>10, <2>1
<1> HIDE DEF P
<1>13. PICK k, place : Lists(place, k, P) /\ listed = Along(order, place, k)
  BY <1>11, PickedIs
<1>14. Lists(listed, k, B)
  BY <1>12, <1>13, ListsAlong
<1> HIDE DEF listed
<1>15. /\ k \in Nat /\ listed \in [1..k -> B] /\ DOMAIN listed = 1..k
       /\ \A i, j \in 1..k : listed[i] = listed[j] => i = j
       /\ \A x \in B : \E i \in 1..k : listed[i] = x
  BY <1>14 DEF Lists
<1>16. \A i, j \in 1..k : <<i, j>> \in less <=> <<listed[i], listed[j]>> \in W
  BY <1>6, <1>15 DEF Pairs
<1> HIDE DEF less
<1>17. WeakOrder(less, 1..k)
  <2>1. \A i \in 1..k : listed[i] \in B
    BY <1>15
  <2> QED
    BY <1>8, <1>16, <2>1 DEF TotalOrder, WeakOrder
<1>18. PICK q : /\ Lists(q, k, 1..k) /\ w = Along(listed, q, k)
                /\ \A i, j \in 1..k : i < j => <<q[j], q[i]>> \notin less
  BY <1>2, <1>15, <1>17, StableSortIs
<1>19. Lists(w, k, B)
  <2>1. \A i \in 1..k : listed[i] \in B
    BY <1>15
  <2> QED
    BY <1>15, <1>18, <2>1, ListsAlong
<1>20. ASSUME NEW i \in 1..k, NEW j \in 1..k, i < j
       PROVE  <<w[i], w[j]>> \in W
  <2>1. /\ w[i] = listed[q[i]] /\ w[j] = listed[q[j]]
        /\ q[i] \in 1..k /\ q[j] \in 1..k
    BY <1>18 DEF Lists, Along
  <2>2. <<w[j], w[i]>> \notin W
    BY <1>16, <1>18, <1>20, <2>1
  <2>3. w[i] \in B /\ w[j] \in B /\ w[i] # w[j]
    <3>1. i # j
      BY <1>15, <1>20
    <3> QED
      BY <1>19, <3>1 DEF Lists
  <2> QED
    BY <1>8, <2>2, <2>3 DEF TotalOrder
<1>21. \E t : Lists(w, t, B) /\ \A i, j \in 1..t : i < j => <<w[i], w[j]>> \in W
  BY <1>19, <1>20
<1> QED
  BY <1>7, <1>8, <1>21 DEF s, best, B, below, W, w

-----------------------------------------------------------------------------
(* The inventory.                                                          *)

\* The campaigns in memory are finitely many, each with an id of its own.
LEMMA CampaignsAre ==
    ASSUME IInv
    PROVE  /\ IsFiniteSet(Campaigns)
           /\ \A c \in Campaigns : Sound(c)
           /\ \A c, o \in Campaigns : c.id = o.id => c = o
<1>1. ASSUME NEW i \in DOMAIN snapshot
      PROVE  i \in Ids /\ snapshot[i].id = i /\ Sound(snapshot[i])
  <2> DEFINE c == snapshot[i]
             y == plan[i]
  <2>1. i \in Ids /\ FitsCampaign(c, y, Credit, Taken)
    BY DEF IInv, Truthful, Whole, Ids
  <2>2. AsListed(y) /\ y.id = i /\ i \in Int
    BY <2>1, DropsAssumption DEF IInv, Served, Ids
  <2> HIDE DEF c, y
  <2>3. /\ c.id = i /\ c.game \in Int /\ c.starts \in Int /\ c.ends \in Int
        /\ DOMAIN c.drops = DOMAIN y.drops
    BY <2>1, <2>2 DEF FitsCampaign, AsListed
  <2>4. ASSUME NEW id \in DOMAIN c.drops
        PROVE  /\ c.drops[id].starts \in Int /\ c.drops[id].ends \in Int
               /\ c.drops[id].req \in Nat /\ c.drops[id].real \in Nat
               /\ c.drops[id].extra \in Nat
               /\ c.drops[id].pre = y.drops[id].pre
    <3>1. /\ Fits(c.drops[id], y.drops[id], y.reward, Credit[id], id \in Taken)
          /\ y.drops[id].req \in Nat
          /\ y.drops[id].starts \in Int /\ y.drops[id].ends \in Int
      BY <2>1, <2>2, <2>3 DEF FitsCampaign, AsListed
    <3> QED
      BY <3>1 DEF Fits
  <2>5. IsFiniteSet(DOMAIN c.drops)
    BY <2>2, <2>3 DEF AsListed
  <2>6. ValidPreconditions(c)
    <3>1. ValidPreconditions(y)
      BY <2>2 DEF AsListed
    <3>2. ASSUME NEW ring \in SUBSET DOMAIN c.drops, ring # {}
          PROVE  \E id \in ring : c.drops[id].pre \cap ring = {}
      <4>1. PICK id \in ring : y.drops[id].pre \cap ring = {}
        BY <2>3, <3>1, <3>2 DEF ValidPreconditions
      <4> QED
        BY <2>4, <4>1
    <3>3. \A id \in DOMAIN c.drops : c.drops[id].pre \subseteq DOMAIN c.drops
      BY <2>3, <2>4, <3>1 DEF ValidPreconditions
    <3> QED
      BY <3>2, <3>3 DEF ValidPreconditions
  <2>7. Sound(c)
    BY <2>2, <2>3, <2>4, <2>5, <2>6 DEF Sound
  <2> QED
    BY <2>1, <2>3, <2>7 DEF c
<1>2. IsFiniteSet(DOMAIN snapshot)
  <2>1. IsFiniteSet(Ids)
    BY DropsAssumption DEF IInv, Served, Ids
  <2>2. DOMAIN snapshot \subseteq Ids
    BY <1>1
  <2> QED
    BY <2>1, <2>2, FS_Subset
<1>3. IsFiniteSet(Campaigns)
  <2> DEFINE f == [i \in DOMAIN snapshot |-> snapshot[i]]
  <2>1. f \in Surjection(DOMAIN snapshot, Campaigns)
    BY DEF Surjection, Campaigns
  <2> QED
    BY <1>2, <2>1, FS_Surjection
<1> QED
  BY <1>1, <1>3 DEF Campaigns

\* Campaigns of different ids are in one order or the other.
LEMMA InventoryOrder ==
    ASSUME NEW S, \A c \in S : Sound(c), \A c, o \in S : c.id = o.id => c = o,
           NEW now \in Int, NEW badges
    PROVE  TotalOrder({p \in S \X S : InventoryLess(p[1], p[2], now, badges)}, S)
<1> DEFINE key(c) == InventoryKey(c, now, badges)
           list(c) == [i \in 1..4 |-> Ratio(key(c)[i], 1)]
           R == {p \in S \X S : InventoryLess(p[1], p[2], now, badges)}
<1>1. ASSUME NEW c \in S
      PROVE  key(c) \in [1..4 -> Int] /\ key(c)[4] = c.id
  <2> DEFINE a == IF Eligible(c, badges) THEN 0 ELSE 1
             b == SortTime(c, now)
             d == IF ActiveAt(c, now) THEN 0 ELSE 1
  <2>1. a \in Int /\ d \in Int /\ c.id \in Int
    BY DEF Sound
  <2>2. b \in Int
    BY DEF SortTime, Sound
  <2>3. key(c) = <<a, b, d, c.id>>
    BY DEF InventoryKey
  <2> HIDE DEF a, b, d, key
  <2> QED
    BY <2>1, <2>2, <2>3
<1>2. ASSUME NEW c \in S, NEW o \in S
      PROVE  InventoryLess(c, o, now, badges)
                 <=> \E i \in 1..4 : /\ key(c)[i] < key(o)[i]
                                     /\ \A j \in 1..(i - 1) : key(c)[j] = key(o)[j]
  BY DEF InventoryLess
<1> HIDE DEF key
<1>3. \A c \in S : /\ list(c) \in [1..4 -> Ratios]
                   /\ \A i \in 1..4 : list(c)[i] = Ratio(key(c)[i], 1) /\ key(c)[i] \in Int
  BY <1>1, RatioIs
<1> HIDE DEF list
<1>4. \A x, y \in Int : /\ Below(Ratio(x, 1), Ratio(y, 1)) <=> x < y
                        /\ Level(Ratio(x, 1), Ratio(y, 1)) <=> x = y
  <2> SUFFICES ASSUME NEW x \in Int, NEW y \in Int
               PROVE  /\ Below(Ratio(x, 1), Ratio(y, 1)) <=> x < y
                      /\ Below(Ratio(y, 1), Ratio(x, 1)) <=> y < x
    BY DEF Level
  <2> QED
    BY RatioIs DEF Below
<1>5. ASSUME NEW c \in S, NEW o \in S
      PROVE  InventoryLess(c, o, now, badges) <=> ListLess(list(c), list(o), 4)
  <2>1. \A i \in 1..4 : /\ Below(list(c)[i], list(o)[i]) <=> key(c)[i] < key(o)[i]
                        /\ Level(list(c)[i], list(o)[i]) <=> key(c)[i] = key(o)[i]
    BY <1>3, <1>4
  <2>2. \A i \in 1..4 : \A j \in 1..(i - 1) : j \in 1..4
    OBVIOUS
  <2> QED
    BY <1>2, <2>1, <2>2 DEF ListLess
<1>6. \A c, o \in S : <<c, o>> \in R <=> ListLess(list(c), list(o), 4)
  BY <1>5
<1> HIDE DEF R
<1>7. \A c, o \in S : <<c, o>> \in R => <<o, c>> \notin R
  BY <1>3, <1>6, ListOrder
<1>8. ASSUME NEW c \in S, NEW d \in S, NEW o \in S, <<c, d>> \notin R, <<d, o>> \notin R
      PROVE  <<c, o>> \notin R
  BY <1>3, <1>6, <1>8, ListOrder
<1>9. ASSUME NEW c \in S, NEW o \in S, <<c, o>> \notin R, <<o, c>> \notin R
      PROVE  c = o
  <2>1. Level(list(c)[4], list(o)[4])
    <3>1. ~ListLess(list(c), list(o), 4) /\ ~ListLess(list(o), list(c), 4)
      BY <1>6, <1>9
    <3>2. list(c) \in [1..4 -> Ratios] /\ list(o) \in [1..4 -> Ratios] /\ 4 \in Nat
      BY <1>3
    <3>3. \A i \in 1..4 : Level(list(c)[i], list(o)[i])
      BY <3>1, <3>2, ListOrder
    <3> QED
      BY <3>3
  <2>2. key(c)[4] = key(o)[4]
    BY <1>3, <1>4, <2>1
  <2> QED
    BY <1>1, <2>2
<1>10. TotalOrder(R, S)
  BY <1>7, <1>8, <1>9 DEF TotalOrder, WeakOrder
<1> QED
  BY <1>10 DEF R

\* The inventory lists the campaigns in memory.
LEMMA InventoryIs ==
    ASSUME IInv
    PROVE  \E n : Lists(Inventory, n, Campaigns)
<1> DEFINE R == {p \in Campaigns \X Campaigns :
                    InventoryLess(p[1], p[2], run.listed, Settings.badges)}
           n == Cardinality(Campaigns)
           a == Arranged(Campaigns, R)
<1>1. run.listed \in Int
  BY DropsAssumption DEF IInv, Claims
<1>2. TotalOrder(R, Campaigns)
  BY <1>1, CampaignsAre, InventoryOrder
<1>3. Inventory = a
  BY DEF Inventory, SortedCampaigns
<1> HIDE DEF R
<1>4. /\ n \in Nat /\ a \in [1..n -> Campaigns]
      /\ \A x \in Campaigns : \E k \in 1..n : a[k] = x
      /\ \A i, j \in 1..n : i < j => <<a[i], a[j]>> \in R
      /\ \A i, j \in 1..n : a[i] = a[j] => i = j
  BY <1>2, CampaignsAre, ArrangedIs
<1> HIDE DEF a, n
<1> QED
  BY <1>3, <1>4 DEF Lists

-----------------------------------------------------------------------------
(* What is wanted.                                                         *)

LEMMA ListsLength ==
    ASSUME NEW w, NEW k, NEW T, Lists(w, k, T)
    PROVE  /\ Len(w) = k /\ DOMAIN w = 1..k
           /\ IsFiniteSet(T) /\ Cardinality(T) = k
<1>1. k \in Nat /\ w \in [1..k -> T]
  BY DEF Lists
<1>2. Len(w) = k /\ DOMAIN w = 1..k
  BY <1>1
<1>3. w \in Bijection(1..k, T)
  BY DEF Lists, Bijection, Injection, Surjection, IsInjective
<1>4. ExistsBijection(1..k, T)
  BY <1>3 DEF ExistsBijection
<1> QED
  BY <1>1, <1>2, <1>4, FS_CountingElements, FS_NatBijection

\* What the smart mode makes of the inventory in memory.
LEMMA PlannedIs ==
    ASSUME IInv, NEW order \in Orders
    PROVE  LET s == SmartCandidates(Inventory, run.now, Settings)
               best == BestByGame(s)
               W == MoreWanted(best, PriorityBelowSafety(s, Settings), Settings)
           IN  /\ \A game \in DOMAIN best : /\ Rankable(best[game])
                                            /\ best[game].game = game
                                            /\ best[game].index
                                                 = PriorityIndex(game, Settings.priority)
               /\ TotalOrder(W, DOMAIN best)
               /\ \E k : /\ Lists(Smart(order), k, DOMAIN best)
                         /\ \A i, j \in 1..k :
                                i < j => <<Smart(order)[i], Smart(order)[j]>> \in W
<1> DEFINE G == {c.game : c \in Campaigns}
<1>1. PICK n : Lists(Inventory, n, Campaigns)
  BY InventoryIs
<1>2. IsList(Inventory) /\ \A i \in DOMAIN Inventory : Inventory[i] \in Campaigns
  BY <1>1 DEF Lists, IsList
<1>3. IsFiniteSet(G)
  <2> DEFINE f == [c \in Campaigns |-> c.game]
  <2>1. f \in Surjection(Campaigns, G)
    BY DEF Surjection
  <2> QED
    BY <2>1, CampaignsAre, FS_Surjection
<1>4. order \in SetToSeqs(G) /\ \A c \in Campaigns : c.game \in G
  BY DEF Orders
<1> HIDE DEF G
<1>5. run.now \in Int /\ Settings.priority \in Seq(Int)
  BY DropsAssumption DEF IInv, Claims
<1>6. \A c \in Campaigns : Sound(c)
  BY CampaignsAre
<1> QED
  BY <1>2, <1>3, <1>4, <1>5, <1>6, SmartIs DEF Smart

\* Every campaign worth wanting has a candidate.
LEMMA PlannedCandidate ==
    ASSUME IInv, NEW c \in Campaigns, Worth(c, run.now, Settings)
    PROVE  LET s == SmartCandidates(Inventory, run.now, Settings)
               x == SmartCandidate(c, run.now, Settings)
           IN  /\ \E k \in DOMAIN s : s[k] = x
               /\ x.game \in DOMAIN BestByGame(s)
               /\ x.game = c.game /\ x.index = PriorityIndex(c.game, Settings.priority)
               /\ x.spare = MinSpareMinutes(c, run.now)
<1> DEFINE s == SmartCandidates(Inventory, run.now, Settings)
           x == SmartCandidate(c, run.now, Settings)
<1>1. PICK n : Lists(Inventory, n, Campaigns)
  BY InventoryIs
<1>2. IsList(Inventory) /\ \A i \in DOMAIN Inventory : Inventory[i] \in Campaigns
  BY <1>1 DEF Lists, IsList
<1>3. PICK i \in DOMAIN Inventory : Inventory[i] = c
  BY <1>1 DEF Lists
<1>4. run.now \in Int /\ Settings.priority \in Seq(Int)
  BY DropsAssumption DEF IInv, Claims
<1>5. /\ IsList(s)
      /\ \A k \in DOMAIN s : \E j \in DOMAIN Inventory :
             s[k] = SmartCandidate(Inventory[j], run.now, Settings)
      /\ \A j \in DOMAIN Inventory : Worth(Inventory[j], run.now, Settings) =>
             \E k \in DOMAIN s : s[k] = SmartCandidate(Inventory[j], run.now, Settings)
  BY <1>2, CandidatesAre
<1> HIDE DEF s
<1>6. \E k \in DOMAIN s : s[k] = x
  BY <1>3, <1>5
<1>7. \A k \in DOMAIN s : Rankable(s[k])
  <2>1. \A o \in Campaigns : Rankable(SmartCandidate(o, run.now, Settings))
    BY <1>4, CampaignsAre, CandidateIs
  <2> QED
    BY <1>2, <1>5, <2>1
<1>8. /\ x.game = c.game /\ x.index = PriorityIndex(c.game, Settings.priority)
      /\ x.spare = MinSpareMinutes(c, run.now)
  BY <1>4, CampaignsAre, CandidateIs
<1> HIDE DEF x
<1>9. DOMAIN BestByGame(s) = {s[k].game : k \in DOMAIN s}
  BY <1>5, <1>7, BestIs
<1>10. x.game \in DOMAIN BestByGame(s)
  BY <1>6, <1>9
<1> QED
  BY <1>6, <1>8, <1>10 DEF s, x

\* In whatever order Go hands out the candidates, the games come out in the
\* same order: the comparison puts any two games one before the other, for any
\* campaigns, progress and settings (smartGameCandidateLess, smartTieredLess).
THEOREM OrderIrrelevantAlways == Spec => []OrderIrrelevant
<1>1. IInv => OrderIrrelevant
  <2> SUFFICES ASSUME IInv
               PROVE  Cardinality({Smart(order) : order \in Orders}) <= 1
    BY DEF OrderIrrelevant
  <2>1. ASSUME NEW o \in Orders, NEW q \in Orders
        PROVE  Smart(o) = Smart(q)
    <3> DEFINE s == SmartCandidates(Inventory, run.now, Settings)
               best == BestByGame(s)
               W == MoreWanted(best, PriorityBelowSafety(s, Settings), Settings)
               B == DOMAIN best
    <3>1. TotalOrder(W, B)
      BY PlannedIs
    <3>2. PICK k : /\ Lists(Smart(o), k, B)
                   /\ \A i, j \in 1..k : i < j => <<Smart(o)[i], Smart(o)[j]>> \in W
      BY PlannedIs
    <3>3. PICK l : /\ Lists(Smart(q), l, B)
                   /\ \A i, j \in 1..l : i < j => <<Smart(q)[i], Smart(q)[j]>> \in W
      BY PlannedIs
    <3> DEFINE f == Smart(o)
               g == Smart(q)
    <3>0. /\ Lists(f, k, B) /\ Lists(g, l, B)
      BY <3>2, <3>3
    <3> HIDE DEF W, B, f, g
    <3>4. k = l /\ k \in Nat
      <4>1. Cardinality(B) = k
        BY <3>0, ListsLength
      <4>2. Cardinality(B) = l
        BY <3>0, ListsLength
      <4> QED
        BY <3>0, <4>1, <4>2 DEF Lists
    <3>6. \A i, j \in 1..k : i < j => <<f[i], f[j]>> \in W /\ <<g[i], g[j]>> \in W
      BY <3>2, <3>3, <3>4 DEF f, g
    <3>7. f = g
      BY <3>0, <3>1, <3>4, <3>6, OneOrder
    <3> QED
      BY <3>7 DEF f, g
  <2> DEFINE all == {Smart(order) : order \in Orders}
  <2>2. CASE Orders = {}
    <3>1. all = {}
      BY <2>2
    <3> HIDE DEF all
    <3>2. Cardinality(all) = 0
      BY <3>1, FS_EmptySet
    <3> QED
      BY <3>2 DEF all
  <2>3. CASE Orders # {}
    <3>1. PICK o \in Orders : TRUE
      BY <2>3
    <3>2. all = {Smart(o)}
      BY <2>1, <3>1
    <3> HIDE DEF all
    <3>3. Cardinality(all) = 1
      BY <3>2, FS_Singleton
    <3> QED
      BY <3>3 DEF all
  <2> QED
    BY <2>2, <2>3
<1> QED
  BY <1>1, Inductive, PTL

\* While a campaign of a listed game is tight no other game comes before a
\* listed one, whichever of that game's campaigns is the tight one, for any
\* safety margin (computeSmartWantedGames).
THEOREM PriorityProtectedAlways == Spec => []PriorityProtected
<1>1. IInv => PriorityProtected
  <2> SUFFICES ASSUME IInv, NEW c \in Campaigns, Tight(c), NEW order \in Orders,
                      NEW j \in DOMAIN Smart(order), NEW i \in 1..j,
                      Preferred(Smart(order)[j]), ~Preferred(Smart(order)[i])
               PROVE  FALSE
    BY DEF PriorityProtected
  <2> DEFINE s == SmartCandidates(Inventory, run.now, Settings)
             best == BestByGame(s)
             below == PriorityBelowSafety(s, Settings)
             W == MoreWanted(best, below, Settings)
             B == DOMAIN best
             w == Smart(order)
             x == SmartCandidate(c, run.now, Settings)
             safe == Ratio(SafetyMinutes(Settings), 1)
  <2>1. run.now \in Int /\ SafetyMinutes(Settings) \in Int
    BY DropsAssumption, RankingAssumption DEF IInv, Claims, SafetyMinutes
  <2>2. Worth(c, run.now, Settings) /\ Preferred(c.game)
    BY DEF Tight, Worth
  <2>3. PICK k \in DOMAIN s : s[k] = x
    BY <2>2, PlannedCandidate
  <2>4. /\ x.index = PriorityIndex(c.game, Settings.priority)
        /\ x.spare = MinSpareMinutes(c, run.now)
    BY <2>2, PlannedCandidate
  <2>5. IsPriority(x, Settings)
    BY <2>2, <2>4 DEF IsPriority, Preferred, Listed
  <2>6. Below(x.spare, safe)
    <3>1. PICK id \in DOMAIN c.drops :
              /\ Pressing(c, id, run.now)
              /\ c.drops[id].ends - run.now - TotalRemainingMinutes(c)[id]
                     < SafetyMinutes(Settings)
      BY DEF Tight
    <3> DEFINE v == c.drops[id].ends - run.now - TotalRemainingMinutes(c)[id]
               spare == DropSpareMinutes(c, id, run.now)
    <3>2. Sound(c)
      BY CampaignsAre
    <3>3. v \in Int
      BY <2>1, <3>2, RemainingIs DEF Sound
    <3>4. spare = Ratio(v, 1)
      BY <3>1 DEF DropSpareMinutes
    <3>5. spare \in Ratios /\ x.spare \in Ratios /\ ~Below(spare, x.spare)
      BY <2>1, <2>4, <3>2, SpareIs
    <3>6. v < SafetyMinutes(Settings)
      BY <3>1
    <3> HIDE DEF v, spare, x
    <3>7. safe \in Ratios /\ Below(Ratio(v, 1), safe)
      BY <2>1, <3>3, <3>6, RatioIs DEF Below
    <3> HIDE DEF safe
    <3> QED
      BY <3>4, <3>5, <3>7, RatioOrder
  <2>7. below = TRUE
    BY <2>3, <2>5, <2>6 DEF PriorityBelowSafety
  <2>8. PICK n : /\ Lists(w, n, B)
                 /\ \A a, b \in 1..n : a < b => <<w[a], w[b]>> \in W
    BY PlannedIs
  <2>9. \A game \in B : best[game].index = PriorityIndex(game, Settings.priority)
    BY PlannedIs
  <2> HIDE DEF s, below, x, w, best
  <2>10. i \in 1..n /\ j \in 1..n /\ i < j
    <3>1. n \in Nat /\ j \in 1..n
      BY <2>8, ListsLength DEF Lists, w
    <3>2. i # j
      OBVIOUS
    <3> QED
      BY <3>1, <3>2
  <2>11. w[i] \in B /\ w[j] \in B /\ <<w[i], w[j]>> \in W
    BY <2>8, <2>10 DEF Lists
  <2> DEFINE l == best[w[i]]
             r == best[w[j]]
  <2>12. TieredLess(l, r, below, Settings)
    BY <2>11, MoreWantedIs
  <2>13. ~IsPriority(l, Settings) /\ IsPriority(r, Settings)
    BY <2>9, <2>11 DEF IsPriority, Preferred, Listed, w
  <2> HIDE DEF l, r
  <2>14. TopTier(l, below, Settings) = FALSE /\ TopTier(r, below, Settings) = TRUE
    BY <2>7, <2>13 DEF TopTier
  <2> QED
    BY <2>12, <2>14 DEF TieredLess
<1> QED
  BY <1>1, Inductive, PTL

\* Campaigns sorted twice are the same campaigns, whatever the plain mode.
LEMMA LegacySortedIs ==
    ASSUME NEW campaigns, IsList(campaigns), \A i \in DOMAIN campaigns : Sound(campaigns[i]),
           NEW now \in Int, NEW settings, settings.priority \in Seq(Int)
    PROVE  LET sorted == LegacySorted(campaigns, now, settings)
           IN  /\ DOMAIN sorted = DOMAIN campaigns
               /\ \A i \in DOMAIN campaigns : \E k \in DOMAIN campaigns :
                      sorted[k] = campaigns[i]
<1>1. PICK n \in Nat : DOMAIN campaigns = 1..n
  BY DEF IsList
<1> DEFINE S == {campaigns[i] : i \in 1..n}
           less == {p \in Pairs(campaigns) :
                       ModeLess(campaigns[p[1]], campaigns[p[2]], now, settings)}
           byMode == StableSort(campaigns, less)
           then == {p \in Pairs(byMode) : PriorityLess(byMode[p[1]], byMode[p[2]], settings)}
           sorted == LegacySorted(campaigns, now, settings)
<1>2. sorted = StableSort(byMode, then)
  BY DEF LegacySorted
<1> HIDE DEF sorted
<1>3. /\ \A c \in S : Sound(c)
      /\ \A i \in 1..n : campaigns[i] \in S
  BY <1>1
<1> HIDE DEF S
<1>4. WeakOrder(less, 1..n)
  <2> DEFINE before(c, o) == ModeLess(c, o, now, settings)
  <2>1. /\ \A c, o \in S : before(c, o) => ~before(o, c)
        /\ \A c, d, o \in S : ~before(c, d) /\ ~before(d, o) => ~before(c, o)
    <3>1. CASE settings.mode = "EndingSoonest"
      <4>1. \A c, o \in S : before(c, o) <=> c.ends < o.ends
        BY <3>1 DEF ModeLess
      <4>2. \A c \in S : c.ends \in Int
        BY <1>3 DEF Sound
      <4> HIDE DEF before
      <4> QED
        BY <4>1, <4>2
    <3>2. CASE settings.mode = "LowAvailabilityFirst"
      <4>1. \A c, o \in S : before(c, o)
                                <=> Below(Availability(c, now), Availability(o, now))
        BY <3>2 DEF ModeLess
      <4>2. \A c \in S : Availability(c, now) \in Ratios
        BY <1>3, SpareIs
      <4> HIDE DEF before
      <4> QED
        BY <4>1, <4>2, RatioOrder
    <3>3. CASE settings.mode \notin {"EndingSoonest", "LowAvailabilityFirst"}
      <4>1. \A c, o \in S : ~before(c, o)
        BY <3>3 DEF ModeLess
      <4> HIDE DEF before
      <4> QED
        BY <4>1
    <3> QED
      BY <3>1, <3>2, <3>3
  <2>2. \A i, j \in 1..n : <<i, j>> \in less <=> before(campaigns[i], campaigns[j])
    BY <1>1 DEF Pairs
  <2> HIDE DEF before, less
  <2> QED
    BY <1>3, <2>1, <2>2 DEF WeakOrder
<1> HIDE DEF less
<1>5. PICK f : Lists(f, n, 1..n) /\ byMode = Along(campaigns, f, n)
  BY <1>1, <1>4, StableSortIs
<1>6. /\ DOMAIN byMode = 1..n /\ \A i \in 1..n : byMode[i] \in S
      /\ \A i \in 1..n : \E k \in 1..n : byMode[k] = campaigns[i]
  <2>1. /\ \A k \in 1..n : f[k] \in 1..n
        /\ \A i \in 1..n : \E k \in 1..n : f[k] = i
    BY <1>5 DEF Lists
  <2>2. DOMAIN byMode = 1..n /\ \A k \in 1..n : byMode[k] = campaigns[f[k]]
    BY <1>5 DEF Along
  <2> HIDE DEF byMode
  <2>3. \A i \in 1..n : byMode[i] \in S
    BY <1>3, <2>1, <2>2
  <2>4. ASSUME NEW i \in 1..n
        PROVE  \E k \in 1..n : byMode[k] = campaigns[i]
    <3>1. PICK k \in 1..n : f[k] = i
      BY <2>1
    <3> QED
      BY <2>2, <3>1
  <2> QED
    BY <2>2, <2>3, <2>4
<1> HIDE DEF byMode
<1>7. WeakOrder(then, 1..n)
  <2> DEFINE at(i) == PriorityIndex(byMode[i].game, settings.priority)
  <2>1. \A i, j \in 1..n : <<i, j>> \in then <=> at(i) < at(j)
    BY <1>6 DEF Pairs, PriorityLess
  <2>2. \A i \in 1..n : at(i) \in Nat
    BY IndexIs
  <2> HIDE DEF at, then
  <2> QED
    BY <2>1, <2>2 DEF WeakOrder
<1> HIDE DEF then
<1>8. PICK g : Lists(g, n, 1..n) /\ sorted = Along(byMode, g, n)
  BY <1>2, <1>6, <1>7, StableSortIs
<1>9. /\ DOMAIN sorted = 1..n
      /\ \A i \in 1..n : \E k \in 1..n : sorted[k] = byMode[i]
  <2>1. \A i \in 1..n : \E k \in 1..n : g[k] = i
    BY <1>8 DEF Lists
  <2>2. DOMAIN sorted = 1..n /\ \A k \in 1..n : sorted[k] = byMode[g[k]]
    BY <1>8 DEF Along
  <2>3. ASSUME NEW i \in 1..n
        PROVE  \E k \in 1..n : sorted[k] = byMode[i]
    <3>1. PICK k \in 1..n : g[k] = i
      BY <2>1
    <3> QED
      BY <2>2, <3>1
  <2> QED
    BY <2>2, <2>3
<1>10. \A i \in 1..n : \E k \in 1..n : sorted[k] = campaigns[i]
  <2> SUFFICES ASSUME NEW i \in 1..n PROVE \E k \in 1..n : sorted[k] = campaigns[i]
    OBVIOUS
  <2>1. PICK j \in 1..n : byMode[j] = campaigns[i]
    BY <1>6
  <2> QED
    BY <1>9, <2>1
<1> QED
  BY <1>1, <1>9, <1>10 DEF sorted

\* The plain modes want the game of every campaign worth wanting.
LEMMA LegacyIs ==
    ASSUME NEW campaigns, IsList(campaigns), \A i \in DOMAIN campaigns : Sound(campaigns[i]),
           NEW now \in Int, NEW settings, settings.priority \in Seq(Int),
           NEW i \in DOMAIN campaigns,
           CampaignAllowed(campaigns[i], settings),
           CanEarnWithin(campaigns[i], now, now + Hour, settings.badges)
    PROVE  Contains(LegacyWanted(campaigns, now, settings), campaigns[i].game)
<1>1. PICK n \in Nat : DOMAIN campaigns = 1..n
  BY DEF IsList
<1> DEFINE sorted == LegacySorted(campaigns, now, settings)
           worth == {k \in DOMAIN sorted :
                        /\ CampaignAllowed(sorted[k], settings)
                        /\ CanEarnWithin(sorted[k], now, now + Hour, settings.badges)}
           first == {k \in worth : \A j \in worth : j < k => sorted[j].game # sorted[k].game}
           games == [k \in DOMAIN sorted |-> sorted[k].game]
           own == {k \in worth : sorted[k].game = campaigns[i].game}
           wanted == LegacyWanted(campaigns, now, settings)
<1>2. wanted = Picked(games, first)
  BY DEF LegacyWanted
<1>3. /\ DOMAIN sorted = 1..n
      /\ \A j \in 1..n : \E k \in 1..n : sorted[k] = campaigns[j]
  <2>1. /\ DOMAIN sorted = DOMAIN campaigns
        /\ \A j \in DOMAIN campaigns : \E k \in DOMAIN campaigns :
               sorted[k] = campaigns[j]
    BY LegacySortedIs
  <2> HIDE DEF sorted
  <2> QED
    BY <1>1, <2>1
<1> HIDE DEF sorted, wanted
<1>4. worth \subseteq 1..n /\ own # {}
  <2>1. PICK k \in 1..n : sorted[k] = campaigns[i]
    BY <1>1, <1>3
  <2>2. k \in own
    BY <1>3, <2>1
  <2> QED
    BY <1>3, <2>2
<1>5. IsFiniteSet(worth) /\ worth \subseteq Int
  <2>1. IsFiniteSet(1..n) /\ 1..n \subseteq Int
    BY FS_Interval
  <2> HIDE DEF worth
  <2> QED
    BY <1>4, <2>1, FS_Subset
<1>6. PICK l \in own : \A k \in own : l <= k
  <2>1. own \subseteq worth
    OBVIOUS
  <2> HIDE DEF own, worth
  <2>2. IsFiniteSet(own) /\ own \in SUBSET Int
    BY <1>5, <2>1, FS_Subset
  <2> QED
    BY <1>4, <2>2, HasExtremes
<1>7. l \in first /\ sorted[l].game = campaigns[i].game /\ l \in 1..n
  <2>1. l \in worth /\ sorted[l].game = campaigns[i].game /\ l \in 1..n
    BY <1>4
  <2>2. ASSUME NEW k \in worth, k < l
        PROVE  sorted[k].game # sorted[l].game
    <3>1. k \in Int /\ l \in Int
      BY <1>5, <2>1
    <3>2. k \notin own
      BY <1>6, <2>2, <3>1
    <3> QED
      BY <2>1, <3>2
  <2> HIDE DEF worth
  <2> QED
    BY <2>1, <2>2
<1>8. first \subseteq Int /\ IsFiniteSet(first)
  <2>1. first \subseteq worth
    OBVIOUS
  <2> HIDE DEF first, worth
  <2> QED
    BY <1>5, <2>1, FS_Subset
<1> HIDE DEF first, worth, own
<1>9. PICK m, place : Lists(place, m, first) /\ wanted = Along(games, place, m)
  BY <1>2, <1>8, PickedIs
<1>10. PICK k \in 1..m : place[k] = l
  BY <1>7, <1>9 DEF Lists
<1>11. games[l] = campaigns[i].game
  BY <1>3, <1>7
<1> HIDE DEF games
<1>12. wanted[k] = campaigns[i].game
  BY <1>9, <1>10, <1>11 DEF Along
<1>13. Len(wanted) = m
  BY <1>9 DEF Lists, Along
<1> QED
  BY <1>10, <1>12, <1>13 DEF Contains, wanted

\* What can be earned now can be earned before the hour is over.
LEMMA EarnableSoon ==
    ASSUME NEW c, Sound(c), NEW now \in Int, NEW badges, CanEarn(c, now, NoChannel, badges)
    PROVE  CanEarnWithin(c, now, now + Hour, badges)
<1>1. Hour \in Nat /\ Hour > 0
  BY RankingAssumption
<1>2. Eligible(c, badges) /\ c.valid /\ c.starts <= now /\ now < c.ends
  BY DEF CanEarn, BaseCanEarn, ActiveAt, InWindow
<1>3. PICK id \in DOMAIN c.drops :
          EarnConditions(c, id) /\ c.drops[id].starts <= now /\ now < c.drops[id].ends
  BY DEF CanEarn, DropEarnableNow, InWindow
<1>4. /\ c.starts \in Int /\ c.ends \in Int
      /\ c.drops[id].starts \in Int /\ c.drops[id].ends \in Int
  BY DEF Sound
<1>5. /\ c.ends > now /\ c.starts < now + Hour
      /\ c.drops[id].ends > now /\ c.drops[id].starts < now + Hour
  BY <1>1, <1>2, <1>3, <1>4
<1> QED
  BY <1>2, <1>3, <1>5 DEF CanEarnWithin

\* The game of a campaign that can be earned now is wanted in every mode, and
\* in whatever order Go hands out the candidates, for any campaigns, progress
\* and settings (computeWantedGames, CanEarn, CanEarnWithin).
THEOREM EarnableWantedAlways == Spec => []EarnableWanted
<1>1. IInv => EarnableWanted
  <2> SUFFICES ASSUME IInv, NEW c \in Campaigns,
                      CanEarn(c, run.now, NoChannel, Settings.badges)
               PROVE  /\ \A mode \in Modes :
                             CampaignAllowed(c, [Settings EXCEPT !.mode = mode])
                                 => Contains(Legacy(mode), c.game)
                      /\ CampaignAllowed(c, Settings) /\ ~CertainlyUnfinishable(c, run.now)
                             => \A order \in Orders : Contains(Smart(order), c.game)
    BY DEF EarnableWanted
  <2>1. run.now \in Int /\ Settings.priority \in Seq(Int)
    BY DropsAssumption DEF IInv, Claims
  <2>2. CanEarnWithin(c, run.now, run.now + Hour, Settings.badges)
    BY <2>1, CampaignsAre, EarnableSoon
  <2>3. ASSUME NEW mode \in Modes, CampaignAllowed(c, [Settings EXCEPT !.mode = mode])
        PROVE  Contains(Legacy(mode), c.game)
    <3> DEFINE settings == [Settings EXCEPT !.mode = mode]
    <3>1. settings.priority = Settings.priority /\ settings.badges = Settings.badges
      BY DropsAssumption
    <3>2. /\ CampaignAllowed(c, settings)
          /\ Legacy(mode) = LegacyWanted(Inventory, run.now, settings)
      BY <2>3 DEF Legacy
    <3> HIDE DEF settings
    <3>3. PICK n : Lists(Inventory, n, Campaigns)
      BY InventoryIs
    <3>4. /\ IsList(Inventory)
          /\ \A i \in DOMAIN Inventory : Inventory[i] \in Campaigns
      BY <3>3 DEF Lists, IsList
    <3>5. PICK i \in DOMAIN Inventory : Inventory[i] = c
      BY <3>3 DEF Lists
    <3>6. \A k \in DOMAIN Inventory : Sound(Inventory[k])
      BY <3>4, CampaignsAre
    <3>7. /\ settings.priority \in Seq(Int) /\ CampaignAllowed(Inventory[i], settings)
          /\ CanEarnWithin(Inventory[i], run.now, run.now + Hour, settings.badges)
      BY <2>1, <2>2, <3>1, <3>2, <3>5
    <3>8. Contains(LegacyWanted(Inventory, run.now, settings), Inventory[i].game)
      BY <2>1, <3>4, <3>6, <3>7, LegacyIs
    <3> QED
      BY <3>2, <3>5, <3>8
  <2>4. ASSUME CampaignAllowed(c, Settings), ~CertainlyUnfinishable(c, run.now),
               NEW order \in Orders
        PROVE  Contains(Smart(order), c.game)
    <3> DEFINE s == SmartCandidates(Inventory, run.now, Settings)
               B == DOMAIN BestByGame(s)
    <3>1. Worth(c, run.now, Settings)
      BY <2>2, <2>4 DEF Worth
    <3>2. c.game \in B
      BY <3>1, PlannedCandidate
    <3>3. PICK k : Lists(Smart(order), k, B)
      BY PlannedIs
    <3> HIDE DEF B
    <3>4. PICK j \in 1..k : Smart(order)[j] = c.game
      BY <3>2, <3>3 DEF Lists
    <3>5. Len(Smart(order)) = k
      BY <3>3, ListsLength
    <3> QED
      BY <3>4, <3>5 DEF Contains
  <2> QED
    BY <2>3, <2>4
<1> QED
  BY <1>1, Inductive, PTL
=============================================================================
