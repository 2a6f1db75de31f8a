---------------------------- MODULE MCScheduler ----------------------------
(* Instances of Scheduler for TLC.                                         *)
EXTENDS Scheduler

CONSTANTS a, b, d, p, q

\* Of one game, or of a game each.
OneGame == [x \in Campaigns |-> 1]
TwoGames == [x \in Campaigns |-> IF x = p THEN 1 ELSE 2]

\* Any channel will do.
AnyChannel == [x \in Campaigns |-> {}]
\* Campaign q names channel a.
NamesA == [x \in Campaigns |-> IF x = q THEN {a} ELSE {}]

\* Every campaign does.
OnlyA == [x \in Campaigns |-> {a}]

\* Streams with drops that may offer any campaign.
Plain == [game : Games, drops : {TRUE}, offers : {Campaigns}]

\* All there is can be earned.
AllNow == {[now |-> Campaigns, soon |-> Campaigns]}
\* Campaign p can be earned; q too, or within the hour.
TwoInventories == {[now |-> {p}, soon |-> {p, q}],
                   [now |-> {p, q}, soon |-> {p, q}]}

\* Maintenance goroutines are alike, and channels that nobody names.
MaintAlike == Permutations(Maint)
OthersAlike == Permutations({b, d}) \cup Permutations(Maint)
=============================================================================
