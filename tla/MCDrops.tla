------------------------------ MODULE MCDrops ------------------------------
(* An instance of Drops for TLC.                                           *)
EXTENDS Drops

MCDrop(req, pre, ends) ==
    [req |-> req, real |-> 0, extra |-> 0, claimed |-> FALSE, claim |-> FALSE,
     pre |-> pre, benefits |-> {}, starts |-> 0, ends |-> ends]

\* Drop 7 comes with the benefit of drop 6 once more, and drop 3 has none: it is
\* there for drop 4.
MCBenefits == [d \in 1..14 |-> CASE d = 7 -> {6, 7} [] d = 3 -> {} [] OTHER -> {d}]

MCCampaign(id, reward, ends, drops) ==
    [id |-> id, game |-> 1, special |-> FALSE, linked |-> TRUE, badge |-> FALSE,
     valid |-> TRUE, reward |-> reward, starts |-> 0, ends |-> ends,
     allowed |-> {},
     drops |-> [d \in DOMAIN drops |-> [drops[d] EXCEPT !.benefits = MCBenefits[d]]]]

\* Two drops on one counter; a drop that needs another one; a reward; and two
\* drops whose progress is not told.
MCCounted ==
    {1 :> MCCampaign(1, FALSE, 1, 1 :> MCDrop(1, {}, 1) @@ 2 :> MCDrop(2, {}, 1)),
     2 :> MCCampaign(2, FALSE, 1, 3 :> MCDrop(1, {}, 1) @@ 4 :> MCDrop(1, {3}, 1)),
     3 :> MCCampaign(3, TRUE, 1, 5 :> MCDrop(2, {}, 1)),
     4 :> MCCampaign(4, FALSE, 1, 6 :> MCDrop(1, {}, 1) @@ 7 :> MCDrop(1, {6}, 1))}

\* Plans that are only ranked, for the games are not those of the channel: two
\* campaigns of a listed game and one of another; two of games not listed.
MCOne(id, game) ==
    {[MCCampaign(id, FALSE, x[3], id :> [MCDrop(x[1], {}, x[3]) EXCEPT !.starts = x[2]])
        EXCEPT !.game = game] :
        x \in {<<8, 0, 14>>, <<1, 0, 3>>, <<2, 0, 3>>, <<2, 1, 3>>, <<3, 1, 3>>}}
MCRanked ==
    {(11 :> a) @@ (12 :> b) @@ (13 :> c) :
        a \in MCOne(11, 2), b \in MCOne(12, 2), c \in MCOne(13, 3)}
    \cup {(13 :> a) @@ (14 :> b) : a \in MCOne(13, 3), b \in MCOne(14, 4)}

MCPlans == MCCounted \cup MCRanked
MCChannel == [id |-> 1, game |-> 1, offers |-> {}]
MCSettings == [mode |-> "SmartBalance", priority |-> <<2>>, exclude |-> {},
               badges |-> TRUE, safety |-> 3]
=============================================================================
