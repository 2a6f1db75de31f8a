------------------------------ MODULE TopicSet ------------------------------
(***************************************************************************)
(* What pubsub.Manager promises its caller: a set of topics, changed by    *)
(* one call at a time and never by a part of a call.  A topic leaves it    *)
(* otherwise only because the server refused to serve it.                  *)
(***************************************************************************)
EXTENDS Naturals, FiniteSets

CONSTANTS
    Topics,        \* topic keys
    Refusable,     \* the topics the server may refuse to serve
    Capacity       \* how many topics fit

VARIABLES
    topics,        \* the topics to be served
    call           \* the call under way, or "none"

Init == topics = {} /\ call = "none"

Begin(c) == call = "none" /\ call' = c

\* All of the topics, or, with too many of them, none.
Add ==
    /\ Begin("add")
    /\ \E ts \in SUBSET Topics : topics' = topics \cup ts
    /\ Cardinality(topics') <= Capacity

\* Some of the topics.
Remove ==
    /\ Begin("remove")
    /\ \E ts \in SUBSET Topics : topics' = topics \ ts

\* Stop, with or without the topics.
Stop ==
    /\ Begin("stop")
    /\ topics' \in {topics, {}}

End ==
    /\ call # "none" /\ call' = "none"
    /\ UNCHANGED topics

Refuse ==
    /\ \E ts \in SUBSET Refusable : topics' = topics \ ts
    /\ UNCHANGED call

Next == Add \/ Remove \/ Stop \/ End \/ Refuse

Spec == Init /\ [][Next]_<<topics, call>>
=============================================================================
