--------------------------- MODULE PubSubManager ---------------------------
(***************************************************************************)
(* pubsub.Manager: how topics are spread over shards of a bounded size,    *)
(* how shards are emptied and given up, and when their goroutines are      *)
(* started and stopped.  The scheduler's Run goroutine is the only caller  *)
(* of AddTopics, RemoveTopics, Start and Stop, and each call holds m.mu    *)
(* while it changes m.shards; but the shards' goroutines go on meanwhile:  *)
(* one whose LISTEN is refused drops the topics (module PubSubShard has    *)
(* that part in detail), and one whose context is done ends.  Each step of *)
(* a call below is what such a drop can come before.                       *)
(***************************************************************************)
EXTENDS Naturals, Sequences, FiniteSets

CONSTANTS
    Topics,            \* topic keys
    Refusable,         \* the topics the server may refuse to serve
    ShardTopicLimit,   \* m.shardTopicLimit
    MaxShards,         \* m.maxShards
    Shards,            \* shard objects
    MaxCalls           \* bound: calls in one behaviour

ASSUME PubSubManagerAssumption ==
    /\ IsFiniteSet(Topics)
    /\ Refusable \subseteq Topics
    /\ ShardTopicLimit \in Nat \ {0}
    /\ MaxShards \in Nat \ {0}
    /\ MaxCalls \in Nat

VARIABLES
    shards,      \* m.shards
    held,        \* the topics of every shard object
    life,        \* its goroutines: "off", "on", or "ending" (context done)
    running,     \* m.running
    cancelled,   \* the context of the last Start is done
    call,        \* the call under way and its local variables
    calls        \* calls so far

vars == <<shards, held, life, running, cancelled, call, calls>>

\* todo: topics to be given to a shard; keep: how many shards RemoveTopics
\* keeps; fresh: shards AddTopics made; old: shards RemoveTopics took away.
Begun(op, todo, keep) ==
    [op |-> op, todo |-> todo, keep |-> keep, fresh |-> {}, old |-> {}]
NoCall == Begun("none", {}, 0)

TypeOK ==
    /\ shards \in Seq(Shards)
    /\ held \in [Shards -> SUBSET Topics]
    /\ \A s \in Shards : Cardinality(held[s]) <= ShardTopicLimit
    /\ life \in [Shards -> {"off", "on", "ending"}]
    /\ running \in BOOLEAN
    /\ cancelled \in BOOLEAN
    /\ call \in [op : {"none", "add", "remove", "clear", "trim"},
                 todo : SUBSET Topics, keep : Nat,
                 fresh : SUBSET Shards, old : SUBSET Shards]
    /\ calls \in 0..MaxCalls

Init ==
    /\ shards = <<>>
    /\ held = [s \in Shards |-> {}]
    /\ life = [s \in Shards |-> "off"]
    /\ running = FALSE /\ cancelled = FALSE
    /\ call = NoCall
    /\ calls = 0

\* The Run goroutine makes one of the bounded number of calls.
Called == call.op = "none" /\ calls < MaxCalls /\ calls' = calls + 1

\* The shards in m.shards.
InUse == {shards[i] : i \in DOMAIN shards}

\* All topics in the shards: what Status counts.
Held == UNION {held[s] : s \in InUse}

\* A shard object nobody refers to any more, for newShard.
Unused(s) == s \notin InUse /\ life[s] = "off"

\* shard.addTopic succeeds.
HasRoom(s) == Cardinality(held[s]) < ShardTopicLimit

\* shard.start, with a context derived from the manager's: one that is done
\* ends the goroutines at once.  A shard that has not ended is left as it is.
Started(S, done) ==
    [s \in Shards |-> IF s \in S /\ life[s] = "off"
                        THEN IF done THEN "ending" ELSE "on"
                        ELSE life[s]]

\* shard.stop: the goroutines have not ended yet.
Stopped(S) ==
    [s \in Shards |-> IF s \in S /\ life[s] = "on" THEN "ending"
                                                       ELSE life[s]]

-----------------------------------------------------------------------------
(* Topics are added.                                                       *)

\* Mutant: topics that are there already are given to a shard again.
AddTopicsAgain ==
    /\ Called
    /\ \E ts \in SUBSET Topics :
          /\ ts # {}
          /\ Cardinality(ts \ Held) + Cardinality(Held)
                <= MaxShards * ShardTopicLimit
          /\ call' = Begun("add", ts, 0)
    /\ UNCHANGED <<shards, held, life, running, cancelled>>

\* Topics that no shard has, or the call does nothing.  Too many of them are
\* refused with an error, and nothing is changed.  The shards are looked at one
\* after the other, but a drop on one of them and the look at another commute.
AddTopics ==
    /\ Called
    /\ \E ts \in SUBSET (Topics \ Held) :
          /\ ts # {}
          /\ Cardinality(ts) + Cardinality(Held)
                <= MaxShards * ShardTopicLimit
          /\ call' = Begun("add", ts, 0)
    /\ UNCHANGED <<shards, held, life, running, cancelled>>

\* The first shard with room takes the topic.
Assigned(t, i) ==
    /\ i \in DOMAIN shards /\ HasRoom(shards[i])
    /\ \A j \in 1..(i - 1) : ~HasRoom(shards[j])
    /\ held' = [held EXCEPT ![shards[i]] = @ \cup {t}]

AllFull == \A s \in InUse : ~HasRoom(s)

AssignTopic ==
    /\ call.op = "add"
    /\ \E t \in call.todo :
          \/ /\ \E i \in DOMAIN shards : Assigned(t, i)
             /\ call' = [call EXCEPT !.todo = @ \ {t}]
             /\ UNCHANGED shards
          \/ /\ AllFull
             /\ \E s \in Shards :
                   /\ Unused(s)
                   /\ held' = [held EXCEPT ![s] = {t}]
                   /\ shards' = Append(shards, s)
                   /\ call' = [call EXCEPT !.todo = @ \ {t},
                                           !.fresh = @ \cup {s}]
    /\ UNCHANGED <<life, running, cancelled, calls>>

\* The new shards of a running manager are started.
AddTopicsEnd ==
    /\ call.op = "add" /\ call.todo = {}
    /\ life' = IF running THEN Started(call.fresh, cancelled) ELSE life
    /\ call' = NoCall
    /\ UNCHANGED <<shards, held, running, cancelled, calls>>

-----------------------------------------------------------------------------
(* Topics are removed, and the shards that are not needed are given up.    *)

\* Mutant: the last shard is left out.
ShardsForFloor(n) == n \div ShardTopicLimit

\* requiredShards, which without the test for 0 would be the same.
ShardsFor(n) == (n + ShardTopicLimit - 1) \div ShardTopicLimit

\* The topics leave their shards and what is left is counted; a drop commutes
\* with each look at another shard.
RemoveTopics ==
    /\ Called
    /\ \E ts \in SUBSET Topics :
          /\ ts # {}
          /\ held' = [s \in Shards |->
                         IF s \in InUse THEN held[s] \ ts ELSE held[s]]
          /\ call' = Begun("remove", {}, ShardsFor(Cardinality(Held \ ts)))
    /\ UNCHANGED <<shards, life, running, cancelled>>

\* clearAndDrainTopics of the last shard.
DrainShard ==
    /\ call.op = "remove" /\ Len(shards) > call.keep
    /\ LET last == shards[Len(shards)] IN
          /\ shards' = SubSeq(shards, 1, Len(shards) - 1)
          /\ held' = [held EXCEPT ![last] = {}]
          /\ call' = [call EXCEPT !.todo = @ \cup held[last],
                                  !.old = @ \cup {last}]
    /\ UNCHANGED <<life, running, cancelled, calls>>

\* A drained topic goes to the first shard with room; without one it is gone.
RecycleTopic ==
    /\ call.op = "remove" /\ Len(shards) <= call.keep
    /\ \E t \in call.todo :
          /\ call' = [call EXCEPT !.todo = @ \ {t}]
          /\ \/ \E i \in DOMAIN shards : Assigned(t, i)
             \/ AllFull /\ UNCHANGED held
    /\ UNCHANGED <<shards, life, running, cancelled, calls>>

\* After the unlock: stop(true) of the shards taken away.
RemoveTopicsEnd ==
    /\ call.op = "remove" /\ Len(shards) <= call.keep /\ call.todo = {}
    /\ life' = Stopped(call.old)
    /\ call' = NoCall
    /\ UNCHANGED <<shards, held, running, cancelled, calls>>

-----------------------------------------------------------------------------
(* Start and Stop.                                                         *)

\* On a running manager nothing happens.  The context may be done already.
Start ==
    /\ Called /\ ~running
    /\ running' = TRUE
    /\ cancelled' \in BOOLEAN
    /\ life' = Started(InUse, cancelled')
    /\ UNCHANGED <<shards, held, call>>

\* The context is cancelled, which stops every shard; with clearTopics they
\* lose their topics and the manager loses them.
Stop(clear) ==
    /\ Called
    /\ running' = FALSE /\ cancelled' = TRUE
    /\ life' = Stopped(Shards)
    /\ IF clear
         THEN /\ shards' = <<>>
              /\ held' = [s \in Shards |-> IF s \in InUse THEN {} ELSE held[s]]
              /\ call' = Begun("clear", {}, 0)
         ELSE /\ call' = Begun("trim", {}, 0)
              /\ UNCHANGED <<shards, held>>

\* trimEmptyShards, one shard at a time.  After clearTopics it has nothing to
\* do.
TrimShard ==
    /\ call.op = "trim" /\ \A s \in Shards : life[s] = "off"
    /\ \E i \in DOMAIN shards :
          /\ held[shards[i]] = {}
          /\ shards' = [j \in 1..(Len(shards) - 1) |->
                           IF j < i THEN shards[j] ELSE shards[j + 1]]
    /\ UNCHANGED <<held, life, running, cancelled, call, calls>>

\* Mutant: Stop does not wait for the shards' goroutines.
StopEndAtOnce ==
    /\ call.op \in {"clear", "trim"}
    /\ \A s \in InUse : held[s] # {}
    /\ call' = NoCall
    /\ UNCHANGED <<shards, held, life, running, cancelled, calls>>

\* All goroutines have ended (m.wg).  The context of a Stop is never done: Run
\* passes context.Background().
StopEnd ==
    /\ call.op \in {"clear", "trim"} /\ \A s \in Shards : life[s] = "off"
    /\ \A s \in InUse : held[s] # {}
    /\ call' = NoCall
    /\ UNCHANGED <<shards, held, life, running, cancelled, calls>>

CallStep == \/ AssignTopic \/ AddTopicsEnd
            \/ DrainShard \/ RecycleTopic \/ RemoveTopicsEnd
            \/ TrimShard \/ StopEnd

-----------------------------------------------------------------------------
(* The goroutines of the shards, and the context.                          *)

\* The server refuses a LISTEN: the shard forgets the topics of the command,
\* also one that was added again since.
Refused(s) ==
    /\ life[s] # "off"
    /\ \E ts \in SUBSET (held[s] \cap Refusable) :
          /\ ts # {}
          /\ held' = [held EXCEPT ![s] = @ \ ts]
    /\ UNCHANGED <<shards, life, running, cancelled, call, calls>>

\* run and dispatchLoop return; finishRun.
ShardEnds(s) ==
    /\ life[s] = "ending"
    /\ life' = [life EXCEPT ![s] = "off"]
    /\ UNCHANGED <<shards, held, running, cancelled, call, calls>>

\* The program's context, from which Start's derives.
Cancel ==
    /\ running /\ ~cancelled
    /\ cancelled' = TRUE
    /\ life' = Stopped(Shards)
    /\ UNCHANGED <<shards, held, running, call, calls>>

Next ==
    \/ AddTopics \/ RemoveTopics \/ Start \/ \E clear \in BOOLEAN : Stop(clear)
    \/ CallStep
    \/ \E s \in Shards : Refused(s) \/ ShardEnds(s)
    \/ Cancel

Spec == Init /\ [][Next]_vars

-----------------------------------------------------------------------------
(* Properties.                                                             *)

\* No two shards have a topic in common, whatever is added while other topics
\* are dropped and shards drained: an event would be handled twice, and a
\* removal would leave one of them behind.
OneShardEach ==
    \A i, j \in DOMAIN shards :
        held[shards[i]] \cap held[shards[j]] # {} => i = j

\* There are never more shards than Twitch allows connections: a new one is
\* made only when all are full, and the count that let the topics in was taken
\* before some of them were dropped.
ShardsBounded == Len(shards) <= MaxShards

\* Seen by its caller, the manager is a set of topics of bounded size: calls
\* take effect as a whole, recycling a shard loses no topic, and only what the
\* server refuses is dropped.
Promise == INSTANCE TopicSet
    WITH topics <- Held \cup call.todo,
         call <- IF call.op \in {"clear", "trim"} THEN "stop" ELSE call.op,
         Capacity <- MaxShards * ShardTopicLimit
IsTopicSet == Promise!Spec

\* Between calls, every shard of a running manager has its goroutines, also
\* one that was made, emptied, or kept over a Stop.
Served ==
    call.op = "none" /\ running /\ ~cancelled =>
        \A s \in InUse : life[s] = "on"
=============================================================================
