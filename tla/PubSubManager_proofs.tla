------------------------ MODULE PubSubManager_proofs ------------------------
(***************************************************************************)
(* Proofs about PubSubManager, for any topics, limits and shards: types,   *)
(* that shards share no topic and stay within their number, that those in  *)
(* use run, and that the manager implements TopicSet.  The invariants come *)
(* in two groups: Spread says where the topics are, Goroutines what runs.  *)
(***************************************************************************)
EXTENDS PubSubManager, FiniteSetTheorems, SequenceTheorems, Integers, TLAPS

-----------------------------------------------------------------------------
(* The invariants.                                                         *)

\* m.shards names a shard once.
Distinct == \A i, j \in DOMAIN shards : shards[i] = shards[j] => i = j

\* OneShardEach, said of the shards instead of their places.
Disjoint == \A s, r \in InUse : held[s] \cap held[r] # {} => s = r

\* What TypeOK says of the call under way.
CallType ==
    [op : {"none", "add", "remove", "clear", "trim"},
     todo : SUBSET Topics, keep : Nat,
     fresh : SUBSET Shards, old : SUBSET Shards]

\* A topic to be given to a shard is in none.
TodoNew == call.todo \cap Held = {}

\* The local variables of a call are empty outside of it.
CallShape ==
    /\ call.op \notin {"add", "remove"} => call.todo = {}
    /\ call.op # "add" => call.fresh = {}
    /\ call.op # "remove" => call.old = {}

\* The topics fit into MaxShards shards.
Fits == Cardinality(Held \cup call.todo) <= MaxShards * ShardTopicLimit

\* Into the shards RemoveTopics keeps, too, and it drains no more than it may.
Recyclable ==
    call.op = "remove" =>
        /\ Cardinality(Held \cup call.todo) <= call.keep * ShardTopicLimit
        /\ call.todo # {} => Len(shards) >= call.keep

Spread == /\ Distinct /\ Disjoint /\ TodoNew /\ CallShape /\ Fits /\ Recyclable
          /\ ShardsBounded

\* Which shards have goroutines: none of a manager that is not running; all in
\* use, but for those AddTopics has just made, of one that is.
Goroutines ==
    /\ ~running /\ call.op \notin {"clear", "trim"} =>
          \A s \in Shards : life[s] = "off"
    /\ call.op \in {"clear", "trim"} => ~running
    /\ running /\ ~cancelled => \A s \in InUse \ call.fresh : life[s] = "on"
    /\ \A s \in call.fresh : life[s] = "off"
    /\ call.old \cap InUse = {}

IInv == TypeOK /\ Spread /\ Goroutines

-----------------------------------------------------------------------------
(* Arithmetic and counting.                                                *)

\* requiredShards is large enough.
LEMMA Ceiling ==
    ASSUME NEW n \in Nat
    PROVE  /\ ShardsFor(n) \in Nat
           /\ n <= ShardsFor(n) * ShardTopicLimit
BY PubSubManagerAssumption, SMTT(30) DEF ShardsFor

\* Sets of topics are finite, and part of a set is no larger.
LEMMA Finite ==
    ASSUME NEW S \in SUBSET Topics, NEW T \in SUBSET S
    PROVE  /\ IsFiniteSet(S) /\ Cardinality(S) \in Nat
           /\ IsFiniteSet(T) /\ Cardinality(T) \in Nat
           /\ Cardinality(T) <= Cardinality(S)
<1>1. IsFiniteSet(S)
  BY PubSubManagerAssumption, FS_Subset
<1>2. IsFiniteSet(T) /\ Cardinality(T) <= Cardinality(S)
  BY <1>1, FS_Subset
<1> QED
  BY <1>1, <1>2, FS_CardinalityType

\* The places in m.shards are 1..Len, and they hold shards.
LEMMA Places ==
    ASSUME TypeOK
    PROVE  /\ Len(shards) \in Nat /\ DOMAIN shards = 1..Len(shards)
           /\ \A i \in 1..Len(shards) : shards[i] \in InUse
           /\ InUse \subseteq Shards /\ Held \subseteq Topics
<1>1. Len(shards) \in Nat /\ shards \in [1..Len(shards) -> Shards]
      /\ DOMAIN shards = 1..Len(shards)
  BY LenProperties DEF TypeOK
<1>2. InUse \subseteq Shards
  BY <1>1 DEF InUse
<1>3. Held \subseteq Topics
  BY <1>2 DEF Held, TypeOK
<1> QED
  BY <1>1, <1>2, <1>3 DEF InUse

\* The places of m shards with n topics each.
LEMMA Rectangle ==
    ASSUME NEW m \in Nat, NEW n \in Nat
    PROVE  Cardinality((1..m) \X (1..n)) = m * n
<1>1. IsFiniteSet(1..m) /\ Cardinality(1..m) = m
  BY FS_Interval, 1 \in Int, m \in Int
<1>2. IsFiniteSet(1..n) /\ Cardinality(1..n) = n
  BY FS_Interval, 1 \in Int, n \in Int
<1>3. Cardinality((1..m) \X (1..n)) = Cardinality(1..m) * Cardinality(1..n)
  BY <1>1, <1>2, FS_Product
<1> QED
  BY <1>1, <1>2, <1>3

\* When every shard is full, the topics are as many as their places: addTopic
\* says no to all of them only then.
LEMMA FullCount ==
    ASSUME TypeOK, Distinct, Disjoint, AllFull
    PROVE  Cardinality(Held) >= Len(shards) * ShardTopicLimit
<1> DEFINE L == ShardTopicLimit
           N == Len(shards)
           Numbering(s) == CHOOSE b \in Bijection(1..L, held[s]) : TRUE
           place == [p \in (1..N) \X (1..L) |-> Numbering(shards[p[1]])[p[2]]]
<1>1. /\ N \in Nat /\ L \in Nat \ {0} /\ DOMAIN shards = 1..N
      /\ \A i \in 1..N : shards[i] \in InUse /\ shards[i] \in Shards
      /\ Held \subseteq Topics
  BY Places, PubSubManagerAssumption
<1>2. ASSUME NEW s \in InUse
      PROVE  Numbering(s) \in Bijection(1..L, held[s])
  <2>1. s \in Shards /\ held[s] \in SUBSET Topics
    BY Places DEF TypeOK
  <2>2. IsFiniteSet(held[s]) /\ Cardinality(held[s]) \in Nat
    BY <2>1, Finite
  <2>3. Cardinality(held[s]) = L
    BY <2>1, <2>2, <1>1 DEF AllFull, HasRoom, TypeOK
  <2>4. Bijection(1..L, held[s]) # {}
    BY <2>2, <2>3, FS_CardinalityType DEF ExistsBijection
  <2> QED
    BY <2>4
<1>3. place \in [(1..N) \X (1..L) -> Held]
  <2> SUFFICES ASSUME NEW p \in (1..N) \X (1..L)
               PROVE  Numbering(shards[p[1]])[p[2]] \in Held
    OBVIOUS
  <2>1. shards[p[1]] \in InUse
    BY <1>1
  <2>2. Numbering(shards[p[1]]) \in [1..L -> held[shards[p[1]]]]
    BY <2>1, <1>2 DEF Bijection, Injection
  <2> QED
    BY <2>1, <2>2 DEF Held
<1>4. ASSUME NEW p \in (1..N) \X (1..L), NEW q \in (1..N) \X (1..L),
             place[p] = place[q]
      PROVE  p = q
  <2>1. shards[p[1]] \in InUse /\ shards[q[1]] \in InUse
    BY <1>1
  <2>2. /\ Numbering(shards[p[1]]) \in Injection(1..L, held[shards[p[1]]])
        /\ Numbering(shards[q[1]]) \in Injection(1..L, held[shards[q[1]]])
    BY <2>1, <1>2 DEF Bijection
  <2>3. place[p] \in held[shards[p[1]]] /\ place[p] \in held[shards[q[1]]]
    BY <2>2, <1>4 DEF Injection
  <2>4. shards[p[1]] = shards[q[1]]
    BY <2>1, <2>3 DEF Disjoint
  <2>5. p[1] = q[1]
    BY <2>4, <1>1 DEF Distinct
  <2>6. p[2] = q[2]
    <3> DEFINE b == Numbering(shards[p[1]])
    <3>1. b \in Injection(1..L, held[shards[p[1]]])
      BY <2>2
    <3>2. b[p[2]] = b[q[2]]
      BY <2>5, <1>4
    <3> HIDE DEF b
    <3> QED
      BY <3>1, <3>2 DEF Injection, IsInjective
  <2> QED
    BY <2>5, <2>6
<1> HIDE DEF place
<1>5. place \in Injection((1..N) \X (1..L), Held)
  BY <1>3, <1>4 DEF Injection, IsInjective
<1>6. IsFiniteSet(Held)
  BY <1>1, Finite
<1>7. Cardinality((1..N) \X (1..L)) <= Cardinality(Held)
  BY <1>5, <1>6, FS_Injection
<1>8. Cardinality((1..N) \X (1..L)) = N * L
  BY <1>1, Rectangle
<1>9. Cardinality(Held) \in Nat
  BY <1>1, Finite
<1> QED
  BY <1>7, <1>8, <1>9, <1>1

-----------------------------------------------------------------------------
(* What the operations do to the sequence of shards.                       *)

\* AddTopics puts a shard that was not in use at the end.
LEMMA Appended ==
    ASSUME TypeOK, Distinct, NEW s \in Shards \ InUse,
           shards' = Append(shards, s)
    PROVE  /\ shards' \in Seq(Shards) /\ Len(shards') = Len(shards) + 1
           /\ InUse' = InUse \cup {s} /\ Distinct'
<1>1. /\ Len(shards) \in Nat /\ DOMAIN shards = 1..Len(shards)
      /\ \A i \in 1..Len(shards) : shards[i] \in InUse
  BY Places
<1>2. /\ shards' \in Seq(Shards) /\ Len(shards') = Len(shards) + 1
      /\ \A i \in 1..Len(shards) : shards'[i] = shards[i]
      /\ shards'[Len(shards) + 1] = s
  BY AppendProperties DEF TypeOK
<1>3. DOMAIN shards' = 1..(Len(shards) + 1)
  BY <1>2, LenProperties
<1>4. InUse' = InUse \cup {s}
  BY <1>1, <1>2, <1>3 DEF InUse
<1>5. Distinct'
  BY <1>1, <1>2, <1>3 DEF Distinct
<1> QED
  BY <1>2, <1>4, <1>5

\* RemoveTopics takes the last shard away.
LEMMA Popped ==
    ASSUME TypeOK, Distinct, Len(shards) > 0,
           shards' = SubSeq(shards, 1, Len(shards) - 1)
    PROVE  /\ shards' \in Seq(Shards) /\ Len(shards') = Len(shards) - 1
           /\ InUse' = InUse \ {shards[Len(shards)]}
           /\ shards[Len(shards)] \in InUse /\ Distinct'
<1>1. /\ Len(shards) \in Nat /\ DOMAIN shards = 1..Len(shards)
      /\ \A i \in 1..Len(shards) : shards[i] \in InUse /\ shards[i] \in Shards
  BY Places
<1>2. /\ shards' \in Seq(Shards) /\ Len(shards') = Len(shards) - 1
      /\ \A i \in 1..(Len(shards) - 1) : shards'[i] = shards[i]
  <2>1. Len(shards) - 1 \in Int /\ 1 \in Int
    BY <1>1
  <2>2. \A i \in 1..(Len(shards) - 1) : shards[i] \in Shards
    BY <1>1
  <2>3. /\ shards' \in Seq(Shards)
        /\ Len(shards') = IF 1 <= Len(shards) - 1
                            THEN Len(shards) - 1 - 1 + 1 ELSE 0
        /\ \A i \in 1..(Len(shards) - 1 - 1 + 1) :
              shards'[i] = shards[1 + i - 1]
    BY <2>1, <2>2, SubSeqProperties
  <2> QED
    BY <2>3, <1>1
<1>3. DOMAIN shards' = 1..(Len(shards) - 1)
  BY <1>2, LenProperties
<1>4. InUse' = InUse \ {shards[Len(shards)]}
  <2>1. \A s \in InUse' : \E i \in 1..(Len(shards) - 1) : s = shards[i]
    BY <1>2, <1>3 DEF InUse
  <2>2. \A i \in 1..(Len(shards) - 1) : shards[i] \in InUse'
    BY <1>2, <1>3 DEF InUse
  <2>3. \A s \in InUse : \E i \in 1..Len(shards) : s = shards[i]
    BY <1>1 DEF InUse
  <2>4. \A i \in 1..(Len(shards) - 1) : shards[i] # shards[Len(shards)]
    BY <1>1 DEF Distinct
  <2>5. InUse' \subseteq InUse \ {shards[Len(shards)]}
    BY <1>1, <2>1, <2>4
  <2>6. InUse \ {shards[Len(shards)]} \subseteq InUse'
    <3> SUFFICES ASSUME NEW s \in InUse, s # shards[Len(shards)]
                 PROVE  s \in InUse'
      OBVIOUS
    <3>1. PICK i \in 1..Len(shards) : s = shards[i]
      BY <2>3
    <3>2. i \in 1..(Len(shards) - 1)
      BY <3>1, <1>1
    <3> QED
      BY <3>1, <3>2, <2>2
  <2> QED
    BY <2>5, <2>6
<1>5. Distinct'
  BY <1>1, <1>2, <1>3 DEF Distinct
<1> QED
  BY <1>1, <1>2, <1>4, <1>5

\* trimEmptyShards leaves a shard out.
LEMMA LeftOut ==
    ASSUME TypeOK, Distinct, NEW i \in DOMAIN shards,
           shards' = [j \in 1..(Len(shards) - 1) |->
                        IF j < i THEN shards[j] ELSE shards[j + 1]]
    PROVE  /\ shards' \in Seq(Shards) /\ Len(shards') = Len(shards) - 1
           /\ InUse' = InUse \ {shards[i]} /\ Distinct'
<1>1. /\ Len(shards) \in Nat /\ DOMAIN shards = 1..Len(shards)
      /\ \A j \in 1..Len(shards) : shards[j] \in InUse /\ shards[j] \in Shards
  BY Places
<1>2. shards' \in [1..(Len(shards) - 1) -> Shards] /\ Len(shards) - 1 \in Nat
  BY <1>1
<1>3. shards' \in Seq(Shards)
  BY <1>2, SeqDef
<1>4. Len(shards') = Len(shards) - 1
  BY <1>2, <1>3, LenProperties
<1>5. InUse' = InUse \ {shards[i]}
  <2>1. ASSUME NEW s \in InUse \ {shards[i]} PROVE s \in InUse'
    <3>1. PICK j \in 1..Len(shards) : s = shards[j]
      BY <1>1 DEF InUse
    <3>2. CASE j < i
      <4>1. j \in 1..(Len(shards) - 1) /\ shards'[j] = s
        BY <3>1, <3>2, <1>1
      <4> QED
        BY <4>1, <1>2 DEF InUse
    <3>3. CASE j > i
      <4>1. j - 1 \in 1..(Len(shards) - 1) /\ shards'[j - 1] = s
        BY <3>1, <3>3, <1>1
      <4> QED
        BY <4>1, <1>2 DEF InUse
    <3> QED
      BY <3>1, <3>2, <3>3, <1>1
  <2>2. ASSUME NEW s \in InUse' PROVE s \in InUse \ {shards[i]}
    <3>1. PICK j \in 1..(Len(shards) - 1) : s = shards'[j]
      BY <1>2 DEF InUse
    <3>2. \E k \in 1..Len(shards) : s = shards[k] /\ k # i
      BY <3>1, <1>1
    <3> QED
      BY <3>2, <1>1 DEF Distinct
  <2> QED
    BY <2>1, <2>2
<1>6. Distinct'
  BY <1>1, <1>2 DEF Distinct
<1> QED
  BY <1>3, <1>4, <1>5, <1>6

-----------------------------------------------------------------------------
(* Types.                                                                  *)

\* Giving a topic to a shard with room keeps it within its limit.
LEMMA AddOne ==
    ASSUME TypeOK, NEW s \in Shards, NEW t \in Topics, HasRoom(s)
    PROVE  Cardinality(held[s] \cup {t}) <= ShardTopicLimit
<1>1. held[s] \in SUBSET Topics
  BY DEF TypeOK
<1>2. IsFiniteSet(held[s]) /\ Cardinality(held[s]) \in Nat
  BY <1>1, Finite
<1>3. Cardinality(held[s] \cup {t}) = Cardinality(held[s])
      \/ Cardinality(held[s] \cup {t}) = Cardinality(held[s]) + 1
  BY <1>2, FS_AddElement, Zenon
<1> QED
  BY <1>2, <1>3, PubSubManagerAssumption DEF HasRoom

\* Taking topics from shards does so too.
LEMMA Shrink ==
    ASSUME TypeOK, held' \in [Shards -> SUBSET Topics],
           \A s \in Shards : held'[s] \subseteq held[s]
    PROVE  \A s \in Shards : Cardinality(held'[s]) <= ShardTopicLimit
<1> SUFFICES ASSUME NEW s \in Shards
             PROVE  Cardinality(held'[s]) <= ShardTopicLimit
  OBVIOUS
<1>1. held[s] \in SUBSET Topics /\ held'[s] \in SUBSET held[s]
  BY DEF TypeOK
<1>2. /\ Cardinality(held[s]) \in Nat /\ Cardinality(held'[s]) \in Nat
      /\ Cardinality(held'[s]) <= Cardinality(held[s])
  BY <1>1, Finite
<1> QED
  BY <1>2, PubSubManagerAssumption DEF TypeOK

\* The first shard with room, given a topic.
LEMMA AssignedType ==
    ASSUME TypeOK, NEW t \in Topics, NEW i \in DOMAIN shards, Assigned(t, i)
    PROVE  /\ held' \in [Shards -> SUBSET Topics]
           /\ \A s \in Shards : Cardinality(held'[s]) <= ShardTopicLimit
           /\ shards[i] \in InUse /\ shards[i] \in Shards
<1>1. shards[i] \in InUse /\ shards[i] \in Shards
  BY Places
<1>2. Cardinality(held[shards[i]] \cup {t}) <= ShardTopicLimit
  BY <1>1, AddOne DEF Assigned
<1> QED
  BY <1>1, <1>2 DEF Assigned, TypeOK

\* A started or stopped shard has a life.
LEMMA LifeType ==
    ASSUME TypeOK, NEW S, NEW done \in BOOLEAN
    PROVE  /\ Started(S, done) \in [Shards -> {"off", "on", "ending"}]
           /\ Stopped(S) \in [Shards -> {"off", "on", "ending"}]
BY DEF Started, Stopped, TypeOK

\* No step leaves the types; in particular no shard is ever over its limit.
LEMMA StepType == TypeOK /\ Distinct /\ Next => TypeOK'
<1> SUFFICES ASSUME TypeOK, Distinct, Next PROVE TypeOK'
  OBVIOUS
<1> USE PubSubManagerAssumption
<1>1. CASE AddTopics
  BY <1>1, Places DEF AddTopics, Called, Begun, TypeOK
<1>2. CASE RemoveTopics
  <2>1. PICK ts \in SUBSET Topics :
          /\ held' = [s \in Shards |->
                         IF s \in InUse THEN held[s] \ ts ELSE held[s]]
          /\ call' = Begun("remove", {}, ShardsFor(Cardinality(Held \ ts)))
    BY <1>2 DEF RemoveTopics
  <2>2. Cardinality(Held \ ts) \in Nat
    BY Places, Finite
  <2>3. ShardsFor(Cardinality(Held \ ts)) \in Nat
    BY <2>2, Ceiling
  <2>4. held' \in [Shards -> SUBSET Topics]
    BY <2>1 DEF TypeOK
  <2>5. \A s \in Shards : Cardinality(held'[s]) <= ShardTopicLimit
    BY <2>1, <2>4, Shrink
  <2>6. call' \in CallType
    BY <2>1, <2>3 DEF Begun, CallType
  <2>7. /\ UNCHANGED <<shards, life, running, cancelled>>
        /\ calls' \in 0..MaxCalls
    BY <1>2 DEF RemoveTopics, Called, TypeOK
  <2> QED
    BY <2>4, <2>5, <2>6, <2>7 DEF CallType, TypeOK
<1>3. CASE Start
  <2>1. life' \in [Shards -> {"off", "on", "ending"}]
    BY <1>3, LifeType DEF Start
  <2> QED
    BY <1>3, <2>1 DEF Start, Called, TypeOK
<1>4. ASSUME NEW clear \in BOOLEAN, Stop(clear) PROVE TypeOK'
  <2>1. life' \in [Shards -> {"off", "on", "ending"}]
    BY <1>4, LifeType DEF Stop
  <2>2. held' \in [Shards -> SUBSET Topics] /\ shards' \in Seq(Shards)
    BY <1>4, EmptySeq DEF Stop, TypeOK
  <2>3. \A s \in Shards : held'[s] \subseteq held[s]
    BY <1>4 DEF Stop, TypeOK
  <2>4. \A s \in Shards : Cardinality(held'[s]) <= ShardTopicLimit
    BY <2>2, <2>3, Shrink
  <2>5. call' \in CallType
    BY <1>4 DEF Stop, Begun, CallType
  <2>6. running' \in BOOLEAN /\ cancelled' \in BOOLEAN /\ Called
    BY <1>4 DEF Stop
  <2>7. calls' \in 0..MaxCalls
    BY <2>6 DEF Called, TypeOK
  <2> QED
    BY <2>1, <2>2, <2>4, <2>5, <2>6, <2>7 DEF CallType, TypeOK
<1>5. CASE AssignTopic
  <2>1. PICK t \in call.todo :
          \/ /\ \E i \in DOMAIN shards : Assigned(t, i)
             /\ call' = [call EXCEPT !.todo = @ \ {t}]
             /\ UNCHANGED shards
          \/ /\ AllFull
             /\ \E s \in Shards :
                   /\ Unused(s)
                   /\ held' = [held EXCEPT ![s] = {t}]
                   /\ shards' = Append(shards, s)
                   /\ call' = [call EXCEPT !.todo = @ \ {t},
                                           !.fresh = @ \cup {s}]
    BY <1>5 DEF AssignTopic
  <2>2. t \in Topics
    BY DEF TypeOK
  <2>3. CASE /\ \E i \in DOMAIN shards : Assigned(t, i)
             /\ call' = [call EXCEPT !.todo = @ \ {t}]
             /\ UNCHANGED shards
    <3>1. /\ held' \in [Shards -> SUBSET Topics]
          /\ \A s \in Shards : Cardinality(held'[s]) <= ShardTopicLimit
      BY <2>2, <2>3, AssignedType
    <3> QED
      BY <1>5, <2>3, <3>1 DEF AssignTopic, TypeOK
  <2>4. ASSUME NEW s \in Shards, Unused(s), held' = [held EXCEPT ![s] = {t}],
               shards' = Append(shards, s),
               call' = [call EXCEPT !.todo = @ \ {t}, !.fresh = @ \cup {s}]
        PROVE  TypeOK'
    <3>1. Cardinality({t}) = 1
      BY FS_Singleton
    <3>2. shards' \in Seq(Shards)
      BY <2>4, AppendProperties DEF TypeOK
    <3>3. held' \in [Shards -> SUBSET Topics]
      BY <2>2, <2>4 DEF TypeOK
    <3>4. \A r \in Shards : Cardinality(held'[r]) <= ShardTopicLimit
      BY <2>4, <3>1 DEF TypeOK
    <3> QED
      BY <1>5, <2>4, <3>2, <3>3, <3>4 DEF AssignTopic, TypeOK
  <2> QED
    BY <2>1, <2>3, <2>4
<1>6. CASE AddTopicsEnd
  <2>1. life' \in [Shards -> {"off", "on", "ending"}]
    BY <1>6, LifeType DEF AddTopicsEnd, TypeOK
  <2> QED
    BY <1>6, <2>1 DEF AddTopicsEnd, Begun, NoCall, TypeOK
<1>7. CASE DrainShard
  <2>1. Len(shards) > 0
    BY <1>7, Places DEF DrainShard, TypeOK
  <2>2. /\ shards' \in Seq(Shards)
        /\ shards[Len(shards)] \in Shards
    BY <1>7, <2>1, Popped, Places DEF DrainShard
  <2>3. held' \in [Shards -> SUBSET Topics]
    BY <1>7 DEF DrainShard, TypeOK
  <2>4. \A s \in Shards : held'[s] \subseteq held[s]
    BY <1>7 DEF DrainShard, TypeOK
  <2>5. \A s \in Shards : Cardinality(held'[s]) <= ShardTopicLimit
    BY <2>3, <2>4, Shrink
  <2> QED
    BY <1>7, <2>2, <2>3, <2>5 DEF DrainShard, TypeOK
<1>8. CASE RecycleTopic
  <2>1. PICK t \in call.todo :
          /\ call' = [call EXCEPT !.todo = @ \ {t}]
          /\ \/ \E i \in DOMAIN shards : Assigned(t, i)
             \/ AllFull /\ UNCHANGED held
    BY <1>8 DEF RecycleTopic
  <2>2. t \in Topics
    BY DEF TypeOK
  <2>3. /\ held' \in [Shards -> SUBSET Topics]
        /\ \A s \in Shards : Cardinality(held'[s]) <= ShardTopicLimit
    BY <2>1, <2>2, AssignedType DEF TypeOK
  <2> QED
    BY <1>8, <2>1, <2>3 DEF RecycleTopic, TypeOK
<1>9. CASE RemoveTopicsEnd
  <2>1. life' \in [Shards -> {"off", "on", "ending"}]
    BY <1>9, LifeType DEF RemoveTopicsEnd
  <2> QED
    BY <1>9, <2>1 DEF RemoveTopicsEnd, Begun, NoCall, TypeOK
<1>10. CASE TrimShard
  <2>1. shards' \in Seq(Shards)
    BY <1>10, LeftOut DEF TrimShard
  <2> QED
    BY <1>10, <2>1 DEF TrimShard, TypeOK
<1>11. CASE StopEnd
  BY <1>11 DEF StopEnd, Begun, NoCall, TypeOK
<1>12. ASSUME NEW s \in Shards, Refused(s) PROVE TypeOK'
  <2>1. held' \in [Shards -> SUBSET Topics]
    BY <1>12 DEF Refused, TypeOK
  <2>2. \A r \in Shards : held'[r] \subseteq held[r]
    BY <1>12 DEF Refused, TypeOK
  <2>3. \A r \in Shards : Cardinality(held'[r]) <= ShardTopicLimit
    BY <2>1, <2>2, Shrink
  <2> QED
    BY <1>12, <2>1, <2>3 DEF Refused, TypeOK
<1>13. ASSUME NEW s \in Shards, ShardEnds(s) PROVE TypeOK'
  BY <1>13 DEF ShardEnds, TypeOK
<1>14. CASE Cancel
  <2>1. life' \in [Shards -> {"off", "on", "ending"}]
    BY <1>14, LifeType DEF Cancel
  <2> QED
    BY <1>14, <2>1 DEF Cancel, TypeOK
<1> QED
  BY <1>1, <1>2, <1>3, <1>4, <1>5, <1>6, <1>7, <1>8, <1>9, <1>10, <1>11,
     <1>12, <1>13, <1>14 DEF Next, CallStep

\* The initial state has the types.
LEMMA InitType == Init => TypeOK
<1>1. Cardinality({}) = 0
  BY FS_EmptySet
<1> SUFFICES ASSUME Init PROVE TypeOK
  OBVIOUS
<1>2. shards \in Seq(Shards)
  BY EmptySeq DEF Init
<1>3. /\ held \in [Shards -> SUBSET Topics]
      /\ \A s \in Shards : Cardinality(held[s]) <= ShardTopicLimit
  BY <1>1, PubSubManagerAssumption DEF Init
<1>4. call \in CallType
  BY DEF Init, NoCall, Begun, CallType
<1>5. calls \in 0..MaxCalls
  BY PubSubManagerAssumption DEF Init
<1>6. /\ running \in BOOLEAN /\ cancelled \in BOOLEAN
      /\ life \in [Shards -> {"off", "on", "ending"}]
  BY DEF Init
<1> QED
  BY <1>2, <1>3, <1>4, <1>5, <1>6 DEF TypeOK, CallType

-----------------------------------------------------------------------------
(* Where the topics are after each kind of step.                           *)

\* The topics the caller has asked for, in a shard or on the way into one.
Wanted == Held \cup call.todo

\* A topic is taken from call.todo and given to a shard with room.
LEMMA Given ==
    ASSUME TypeOK, TypeOK', Spread, NEW t \in call.todo,
           NEW i \in DOMAIN shards, Assigned(t, i),
           UNCHANGED shards, call' = [call EXCEPT !.todo = @ \ {t}]
    PROVE  Wanted' = Wanted /\ Disjoint' /\ TodoNew'
<1>1. shards[i] \in InUse /\ InUse' = InUse /\ InUse \subseteq Shards
  BY Places DEF InUse
<1>2. \A s \in Shards : held'[s] = IF s = shards[i] THEN held[s] \cup {t}
                                                     ELSE held[s]
  BY <1>1 DEF Assigned, TypeOK
<1>3. call'.todo = call.todo \ {t}
  BY DEF TypeOK
<1>4. Held' = Held \cup {t}
  <2>1. \A s \in InUse : held[s] \subseteq held'[s]
                        /\ held'[s] \subseteq held[s] \cup {t}
    BY <1>1, <1>2
  <2>2. t \in held'[shards[i]]
    BY <1>1, <1>2
  <2> QED
    BY <1>1, <2>1, <2>2 DEF Held
<1>5. t \notin Held
  BY DEF Spread, TodoNew
<1>6. Disjoint'
  <2> SUFFICES ASSUME NEW s \in InUse, NEW r \in InUse, NEW u,
                      u \in held'[s], u \in held'[r]
               PROVE  s = r
    BY <1>1 DEF Disjoint
  <2>1. u = t => s = shards[i] /\ r = shards[i]
    BY <1>1, <1>2, <1>5 DEF Held
  <2>2. u # t => u \in held[s] \cap held[r]
    BY <1>1, <1>2
  <2> QED
    BY <2>1, <2>2 DEF Spread, Disjoint
<1> QED
  BY <1>3, <1>4, <1>6 DEF Wanted, TodoNew, Spread

\* A topic is taken from call.todo and a new shard made for it.
LEMMA MadeRoom ==
    ASSUME TypeOK, Spread, NEW t \in call.todo, NEW s \in Shards \ InUse,
           held' = [held EXCEPT ![s] = {t}], shards' = Append(shards, s),
           call' = [call EXCEPT !.todo = @ \ {t}, !.fresh = @ \cup {s}]
    PROVE  Wanted' = Wanted /\ Disjoint' /\ TodoNew'
<1>1. InUse' = InUse \cup {s} /\ InUse \subseteq Shards
  BY Appended, Places DEF Spread
<1>2. \A r \in Shards : held'[r] = IF r = s THEN {t} ELSE held[r]
  BY DEF TypeOK
<1>3. call'.todo = call.todo \ {t}
  BY DEF TypeOK
<1>4. Held' = Held \cup {t}
  BY <1>1, <1>2 DEF Held
<1>5. t \notin Held
  BY DEF Spread, TodoNew
<1>6. Disjoint'
  <2> SUFFICES ASSUME NEW q \in InUse', NEW r \in InUse', NEW u,
                      u \in held'[q], u \in held'[r]
               PROVE  q = r
    BY DEF Disjoint
  <2>1. u = t => q = s /\ r = s
    BY <1>1, <1>2, <1>5 DEF Held
  <2>2. u # t => /\ q \in InUse /\ r \in InUse
                 /\ u \in held[q] \cap held[r]
    BY <1>1, <1>2
  <2> QED
    BY <2>1, <2>2 DEF Spread, Disjoint
<1> QED
  BY <1>3, <1>4, <1>6 DEF Wanted, TodoNew, Spread

\* The last shard's topics go to call.todo: another shard has none of them.
LEMMA Drained ==
    ASSUME TypeOK, Spread, DrainShard
    PROVE  /\ Wanted' = Wanted /\ Disjoint' /\ TodoNew' /\ Distinct'
           /\ Len(shards') = Len(shards) - 1
           /\ InUse' = InUse \ {shards[Len(shards)]}
<1> DEFINE last == shards[Len(shards)]
<1>1. Len(shards) > 0
  BY Places DEF DrainShard, TypeOK
<1>2. /\ InUse' = InUse \ {last} /\ last \in InUse /\ InUse \subseteq Shards
      /\ Distinct' /\ Len(shards') = Len(shards) - 1
  BY <1>1, Popped, Places DEF DrainShard, Spread
<1>3. \A s \in Shards : held'[s] = IF s = last THEN {} ELSE held[s]
  BY <1>2 DEF DrainShard, TypeOK
<1>4. call'.todo = call.todo \cup held[last]
  BY DEF DrainShard, TypeOK
<1> HIDE DEF last
<1>5. Held = Held' \cup held[last]
  BY <1>2, <1>3 DEF Held
<1>6. Held' \cap held[last] = {}
  BY <1>2, <1>3 DEF Held, Spread, Disjoint
<1>7. Disjoint'
  BY <1>2, <1>3 DEF Spread, Disjoint
<1> QED
  BY <1>2, <1>4, <1>5, <1>6, <1>7 DEF Wanted, TodoNew, Spread, last

\* Shards lose topics, and no topic comes.
LEMMA Lost ==
    ASSUME TypeOK, Spread, InUse' \subseteq InUse,
           \A s \in InUse' : held'[s] \subseteq held[s],
           call'.todo = call.todo
    PROVE  /\ Wanted' \subseteq Wanted /\ Held' \subseteq Held
           /\ Disjoint' /\ TodoNew'
<1>1. Held' \subseteq Held
  BY DEF Held
<1>2. Disjoint'
  BY DEF Disjoint, Spread
<1> QED
  BY <1>1, <1>2 DEF Wanted, TodoNew, Spread

\* What is wanted still fits, when it has not grown.
LEMMA StillFits ==
    ASSUME TypeOK, Wanted' \subseteq Wanted
    PROVE  /\ Wanted \subseteq Topics
           /\ Cardinality(Wanted) \in Nat /\ Cardinality(Wanted') \in Nat
           /\ Cardinality(Wanted') <= Cardinality(Wanted)
           /\ Cardinality(Held) \in Nat
<1>1. Wanted \in SUBSET Topics /\ Held \in SUBSET Topics
  BY Places DEF Wanted, TypeOK
<1> QED
  BY <1>1, Finite

\* A shard is made only while there are fewer than MaxShards: the others are
\* full, and the topic has to fit as well.
LEMMA RoomForShard ==
    ASSUME TypeOK, Spread, AllFull, NEW t \in call.todo,
           NEW n \in Nat, Cardinality(Wanted) <= n * ShardTopicLimit
    PROVE  Len(shards) < n
<1>1. Cardinality(Held) >= Len(shards) * ShardTopicLimit
  BY FullCount DEF Spread
<1>2. t \in Topics /\ t \notin Held /\ Held \cup {t} \subseteq Wanted
  BY DEF TypeOK, Spread, TodoNew, Wanted
<1>3. Wanted \in SUBSET Topics /\ Held \in SUBSET Topics
  BY Places DEF Wanted, TypeOK
<1>4. IsFiniteSet(Held) /\ Cardinality(Held) \in Nat
  BY <1>3, Finite
<1>5. Cardinality(Held \cup {t}) = Cardinality(Held) + 1
  BY <1>2, <1>4, FS_AddElement, Zenon
<1>6. /\ Cardinality(Held \cup {t}) <= Cardinality(Wanted)
      /\ Cardinality(Wanted) \in Nat
  BY <1>2, <1>3, Finite
<1>7. Len(shards) * ShardTopicLimit < n * ShardTopicLimit
  <2>1. Len(shards) \in Nat /\ ShardTopicLimit \in Nat
    BY Places, PubSubManagerAssumption
  <2>2. Len(shards) * ShardTopicLimit \in Nat /\ n * ShardTopicLimit \in Nat
    BY <2>1
  <2> QED
    BY <2>2, <1>1, <1>4, <1>5, <1>6
<1>8. Len(shards) \in Nat /\ ShardTopicLimit \in Nat
  BY Places, PubSubManagerAssumption
<1>9. n <= Len(shards) => n * ShardTopicLimit <= Len(shards) * ShardTopicLimit
  BY <1>8
<1> QED
  BY <1>7, <1>8, <1>9

-----------------------------------------------------------------------------
(* Spread is kept.                                                         *)

\* A step that makes no shard and wants no more keeps the counts.
LEMMA Counts ==
    ASSUME TypeOK, Spread, Wanted' \subseteq Wanted, Len(shards') <= Len(shards),
           call'.op = "remove" => call.op = "remove" /\ call'.keep = call.keep,
           TypeOK'
    PROVE  /\ Fits' /\ ShardsBounded'
           /\ call'.op = "remove" =>
                 Cardinality(Wanted') <= call'.keep * ShardTopicLimit
<1>1. /\ Cardinality(Wanted) \in Nat /\ Cardinality(Wanted') \in Nat
      /\ Cardinality(Wanted') <= Cardinality(Wanted)
  BY StillFits
<1>2. MaxShards * ShardTopicLimit \in Nat /\ call.keep * ShardTopicLimit \in Nat
  BY PubSubManagerAssumption DEF TypeOK
<1>3. Cardinality(Wanted) <= MaxShards * ShardTopicLimit
  BY DEF Spread, Fits, Wanted
<1>4. Fits'
  BY <1>1, <1>2, <1>3 DEF Fits, Wanted
<1>5. ShardsBounded'
  <2>1. Len(shards) \in Nat /\ Len(shards') \in Nat
    BY Places, LenProperties DEF TypeOK
  <2> QED
    BY <2>1, PubSubManagerAssumption DEF Spread, ShardsBounded
<1>6. call.op = "remove" =>
          Cardinality(Wanted) <= call.keep * ShardTopicLimit
  BY DEF Spread, Recyclable, Wanted
<1> QED
  BY <1>1, <1>2, <1>4, <1>5, <1>6

\* The topics AddTopics accepts are new and fit.
LEMMA SpreadAdd == TypeOK /\ Spread /\ AddTopics => Spread'
<1> SUFFICES ASSUME TypeOK, Spread, AddTopics PROVE Spread'
  OBVIOUS
<1>1. PICK ts \in SUBSET (Topics \ Held) :
        /\ Cardinality(ts) + Cardinality(Held) <= MaxShards * ShardTopicLimit
        /\ call' = Begun("add", ts, 0)
  BY DEF AddTopics
<1>2. UNCHANGED <<shards, held>>
  BY DEF AddTopics
<1>3. InUse' = InUse /\ Held' = Held
  BY <1>2 DEF InUse, Held
<1>4. /\ call'.op = "add" /\ call'.todo = ts
      /\ call'.fresh = {} /\ call'.old = {}
  BY <1>1 DEF Begun
<1>5. Fits'
  <2>1. Held \in SUBSET Topics /\ ts \in SUBSET Topics
    BY Places
  <2>2. IsFiniteSet(Held) /\ IsFiniteSet(ts) /\ Held \cap ts = {}
    BY <2>1, Finite
  <2>3. Cardinality(Held \cup ts) = Cardinality(Held) + Cardinality(ts)
                                     - Cardinality(Held \cap ts)
    BY <2>2, FS_Union
  <2>4. /\ Cardinality(Held \cap ts) = 0
        /\ Cardinality(Held) \in Nat /\ Cardinality(ts) \in Nat
    BY <2>2, FS_EmptySet, FS_CardinalityType
  <2>5. Cardinality(Held \cup ts) <= MaxShards * ShardTopicLimit
    <3>1. MaxShards * ShardTopicLimit \in Nat
      BY PubSubManagerAssumption
    <3> QED
      BY <1>1, <2>3, <2>4, <3>1
  <2> QED
    BY <1>3, <1>4, <2>5 DEF Fits
<1> QED
  BY <1>1, <1>2, <1>3, <1>4, <1>5
     DEF Spread, Distinct, Disjoint, TodoNew, CallShape, Recyclable,
         ShardsBounded

\* RemoveTopics keeps as many shards as what is left needs.
LEMMA SpreadRemove == TypeOK /\ Spread /\ RemoveTopics => Spread'
<1> SUFFICES ASSUME TypeOK, Spread, RemoveTopics PROVE Spread'
  OBVIOUS
<1>1. PICK ts \in SUBSET Topics :
        /\ held' = [s \in Shards |->
                       IF s \in InUse THEN held[s] \ ts ELSE held[s]]
        /\ call' = Begun("remove", {}, ShardsFor(Cardinality(Held \ ts)))
  BY DEF RemoveTopics
<1>2. UNCHANGED shards /\ call.op = "none"
  BY DEF RemoveTopics, Called
<1>3. /\ call'.op = "remove" /\ call'.todo = {} /\ call'.fresh = {}
      /\ call'.old = {} /\ call'.keep = ShardsFor(Cardinality(Held \ ts))
  BY <1>1 DEF Begun
<1>4. call.todo = {}
  BY <1>2 DEF Spread, CallShape
<1>5. InUse' = InUse /\ InUse \subseteq Shards
  BY <1>2, Places DEF InUse
<1>6. \A s \in InUse : held'[s] = held[s] \ ts
  BY <1>1, <1>5
<1>7. Wanted' \subseteq Wanted /\ Disjoint' /\ TodoNew'
  BY <1>3, <1>4, <1>5, <1>6, Lost
<1>8. Held' = Held \ ts
  BY <1>5, <1>6 DEF Held
<1>9. Cardinality(Held') \in Nat
      /\ Cardinality(Held') <= ShardsFor(Cardinality(Held')) * ShardTopicLimit
  <2>1. Held' \in SUBSET Topics
    BY <1>8, Places
  <2> QED
    BY <2>1, Finite, Ceiling
<1>10. Fits'
  <2>1. /\ Cardinality(Wanted) \in Nat /\ Cardinality(Wanted') \in Nat
        /\ Cardinality(Wanted') <= Cardinality(Wanted)
    BY <1>7, StillFits
  <2>2. Cardinality(Wanted) <= MaxShards * ShardTopicLimit
    BY DEF Spread, Fits, Wanted
  <2>3. MaxShards * ShardTopicLimit \in Nat
    BY PubSubManagerAssumption
  <2> QED
    BY <2>1, <2>2, <2>3 DEF Fits, Wanted
<1>11. Recyclable'
  BY <1>3, <1>8, <1>9 DEF Recyclable
<1> QED
  BY <1>2, <1>3, <1>7, <1>10, <1>11
     DEF Spread, Distinct, CallShape, ShardsBounded

\* A new shard is not one too many.
LEMMA SpreadAssign == TypeOK /\ TypeOK' /\ Spread /\ AssignTopic
                      => Spread' /\ Wanted' = Wanted
<1> SUFFICES ASSUME TypeOK, TypeOK', Spread, AssignTopic
             PROVE  Spread' /\ Wanted' = Wanted
  OBVIOUS
<1>1. PICK t \in call.todo :
        \/ /\ \E i \in DOMAIN shards : Assigned(t, i)
           /\ call' = [call EXCEPT !.todo = @ \ {t}]
           /\ UNCHANGED shards
        \/ /\ AllFull
           /\ \E s \in Shards :
                 /\ Unused(s)
                 /\ held' = [held EXCEPT ![s] = {t}]
                 /\ shards' = Append(shards, s)
                 /\ call' = [call EXCEPT !.todo = @ \ {t},
                                         !.fresh = @ \cup {s}]
  BY DEF AssignTopic
<1>2. call.op = "add"
  BY DEF AssignTopic
<1>3. ASSUME NEW i \in DOMAIN shards, Assigned(t, i), UNCHANGED shards,
             call' = [call EXCEPT !.todo = @ \ {t}]
      PROVE  Spread' /\ Wanted' = Wanted
  <2>1. Wanted' = Wanted /\ Disjoint' /\ TodoNew'
    BY <1>3, Given
  <2>2. call'.op = "add" /\ call'.old = call.old
    BY <1>2, <1>3 DEF TypeOK
  <2>3. CallShape' /\ Recyclable'
    BY <1>2, <2>2 DEF Spread, CallShape, Recyclable
  <2>4. Len(shards') <= Len(shards)
    BY <1>3, Places
  <2>5. Fits' /\ ShardsBounded'
    BY <2>1, <2>2, <2>4, Counts
  <2> QED
    BY <1>3, <2>1, <2>3, <2>5 DEF Spread, Distinct
<1>4. ASSUME AllFull, NEW s \in Shards, Unused(s),
             held' = [held EXCEPT ![s] = {t}], shards' = Append(shards, s),
             call' = [call EXCEPT !.todo = @ \ {t}, !.fresh = @ \cup {s}]
      PROVE  Spread' /\ Wanted' = Wanted
  <2>1. s \in Shards \ InUse
    BY <1>4 DEF Unused
  <2>2. Wanted' = Wanted /\ Disjoint' /\ TodoNew'
    BY <1>4, <2>1, MadeRoom
  <2>3. Distinct' /\ Len(shards') = Len(shards) + 1
    BY <1>4, <2>1, Appended DEF Spread
  <2>4. call'.op = "add" /\ call'.old = call.old
    BY <1>2, <1>4 DEF TypeOK
  <2>5. CallShape' /\ Recyclable'
    BY <1>2, <2>4 DEF Spread, CallShape, Recyclable
  <2>6. Cardinality(Wanted) <= MaxShards * ShardTopicLimit
    BY DEF Spread, Fits, Wanted
  <2>7. Len(shards) < MaxShards
    BY <1>4, <2>6, RoomForShard, PubSubManagerAssumption
  <2>8. ShardsBounded'
    BY <2>3, <2>7, Places, PubSubManagerAssumption DEF ShardsBounded
  <2>9. Fits'
    BY <2>2, <2>6 DEF Fits, Wanted
  <2> QED
    BY <2>2, <2>3, <2>5, <2>8, <2>9 DEF Spread
<1> QED
  BY <1>1, <1>3, <1>4

\* Draining stops at the number of shards to keep.
LEMMA SpreadDrain == TypeOK /\ TypeOK' /\ Spread /\ DrainShard
                     => Spread' /\ Wanted' = Wanted
<1> SUFFICES ASSUME TypeOK, TypeOK', Spread, DrainShard
             PROVE  Spread' /\ Wanted' = Wanted
  OBVIOUS
<1>1. /\ Wanted' = Wanted /\ Disjoint' /\ TodoNew' /\ Distinct'
      /\ Len(shards') = Len(shards) - 1
  BY Drained
<1>2. call.op = "remove" /\ Len(shards) > call.keep
  BY DEF DrainShard
<1>3. call'.op = call.op /\ call'.keep = call.keep /\ call'.fresh = call.fresh
  BY DEF DrainShard, TypeOK
<1>4. Len(shards) \in Nat /\ call.keep \in Nat
  BY Places DEF TypeOK
<1>5. Len(shards') <= Len(shards)
  BY <1>1, <1>4
<1>6. /\ Fits' /\ ShardsBounded'
      /\ Cardinality(Wanted') <= call'.keep * ShardTopicLimit
  BY <1>1, <1>2, <1>3, <1>5, Counts
<1>7. Len(shards') >= call'.keep
  BY <1>1, <1>2, <1>3, <1>4
<1>8. CallShape'
  BY <1>2, <1>3 DEF Spread, CallShape
<1>9. Recyclable'
  BY <1>6, <1>7 DEF Recyclable, Wanted
<1> QED
  BY <1>1, <1>6, <1>8, <1>9 DEF Spread

\* A drained topic always finds a shard with room.
LEMMA SpreadRecycle == TypeOK /\ TypeOK' /\ Spread /\ RecycleTopic
                       => Spread' /\ Wanted' = Wanted
<1> SUFFICES ASSUME TypeOK, TypeOK', Spread, RecycleTopic
             PROVE  Spread' /\ Wanted' = Wanted
  OBVIOUS
<1>1. PICK t \in call.todo :
        /\ call' = [call EXCEPT !.todo = @ \ {t}]
        /\ \/ \E i \in DOMAIN shards : Assigned(t, i)
           \/ AllFull /\ UNCHANGED held
  BY DEF RecycleTopic
<1>2. call.op = "remove" /\ Len(shards) <= call.keep /\ UNCHANGED shards
  BY DEF RecycleTopic
<1>3. Len(shards) \in Nat /\ call.keep \in Nat
  BY Places DEF TypeOK
<1>4. Len(shards) = call.keep
  BY <1>2, <1>3 DEF Spread, Recyclable
<1>5. ~AllFull
  <2>1. Cardinality(Wanted) <= call.keep * ShardTopicLimit
    BY <1>2 DEF Spread, Recyclable, Wanted
  <2>2. AllFull => Len(shards) < call.keep
    BY <1>3, <2>1, RoomForShard
  <2> QED
    BY <1>3, <1>4, <2>2
<1>6. PICK i \in DOMAIN shards : Assigned(t, i)
  BY <1>1, <1>5
<1>7. Wanted' = Wanted /\ Disjoint' /\ TodoNew'
  BY <1>1, <1>2, <1>6, Given
<1>8. call'.op = call.op /\ call'.keep = call.keep /\ call'.fresh = call.fresh
  BY <1>1 DEF TypeOK
<1>9. Len(shards') = Len(shards)
  BY <1>2
<1>10. /\ Fits' /\ ShardsBounded'
       /\ Cardinality(Wanted') <= call'.keep * ShardTopicLimit
  BY <1>2, <1>3, <1>7, <1>8, <1>9, Counts
<1>11. CallShape'
  BY <1>2, <1>8 DEF Spread, CallShape
<1>12. Recyclable'
  BY <1>3, <1>4, <1>8, <1>9, <1>10 DEF Recyclable, Wanted
<1> QED
  BY <1>2, <1>7, <1>10, <1>11, <1>12 DEF Spread, Distinct

\* Most steps do not touch the topics.
LEMMA SpreadSame ==
    ASSUME Spread, UNCHANGED <<shards, held, call>>
    PROVE  Spread' /\ Wanted' = Wanted
BY DEF Spread, Distinct, Disjoint, TodoNew, CallShape, Fits, Recyclable,
       ShardsBounded, InUse, Held, Wanted

\* A call that has given away its topics ends.
LEMMA SpreadEnd ==
    ASSUME Spread, UNCHANGED <<shards, held>>, call' = NoCall, call.todo = {}
    PROVE  Spread' /\ Wanted' = Wanted
<1>1. InUse' = InUse /\ Held' = Held
  BY DEF InUse, Held
<1>2. /\ call'.op = "none" /\ call'.todo = {}
      /\ call'.fresh = {} /\ call'.old = {}
  BY DEF NoCall, Begun
<1>3. Wanted' = Wanted
  BY <1>1, <1>2 DEF Wanted
<1>4. Fits'
  BY <1>3 DEF Spread, Fits, Wanted
<1> QED
  BY <1>1, <1>2, <1>3, <1>4
     DEF Spread, Distinct, Disjoint, TodoNew, CallShape, Recyclable,
         ShardsBounded

\* Stop keeps the topics or drops them all.
LEMMA SpreadStop ==
    ASSUME TypeOK, TypeOK', Spread, NEW clear \in BOOLEAN, Stop(clear)
    PROVE  Spread' /\ Wanted' \in {Wanted, {}}
<1>1. call.op = "none"
  BY DEF Stop, Called
<1>2. call.todo = {}
  BY <1>1 DEF Spread, CallShape
<1>3. /\ call'.op \in {"clear", "trim"} /\ call'.todo = {}
      /\ call'.fresh = {} /\ call'.old = {}
  BY DEF Stop, Begun
<1>4. InUse' \subseteq InUse /\ (InUse' = {} \/ UNCHANGED <<shards, held>>)
  BY DEF Stop, InUse
<1>5. /\ Wanted' \subseteq Wanted /\ Held' \subseteq Held
      /\ Disjoint' /\ TodoNew'
  BY <1>2, <1>3, <1>4, Lost
<1>6. Len(shards') <= Len(shards) /\ Distinct'
  <2>1. shards' = <<>> \/ shards' = shards
    BY DEF Stop
  <2>2. Len(<<>>) = 0 /\ DOMAIN <<>> = {}
    BY EmptySeq
  <2> QED
    BY <2>1, <2>2, Places DEF Spread, Distinct
<1>7. Fits' /\ ShardsBounded'
  BY <1>3, <1>5, <1>6, Counts
<1>8. CallShape' /\ Recyclable'
  BY <1>3 DEF CallShape, Recyclable
<1>9. Wanted' \in {Wanted, {}}
  BY <1>2, <1>3, <1>4 DEF Wanted, Held, InUse
<1> QED
  BY <1>5, <1>6, <1>7, <1>8, <1>9 DEF Spread

\* An empty shard is left out.
LEMMA SpreadTrim == TypeOK /\ TypeOK' /\ Spread /\ TrimShard
                    => Spread' /\ Wanted' = Wanted
<1> SUFFICES ASSUME TypeOK, TypeOK', Spread, TrimShard
             PROVE  Spread' /\ Wanted' = Wanted
  OBVIOUS
<1>1. PICK i \in DOMAIN shards :
        /\ held[shards[i]] = {}
        /\ shards' = [j \in 1..(Len(shards) - 1) |->
                         IF j < i THEN shards[j] ELSE shards[j + 1]]
  BY DEF TrimShard
<1>2. UNCHANGED <<held, call>> /\ call.op = "trim"
  BY DEF TrimShard
<1>3. /\ InUse' = InUse \ {shards[i]} /\ Distinct'
      /\ Len(shards') = Len(shards) - 1
  BY <1>1, LeftOut DEF Spread
<1>4. Held' = Held
  BY <1>1, <1>2, <1>3 DEF Held
<1>5. Wanted' = Wanted
  BY <1>2, <1>4 DEF Wanted
<1>6. Disjoint' /\ TodoNew'
  BY <1>2, <1>3, <1>4 DEF Spread, Disjoint, TodoNew
<1>7. Len(shards') <= Len(shards)
  BY <1>3, Places
<1>8. Fits' /\ ShardsBounded'
  BY <1>2, <1>5, <1>7, Counts
<1>9. CallShape' /\ Recyclable'
  BY <1>2 DEF Spread, CallShape, Recyclable
<1> QED
  BY <1>3, <1>5, <1>6, <1>8, <1>9 DEF Spread

\* Topics are dropped that the server refuses.
LEMMA SpreadRefused ==
    ASSUME TypeOK, TypeOK', Spread, NEW s \in Shards, Refused(s)
    PROVE  /\ Spread' /\ Wanted' \subseteq Wanted
           /\ Wanted \ Wanted' \subseteq Refusable
<1>1. PICK ts \in SUBSET (held[s] \cap Refusable) :
        held' = [held EXCEPT ![s] = @ \ ts]
  BY DEF Refused
<1>2. UNCHANGED <<shards, call>>
  BY DEF Refused
<1>3. InUse' = InUse /\ InUse \subseteq Shards
  BY <1>2, Places DEF InUse
<1>4. \A r \in Shards : held'[r] \subseteq held[r]
                        /\ held[r] \subseteq held'[r] \cup Refusable
  BY <1>1 DEF TypeOK
<1>5. Wanted' \subseteq Wanted /\ Disjoint' /\ TodoNew'
  BY <1>2, <1>3, <1>4, Lost
<1>6. Wanted \ Wanted' \subseteq Refusable
  BY <1>2, <1>3, <1>4 DEF Wanted, Held
<1>7. Len(shards') <= Len(shards)
  BY <1>2, Places
<1>8. /\ Fits' /\ ShardsBounded'
      /\ call'.op = "remove" =>
            Cardinality(Wanted') <= call'.keep * ShardTopicLimit
  BY <1>2, <1>5, <1>7, Counts
<1>9. CallShape' /\ Distinct'
  BY <1>2 DEF Spread, CallShape, Distinct
<1>10. Recyclable'
  BY <1>2, <1>8 DEF Spread, Recyclable, Wanted
<1> QED
  BY <1>5, <1>6, <1>8, <1>9, <1>10 DEF Spread

\* Spread is kept by every step.
LEMMA SpreadStep == TypeOK /\ TypeOK' /\ Spread /\ Next => Spread'
<1> SUFFICES ASSUME TypeOK, TypeOK', Spread, Next PROVE Spread'
  OBVIOUS
<1>1. CASE AddTopics
  BY <1>1, SpreadAdd
<1>2. CASE RemoveTopics
  BY <1>2, SpreadRemove
<1>3. CASE Start
  BY <1>3, SpreadSame DEF Start
<1>4. ASSUME NEW clear \in BOOLEAN, Stop(clear) PROVE Spread'
  BY <1>4, SpreadStop
<1>5. CASE AssignTopic
  BY <1>5, SpreadAssign
<1>6. CASE AddTopicsEnd
  BY <1>6, SpreadEnd DEF AddTopicsEnd
<1>7. CASE DrainShard
  BY <1>7, SpreadDrain
<1>8. CASE RecycleTopic
  BY <1>8, SpreadRecycle
<1>9. CASE RemoveTopicsEnd
  BY <1>9, SpreadEnd DEF RemoveTopicsEnd
<1>10. CASE TrimShard
  BY <1>10, SpreadTrim
<1>11. CASE StopEnd
  BY <1>11, SpreadEnd DEF StopEnd, Spread, CallShape
<1>12. ASSUME NEW s \in Shards, Refused(s) PROVE Spread'
  BY <1>12, SpreadRefused
<1>13. ASSUME NEW s \in Shards, ShardEnds(s) PROVE Spread'
  BY <1>13, SpreadSame DEF ShardEnds
<1>14. CASE Cancel
  BY <1>14, SpreadSame DEF Cancel
<1> QED
  BY <1>1, <1>2, <1>3, <1>4, <1>5, <1>6, <1>7, <1>8, <1>9, <1>10, <1>11,
     <1>12, <1>13, <1>14 DEF Next, CallStep

\* Nothing is anywhere at first.
LEMMA SpreadInit == Init => Spread
<1> SUFFICES ASSUME Init PROVE Spread
  OBVIOUS
<1>1. Len(<<>>) = 0 /\ DOMAIN <<>> = {}
  BY EmptySeq
<1>2. InUse = {} /\ Held = {}
  BY <1>1 DEF Init, InUse, Held
<1>3. /\ call.op = "none" /\ call.todo = {}
      /\ call.fresh = {} /\ call.old = {}
  BY DEF Init, NoCall, Begun
<1>4. Cardinality(Held \cup call.todo) = 0
  BY <1>2, <1>3, FS_EmptySet
<1>5. Fits
  BY <1>4, PubSubManagerAssumption DEF Fits
<1>6. ShardsBounded
  BY <1>1, PubSubManagerAssumption DEF Init, ShardsBounded
<1> QED
  BY <1>1, <1>2, <1>3, <1>5, <1>6
     DEF Init, Spread, Distinct, Disjoint, TodoNew, CallShape, Recyclable

-----------------------------------------------------------------------------
(* Goroutines is kept, and so is all of the invariant.                     *)

\* A step that leaves m.shards and the call alone, and keeps what is off off
\* and what is on on.
LEMMA GoroutinesSame ==
    ASSUME Goroutines, UNCHANGED <<shards, running, call>>,
           cancelled \/ ~running => cancelled' \/ ~running,
           \A s \in Shards : life[s] = "off" => life'[s] = "off",
           running /\ ~cancelled' => \A s \in Shards : life[s] = "on"
                                                    => life'[s] = "on",
           InUse \subseteq Shards, call.fresh \subseteq Shards
    PROVE  Goroutines'
BY DEF Goroutines, InUse

\* In Start and at the end of AddTopics the shards without goroutines get
\* them; every other step only ends some that may end.
LEMMA GoroutinesStep ==
    TypeOK /\ TypeOK' /\ Spread /\ Goroutines /\ Next => Goroutines'
<1> SUFFICES ASSUME TypeOK, TypeOK', Spread, Goroutines, Next
             PROVE  Goroutines'
  OBVIOUS
<1>p. /\ InUse \subseteq Shards /\ call.fresh \subseteq Shards
      /\ call.old \subseteq Shards
  BY Places DEF TypeOK
<1>n. /\ NoCall.op = "none" /\ NoCall.fresh = {} /\ NoCall.old = {}
  BY DEF NoCall, Begun
<1>1. CASE AddTopics
  <2>1. call'.op = "add" /\ call'.fresh = {} /\ call'.old = {}
    BY <1>1 DEF AddTopics, Begun
  <2>2. /\ call.op = "none" /\ call.fresh = {}
        /\ UNCHANGED <<shards, life, running, cancelled>>
    BY <1>1 DEF AddTopics, Called, Spread, CallShape
  <2> QED
    BY <2>1, <2>2 DEF Goroutines, InUse
<1>2. CASE RemoveTopics
  <2>1. call'.op = "remove" /\ call'.fresh = {} /\ call'.old = {}
    BY <1>2 DEF RemoveTopics, Begun
  <2>2. /\ call.op = "none" /\ call.fresh = {}
        /\ UNCHANGED <<shards, life, running, cancelled>>
    BY <1>2 DEF RemoveTopics, Called, Spread, CallShape
  <2> QED
    BY <2>1, <2>2 DEF Goroutines, InUse
<1>3. CASE Start
  <2>1. /\ call.op = "none" /\ call.fresh = {} /\ call.old = {}
        /\ UNCHANGED <<shards, call>> /\ ~running /\ running'
    BY <1>3 DEF Start, Called, Spread, CallShape
  <2>2. \A s \in Shards : life[s] = "off"
    BY <2>1 DEF Goroutines
  <2>3. ~cancelled' => \A s \in InUse : life'[s] = "on"
    BY <1>3, <2>2, <1>p DEF Start, Started
  <2> QED
    BY <2>1, <2>3 DEF Goroutines, InUse
<1>4. ASSUME NEW clear \in BOOLEAN, Stop(clear) PROVE Goroutines'
  <2>1. /\ call'.op \in {"clear", "trim"} /\ call'.fresh = {}
        /\ call'.old = {} /\ ~running'
    BY <1>4 DEF Stop, Begun
  <2> QED
    BY <2>1 DEF Goroutines
<1>5. CASE AssignTopic
  <2>1. /\ call'.op = "add" /\ call.op = "add" /\ call'.old = call.old
        /\ UNCHANGED <<life, running, cancelled>> /\ call.old = {}
    BY <1>5 DEF AssignTopic, TypeOK, Spread, CallShape
  <2>2. CASE UNCHANGED shards /\ call'.fresh = call.fresh
    BY <2>1, <2>2 DEF Goroutines, InUse
  <2>3. ASSUME NEW s \in Shards, Unused(s), shards' = Append(shards, s),
               call'.fresh = call.fresh \cup {s}
        PROVE  Goroutines'
    <3>1. InUse' = InUse \cup {s}
      BY <2>3, Appended DEF Unused, Spread
    <3>2. life[s] = "off"
      BY <2>3 DEF Unused
    <3> QED
      BY <2>1, <2>3, <3>1, <3>2 DEF Goroutines
  <2> QED
    BY <1>5, <2>2, <2>3 DEF AssignTopic, TypeOK
<1>6. CASE AddTopicsEnd
  <2>1. /\ call.op = "add" /\ call' = NoCall
        /\ UNCHANGED <<shards, running, cancelled>>
        /\ life' = IF running THEN Started(call.fresh, cancelled) ELSE life
    BY <1>6 DEF AddTopicsEnd
  <2>2. ~running => \A s \in Shards : life'[s] = "off"
    BY <2>1 DEF Goroutines
  <2>3. running /\ ~cancelled => \A s \in InUse : life'[s] = "on"
    BY <2>1, <1>p DEF Goroutines, Started
  <2> QED
    BY <2>1, <2>2, <2>3, <1>n DEF Goroutines, InUse
<1>7. CASE DrainShard
  <2>1. InUse' = InUse \ {shards[Len(shards)]}
    BY <1>7, Drained
  <2>2. /\ call'.op = call.op /\ call'.fresh = call.fresh
        /\ call'.old = call.old \cup {shards[Len(shards)]}
        /\ UNCHANGED <<life, running, cancelled>>
    BY <1>7 DEF DrainShard, TypeOK
  <2> QED
    BY <2>1, <2>2 DEF Goroutines
<1>8. CASE RecycleTopic
  <2>1. /\ call'.op = call.op /\ call'.fresh = call.fresh
        /\ call'.old = call.old
        /\ UNCHANGED <<shards, life, running, cancelled>>
    BY <1>8 DEF RecycleTopic, TypeOK
  <2> QED
    BY <2>1 DEF Goroutines, InUse
<1>9. CASE RemoveTopicsEnd
  <2>1. /\ call.op = "remove" /\ call' = NoCall
        /\ UNCHANGED <<shards, running, cancelled>>
        /\ life' = Stopped(call.old) /\ call.fresh = {}
    BY <1>9 DEF RemoveTopicsEnd, Spread, CallShape
  <2>2. ~running => \A s \in Shards : life'[s] = "off"
    BY <2>1 DEF Goroutines, Stopped
  <2>3. running /\ ~cancelled => \A s \in InUse : life'[s] = "on"
    BY <2>1, <1>p DEF Goroutines, Stopped
  <2> QED
    BY <2>1, <2>2, <2>3, <1>n DEF Goroutines, InUse
<1>10. CASE TrimShard
  <2>1. call.op = "trim" /\ UNCHANGED <<life, running, cancelled, call>>
    BY <1>10 DEF TrimShard
  <2>2. InUse' \subseteq InUse
    BY <1>10, LeftOut DEF TrimShard, Spread
  <2> QED
    BY <2>1, <2>2 DEF Goroutines
<1>11. CASE StopEnd
  <2>1. /\ call.op \in {"clear", "trim"} /\ call' = NoCall
        /\ \A s \in Shards : life[s] = "off"
        /\ UNCHANGED <<shards, life, running, cancelled>>
    BY <1>11 DEF StopEnd
  <2> QED
    BY <2>1, <1>n DEF Goroutines
<1>12. ASSUME NEW s \in Shards, Refused(s) PROVE Goroutines'
  BY <1>12, <1>p, GoroutinesSame DEF Refused
<1>13. ASSUME NEW s \in Shards, ShardEnds(s) PROVE Goroutines'
  <2>1. /\ life[s] = "ending" /\ UNCHANGED <<shards, running, cancelled, call>>
        /\ \A r \in Shards : life'[r] = IF r = s THEN "off" ELSE life[r]
    BY <1>13 DEF ShardEnds, TypeOK
  <2> QED
    BY <2>1, <1>p, GoroutinesSame
<1>14. CASE Cancel
  <2>1. /\ cancelled' /\ UNCHANGED <<shards, running, call>>
        /\ \A s \in Shards : life[s] = "off" => life'[s] = "off"
    BY <1>14 DEF Cancel, Stopped
  <2> QED
    BY <2>1, <1>p, GoroutinesSame
<1> QED
  BY <1>1, <1>2, <1>3, <1>4, <1>5, <1>6, <1>7, <1>8, <1>9, <1>10, <1>11,
     <1>12, <1>13, <1>14 DEF Next, CallStep

\* The invariant holds at first.
LEMMA InitInductive == Init => IInv
<1> SUFFICES ASSUME Init PROVE IInv
  OBVIOUS
<1>1. Goroutines
  BY EmptySeq DEF Init, Goroutines, InUse, NoCall, Begun
<1> QED
  BY <1>1, InitType, SpreadInit DEF IInv

\* Every step keeps it.
LEMMA Inductive == IInv /\ [Next]_vars => IInv'
<1> SUFFICES ASSUME IInv, [Next]_vars PROVE IInv'
  OBVIOUS
<1>1. CASE Next
  <2>1. TypeOK'
    BY <1>1, StepType DEF IInv, Spread
  <2> QED
    BY <1>1, <2>1, SpreadStep, GoroutinesStep DEF IInv
<1>2. CASE UNCHANGED vars
  <2>1. Spread'
    BY <1>2, SpreadSame DEF vars, IInv
  <2>2. TypeOK'
    BY <1>2 DEF vars, IInv, TypeOK
  <2>3. Goroutines'
    BY <1>2 DEF vars, IInv, Goroutines, InUse
  <2> QED
    BY <2>1, <2>2, <2>3 DEF IInv
<1> QED
  BY <1>1, <1>2

-----------------------------------------------------------------------------
(* The theorems.                                                           *)

THEOREM Invariant == Spec => []IInv
BY InitInductive, Inductive, PTL DEF Spec

\* No shard is over its limit, whatever is added, recycled or dropped.
THEOREM TypeCorrect == Spec => []TypeOK
<1>1. IInv => TypeOK
  BY DEF IInv
<1> QED
  BY <1>1, Invariant, PTL

\* AddTopics, RemoveTopics and their recycling never give a topic to two
\* shards.
THEOREM NeverTwice == Spec => []OneShardEach
<1>1. IInv => OneShardEach
  BY Places DEF IInv, Spread, Distinct, Disjoint, OneShardEach
<1> QED
  BY <1>1, Invariant, PTL

\* The check AddTopics makes first is enough: newShard is never called beyond
\* m.maxShards.
THEOREM NeverTooMany == Spec => []ShardsBounded
<1>1. IInv => ShardsBounded
  BY DEF IInv, Spread
<1> QED
  BY <1>1, Invariant, PTL

\* A running manager serves every shard it has between calls.
THEOREM AllServed == Spec => []Served
<1>1. IInv => Served
  BY DEF IInv, Spread, CallShape, Goroutines, Served
<1> QED
  BY <1>1, Invariant, PTL

\* What the caller sees of the call under way.
Shown == IF call.op \in {"clear", "trim"} THEN "stop" ELSE call.op

\* Every step does to the topics what TopicSet allows.
LEMMA StepRefines ==
    ASSUME IInv, IInv', Next
    PROVE  Promise!Next \/ UNCHANGED <<Held \cup call.todo, Shown>>
<1> USE DEF IInv
<1>n. NoCall.op = "none" /\ NoCall.todo = {}
  BY DEF NoCall, Begun
<1>w. Wanted \subseteq Topics
  BY Places DEF Wanted, TypeOK
<1>1. CASE AddTopics
  <2>1. PICK ts \in SUBSET Topics : call' = Begun("add", ts, 0)
    BY <1>1 DEF AddTopics
  <2>2. /\ call.op = "none" /\ call.todo = {}
        /\ call'.op = "add" /\ call'.todo = ts
    BY <1>1, <2>1 DEF AddTopics, Called, Begun, Spread, CallShape
  <2>3. Held' = Held
    BY <1>1 DEF AddTopics, Held, InUse
  <2>4. Cardinality(Held' \cup call'.todo) <= MaxShards * ShardTopicLimit
    BY DEF Spread, Fits
  <2>5. Shown = "none" /\ Shown' = "add"
    BY <2>2 DEF Shown
  <2>6. Promise!Cardinality(Held' \cup call'.todo)
          = Cardinality(Held' \cup call'.todo)
    BY Zenon DEF Promise!Cardinality, Cardinality
  <2>7. Promise!Add
    BY <2>2, <2>3, <2>4, <2>5, <2>6 DEF Promise!Add, Promise!Begin, Shown
  <2> QED
    BY <2>7 DEF Promise!Next
<1>2. CASE RemoveTopics
  <2>1. PICK ts \in SUBSET Topics :
          /\ held' = [s \in Shards |->
                         IF s \in InUse THEN held[s] \ ts ELSE held[s]]
          /\ \E n \in {ShardsFor(Cardinality(Held \ ts))} :
                call' = Begun("remove", {}, n)
    BY <1>2 DEF RemoveTopics
  <2>2. /\ call.op = "none" /\ call.todo = {}
        /\ call'.op = "remove" /\ call'.todo = {}
    BY <1>2, <2>1 DEF RemoveTopics, Called, Begun, Spread, CallShape
  <2>3. InUse' = InUse /\ InUse \subseteq Shards
    BY <1>2, Places DEF RemoveTopics, InUse
  <2>4. Held' = Held \ ts
    BY <2>1, <2>3 DEF Held
  <2>5. Shown = "none" /\ Shown' = "remove"
    BY <2>2 DEF Shown
  <2>6. Promise!Remove
    BY <2>2, <2>4, <2>5 DEF Promise!Remove, Promise!Begin, Shown
  <2> QED
    BY <2>6 DEF Promise!Next
<1>3. CASE Start
  BY <1>3 DEF Start, Held, InUse, Shown
<1>4. ASSUME NEW clear \in BOOLEAN, Stop(clear)
      PROVE  Promise!Next
  <2>1. call.op = "none" /\ call'.op \in {"clear", "trim"}
    BY <1>4 DEF Stop, Called, Begun
  <2>2. Wanted' \in {Wanted, {}}
    BY <1>4, SpreadStop
  <2>3. Shown = "none" /\ Shown' = "stop"
    BY <2>1 DEF Shown
  <2>4. Promise!Stop
    BY <2>2, <2>3 DEF Promise!Stop, Promise!Begin, Shown, Wanted
  <2> QED
    BY <2>4 DEF Promise!Next
<1>5. CASE AssignTopic \/ DrainShard \/ RecycleTopic \/ TrimShard
  <2>1. Wanted' = Wanted
    BY <1>5, SpreadAssign, SpreadDrain, SpreadRecycle, SpreadTrim
  <2>2. call'.op = call.op
    BY <1>5 DEF AssignTopic, DrainShard, RecycleTopic, TrimShard, TypeOK
  <2> QED
    BY <2>1, <2>2 DEF Shown, Wanted
<1>6. CASE AddTopicsEnd \/ RemoveTopicsEnd \/ StopEnd
  <2>1. /\ UNCHANGED <<shards, held>> /\ call' = NoCall /\ call.op # "none"
    BY <1>6 DEF AddTopicsEnd, RemoveTopicsEnd, StopEnd
  <2>2. call.todo = {}
    BY <1>6 DEF AddTopicsEnd, RemoveTopicsEnd, StopEnd, Spread, CallShape
  <2>3. Wanted' = Wanted
    BY <2>1, <2>2, SpreadEnd
  <2>4. Shown # "none" /\ Shown' = "none"
    BY <2>1, <1>n DEF Shown
  <2>5. Promise!End
    BY <2>3, <2>4 DEF Promise!End, Shown, Wanted
  <2> QED
    BY <2>5 DEF Promise!Next
<1>7. ASSUME NEW s \in Shards, Refused(s)
      PROVE  Promise!Next
  <2>1. Wanted' \subseteq Wanted /\ Wanted \ Wanted' \subseteq Refusable
    BY <1>7, SpreadRefused
  <2>2. Wanted' = Wanted \ (Wanted \ Wanted')
    BY <2>1
  <2>3. Shown' = Shown
    BY <1>7 DEF Refused, Shown
  <2>4. Promise!Refuse
    BY <2>1, <2>2, <2>3 DEF Promise!Refuse, Shown, Wanted
  <2> QED
    BY <2>4 DEF Promise!Next
<1>8. CASE Cancel \/ \E s \in Shards : ShardEnds(s)
  BY <1>8 DEF Cancel, ShardEnds, Held, InUse, Shown
<1> QED
  BY <1>1, <1>2, <1>3, <1>4, <1>5, <1>6, <1>7, <1>8 DEF Next, CallStep

\* The manager is a set of topics that changes by whole calls: in particular
\* recycling a shard always finds room for its topics.
THEOREM ImplementsTopicSet == Spec => IsTopicSet
<1>1. Init => Promise!Init
  <2> SUFFICES ASSUME Init PROVE Promise!Init
    OBVIOUS
  <2>1. call.op = "none" /\ call.todo = {}
    BY DEF Init, NoCall, Begun
  <2>2. InUse = {} /\ Held = {}
    BY EmptySeq DEF Init, InUse, Held
  <2> QED
    BY <2>1, <2>2 DEF Promise!Init
<1>2. IInv /\ IInv' /\ [Next]_vars
      => [Promise!Next]_<<Held \cup call.todo, Shown>>
  <2>1. UNCHANGED vars => UNCHANGED <<Held \cup call.todo, Shown>>
    BY DEF vars, Held, InUse, Shown
  <2> QED
    BY <2>1, StepRefines
<1> QED
  BY <1>1, <1>2, Invariant, PTL DEF Spec, IsTopicSet, Promise!Spec, Shown
=============================================================================
